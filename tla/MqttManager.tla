----------------------------- MODULE MqttManager -----------------------------
(***************************************************************************)
(* The MQTT connection all agents of the locker share, and the commands    *)
(* that come in over it.  Four kinds of threads meet in it: publishers,    *)
(* the MQTT library's network thread, which runs every callback, the       *)
(* reconnect loop, and the worker of a remote reboot.  The network thread  *)
(* carries what its callback still has to do as a sequence of tasks; a     *)
(* task is what it does between two points where others can intervene.     *)
(* The library and the broker are modelled as far as the code relies on    *)
(* them: messages of QoS 1 are kept until they are acknowledged, sessions  *)
(* persist, a last will is published for a connection that was not closed. *)
(***************************************************************************)
EXTENDS Sequences, SequencesExt

CONSTANTS Msg, Topic,        \* messages, and the topic of each
          Publisher,         \* threads that publish
          Command, Kind,     \* commands of the backend, and what each asks for
          Answer,            \* Command -> the message that answers it
          Foreign,           \* the commands that carry the id of another locker
          StrictDeviceUuid,  \* QBOX_MQTT_STRICT_DEVICE_UUID
          Cap,               \* max_pending_messages
          Window, Kept,      \* command ids remembered: at most Window, cut down to Kept
          Start              \* the starts of an instance: what is published and posted, whether
                             \* publish_status_topics is set, whether the broker may forget the
                             \* session, and the bounds: lives, restarts of the process, and
                             \* refreshes, forced reconnections

Kinds == {"wifi", "other", "reconnect", "restart", "reboot"}

ASSUME MqttAssumption ==
    /\ Kind \in [Command -> Kinds] /\ Answer \in [Command -> Msg]
    /\ Foreign \subseteq Command /\ StrictDeviceUuid \in BOOLEAN
    /\ Cap \in Nat \ {0} /\ Window \in Nat \ {0} /\ Kept \in 1 .. Window
    /\ \A s \in Start : /\ s.sent \subseteq Msg /\ s.commands \subseteq Command
                        /\ s.status \in BOOLEAN /\ s.forgets \in BOOLEAN
                        /\ s.lives \in Nat /\ s.refreshes \in Nat

VARIABLES
  given,       \* the member of Start this behaviour began with
  reachable,   \* the broker can be reached
  link,        \* the connection: "down", "connack" until the broker's answer is read, "up"
  lost,        \* the network thread has yet to notice that a connection has ended
  willDue,     \* the broker is to publish the last will
  status,      \* the locker's retained status: "none", "online", "offline"
  announced,   \* the last status message the library has yet to deliver, or "none"
  subscribed,  \* the broker knows the session's subscriptions
  manager,     \* "running", then the stages of stop(), then "stopped"
  connected,   \* _connected
  dialing,     \* the reconnect loop has found the manager disconnected and not yet reconnected
  pending,     \* _pending_messages
  store,       \* messages the library has taken and not delivered
  accepted,    \* messages publish() was given in this life of the process
  delivered,   \* messages delivered in this life
  net,         \* the network thread's tasks
  publishing,  \* Publisher -> << >>, or a message and whether it found the manager connected
  inbound,     \* commands the broker holds for the locker, unacknowledged
  posted,      \* commands the backend has sent
  processed,   \* _processed_commands
  handled,     \* commands with an id that were handed to a handler in this life
  lives, refreshes

broker   == <<willDue, status, subscribed, inbound, posted>>
messages == <<pending, store, accepted, delivered>>
commands == <<processed, handled>>
bounds   == <<given, lives, refreshes>>
vars == <<reachable, link, lost, broker, announced, manager, connected, dialing, messages, net,
          publishing, commands, bounds>>

Does(task) == net # << >> /\ Head(net).do = task
Task(task) == [do |-> task, arg |-> "none"]
With(task, arg) == [do |-> task, arg |-> arg]
Arg  == Head(net).arg
Goes(tasks) == net' = tasks \o Tail(net)
Done == Goes(<< >>)

(***************************************************************************)
(* Publishing                                                              *)
(***************************************************************************)
SameTopic(m) == {i \in DOMAIN pending : Topic[pending[i]] = Topic[m]}
WithoutTopic(m) == IF SameTopic(m) = {} THEN pending
                   ELSE RemoveAt(pending, CHOOSE i \in SameTopic(m) : TRUE)

\* Mutant: a message is queued behind an older one of its topic.
QueueBehind(m) ==
    LET queue == Append(pending, m)
    IN  pending' = IF Len(queue) > Cap THEN Tail(queue) ELSE queue

\* A queued message replaces one of its topic; beyond Cap the oldest goes.
QueuePublish(m) ==
    LET queue == Append(WithoutTopic(m), m)
    IN  pending' = IF Len(queue) > Cap THEN Tail(queue) ELSE queue

(* client.publish: without a connection the call may fail, and the library keep the message for
   the next connection all the same. *)
ClientTakes(m, ok) ==
    IF link = "up" THEN ok /\ store' = store \cup {m}
    ELSE store' \in {store \cup {m}} \cup {s \in {store} : ~ok}

\* publish with queue = TRUE, after is_connected() has returned saw.
PublishAfter(m, saw, ok) ==
    /\ accepted' = accepted \cup {m}
    /\ IF saw THEN ClientTakes(m, ok) ELSE ~ok /\ UNCHANGED store
    /\ IF ok THEN UNCHANGED pending ELSE QueuePublish(m)
    /\ UNCHANGED delivered

BeginPublish(p, m) ==
    /\ m \in given.sent /\ publishing[p] = << >> /\ m \notin accepted
    /\ \A q \in Publisher : publishing[q] # << >> => publishing[q][1] # m
    /\ publishing' = [publishing EXCEPT ![p] = <<m, connected>>]
    /\ UNCHANGED <<reachable, link, lost, broker, announced, manager, connected, dialing, messages,
                   net, commands, bounds>>

Publish(p) ==
    /\ publishing[p] # << >>
    /\ \E ok \in BOOLEAN : PublishAfter(publishing[p][1], publishing[p][2], ok)
    /\ publishing' = [publishing EXCEPT ![p] = << >>]
    /\ UNCHANGED <<reachable, link, lost, broker, announced, manager, connected, dialing, net,
                   commands, bounds>>

Deliver(m) ==
    /\ link = "up" /\ m \in store
    /\ store' = store \ {m} /\ delivered' = delivered \cup {m}
    /\ UNCHANGED <<reachable, link, lost, broker, announced, manager, connected, dialing, pending,
                   accepted, net, publishing, commands, bounds>>

StatusArrives ==
    /\ link = "up" /\ announced # "none"
    /\ status' = announced /\ announced' = "none"
    /\ UNCHANGED <<reachable, link, lost, willDue, subscribed, inbound, posted, manager, connected,
                   dialing, messages, net, publishing, commands, bounds>>

(***************************************************************************)
(* The connection                                                          *)
(***************************************************************************)
WillFollows == willDue \/ (given.status /\ link # "down")

(* Closed by the client, or ended otherwise; either way the network thread has yet to notice. *)
Closes == /\ link' = "down" /\ lost' = (lost \/ link # "down")
          /\ UNCHANGED <<willDue, status>>
Breaks == /\ link' = "down" /\ lost' = (lost \/ link # "down")
          /\ willDue' = WillFollows /\ UNCHANGED status

(* client.reconnect drops the connection there is.  The broker publishes the will of a session
   that is taken over before it answers; the network thread may not notice the change. *)
Redials ==
    IF reachable
    THEN /\ link' = "connack" /\ lost' \in {FALSE, lost \/ link # "down"}
         /\ willDue' = FALSE
         /\ status' = IF WillFollows THEN "offline" ELSE status
    ELSE Breaks

ReachChanges ==
    /\ reachable' = ~reachable
    /\ UNCHANGED <<link, lost, broker, announced, manager, connected, dialing, messages, net,
                   publishing, commands, bounds>>

LinkLost ==
    /\ ~reachable /\ link # "down"
    /\ Breaks
    /\ UNCHANGED <<reachable, subscribed, inbound, posted, announced, manager, connected, dialing,
                   messages, net, publishing, commands, bounds>>

WillPublished ==
    /\ willDue /\ willDue' = FALSE /\ status' = "offline"
    /\ UNCHANGED <<reachable, link, lost, subscribed, inbound, posted, announced, manager,
                   connected, dialing, messages, net, publishing, commands, bounds>>

(* The broker loses the session of a locker that is away. *)
BrokerForgets ==
    /\ given.forgets /\ link = "down" /\ subscribed
    /\ subscribed' = FALSE /\ inbound' = << >>
    /\ UNCHANGED <<reachable, link, lost, willDue, status, posted, announced, manager, connected,
                   dialing, messages, net, publishing, commands, bounds>>

(* The reconnect loop looks whether the manager is connected, then checks the internet, and
   reconnects whatever has become of the connection and the manager meanwhile. *)
ReconnectDecides ==
    /\ manager = "running" /\ ~connected /\ ~dialing
    /\ dialing' = TRUE
    /\ UNCHANGED <<reachable, link, lost, broker, announced, manager, connected, messages, net,
                   publishing, commands, bounds>>

Reconnect ==
    /\ dialing /\ dialing' = FALSE
    /\ Redials
    /\ UNCHANGED <<reachable, subscribed, inbound, posted, announced, manager, connected, messages,
                   net, publishing, commands, bounds>>

(* The library reconnects by itself too. *)
LibraryReconnects ==
    /\ manager = "running" /\ net = << >> /\ link = "down" /\ ~lost /\ reachable
    /\ Redials
    /\ UNCHANGED <<reachable, subscribed, inbound, posted, announced, manager, connected, dialing,
                   messages, net, publishing, commands, bounds>>

(* A locker that comes online forces a reconnection, unless MQTT is connected. *)
ForceReconnect ==
    /\ refreshes > 0 /\ refreshes' = refreshes - 1
    /\ manager = "running" /\ ~connected
    /\ Closes
    /\ UNCHANGED <<reachable, subscribed, inbound, posted, announced, manager, connected, dialing,
                   messages, net, publishing, commands, given, lives>>

(***************************************************************************)
(* The network thread: on_connect and on_disconnect                        *)
(***************************************************************************)
LoopRuns == manager # "stopped" /\ net = << >>
Greeting == IF given.status THEN <<Task("online")>> ELSE << >>

\* Mutant: a new connection does not send what was queued.
OnConnectOnly ==
    /\ LoopRuns /\ link = "connack" /\ ~lost
    /\ link' = "up" /\ connected' = TRUE
    /\ net' = Greeting \o <<Task("resubscribe"), Task("notify")>>
    /\ UNCHANGED <<reachable, lost, broker, announced, manager, dialing, messages,
                   publishing, commands, bounds>>

OnConnect ==
    /\ LoopRuns /\ link = "connack" /\ ~lost
    /\ link' = "up" /\ connected' = TRUE
    /\ net' = Greeting \o <<Task("resubscribe"), Task("flush"), Task("notify")>>
    /\ UNCHANGED <<reachable, lost, broker, announced, manager, dialing, messages,
                   publishing, commands, bounds>>

(* The retained status: not queued when it cannot be sent. *)
Announce ==
    /\ Does("online")
    /\ announced' \in IF link = "up" THEN {"online"} ELSE {"online", announced}
    /\ Done
    /\ UNCHANGED <<reachable, link, lost, broker, manager, connected, dialing, messages,
                   publishing, commands, bounds>>

\* Mutant: the session is trusted to know the subscriptions.
ResubscribeNever ==
    /\ Does("resubscribe") /\ Done
    /\ UNCHANGED <<reachable, link, lost, broker, announced, manager, connected, dialing, messages,
                   publishing, commands, bounds>>

Resubscribe ==
    /\ Does("resubscribe")
    /\ subscribed' = (subscribed \/ link = "up")
    /\ Done
    /\ UNCHANGED <<reachable, link, lost, willDue, status, inbound, posted, announced, manager,
                   connected, dialing, messages, publishing, commands, bounds>>

(* The oldest message is taken from the queue, and then sent. *)
Flush ==
    /\ Does("flush")
    /\ IF connected /\ pending # << >>
       THEN pending' = Tail(pending) /\ Goes(<<With("send", Head(pending)), Task("flush")>>)
       ELSE UNCHANGED pending /\ Done
    /\ UNCHANGED <<reachable, link, lost, broker, announced, manager, connected, dialing, store,
                   accepted, delivered, publishing, commands, bounds>>

\* Mutant: a message that could not be sent is not put back.
SendOnce ==
    /\ Does("send")
    /\ \E ok \in BOOLEAN :
          /\ ClientTakes(Arg, ok) /\ UNCHANGED pending
          /\ net' = IF ok THEN Tail(net) ELSE Tail(Tail(net))
    /\ UNCHANGED <<reachable, link, lost, broker, announced, manager, connected, dialing,
                   accepted, delivered, publishing, commands, bounds>>

\* One that cannot be sent goes back to the queue, and ends the flush.
Send ==
    /\ Does("send")
    /\ \E ok \in BOOLEAN :
          /\ ClientTakes(Arg, ok)
          /\ IF ok THEN Done /\ UNCHANGED pending
             ELSE QueuePublish(Arg) /\ net' = Tail(Tail(net))
    /\ UNCHANGED <<reachable, link, lost, broker, announced, manager, connected, dialing,
                   accepted, delivered, publishing, commands, bounds>>

Notify ==
    /\ Does("notify") /\ Done
    /\ UNCHANGED <<reachable, link, lost, broker, announced, manager, connected, dialing, messages,
                   publishing, commands, bounds>>

\* Mutant: the manager goes on counting as connected.
OnDisconnectQuietly ==
    /\ LoopRuns /\ lost
    /\ link' = "down" /\ lost' = FALSE /\ willDue' = WillFollows
    /\ UNCHANGED <<reachable, status, subscribed, inbound, posted, announced, manager, connected,
                   dialing, messages, net, publishing, commands, bounds>>

OnDisconnect ==
    /\ LoopRuns /\ lost
    /\ link' = "down" /\ lost' = FALSE /\ willDue' = WillFollows
    /\ connected' = FALSE
    /\ UNCHANGED <<reachable, status, subscribed, inbound, posted, announced, manager, dialing,
                   messages, net, publishing, commands, bounds>>

(***************************************************************************)
(* The network thread: commands.  The hardware agent's adapter subscribes  *)
(* each topic by the locker's id and by a wildcard, so that its handler is *)
(* called twice; the services that control the box have one handler each   *)
(* and ask for no command id.  The broker is told when all have returned.  *)
(***************************************************************************)
Post(c) ==
    /\ c \in given.commands /\ subscribed /\ c \notin posted
    /\ posted' = posted \cup {c} /\ inbound' = Append(inbound, c)
    /\ UNCHANGED <<reachable, link, lost, willDue, status, subscribed, announced, manager,
                   connected, dialing, messages, net, publishing, commands, bounds>>

Handlers(c) == IF Kind[c] \in {"wifi", "other"} THEN <<With("receive", c), With("receive", c)>>
                                                 ELSE <<With(Kind[c], c)>>

OnMessage ==
    /\ LoopRuns /\ link = "up" /\ inbound # << >>
    /\ net' = Handlers(Head(inbound)) \o <<With("ack", Head(inbound))>>
    /\ UNCHANGED <<reachable, link, lost, broker, announced, manager, connected, dialing, messages,
                   publishing, commands, bounds>>

(* The wildcard subscriptions bring in the commands of other lockers too. *)
Ignored(c) == StrictDeviceUuid /\ c \in Foreign

(* A command is remembered before it is handled. *)
Remembered(c) ==
    LET ids == Append(processed, c)
    IN  IF Len(ids) > Window THEN SubSeq(ids, Len(ids) - Kept + 1, Len(ids)) ELSE ids

\* Mutant: every id is forgotten when there are too many.
ReceiveAndForget ==
    /\ Does("receive")
    /\ IF Arg \in Range(processed)
       THEN Done /\ UNCHANGED processed
       ELSE /\ processed' = IF Len(processed) >= Window THEN << >> ELSE Append(processed, Arg)
            /\ Goes(<<With("handle", Arg)>>)
    /\ UNCHANGED <<reachable, link, lost, broker, announced, manager, connected, dialing, messages,
                   publishing, handled, bounds>>

Receive ==
    /\ Does("receive")
    /\ IF Ignored(Arg) \/ Arg \in Range(processed)
       THEN Done /\ UNCHANGED processed
       ELSE processed' = Remembered(Arg) /\ Goes(<<With("handle", Arg)>>)
    /\ UNCHANGED <<reachable, link, lost, broker, announced, manager, connected, dialing, messages,
                   publishing, handled, bounds>>

(* The handler may raise, or have nothing to answer. *)
Handle ==
    /\ Does("handle")
    /\ handled' = handled \cup {Arg}
    /\ \E answers \in BOOLEAN : Goes(IF answers THEN <<With("answer", Arg)>> ELSE << >>)
    /\ UNCHANGED <<reachable, link, lost, broker, announced, manager, connected, dialing, messages,
                   publishing, processed, bounds>>

(* The answer to a wifi.connect that cannot be sent forces a reconnection, waits for it, which
   on this thread is over at once, and is published once more. *)
GiveAnswer ==
    /\ Does("answer")
    /\ \E ok \in BOOLEAN :
          /\ PublishAfter(Answer[Arg], connected, ok)
          /\ Goes(IF ok \/ Kind[Arg] # "wifi" THEN << >> ELSE <<With("insist", Arg)>>)
    /\ UNCHANGED <<reachable, link, lost, broker, announced, manager, connected, dialing,
                   publishing, commands, bounds>>

Insist ==
    /\ Does("insist")
    /\ Closes
    /\ Goes(<<With("again", Arg)>>)
    /\ UNCHANGED <<reachable, subscribed, inbound, posted, announced, manager, connected, dialing,
                   messages, publishing, commands, bounds>>

AnswerAgain ==
    /\ Does("again")
    /\ \E ok \in BOOLEAN : PublishAfter(Answer[Arg], connected, ok)
    /\ Done
    /\ UNCHANGED <<reachable, link, lost, broker, announced, manager, connected, dialing,
                   publishing, commands, bounds>>

\* Mutant: a connection that is being restarted no longer counts as connected.
RestartConnectionAndClear ==
    /\ Does("reconnect")
    /\ Closes /\ connected' = FALSE
    /\ Goes(<<With("answer", Arg)>>)
    /\ UNCHANGED <<reachable, subscribed, inbound, posted, announced, manager, dialing, messages,
                   publishing, commands, bounds>>

\* restart_connection on the network thread: it closes the connection and reports success.
RestartConnection ==
    /\ Does("reconnect")
    /\ IF manager = "running" THEN Closes ELSE UNCHANGED <<link, lost, willDue, status>>
    /\ Goes(<<With("answer", Arg)>>)
    /\ UNCHANGED <<reachable, subscribed, inbound, posted, announced, manager, connected, dialing,
                   messages, publishing, commands, bounds>>

(* Acknowledging a command the connection of which has gone is in vain: it is sent again. *)
Acknowledge ==
    /\ Does("ack") /\ Done
    /\ inbound' = IF link = "up" /\ inbound # << >> THEN Tail(inbound) ELSE inbound
    /\ UNCHANGED <<reachable, link, lost, willDue, status, subscribed, posted, announced, manager,
                   connected, dialing, messages, publishing, commands, bounds>>

(***************************************************************************)
(* Restarts.  A remote restart of the service ends this very process,      *)
(* before the command is acknowledged.  A remote reboot stops the manager  *)
(* on a thread of its own first.                                           *)
(***************************************************************************)
ProcessRestarts ==
    /\ lives > 0 /\ lives' = lives - 1
    /\ link' = "down" /\ lost' = FALSE /\ willDue' = WillFollows
    /\ announced' = "none" /\ manager' = "running" /\ connected' = FALSE /\ dialing' = FALSE
    /\ pending' = << >> /\ store' = {} /\ accepted' = {} /\ delivered' = {}
    /\ net' = << >> /\ publishing' = [p \in Publisher |-> << >>]
    /\ processed' = << >> /\ handled' = {}
    /\ UNCHANGED <<given, reachable, status, subscribed, inbound, posted, refreshes>>

RestartService == Does("restart") /\ ProcessRestarts

RestartRefused ==
    /\ Does("restart") /\ Goes(<<With("answer", Arg)>>)
    /\ UNCHANGED <<reachable, link, lost, broker, announced, manager, connected, dialing, messages,
                   publishing, commands, bounds>>

Reboot ==
    /\ Does("reboot") /\ Done
    /\ manager' = IF manager = "running" THEN "stopping" ELSE manager
    /\ UNCHANGED <<reachable, link, lost, broker, announced, connected, dialing, messages,
                   publishing, commands, bounds>>

StopAnnounces ==
    /\ manager = "stopping" /\ manager' = "closing"
    /\ announced' \in CASE ~(connected /\ given.status) -> {announced}
                        [] link = "up" -> {"offline"}
                        [] OTHER        -> {"offline", announced}
    /\ UNCHANGED <<reachable, link, lost, broker, connected, dialing, messages, net, publishing,
                   commands, bounds>>

StopDisconnects ==
    /\ manager = "closing" /\ manager' = "closed"
    /\ Closes
    /\ UNCHANGED <<reachable, subscribed, inbound, posted, announced, connected, dialing, messages,
                   net, publishing, commands, bounds>>

StopEnds ==
    /\ manager = "closed" /\ net = << >>
    /\ manager' = "stopped" /\ connected' = FALSE
    /\ UNCHANGED <<reachable, link, lost, broker, announced, dialing, messages, net, publishing,
                   commands, bounds>>

\* A reboot that cannot be executed leaves the manager stopped.
Reboots == manager = "stopped" /\ ProcessRestarts

(***************************************************************************)
(* The system                                                              *)
(***************************************************************************)
Init ==
    /\ given \in Start /\ reachable \in BOOLEAN /\ link = "down" /\ lost = FALSE /\ willDue = FALSE
    /\ status \in {"none", "offline"} /\ announced = "none" /\ subscribed = FALSE
    /\ manager = "running" /\ connected = FALSE /\ dialing = FALSE
    /\ pending = << >> /\ store = {} /\ accepted = {} /\ delivered = {}
    /\ net = << >> /\ publishing = [p \in Publisher |-> << >>]
    /\ inbound = << >> /\ posted = {} /\ processed = << >> /\ handled = {}
    /\ lives = given.lives /\ refreshes = given.refreshes

Callback == \/ Announce \/ Resubscribe \/ Flush \/ Send \/ Notify
            \/ Receive \/ Handle \/ GiveAnswer \/ Insist \/ AnswerAgain \/ Acknowledge
            \/ RestartConnection \/ RestartRefused \/ Reboot
NetStep  == Callback \/ OnConnect \/ OnDisconnect \/ OnMessage
LoopStep == ReconnectDecides \/ Reconnect
Stopping == StopAnnounces \/ StopDisconnects \/ StopEnds

Environment ==
    \/ ReachChanges \/ LinkLost \/ BrokerForgets \/ LibraryReconnects \/ ForceReconnect
    \/ RestartService \/ Reboots
    \/ (\E c \in Command : Post(c))
    \/ (\E p \in Publisher, m \in Msg : BeginPublish(p, m))

Next == \/ NetStep \/ LoopStep \/ Stopping \/ WillPublished \/ StatusArrives
        \/ (\E p \in Publisher : Publish(p))
        \/ (\E m \in Msg : Deliver(m))
        \/ Environment

Spec == Init /\ [][Next]_vars

(* The threads run, and the broker answers and publishes what it was sent. *)
Fairness ==
    /\ WF_vars(NetStep) /\ WF_vars(LoopStep) /\ WF_vars(Stopping)
    /\ WF_vars(WillPublished) /\ WF_vars(StatusArrives)
    /\ \A p \in Publisher : WF_vars(Publish(p))
    /\ \A m \in Msg : WF_vars(Deliver(m))

FairSpec == Spec /\ Fairness

(***************************************************************************)
(* Properties                                                              *)
(***************************************************************************)
Tasks == {"online", "resubscribe", "flush", "send", "notify",
          "receive", "handle", "answer", "insist", "again", "ack"} \cup Kinds

(* Every variable keeps its type; in particular the queue never holds two messages of a topic,
   nor more than max_pending_messages. *)
MqttTypeOK ==
    /\ reachable \in BOOLEAN /\ link \in {"down", "connack", "up"} /\ lost \in BOOLEAN
    /\ willDue \in BOOLEAN /\ status \in {"none", "online", "offline"}
    /\ announced \in {"none", "online", "offline"} /\ subscribed \in BOOLEAN
    /\ manager \in {"running", "stopping", "closing", "closed", "stopped"}
    /\ connected \in BOOLEAN /\ dialing \in BOOLEAN
    /\ pending \in Seq(Msg) /\ Len(pending) <= Cap
    /\ \A i, j \in DOMAIN pending : Topic[pending[i]] = Topic[pending[j]] => i = j
    /\ store \subseteq Msg /\ accepted \subseteq Msg /\ delivered \subseteq Msg
    /\ net \in Seq([do : Tasks, arg : {"none"} \cup Msg \cup Command])
    /\ publishing \in [Publisher -> {<< >>} \cup (Msg \X BOOLEAN)]
    /\ inbound \in Seq(Command) /\ posted \subseteq Command
    /\ processed \in Seq(Command) /\ Len(processed) <= Window /\ handled \subseteq Command
    /\ given \in Start /\ lives \in 0 .. given.lives /\ refreshes \in 0 .. given.refreshes

(* A command with an id is executed at most once while the process lives, although its handler
   is called twice and the broker sends it again when an acknowledgement is lost; and never, when
   that is asked for, if it is another locker's. *)
HandledOnce == Does("handle") => Arg \notin handled /\ ~Ignored(Arg)

(* A handler never waits for a connection that only its own thread could make: as long as it
   runs, the manager counts as connected. *)
HandlerNeverWaits == Does("insist") \/ Does("again") \/ Does("answer") => connected

InHand == {net[i].arg : i \in {k \in DOMAIN net : net[k].do = "send"}}
O == INSTANCE Outbox WITH queue <- Range(pending), sending <- InHand, sent <- store

(* What publish() accepts is not lost while the process lives, but to another message of its
   topic that was queued after it, or for want of room in the queue: the manager implements
   Outbox, which also says when the message queued after it is the older one. *)
KeepsMessages == O!Spec

(* If connections are made again and again that outlast on_connect, the queue is emptied again
   and again. *)
QueueDrains == []<>(Does("notify") /\ link = "up") => []<>(pending = << >>)

(* Once the connection lasts, the retained status says so and commands get through, whatever
   wills, restarts and lost sessions came before. *)
OnlineSettles ==
    <>[](link = "up" /\ manager = "running")
       => <>[](subscribed /\ (given.status => status = "online"))

(* The loop is about to drop a connection that was made since it looked. *)
Collision == dialing /\ link # "down"

(* Once the broker can be reached for good, the connection comes up for good and the manager
   knows it; unless the loop and the library, which both reconnect, get in each other's way for
   ever, or a command to reconnect is delivered over and over. *)
Reconnects ==
    <>[](reachable /\ manager = "running" /\ ~Collision)
       => <>[](connected /\ link = "up") \/ []<>Does("reconnect")
=============================================================================
