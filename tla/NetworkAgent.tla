---------------------------- MODULE NetworkAgent ----------------------------
(***************************************************************************)
(* The network state machine of the hardware agent with everything that    *)
(* drives it: the startup flow and the watchdog, the scan loop, the        *)
(* recovery thread, remote wifi.connect commands and the BLE server        *)
(* through which a phone can connect the locker.  Each thread carries what *)
(* it still has to do: a sequence of calls, the first of which it executes *)
(* next, and which may put others in front.  One step is what happens      *)
(* between two blocking calls: reading the Wi-Fi status, checking the      *)
(* internet, activating a network, starting or stopping BLE.  Setting the  *)
(* state is one step and entering it another, as in _transition_to.        *)
(* Intervals are choices: a timer that is running may be due in any pass.  *)
(***************************************************************************)
EXTENDS ReconnectPolicy, Sequences

CONSTANTS Net,         \* SSIDs
          NoNet,       \* not associated
          Setup,       \* associated to the locker's own setup hotspot
          Rssi,        \* Net -> the signal of a network that is in range
          Start        \* the starts of an instance: what is on the air, which networks have a
                       \* profile, who acts, whether ble_reenable_after_timeout is set, and how
                       \* many events follow: changes on the air, commands, phones, failures of
                       \* BLE, hotspots

(* A network that is "out" of range, one that "refuses" the locker, one that lets it in but has
   no internet, and one that is "online". *)
Air == {"out", "refuses", "offline", "online"}

(* The watchdog and the recovery always run, the others where an instance has them. *)
Thread == {"watchdog", "scan", "recovery", "remote", "phone"}
Actor  == {"scan", "remote", "phone"}

ASSUME NetworkAssumption ==
    /\ IsFiniteSet(Net) /\ NoNet \notin Net /\ Setup \notin Net /\ NoNet # Setup
    /\ Rssi \in [Net -> Int]
    /\ \A s \in Start : /\ s.air \in [Net -> Air] /\ s.saved \subseteq Net
                        /\ s.actors \subseteq Actor /\ s.reenable \in BOOLEAN /\ s.events \in Nat

NetworkState == {"BOOTING", "CHECKING_INTERNET", "DISCONNECTED", "SCANNING_SAVED_NETWORKS",
                 "CONNECTING", "CONNECTED", "BLE_PROVISIONING", "RECONNECTING", "ERROR_BACKOFF"}

(* The BLE server's thread: none; made but not yet running; running until GATT and advertisement
   are registered; told to stop before they are; serving; ending after a stop or a failure. *)
Server == {"off", "created", "starting", "canceled", "up", "ending", "failing"}

VARIABLES
  given,         \* the member of Start this behaviour began with
  air,           \* Net -> Air
  assoc,         \* what the interface is associated to
  autoJoin,      \* NetworkManager may activate a profile by itself
  saved,         \* networks with a profile
  backoff,       \* networks whose backoff_until lies ahead
  networkState,  \* network_state
  recovering,    \* _recovery_in_progress
  bleActive,     \* _ble_active
  manual,        \* _manual_connect_active
  commandLock,   \* the thread that holds _command_lock, or "free"
  roamHold,      \* _post_connect_roam_hold_ssid while the hold lasts, or NoNet
  lastCheck,     \* _last_internet_online, or "stale" after internet_check_interval_seconds
  server,        \* see Server
  todo,          \* Thread -> the calls it has yet to make
  events         \* events left

wifi  == <<given, air, assoc, autoJoin, saved>>
flags == <<recovering, manual, commandLock, roamHold>>
agent == <<networkState, bleActive, flags>>
vars  == <<wifi, backoff, agent, lastCheck, server, todo, events>>

(***************************************************************************)
(* Calls.  from is the network a remote command found; ok an answer.       *)
(***************************************************************************)
Task == {"start BLE", "BLE started", "stop BLE", "stop server", "restart BLE",
         "drop", "join", "saw", "look", "judge", "ensure",
         "best", "scanned", "try", "tried", "release", "roam",
         "startup", "startup check", "startup failed", "start loops",
         "recover", "rescan", "fall back", "loop", "loop online", "timers", "retry failed",
         "BLE timers", "give up", "BLE check", "recovered",
         "lock", "answered", "late", "fell back", "failed", "hold", "answer",
         "response", "provisioned"}
Source == {"none", "saved", "new", "watchdog", "startup", "error", "priority",
           "recovery", "recovery-retry", "recovery-ble", "recovery-error",
           "remote", "remote-late", "remote-fallback", "phone"}

(* Sources that do not trust a cached check of the internet, and those of the recovery. *)
Forced     == {"startup", "recovery", "remote", "phone"}
OfRecovery == {"recovery", "recovery-retry", "recovery-ble", "recovery-error"}
FailureOf(source) == IF source \in OfRecovery THEN "recovery-error" ELSE "error"

Calls == [do : Task, net : Net \cup {NoNet, Setup}, source : Source, ok : BOOLEAN,
          from : Net \cup {NoNet, Setup}]

Call(task) == [do |-> task, net |-> NoNet, source |-> "none", ok |-> FALSE, from |-> NoNet]
CallOn(task, n, source) == [Call(task) EXCEPT !.net = n, !.source = source]

\* An observation of a network that was connected a while ago, or of what there is now.
Saw(n, source) == CallOn("saw", n, source)
Look(source)   == CallOn("look", NoNet, source)

(* Activating a network takes two steps, and passes its outcome to the call that follows. *)
Activate(n, source, next) == <<CallOn("drop", n, source), CallOn("join", n, source), next>>

Does(t, task) == todo[t] # << >> /\ Head(todo[t]).do = task

(* A loop that has done everything begins its next pass. *)
Pass(t) == CASE t = "watchdog"                  -> <<Look("watchdog")>>
             [] t = "scan" /\ "scan" \in given.actors -> <<Call("roam")>>
             [] OTHER                           -> << >>

Left(t, calls) == IF calls = << >> THEN Pass(t) ELSE calls
Goes(t, calls) == todo' = [todo EXCEPT ![t] = Left(t, calls \o Tail(@))]
Done(t) == Goes(t, << >>)

(* What a thread still has to do once an attempt of its own has connected the locker. *)
Finish(t) == CASE t = "watchdog" -> <<Call("start loops")>>
               [] t = "recovery" -> <<Call("recovered")>>
               [] OTHER          -> << >>

(***************************************************************************)
(* What the agent reads of the network.                                    *)
(***************************************************************************)
(* get_connected_wifi_details pieces it together from up to four reports of nmcli. *)
ConnectedSsid == assoc
Joinable(n) == air[n] \in {"offline", "online"}
Online      == assoc \in Net /\ air[assoc] = "online"
InRange     == {[ssid |-> n, rssi |-> Rssi[n]] : n \in {m \in Net : air[m] # "out"}}
SignalOf(n) == IF n \in Net /\ air[n] # "out" THEN Rssi[n] ELSE NoSignal
Running     == server \in {"starting", "canceled", "up", "ending", "failing"}

Answer(online) == IF online THEN "online" ELSE "offline"

(* _internet_is_available: a recent answer is reused unless the caller forces a check. *)
InternetIs(online, force) ==
    \/ /\ ~force /\ lastCheck = Answer(online)
       /\ UNCHANGED lastCheck
    \/ /\ force \/ lastCheck = "stale"
       /\ online = Online
       /\ lastCheck' = Answer(online)

\* Where there is no association to ask about, there is no internet.
Validated(associated, online, force) ==
    IF associated THEN InternetIs(online, force) ELSE ~online /\ UNCHANGED lastCheck

CheckExpires ==
    /\ lastCheck # "stale" /\ lastCheck' = "stale"
    /\ UNCHANGED <<wifi, backoff, agent, server, todo, events>>

(***************************************************************************)
(* BLE as the agent sees it, and transitions between the states.           *)
(***************************************************************************)
OnEnter(new) ==
    CASE new = networkState -> IF new = "BLE_PROVISIONING" /\ ~(bleActive /\ Running)
                               THEN <<Call("restart BLE")>> ELSE << >>
      [] new = "BLE_PROVISIONING"        -> <<Call("start BLE")>>
      [] new = "SCANNING_SAVED_NETWORKS" -> << >>
      [] OTHER                           -> <<Call("stop BLE")>>

(* The state is set with the lock held; what entering it takes, and then the rest, comes after. *)
Transition(t, new, rest) ==
    /\ networkState' = new
    /\ Goes(t, OnEnter(new) \o rest)

StartBle(t) ==
    /\ Does(t, "start BLE")
    /\ IF bleActive
       THEN Done(t) /\ UNCHANGED server
       ELSE /\ server' = IF server = "off" THEN "created" ELSE server
            /\ Goes(t, <<[Call("BLE started") EXCEPT !.ok = (server = "off")]>>)
    /\ UNCHANGED <<wifi, backoff, agent, lastCheck, events>>

BleStarted(t) ==
    /\ Does(t, "BLE started")
    /\ bleActive' = Head(todo[t]).ok
    /\ Done(t)
    /\ UNCHANGED <<wifi, backoff, networkState, flags, lastCheck, server, events>>

StopBle(t) ==
    /\ Does(t, "stop BLE")
    /\ bleActive' = FALSE
    /\ Goes(t, IF bleActive THEN <<Call("stop server")>> ELSE << >>)
    /\ UNCHANGED <<wifi, backoff, networkState, flags, lastCheck, server, events>>

\* Mutant: the flag of a server that has gone is not cleared, so that none is started.
RestartBleUnlessActive(t) ==
    /\ Does(t, "restart BLE")
    /\ server' = IF server = "off" /\ ~bleActive THEN "created" ELSE server
    /\ Goes(t, IF bleActive THEN << >>
               ELSE <<[Call("BLE started") EXCEPT !.ok = (server = "off")]>>)
    /\ UNCHANGED <<wifi, backoff, agent, lastCheck, events>>

\* The flag is cleared first, and the server started whatever it was.
RestartBle(t) ==
    /\ Does(t, "restart BLE")
    /\ bleActive' = FALSE
    /\ server' = IF server = "off" THEN "created" ELSE server
    /\ Goes(t, <<[Call("BLE started") EXCEPT !.ok = (server = "off")]>>)
    /\ UNCHANGED <<wifi, backoff, networkState, flags, lastCheck, events>>

(* BLEServer.stop: only a server that runs can be told to end. *)
StopServer(t) ==
    /\ Does(t, "stop server")
    /\ server' = CASE server = "starting" -> "canceled"
                   [] server = "up"       -> "ending"
                   [] OTHER               -> server
    /\ Done(t)
    /\ UNCHANGED <<wifi, backoff, agent, lastCheck, events>>

(***************************************************************************)
(* The BLE server's own thread.  A stop that comes before it runs is       *)
(* cleared when it does; it ends once its last callback has returned.      *)
(***************************************************************************)
ServerRuns ==
    /\ server = "created"
    /\ server' = "starting"
    /\ UNCHANGED <<wifi, backoff, agent, lastCheck, todo, events>>

ServerReady ==
    /\ server \in {"starting", "canceled"}
    /\ server' \in IF server = "canceled" THEN {"ending", "failing"} ELSE {"up"}
    /\ UNCHANGED <<wifi, backoff, agent, lastCheck, todo, events>>

ServerFails ==
    /\ server = "starting"
    /\ events > 0 /\ events' = events - 1
    /\ server' = "failing"
    /\ UNCHANGED <<wifi, backoff, agent, lastCheck, todo>>

ServerEnds ==
    /\ server \in {"ending", "failing"} /\ todo["phone"] = << >>
    /\ server' = "off"
    /\ UNCHANGED <<wifi, backoff, agent, lastCheck, todo, events>>

(***************************************************************************)
(* NetworkManager.  connect_wifi ("new") and reconnect_saved_wifi          *)
(* ("saved") hold _WIFI_LOCK while a network is activated.                 *)
(***************************************************************************)
WifiBusy == \E t \in Thread : Does(t, "join")

(* An activation usually drops the network in use first; one that fails at once may not. *)
Drop(t) ==
    /\ Does(t, "drop") /\ ~WifiBusy
    /\ assoc' \in {NoNet} \cup {n \in {assoc} : n \in Net}
    /\ Done(t)
    /\ UNCHANGED <<given, air, autoJoin, saved, backoff, agent, lastCheck, server, events>>

Returns(t, ok) ==
    todo' = [todo EXCEPT ![t] = <<[Head(Tail(@)) EXCEPT !.ok = ok]>> \o Tail(Tail(@))]

(* A new profile replaces one of the same name; it is deleted when its activation fails, unless
   the command timed out. *)
NewProfile(n) == saved \cup {n}
CleanedUp(n)  == {saved \ {n}, NewProfile(n)}

JoinWorks(t) ==
    LET n == Head(todo[t]).net
    IN  /\ Does(t, "join")
        /\ Joinable(n) /\ (Head(todo[t]).source = "saved" => n \in saved)
        /\ assoc' = n /\ saved' = NewProfile(n) /\ autoJoin' = TRUE
        /\ Returns(t, TRUE)
        /\ UNCHANGED <<given, air, backoff, agent, lastCheck, server, events>>

(* A saved profile that fails is taken down.  A new one may fail for its password; it is cleaned
   up, and the interface is disconnected, which also stops NetworkManager from choosing by
   itself. *)
JoinFails(t) ==
    LET n == Head(todo[t]).net
    IN  /\ Does(t, "join")
        /\ Head(todo[t]).source = "saved" => ~(Joinable(n) /\ n \in saved)
        /\ IF Head(todo[t]).source = "saved"
           THEN /\ assoc' = IF assoc = n THEN NoNet ELSE assoc
                /\ UNCHANGED <<autoJoin, saved>>
           ELSE /\ assoc' = NoNet /\ autoJoin' = FALSE
                /\ saved' \in CleanedUp(n)
        /\ Returns(t, FALSE)
        /\ UNCHANGED <<given, air, backoff, agent, lastCheck, server, events>>

AutoJoin(n) ==
    /\ assoc = NoNet /\ autoJoin /\ ~WifiBusy
    /\ n \in saved /\ Joinable(n)
    /\ assoc' = n
    /\ UNCHANGED <<given, air, autoJoin, saved, backoff, agent, lastCheck, server, todo, events>>

(* The environment: networks come, go and lose their internet; the REST API starts the setup
   hotspot. *)
AirChanges(n, a) ==
    /\ events > 0 /\ events' = events - 1
    /\ a # air[n] /\ air' = [air EXCEPT ![n] = a]
    /\ assoc' = IF assoc = n /\ a \in {"out", "refuses"} THEN NoNet ELSE assoc
    /\ UNCHANGED <<given, autoJoin, saved, backoff, agent, lastCheck, server, todo>>

HotspotStarts ==
    /\ events > 0 /\ events' = events - 1
    /\ ~WifiBusy /\ assoc # Setup
    /\ assoc' = Setup /\ autoJoin' = FALSE
    /\ UNCHANGED <<given, air, saved, backoff, agent, lastCheck, server, todo>>

BackoffExpires(n) ==
    /\ n \in backoff /\ backoff' = backoff \ {n}
    /\ UNCHANGED <<wifi, agent, lastCheck, server, todo, events>>

HoldEnds ==
    /\ roamHold # NoNet /\ roamHold' = NoNet
    /\ UNCHANGED <<wifi, backoff, networkState, bleActive, recovering, manual, commandLock,
                   lastCheck, server, todo, events>>

(***************************************************************************)
(* Observations: what a Wi-Fi status means for the state machine.          *)
(***************************************************************************)
EnsureRecovery(t) ==
    /\ Does(t, "ensure")
    /\ recovering' = TRUE
    /\ IF recovering THEN Done(t)
       ELSE todo' = [todo EXCEPT ![t] = Left(t, Tail(@)), !["recovery"] = <<Call("recover")>>]
    /\ UNCHANGED <<wifi, backoff, networkState, bleActive, manual, commandLock, roamHold,
                   lastCheck, server, events>>

Sees(t, n) == \/ Does(t, "look") /\ n = ConnectedSsid
              \/ Does(t, "saw") /\ n = Head(todo[t]).net

SawHotspot(t) ==
    /\ Sees(t, Setup)
    /\ IF bleActive THEN Done(t) /\ UNCHANGED networkState
       ELSE Transition(t, "BLE_PROVISIONING", << >>)
    /\ UNCHANGED <<wifi, backoff, bleActive, flags, lastCheck, server, events>>

\* Mutant: only the states of a locker that is offline anyway begin a recovery.
SawNothingWhileOffline(t) ==
    /\ Sees(t, NoNet)
    /\ Goes(t, IF networkState \in {"DISCONNECTED", "ERROR_BACKOFF"} THEN <<Call("ensure")>> ELSE << >>)
    /\ UNCHANGED <<wifi, backoff, agent, lastCheck, server, events>>

(* No association: only some states begin a recovery. *)
SawNothing(t) ==
    /\ Sees(t, NoNet)
    /\ CASE networkState = "CONNECTED" -> Transition(t, "DISCONNECTED", <<Call("ensure")>>)
         [] networkState \in {"DISCONNECTED", "ERROR_BACKOFF"} ->
                Goes(t, <<Call("ensure")>>) /\ UNCHANGED networkState
         [] OTHER -> Done(t) /\ UNCHANGED networkState
    /\ UNCHANGED <<wifi, backoff, bleActive, flags, lastCheck, server, events>>

(* An association is judged by whether it has internet, which takes a while to find out; while
   a remote command is at work the watchdog leaves that to it. *)
SawNetwork(t, n) ==
    LET c == Head(todo[t])
    IN  /\ Sees(t, n)
        /\ \E online \in BOOLEAN :
              /\ InternetIs(online, c.source \in Forced)
              /\ Goes(t, IF c.source = "watchdog" /\ manual THEN << >>
                         ELSE <<[c EXCEPT !.do = "judge", !.net = n, !.ok = online]>>)
        /\ UNCHANGED <<wifi, backoff, agent, server, events>>

\* Mutant: BLE is only stopped on the way into CONNECTED.
JudgeOnlineOnce(t) ==
    LET c == Head(todo[t])
    IN  /\ Does(t, "judge") /\ c.ok
        /\ backoff' = backoff \ {c.net}
        /\ Transition(t, "CONNECTED", << >>)
        /\ UNCHANGED <<wifi, bleActive, flags, lastCheck, server, events>>

\* Mutant: the watchdog leaves the state to those who connect.
JudgeOnlineLater(t) ==
    LET c == Head(todo[t])
    IN  /\ Does(t, "judge") /\ c.ok
        /\ backoff' = backoff \ {c.net}
        /\ IF networkState = "CONNECTED" \/ c.source = "watchdog"
           THEN Goes(t, <<Call("stop BLE")>>) /\ UNCHANGED networkState
           ELSE Transition(t, "CONNECTED", << >>)
        /\ UNCHANGED <<wifi, bleActive, flags, lastCheck, server, events>>

JudgeOffline(t) ==
    LET c == Head(todo[t])
    IN  /\ Does(t, "judge") /\ ~c.ok
        /\ IF recovering \/ c.source \in OfRecovery \/ networkState = "BLE_PROVISIONING"
           THEN Transition(t, "BLE_PROVISIONING", << >>)
           ELSE Transition(t, "DISCONNECTED", <<Call("ensure")>>)
        /\ UNCHANGED <<wifi, backoff, bleActive, flags, lastCheck, server, events>>

JudgeOnline(t) ==
    LET c == Head(todo[t])
    IN  /\ Does(t, "judge") /\ c.ok
        /\ backoff' = backoff \ {c.net}
        /\ IF networkState = "CONNECTED"
           THEN Goes(t, <<Call("stop BLE")>>) /\ UNCHANGED networkState
           ELSE Transition(t, "CONNECTED", << >>)
        /\ UNCHANGED <<wifi, bleActive, flags, lastCheck, server, events>>

(* MQTT reports that it cannot reconnect. *)
ReconnectPressure ==
    /\ networkState = "DISCONNECTED" /\ ~manual /\ ~recovering
    /\ recovering' = TRUE
    /\ todo' = [todo EXCEPT !["recovery"] = <<Call("recover")>>]
    /\ UNCHANGED <<wifi, backoff, networkState, bleActive, manual, commandLock, roamHold,
                   lastCheck, server, events>>

(***************************************************************************)
(* Saved networks.  An attempt takes the command lock without waiting.     *)
(***************************************************************************)
\* A scan follows, and what was read of the state before it is used after it.
Best(t) ==
    LET c == Head(todo[t])
    IN  /\ Does(t, "best")
        /\ Goes(t, IF manual THEN << >>
                   ELSE <<[c EXCEPT !.do = "scanned",
                           !.ok = /\ networkState = "BLE_PROVISIONING"
                                  /\ c.source \in OfRecovery]>>)
        /\ UNCHANGED <<wifi, backoff, agent, lastCheck, server, events>>

\* list() forgets the records of networks without a profile.
Listed == backoff' = backoff \cap saved

\* Mutant: the command lock is taken whoever holds it.
TryAnyway(t) ==
    LET c == Head(todo[t])
    IN  /\ Does(t, "try")
        /\ commandLock' = t
        /\ Transition(t, "RECONNECTING", Activate(c.net, "saved", [c EXCEPT !.do = "tried"]))
        /\ UNCHANGED <<wifi, backoff, bleActive, recovering, manual, roamHold, lastCheck, server, events>>

\* Saved networks in range and not in backoff.
SavedCandidates == Candidates(InRange, saved, backoff)

Scanned(t) ==
    LET c == Head(todo[t])
        candidates == SavedCandidates
    IN  /\ Does(t, "scanned")
        /\ Listed
        /\ IF c.ok THEN Done(t) /\ UNCHANGED networkState
           ELSE \E order \in Ranked(candidates) :
                   Transition(t, "SCANNING_SAVED_NETWORKS",
                              [i \in DOMAIN order |-> CallOn("try", order[i].ssid, c.source)])
        /\ UNCHANGED <<wifi, bleActive, flags, lastCheck, server, events>>

\* Mutant: success leaves without releasing the lock.
TriedAndKept(t) ==
    LET c == Head(todo[t])
    IN  /\ Does(t, "tried") /\ c.ok
        /\ InternetIs(TRUE, TRUE)
        /\ backoff' = backoff \ {c.net}
        /\ todo' = [todo EXCEPT ![t] = <<Saw(c.net, c.source)>> \o Finish(t)]
        /\ UNCHANGED <<wifi, agent, server, events>>

Try(t) ==
    LET c == Head(todo[t])
    IN  /\ Does(t, "try")
        /\ IF commandLock = "free"
           THEN /\ commandLock' = t
                /\ Transition(t, "RECONNECTING",
                              Activate(c.net, "saved", [c EXCEPT !.do = "tried"]))
           ELSE Done(t) /\ UNCHANGED <<networkState, commandLock>>
        /\ UNCHANGED <<wifi, backoff, bleActive, recovering, manual, roamHold, lastCheck, server, events>>

\* Mutant: the failure is recorded for the network the locker is on.
TriedAndBlamed(t) ==
    LET c == Head(todo[t])
    IN  /\ Does(t, "tried")
        /\ IF c.ok THEN InternetIs(FALSE, TRUE) ELSE UNCHANGED lastCheck
        /\ backoff' = backoff \cup {assoc}
        /\ Goes(t, <<Look(FailureOf(c.source)), Call("release")>>)
        /\ UNCHANGED <<wifi, agent, server, events>>

TriedAndOnline(t) ==
    LET c == Head(todo[t])
    IN  /\ Does(t, "tried") /\ c.ok
        /\ InternetIs(TRUE, TRUE)
        /\ backoff' = backoff \ {c.net}
        /\ todo' = [todo EXCEPT ![t] = <<Saw(c.net, c.source), Call("release")>> \o Finish(t)]
        /\ UNCHANGED <<wifi, agent, server, events>>

TriedInVain(t) ==
    LET c == Head(todo[t])
    IN  /\ Does(t, "tried")
        /\ IF c.ok THEN InternetIs(FALSE, TRUE) ELSE UNCHANGED lastCheck
        /\ backoff' = backoff \cup {c.net}
        /\ Goes(t, <<Look(FailureOf(c.source)), Call("release")>>)
        /\ UNCHANGED <<wifi, agent, server, events>>

Release(t) ==
    /\ Does(t, "release") /\ commandLock' = "free"
    /\ Done(t)
    /\ UNCHANGED <<wifi, backoff, networkState, bleActive, recovering, manual, roamHold, lastCheck,
                   server, events>>

Held(current) == roamHold # NoNet /\ current \in {NoNet, roamHold}

(* A pass of the scan loop, and the check some minutes after a requested network was connected. *)
Roam(t) ==
    LET current == ConnectedSsid
    IN  /\ Does(t, "roam")
        /\ IF recovering \/ manual \/ Held(current)
           THEN Done(t) /\ UNCHANGED backoff
           ELSE /\ Listed
                /\ \E order \in Ranked(SavedCandidates), coolingDown \in BOOLEAN :
                      IF /\ DOMAIN order # {}
                         /\ ShouldSwitch(current, NoNet, SignalOf(current), order[1], coolingDown)
                      THEN Goes(t, <<CallOn("try", order[1].ssid, "priority")>>)
                      ELSE Done(t)
        /\ UNCHANGED <<wifi, agent, lastCheck, server, events>>

(***************************************************************************)
(* Startup runs before the loops start, on the watchdog's thread here.     *)
(***************************************************************************)
Startup ==
    /\ Does("watchdog", "startup")
    /\ Transition("watchdog", "CHECKING_INTERNET", <<Call("startup check")>>)
    /\ UNCHANGED <<wifi, backoff, bleActive, flags, lastCheck, server, events>>

StartupCheck ==
    /\ Does("watchdog", "startup check")
    /\ \E online \in BOOLEAN :
          /\ Validated(ConnectedSsid \in Net, online, TRUE)
          /\ Goes("watchdog", IF online
                              THEN <<Saw(ConnectedSsid, "startup"), Call("start loops")>>
                              ELSE <<CallOn("best", NoNet, "startup"), Call("startup failed"),
                                     Call("start loops")>>)
    /\ UNCHANGED <<wifi, backoff, agent, server, events>>

StartupFailed ==
    /\ Does("watchdog", "startup failed")
    /\ IF manual THEN Transition("watchdog", "DISCONNECTED", << >>)
                 ELSE Transition("watchdog", "BLE_PROVISIONING", <<Call("ensure")>>)
    /\ UNCHANGED <<wifi, backoff, bleActive, flags, lastCheck, server, events>>

StartLoops ==
    /\ Does("watchdog", "start loops")
    /\ todo' = [todo EXCEPT !["watchdog"] = Pass("watchdog"), !["scan"] = Pass("scan")]
    /\ UNCHANGED <<wifi, backoff, agent, lastCheck, server, events>>

(***************************************************************************)
(* The recovery thread: one round over the saved networks, then BLE, until *)
(* the locker is online again.                                             *)
(***************************************************************************)
Recovering(task) == Does("recovery", task)
Recovery(calls)  == Goes("recovery", calls)

Recover ==
    /\ Recovering("recover")
    /\ \E online \in BOOLEAN :
          /\ Validated(ConnectedSsid \in Net, online, FALSE)
          /\ Recovery(IF online THEN Finish("recovery") ELSE <<Call("rescan")>>)
    /\ UNCHANGED <<wifi, backoff, agent, server, events>>

Rescan ==
    /\ Recovering("rescan")
    /\ IF manual THEN Recovery(Finish("recovery")) /\ UNCHANGED networkState
       ELSE Transition("recovery", "SCANNING_SAVED_NETWORKS",
                       <<CallOn("best", NoNet, "recovery"), Call("fall back")>>)
    /\ UNCHANGED <<wifi, backoff, bleActive, flags, lastCheck, server, events>>

FallBack ==
    /\ Recovering("fall back")
    /\ IF manual THEN Recovery(Finish("recovery")) /\ UNCHANGED networkState
       ELSE Transition("recovery", "BLE_PROVISIONING", <<Call("loop")>>)
    /\ UNCHANGED <<wifi, backoff, bleActive, flags, lastCheck, server, events>>

(* A pass of the loop: an association is observed and judged once more; then the timers that are
   due are served, the retry of the saved networks first.  A retry that fails leaves the timers
   of BLE to be served in the same pass. *)
Loop ==
    /\ Recovering("loop") /\ ConnectedSsid # NoNet
    /\ Recovery(<<Look("recovery-ble"), Call("loop online")>>)
    /\ UNCHANGED <<wifi, backoff, agent, lastCheck, server, events>>

LoopOnline ==
    /\ Recovering("loop online")
    /\ \E online \in BOOLEAN :
          /\ InternetIs(online, FALSE)
          /\ Recovery(IF online THEN Finish("recovery") ELSE <<Call("timers")>>)
    /\ UNCHANGED <<wifi, backoff, agent, server, events>>

AtTimers    == Recovering("timers") \/ (Recovering("loop") /\ ConnectedSsid = NoNet)
AtBleTimers == AtTimers \/ Recovering("BLE timers")
AtBleCheck  == AtBleTimers \/ Recovering("BLE check")

RetryDue ==
    /\ AtTimers /\ ~manual
    /\ Recovery(<<CallOn("best", NoNet, "recovery-retry"), Call("retry failed")>>)
    /\ UNCHANGED <<wifi, backoff, agent, lastCheck, server, events>>

RetryFailed ==
    /\ Recovering("retry failed")
    /\ Transition("recovery", "BLE_PROVISIONING", <<Call("BLE timers")>>)
    /\ UNCHANGED <<wifi, backoff, bleActive, flags, lastCheck, server, events>>

(* ble_discoverable_timeout_seconds (300) after BLE was started: by then the server has come up,
   since one that has not is started again after BLE_RESTART_SECONDS (15). *)
BleTimesOut ==
    /\ AtBleTimers
    /\ bleActive /\ (server = "up" \/ (~given.reenable /\ server = "off"))
    /\ Recovery(<<Call("stop BLE"), Call(IF given.reenable THEN "BLE check" ELSE "give up")>>)
    /\ UNCHANGED <<wifi, backoff, agent, lastCheck, server, events>>

BleRestartDue ==
    /\ AtBleCheck /\ given.reenable
    /\ server = "failing" \/ ~Running
    /\ Recovery(<<Call("restart BLE"), Call("loop")>>)
    /\ UNCHANGED <<wifi, backoff, agent, lastCheck, server, events>>

NothingDue ==
    /\ AtBleCheck /\ ~Recovering("loop")
    /\ Recovery(<<Call("loop")>>)
    /\ UNCHANGED <<wifi, backoff, agent, lastCheck, server, events>>

GiveUp ==
    /\ Recovering("give up")
    /\ Transition("recovery", "ERROR_BACKOFF", <<Call("loop")>>)
    /\ UNCHANGED <<wifi, backoff, bleActive, flags, lastCheck, server, events>>

Recovered ==
    /\ Recovering("recovered")
    /\ recovering' = FALSE
    /\ todo' = [todo EXCEPT !["recovery"] = << >>]
    /\ UNCHANGED <<wifi, backoff, networkState, bleActive, manual, commandLock, roamHold,
                   lastCheck, server, events>>

(***************************************************************************)
(* A remote wifi.connect, on the MQTT thread.  manual is set before the    *)
(* lock is awaited and cleared when the answer has been given.             *)
(***************************************************************************)
RemoteConnect(n) ==
    /\ "remote" \in given.actors /\ todo["remote"] = << >>
    /\ events > 0 /\ events' = events - 1
    /\ manual' = TRUE
    /\ todo' = [todo EXCEPT !["remote"] =
                   <<[Call("lock") EXCEPT
                         !.net = n,
                         !.from = IF ConnectedSsid = n THEN NoNet ELSE ConnectedSsid]>>]
    /\ UNCHANGED <<wifi, backoff, networkState, bleActive, recovering, commandLock, roamHold,
                   lastCheck, server>>

RemoteLocks ==
    LET c == Head(todo["remote"])
    IN  /\ Does("remote", "lock") /\ commandLock = "free"
        /\ commandLock' = "remote"
        /\ Transition("remote", "CONNECTING", Activate(c.net, "new", [c EXCEPT !.do = "answered"]))
        /\ UNCHANGED <<wifi, backoff, bleActive, recovering, manual, roamHold, lastCheck, server, events>>

(* The three points at which the locker may turn out to be online on a network that was asked
   for: at once, late, or back on the network it came from. *)
RemoteAnswered ==
    LET c == Head(todo["remote"])
    IN  /\ Does("remote", "answered")
        /\ \E online \in BOOLEAN :
              /\ Validated(c.ok /\ ConnectedSsid # NoNet, online, TRUE)
              /\ IF online
                 THEN /\ UNCHANGED backoff
                      /\ Goes("remote", <<Saw(ConnectedSsid, "remote"), CallOn("hold", c.net, "none"),
                                          Call("answer")>>)
                 ELSE /\ backoff' = backoff \cup {c.net}
                      /\ Goes("remote", <<[c EXCEPT !.do = "late"]>>)
        /\ UNCHANGED <<wifi, agent, server, events>>

RemoteLate ==
    LET c == Head(todo["remote"])
    IN  /\ Does("remote", "late")
        /\ \E online \in BOOLEAN :
              /\ Validated(ConnectedSsid = c.net, online, TRUE)
              /\ Goes("remote",
                      IF online THEN <<Saw(ConnectedSsid, "remote-late"), CallOn("hold", c.net, "none"),
                                       Call("answer")>>
                      ELSE (IF c.from \in Net
                            THEN Activate(c.from, "saved", [c EXCEPT !.do = "fell back"])
                            ELSE << >>) \o <<Call("failed")>>)
        /\ UNCHANGED <<wifi, backoff, agent, server, events>>

RemoteFellBack ==
    /\ Does("remote", "fell back")
    /\ \E online \in BOOLEAN :
          /\ Validated(Head(todo["remote"]).ok /\ ConnectedSsid # NoNet, online, TRUE)
          /\ Goes("remote", IF online THEN <<Saw(ConnectedSsid, "remote-fallback")>> ELSE << >>)
    /\ UNCHANGED <<wifi, backoff, agent, server, events>>

\* Also when the fallback has worked.
RemoteFailed ==
    /\ Does("remote", "failed")
    /\ Listed
    /\ Transition("remote", IF saved # {} THEN "ERROR_BACKOFF" ELSE "BLE_PROVISIONING",
                  <<Call("answer")>>)
    /\ UNCHANGED <<wifi, bleActive, flags, lastCheck, server, events>>

RemoteAnswer ==
    /\ Does("remote", "answer")
    /\ commandLock' = "free" /\ manual' = FALSE
    /\ Done("remote")
    /\ UNCHANGED <<wifi, backoff, networkState, bleActive, recovering, roamHold, lastCheck, server, events>>

Hold(t) ==
    /\ Does(t, "hold")
    /\ roamHold' = Head(todo[t]).net
    /\ Listed
    /\ Done(t)
    /\ UNCHANGED <<wifi, networkState, bleActive, recovering, manual, commandLock, lastCheck, server, events>>

(***************************************************************************)
(* A phone's connect_wifi, on the BLE server's thread.  It does not take   *)
(* the command lock, and the locker only looks at the result when the      *)
(* phone has been notified of the response.                                *)
(***************************************************************************)
\* WriteValue runs a request to its end on the server's main loop: one at a time.
Writable == server = "up" /\ todo["phone"] = << >>

\* The phone gets the response if it has asked for notifications.
Notified == BOOLEAN

PhoneConnects(n) ==
    /\ "phone" \in given.actors /\ Writable
    /\ events > 0 /\ events' = events - 1
    /\ todo' = [todo EXCEPT !["phone"] =
                   Activate(n, "new", CallOn("response", n, "none"))]
    /\ UNCHANGED <<wifi, backoff, agent, lastCheck, server>>

PhoneAnswered ==
    LET c == Head(todo["phone"])
    IN  /\ Does("phone", "response")
        /\ \E notified \in Notified :
              Goes("phone", IF c.ok /\ ConnectedSsid # NoNet /\ notified
                            THEN <<[c EXCEPT !.do = "provisioned"]>> ELSE << >>)
        /\ UNCHANGED <<wifi, backoff, agent, lastCheck, server, events>>

Provisioned ==
    LET c == Head(todo["phone"])
    IN  /\ Does("phone", "provisioned")
        /\ \E online \in BOOLEAN :
              /\ Validated(ConnectedSsid # NoNet, online, TRUE)
              /\ IF online
                 THEN /\ UNCHANGED backoff
                      /\ Goes("phone", <<Saw(ConnectedSsid, "phone"), CallOn("hold", c.net, "none")>>)
                 ELSE /\ backoff' = backoff \cup {c.net}
                      /\ Goes("phone", <<Call("ensure")>>)
        /\ UNCHANGED <<wifi, agent, server, events>>

(***************************************************************************)
(* The system                                                              *)
(***************************************************************************)
Init ==
    /\ given \in Start /\ air = given.air /\ saved = given.saved /\ events = given.events
    /\ autoJoin = TRUE
    /\ assoc \in {NoNet} \cup {n \in saved : Joinable(n)}
    /\ backoff = {} /\ networkState = "BOOTING"
    /\ recovering = FALSE /\ bleActive = FALSE /\ manual = FALSE
    /\ commandLock = "free" /\ roamHold = NoNet
    /\ lastCheck = "stale" /\ server = "off"
    /\ todo = [t \in Thread |-> CASE t = "watchdog" -> <<Call("startup")>>
                                  [] t = "scan"     -> <<Call("start loops")>>
                                  [] OTHER          -> << >>]

Is(t, tasks) == todo[t] # << >> /\ Head(todo[t]).do \in tasks

BleStep(t) ==
    /\ Is(t, {"start BLE", "BLE started", "stop BLE", "restart BLE", "stop server"})
    /\ StartBle(t) \/ BleStarted(t) \/ StopBle(t) \/ RestartBle(t) \/ StopServer(t)
WifiStep(t) ==
    /\ Is(t, {"drop", "join"})
    /\ Drop(t) \/ JoinWorks(t) \/ JoinFails(t)
Observation(t) ==
    /\ Is(t, {"look", "saw", "judge", "ensure"})
    /\ \/ SawHotspot(t) \/ SawNothing(t) \/ (\E n \in Net : SawNetwork(t, n))
       \/ JudgeOffline(t) \/ JudgeOnline(t) \/ EnsureRecovery(t)
Attempt(t) ==
    /\ Is(t, {"best", "scanned", "try", "tried", "release", "roam", "hold"})
    /\ \/ Best(t) \/ Scanned(t) \/ Try(t) \/ TriedAndOnline(t) \/ TriedInVain(t) \/ Release(t)
       \/ Roam(t) \/ Hold(t)

StartupStep  == Startup \/ StartupCheck \/ StartupFailed \/ StartLoops
RecoveryStep == \/ Recover \/ Rescan \/ FallBack \/ Loop \/ LoopOnline \/ RetryDue \/ RetryFailed
                \/ BleTimesOut \/ BleRestartDue \/ NothingDue \/ GiveUp \/ Recovered
RemoteStep   == \/ RemoteLocks \/ RemoteAnswered \/ RemoteLate \/ RemoteFellBack
                \/ RemoteFailed \/ RemoteAnswer
PhoneStep    == PhoneAnswered \/ Provisioned

Step(t) == \/ BleStep(t) \/ WifiStep(t) \/ Observation(t) \/ Attempt(t)
           \/ t = "watchdog" /\ StartupStep
           \/ t = "recovery" /\ RecoveryStep
           \/ t = "remote" /\ RemoteStep
           \/ t = "phone" /\ PhoneStep

ServerStep   == ServerRuns \/ ServerReady \/ ServerEnds
Timers       == CheckExpires \/ HoldEnds \/ (\E n \in Net : BackoffExpires(n))
Environment  == \/ \E n \in Net, a \in Air : AirChanges(n, a)
                \/ \E n \in Net : AutoJoin(n) \/ RemoteConnect(n) \/ PhoneConnects(n)
                \/ HotspotStarts \/ ReconnectPressure \/ ServerFails

Next == (\E t \in Thread : Step(t)) \/ ServerStep \/ Timers \/ Environment

Spec == Init /\ [][Next]_vars

(* Every thread runs, time passes, and a timer of the recovery loop is due again and again.
   Nothing is assumed of the environment, nor of NetworkManager's autoconnect. *)
Fairness ==
    /\ \A t \in Thread : WF_vars(Step(t))
    /\ SF_vars(RetryDue) /\ SF_vars(BleRestartDue)
    /\ WF_vars(ServerStep)
    /\ WF_vars(CheckExpires) /\ WF_vars(HoldEnds) /\ \A n \in Net : WF_vars(BackoffExpires(n))

FairSpec == Spec /\ Fairness

(***************************************************************************)
(* Properties                                                              *)
(***************************************************************************)
(* Every variable keeps its type; backoff holds networks, never "no network". *)
NetworkTypeOK ==
    /\ given \in Start
    /\ air \in [Net -> Air] /\ assoc \in Net \cup {NoNet, Setup}
    /\ autoJoin \in BOOLEAN /\ saved \subseteq Net /\ backoff \subseteq Net
    /\ networkState \in NetworkState
    /\ recovering \in BOOLEAN /\ bleActive \in BOOLEAN /\ manual \in BOOLEAN
    /\ commandLock \in Thread \cup {"free"} /\ roamHold \in Net \cup {NoNet}
    /\ lastCheck \in {"stale", "online", "offline"} /\ server \in Server
    /\ todo \in [Thread -> Seq(Calls)] /\ events \in Nat

(* The loops, the recovery and a remote command never work on the Wi-Fi at once: who has yet to
   finish an activation holds the command lock.  (A phone does not ask for it.) *)
OneNetworkCommand ==
    \A t \in Thread \ {"phone"} :
        (\E i \in DOMAIN todo[t] : todo[t][i].do \in {"drop", "join", "tried", "fell back"})
            => commandLock = t

(* A remote wifi.connect is answered, whatever the automatic attempts do meanwhile. *)
RemoteConnectAnswered == []<>~manual

(* A locker that is online for good says so again and again, whoever connected it. *)
OnlineIsNoticed == <>[]Online => []<>(networkState = "CONNECTED")

(* A locker that has lost its network for good does not go on saying it is connected. *)
LossIsNoticed == <>[](assoc = NoNet) => <>[](networkState # "CONNECTED")

(* Once the locker stays connected, provisioning is switched off for good, although the state
   is set under a lock and entered outside it. *)
BleOffWhenConnected == <>[](Online /\ networkState = "CONNECTED") => <>[]~bleActive

(* While a recovery waits for a phone, the BLE server comes up again and again, although starts
   fail, stops are lost and another thread may end it. *)
BleOffered == <>[](networkState = "BLE_PROVISIONING" /\ recovering /\ given.reenable) => []<>(server = "up")

(* "The hardware agent owns Wi-Fi recovery and BLE provisioning": a locker is not cut off for
   ever, without internet and without offering BLE. *)
NeverCutOff == []<>(Online \/ server = "up")
=============================================================================
