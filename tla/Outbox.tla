------------------------------- MODULE Outbox -------------------------------
(***************************************************************************)
(* What MQTTManager.publish promises to its callers, whatever happens to   *)
(* the connection: within the life of the process a message it was given   *)
(* is queued, being sent, or with the MQTT library until it is delivered.  *)
(* Only the queue gives messages up: the one of a topic to another of that *)
(* topic that is queued after it, and one message to another when there    *)
(* are Cap others in it.                                                   *)
(*                                                                         *)
(* A message that could not be sent is queued again, behind those that     *)
(* came while it was being sent: it is the one case of an older message    *)
(* that takes the place of a newer one of its topic.                       *)
(***************************************************************************)
EXTENDS FiniteSets, Naturals

CONSTANTS Msg, Topic, Cap

VARIABLES accepted,     \* messages publish() was given since the process began
          queue,        \* those that wait for a connection
          sending,      \* the one that was taken from the queue and is not yet sent, if any
          sent,         \* those the library has, and has not delivered
          delivered,
          lives         \* how often the process may still be restarted

outbox == <<accepted, queue, sending, sent, delivered, lives>>

Queued(m) == {d \in queue : Topic[d] # Topic[m]} \cup {m}

Enqueue(m) ==
    IF Cardinality(Queued(m)) <= Cap THEN queue' = Queued(m)
    ELSE \E d \in Queued(m) \ {m} : queue' = Queued(m) \ {d}

(* The library takes the message, or it is queued; the library may take it even then. *)
Dispatch(m) ==
    \/ sent' = sent \cup {m} /\ UNCHANGED queue
    \/ sent' \in {sent, sent \cup {m}} /\ Enqueue(m)

Accept(m) ==
    /\ accepted' = accepted \cup {m}
    /\ Dispatch(m)
    /\ UNCHANGED <<sending, delivered, lives>>

Take(m) ==
    /\ sending = {} /\ m \in queue
    /\ queue' = queue \ {m} /\ sending' = {m}
    /\ UNCHANGED <<accepted, sent, delivered, lives>>

Retry(m) ==
    /\ m \in sending /\ sending' = {}
    /\ Dispatch(m)
    /\ UNCHANGED <<accepted, delivered, lives>>

Deliver(m) ==
    /\ m \in sent
    /\ sent' = sent \ {m} /\ delivered' = delivered \cup {m}
    /\ UNCHANGED <<accepted, queue, sending, lives>>

(* Nothing is kept on disk. *)
Restart ==
    /\ lives > 0 /\ lives' = lives - 1
    /\ accepted' = {} /\ queue' = {} /\ sending' = {} /\ sent' = {} /\ delivered' = {}

Init == /\ accepted = {} /\ queue = {} /\ sending = {} /\ sent = {} /\ delivered = {}
        /\ lives \in Nat
Next == (\E m \in Msg : Accept(m) \/ Take(m) \/ Retry(m) \/ Deliver(m)) \/ Restart

Spec == Init /\ [][Next]_outbox
=============================================================================
