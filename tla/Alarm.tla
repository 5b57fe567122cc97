------------------------------- MODULE Alarm -------------------------------
(***************************************************************************)
(* What SecurityRelayManager promises the rest of the agent, whatever its  *)
(* threads, locks, retries and GPIO writes do.  While something is         *)
(* detected the alarm is never withdrawn, and it is raised for nothing     *)
(* else; relays known to be on are held for a while after the last         *)
(* detection, and only they are counted down.                              *)
(***************************************************************************)
EXTENDS Naturals

CONSTANTS Source,    \* of detections
          HoldTime,  \* from the last detection to the end of the alarm
          Latency,   \* the most by which the hold may come out too short
          Patience   \* after which relays are turned off whatever holds them

VARIABLES present,   \* the sources that detect something
          asserted,  \* the alarm asks for the relays
          lit,       \* the relays were on when they were last verified
          ending,    \* the hold is counting down
          calm,      \* time since something was present, as far as HoldTime
          up         \* the board has not been given back at shutdown

alarm == <<present, asserted, lit, ending, calm, up>>

\* The hold has been long enough.
Over == calm + Latency >= HoldTime \/ calm >= Patience

\* Something shows up, and a countdown ends.
Arrive(c) ==
    /\ present' = present \cup {c}
    /\ ending' = FALSE /\ calm' = 0
    /\ UNCHANGED <<asserted, lit, up>>

\* Sources leave or expire; after the last, relays that are on are counted down.
Depart ==
    /\ present # {}
    /\ present' \in SUBSET present
    /\ ending' = (present' = {} /\ lit)
    /\ UNCHANGED <<asserted, lit, calm, up>>

\* A late clear starts the countdown again, or that of relays which would not go off.
Recount ==
    /\ present = {} /\ lit
    /\ ending' = TRUE
    /\ UNCHANGED <<present, asserted, lit, calm, up>>

\* The alarm is raised, verified or not.
Raise ==
    /\ present # {}
    /\ asserted' = TRUE
    /\ lit' \in {lit, TRUE}
    /\ UNCHANGED <<present, ending, calm, up>>

\* It is withdrawn, relays that are on after the hold; a countdown ends once that is verified.
Withdraw ==
    /\ present = {}
    /\ lit => Over
    /\ asserted' = FALSE
    /\ \/ UNCHANGED <<lit, ending>>
       \/ lit' = FALSE /\ ending' = FALSE
    /\ UNCHANGED <<present, calm, up>>

\* The countdown of relays that would not go off is given up: they are forced off.
Abandon ==
    /\ present = {} /\ lit /\ Over
    /\ ending' = FALSE
    /\ UNCHANGED <<present, asserted, lit, calm, up>>

ShutDown ==
    /\ up /\ up' = FALSE
    /\ asserted' = FALSE
    /\ UNCHANGED <<present, lit, ending, calm>>

TimePasses ==
    /\ calm' = IF present # {} \/ calm = HoldTime THEN calm ELSE calm + 1
    /\ UNCHANGED <<present, asserted, lit, ending, up>>

Init ==
    /\ present = {} /\ asserted = FALSE /\ lit = FALSE
    /\ ending = FALSE /\ calm = 0 /\ up = TRUE

Next ==
    \/ \E c \in Source : Arrive(c)
    \/ Depart \/ Recount \/ Raise \/ Withdraw \/ Abandon \/ ShutDown \/ TimePasses

Spec == Init /\ [][Next]_alarm
=============================================================================
