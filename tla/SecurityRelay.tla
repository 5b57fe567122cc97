--------------------------- MODULE SecurityRelay ---------------------------
(***************************************************************************)
(* SecurityRelayManager: the one component that may drive the two security *)
(* relays.  Detection events arrive on the detector threads, a worker      *)
(* thread polls for stale sources and due deadlines, and a relay write is  *)
(* a loop of attempts with sleeps in between, run with the manager's lock  *)
(* held but not the relay board's.  Alerts share the relays and change     *)
(* the board between two attempts.                                         *)
(*                                                                         *)
(* Timestamps are kept as ages and remaining times that Tick moves, each   *)
(* saturated where the code stops telling values apart.                    *)
(***************************************************************************)
EXTENDS RelayBoard, FiniteSets

CONSTANTS Camera,      \* detection sources: internal_person, internal_tamper, external_tamper
          Timeout,     \* timeout_seconds
          Debounce,    \* detection_debounce_seconds
          SourceTTL,   \* active_source_ttl_seconds, 0 for no expiry
          Failsafe,    \* stale_on_failsafe_seconds
          RetryCount,  \* retry_count
          MaxDelay,    \* bound: how long a detection call can wait for the manager's lock
          MaxFaults    \* bound: how many GPIO writes fail in a behaviour

ASSUME RelayAssumption ==
    /\ Timeout \in Nat /\ Debounce \in Nat /\ SourceTTL \in Nat
    /\ Failsafe \in Nat \ {0} /\ RetryCount \in Nat \ {0}
    /\ MaxDelay \in Nat /\ MaxFaults \in Nat

VARIABLES
  lifecycle,    \* state.lifecycle_state
  relayActive,  \* state.relay_active: the level the last verified write reached
  active,       \* state.active_detection_sources
  seen,         \* state.last_event_by_source, as ages
  offIn,        \* time left to state.off_deadline_ts
  stateAge,     \* age of state.state_changed_ts
  pending,      \* the detection call waiting for the lock: at most one, callers hold the
                \* DetectionStateManager's lock; age is that of the clock it read before waiting
  write,        \* the relay write in progress; the manager's lock is free when idle
  running,      \* _running: the worker has not been told to stop
  phase,        \* the StreamingAgent around it: "starting", "up", "stopping", "down"
  board,        \* the RelayController
  alerts,       \* alert sources with a live _alert_worker (_alert_threads)
  quiet         \* history: time since a source was last active

manager == <<lifecycle, relayActive, active, seen, offIn, stateAge>>
vars == <<manager, pending, write, running, phase, board, alerts, quiet>>

MaxOf(m, n)   == IF m >= n THEN m ELSE n
MinOf(m, n)   == IF m <= n THEN m ELSE n
Minus(m, n)   == IF m >= n THEN m - n ELSE 0
SeenCap       == MaxOf(SourceTTL, Debounce + MaxDelay)

Idle == [then |-> "idle", active |-> FALSE, force |-> FALSE, left |-> 0]
LockFree == write = Idle

\* Mutant: one attempt too many.
Begin_OneMore(then, on, force) ==
    [then |-> then, active |-> on, force |-> force, left |-> RetryCount + 1]

\* _execute_relay_write_locked(on, force), called by `then`
Begin(then, on, force) == [then |-> then, active |-> on, force |-> force, left |-> RetryCount]

\* _transition_state_locked: the timestamp moves only on a change of state.
Enter(state) ==
    /\ lifecycle' = state
    /\ stateAge' = IF state = lifecycle THEN stateAge ELSE 0

\* The history variable follows the active set.
TrackQuiet == quiet' = IF active' # {} THEN 0 ELSE quiet

\* The agent has called the board's start: GPIO that it configured is inactive; without GPIO the
\* pins are as the last process left them.
Init ==
    /\ lifecycle = "IDLE" /\ relayActive = FALSE
    /\ active = {} /\ seen = << >>
    /\ offIn = 0 /\ stateAge = 0
    /\ pending = {} /\ write = Idle
    /\ running = TRUE /\ phase = "starting"
    /\ board \in [enabled : BOOLEAN, sources : {NoSources}, on : {AllOff},
                  pin : [Channel -> BOOLEAN], faults : {MaxFaults}]
    /\ board.enabled => board.pin = AllOff
    /\ alerts = {} /\ quiet = 0

---------------------------------------------------------------------------
(* Detection events *)

\* A detector's thread calls handle_detection_event, which reads the clock and then waits for
\* the lock.  A detector whose join timed out may still call after stop().
Publish(c, kind) ==
    /\ phase # "starting"
    /\ pending = {} /\ write.then # "detected"
    /\ pending' = {[camera |-> c, kind |-> kind, age |-> 0]}
    /\ UNCHANGED <<manager, write, running, phase, board, alerts, quiet>>

Debounced(e) ==
    /\ e.camera \in DOMAIN seen
    /\ Minus(seen[e.camera], e.age) < Debounce

Received(kind, e) ==
    /\ LockFree
    /\ e \in pending /\ e.kind = kind
    /\ pending' = {}
    /\ UNCHANGED <<running, phase, board, alerts>>

DetectionIgnored(e) ==
    /\ Received("detected", e)
    /\ Debounced(e)
    /\ UNCHANGED <<manager, write, quiet>>

\* A source that is already active: the deadline moves, the relays are not written.
DetectionRefreshed(e) ==
    /\ Received("detected", e)
    /\ ~Debounced(e) /\ e.camera \in active
    /\ seen' = [seen EXCEPT ![e.camera] = e.age]
    /\ offIn' = Minus(Timeout, e.age)
    /\ UNCHANGED <<lifecycle, relayActive, active, stateAge, write, quiet>>

DetectionAccepted(e) ==
    /\ Received("detected", e)
    /\ ~Debounced(e) /\ e.camera \notin active
    /\ active' = active \cup {e.camera}
    /\ seen' = [c \in DOMAIN seen \cup {e.camera} |-> IF c = e.camera THEN e.age ELSE seen[c]]
    /\ offIn' = Minus(Timeout, e.age)
    /\ Enter("ACTIVE")
    /\ write' = Begin("detected", TRUE, FALSE)
    /\ TrackQuiet
    /\ UNCHANGED relayActive

\* Mutant: the last event of a source outlives it.
Forget_Nothing(cs) == seen' = seen

Forget(cs) == seen' = [c \in DOMAIN seen \ cs |-> seen[c]]

\* Mutant: the countdown starts whether or not the relays are on.
StartCountdown_Dark(left) == offIn' = left /\ Enter("WAITING_OFF")

\* Mutant: the countdown keeps the deadline of the last detection.
StartCountdown_OldDeadline(left) ==
    IF relayActive
    THEN /\ offIn' = offIn
         /\ Enter("WAITING_OFF")
    ELSE /\ offIn' = 0
         /\ Enter("IDLE")

\* The last active source going away starts the countdown, if there is anything to turn off.
StartCountdown(left) ==
    IF relayActive
    THEN /\ offIn' = left
         /\ Enter("WAITING_OFF")
    ELSE /\ offIn' = 0
         /\ Enter("IDLE")

DetectionCleared(e) ==
    /\ Received("cleared", e)
    /\ active' = active \ {e.camera}
    /\ Forget({e.camera})
    /\ \/ /\ e.camera \in active /\ active' # {}
          /\ Enter("ACTIVE")
          /\ UNCHANGED offIn
       \/ /\ e.camera \in active /\ active' = {}
          /\ StartCountdown(Minus(Timeout, e.age))
       \/ /\ e.camera \notin active /\ relayActive /\ active = {}
          /\ StartCountdown(Minus(Timeout, e.age))
       \/ /\ e.camera \notin active /\ ~(relayActive /\ active = {})
          /\ UNCHANGED <<lifecycle, stateAge, offIn>>
    /\ TrackQuiet
    /\ UNCHANGED <<relayActive, write>>

---------------------------------------------------------------------------
(* The worker: one pass of _worker_loop *)

\* Mutant: the test for expiry being disabled is inverted.
Stale_Inverted == {c \in active : SourceTTL = 0 /\ seen[c] >= SourceTTL}

Stale == {c \in active : SourceTTL > 0 /\ seen[c] >= SourceTTL}

\* _expire_stale_sources_locked
Expire ==
    /\ active' = active \ Stale
    /\ Forget(Stale)
    /\ IF Stale = {} \/ active' # {}
       THEN UNCHANGED <<lifecycle, stateAge, offIn>>
       ELSE StartCountdown(Timeout)

\* Mutant: the failsafe does not ask whether something is still detected.
FailsafeDue_Always == relayActive /\ stateAge >= Failsafe

\* _run_failsafe_locked: relays on for too long with nothing detected
FailsafeDue == active = {} /\ relayActive /\ stateAge >= Failsafe

WorkerFailsafe ==
    /\ running /\ LockFree
    /\ FailsafeDue
    /\ offIn' = 0
    /\ Enter("IDLE")
    /\ write' = Begin("failsafe", FALSE, TRUE)
    /\ UNCHANGED <<relayActive, active, seen, pending, running, phase, board, alerts, quiet>>

\* Expiry, then the decision the state it leaves calls for.  A source that expires resets
\* stateAge, so the failsafe is never due in the same pass.
WorkerPass ==
    /\ running /\ LockFree
    /\ ~FailsafeDue
    /\ Expire
    /\ TrackQuiet
    /\ write' = CASE lifecycle' = "ACTIVE" /\ ~relayActive           -> Begin("recovery", TRUE, FALSE)
                  [] lifecycle' = "WAITING_OFF" /\ offIn' = 0        -> Begin("timeout", FALSE, FALSE)
                  [] OTHER                                           -> write
    /\ UNCHANGED <<relayActive, pending, running, phase, board, alerts>>

---------------------------------------------------------------------------
(* _execute_relay_write_locked *)

Command == IF write.active
           THEN SetSecurity(board, TRUE)
           ELSE IF write.force
                THEN {Outcome(b, FALSE) : b \in ForceOff(board)}
                ELSE SetSecurity(board, FALSE)

\* Mutant: a write that gave up is taken to have turned the relays off.
Finish_FailedIsOff(ok) ==
    /\ write' = Idle
    /\ relayActive' = (ok /\ write.active)
    /\ IF ok /\ write.then = "timeout"
       THEN /\ active' = {} /\ seen' = << >> /\ offIn' = 0
            /\ Enter("IDLE")
       ELSE UNCHANGED <<lifecycle, active, seen, offIn, stateAge>>

\* The end of the write; the worker resets everything after a timeout that took effect.
Finish(ok) ==
    /\ write' = Idle
    /\ relayActive' = IF ok THEN write.active ELSE relayActive
    /\ IF ok /\ write.then = "timeout"
       THEN /\ active' = {} /\ seen' = << >> /\ offIn' = 0
            /\ Enter("IDLE")
       ELSE UNCHANGED <<lifecycle, active, seen, offIn, stateAge>>

\* One attempt: the command and the read-back that verifies it.
Attempt ==
    /\ write.left > 0
    /\ \E r \in Command :
         /\ board' = r.board
         /\ IF ~r.raised /\ IsOn(r.board) = write.active
            THEN Finish(TRUE)
            ELSE /\ write' = [write EXCEPT !.left = @ - 1]
                 /\ UNCHANGED manager
    /\ UNCHANGED <<pending, running, phase, alerts, quiet>>

\* After the last attempt an ordinary OFF falls back to forcing the board.
GiveUp ==
    /\ ~LockFree /\ write.left = 0
    /\ IF write.active \/ write.force
       THEN /\ Finish(FALSE)
            /\ UNCHANGED board
       ELSE \E b \in ForceOff(board) :
              /\ board' = b
              /\ Finish(~IsOn(b))
    /\ UNCHANGED <<pending, running, phase, alerts, quiet>>

---------------------------------------------------------------------------
(* The agent around the manager *)

\* StreamingAgent.start forces the relays off before any detector runs.
ForceOffAtStartup ==
    /\ phase = "starting" /\ LockFree
    /\ active' = {} /\ seen' = << >> /\ offIn' = 0
    /\ Enter("IDLE")
    /\ write' = Begin("force_off", FALSE, TRUE)
    /\ phase' = "up"
    /\ UNCHANGED <<relayActive, pending, running, board, alerts, quiet>>

\* StreamingAgent.stop: the manager's stop() takes the lock, so the worker is between passes.
StopManager ==
    /\ phase = "up" /\ LockFree
    /\ running' = FALSE
    /\ phase' = "stopping"
    /\ UNCHANGED <<manager, pending, write, board, alerts, quiet>>

\* ... then the board's cleanup(), which does not take the manager's lock.
CleanupBoard ==
    /\ phase = "stopping"
    /\ board' \in Cleanup(board)
    /\ alerts' = {}
    /\ phase' = "down"
    /\ UNCHANGED <<manager, pending, write, running, quiet>>

\* trigger_alert: the worker thread exists only if neither output raised.
TriggerAlert(a) ==
    /\ phase = "up"
    /\ \E r \in SetAlert(board, a, TRUE) :
         /\ board' = r.board
         /\ alerts' = IF r.raised THEN alerts ELSE alerts \cup {a}
    /\ UNCHANGED <<manager, pending, write, running, phase, quiet>>

\* Mutant: the worker releases the red output only.
EndAlert_RedOnly(a) ==
    /\ a \in alerts
    /\ alerts' = alerts \ {a}
    /\ \E r \in SetSource(board, "red", a, FALSE) : board' = r.board
    /\ UNCHANGED <<manager, pending, write, running, phase, quiet>>

\* _alert_worker: its time is up.
EndAlert(a) ==
    /\ a \in alerts
    /\ alerts' = alerts \ {a}
    /\ \E r \in SetAlert(board, a, FALSE) : board' = r.board
    /\ UNCHANGED <<manager, pending, write, running, phase, quiet>>

\* _qr_success_worker drops the alert; its thread is still there and will find it gone.
QrClearsAlert(a) ==
    /\ phase = "up"
    /\ \E r \in DropAlert(board, a) : board' = r.board
    /\ UNCHANGED <<manager, pending, write, running, phase, alerts, quiet>>

\* Time passes, but no call waits for the lock for longer than MaxDelay.
Tick ==
    /\ \A e \in pending : e.age < MaxDelay
    /\ pending' = {[e EXCEPT !.age = @ + 1] : e \in pending}
    /\ seen' = [c \in DOMAIN seen |-> MinOf(seen[c] + 1, SeenCap)]
    /\ offIn' = Minus(offIn, 1)
    /\ stateAge' = MinOf(stateAge + 1, Failsafe)
    /\ quiet' = IF active # {} THEN 0 ELSE MinOf(quiet + 1, Timeout)
    /\ UNCHANGED <<lifecycle, relayActive, active, write, running, phase, board, alerts>>

Handle(e) == DetectionIgnored(e) \/ DetectionRefreshed(e) \/ DetectionAccepted(e)
             \/ DetectionCleared(e)
Worker == WorkerFailsafe \/ WorkerPass
RelayWrite == Attempt \/ GiveUp

\* Everything but the detectors and the clock.
System ==
    \/ \E e \in pending : Handle(e)
    \/ Worker
    \/ RelayWrite
    \/ ForceOffAtStartup \/ StopManager \/ CleanupBoard
    \/ \E a \in Alert : TriggerAlert(a) \/ EndAlert(a) \/ QrClearsAlert(a)

Next ==
    \/ \E c \in Camera, kind \in {"detected", "cleared"} : Publish(c, kind)
    \/ System
    \/ Tick

Spec == Init /\ [][Next]_vars

\* Threads that can run do run; detections, alerts and shutdown need not happen.
Fairness == /\ WF_vars(\E e \in pending : Handle(e))
            /\ WF_vars(Worker)
            /\ WF_vars(RelayWrite)
            /\ WF_vars(Tick)
            /\ WF_vars(ForceOffAtStartup)
            /\ \A a \in Alert : WF_vars(EndAlert(a))

FairSpec == Spec /\ Fairness
---------------------------------------------------------------------------
(* Properties *)

Lifecycle == {"IDLE", "ACTIVE", "WAITING_OFF"}
Event == [camera : Camera, kind : {"detected", "cleared"}, age : 0..MaxDelay]
RelayCommand == [then : {"detected", "recovery", "timeout", "failsafe", "force_off"},
                 active : BOOLEAN, force : BOOLEAN, left : 0..RetryCount]

\* Type invariant of the manager, the board it drives and the agent around them.
TypeOK ==
    /\ lifecycle \in Lifecycle /\ relayActive \in BOOLEAN
    /\ active \subseteq Camera
    /\ DOMAIN seen \subseteq Camera /\ \A c \in DOMAIN seen : seen[c] \in 0..SeenCap
    /\ offIn \in 0..Timeout /\ stateAge \in 0..Failsafe
    /\ pending \subseteq Event /\ \A e, f \in pending : e = f
    /\ write \in RelayCommand \cup {Idle}
    /\ running \in BOOLEAN /\ phase \in {"starting", "up", "stopping", "down"}
    /\ board \in Board /\ alerts \subseteq Alert
    /\ quiet \in 0..Timeout

\* The manager's registers agree whoever holds the lock: the state is ACTIVE exactly while a
\* source is active, and exactly the active sources have a last event.  Expiry reads the
\* timestamp of every active source, and the debounce of a source that is not active
\* (security_relay_manager.py:133-137) can therefore never reject a detection.
RegistryConsistent ==
    /\ lifecycle = "ACTIVE" <=> active # {}
    /\ DOMAIN seen = active

\* The countdown only runs while there is something to turn off, so that it always ends in a
\* verified OFF or is retried (security_relay_manager.py:157-166, 185-198).
CountdownHasRelay == lifecycle = "WAITING_OFF" => relayActive

\* The write in flight still matches the state it was decided in: the lock is held over all
\* attempts, sleeps included, so no detection is accepted while the relays are turned off and no
\* countdown starts while they are turned on.
WriteMatchesState ==
    /\ write.then \in {"detected", "recovery"} => write.active /\ active # {}
    /\ write.then = "timeout" => ~write.active /\ lifecycle = "WAITING_OFF"
    /\ write.then \in {"failsafe", "force_off"} => ~write.active /\ lifecycle = "IDLE"

\* The security source leaves the board only when no source is active, or at cleanup: no
\* interleaving of clears, expiry, failsafe and retries silences a detection in progress.
SecurityHeld(b) == \E c \in Channel : Security \in b.sources[c]
NeverSilenced ==
    [][SecurityHeld(board) /\ ~SecurityHeld(board') => active = {} \/ phase' = "down"]_vars

\* The hold: an OFF for the timeout is only commanded when nothing has been active for
\* timeout_seconds, less the time a call may have waited for the lock after reading the clock.
HoldHonoured == write.then = "timeout" => quiet + MaxDelay >= Timeout

\* Between writes, a relay that is lit without an alert to explain it is one the manager
\* knows of, and so will turn off (the comment at relay_controller.py:31 promises that
\* stuck ON relays are prevented).  A write that raises leaves its output flagged as
\* written, so this needs a second attempt.
LitIsKnown ==
    LockFree /\ phase = "up" /\ IsOn(board) /\ (\A c \in Channel : board.sources[c] \cap Alert = {})
        => relayActive

\* While the agent is up and the detectors fall silent, with or without a clear event, the
\* relays end up off and stay off, whatever writes failed before.
SilenceEndsAlarm == <>[](pending = {} /\ phase = "up") => <>[]~IsOn(board)

\* Sharing the relays with alerts, each of which ends, cannot keep the security source itself
\* asserted: once the detectors are silent it is released for good.  The exception is an ON
\* whose every attempt stuck on every output: the read-back tells the manager that nothing is
\* lit, so that it has nothing to turn off (security_relay_manager.py:157-166), and the source
\* stays asserted on outputs that are dark.
AlarmReleased ==
    <>[](pending = {} /\ phase = "up") =>
        <>[](SecurityHeld(board) =>
                ~relayActive /\ \A c \in Channel : Security \in board.sources[c] => ~board.pin[c])

\* A state that stays ACTIVE gets its relays on, also after the writes that failed are over:
\* the active_state_recovery of the worker (security_relay_manager.py:182-184) as
\* tests/test_security_verification.py:93 (test_worker_recovers_after_on_command_exception)
\* asserts it.
WorkerRecovers == []<>(IsOn(board) \/ lifecycle # "ACTIVE" \/ phase # "up")

\* Turning security on or off does not stomp an alert that shares the relays
\* (relay_controller.py:34-35): its sources stay, and a relay it holds lit stays lit.
AlertsSurviveSecurityWrites ==
    [][write # write' /\ board.enabled =>
         \A c \in Channel : board.sources[c] \cap Alert # {} =>
            /\ board'.sources[c] \cap Alert = board.sources[c] \cap Alert
            /\ board.pin[c] => board'.pin[c]]_vars

\* An alert that holds a relay has a thread that will release it, unless a write raised.
AlertHasWorker == \A c \in Channel : board.sources[c] \cap Alert \subseteq alerts

\* After shutdown no relay is left energised, as long as the writes of cleanup() do not raise.
\* Relays that the last process left lit count from when GPIO has been configured: without
\* GPIO nothing reaches them.
OffAfterShutdown ==
    [](board.enabled \/ board.pin = AllOff => [](phase = "down" => board.pin = AllOff))

\* The alarm that the manager gives with its relays, as the rest of the agent sees it.
Promise == INSTANCE Alarm WITH
    Source <- Camera, HoldTime <- Timeout, Latency <- MaxDelay, Patience <- Failsafe,
    present <- active, asserted <- SecurityHeld(board), lit <- relayActive,
    ending <- lifecycle = "WAITING_OFF", calm <- quiet, up <- phase # "down"

\* The manager implements Alarm: detections that arrive in the middle of a write, late clears,
\* expiry, retries, failsafe, alerts and shutdown look from outside as its steps or as none.
KeepsPromise == Promise!Spec
===========================================================================
