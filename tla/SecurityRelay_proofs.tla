----------------------- MODULE SecurityRelay_proofs -----------------------
(***************************************************************************)
(* Theorems of SecurityRelay for every number of sources, timeout, delay   *)
(* and retry count, and for every pattern of GPIO faults.                  *)
(***************************************************************************)
EXTENDS SecurityRelay, RelayBoard_proofs

LEMMA CapType == SeenCap \in Nat /\ MaxDelay <= SeenCap
BY RelayAssumption DEF SeenCap, MaxOf

LEMMA MinusType ==
    ASSUME NEW m \in Nat, NEW n \in Nat
    PROVE  Minus(m, n) \in 0..m
BY DEF Minus

LEMMA SumGrows ==
    ASSUME NEW l \in Nat, NEW q \in Nat, NEW m \in Nat, NEW t \in Nat, l + m >= t
    PROVE  l + q + m >= t
OBVIOUS

LEMMA ZeroSum ==
    ASSUME NEW o \in Nat, NEW q \in Nat, o = 0
    PROVE  o + q = q
OBVIOUS

---------------------------------------------------------------------------
(* Type correctness *)

LEMMA TypeInit == Init => TypeOK
<1> SUFFICES ASSUME Init PROVE TypeOK
  OBVIOUS
<1>1. board \in Board
  BY RelayAssumption DEF Init, Board, NoSources, AllOff
<1>2. DOMAIN seen \subseteq Camera /\ \A c \in DOMAIN seen : seen[c] \in 0..SeenCap
  BY DEF Init
<1>3. 0 \in 0..Timeout /\ 0 \in 0..Failsafe
  BY RelayAssumption
<1> QED
  BY <1>1, <1>2, <1>3 DEF Init, TypeOK, Lifecycle

\* The commands are well typed, and entering a state keeps its age in range.
LEMMA BeginType ==
    ASSUME NEW then \in {"detected", "recovery", "timeout", "failsafe", "force_off"},
           NEW on \in BOOLEAN, NEW force \in BOOLEAN
    PROVE  Begin(then, on, force) \in RelayCommand
BY RelayAssumption DEF Begin, RelayCommand

LEMMA EnterType ==
    ASSUME TypeOK, NEW s \in Lifecycle, Enter(s)
    PROVE  lifecycle' \in Lifecycle /\ stateAge' \in 0..Failsafe
BY RelayAssumption DEF Enter, TypeOK

LEMMA CountdownType ==
    ASSUME TypeOK, NEW left \in 0..Timeout, StartCountdown(left)
    PROVE  lifecycle' \in Lifecycle /\ stateAge' \in 0..Failsafe /\ offIn' \in 0..Timeout
BY EnterType, RelayAssumption DEF StartCountdown, Lifecycle

LEMMA ForgetType ==
    ASSUME TypeOK, NEW cs, Forget(cs)
    PROVE  DOMAIN seen' \subseteq Camera /\ \A c \in DOMAIN seen' : seen'[c] \in 0..SeenCap
BY DEF Forget, TypeOK

LEMMA TrackQuietType ==
    ASSUME TypeOK, TrackQuiet
    PROVE  quiet' \in 0..Timeout
BY RelayAssumption DEF TypeOK, TrackQuiet

LEMMA FinishType ==
    ASSUME TypeOK, ~LockFree, NEW ok \in BOOLEAN, Finish(ok)
    PROVE  /\ lifecycle' \in Lifecycle /\ relayActive' \in BOOLEAN /\ active' \subseteq Camera
           /\ DOMAIN seen' \subseteq Camera /\ \A c \in DOMAIN seen' : seen'[c] \in 0..SeenCap
           /\ offIn' \in 0..Timeout /\ stateAge' \in 0..Failsafe /\ write' = Idle
<1>1. write.active \in BOOLEAN
  BY DEF TypeOK, LockFree, RelayCommand
<1>2. CASE ok /\ write.then = "timeout"
  BY <1>1, <1>2, EnterType, RelayAssumption DEF Finish, TypeOK, Lifecycle
<1>3. CASE ~(ok /\ write.then = "timeout")
  BY <1>1, <1>3 DEF Finish, TypeOK
<1> QED
  BY <1>2, <1>3

LEMMA CommandType ==
    ASSUME TypeOK, ~LockFree, NEW r \in Command
    PROVE  r.board \in Board /\ r.raised \in BOOLEAN
<1>1. board \in Board
  BY DEF TypeOK
<1>2. CASE write.active
  BY <1>1, <1>2, SetSecurityType DEF Command
<1>3. CASE ~write.active /\ write.force
  <2>1. PICK b \in ForceOff(board) : r = Outcome(b, FALSE)
    BY <1>3 DEF Command
  <2>2. b \in Board
    BY <1>1, ForceOffType
  <2> QED
    BY <2>1, <2>2, OutcomeFields
<1>4. CASE ~write.active /\ ~write.force
  BY <1>1, <1>4, SetSecurityType DEF Command
<1> QED
  BY <1>2, <1>3, <1>4

LEMMA TypeNext == TypeOK /\ [Next]_vars => TypeOK'
<1> SUFFICES ASSUME TypeOK, [Next]_vars PROVE TypeOK'
  OBVIOUS
<1> USE RelayAssumption
<1>1. ASSUME NEW c \in Camera, NEW kind \in {"detected", "cleared"}, Publish(c, kind)
      PROVE  TypeOK'
  BY <1>1 DEF TypeOK, Publish, manager, Event
<1>2. ASSUME NEW e \in pending, DetectionIgnored(e)
      PROVE  TypeOK'
  BY <1>2 DEF TypeOK, DetectionIgnored, Received, manager
<1>3. ASSUME NEW e \in pending, DetectionRefreshed(e)
      PROVE  TypeOK'
  <2>1. e.age \in 0..MaxDelay
    BY DEF TypeOK, Event
  <2>2. offIn' \in 0..Timeout
    BY <1>3, <2>1, MinusType DEF DetectionRefreshed
  <2>3. DOMAIN seen' \subseteq Camera /\ \A c \in DOMAIN seen' : seen'[c] \in 0..SeenCap
    BY <1>3, <2>1, CapType DEF DetectionRefreshed, TypeOK
  <2> QED
    BY <1>3, <2>2, <2>3 DEF TypeOK, DetectionRefreshed, Received
<1>4. ASSUME NEW e \in pending, DetectionAccepted(e)
      PROVE  TypeOK'
  <2>1. e.age \in 0..MaxDelay /\ e.camera \in Camera
    BY DEF TypeOK, Event
  <2>2. offIn' \in 0..Timeout
    BY <1>4, <2>1, MinusType DEF DetectionAccepted
  <2>3. DOMAIN seen' \subseteq Camera /\ \A c \in DOMAIN seen' : seen'[c] \in 0..SeenCap
    BY <1>4, <2>1, CapType DEF DetectionAccepted, TypeOK
  <2>4. lifecycle' \in Lifecycle /\ stateAge' \in 0..Failsafe
    BY <1>4, EnterType DEF DetectionAccepted, Lifecycle
  <2>5. write' \in RelayCommand
    BY <1>4, BeginType DEF DetectionAccepted
  <2>6. quiet' \in 0..Timeout
    BY <1>4, TrackQuietType DEF DetectionAccepted
  <2> QED
    BY <1>4, <2>1, <2>2, <2>3, <2>4, <2>5, <2>6 DEF TypeOK, DetectionAccepted, Received
<1>5. ASSUME NEW e \in pending, DetectionCleared(e)
      PROVE  TypeOK'
  <2>1. e.age \in Nat /\ Minus(Timeout, e.age) \in 0..Timeout
    <3>1. e.age \in Nat
      BY DEF TypeOK, Event
    <3> QED
      BY <3>1, MinusType
  <2>2. DOMAIN seen' \subseteq Camera /\ \A c \in DOMAIN seen' : seen'[c] \in 0..SeenCap
    BY <1>5, ForgetType DEF DetectionCleared
  <2>3. lifecycle' \in Lifecycle /\ stateAge' \in 0..Failsafe /\ offIn' \in 0..Timeout
    <3>1. CASE Enter("ACTIVE") /\ UNCHANGED offIn
      BY <3>1, EnterType DEF Lifecycle, TypeOK
    <3>2. CASE StartCountdown(Minus(Timeout, e.age))
      BY <2>1, <3>2, CountdownType
    <3>3. CASE UNCHANGED <<lifecycle, stateAge, offIn>>
      BY <3>3 DEF TypeOK
    <3> QED
      BY <1>5, <3>1, <3>2, <3>3 DEF DetectionCleared
  <2>4. quiet' \in 0..Timeout
    BY <1>5, TrackQuietType DEF DetectionCleared
  <2> QED
    BY <1>5, <2>2, <2>3, <2>4 DEF TypeOK, DetectionCleared, Received
<1>6. ASSUME WorkerFailsafe
      PROVE  TypeOK'
  <2>1. lifecycle' \in Lifecycle /\ stateAge' \in 0..Failsafe
    BY <1>6, EnterType DEF WorkerFailsafe, Lifecycle
  <2>2. write' \in RelayCommand
    BY <1>6, BeginType DEF WorkerFailsafe
  <2>3. offIn' \in 0..Timeout
    BY <1>6 DEF WorkerFailsafe
  <2> QED
    BY <1>6, <2>1, <2>2, <2>3 DEF TypeOK, WorkerFailsafe
<1>7. ASSUME WorkerPass
      PROVE  TypeOK'
  <2>1. active' \subseteq Camera /\ Forget(Stale)
    BY <1>7 DEF WorkerPass, Expire, TypeOK
  <2>2. DOMAIN seen' \subseteq Camera /\ \A c \in DOMAIN seen' : seen'[c] \in 0..SeenCap
    BY <2>1, ForgetType
  <2>3. lifecycle' \in Lifecycle /\ stateAge' \in 0..Failsafe /\ offIn' \in 0..Timeout
    <3>1. Timeout \in 0..Timeout
      OBVIOUS
    <3> QED
      BY <1>7, <3>1, CountdownType DEF WorkerPass, Expire, TypeOK
  <2>4. write' \in RelayCommand \cup {Idle}
    BY <1>7, BeginType DEF WorkerPass, TypeOK
  <2>5. quiet' \in 0..Timeout
    BY <1>7, TrackQuietType DEF WorkerPass
  <2> QED
    BY <1>7, <2>1, <2>2, <2>3, <2>4, <2>5 DEF TypeOK, WorkerPass
<1>8. ASSUME Attempt, ~LockFree
      PROVE  TypeOK'
  <2>1. PICK r \in Command :
          /\ board' = r.board
          /\ IF ~r.raised /\ IsOn(r.board) = write.active
             THEN Finish(TRUE)
             ELSE write' = [write EXCEPT !.left = @ - 1] /\ UNCHANGED manager
    BY <1>8 DEF Attempt
  <2>2. board' \in Board
    BY <1>8, <2>1, CommandType
  <2>3. CASE Finish(TRUE)
    BY <1>8, <2>2, <2>3, FinishType DEF TypeOK, Attempt
  <2>4. CASE write' = [write EXCEPT !.left = @ - 1] /\ UNCHANGED manager
    <3>1. write \in RelayCommand /\ write.left > 0
      BY <1>8 DEF TypeOK, LockFree, Attempt
    <3>2. write' \in RelayCommand
      BY <2>4, <3>1 DEF RelayCommand
    <3> QED
      BY <1>8, <2>2, <2>4, <3>2 DEF TypeOK, Attempt, manager
  <2> QED
    BY <2>1, <2>3, <2>4
<1>9. ASSUME GiveUp
      PROVE  TypeOK'
  <2>1. ~LockFree
    BY <1>9 DEF GiveUp
  <2>2. CASE write.active \/ write.force
    <3>1. Finish(FALSE) /\ UNCHANGED board
      BY <1>9, <2>2 DEF GiveUp
    <3> QED
      BY <1>9, <2>1, <3>1, FinishType DEF TypeOK, GiveUp
  <2>3. CASE ~(write.active \/ write.force)
    <3>1. PICK b \in ForceOff(board) : board' = b /\ Finish(~IsOn(b))
      BY <1>9, <2>3 DEF GiveUp
    <3>2. board' \in Board
      BY <3>1, ForceOffType DEF TypeOK
    <3>3. (~IsOn(b)) \in BOOLEAN
      BY DEF IsOn
    <3> HIDE DEF IsOn
    <3> QED
      BY <1>9, <2>1, <3>1, <3>2, <3>3, FinishType DEF TypeOK, GiveUp
  <2> QED
    BY <2>2, <2>3
<1>10. ASSUME ForceOffAtStartup
       PROVE  TypeOK'
  <2>1. lifecycle' \in Lifecycle /\ stateAge' \in 0..Failsafe
    BY <1>10, EnterType DEF ForceOffAtStartup, Lifecycle
  <2>2. write' \in RelayCommand
    BY <1>10, BeginType DEF ForceOffAtStartup
  <2>3. offIn' \in 0..Timeout
    BY <1>10 DEF ForceOffAtStartup
  <2>4. DOMAIN seen' \subseteq Camera /\ \A c \in DOMAIN seen' : seen'[c] \in 0..SeenCap
    BY <1>10 DEF ForceOffAtStartup
  <2> QED
    BY <1>10, <2>1, <2>2, <2>3, <2>4 DEF TypeOK, ForceOffAtStartup
<1>11. ASSUME StopManager
       PROVE  TypeOK'
  BY <1>11 DEF TypeOK, StopManager, manager
<1>12. ASSUME CleanupBoard
       PROVE  TypeOK'
  BY <1>12, CleanupType DEF TypeOK, CleanupBoard, manager
<1>13. ASSUME NEW a \in Alert, TriggerAlert(a)
       PROVE  TypeOK'
  BY <1>13, SetAlertKeepsSecurity DEF TypeOK, TriggerAlert, manager
<1>14. ASSUME NEW a \in Alert, EndAlert(a)
       PROVE  TypeOK'
  BY <1>14, SetAlertKeepsSecurity DEF TypeOK, EndAlert, manager
<1>15. ASSUME NEW a \in Alert, QrClearsAlert(a)
       PROVE  TypeOK'
  BY <1>15, DropAlertKeepsSecurity DEF TypeOK, QrClearsAlert, manager
<1>16. ASSUME Tick
       PROVE  TypeOK'
  <2>1. pending' \subseteq Event /\ \A e, f \in pending' : e = f
    BY <1>16 DEF Tick, TypeOK, Event
  <2>2. DOMAIN seen' \subseteq Camera /\ \A c \in DOMAIN seen' : seen'[c] \in 0..SeenCap
    BY <1>16, CapType DEF Tick, TypeOK, MinOf
  <2>3. offIn' \in 0..Timeout /\ stateAge' \in 0..Failsafe /\ quiet' \in 0..Timeout
    BY <1>16 DEF Tick, TypeOK, MinOf, Minus
  <2> QED
    BY <1>16, <2>1, <2>2, <2>3 DEF Tick, TypeOK
<1>17. CASE UNCHANGED vars
  BY <1>17 DEF TypeOK, vars, manager
<1>18. Attempt => ~LockFree
  BY DEF Attempt, LockFree, Idle
<1> QED
  BY <1>1, <1>2, <1>3, <1>4, <1>5, <1>6, <1>7, <1>8, <1>9, <1>10, <1>11, <1>12, <1>13, <1>14,
     <1>15, <1>16, <1>17, <1>18
     DEF Next, System, Handle, Worker, RelayWrite

\* Type correctness, for every value of the constants.
THEOREM TypeCorrect == Spec => []TypeOK
<1> QED
  BY TypeInit, TypeNext, PTL DEF Spec
---------------------------------------------------------------------------
(* The manager's registers, and the write they explain *)

StateInv == TypeOK /\ RegistryConsistent /\ CountdownHasRelay /\ WriteMatchesState

LEMMA StateInit == Init => StateInv
BY TypeInit
   DEF Init, StateInv, RegistryConsistent, CountdownHasRelay, WriteMatchesState, Idle

\* The start of the countdown leaves the registers consistent.
LEMMA CountdownConsistent ==
    ASSUME NEW left, StartCountdown(left), active' = {}, relayActive' = relayActive
    PROVE  /\ lifecycle' = "ACTIVE" <=> active' # {}
           /\ CountdownHasRelay'
BY DEF StartCountdown, Enter, CountdownHasRelay

LEMMA ForgetDomain ==
    ASSUME NEW cs, Forget(cs)
    PROVE  DOMAIN seen' = DOMAIN seen \ cs
BY DEF Forget

LEMMA StateNext == StateInv /\ [Next]_vars => StateInv'
<1> SUFFICES ASSUME StateInv, [Next]_vars
             PROVE  RegistryConsistent' /\ CountdownHasRelay' /\ WriteMatchesState'
  BY TypeNext DEF StateInv
<1> USE DEF StateInv
<1>1. ASSUME UNCHANGED <<manager, write>>
      PROVE  RegistryConsistent' /\ CountdownHasRelay' /\ WriteMatchesState'
  BY <1>1 DEF manager, RegistryConsistent, CountdownHasRelay, WriteMatchesState
<1>2. ASSUME NEW e \in pending, DetectionRefreshed(e)
      PROVE  RegistryConsistent' /\ CountdownHasRelay' /\ WriteMatchesState'
  BY <1>2 DEF DetectionRefreshed, RegistryConsistent, CountdownHasRelay, WriteMatchesState
<1>3. ASSUME NEW e \in pending, DetectionAccepted(e)
      PROVE  RegistryConsistent' /\ CountdownHasRelay' /\ WriteMatchesState'
  <2>1. active' # {} /\ lifecycle' = "ACTIVE" /\ write' = Begin("detected", TRUE, FALSE)
    BY <1>3 DEF DetectionAccepted, Enter
  <2>2. DOMAIN seen' = active'
    BY <1>3 DEF DetectionAccepted, RegistryConsistent
  <2> QED
    BY <2>1, <2>2 DEF RegistryConsistent, CountdownHasRelay, WriteMatchesState, Begin
<1>4. ASSUME NEW e \in pending, DetectionCleared(e)
      PROVE  RegistryConsistent' /\ CountdownHasRelay' /\ WriteMatchesState'
  <2>1. write' = Idle /\ relayActive' = relayActive
    BY <1>4 DEF DetectionCleared, Received, LockFree
  <2>2. DOMAIN seen' = active'
    BY <1>4, ForgetDomain DEF DetectionCleared, RegistryConsistent
  <2>3. CASE Enter("ACTIVE") /\ active' # {}
    BY <2>1, <2>2, <2>3 DEF Enter, RegistryConsistent, CountdownHasRelay, WriteMatchesState, Idle
  <2>4. CASE StartCountdown(Minus(Timeout, e.age)) /\ active' = {}
    BY <2>1, <2>2, <2>4, CountdownConsistent DEF RegistryConsistent, WriteMatchesState, Idle
  <2>5. CASE UNCHANGED <<lifecycle, stateAge, offIn>> /\ active' = active
    BY <2>1, <2>2, <2>5 DEF RegistryConsistent, CountdownHasRelay, WriteMatchesState, Idle
  <2> QED
    BY <1>4, <2>3, <2>4, <2>5 DEF DetectionCleared
<1>5. ASSUME WorkerFailsafe
      PROVE  RegistryConsistent' /\ CountdownHasRelay' /\ WriteMatchesState'
  BY <1>5 DEF WorkerFailsafe, FailsafeDue, Enter, Begin,
              RegistryConsistent, CountdownHasRelay, WriteMatchesState
<1>6. ASSUME WorkerPass
      PROVE  RegistryConsistent' /\ CountdownHasRelay' /\ WriteMatchesState'
  <2>1. DOMAIN seen' = active' /\ relayActive' = relayActive
    BY <1>6, ForgetDomain DEF WorkerPass, Expire, RegistryConsistent
  <2>2. (lifecycle' = "ACTIVE" <=> active' # {}) /\ CountdownHasRelay'
    <3>1. CASE Stale = {} \/ active' # {}
      BY <1>6, <3>1 DEF WorkerPass, Expire, RegistryConsistent, CountdownHasRelay
    <3>2. CASE ~(Stale = {} \/ active' # {})
      BY <1>6, <2>1, <3>2, CountdownConsistent DEF WorkerPass, Expire
    <3> QED
      BY <3>1, <3>2
  <2>3. \/ lifecycle' = "ACTIVE" /\ write' = Begin("recovery", TRUE, FALSE)
        \/ lifecycle' = "WAITING_OFF" /\ write' = Begin("timeout", FALSE, FALSE)
        \/ write' = Idle
    BY <1>6 DEF WorkerPass, LockFree
  <2> QED
    BY <2>1, <2>2, <2>3 DEF RegistryConsistent, WriteMatchesState, Begin, Idle
<1>7. ASSUME NEW ok \in BOOLEAN, Finish(ok), ~LockFree
      PROVE  RegistryConsistent' /\ CountdownHasRelay' /\ WriteMatchesState'
  <2>1. WriteMatchesState'
    BY <1>7 DEF Finish, WriteMatchesState, Idle
  <2>2. CASE ok /\ write.then = "timeout"
    BY <1>7, <2>1, <2>2 DEF Finish, Enter, RegistryConsistent, CountdownHasRelay
  <2>3. CASE ~(ok /\ write.then = "timeout")
    <3>1. UNCHANGED <<lifecycle, active, seen>>
      BY <1>7, <2>3 DEF Finish
    <3>2. ok => write.then \in {"detected", "recovery", "failsafe", "force_off"}
      BY <1>7, <2>3 DEF TypeOK, LockFree, RelayCommand
    <3>3. ok => lifecycle # "WAITING_OFF"
      BY <3>2 DEF WriteMatchesState, RegistryConsistent
    <3>4. ~ok => relayActive' = relayActive
      BY <1>7 DEF Finish
    <3> QED
      BY <2>1, <3>1, <3>3, <3>4 DEF RegistryConsistent, CountdownHasRelay
  <2> QED
    BY <2>2, <2>3
<1>8. ASSUME Attempt
      PROVE  RegistryConsistent' /\ CountdownHasRelay' /\ WriteMatchesState'
  <2>1. CASE Finish(TRUE)
    <3>1. ~LockFree
      BY <1>8 DEF Attempt, LockFree, Idle
    <3> QED
      BY <1>7, <2>1, <3>1
  <2>2. CASE write' = [write EXCEPT !.left = @ - 1] /\ UNCHANGED manager
    <3>1. write \in RelayCommand
      BY <1>8 DEF Attempt, TypeOK, Idle
    <3>2. write'.then = write.then /\ write'.active = write.active
      BY <2>2, <3>1 DEF RelayCommand
    <3> QED
      BY <2>2, <3>2 DEF manager, RegistryConsistent, CountdownHasRelay, WriteMatchesState
  <2> QED
    BY <1>8, <2>1, <2>2 DEF Attempt
<1>9. ASSUME GiveUp
      PROVE  RegistryConsistent' /\ CountdownHasRelay' /\ WriteMatchesState'
  <2>1. PICK ok \in BOOLEAN : Finish(ok)
    <3>1. CASE write.active \/ write.force
      BY <1>9, <3>1 DEF GiveUp
    <3>2. CASE ~(write.active \/ write.force)
      <4>1. PICK b \in ForceOff(board) : Finish(~IsOn(b))
        BY <1>9, <3>2 DEF GiveUp
      <4>2. (~IsOn(b)) \in BOOLEAN
        BY DEF IsOn
      <4> QED
        BY <4>1, <4>2
    <3> QED
      BY <3>1, <3>2
  <2> QED
    BY <1>7, <1>9, <2>1 DEF GiveUp
<1>10. ASSUME ForceOffAtStartup
       PROVE  RegistryConsistent' /\ CountdownHasRelay' /\ WriteMatchesState'
  BY <1>10 DEF ForceOffAtStartup, Enter, Begin,
               RegistryConsistent, CountdownHasRelay, WriteMatchesState
<1>11. ASSUME Tick
       PROVE  RegistryConsistent' /\ CountdownHasRelay' /\ WriteMatchesState'
  BY <1>11 DEF Tick, RegistryConsistent, CountdownHasRelay, WriteMatchesState
<1>12. ASSUME NEW c \in Camera, NEW kind \in {"detected", "cleared"}, Publish(c, kind)
       PROVE  UNCHANGED <<manager, write>>
  BY <1>12 DEF Publish
<1>13. ASSUME NEW e \in pending, DetectionIgnored(e)
       PROVE  UNCHANGED <<manager, write>>
  BY <1>13 DEF DetectionIgnored
<1>14. ASSUME StopManager \/ CleanupBoard
       PROVE  UNCHANGED <<manager, write>>
  BY <1>14 DEF StopManager, CleanupBoard
<1>15. ASSUME NEW a \in Alert, TriggerAlert(a) \/ EndAlert(a) \/ QrClearsAlert(a)
       PROVE  UNCHANGED <<manager, write>>
  BY <1>15 DEF TriggerAlert, EndAlert, QrClearsAlert
<1>16. CASE UNCHANGED vars
  BY <1>1, <1>16 DEF vars
<1> QED
  BY <1>1, <1>2, <1>3, <1>4, <1>5, <1>6, <1>8, <1>9, <1>10, <1>11, <1>12, <1>13, <1>14, <1>15,
     <1>16
     DEF Next, System, Handle, Worker, RelayWrite

LEMMA StateCorrect == Spec => []StateInv
<1> QED
  BY StateInit, StateNext, PTL DEF Spec

\* Whoever holds the lock, the manager is ACTIVE exactly while a source is active, and exactly
\* the active sources have a last event (handle_detection_event, _worker_loop).
THEOREM RegistryIsConsistent == Spec => []RegistryConsistent
<1>1. StateInv => RegistryConsistent
  BY DEF StateInv
<1> QED
  BY <1>1, StateCorrect, PTL

\* WAITING_OFF is only ever entered, and stayed in, with relays to turn off.
THEOREM CountdownAlwaysHasRelay == Spec => []CountdownHasRelay
<1>1. StateInv => CountdownHasRelay
  BY DEF StateInv
<1> QED
  BY <1>1, StateCorrect, PTL

---------------------------------------------------------------------------
(* The hold *)

\* While the countdown runs, the time left and the time since the last detection add up to
\* timeout_seconds, less the time the last call waited for the lock.
HoldInv ==
    /\ active # {} => quiet = 0
    /\ lifecycle = "WAITING_OFF" => offIn + quiet + MaxDelay >= Timeout
    /\ HoldHonoured

LEMMA HoldInit == Init => HoldInv
BY DEF Init, HoldInv, HoldHonoured, Idle

\* A countdown started with what is left of the timeout, or all of it.
LEMMA CountdownHolds ==
    ASSUME TypeOK, NEW left \in Nat, left + MaxDelay >= Timeout, StartCountdown(left),
           quiet' \in Nat
    PROVE  lifecycle' = "WAITING_OFF" => offIn' + quiet' + MaxDelay >= Timeout
<1>1. CASE relayActive
  <2>1. offIn' = left
    BY <1>1 DEF StartCountdown
  <2>2. MaxDelay \in Nat /\ Timeout \in Nat
    BY RelayAssumption
  <2>3. left + quiet' + MaxDelay >= Timeout
    BY <2>2, SumGrows
  <2> QED
    BY <2>1, <2>3
<1>2. CASE ~relayActive
  BY <1>2 DEF StartCountdown, Enter
<1> QED
  BY <1>1, <1>2

LEMMA HoldNext == StateInv /\ HoldInv /\ [Next]_vars => HoldInv'
<1> SUFFICES ASSUME StateInv, HoldInv, [Next]_vars
             PROVE  HoldInv'
  OBVIOUS
<1> USE RelayAssumption DEF StateInv
<1>a. TypeOK /\ TypeOK'
  BY TypeNext
<1>b. /\ quiet \in Nat /\ quiet' \in Nat /\ offIn \in Nat /\ offIn' \in Nat
      /\ quiet <= Timeout /\ offIn <= Timeout
  BY <1>a DEF TypeOK
<1>1. ASSUME UNCHANGED <<active, lifecycle, offIn, quiet, write>>
      PROVE  HoldInv'
  BY <1>1 DEF HoldInv, HoldHonoured
<1>2. ASSUME NEW e \in pending, DetectionRefreshed(e)
      PROVE  HoldInv'
  <2>1. active' # {} /\ lifecycle' = "ACTIVE"
    BY <1>2 DEF DetectionRefreshed, RegistryConsistent
  <2> QED
    BY <1>2, <2>1 DEF DetectionRefreshed, HoldInv, HoldHonoured
<1>3. ASSUME NEW e \in pending, DetectionAccepted(e)
      PROVE  HoldInv'
  BY <1>3 DEF DetectionAccepted, Enter, TrackQuiet, Begin, HoldInv, HoldHonoured
<1>4. ASSUME NEW e \in pending, DetectionCleared(e)
      PROVE  HoldInv'
  <2>1. e.age \in 0..MaxDelay
    BY <1>a DEF TypeOK, Event
  <2>2. Minus(Timeout, e.age) \in Nat /\ Minus(Timeout, e.age) + MaxDelay >= Timeout
    BY <2>1 DEF Minus
  <2>3. HoldHonoured'
    BY <1>4 DEF DetectionCleared, Received, LockFree, HoldHonoured, Idle
  <2>4. active' # {} => quiet' = 0
    BY <1>4 DEF DetectionCleared, TrackQuiet
  <2>5. CASE Enter("ACTIVE")
    BY <2>3, <2>4, <2>5 DEF Enter, HoldInv
  <2>6. CASE StartCountdown(Minus(Timeout, e.age))
    BY <1>a, <1>b, <2>2, <2>3, <2>4, <2>6, CountdownHolds DEF HoldInv
  <2>7. CASE UNCHANGED <<lifecycle, stateAge, offIn>> /\ active' = active
    BY <1>4, <2>3, <2>4, <2>7 DEF DetectionCleared, TrackQuiet, HoldInv
  <2> QED
    BY <1>4, <2>5, <2>6, <2>7 DEF DetectionCleared
<1>5. ASSUME WorkerFailsafe
      PROVE  HoldInv'
  BY <1>5 DEF WorkerFailsafe, Enter, Begin, HoldInv, HoldHonoured
<1>6. ASSUME WorkerPass
      PROVE  HoldInv'
  <2>1. active' # {} => quiet' = 0
    BY <1>6 DEF WorkerPass, TrackQuiet
  <2>2. lifecycle' = "WAITING_OFF" => offIn' + quiet' + MaxDelay >= Timeout
    <3>1. CASE Stale = {} \/ active' # {}
      <4>1. UNCHANGED <<lifecycle, offIn>>
        BY <1>6, <3>1 DEF WorkerPass, Expire
      <4>2. lifecycle = "WAITING_OFF" => active = {}
        BY DEF RegistryConsistent
      <4>3. lifecycle = "WAITING_OFF" => quiet' = quiet
        BY <1>6, <4>2 DEF WorkerPass, Expire, TrackQuiet
      <4> QED
        BY <4>1, <4>3 DEF HoldInv
    <3>2. CASE ~(Stale = {} \/ active' # {})
      <4>1. StartCountdown(Timeout)
        BY <1>6, <3>2 DEF WorkerPass, Expire
      <4>2. Timeout \in Nat /\ Timeout + MaxDelay >= Timeout
        OBVIOUS
      <4> QED
        BY <1>a, <1>b, <4>1, <4>2, CountdownHolds
    <3> QED
      BY <3>1, <3>2
  <2>3. HoldHonoured'
    <3>1. \/ write'.then # "timeout"
          \/ lifecycle' = "WAITING_OFF" /\ offIn' = 0
      BY <1>6 DEF WorkerPass, LockFree, Begin, Idle
    <3>2. offIn' = 0 => offIn' + quiet' = quiet'
      BY <1>b, ZeroSum
    <3> QED
      BY <2>2, <3>1, <3>2 DEF HoldHonoured
  <2> QED
    BY <2>1, <2>2, <2>3 DEF HoldInv
<1>7. ASSUME NEW ok \in BOOLEAN, Finish(ok), UNCHANGED quiet
      PROVE  HoldInv'
  <2>1. HoldHonoured'
    BY <1>7 DEF Finish, HoldHonoured, Idle
  <2>2. CASE ok /\ write.then = "timeout"
    BY <1>7, <2>1, <2>2 DEF Finish, Enter, HoldInv
  <2>3. CASE ~(ok /\ write.then = "timeout")
    BY <1>7, <2>1, <2>3 DEF Finish, HoldInv
  <2> QED
    BY <2>2, <2>3
<1>8. ASSUME Attempt
      PROVE  HoldInv'
  <2>1. CASE Finish(TRUE)
    BY <1>7, <1>8, <2>1 DEF Attempt
  <2>2. CASE write' = [write EXCEPT !.left = @ - 1] /\ UNCHANGED manager
    <3>1. write \in RelayCommand
      BY <1>8 DEF Attempt, TypeOK, Idle
    <3>2. write'.then = write.then
      BY <2>2, <3>1 DEF RelayCommand
    <3> QED
      BY <1>8, <2>2, <3>2 DEF Attempt, manager, HoldInv, HoldHonoured
  <2> QED
    BY <1>8, <2>1, <2>2 DEF Attempt
<1>9. ASSUME GiveUp
      PROVE  HoldInv'
  <2>1. CASE write.active \/ write.force
    BY <1>7, <1>9, <2>1 DEF GiveUp
  <2>2. CASE ~(write.active \/ write.force)
    <3>1. PICK b \in ForceOff(board) : Finish(~IsOn(b))
      BY <1>9, <2>2 DEF GiveUp
    <3>2. (~IsOn(b)) \in BOOLEAN
      BY DEF IsOn
    <3> QED
      BY <1>7, <1>9, <3>1, <3>2 DEF GiveUp
  <2> QED
    BY <2>1, <2>2
<1>10. ASSUME ForceOffAtStartup
       PROVE  HoldInv'
  BY <1>10 DEF ForceOffAtStartup, Enter, Begin, HoldInv, HoldHonoured
<1>11. ASSUME Tick
       PROVE  HoldInv'
  <2>1. lifecycle = "WAITING_OFF" => active = {}
    BY DEF RegistryConsistent
  <2>2. offIn' = Minus(offIn, 1)
    BY <1>11 DEF Tick
  <2>3. active = {} => quiet' = MinOf(quiet + 1, Timeout)
    BY <1>11 DEF Tick
  <2>4. write.then = "timeout" => active = {}
    BY <2>1 DEF WriteMatchesState
  <2>5. HoldHonoured'
    BY <1>11, <1>b, <2>3, <2>4 DEF Tick, HoldInv, HoldHonoured, MinOf
  <2>6. lifecycle' = "WAITING_OFF" => offIn' + quiet' + MaxDelay >= Timeout
    BY <1>11, <1>b, <2>1, <2>2, <2>3 DEF Tick, HoldInv, MinOf, Minus
  <2>7. active' # {} => quiet' = 0
    BY <1>11 DEF Tick
  <2> QED
    BY <2>5, <2>6, <2>7 DEF HoldInv
<1>12. ASSUME NEW c \in Camera, NEW kind \in {"detected", "cleared"}, Publish(c, kind)
       PROVE  UNCHANGED <<active, lifecycle, offIn, quiet, write>>
  BY <1>12 DEF Publish, manager
<1>13. ASSUME NEW e \in pending, DetectionIgnored(e)
       PROVE  UNCHANGED <<active, lifecycle, offIn, quiet, write>>
  BY <1>13 DEF DetectionIgnored, manager
<1>14. ASSUME StopManager \/ CleanupBoard
       PROVE  UNCHANGED <<active, lifecycle, offIn, quiet, write>>
  BY <1>14 DEF StopManager, CleanupBoard, manager
<1>15. ASSUME NEW a \in Alert, TriggerAlert(a) \/ EndAlert(a) \/ QrClearsAlert(a)
       PROVE  UNCHANGED <<active, lifecycle, offIn, quiet, write>>
  BY <1>15 DEF TriggerAlert, EndAlert, QrClearsAlert, manager
<1>16. CASE UNCHANGED vars
  BY <1>1, <1>16 DEF vars, manager
<1> QED
  BY <1>1, <1>2, <1>3, <1>4, <1>5, <1>6, <1>8, <1>9, <1>10, <1>11, <1>12, <1>13, <1>14, <1>15,
     <1>16
     DEF Next, System, Handle, Worker, RelayWrite

\* The relays are never turned off for the timeout earlier than timeout_seconds after the last
\* source went away, less the longest wait for the lock.
THEOREM HoldIsHonoured == Spec => []HoldHonoured
<1>1. HoldInv => HoldHonoured
  BY DEF HoldInv
<1> QED
  BY <1>1, HoldInit, HoldNext, StateCorrect, PTL DEF Spec

---------------------------------------------------------------------------
(* The security source *)

LEMMA SilencedOnlyWhenQuiet ==
    StateInv /\ [Next]_vars
        => (SecurityHeld(board) /\ ~SecurityHeld(board') => active = {} \/ phase' = "down")
<1> SUFFICES ASSUME StateInv, [Next]_vars, SecurityHeld(board), ~SecurityHeld(board')
             PROVE  active = {} \/ phase' = "down"
  OBVIOUS
<1> USE DEF StateInv
<1>1. board \in Board
  BY DEF TypeOK
<1>2. ASSUME NEW x, SameSecurity(x, board)
      PROVE  SecurityHeld(x)
  BY <1>2 DEF SameSecurity, SecurityHeld
<1>3. CASE Attempt
  <2>1. ~LockFree
    BY <1>3 DEF Attempt, LockFree, Idle
  <2>2. ~write.active => active = {}
    BY <2>1 DEF TypeOK, LockFree, RelayCommand, WriteMatchesState, RegistryConsistent
  <2>3. ASSUME write.active
        PROVE  FALSE
    <3>1. PICK r \in SetSecurity(board, TRUE) : board' = r.board
      BY <1>3, <2>3 DEF Attempt, Command
    <3>2. SecurityHeld(board')
      BY <1>1, <3>1, SetSecurityAsserts DEF SecurityHeld, Channel
    <3> QED
      BY <3>2
  <2> QED
    BY <2>2, <2>3
<1>4. CASE GiveUp
  <2>1. board' # board
    OBVIOUS
  <2>2. ~write.active
    BY <1>4, <2>1 DEF GiveUp
  <2> QED
    BY <1>4, <2>2
       DEF GiveUp, TypeOK, LockFree, RelayCommand, WriteMatchesState, RegistryConsistent
<1>5. CASE CleanupBoard
  BY <1>5 DEF CleanupBoard
<1>6. ASSUME NEW a \in Alert, TriggerAlert(a)
      PROVE  FALSE
  BY <1>1, <1>2, <1>6, SetAlertKeepsSecurity DEF TriggerAlert
<1>7. ASSUME NEW a \in Alert, EndAlert(a)
      PROVE  FALSE
  BY <1>1, <1>2, <1>7, SetAlertKeepsSecurity DEF EndAlert
<1>8. ASSUME NEW a \in Alert, QrClearsAlert(a)
      PROVE  FALSE
  BY <1>1, <1>2, <1>8, DropAlertKeepsSecurity DEF QrClearsAlert
<1>9. ASSUME UNCHANGED board
      PROVE  FALSE
  BY <1>9
<1>10. ASSUME NEW e \in pending, Handle(e)
       PROVE  UNCHANGED board
  BY <1>10 DEF Handle, DetectionIgnored, DetectionRefreshed, DetectionAccepted, DetectionCleared,
               Received
<1>11. ASSUME NEW c \in Camera, NEW kind \in {"detected", "cleared"}, Publish(c, kind)
       PROVE  UNCHANGED board
  BY <1>11 DEF Publish
<1>12. CASE Worker \/ ForceOffAtStartup \/ StopManager \/ Tick \/ UNCHANGED vars
  BY <1>9, <1>12 DEF Worker, WorkerFailsafe, WorkerPass, ForceOffAtStartup, StopManager, Tick, vars
<1> QED
  BY <1>3, <1>4, <1>5, <1>6, <1>7, <1>8, <1>9, <1>10, <1>11, <1>12
     DEF Next, System, RelayWrite

\* No interleaving of clears, expiry, failsafe, retries and alerts silences a detection in
\* progress: the security source leaves the board only with no active source, or at cleanup.
THEOREM NeverSilencedHolds == Spec => NeverSilenced
<1>1. StateInv /\ [Next]_vars
        => [SecurityHeld(board) /\ ~SecurityHeld(board') => active = {} \/ phase' = "down"]_vars
  BY SilencedOnlyWhenQuiet
<1> QED
  BY <1>1, StateCorrect, PTL DEF Spec, NeverSilenced
---------------------------------------------------------------------------
(* The relays shared with alerts, and shutdown, when no write raises *)

\* The steps of the worker's write, and what they leave on the board.
LEMMA CommandAlerts ==
    ASSUME TypeOK, ~LockFree, NEW r \in Command, NEW c \in Channel
    PROVE  r.board.sources[c] \cap Alert \subseteq board.sources[c]
<1>1. board \in Board
  BY DEF TypeOK
<1>2. CASE write.active
  <2>1. r \in SetSecurity(board, TRUE)
    BY <1>2 DEF Command
  <2>2. r.board.sources[c] \cap Alert = board.sources[c] \cap Alert
    BY <1>1, <2>1, SetSecurityAlerts, ZenonT(30)
  <2> QED
    BY <2>2
<1>3. CASE ~write.active /\ write.force
  <2>1. PICK b \in ForceOff(board) : r = Outcome(b, FALSE)
    BY <1>3 DEF Command
  <2>2. r.board = b
    BY <2>1, OutcomeFields
  <2> QED
    BY <1>1, <2>2, ForceOffAlerts
<1>4. CASE ~write.active /\ ~write.force
  <2>1. r \in SetSecurity(board, FALSE)
    BY <1>4 DEF Command
  <2>2. r.board.sources[c] \cap Alert = board.sources[c] \cap Alert
    BY <1>1, <2>1, SetSecurityAlerts, ZenonT(30)
  <2> QED
    BY <2>2
<1> QED
  BY <1>2, <1>3, <1>4

\* Every step is a step of the board, or leaves the board and the alerts alone.
LEMMA BoardSteps ==
    ASSUME TypeOK, [Next]_vars
    PROVE  \/ Attempt
           \/ GiveUp
           \/ CleanupBoard
           \/ \E a \in Alert : TriggerAlert(a)
           \/ \E a \in Alert : EndAlert(a)
           \/ \E a \in Alert : QrClearsAlert(a)
           \/ UNCHANGED <<board, alerts>>
<1>1. ASSUME NEW e \in pending, Handle(e)
      PROVE  UNCHANGED <<board, alerts>>
  BY <1>1 DEF Handle, DetectionIgnored, DetectionRefreshed, DetectionAccepted, DetectionCleared,
              Received
<1>2. ASSUME NEW c \in Camera, NEW kind \in {"detected", "cleared"}, Publish(c, kind)
      PROVE  UNCHANGED <<board, alerts>>
  BY <1>2 DEF Publish
<1>3. CASE Worker \/ ForceOffAtStartup \/ StopManager \/ Tick \/ UNCHANGED vars
  BY <1>3 DEF Worker, WorkerFailsafe, WorkerPass, ForceOffAtStartup, StopManager, Tick, vars
<1> QED
  BY <1>1, <1>2, <1>3 DEF Next, System, RelayWrite

LEMMA AlertNext ==
    ASSUME NoRaise
    PROVE  TypeOK /\ AlertHasWorker /\ [Next]_vars => AlertHasWorker'
<1> SUFFICES ASSUME TypeOK, AlertHasWorker, [Next]_vars, NEW c \in Channel
             PROVE  board'.sources[c] \cap Alert \subseteq alerts'
  BY DEF AlertHasWorker
<1>1. board \in Board
  BY DEF TypeOK
<1>0. board.sources[c] \cap Alert \subseteq alerts
  BY DEF AlertHasWorker
<1>2. CASE Attempt
  <2>1. ~LockFree /\ alerts' = alerts
    BY <1>2 DEF Attempt, LockFree, Idle
  <2>2. PICK r \in Command : board' = r.board
    BY <1>2 DEF Attempt
  <2> QED
    BY <1>0, <2>1, <2>2, CommandAlerts
<1>3. CASE GiveUp
  <2>1. alerts' = alerts
    BY <1>3 DEF GiveUp
  <2>2. CASE board' = board
    BY <1>0, <2>1, <2>2
  <2>3. CASE board' \in ForceOff(board)
    BY <1>0, <1>1, <2>1, <2>3, ForceOffAlerts
  <2> QED
    BY <1>3, <2>2, <2>3 DEF GiveUp
<1>4. CASE CleanupBoard
  <2>1. board' \in Cleanup(board)
    BY <1>4 DEF CleanupBoard
  <2>2. board'.sources = NoSources
    BY <1>1, <2>1, CleanupSources
  <2> QED
    BY <2>2 DEF NoSources
<1>5. ASSUME NEW a \in Alert, TriggerAlert(a)
      PROVE  board'.sources[c] \cap Alert \subseteq alerts'
  <2>1. PICK r \in SetAlert(board, a, TRUE) :
          board' = r.board /\ alerts' = IF r.raised THEN alerts ELSE alerts \cup {a}
    BY <1>5 DEF TriggerAlert
  <2>2. ~r.raised /\ r.board.sources[c] = board.sources[c] \cup {a}
    BY <1>1, <2>1, SetAlertSets, ZenonT(30)
  <2> QED
    BY <1>0, <2>1, <2>2
<1>6. ASSUME NEW a \in Alert, EndAlert(a)
      PROVE  board'.sources[c] \cap Alert \subseteq alerts'
  <2>1. PICK r \in SetAlert(board, a, FALSE) : board' = r.board
    BY <1>6 DEF EndAlert
  <2>2. ~r.raised /\ r.board.sources[c] = board.sources[c] \ {a}
    BY <1>1, <2>1, SetAlertSets
  <2>3. alerts' = alerts \ {a}
    BY <1>6 DEF EndAlert
  <2> QED
    BY <1>0, <2>1, <2>2, <2>3
<1>7. ASSUME NEW a \in Alert, QrClearsAlert(a)
      PROVE  board'.sources[c] \cap Alert \subseteq alerts'
  <2>1. PICK r \in DropAlert(board, a) : board' = r.board
    BY <1>7 DEF QrClearsAlert
  <2>2. r.board.sources[c] = board.sources[c] \ {a}
    BY <1>1, <2>1, DropAlertSets
  <2>3. alerts' = alerts
    BY <1>7 DEF QrClearsAlert
  <2> QED
    BY <1>0, <2>1, <2>2, <2>3
<1>8. CASE UNCHANGED <<board, alerts>>
  BY <1>0, <1>8
<1> QED
  BY <1>2, <1>3, <1>4, <1>5, <1>6, <1>7, <1>8, BoardSteps

\* As long as no GPIO write raises, an alert that holds a relay has the thread that will release
\* it, whatever the surveillance commands, a QR success or a shutdown do to the board meanwhile
\* (trigger_alert, _alert_worker, force_security_relays_off).
THEOREM AlertsHaveWorkers ==
    ASSUME NoRaise
    PROVE  Spec => []AlertHasWorker
<1>1. Init => AlertHasWorker
  BY DEF Init, AlertHasWorker, NoSources
<1>2. TypeOK /\ AlertHasWorker /\ [Next]_vars => AlertHasWorker'
  BY AlertNext
<1> QED
  BY <1>1, <1>2, TypeCorrect, PTL DEF Spec

\* A manager that was told to stop commands no OFF any more, so nothing starts GPIO again.
Stopped == phase \in {"stopping", "down"} => ~running /\ (write = Idle \/ write.active)

ShutdownInv == Stopped /\ (phase = "down" => ~board.enabled)

LEMMA StoppedNext == TypeOK /\ Stopped /\ [Next]_vars => Stopped'
<1> SUFFICES ASSUME TypeOK, Stopped, [Next]_vars
             PROVE  Stopped'
  OBVIOUS
<1>1. ASSUME NEW e \in pending, Handle(e)
      PROVE  Stopped'
  <2>1. UNCHANGED <<phase, running>>
    BY <1>1 DEF Handle, DetectionIgnored, DetectionRefreshed, DetectionAccepted,
                DetectionCleared, Received
  <2>2. write' = write \/ write' = Begin("detected", TRUE, FALSE)
    BY <1>1 DEF Handle, DetectionIgnored, DetectionRefreshed, DetectionAccepted,
                DetectionCleared, Received
  <2> QED
    BY <2>1, <2>2 DEF Stopped, Begin
<1>2. ASSUME Worker
      PROVE  Stopped'
  <2>1. running /\ UNCHANGED phase
    BY <1>2 DEF Worker, WorkerFailsafe, WorkerPass
  <2> QED
    BY <2>1 DEF Stopped
<1>3. ASSUME RelayWrite
      PROVE  Stopped'
  <2>1. UNCHANGED <<phase, running>>
    BY <1>3 DEF RelayWrite, Attempt, GiveUp
  <2>2. ASSUME NEW ok, Finish(ok)
        PROVE  write' = Idle
    BY <2>2 DEF Finish
  <2>3. CASE write' = Idle
    BY <2>1, <2>3 DEF Stopped
  <2>4. CASE write' = [write EXCEPT !.left = @ - 1] /\ write.left > 0
    <3>1. write # Idle
      BY <2>4 DEF Idle
    <3>2. write \in RelayCommand
      BY <3>1 DEF TypeOK
    <3>3. write'.active = write.active
      BY <2>4, <3>2 DEF RelayCommand
    <3> QED
      BY <2>1, <3>1, <3>3 DEF Stopped
  <2> QED
    BY <1>3, <2>2, <2>3, <2>4 DEF RelayWrite, Attempt, GiveUp
<1>4. ASSUME ForceOffAtStartup
      PROVE  Stopped'
  BY <1>4 DEF ForceOffAtStartup, Stopped
<1>5. ASSUME StopManager
      PROVE  Stopped'
  BY <1>5 DEF StopManager, LockFree, Stopped
<1>6. ASSUME CleanupBoard
      PROVE  Stopped'
  BY <1>6 DEF CleanupBoard, Stopped
<1>7. ASSUME UNCHANGED <<phase, running, write>>
      PROVE  Stopped'
  BY <1>7 DEF Stopped
<1>8. ASSUME NEW c \in Camera, NEW kind \in {"detected", "cleared"}, Publish(c, kind)
      PROVE  UNCHANGED <<phase, running, write>>
  BY <1>8 DEF Publish
<1>9. ASSUME NEW a \in Alert, TriggerAlert(a) \/ EndAlert(a) \/ QrClearsAlert(a)
      PROVE  UNCHANGED <<phase, running, write>>
  BY <1>9 DEF TriggerAlert, EndAlert, QrClearsAlert
<1>10. CASE Tick \/ UNCHANGED vars
  BY <1>7, <1>10 DEF Tick, vars
<1> QED
  BY <1>1, <1>2, <1>3, <1>4, <1>5, <1>6, <1>7, <1>8, <1>9, <1>10 DEF Next, System

\* The phase becomes "down" in the cleanup only.
LEMMA PhaseSteps ==
    ASSUME TypeOK, [Next]_vars, phase' = "down"
    PROVE  phase = "down" \/ CleanupBoard
<1>1. ASSUME NEW e \in pending, Handle(e)
      PROVE  UNCHANGED phase
  BY <1>1 DEF Handle, DetectionIgnored, DetectionRefreshed, DetectionAccepted, DetectionCleared,
              Received
<1>2. ASSUME NEW c \in Camera, NEW kind \in {"detected", "cleared"}, Publish(c, kind)
      PROVE  UNCHANGED phase
  BY <1>2 DEF Publish
<1>3. CASE Worker \/ RelayWrite \/ Tick \/ UNCHANGED vars
  BY <1>3 DEF Worker, WorkerFailsafe, WorkerPass, RelayWrite, Attempt, GiveUp, Tick, vars
<1>4. CASE ForceOffAtStartup \/ StopManager
  BY <1>4 DEF ForceOffAtStartup, StopManager
<1>5. ASSUME NEW a \in Alert, TriggerAlert(a) \/ EndAlert(a) \/ QrClearsAlert(a)
      PROVE  UNCHANGED phase
  BY <1>5 DEF TriggerAlert, EndAlert, QrClearsAlert
<1> QED
  BY <1>1, <1>2, <1>3, <1>4, <1>5 DEF Next, System

\* A step lights no relay behind GPIO that has been released.
StillReleased == Released(board) => Released(board')

LEMMA ShutdownNext ==
    ASSUME NoRaise
    PROVE  TypeOK /\ ShutdownInv /\ [Next]_vars
              => ShutdownInv' /\ (Released(board) => Released(board'))
<1> SUFFICES ASSUME TypeOK, ShutdownInv, [Next]_vars
             PROVE  StillReleased /\ (phase' = "down" => ~board'.enabled)
  BY StoppedNext DEF ShutdownInv, StillReleased
<1>1. board \in Board
  BY DEF TypeOK
<1>2. ASSUME SameWiring(board', board)
      PROVE  StillReleased /\ (phase = "down" => ~board'.enabled)
  BY <1>1, <1>2, ReleasedKept DEF ShutdownInv, SameWiring, StillReleased
<1>3. ASSUME board' \in ForceOff(board), phase # "down"
      PROVE  StillReleased /\ (phase = "down" => ~board'.enabled)
  BY <1>1, <1>3, ForceOffReleased DEF StillReleased
<1>4. CASE CleanupBoard
  <2>1. board' \in Cleanup(board)
    BY <1>4 DEF CleanupBoard
  <2>2. ~board'.enabled
    BY <1>1, <2>1, CleanupDisables
  <2>3. Released(board) => board'.pin = AllOff
    BY <1>1, <2>1, CleanupReleases
  <2> QED
    BY <2>2, <2>3 DEF StillReleased, Released
<1>5. ASSUME Attempt
      PROVE  StillReleased /\ (phase = "down" => ~board'.enabled)
  <2>1. write # Idle
    BY <1>5 DEF Attempt, Idle
  <2>2. PICK r \in Command : board' = r.board
    BY <1>5 DEF Attempt
  <2>3. CASE write.active
    <3>1. r \in SetSecurity(board, TRUE)
      BY <2>2, <2>3 DEF Command
    <3> QED
      BY <1>1, <1>2, <2>2, <3>1, SetSecurityWiring
  <2>4. CASE ~write.active /\ ~write.force
    <3>1. r \in SetSecurity(board, FALSE)
      BY <2>2, <2>4 DEF Command
    <3> QED
      BY <1>1, <1>2, <2>2, <3>1, SetSecurityWiring
  <2>5. CASE ~write.active /\ write.force
    <3>1. PICK b \in ForceOff(board) : r = Outcome(b, FALSE)
      BY <2>2, <2>5 DEF Command
    <3>2. board' = b
      BY <2>2, <3>1, OutcomeFields
    <3>3. phase # "down"
      BY <2>1, <2>5 DEF ShutdownInv, Stopped
    <3> QED
      BY <1>3, <3>2, <3>3
  <2> QED
    BY <2>3, <2>4, <2>5
<1>6. ASSUME GiveUp
      PROVE  StillReleased /\ (phase = "down" => ~board'.enabled)
  <2>1. CASE write.active \/ write.force
    BY <1>2, <1>6, <2>1 DEF GiveUp, SameWiring
  <2>2. CASE ~(write.active \/ write.force)
    <3>1. board' \in ForceOff(board) /\ write # Idle
      BY <1>6, <2>2 DEF GiveUp, LockFree
    <3>2. phase # "down"
      BY <2>2, <3>1 DEF ShutdownInv, Stopped
    <3> QED
      BY <1>3, <3>1, <3>2
  <2> QED
    BY <2>1, <2>2
<1>7. ASSUME NEW a \in Alert, TriggerAlert(a)
      PROVE  SameWiring(board', board)
  <2>1. PICK r \in SetAlert(board, a, TRUE) : board' = r.board
    BY <1>7 DEF TriggerAlert
  <2> QED
    BY <1>1, <2>1, SetAlertWiring
<1>8. ASSUME NEW a \in Alert, EndAlert(a)
      PROVE  SameWiring(board', board)
  <2>1. PICK r \in SetAlert(board, a, FALSE) : board' = r.board
    BY <1>8 DEF EndAlert
  <2> QED
    BY <1>1, <2>1, SetAlertWiring
<1>9. ASSUME NEW a \in Alert, QrClearsAlert(a)
      PROVE  SameWiring(board', board)
  <2>1. PICK r \in DropAlert(board, a) : board' = r.board
    BY <1>9 DEF QrClearsAlert
  <2> QED
    BY <1>1, <2>1, DropAlertWiring
<1>10. ASSUME UNCHANGED <<board, alerts>>
       PROVE  SameWiring(board', board)
  BY <1>10 DEF SameWiring
<1>11. CleanupBoard \/ (StillReleased /\ (phase = "down" => ~board'.enabled))
  BY <1>2, <1>5, <1>6, <1>7, <1>8, <1>9, <1>10, BoardSteps
<1> QED
  BY <1>4, <1>11, PhaseSteps

\* As long as no GPIO write raises, the shutdown leaves every security relay off that this
\* process could reach, also when a detection that waited for the lock turns the alarm on again
\* behind the cleanup (StreamingAgent.stop, RelayController.cleanup, handle_detection_event).
THEOREM ShutdownLeavesRelaysOff ==
    ASSUME NoRaise
    PROVE  Spec => OffAfterShutdown
<1>1. Init => ShutdownInv
  BY DEF Init, ShutdownInv, Stopped
<1>2. TypeOK /\ ShutdownInv /\ [Next]_vars => ShutdownInv' /\ (Released(board) => Released(board'))
  BY ShutdownNext
<1>3. (Released(board))' <=> Released(board')
  BY DEF Released
<1>4. ShutdownInv /\ Released(board) => (phase = "down" => board.pin = AllOff)
  BY DEF ShutdownInv, Released
<1>5. board.enabled \/ board.pin = AllOff => Released(board)
  BY DEF Released
<1> QED
  BY <1>1, <1>2, <1>3, <1>4, <1>5, TypeCorrect, PTL DEF Spec, OffAfterShutdown
---------------------------------------------------------------------------
(* A lit relay is a known one, when surveillance has the relays to itself and a write is tried *)
(* at least twice                                                                              *)

\* An ON write may have lit a relay that the manager does not know of, between an attempt that
\* raised on the second output and the next one, which will find both outputs flagged as written
\* and see the relay lit.
Known(b, w, known) ==
    /\ ~w.active /\ IsOn(b) => known
    /\ w.active /\ w.left < RetryCount => b.on["red"]
    /\ w.active /\ IsOn(b) /\ ~known =>
          w.left > 0 /\ w.left < RetryCount /\ b.on["red"] /\ b.on["buzzer"]

KnownInv == phase \in {"starting", "up"} => Known(board, write, relayActive)

LEMMA KnownInit == Init => KnownInv
<1> SUFFICES ASSUME Init
             PROVE  KnownInv
  OBVIOUS
<1>1. (board.enabled => board.pin = AllOff) /\ board.on = AllOff /\ write = Idle
  BY DEF Init
<1>2. ~IsOn(board)
  BY <1>1 DEF IsOn, AllOff
<1> QED
  BY <1>1, <1>2 DEF KnownInv, Known, Idle

LEMMA BeginKnown ==
    ASSUME NEW then, NEW on \in BOOLEAN, NEW force, Known(board, Idle, relayActive)
    PROVE  Known(board, Begin(then, on, force), relayActive)
BY RelayAssumption DEF Known, Begin, Idle

\* An attempt to turn the relays on.
LEMMA OnAttemptKnown ==
    ASSUME RetryCount >= 2, TypeOK, write \in RelayCommand, write.active, Attempt,
           Known(board, write, relayActive)
    PROVE  Known(board', write', relayActive')
<1>1. board \in Board /\ write.left \in 0..RetryCount /\ write.left > 0
  BY DEF TypeOK, RelayCommand, Attempt
<1>2. PICK r \in SetSecurity(board, TRUE) :
        /\ board' = r.board
        /\ IF ~r.raised /\ IsOn(r.board) = write.active
           THEN Finish(TRUE)
           ELSE write' = [write EXCEPT !.left = @ - 1] /\ UNCHANGED manager
  BY DEF Attempt, Command
<1>3. /\ r.board.on["red"]
      /\ board.on["red"] /\ board.on["buzzer"] => ~r.raised /\ IsOn(r.board) = IsOn(board)
      /\ r.raised /\ IsOn(r.board) /\ ~IsOn(board) =>
            ~board.on["red"] /\ r.board.on["buzzer"]
  BY <1>1, SetSecurityLights
<1>4. CASE ~r.raised /\ IsOn(r.board)
  <2>1. write.active = TRUE /\ IsOn(r.board) = TRUE
    BY <1>4 DEF IsOn, RelayCommand
  <2>2. Finish(TRUE)
    BY <1>2, <1>4, <2>1
  <2>3. write' = Idle /\ relayActive'
    BY <2>2 DEF Finish
  <2> QED
    BY <2>3 DEF Known, Idle
<1>5. CASE r.raised \/ ~IsOn(r.board)
  <2>1. ~(~r.raised /\ IsOn(r.board) = write.active)
    BY <1>5 DEF IsOn
  <2>2. write' = [write EXCEPT !.left = @ - 1] /\ UNCHANGED manager
    BY <1>2, <2>1
  <2>3. write'.active /\ write'.left = write.left - 1 /\ relayActive' = relayActive
    BY <2>2 DEF RelayCommand, manager
  <2>4. ASSUME IsOn(r.board), ~relayActive
        PROVE  write.left - 1 > 0 /\ r.board.on["red"] /\ r.board.on["buzzer"]
    <3>1. ~IsOn(board)
      BY <1>3, <1>5, <2>4 DEF Known
    <3>2. ~board.on["red"] /\ r.board.on["buzzer"]
      BY <1>3, <1>5, <2>4, <3>1
    <3>3. write.left = RetryCount
      BY <1>1, <3>2, RelayAssumption DEF Known
    <3> QED
      BY <1>3, <3>2, <3>3, RelayAssumption
  <2>5. write.left - 1 < RetryCount
    BY <1>1, RelayAssumption
  <2>6. board' = r.board
    BY <1>2
  <2> QED
    BY <1>3, <2>3, <2>4, <2>5, <2>6 DEF Known
<1> QED
  BY <1>4, <1>5

\* An attempt to turn them off.
LEMMA OffAttemptKnown ==
    ASSUME Alert = {}, TypeOK, write \in RelayCommand, ~write.active, Attempt,
           Known(board, write, relayActive)
    PROVE  Known(board', write', relayActive')
<1>1. board \in Board
  BY DEF TypeOK
<1>2. PICK r \in Command :
        /\ board' = r.board
        /\ IF ~r.raised /\ IsOn(r.board) = write.active
           THEN Finish(TRUE)
           ELSE write' = [write EXCEPT !.left = @ - 1] /\ UNCHANGED manager
  BY DEF Attempt
<1>3. IsOn(board') => IsOn(board)
  <2>1. CASE write.force
    <3>1. PICK b \in ForceOff(board) : r = Outcome(b, FALSE)
      BY <1>2, <2>1 DEF Command
    <3>2. board' = b
      BY <1>2, <3>1, OutcomeFields
    <3> QED
      BY <1>1, <3>2, ForceOffDims
  <2>2. CASE ~write.force
    <3>1. r \in SetSecurity(board, FALSE)
      BY <1>2, <2>2 DEF Command
    <3> QED
      BY <1>1, <1>2, <3>1, SetSecurityDims
  <2> QED
    BY <2>1, <2>2
<1>4. CASE Finish(TRUE) /\ IsOn(r.board) = write.active
  <2>1. ~IsOn(board')
    BY <1>2, <1>4
  <2>2. write' = Idle
    BY <1>4 DEF Finish
  <2> QED
    BY <2>1, <2>2 DEF Known, Idle
<1>5. CASE write' = [write EXCEPT !.left = @ - 1] /\ UNCHANGED manager
  <2>1. ~write'.active /\ relayActive' = relayActive
    BY <1>5 DEF RelayCommand, manager
  <2> QED
    BY <1>3, <2>1 DEF Known
<1> QED
  BY <1>2, <1>4, <1>5

\* The end of a write whose attempts are used up.
LEMMA GiveUpKnown ==
    ASSUME Alert = {}, TypeOK, GiveUp, Known(board, write, relayActive)
    PROVE  Known(board', write', relayActive')
<1>1. board \in Board /\ write \in RelayCommand /\ write.left = 0
  BY DEF TypeOK, GiveUp, LockFree
<1>2. CASE write.active \/ write.force
  <2>1. Finish(FALSE) /\ board' = board
    BY <1>2 DEF GiveUp
  <2>2. write' = Idle /\ relayActive' = relayActive
    BY <2>1 DEF Finish
  <2>3. IsOn(board) => relayActive
    BY <1>1 DEF Known
  <2> QED
    BY <2>1, <2>2, <2>3 DEF Known, Idle
<1>3. CASE ~(write.active \/ write.force)
  <2>1. PICK b \in ForceOff(board) : board' = b /\ Finish(~IsOn(b))
    BY <1>3 DEF GiveUp
  <2>2. write' = Idle /\ (IsOn(b) => relayActive' = relayActive)
    BY <2>1 DEF Finish
  <2>3. IsOn(b) => IsOn(board)
    BY <1>1, ForceOffDims
  <2>4. IsOn(board) => relayActive
    BY <1>3 DEF Known
  <2> QED
    BY <2>1, <2>2, <2>3, <2>4 DEF Known, Idle
<1> QED
  BY <1>2, <1>3

LEMMA KnownNext ==
    ASSUME Alert = {}, RetryCount >= 2
    PROVE  TypeOK /\ KnownInv /\ [Next]_vars => KnownInv'
<1> SUFFICES ASSUME TypeOK, KnownInv, [Next]_vars, phase' \in {"starting", "up"}
             PROVE  Known(board', write', relayActive')
  BY DEF KnownInv, Known
<1>1. ASSUME UNCHANGED phase
      PROVE  Known(board, write, relayActive)
  BY <1>1 DEF KnownInv
<1>2. ASSUME UNCHANGED <<board, relayActive, phase>>, write' = write
      PROVE  Known(board', write', relayActive')
  BY <1>1, <1>2
<1>3. ASSUME UNCHANGED <<board, relayActive>>, phase \in {"starting", "up"}, write = Idle,
             NEW then, NEW on \in BOOLEAN, NEW force, write' = Begin(then, on, force)
      PROVE  Known(board', write', relayActive')
  BY <1>3, BeginKnown DEF KnownInv
<1>4. ASSUME NEW e \in pending, Handle(e)
      PROVE  Known(board', write', relayActive')
  <2>1. /\ UNCHANGED <<board, relayActive, phase>> /\ write = Idle
        /\ write' = write \/ write' = Begin("detected", TRUE, FALSE)
    BY <1>4 DEF Handle, DetectionIgnored, DetectionRefreshed, DetectionAccepted,
                DetectionCleared, Received, LockFree, manager
  <2> QED
    BY <1>2, <1>3, <2>1
<1>5. ASSUME Worker
      PROVE  Known(board', write', relayActive')
  <2>1. /\ UNCHANGED <<board, relayActive, phase>> /\ write = Idle
        /\ \/ write' = write
           \/ write' = Begin("failsafe", FALSE, TRUE)
           \/ write' = Begin("recovery", TRUE, FALSE)
           \/ write' = Begin("timeout", FALSE, FALSE)
    BY <1>5 DEF Worker, WorkerFailsafe, WorkerPass, LockFree
  <2> QED
    BY <1>2, <1>3, <2>1
<1>6. ASSUME RelayWrite
      PROVE  Known(board', write', relayActive')
  <2>1. UNCHANGED phase
    BY <1>6 DEF RelayWrite, Attempt, GiveUp
  <2>2. Known(board, write, relayActive)
    BY <1>1, <2>1
  <2>3. CASE Attempt
    <3>1. write \in RelayCommand
      BY <2>3 DEF TypeOK, Attempt, Idle
    <3> QED
      BY <2>2, <2>3, <3>1, OnAttemptKnown, OffAttemptKnown
  <2> QED
    BY <1>6, <2>2, <2>3, GiveUpKnown DEF RelayWrite
<1>7. ASSUME ForceOffAtStartup
      PROVE  Known(board', write', relayActive')
  <2>1. /\ UNCHANGED <<board, relayActive>> /\ phase = "starting" /\ write = Idle
        /\ write' = Begin("force_off", FALSE, TRUE)
    BY <1>7 DEF ForceOffAtStartup, LockFree
  <2> QED
    BY <1>3, <2>1
<1>8. ~StopManager /\ ~CleanupBoard
  BY DEF StopManager, CleanupBoard
<1>9. ASSUME NEW c \in Camera, NEW kind \in {"detected", "cleared"}, Publish(c, kind)
      PROVE  UNCHANGED <<board, relayActive, phase>> /\ write' = write
  BY <1>9 DEF Publish, manager
<1>10. CASE Tick \/ UNCHANGED vars
  BY <1>2, <1>10 DEF Tick, vars, manager
<1> QED
  BY <1>2, <1>4, <1>5, <1>6, <1>7, <1>8, <1>9, <1>10 DEF Next, System

\* Where the relays belong to the surveillance alone and a write has a second attempt, a relay
\* that is lit between two writes is one the manager will turn off: no pattern of writes that
\* stick or raise leaves it lit and forgotten (_execute_relay_write_locked, _apply_red_locked).
THEOREM LitRelayIsKnown ==
    ASSUME Alert = {}, RetryCount >= 2
    PROVE  Spec => []LitIsKnown
<1>1. TypeOK /\ KnownInv /\ [Next]_vars => KnownInv'
  BY KnownNext
<1>2. KnownInv => LitIsKnown
  BY DEF KnownInv, Known, LitIsKnown, LockFree, Idle
<1> QED
  BY KnownInit, <1>1, <1>2, TypeCorrect, PTL DEF Spec
---------------------------------------------------------------------------
(* Alerts and the security writes *)

\* What a command leaves of an alert on a board whose GPIO is up.
AlertKept(b) ==
    \A c \in Channel : board.sources[c] \cap Alert # {} =>
       /\ b.sources[c] \cap Alert = board.sources[c] \cap Alert
       /\ board.pin[c] => b.pin[c]

LEMMA SecurityKeepsAlerts ==
    ASSUME TypeOK, NEW on \in BOOLEAN, NEW r \in SetSecurity(board, on)
    PROVE  AlertKept(r.board)
<1> SUFFICES ASSUME NEW c \in Channel, board.sources[c] \cap Alert # {}
             PROVE  /\ r.board.sources[c] \cap Alert = board.sources[c] \cap Alert
                    /\ board.pin[c] => r.board.pin[c]
  BY DEF AlertKept
<1>1. board \in Board
  BY DEF TypeOK
<1>2. r.board.sources[c] \cap Alert = board.sources[c] \cap Alert
  BY <1>1, SetSecurityAlerts
<1>3. board.pin[c] => r.board.pin[c]
  BY <1>1, SetSecurityKeepsLit
<1> QED
  BY <1>2, <1>3

LEMMA ForcedKeepsAlerts ==
    ASSUME TypeOK, board.enabled, NEW b \in ForceOff(board)
    PROVE  AlertKept(b)
BY ForceOffKeepsLit DEF AlertKept, TypeOK

LEMMA WritesKeepAlerts ==
    ASSUME TypeOK, [Next]_vars, write # write', board.enabled
    PROVE  AlertKept(board')
<1>1. CASE Attempt
  <2>1. PICK r \in Command : board' = r.board
    BY <1>1 DEF Attempt
  <2>2. CASE write.active
    <3>1. r \in SetSecurity(board, TRUE)
      BY <2>1, <2>2 DEF Command
    <3> QED
      BY <2>1, <3>1, SecurityKeepsAlerts
  <2>3. CASE ~write.active /\ ~write.force
    <3>1. r \in SetSecurity(board, FALSE)
      BY <2>1, <2>3 DEF Command
    <3> QED
      BY <2>1, <3>1, SecurityKeepsAlerts
  <2>4. CASE ~write.active /\ write.force
    <3>1. PICK b \in ForceOff(board) : r = Outcome(b, FALSE)
      BY <2>1, <2>4 DEF Command
    <3>2. board' = b
      BY <2>1, <3>1, OutcomeFields
    <3> QED
      BY <3>2, ForcedKeepsAlerts
  <2> QED
    BY <2>2, <2>3, <2>4
<1>2. CASE GiveUp
  <2>1. board' = board \/ board' \in ForceOff(board)
    BY <1>2 DEF GiveUp
  <2> QED
    BY <2>1, ForcedKeepsAlerts DEF AlertKept
<1>3. ~CleanupBoard
  BY DEF CleanupBoard
<1>4. ASSUME NEW a \in Alert
      PROVE  ~TriggerAlert(a) /\ ~EndAlert(a) /\ ~QrClearsAlert(a)
  BY DEF TriggerAlert, EndAlert, QrClearsAlert
<1>5. CASE UNCHANGED <<board, alerts>>
  BY <1>5 DEF AlertKept
<1> QED
  BY <1>1, <1>2, <1>3, <1>4, <1>5, BoardSteps

\* Whatever writes stick or raise, neither the commands of the surveillance nor the forced OFF
\* release an alert's source or darken an output it holds (relay_controller.py:34-35).
THEOREM AlertsSurvive == Spec => AlertsSurviveSecurityWrites
<1>1. TypeOK /\ [Next]_vars
        => [write # write' /\ board.enabled =>
              \A c \in Channel : board.sources[c] \cap Alert # {} =>
                 /\ board'.sources[c] \cap Alert = board.sources[c] \cap Alert
                 /\ board.pin[c] => board'.pin[c]]_vars
  BY WritesKeepAlerts DEF AlertKept
<1> QED
  BY <1>1, TypeCorrect, PTL DEF Spec, AlertsSurviveSecurityWrites

---------------------------------------------------------------------------
(* The manager implements Alarm. *)

\* What the steps of the agent do to the security source on the board.
LEMMA AttemptSetsSecurity ==
    ASSUME TypeOK, Attempt
    PROVE  SecurityHeld(board') = write.active
<1>1. write \in RelayCommand /\ board \in Board
  BY DEF Attempt, TypeOK, Idle
<1>2. PICK r \in Command : board' = r.board
  BY DEF Attempt
<1>3. CASE write.active
  <2>1. r \in SetSecurity(board, TRUE)
    BY <1>2, <1>3 DEF Command
  <2>2. Security \in board'.sources["red"]
    BY <1>1, <1>2, <2>1, SetSecurityAsserts DEF Channel
  <2> QED
    BY <1>1, <1>3, <2>2 DEF SecurityHeld, Channel, RelayCommand
<1>4. CASE ~write.active
  <2>1. ASSUME NEW c \in Channel
        PROVE  Security \notin board'.sources[c]
    <3>1. CASE write.force
      <4>1. PICK b \in ForceOff(board) : r = Outcome(b, FALSE)
        BY <1>2, <1>4, <3>1 DEF Command
      <4>2. board' = b
        BY <1>2, <4>1, OutcomeFields
      <4> QED
        BY <1>1, <4>2, ForceOffReleasesSecurity
    <3>2. CASE ~write.force
      <4>1. r \in SetSecurity(board, FALSE)
        BY <1>2, <1>4, <3>2 DEF Command
      <4> QED
        BY <1>1, <1>2, <4>1, SetSecurityReleases
    <3> QED
      BY <3>1, <3>2
  <2> QED
    BY <1>1, <1>4, <2>1 DEF SecurityHeld, RelayCommand
<1> QED
  BY <1>3, <1>4

LEMMA GiveUpSetsSecurity ==
    ASSUME TypeOK, GiveUp
    PROVE  IF write.active \/ write.force THEN board' = board ELSE SecurityHeld(board') = FALSE
<1>1. board \in Board
  BY DEF TypeOK
<1>2. ~(write.active \/ write.force) => board' \in ForceOff(board)
  BY DEF GiveUp
<1>3. write.active \/ write.force => board' = board
  BY DEF GiveUp
<1> QED
  BY <1>1, <1>2, <1>3, ForceOffReleasesSecurity DEF SecurityHeld

LEMMA OthersKeepSecurity ==
    ASSUME TypeOK, [Next]_vars, ~Attempt, ~GiveUp, ~CleanupBoard
    PROVE  SecurityHeld(board') = SecurityHeld(board)
<1>1. board \in Board
  BY DEF TypeOK
<1>2. ASSUME SameSecurity(board', board)
      PROVE  SecurityHeld(board') = SecurityHeld(board)
  BY <1>2 DEF SameSecurity, SecurityHeld
<1>3. ASSUME NEW a \in Alert, TriggerAlert(a) \/ EndAlert(a)
      PROVE  SameSecurity(board', board)
  <2>1. PICK on \in BOOLEAN : \E r \in SetAlert(board, a, on) : board' = r.board
    BY <1>3 DEF TriggerAlert, EndAlert
  <2> QED
    BY <1>1, <2>1, SetAlertKeepsSecurity
<1>4. ASSUME NEW a \in Alert, QrClearsAlert(a)
      PROVE  SameSecurity(board', board)
  <2>1. PICK r \in DropAlert(board, a) : board' = r.board
    BY <1>4 DEF QrClearsAlert
  <2> QED
    BY <1>1, <2>1, DropAlertKeepsSecurity
<1> QED
  BY <1>2, <1>3, <1>4, BoardSteps

\* The failsafe and the startup leave no alarm in progress: what the failsafe gives up has been
\* quiet for long enough, and nothing happens before the relays are forced off at the start.
TimelyOff ==
    /\ active = {} => quiet >= MinOf(stateAge, Timeout)
    /\ write.then = "failsafe" => quiet >= MinOf(Failsafe, Timeout)

NothingYet ==
    /\ phase = "starting" => /\ pending = {} /\ active = {} /\ lifecycle = "IDLE"
                             /\ write = Idle /\ ~relayActive
    /\ write.then = "force_off" => ~relayActive

PromiseInv == TimelyOff /\ NothingYet

\* An age that is reset, or kept.
LEMMA EnterAge ==
    ASSUME TypeOK, active = {} => quiet >= MinOf(stateAge, Timeout), quiet' = quiet,
           stateAge' = 0 \/ (active = {} /\ stateAge' = stateAge)
    PROVE  quiet' >= MinOf(stateAge', Timeout)
BY RelayAssumption DEF TypeOK, MinOf

LEMMA TimelyOffNext ==
    ASSUME StateInv, HoldInv, PromiseInv, [Next]_vars
    PROVE  TimelyOff'
<1>0. TypeOK /\ RegistryConsistent /\ WriteMatchesState
  BY DEF StateInv
<1>1. ASSUME UNCHANGED <<active, stateAge, quiet>>, write' = write \/ write'.then # "failsafe"
      PROVE  TimelyOff'
  BY <1>1 DEF PromiseInv, TimelyOff
<1>2. ASSUME NEW e \in pending, DetectionAccepted(e)
      PROVE  TimelyOff'
  <2>1. active' # {} /\ write' = Begin("detected", TRUE, FALSE)
    BY <1>2 DEF DetectionAccepted
  <2> QED
    BY <2>1 DEF TimelyOff, Begin
<1>3. ASSUME NEW e \in pending, DetectionCleared(e)
      PROVE  TimelyOff'
  <2>1. write' = Idle
    BY <1>3 DEF DetectionCleared, Received, LockFree
  <2>2. CASE active' # {}
    BY <2>1, <2>2 DEF TimelyOff, Idle
  <2>3. CASE active' = {}
    <3>1. quiet' = quiet
      BY <1>3, <2>3 DEF DetectionCleared, TrackQuiet
    <3>2. stateAge' = 0 \/ (active = {} /\ stateAge' = stateAge)
      BY <1>0, <1>3, <2>3 DEF DetectionCleared, StartCountdown, Enter, RegistryConsistent
    <3> QED
      BY <1>0, <2>1, <3>1, <3>2, EnterAge DEF PromiseInv, TimelyOff, Idle
  <2> QED
    BY <2>2, <2>3
<1>4. CASE WorkerFailsafe
  <2>1. active = {} /\ stateAge >= Failsafe /\ UNCHANGED <<active, quiet>>
    BY <1>4 DEF WorkerFailsafe, FailsafeDue
  <2>2. stateAge' = 0 \/ stateAge' = stateAge
    BY <1>4 DEF WorkerFailsafe, Enter
  <2>3. quiet' >= MinOf(stateAge', Timeout)
    BY <1>0, <2>1, <2>2, EnterAge DEF PromiseInv, TimelyOff
  <2>4. quiet >= MinOf(Failsafe, Timeout)
    BY <1>0, <2>1, RelayAssumption DEF PromiseInv, TimelyOff, TypeOK, MinOf
  <2> QED
    BY <2>1, <2>3, <2>4 DEF TimelyOff
<1>5. CASE WorkerPass
  <2>1. write'.then # "failsafe"
    BY <1>5 DEF WorkerPass, LockFree, Begin, Idle
  <2>2. CASE active' # {}
    BY <2>1, <2>2 DEF TimelyOff
  <2>3. CASE active' = {}
    <3>1. quiet' = quiet
      BY <1>5, <2>3 DEF WorkerPass, TrackQuiet
    <3>2. stateAge' = 0 \/ (active = {} /\ stateAge' = stateAge)
      <4>1. active' = active \ Stale
        BY <1>5 DEF WorkerPass, Expire
      <4>2. CASE Stale = {}
        BY <1>5, <2>3, <4>1, <4>2 DEF WorkerPass, Expire
      <4>3. CASE Stale # {}
        <5>1. lifecycle = "ACTIVE"
          BY <1>0, <4>3 DEF RegistryConsistent, Stale
        <5> QED
          BY <1>5, <2>3, <4>3, <5>1 DEF WorkerPass, Expire, StartCountdown, Enter
      <4> QED
        BY <4>2, <4>3
    <3> QED
      BY <1>0, <2>1, <3>1, <3>2, EnterAge DEF PromiseInv, TimelyOff
  <2> QED
    BY <2>2, <2>3
<1>6. ASSUME NEW ok \in BOOLEAN, Finish(ok), UNCHANGED quiet
      PROVE  TimelyOff'
  <2>1. write' = Idle
    BY <1>6 DEF Finish
  <2>2. write.then = "timeout" => active = {}
    BY <1>0 DEF WriteMatchesState, RegistryConsistent
  <2>3. active' = active /\ (stateAge' = stateAge \/ (active = {} /\ stateAge' = 0))
    BY <1>6, <2>2 DEF Finish, Enter
  <2>4. active = {} => quiet' >= MinOf(stateAge', Timeout)
    BY <1>0, <1>6, <2>3, EnterAge DEF PromiseInv, TimelyOff
  <2> QED
    BY <2>1, <2>3, <2>4 DEF TimelyOff, Idle
<1>7. CASE Attempt
  <2>1. CASE Finish(TRUE)
    BY <1>6, <1>7, <2>1 DEF Attempt
  <2>2. CASE write' = [write EXCEPT !.left = @ - 1] /\ UNCHANGED manager
    <3>1. write \in RelayCommand
      BY <1>0, <1>7 DEF Attempt, TypeOK, Idle
    <3>2. write'.then = write.then
      BY <2>2, <3>1 DEF RelayCommand
    <3> QED
      BY <1>7, <2>2, <3>2 DEF Attempt, manager, PromiseInv, TimelyOff
  <2> QED
    BY <1>7, <2>1, <2>2 DEF Attempt
<1>8. CASE GiveUp
  <2>1. PICK ok \in BOOLEAN : Finish(ok)
    BY <1>8 DEF GiveUp, IsOn
  <2> QED
    BY <1>6, <1>8, <2>1 DEF GiveUp
<1>9. CASE ForceOffAtStartup
  <2>1. active = {} /\ active' = {} /\ quiet' = quiet /\ write'.then # "failsafe"
    BY <1>9 DEF ForceOffAtStartup, Begin, PromiseInv, NothingYet
  <2>2. stateAge' = 0 \/ stateAge' = stateAge
    BY <1>9 DEF ForceOffAtStartup, Enter
  <2> QED
    BY <1>0, <2>1, <2>2, EnterAge DEF PromiseInv, TimelyOff
<1>10. CASE Tick
  <2>1. UNCHANGED <<active, write>>
    BY <1>10 DEF Tick
  <2>2. write.then = "failsafe" => active = {}
    BY <1>0 DEF WriteMatchesState, RegistryConsistent
  <2>3. active = {} => quiet' = MinOf(quiet + 1, Timeout)
    BY <1>10 DEF Tick
  <2>4. stateAge' = MinOf(stateAge + 1, Failsafe)
    BY <1>10 DEF Tick
  <2>5. quiet \in 0 .. Timeout /\ stateAge \in 0 .. Failsafe
    BY <1>0 DEF TypeOK
  <2>6. active = {} => quiet' >= MinOf(stateAge', Timeout)
    BY <2>3, <2>4, <2>5, RelayAssumption DEF PromiseInv, TimelyOff, MinOf
  <2>7. write.then = "failsafe" => quiet' >= MinOf(Failsafe, Timeout)
    BY <2>2, <2>3, <2>5, RelayAssumption DEF PromiseInv, TimelyOff, MinOf
  <2> QED
    BY <2>1, <2>6, <2>7 DEF TimelyOff
<1>11. ASSUME NEW e \in pending, DetectionIgnored(e) \/ DetectionRefreshed(e)
       PROVE  UNCHANGED <<active, stateAge, quiet, write>>
  BY <1>11 DEF DetectionIgnored, DetectionRefreshed, manager
<1>12. ASSUME NEW c \in Camera, NEW kind \in {"detected", "cleared"}, Publish(c, kind)
       PROVE  UNCHANGED <<active, stateAge, quiet, write>>
  BY <1>12 DEF Publish, manager
<1>13. ASSUME NEW a \in Alert, TriggerAlert(a) \/ EndAlert(a) \/ QrClearsAlert(a)
       PROVE  UNCHANGED <<active, stateAge, quiet, write>>
  BY <1>13 DEF TriggerAlert, EndAlert, QrClearsAlert, manager
<1>14. CASE StopManager \/ CleanupBoard \/ UNCHANGED vars
  BY <1>1, <1>14 DEF StopManager, CleanupBoard, manager, vars
<1> QED
  BY <1>1, <1>2, <1>3, <1>4, <1>5, <1>7, <1>8, <1>9, <1>10, <1>11, <1>12, <1>13, <1>14
     DEF Next, System, Handle, Worker, RelayWrite

LEMMA NothingYetNext ==
    ASSUME StateInv, PromiseInv, [Next]_vars
    PROVE  NothingYet'
<1>0. TypeOK /\ WriteMatchesState
  BY DEF StateInv
<1>1. ASSUME UNCHANGED <<manager, pending, write, phase>>
      PROVE  NothingYet'
  BY <1>1 DEF PromiseInv, NothingYet, manager
<1>2. ASSUME phase # "starting", phase' = phase, relayActive' = relayActive,
             write' = write \/ write'.then # "force_off"
      PROVE  NothingYet'
  BY <1>2 DEF PromiseInv, NothingYet
<1>3. ASSUME NEW e \in pending, Handle(e)
      PROVE  NothingYet'
  <2>1. phase # "starting" /\ UNCHANGED <<phase, relayActive>>
    BY <1>3 DEF PromiseInv, NothingYet, Handle, DetectionIgnored, DetectionRefreshed,
                DetectionAccepted, DetectionCleared, Received, manager
  <2>2. write' = write \/ write' = Begin("detected", TRUE, FALSE)
    BY <1>3 DEF Handle, DetectionIgnored, DetectionRefreshed, DetectionAccepted,
                DetectionCleared, Received
  <2> QED
    BY <1>2, <2>1, <2>2 DEF Begin
<1>4. CASE WorkerFailsafe
  <2>1. relayActive /\ UNCHANGED <<phase, relayActive>> /\ write' = Begin("failsafe", FALSE, TRUE)
    BY <1>4 DEF WorkerFailsafe, FailsafeDue
  <2> QED
    BY <1>2, <2>1 DEF PromiseInv, NothingYet, Begin
<1>5. CASE WorkerPass
  <2>1. /\ UNCHANGED <<phase, relayActive, pending>> /\ active' = active \ Stale
        /\ Stale = {} => UNCHANGED lifecycle
    BY <1>5 DEF WorkerPass, Expire
  <2>2. \/ lifecycle' = "ACTIVE" /\ write' = Begin("recovery", TRUE, FALSE)
        \/ lifecycle' = "WAITING_OFF" /\ write' = Begin("timeout", FALSE, FALSE)
        \/ write' = write
    BY <1>5 DEF WorkerPass
  <2>3. CASE phase = "starting"
    <3>1. Stale = {} /\ lifecycle = "IDLE" /\ active = {}
      BY <2>3 DEF PromiseInv, NothingYet, Stale
    <3> QED
      BY <2>1, <2>2, <2>3, <3>1 DEF PromiseInv, NothingYet
  <2>4. CASE phase # "starting"
    BY <1>2, <2>1, <2>2, <2>4 DEF Begin
  <2> QED
    BY <2>3, <2>4
<1>6. ASSUME NEW ok \in BOOLEAN, Finish(ok), ~LockFree, UNCHANGED phase
      PROVE  NothingYet'
  <2>1. write' = Idle /\ phase' # "starting"
    BY <1>6 DEF Finish, PromiseInv, NothingYet, LockFree
  <2> QED
    BY <2>1 DEF NothingYet, Idle
<1>7. CASE Attempt
  <2>1. ~LockFree /\ UNCHANGED phase
    BY <1>7 DEF Attempt, LockFree, Idle
  <2>2. CASE Finish(TRUE)
    BY <1>6, <2>1, <2>2
  <2>3. CASE write' = [write EXCEPT !.left = @ - 1] /\ UNCHANGED manager
    <3>1. write \in RelayCommand
      BY <1>0, <2>1 DEF TypeOK, LockFree
    <3>2. write'.then = write.then
      BY <2>3, <3>1 DEF RelayCommand
    <3>3. phase # "starting"
      BY <2>1 DEF PromiseInv, NothingYet, LockFree
    <3> QED
      BY <2>1, <2>3, <3>2, <3>3 DEF manager, PromiseInv, NothingYet
  <2> QED
    BY <1>7, <2>2, <2>3 DEF Attempt
<1>8. CASE GiveUp
  <2>1. PICK ok \in BOOLEAN : Finish(ok)
    BY <1>8 DEF GiveUp, IsOn
  <2> QED
    BY <1>6, <1>8, <2>1 DEF GiveUp
<1>9. CASE ForceOffAtStartup
  BY <1>9 DEF ForceOffAtStartup, PromiseInv, NothingYet
<1>10. CASE StopManager \/ CleanupBoard
  BY <1>10 DEF StopManager, CleanupBoard, manager, PromiseInv, NothingYet
<1>11. CASE Tick
  BY <1>11 DEF Tick, PromiseInv, NothingYet
<1>12. ASSUME NEW c \in Camera, NEW kind \in {"detected", "cleared"}, Publish(c, kind)
       PROVE  NothingYet'
  BY <1>2, <1>12 DEF Publish, manager
<1>13. ASSUME NEW a \in Alert, TriggerAlert(a) \/ EndAlert(a) \/ QrClearsAlert(a)
       PROVE  UNCHANGED <<manager, pending, write, phase>>
  BY <1>13 DEF TriggerAlert, EndAlert, QrClearsAlert
<1>14. CASE UNCHANGED vars
  BY <1>1, <1>14 DEF vars
<1> QED
  BY <1>1, <1>3, <1>4, <1>5, <1>7, <1>8, <1>9, <1>10, <1>11, <1>12, <1>13, <1>14
     DEF Next, System, Worker, RelayWrite

\* A step that Alarm does not see.
LEMMA UnseenStep ==
    ASSUME UNCHANGED <<active, relayActive, lifecycle, quiet>>,
           SecurityHeld(board') = SecurityHeld(board), (phase' = "down") = (phase = "down")
    PROVE  UNCHANGED Promise!alarm
BY DEF Promise!alarm

\* When the manager turns the relays off nothing is active, and the hold of relays that are on
\* is over.
LEMMA OffIsTimely ==
    ASSUME StateInv, HoldInv, PromiseInv, ~LockFree, ~write.active
    PROVE  active = {} /\ (relayActive => Promise!Over)
<1>1. TypeOK /\ WriteMatchesState /\ RegistryConsistent
  BY DEF StateInv
<1>2. write.then \in {"detected", "recovery", "timeout", "failsafe", "force_off"}
  BY <1>1 DEF TypeOK, LockFree, RelayCommand
<1>3. write.then \in {"timeout", "failsafe", "force_off"} /\ active = {}
  BY <1>1, <1>2 DEF WriteMatchesState, RegistryConsistent
<1>4. CASE write.then = "timeout"
  BY <1>3, <1>4 DEF HoldInv, HoldHonoured, Promise!Over
<1>5. CASE write.then = "failsafe"
  <2>1. quiet >= MinOf(Failsafe, Timeout) /\ quiet \in Nat
    BY <1>1, <1>5 DEF PromiseInv, TimelyOff, TypeOK
  <2> QED
    BY <1>3, <2>1, RelayAssumption DEF Promise!Over, MinOf
<1>6. CASE write.then = "force_off"
  BY <1>3, <1>6 DEF PromiseInv, NothingYet
<1> QED
  BY <1>3, <1>4, <1>5, <1>6

\* The end of an OFF, taken or not.
LEMMA OffWithdraws ==
    ASSUME StateInv, HoldInv, PromiseInv, ~LockFree, ~write.active,
           SecurityHeld(board') = FALSE, UNCHANGED <<quiet, phase>>,
           (\E ok \in BOOLEAN : Finish(ok)) \/ UNCHANGED manager
    PROVE  Promise!Withdraw
<1>1. active = {} /\ (relayActive => Promise!Over)
  BY OffIsTimely
<1>2. write.then # "timeout" => lifecycle = "IDLE"
  BY DEF StateInv, WriteMatchesState, TypeOK, LockFree, RelayCommand
<1>3. ASSUME NEW ok \in BOOLEAN, Finish(ok)
      PROVE  /\ active' = active
             /\ \/ UNCHANGED <<relayActive, lifecycle>>
                \/ relayActive' = FALSE /\ lifecycle' = "IDLE"
  <2>1. write.active \in BOOLEAN
    BY DEF StateInv, TypeOK, LockFree, RelayCommand
  <2> QED
    BY <1>1, <1>2, <1>3, <2>1 DEF Finish, Enter
<1>4. /\ active' = active
      /\ \/ UNCHANGED <<relayActive, lifecycle>>
         \/ relayActive' = FALSE /\ lifecycle' = "IDLE"
  BY <1>3 DEF manager
<1> QED
  BY <1>1, <1>4 DEF Promise!Withdraw

\* One attempt to turn the relays on.
LEMMA OnRaises ==
    ASSUME StateInv, Attempt, write.active
    PROVE  Promise!Raise
<1>1. ~LockFree
  BY DEF Attempt, LockFree, Idle
<1>2. write.then \in {"detected", "recovery"} /\ write.active = TRUE
  BY <1>1 DEF StateInv, WriteMatchesState, TypeOK, LockFree, RelayCommand
<1>3. active # {}
  BY <1>2 DEF StateInv, WriteMatchesState
<1>4. SecurityHeld(board') = TRUE
  BY <1>2, AttemptSetsSecurity DEF StateInv
<1>5. Finish(TRUE) \/ UNCHANGED manager
  BY DEF Attempt
<1>6. relayActive' \in {relayActive, TRUE} /\ UNCHANGED <<active, lifecycle>>
  BY <1>2, <1>5 DEF Finish, manager
<1> QED
  BY <1>3, <1>4, <1>6 DEF Attempt, Promise!Raise

LEMMA PromiseNext ==
    ASSUME StateInv, HoldInv, PromiseInv, [Next]_vars
    PROVE  [Promise!Next]_(Promise!alarm)
<1>0. TypeOK /\ RegistryConsistent
  BY DEF StateInv
<1>a. ASSUME ~Attempt, ~GiveUp, ~CleanupBoard
      PROVE  SecurityHeld(board') = SecurityHeld(board)
  BY <1>0, <1>a, OthersKeepSecurity
<1>1. CASE Attempt
  <2>1. CASE write.active
    BY <1>1, <2>1, OnRaises DEF Promise!Next
  <2>2. CASE ~write.active
    <3>1. SecurityHeld(board') = FALSE
      <4>1. write \in RelayCommand
        BY <1>0, <1>1 DEF Attempt, TypeOK, Idle
      <4> QED
        BY <1>0, <1>1, <2>2, <4>1, AttemptSetsSecurity DEF RelayCommand
    <3>2. (\E ok \in BOOLEAN : Finish(ok)) \/ UNCHANGED manager
      BY <1>1 DEF Attempt
    <3>3. ~LockFree /\ UNCHANGED <<quiet, phase>>
      BY <1>1 DEF Attempt, LockFree, Idle
    <3> QED
      BY <2>2, <3>1, <3>2, <3>3, OffWithdraws DEF Promise!Next
  <2> QED
    BY <2>1, <2>2
<1>2. CASE GiveUp
  <2>0. ~LockFree /\ UNCHANGED <<quiet, phase>>
    BY <1>2 DEF GiveUp
  <2>1. CASE write.active \/ write.force
    <3>1. Finish(FALSE) /\ UNCHANGED board
      BY <1>2, <2>1 DEF GiveUp
    <3> QED
      BY <2>0, <3>1, UnseenStep DEF Finish
  <2>2. CASE ~(write.active \/ write.force)
    <3>1. SecurityHeld(board') = FALSE
      BY <1>0, <1>2, <2>2, GiveUpSetsSecurity
    <3>2. \E ok \in BOOLEAN : Finish(ok)
      BY <1>2 DEF GiveUp, IsOn
    <3> QED
      BY <2>0, <2>2, <3>1, <3>2, OffWithdraws DEF Promise!Next
  <2> QED
    BY <2>1, <2>2
<1>3. CASE CleanupBoard
  <2>1. phase = "stopping" /\ phase' = "down" /\ UNCHANGED <<manager, quiet>>
    BY <1>3 DEF CleanupBoard
  <2>2. SecurityHeld(board') = FALSE
    <3>1. board \in Board /\ board' \in Cleanup(board)
      BY <1>0, <1>3 DEF CleanupBoard, TypeOK
    <3>2. board'.sources = NoSources
      BY <3>1, CleanupSources
    <3> QED
      BY <3>2 DEF SecurityHeld, NoSources
  <2>3. Promise!ShutDown
    BY <2>1, <2>2 DEF Promise!ShutDown, manager
  <2> QED
    BY <2>3 DEF Promise!Next
<1>4. ASSUME ~Attempt, ~GiveUp, ~CleanupBoard
      PROVE  [Promise!Next]_(Promise!alarm)
  <2>0. SecurityHeld(board') = SecurityHeld(board)
    BY <1>4, <1>a
  <2>1. ASSUME NEW e \in pending, DetectionIgnored(e) \/ DetectionRefreshed(e)
        PROVE  UNCHANGED Promise!alarm
    BY <2>0, <2>1, UnseenStep DEF DetectionIgnored, DetectionRefreshed, Received, manager
  <2>2. ASSUME NEW e \in pending, DetectionAccepted(e)
        PROVE  Promise!Next
    <3>1. e.camera \in Camera
      BY <1>0 DEF TypeOK, Event
    <3>2. /\ active' = active \cup {e.camera} /\ lifecycle' = "ACTIVE" /\ quiet' = 0
          /\ UNCHANGED <<relayActive, phase>>
      BY <2>2 DEF DetectionAccepted, Received, Enter, TrackQuiet
    <3>3. Promise!Arrive(e.camera)
      BY <2>0, <3>2 DEF Promise!Arrive
    <3> QED
      BY <3>1, <3>3 DEF Promise!Next
  <2>3. ASSUME NEW e \in pending, DetectionCleared(e)
        PROVE  [Promise!Next]_(Promise!alarm)
    <3>1. /\ active' = active \ {e.camera} /\ UNCHANGED <<relayActive, phase>>
          /\ quiet' = IF active' # {} THEN 0 ELSE quiet
      BY <2>3 DEF DetectionCleared, Received, TrackQuiet
    <3>2. CASE e.camera \in active
      <4>1. /\ quiet' = quiet
            /\ (lifecycle' = "WAITING_OFF") = (active' = {} /\ relayActive)
        BY <1>0, <2>3, <3>1, <3>2
           DEF DetectionCleared, StartCountdown, Enter, HoldInv, TypeOK
      <4>2. Promise!Depart
        BY <2>0, <3>1, <3>2, <4>1 DEF Promise!Depart
      <4> QED
        BY <4>2 DEF Promise!Next
    <3>3. CASE e.camera \notin active /\ relayActive /\ active = {}
      <4>1. lifecycle' = "WAITING_OFF"
        BY <2>3, <3>3 DEF DetectionCleared, StartCountdown, Enter
      <4>2. Promise!Recount
        BY <2>0, <3>1, <3>3, <4>1 DEF Promise!Recount
      <4> QED
        BY <4>2 DEF Promise!Next
    <3>4. CASE e.camera \notin active /\ ~(relayActive /\ active = {})
      <4>1. UNCHANGED lifecycle /\ active' = active /\ quiet' = quiet
        BY <2>3, <3>1, <3>4 DEF DetectionCleared, HoldInv
      <4> QED
        BY <2>0, <3>1, <4>1, UnseenStep
    <3> QED
      BY <3>2, <3>3, <3>4
  <2>4. CASE WorkerFailsafe
    <3>1. /\ active = {} /\ relayActive /\ stateAge >= Failsafe /\ lifecycle' = "IDLE"
          /\ UNCHANGED <<active, relayActive, quiet, phase>>
      BY <2>4 DEF WorkerFailsafe, FailsafeDue, Enter
    <3>2. quiet \in Nat /\ quiet >= MinOf(stateAge, Timeout) /\ stateAge \in Nat
      BY <1>0, <3>1 DEF PromiseInv, TimelyOff, TypeOK
    <3>3. Promise!Over
      BY <3>1, <3>2, RelayAssumption DEF Promise!Over, MinOf
    <3>4. Promise!Abandon
      BY <2>0, <3>1, <3>3 DEF Promise!Abandon
    <3> QED
      BY <3>4 DEF Promise!Next
  <2>5. CASE WorkerPass
    <3>1. /\ active' = active \ Stale /\ UNCHANGED <<relayActive, phase>>
          /\ quiet' = IF active' # {} THEN 0 ELSE quiet
      BY <2>5 DEF WorkerPass, Expire, TrackQuiet
    <3>2. quiet' = quiet
      BY <3>1 DEF HoldInv
    <3>3. CASE Stale = {}
      <4>1. UNCHANGED <<active, lifecycle>>
        BY <2>5, <3>3 DEF WorkerPass, Expire
      <4> QED
        BY <2>0, <3>1, <3>2, <4>1, UnseenStep
    <3>4. CASE Stale # {}
      <4>1. active # {} /\ lifecycle = "ACTIVE"
        BY <1>0, <3>4 DEF Stale, RegistryConsistent
      <4>2. (lifecycle' = "WAITING_OFF") = (active' = {} /\ relayActive)
        BY <1>0, <2>5, <3>4, <4>1 DEF WorkerPass, Expire, StartCountdown, Enter, TypeOK
      <4>3. Promise!Depart
        BY <2>0, <3>1, <3>2, <4>1, <4>2 DEF Promise!Depart
      <4> QED
        BY <4>3 DEF Promise!Next
    <3> QED
      BY <3>3, <3>4
  <2>6. CASE ForceOffAtStartup
    BY <2>0, <2>6, UnseenStep DEF ForceOffAtStartup, Enter, PromiseInv, NothingYet
  <2>7. CASE StopManager
    BY <2>0, <2>7, UnseenStep DEF StopManager, manager
  <2>8. CASE Tick
    <3>1. /\ UNCHANGED <<active, relayActive, lifecycle, phase>>
          /\ quiet' = IF active # {} THEN 0 ELSE MinOf(quiet + 1, Timeout)
      BY <2>8 DEF Tick
    <3>2. quiet \in 0 .. Timeout /\ (active # {} => quiet = 0)
      BY <1>0 DEF TypeOK, HoldInv
    <3>3. quiet' = IF active # {} \/ quiet = Timeout THEN quiet ELSE quiet + 1
      BY <3>1, <3>2, RelayAssumption DEF MinOf
    <3>4. Promise!TimePasses
      BY <2>0, <3>1, <3>3 DEF Promise!TimePasses
    <3> QED
      BY <3>4 DEF Promise!Next
  <2>9. ASSUME NEW c \in Camera, NEW kind \in {"detected", "cleared"}, Publish(c, kind)
        PROVE  UNCHANGED Promise!alarm
    BY <2>0, <2>9, UnseenStep DEF Publish, manager
  <2>10. ASSUME NEW a \in Alert, TriggerAlert(a) \/ EndAlert(a) \/ QrClearsAlert(a)
         PROVE  UNCHANGED Promise!alarm
    BY <2>0, <2>10, UnseenStep DEF TriggerAlert, EndAlert, QrClearsAlert, manager
  <2>11. CASE UNCHANGED vars
    BY <2>0, <2>11, UnseenStep DEF vars, manager
  <2> QED
    BY <1>4, <2>1, <2>2, <2>3, <2>4, <2>5, <2>6, <2>7, <2>8, <2>9, <2>10, <2>11
       DEF Next, System, Handle, Worker, RelayWrite
<1> QED
  BY <1>1, <1>2, <1>3, <1>4

\* KeepsPromise holds of every setting: whatever detections, clears, expiries, failed writes,
\* alerts and shutdown interleave, the alarm is withdrawn only with nothing detected, relays
\* known to be on only after the hold, and a countdown runs only for relays known to be on.
THEOREM ManagerImplementsAlarm == Spec => KeepsPromise
<1>1. Init => Promise!Init
  <2>1. Init => SecurityHeld(board) = FALSE
    BY DEF Init, SecurityHeld, NoSources
  <2> QED
    BY <2>1 DEF Init, Promise!Init
<1>2. Init => PromiseInv
  BY RelayAssumption DEF Init, PromiseInv, TimelyOff, NothingYet, Idle, MinOf
<1>3. StateInv /\ HoldInv /\ PromiseInv /\ [Next]_vars => PromiseInv'
  BY TimelyOffNext, NothingYetNext DEF PromiseInv
<1>4. StateInv /\ HoldInv /\ PromiseInv /\ [Next]_vars => [Promise!Next]_(Promise!alarm)
  BY PromiseNext
<1> QED
  BY <1>1, <1>2, <1>3, <1>4, HoldInit, HoldNext, StateCorrect, PTL
     DEF Spec, KeepsPromise, Promise!Spec

===========================================================================
