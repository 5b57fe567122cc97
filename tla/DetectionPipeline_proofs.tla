------------------------ MODULE DetectionPipeline_proofs ------------------------
(***************************************************************************)
(* From the detectors' decisions to the relay manager's sources, for every *)
(* setting of streaks, times and classifiers, and whatever the scene, the  *)
(* cameras and the GPIO do.                                                *)
(***************************************************************************)
EXTENDS DetectionPipeline, SecurityRelay_proofs

\* Distinct detectors report distinct sources (PipelineAssumption).
LEMMA SourcesDiffer ==
    ASSUME NEW r \in Role
    PROVE  /\ TamperSource[r] \in Camera /\ TamperSource[r] # Person
           /\ \A q \in Role : TamperSource[q] = TamperSource[r] => q = r
BY PipelineAssumption

---------------------------------------------------------------------------
(* The pipeline runs the relay manager: its steps are steps of SecurityRelay or leave it alone. *)

LEMMA ReportSteps ==
    ASSUME NEW c \in Camera, NEW on \in BOOLEAN, Report(c, on)
    PROVE  [Next]_vars
BY DEF Report, Published, Next

LEMMA PipelineStepsRelay ==
    ASSUME [PipelineNext]_allVars
    PROVE  [Next]_vars
<1>1. CASE PersonFrame
  <2>1. PICK modelRuns \in ModelRuns : UpdateLedState(Seen(modelRuns))
    BY <1>1 DEF PersonFrame
  <2>2. PICK on \in BOOLEAN : Report(Person, on)
    BY <2>1 DEF UpdateLedState
  <2> QED
    BY <2>2, ReportSteps, PipelineAssumption
<1>2. CASE StalePerson
  BY <1>2, ReportSteps, PipelineAssumption DEF StalePerson
<1>3. ASSUME NEW r \in Role, TamperFrame(r) \/ StaleTamper(r) \/ PauseTamper(r)
      PROVE  [Next]_vars
  <2>1. Report(TamperSource[r], TRUE) \/ Report(TamperSource[r], FALSE) \/ NoReport
    BY <1>3 DEF TamperFrame, StaleTamper, PauseTamper, TamperedFrame, ClearFrame
  <2> QED
    BY <2>1, ReportSteps, SourcesDiffer DEF NoReport
<1>4. CASE SceneChanges \/ CameraLost \/ UNCHANGED allVars
  BY <1>4 DEF SceneChanges, CameraLost, allVars
<1>5. CASE System /\ UNCHANGED detectors
  BY <1>5 DEF Next
<1>6. CASE PipelineTick
  BY <1>6 DEF PipelineTick, Next
<1> QED
  BY <1>1, <1>2, <1>3, <1>4, <1>5, <1>6 DEF PipelineNext

LEMMA RelayInPipeline == PipelineSpec => []StateInv
<1>1. PipelineInit => StateInv
  BY StateInit DEF PipelineInit
<1>2. StateInv /\ [PipelineNext]_allVars => StateInv'
  BY StateNext, PipelineStepsRelay
<1> QED
  BY <1>1, <1>2, PTL DEF PipelineSpec

---------------------------------------------------------------------------
(* Type correctness *)

Debouncer == [active : BOOLEAN, hits : 0 .. (TriggerFrames - 1),
              misses : 0 .. ClearFrames, since : 0 .. (ClearSeconds + 1)]
Human == [signal : [Signal -> Debouncer], visible : BOOLEAN, since : 0 .. Hold]
Watched == [state : {"IDLE", "CANDIDATE", "ACTIVE", "CLEARING"},
            hits : 0 .. TamperFrames, clears : 0 .. TamperClearFrames,
            age : 0 .. MaxOf(TamperConfirm, TamperClear)]
Learnt == [frames : 0 .. BaselineFrames, view : View]

SceneType    == scene \in [shown : Evidence, view : [Role -> View]] /\ live \in BOOLEAN
ReportType   == flag \in [Camera -> BOOLEAN] /\ pubAge \in [Camera -> 0 .. Refresh]
StreakType(t) == t \in Watched /\ (t.hits > 0 <=> t.state \in {"CANDIDATE", "ACTIVE"})
TamperType   == tamper \in [Role -> Watched] /\ \A r \in Role : StreakType(tamper[r])
BaselineType == baseline \in [Role -> Learnt]
GapType      == gap \in 0 .. MaxOf(FrameGap, StaleAfter)

LEMMA TypeParts ==
    PipelineTypeOK <=> /\ TypeOK /\ SceneType /\ GapType /\ ReportType
                       /\ human \in Human /\ TamperType /\ BaselineType
BY DEF PipelineTypeOK, SceneType, GapType, ReportType, Human, Debouncer, TamperType, StreakType,
       Watched, BaselineType, Learnt

LEMMA MaxOfType ==
    ASSUME NEW m \in Nat, NEW n \in Nat
    PROVE  MaxOf(m, n) \in Nat /\ m <= MaxOf(m, n) /\ n <= MaxOf(m, n)
BY DEF MaxOf

LEMMA MinOfType ==
    ASSUME NEW m \in Nat, NEW n \in Nat
    PROVE  MinOf(m, n) \in 0 .. n /\ (m > 0 /\ n > 0 => MinOf(m, n) > 0)
BY DEF MinOf

LEMMA NoSignalType == NoSignal \in Debouncer /\ Expired \in [Signal -> Debouncer]
<1>1. NoSignal \in Debouncer
  BY PipelineAssumption DEF NoSignal, Debouncer
<1> QED
  BY <1>1 DEF Expired

LEMMA NoTamperType == StreakType(NoTamper)
<1>1. MaxOf(TamperConfirm, TamperClear) \in Nat
  BY MaxOfType, PipelineAssumption
<1> QED
  BY <1>1, PipelineAssumption DEF NoTamper, StreakType, Watched

LEMMA PipelineTypeInit == PipelineInit => PipelineTypeOK
<1> SUFFICES ASSUME PipelineInit
             PROVE  PipelineTypeOK
  OBVIOUS
<1>1. TypeOK
  BY TypeInit DEF PipelineInit
<1>2. SceneType
  BY DEF PipelineInit, SceneType
<1>3. GapType
  <2>1. MaxOf(FrameGap, StaleAfter) \in Nat
    BY MaxOfType, PipelineAssumption
  <2> QED
    BY <2>1 DEF PipelineInit, GapType
<1>4. ReportType
  BY PipelineAssumption DEF PipelineInit, ReportType
<1>5. human \in Human
  BY NoSignalType, PipelineAssumption DEF PipelineInit, Human
<1>6. TamperType
  BY NoTamperType DEF PipelineInit, TamperType, StreakType
<1>7. BaselineType
  <2>1. scene.view \in [Role -> View]
    BY <1>2 DEF SceneType
  <2> QED
    BY <2>1, PipelineAssumption DEF PipelineInit, BaselineType, Learnt
<1> QED
  BY <1>1, <1>2, <1>3, <1>4, <1>5, <1>6, <1>7, TypeParts

\* _update_signal_locked
LEMMA ReportKeepsType ==
    ASSUME ReportType, NEW c \in Camera, NEW on \in BOOLEAN, Report(c, on)
    PROVE  ReportType'
<1>1. flag' \in [Camera -> BOOLEAN]
  BY DEF ReportType, Report
<1>2. pubAge' = pubAge \/ pubAge' = [pubAge EXCEPT ![c] = 0]
  BY DEF Report, Published
<1> QED
  BY <1>1, <1>2, PipelineAssumption DEF ReportType

\* The debouncer counts hits until it is active and misses while it is.
LEMMA DebounceType ==
    ASSUME NEW d \in Debouncer, NEW hit \in BOOLEAN
    PROVE  Debounce1(d, hit) \in Debouncer
<1> DEFINE hits   == IF hit THEN d.hits + 1 ELSE 0
           misses == IF hit THEN 0 ELSE MinOf(d.misses + 1, ClearFrames)
           on     == IF hit THEN d.active \/ hits >= TriggerFrames
                            ELSE d.active /\ ~(misses >= ClearFrames /\ d.since > ClearSeconds)
<1>1. /\ d.active \in BOOLEAN /\ d.hits \in 0 .. (TriggerFrames - 1)
      /\ d.misses \in 0 .. ClearFrames /\ d.since \in 0 .. (ClearSeconds + 1)
      /\ TriggerFrames \in Nat \ {0} /\ ClearFrames \in Nat \ {0} /\ ClearSeconds \in Nat
  BY PipelineAssumption DEF Debouncer
<1>2. misses \in 0 .. ClearFrames
  <2>1. d.misses + 1 \in Nat /\ ClearFrames \in Nat
    BY <1>1
  <2>2. MinOf(d.misses + 1, ClearFrames) \in 0 .. ClearFrames
    BY <2>1, MinOfType
  <2> QED
    BY <2>1, <2>2
<1>3. ~on => hits \in 0 .. (TriggerFrames - 1)
  BY <1>1
<1>4. (IF hit THEN 0 ELSE d.since) \in 0 .. (ClearSeconds + 1)
  BY <1>1
<1>5. Debounce1(d, hit) = IF on THEN [active |-> TRUE, hits |-> 0, misses |-> misses,
                                      since |-> IF hit THEN 0 ELSE d.since]
                                ELSE [NoSignal EXCEPT !.hits = hits]
  BY DEF Debounce1
<1> HIDE DEF hits, misses, on
<1>6. CASE on
  <2>1. TRUE \in BOOLEAN /\ 0 \in 0 .. (TriggerFrames - 1)
    BY <1>1
  <2> QED
    BY <1>2, <1>4, <1>5, <1>6, <2>1 DEF Debouncer
<1>7. CASE ~on
  <2>1. NoSignal \in Debouncer
    BY NoSignalType
  <2>2. [NoSignal EXCEPT !.hits = hits] \in Debouncer
    BY <1>3, <1>7, <2>1 DEF Debouncer
  <2> QED
    BY <1>5, <1>7, <2>2
<1> QED
  BY <1>6, <1>7

LEMMA UpdateLedStateType ==
    ASSUME human \in Human, NEW raw, UpdateLedState(raw)
    PROVE  human' \in Human /\ human'.visible \in BOOLEAN /\ Report(Person, human'.visible)
<1> DEFINE since   == SinceSighting(raw)
           next    == [s \in Signal |-> Debounce1(human.signal[s], s \in raw)]
           holding == human.visible /\ since < Hold
           expire  == raw = {} /\ human.visible /\ ~holding
           visible == holding \/ (~expire /\ \E s \in Signal : next[s].active)
<1>1. since \in 0 .. Hold
  BY PipelineAssumption DEF SinceSighting, Human
<1>2. next \in [Signal -> Debouncer]
  <2>1. ASSUME NEW s \in Signal
        PROVE  Debounce1(human.signal[s], s \in raw) \in Debouncer
    <3>1. human.signal[s] \in Debouncer
      BY DEF Human
    <3>2. (s \in raw) \in BOOLEAN
      OBVIOUS
    <3> QED
      BY <3>1, <3>2, DebounceType
  <2> QED
    BY <2>1
<1>3. visible \in BOOLEAN
  OBVIOUS
<1>4. /\ human' = [signal  |-> IF expire THEN Expired ELSE next,
                   visible |-> visible,
                   since   |-> IF visible THEN since ELSE 0]
      /\ Report(Person, visible)
  BY DEF UpdateLedState
<1> HIDE DEF since, next, expire, visible
<1>5. human'.visible = visible
  BY <1>4
<1>6. (IF expire THEN Expired ELSE next) \in [Signal -> Debouncer]
  BY <1>2, NoSignalType
<1>7. (IF visible THEN since ELSE 0) \in 0 .. Hold
  BY <1>1, PipelineAssumption
<1> QED
  BY <1>3, <1>4, <1>5, <1>6, <1>7 DEF Human

\* A step of _update_tamper_state.
LEMMA BecomesType ==
    ASSUME TamperType, NEW r \in Role, NEW t, StreakType(t), Becomes(r, t)
    PROVE  TamperType'
BY DEF TamperType, StreakType, Becomes

LEMMA CountedType ==
    ASSUME NEW w \in Watched, NEW h \in 0 .. TamperFrames, NEW c \in 0 .. TamperClearFrames
    PROVE  /\ [w EXCEPT !.hits = h, !.clears = c] \in Watched
           /\ [w EXCEPT !.hits = h, !.clears = c].hits = h
           /\ [w EXCEPT !.hits = h, !.clears = c].state = w.state
<1> DEFINE t == [w EXCEPT !.hits = h, !.clears = c]
<1>1. t \in Watched
  BY DEF Watched
<1>2. t.hits = h
  BY DEF Watched
<1>3. t.state = w.state
  BY DEF Watched
<1> QED
  BY <1>1, <1>2, <1>3

LEMMA HitType ==
    ASSUME TamperType, NEW r \in Role
    PROVE  Hit(r) \in Watched /\ Hit(r).hits > 0 /\ Hit(r).state = tamper[r].state
<1>1. PICK w \in Watched : w = tamper[r]
  BY DEF TamperType
<1>2. w.hits \in Nat /\ TamperFrames \in Nat \ {0} /\ TamperClearFrames \in Nat \ {0}
  BY PipelineAssumption DEF Watched
<1>3. PICK h \in 0 .. TamperFrames : h = MinOf(w.hits + 1, TamperFrames) /\ h > 0
  BY <1>2 DEF MinOf
<1>4. PICK z \in 0 .. TamperClearFrames : z = 0
  BY <1>2
<1>5. Hit(r) = [w EXCEPT !.hits = h, !.clears = z]
  BY <1>1, <1>3, <1>4 DEF Hit, Watched
<1>6. /\ [w EXCEPT !.hits = h, !.clears = z] \in Watched
      /\ [w EXCEPT !.hits = h, !.clears = z].hits = h
      /\ [w EXCEPT !.hits = h, !.clears = z].state = w.state
  BY CountedType, ZenonT(30)
<1> QED
  BY <1>1, <1>3, <1>5, <1>6

LEMMA MissType ==
    ASSUME TamperType, NEW r \in Role
    PROVE  Miss(r) \in Watched /\ Miss(r).hits = 0 /\ Miss(r).state = tamper[r].state
<1>1. PICK w \in Watched : w = tamper[r]
  BY DEF TamperType
<1>2. w.clears \in Nat /\ TamperFrames \in Nat \ {0} /\ TamperClearFrames \in Nat \ {0}
  BY PipelineAssumption DEF Watched
<1>3. PICK c \in 0 .. TamperClearFrames : c = MinOf(w.clears + 1, TamperClearFrames)
  BY <1>2 DEF MinOf
<1>4. PICK z \in 0 .. TamperFrames : z = 0
  BY <1>2
<1>5. Miss(r) = [w EXCEPT !.hits = z, !.clears = c]
  BY <1>1, <1>3, <1>4 DEF Miss, Watched
<1>6. /\ [w EXCEPT !.hits = z, !.clears = c] \in Watched
      /\ [w EXCEPT !.hits = z, !.clears = c].hits = z
      /\ [w EXCEPT !.hits = z, !.clears = c].state = w.state
  BY CountedType, ZenonT(30)
<1> QED
  BY <1>1, <1>4, <1>5, <1>6

\* A new state starts its timer.
LEMMA EnteredType ==
    ASSUME NEW u \in Watched, NEW s \in {"IDLE", "CANDIDATE", "ACTIVE", "CLEARING"},
           u.hits > 0 <=> s \in {"CANDIDATE", "ACTIVE"}
    PROVE  StreakType([u EXCEPT !.state = s, !.age = 0])
<1> DEFINE v == [u EXCEPT !.state = s, !.age = 0]
<1>1. 0 \in 0 .. MaxOf(TamperConfirm, TamperClear)
  BY MaxOfType, PipelineAssumption
<1>2. v \in Watched /\ v.hits = u.hits /\ v.state = s
  BY <1>1 DEF Watched
<1> HIDE DEF v
<1>3. StreakType(v)
  BY <1>2 DEF StreakType
<1> QED
  BY <1>3 DEF v

LEMMA TamperStepTypes ==
    ASSUME TamperType, NEW r \in Role, TamperedFrame(r) \/ ClearFrame(r)
    PROVE  TamperType'
<1>1. CASE TamperedFrame(r)
  <2>1. PICK t : t = Hit(r) /\ t \in Watched /\ t.hits > 0 /\ t.state = tamper[r].state
    BY HitType
  <2>2. \/ \E s \in {"CANDIDATE", "ACTIVE"} : Becomes(r, [t EXCEPT !.state = s, !.age = 0])
        \/ t.state = "CANDIDATE" /\ Becomes(r, t)
    BY <1>1, <2>1 DEF TamperedFrame
  <2>3. ASSUME NEW s \in {"CANDIDATE", "ACTIVE"}
        PROVE  StreakType([t EXCEPT !.state = s, !.age = 0])
    <3>1. /\ t \in Watched /\ s \in {"IDLE", "CANDIDATE", "ACTIVE", "CLEARING"}
          /\ t.hits > 0 <=> s \in {"CANDIDATE", "ACTIVE"}
      BY <2>1
    <3> QED
      BY <3>1, EnteredType
  <2>4. t.state = "CANDIDATE" => StreakType(t)
    BY <2>1 DEF StreakType
  <2> QED
    BY <2>2, <2>3, <2>4, BecomesType
<1>2. CASE ClearFrame(r)
  <2>1. PICK t : t = Miss(r) /\ t \in Watched /\ t.hits = 0 /\ t.state = tamper[r].state
    BY MissType
  <2>2. \/ \E s \in {"IDLE", "CLEARING"} : Becomes(r, [t EXCEPT !.state = s, !.age = 0])
        \/ t.state = "CLEARING" /\ Becomes(r, t)
    BY <1>2, <2>1 DEF ClearFrame
  <2>3. ASSUME NEW s \in {"IDLE", "CLEARING"}
        PROVE  StreakType([t EXCEPT !.state = s, !.age = 0])
    <3>1. /\ t \in Watched /\ s \in {"IDLE", "CANDIDATE", "ACTIVE", "CLEARING"}
          /\ t.hits > 0 <=> s \in {"CANDIDATE", "ACTIVE"}
      BY <2>1
    <3> QED
      BY <3>1, EnteredType
  <2>4. t.state = "CLEARING" => StreakType(t)
    BY <2>1 DEF StreakType
  <2> QED
    BY <2>2, <2>3, <2>4, BecomesType
<1> QED
  BY <1>1, <1>2

\* What a detector's step reports, and what it leaves alone.
LEMMA TamperReports ==
    ASSUME NEW r \in Role, TamperedFrame(r) \/ ClearFrame(r) \/ PauseTamper(r)
    PROVE  /\ Report(TamperSource[r], TRUE) \/ Report(TamperSource[r], FALSE) \/ NoReport
           /\ UNCHANGED <<scene, live, human>>
BY DEF TamperedFrame, ClearFrame, PauseTamper, Becomes

---------------------------------------------------------------------------
(* Every step keeps the types. *)

\* _update_tamper_state keeps those of a detector and of what it reports.
LEMMA TamperStepKeepsType ==
    ASSUME TypeOK, SceneType, ReportType, human \in Human, TamperType, NEW r \in Role,
           TamperedFrame(r) \/ ClearFrame(r)
    PROVE  SceneType' /\ ReportType' /\ (human \in Human)' /\ TamperType'
<1>1. TamperType'
  BY TamperStepTypes
<1>2. SceneType' /\ (human \in Human)'
  BY TamperReports DEF SceneType
<1>3. ReportType'
  BY TamperReports, ReportKeepsType, SourcesDiffer DEF NoReport, ReportType
<1> QED
  BY <1>1, <1>2, <1>3

LEMMA LearnsType ==
    ASSUME SceneType, BaselineType, NEW r \in Role, Learns(r)
    PROVE  BaselineType'
<1>1. PICK v \in {baseline[r].view, scene.view[r]} :
          baseline' = [baseline EXCEPT
                         ![r] = [frames |-> MinOf(baseline[r].frames + 1, BaselineFrames),
                                 view   |-> v]]
  BY DEF Learns
<1>2. v \in View
  BY DEF SceneType, BaselineType, Learnt
<1>3. MinOf(baseline[r].frames + 1, BaselineFrames) \in 0 .. BaselineFrames
  <2>1. baseline[r].frames \in Nat /\ BaselineFrames \in Nat
    BY PipelineAssumption DEF BaselineType, Learnt
  <2> QED
    BY <2>1 DEF MinOf
<1> QED
  BY <1>1, <1>2, <1>3 DEF BaselineType, Learnt

\* Time passes.
LEMMA TickKeepsTypes ==
    ASSUME SceneType, GapType, ReportType, human \in Human, TamperType, BaselineType, PipelineTick
    PROVE  /\ SceneType' /\ GapType' /\ ReportType'
           /\ (human \in Human)' /\ TamperType' /\ BaselineType'
<1>1. SceneType' /\ BaselineType'
  BY DEF PipelineTick, SceneType, BaselineType
<1>2. GapType'
  <2>1. PICK m \in Nat : m = MaxOf(FrameGap, StaleAfter)
    BY MaxOfType, PipelineAssumption
  <2>2. MinOf(gap + 1, m) \in 0 .. m
    BY <2>1 DEF GapType, MinOf
  <2> QED
    BY <2>1, <2>2 DEF PipelineTick, GapType
<1>3. ReportType'
  <2>1. ASSUME NEW c \in Camera
        PROVE  MinOf(pubAge[c] + 1, Refresh) \in 0 .. Refresh
    BY PipelineAssumption DEF ReportType, MinOf
  <2> QED
    BY <2>1 DEF PipelineTick, ReportType
<1>4. (human \in Human)'
  <2>1. (IF human.visible THEN MinOf(human.since + 1, Hold) ELSE 0) \in 0 .. Hold
    BY PipelineAssumption DEF Human, MinOf
  <2>2. ASSUME NEW s \in Signal, NEW d \in Debouncer
        PROVE  (IF d.active THEN [d EXCEPT !.since = MinOf(@ + 1, ClearSeconds + 1)]
                            ELSE d) \in Debouncer
    <3>1. MinOf(d.since + 1, ClearSeconds + 1) \in 0 .. (ClearSeconds + 1)
      <4>1. d.since \in Nat /\ ClearSeconds \in Nat
        BY PipelineAssumption DEF Debouncer
      <4> QED
        BY <4>1 DEF MinOf
    <3> QED
      BY <3>1 DEF Debouncer
  <2>3. ASSUME NEW s \in Signal
        PROVE  human.signal[s] \in Debouncer
    BY DEF Human
  <2>4. human'.signal \in [Signal -> Debouncer]
    BY <2>2, <2>3 DEF PipelineTick
  <2>5. human' = [signal |-> human'.signal, visible |-> human.visible,
                  since  |-> IF human.visible THEN MinOf(human.since + 1, Hold) ELSE 0]
    BY DEF PipelineTick
  <2> QED
    BY <2>1, <2>4, <2>5 DEF Human
<1>5. TamperType'
  <2>1. ASSUME NEW r \in Role
        PROVE  StreakType([tamper[r] EXCEPT !.age = MinOf(@ + 1, MaxOf(TamperConfirm, TamperClear))])
    <3>1. PICK w \in Watched : w = tamper[r] /\ StreakType(w)
      BY DEF TamperType
    <3>2. MaxOf(TamperConfirm, TamperClear) \in Nat
      BY MaxOfType, PipelineAssumption
    <3>3. MinOf(w.age + 1, MaxOf(TamperConfirm, TamperClear))
            \in 0 .. MaxOf(TamperConfirm, TamperClear)
      BY <3>2 DEF MinOf, Watched
    <3>4. StreakType([w EXCEPT !.age = MinOf(w.age + 1, MaxOf(TamperConfirm, TamperClear))])
      BY <3>1, <3>3 DEF StreakType, Watched
    <3> QED
      BY <3>1, <3>4 DEF Watched
  <2> QED
    BY <2>1 DEF PipelineTick, TamperType, StreakType
<1> QED
  BY <1>1, <1>2, <1>3, <1>4, <1>5

LEMMA PipelineTypeNext ==
    ASSUME StateInv, PipelineTypeOK, [PipelineNext]_allVars
    PROVE  PipelineTypeOK'
<1> USE DEF Human
<1>0. /\ TypeOK /\ SceneType /\ GapType /\ ReportType
      /\ human \in Human /\ TamperType /\ BaselineType
  BY TypeParts
<1>1. TypeOK'
  BY PipelineStepsRelay, StateNext DEF StateInv
<1>2. 0 \in 0 .. MaxOf(FrameGap, StaleAfter)
  BY MaxOfType, PipelineAssumption
<1> SUFFICES /\ SceneType' /\ GapType' /\ ReportType'
             /\ (human \in Human)' /\ TamperType' /\ BaselineType'
  BY <1>1, TypeParts, PTL
<1>3. CASE PersonFrame
  <2>1. PICK modelRuns \in ModelRuns : UpdateLedState(Seen(modelRuns))
    BY <1>3 DEF PersonFrame
  <2>2. human' \in Human /\ human'.visible \in BOOLEAN /\ Report(Person, human'.visible)
    BY <1>0, <2>1, UpdateLedStateType
  <2>3. ReportType'
    BY <1>0, <2>2, ReportKeepsType, PipelineAssumption
  <2> QED
    BY <1>0, <1>2, <1>3, <2>2, <2>3 DEF PersonFrame, SceneType, GapType, TamperType, BaselineType
<1>4. CASE StalePerson
  <2>1. human' \in Human
    BY <1>4, NoSignalType, PipelineAssumption DEF StalePerson
  <2>2. ReportType'
    BY <1>0, <1>4, ReportKeepsType, PipelineAssumption DEF StalePerson
  <2> QED
    BY <1>0, <1>4, <2>1, <2>2 DEF StalePerson, SceneType, GapType, TamperType, BaselineType
<1>5. ASSUME NEW r \in Role, TamperFrame(r)
      PROVE  /\ SceneType' /\ GapType' /\ ReportType'
             /\ (human \in Human)' /\ TamperType' /\ BaselineType'
  <2>1. (TamperedFrame(r) \/ ClearFrame(r)) /\ Learns(r) /\ UNCHANGED gap
    BY <1>5 DEF TamperFrame
  <2>2. BaselineType'
    BY <1>0, <2>1, LearnsType
  <2>3. SceneType' /\ ReportType' /\ (human \in Human)' /\ TamperType'
    BY <1>0, <2>1, TamperStepKeepsType
  <2> QED
    BY <1>0, <2>1, <2>2, <2>3 DEF GapType
<1>6. ASSUME NEW r \in Role, StaleTamper(r)
      PROVE  /\ SceneType' /\ GapType' /\ ReportType'
             /\ (human \in Human)' /\ TamperType' /\ BaselineType'
  <2>1. ClearFrame(r) /\ UNCHANGED <<gap, baseline>>
    BY <1>6 DEF StaleTamper
  <2>2. SceneType' /\ ReportType' /\ (human \in Human)' /\ TamperType'
    BY <1>0, <2>1, TamperStepKeepsType
  <2> QED
    BY <1>0, <2>1, <2>2 DEF GapType, BaselineType
<1>7. ASSUME NEW r \in Role, PauseTamper(r)
      PROVE  /\ SceneType' /\ GapType' /\ ReportType'
             /\ (human \in Human)' /\ TamperType' /\ BaselineType'
  <2>1. Becomes(r, NoTamper) /\ UNCHANGED <<gap, baseline>>
    BY <1>7 DEF PauseTamper
  <2>2. TamperType'
    BY <1>0, <2>1, NoTamperType, BecomesType
  <2>3. ReportType'
    BY <1>0, <1>7, TamperReports, ReportKeepsType, SourcesDiffer DEF NoReport, ReportType
  <2>4. SceneType' /\ (human \in Human)'
    BY <1>0, <2>1 DEF Becomes, SceneType
  <2> QED
    BY <1>0, <2>1, <2>2, <2>3, <2>4 DEF GapType, BaselineType
<1>8. CASE SceneChanges
  BY <1>0, <1>8 DEF SceneChanges, SceneType, GapType, ReportType, TamperType, BaselineType
<1>9. CASE CameraLost
  BY <1>0, <1>2, <1>9 DEF CameraLost, SceneType, GapType, ReportType, TamperType, BaselineType
<1>10. CASE UNCHANGED detectors
  BY <1>0, <1>10 DEF detectors, SceneType, GapType, ReportType, TamperType, BaselineType
<1>11. CASE PipelineTick
  BY <1>0, <1>11, TickKeepsTypes
<1>12. CASE UNCHANGED allVars
  BY <1>10, <1>12 DEF allVars
<1> QED
  BY <1>3, <1>4, <1>5, <1>6, <1>7, <1>8, <1>9, <1>10, <1>11, <1>12 DEF PipelineNext

\* PipelineTypeOK holds of every setting of the detectors: their counters stay within the streaks
\* they are compared with, and a streak of tampered frames is counted in no other state than
\* those such a frame leads to.
THEOREM PipelineTypeCorrect == PipelineSpec => []PipelineTypeOK
<1>1. PipelineInit => PipelineTypeOK
  BY PipelineTypeInit
<1>2. StateInv /\ PipelineTypeOK /\ [PipelineNext]_allVars => PipelineTypeOK'
  BY PipelineTypeNext
<1> QED
  BY <1>1, <1>2, RelayInPipeline, PTL DEF PipelineSpec

---------------------------------------------------------------------------
(* The state manager believes what the detectors have decided. *)

Alarmed(t) == t.state \in {"ACTIVE", "CLEARING"}

LEMMA FollowsParts ==
    FlagsFollowDetectors <=> /\ flag[Person] <=> human.visible
                             /\ \A r \in Role : flag[TamperSource[r]] <=> Alarmed(tamper[r])
BY DEF FlagsFollowDetectors, Alarmed

\* Every step of a tamper detector that enters or leaves an alarm reports it.
LEMMA AlarmsAreReported ==
    ASSUME TamperType, NEW r \in Role, TamperedFrame(r) \/ ClearFrame(r) \/ PauseTamper(r)
    PROVE  \E t : /\ tamper' = [tamper EXCEPT ![r] = t]
                  /\ \/ Report(TamperSource[r], TRUE) /\ Alarmed(t)
                     \/ Report(TamperSource[r], FALSE) /\ ~Alarmed(t)
                     \/ NoReport /\ (Alarmed(t) <=> Alarmed(tamper[r]))
<1>1. CASE TamperedFrame(r)
  <2>1. PICK u : u = Hit(r) /\ u \in Watched /\ u.hits > 0 /\ u.state = tamper[r].state
    BY HitType
  <2>2. [u EXCEPT !.state = "CANDIDATE", !.age = 0].state = "CANDIDATE"
    BY <2>1 DEF Watched
  <2>3. [u EXCEPT !.state = "ACTIVE", !.age = 0].state = "ACTIVE"
    BY <2>1 DEF Watched
  <2>4. \/ /\ u.state = "IDLE" /\ NoReport
           /\ Becomes(r, [u EXCEPT !.state = "CANDIDATE", !.age = 0])
        \/ /\ Report(TamperSource[r], TRUE)
           /\ Becomes(r, [u EXCEPT !.state = "ACTIVE", !.age = 0])
        \/ u.state = "CANDIDATE" /\ NoReport /\ Becomes(r, u)
        \/ /\ u.state \in {"ACTIVE", "CLEARING"} /\ NoReport
           /\ Becomes(r, [u EXCEPT !.state = "ACTIVE", !.age = 0])
    BY <1>1, <2>1 DEF TamperedFrame
  <2> QED
    BY <2>1, <2>2, <2>3, <2>4 DEF Becomes, Alarmed
<1>2. CASE ClearFrame(r)
  <2>1. PICK u : u = Miss(r) /\ u \in Watched /\ u.hits = 0 /\ u.state = tamper[r].state
    BY MissType
  <2>2. [u EXCEPT !.state = "IDLE", !.age = 0].state = "IDLE"
    BY <2>1 DEF Watched
  <2>3. [u EXCEPT !.state = "CLEARING", !.age = 0].state = "CLEARING"
    BY <2>1 DEF Watched
  <2>4. \/ /\ u.state \in {"IDLE", "CANDIDATE"} /\ NoReport
           /\ Becomes(r, [u EXCEPT !.state = "IDLE", !.age = 0])
        \/ /\ u.state = "ACTIVE" /\ NoReport
           /\ Becomes(r, [u EXCEPT !.state = "CLEARING", !.age = 0])
        \/ /\ Report(TamperSource[r], FALSE)
           /\ Becomes(r, [u EXCEPT !.state = "IDLE", !.age = 0])
        \/ u.state = "CLEARING" /\ NoReport /\ Becomes(r, u)
    BY <1>2, <2>1 DEF ClearFrame
  <2> QED
    BY <2>1, <2>2, <2>3, <2>4 DEF Becomes, Alarmed
<1>3. CASE PauseTamper(r)
  <2>1. /\ tamper' = [tamper EXCEPT ![r] = NoTamper]
        /\ IF Alarmed(tamper[r]) THEN Report(TamperSource[r], FALSE) ELSE NoReport
    BY <1>3 DEF PauseTamper, Becomes, Alarmed
  <2>2. ~Alarmed(NoTamper)
    BY DEF NoTamper, Alarmed
  <2> QED
    BY <2>1, <2>2
<1> QED
  BY <1>1, <1>2, <1>3

LEMMA ReportSetsFlag ==
    ASSUME ReportType, NEW c \in Camera, NEW on \in BOOLEAN, Report(c, on)
    PROVE  flag'[c] = on /\ \A d \in Camera \ {c} : flag'[d] = flag[d]
BY DEF ReportType, Report

LEMMA FollowsNext ==
    ASSUME PipelineTypeOK, FlagsFollowDetectors, [PipelineNext]_allVars
    PROVE  FlagsFollowDetectors'
<1>0. /\ ReportType /\ human \in Human /\ TamperType
      /\ flag[Person] <=> human.visible
      /\ \A r \in Role : flag[TamperSource[r]] <=> Alarmed(tamper[r])
      /\ Person \in Camera
  BY TypeParts, FollowsParts, PipelineAssumption
<1> SUFFICES /\ flag'[Person] <=> human'.visible
             /\ \A r \in Role : flag'[TamperSource[r]] <=> Alarmed(tamper'[r])
  BY DEF FlagsFollowDetectors, Alarmed
<1>1. CASE PersonFrame \/ StalePerson
  <2>1. human'.visible \in BOOLEAN /\ Report(Person, human'.visible) /\ tamper' = tamper
    <3>1. CASE PersonFrame
      BY <1>0, <3>1, UpdateLedStateType DEF PersonFrame
    <3>2. CASE StalePerson
      BY <3>2 DEF StalePerson
    <3> QED
      BY <1>1, <3>1, <3>2
  <2>2. flag'[Person] = human'.visible /\ \A d \in Camera \ {Person} : flag'[d] = flag[d]
    BY <1>0, <2>1, ReportSetsFlag
  <2> QED
    BY <1>0, <2>1, <2>2, SourcesDiffer
<1>2. ASSUME NEW q \in Role, TamperFrame(q) \/ StaleTamper(q) \/ PauseTamper(q)
      PROVE  /\ flag'[Person] <=> human'.visible
             /\ \A r \in Role : flag'[TamperSource[r]] <=> Alarmed(tamper'[r])
  <2>1. TamperedFrame(q) \/ ClearFrame(q) \/ PauseTamper(q)
    BY <1>2 DEF TamperFrame, StaleTamper
  <2>2. UNCHANGED human
    BY <2>1, TamperReports
  <2>3. PICK t : /\ tamper' = [tamper EXCEPT ![q] = t]
                 /\ \/ Report(TamperSource[q], TRUE) /\ Alarmed(t)
                    \/ Report(TamperSource[q], FALSE) /\ ~Alarmed(t)
                    \/ NoReport /\ (Alarmed(t) <=> Alarmed(tamper[q]))
    BY <1>0, <2>1, AlarmsAreReported
  <2>4. /\ flag'[TamperSource[q]] <=> Alarmed(t)
        /\ \A d \in Camera \ {TamperSource[q]} : flag'[d] = flag[d]
    <3>1. CASE NoReport /\ (Alarmed(t) <=> Alarmed(tamper[q]))
      BY <1>0, <3>1 DEF NoReport
    <3>2. CASE Report(TamperSource[q], TRUE) /\ Alarmed(t)
      BY <1>0, <3>2, ReportSetsFlag, SourcesDiffer
    <3>3. CASE Report(TamperSource[q], FALSE) /\ ~Alarmed(t)
      BY <1>0, <3>3, ReportSetsFlag, SourcesDiffer
    <3> QED
      BY <2>3, <3>1, <3>2, <3>3
  <2>5. tamper'[q] = t /\ \A r \in Role \ {q} : tamper'[r] = tamper[r]
    BY <1>0, <2>3 DEF TamperType
  <2>6. \A r \in Role \ {q} : TamperSource[r] \in Camera \ {TamperSource[q]}
    BY SourcesDiffer
  <2>7. Person \in Camera \ {TamperSource[q]}
    BY <1>0, SourcesDiffer
  <2> QED
    BY <1>0, <2>2, <2>4, <2>5, <2>6, <2>7
<1>3. CASE SceneChanges \/ CameraLost \/ UNCHANGED detectors
  BY <1>0, <1>3 DEF SceneChanges, CameraLost, detectors
<1>4. CASE PipelineTick
  <2>1. human'.visible = human.visible /\ flag' = flag
    BY <1>4 DEF PipelineTick
  <2>2. ASSUME NEW r \in Role
        PROVE  tamper'[r].state = tamper[r].state
    <3>1. PICK w \in Watched : w = tamper[r]
      BY <1>0 DEF TamperType
    <3>2. tamper'[r] = [w EXCEPT !.age = MinOf(w.age + 1, MaxOf(TamperConfirm, TamperClear))]
      BY <1>4, <3>1 DEF PipelineTick, Watched
    <3> QED
      BY <3>1, <3>2 DEF Watched
  <2> QED
    BY <1>0, <2>1, <2>2 DEF Alarmed
<1>5. CASE UNCHANGED allVars
  BY <1>3, <1>5 DEF allVars
<1> QED
  BY <1>1, <1>2, <1>3, <1>4, <1>5 DEF PipelineNext

\* FlagsFollowDetectors holds of every setting and any number of detectors: no path out of a
\* detector's alarm forgets the state manager.
THEOREM FlagsFollow == PipelineSpec => []FlagsFollowDetectors
<1>1. PipelineInit => FlagsFollowDetectors
  BY SourcesDiffer, PipelineAssumption DEF PipelineInit, FlagsFollowDetectors, NoTamper
<1>2. PipelineTypeOK /\ FlagsFollowDetectors /\ [PipelineNext]_allVars => FlagsFollowDetectors'
  BY FollowsNext
<1> QED
  BY <1>1, <1>2, PipelineTypeCorrect, PTL DEF PipelineSpec

---------------------------------------------------------------------------
(* No event overtakes another. *)

\* The event on its way (TypeOK: there is at most one) tells what the state manager believes; a
\* source that the relay manager still has and the state manager no longer believes in is about
\* to be cleared.
EventsInv ==
    /\ \A e \in pending : flag[e.camera] <=> e.kind = "detected"
    /\ \A c \in active : flag[c] \/ \E e \in pending : e.camera = c /\ e.kind = "cleared"

\* What the relay manager does with the event, or with its sources when there is none.
LEMMA EventsHandled ==
    ASSUME TypeOK, System \/ UNCHANGED vars
    PROVE  \/ pending' = pending /\ active' \subseteq active
           \/ \E e \in pending : /\ pending' = {}
                                 /\ \/ /\ e.kind = "detected"
                                       /\ active' \subseteq active \cup {e.camera}
                                    \/ e.kind = "cleared" /\ active' = active \ {e.camera}
<1>1. ASSUME NEW e \in pending, Handle(e)
      PROVE  /\ pending' = {}
             /\ \/ e.kind = "detected" /\ active' \subseteq active \cup {e.camera}
                \/ e.kind = "cleared" /\ active' = active \ {e.camera}
  <2>1. CASE DetectionIgnored(e)
    BY <2>1 DEF DetectionIgnored, Received, manager
  <2>2. CASE DetectionRefreshed(e)
    BY <2>2 DEF DetectionRefreshed, Received
  <2>3. CASE DetectionAccepted(e)
    BY <2>3 DEF DetectionAccepted, Received
  <2>4. CASE DetectionCleared(e)
    BY <2>4 DEF DetectionCleared, Received
  <2> QED
    BY <1>1, <2>1, <2>2, <2>3, <2>4 DEF Handle
<1>2. CASE Worker
  BY <1>2 DEF Worker, WorkerFailsafe, WorkerPass, Expire
<1>3. CASE RelayWrite
  <2>1. ASSUME NEW ok \in BOOLEAN, Finish(ok)
        PROVE  active' \subseteq active
    BY <2>1 DEF Finish
  <2>2. CASE Attempt
    BY <2>1, <2>2 DEF Attempt, manager
  <2>3. CASE GiveUp
    <3>1. pending' = pending
      BY <2>3 DEF GiveUp
    <3>2. PICK ok \in BOOLEAN : Finish(ok)
      BY <2>3 DEF GiveUp, IsOn
    <3> QED
      BY <2>1, <3>1, <3>2
  <2> QED
    BY <1>3, <2>2, <2>3 DEF RelayWrite
<1>4. CASE ~Worker /\ ~RelayWrite /\ ~\E e \in pending : Handle(e)
  BY <1>4 DEF System, ForceOffAtStartup, StopManager, CleanupBoard, TriggerAlert, EndAlert,
              QrClearsAlert, manager, vars
<1> QED
  BY <1>1, <1>2, <1>3, <1>4

LEMMA EventsNext ==
    ASSUME PipelineTypeOK, EventsInv, [PipelineNext]_allVars
    PROVE  EventsInv'
<1>0. TypeOK /\ ReportType /\ \A e, f \in pending : e = f
  BY TypeParts DEF TypeOK
<1>1. ASSUME NEW c \in Camera, NEW on \in BOOLEAN, Report(c, on)
      PROVE  EventsInv'
  <2>1. pending = {} /\ \A d \in active : flag[d]
    BY <1>1 DEF Report, StateLockFree, EventsInv
  <2>2. flag'[c] = on /\ \A d \in Camera \ {c} : flag'[d] = flag[d]
    BY <1>0, <1>1, ReportSetsFlag
  <2>3. active \subseteq Camera
    BY <1>0 DEF TypeOK
  <2>4. CASE UNCHANGED vars /\ flag[c] = on
    BY <2>1, <2>2, <2>3, <2>4 DEF EventsInv, vars, manager
  <2>5. ASSUME NEW kind \in {"detected", "cleared"}, on <=> kind = "detected", Publish(c, kind)
        PROVE  EventsInv'
    <3>1. pending' = {[camera |-> c, kind |-> kind, age |-> 0]} /\ active' = active
      BY <2>5 DEF Publish, manager
    <3>2. ASSUME NEW d \in active
          PROVE  flag'[d] \/ (d = c /\ kind = "cleared")
      BY <2>1, <2>2, <2>3, <2>5
    <3> QED
      BY <2>2, <2>5, <3>1, <3>2 DEF EventsInv
  <2>6. \/ UNCHANGED vars /\ flag[c] = on
        \/ Publish(c, IF on THEN "detected" ELSE "cleared")
        \/ Publish(c, "detected") /\ on
    BY <1>1 DEF Report, Published
  <2> QED
    BY <2>4, <2>5, <2>6
<1>2. CASE (System \/ UNCHANGED vars) /\ flag' = flag
  <2>1. CASE pending' = pending /\ active' \subseteq active
    BY <1>2, <2>1 DEF EventsInv
  <2>2. ASSUME NEW e \in pending, pending' = {}, e.kind = "detected",
               active' \subseteq active \cup {e.camera}
        PROVE  EventsInv'
    BY <1>0, <1>2, <2>2 DEF EventsInv
  <2>3. ASSUME NEW e \in pending, pending' = {}, e.kind = "cleared",
               active' = active \ {e.camera}
        PROVE  EventsInv'
    BY <1>0, <1>2, <2>3 DEF EventsInv
  <2> QED
    BY <1>0, <1>2, <2>1, <2>2, <2>3, EventsHandled
<1>3. CASE PipelineTick
  <2>1. /\ pending' = {[e EXCEPT !.age = @ + 1] : e \in pending}
        /\ active' = active /\ flag' = flag
    BY <1>3 DEF PipelineTick, Tick
  <2>2. ASSUME NEW e \in Event
        PROVE  [e EXCEPT !.age = @ + 1].camera = e.camera /\ [e EXCEPT !.age = @ + 1].kind = e.kind
    BY DEF Event
  <2>3. pending \subseteq Event
    BY <1>0 DEF TypeOK
  <2>4. ASSUME NEW f \in pending'
        PROVE  flag'[f.camera] <=> f.kind = "detected"
    <3>1. PICK e \in pending : f = [e EXCEPT !.age = @ + 1]
      BY <2>1
    <3>2. e \in Event
      BY <2>3
    <3>3. f.camera = e.camera /\ f.kind = e.kind
      BY <2>2, <3>1, <3>2
    <3>4. flag[e.camera] <=> e.kind = "detected"
      BY DEF EventsInv
    <3> QED
      BY <2>1, <3>3, <3>4
  <2>5. ASSUME NEW c \in active
        PROVE  flag'[c] \/ \E f \in pending' : f.camera = c /\ f.kind = "cleared"
    <3>1. CASE flag[c]
      BY <2>1, <3>1
    <3>2. ASSUME NEW e \in pending, e.camera = c, e.kind = "cleared"
          PROVE  \E f \in pending' : f.camera = c /\ f.kind = "cleared"
      <4>1. [e EXCEPT !.age = @ + 1] \in pending'
        BY <2>1
      <4> QED
        BY <2>2, <2>3, <3>2, <4>1
    <3> QED
      BY <3>1, <3>2 DEF EventsInv
  <2> QED
    BY <2>1, <2>4, <2>5 DEF EventsInv
<1>4. CASE PersonFrame \/ StalePerson
  <2>1. PICK on \in BOOLEAN : Report(Person, on)
    BY <1>4 DEF PersonFrame, StalePerson, UpdateLedState
  <2> QED
    BY <1>1, <2>1, PipelineAssumption
<1>5. ASSUME NEW r \in Role, TamperFrame(r) \/ StaleTamper(r) \/ PauseTamper(r)
      PROVE  EventsInv'
  <2>1. Report(TamperSource[r], TRUE) \/ Report(TamperSource[r], FALSE) \/ NoReport
    BY <1>5, TamperReports DEF TamperFrame, StaleTamper
  <2> QED
    BY <1>1, <1>2, <2>1, SourcesDiffer DEF NoReport
<1>6. CASE SceneChanges \/ CameraLost \/ (System /\ UNCHANGED detectors) \/ UNCHANGED allVars
  BY <1>2, <1>6 DEF SceneChanges, CameraLost, detectors, allVars
<1> QED
  BY <1>3, <1>4, <1>5, <1>6 DEF PipelineNext

\* NoGhostSource holds of every setting and any number of sources: a source that the state manager
\* has given up is cleared in the relay manager, whatever the debounce swallows.
THEOREM NoGhosts == PipelineSpec => []NoGhostSource
<1>1. PipelineInit => EventsInv
  BY DEF PipelineInit, Init, EventsInv
<1>2. PipelineTypeOK /\ EventsInv /\ [PipelineNext]_allVars => EventsInv'
  BY EventsNext
<1>3. EventsInv => NoGhostSource
  BY DEF EventsInv, NoGhostSource
<1> QED
  BY <1>1, <1>2, <1>3, PipelineTypeCorrect, PTL DEF PipelineSpec
---------------------------------------------------------------------------
(* Refreshes beat the expiry. *)

\* How old the last event of a source can get while its refreshes are accepted.  A refresh is
\* published every Refresh at best; where that is shorter than the debounce, refreshes are
\* swallowed until the last accepted one is Debounce old.
Slack   == IF Debounce <= Refresh THEN 0 ELSE Debounce - 1
Longest == Slack + MaxOf(Refresh, 1) - 1

\* The setting under which a person who stays is kept: nothing in the code enforces it (the
\* defaults satisfy it for frames up to 3.7 s apart), and TLC finds the source lost one step below it.
RefreshBeatsExpiry == SourceTTL = 0 \/ SourceTTL > Longest + FrameGap

PersonWaits == \E e \in pending : e.camera = Person

\* A detection of the person on its way was published at a frame; a refresh was published late
\* enough to pass the debounce, however long it waits for the lock.
OnItsWay ==
    \A e \in pending : e.camera = Person /\ e.kind = "detected" =>
        /\ pubAge[Person] = MinOf(e.age, Refresh)
        /\ live => e.age <= gap
        /\ Debounce <= Refresh /\ Person \in active => seen[Person] >= Debounce + e.age

\* With none on its way, the relay manager has the source, and its last event is at most as old
\* as the last publication and the last frame allow.
Registered ==
    live /\ flag[Person] /\ ~PersonWaits =>
        /\ Person \in active
        /\ pubAge[Person] < Refresh => seen[Person] <= Slack + pubAge[Person]
        /\ seen[Person] <= Longest + gap
        /\ Debounce <= Refresh => seen[Person] >= MinOf(pubAge[Person], Debounce)

FramesArrive == live => gap <= FrameGap
NobodyYet    == phase = "starting" => ~flag[Person]

PersonInv == OnItsWay /\ Registered /\ FramesArrive /\ NobodyYet

LEMMA PersonTypes ==
    ASSUME PipelineTypeOK, RegistryConsistent
    PROVE  /\ Person \in Camera /\ flag[Person] \in BOOLEAN
           /\ gap \in Nat /\ live \in BOOLEAN
           /\ pubAge[Person] \in 0 .. Refresh
           /\ \A e \in pending : e \in Event /\ e.age \in 0 .. MaxDelay
           /\ \A e, f \in pending : e = f
           /\ Person \in active => Person \in DOMAIN seen /\ seen[Person] \in Nat
           /\ DOMAIN seen = active
<1>1. MaxOf(FrameGap, StaleAfter) \in Nat /\ SeenCap \in Nat
  BY MaxOfType, CapType, PipelineAssumption
<1>2. TypeOK /\ ReportType /\ GapType /\ SceneType
  BY TypeParts
<1>3. \A e \in pending : e \in Event /\ e.age \in 0 .. MaxDelay
  BY <1>2 DEF TypeOK, Event
<1>4. DOMAIN seen = active /\ \A c \in DOMAIN seen : seen[c] \in 0 .. SeenCap
  BY <1>2 DEF TypeOK, RegistryConsistent
<1> QED
  BY <1>1, <1>2, <1>3, <1>4, PipelineAssumption DEF TypeOK, ReportType, GapType, SceneType

LEMMA BoundTypes ==
    /\ Slack \in Nat /\ Longest \in Nat /\ Slack <= Longest
    /\ Refresh > 0 => Longest = Slack + Refresh - 1
    /\ Refresh \in Nat /\ Debounce \in Nat /\ FrameGap \in Nat /\ SourceTTL \in Nat
    /\ Debounce > Refresh => Slack = Debounce - 1
BY PipelineAssumption, RelayAssumption DEF Slack, Longest, MaxOf

---------------------------------------------------------------------------
(* What the relay manager does with the person's source. *)

\* It keeps it, unless it has expired.
Keeps ==
    /\ Person \in active' => Person \in active /\ seen'[Person] = seen[Person]
    /\ Person \in active /\ Person \notin Stale /\ phase # "starting" => Person \in active'

\* It handles a detection of the person.
Detects(e) ==
    /\ pending' = {} /\ Person \in active'
    /\ \/ seen'[Person] = e.age
       \/ /\ Person \in active /\ seen'[Person] = seen[Person]
          /\ Minus(seen[Person], e.age) < Debounce

LEMMA HandlesOther ==
    ASSUME StateInv, Person \in Camera, NEW e \in pending, Handle(e), e.camera # Person
    PROVE  pending' = {} /\ Keeps
<1>1. DOMAIN seen = active
  BY DEF StateInv, RegistryConsistent
<1>2. CASE DetectionIgnored(e)
  BY <1>2 DEF DetectionIgnored, Received, Keeps, manager
<1>3. CASE DetectionRefreshed(e)
  BY <1>1, <1>3 DEF DetectionRefreshed, Received, Keeps
<1>4. CASE DetectionAccepted(e)
  BY <1>1, <1>4 DEF DetectionAccepted, Received, Keeps
<1>5. CASE DetectionCleared(e)
  BY <1>1, <1>5 DEF DetectionCleared, Received, Forget, Keeps
<1> QED
  BY <1>2, <1>3, <1>4, <1>5 DEF Handle

LEMMA HandlesPerson ==
    ASSUME StateInv, NEW e \in pending, Handle(e), e.camera = Person, e.kind = "detected"
    PROVE  Detects(e)
<1>1. DOMAIN seen = active
  BY DEF StateInv, RegistryConsistent
<1>2. CASE DetectionIgnored(e)
  BY <1>1, <1>2 DEF DetectionIgnored, Received, Debounced, Detects, manager
<1>3. CASE DetectionRefreshed(e)
  BY <1>1, <1>3 DEF DetectionRefreshed, Received, Detects
<1>4. CASE DetectionAccepted(e)
  BY <1>1, <1>4 DEF DetectionAccepted, Received, Detects
<1>5. CASE DetectionCleared(e)
  BY <1>5 DEF DetectionCleared, Received
<1> QED
  BY <1>2, <1>3, <1>4, <1>5 DEF Handle

\* A write that ends resets the registry only when nothing is active.
LEMMA FinishKeeps ==
    ASSUME StateInv, NEW ok \in BOOLEAN, Finish(ok)
    PROVE  Keeps
<1>1. write.then = "timeout" => Person \notin active
  BY DEF StateInv, WriteMatchesState, RegistryConsistent
<1> QED
  BY <1>1 DEF Finish, Keeps

LEMMA PersonHandled ==
    ASSUME StateInv, Person \in Camera, System \/ UNCHANGED vars
    PROVE  \/ pending' = pending /\ Keeps
           \/ \E e \in pending : \/ e.camera # Person /\ pending' = {} /\ Keeps
                                 \/ e.camera = Person /\ e.kind = "detected" /\ Detects(e)
                                 \/ e.camera = Person /\ e.kind # "detected" /\ pending' = {}
<1>1. ASSUME NEW e \in pending, Handle(e)
      PROVE  \/ e.camera # Person /\ pending' = {} /\ Keeps
             \/ e.camera = Person /\ e.kind = "detected" /\ Detects(e)
             \/ e.camera = Person /\ e.kind # "detected" /\ pending' = {}
  <2>1. pending' = {}
    BY <1>1 DEF Handle, DetectionIgnored, DetectionRefreshed, DetectionAccepted,
                DetectionCleared, Received
  <2> QED
    BY <1>1, <2>1, HandlesOther, HandlesPerson
<1>2. CASE Worker
  <2>1. CASE WorkerFailsafe
    BY <2>1 DEF WorkerFailsafe, Keeps
  <2>2. CASE WorkerPass
    <3>1. /\ active' = active \ Stale /\ pending' = pending
          /\ seen' = [c \in DOMAIN seen \ Stale |-> seen[c]]
      BY <2>2 DEF WorkerPass, Expire, Forget
    <3>2. DOMAIN seen = active
      BY DEF StateInv, RegistryConsistent
    <3> QED
      BY <3>1, <3>2 DEF Keeps
  <2> QED
    BY <1>2, <2>1, <2>2 DEF Worker
<1>3. CASE RelayWrite
  <2>1. CASE Attempt
    <3>1. pending' = pending
      BY <2>1 DEF Attempt
    <3>2. Finish(TRUE) \/ UNCHANGED manager
      BY <2>1 DEF Attempt
    <3>3. UNCHANGED manager => Keeps
      BY DEF manager, Keeps
    <3> QED
      BY <3>1, <3>2, <3>3, FinishKeeps
  <2>2. CASE GiveUp
    <3>1. pending' = pending
      BY <2>2 DEF GiveUp
    <3>2. PICK ok \in BOOLEAN : Finish(ok)
      BY <2>2 DEF GiveUp, IsOn
    <3> QED
      BY <3>1, <3>2, FinishKeeps
  <2> QED
    BY <1>3, <2>1, <2>2 DEF RelayWrite
<1>4. CASE ForceOffAtStartup
  BY <1>4 DEF ForceOffAtStartup, Keeps
<1>5. CASE StopManager \/ CleanupBoard \/ (\E a \in Alert : TriggerAlert(a) \/ EndAlert(a) \/ QrClearsAlert(a))
           \/ UNCHANGED vars
  <2>1. pending' = pending /\ UNCHANGED manager
    BY <1>5 DEF StopManager, CleanupBoard, TriggerAlert, EndAlert, QrClearsAlert, vars
  <2> QED
    BY <2>1 DEF Keeps, manager
<1> QED
  BY <1>1, <1>2, <1>3, <1>4, <1>5 DEF System

LEMMA StartsOnce ==
    ASSUME System \/ UNCHANGED vars, phase' = "starting"
    PROVE  phase = "starting"
BY DEF System, Handle, DetectionIgnored, DetectionRefreshed, DetectionAccepted, DetectionCleared,
       Received, Worker, WorkerFailsafe, WorkerPass, RelayWrite, Attempt, GiveUp,
       ForceOffAtStartup, StopManager, CleanupBoard, TriggerAlert, EndAlert, QrClearsAlert, vars

---------------------------------------------------------------------------
(* Every step keeps the person's source. *)

\* A detection that is handled leaves the source registered.
LEMMA DetectedIsRegistered ==
    ASSUME PipelineTypeOK, RegistryConsistent, OnItsWay, NEW e \in pending, e.camera = Person,
           e.kind = "detected", Detects(e), UNCHANGED detectors
    PROVE  OnItsWay' /\ Registered'
<1>1. pending' = {} /\ Person \in active'
  BY DEF Detects
<1>2. PICK a \in 0 .. MaxDelay : a = e.age
  BY PersonTypes
<1>3. PICK t \in 0 .. Refresh : t = pubAge[Person]
  BY PersonTypes
<1>4. t = MinOf(a, Refresh) /\ (live => a <= gap) /\ gap \in Nat
  BY <1>2, <1>3, PersonTypes DEF OnItsWay
<1>5. UNCHANGED <<live, flag, gap, pubAge>>
  BY DEF detectors
<1>6. ASSUME live
      PROVE  /\ t < Refresh => seen'[Person] <= Slack + t
             /\ seen'[Person] <= Longest + gap
             /\ Debounce <= Refresh => seen'[Person] >= MinOf(t, Debounce)
  <2>1. CASE seen'[Person] = a
    BY <1>4, <1>6, <2>1, BoundTypes, RelayAssumption DEF MinOf
  <2>2. ASSUME Person \in active, seen'[Person] = seen[Person], Minus(seen[Person], a) < Debounce
        PROVE  /\ t < Refresh => seen'[Person] <= Slack + t
               /\ seen'[Person] <= Longest + gap
               /\ Debounce <= Refresh => seen'[Person] >= MinOf(t, Debounce)
    <3>1. PICK s \in Nat : s = seen[Person]
      BY <2>2, PersonTypes
    <3>2. Debounce > Refresh
      <4>1. Debounce <= Refresh => s >= Debounce + a
        BY <1>2, <2>2, <3>1 DEF OnItsWay
      <4> QED
        BY <2>2, <3>1, <4>1, BoundTypes, RelayAssumption DEF Minus
    <3>3. s <= Slack + a
      BY <2>2, <3>1, <3>2, BoundTypes, RelayAssumption DEF Minus
    <3> QED
      BY <1>4, <1>6, <2>2, <3>1, <3>2, <3>3, BoundTypes, RelayAssumption DEF MinOf
  <2> QED
    BY <1>2, <2>1, <2>2 DEF Detects
<1> QED
  BY <1>1, <1>3, <1>5, <1>6 DEF OnItsWay, Registered

\* While the frames arrive, a registered source is too young to expire.
LEMMA RegisteredIsFresh ==
    ASSUME RefreshBeatsExpiry, PipelineTypeOK, RegistryConsistent, Registered, FramesArrive,
           live, flag[Person], ~PersonWaits
    PROVE  Person \in active /\ Person \notin Stale
<1>1. Person \in active /\ seen[Person] <= Longest + gap
  BY DEF Registered
<1>2. PICK s \in Nat : s = seen[Person]
  BY <1>1, PersonTypes
<1>3. gap \in Nat /\ gap <= FrameGap
  BY PersonTypes DEF FramesArrive
<1>4. SourceTTL = 0 \/ s < SourceTTL
  BY <1>1, <1>2, <1>3, BoundTypes DEF RefreshBeatsExpiry
<1> QED
  BY <1>1, <1>2, <1>4, BoundTypes DEF Stale

LEMMA SystemKeepsPerson ==
    ASSUME RefreshBeatsExpiry, PipelineTypeOK, StateInv, EventsInv, PersonInv,
           System \/ UNCHANGED vars, UNCHANGED detectors
    PROVE  PersonInv'
<1>0. /\ RegistryConsistent /\ Person \in Camera /\ \A e, f \in pending : e = f
      /\ UNCHANGED <<live, flag, gap, pubAge>>
  BY PersonTypes DEF StateInv, detectors
<1>1. FramesArrive' /\ NobodyYet'
  BY <1>0, StartsOnce DEF PersonInv, FramesArrive, NobodyYet
<1>2. ASSUME Keeps, pending' \subseteq pending, PersonWaits' <=> PersonWaits
      PROVE  OnItsWay' /\ Registered'
  <2>1. OnItsWay'
    BY <1>0, <1>2 DEF PersonInv, OnItsWay, Keeps
  <2>2. ASSUME live, flag[Person], ~PersonWaits
        PROVE  Person \in active /\ Person \in active' /\ seen'[Person] = seen[Person]
    <3>1. Person \in active /\ Person \notin Stale
      BY <1>0, <2>2, RegisteredIsFresh DEF PersonInv
    <3>2. phase # "starting"
      BY <2>2 DEF PersonInv, NobodyYet
    <3> QED
      BY <1>2, <3>1, <3>2 DEF Keeps
  <2>3. Registered'
    BY <1>0, <1>2, <2>2 DEF PersonInv, Registered
  <2> QED
    BY <2>1, <2>3
<1>3. ASSUME NEW e \in pending, e.camera = Person, e.kind = "detected", Detects(e)
      PROVE  OnItsWay' /\ Registered'
  BY <1>0, <1>3, DetectedIsRegistered DEF PersonInv
<1>4. ASSUME NEW e \in pending, e.camera = Person, e.kind # "detected", pending' = {}
      PROVE  OnItsWay' /\ Registered'
  <2>1. ~flag'[Person]
    BY <1>0, <1>4 DEF EventsInv
  <2> QED
    BY <1>4, <2>1 DEF OnItsWay, Registered
<1>5. ASSUME NEW e \in pending, e.camera # Person, pending' = {}, Keeps
      PROVE  OnItsWay' /\ Registered'
  BY <1>0, <1>2, <1>5 DEF PersonWaits
<1>6. ASSUME pending' = pending, Keeps
      PROVE  OnItsWay' /\ Registered'
  BY <1>2, <1>6 DEF PersonWaits
<1> QED
  BY <1>0, <1>1, <1>3, <1>4, <1>5, <1>6, PersonHandled DEF PersonInv

\* A report about another source.
LEMMA OtherReportKeepsPerson ==
    ASSUME PipelineTypeOK, RegistryConsistent, PersonInv, NEW c \in Camera, c # Person,
           NEW on \in BOOLEAN, Report(c, on) \/ NoReport, UNCHANGED <<live, gap>>
    PROVE  PersonInv'
<1>1. CASE Report(c, on)
  <2>0. ReportType /\ Person \in Camera
    BY TypeParts, PersonTypes
  <2>1. pending = {} /\ flag'[Person] = flag[Person]
    BY <1>1, <2>0, ReportSetsFlag DEF Report, StateLockFree
  <2>2. /\ UNCHANGED manager
        /\ phase' = "starting" => phase = "starting"
        /\ \A e \in pending' : e.camera = c
        /\ pubAge'[Person] = pubAge[Person]
    BY <1>1, <2>0, <2>1 DEF Report, Published, Publish, ReportType, vars
  <2>3. ~PersonWaits /\ ~PersonWaits' /\ OnItsWay'
    BY <2>1, <2>2 DEF PersonWaits, OnItsWay
  <2> QED
    BY <2>1, <2>2, <2>3 DEF PersonInv, Registered, FramesArrive, NobodyYet, manager
<1>2. CASE NoReport
  BY <1>2 DEF NoReport, PersonInv, OnItsWay, Registered, FramesArrive, NobodyYet, PersonWaits,
              vars, manager
<1> QED
  BY <1>1, <1>2

\* A report about the person: a frame was processed, or the person is given up.
LEMMA PersonReportKeepsPerson ==
    ASSUME PipelineTypeOK, RegistryConsistent, EventsInv, PersonInv, phase # "starting",
           NEW on \in BOOLEAN, Report(Person, on), live' = live,
           on => live /\ gap' = 0, gap' \in {0, gap}
    PROVE  PersonInv'
<1>0. /\ ReportType /\ Person \in Camera /\ pending = {} /\ ~PersonWaits
      /\ pubAge[Person] \in 0 .. Refresh /\ flag[Person] \in BOOLEAN /\ gap \in Nat
  BY TypeParts, PersonTypes DEF Report, StateLockFree, PersonWaits
<1>1. flag'[Person] = on
  BY <1>0, ReportSetsFlag
<1>2. UNCHANGED <<manager, phase>>
  BY DEF Report, Published, Publish, vars
<1>3. FramesArrive' /\ NobodyYet'
  BY <1>2, BoundTypes DEF PersonInv, FramesArrive, NobodyYet
<1>4. CASE ~on
  <2>1. \A e \in pending' : e.kind # "detected"
    BY <1>0, <1>4 DEF Report, Published, Publish, vars
  <2> QED
    BY <1>1, <1>3, <1>4, <2>1 DEF PersonInv, OnItsWay, Registered
<1>5. ASSUME on, Published(Person, "detected"), flag[Person] => pubAge[Person] >= Refresh
      PROVE  PersonInv'
  <2>1. /\ pending' = {[camera |-> Person, kind |-> "detected", age |-> 0]}
        /\ pubAge'[Person] = 0
    BY <1>0, <1>5 DEF Published, Publish, ReportType
  <2>2. Person \in active /\ Debounce <= Refresh => seen[Person] >= Debounce
    <3>1. CASE ~flag[Person]
      BY <1>0, <3>1 DEF EventsInv
    <3>2. CASE flag[Person] /\ Debounce <= Refresh /\ Person \in active
      <4>1. seen[Person] >= MinOf(pubAge[Person], Debounce) /\ seen[Person] \in Nat
        BY <1>0, <1>5, <3>2, PersonTypes DEF PersonInv, Registered
      <4>2. MinOf(pubAge[Person], Debounce) = Debounce
        BY <1>0, <1>5, <3>2, BoundTypes DEF MinOf
      <4> QED
        BY <4>1, <4>2
    <3> QED
      BY <1>0, <3>1, <3>2
  <2>3. OnItsWay'
    <3>1. MinOf(0, Refresh) = 0
      BY BoundTypes DEF MinOf
    <3>2. Person \in active /\ Debounce <= Refresh => seen[Person] >= Debounce + 0
      BY <2>2, BoundTypes
    <3> QED
      BY <1>2, <1>5, <2>1, <3>1, <3>2 DEF OnItsWay, manager
  <2>4. PersonWaits'
    BY <2>1 DEF PersonWaits
  <2> QED
    BY <1>3, <2>3, <2>4 DEF PersonInv, Registered
<1>6. ASSUME on, flag[Person], pubAge[Person] < Refresh, UNCHANGED <<vars, pubAge>>
      PROVE  PersonInv'
  <2>1. pending' = {} /\ UNCHANGED <<active, seen>>
    BY <1>0, <1>6 DEF vars, manager
  <2>2. /\ Person \in active /\ seen[Person] <= Slack + pubAge[Person]
        /\ Debounce <= Refresh => seen[Person] >= MinOf(pubAge[Person], Debounce)
    BY <1>0, <1>6 DEF PersonInv, Registered
  <2>3. seen[Person] <= Longest + 0
    <3>1. seen[Person] \in Nat
      BY <2>2, PersonTypes
    <3> QED
      BY <1>0, <1>6, <2>2, <3>1, BoundTypes
  <2> QED
    BY <1>3, <1>6, <2>1, <2>2, <2>3 DEF PersonInv, OnItsWay, Registered
<1>7. \/ ~on
      \/ on /\ Published(Person, "detected") /\ (flag[Person] => pubAge[Person] >= Refresh)
      \/ on /\ flag[Person] /\ pubAge[Person] < Refresh /\ UNCHANGED <<vars, pubAge>>
  BY <1>0, BoundTypes DEF Report
<1> QED
  BY <1>4, <1>5, <1>6, <1>7

\* The clock.
LEMMA TickKeepsPerson ==
    ASSUME PipelineTypeOK, RegistryConsistent, PersonInv, PipelineTick
    PROVE  PersonInv'
<1>1. /\ \A e \in pending : e.age < MaxDelay
      /\ pending' = {[e EXCEPT !.age = @ + 1] : e \in pending}
      /\ seen' = [c \in DOMAIN seen |-> MinOf(seen[c] + 1, SeenCap)]
      /\ active' = active /\ flag' = flag /\ live' = live /\ phase' = phase
  BY DEF PipelineTick, Tick
<1>2. PICK t \in 0 .. Refresh : t = pubAge[Person]
  BY PersonTypes
<1>3. pubAge'[Person] = MinOf(t + 1, Refresh)
  BY <1>2, PersonTypes DEF PipelineTick
<1>4. live => gap < FrameGap /\ gap' = gap + 1
  <2>1. MaxOf(FrameGap, StaleAfter) \in Nat /\ FrameGap <= MaxOf(FrameGap, StaleAfter)
    BY MaxOfType, PipelineAssumption
  <2>2. gap' = MinOf(gap + 1, MaxOf(FrameGap, StaleAfter)) /\ (live => gap < FrameGap)
    BY DEF PipelineTick
  <2> QED
    BY <2>1, <2>2, PersonTypes, BoundTypes DEF MinOf
<1>5. SeenCap \in Nat /\ Debounce + MaxDelay <= SeenCap /\ MaxDelay \in Nat
  BY RelayAssumption DEF SeenCap, MaxOf
<1>6. ASSUME Person \in active
      PROVE  \E s \in Nat : /\ s = seen[Person]
                            /\ seen'[Person] = MinOf(s + 1, SeenCap)
  BY <1>1, <1>6, PersonTypes
<1>7. OnItsWay'
  <2>1. ASSUME NEW f \in pending', f.camera = Person, f.kind = "detected"
        PROVE  /\ MinOf(t + 1, Refresh) = MinOf(f.age, Refresh)
               /\ live => f.age <= gap'
               /\ Debounce <= Refresh /\ Person \in active => seen'[Person] >= Debounce + f.age
    <3>1. PICK e \in pending : f = [e EXCEPT !.age = @ + 1]
      BY <1>1, <2>1
    <3>2. e \in Event /\ e.age \in 0 .. MaxDelay
      BY PersonTypes
    <3>3. f.camera = e.camera /\ f.kind = e.kind /\ f.age = e.age + 1
      BY <3>1, <3>2 DEF Event
    <3>4. /\ t = MinOf(e.age, Refresh)
          /\ live => e.age <= gap
          /\ Debounce <= Refresh /\ Person \in active => seen[Person] >= Debounce + e.age
      BY <1>2, <2>1, <3>3 DEF PersonInv, OnItsWay
    <3>5. MinOf(t + 1, Refresh) = MinOf(e.age + 1, Refresh)
      BY <3>2, <3>4, BoundTypes, RelayAssumption DEF MinOf
    <3>6. live => e.age + 1 <= gap'
      BY <1>4, <3>2, <3>4, PersonTypes
    <3>7. ASSUME Debounce <= Refresh, Person \in active
          PROVE  seen'[Person] >= Debounce + (e.age + 1)
      <4>1. e.age < MaxDelay
        BY <1>1
      <4> QED
        BY <1>5, <1>6, <3>2, <3>4, <3>7, <4>1, BoundTypes DEF MinOf
    <3> QED
      BY <3>3, <3>5, <3>6, <3>7
  <2> QED
    BY <1>1, <1>3, <2>1 DEF OnItsWay
<1>8. Registered'
  <2>1. PersonWaits => PersonWaits'
    <3>1. ASSUME NEW e \in pending, e.camera = Person
          PROVE  PersonWaits'
      <4>1. [e EXCEPT !.age = @ + 1] \in pending' /\ e \in Event
        BY <1>1, PersonTypes
      <4>2. [e EXCEPT !.age = @ + 1].camera = e.camera
        BY <4>1 DEF Event
      <4> QED
        BY <3>1, <4>1, <4>2 DEF PersonWaits
    <3> QED
      BY <3>1 DEF PersonWaits
  <2>2. ASSUME live, flag[Person], ~PersonWaits
        PROVE  /\ Person \in active
               /\ MinOf(t + 1, Refresh) < Refresh => seen'[Person] <= Slack + MinOf(t + 1, Refresh)
               /\ seen'[Person] <= Longest + gap'
               /\ Debounce <= Refresh => seen'[Person] >= MinOf(MinOf(t + 1, Refresh), Debounce)
    <3>1. /\ Person \in active
          /\ t < Refresh => seen[Person] <= Slack + t
          /\ seen[Person] <= Longest + gap
          /\ Debounce <= Refresh => seen[Person] >= MinOf(t, Debounce)
      BY <1>2, <2>2 DEF PersonInv, Registered
    <3>2. PICK s \in Nat : s = seen[Person] /\ seen'[Person] = MinOf(s + 1, SeenCap)
      BY <1>6, <3>1
    <3>3. MinOf(s + 1, SeenCap) \in Nat /\ MinOf(s + 1, SeenCap) <= s + 1
      BY <1>5, <3>2 DEF MinOf
    <3>4. MinOf(t + 1, Refresh) < Refresh => MinOf(t + 1, Refresh) = t + 1 /\ t < Refresh
      BY BoundTypes DEF MinOf
    <3>5. MinOf(t + 1, Refresh) < Refresh => seen'[Person] <= Slack + MinOf(t + 1, Refresh)
      BY <3>1, <3>2, <3>3, <3>4, BoundTypes
    <3>6. seen'[Person] <= Longest + gap'
      BY <1>4, <2>2, <3>1, <3>2, <3>3, BoundTypes, PersonTypes
    <3>7. ASSUME Debounce <= Refresh
          PROVE  seen'[Person] >= MinOf(MinOf(t + 1, Refresh), Debounce)
      <4>1. s >= MinOf(t, Debounce) /\ Debounce <= SeenCap
        BY <1>5, <3>1, <3>2, <3>7, BoundTypes
      <4> QED
        BY <1>5, <3>2, <4>1, BoundTypes DEF MinOf
    <3> QED
      BY <3>1, <3>5, <3>6, <3>7
  <2> QED
    BY <1>1, <1>3, <2>1, <2>2 DEF Registered
<1>9. FramesArrive' /\ NobodyYet'
  BY <1>1, <1>4, PersonTypes, BoundTypes DEF PersonInv, FramesArrive, NobodyYet
<1> QED
  BY <1>7, <1>8, <1>9 DEF PersonInv

LEMMA PersonNext ==
    ASSUME RefreshBeatsExpiry, PipelineTypeOK, StateInv, FlagsFollowDetectors, EventsInv,
           PersonInv, [PipelineNext]_allVars
    PROVE  PersonInv'
<1>0. RegistryConsistent
  BY DEF StateInv
<1>1. CASE PersonFrame
  <2>1. PICK on \in BOOLEAN : Report(Person, on)
    BY <1>1 DEF PersonFrame, UpdateLedState
  <2> QED
    BY <1>0, <1>1, <2>1, PersonReportKeepsPerson DEF PersonFrame
<1>2. CASE StalePerson
  <2>1. phase # "starting"
    BY <1>2 DEF StalePerson, FlagsFollowDetectors, PersonInv, NobodyYet
  <2> QED
    BY <1>0, <1>2, <2>1, PersonReportKeepsPerson DEF StalePerson
<1>3. ASSUME NEW r \in Role, TamperFrame(r) \/ StaleTamper(r) \/ PauseTamper(r)
      PROVE  PersonInv'
  <2>1. TamperedFrame(r) \/ ClearFrame(r) \/ PauseTamper(r)
    BY <1>3 DEF TamperFrame, StaleTamper
  <2>2. gap' = gap
    BY <1>3 DEF TamperFrame, StaleTamper, PauseTamper
  <2>3. /\ Report(TamperSource[r], TRUE) \/ Report(TamperSource[r], FALSE) \/ NoReport
        /\ live' = live
    BY <2>1, TamperReports
  <2> QED
    BY <1>0, <2>2, <2>3, SourcesDiffer, OtherReportKeepsPerson
<1>4. CASE CameraLost
  BY <1>4 DEF CameraLost, PersonInv, OnItsWay, Registered, FramesArrive, NobodyYet, vars, manager
<1>5. CASE SceneChanges
  BY <1>5 DEF SceneChanges, PersonInv, OnItsWay, Registered, FramesArrive, NobodyYet,
              PersonWaits, vars, manager
<1>6. CASE System /\ UNCHANGED detectors
  BY <1>6, SystemKeepsPerson
<1>7. CASE UNCHANGED allVars
  BY <1>7, SystemKeepsPerson DEF allVars
<1>8. CASE PipelineTick
  BY <1>0, <1>8, TickKeepsPerson
<1> QED
  BY <1>1, <1>2, <1>3, <1>4, <1>5, <1>6, <1>7, <1>8 DEF PipelineNext

\* PersonKeepsSource holds of every setting whose time to live is longer than the age that the
\* last accepted refresh can reach between two frames, whatever the waits for the lock, the
\* tamper detectors, the alerts and the GPIO do.
THEOREM PersonKept ==
    ASSUME RefreshBeatsExpiry
    PROVE  PipelineSpec => []PersonKeepsSource
<1>1. PipelineInit => EventsInv /\ PersonInv
  BY PipelineAssumption DEF PipelineInit, Init, EventsInv, PersonInv, OnItsWay, Registered,
                            FramesArrive, NobodyYet
<1>2. PipelineTypeOK /\ EventsInv /\ [PipelineNext]_allVars => EventsInv'
  BY EventsNext
<1>3. PipelineTypeOK /\ StateInv /\ FlagsFollowDetectors /\ EventsInv /\ PersonInv
        /\ [PipelineNext]_allVars => PersonInv'
  BY PersonNext
<1>4. PersonInv => PersonKeepsSource
  BY DEF PersonInv, Registered, PersonKeepsSource, PersonWaits, StateLockFree
<1> QED
  BY <1>1, <1>2, <1>3, <1>4, PipelineTypeCorrect, FlagsFollow, RelayInPipeline, PTL
     DEF PipelineSpec

---------------------------------------------------------------------------
(* Every behaviour of the pipeline is one of the relay manager on its own. *)

\* The detectors, the state manager and its event bus only ever call the relay manager as
\* SecurityRelay lets them: one detection call at a time, never before the startup is over.  What
\* is proved of the manager under any detection calls therefore holds in the pipeline.
THEOREM PipelineImplementsRelay == PipelineSpec => Spec
<1>1. PipelineInit => Init
  BY DEF PipelineInit
<1>2. [PipelineNext]_allVars => [Next]_vars
  BY PipelineStepsRelay
<1> QED
  BY <1>1, <1>2, PTL DEF PipelineSpec, Spec

\* So the alarm that the agent gives is the one that Alarm describes, whatever cameras, detectors
\* and classifiers do.
THEOREM PipelineImplementsAlarm == PipelineSpec => KeepsPromise
BY PipelineImplementsRelay, ManagerImplementsAlarm
===========================================================================
