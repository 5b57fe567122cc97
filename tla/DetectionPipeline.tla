------------------------- MODULE DetectionPipeline -------------------------
(***************************************************************************)
(* From camera frames to the security relays.  The person detector and the *)
(* tamper detectors debounce what they see in each frame and report it to  *)
(* DetectionStateManager, which publishes changes (and, for a signal that  *)
(* is reported active again, refreshes) to SecurityRelayManager while it   *)
(* holds its own lock: one detection call at a time, in the order of the   *)
(* reports.  What a camera shows is an input, the scene; what the          *)
(* classifiers make of it depends on each other and on what they learnt.   *)
(***************************************************************************)
EXTENDS SecurityRelay

CONSTANTS Role,          \* cameras with a tamper detector
          Scanned,       \* those the QR scanner watches: their detector pauses for a code
          Person,        \* the source internal_person
          TamperSource,  \* [Role -> Camera]: internal_tamper, external_tamper
          Evidence,      \* what may show together: sets of "face", "hand" (small), "big hand",
                         \* "body", "near" (an object), "model" (a person for sure), "hint" (perhaps)
          ModelSkips,    \* PERSON_MODEL_EVERY_N_FRAMES > 1
          View,          \* what a camera with a tamper detector may show
          Textured,      \* the views with a picture; the others are dark, bright or blurred
          SceneChange,   \* TAMPER_SCENE_CHANGE_ENABLED
          BaselineFrames,   \* TAMPER_BASELINE_FRAMES
          TriggerFrames, ClearFrames, ClearSeconds,   \* its debouncing (one setting for all)
          Hold,          \* INTERNAL_PERSON_TIMEOUT_SECONDS
          TamperFrames, TamperConfirm, TamperClearFrames, TamperClear,
          StaleAfter,    \* TAMPER_STALE_CLEAR_SECONDS
          Refresh,       \* _event_refresh_seconds
          FrameGap       \* bound: longest time between two processed frames of a live camera

ASSUME PipelineAssumption ==
    /\ Scanned \subseteq Role
    /\ Textured \subseteq View /\ Textured # {}
    /\ {ModelSkips, SceneChange} \subseteq BOOLEAN
    /\ Person \in Camera /\ TamperSource \in [Role -> Camera \ {Person}]
    /\ \A q, r \in Role : TamperSource[q] = TamperSource[r] => q = r
    /\ {TriggerFrames, ClearFrames, TamperFrames, TamperClearFrames, BaselineFrames} \subseteq Nat \ {0}
    /\ {ClearSeconds, Hold, TamperConfirm, TamperClear, StaleAfter, Refresh, FrameGap} \subseteq Nat

VARIABLES
  scene,     \* what the cameras show now: evidence of a human, the view of each other camera
  live,      \* frames are arriving
  gap,       \* time since the person detector processed a frame, or since the camera was lost
  flag,      \* DetectionStateManager.camera_state, by source: *_detected
  pubAge,    \* age of last_*_publish_time
  human,     \* PersonDetector: per signal its debouncer, _led_visible, the age of the last sighting
  tamper,    \* TamperDetection per camera: its state, streaks and the age of that state's timer
  baseline   \* its _baseline_frames_seen, and the view that _baseline_gray resembles

detectors == <<scene, live, gap, flag, pubAge, human, tamper, baseline>>
allVars == <<vars, detectors>>

\* The person detector's channels, each with a debouncer of its own.
Signal == {"face", "hand", "body", "person"}

\* No human in sight, but for what may only look like a hand, and every camera shows a picture.
Quiet == scene.shown \subseteq {"hand"} /\ \A r \in Role : scene.view[r] \in Textured

NoSignal == [active |-> FALSE, hits |-> 0, misses |-> 0, since |-> 0]
NoTamper == [state |-> "IDLE", hits |-> 0, clears |-> 0, age |-> 0]

\* GPIO is available; SecurityRelay starts without it too.
PipelineInit ==
    /\ Init /\ board.enabled
    /\ scene \in [shown : Evidence, view : [Role -> View]] /\ live = TRUE /\ gap = 0
    /\ flag = [c \in Camera |-> FALSE] /\ pubAge = [c \in Camera |-> 0]
    /\ human = [signal |-> [s \in Signal |-> NoSignal], visible |-> FALSE, since |-> 0]
    /\ tamper = [r \in Role |-> NoTamper]
    /\ baseline = [r \in Role |-> [frames |-> 0, view |-> scene.view[r]]]

---------------------------------------------------------------------------
(* DetectionStateManager *)

\* Its lock is held until the relay manager has handled the event.
StateLockFree == pending = {} /\ write.then # "detected"

Published(c, kind) ==
    /\ Publish(c, kind)
    /\ pubAge' = [pubAge EXCEPT ![c] = 0]

\* Mutant: a signal that stays active is reported once.
Report_NoRefresh(c, on) ==
    /\ StateLockFree
    /\ flag' = [flag EXCEPT ![c] = on]
    /\ \/ /\ flag[c] # on
          /\ Published(c, IF on THEN "detected" ELSE "cleared")
       \/ /\ flag[c] = on
          /\ UNCHANGED <<vars, pubAge>>

\* Mutant: the refresh interval limits clear events too.
Report_ClearLimited(c, on) ==
    /\ StateLockFree
    /\ flag' = [flag EXCEPT ![c] = on]
    /\ \/ /\ IF on THEN ~flag[c] \/ pubAge[c] >= Refresh ELSE flag[c] /\ pubAge[c] >= Refresh
          /\ Published(c, IF on THEN "detected" ELSE "cleared")
       \/ /\ ~(IF on THEN ~flag[c] \/ pubAge[c] >= Refresh ELSE flag[c] /\ pubAge[c] >= Refresh)
          /\ UNCHANGED <<vars, pubAge>>

\* _update_signal_locked
Report(c, on) ==
    /\ StateLockFree
    /\ flag' = [flag EXCEPT ![c] = on]
    /\ \/ /\ flag[c] # on
          /\ Published(c, IF on THEN "detected" ELSE "cleared")
       \/ /\ flag[c] /\ on /\ pubAge[c] >= Refresh
          /\ Published(c, "detected")
       \/ /\ flag[c] = on /\ ~(on /\ pubAge[c] >= Refresh)
          /\ UNCHANGED <<vars, pubAge>>

NoReport == UNCHANGED <<vars, flag, pubAge>>

---------------------------------------------------------------------------
(* PersonDetector *)

\* One debouncer of _update_led_state.  It reads its streak of hits until it is active, and its
\* streak of misses and the time since the last hit while it is.
Debounce1(d, hit) ==
    LET hits   == IF hit THEN d.hits + 1 ELSE 0
        misses == IF hit THEN 0 ELSE MinOf(d.misses + 1, ClearFrames)
        on     == IF hit THEN d.active \/ hits >= TriggerFrames
                         ELSE d.active /\ ~(misses >= ClearFrames /\ d.since > ClearSeconds)
    IN  IF on THEN [active |-> TRUE, hits |-> 0, misses |-> misses,
                        since |-> IF hit THEN 0 ELSE d.since]
                  ELSE [NoSignal EXCEPT !.hits = hits]

\* _expire_internal_presence_state, _clear_person_state
Expired == [s \in Signal |-> NoSignal]

\* What the model makes of the scene: a weak score counts for a person already believed in.
ModelSees ==
    \/ "model" \in scene.shown
    \/ "hint" \in scene.shown /\ human.signal["person"].active

\* What the classifiers report of the scene, the model among them if it runs on this frame: what
\* is only as large as a small hand needs the support of another.
Seen(modelRuns) ==
    LET shown  == scene.shown
        person == (modelRuns /\ ModelSees) \/ shown \cap {"near", "body"} # {}
        hand   == "big hand" \in shown \/ ("hand" \in shown /\ (person \/ "face" \in shown))
    IN  (shown \cap {"face", "body"}) \cup {s \in {"person"} : person} \cup {s \in {"hand"} : hand}

\* The frames the model runs on are told by their numbers, and frames are skipped under load.
ModelRuns == IF ModelSkips THEN BOOLEAN ELSE {TRUE}

\* Mutant: a frame seen during the hold counts as a sighting.
SinceSighting_HoldRenews(raw) == IF raw # {} \/ human.visible THEN 0 ELSE human.since

\* Time since the last frame with any human signal.
SinceSighting(raw) == IF raw # {} THEN 0 ELSE human.since

\* _update_led_state
UpdateLedState(raw) ==
    LET since   == SinceSighting(raw)
        next    == [s \in Signal |-> Debounce1(human.signal[s], s \in raw)]
        holding == human.visible /\ since < Hold
        expire  == raw = {} /\ human.visible /\ ~holding
        visible == holding \/ (~expire /\ \E s \in Signal : next[s].active)
    IN  /\ human' = [signal  |-> IF expire THEN Expired ELSE next,
                     visible |-> visible,
                     since   |-> IF visible THEN since ELSE 0]
        /\ Report(Person, visible)

PersonFrame ==
    /\ live /\ phase # "starting"
    /\ \E modelRuns \in ModelRuns : UpdateLedState(Seen(modelRuns))
    /\ gap' = 0
    /\ UNCHANGED <<scene, live, tamper, baseline>>

\* _clear_stale_led_state, polled between two frames
StalePerson ==
    /\ human.visible /\ human.since >= Hold
    /\ human' = [signal |-> Expired, visible |-> FALSE, since |-> 0]
    /\ Report(Person, FALSE)
    /\ UNCHANGED <<scene, live, gap, tamper, baseline>>

---------------------------------------------------------------------------
(* TamperDetection: _update_tamper_state *)

\* The detector's thread is not itself inside a call.
ThreadFree(c) == write.then # "detected" /\ \A e \in pending : e.camera # c

Becomes(r, t) ==
    /\ tamper' = [tamper EXCEPT ![r] = t]
    /\ ThreadFree(TamperSource[r])
    /\ UNCHANGED <<scene, live, human>>

Hit(r) == [tamper[r] EXCEPT !.hits = MinOf(@ + 1, TamperFrames), !.clears = 0]
\* Mutant: a clear frame does not reset the streak.
Miss_KeepsStreak(r) == [tamper[r] EXCEPT !.clears = MinOf(@ + 1, TamperClearFrames)]

Miss(r) == [tamper[r] EXCEPT !.hits = 0, !.clears = MinOf(@ + 1, TamperClearFrames)]

TamperedFrame(r) ==
    LET t == Hit(r)
        confirmed == t.hits >= TamperFrames /\ t.age >= TamperConfirm
    IN  \/ /\ t.state = "IDLE"
           /\ Becomes(r, [t EXCEPT !.state = "CANDIDATE", !.age = 0])
           /\ NoReport
        \/ /\ t.state = "CANDIDATE" /\ confirmed
           /\ Becomes(r, [t EXCEPT !.state = "ACTIVE", !.age = 0])
           /\ Report(TamperSource[r], TRUE)
        \/ /\ t.state = "CANDIDATE" /\ ~confirmed
           /\ Becomes(r, t)
           /\ NoReport
        \/ /\ t.state \in {"ACTIVE", "CLEARING"}
           /\ Becomes(r, [t EXCEPT !.state = "ACTIVE", !.age = 0])
           /\ NoReport

ClearFrame(r) ==
    LET t == Miss(r)
        cleared == t.clears >= TamperClearFrames /\ t.age >= TamperClear
    IN  \/ /\ t.state \in {"IDLE", "CANDIDATE"}
           /\ Becomes(r, [t EXCEPT !.state = "IDLE", !.age = 0])
           /\ NoReport
        \/ /\ t.state = "ACTIVE"
           /\ Becomes(r, [t EXCEPT !.state = "CLEARING", !.age = 0])
           /\ NoReport
        \/ /\ t.state = "CLEARING" /\ cleared
           /\ Becomes(r, [t EXCEPT !.state = "IDLE", !.age = 0])
           /\ Report(TamperSource[r], FALSE)
        \/ /\ t.state = "CLEARING" /\ ~cleared
           /\ Becomes(r, t)
           /\ NoReport

\* _detect_tamper: the view is not the one that was learnt.  A picture only counts as a change
\* of the scene; a covered camera that always was covered is none.
Tampered(r) ==
    /\ baseline[r].frames = BaselineFrames
    /\ scene.view[r] # baseline[r].view
    /\ scene.view[r] \in Textured => SceneChange

\* Mutant: the baseline is kept once it has been learnt.
Learns_Keeps(r) ==
    LET b == baseline[r] IN
    baseline' = [baseline EXCEPT ![r] = [frames |-> MinOf(b.frames + 1, BaselineFrames),
                                         view   |-> IF b.frames = 0 THEN scene.view[r] ELSE b.view]]

\* _learn_baseline on the first frames; later the baseline drifts towards a picture, and only so.
Learns(r) ==
    LET b == baseline[r] IN
    \E v \in {b.view, scene.view[r]} :
        /\ b.frames = 0 => v = scene.view[r]
        /\ b.frames = BaselineFrames /\ scene.view[r] \notin Textured => v = b.view
        /\ baseline' = [baseline EXCEPT ![r] = [frames |-> MinOf(b.frames + 1, BaselineFrames),
                                                view   |-> v]]

TamperFrame(r) ==
    /\ live /\ phase # "starting"
    /\ IF Tampered(r) THEN TamperedFrame(r) ELSE ClearFrame(r)
    /\ Learns(r)
    /\ UNCHANGED gap

\* _clear_stale_tamper_state: while no frame arrives it counts clear frames.
StaleTamper(r) ==
    /\ ~live /\ gap >= StaleAfter
    /\ tamper[r].state # "IDLE"
    /\ ClearFrame(r)
    /\ UNCHANGED <<gap, baseline>>

\* Mutant: an alarm that is clearing is dropped without a report.
PauseTamper_ClearingSilent(r) ==
    /\ r \in Scanned
    /\ live /\ phase # "starting"
    /\ Becomes(r, NoTamper)
    /\ IF tamper[r].state = "ACTIVE"
       THEN Report(TamperSource[r], FALSE)
       ELSE NoReport
    /\ UNCHANGED <<gap, baseline>>

\* _pause_tamper_state: the QR scanner has a code in view of this camera.
PauseTamper(r) ==
    /\ r \in Scanned
    /\ live /\ phase # "starting"
    /\ Becomes(r, NoTamper)
    /\ IF tamper[r].state \in {"ACTIVE", "CLEARING"}
       THEN Report(TamperSource[r], FALSE)
       ELSE NoReport
    /\ UNCHANGED <<gap, baseline>>

---------------------------------------------------------------------------
(* The scene, the camera and the clock *)

SceneChanges ==
    /\ scene' \in [shown : Evidence, view : [Role -> View]]
    /\ UNCHANGED <<vars, live, gap, flag, pubAge, human, tamper, baseline>>

\* The frames stop for good (bound: one outage per behaviour).
CameraLost ==
    /\ live /\ phase # "starting"
    /\ live' = FALSE /\ gap' = 0
    /\ UNCHANGED <<vars, scene, flag, pubAge, human, tamper, baseline>>

PipelineTick ==
    /\ Tick
    /\ live => gap < FrameGap
    /\ gap' = MinOf(gap + 1, MaxOf(FrameGap, StaleAfter))
    /\ pubAge' = [c \in Camera |-> MinOf(pubAge[c] + 1, Refresh)]
    /\ human' = [signal  |-> [s \in Signal |->
                                 LET d == human.signal[s]
                                 IN  IF d.active
                                     THEN [d EXCEPT !.since = MinOf(@ + 1, ClearSeconds + 1)]
                                     ELSE d],
                 visible |-> human.visible,
                 since   |-> IF human.visible THEN MinOf(human.since + 1, Hold) ELSE 0]
    /\ tamper' = [r \in Role |->
                    [tamper[r] EXCEPT !.age = MinOf(@ + 1, MaxOf(TamperConfirm, TamperClear))]]
    /\ UNCHANGED <<scene, live, flag, baseline>>

PipelineNext ==
    \/ PersonFrame \/ StalePerson
    \/ \E r \in Role : TamperFrame(r) \/ StaleTamper(r) \/ PauseTamper(r)
    \/ SceneChanges \/ CameraLost
    \/ System /\ UNCHANGED detectors
    \/ PipelineTick

PipelineSpec == PipelineInit /\ [][PipelineNext]_allVars

\* Detector threads keep processing frames while they arrive and polling when they do not.  Each
\* frame moves the baseline a little (accumulateWeighted): one that is seen over and over again
\* becomes the baseline.
PipelineFairness ==
    /\ WF_allVars(PersonFrame) /\ WF_allVars(StalePerson)
    /\ \A r \in Role : WF_allVars(TamperFrame(r)) /\ WF_allVars(StaleTamper(r))
    /\ \A r \in Role : SF_allVars(TamperFrame(r) /\ baseline'[r].view = scene.view[r])
    /\ WF_allVars((\E e \in pending : Handle(e)) /\ UNCHANGED detectors)
    /\ WF_allVars(Worker /\ UNCHANGED detectors)
    /\ WF_allVars(RelayWrite /\ UNCHANGED detectors)
    /\ WF_allVars(ForceOffAtStartup /\ UNCHANGED detectors)
    /\ WF_allVars(PipelineTick)

FairPipelineSpec == PipelineSpec /\ PipelineFairness

---------------------------------------------------------------------------
(* Properties *)

\* Type invariant of the detectors' state; a streak of tampered frames is being counted exactly
\* in the states that such a frame leads to.
PipelineTypeOK ==
    /\ TypeOK
    /\ scene \in [shown : Evidence, view : [Role -> View]] /\ live \in BOOLEAN
    /\ gap \in 0..MaxOf(FrameGap, StaleAfter)
    /\ flag \in [Camera -> BOOLEAN] /\ pubAge \in [Camera -> 0..Refresh]
    /\ human \in [signal : [Signal -> [active : BOOLEAN, hits : 0..(TriggerFrames - 1),
                                       misses : 0..ClearFrames, since : 0..(ClearSeconds + 1)]],
                  visible : BOOLEAN, since : 0..Hold]
    /\ tamper \in [Role -> [state : {"IDLE", "CANDIDATE", "ACTIVE", "CLEARING"},
                            hits : 0..TamperFrames, clears : 0..TamperClearFrames,
                            age : 0..MaxOf(TamperConfirm, TamperClear)]]
    /\ baseline \in [Role -> [frames : 0..BaselineFrames, view : View]]
    /\ \A r \in Role : tamper[r].hits > 0 <=> tamper[r].state \in {"CANDIDATE", "ACTIVE"}

\* No ghost sources: what keeps the relays on is what the state manager believes, as no event
\* overtakes another on its way from a detector thread to the relay manager.
NoGhostSource == pending = {} => \A c \in active : flag[c]

\* The state manager believes exactly what the detectors have decided, over every path that
\* leaves a detector's active state: clearing, pausing for a QR code, expiry, a dead camera.
FlagsFollowDetectors ==
    /\ flag[Person] <=> human.visible
    /\ \A r \in Role : flag[TamperSource[r]] <=> tamper[r].state \in {"ACTIVE", "CLEARING"}

\* While frames arrive, a person who is present keeps the source alive in the relay manager:
\* refreshes pass the debounce often enough to beat the source's time to live.
PersonKeepsSource ==
    live /\ flag[Person] /\ StateLockFree /\ LockFree => Person \in active

\* DetectionStateManager "computes one boolean: security_active = human_presence or tamper" and
\* drives set_security_relays with it (relay_controller.py:20-22): while it believes in a
\* detection the security source is asserted.
TamperKeepsAlarm ==
    live /\ StateLockFree /\ LockFree /\ phase = "up" /\ (\E c \in Camera : flag[c])
        => SecurityHeld(board)

\* Once the scene shows nothing, or the camera is dead, the relays end up off.
QuietSceneEndsAlarm ==
    <>[]((Quiet \/ ~live) /\ phase = "up") => <>[]~IsOn(board)
===========================================================================
