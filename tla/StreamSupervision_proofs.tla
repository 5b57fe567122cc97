----------------------- MODULE StreamSupervision_proofs -----------------------
(***************************************************************************)
(* The type invariant of StreamSupervision, for every number of attempts,  *)
(* deaths, reconnections and camera events.  What it takes: a stream       *)
(* object gets at most one watchdog, since the rebuild that starts one has *)
(* made a stream object before (RebuildHasStream), and restart_all starts  *)
(* the stream object it has stopped (ReconnectHasStream).  And two things  *)
(* the races of its threads cannot do: leave an ffmpeg without a monitor,  *)
(* or supervise a stream that has been replaced.                           *)
(***************************************************************************)
EXTENDS StreamSupervision, TLAPS

LEMMA BoundsAreNat ==
    /\ MaxAttempts \in Nat \ {0}
    /\ MaxDeaths \in Nat /\ MaxStuck \in Nat /\ MaxReconnects \in Nat /\ MaxEvents \in Nat
BY StreamAssumption

Stream == [running : BOOLEAN, process : {"none", "alive", "exited"},
           attempts : Nat, stopRequested : BOOLEAN]
Monitor == [MonitorStep -> Nat]

StreamsType == streams \in Seq(Stream)
MonitorsType == monitors \in [1 .. Len(streams) -> Monitor]
WatchdogType ==
    /\ watchdog \in Seq([running : BOOLEAN, at : WatchdogStep])
    /\ Len(watchdog) <= Len(streams)
ThreadsType ==
    /\ current \in 0 .. Len(streams)
    /\ reconnect \in [stream : 0 .. Len(streams), at : ReconnectStep]
    /\ rebuild \in RebuildStep /\ shutdown \in ShutdownStep
BoundsType ==
    /\ deaths \in 0 .. MaxDeaths /\ stuck \in 0 .. MaxStuck
    /\ reconnects \in 0 .. MaxReconnects /\ events \in 0 .. MaxEvents
    /\ shutdowns \in 0 .. 1

\* A rebuild that starts a stream, and then its watchdog, has made the stream.
RebuildHasStream ==
    /\ rebuild \in {"start", "watchdog"} => Len(watchdog) < Len(streams)
    /\ rebuild = "start" => current # NoStream

\* A restart_all that is going on is about a stream object.
ReconnectHasStream == reconnect.at # "idle" => reconnect.stream # NoStream

IInv ==
    /\ StreamsType /\ MonitorsType /\ WatchdogType /\ ThreadsType /\ BoundsType
    /\ RebuildHasStream /\ ReconnectHasStream

---------------------------------------------------------------------------
(* The stream objects. *)

LEMMA DomainIs ==
    ASSUME StreamsType
    PROVE  /\ DOMAIN streams = 1 .. Len(streams) /\ Len(streams) \in Nat
           /\ \A s \in DOMAIN streams : streams[s] \in Stream
BY DEF StreamsType

SameStreams == streams' \in Seq(Stream) /\ Len(streams') = Len(streams)

LEMMA Replaced ==
    ASSUME StreamsType, NEW s \in DOMAIN streams, NEW r \in Stream, streams' = [streams EXCEPT ![s] = r]
    PROVE  SameStreams
BY DEF StreamsType, SameStreams

LEMMA StopType ==
    ASSUME StreamsType, BoundsType, NEW s \in DOMAIN streams, Stop(s) \/ StopRaises(s)
    PROVE  SameStreams /\ stuck' \in 0 .. MaxStuck
<1> DEFINE r == Stopped(streams[s])
<1>1. streams[s] \in Stream
  BY DomainIs
<1>2. r \in Stream
  BY <1>1 DEF Stream, Stopped
<1>3. streams' = [streams EXCEPT ![s] = r]
  BY DEF Stop, StopRaises
<1>4. stuck' \in 0 .. MaxStuck
  BY BoundsAreNat DEF Stop, StopRaises, BoundsType
<1> HIDE DEF r
<1> QED
  BY <1>2, <1>3, <1>4, Replaced

LEMMA StartType ==
    ASSUME StreamsType, BoundsType, NEW s \in DOMAIN streams,
           NEW left \in [1 .. Len(streams) -> Monitor], Start(s, left)
    PROVE  /\ SameStreams /\ monitors' \in [1 .. Len(streams) -> Monitor]
           /\ deaths' \in 0 .. MaxDeaths
<1> DEFINE stream == streams[s]
<1>1. stream \in Stream /\ s \in 1 .. Len(streams)
  BY DomainIs
<1>2. \A step \in MonitorStep : left[s][step] \in Nat
  BY <1>1 DEF Monitor
<1>3. CASE streams' = streams /\ monitors' = left /\ deaths' = deaths
  BY <1>3 DEF StreamsType, SameStreams, BoundsType
<1>4. CASE /\ streams' = [streams EXCEPT ![s] = [@ EXCEPT !.running = TRUE, !.process = "alive",
                                                          !.stopRequested = FALSE]]
           /\ monitors' = [left EXCEPT ![s]["watch"] = @ + 1]
           /\ deaths' = deaths
  <2> DEFINE r == [stream EXCEPT !.running = TRUE, !.process = "alive", !.stopRequested = FALSE]
             m == [left[s] EXCEPT !["watch"] = @ + 1]
  <2>1. r \in Stream
    <3> DEFINE p == [stream EXCEPT !.running = TRUE]
               q == [p EXCEPT !.process = "alive"]
    <3> HIDE DEF stream
    <3>1. p \in Stream
      BY <1>1 DEF Stream
    <3> HIDE DEF p
    <3>2. q \in Stream
      BY <3>1 DEF Stream
    <3>3. r = [q EXCEPT !.stopRequested = FALSE]
      BY DEF p
    <3> HIDE DEF q, r
    <3> QED
      BY <3>2, <3>3 DEF Stream
  <2>2. left[s] \in Monitor /\ "watch" \in MonitorStep
    BY <1>1 DEF MonitorStep
  <2>3. m \in Monitor
    BY <1>2, <2>2 DEF Monitor
  <2>4. streams' = [streams EXCEPT ![s] = r] /\ monitors' = [left EXCEPT ![s] = m]
    BY <1>4
  <2> HIDE DEF r, m
  <2>5. SameStreams
    BY <2>1, <2>4, Replaced
  <2>6. monitors' \in [1 .. Len(streams) -> Monitor]
    BY <1>1, <2>3, <2>4
  <2> QED
    BY <1>4, <2>5, <2>6 DEF BoundsType
<1>5. CASE /\ deaths > 0 /\ deaths' = deaths - 1
           /\ streams' = [streams EXCEPT ![s] = [@ EXCEPT !.process = "none", !.stopRequested = FALSE]]
           /\ monitors' = left
  <2> DEFINE r == [stream EXCEPT !.process = "none", !.stopRequested = FALSE]
  <2>1. r \in Stream
    <3> DEFINE q == [stream EXCEPT !.process = "none"]
    <3> HIDE DEF stream
    <3>1. q \in Stream
      BY <1>1 DEF Stream
    <3>2. r = [q EXCEPT !.stopRequested = FALSE]
      OBVIOUS
    <3> HIDE DEF q, r
    <3> QED
      BY <3>1, <3>2 DEF Stream
  <2>2. deaths' \in 0 .. MaxDeaths
    <3>1. deaths \in 0 .. MaxDeaths /\ MaxDeaths \in Nat
      BY BoundsAreNat DEF BoundsType
    <3> HIDE DEF r, stream
    <3> QED
      BY <1>5, <3>1
  <2>3. streams' = [streams EXCEPT ![s] = r]
    BY <1>5
  <2> HIDE DEF r
  <2> QED
    BY <1>5, <2>1, <2>2, <2>3, Replaced
<1> QED
  BY <1>3, <1>4, <1>5 DEF Start

\* Counting an attempt, giving up and the reset of restart_all change the attempts only.
LEMMA AttemptsOnly ==
    ASSUME StreamsType, NEW s \in DOMAIN streams,
           Count(s) \/ GiveUp(s) \/ SetAttempts(s, 0)
    PROVE  /\ SameStreams
           /\ \E r : streams' = [streams EXCEPT ![s] = r]
           /\ streams'[s].running = streams[s].running
           /\ streams'[s].process = streams[s].process
<1> DEFINE stream == streams[s]
<1>1. stream \in Stream
  BY DomainIs
<1>2. stream.attempts + 1 \in Nat
  <2> HIDE DEF stream
  <2> QED
    BY <1>1 DEF Stream
<1>3. PICK n \in Nat : streams' = [streams EXCEPT ![s].attempts = n]
  BY <1>2 DEF Count, GiveUp, SetAttempts
<1> DEFINE r == [stream EXCEPT !.attempts = n]
<1>4. r \in Stream /\ r.running = stream.running /\ r.process = stream.process
  <2> HIDE DEF stream
  <2> QED
    BY <1>1 DEF Stream
<1>5. streams' = [streams EXCEPT ![s] = r]
  BY <1>3
<1> HIDE DEF r
<1>6. streams'[s] = r
  BY <1>5
<1> QED
  BY <1>4, <1>5, <1>6, Replaced

---------------------------------------------------------------------------
(* The monitor threads. *)

LEMMA LeaveType ==
    ASSUME StreamsType, MonitorsType, NEW s \in DOMAIN streams, NEW step \in MonitorStep,
           monitors[s][step] > 0
    PROVE  Leave(s, step) \in [1 .. Len(streams) -> Monitor]
<1> DEFINE m == [monitors[s] EXCEPT ![step] = @ - 1]
<1>1. s \in 1 .. Len(streams) /\ monitors[s] \in Monitor
  BY DomainIs DEF MonitorsType
<1>2. m \in Monitor
  BY <1>1 DEF Monitor
<1>3. Leave(s, step) = [monitors EXCEPT ![s] = m]
  BY DEF Leave
<1> HIDE DEF m
<1> QED
  BY <1>1, <1>2, <1>3 DEF MonitorsType

LEMMA GoesType ==
    ASSUME StreamsType, MonitorsType, NEW s \in DOMAIN streams,
           NEW from \in MonitorStep, NEW to \in MonitorStep, from # to, Goes(s, from, to)
    PROVE  monitors' \in [1 .. Len(streams) -> Monitor]
<1> DEFINE m == [monitors[s] EXCEPT ![from] = @ - 1]
           n == [m EXCEPT ![to] = @ + 1]
<1>1. s \in 1 .. Len(streams) /\ monitors[s] \in Monitor /\ monitors[s][from] > 0
  BY DomainIs DEF MonitorsType, Goes
<1>2. m \in Monitor
  BY <1>1 DEF Monitor
<1>3. n \in Monitor
  BY <1>2 DEF Monitor
<1>4. monitors' = [[monitors EXCEPT ![s] = m] EXCEPT ![s] = n]
  <2>1. monitors' = [[monitors EXCEPT ![s][from] = @ - 1] EXCEPT ![s][to] = @ + 1]
    BY DEF Goes
  <2>2. [monitors EXCEPT ![s][from] = @ - 1] = [monitors EXCEPT ![s] = m]
    OBVIOUS
  <2>3. [monitors EXCEPT ![s] = m][s] = m
    BY <1>1 DEF MonitorsType
  <2> HIDE DEF m
  <2> QED
    BY <2>1, <2>2, <2>3
<1> HIDE DEF m, n
<1> QED
  BY <1>1, <1>2, <1>3, <1>4 DEF MonitorsType

LEMMA NoticedType ==
    ASSUME StreamsType, MonitorsType, NEW s \in DOMAIN streams, Noticed(s)
    PROVE  monitors' \in [1 .. Len(streams) -> Monitor]
<1> DEFINE watching == IF streams[s].running /\ streams[s].process # "none"
                       THEN monitors[s]["watch"] ELSE 0
<1>1. s \in 1 .. Len(streams) /\ monitors[s] \in Monitor /\ monitors \in [1 .. Len(streams) -> Monitor]
  BY DomainIs DEF MonitorsType
<1>2. /\ monitors[s]["watch"] \in Nat /\ monitors[s]["ended"] \in Nat /\ monitors[s]["judge"] \in Nat
      /\ {"watch", "ended", "judge"} \subseteq MonitorStep
  BY <1>1 DEF Monitor, MonitorStep
<1>3. watching \in 0 .. monitors[s]["watch"]
  BY <1>2
<1>4. PICK ended \in 0 .. watching : \E judge \in 0 .. (watching - ended) :
         monitors' = [monitors EXCEPT ![s]["watch"] = @ - ended - judge,
                                      ![s]["ended"] = @ + ended, ![s]["judge"] = @ + judge]
  BY DEF Noticed
<1>5. PICK judge \in 0 .. (watching - ended) :
         monitors' = [monitors EXCEPT ![s]["watch"] = @ - ended - judge,
                                      ![s]["ended"] = @ + ended, ![s]["judge"] = @ + judge]
  BY <1>4
<1> HIDE DEF watching
<1> DEFINE m == [monitors[s] EXCEPT !["watch"] = @ - ended - judge]
           n == [m EXCEPT !["ended"] = @ + ended]
           o == [n EXCEPT !["judge"] = @ + judge]
<1>6. monitors[s]["watch"] - ended - judge \in Nat /\ ended \in Nat /\ judge \in Nat
  BY <1>2, <1>3, <1>4, <1>5
<1>7. m \in Monitor
  BY <1>1, <1>6 DEF Monitor
<1>8. n \in Monitor
  BY <1>2, <1>6, <1>7 DEF Monitor
<1>9. o \in Monitor
  BY <1>2, <1>6, <1>8 DEF Monitor
<1>10. monitors' = [[[monitors EXCEPT ![s] = m] EXCEPT ![s] = n] EXCEPT ![s] = o]
  <2>1. [monitors EXCEPT ![s] = m][s] = m
    BY <1>1
  <2>2. [[monitors EXCEPT ![s] = m] EXCEPT ![s] = n][s] = n
    BY <1>1
  <2>3. monitors' = [[[monitors EXCEPT ![s]["watch"] = @ - ended - judge]
                        EXCEPT ![s]["ended"] = @ + ended] EXCEPT ![s]["judge"] = @ + judge]
    BY <1>5
  <2>4. [monitors EXCEPT ![s]["watch"] = @ - ended - judge] = [monitors EXCEPT ![s] = m]
    OBVIOUS
  <2>5. [[monitors EXCEPT ![s] = m] EXCEPT ![s]["ended"] = @ + ended]
          = [[monitors EXCEPT ![s] = m] EXCEPT ![s] = n]
    <3> HIDE DEF m
    <3> QED
      BY <2>1
  <2> HIDE DEF m, n
  <2> QED
    BY <2>2, <2>3, <2>4, <2>5
<1> HIDE DEF m, n, o
<1> QED
  BY <1>1, <1>7, <1>8, <1>9, <1>10

---------------------------------------------------------------------------
(* The actions. *)

\* The stream objects stay; so does who has a watchdog, and the rebuild.
LEMMA SameObjects ==
    ASSUME IInv, SameStreams, monitors' \in [1 .. Len(streams) -> Monitor],
           watchdog' \in Seq([running : BOOLEAN, at : WatchdogStep]), Len(watchdog') = Len(watchdog),
           reconnect' \in [stream : 0 .. Len(streams), at : ReconnectStep], ReconnectHasStream',
           BoundsType', UNCHANGED <<current, rebuild, shutdown>>
    PROVE  IInv'
<1>1. Len(streams) \in Nat
  BY DomainIs DEF IInv
<1> QED
  BY <1>1 DEF IInv, SameStreams, StreamsType, MonitorsType, WatchdogType, ThreadsType, RebuildHasStream

\* The same, with restart_all where it was.
LEMMA SameThreads ==
    ASSUME IInv, SameStreams, monitors' \in [1 .. Len(streams) -> Monitor],
           watchdog' \in Seq([running : BOOLEAN, at : WatchdogStep]), Len(watchdog') = Len(watchdog),
           BoundsType', UNCHANGED <<current, reconnect, rebuild, shutdown>>
    PROVE  IInv'
<1>1. reconnect' \in [stream : 0 .. Len(streams), at : ReconnectStep] /\ ReconnectHasStream'
  BY DEF IInv, ThreadsType, ReconnectHasStream
<1> QED
  BY <1>1, SameObjects

StreamActs(s) == Die(s) \/ MonitorActs(s)

LEMMA MonitorsKeep ==
    ASSUME IInv, NEW s \in DOMAIN streams, StreamActs(s)
    PROVE  IInv'
<1>1. /\ StreamsType /\ MonitorsType /\ BoundsType
      /\ watchdog \in Seq([running : BOOLEAN, at : WatchdogStep])
  BY DEF IInv, WatchdogType
<1> DEFINE stream == streams[s]
<1>2. stream \in Stream
  BY <1>1, DomainIs
<1>3. MonitorStep = {"watch", "exited", "ended", "clear", "judge", "stop",
                     "check", "count", "forgo", "start"}
  BY DEF MonitorStep, RestartStep
<1>4. ASSUME UNCHANGED streams
      PROVE  SameStreams
  BY <1>1, <1>4 DEF SameStreams, StreamsType
<1>5. CASE Die(s)
  <2> DEFINE r == [stream EXCEPT !.process = "exited"]
  <2>1. r \in Stream
    <3> HIDE DEF stream
    <3> QED
      BY <1>2 DEF Stream
  <2>2. streams' = [streams EXCEPT ![s] = r]
    BY <1>5 DEF Die
  <2>3. BoundsType'
    <3>1. deaths > 0 /\ deaths' = deaths - 1 /\ UNCHANGED <<stuck, reconnects, events, shutdowns>>
      BY <1>5 DEF Die
    <3> HIDE DEF r, stream
    <3> QED
      BY <1>1, <3>1, BoundsAreNat DEF BoundsType
  <2> HIDE DEF r
  <2>4. SameStreams
    BY <1>1, <2>1, <2>2, Replaced
  <2> QED
    BY <1>1, <1>5, <2>3, <2>4, SameThreads DEF Die, threads, MonitorsType
<1>6. CASE MonitorLeaves(s)
  <2>1. monitors' \in [1 .. Len(streams) -> Monitor]
    BY <1>1, <1>3, <1>6, LeaveType DEF MonitorLeaves
  <2> QED
    BY <1>1, <1>4, <1>6, <2>1, SameThreads DEF MonitorLeaves, bounds, BoundsType
<1>7. CASE MonitorPolls(s) \/ MonitorReads(s) \/ MonitorJudges(s) \/ MonitorChecks(s)
  <2>1. monitors' \in [1 .. Len(streams) -> Monitor]
    <3>1. CASE MonitorPolls(s) \/ MonitorReads(s) \/ MonitorJudges(s)
      BY <1>1, <1>3, <3>1, LeaveType, GoesType DEF MonitorPolls, MonitorReads, MonitorJudges
    <3>2. CASE MonitorChecks(s)
      <4>1. Goes(s, "check", "count") \/ Goes(s, "check", "forgo")
        BY <3>2 DEF MonitorChecks, AfterCheck
      <4> QED
        BY <1>1, <1>3, <4>1, GoesType
    <3> QED
      BY <1>7, <3>1, <3>2
  <2>2. UNCHANGED <<streams, current, watchdog, reconnect, rebuild, shutdown, bounds>>
    BY <1>7 DEF MonitorPolls, MonitorReads, MonitorJudges, MonitorChecks
  <2> QED
    BY <1>1, <1>4, <2>1, <2>2, SameThreads DEF bounds, BoundsType
<1>8. CASE MonitorStopsRunning(s) \/ MonitorClears(s)
  <2>1. monitors' \in [1 .. Len(streams) -> Monitor]
    BY <1>1, <1>3, <1>8, GoesType DEF MonitorStopsRunning, MonitorClears
  <2>2. UNCHANGED <<current, watchdog, reconnect, rebuild, shutdown, bounds>>
    BY <1>8 DEF MonitorStopsRunning, MonitorClears
  <2>3. SameStreams
    <3> DEFINE q == [stream EXCEPT !.running = FALSE]
               r == [stream EXCEPT !.process = "none"]
    <3>1. q \in Stream /\ r \in Stream
      <4> HIDE DEF stream
      <4>1. q \in Stream
        BY <1>2 DEF Stream
      <4>2. r \in Stream
        BY <1>2 DEF Stream
      <4> QED
        BY <4>1, <4>2
    <3>2. streams' = [streams EXCEPT ![s] = q] \/ streams' = [streams EXCEPT ![s] = r]
      BY <1>8 DEF MonitorStopsRunning, MonitorClears
    <3> HIDE DEF q, r
    <3> QED
      BY <1>1, <3>1, <3>2, Replaced
  <2> QED
    BY <1>1, <2>1, <2>2, <2>3, SameThreads DEF bounds, BoundsType
<1>9. CASE MonitorStops(s)
  <2>1. monitors' \in [1 .. Len(streams) -> Monitor]
    BY <1>1, <1>3, <1>9, LeaveType, GoesType DEF MonitorStops
  <2>2. UNCHANGED <<current, watchdog, reconnect, rebuild, shutdown,
                    deaths, reconnects, events, shutdowns>>
    BY <1>9 DEF MonitorStops
  <2>3. SameStreams /\ stuck' \in 0 .. MaxStuck
    BY <1>1, <1>9, StopType DEF MonitorStops
  <2> QED
    BY <1>1, <2>1, <2>2, <2>3, SameThreads DEF BoundsType
<1>10. CASE MonitorStarts(s)
  <2>1. Leave(s, "start") \in [1 .. Len(streams) -> Monitor]
    BY <1>1, <1>3, <1>10, LeaveType DEF MonitorStarts
  <2>2. /\ SameStreams /\ monitors' \in [1 .. Len(streams) -> Monitor]
        /\ deaths' \in 0 .. MaxDeaths
    BY <1>1, <1>10, <2>1, StartType DEF MonitorStarts
  <2>3. UNCHANGED <<current, watchdog, reconnect, rebuild, shutdown,
                    stuck, reconnects, events, shutdowns>>
    BY <1>10 DEF MonitorStarts
  <2> QED
    BY <1>1, <2>2, <2>3, SameThreads DEF BoundsType
<1>11. CASE MonitorCounts(s) \/ MonitorGivesUp(s)
  <2>1. monitors' \in [1 .. Len(streams) -> Monitor]
    BY <1>1, <1>3, <1>11, LeaveType, GoesType DEF MonitorCounts, MonitorGivesUp
  <2>2. UNCHANGED <<current, watchdog, reconnect, rebuild, shutdown, bounds>>
    BY <1>11 DEF MonitorCounts, MonitorGivesUp
  <2>3. SameStreams
    BY <1>1, <1>11, AttemptsOnly DEF MonitorCounts, MonitorGivesUp
  <2> QED
    BY <1>1, <2>1, <2>2, <2>3, SameThreads DEF bounds, BoundsType
<1> QED
  BY <1>5, <1>6, <1>7, <1>8, <1>9, <1>10, <1>11 DEF StreamActs, MonitorActs

LEMMA WatchdogsKeep ==
    ASSUME IInv, NEW g \in DOMAIN watchdog, WatchdogActs(g)
    PROVE  IInv'
<1>1. /\ StreamsType /\ MonitorsType /\ BoundsType /\ WatchdogType
      /\ g \in DOMAIN streams /\ monitors \in [1 .. Len(streams) -> Monitor]
  BY DomainIs DEF IInv, WatchdogType, ThreadsType, MonitorsType
<1>2. ASSUME UNCHANGED streams
      PROVE  SameStreams
  BY <1>1, <1>2 DEF SameStreams, StreamsType
<1>3. ASSUME NEW from, NEW to \in WatchdogStep, WatchdogGoes(g, from, to)
      PROVE  /\ watchdog' \in Seq([running : BOOLEAN, at : WatchdogStep])
             /\ Len(watchdog') = Len(watchdog)
  <2> DEFINE r == [watchdog[g] EXCEPT !.at = to]
  <2>1. watchdog[g] \in [running : BOOLEAN, at : WatchdogStep]
    <3> DEFINE W == [running : BOOLEAN, at : WatchdogStep]
    <3>1. watchdog \in Seq(W)
      BY <1>1 DEF WatchdogType
    <3> HIDE DEF W
    <3>2. watchdog[g] \in W
      BY <3>1
    <3> QED
      BY <3>2 DEF W
  <2>2. r \in [running : BOOLEAN, at : WatchdogStep] /\ watchdog' = [watchdog EXCEPT ![g] = r]
    BY <1>3, <2>1 DEF WatchdogGoes
  <2> HIDE DEF r
  <2> QED
    BY <1>1, <2>2 DEF WatchdogType
<1>4. WatchdogStep = {"watch", "gone", "stop", "check", "count", "forgo", "start"}
  BY DEF WatchdogStep, RestartStep
<1>5. CASE WatchdogLeaves(g) \/ WatchdogChecks(g)
  <2>1. UNCHANGED <<streams, current, monitors, reconnect, rebuild, shutdown, bounds>>
    BY <1>5 DEF WatchdogLeaves, WatchdogChecks
  <2>2. /\ watchdog' \in Seq([running : BOOLEAN, at : WatchdogStep])
        /\ Len(watchdog') = Len(watchdog)
    BY <1>3, <1>4, <1>5 DEF WatchdogLeaves, WatchdogChecks
  <2> QED
    BY <1>1, <1>2, <2>1, <2>2, SameThreads DEF bounds, BoundsType
<1>6. CASE WatchdogStops(g)
  <2>1. UNCHANGED <<current, monitors, reconnect, rebuild, shutdown,
                    deaths, reconnects, events, shutdowns>>
    BY <1>6 DEF WatchdogStops
  <2>2. /\ watchdog' \in Seq([running : BOOLEAN, at : WatchdogStep])
        /\ Len(watchdog') = Len(watchdog)
    BY <1>3, <1>4, <1>6 DEF WatchdogStops
  <2>3. SameStreams /\ stuck' \in 0 .. MaxStuck
    BY <1>1, <1>6, StopType DEF WatchdogStops
  <2> QED
    BY <1>1, <2>1, <2>2, <2>3, SameThreads DEF BoundsType
<1>7. CASE WatchdogStarts(g)
  <2>1. UNCHANGED <<current, reconnect, rebuild, shutdown, stuck, reconnects, events, shutdowns>>
    BY <1>7 DEF WatchdogStarts
  <2>2. /\ watchdog' \in Seq([running : BOOLEAN, at : WatchdogStep])
        /\ Len(watchdog') = Len(watchdog)
    BY <1>3, <1>4, <1>7 DEF WatchdogStarts
  <2>3. /\ SameStreams /\ monitors' \in [1 .. Len(streams) -> Monitor]
        /\ deaths' \in 0 .. MaxDeaths
    BY <1>1, <1>7, StartType DEF WatchdogStarts
  <2> QED
    BY <1>1, <2>1, <2>2, <2>3, SameThreads DEF BoundsType
<1>8. CASE WatchdogCounts(g)
  <2>1. UNCHANGED <<current, monitors, reconnect, rebuild, shutdown, bounds>>
    BY <1>8 DEF WatchdogCounts
  <2>2. \E from, to \in WatchdogStep : WatchdogGoes(g, from, to)
    BY <1>4, <1>8 DEF WatchdogCounts, AfterCheck
  <2>3. /\ watchdog' \in Seq([running : BOOLEAN, at : WatchdogStep])
        /\ Len(watchdog') = Len(watchdog)
    BY <1>3, <2>2
  <2>4. SameStreams
    BY <1>1, <1>2, <1>8, AttemptsOnly DEF WatchdogCounts
  <2> QED
    BY <1>1, <2>1, <2>3, <2>4, SameThreads DEF bounds, BoundsType
<1> QED
  BY <1>5, <1>6, <1>7, <1>8 DEF WatchdogActs

\* What restart_all is about to do is about a stream object, and typed.
LEMMA ReconnectIs ==
    ASSUME IInv
    PROVE  /\ reconnect \in [stream : 0 .. Len(streams), at : ReconnectStep]
           /\ reconnect.stream \in 0 .. Len(streams)
           /\ reconnect.at # "idle" => reconnect.stream \in DOMAIN streams
           /\ NoReconnect \in [stream : 0 .. Len(streams), at : ReconnectStep]
<1>1. reconnect \in [stream : 0 .. Len(streams), at : ReconnectStep] /\ ReconnectHasStream
  BY DEF IInv, ThreadsType
<1>2. DOMAIN streams = 1 .. Len(streams) /\ Len(streams) \in Nat
  BY DomainIs DEF IInv
<1>3. NoReconnect \in [stream : 0 .. Len(streams), at : ReconnectStep]
  BY <1>2 DEF NoReconnect, NoStream, ReconnectStep
<1> QED
  BY <1>1, <1>2, <1>3 DEF ReconnectHasStream, NoStream

LEMMA ReconnectKeeps ==
    ASSUME IInv, ReconnectStops \/ ReconnectActs
    PROVE  IInv'
<1>1. /\ StreamsType /\ MonitorsType /\ BoundsType /\ ReconnectHasStream
      /\ watchdog \in Seq([running : BOOLEAN, at : WatchdogStep])
      /\ current \in 0 .. Len(streams)
      /\ monitors \in [1 .. Len(streams) -> Monitor]
  BY DEF IInv, WatchdogType, ThreadsType, MonitorsType
<1>2. DOMAIN streams = 1 .. Len(streams) /\ Len(streams) \in Nat
  BY <1>1, DomainIs
<1>3. CASE ReconnectStops
  <2>1. current \in DOMAIN streams /\ current # NoStream
    BY <1>1, <1>2, <1>3 DEF ReconnectStops, NoStream
  <2>2. SameStreams /\ stuck' \in 0 .. MaxStuck
    BY <1>1, <1>3, <2>1, StopType DEF ReconnectStops
  <2>3. monitors' \in [1 .. Len(streams) -> Monitor]
    BY <1>1, <1>3, <2>1, NoticedType DEF ReconnectStops
  <2>4. /\ reconnect' \in [stream : 0 .. Len(streams), at : ReconnectStep]
        /\ ReconnectHasStream'
    <3>1. CASE reconnect' = [stream |-> current, at |-> "reset"]
      BY <1>1, <2>1, <3>1 DEF ReconnectStep, ReconnectHasStream
    <3>2. CASE UNCHANGED reconnect
      BY <1>1, <3>2, ReconnectIs DEF ReconnectHasStream
    <3> QED
      BY <1>3, <3>1, <3>2 DEF ReconnectStops
  <2>5. reconnects' \in 0 .. MaxReconnects
    BY <1>1, <1>3, BoundsAreNat DEF ReconnectStops, BoundsType
  <2>6. UNCHANGED <<current, watchdog, rebuild, shutdown, deaths, events, shutdowns>>
    BY <1>3 DEF ReconnectStops
  <2> QED
    BY <1>1, <2>2, <2>3, <2>4, <2>5, <2>6, SameObjects DEF BoundsType
<1>4. CASE ReconnectResets
  <2>1. reconnect.stream \in DOMAIN streams /\ reconnect.at # "idle"
    BY <1>4, ReconnectIs DEF ReconnectResets
  <2>2. SameStreams
    BY <1>1, <1>4, <2>1, AttemptsOnly DEF ReconnectResets
  <2>3. /\ reconnect' \in [stream : 0 .. Len(streams), at : ReconnectStep]
        /\ ReconnectHasStream'
    BY <1>1, <1>4, <2>1, ReconnectIs DEF ReconnectResets, ReconnectHasStream, ReconnectStep
  <2>4. UNCHANGED <<current, monitors, watchdog, rebuild, shutdown, bounds>>
    BY <1>4 DEF ReconnectResets
  <2> QED
    BY <1>1, <2>2, <2>3, <2>4, SameObjects DEF bounds, BoundsType
<1>5. CASE ReconnectStarts
  <2>1. reconnect.stream \in DOMAIN streams
    BY <1>5, ReconnectIs DEF ReconnectStarts
  <2>2. /\ SameStreams /\ monitors' \in [1 .. Len(streams) -> Monitor]
        /\ deaths' \in 0 .. MaxDeaths
    BY <1>1, <1>5, <2>1, StartType DEF ReconnectStarts
  <2>3. /\ reconnect' \in [stream : 0 .. Len(streams), at : ReconnectStep]
        /\ ReconnectHasStream'
        /\ UNCHANGED <<current, watchdog, rebuild, shutdown, stuck, reconnects, events, shutdowns>>
    BY <1>5, ReconnectIs DEF ReconnectStarts, ReconnectHasStream, NoReconnect
  <2> QED
    BY <1>1, <2>2, <2>3, SameObjects DEF BoundsType
<1> QED
  BY <1>3, <1>4, <1>5 DEF ReconnectActs

\* stop_all only tells the watchdogs to end.
LEMMA ToldType ==
    ASSUME WatchdogType, Len(streams) \in Nat, WatchdogTold
    PROVE  /\ watchdog' \in Seq([running : BOOLEAN, at : WatchdogStep])
           /\ Len(watchdog') = Len(watchdog)
<1> DEFINE W == [running : BOOLEAN, at : WatchdogStep]
           told(g) == [watchdog[g] EXCEPT !.running = FALSE]
<1>1. /\ watchdog \in Seq(W) /\ DOMAIN watchdog = 1 .. Len(watchdog) /\ Len(watchdog) \in Nat
  BY DEF WatchdogType
<1>2. ASSUME NEW g \in 1 .. Len(watchdog)
      PROVE  told(g) \in W
  <2> HIDE DEF W
  <2>1. watchdog[g] \in W
    BY <1>1
  <2> QED
    BY <2>1 DEF W
<1>3. watchdog' = [g \in 1 .. Len(watchdog) |-> told(g)]
  BY <1>1 DEF WatchdogTold
<1> HIDE DEF W, told
<1>4. watchdog' \in [1 .. Len(watchdog) -> W]
  BY <1>2, <1>3
<1>5. watchdog' \in Seq(W) /\ Len(watchdog') = Len(watchdog)
  BY <1>1, <1>4
<1> QED
  BY <1>5 DEF W

LEMMA TellingKeeps ==
    ASSUME IInv, CameraEvent \/ ShutdownTellsWatchdog
    PROVE  IInv'
<1>1. /\ streams' = streams /\ WatchdogTold
      /\ UNCHANGED <<current, monitors, reconnect, deaths, stuck, reconnects>>
      /\ events' \in 0 .. MaxEvents /\ shutdowns' \in 0 .. 1
  BY BoundsAreNat DEF IInv, CameraEvent, ShutdownTellsWatchdog, BoundsType, bounds
<1>2. Len(streams) \in Nat
  BY DomainIs DEF IInv
<1>3. /\ watchdog' \in Seq([running : BOOLEAN, at : WatchdogStep])
      /\ Len(watchdog') = Len(watchdog)
  BY <1>1, <1>2, ToldType DEF IInv
<1>4. \/ rebuild' = "stop" /\ shutdown' = shutdown
      \/ rebuild' = rebuild /\ shutdown' = "stop"
  BY DEF CameraEvent, ShutdownTellsWatchdog
<1>5. StreamsType' /\ MonitorsType' /\ WatchdogType'
  BY <1>1, <1>3 DEF IInv, StreamsType, MonitorsType, WatchdogType
<1>6. ThreadsType' /\ BoundsType'
  BY <1>1, <1>4 DEF IInv, ThreadsType, BoundsType, RebuildStep, ShutdownStep
<1>7. RebuildHasStream' /\ ReconnectHasStream'
  BY <1>1, <1>3, <1>4 DEF IInv, RebuildHasStream, ReconnectHasStream
<1> QED
  BY <1>5, <1>6, <1>7 DEF IInv

LEMMA RebuildKeeps ==
    ASSUME IInv, RebuildActs
    PROVE  IInv'
<1>1. /\ StreamsType /\ MonitorsType /\ BoundsType /\ ThreadsType
      /\ RebuildHasStream /\ ReconnectHasStream
      /\ watchdog \in Seq([running : BOOLEAN, at : WatchdogStep])
      /\ Len(watchdog) <= Len(streams) /\ Len(watchdog) \in Nat
      /\ current \in 0 .. Len(streams)
      /\ monitors \in [1 .. Len(streams) -> Monitor]
  BY DEF IInv, WatchdogType, ThreadsType, MonitorsType
<1>2. DOMAIN streams = 1 .. Len(streams) /\ Len(streams) \in Nat
  BY <1>1, DomainIs
<1>3. CASE RebuildStops
  <2>1. /\ UNCHANGED <<current, monitors, watchdog, reconnect, shutdown,
                       deaths, reconnects, events, shutdowns>>
        /\ rebuild' \in {"idle", "initialize"}
    BY <1>3 DEF RebuildStops
  <2>2. SameStreams /\ stuck' \in 0 .. MaxStuck
    <3>1. CASE UNCHANGED <<streams, stuck>>
      BY <1>1, <3>1 DEF SameStreams, StreamsType, BoundsType
    <3>2. CASE current # NoStream /\ (Stop(current) \/ StopRaises(current))
      <4>1. current \in DOMAIN streams
        BY <1>1, <1>2, <3>2 DEF NoStream
      <4> QED
        BY <1>1, <3>2, <4>1, StopType
    <3> QED
      BY <1>3, <3>1, <3>2 DEF RebuildStops
  <2> QED
    BY <1>1, <2>1, <2>2 DEF IInv, SameStreams, StreamsType, MonitorsType, WatchdogType,
         ThreadsType, BoundsType, RebuildHasStream, ReconnectHasStream, RebuildStep
<1>4. CASE RebuildInitializes
  <2>1. UNCHANGED <<watchdog, reconnect, shutdown, bounds>>
    BY <1>4 DEF RebuildInitializes
  <2>2. WatchdogType /\ BoundsType'
    BY <1>1, <2>1 DEF IInv, bounds, BoundsType
  <2>3. CASE /\ current' = NoStream /\ rebuild' = "idle" /\ UNCHANGED <<streams, monitors>>
    BY <1>1, <1>2, <2>1, <2>2, <2>3 DEF IInv, StreamsType, MonitorsType, WatchdogType,
         ThreadsType, RebuildHasStream, ReconnectHasStream, RebuildStep, NoStream
  <2>4. CASE /\ current' = Len(streams) + 1 /\ rebuild' = "start"
             /\ streams' = Append(streams, NewStream)
             /\ monitors' = Append(monitors, NoMonitors)
    <3>1. NewStream \in Stream /\ NoMonitors \in Monitor
      BY BoundsAreNat DEF NewStream, Stream, NoMonitors, Monitor
    <3>2. StreamsType' /\ Len(streams') = Len(streams) + 1
      BY <1>1, <2>4, <3>1 DEF StreamsType
    <3>3. MonitorsType'
      <4>1. monitors \in Seq(Monitor) /\ Len(monitors) = Len(streams)
        BY <1>1, <1>2
      <4>2. monitors' \in Seq(Monitor) /\ Len(monitors') = Len(streams) + 1
        BY <1>2, <2>4, <3>1, <4>1
      <4> QED
        BY <3>2, <4>2 DEF MonitorsType
    <3>4. WatchdogType' /\ ThreadsType' /\ RebuildHasStream' /\ ReconnectHasStream'
      BY <1>1, <1>2, <2>1, <2>4, <3>2 DEF WatchdogType, ThreadsType, RebuildHasStream,
           ReconnectHasStream, RebuildStep, NoStream
    <3> QED
      BY <2>2, <3>2, <3>3, <3>4 DEF IInv
  <2> QED
    BY <1>4, <2>3, <2>4 DEF RebuildInitializes
<1>5. CASE RebuildStarts
  <2>1. current \in DOMAIN streams
    BY <1>1, <1>2, <1>5 DEF RebuildStarts, RebuildHasStream, NoStream
  <2>3. /\ SameStreams /\ monitors' \in [1 .. Len(streams) -> Monitor]
        /\ deaths' \in 0 .. MaxDeaths
    BY <1>1, <1>5, <2>1, StartType DEF RebuildStarts
  <2>4. /\ rebuild = "start" /\ rebuild' = "watchdog"
        /\ UNCHANGED <<current, watchdog, reconnect, shutdown,
                       stuck, reconnects, events, shutdowns>>
    BY <1>5 DEF RebuildStarts
  <2> QED
    BY <1>1, <2>3, <2>4 DEF IInv, SameStreams, StreamsType, MonitorsType, WatchdogType,
         ThreadsType, BoundsType, RebuildHasStream, ReconnectHasStream, RebuildStep
<1>6. CASE RebuildWatches
  <2>1. /\ rebuild = "watchdog" /\ rebuild' = "idle" /\ watchdog' = Append(watchdog, Watchdog)
        /\ UNCHANGED <<streams, current, monitors, reconnect, shutdown, bounds>>
    BY <1>6 DEF RebuildWatches
  <2>2. Watchdog \in [running : BOOLEAN, at : WatchdogStep]
    BY DEF Watchdog, WatchdogStep
  <2>3. WatchdogType'
    <3>1. Len(watchdog) < Len(streams)
      BY <1>1, <2>1 DEF RebuildHasStream
    <3>2. /\ watchdog' \in Seq([running : BOOLEAN, at : WatchdogStep])
          /\ Len(watchdog') = Len(watchdog) + 1
      BY <1>1, <2>1, <2>2
    <3> QED
      BY <1>1, <1>2, <2>1, <3>1, <3>2 DEF WatchdogType
  <2> QED
    BY <1>1, <2>1, <2>3 DEF IInv, StreamsType, MonitorsType, ThreadsType, BoundsType, bounds,
         RebuildHasStream, ReconnectHasStream, RebuildStep
<1> QED
  BY <1>3, <1>4, <1>5, <1>6 DEF RebuildActs

LEMMA ShutdownKeeps ==
    ASSUME IInv, ShutdownStops
    PROVE  IInv'
<1>1. /\ shutdown' = "exited"
      /\ UNCHANGED <<current, monitors, watchdog, reconnect, rebuild,
                     deaths, reconnects, events, shutdowns>>
  BY DEF ShutdownStops
<1>2. StreamsType /\ BoundsType /\ current \in 0 .. Len(streams)
  BY DEF IInv, ThreadsType
<1>3. SameStreams /\ stuck' \in 0 .. MaxStuck
  <2>1. CASE UNCHANGED <<streams, stuck>>
    BY <1>2, <2>1 DEF SameStreams, StreamsType, BoundsType
  <2>2. CASE current # NoStream /\ (Stop(current) \/ StopRaises(current))
    <3>1. current \in DOMAIN streams
      BY <1>2, <2>2, DomainIs DEF NoStream
    <3> QED
      BY <1>2, <2>2, <3>1, StopType
  <2> QED
    BY <2>1, <2>2 DEF ShutdownStops
<1> QED
  BY <1>1, <1>3 DEF IInv, SameStreams, StreamsType, MonitorsType, WatchdogType,
       ThreadsType, BoundsType, RebuildHasStream, ReconnectHasStream, ShutdownStep

---------------------------------------------------------------------------

LEMMA IInvInit == Init => IInv
<1> SUFFICES ASSUME Init
             PROVE  IInv
  OBVIOUS
<1> DEFINE r == [NewStream EXCEPT !.running = TRUE, !.process = "alive"]
           m == [NoMonitors EXCEPT !["watch"] = 1]
<1>1. r \in Stream /\ m \in Monitor
  <2> DEFINE q == [NewStream EXCEPT !.running = TRUE]
  <2>1. q \in Stream /\ r = [q EXCEPT !.process = "alive"]
    <3>1. NewStream \in Stream
      BY BoundsAreNat DEF NewStream, Stream
    <3> QED
      BY <3>1 DEF Stream
  <2> HIDE DEF q, r
  <2>2. r \in Stream
    BY <2>1 DEF Stream
  <2>3. m \in Monitor
    <3>1. NoMonitors \in Monitor
      BY DEF NoMonitors, Monitor
    <3> QED
      BY <3>1 DEF Monitor
  <2> QED
    BY <2>2, <2>3
<1>2. Watchdog \in [running : BOOLEAN, at : WatchdogStep]
  BY DEF Watchdog, WatchdogStep
<1>3. streams = <<r>> /\ monitors = <<m>> /\ watchdog = <<Watchdog>> /\ current = 1
  BY DEF Init
<1> HIDE DEF r, m
<1>4. StreamsType /\ Len(streams) = 1
  BY <1>1, <1>3 DEF StreamsType
<1>5. MonitorsType
  BY <1>1, <1>3, <1>4 DEF MonitorsType
<1>6. WatchdogType
  BY <1>2, <1>3, <1>4 DEF WatchdogType
<1>7. ThreadsType /\ BoundsType /\ RebuildHasStream /\ ReconnectHasStream
  BY <1>3, <1>4, BoundsAreNat DEF Init, ThreadsType, BoundsType, RebuildHasStream,
       ReconnectHasStream, RebuildStep, ReconnectStep, ShutdownStep, NoReconnect, NoStream
<1> QED
  BY <1>4, <1>5, <1>6, <1>7 DEF IInv

LEMMA IInvNext == IInv /\ [Next]_vars => IInv'
<1> SUFFICES ASSUME IInv, [Next]_vars
             PROVE  IInv'
  OBVIOUS
<1>1. CASE UNCHANGED vars
  BY <1>1 DEF vars, threads, bounds, IInv, StreamsType, MonitorsType, WatchdogType, ThreadsType,
       BoundsType, RebuildHasStream, ReconnectHasStream
<1>2. CASE Next
  BY <1>1, <1>2, MonitorsKeep, WatchdogsKeep, ReconnectKeeps, TellingKeeps, RebuildKeeps, ShutdownKeeps
     DEF Next, StreamActs, Exited
<1> QED
  BY <1>1, <1>2

\* StreamProcess, StreamWatchdog, HotPlugMonitor and the reconnection keep every field typed, and
\* however many camera events come, there are never more watchdogs than stream objects.
THEOREM StreamTypeCorrect == Spec => []TypeOK
<1>1. IInv => TypeOK
  <2> SUFFICES ASSUME IInv
               PROVE  TypeOK
    OBVIOUS
  <2>1. streams \in Seq([running : BOOLEAN, process : {"none", "alive", "exited"},
                        attempts : Nat, stopRequested : BOOLEAN])
    BY DEF IInv, StreamsType, Stream
  <2>2. monitors \in [DOMAIN streams -> [MonitorStep -> Nat]]
    BY DEF IInv, StreamsType, MonitorsType, Monitor
  <2>3. watchdog \in Seq([running : BOOLEAN, at : WatchdogStep]) /\ Len(watchdog) <= Len(streams)
    BY DEF IInv, WatchdogType
  <2> QED
    BY <2>1, <2>2, <2>3 DEF IInv, ThreadsType, BoundsType, TypeOK
<1>2. Spec => []IInv
  BY IInvInit, IInvNext, PTL DEF Spec
<1> QED
  BY <1>1, <1>2, PTL

---------------------------------------------------------------------------
(* What the races of monitors, watchdog, reconnection and rebuild cannot do. *)

\* An ffmpeg that the stream takes to be running is watched by a monitor thread; one that has
\* exited meanwhile, by a monitor that has not yet told the stream.
AttendedAt(s) ==
    streams[s].running =>
        /\ streams[s].process = "alive" => monitors[s]["watch"] > 0
        /\ streams[s].process = "exited" =>
              monitors[s]["watch"] > 0 \/ monitors[s]["exited"] > 0 \/ monitors[s]["ended"] > 0

Attended == \A s \in DOMAIN streams : AttendedAt(s)

\* A step about stream s leaves the other streams and their monitors alone.
OnlyAt(s) ==
    /\ SameStreams
    /\ \A t \in DOMAIN streams : t # s => streams'[t] = streams[t] /\ monitors'[t] = monitors[t]

LEMMA AttendedLocally ==
    ASSUME StreamsType, Attended, NEW s \in DOMAIN streams, OnlyAt(s), AttendedAt(s)'
    PROVE  Attended'
<1>1. DOMAIN streams' = DOMAIN streams
  BY DEF StreamsType, OnlyAt, SameStreams
<1>2. ASSUME NEW t \in DOMAIN streams, t # s
      PROVE  AttendedAt(t)'
  BY <1>2 DEF OnlyAt, Attended, AttendedAt
<1> QED
  BY <1>1, <1>2 DEF Attended

\* A step that replaces stream s, and what its monitors are about to do.
LEMMA OnlyReplaced ==
    ASSUME StreamsType, MonitorsType, NEW s \in DOMAIN streams, NEW r, NEW m, SameStreams,
           streams' = [streams EXCEPT ![s] = r], monitors' = [monitors EXCEPT ![s] = m]
    PROVE  OnlyAt(s) /\ streams'[s] = r /\ monitors'[s] = m
<1>1. DOMAIN streams = 1 .. Len(streams) /\ DOMAIN monitors = 1 .. Len(streams)
  BY DEF StreamsType, MonitorsType
<1> QED
  BY <1>1 DEF OnlyAt

LEMMA GoesCounts ==
    ASSUME StreamsType, MonitorsType, NEW s \in DOMAIN streams,
           NEW from \in MonitorStep, NEW to \in MonitorStep, from # to, Goes(s, from, to)
    PROVE  /\ \E m : monitors' = [monitors EXCEPT ![s] = m]
           /\ monitors'[s][to] = monitors[s][to] + 1
           /\ \A step \in MonitorStep \ {from, to} : monitors'[s][step] = monitors[s][step]
<1> DEFINE m == [monitors[s] EXCEPT ![from] = @ - 1]
           n == [m EXCEPT ![to] = @ + 1]
<1>1. s \in 1 .. Len(streams) /\ monitors[s] \in Monitor /\ DOMAIN monitors = 1 .. Len(streams)
  BY DomainIs DEF MonitorsType
<1>2. monitors' = [monitors EXCEPT ![s] = n]
  <2>1. monitors' = [[monitors EXCEPT ![s][from] = @ - 1] EXCEPT ![s][to] = @ + 1]
    BY DEF Goes
  <2>2. [monitors EXCEPT ![s][from] = @ - 1] = [monitors EXCEPT ![s] = m]
    OBVIOUS
  <2>3. [monitors EXCEPT ![s] = m][s] = m
    BY <1>1
  <2>4. monitors' = [[monitors EXCEPT ![s] = m] EXCEPT ![s] = n]
    <3> HIDE DEF m
    <3> QED
      BY <2>1, <2>2, <2>3
  <2> HIDE DEF m, n
  <2> QED
    BY <1>1, <2>4
<1>3. DOMAIN monitors[s] = MonitorStep
  BY <1>1 DEF Monitor
<1>4. /\ n[to] = monitors[s][to] + 1
      /\ \A step \in MonitorStep \ {from, to} : n[step] = monitors[s][step]
  <2>1. DOMAIN m = MonitorStep /\ m[to] = monitors[s][to]
    BY <1>3
  <2>2. \A step \in MonitorStep \ {from, to} : m[step] = monitors[s][step]
    BY <1>3
  <2> HIDE DEF m
  <2> QED
    BY <2>1, <2>2
<1> HIDE DEF n
<1>5. monitors'[s] = n
  BY <1>1, <1>2
<1> QED
  BY <1>2, <1>4, <1>5

LEMMA LeaveCounts ==
    ASSUME StreamsType, MonitorsType, NEW s \in DOMAIN streams, NEW step \in MonitorStep
    PROVE  /\ \E m : Leave(s, step) = [monitors EXCEPT ![s] = m]
           /\ \A other \in MonitorStep \ {step} : Leave(s, step)[s][other] = monitors[s][other]
<1> DEFINE m == [monitors[s] EXCEPT ![step] = @ - 1]
<1>1. s \in 1 .. Len(streams) /\ monitors[s] \in Monitor /\ DOMAIN monitors = 1 .. Len(streams)
  BY DomainIs DEF MonitorsType
<1>2. Leave(s, step) = [monitors EXCEPT ![s] = m]
  BY DEF Leave
<1>3. \A other \in MonitorStep \ {step} : m[other] = monitors[s][other]
  BY <1>1 DEF Monitor
<1> HIDE DEF m
<1>4. Leave(s, step)[s] = m
  BY <1>1, <1>2
<1> QED
  BY <1>2, <1>3, <1>4

\* A stream that has been stopped needs nobody.
LEMMA StopAttends ==
    ASSUME StreamsType, NEW s \in DOMAIN streams, Stop(s) \/ StopRaises(s)
    PROVE  AttendedAt(s)' /\ \E r : streams' = [streams EXCEPT ![s] = r]
<1> DEFINE r == Stopped(streams[s])
<1>1. streams' = [streams EXCEPT ![s] = r]
  BY DEF Stop, StopRaises
<1>2. r.running = FALSE
  BY DomainIs DEF Stopped, Stream
<1> HIDE DEF r
<1>3. streams'[s].running = FALSE
  BY <1>1, <1>2 DEF StreamsType
<1> QED
  BY <1>1, <1>3 DEF AttendedAt

\* What the monitors that go on are about to do.
Left(s, left) ==
    /\ left \in [1 .. Len(streams) -> Monitor]
    /\ \A t \in DOMAIN streams : t # s => left[t] = monitors[t]
    /\ \A step \in {"watch", "exited", "ended"} : left[s][step] = monitors[s][step]

\* A process comes with its monitor, and a stream that runs keeps its own.
LEMMA StartAttends ==
    ASSUME StreamsType, BoundsType, MonitorsType, Attended, NEW s \in DOMAIN streams,
           NEW left, Left(s, left), Start(s, left)
    PROVE  OnlyAt(s) /\ AttendedAt(s)'
<1>1. /\ streams[s] \in Stream /\ s \in 1 .. Len(streams) /\ DOMAIN streams = 1 .. Len(streams)
      /\ SameStreams /\ DOMAIN left = 1 .. Len(streams) /\ left[s] \in Monitor
  BY DomainIs, StartType DEF Left
<1>2. CASE streams[s].running /\ streams' = streams /\ monitors' = left
  <2>1. OnlyAt(s)
    BY <1>1, <1>2 DEF OnlyAt, Left
  <2>2. /\ monitors'[s]["watch"] = monitors[s]["watch"]
        /\ monitors'[s]["exited"] = monitors[s]["exited"]
        /\ monitors'[s]["ended"] = monitors[s]["ended"]
    BY <1>2 DEF Left
  <2>3. AttendedAt(s)
    BY DEF Attended
  <2> QED
    BY <1>2, <2>1, <2>2, <2>3 DEF AttendedAt
<1>3. CASE /\ streams' = [streams EXCEPT ![s] = [@ EXCEPT !.running = TRUE, !.process = "alive",
                                                          !.stopRequested = FALSE]]
           /\ monitors' = [left EXCEPT ![s]["watch"] = @ + 1]
  <2>1. OnlyAt(s)
    BY <1>1, <1>3 DEF OnlyAt, Left
  <2>2. streams'[s].process = "alive"
    BY <1>1, <1>3 DEF Stream
  <2>3. monitors'[s]["watch"] = left[s]["watch"] + 1 /\ left[s]["watch"] \in Nat
    BY <1>1, <1>3 DEF Monitor, MonitorStep
  <2> QED
    BY <2>1, <2>2, <2>3 DEF AttendedAt
<1>4. CASE /\ ~streams[s].running
           /\ streams' = [streams EXCEPT ![s] = [@ EXCEPT !.process = "none", !.stopRequested = FALSE]]
           /\ monitors' = left
  <2>1. OnlyAt(s)
    BY <1>1, <1>4 DEF OnlyAt, Left
  <2>2. streams'[s].process = "none"
    BY <1>1, <1>4 DEF Stream
  <2> QED
    BY <2>1, <2>2 DEF AttendedAt
<1> QED
  BY <1>2, <1>3, <1>4 DEF Start

\* A change of the attempts alone concerns no monitor.
LEMMA AttemptsAttend ==
    ASSUME StreamsType, MonitorsType, Attended, NEW s \in DOMAIN streams,
           Count(s) \/ GiveUp(s) \/ SetAttempts(s, 0),
           \E m : monitors' = [monitors EXCEPT ![s] = m],
           monitors'[s]["watch"] = monitors[s]["watch"],
           monitors'[s]["exited"] = monitors[s]["exited"],
           monitors'[s]["ended"] = monitors[s]["ended"]
    PROVE  OnlyAt(s) /\ AttendedAt(s)'
<1>1. /\ SameStreams
      /\ \E r : streams' = [streams EXCEPT ![s] = r]
      /\ streams'[s].running = streams[s].running
      /\ streams'[s].process = streams[s].process
  BY AttemptsOnly
<1>2. OnlyAt(s)
  BY <1>1, OnlyReplaced
<1>3. AttendedAt(s)
  BY DEF Attended
<1> QED
  BY <1>1, <1>2, <1>3 DEF AttendedAt

LEMMA MonitorsLeft ==
    ASSUME StreamsType, MonitorsType, NEW s \in DOMAIN streams
    PROVE  /\ Left(s, monitors)
           /\ monitors[s]["start"] > 0 => Left(s, Leave(s, "start"))
<1>1. Left(s, monitors)
  BY DEF Left, MonitorsType
<1>2. ASSUME monitors[s]["start"] > 0
      PROVE  Left(s, Leave(s, "start"))
  <2>1. "start" \in MonitorStep /\ {"watch", "exited", "ended"} \subseteq MonitorStep \ {"start"}
    BY DEF MonitorStep, RestartStep
  <2>2. Leave(s, "start") \in [1 .. Len(streams) -> Monitor]
    BY <1>2, <2>1, LeaveType
  <2>3. PICK m : Leave(s, "start") = [monitors EXCEPT ![s] = m]
    BY <2>1, LeaveCounts
  <2>4. \A t \in DOMAIN streams : t # s => Leave(s, "start")[t] = monitors[t]
    BY <2>3, DomainIs DEF MonitorsType
  <2>5. \A step \in {"watch", "exited", "ended"} : Leave(s, "start")[s][step] = monitors[s][step]
    BY <2>1, LeaveCounts
  <2> QED
    BY <2>2, <2>4, <2>5 DEF Left
<1> QED
  BY <1>1, <1>2

LEMMA NoticedCounts ==
    ASSUME StreamsType, MonitorsType, NEW s \in DOMAIN streams, Noticed(s)
    PROVE  \E m : monitors' = [monitors EXCEPT ![s] = m]
<1>1. DOMAIN monitors = 1 .. Len(streams) /\ s \in DOMAIN monitors
  BY DomainIs DEF MonitorsType
<1>2. PICK ended, judge :
         monitors' = [monitors EXCEPT ![s]["watch"] = @ - ended - judge,
                                      ![s]["ended"] = @ + ended, ![s]["judge"] = @ + judge]
  BY DEF Noticed
<1>3. monitors' = [monitors EXCEPT ![s] = monitors'[s]]
  <2> DEFINE o == [monitors EXCEPT ![s] = monitors'[s]]
  <2>1. DOMAIN monitors' = DOMAIN monitors /\ DOMAIN o = DOMAIN monitors
    BY <1>2
  <2>2. \A t \in DOMAIN monitors : monitors'[t] = o[t]
    BY <1>1, <1>2
  <2>3. monitors' = [t \in DOMAIN monitors |-> monitors'[t]] /\ o = [t \in DOMAIN monitors |-> o[t]]
    BY <1>2
  <2> HIDE DEF o
  <2> QED
    BY <2>1, <2>2, <2>3 DEF o
<1> QED
  BY <1>3

LEMMA MonitorsAttend ==
    ASSUME IInv, Attended, NEW s \in DOMAIN streams, StreamActs(s)
    PROVE  Attended'
<1>1. /\ StreamsType /\ MonitorsType /\ BoundsType /\ IInv' /\ streams[s] \in Stream
      /\ s \in 1 .. Len(streams) /\ DOMAIN streams = 1 .. Len(streams)
      /\ DOMAIN monitors = 1 .. Len(streams) /\ monitors[s] \in Monitor
  BY MonitorsKeep, DomainIs DEF IInv, MonitorsType
<1>2. MonitorStep = {"watch", "exited", "ended", "clear", "judge", "stop",
                     "check", "count", "forgo", "start"}
  BY DEF MonitorStep, RestartStep
<1>3. /\ monitors[s]["watch"] \in Nat /\ monitors[s]["exited"] \in Nat
      /\ monitors[s]["ended"] \in Nat
  BY <1>1, <1>2 DEF Monitor
<1>4. AttendedAt(s)
  BY DEF Attended
<1> SUFFICES OnlyAt(s) /\ AttendedAt(s)'
  BY <1>1, AttendedLocally
<1>5. ASSUME UNCHANGED streams, NEW m, monitors' = [monitors EXCEPT ![s] = m]
      PROVE  OnlyAt(s)
  BY <1>1, <1>5 DEF OnlyAt, SameStreams, StreamsType
<1>6. ASSUME NEW r, streams' = [streams EXCEPT ![s] = r], streams' \in Seq(Stream),
             NEW m, monitors' = [monitors EXCEPT ![s] = m]
      PROVE  OnlyAt(s) /\ streams'[s] = r
  BY <1>1, <1>6 DEF OnlyAt, SameStreams, StreamsType
<1>7. streams' \in Seq(Stream)
  BY <1>1 DEF IInv, StreamsType
<1>8. CASE Die(s)
  <2> DEFINE r == [streams[s] EXCEPT !.process = "exited"]
  <2>1. /\ streams' = [streams EXCEPT ![s] = r] /\ streams[s].process = "alive"
        /\ monitors' = monitors
    BY <1>8 DEF Die, threads
  <2>2. r.running = streams[s].running /\ r.process = "exited"
    BY <1>1 DEF Stream
  <2>3. monitors' = [monitors EXCEPT ![s] = monitors[s]]
    BY <1>1, <2>1 DEF IInv, MonitorsType
  <2> HIDE DEF r
  <2>4. OnlyAt(s) /\ streams'[s] = r
    BY <1>6, <1>7, <2>1, <2>3
  <2> QED
    BY <1>4, <2>1, <2>2, <2>4 DEF AttendedAt
<1>9. CASE MonitorLeaves(s)
  <2>1. PICK step \in {"watch", "exited"} : monitors' = Leave(s, step)
    BY <1>9 DEF MonitorLeaves
  <2>2. /\ streams' = streams
        /\ ~streams[s].running \/ streams[s].process = "none"
    BY <1>9 DEF MonitorLeaves
  <2>3. \E m : monitors' = [monitors EXCEPT ![s] = m]
    BY <1>1, <1>2, <2>1, LeaveCounts
  <2> QED
    BY <1>5, <2>2, <2>3 DEF AttendedAt
<1>10. CASE MonitorPolls(s)
  <2>1. streams' = streams /\ streams[s].process = "exited" /\ Goes(s, "watch", "exited")
    BY <1>10 DEF MonitorPolls
  <2>2. /\ \E m : monitors' = [monitors EXCEPT ![s] = m]
        /\ monitors'[s]["exited"] = monitors[s]["exited"] + 1
    BY <1>1, <1>2, <2>1, GoesCounts
  <2>3. OnlyAt(s)
    BY <1>5, <2>1, <2>2
  <2> QED
    BY <1>3, <2>1, <2>2, <2>3 DEF AttendedAt
<1>11. CASE MonitorReads(s)
  <2>1. streams' = streams /\ streams[s].process = "exited" /\ Goes(s, "exited", "ended")
    BY <1>11 DEF MonitorReads
  <2>2. /\ \E m : monitors' = [monitors EXCEPT ![s] = m]
        /\ monitors'[s]["ended"] = monitors[s]["ended"] + 1
    BY <1>1, <1>2, <2>1, GoesCounts
  <2>3. OnlyAt(s)
    BY <1>5, <2>1, <2>2
  <2> QED
    BY <1>3, <2>1, <2>2, <2>3 DEF AttendedAt
<1>12. CASE MonitorStopsRunning(s) \/ MonitorClears(s)
  <2> DEFINE q == [streams[s] EXCEPT !.running = FALSE]
             r == [streams[s] EXCEPT !.process = "none"]
  <2>1. q.running = FALSE /\ r.process = "none"
    BY <1>1 DEF Stream
  <2>2. streams' = [streams EXCEPT ![s] = q] \/ streams' = [streams EXCEPT ![s] = r]
    BY <1>12 DEF MonitorStopsRunning, MonitorClears
  <2>3. \E m : monitors' = [monitors EXCEPT ![s] = m]
    BY <1>1, <1>2, <1>12, GoesCounts DEF MonitorStopsRunning, MonitorClears
  <2> HIDE DEF q, r
  <2>4. OnlyAt(s) /\ (streams'[s] = q \/ streams'[s] = r)
    BY <1>6, <1>7, <2>2, <2>3
  <2> QED
    BY <2>1, <2>4 DEF AttendedAt
<1>13. "judge" \in MonitorStep /\ {"watch", "exited", "ended"} \subseteq MonitorStep
  BY <1>2
<1>14. CASE MonitorJudges(s) \/ MonitorChecks(s)
  <2>1. streams' = streams
    BY <1>14 DEF MonitorJudges, MonitorChecks
  <2>2. \/ \E from, to \in MonitorStep \ {"watch", "exited", "ended"} :
              from # to /\ Goes(s, from, to)
        \/ monitors' = Leave(s, "judge")
    BY <1>2, <1>14 DEF MonitorJudges, MonitorChecks, AfterCheck
  <2>3. /\ \E m : monitors' = [monitors EXCEPT ![s] = m]
        /\ monitors'[s]["watch"] = monitors[s]["watch"]
        /\ monitors'[s]["exited"] = monitors[s]["exited"]
        /\ monitors'[s]["ended"] = monitors[s]["ended"]
    BY <1>1, <1>13, <2>2, GoesCounts, LeaveCounts
  <2> QED
    BY <1>4, <1>5, <2>1, <2>3 DEF AttendedAt
<1>15. CASE MonitorStops(s)
  <2>1. Stop(s) \/ StopRaises(s)
    BY <1>15 DEF MonitorStops
  <2>2. AttendedAt(s)' /\ \E r : streams' = [streams EXCEPT ![s] = r]
    BY <1>1, <2>1, StopAttends
  <2>3. \E m : monitors' = [monitors EXCEPT ![s] = m]
    BY <1>1, <1>2, <1>15, GoesCounts, LeaveCounts DEF MonitorStops
  <2> QED
    BY <1>6, <1>7, <2>2, <2>3
<1>16. CASE MonitorStarts(s)
  BY <1>1, <1>16, MonitorsLeft, StartAttends DEF MonitorStarts
<1>17. CASE MonitorCounts(s) \/ MonitorGivesUp(s)
  <2>1. Count(s) \/ GiveUp(s)
    BY <1>17 DEF MonitorCounts, MonitorGivesUp
  <2>2. Goes(s, "count", "start") \/ monitors' = Leave(s, "forgo")
    BY <1>17 DEF MonitorCounts, MonitorGivesUp
  <2>3. /\ \E m : monitors' = [monitors EXCEPT ![s] = m]
        /\ monitors'[s]["watch"] = monitors[s]["watch"]
        /\ monitors'[s]["exited"] = monitors[s]["exited"]
        /\ monitors'[s]["ended"] = monitors[s]["ended"]
    BY <1>1, <1>2, <1>13, <2>2, GoesCounts, LeaveCounts
  <2> QED
    BY <1>1, <2>1, <2>3, AttemptsAttend
<1> QED
  BY <1>8, <1>9, <1>10, <1>11, <1>12, <1>14, <1>15, <1>16, <1>17 DEF StreamActs, MonitorActs

\* A stream that is stopped, with whatever its monitors do about it.
LEMMA StoppedAttends ==
    ASSUME StreamsType, MonitorsType, BoundsType, Attended, NEW s \in DOMAIN streams,
           Stop(s) \/ StopRaises(s), \E m : monitors' = [monitors EXCEPT ![s] = m]
    PROVE  Attended'
<1>1. SameStreams /\ AttendedAt(s)'
  BY StopType, StopAttends
<1>2. PICK r : streams' = [streams EXCEPT ![s] = r]
  BY StopAttends
<1>3. PICK m : monitors' = [monitors EXCEPT ![s] = m]
  OBVIOUS
<1>4. OnlyAt(s)
  BY <1>1, <1>2, <1>3, OnlyReplaced
<1> QED
  BY <1>1, <1>4, AttendedLocally

LEMMA SameMonitors ==
    ASSUME MonitorsType, NEW s, UNCHANGED monitors
    PROVE  \E m : monitors' = [monitors EXCEPT ![s] = m]
<1>1. monitors' = [monitors EXCEPT ![s] = monitors[s]]
  BY DEF MonitorsType
<1> QED
  BY <1>1

LEMMA WatchdogsAttend ==
    ASSUME IInv, Attended, NEW g \in DOMAIN watchdog, WatchdogActs(g)
    PROVE  Attended'
<1>1. StreamsType /\ MonitorsType /\ BoundsType /\ g \in DOMAIN streams
  BY DomainIs DEF IInv, WatchdogType
<1>2. CASE WatchdogLeaves(g) \/ WatchdogChecks(g)
  BY <1>2 DEF WatchdogLeaves, WatchdogChecks, Attended, AttendedAt
<1>3. CASE WatchdogStops(g)
  BY <1>1, <1>3, StoppedAttends, SameMonitors DEF WatchdogStops
<1>4. CASE WatchdogStarts(g)
  BY <1>1, <1>4, MonitorsLeft, StartAttends, AttendedLocally DEF WatchdogStarts
<1>5. CASE WatchdogCounts(g)
  <2>1. UNCHANGED monitors
    BY <1>5 DEF WatchdogCounts
  <2>2. UNCHANGED streams \/ Count(g) \/ GiveUp(g)
    BY <1>5 DEF WatchdogCounts
  <2>3. CASE UNCHANGED streams
    BY <2>1, <2>3 DEF Attended, AttendedAt
  <2>4. CASE Count(g) \/ GiveUp(g)
    BY <1>1, <2>1, <2>4, SameMonitors, AttemptsAttend, AttendedLocally
  <2> QED
    BY <2>2, <2>3, <2>4
<1> QED
  BY <1>2, <1>3, <1>4, <1>5 DEF WatchdogActs

LEMMA ReconnectAttends ==
    ASSUME IInv, Attended, ReconnectStops \/ ReconnectActs
    PROVE  Attended'
<1>1. /\ StreamsType /\ MonitorsType /\ BoundsType
      /\ current \in 0 .. Len(streams)
      /\ DOMAIN streams = 1 .. Len(streams) /\ Len(streams) \in Nat
  BY DomainIs DEF IInv, ThreadsType
<1>2. CASE ReconnectStops
  <2>1. current \in DOMAIN streams
    BY <1>1, <1>2 DEF ReconnectStops, NoStream
  <2>2. Stop(current) \/ StopRaises(current)
    BY <1>2 DEF ReconnectStops
  <2>3. Noticed(current) \/ UNCHANGED monitors
    BY <1>2 DEF ReconnectStops
  <2>4. Noticed(current) => \E m : monitors' = [monitors EXCEPT ![current] = m]
    BY <1>1, <2>1, NoticedCounts
  <2> QED
    BY <1>1, <2>1, <2>2, <2>3, <2>4, StoppedAttends, SameMonitors
<1>3. CASE ReconnectResets
  <2>1. reconnect.stream \in DOMAIN streams /\ UNCHANGED monitors
    BY <1>3, ReconnectIs DEF ReconnectResets
  <2>2. SetAttempts(reconnect.stream, 0)
    BY <1>3 DEF ReconnectResets
  <2> QED
    BY <1>1, <2>1, <2>2, SameMonitors, AttemptsAttend, AttendedLocally
<1>4. CASE ReconnectStarts
  <2>1. reconnect.stream \in DOMAIN streams
    BY <1>4, ReconnectIs DEF ReconnectStarts
  <2>2. Start(reconnect.stream, monitors)
    BY <1>4 DEF ReconnectStarts
  <2> QED
    BY <1>1, <2>1, <2>2, MonitorsLeft, StartAttends, AttendedLocally
<1> QED
  BY <1>2, <1>3, <1>4 DEF ReconnectActs

LEMMA RebuildAttends ==
    ASSUME IInv, Attended, RebuildActs \/ ShutdownStops
    PROVE  Attended'
<1>1. /\ StreamsType /\ MonitorsType /\ BoundsType /\ RebuildHasStream
      /\ current \in 0 .. Len(streams)
      /\ DOMAIN streams = 1 .. Len(streams) /\ Len(streams) \in Nat
  BY DomainIs DEF IInv, ThreadsType
<1>2. CASE RebuildStops \/ ShutdownStops
  <2>1. UNCHANGED monitors
    BY <1>2 DEF RebuildStops, ShutdownStops
  <2>2. UNCHANGED streams \/ (current # NoStream /\ (Stop(current) \/ StopRaises(current)))
    <3>1. CASE RebuildStops
      BY <3>1 DEF RebuildStops
    <3>2. CASE ShutdownStops
      BY <3>2 DEF ShutdownStops
    <3> QED
      BY <1>2, <3>1, <3>2
  <2>3. CASE UNCHANGED streams
    BY <2>1, <2>3 DEF Attended, AttendedAt
  <2>4. CASE current # NoStream /\ (Stop(current) \/ StopRaises(current))
    BY <1>1, <2>1, <2>4, StoppedAttends, SameMonitors DEF NoStream
  <2> QED
    BY <2>2, <2>3, <2>4
<1>3. CASE RebuildInitializes
  <2>1. CASE UNCHANGED <<streams, monitors>>
    BY <2>1 DEF Attended, AttendedAt
  <2>2. CASE streams' = Append(streams, NewStream) /\ monitors' = Append(monitors, NoMonitors)
    <3>1. monitors \in Seq(Monitor) /\ Len(monitors) = Len(streams)
      BY <1>1 DEF MonitorsType
    <3>2. /\ DOMAIN streams' = 1 .. Len(streams) + 1
          /\ \A s \in DOMAIN streams : streams'[s] = streams[s] /\ monitors'[s] = monitors[s]
          /\ streams'[Len(streams) + 1] = NewStream
      BY <1>1, <2>2, <3>1 DEF StreamsType
    <3>3. NewStream.running = FALSE
      BY DEF NewStream
    <3>4. ASSUME NEW s \in DOMAIN streams'
          PROVE  AttendedAt(s)'
      <4>1. CASE s \in DOMAIN streams
        BY <3>2, <4>1 DEF Attended, AttendedAt
      <4>2. CASE s = Len(streams) + 1
        BY <3>2, <3>3, <4>2 DEF AttendedAt
      <4> QED
        BY <1>1, <3>2, <3>4, <4>1, <4>2
    <3> QED
      BY <3>4 DEF Attended
  <2> QED
    BY <1>3, <2>1, <2>2 DEF RebuildInitializes
<1>4. CASE RebuildStarts
  <2>1. current \in DOMAIN streams /\ Start(current, monitors)
    BY <1>1, <1>4 DEF RebuildStarts, RebuildHasStream, NoStream
  <2> QED
    BY <1>1, <2>1, MonitorsLeft, StartAttends, AttendedLocally
<1>5. CASE RebuildWatches
  BY <1>5 DEF RebuildWatches, Attended, AttendedAt
<1> QED
  BY <1>2, <1>3, <1>4, <1>5 DEF RebuildActs

\* However monitors, watchdog, reconnection and rebuild get in each other's way (StreamProcess.start
\* and stop hold the lock of the stream, its monitors and restart do not), an ffmpeg that the stream
\* takes to be running has a monitor thread that will see it exit, and one that has exited a monitor
\* that is about to tell the stream: no dead stream passes for a running one for good.
THEOREM StreamsAttended == Spec => []Attended
<1>1. Init => Attended
  <2> SUFFICES ASSUME Init
               PROVE  AttendedAt(1)
    BY DEF Init, Attended
  <2>1. monitors[1]["watch"] = 1 /\ streams[1].process = "alive"
    BY DEF Init, NoMonitors, MonitorStep, NewStream
  <2> QED
    BY <2>1 DEF AttendedAt
<1>2. IInv /\ Attended /\ [Next]_vars => Attended'
  <2> SUFFICES ASSUME IInv, Attended, [Next]_vars
               PROVE  Attended'
    OBVIOUS
  <2>1. CASE UNCHANGED <<streams, monitors>>
    BY <2>1 DEF Attended, AttendedAt
  <2>2. CASE \E s \in DOMAIN streams : StreamActs(s)
    BY <2>2, MonitorsAttend
  <2>3. CASE \E g \in DOMAIN watchdog : WatchdogActs(g)
    BY <2>3, WatchdogsAttend
  <2>4. CASE ReconnectStops \/ ReconnectActs
    BY <2>4, ReconnectAttends
  <2>5. CASE RebuildActs \/ ShutdownStops
    BY <2>5, RebuildAttends
  <2>6. CASE CameraEvent \/ ShutdownTellsWatchdog \/ UNCHANGED vars
    BY <2>1, <2>6 DEF CameraEvent, ShutdownTellsWatchdog, vars, threads
  <2> QED
    BY <2>2, <2>3, <2>4, <2>5, <2>6 DEF Next, Exited, StreamActs
<1>3. Spec => []IInv
  BY IInvInit, IInvNext, PTL DEF Spec
<1> QED
  BY <1>1, <1>2, <1>3, PTL DEF Spec

---------------------------------------------------------------------------

\* Only RebuildInitializes makes a stream object.
LEMMA MonitorsSame ==
    ASSUME IInv, NEW s \in DOMAIN streams, StreamActs(s)
    PROVE  Len(streams') = Len(streams)
<1>1. StreamsType /\ MonitorsType /\ BoundsType
  BY DEF IInv
<1>2. CASE MonitorStops(s)
  BY <1>1, <1>2, StopType DEF MonitorStops, SameStreams
<1>3. CASE MonitorStarts(s)
  BY <1>1, <1>3, MonitorsLeft, StartType DEF MonitorStarts, SameStreams, Left
<1>4. CASE \E r : streams' = [streams EXCEPT ![s] = r]
  <2>1. DOMAIN streams' = DOMAIN streams
    BY <1>4
  <2>2. IInv'
    BY MonitorsKeep
  <2> QED
    BY <1>1, <2>1, <2>2 DEF IInv, StreamsType
<1>5. CASE UNCHANGED streams
  BY <1>5
<1>6. CASE Die(s) \/ MonitorStopsRunning(s) \/ MonitorClears(s)
  BY <1>4, <1>6 DEF Die, MonitorStopsRunning, MonitorClears
<1>7. CASE MonitorLeaves(s) \/ MonitorPolls(s) \/ MonitorReads(s) \/ MonitorJudges(s)
           \/ MonitorChecks(s)
  BY <1>7 DEF MonitorLeaves, MonitorPolls, MonitorReads, MonitorJudges, MonitorChecks
<1>8. CASE MonitorCounts(s) \/ MonitorGivesUp(s)
  BY <1>1, <1>8, AttemptsOnly DEF MonitorCounts, MonitorGivesUp, SameStreams
<1> QED
  BY <1>2, <1>3, <1>6, <1>7, <1>8 DEF StreamActs, MonitorActs

LEMMA ReconnectSame ==
    ASSUME IInv, ReconnectStops \/ ReconnectActs
    PROVE  Len(streams') = Len(streams)
<1>1. /\ StreamsType /\ MonitorsType /\ BoundsType
      /\ current \in 0 .. Len(streams)
      /\ DOMAIN streams = 1 .. Len(streams) /\ Len(streams) \in Nat
  BY DomainIs DEF IInv, ThreadsType
<1>2. CASE ReconnectStops
  BY <1>1, <1>2, StopType DEF ReconnectStops, NoStream, SameStreams
<1>3. CASE ReconnectResets
  BY <1>1, <1>3, ReconnectIs, AttemptsOnly DEF ReconnectResets, SameStreams
<1>4. CASE ReconnectStarts
  <2>1. reconnect.stream \in DOMAIN streams /\ Start(reconnect.stream, monitors)
    BY <1>4, ReconnectIs DEF ReconnectStarts
  <2> QED
    BY <1>1, <2>1, StartType DEF SameStreams, MonitorsType
<1> QED
  BY <1>2, <1>3, <1>4 DEF ReconnectActs

LEMMA StopsSame ==
    ASSUME IInv, RebuildStops \/ ShutdownStops
    PROVE  Len(streams') = Len(streams)
<1>1. /\ StreamsType /\ BoundsType /\ current \in 0 .. Len(streams)
      /\ DOMAIN streams = 1 .. Len(streams) /\ Len(streams) \in Nat
  BY DomainIs DEF IInv, ThreadsType
<1>2. UNCHANGED streams \/ (current # NoStream /\ (Stop(current) \/ StopRaises(current)))
  <2>1. CASE RebuildStops
    BY <2>1 DEF RebuildStops
  <2>2. CASE ShutdownStops
    BY <2>2 DEF ShutdownStops
  <2> QED
    BY <2>1, <2>2
<1> QED
  BY <1>1, <1>2, StopType DEF NoStream, SameStreams

LEMMA RebuildStartsSame ==
    ASSUME IInv, RebuildStarts
    PROVE  Len(streams') = Len(streams)
<1>1. /\ StreamsType /\ MonitorsType /\ BoundsType /\ RebuildHasStream
      /\ current \in 0 .. Len(streams)
      /\ DOMAIN streams = 1 .. Len(streams) /\ Len(streams) \in Nat
  BY DomainIs DEF IInv, ThreadsType
<1>2. current \in DOMAIN streams /\ Start(current, monitors)
  BY <1>1 DEF RebuildStarts, RebuildHasStream, NoStream
<1> QED
  BY <1>1, <1>2, StartType DEF SameStreams, MonitorsType

LEMMA WatchdogRecord ==
    ASSUME WatchdogType, NEW g \in DOMAIN watchdog
    PROVE  watchdog[g] \in [running : BOOLEAN, at : WatchdogStep]
<1> DEFINE W == [running : BOOLEAN, at : WatchdogStep]
<1>1. watchdog \in Seq(W)
  BY DEF WatchdogType
<1> HIDE DEF W
<1>2. watchdog[g] \in W
  BY <1>1
<1> QED
  BY <1>2 DEF W

---------------------------------------------------------------------------

\* The watchdog that is to look after a stream object, if any does, is that of the registered one;
\* while a rebuild is going on there is none.
Supervision ==
    /\ \A g \in DOMAIN watchdog : watchdog[g].running => g = current
    /\ rebuild # "idle" => \A g \in DOMAIN watchdog : ~watchdog[g].running
    /\ rebuild \notin {"start", "watchdog"} => Len(streams) = Len(watchdog)
    /\ rebuild \in {"start", "watchdog"} =>
          Len(streams) = Len(watchdog) + 1 /\ current = Len(streams)

\* A stream object that a camera event has replaced is not supervised any more, whenever its
\* watchdog gets to see that stop_all told it so: a watchdog that is not told to end belongs to
\* the stream that StreamingManager has registered.
SupervisedIsRegistered == \A g \in DOMAIN watchdog : Supervised(g) => g = current

\* A step that neither tells a watchdog anything nor makes a stream or a watchdog.
LEMMA SupervisionStays ==
    ASSUME IInv, Supervision, Len(streams') = Len(streams),
           DOMAIN watchdog' = DOMAIN watchdog, Len(watchdog') = Len(watchdog),
           \A g \in DOMAIN watchdog : watchdog'[g].running = watchdog[g].running,
           UNCHANGED <<current, rebuild>>
    PROVE  Supervision'
BY DEF Supervision

LEMMA SupervisionNext == IInv /\ Supervision /\ [Next]_vars => Supervision'
<1> SUFFICES ASSUME IInv, Supervision, [Next]_vars
             PROVE  Supervision'
  OBVIOUS
<1>1. /\ StreamsType /\ BoundsType /\ MonitorsType /\ WatchdogType
      /\ current \in 0 .. Len(streams)
      /\ DOMAIN streams = 1 .. Len(streams) /\ Len(streams) \in Nat
      /\ DOMAIN watchdog = 1 .. Len(watchdog) /\ Len(watchdog) \in Nat
      /\ StreamsType' /\ Len(streams') \in Nat
  BY IInvNext, DomainIs DEF IInv, ThreadsType, WatchdogType, StreamsType
<1>2. CASE UNCHANGED <<streams, watchdog, current, rebuild>>
  BY <1>2, SupervisionStays
<1>3. CASE \E s \in DOMAIN streams : StreamActs(s)
  <2>1. PICK s \in DOMAIN streams : StreamActs(s)
    BY <1>3
  <2>2. UNCHANGED <<watchdog, current, rebuild>>
    BY <2>1 DEF StreamActs, MonitorActs, Die, MonitorLeaves, MonitorPolls, MonitorReads,
         MonitorStopsRunning, MonitorClears, MonitorJudges, MonitorStops, MonitorChecks,
         MonitorCounts, MonitorGivesUp, MonitorStarts, threads
  <2>3. Len(streams') = Len(streams)
    BY <2>1, MonitorsSame
  <2> QED
    BY <2>2, <2>3, SupervisionStays
<1>4. CASE \E g \in DOMAIN watchdog : WatchdogActs(g)
  <2>1. PICK g \in DOMAIN watchdog : WatchdogActs(g)
    BY <1>4
  <2>2. UNCHANGED <<current, rebuild>> /\ \E to : watchdog' = [watchdog EXCEPT ![g].at = to]
    BY <2>1 DEF WatchdogActs, WatchdogLeaves, WatchdogChecks, WatchdogStops,
         WatchdogCounts, WatchdogStarts, WatchdogGoes
  <2>3. Len(streams') = Len(streams)
    BY <1>1, <2>1, StopType, StartType, AttemptsOnly DEF WatchdogType, WatchdogActs, WatchdogLeaves,
         WatchdogChecks, WatchdogStops, WatchdogCounts, WatchdogStarts, SameStreams, MonitorsType
  <2>4. PICK to : watchdog' = [watchdog EXCEPT ![g].at = to]
    BY <2>2
  <2>5. /\ DOMAIN watchdog' = DOMAIN watchdog /\ Len(watchdog') = Len(watchdog)
        /\ \A h \in DOMAIN watchdog : watchdog'[h].running = watchdog[h].running
    <3> DEFINE W == [running : BOOLEAN, at : WatchdogStep]
    <3>1. watchdog \in Seq(W)
      BY <1>1 DEF WatchdogType
    <3>2. \A h \in DOMAIN watchdog : watchdog[h] \in W
      <4> HIDE DEF W
      <4> QED
        BY <3>1
    <3> QED
      BY <1>1, <2>4, <3>2
  <2> QED
    BY <2>2, <2>3, <2>5, SupervisionStays
<1>5. CASE ReconnectStops \/ ReconnectActs
  <2>1. UNCHANGED <<watchdog, current, rebuild>>
    BY <1>5 DEF ReconnectStops, ReconnectActs, ReconnectResets, ReconnectStarts
  <2>2. Len(streams') = Len(streams)
    BY <1>5, ReconnectSame
  <2> QED
    BY <2>1, <2>2, SupervisionStays
<1>6. CASE CameraEvent \/ ShutdownTellsWatchdog
  <2>1. /\ UNCHANGED <<streams, current>> /\ WatchdogTold
        /\ (rebuild = "idle" /\ rebuild' = "stop") \/ rebuild' = rebuild
    BY <1>6 DEF CameraEvent, ShutdownTellsWatchdog
  <2>2. Len(watchdog') = Len(watchdog) /\ DOMAIN watchdog' = DOMAIN watchdog
    BY <1>1, <2>1, ToldType DEF WatchdogTold
  <2>3. \A g \in DOMAIN watchdog : watchdog'[g].running = FALSE
    BY <1>1, <2>1, WatchdogRecord DEF WatchdogTold
  <2> QED
    BY <2>1, <2>2, <2>3 DEF Supervision
<1>7. CASE RebuildStops \/ ShutdownStops
  <2>1. /\ UNCHANGED <<watchdog, current>>
        /\ (rebuild = "stop" /\ rebuild' \in {"idle", "initialize"}) \/ rebuild' = rebuild
    BY <1>7 DEF RebuildStops, ShutdownStops
  <2>2. Len(streams') = Len(streams)
    BY <1>7, StopsSame
  <2> QED
    BY <2>1, <2>2 DEF Supervision
<1>8. CASE RebuildInitializes
  <2>1. rebuild = "initialize" /\ UNCHANGED watchdog
    BY <1>8 DEF RebuildInitializes
  <2>2. /\ Len(streams) = Len(watchdog)
        /\ \A g \in DOMAIN watchdog : ~watchdog[g].running
    BY <2>1 DEF Supervision
  <2>3. CASE current' = Len(streams) + 1 /\ rebuild' = "start" /\ streams' = Append(streams, NewStream)
    <3>1. Len(streams') = Len(streams) + 1
      BY <1>1, <2>3 DEF StreamsType
    <3> QED
      BY <2>1, <2>2, <2>3, <3>1 DEF Supervision
  <2>4. CASE current' = NoStream /\ rebuild' = "idle" /\ UNCHANGED streams
    BY <2>1, <2>2, <2>4 DEF Supervision
  <2> QED
    BY <1>8, <2>3, <2>4 DEF RebuildInitializes
<1>9. CASE RebuildStarts
  <2>1. /\ rebuild = "start" /\ rebuild' = "watchdog" /\ UNCHANGED <<watchdog, current>>
    BY <1>9 DEF RebuildStarts
  <2>2. Len(streams') = Len(streams)
    BY <1>9, RebuildStartsSame
  <2> QED
    BY <2>1, <2>2 DEF Supervision
<1>10. CASE RebuildWatches
  <2>1. /\ rebuild = "watchdog" /\ rebuild' = "idle" /\ UNCHANGED <<streams, current>>
        /\ watchdog' = Append(watchdog, Watchdog)
    BY <1>10 DEF RebuildWatches
  <2>2. /\ Len(watchdog') = Len(watchdog) + 1 /\ DOMAIN watchdog' = 1 .. Len(watchdog) + 1
        /\ \A g \in DOMAIN watchdog : watchdog'[g] = watchdog[g]
    BY <1>1, <2>1 DEF WatchdogType
  <2>3. /\ Len(streams) = Len(watchdog) + 1 /\ current = Len(streams)
        /\ \A g \in DOMAIN watchdog : ~watchdog[g].running
    BY <2>1 DEF Supervision
  <2> QED
    BY <1>1, <2>1, <2>2, <2>3 DEF Supervision
<1> QED
  BY <1>2, <1>3, <1>4, <1>5, <1>6, <1>7, <1>8, <1>9, <1>10
     DEF Next, Exited, StreamActs, RebuildActs, vars, threads

\* A rebuild makes its stream object while no watchdog is to supervise any, so that the object it
\* has dropped (StreamingManager.initialize) is never taken for the one to keep alive.
THEOREM RegisteredIsSupervised == Spec => []SupervisedIsRegistered
<1>1. Init => Supervision
  BY DEF Init, Supervision, Watchdog
<1>2. IInv /\ Supervision => SupervisedIsRegistered
  BY DEF Supervision, SupervisedIsRegistered, Supervised
<1>3. Spec => []IInv
  BY IInvInit, IInvNext, PTL DEF Spec
<1> QED
  BY <1>1, <1>2, <1>3, SupervisionNext, PTL DEF Spec

==============================================================================
