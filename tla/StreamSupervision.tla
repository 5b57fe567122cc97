-------------------------- MODULE StreamSupervision --------------------------
(***************************************************************************)
(* The ffmpeg process behind one camera and everything that starts and     *)
(* stops it: a monitor thread per start, the watchdog, the restart of all  *)
(* streams when MQTT comes back, the hot-plug monitor, which replaces the  *)
(* stream object by a new one, and the shutdown of the agent.  start and   *)
(* stop of a StreamProcess hold its lock; its monitors, is_running and     *)
(* restart read and write the same fields without it, restart the count of *)
(* attempts: each look at it and each assignment is a step of its own.     *)
(*                                                                         *)
(* Stream objects are numbered as they are created; each comes with a      *)
(* frame buffer and, once started by start_all, with a watchdog.  Sleeps   *)
(* and timed joins end at any time, but the two seconds restart sleeps     *)
(* outlast a monitor's few statements between the end of stderr and its    *)
(* look at _stop_requested.                                                *)
(***************************************************************************)
EXTENDS Naturals, Sequences

CONSTANTS MaxAttempts,    \* max_restart_attempts
          MaxDeaths,      \* bound: ffmpeg processes that exit of themselves or fail to start
          MaxStuck,       \* bound: ffmpeg processes that outlive SIGKILL by more than 5 s
          MaxReconnects,  \* bound: MQTT reconnections
          MaxEvents,      \* bound: camera events that are not debounced
          MaxTroubles     \* bound: all of these and the shutdown, in one behaviour

ASSUME StreamAssumption ==
    /\ MaxAttempts \in Nat \ {0}
    /\ MaxDeaths \in Nat /\ MaxStuck \in Nat /\ MaxReconnects \in Nat /\ MaxEvents \in Nat
    /\ MaxTroubles \in 0..(MaxDeaths + MaxStuck + MaxReconnects + MaxEvents + 1)

VARIABLES
  streams,     \* stream objects: running, process, restart_attempts, _stop_requested
  current,     \* the stream object in StreamingManager.streams, 0 for none
  monitors,    \* stream object -> what its monitor threads are about to do -> how many are
  watchdog,    \* stream object -> its watchdog: the running flag and what it is about to do
  reconnect,   \* restart_all on the MQTT network thread: a stream and what it is about to do
  rebuild,     \* _rebuild_streams on the hot-plug thread: what it is about to do
  shutdown,    \* StreamingAgent.stop: what it is about to do
  deaths, stuck, reconnects, events, shutdowns   \* what is left of the bounds

threads == <<monitors, watchdog, reconnect, rebuild, shutdown>>
bounds  == <<deaths, stuck, reconnects, events, shutdowns>>
vars    == <<streams, current, threads, bounds>>

NoStream == 0

NewStream == [running |-> FALSE, process |-> "none", attempts |-> 0, stopRequested |-> FALSE]
Watchdog  == [running |-> TRUE, at |-> "watch"]

IsRunning(s)  == s # NoStream /\ streams[s].running /\ streams[s].process = "alive"
Supervised(s) == s \in DOMAIN watchdog /\ watchdog[s].running

\* The steps of restart: each of its callers is at one of them.
RestartStep  == {"stop", "check", "count", "forgo", "start"}
MonitorStep  == {"watch", "exited", "ended", "clear", "judge"} \cup RestartStep
WatchdogStep == {"watch", "gone"} \cup RestartStep
ReconnectStep == {"idle", "reset", "start"}
RebuildStep  == {"idle", "stop", "initialize", "start", "watchdog"}
ShutdownStep == {"up", "stop", "exited"}

NoReconnect == [stream |-> NoStream, at |-> "idle"]

NoMonitors == [step \in MonitorStep |-> 0]

\* Reachable states are well typed, and there is at most one watchdog for each stream object.
\* The attempts are not bounded by max_restart_attempts: two threads that both find one
\* attempt left both count (stream_process.py:85-86).
TypeOK ==
    /\ streams \in Seq([running : BOOLEAN, process : {"none", "alive", "exited"},
                        attempts : Nat, stopRequested : BOOLEAN])
    /\ current \in 0..Len(streams)
    /\ monitors \in [DOMAIN streams -> [MonitorStep -> Nat]]
    /\ watchdog \in Seq([running : BOOLEAN, at : WatchdogStep]) /\ Len(watchdog) <= Len(streams)
    /\ reconnect \in [stream : 0..Len(streams), at : ReconnectStep]
    /\ rebuild \in RebuildStep /\ shutdown \in ShutdownStep
    /\ deaths \in 0..MaxDeaths /\ stuck \in 0..MaxStuck
    /\ reconnects \in 0..MaxReconnects /\ events \in 0..MaxEvents
    /\ shutdowns \in 0..1

---------------------------------------------------------------------------
(* StreamProcess.start, stop and restart. *)

Stopped(stream) ==
    [stream EXCEPT !.running = FALSE, !.process = "none",
                   !.stopRequested = @ \/ (stream.running /\ stream.process # "none")]

\* stop: SIGTERM, then SIGKILL, until the process has exited; nothing without a process.
Stop(s) ==
    /\ streams' = [streams EXCEPT ![s] = Stopped(@)]
    /\ UNCHANGED stuck

\* stop raises TimeoutExpired: the process is forgotten, but still there.
StopRaises(s) ==
    /\ stuck > 0 /\ IsRunning(s)
    /\ stuck' = stuck - 1
    /\ streams' = [streams EXCEPT ![s] = Stopped(@)]

\* start: Popen makes a process with its monitor, or raises.  `left` are the monitor threads
\* that go on.
Start(s, left) ==
    \/ /\ streams[s].running
       /\ monitors' = left
       /\ UNCHANGED <<streams, deaths>>
    \/ /\ ~streams[s].running
       /\ streams' = [streams EXCEPT ![s] = [@ EXCEPT !.running = TRUE, !.process = "alive",
                                                       !.stopRequested = FALSE]]
       /\ monitors' = [left EXCEPT ![s]["watch"] = @ + 1]
       /\ UNCHANGED deaths
    \/ /\ ~streams[s].running /\ deaths > 0
       /\ deaths' = deaths - 1
       /\ streams' = [streams EXCEPT ![s] = [@ EXCEPT !.process = "none", !.stopRequested = FALSE]]
       /\ monitors' = left

\* The sleep of restart outlasts what a monitor of the stream is in the middle of.
Slept(s) == \A step \in {"ended", "clear", "judge"} : monitors[s][step] = 0

MayRetry(s) == streams[s].attempts < MaxAttempts

\* What restart does after its stop and its sleep: to count and start, or to give up.
AfterCheck(s) == IF MayRetry(s) THEN "count" ELSE "forgo"

SetAttempts(s, n) == streams' = [streams EXCEPT ![s].attempts = n]

\* The increment itself is one step: no call comes between its read and its write.
Count(s) == SetAttempts(s, streams[s].attempts + 1)

\* Mutant: a stream that was given up is never tried again.
GiveUp_Stays(s) == SetAttempts(s, MaxAttempts)

GiveUp(s) == SetAttempts(s, 0)

---------------------------------------------------------------------------

\* The first stream has been started with its camera present.
Init ==
    /\ streams = <<[NewStream EXCEPT !.running = TRUE, !.process = "alive"]>>
    /\ current = 1
    /\ monitors = <<[NoMonitors EXCEPT !["watch"] = 1]>>
    /\ watchdog = <<Watchdog>>
    /\ reconnect = NoReconnect
    /\ rebuild = "idle" /\ shutdown = "up"
    /\ deaths \in 0..MaxDeaths /\ stuck \in 0..MaxStuck
    /\ reconnects \in 0..MaxReconnects /\ events \in 0..MaxEvents /\ shutdowns \in 0..1
    /\ deaths + stuck + reconnects + events + shutdowns = MaxTroubles

\* The ffmpeg of stream s exits: its camera was unplugged, is busy, or the server went away.
Die(s) ==
    /\ streams[s].process = "alive" /\ deaths > 0
    /\ streams' = [streams EXCEPT ![s].process = "exited"]
    /\ deaths' = deaths - 1
    /\ UNCHANGED <<current, threads, stuck, reconnects, events, shutdowns>>

---------------------------------------------------------------------------
(* _monitor of stream s, which looks at whatever process the stream has at the moment. *)

Leave(s, step) == [monitors EXCEPT ![s][step] = @ - 1]

\* A monitor of s takes the step `from`, and is about to take the step `to`.
Goes(s, from, to) ==
    /\ monitors[s][from] > 0
    /\ monitors' = [monitors EXCEPT ![s][from] = @ - 1, ![s][to] = @ + 1]

\* The loop ends when the stream has been stopped, or the process taken away.
MonitorLeaves(s) ==
    /\ \/ /\ monitors[s]["watch"] > 0 /\ (~streams[s].running \/ streams[s].process = "none")
          /\ monitors' = Leave(s, "watch")
       \/ /\ monitors[s]["exited"] > 0 /\ streams[s].process = "none"
          /\ monitors' = Leave(s, "exited")
    /\ UNCHANGED <<streams, current, watchdog, reconnect, rebuild, shutdown, bounds>>

MonitorPolls(s) ==
    /\ streams[s].running /\ streams[s].process = "exited"
    /\ Goes(s, "watch", "exited")
    /\ UNCHANGED <<streams, current, watchdog, reconnect, rebuild, shutdown, bounds>>

\* stderr is read to its end: of the process the stream has now, which may be another one.
MonitorReads(s) ==
    /\ streams[s].process = "exited"
    /\ Goes(s, "exited", "ended")
    /\ UNCHANGED <<streams, current, watchdog, reconnect, rebuild, shutdown, bounds>>

MonitorStopsRunning(s) ==
    /\ Goes(s, "ended", "clear")
    /\ streams' = [streams EXCEPT ![s].running = FALSE]
    /\ UNCHANGED <<current, watchdog, reconnect, rebuild, shutdown, bounds>>

MonitorClears(s) ==
    /\ Goes(s, "clear", "judge")
    /\ streams' = [streams EXCEPT ![s].process = "none"]
    /\ UNCHANGED <<current, watchdog, reconnect, rebuild, shutdown, bounds>>

\* It ends if somebody asked for the stop, and restarts the stream otherwise.
MonitorJudges(s) ==
    /\ \/ ~streams[s].stopRequested /\ Goes(s, "judge", "stop")
       \/ streams[s].stopRequested /\ monitors[s]["judge"] > 0 /\ monitors' = Leave(s, "judge")
    /\ UNCHANGED <<streams, current, watchdog, reconnect, rebuild, shutdown, bounds>>

MonitorStops(s) ==
    /\ \/ Stop(s) /\ Goes(s, "stop", "check")
       \/ monitors[s]["stop"] > 0 /\ StopRaises(s) /\ monitors' = Leave(s, "stop")
    /\ UNCHANGED <<current, watchdog, reconnect, rebuild, shutdown,
                   deaths, reconnects, events, shutdowns>>

MonitorChecks(s) ==
    /\ Slept(s)
    /\ Goes(s, "check", AfterCheck(s))
    /\ UNCHANGED <<streams, current, watchdog, reconnect, rebuild, shutdown, bounds>>

MonitorCounts(s) ==
    /\ Goes(s, "count", "start")
    /\ Count(s)
    /\ UNCHANGED <<current, watchdog, reconnect, rebuild, shutdown, bounds>>

MonitorGivesUp(s) ==
    /\ monitors[s]["forgo"] > 0 /\ monitors' = Leave(s, "forgo")
    /\ GiveUp(s)
    /\ UNCHANGED <<current, watchdog, reconnect, rebuild, shutdown, bounds>>

MonitorStarts(s) ==
    /\ monitors[s]["start"] > 0
    /\ Start(s, Leave(s, "start"))
    /\ UNCHANGED <<current, watchdog, reconnect, rebuild, shutdown,
                   stuck, reconnects, events, shutdowns>>

---------------------------------------------------------------------------
(* StreamWatchdog, started with stream object g. *)

WatchdogGoes(g, from, to) ==
    /\ watchdog[g].at = from
    /\ watchdog' = [watchdog EXCEPT ![g].at = to]

WatchdogLeaves(g) ==
    /\ ~watchdog[g].running
    /\ WatchdogGoes(g, "watch", "gone")
    /\ UNCHANGED <<streams, current, monitors, reconnect, rebuild, shutdown, bounds>>

WatchdogChecks(g) ==
    /\ watchdog[g].running /\ ~IsRunning(g)
    /\ WatchdogGoes(g, "watch", "stop")
    /\ UNCHANGED <<streams, current, monitors, reconnect, rebuild, shutdown, bounds>>

WatchdogStops(g) ==
    /\ \/ Stop(g) /\ WatchdogGoes(g, "stop", "check")
       \/ StopRaises(g) /\ WatchdogGoes(g, "stop", "watch")
    /\ UNCHANGED <<current, monitors, reconnect, rebuild, shutdown,
                   deaths, reconnects, events, shutdowns>>

WatchdogCounts(g) ==
    /\ \/ Slept(g) /\ WatchdogGoes(g, "check", AfterCheck(g)) /\ UNCHANGED streams
       \/ WatchdogGoes(g, "count", "start") /\ Count(g)
       \/ WatchdogGoes(g, "forgo", "watch") /\ GiveUp(g)
    /\ UNCHANGED <<current, monitors, reconnect, rebuild, shutdown, bounds>>

WatchdogStarts(g) ==
    /\ WatchdogGoes(g, "start", "watch")
    /\ Start(g, monitors)
    /\ UNCHANGED <<current, reconnect, rebuild, shutdown, stuck, reconnects, events, shutdowns>>

---------------------------------------------------------------------------
(* MQTTPublisher._on_connect: restart_all after a reconnection. *)

\* While stop waits for the process, a monitor of s may see it exit: it gets to where it is
\* going to clear the process, or has cleared it already.  The start that follows at once
\* can come before it goes on.
Noticed(s) ==
    LET watching == IF streams[s].running /\ streams[s].process # "none"
                    THEN monitors[s]["watch"] ELSE 0
    IN  \E ended \in 0..watching : \E judge \in 0..(watching - ended) :
            monitors' = [monitors EXCEPT ![s]["watch"] = @ - ended - judge,
                                         ![s]["ended"] = @ + ended, ![s]["judge"] = @ + judge]

ReconnectStops ==
    /\ reconnect = NoReconnect /\ reconnects > 0 /\ shutdown = "up" /\ current # NoStream
    /\ reconnects' = reconnects - 1
    /\ \/ Stop(current) /\ Noticed(current) /\ reconnect' = [stream |-> current, at |-> "reset"]
       \/ StopRaises(current) /\ UNCHANGED <<monitors, reconnect>>
    /\ UNCHANGED <<current, watchdog, rebuild, shutdown, deaths, events, shutdowns>>

ReconnectResets ==
    /\ reconnect.at = "reset"
    /\ SetAttempts(reconnect.stream, 0)
    /\ reconnect' = [reconnect EXCEPT !.at = "start"]
    /\ UNCHANGED <<current, monitors, watchdog, rebuild, shutdown, bounds>>

ReconnectStarts ==
    /\ reconnect.at = "start"
    /\ Start(reconnect.stream, monitors)
    /\ reconnect' = NoReconnect
    /\ UNCHANGED <<current, watchdog, rebuild, shutdown, stuck, reconnects, events, shutdowns>>

---------------------------------------------------------------------------
(* HotPlugMonitor._rebuild_streams, and StreamingManager's stop_all, initialize and start_all. *)

\* stop_all tells the watchdog to end and waits for it, but not for ever.
WatchdogTold ==
    watchdog' = [g \in DOMAIN watchdog |-> [watchdog[g] EXCEPT !.running = FALSE]]

CameraEvent ==
    /\ rebuild = "idle" /\ events > 0 /\ shutdown = "up"
    /\ events' = events - 1
    /\ rebuild' = "stop"
    /\ WatchdogTold
    /\ UNCHANGED <<streams, current, monitors, reconnect, shutdown,
                   deaths, stuck, reconnects, shutdowns>>

\* A stop that raises ends the rebuild, with the watchdog gone.
RebuildStops ==
    /\ rebuild = "stop"
    /\ \/ current = NoStream /\ rebuild' = "initialize" /\ UNCHANGED <<streams, stuck>>
       \/ current # NoStream /\ rebuild' = "initialize" /\ Stop(current)
       \/ current # NoStream /\ rebuild' = "idle" /\ StopRaises(current)
    /\ UNCHANGED <<current, monitors, watchdog, reconnect, shutdown,
                   deaths, reconnects, events, shutdowns>>

\* Mutant: start_all starts a watchdog although there is no stream.
RebuildInitializes_AlwaysWatched ==
    /\ rebuild = "initialize"
    /\ \/ /\ current' = Len(streams) + 1 /\ rebuild' = "start"
          /\ streams' = Append(streams, NewStream)
          /\ monitors' = Append(monitors, NoMonitors)
       \/ current' = NoStream /\ rebuild' = "watchdog" /\ UNCHANGED <<streams, monitors>>
    /\ UNCHANGED <<watchdog, reconnect, shutdown, bounds>>

\* initialize drops the stream and makes another, with a new frame buffer, if a camera is found.
RebuildInitializes ==
    /\ rebuild = "initialize"
    /\ \/ /\ current' = Len(streams) + 1 /\ rebuild' = "start"
          /\ streams' = Append(streams, NewStream)
          /\ monitors' = Append(monitors, NoMonitors)
       \/ current' = NoStream /\ rebuild' = "idle" /\ UNCHANGED <<streams, monitors>>
    /\ UNCHANGED <<watchdog, reconnect, shutdown, bounds>>

RebuildStarts ==
    /\ rebuild = "start"
    /\ rebuild' = "watchdog"
    /\ Start(current, monitors)
    /\ UNCHANGED <<current, watchdog, reconnect, shutdown, stuck, reconnects, events, shutdowns>>

\* stop_all has left no watchdog, so that the new stream object gets one.
RebuildWatches ==
    /\ rebuild = "watchdog"
    /\ rebuild' = "idle"
    /\ watchdog' = Append(watchdog, Watchdog)
    /\ UNCHANGED <<streams, current, monitors, reconnect, shutdown, bounds>>

---------------------------------------------------------------------------
(* StreamingAgent.stop: it waits for the hot-plug monitor for 2 s at most. *)

\* The hot-plug monitor and the publisher, told to stop before stop_all, start nothing new.
ShutdownTellsWatchdog ==
    /\ shutdown = "up" /\ shutdowns > 0
    /\ shutdown' = "stop" /\ shutdowns' = shutdowns - 1
    /\ WatchdogTold
    /\ UNCHANGED <<streams, current, monitors, reconnect, rebuild,
                   deaths, stuck, reconnects, events>>

\* The threads are daemons: they end with the process, whether stop_all raised or not.
ShutdownStops ==
    /\ shutdown = "stop"
    /\ shutdown' = "exited"
    /\ \/ current = NoStream /\ UNCHANGED <<streams, stuck>>
       \/ current # NoStream /\ Stop(current)
       \/ current # NoStream /\ StopRaises(current)
    /\ UNCHANGED <<current, monitors, watchdog, reconnect, rebuild,
                   deaths, reconnects, events, shutdowns>>

Lives == shutdown # "exited"

MonitorActs(s) ==
    \/ MonitorLeaves(s) \/ MonitorPolls(s) \/ MonitorReads(s) \/ MonitorStopsRunning(s)
    \/ MonitorClears(s) \/ MonitorJudges(s) \/ MonitorStops(s)
    \/ MonitorChecks(s) \/ MonitorCounts(s) \/ MonitorGivesUp(s) \/ MonitorStarts(s)
WatchdogActs(g) == WatchdogLeaves(g) \/ WatchdogChecks(g) \/ WatchdogStops(g)
                   \/ WatchdogCounts(g) \/ WatchdogStarts(g)
ReconnectActs   == ReconnectResets \/ ReconnectStarts
RebuildActs     == RebuildStops \/ RebuildInitializes \/ RebuildStarts \/ RebuildWatches

Exited == ~Lives /\ UNCHANGED vars

Next ==
    \/ Exited
    \/ /\ Lives
       /\ \/ \E s \in DOMAIN streams : Die(s) \/ MonitorActs(s)
          \/ \E g \in DOMAIN watchdog : WatchdogActs(g)
          \/ ReconnectStops \/ ReconnectActs
          \/ CameraEvent \/ RebuildActs
          \/ ShutdownTellsWatchdog \/ ShutdownStops

Spec == Init /\ [][Next]_vars

\* Every thread goes on while the process lives, of the monitors of a stream one or another;
\* camera events, reconnections, deaths and the shutdown itself may or may not come.  A camera
\* event makes one stream object at most.
FairSpec ==
    /\ Spec
    /\ \A s \in 1..MaxEvents + 1 :
          /\ WF_vars(Lives /\ s \in DOMAIN streams /\ MonitorActs(s))
          /\ WF_vars(Lives /\ s \in DOMAIN watchdog /\ WatchdogActs(s))
    /\ WF_vars(Lives /\ ReconnectActs)
    /\ WF_vars(Lives /\ RebuildActs)
    /\ WF_vars(Lives /\ ShutdownStops)

---------------------------------------------------------------------------

\* main.initialize hands the detectors the frame buffer of the first stream, once.
DetectorStream == 1

\* The streams settle: once cameras, network and processes give no more trouble, the
\* stream a watchdog looks after runs and stays up, however often it was given up and
\* however monitors, watchdog and restarts got in each other's way before.
StreamSettles ==
    <>[](Supervised(current) /\ Lives => IsRunning(current))

\* frame_buffer.py calls SharedFrameBuffer the buffer "fed by the streaming ffmpeg process":
\* while the registered stream runs, the buffer the detectors read is being fed.
DetectorsFed ==
    rebuild = "idle" /\ IsRunning(current) => IsRunning(DetectorStream)

===========================================================================
