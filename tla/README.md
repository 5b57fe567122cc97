# TLA+ models of the smart locker's hardware services

This directory is a verification development kept beside the code of the smart locker
(`src/`): TLA+ modules of its concurrent parts, TLC configurations that check them on small
instances, and theorems about them whose proofs are checked by TLAPS. Paths below are relative
to `src/app` unless they start with `tests/` or `deploy/`.

- [The system](#the-system): the inventory of components
- [The modules](#the-modules): what models what, and how state and actions correspond to the code
- [The runs](#the-runs): what TLC checks, the bounds, the fairness
- [Findings](#findings): where the code disagrees with what the repository says of it
- [The proofs](#the-proofs)
- [What is not modelled](#what-is-not-modelled)
- [The plan](#the-plan)

## The system

A locker runs four long-lived programs under systemd: the *streaming agent* (cameras,
detection, QR codes, relays), the *hardware agent* (Wi-Fi, BLE provisioning, MQTT commands),
the *inspection agent* (hardware tests) and the REST API with its services. They share the
GPIO board, the cameras, the network and files, and talk over MQTT.

### Streaming agent

| Component (code) | State it keeps | Operations | Interacts with | What is hard | What makes it correct |
|---|---|---|---|---|---|
| Security relay manager (`streaming_agent/relay/security_relay_manager.py`) | lifecycle `IDLE/ACTIVE/WAITING_OFF`, active sources and the time of their last event, off deadline, the level the last verified write reached | handle a detection or a clear; worker pass every poll: expire stale sources, failsafe, countdown, recovery; relay write with retries; force off; stop | event bus in, relay controller out | writes sleep with the lock held; clock read before the lock; failed writes; three mechanisms that may end an alarm | no detection is silenced, the hold is honoured, silence ends the alarm, a lit relay is a known one |
| Relay controller (`streaming_agent/gpio/relay_controller.py`) | per output the asserting sources and the remembered level; locker and green LED levels; alert threads; QR cycle flag | security on/off, force off, alerts and their workers, QR success cycle, start, cleanup | GPIO; called by relay manager, QR scanner, tamper and person detectors | remembered level set before the write; outputs shared by alarm and alerts; writes that raise or do not take | neither user of a shared output stomps on the other; the locker is relocked |
| Detection state manager and event bus (`streaming_agent/detection/state_manager.py`, `event_bus/`) | a flag and a publication time per source | update a signal; publish changes, and refreshes of an active signal | detector threads in, relay manager out | its lock is held while the relay manager handles the event | no event overtakes another; refreshes beat the time to live |
| Person detector (`detection/person_detector.py`) | debouncers per signal, presence hold, confidence of the model | process a frame; poll for stale presence | frame buffer in, state manager out | classifiers that support each other, hold, debounce and expiry interact; a dead camera | presence does not feed itself, and is always withdrawn |
| Tamper detector (`detection/tamper_detection.py`) | baseline, `IDLE/CANDIDATE/ACTIVE/CLEARING`, streaks, timer | process a frame; pause for a QR code; clear when stale | frame buffer, QR attention in, state manager out | several ways out of the alarm | each way out withdraws the report |
| QR scanner (`detection/qr_scanner.py`) and the locker half of the relay controller | reserved tokens, latest result, cycle flag, locker level | decode (scan loop, OpenCV fallback), reserve, validate at the backend, pulse, log, publish; unlock cycle | backend, relay controller, MQTT | two decoders, a thread per scan, a thread per cycle, none joined; failures at every call; crash with the locker open | one validation per token, results in order, the locker relocks |
| Streams (`stream_process.py`, `watchdog.py`, `streaming_manager.py`, `hot_plug_monitor.py`, `mqtt_publisher.py`) | a stream object per camera: running flag, process, attempts, stop flag | start, stop, restart; monitor thread per start; watchdog; restart on MQTT connect; rebuild on camera events; shutdown | ffmpeg, udev, MQTT, frame buffers | five kinds of thread change the same fields, partly without the lock | a supervised stream ends up running, however its threads got in each other's way |
| Camera detection, roles, controls, ffmpeg command, frame preparation, health monitor | none beyond a call, or metrics | – | – | – | – |

### Hardware agent, inspection agent, services

| Component (code) | State it keeps | Operations | Interacts with | What is hard | What makes it correct |
|---|---|---|---|---|---|
| Network state machine (`hardware_agent/main.py`, `connectivity.py`) | network state, recovery thread, BLE flag, roaming hold | startup flow, Wi-Fi observations, remote connect, recovery, roaming | Wi-Fi service, BLE server, MQTT | observations from a watchdog, commands from the MQTT thread, recovery threads; state entered outside the lock | a lost connection is eventually recovered; BLE is on exactly when it is needed |
| BLE server (`hardware_agent/provisioning/ble/`) | thread, stop flag, advertisement | start, stop, discoverable timeout, a phone's requests | state machine, BlueZ | stop racing the start of the thread; a start while the last server still ends | it comes up again as long as it is wanted |
| Saved networks, reconnect policy (`saved_networks.py`, `reconnect_policy.py`, `scanner.py`) | records with failure counts and back-off | list, mark success or failure, choose a candidate | state machine | back-off boundaries, hysteresis | no network is starved; no flapping |
| MQTT manager (`core/mqtt_manager.py`) | connected flag, pending messages by topic, subscriptions | publish, queue, flush, connect, disconnect, restart | broker, all agents | connected before flushed; check-then-queue | a message is lost only to one of its topic or to a full queue; connection, subscriptions and status recover |
| MQTT commands (`hardware_agent/mqtt_client.py`), remote control (`services/qbox_control.py`) | ids of processed commands | handle, answer | MQTT manager | redelivery; waiting on the network thread | a command with an id runs at most once; a handler never waits for its own thread |
| Inspection agent (`inspection_agent/manager.py`, `hardware/streaming_service_controller.py`) | which test runs; whether it stopped the streaming service | run tests around a stop and start of the streaming service | systemd | stop that times out; crash in between | the streaming service is running again afterwards |
| Event storage (`hardware_agent/storage.py`) | a queue file | append, load | – | – | nothing constructs `JsonFileStorage` |
| Backend synchronisation, telemetry, device actions, factory reset, system status, REST API, deployment | files | short sequences of system or HTTP calls | backend | one read-modify-write race of the state file | – |

`PROJECT.json` lists the same components with their status, and the 40 hazards of this code,
each at its line, with the properties that would catch it going wrong or the reason why no
property does yet.

## The modules

```
RelayBoard            the board's operations, as operators from a board to its possible outcomes
Alarm                 what the relay manager promises (abstract)
  SecurityRelay       the relay manager, its worker and writes, alerts, and the agent's shutdown;
                      implements Alarm
    DetectionPipeline person and tamper detectors and the state manager, composed with the above
QrLocker              QR scanner, validation threads, unlock cycles, shutdown, crash, restart
StreamSupervision     one camera's ffmpeg and everything that starts and stops it
ReconnectPolicy       the choices between networks, as operators
  NetworkAgent        the network state machine, its threads, the BLE server and NetworkManager
Outbox                what publishing promises (abstract)
  MqttManager         the shared connection, its queue and callbacks, and commands; implements Outbox
*_proofs              theorems
MC*                   instances for TLC
```

### RelayBoard

`Board` is what `RelayController` keeps of IN1 (red) and IN4 (buzzer): whether GPIO is
available, the sources that assert each output, the level it last asked for and the level of
the pin. Every method is an operator from a board to the *set* of its outcomes, because a GPIO
write can work, be verified as not having taken, or raise; `Then` sequences two calls, the
second of which is skipped when the first raised. Two facts of the code decide most of what
follows: `Apply` records the level before it writes, and skips the write if the recorded level
is the wanted one. `ForceOff` first goes through `Apply` and then writes again, directly, each
output without an asserting source.

### SecurityRelay

`lifecycle, relayActive, active, seen, offIn, stateAge` are the fields of
`SecurityRelayState`; timestamps are kept as ages and remaining times, moved by `Tick` and
saturated where the code stops telling values apart. `pending` is the call that waits for the
manager's lock, with the age of the clock it read before waiting; callers hold the lock of the
detection state manager, so there is one at most. `write` is the relay write in progress:
`_execute_relay_write_locked` sleeps between attempts *without releasing* the manager's lock,
so the lock is free exactly when `write = Idle`, but alerts, which only take the board's lock,
come in between.

| Action | Code |
|---|---|
| `DetectionIgnored`, `DetectionRefreshed`, `DetectionAccepted`, `DetectionCleared` | `handle_detection_event` and its two handlers: debounce, refresh of an active source, a new source with its ON write, a clear |
| `WorkerPass`, `WorkerFailsafe` | one pass of `_worker_loop`: expiry, then the failsafe, the recovery of an ACTIVE state or the due countdown |
| `Attempt`, `GiveUp` | an attempt with its read-back; the end of the attempts, with the forced OFF |
| `ForceOffAtStartup`, `StopManager`, `CleanupBoard` | what `StreamingAgent.start` and `stop` do with manager and board |
| `TriggerAlert`, `EndAlert`, `QrClearsAlert` | alerts that share the outputs (`RELAY_ALLOW_SHARED_ALERT_OUTPUTS`) |

`Alarm` is what all of this looks like from outside: who is `present`, whether the alarm asks for
the relays (`asserted`), whether they were on when last verified (`lit`), whether their hold is
being counted down (`ending`), and for how long all has been `calm`. It knows no lock, attempt,
deadline or event. While something is present it can be raised and not withdrawn (`Raise`,
`Withdraw`, `ShutDown`); relays that are on are withdrawn only when the hold is over, or when
`Patience` is; the countdown begins with the last departure, or again with a late clear, always
with relays that are on, and ends with a new arrival, a verified OFF or when it is given up.
`SecurityRelay!Promise` maps the manager to it: `active`, the security source on the board,
`relayActive`, `WAITING_OFF`, `quiet`, and the phase. `ShutDown` withdraws at any time, because
`StreamingAgent.stop` cleans up the board whatever is detected.

### DetectionPipeline

`scene` is what the cameras show now, the one input, which changes at any time: evidence of a
human, and the view of each camera with a tamper detector. `Seen` is what the classifiers make
of the evidence: a blob that may be a hand counts only with the support of another classifier, a
weak score of the model only for a person already believed in, and the model runs on some frames
only. `baseline` is what a tamper detector has learnt; `Tampered` compares the view with it, so
that a camera that was covered when it learnt is not tampered with. `human` and `tamper` are the
detectors' own state, `flag` and `pubAge` that of the state manager; a debouncer keeps only the
fields that its next decision reads. `PersonFrame` is the detector's loop on a frame,
`UpdateLedState` its decision, complete with the report; `StalePerson` the poll between frames;
`TamperFrame`, `StaleTamper` and `PauseTamper` the three ways into `_update_tamper_state`.
`Report` is `_update_signal_locked`: it publishes, through `SecurityRelay!Publish`, a change or a
refresh that is due. The frames of a live camera are at most `FrameGap` apart; a lost camera stays
lost (the agent makes new frame buffers only for new stream objects, see the third finding). The
pause is a choice: whether a QR code is in view is not part of `scene`.

### QrLocker

A scan is a record in `scans` that carries the program counter of its validation thread
(`job`) and of its unlock cycle (`cycle`): no thread is joined, so both live until they end or
the process does. Each action is the stretch of code between two calls that can fail, block or
be interleaved: reserving, announcing the preliminary result, the backend's answer, the pulse,
the scan log, the failure signal, publishing, the `finally` clause; and in the cycle clearing
the alert, green, unlock, sleep, lock, dark, reset. `board` keeps what the controller believes
about the locker (`unlocked`) apart from the pin. `Stop`, `CleanupBoard`, `Exit`, `Crash` and
`Restart` are the agent around it: a stop leaves threads running into a board that is being
cleaned up, a crash leaves the pin as it is until the next start configures it. `alert` stands
for the failure alert on the shared outputs, whose own thread belongs to SecurityRelay.
Sleeps end at any time. Local duplicate suppression (off by default) refuses a token for a
while, which is a frame that reserves nothing, and so adds no behaviour.

### StreamSupervision

Stream objects are numbered as `StreamingManager.initialize` creates them. `start` and `stop`
hold the stream's lock; the monitor threads, `is_running` and `restart` use the same fields
without it, and that is what the module is about. A monitor's statements between the exit of
its ffmpeg and the restart are separate actions (`MonitorPolls` … `MonitorStarts`), and each
looks at whatever process the stream has *then*. So are those of `restart`, which looks at
`restart_attempts`, counts or resets it, and starts the stream with no lock held (`MonitorChecks` …
`MonitorStarts`, `WatchdogCounts`, `ReconnectResets`): two threads may both take the last attempt, so
that `max_restart_attempts` is no bound. Several monitors of a stream that are about to
do the same thing are alike, so `monitors` counts them per stream and step. Stop may raise: a
process that outlives SIGKILL makes `wait` raise a second `TimeoutExpired`, with a different
effect on each caller.

One assumption on time is made: the two seconds that `restart` sleeps are longer than a
monitor needs for the few statements between the end of stderr and its look at
`_stop_requested` (`Slept`). `restart_all` starts the stream without a sleep, and no such
assumption is made there (`Noticed`).

### ReconnectPolicy and NetworkAgent

`ReconnectPolicy` holds the pure choices: conversions of signals, which saved networks are
candidates and in which orders they may be tried, when to leave a network for a stronger one, how
long a failed network is left alone.

In `NetworkAgent` every thread carries in `todo` the calls it still has to make. `Step(t)`
executes the first, which may put others in front; a step is what happens between two blocking
calls, so the reading of the Wi-Fi status is one step with the judgement that follows from it, but
activating a network, checking the internet and starting or stopping BLE are steps of their own.
`_transition_to` sets the state under a lock and enters it outside: `Transition` sets it and
leaves the entering (`OnEnter`) as calls, between which another thread may make its own
transition. `commandLock` is held from `Try` or `RemoteLocks` to `Release` or the answer; a
phone's request does not take it. `wifi` is NetworkManager and the air: `drop` ends the old
association, `join` makes the new one, fails, or is overtaken by another activation.

The BLE server is a thread of its own with the states of `Server`. `StartBle` is refused while an
old thread lives; `StopServer` is asynchronous; a stop that comes before the thread has started is
cleared by it (`ServerRuns`); registration may fail or be canceled. `BleRestartDue` and
`BleTimesOut` are the timers of the recovery loop.

| Actions | Code |
|---|---|
| `Startup` … `StartLoops`, `Sees`, `SawNetwork`, `JudgeOnline` … | the startup flow; `_handle_wifi_observation` |
| `Best`, `Scanned`, `Try`, `TriedAndOnline`, `TriedInVain`, `Release` | `_attempt_best_saved_reconnect` and the attempt with one network |
| `Recover` … `Recovered` | `_recover_connection`: first attempts, the fallback to BLE, its loop of timers |
| `RemoteConnect` … `RemoteAnswer` | `_handle_wifi_connect`: connect, late success, fallback to the old network, answer |
| `Roam`, `Hold` | roaming to a better saved network and the hold after a connection |
| `PhoneConnects`, `PhoneAnswered`, `Provisioned` | a request over BLE and what follows once the phone has been notified |
| `AirChanges`, `AutoJoin`, `HotspotStarts`, `ServerFails`, timers | the environment |

### MqttManager and Outbox

Publishers, the library's network thread, the reconnect loop and a reboot's worker meet in
`_connected`, the queue and the library. The network thread runs every callback; `net` is what its
callback still has to do, so that anything can come between two tasks, for instance between
setting `_connected` and the flush, or between two messages of the flush. `publish` is two steps:
it looks at `is_connected()` (`BeginPublish`), and then publishes or queues. `store` is what the
library has taken and not delivered: messages of QoS 1 survive a lost connection in it, and a
`publish` that fails may leave its message there all the same. `inbound` are the commands the
broker holds for the session until they are acknowledged, which the library does after all
handlers have returned. `willDue`, `status` and `announced` are the last will and the retained
status. A restart of the process forgets everything in memory.

`Outbox` is what callers rely on: a message given to `publish` is in the `queue`, in the hand of the
flush (`sending`) or with the library (`sent`) until it is delivered. The library gives nothing up,
and the queue only two things: the queued message of a topic, to another of that topic queued after
it (`Queued`), and one message to make room, when it holds `Cap` others (`Enqueue`). The newest
message of a topic is therefore not lost to an older one, with one exception that the code has: a
message that could not be sent is queued again (`Retry`), and takes the place of one of its topic
that was queued while it was being sent. `MqttManager!O` maps `pending`, the flush in progress and
`store` to these places.

## The runs

Twelve runs: eight that pass and four that find a violation. The relay manager and the QR scanner
have two passing runs each, so that each instance stays small. All runs keep deadlock checking
on but the two of StreamSupervision, where a rebuild that found no camera leaves no thread behind
but the agent's own; the passing runs take every action between them.

| Run | Instance | Distinct states | What it shows |
|---|---|---|---|
| `relay` | two sources, outputs exclusive; up to three GPIO writes that stick or raise | 97,280 | `TypeOK`; `RegistryConsistent`: ACTIVE exactly while a source is active, last events of exactly these; `KeepsPromise`: the manager implements Alarm; `HoldHonoured`: no timeout OFF before `timeout_seconds` of quiet (less the wait for the lock); `LitIsKnown`: between writes a lit relay is one the manager will turn off; `NeverSilenced`: the security source leaves the board only with no detection active; `SilenceEndsAlarm`: quiet detectors lead to relays that are off for good |
| `relay_shared` | one source, the `qr_failure` alert on the same outputs, writes that stick, relays that the last process left lit | 25,990 | `AlertsSurviveSecurityWrites`; `AlertHasWorker`: an alert on an output has a thread to end it; `AlarmReleased`: alerts cannot keep the security source asserted, unless an ON write stuck on every output (below); `OffAfterShutdown`: also of relays that were lit before the start, once the GPIO is configured |
| `relay_recovery` | one source, writes that stick or raise | violation | `WorkerRecovers`, first finding |
| `pipeline` | a hand that the model supports on some frames, one camera with tamper and QR scanning, covered or not when it learns and moved or covered later, no faults | 200,832 | `PipelineTypeOK`; `NoGhostSource`: what keeps the relays on is what the state manager believes; `FlagsFollowDetectors`: which is what the detectors decided; `PersonKeepsSource`: a present person's source does not expire; `QuietSceneEndsAlarm`: an empty scene or a dead camera ends the alarm, also when the camera shows another picture for good |
| `tamper_expiry` | the same | violation | `TamperKeepsAlarm`, second finding |
| `qr` | two tokens, two scans, one failure | 110,689 | `OneValidationPerToken`; `CycleKeepsOpen`: nothing cuts short the time a cycle keeps the locker open; `ResultsInOrder`; `CyclesEnd`, `TokenReleased`: no failure leaves the cycle flag or a token taken for ever; `TypeOK` |
| `qr_restarts` | one token scanned twice, two failures, one shutdown or crash | 101,353 | `OpenIsKnown`: an open locker is one the controller knows to be open, unless a relock failed; `LockerRelocks`: it is locked again by its cycle, the cleanup or the next start, unless that very write fails |
| `streams` | any three of: a death or failed start, an ffmpeg that outlives SIGKILL, a reconnection, a camera event, the shutdown | 978,540 | `TypeOK`: no more watchdogs than stream objects; `StreamSettles`: the stream a watchdog looks after ends up running |
| `streams_buffers` | one death, one reconnection, one camera event, no stuck process | violation | `DetectorsFed`, third finding |
| `network` | two networks; five starts with a remote command, a phone, the scan loop, roaming, or BLE not offered again | 266,959 | `NetworkTypeOK`; `OneNetworkCommand`: only who holds the lock works on the Wi-Fi; `RemoteConnectAnswered`; `OnlineIsNoticed`, `LossIsNoticed`: a lasting change reaches the state; `BleOffWhenConnected`; `BleOffered` |
| `network_cut_off` | the locker at home, its scan loop, one change on the air | violation | `NeverCutOff`, fourth finding |
| `mqtt` | eight starts: messages of one topic or two, the status with a session the broker may lose, commands of each kind, a restart, a reboot | 409,448 | `MqttTypeOK`: the queue holds one message of a topic; `HandledOnce`; `HandlerNeverWaits`; `KeepsMessages`: the manager implements Outbox; `QueueDrains`, `OnlineSettles`, `Reconnects` |

### Bounds

*Time.* A unit is a poll of the worker. What matters is the order in which deadlines can fall,
so the constants are the smallest with every order the code's settings allow: in `relay`
`Failsafe` (4) is longer than `Timeout` and `SourceTTL` (3), so that countdown, expiry and
failsafe each can be the one that ends an alarm, and the last write can fail in each of them;
`MaxDelay` (1) lets a clock reading be older than the lock. In `pipeline` every threshold is as
small as it can be while its streak still takes more than one frame where the code's setting
does (tamper), and `SourceTTL` is above what `RefreshBeatsExpiry` asks for (see the proofs), as
the defaults are; with less, refreshes cannot keep a source alive at all.

*Actors.* Two detection sources are needed for one to clear or expire while the other holds the
alarm; a third would only repeat this. Two scans are enough for two decoders, two validation
threads and two cycles to overlap in every way, since every condition of the code is about the
same token, the running cycle or the locker's level. One stream with one camera event gives two
stream objects with their own monitors and watchdogs, with reconnection and shutdown besides.
`MaxTroubles` bounds how many of these come in one behaviour: three are needed for a thread that restarts the
stream to be overtaken by a second while a third replaces the object, and `Init` chooses which
three. One attempt per series makes every second restart give up.

*Starts.* The network agent and the MQTT manager have more kinds of events than can be combined:
their instances are a set of starts, each a different question with one or two events, chosen by
`Init`. Two networks are what roaming and the fallback of a remote connect need; an event more
multiplies the states by the number of threads it can fall between. Two messages of one topic and
one of another exercise replacement and overflow of a queue of two; with one remembered command id
(`Window`, 1000 in the code, of which `Kept`, 500, survive a cut) the window is always full.

*Scenes.* The evidence of `pipeline` is a hand-like blob with or without a person the model sees,
so that the one channel confirms the other, and hand and person are debounced side by side.
`FrameGap`, `BaselineFrames` and the trigger are one.

*Failures.* `MaxFaults` is larger than `RetryCount - 1` where a property depends on a write
whose attempts all fail: in `relay` three faults exhaust the three attempts of a write (each may
stick or raise; an ON write has two outputs). In `relay_recovery` two faults are enough for both
outputs to raise. `qr_restarts` has a second failure so that a relock, a cleanup or a start can
fail after something else did.

*Why faults run out.* Liveness is claimed of a GPIO that stops failing; `SilenceEndsAlarm` and
`LockerRelocks` say what remains of earlier failures then.

### Fairness

- SecurityRelay: weak fairness of handling a pending call, the worker, the relay write, the
  clock, the forced OFF of the start and the end of each alert. These are threads that are never
  blocked except by the lock, and the lock is released at the end of each bounded write.
  Nothing is assumed of detectors, alerts or shutdown.
- DetectionPipeline: in addition, detector threads go on processing frames while frames arrive
  and polling while they do not (their loops have no exit but `stop`). Strong fairness of a frame
  that brings the baseline to what the camera shows: each frame moves it by a share of the
  difference (`accumulateWeighted`), so that a picture seen over and over again becomes it.
- QrLocker: each thread goes on, the backend's answer is bounded by the request's timeout, a
  shutdown goes on, and the agent is restarted (`Restart=always` in
  `deploy/systemd/smartlocker-streaming-agent.service`). Nobody has to show a code.
- NetworkAgent: weak fairness of every thread, of the BLE server's and of the timers; strong
  fairness of a retry and of a BLE restart that is due in pass after pass of the recovery loop,
  since the clock goes on while the loop does. None of changes on the air, of NetworkManager's
  autoconnect, of commands and phones.
- MqttManager: weak fairness of the network thread, the reconnect loop, stop, publishers, and of
  the library's deliveries; the broker publishes a will and a status it was sent. None of the
  network between locker and broker.
- StreamSupervision: the monitors of every stream, every watchdog, the rebuild, the reconnection
  and the shutdown go on while the process lives; of several monitors of a stream that can go on,
  one or another does. Deaths, events and the shutdown itself need not come.

### What the conditions in the properties stand for

`OffAfterShutdown` is checked with writes that stick but do not raise: when a write of
`cleanup` raises, `gpio.cleanup()` is skipped and the pins keep their level. It counts from when the
GPIO is configured: that drives the pins inactive, whatever level the last process left (pins may be
lit in `Init` on a board that is not configured yet), and without it nothing in the process reaches
the relays. `AlarmReleased` excuses an ON write of which every attempt stuck on every output: the
read-back says that no relay is lit, so that a clear finds nothing to turn off, and the security
source stays asserted on dark outputs until the next alarm. `AlertHasWorker`
likewise: a write that raises in `trigger_alert` leaves the source asserted with no thread to
release it. `LockerRelocks` and `OpenIsKnown` excuse the failure of the very write that should lock:
after one the controller takes an open locker for locked (`relay_controller.py:230`), which is listed
as a hazard that no property covers. `LitIsKnown`
holds although raising writes leave the remembered level wrong, because the forced OFF writes
the pins directly. `StreamSettles` is about a stream with a running watchdog: a rebuild ended by
a `stop` that raised leaves no watchdog, and then nobody starts the stream until the next
camera event or reconnection. These cases are listed as hazards.

`QuietSceneEndsAlarm` calls a scene quiet in which a hand-like blob is seen, because alone it does
not count, and in which every camera shows a picture. The run has `SceneChange` on, the harder case:
a camera that was turned away is tampered with until its baseline has drifted to the new view. (The
deployed units have it off: then a picture is never a tamper.)

`BleOffered` needs `ble_reenable_after_timeout`, the default; without it the locker gives up
after the timeout. `BleOffWhenConnected` is about `_ble_active`: the server itself may run on when
the stop came before its thread (`ble/server.py:90`), until its timeout. `OneNetworkCommand` leaves
out the phone, which does not ask for the lock. `Reconnects` excludes two repetitions the code
allows for ever: the loop and the library, which both reconnect, dropping each other's connection
(`mqtt_manager.py:353`), and a remote `mqtt/reconnect` that closes the connection before it is
acknowledged and so is sent again (`qbox_control.py:100`). `QueueDrains` asks for connections made
again and again, since a message queued just after the flush waits for the next one. The newest
message of a topic winning is *not* claimed: a message published while the flush runs overtakes
the one that is being flushed, which, if it cannot be sent, even replaces it in the queue
(`mqtt_manager.py:445`). Nor is an answer: a command whose handler raised is not handled
again, and a command *without* an id is handled by both subscriptions (`mqtt_client.py:86`). `HandledOnce` is
checked with one unacknowledged command at a time: an id is never evicted from the window while its command can
still come again, which with windows of 1000 and 500 (`mqtt_client.py:208`) is what the code
relies on.

## Findings

1. **The ON recovery does not write** (`relay_recovery`). `_apply_red_locked` and
   `_apply_buzzer_locked` record the level before the write. Once both writes of an ON command
   have raised, every later command of the worker's recovery finds the levels equal and writes
   nothing: a detection goes on with dark relays although the GPIO works again.
   `tests/test_security_verification.py:93`, `test_worker_recovers_after_on_command_exception`,
   has the worker recover, with a stub in place of the controller.
2. **A tamper that goes on loses its alarm** (`tamper_expiry`). A tamper is reported once, on
   entering `ACTIVE`; only the person detector repeats its report. With
   `DETECTION_RELAY_SOURCE_TTL_SECONDS > 0` (5 s by default and in the unit under
   `app/systemmd`; the unit in `deploy/systemd` sets 0) the relay manager expires the source and
   turns the relays off, while `tamper_detected` stays true. `relay_controller.py:20` says the
   state manager drives the relays with `human_presence or tamper`.
3. **Detectors read the buffers of replaced streams** (`streams_buffers`). A camera event
   rebuilds the streams with new frame buffers, but the detectors were handed the first ones in
   `StreamingAgent.initialize` and keep them until the agent restarts. `frame_buffer.py:6`
   describes the buffer as fed by the streaming ffmpeg process.

4. **A failed roaming attempt cuts the locker off** (`network_cut_off`). Without a network,
   `_handle_wifi_observation` starts no recovery in the states `RECONNECTING`, `CONNECTING` and
   `SCANNING_SAVED_NETWORKS` (`hardware_agent/main.py:412`), which belong to somebody who is at
   work. But an attempt of the scan loop that fails leaves `RECONNECTING` behind with nobody at
   work; if the network is then gone, every later observation returns at that line, and neither a
   reconnection nor BLE is ever tried. `app/systemmd/wifi-upload-agent.service:6` says the agent
   "owns Wi-Fi recovery and BLE provisioning".

## The proofs

`tlapm` checks every theorem and lemma of the eight modules `*_proofs`, each about the module it
is named after. What they say holds for every value of the constants that the module's assumption
allows: `BoardAssumption` (the security source is not an alert; a write sticks or raises),
`RelayAssumption`, `MqttAssumption`, `QrAssumption` and `StreamAssumption` (times and bounds are
naturals, some of them positive; the sets of names do not overlap), `PolicyAssumption` (signals and
thresholds are integers in dBm), `NetworkAssumption` (finitely many networks; the two values that
are no network are not in the set), and `PipelineAssumption` (no two detectors report the same
source). These are also what TLC evaluates in the runs. `PersonKept` alone has a hypothesis about
times, `RefreshBeatsExpiry`.

| Theorem | States |
|---|---|
| *SecurityRelay* `TypeCorrect` | `Spec => []TypeOK` |
| `RegistryIsConsistent` | `Spec => []RegistryConsistent` |
| `CountdownAlwaysHasRelay` | `Spec => []CountdownHasRelay` |
| `HoldIsHonoured` | `Spec => []HoldHonoured` |
| `NeverSilencedHolds`, `AlertsSurvive` | `Spec => NeverSilenced`, `Spec => AlertsSurviveSecurityWrites` |
| `ManagerImplementsAlarm` | `Spec => KeepsPromise`: the refinement of Alarm |
| `LitRelayIsKnown` | `Spec => []LitIsKnown`, if no alert shares the outputs and `RetryCount` is at least 2 |
| `AlertsHaveWorkers`, `ShutdownLeavesRelaysOff` | `Spec => []AlertHasWorker`, `Spec => OffAfterShutdown`, if writes stick but never raise |
| *DetectionPipeline* `PipelineTypeCorrect` | `PipelineSpec => []PipelineTypeOK` |
| `FlagsFollow` | `PipelineSpec => []FlagsFollowDetectors` |
| `NoGhosts` | `PipelineSpec => []NoGhostSource` |
| `PersonKept` | `PipelineSpec => []PersonKeepsSource`, if `RefreshBeatsExpiry` |
| `PipelineImplementsRelay`, `PipelineImplementsAlarm` | `PipelineSpec => Spec`, `PipelineSpec => KeepsPromise` |
| *QrLocker* `QrTypeCorrect` | `Spec => []TypeOK` |
| `TokensValidatedOnce` | `Spec => []OneValidationPerToken` |
| `SleepKeepsOpen` | `Spec => []CycleKeepsOpen` |
| `OpenLockerIsKnown` | `Spec => []OpenIsKnown` |
| `ResultsAdvance` | `Spec => ResultsInOrder` |
| *StreamSupervision* `StreamTypeCorrect` | `Spec => []TypeOK`, with the bound on watchdogs |
| `StreamsAttended` | `Spec => []Attended`: no ffmpeg without a monitor |
| `RegisteredIsSupervised` | `Spec => []SupervisedIsRegistered`: no watchdog for a replaced stream |
| *MqttManager* `MqttTypeCorrect` | `MqttSpec => []MqttTypeOK` |
| `CommandsHandledOnce` | `MqttSpec => []HandledOnce` |
| `HandlersNeverWait` | `MqttSpec => []HandlerNeverWaits` |
| `ManagerImplementsOutbox` | `MqttSpec => KeepsMessages`: the refinement of Outbox |
| *NetworkAgent* `NetworkTypeCorrect` | `Spec => []NetworkTypeOK` |
| `CommandLockHeld` | `Spec => []OneNetworkCommand` |
| `FlagsAreOwned` | `Spec => []FlagsHaveOwners`: who holds the command lock has a call before it that ends with its release, a recovery in progress is still in its round, a remote command has its answer to give |
| *ReconnectPolicy* `SignalToDbmRange`, `NormalizeIsIdempotent`, `CandidatesAreEligible`, `OneCandidateEach`, `BestIsStrongest`, `NoPingPong`, `SwitchesUpwards` | what its operators return |

### The relay manager and its board

*The board.* `Drives(R, b)`: every outcome in `R` is a board with the sources of `b`. It is
shown of a write, of `Apply` and of both together, from which follow the lemmas the manager's
proofs use: turning security on asserts its source (`SetSecurityAsserts`), and alerts leave it
alone (`SetAlertKeepsSecurity`, `DropAlertKeepsSecurity`). Further families of lemmas say in the
same way which pins an operation may light or darken, and what it can do when no write raises.

*The manager.* `RegistryConsistent` and `CountdownHasRelay` are not inductive alone. A write
that ends a timeout clears the registers and goes to `IDLE`, and a forced OFF that succeeds sets
`relayActive` to FALSE; that this does not happen to a state in which a source is active, or a
countdown is running, follows only from what the write in flight was begun for. The invariant
`StateInv` therefore adds `WriteMatchesState`: an ON write belongs to a non-empty set of
sources, a timeout OFF to `WAITING_OFF`, a forced one to `IDLE`. It is preserved because every
other action needs the lock: the proof is, action by action, the argument that the lock is held
over the retries and their sleeps.

*The hold.* `HoldHonoured` speaks of the moment a timeout OFF is begun; `HoldInv` says of the
whole countdown that the time left and the quiet time add up to `Timeout`, less the delay of the
call that started it (`offIn + quiet + MaxDelay >= Timeout`), and that a source being active
means no quiet time.

*Never silenced.* Only `Attempt`, `GiveUp` and the cleanup can release the security source, and
the first two do so only when the write is an OFF, for which `StateInv` gives `active = {}`.

*The promise.* That `Spec` implements Alarm needs two facts beyond `StateInv` and `HoldInv`,
collected in `PromiseInv`. `TimelyOff` is about the failsafe, which looks at the age of the state
and not at the detections: without a source it has been quiet for at least as long as the state has
lasted, so that what the failsafe forces off is over. `NothingYet`: before the forced OFF of the
start nothing has been detected and nothing is on, so that this OFF, which asks for no hold,
withdraws an alarm that was never verified. Then an attempt of a write is a `Withdraw`
(`OffWithdraws`) or a `Raise` (`OnRaises`), depending on what it was begun for; an attempt that
raises on one output is one of them or a stutter, since `asserted` is what either output's sources
say. A failsafe is an `Abandon`, a pass that only begins a write a stutter. `PromiseNext` goes
through the actions.

*A lit relay is known.* An OFF, forced or not, lights nothing. An ON write may light the red
output and then raise on the buzzer, which leaves a lit relay and a manager that does not know.
The next attempt finds both levels recorded, writes nothing, reads the pins and takes the relay to
be on. `KnownInv` says just that: a relay lit unknown to the manager is one whose ON write still
has an attempt left. With a single attempt per write the property would be false, hence
`RetryCount >= 2` (the default is 3).

*Alerts.* While no write raises, `trigger_alert` starts a worker for whatever it asserts, so that
the alert sources on the board being a subset of `alerts` is inductive. An output that an alert
asserts is never written off by the surveillance, whatever fails: `AlertsSurvive` needs no
condition.

*Shutdown.* `cleanup` releases everything, and nothing lights a relay of a board whose GPIO is
closed. What could come after is the manager's write: but a manager that was stopped begins no
OFF, and an ON write behind the cleanup finds GPIO not available. `Stopped` and `Released` are
these two facts.

### The pipeline

`PipelineStepsRelay` shows that each step of the pipeline is a step of SecurityRelay or leaves
its variables alone, so that the manager's invariants hold there too (`RelayInPipeline`).
`FlagsFollowDetectors` is inductive with the types: `AlarmsAreReported` says that a tamper
detector's step that enters or leaves an alarm reports it, and every other does not change the
flag. For `NoGhostSource` the invariant must say what is on its way: `EventsInv`, the event in
flight tells what the flag says, and a source the relay manager has and the flag denies is about
to be cleared. It holds because the state manager's lock is held until the relay manager has
handled the event, and because clear events are never debounced.

`PipelineStepsRelay` also gives the refinement as a theorem, `PipelineSpec => Spec`, and with the
one above the pipeline implements Alarm: two refinements composed.

*A person keeps the source.* Nothing orders frames, refreshes, the debounce and the expiry but
time, and whether a present person's source survives is a sum of times. `PersonInv` keeps the
account: as long as frames arrive and the person is believed in, the age of the person's last event
is bounded by the age of the last publication and of the last frame (`RegisteredIsFresh` with
`Registered` and `OnItsWay`), plus what the debounce may have eaten. A refresh that comes before
the debounce is over is dropped, *although the state manager counts it as published*; the next one
that gets through may come up to a debounce later. That is `Slack`: nothing if the debounce is not
longer than the refresh period, else `Debounce - 1`. The longest time between two events that count
is `Longest`, the slack and a refresh period, and the source is kept if
`SourceTTL > Longest + FrameGap` or the time to live is 0, which switches the expiry off. The bound
is not a convenience of the proof: one tick below it TLC finds the source lost, with debounces both
above and below the refresh period. With the defaults (time to live 5 s, debounce
1 s, refresh 0.25 s) frames may be up to some 3.7 s apart. The `ASSUME` of the theorem is this
relation alone, and the constants of `pipeline` satisfy it.

### QR codes and the locker

The invariant has three parts. `JobsInv` relates a scan's thread to the set of reserved tokens and
to the latest result; that results advance needs that a token's earlier scan is over when a later
one is reserved. `CyclesInv` says that one cycle at most is between its start and its end, that
the flag is set exactly then, and that the locker is open while it sleeps. `OpenIsKnown` is
inductive with the types: the controller records the level it wants before it writes.

### The MQTT manager

Its invariant follows the network thread. `NetShape` lists the callbacks that may be pending, in
which order; `ConnectedInv` says that a command's handler runs only between the callback that
connected and the one that disconnects; `InboundInv` and `HandledInv` say that the command in hand
is the first the broker holds and that its id is remembered before its handler runs. The refinement
needs only the types and `NetShape` of this invariant. The queue is a sequence with one message of a topic at most,
`Outbox!queue` its range, so that the lemmas about it say that what `QueuePublish` does to the
sequence is an `Enqueue` of the set (`Queued`), and taking its head a `Take` (`FlushTakes`); `RangeCount`
turns its length into the number of messages, which is where the queue being full comes from. That
every step is a step of `Outbox` or a stutter is then shown action by action: a flush that fails is
a `Retry`.

### Streams and networks

The attempts are only a number: each of `restart`'s users looks at them before it counts, and with
no lock in between several may count beyond `max_restart_attempts`, which is harmless: the next look
finds the limit reached all the same, gives up and resets them. `RebuildHasStream` is what bounds the watchdogs, `ReconnectHasStream` says
that `restart_all` restarts a stream that exists.
`Attended` is inductive by itself: an ffmpeg that is taken to be running has a monitor watching it,
one that has exited a monitor about to say so. Every step that starts an ffmpeg, ends one, or moves a
monitor changes one stream only (`OnlyAt`), so that the proof is about that stream; a monitor that
restarts its stream while another thread starts it leaves two monitors, never none. `Supervision`
adds to `SupervisedIsRegistered` where a rebuild is: as long as it goes on no watchdog supervises,
and there are as many watchdogs as stream objects except between the step that makes the object and
the one that starts its watchdog.

The policy's theorems are about arithmetic on signals: the percentages of one library and the dBm
of the other share one integer type, and the hysteresis is what excludes ping-pong.

*The network agent.* A thread of NetworkAgent may have any number of calls before it, so that the
invariant speaks of sequences. `Fits`: every call is sound for its thread (one about a network
names a network; a phone makes only calls that never touch the lock), an activation is followed by
a call that takes its outcome, and behind a call with which an attempt or a command ends (`Closing`)
no call of it remains. `TodoInv` adds that whoever has calls of the lock's holder before it holds
the lock. A call then gives the lock back without anybody being left in the middle of an
activation: that is the lemma `Releases`. Who takes the lock finds it free, so that nobody had
such calls (`FreeMeansIdle`). `recovering` belongs to the invariant too: a recovery begins by
writing the calls of its thread anew, which is harmless because that thread has none as long as no
recovery is in progress.

`FlagsAreOwned` goes the other way: not who may hold the lock, but that what is held is given back.
`FlagsHaveOwners` says it of all three flags that make others stand back (`_command_lock`,
`_recovery_in_progress`, `_manual_connect_active`), over the names of the calls a thread has before
it (`Tasks`), and is not inductive. An attempt that turns out online drops the rest of its thread's
round (`Finish`): were a release behind a call of that round, it would be lost with it. So `Apart`
adds that what an attempt still has to do is never behind a call of a startup or a recovery
(`Orderly`), that a remote command makes no attempt of that kind, and that the scan loop waits for
the startup to end, whose last step writes its calls anew. That a recovery begins with its thread
idle is `TodoInv`'s. TLC has found the whole invariant to hold in the instance of the run `network`.

### Only model-checked

Liveness, which is beyond this prover, and with it the fairness of every run: `SilenceEndsAlarm`,
`AlarmReleased`, `QuietSceneEndsAlarm`, `CyclesEnd`, `TokenReleased`, `LockerRelocks`,
`StreamSettles`, `RemoteConnectAnswered`, `OnlineIsNoticed`, `LossIsNoticed`, `BleOffWhenConnected`,
`BleOffered`, `QueueDrains`, `OnlineSettles` and `Reconnects`. Every invariant and every action
property of a passing run is a theorem. The findings are counterexamples of TLC.

## What is not modelled

Streaming agent: errors while *reading* pins; the manager a second constructor stops; a
detector's own `stop()` (a late report after shutdown *is* modelled) and a classifier that raises,
which counts as an empty frame; the smoothing of the model's score and the baseline of the near
object, whose outcomes are part of the scene; the sources that manual commands of the remote
control and the inspection agent assert; the face and hand flags, which publish nothing; the QR
payload parser, whose verdicts are inputs; the QR scanner's camera managers, metrics and attention
window; two cameras sharing one watchdog; the debounce of camera events (an ignored event changes
nothing); status messages of the stream publisher.

Hardware agent: Wi-Fi radio power; the hotspot state beyond its start; a network that is kept for
a phone that was not notified; the throttle of `main.py:954`; the post-connect roaming check's own
thread, which the scan loop's roaming stands for; publication of status and scans;
`_retry_saved_networks_without_ble`, which nothing calls; the file of saved networks.

MQTT: the retained `mqtt_status` topic and what is announced by a graceful stop; a subscription
made while connected; a `disconnect()` from another thread that ends the library's loop; factory
reset and the other device actions. The check and the `disconnect` of a forced reconnection are
one step. The periodic snapshots of status are ordinary messages.

Whole components: those with status `not_modelled` in `PROJECT.json`. The inspection agent is
next in the plan. The rest are wrappers around system calls, HTTP routes and configuration, with
no state that several steps share.

## The plan

What is left, in the order of what it would add:

1. **Backend state** – registration and telemetry each load, change and save the same state file
   (`services/backend_sync.py:282`), from different processes: a registration between the two
   loses to the telemetry that began before it.
2. **InspectionLease** – the streaming service stopped and started around tests, with `systemctl`
   timeouts and a crash in between: the service runs again.
3. **Proofs** – what is still only model-checked, see the end of the section on proofs.
