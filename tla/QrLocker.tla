------------------------------ MODULE QrLocker ------------------------------
(***************************************************************************)
(* From a QR code in front of the external camera to the locker relay and  *)
(* back.  Two decoders, the scan loop and the OpenCV fallback worker, hand *)
(* tokens to the scanner; each accepted token gets a validation thread     *)
(* that asks the backend, pulses the relay controller, writes the scan log *)
(* and publishes the result; each pulse that is not ignored gets an unlock *)
(* cycle: a thread that opens the locker, sleeps and locks it again.  None *)
(* of these threads is joined, so that shutdown and crashes meet them      *)
(* anywhere.  A sleep ends at any time.  Local duplicate suppression, off   *)
(* by default, refuses tokens for a while: a frame in which nothing new is *)
(* decoded.                                                                *)
(***************************************************************************)
EXTENDS Naturals, Sequences

CONSTANTS Token,          \* debounce keys
          SignalFailures, \* failure_signal_enabled and allow_shared_alert_outputs
          MaxScans,       \* bound: tokens reserved in a behaviour
          MaxFaults,      \* bound: GPIO writes and starts, and scan log writes, that fail
          MaxStops        \* bound: shutdowns and crashes

ASSUME QrAssumption == /\ SignalFailures \in BOOLEAN
                       /\ MaxScans \in Nat /\ MaxFaults \in Nat /\ MaxStops \in Nat

Decoder == {"scan loop", "fallback"}

VARIABLES
  phase,       \* the process: "up", "stopping" (scanner stopped), "cleaned" (board cleaned), "down"
  decoder,     \* decoder -> "idle" between two frames, "announcing" the token it has reserved,
               \* or "late": stopped with a frame in hand
  scans,       \* every token reserved: by whom, its validation thread (job) and its unlock cycle
  processing,  \* _processing_keys
  latest,      \* _latest_result
  cycling,     \* _qr_success_running
  alert,       \* the shared outputs remembered as on for the qr_failure alert
  board,       \* enabled; the remembered levels green and unlocked; the locker's pin
  faults,      \* failures left
  stops,       \* shutdowns and crashes left
  lockFailed   \* history: a write that should have locked the open locker failed

scanner == <<decoder, scans, processing, latest>>
relay   == <<cycling, alert, board, lockFailed>>
vars    == <<phase, scanner, relay, faults, stops>>

NoResult == [scan |-> 0, final |-> FALSE]
JobStep   == {"reserved", "validating", "accepted", "pulsed", "denied", "failing",
              "publish", "release", "done"}
CycleStep == {"none", "clear", "green", "unlock", "open", "lock", "dark", "reset", "done"}

Outputs   == {"red", "buzzer"}

Scan(t, d) == [token |-> t, by |-> d, job |-> "reserved", cycle |-> "none"]
Alive   == phase # "down"

Init ==
    /\ phase = "up"
    /\ decoder = [d \in Decoder |-> "idle"]
    /\ scans = << >> /\ processing = {}
    /\ latest = NoResult
    /\ cycling = FALSE /\ alert = {} /\ lockFailed = FALSE
    /\ board = [enabled |-> TRUE, green |-> FALSE, unlocked |-> FALSE, pin |-> FALSE]
    /\ faults = MaxFaults /\ stops = MaxStops

---------------------------------------------------------------------------
(* The relay controller. *)

\* What a GPIO write does: it works, it is verified as failed, or it raises.
Effect == {"works"} \cup (IF faults > 0 THEN {"sticks", "raises"} ELSE {})
Spend(effect) == faults' = IF effect = "works" THEN faults ELSE faults - 1

\* _write on the locker's pin, with the history variable.
WriteLocker(b, unlocked, effect) ==
    LET obeyed == b.enabled /\ effect = "works"
    IN  /\ board' = [b EXCEPT !.unlocked = unlocked, !.pin = IF obeyed THEN unlocked ELSE @]
        /\ lockFailed' = IF obeyed THEN FALSE ELSE lockFailed \/ (b.pin /\ ~unlocked)

\* unlock_locker and lock_locker: nothing to do when the remembered level is
\* the wanted one; the level is remembered before the write.  A dry run cannot fail.
SetLocker(unlocked, effect) ==
    IF board.unlocked = unlocked
    THEN effect = "works" /\ UNCHANGED <<board, lockFailed, faults>>
    ELSE /\ ~board.enabled => effect = "works"
         /\ WriteLocker(board, unlocked, effect)
         /\ Spend(effect)

\* green_led_on and green_led_off
SetGreen(on, effect) ==
    /\ board.green = on \/ ~board.enabled => effect = "works"
    /\ board' = [board EXCEPT !.green = on]
    /\ Spend(effect)

\* _clear_alert_source_locked: the outputs that are on are written, red first.
ClearAlert(effect) ==
    /\ alert = {} \/ ~board.enabled => effect = "works"
    /\ \/ effect = "raises" /\ \E output \in alert : alert' = {"buzzer"} \ {output}
       \/ effect # "raises" /\ alert' = {}
    /\ Spend(effect)

\* _signal_failure: suppressed, or pulse_failure, which writes the outputs that are not on.
SignalFailure(effect) ==
    IF ~SignalFailures
    THEN effect = "works" /\ UNCHANGED <<alert, faults>>
    ELSE /\ alert = Outputs \/ ~board.enabled => effect = "works"
         /\ \/ effect = "raises" /\ \E output \in Outputs \ alert : alert' = {"red", output}
            \/ effect # "raises" /\ alert' = Outputs
         /\ Spend(effect)

---------------------------------------------------------------------------
(* Decoding and reserving. *)

Job(j, from, to) == /\ scans[j].job = from
                    /\ scans' = [scans EXCEPT ![j].job = to]

\* Mutant: a decoder is started again while its last one is at work.
Decodes_Again(d) == phase = "up" \/ decoder[d] = "late"

\* A frame is looked at while the scanner runs; one may still be in hand when it stops.
Decodes(d) == decoder[d] = IF phase = "up" THEN "idle" ELSE "late"

Leave(d) == decoder' = [decoder EXCEPT ![d] = "idle"]

\* The last frame of a stopped decoder has no code, or one that is refused.
NothingDecoded(d) ==
    /\ Alive /\ decoder[d] = "late"
    /\ Leave(d)
    /\ UNCHANGED <<phase, scans, processing, latest, relay, faults, stops>>

\* A payload that does not parse; whatever raises is caught by the decoder's loop.
InvalidPayload(d) ==
    /\ Alive /\ Decodes(d)
    /\ Leave(d)
    /\ \E effect \in Effect : SignalFailure(effect)
    /\ UNCHANGED <<phase, scans, processing, latest, cycling, board,
                   lockFailed, stops>>

\* Mutant: a token that is being validated is reserved again.
Refused_Never(t) == FALSE

Refused(t) == t \in processing

\* _reserve_token: the check and the reservation are one critical section.
Reserve(d) == \E t \in Token :
    /\ Alive /\ Decodes(d)
    /\ Len(scans) < MaxScans
    /\ ~Refused(t)
    /\ scans' = Append(scans, Scan(t, d))
    /\ decoder' = [decoder EXCEPT ![d] = "announcing"]
    /\ processing' = processing \cup {t}
    /\ UNCHANGED <<phase, latest, relay, faults, stops>>

\* The rest of _handle_decoded_value: the preliminary result, then the validation thread.
Announce(d) == \E j \in DOMAIN scans :
    /\ Alive /\ decoder[d] = "announcing"
    /\ scans[j].by = d /\ Job(j, "reserved", "validating")
    /\ latest' = [scan |-> j, final |-> FALSE]
    /\ Leave(d)
    /\ UNCHANGED <<phase, processing, relay, faults, stops>>

---------------------------------------------------------------------------
(* _process_scan, the validation thread of scan j. *)

\* Mutant: the token is given free as soon as the backend has answered.
Validated_TokenFreed(j) == \E answer \in {"accepted", "denied", "failing"} :
    /\ Alive /\ Job(j, "validating", answer)
    /\ processing' = processing \ {scans[j].token}
    /\ UNCHANGED <<phase, decoder, latest, relay, faults, stops>>

\* The backend accepts, denies, or the request, its status or its body raises.
Validated(j) == \E answer \in {"accepted", "denied", "failing"} :
    /\ Alive /\ Job(j, "validating", answer)
    /\ UNCHANGED <<phase, decoder, processing, latest, relay, faults, stops>>

\* Mutant: the running cycle is not looked at.
MayCycle_Always == TRUE

MayCycle == ~cycling

\* pulse_success: qr_success is ignored while a cycle is running.
Pulse(j) ==
    /\ Alive /\ scans[j].job = "accepted"
    /\ scans' = [scans EXCEPT ![j].job = "pulsed",
                              ![j].cycle = IF MayCycle THEN "clear" ELSE @]
    /\ cycling' = TRUE
    /\ UNCHANGED <<phase, decoder, processing, latest, alert, board,
                   lockFailed, faults, stops>>

\* write_scan_log after a pulse; an exception sends the scan down the failure path.
LogPulse(j) == \E effect \in Effect \ {"sticks"} :
    /\ Alive /\ Job(j, "pulsed", IF effect = "raises" THEN "failing" ELSE "publish")
    /\ Spend(effect)
    /\ UNCHANGED <<phase, decoder, processing, latest, relay, stops>>

\* _signal_failure and write_scan_log, either of which may raise.
SignalAndLog(j, from, raised) == \E effect \in Effect :
    /\ Alive
    /\ SignalFailure(effect)
    /\ UNCHANGED <<phase, decoder, processing, latest, cycling, board,
                   lockFailed, stops>>
    /\ \/ effect # "raises" /\ Job(j, from, "publish")
       \/ effect = "raises" /\ Job(j, from, raised)

LogRaises(j, from, raised) ==
    /\ Alive /\ faults > 0
    /\ Job(j, from, raised)
    /\ faults' = faults - 1
    /\ alert' = IF SignalFailures THEN Outputs ELSE alert
    /\ UNCHANGED <<phase, decoder, processing, latest, cycling, board,
                   lockFailed, stops>>

\* Denied: what raises is handled like a failed validation.
Deny(j) == SignalAndLog(j, "denied", "failing") \/ LogRaises(j, "denied", "failing")

\* Mutant: an exception in the handler loses the scan.
AfterFailure_Lost == "done"

AfterFailure == "release"

\* The exception handler: what raises here leaves the result unpublished.
Fail(j) == \/ SignalAndLog(j, "failing", AfterFailure)
           \/ LogRaises(j, "failing", AfterFailure)

\* _publish_result: exceptions of the MQTT publication are caught.
Publish(j) ==
    /\ Alive /\ Job(j, "publish", "release")
    /\ latest' = [scan |-> j, final |-> TRUE]
    /\ UNCHANGED <<phase, decoder, processing, relay, faults, stops>>

\* The finally clause.
Release(j) ==
    /\ Alive /\ Job(j, "release", "done")
    /\ processing' = processing \ {scans[j].token}
    /\ UNCHANGED <<phase, decoder, latest, relay, faults, stops>>

---------------------------------------------------------------------------
(* _qr_success_worker, the unlock cycle of scan j. *)

Cycle(j, from, to) ==
    /\ Alive /\ scans[j].cycle = from
    /\ scans' = [scans EXCEPT ![j].cycle = to]
    /\ UNCHANGED <<phase, decoder, processing, latest, stops>>

\* Any exception before the sleep is over leads to the finally clause.
Onward(effect, next) == IF effect = "raises" THEN "lock" ELSE next

CycleClearAlert(j) == \E effect \in Effect :
    /\ Cycle(j, "clear", Onward(effect, "green"))
    /\ ClearAlert(effect)
    /\ UNCHANGED <<cycling, board, lockFailed>>

CycleGreen(j) == \E effect \in Effect :
    /\ Cycle(j, "green", Onward(effect, "unlock"))
    /\ SetGreen(TRUE, effect)
    /\ UNCHANGED <<cycling, alert, lockFailed>>

CycleUnlock(j) == \E effect \in Effect :
    /\ Cycle(j, "unlock", Onward(effect, "open"))
    /\ SetLocker(TRUE, effect)
    /\ UNCHANGED <<cycling, alert>>

\* Mutant: only an exception leads to the relock.
CycleSleep_NoRelock(j) ==
    /\ Cycle(j, "open", "dark")
    /\ UNCHANGED <<relay, faults>>

CycleSleep(j) ==
    /\ Cycle(j, "open", "lock")
    /\ UNCHANGED <<relay, faults>>

\* An exception of the relock skips the green LED.
CycleLock(j) == \E effect \in Effect :
    /\ Cycle(j, "lock", IF effect = "raises" THEN "reset" ELSE "dark")
    /\ SetLocker(FALSE, effect)
    /\ UNCHANGED <<cycling, alert>>

\* Mutant: an exception of the green LED skips the inner finally clause.
AfterDark_Raised(effect) == IF effect = "raises" THEN "done" ELSE "reset"

AfterDark(effect) == "reset"

CycleDark(j) == \E effect \in Effect :
    /\ Cycle(j, "dark", AfterDark(effect))
    /\ SetGreen(FALSE, effect)
    /\ UNCHANGED <<cycling, alert, lockFailed>>

CycleReset(j) ==
    /\ Cycle(j, "reset", "done")
    /\ cycling' = FALSE
    /\ UNCHANGED <<alert, board, lockFailed, faults>>

\* The alert's own thread ends it; its failures are SecurityRelay's.
AlertEnds ==
    /\ alert # {} /\ alert' = {}
    /\ UNCHANGED <<phase, scanner, cycling, board, lockFailed, faults, stops>>

---------------------------------------------------------------------------
(* The process. *)

\* StreamingAgent.stop: the scanner takes no new frame; its threads are not joined
\* (the scan loop is, for three seconds at most).
Stop ==
    /\ phase = "up" /\ stops > 0
    /\ phase' = "stopping" /\ stops' = stops - 1
    /\ \E inHand \in SUBSET {d \in Decoder : decoder[d] = "idle"} :
         decoder' = [d \in Decoder |-> IF d \in inHand THEN "late" ELSE decoder[d]]
    /\ UNCHANGED <<scans, processing, latest, relay, faults>>

\* What cleanup's writes leave when nothing, the relock or a later write raises.
CleanedPin(raising) == CASE raising = "nothing" -> board.pin /\ ~board.enabled
                         [] raising = "relock"  -> board.pin
                         [] raising = "later"   -> board.pin /\ ~board.unlocked

\* RelayController.cleanup: after an exception the pins are not released.
CleanupBoard == \E raising \in {"nothing", "relock", "later"} :
    /\ phase = "stopping" /\ phase' = "cleaned"
    /\ raising # "nothing" => faults > 0 /\ board.enabled
    /\ raising = "relock" => board.unlocked
    /\ raising = "later" => board.green \/ alert # {}
    /\ faults' = IF raising = "nothing" THEN faults ELSE faults - 1
    /\ cycling' = FALSE /\ alert' = {}
    /\ board' = [board EXCEPT !.enabled = FALSE, !.unlocked = FALSE, !.pin = CleanedPin(raising),
                              !.green = raising = "relock" /\ @]
    /\ lockFailed' = (lockFailed \/ raising # "nothing")
    /\ UNCHANGED <<scanner, stops>>

\* The process ends and takes its threads and volatile state with it.
Ended ==
    /\ phase' = "down"
    /\ decoder' = [d \in Decoder |-> "idle"]
    /\ scans' = [j \in DOMAIN scans |-> [scans[j] EXCEPT !.job = "done", !.cycle = "done"]]
    /\ processing' = {}
    /\ latest' = NoResult
    /\ cycling' = FALSE /\ alert' = {}

Exit ==
    /\ phase = "cleaned" /\ Ended
    /\ UNCHANGED <<board, lockFailed, faults, stops>>

\* The board keeps driving the pins of a process that died.
Crash ==
    /\ Alive /\ stops > 0 /\ Ended
    /\ stops' = stops - 1
    /\ UNCHANGED <<board, lockFailed, faults>>

\* Mutant: the pins are taken over as they are.
Configured_AsIs == [enabled |-> TRUE, green |-> FALSE, unlocked |-> FALSE, pin |-> board.pin]

\* start: configuring the pins drives them inactive.
Configured == [enabled |-> TRUE, green |-> FALSE, unlocked |-> FALSE, pin |-> FALSE]

\* systemd starts the agent again; without GPIO the controller stays in dry-run mode.
Restart == \E effect \in Effect \ {"sticks"} :
    /\ phase = "down" /\ phase' = "up"
    /\ Spend(effect)
    /\ board' = IF effect = "works" THEN Configured
                ELSE [board EXCEPT !.enabled = FALSE, !.green = FALSE, !.unlocked = FALSE]
    /\ lockFailed' = (effect # "works" /\ (lockFailed \/ board.pin))
    /\ UNCHANGED <<scanner, cycling, alert, stops>>

---------------------------------------------------------------------------

JobStepOf(j) == \/ Validated(j) \/ Pulse(j) \/ LogPulse(j) \/ Deny(j) \/ Fail(j)
                \/ Publish(j) \/ Release(j)

CycleStepOf(j) == \/ CycleClearAlert(j) \/ CycleGreen(j) \/ CycleUnlock(j) \/ CycleSleep(j)
                  \/ CycleLock(j) \/ CycleDark(j) \/ CycleReset(j)

Next ==
    \/ \E d \in Decoder : \/ NothingDecoded(d) \/ InvalidPayload(d) \/ Reserve(d) \/ Announce(d)
    \/ \E j \in DOMAIN scans : JobStepOf(j) \/ CycleStepOf(j)
    \/ AlertEnds
    \/ Stop \/ CleanupBoard \/ Exit \/ Crash \/ Restart

Spec == Init /\ [][Next]_vars

\* Every thread keeps running, the backend answers within its timeout, sleeps end, a shutdown
\* goes on and systemd restarts a process that ended.  Nothing makes anyone show a code.
FairSpec ==
    /\ Spec
    /\ \A d \in Decoder : WF_vars(Announce(d))
    /\ \A j \in 1 .. MaxScans : WF_vars(j \in DOMAIN scans /\ JobStepOf(j))
    /\ \A j \in 1 .. MaxScans : WF_vars(j \in DOMAIN scans /\ CycleStepOf(j))
    /\ WF_vars(CleanupBoard) /\ WF_vars(Exit) /\ WF_vars(Restart)
---------------------------------------------------------------------------
(* Properties. *)

\* Type invariant; a decoder is between reserving and announcing exactly while one of its own
\* scans has been reserved and has no validation thread yet.
TypeOK ==
    /\ phase \in {"up", "stopping", "cleaned", "down"}
    /\ decoder \in [Decoder -> {"idle", "announcing", "late"}]
    /\ scans \in Seq([token : Token, by : Decoder, job : JobStep, cycle : CycleStep])
    /\ Len(scans) <= MaxScans
    /\ processing \subseteq Token
    /\ latest \in [scan : 0 .. Len(scans), final : BOOLEAN]
    /\ \A d \in Decoder : decoder[d] = "announcing"
                            <=> \E j \in DOMAIN scans : scans[j].by = d /\ scans[j].job = "reserved"
    /\ cycling \in BOOLEAN /\ alert \subseteq Outputs /\ lockFailed \in BOOLEAN
    /\ board \in [enabled : BOOLEAN, green : BOOLEAN, unlocked : BOOLEAN, pin : BOOLEAN]
    /\ faults \in 0 .. MaxFaults /\ stops \in 0 .. MaxStops

LiveJobs == {j \in DOMAIN scans : scans[j].job # "done"}

\* A token is in the hands of at most one validation thread, whichever decoder saw it and
\* however the previous thread ended, and _processing_keys are exactly the tokens in hand.
OneValidationPerToken ==
    /\ processing = {scans[j].token : j \in LiveJobs}
    /\ \A i, j \in LiveJobs : scans[i].token = scans[j].token => i = j

\* While a cycle sleeps, the controller holds the locker unlocked: no other cycle, failure or
\* stop of the scanner cuts the time short that the backend granted (cleanup does).
CycleKeepsOpen ==
    \A j \in DOMAIN scans :
        scans[j].cycle = "open" /\ phase \in {"up", "stopping"} => board.unlocked

\* The locker is open only while the controller knows it, or because a relock failed: after a
\* crash, until the agent is started again.
OpenIsKnown == board.pin /\ phase \in {"up", "stopping"} => board.unlocked \/ lockFailed

\* The results of one token appear in the order of its scans, the preliminary one first:
\* wait_for_scan never wakes up for an older answer to the token it has seen.
ResultsInOrder ==
    [][ latest.scan > 0 /\ latest'.scan > 0 /\ scans[latest.scan].token = scans'[latest'.scan].token
        => latest'.scan > latest.scan \/ (latest'.scan = latest.scan /\ (latest.final => latest'.final))
      ]_latest

\* An open locker is locked again, whatever else fails, is stopped or crashes, unless the very
\* write that should lock it fails.
LockerRelocks == board.pin ~> (~board.pin \/ lockFailed)

\* A running cycle ends and lets the next accepted scan unlock the locker.
CyclesEnd == cycling ~> ~cycling

\* A token that was reserved can be scanned again.
TokenReleased == \A t \in Token : t \in processing ~> t \notin processing
===========================================================================
