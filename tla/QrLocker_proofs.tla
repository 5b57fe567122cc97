--------------------------- MODULE QrLocker_proofs ---------------------------
(***************************************************************************)
(* The safety properties of QrLocker, for every set of tokens and every    *)
(* number of scans, faults and stops.                                      *)
(*                                                                         *)
(* The inductive invariant has one part for the validation threads, one    *)
(* for the unlock cycles and one for the locker's pin.  Of two scans of    *)
(* the same token, the earlier has been dealt with (InOrder): from that    *)
(* follow both that a token is validated by one thread at most and that    *)
(* its results appear in the order of its scans.  While the controller is  *)
(* in use, _qr_success_running is set exactly while one cycle is under way *)
(* (OneCycle), so that nobody else can lock what a cycle holds open.       *)
(***************************************************************************)
EXTENDS QrLocker, TLAPS

Record == [token : Token, by : Decoder, job : JobStep, cycle : CycleStep]

\* The outputs and the bounds.
OutputsType ==
    /\ phase \in {"up", "stopping", "cleaned", "down"}
    /\ cycling \in BOOLEAN /\ alert \subseteq Outputs /\ lockFailed \in BOOLEAN
    /\ board \in [enabled : BOOLEAN, green : BOOLEAN, unlocked : BOOLEAN, pin : BOOLEAN]
    /\ faults \in 0 .. MaxFaults /\ stops \in 0 .. MaxStops

\* The scanner.
ScannerType ==
    /\ decoder \in [Decoder -> {"idle", "announcing", "late"}]
    /\ scans \in Seq(Record) /\ Len(scans) <= MaxScans
    /\ processing \subseteq Token
    /\ latest \in [scan : 0 .. Len(scans), final : BOOLEAN]

\* A decoder announces the one scan it has reserved.
Announcing ==
    \A d \in Decoder : decoder[d] = "announcing"
                         <=> \E j \in DOMAIN scans : scans[j].by = d /\ scans[j].job = "reserved"

OneReserved ==
    \A i, j \in DOMAIN scans :
        scans[i].job = "reserved" /\ scans[j].job = "reserved" /\ scans[i].by = scans[j].by => i = j

\* Of two scans of a token, the earlier one is over.
InOrder ==
    \A i, j \in DOMAIN scans : i < j /\ scans[i].token = scans[j].token => scans[i].job = "done"

InHand ==
    \A t \in Token : t \in processing <=> \E j \in DOMAIN scans : scans[j].job # "done" /\ scans[j].token = t

\* A result is shown of a scan that was announced.
Announced == latest.scan # 0 => scans[latest.scan].job # "reserved"

JobsInv == ScannerType /\ Announcing /\ OneReserved /\ InOrder /\ InHand /\ Announced

\* A cycle between its first write and the end of its finally clause.
Running(j) == scans[j].cycle \notin {"none", "done"}
InUse      == phase \in {"up", "stopping"}

OneCycle ==
    InUse => /\ cycling <=> \E j \in DOMAIN scans : Running(j)
             /\ \A i, j \in DOMAIN scans : Running(i) /\ Running(j) => i = j

\* A process that ended took its threads along.
AllEnded ==
    phase = "down" => /\ ~cycling
                      /\ \A j \in DOMAIN scans : scans[j].job = "done" /\ scans[j].cycle = "done"

CyclesInv == OneCycle /\ CycleKeepsOpen /\ AllEnded

IInv == OutputsType /\ JobsInv /\ CyclesInv /\ OpenIsKnown

---------------------------------------------------------------------------
(* What the steps do to the list of scans. *)

\* Scan j, if any, is the one that changes, and stays the scan of its token and its decoder.
Only(j) ==
    /\ scans' \in Seq(Record) /\ Len(scans') = Len(scans) /\ DOMAIN scans' = DOMAIN scans
    /\ \A i \in DOMAIN scans : /\ scans'[i].token = scans[i].token /\ scans'[i].by = scans[i].by
                               /\ i # j => scans'[i] = scans[i]

LEMMA DomainIs ==
    ASSUME scans \in Seq(Record)
    PROVE  /\ DOMAIN scans = 1 .. Len(scans) /\ Len(scans) \in Nat
           /\ \A j \in DOMAIN scans : scans[j] \in Record
OBVIOUS

LEMMA Replaced ==
    ASSUME scans \in Seq(Record), NEW j \in DOMAIN scans, NEW r \in Record,
           r.token = scans[j].token, r.by = scans[j].by, scans' = [scans EXCEPT ![j] = r]
    PROVE  Only(j) /\ scans'[j] = r
BY DEF Only

LEMMA JobMoved ==
    ASSUME scans \in Seq(Record), NEW j \in DOMAIN scans, NEW from, NEW to \in JobStep,
           Job(j, from, to)
    PROVE  /\ Only(j) /\ scans[j].job = from
           /\ scans'[j].job = to /\ scans'[j].cycle = scans[j].cycle
<1> DEFINE r == [scans[j] EXCEPT !.job = to]
<1>1. scans[j] \in Record
  BY DomainIs
<1>2. /\ r \in Record /\ r.token = scans[j].token /\ r.by = scans[j].by
      /\ r.job = to /\ r.cycle = scans[j].cycle
  BY <1>1 DEF Record
<1>3. scans' = [scans EXCEPT ![j] = r] /\ scans[j].job = from
  BY DEF Job
<1> HIDE DEF r
<1> QED
  BY <1>2, <1>3, Replaced

LEMMA CycleMoved ==
    ASSUME scans \in Seq(Record), NEW j \in DOMAIN scans, NEW from, NEW to \in CycleStep,
           Cycle(j, from, to)
    PROVE  /\ Only(j) /\ scans[j].cycle = from
           /\ scans'[j].cycle = to /\ scans'[j].job = scans[j].job
<1> DEFINE r == [scans[j] EXCEPT !.cycle = to]
<1>1. scans[j] \in Record
  BY DomainIs
<1>2. /\ r \in Record /\ r.token = scans[j].token /\ r.by = scans[j].by
      /\ r.cycle = to /\ r.job = scans[j].job
  BY <1>1 DEF Record
<1>3. scans' = [scans EXCEPT ![j] = r] /\ scans[j].cycle = from
  BY DEF Cycle
<1> HIDE DEF r
<1> QED
  BY <1>2, <1>3, Replaced

LEMMA Pulsed ==
    ASSUME scans \in Seq(Record), NEW j \in DOMAIN scans, Pulse(j)
    PROVE  /\ Only(j) /\ scans[j].job = "accepted" /\ scans'[j].job = "pulsed"
           /\ scans'[j].cycle = IF ~cycling THEN "clear" ELSE scans[j].cycle
<1> DEFINE r == [scans[j] EXCEPT !.job = "pulsed",
                                 !.cycle = IF ~cycling THEN "clear" ELSE @]
<1>1. scans[j] \in Record
  BY DomainIs
<1>2. /\ r \in Record /\ r.token = scans[j].token /\ r.by = scans[j].by /\ r.job = "pulsed"
      /\ r.cycle = IF ~cycling THEN "clear" ELSE scans[j].cycle
  BY <1>1 DEF Record, JobStep, CycleStep
<1>3. scans' = [scans EXCEPT ![j] = r] /\ scans[j].job = "accepted"
  BY DEF Pulse, MayCycle
<1> HIDE DEF r
<1> QED
  BY <1>2, <1>3, Replaced

---------------------------------------------------------------------------
(* The outputs. *)

LEMMA EffectIs == ASSUME NEW effect \in Effect PROVE effect \in {"works", "sticks", "raises"}
BY DEF Effect

LEMMA Spent ==
    ASSUME OutputsType, NEW effect \in Effect, Spend(effect)
    PROVE  faults' \in 0 .. MaxFaults
<1>1. MaxFaults \in Nat /\ faults \in 0 .. MaxFaults
  BY QrAssumption DEF OutputsType
<1>2. CASE effect = "works"
  BY <1>1, <1>2 DEF Spend
<1>3. CASE effect # "works"
  <2>1. faults > 0
    BY <1>3 DEF Effect
  <2> QED
    BY <1>1, <1>3, <2>1 DEF Spend
<1> QED
  BY <1>2, <1>3

LEMMA FailureSignalled ==
    ASSUME OutputsType, NEW effect \in Effect, SignalFailure(effect)
    PROVE  alert' \subseteq Outputs /\ faults' \in 0 .. MaxFaults
<1>1. CASE SignalFailures
  BY <1>1, Spent DEF SignalFailure, OutputsType, Outputs
<1>2. CASE ~SignalFailures
  BY <1>2 DEF SignalFailure, OutputsType
<1> QED
  BY <1>1, <1>2

\* The locker's relay after unlock_locker or lock_locker: it is remembered as asked for, and
\* whoever leaves it open otherwise has failed to lock it.
LEMMA LockerSet ==
    ASSUME OutputsType, NEW unlocked \in BOOLEAN, NEW effect \in Effect, SetLocker(unlocked, effect)
    PROVE  /\ board' \in [enabled : BOOLEAN, green : BOOLEAN, unlocked : BOOLEAN, pin : BOOLEAN]
           /\ lockFailed' \in BOOLEAN /\ faults' \in 0 .. MaxFaults
           /\ board'.unlocked = unlocked
           /\ OpenIsKnown /\ InUse => (board'.pin => board'.unlocked \/ lockFailed')
<1>1. CASE board.unlocked = unlocked
  BY <1>1 DEF SetLocker, OutputsType, OpenIsKnown, InUse
<1>2. CASE board.unlocked # unlocked
  <2> DEFINE obeyed == board.enabled /\ effect = "works"
  <2>1. WriteLocker(board, unlocked, effect) /\ Spend(effect)
    BY <1>2 DEF SetLocker
  <2>2. faults' \in 0 .. MaxFaults
    BY <2>1, Spent
  <2>3. /\ board \in [enabled : BOOLEAN, green : BOOLEAN, unlocked : BOOLEAN, pin : BOOLEAN]
        /\ lockFailed \in BOOLEAN
    BY DEF OutputsType
  <2>4. /\ board' = [board EXCEPT !.unlocked = unlocked, !.pin = IF obeyed THEN unlocked ELSE @]
        /\ lockFailed' = IF obeyed THEN FALSE ELSE lockFailed \/ (board.pin /\ ~unlocked)
    BY <2>1 DEF WriteLocker
  <2>5. /\ board' \in [enabled : BOOLEAN, green : BOOLEAN, unlocked : BOOLEAN, pin : BOOLEAN]
        /\ board'.unlocked = unlocked /\ board'.pin = IF obeyed THEN unlocked ELSE board.pin
    BY <2>3, <2>4
  <2>6. lockFailed' \in BOOLEAN
    BY <2>3, <2>4, Zenon
  <2>7. board'.pin => board'.unlocked \/ lockFailed'
    <3>1. CASE obeyed
      BY <2>5, <3>1
    <3>2. CASE ~obeyed
      BY <2>4, <2>5, <3>2
    <3> QED
      BY <3>1, <3>2
  <2> QED
    BY <2>2, <2>5, <2>6, <2>7
<1> QED
  BY <1>1, <1>2

LEMMA GreenSet ==
    ASSUME OutputsType, NEW on \in BOOLEAN, NEW effect \in Effect, SetGreen(on, effect)
    PROVE  /\ board' \in [enabled : BOOLEAN, green : BOOLEAN, unlocked : BOOLEAN, pin : BOOLEAN]
           /\ faults' \in 0 .. MaxFaults
           /\ board'.unlocked = board.unlocked /\ board'.pin = board.pin
<1>1. board' = [board EXCEPT !.green = on] /\ Spend(effect)
  BY DEF SetGreen
<1>2. board \in [enabled : BOOLEAN, green : BOOLEAN, unlocked : BOOLEAN, pin : BOOLEAN]
  BY DEF OutputsType
<1> QED
  BY <1>1, <1>2, Spent

---------------------------------------------------------------------------
(* The steps of a validation thread and of a cycle. *)

\* A thread of scan j goes on; nobody else's scan is touched.
Thread(j) == Only(j) /\ UNCHANGED <<phase, decoder, stops>>

JobEffect(j) ==
    /\ Thread(j)
    /\ scans[j].job \notin {"reserved", "done"} /\ scans'[j].job # "reserved"
    /\ processing' = IF scans'[j].job = "done" THEN processing \ {scans[j].token} ELSE processing
    /\ \/ latest' = latest
       \/ latest' = [scan |-> j, final |-> TRUE]
    /\ UNCHANGED <<board, lockFailed>>
    /\ OutputsType'
    /\ \/ scans'[j].cycle = scans[j].cycle /\ cycling' = cycling
       \/ ~cycling /\ scans'[j].cycle = "clear" /\ cycling' = TRUE
    /\ phase # "down"

LEMMA JobSteps ==
    ASSUME OutputsType, scans \in Seq(Record), NEW j \in DOMAIN scans, JobStepOf(j)
    PROVE  JobEffect(j)
<1> USE DEF Thread
<1>1. ASSUME Validated(j) PROVE JobEffect(j)
  <2>1. PICK answer \in {"accepted", "denied", "failing"} :
           /\ Alive /\ Job(j, "validating", answer)
           /\ UNCHANGED <<phase, decoder, processing, latest, relay, faults, stops>>
    BY <1>1 DEF Validated
  <2>2. answer \in JobStep
    BY DEF JobStep
  <2> QED
    BY <2>1, <2>2, JobMoved DEF JobEffect, relay, OutputsType, Alive
<1>2. ASSUME Pulse(j) PROVE JobEffect(j)
  <2>1. /\ Alive /\ cycling' = TRUE
        /\ UNCHANGED <<phase, decoder, processing, latest, alert, board, lockFailed, faults, stops>>
    BY <1>2 DEF Pulse
  <2>2. cycling \in BOOLEAN
    BY DEF OutputsType
  <2>3. scans'[j].cycle = IF ~cycling THEN "clear" ELSE scans[j].cycle
    BY <1>2, Pulsed
  <2>4. \/ scans'[j].cycle = scans[j].cycle /\ cycling' = cycling
        \/ ~cycling /\ scans'[j].cycle = "clear" /\ cycling' = TRUE
    <3>1. CASE cycling
      BY <2>1, <2>2, <2>3, <3>1
    <3>2. CASE ~cycling
      BY <2>1, <2>3, <3>2
    <3> QED
      BY <3>1, <3>2
  <2> QED
    BY <1>2, <2>1, <2>4, Pulsed DEF JobEffect, OutputsType, Alive
<1>3. ASSUME LogPulse(j) PROVE JobEffect(j)
  <2>1. PICK effect \in Effect \ {"sticks"} :
           /\ Alive /\ Job(j, "pulsed", IF effect = "raises" THEN "failing" ELSE "publish")
           /\ Spend(effect)
           /\ UNCHANGED <<phase, decoder, processing, latest, relay, stops>>
    BY <1>3 DEF LogPulse
  <2>2. faults' \in 0 .. MaxFaults
    BY <2>1, Spent
  <2>3. (IF effect = "raises" THEN "failing" ELSE "publish") \in JobStep
    BY DEF JobStep
  <2> QED
    BY <2>1, <2>2, <2>3, JobMoved DEF JobEffect, relay, OutputsType, Alive
<1>4. ASSUME NEW from \in {"denied", "failing"}, NEW raised \in {"failing", "release"},
             SignalAndLog(j, from, raised)
      PROVE  JobEffect(j)
  <2>1. PICK effect \in Effect :
           /\ Alive
           /\ SignalFailure(effect)
           /\ UNCHANGED <<phase, decoder, processing, latest, cycling, board, lockFailed, stops>>
           /\ \/ effect # "raises" /\ Job(j, from, "publish")
              \/ effect = "raises" /\ Job(j, from, raised)
    BY <1>4 DEF SignalAndLog
  <2>2. PICK to \in {"publish", "failing", "release"} : Job(j, from, to)
    BY <2>1
  <2>3. to \in JobStep
    BY DEF JobStep
  <2>4. alert' \subseteq Outputs /\ faults' \in 0 .. MaxFaults
    BY <2>1, FailureSignalled
  <2> QED
    BY <2>1, <2>2, <2>3, <2>4, JobMoved DEF JobEffect, OutputsType, Alive
<1>5. ASSUME NEW from \in {"denied", "failing"}, NEW raised \in {"failing", "release"},
             LogRaises(j, from, raised)
      PROVE  JobEffect(j)
  <2>1. raised \in JobStep
    BY DEF JobStep
  <2>2. faults' \in 0 .. MaxFaults /\ alert' \subseteq Outputs
    BY <1>5, QrAssumption DEF LogRaises, OutputsType
  <2>3. /\ Alive /\ Job(j, from, raised)
        /\ UNCHANGED <<phase, decoder, processing, latest, cycling, board, lockFailed, stops>>
    BY <1>5 DEF LogRaises
  <2> QED
    BY <2>1, <2>2, <2>3, JobMoved DEF JobEffect, OutputsType, Alive
<1>6. ASSUME Publish(j) PROVE JobEffect(j)
  <2>1. "release" \in JobStep
    BY DEF JobStep
  <2>2. /\ Alive /\ Job(j, "publish", "release") /\ latest' = [scan |-> j, final |-> TRUE]
        /\ UNCHANGED <<phase, decoder, processing, relay, faults, stops>>
    BY <1>6 DEF Publish
  <2> QED
    BY <2>1, <2>2, JobMoved DEF JobEffect, relay, OutputsType, Alive
<1>7. ASSUME Release(j) PROVE JobEffect(j)
  <2>1. "done" \in JobStep
    BY DEF JobStep
  <2>2. /\ Alive /\ Job(j, "release", "done") /\ processing' = processing \ {scans[j].token}
        /\ UNCHANGED <<phase, decoder, latest, relay, faults, stops>>
    BY <1>7 DEF Release
  <2> QED
    BY <2>1, <2>2, JobMoved DEF JobEffect, relay, OutputsType, Alive
<1> QED
  BY <1>1, <1>2, <1>3, <1>4, <1>5, <1>6, <1>7 DEF JobStepOf, Deny, Fail, AfterFailure

CycleEffect(j) ==
    /\ Thread(j)
    /\ Running(j) /\ scans'[j].job = scans[j].job
    /\ UNCHANGED <<processing, latest>>
    /\ OutputsType'
    /\ \/ scans'[j].cycle \notin {"none", "done"} /\ cycling' = cycling
       \/ scans'[j].cycle = "done" /\ cycling' = FALSE
    /\ scans'[j].cycle = "open" => board'.unlocked
    /\ OpenIsKnown /\ InUse => (board'.pin => board'.unlocked \/ lockFailed')
    /\ phase # "down"

LEMMA CycleSteps ==
    ASSUME OutputsType, scans \in Seq(Record), NEW j \in DOMAIN scans, CycleStepOf(j)
    PROVE  CycleEffect(j)
<1> USE DEF Thread, Running
<1>1. ASSUME NEW from \in CycleStep \ {"none", "done"}, NEW to \in CycleStep \ {"none"},
             Cycle(j, from, to)
      PROVE  /\ Thread(j) /\ Running(j) /\ scans'[j].job = scans[j].job /\ scans'[j].cycle = to
             /\ UNCHANGED <<phase, processing, latest, stops>> /\ phase # "down"
  BY <1>1, CycleMoved DEF Cycle, Alive
<1>2. ASSUME CycleClearAlert(j) PROVE CycleEffect(j)
  <2>1. PICK effect \in Effect :
           /\ Cycle(j, "clear", Onward(effect, "green"))
           /\ ClearAlert(effect)
           /\ UNCHANGED <<cycling, board, lockFailed>>
    BY <1>2 DEF CycleClearAlert
  <2>2. PICK to \in {"green", "lock"} : Cycle(j, "clear", to)
    BY <2>1 DEF Onward
  <2>3. "clear" \in CycleStep \ {"none", "done"} /\ to \in CycleStep \ {"none"}
    BY DEF CycleStep
  <2>4. alert' \subseteq Outputs /\ faults' \in 0 .. MaxFaults
    BY <2>1, Spent DEF ClearAlert, Outputs
  <2> QED
    BY <1>1, <2>1, <2>2, <2>3, <2>4 DEF CycleEffect, OutputsType, OpenIsKnown, InUse
<1>3. ASSUME CycleGreen(j) PROVE CycleEffect(j)
  <2>1. PICK effect \in Effect :
           /\ Cycle(j, "green", Onward(effect, "unlock"))
           /\ SetGreen(TRUE, effect)
           /\ UNCHANGED <<cycling, alert, lockFailed>>
    BY <1>3 DEF CycleGreen
  <2>2. PICK to \in {"unlock", "lock"} : Cycle(j, "green", to)
    BY <2>1 DEF Onward
  <2>3. "green" \in CycleStep \ {"none", "done"} /\ to \in CycleStep \ {"none"}
    BY DEF CycleStep
  <2>4. /\ board' \in [enabled : BOOLEAN, green : BOOLEAN, unlocked : BOOLEAN, pin : BOOLEAN]
        /\ faults' \in 0 .. MaxFaults
        /\ board'.unlocked = board.unlocked /\ board'.pin = board.pin
    BY <2>1, GreenSet
  <2> QED
    BY <1>1, <2>1, <2>2, <2>3, <2>4 DEF CycleEffect, OutputsType, OpenIsKnown, InUse
<1>4. ASSUME CycleUnlock(j) PROVE CycleEffect(j)
  <2>1. PICK effect \in Effect :
           /\ Cycle(j, "unlock", Onward(effect, "open"))
           /\ SetLocker(TRUE, effect)
           /\ UNCHANGED <<cycling, alert>>
    BY <1>4 DEF CycleUnlock
  <2>2. PICK to \in {"open", "lock"} : Cycle(j, "unlock", to)
    BY <2>1 DEF Onward
  <2>3. "unlock" \in CycleStep \ {"none", "done"} /\ to \in CycleStep \ {"none"}
    BY DEF CycleStep
  <2>4. /\ board' \in [enabled : BOOLEAN, green : BOOLEAN, unlocked : BOOLEAN, pin : BOOLEAN]
        /\ lockFailed' \in BOOLEAN /\ faults' \in 0 .. MaxFaults
        /\ board'.unlocked = TRUE
        /\ OpenIsKnown /\ InUse => (board'.pin => board'.unlocked \/ lockFailed')
    BY <2>1, LockerSet
  <2> QED
    BY <1>1, <2>1, <2>2, <2>3, <2>4 DEF CycleEffect, OutputsType
<1>5. ASSUME CycleSleep(j) PROVE CycleEffect(j)
  <2>1. Cycle(j, "open", "lock") /\ UNCHANGED <<relay, faults>>
    BY <1>5 DEF CycleSleep
  <2>2. "open" \in CycleStep \ {"none", "done"} /\ "lock" \in CycleStep \ {"none"}
    BY DEF CycleStep
  <2> QED
    BY <1>1, <2>1, <2>2 DEF CycleEffect, OutputsType, relay, OpenIsKnown, InUse
<1>6. ASSUME CycleLock(j) PROVE CycleEffect(j)
  <2>1. PICK effect \in Effect :
           /\ Cycle(j, "lock", IF effect = "raises" THEN "reset" ELSE "dark")
           /\ SetLocker(FALSE, effect)
           /\ UNCHANGED <<cycling, alert>>
    BY <1>6 DEF CycleLock
  <2>2. PICK to \in {"reset", "dark"} : Cycle(j, "lock", to)
    BY <2>1
  <2>3. "lock" \in CycleStep \ {"none", "done"} /\ to \in CycleStep \ {"none"}
    BY DEF CycleStep
  <2>4. /\ board' \in [enabled : BOOLEAN, green : BOOLEAN, unlocked : BOOLEAN, pin : BOOLEAN]
        /\ lockFailed' \in BOOLEAN /\ faults' \in 0 .. MaxFaults
        /\ OpenIsKnown /\ InUse => (board'.pin => board'.unlocked \/ lockFailed')
    BY <2>1, LockerSet
  <2> QED
    BY <1>1, <2>1, <2>2, <2>3, <2>4 DEF CycleEffect, OutputsType
<1>7. ASSUME CycleDark(j) PROVE CycleEffect(j)
  <2>1. PICK effect \in Effect :
           /\ Cycle(j, "dark", "reset")
           /\ SetGreen(FALSE, effect)
           /\ UNCHANGED <<cycling, alert, lockFailed>>
    BY <1>7 DEF CycleDark, AfterDark
  <2>2. "dark" \in CycleStep \ {"none", "done"} /\ "reset" \in CycleStep \ {"none"}
    BY DEF CycleStep
  <2>3. /\ board' \in [enabled : BOOLEAN, green : BOOLEAN, unlocked : BOOLEAN, pin : BOOLEAN]
        /\ faults' \in 0 .. MaxFaults
        /\ board'.unlocked = board.unlocked /\ board'.pin = board.pin
    BY <2>1, GreenSet
  <2> QED
    BY <1>1, <2>1, <2>2, <2>3 DEF CycleEffect, OutputsType, OpenIsKnown, InUse
<1>8. ASSUME CycleReset(j) PROVE CycleEffect(j)
  <2>1. /\ Cycle(j, "reset", "done") /\ cycling' = FALSE
        /\ UNCHANGED <<alert, board, lockFailed, faults>>
    BY <1>8 DEF CycleReset
  <2>2. "reset" \in CycleStep \ {"none", "done"} /\ "done" \in CycleStep \ {"none"}
    BY DEF CycleStep
  <2> QED
    BY <1>1, <2>1, <2>2 DEF CycleEffect, OutputsType, OpenIsKnown, InUse
<1> QED
  BY <1>2, <1>3, <1>4, <1>5, <1>6, <1>7, <1>8 DEF CycleStepOf

---------------------------------------------------------------------------
(* The steps of the decoders and of the process. *)

DecoderStep == \E d \in Decoder : NothingDecoded(d) \/ InvalidPayload(d)
ProcessStep == AlertEnds \/ Stop \/ CleanupBoard \/ Restart

\* What leaves the scans alone; a stop of the scanner may leave a decoder with a frame in hand.
LEMMA QuietSteps ==
    ASSUME OutputsType, ScannerType, DecoderStep \/ ProcessStep
    PROVE  /\ OutputsType' /\ UNCHANGED <<scans, processing, latest>>
           /\ decoder' \in [Decoder -> {"idle", "announcing", "late"}]
           /\ \A d \in Decoder : decoder'[d] = "announcing" <=> decoder[d] = "announcing"
           /\ InUse' => \/ InUse /\ cycling' = cycling /\ board'.unlocked = board.unlocked
                           /\ board'.pin = board.pin /\ lockFailed' = lockFailed
                        \/ phase = "down" /\ cycling' = cycling
           /\ phase' = "down" => phase = "down" /\ cycling' = cycling
           /\ OpenIsKnown => OpenIsKnown'
<1> USE DEF InUse
<1>1. decoder \in [Decoder -> {"idle", "announcing", "late"}]
  BY DEF ScannerType
<1>2. ASSUME NEW d \in Decoder, NothingDecoded(d) \/ InvalidPayload(d)
      PROVE  /\ UNCHANGED <<phase, scans, processing, latest, cycling, board, lockFailed, stops>>
             /\ alert' \subseteq Outputs /\ faults' \in 0 .. MaxFaults
             /\ Leave(d) /\ decoder[d] # "announcing"
  <2>1. CASE NothingDecoded(d)
    BY <2>1 DEF NothingDecoded, OutputsType, relay
  <2>2. CASE InvalidPayload(d)
    BY <2>2, FailureSignalled DEF InvalidPayload, Decodes
  <2> QED
    BY <1>2, <2>1, <2>2
<1>3. CASE DecoderStep
  <2>1. PICK d \in Decoder : NothingDecoded(d) \/ InvalidPayload(d)
    BY <1>3 DEF DecoderStep
  <2>2. /\ decoder' = [decoder EXCEPT ![d] = "idle"] /\ decoder[d] # "announcing"
    BY <1>2, <2>1 DEF Leave
  <2>3. /\ decoder' \in [Decoder -> {"idle", "announcing", "late"}]
        /\ \A e \in Decoder : decoder'[e] = "announcing" <=> decoder[e] = "announcing"
    BY <1>1, <2>2
  <2> QED
    BY <1>2, <2>1, <2>3 DEF OutputsType, OpenIsKnown
<1>4. CASE AlertEnds
  BY <1>1, <1>4 DEF AlertEnds, scanner, OutputsType, OpenIsKnown
<1>5. CASE Stop
  <2>1. PICK inHand \in SUBSET {d \in Decoder : decoder[d] = "idle"} :
           decoder' = [d \in Decoder |-> IF d \in inHand THEN "late" ELSE decoder[d]]
    BY <1>5 DEF Stop
  <2>2. /\ decoder' \in [Decoder -> {"idle", "announcing", "late"}]
        /\ \A e \in Decoder : decoder'[e] = "announcing" <=> decoder[e] = "announcing"
    BY <1>1, <2>1
  <2>3. /\ phase = "up" /\ stops > 0 /\ phase' = "stopping" /\ stops' = stops - 1
        /\ UNCHANGED <<scans, processing, latest, relay, faults>>
    BY <1>5 DEF Stop
  <2>4. stops' \in 0 .. MaxStops
    BY <2>3, QrAssumption DEF OutputsType
  <2> QED
    BY <2>2, <2>3, <2>4 DEF OutputsType, OpenIsKnown, relay
<1>6. CASE CleanupBoard
  <2>1. PICK raising \in {"nothing", "relock", "later"} :
           /\ raising # "nothing" => faults > 0 /\ board.enabled
           /\ faults' = IF raising = "nothing" THEN faults ELSE faults - 1
           /\ board' = [board EXCEPT !.enabled = FALSE, !.unlocked = FALSE,
                                     !.pin = CleanedPin(raising),
                                     !.green = raising = "relock" /\ @]
           /\ lockFailed' = (lockFailed \/ raising # "nothing")
           /\ phase' = "cleaned" /\ cycling' = FALSE /\ alert' = {}
           /\ UNCHANGED <<scanner, stops>>
    BY <1>6 DEF CleanupBoard
  <2>2. CleanedPin(raising) \in BOOLEAN
    BY DEF OutputsType, CleanedPin
  <2>3. faults' \in 0 .. MaxFaults
    BY <2>1, QrAssumption DEF OutputsType
  <2>4. lockFailed' \in BOOLEAN
    BY <2>1 DEF OutputsType
  <2>5. (raising = "relock" /\ board.green) \in BOOLEAN
    BY DEF OutputsType
  <2>6. board' \in [enabled : BOOLEAN, green : BOOLEAN, unlocked : BOOLEAN, pin : BOOLEAN]
    BY <2>1, <2>2, <2>5 DEF OutputsType
  <2> QED
    BY <1>1, <2>1, <2>3, <2>4, <2>6 DEF OutputsType, OpenIsKnown, scanner
<1>7. CASE Restart
  <2>1. PICK effect \in Effect \ {"sticks"} :
           /\ phase = "down" /\ phase' = "up"
           /\ Spend(effect)
           /\ board' = IF effect = "works" THEN Configured
                       ELSE [board EXCEPT !.enabled = FALSE, !.green = FALSE, !.unlocked = FALSE]
           /\ lockFailed' = (effect # "works" /\ (lockFailed \/ board.pin))
           /\ UNCHANGED <<scanner, cycling, alert, stops>>
    BY <1>7 DEF Restart
  <2>2. faults' \in 0 .. MaxFaults
    BY <2>1, Spent
  <2>3. lockFailed' \in BOOLEAN
    BY <2>1, Zenon DEF OutputsType
  <2>4. /\ board' \in [enabled : BOOLEAN, green : BOOLEAN, unlocked : BOOLEAN, pin : BOOLEAN]
        /\ board'.pin => lockFailed'
    <3>1. CASE effect = "works"
      BY <2>1, <3>1 DEF Configured
    <3>2. CASE effect # "works"
      BY <2>1, <3>2 DEF OutputsType
    <3> QED
      BY <3>1, <3>2
  <2> QED
    BY <1>1, <2>1, <2>2, <2>3, <2>4 DEF OutputsType, OpenIsKnown, scanner
<1> QED
  BY <1>3, <1>4, <1>5, <1>6, <1>7 DEF ProcessStep

\* A process that ends has no scan and no cycle under way any more.
LEMMA EndSteps ==
    ASSUME OutputsType, ScannerType, Exit \/ Crash
    PROVE  /\ OutputsType' /\ ScannerType' /\ phase' = "down" /\ ~cycling'
           /\ DOMAIN scans' = DOMAIN scans /\ latest'.scan = 0 /\ latest.scan \in Nat
           /\ processing' = {} /\ \A d \in Decoder : decoder'[d] = "idle"
           /\ \A j \in DOMAIN scans : scans'[j].token = scans[j].token
           /\ \A j \in DOMAIN scans : scans'[j].job = "done" /\ scans'[j].cycle = "done"
<1>1. Ended /\ UNCHANGED <<board, lockFailed, faults>> /\ stops' \in 0 .. MaxStops
  <2>1. CASE Exit
    BY <2>1 DEF Exit, OutputsType
  <2>2. CASE Crash
    BY <2>2, QrAssumption DEF Crash, OutputsType
  <2> QED
    BY <2>1, <2>2
<1>2. OutputsType' /\ phase' = "down" /\ ~cycling'
  BY <1>1 DEF Ended, OutputsType
<1>3. scans' = [j \in 1 .. Len(scans) |-> [scans[j] EXCEPT !.job = "done", !.cycle = "done"]]
  BY <1>1, DomainIs DEF Ended, ScannerType
<1> DEFINE Last(j) == [scans[j] EXCEPT !.job = "done", !.cycle = "done"]
<1>4. ASSUME NEW j \in 1 .. Len(scans)
      PROVE  /\ Last(j) \in Record /\ Last(j).token = scans[j].token
             /\ Last(j).job = "done" /\ Last(j).cycle = "done"
  <2>1. scans[j] \in Record
    BY DomainIs DEF ScannerType
  <2> QED
    BY <2>1 DEF Record, JobStep, CycleStep
<1> HIDE DEF Last
<1>5. scans' = [j \in 1 .. Len(scans) |-> Last(j)]
  BY <1>3 DEF Last
<1>6. /\ scans' \in Seq(Record) /\ Len(scans') = Len(scans) /\ DOMAIN scans' = DOMAIN scans
  <2>1. Len(scans) \in Nat /\ DOMAIN scans = 1 .. Len(scans)
    BY DomainIs DEF ScannerType
  <2>2. scans' \in [1 .. Len(scans) -> Record]
    BY <1>4, <1>5
  <2> QED
    BY <2>1, <2>2
<1>7. \A j \in 1 .. Len(scans) : /\ scans'[j].token = scans[j].token
                                 /\ scans'[j].job = "done" /\ scans'[j].cycle = "done"
  BY <1>4, <1>5
<1>8. /\ decoder' = [d \in Decoder |-> "idle"] /\ processing' = {} /\ latest' = NoResult
  BY <1>1 DEF Ended
<1>9. latest' \in [scan : 0 .. Len(scans'), final : BOOLEAN] /\ latest'.scan = 0
  BY <1>8, <1>6, DomainIs DEF NoResult, ScannerType
<1> QED
  BY <1>2, <1>8, <1>9, <1>6, <1>7, DomainIs DEF ScannerType

---------------------------------------------------------------------------
(* The validation threads. *)

LEMMA Reserved ==
    ASSUME OutputsType, JobsInv, NEW d \in Decoder, Reserve(d)
    PROVE  /\ JobsInv' /\ OutputsType' /\ UNCHANGED <<phase, relay>> /\ phase # "down"
           /\ DOMAIN scans' = 1 .. Len(scans) + 1 /\ Len(scans) \in Nat
           /\ \A j \in DOMAIN scans : scans'[j] = scans[j]
           /\ scans'[Len(scans) + 1].cycle = "none"
<1>1. PICK t \in Token :
         /\ Alive /\ Decodes(d)
         /\ Len(scans) < MaxScans
         /\ ~Refused(t)
         /\ scans' = Append(scans, Scan(t, d))
         /\ decoder' = [decoder EXCEPT ![d] = "announcing"]
         /\ processing' = processing \cup {t}
         /\ UNCHANGED <<phase, latest, relay, faults, stops>>
  BY DEF Reserve
<1> DEFINE n == Len(scans)
           new == Scan(t, d)
<1>2. /\ new \in Record /\ new.job = "reserved" /\ new.token = t /\ new.by = d /\ new.cycle = "none"
  BY DEF Scan, Record, JobStep, CycleStep
<1>3. scans \in Seq(Record) /\ n \in Nat /\ DOMAIN scans = 1 .. n
  BY DomainIs DEF JobsInv, ScannerType
<1> HIDE DEF new
<1>4. /\ scans' \in Seq(Record) /\ Len(scans') = n + 1 /\ DOMAIN scans' = 1 .. n + 1
      /\ \A j \in 1 .. n : scans'[j] = scans[j]
      /\ scans'[n + 1] = new
  BY <1>1, <1>2, <1>3 DEF new
<1>5. /\ t \notin processing /\ decoder[d] # "announcing"
  BY <1>1 DEF Refused, Decodes
<1>6. ScannerType'
  <2>1. decoder' \in [Decoder -> {"idle", "announcing", "late"}] /\ processing' \subseteq Token
    BY <1>1 DEF JobsInv, ScannerType
  <2>2. latest' \in [scan : 0 .. Len(scans'), final : BOOLEAN]
    BY <1>1, <1>3, <1>4 DEF JobsInv, ScannerType
  <2>3. Len(scans') <= MaxScans
    BY <1>1, <1>3, <1>4, QrAssumption
  <2> QED
    BY <1>4, <2>1, <2>2, <2>3 DEF ScannerType
<1>7. \A j \in 1 .. n : scans[j].by = d => scans[j].job # "reserved"
  BY <1>3, <1>5 DEF JobsInv, Announcing
<1>8. Announcing'
  <2> SUFFICES ASSUME NEW e \in Decoder
               PROVE  decoder'[e] = "announcing"
                        <=> \E j \in DOMAIN scans' : scans'[j].by = e /\ scans'[j].job = "reserved"
    BY DEF Announcing
  <2>1. CASE e = d
    <3>1. decoder'[e] = "announcing"
      BY <1>1, <2>1 DEF JobsInv, ScannerType
    <3>2. n + 1 \in DOMAIN scans' /\ scans'[n + 1].by = e /\ scans'[n + 1].job = "reserved"
      BY <1>2, <1>3, <1>4, <2>1
    <3> QED
      BY <3>1, <3>2
  <2>2. CASE e # d
    <3>1. decoder'[e] = decoder[e]
      BY <1>1, <2>2 DEF JobsInv, ScannerType
    <3>2. scans'[n + 1].by # e
      BY <1>2, <1>4, <2>2
    <3>3. decoder[e] = "announcing"
            <=> \E j \in 1 .. n : scans[j].by = e /\ scans[j].job = "reserved"
      BY <1>3 DEF JobsInv, Announcing
    <3> QED
      BY <1>3, <1>4, <3>1, <3>2, <3>3
  <2> QED
    BY <2>1, <2>2
<1>9. OneReserved'
  BY <1>2, <1>3, <1>4, <1>7 DEF JobsInv, OneReserved
<1>10. \A j \in 1 .. n : scans[j].token = t => scans[j].job = "done"
  BY <1>3, <1>5 DEF JobsInv, InHand
<1>11. InOrder'
  <2> SUFFICES ASSUME NEW i \in 1 .. n + 1, NEW j \in 1 .. n + 1, i < j,
                      scans'[i].token = scans'[j].token
               PROVE  scans'[i].job = "done"
    BY <1>4 DEF InOrder
  <2>1. i \in 1 .. n /\ scans'[i] = scans[i]
    BY <1>3, <1>4
  <2>2. CASE j = n + 1
    BY <1>2, <1>4, <1>10, <2>1, <2>2
  <2>3. CASE j # n + 1
    <3>1. j \in 1 .. n /\ scans'[j] = scans[j]
      BY <1>3, <1>4, <2>3
    <3> QED
      BY <1>3, <2>1, <3>1 DEF JobsInv, InOrder
  <2> QED
    BY <2>2, <2>3
<1>12. InHand'
  <2> SUFFICES ASSUME NEW u \in Token
               PROVE  u \in processing'
                        <=> \E j \in DOMAIN scans' : scans'[j].job # "done" /\ scans'[j].token = u
    BY DEF InHand
  <2>1. u \in processing <=> \E j \in 1 .. n : scans[j].job # "done" /\ scans[j].token = u
    BY <1>3 DEF JobsInv, InHand
  <2>2. CASE u = t
    <3>1. n + 1 \in DOMAIN scans' /\ scans'[n + 1].job # "done" /\ scans'[n + 1].token = u
      BY <1>2, <1>3, <1>4, <2>2
    <3> QED
      BY <1>1, <2>2, <3>1
  <2>3. CASE u # t
    <3>1. scans'[n + 1].token # u
      BY <1>2, <1>4, <2>3
    <3> QED
      BY <1>1, <1>3, <1>4, <2>1, <2>3, <3>1
  <2> QED
    BY <2>2, <2>3
<1>13. Announced'
  <2>1. latest' = latest /\ latest.scan \in 0 .. n
    BY <1>1 DEF JobsInv, ScannerType
  <2> QED
    BY <1>3, <1>4, <2>1 DEF JobsInv, Announced
<1>14. OutputsType' /\ phase # "down"
  BY <1>1 DEF OutputsType, relay, Alive
<1> QED
  BY <1>1, <1>2, <1>3, <1>4, <1>6, <1>8, <1>9, <1>11, <1>12, <1>13, <1>14 DEF JobsInv

LEMMA AnnouncedScan ==
    ASSUME OutputsType, JobsInv, NEW d \in Decoder, Announce(d)
    PROVE  /\ JobsInv' /\ OutputsType' /\ UNCHANGED <<phase, relay>> /\ phase # "down"
           /\ \E j \in DOMAIN scans : /\ Only(j) /\ scans'[j].cycle = scans[j].cycle
                                      /\ scans[j].job = "reserved"
                                      /\ latest' = [scan |-> j, final |-> FALSE]
<1>1. PICK j \in DOMAIN scans :
         /\ Alive /\ decoder[d] = "announcing"
         /\ scans[j].by = d /\ Job(j, "reserved", "validating")
         /\ latest' = [scan |-> j, final |-> FALSE]
         /\ Leave(d)
         /\ UNCHANGED <<phase, processing, relay, faults, stops>>
  BY DEF Announce
<1>2. "validating" \in JobStep
  BY DEF JobStep
<1>3. /\ scans \in Seq(Record) /\ DOMAIN scans = 1 .. Len(scans) /\ Len(scans) \in Nat
      /\ decoder \in [Decoder -> {"idle", "announcing", "late"}]
  BY DomainIs DEF JobsInv, ScannerType
<1>4. /\ Only(j) /\ scans[j].job = "reserved" /\ scans'[j].job = "validating"
      /\ scans'[j].cycle = scans[j].cycle
  BY <1>1, <1>2, <1>3, JobMoved
<1>5. /\ decoder' \in [Decoder -> {"idle", "announcing", "late"}]
      /\ decoder'[d] = "idle" /\ \A e \in Decoder \ {d} : decoder'[e] = decoder[e]
  BY <1>1, <1>3 DEF Leave
<1>6. ScannerType'
  BY <1>1, <1>3, <1>4, <1>5 DEF JobsInv, ScannerType, Only
<1>7. Announcing'
  <2> SUFFICES ASSUME NEW e \in Decoder
               PROVE  decoder'[e] = "announcing"
                        <=> \E i \in DOMAIN scans' : scans'[i].by = e /\ scans'[i].job = "reserved"
    BY DEF Announcing
  <2>1. CASE e = d
    <3>1. \A i \in DOMAIN scans \ {j} : scans[i].by = d => scans[i].job # "reserved"
      BY <1>1, <1>4 DEF JobsInv, OneReserved
    <3> QED
      BY <1>4, <1>5, <2>1, <3>1 DEF Only
  <2>2. CASE e # d
    <3>1. decoder[e] = "announcing"
            <=> \E i \in DOMAIN scans : scans[i].by = e /\ scans[i].job = "reserved"
      BY DEF JobsInv, Announcing
    <3>2. scans[j].by # e /\ decoder'[e] = decoder[e]
      BY <1>1, <1>5, <2>2
    <3> QED
      BY <1>4, <3>1, <3>2 DEF Only
  <2> QED
    BY <2>1, <2>2
<1>8. OneReserved'
  BY <1>4 DEF JobsInv, OneReserved, Only
<1>9. InOrder'
  BY <1>4 DEF JobsInv, InOrder, Only
<1>10. InHand'
  BY <1>1, <1>4 DEF JobsInv, InHand, Only
<1>11. Announced'
  BY <1>1, <1>4 DEF Announced
<1>12. OutputsType' /\ phase # "down"
  BY <1>1 DEF OutputsType, relay, Alive
<1> QED
  BY <1>1, <1>4, <1>6, <1>7, <1>8, <1>9, <1>10, <1>11, <1>12 DEF JobsInv

LEMMA JobsMove ==
    ASSUME JobsInv, NEW j \in DOMAIN scans, JobEffect(j)
    PROVE  JobsInv'
<1>1. /\ scans \in Seq(Record) /\ DOMAIN scans = 1 .. Len(scans) /\ Len(scans) \in Nat
      /\ \A i \in DOMAIN scans : scans[i].token \in Token
  BY DomainIs DEF JobsInv, ScannerType, Record
<1>2. /\ Only(j) /\ decoder' = decoder
      /\ scans[j].job \notin {"reserved", "done"} /\ scans'[j].job # "reserved"
      /\ processing' = IF scans'[j].job = "done" THEN processing \ {scans[j].token} ELSE processing
      /\ latest' = latest \/ latest' = [scan |-> j, final |-> TRUE]
  BY DEF JobEffect, Thread
<1>3. ScannerType'
  <2>1. latest' \in [scan : 0 .. Len(scans), final : BOOLEAN]
    <3>1. CASE latest' = latest
      BY <3>1 DEF JobsInv, ScannerType
    <3>2. CASE latest' = [scan |-> j, final |-> TRUE]
      BY <1>1, <3>2
    <3> QED
      BY <1>2, <3>1, <3>2
  <2>2. processing' \subseteq Token
    BY <1>2 DEF JobsInv, ScannerType
  <2> QED
    BY <1>2, <2>1, <2>2 DEF JobsInv, ScannerType, Only
<1>4. Announcing'
  BY <1>2 DEF JobsInv, Announcing, Only
<1>5. OneReserved'
  BY <1>2 DEF JobsInv, OneReserved, Only
<1>6. InOrder'
  BY <1>2 DEF JobsInv, InOrder, Only
<1>7. \A i \in DOMAIN scans \ {j} : scans[i].token = scans[j].token => scans[i].job = "done"
  BY <1>1, <1>2 DEF JobsInv, InOrder
<1>8. InHand'
  <2> SUFFICES ASSUME NEW u \in Token
               PROVE  u \in processing'
                        <=> \E i \in DOMAIN scans' : scans'[i].job # "done" /\ scans'[i].token = u
    BY DEF InHand
  <2>1. u \in processing <=> \E i \in DOMAIN scans : scans[i].job # "done" /\ scans[i].token = u
    BY DEF JobsInv, InHand
  <2>2. CASE scans'[j].job = "done"
    BY <1>2, <1>7, <2>1, <2>2 DEF Only
  <2>3. CASE scans'[j].job # "done"
    BY <1>2, <2>1, <2>3 DEF Only
  <2> QED
    BY <2>2, <2>3
<1>9. Announced'
  <2>1. CASE latest' = latest
    <3>1. latest.scan \in 0 .. Len(scans)
      BY DEF JobsInv, ScannerType
    <3> QED
      BY <1>1, <1>2, <2>1, <3>1 DEF JobsInv, Announced, Only
  <2>2. CASE latest' = [scan |-> j, final |-> TRUE]
    BY <1>2, <2>2 DEF Announced
  <2> QED
    BY <1>2, <2>1, <2>2
<1> QED
  BY <1>3, <1>4, <1>5, <1>6, <1>8, <1>9 DEF JobsInv

\* Steps that change no job.
LEMMA JobsStay ==
    ASSUME JobsInv, decoder' \in [Decoder -> {"idle", "announcing", "late"}],
           \A d \in Decoder : decoder'[d] = "announcing" <=> decoder[d] = "announcing",
           UNCHANGED <<processing, latest>>,
           scans' \in Seq(Record), Len(scans') = Len(scans), DOMAIN scans' = DOMAIN scans,
           \A i \in DOMAIN scans : /\ scans'[i].token = scans[i].token
                                   /\ scans'[i].by = scans[i].by /\ scans'[i].job = scans[i].job
    PROVE  JobsInv'
<1>1. latest.scan \in 0 .. Len(scans) /\ DOMAIN scans = 1 .. Len(scans) /\ Len(scans) \in Nat
  BY DomainIs DEF JobsInv, ScannerType
<1>2. ScannerType'
  BY <1>1 DEF JobsInv, ScannerType
<1>3. Announcing'
  BY DEF JobsInv, Announcing
<1>4. OneReserved' /\ InOrder' /\ InHand'
  BY DEF JobsInv, OneReserved, InOrder, InHand
<1>5. Announced'
  BY <1>1 DEF JobsInv, Announced
<1> QED
  BY <1>2, <1>3, <1>4, <1>5 DEF JobsInv

LEMMA JobsEnd ==
    ASSUME OutputsType, JobsInv, Exit \/ Crash
    PROVE  JobsInv' /\ OutputsType' /\ CyclesInv' /\ phase' = "down"
<1>1. /\ OutputsType' /\ ScannerType' /\ phase' = "down" /\ ~cycling'
      /\ DOMAIN scans' = DOMAIN scans /\ latest'.scan = 0
      /\ processing' = {} /\ \A d \in Decoder : decoder'[d] = "idle"
      /\ \A j \in DOMAIN scans : scans'[j].job = "done" /\ scans'[j].cycle = "done"
  BY EndSteps DEF JobsInv
<1>2. Announcing' /\ OneReserved' /\ InOrder' /\ InHand' /\ Announced'
  BY <1>1 DEF Announcing, OneReserved, InOrder, InHand, Announced
<1>3. CyclesInv'
  BY <1>1 DEF CyclesInv, OneCycle, CycleKeepsOpen, AllEnded, InUse
<1> QED
  BY <1>1, <1>2, <1>3 DEF JobsInv

---------------------------------------------------------------------------
(* The unlock cycles. *)

\* A validation thread that starts a cycle has found none under way.
LEMMA CyclesOfJobs ==
    ASSUME OutputsType, CyclesInv, NEW j \in DOMAIN scans, JobEffect(j)
    PROVE  CyclesInv'
<1>1. /\ Only(j) /\ phase' = phase /\ board' = board /\ phase # "down"
      /\ \/ scans'[j].cycle = scans[j].cycle /\ cycling' = cycling
         \/ ~cycling /\ scans'[j].cycle = "clear" /\ cycling' = TRUE
  BY DEF JobEffect, Thread
<1>2. AllEnded'
  BY <1>1 DEF AllEnded
<1>3. CASE scans'[j].cycle = scans[j].cycle /\ cycling' = cycling
  <2>1. \A i \in DOMAIN scans : scans'[i].cycle = scans[i].cycle
    BY <1>1, <1>3 DEF Only
  <2>2. DOMAIN scans' = DOMAIN scans
    BY <1>1 DEF Only
  <2>3. OneCycle'
    BY <1>1, <1>3, <2>1, <2>2 DEF CyclesInv, OneCycle, Running, InUse
  <2>4. CycleKeepsOpen'
    BY <1>1, <2>1, <2>2 DEF CyclesInv, CycleKeepsOpen
  <2> QED
    BY <1>2, <2>3, <2>4 DEF CyclesInv
<1>4. CASE ~cycling /\ scans'[j].cycle = "clear" /\ cycling' = TRUE
  <2>1. ASSUME InUse'
        PROVE  /\ \A i \in DOMAIN scans : ~Running(i)
               /\ \A i \in DOMAIN scans : Running(i)' <=> i = j
    <3>1. \A i \in DOMAIN scans : ~Running(i)
      BY <1>1, <1>4, <2>1 DEF CyclesInv, OneCycle, InUse
    <3> QED
      BY <1>1, <1>4, <3>1 DEF Only, Running
  <2>2. DOMAIN scans' = DOMAIN scans
    BY <1>1 DEF Only
  <2>3. OneCycle'
    BY <1>4, <2>1, <2>2 DEF OneCycle
  <2>4. CycleKeepsOpen'
    BY <1>1, <1>4 DEF CyclesInv, CycleKeepsOpen, Only
  <2> QED
    BY <1>2, <2>3, <2>4 DEF CyclesInv
<1> QED
  BY <1>1, <1>3, <1>4

\* A cycle that writes to the locker is the only one: no other cycle sleeps with it open.
LEMMA CyclesMove ==
    ASSUME OutputsType, CyclesInv, NEW j \in DOMAIN scans, CycleEffect(j)
    PROVE  CyclesInv'
<1>1. /\ Only(j) /\ phase' = phase /\ phase # "down" /\ Running(j)
      /\ \/ scans'[j].cycle \notin {"none", "done"} /\ cycling' = cycling
         \/ scans'[j].cycle = "done" /\ cycling' = FALSE
      /\ scans'[j].cycle = "open" => board'.unlocked
  BY DEF CycleEffect, Thread
<1>2. DOMAIN scans' = DOMAIN scans
  BY <1>1 DEF Only
<1>3. AllEnded'
  BY <1>1 DEF AllEnded
<1>4. ASSUME InUse'
      PROVE  cycling /\ \A i \in DOMAIN scans : i # j => ~Running(i) /\ ~Running(i)'
  <2>1. cycling /\ \A i \in DOMAIN scans : i # j => ~Running(i)
    BY <1>1, <1>4 DEF CyclesInv, OneCycle, InUse
  <2> QED
    BY <1>1, <2>1 DEF Only, Running
<1>5. OneCycle'
  <2> SUFFICES ASSUME InUse'
               PROVE  /\ cycling' <=> \E i \in DOMAIN scans' : Running(i)'
                      /\ \A i, k \in DOMAIN scans' : Running(i)' /\ Running(k)' => i = k
    BY DEF OneCycle
  <2>1. \A i \in DOMAIN scans : i # j => ~Running(i)'
    BY <1>4
  <2>2. Running(j)' <=> cycling'
    <3>1. CASE scans'[j].cycle \notin {"none", "done"} /\ cycling' = cycling
      BY <1>4, <3>1 DEF Running
    <3>2. CASE scans'[j].cycle = "done" /\ cycling' = FALSE
      BY <3>2 DEF Running
    <3> QED
      BY <1>1, <3>1, <3>2
  <2> QED
    BY <1>2, <2>1, <2>2
<1>6. CycleKeepsOpen'
  <2> SUFFICES ASSUME NEW i \in DOMAIN scans, scans'[i].cycle = "open", InUse'
               PROVE  board'.unlocked
    BY <1>2 DEF CycleKeepsOpen, InUse
  <2>1. i = j
    BY <1>4 DEF Running
  <2> QED
    BY <1>1, <2>1
<1> QED
  BY <1>3, <1>5, <1>6 DEF CyclesInv

\* Steps that change no cycle.
LEMMA CyclesStay ==
    ASSUME OutputsType, CyclesInv,
           DOMAIN scans \subseteq DOMAIN scans',
           \A j \in DOMAIN scans : scans'[j].cycle = scans[j].cycle,
           \A j \in DOMAIN scans' \ DOMAIN scans : scans'[j].cycle = "none",
           InUse' => \/ InUse /\ cycling' = cycling /\ board'.unlocked = board.unlocked
                     \/ phase = "down" /\ cycling' = cycling,
           phase' = "down" => phase = "down" /\ cycling' = cycling /\ scans' = scans
    PROVE  CyclesInv'
<1>1. AllEnded'
  BY DEF CyclesInv, AllEnded
<1>2. CASE InUse' /\ InUse
  <2>1. cycling' = cycling /\ board'.unlocked = board.unlocked
    BY <1>2 DEF InUse
  <2>2. \A j \in DOMAIN scans' : Running(j)' <=> j \in DOMAIN scans /\ Running(j)
    BY DEF Running
  <2>3. OneCycle'
    BY <1>2, <2>1, <2>2 DEF CyclesInv, OneCycle
  <2>4. CycleKeepsOpen'
    BY <1>2, <2>1 DEF CyclesInv, CycleKeepsOpen, InUse
  <2> QED
    BY <1>1, <2>3, <2>4 DEF CyclesInv
<1>3. CASE InUse' /\ ~InUse
  <2>1. phase = "down" /\ ~cycling'
    BY <1>3 DEF CyclesInv, AllEnded
  <2>2. \A j \in DOMAIN scans' : scans'[j].cycle \in {"none", "done"}
    BY <2>1 DEF CyclesInv, AllEnded
  <2> QED
    BY <1>1, <2>1, <2>2 DEF CyclesInv, OneCycle, CycleKeepsOpen, Running
<1>4. CASE ~InUse'
  BY <1>1, <1>4 DEF CyclesInv, OneCycle, CycleKeepsOpen, InUse
<1> QED
  BY <1>2, <1>3, <1>4

---------------------------------------------------------------------------
(* The invariant. *)

LEMMA IInvInit == Init => IInv
<1> SUFFICES ASSUME Init
             PROVE  IInv
  OBVIOUS
<1>1. OutputsType
  <2>1. board \in [enabled : BOOLEAN, green : BOOLEAN, unlocked : BOOLEAN, pin : BOOLEAN]
    BY DEF Init
  <2>2. faults \in 0 .. MaxFaults /\ stops \in 0 .. MaxStops
    BY QrAssumption DEF Init
  <2> QED
    BY <2>1, <2>2 DEF Init, OutputsType
<1>2. scans = << >> /\ scans \in Seq(Record) /\ Len(scans) = 0 /\ DOMAIN scans = {}
  BY DEF Init
<1>3. ScannerType
  BY <1>2, QrAssumption DEF Init, ScannerType, NoResult
<1>4. Announcing /\ OneReserved /\ InOrder /\ InHand /\ Announced
  BY <1>2 DEF Init, Announcing, OneReserved, InOrder, InHand, Announced, NoResult
<1>5. CyclesInv /\ OpenIsKnown
  BY <1>2 DEF Init, CyclesInv, OneCycle, CycleKeepsOpen, AllEnded, OpenIsKnown
<1> QED
  BY <1>1, <1>3, <1>4, <1>5 DEF IInv, JobsInv

LEMMA IInvNext == IInv /\ [Next]_vars => IInv'
<1> SUFFICES ASSUME IInv, [Next]_vars
             PROVE  IInv'
  OBVIOUS
<1>1. OutputsType /\ JobsInv /\ ScannerType /\ CyclesInv /\ OpenIsKnown /\ scans \in Seq(Record)
  BY DEF IInv, JobsInv, ScannerType
<1>2. CASE UNCHANGED vars
  <2> USE <1>2 DEF vars, scanner, relay
  <2>1. OutputsType'
    BY <1>1 DEF OutputsType
  <2>2. JobsInv'
    BY <1>1, JobsStay DEF ScannerType
  <2>3. CyclesInv'
    BY <1>1, CyclesStay DEF InUse
  <2>4. OpenIsKnown'
    BY <1>1 DEF OpenIsKnown
  <2> QED
    BY <2>1, <2>2, <2>3, <2>4 DEF IInv
<1>3. CASE DecoderStep \/ ProcessStep
  <2>1. /\ OutputsType' /\ UNCHANGED <<scans, processing, latest>>
        /\ decoder' \in [Decoder -> {"idle", "announcing", "late"}]
        /\ \A d \in Decoder : decoder'[d] = "announcing" <=> decoder[d] = "announcing"
        /\ InUse' => \/ InUse /\ cycling' = cycling /\ board'.unlocked = board.unlocked
                        /\ board'.pin = board.pin /\ lockFailed' = lockFailed
                     \/ phase = "down" /\ cycling' = cycling
        /\ phase' = "down" => phase = "down" /\ cycling' = cycling
        /\ OpenIsKnown'
    BY <1>1, <1>3, QuietSteps
  <2>2. JobsInv'
    BY <1>1, <2>1, JobsStay
  <2>3. CyclesInv'
    BY <1>1, <2>1, CyclesStay
  <2> QED
    BY <2>1, <2>2, <2>3 DEF IInv
<1>4. ASSUME NEW d \in Decoder, Reserve(d) PROVE IInv'
  <2>1. /\ JobsInv' /\ OutputsType' /\ UNCHANGED <<phase, relay>> /\ phase # "down"
        /\ DOMAIN scans' = 1 .. Len(scans) + 1 /\ Len(scans) \in Nat
        /\ \A j \in DOMAIN scans : scans'[j] = scans[j]
        /\ scans'[Len(scans) + 1].cycle = "none"
    BY <1>1, <1>4, Reserved
  <2>2. DOMAIN scans = 1 .. Len(scans)
    BY <1>1, DomainIs
  <2>3. /\ DOMAIN scans \subseteq DOMAIN scans'
        /\ \A j \in DOMAIN scans' \ DOMAIN scans : scans'[j].cycle = "none"
    BY <2>1, <2>2
  <2>4. CyclesInv'
    BY <1>1, <2>1, <2>3, CyclesStay DEF relay, InUse
  <2> QED
    BY <1>1, <2>1, <2>4 DEF IInv, OpenIsKnown, relay
<1>5. ASSUME NEW d \in Decoder, Announce(d) PROVE IInv'
  <2>1. PICK j \in DOMAIN scans : Only(j) /\ scans'[j].cycle = scans[j].cycle
    BY <1>1, <1>5, AnnouncedScan
  <2>2. JobsInv' /\ OutputsType' /\ UNCHANGED <<phase, relay>> /\ phase # "down"
    BY <1>1, <1>5, AnnouncedScan
  <2>3. CyclesInv'
    BY <1>1, <2>1, <2>2, CyclesStay DEF relay, InUse, Only
  <2> QED
    BY <1>1, <2>2, <2>3 DEF IInv, OpenIsKnown, relay
<1>6. ASSUME NEW j \in DOMAIN scans, JobStepOf(j) PROVE IInv'
  <2>1. JobEffect(j)
    BY <1>1, <1>6, JobSteps
  <2>2. JobsInv' /\ CyclesInv'
    BY <1>1, <2>1, JobsMove, CyclesOfJobs
  <2> QED
    BY <1>1, <2>1, <2>2 DEF IInv, OpenIsKnown, JobEffect, Thread
<1>7. ASSUME NEW j \in DOMAIN scans, CycleStepOf(j) PROVE IInv'
  <2>1. CycleEffect(j)
    BY <1>1, <1>7, CycleSteps
  <2>2. JobsInv'
    BY <1>1, <2>1, JobsStay DEF CycleEffect, Thread, Only, ScannerType
  <2>3. CyclesInv'
    BY <1>1, <2>1, CyclesMove
  <2> QED
    BY <1>1, <2>1, <2>2, <2>3 DEF IInv, OpenIsKnown, CycleEffect, Thread, InUse
<1>8. CASE Exit \/ Crash
  <2>1. JobsInv' /\ OutputsType' /\ CyclesInv' /\ phase' = "down"
    BY <1>1, <1>8, JobsEnd
  <2> QED
    BY <2>1 DEF IInv, OpenIsKnown
<1> QED
  BY <1>2, <1>3, <1>4, <1>5, <1>6, <1>7, <1>8 DEF Next, DecoderStep, ProcessStep

THEOREM AlwaysIInv == Spec => []IInv
BY IInvInit, IInvNext, PTL DEF Spec

---------------------------------------------------------------------------
(* The theorems. *)

\* Every reachable state is well typed, and a decoder is between reserving and announcing
\* exactly while one of its own scans waits for its validation thread.
THEOREM QrTypeCorrect == Spec => []TypeOK
<1>1. IInv => TypeOK
  BY DEF IInv, OutputsType, JobsInv, ScannerType, Announcing, Record, TypeOK
<1> QED
  BY <1>1, AlwaysIInv, PTL

\* _reserve_token and the finally clause of _process_scan: a token is validated by one thread
\* at most, and _processing_keys are the tokens being validated, for any number of scans.
THEOREM TokensValidatedOnce == Spec => []OneValidationPerToken
<1>1. ASSUME IInv
      PROVE  OneValidationPerToken
  <2>1. /\ DOMAIN scans = 1 .. Len(scans) /\ Len(scans) \in Nat /\ processing \subseteq Token
        /\ \A j \in DOMAIN scans : scans[j].token \in Token
    BY <1>1, DomainIs DEF IInv, JobsInv, ScannerType, Record
  <2>2. \A t \in Token :
           t \in processing <=> \E j \in DOMAIN scans : scans[j].job # "done" /\ scans[j].token = t
    BY <1>1 DEF IInv, JobsInv, InHand
  <2>3. processing = {scans[j].token : j \in LiveJobs}
    BY <2>1, <2>2 DEF LiveJobs
  <2>4. ASSUME NEW i \in LiveJobs, NEW j \in LiveJobs, scans[i].token = scans[j].token
        PROVE  i = j
    <3>1. ~(i < j) /\ ~(j < i)
      BY <1>1, <2>4 DEF IInv, JobsInv, InOrder, LiveJobs
    <3> QED
      BY <2>1, <3>1 DEF LiveJobs
  <2> QED
    BY <2>3, <2>4 DEF OneValidationPerToken
<1> QED
  BY <1>1, AlwaysIInv, PTL

\* _qr_success_worker: while it sleeps, nothing but cleanup locks the locker.
THEOREM SleepKeepsOpen == Spec => []CycleKeepsOpen
<1>1. IInv => CycleKeepsOpen
  BY DEF IInv, CyclesInv
<1> QED
  BY <1>1, AlwaysIInv, PTL

\* unlock_locker, lock_locker, cleanup and start: an open locker the controller takes for
\* locked is one whose relock has failed, after any number of faults, crashes and restarts.
THEOREM OpenLockerIsKnown == Spec => []OpenIsKnown
<1>1. IInv => OpenIsKnown
  BY DEF IInv
<1> QED
  BY <1>1, AlwaysIInv, PTL

\* The latest result never goes back to an older scan of the token it is about, nor from the
\* final answer to the preliminary one.
ResultAdvances ==
    latest.scan > 0 /\ latest'.scan > 0 /\ scans[latest.scan].token = scans'[latest'.scan].token
      => latest'.scan > latest.scan \/ (latest'.scan = latest.scan /\ (latest.final => latest'.final))

LEMMA ResultStep == IInv /\ IInv' /\ [Next]_vars => [ResultAdvances]_latest
<1> SUFFICES ASSUME IInv, IInv', [Next]_vars, latest' # latest,
                    latest.scan > 0, latest'.scan > 0,
                    scans[latest.scan].token = scans'[latest'.scan].token
             PROVE  \/ latest'.scan > latest.scan
                    \/ latest'.scan = latest.scan /\ (latest.final => latest'.final)
  BY DEF ResultAdvances
<1>1. /\ OutputsType /\ JobsInv /\ ScannerType /\ scans \in Seq(Record)
      /\ DOMAIN scans = 1 .. Len(scans) /\ Len(scans) \in Nat
      /\ latest.scan \in DOMAIN scans /\ scans[latest.scan].job # "reserved"
  <2>1. OutputsType /\ JobsInv /\ ScannerType /\ scans \in Seq(Record) /\ Announced
    BY DEF IInv, JobsInv, ScannerType
  <2>2. DOMAIN scans = 1 .. Len(scans) /\ Len(scans) \in Nat /\ latest.scan \in 0 .. Len(scans)
    BY <2>1, DomainIs DEF ScannerType
  <2> QED
    BY <2>1, <2>2 DEF Announced
<1>2. ~(DecoderStep \/ ProcessStep) /\ ~UNCHANGED vars
  BY <1>1, QuietSteps DEF vars, scanner
<1>3. ~(Exit \/ Crash)
  BY <1>1, EndSteps
<1>4. ASSUME NEW d \in Decoder
      PROVE  ~Reserve(d)
  BY DEF Reserve
<1>5. ASSUME NEW j \in DOMAIN scans
      PROVE  ~CycleStepOf(j)
  BY <1>1, CycleSteps DEF CycleEffect
\* A scan that has a result to show is not over: an earlier scan of its token is.
<1>6. ASSUME NEW j \in DOMAIN scans, scans[j].job # "done", Only(j), latest'.scan = j
      PROVE  latest'.scan >= latest.scan
  <2>1. scans[latest.scan].token = scans[j].token
    BY <1>6 DEF Only
  <2>2. ~(j < latest.scan)
    BY <1>1, <1>6, <2>1 DEF JobsInv, InOrder
  <2> QED
    BY <1>1, <1>6, <2>2
<1>7. ASSUME NEW d \in Decoder, Announce(d)
      PROVE  latest'.scan > latest.scan
  <2>1. PICK j \in DOMAIN scans : /\ Only(j) /\ scans[j].job = "reserved"
                                  /\ latest' = [scan |-> j, final |-> FALSE]
    BY <1>1, <1>7, AnnouncedScan
  <2>2. latest'.scan = j /\ latest.scan # j
    BY <1>1, <2>1
  <2>3. latest'.scan >= latest.scan
    BY <1>6, <2>1, <2>2
  <2> QED
    BY <1>1, <2>2, <2>3
<1>8. ASSUME NEW j \in DOMAIN scans, JobStepOf(j)
      PROVE  latest'.scan >= latest.scan /\ latest'.final
  <2>1. /\ Only(j) /\ scans[j].job # "done" /\ latest' = [scan |-> j, final |-> TRUE]
    BY <1>1, <1>8, JobSteps DEF JobEffect, Thread
  <2> QED
    BY <1>6, <2>1
<1>9. latest'.scan \in Nat
  BY DomainIs DEF IInv, JobsInv, ScannerType
<1> QED
  BY <1>1, <1>2, <1>3, <1>4, <1>5, <1>7, <1>8, <1>9 DEF Next, DecoderStep, ProcessStep

\* _process_scan and _handle_decoded_value: wait_for_scan is never given an older answer to a
\* token than the one it has seen, whatever threads are under way.
THEOREM ResultsAdvance == Spec => ResultsInOrder
<1>1. IInv /\ IInv' /\ [Next]_vars => [ResultAdvances]_latest
  BY ResultStep
<1> QED
  BY <1>1, AlwaysIInv, PTL DEF Spec, ResultsInOrder, ResultAdvances

==============================================================================
