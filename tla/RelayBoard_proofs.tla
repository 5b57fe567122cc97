------------------------- MODULE RelayBoard_proofs -------------------------
(***************************************************************************)
(* What every operation of the board preserves, whatever the GPIO does:    *)
(* its type, and which sources it leaves asserted.                         *)
(***************************************************************************)
EXTENDS RelayBoard, TLAPS

\* The outcomes of a call that asserts and releases nothing.
Drives(R, b) ==
    \A r \in R : r.board \in Board /\ r.raised \in BOOLEAN /\ r.board.sources = b.sources

\* The fields of an outcome.
LEMMA OutcomeFields ==
    ASSUME NEW b, NEW raised \in BOOLEAN
    PROVE  Outcome(b, raised).board = b /\ Outcome(b, raised).raised = raised
<1>1. Outcome(b, raised).board = b
  BY DEF Outcome
<1>2. Outcome(b, raised).raised = raised
  BY DEF Outcome
<1> QED
  BY <1>1, <1>2

\* A call that returns with nothing done.
LEMMA StandsStill ==
    ASSUME NEW b \in Board
    PROVE  Drives({Outcome(b, FALSE)}, b)
BY OutcomeFields DEF Drives

\* _write touches the pin or the fault budget, nothing else.
LEMMA GpioWriteDrives ==
    ASSUME NEW b \in Board, NEW c \in Channel, NEW active \in BOOLEAN
    PROVE  Drives(GpioWrite(b, c, active), b)
<1> DEFINE written == [b EXCEPT !.pin[c] = active]
           failed  == [b EXCEPT !.faults = @ - 1]
<1>1. written \in Board /\ written.sources = b.sources
  BY DEF Board
<1>2. b.faults > 0 => failed \in Board /\ failed.sources = b.sources
  BY DEF Board
<1> SUFFICES ASSUME NEW r \in GpioWrite(b, c, active)
             PROVE  r.board \in Board /\ r.raised \in BOOLEAN /\ r.board.sources = b.sources
  BY DEF Drives
<1>3. CASE r = Outcome(b, FALSE)
  BY <1>3, OutcomeFields
<1>4. CASE r = Outcome(written, FALSE)
  BY <1>1, <1>4, OutcomeFields
<1>5. ASSUME b.faults > 0, NEW kind \in FaultKind, r = Outcome(failed, kind = "raise")
      PROVE  r.board = failed /\ r.raised \in BOOLEAN
  BY <1>5 DEF Outcome
<1> QED
  BY <1>2, <1>3, <1>4, <1>5 DEF GpioWrite

\* _apply_red_locked and _apply_buzzer_locked change levels, never sources.
LEMMA ApplyDrives ==
    ASSUME NEW b \in Board, NEW c \in Channel
    PROVE  Drives(Apply(b, c), b)
<1> DEFINE on == b.sources[c] # {}
           bb == [b EXCEPT !.on[c] = on]
<1>1. bb \in Board /\ bb.sources = b.sources
  BY DEF Board
<1>2. Drives(GpioWrite(bb, c, on), bb)
  BY <1>1, GpioWriteDrives
<1>3. Drives({Outcome(b, FALSE)}, b)
  BY StandsStill
<1> QED
  BY <1>1, <1>2, <1>3 DEF Apply, Drives

\* Applying one output after the other, skipping the second if the first raised.
LEMMA ApplyBothDrives ==
    ASSUME NEW b \in Board
    PROVE  Drives(ApplyBoth(b), b)
<1>1. Drives(Apply(b, "red"), b)
  BY ApplyDrives DEF Channel
<1>2. ASSUME NEW r \in Apply(b, "red")
      PROVE  Drives(Apply(r.board, "buzzer"), b)
  BY <1>1, ApplyDrives DEF Drives, Channel
<1> QED
  BY <1>1, <1>2 DEF ApplyBoth, Then, Drives
---------------------------------------------------------------------------
(* The calls: their type, and that only the manager's own calls move its source. *)

SameSecurity(x, b) == \A c \in Channel : Security \in x.sources[c] <=> Security \in b.sources[c]

LEMMA WithSecurityType ==
    ASSUME NEW b \in Board, NEW active \in BOOLEAN
    PROVE  WithSecurity(b, active) \in Board
BY DEF Board, WithSecurity, Source

\* set_security_relays: what it asserts or releases does not depend on the writes.
LEMMA SetSecurityDrives ==
    ASSUME NEW b \in Board, NEW active \in BOOLEAN
    PROVE  Drives(SetSecurity(b, active), WithSecurity(b, active))
BY WithSecurityType, ApplyBothDrives DEF SetSecurity

LEMMA SetSecurityType ==
    ASSUME NEW b \in Board, NEW active \in BOOLEAN, NEW r \in SetSecurity(b, active)
    PROVE  r.board \in Board /\ r.raised \in BOOLEAN
BY SetSecurityDrives DEF Drives

\* After set_security_relays(True) the security source is asserted even if a write raised.
LEMMA SetSecurityAsserts ==
    ASSUME NEW b \in Board, NEW r \in SetSecurity(b, TRUE), NEW c \in Channel
    PROVE  Security \in r.board.sources[c]
<1>1. r.board.sources = WithSecurity(b, TRUE).sources
  BY SetSecurityDrives DEF Drives
<1>2. Security \in WithSecurity(b, TRUE).sources[c]
  BY DEF WithSecurity, Board
<1> QED
  BY <1>1, <1>2

\* After set_security_relays(False) it is not, even if a write raised.
LEMMA SetSecurityReleases ==
    ASSUME NEW b \in Board, NEW r \in SetSecurity(b, FALSE), NEW c \in Channel
    PROVE  Security \notin r.board.sources[c]
<1>1. r.board.sources = WithSecurity(b, FALSE).sources
  BY SetSecurityDrives DEF Drives
<1>2. Security \notin WithSecurity(b, FALSE).sources[c]
  BY DEF WithSecurity, Board
<1> QED
  BY <1>1, <1>2

LEMMA StartType ==
    ASSUME NEW b \in Board, NEW s \in Start(b)
    PROVE  s \in Board
<1> DEFINE bb == [b EXCEPT !.enabled = TRUE, !.sources = NoSources, !.on = AllOff, !.pin = AllOff]
<1>1. NoSources \in [Channel -> SUBSET Source] /\ AllOff \in [Channel -> BOOLEAN]
  BY DEF NoSources, AllOff
<1>2. bb \in Board
  BY <1>1 DEF Board
<1> QED
  BY <1>2 DEF Start

LEMMA RewriteOffType ==
    ASSUME NEW b \in Board, NEW c \in Channel, NEW x \in RewriteOff(b, c)
    PROVE  x \in Board
<1> DEFINE off == [b EXCEPT !.on[c] = FALSE]
<1>1. off \in Board
  BY DEF Board
<1>2. Drives(GpioWrite(off, c, FALSE), off)
  BY <1>1, GpioWriteDrives
<1> QED
  BY <1>2 DEF RewriteOff, Drives

\* force_security_relays_off, starting GPIO first when it is not up.
LEMMA ForceOffType ==
    ASSUME NEW b \in Board, NEW x \in ForceOff(b)
    PROVE  x \in Board
<1>1. PICK s \in Start(b) : \E r \in SetSecurity(s, FALSE) : x \in RewriteBoth(r)
  BY DEF ForceOff
<1>2. PICK r \in SetSecurity(s, FALSE) : x \in RewriteBoth(r)
  BY <1>1
<1>3. r.board \in Board
  BY StartType, SetSecurityType
<1>4. CASE r.raised
  BY <1>2, <1>3, <1>4 DEF RewriteBoth
<1>5. CASE ~r.raised
  <2>1. PICK y \in RewriteOff(r.board, "red") : x \in RewriteOff(y, "buzzer")
    BY <1>2, <1>5 DEF RewriteBoth
  <2>2. y \in Board
    BY <1>3, RewriteOffType DEF Channel
  <2> QED
    BY <2>1, <2>2, RewriteOffType DEF Channel
<1> QED
  BY <1>4, <1>5

\* One source of an alert on one output.
LEMMA SetSourceKeepsSecurity ==
    ASSUME NEW b \in Board, NEW c \in Channel, NEW a \in Alert, NEW on \in BOOLEAN,
           NEW r \in SetSource(b, c, a, on)
    PROVE  r.board \in Board /\ r.raised \in BOOLEAN /\ SameSecurity(r.board, b)
<1> DEFINE bb == [b EXCEPT !.sources[c] = IF on THEN @ \cup {a} ELSE @ \ {a}]
<1>1. a # Security
  BY BoardAssumption
<1>2. bb \in Board
  BY DEF Board, Source
<1>3. SameSecurity(bb, b)
  BY <1>1 DEF SameSecurity, Board
<1>4. r \in Apply(bb, c)
  BY DEF SetSource
<1>5. r.board \in Board /\ r.raised \in BOOLEAN /\ r.board.sources = bb.sources
  BY <1>2, <1>4, ApplyDrives, ZenonT(30) DEF Drives
<1> QED
  BY <1>3, <1>5 DEF SameSecurity

\* trigger_alert and _alert_worker leave the security source alone.
LEMMA SetAlertKeepsSecurity ==
    ASSUME NEW b \in Board, NEW a \in Alert, NEW on \in BOOLEAN, NEW r \in SetAlert(b, a, on)
    PROVE  r.board \in Board /\ r.raised \in BOOLEAN /\ SameSecurity(r.board, b)
<1>1. PICK q \in SetSource(b, "red", a, on) :
        r \in IF q.raised THEN {q} ELSE SetSource(q.board, "buzzer", a, on)
  BY DEF SetAlert, Then
<1>2. q.board \in Board /\ q.raised \in BOOLEAN /\ SameSecurity(q.board, b)
  BY SetSourceKeepsSecurity DEF Channel
<1>3. CASE q.raised
  BY <1>1, <1>2, <1>3
<1>4. CASE ~q.raised
  <2>1. r.board \in Board /\ r.raised \in BOOLEAN /\ SameSecurity(r.board, q.board)
    BY <1>1, <1>2, <1>4, SetSourceKeepsSecurity DEF Channel
  <2> QED
    BY <1>2, <2>1 DEF SameSecurity
<1> QED
  BY <1>3, <1>4

\* A QR success that drops an alert leaves the security source alone.
LEMMA DropAlertKeepsSecurity ==
    ASSUME NEW b \in Board, NEW a \in Alert, NEW r \in DropAlert(b, a)
    PROVE  r.board \in Board /\ SameSecurity(r.board, b)
<1> DEFINE bb == [b EXCEPT !.sources = [c \in Channel |-> b.sources[c] \ {a}]]
<1>1. a # Security
  BY BoardAssumption
<1>2. bb \in Board
  BY DEF Board
<1>3. SameSecurity(bb, b)
  BY <1>1 DEF SameSecurity, Board
<1> QED
  BY <1>2, <1>3, ApplyBothDrives DEF DropAlert, Drives, SameSecurity

LEMMA CleanupType ==
    ASSUME NEW b \in Board, NEW x \in Cleanup(b)
    PROVE  x \in Board
<1> DEFINE bb == [b EXCEPT !.sources = NoSources]
<1>1. bb \in Board
  BY DEF Board, NoSources
<1>2. PICK r \in ApplyBoth(bb) :
        x = [r.board EXCEPT !.enabled = FALSE,
                            !.pin = IF r.raised \/ ~b.enabled THEN @ ELSE AllOff]
  BY DEF Cleanup
<1>3. r.board \in Board
  BY <1>1, ApplyBothDrives DEF Drives
<1> QED
  BY <1>2, <1>3 DEF Board, AllOff
---------------------------------------------------------------------------
(* Writes that never raise. *)

NoRaise == "raise" \notin FaultKind

LEMMA ApplyReturns ==
    ASSUME NoRaise, NEW b \in Board, NEW c \in Channel, NEW r \in Apply(b, c)
    PROVE  ~r.raised
<1>1. ASSUME NEW x, NEW active, NEW w \in GpioWrite(x, c, active)
      PROVE  ~w.raised
  <2>1. CASE \E y : w = Outcome(y, FALSE)
    BY <2>1 DEF Outcome
  <2>2. ASSUME NEW y, NEW kind \in FaultKind, w = Outcome(y, kind = "raise")
        PROVE  ~w.raised
    BY <2>2 DEF NoRaise, Outcome
  <2> QED
    BY <1>1, <2>1, <2>2 DEF GpioWrite
<1>2. CASE r = Outcome(b, FALSE)
  BY <1>2, OutcomeFields
<1> QED
  BY <1>1, <1>2 DEF Apply

LEMMA ApplyBothReturns ==
    ASSUME NoRaise, NEW b \in Board, NEW r \in ApplyBoth(b)
    PROVE  ~r.raised
<1>1. PICK q \in Apply(b, "red") : r \in IF q.raised THEN {q} ELSE Apply(q.board, "buzzer")
  BY DEF ApplyBoth, Then
<1>2. ~q.raised /\ q.board \in Board
  BY ApplyReturns, ApplyDrives DEF Channel, Drives
<1> QED
  BY <1>1, <1>2, ApplyReturns DEF Channel

\* One source of an alert, on one output and on both.
LEMMA SetSourceSets ==
    ASSUME NEW b \in Board, NEW c \in Channel, NEW a \in Alert, NEW on \in BOOLEAN,
           NEW r \in SetSource(b, c, a, on)
    PROVE  /\ r.board \in Board
           /\ r.board.sources = [b.sources EXCEPT ![c] = IF on THEN @ \cup {a} ELSE @ \ {a}]
<1> DEFINE bb == [b EXCEPT !.sources[c] = IF on THEN @ \cup {a} ELSE @ \ {a}]
<1>1. bb \in Board
  BY DEF Board, Source
<1>2. bb.sources = [b.sources EXCEPT ![c] = IF on THEN @ \cup {a} ELSE @ \ {a}]
  BY DEF Board
<1>3. r \in Apply(bb, c)
  BY DEF SetSource
<1> HIDE DEF bb
<1> QED
  BY <1>1, <1>2, <1>3, ApplyDrives DEF Drives

LEMMA SetAlertSets ==
    NoRaise =>
      \A b \in Board, a \in Alert, on \in BOOLEAN, c \in Channel :
        \A r \in SetAlert(b, a, on) :
           /\ ~r.raised
           /\ on = TRUE => r.board.sources[c] = b.sources[c] \cup {a}
           /\ on = FALSE => r.board.sources[c] = b.sources[c] \ {a}
<1> SUFFICES ASSUME NoRaise, NEW b \in Board, NEW a \in Alert, NEW on \in BOOLEAN,
                    NEW c \in Channel, NEW r \in SetAlert(b, a, on)
             PROVE  /\ ~r.raised
                    /\ on = TRUE => r.board.sources[c] = b.sources[c] \cup {a}
                    /\ on = FALSE => r.board.sources[c] = b.sources[c] \ {a}
  OBVIOUS
<1>1. PICK q \in SetSource(b, "red", a, on) :
        r \in IF q.raised THEN {q} ELSE SetSource(q.board, "buzzer", a, on)
  BY DEF SetAlert, Then
<1>2. ASSUME NEW x \in Board, NEW d \in Channel, NEW s \in SetSource(x, d, a, on)
      PROVE  ~s.raised
  <2> DEFINE y == [x EXCEPT !.sources[d] = IF on THEN @ \cup {a} ELSE @ \ {a}]
  <2>1. y \in Board
    BY DEF Board, Source
  <2>2. s \in Apply(y, d)
    BY DEF SetSource
  <2> HIDE DEF y
  <2> QED
    BY <2>1, <2>2, ApplyReturns
<1>3. /\ ~q.raised /\ q.board \in Board
      /\ q.board.sources = [b.sources EXCEPT !["red"] = IF on THEN @ \cup {a} ELSE @ \ {a}]
  BY <1>2, SetSourceSets DEF Channel
<1>4. r \in SetSource(q.board, "buzzer", a, on)
  BY <1>1, <1>3
<1>5. ~r.raised
  BY <1>2, <1>3, <1>4 DEF Channel
<1>6. r.board.sources
        = [q.board.sources EXCEPT !["buzzer"] = IF on THEN @ \cup {a} ELSE @ \ {a}]
  <2>1. "buzzer" \in Channel
    BY DEF Channel
  <2>2. q.board \in Board
    BY <1>3
  <2> QED
    BY <1>4, <2>1, <2>2, SetSourceSets
<1>7. b.sources \in [Channel -> SUBSET Source]
  BY DEF Board
<1> QED
  BY <1>3, <1>5, <1>6, <1>7 DEF Channel

LEMMA DropAlertSets ==
    ASSUME NEW b \in Board, NEW a \in Alert, NEW r \in DropAlert(b, a), NEW c \in Channel
    PROVE  r.board.sources[c] = b.sources[c] \ {a}
<1> DEFINE bb == [b EXCEPT !.sources = [d \in Channel |-> b.sources[d] \ {a}]]
<1>1. bb \in Board /\ bb.sources[c] = b.sources[c] \ {a}
  BY DEF Board
<1>2. r \in ApplyBoth(bb)
  BY DEF DropAlert
<1> HIDE DEF bb
<1> QED
  BY <1>1, <1>2, ApplyBothDrives DEF Drives

\* The manager's calls assert no alert.
LEMMA SetSecurityAlerts ==
    ASSUME NEW b \in Board, NEW on \in BOOLEAN, NEW r \in SetSecurity(b, on), NEW c \in Channel
    PROVE  r.board.sources[c] \cap Alert = b.sources[c] \cap Alert
<1>1. r.board.sources = WithSecurity(b, on).sources
  BY SetSecurityDrives DEF Drives
<1>2. WithSecurity(b, on).sources[c] \cap Alert = b.sources[c] \cap Alert
  BY BoardAssumption DEF WithSecurity, Board
<1> QED
  BY <1>1, <1>2

LEMMA RewriteOffAlerts ==
    ASSUME NEW b \in Board, NEW c \in Channel, NEW x \in RewriteOff(b, c)
    PROVE  x.sources = b.sources
<1> DEFINE off == [b EXCEPT !.on[c] = FALSE]
<1>1. off \in Board /\ off.sources = b.sources
  BY DEF Board
<1>2. Drives(GpioWrite(off, c, FALSE), off)
  BY <1>1, GpioWriteDrives
<1> QED
  BY <1>1, <1>2 DEF RewriteOff, Drives

LEMMA RewriteBothSources ==
    ASSUME NEW r, r.board \in Board, NEW x \in RewriteBoth(r)
    PROVE  x.sources = r.board.sources
<1>1. CASE r.raised
  BY <1>1 DEF RewriteBoth
<1>2. CASE ~r.raised
  <2>1. PICK y \in RewriteOff(r.board, "red") : x \in RewriteOff(y, "buzzer")
    BY <1>2 DEF RewriteBoth
  <2>2. y \in Board /\ y.sources = r.board.sources
    BY RewriteOffType, RewriteOffAlerts DEF Channel
  <2> QED
    BY <2>1, <2>2, RewriteOffAlerts DEF Channel
<1> QED
  BY <1>1, <1>2

LEMMA ForceOffAlerts ==
    ASSUME NEW b \in Board, NEW x \in ForceOff(b), NEW c \in Channel
    PROVE  x.sources[c] \cap Alert \subseteq b.sources[c]
<1>1. PICK s \in Start(b) : \E r \in SetSecurity(s, FALSE) : x \in RewriteBoth(r)
  BY DEF ForceOff
<1>2. PICK r \in SetSecurity(s, FALSE) : x \in RewriteBoth(r)
  BY <1>1
<1>3. s \in Board /\ r.board \in Board
  BY StartType, SetSecurityType
<1>4. s.sources[c] \subseteq b.sources[c]
  BY DEF Start, NoSources, Board
<1>5. x.sources = r.board.sources
  BY <1>2, <1>3, RewriteBothSources
<1>6. r.board.sources[c] \cap Alert = s.sources[c] \cap Alert
  BY <1>2, <1>3, SetSecurityAlerts, ZenonT(30)
<1> QED
  BY <1>4, <1>5, <1>6

\* force_security_relays_off withdraws the security source, whatever its writes do.
LEMMA ForceOffReleasesSecurity ==
    ASSUME NEW b \in Board, NEW x \in ForceOff(b), NEW c \in Channel
    PROVE  Security \notin x.sources[c]
<1>1. PICK s \in Start(b) : \E r \in SetSecurity(s, FALSE) : x \in RewriteBoth(r)
  BY DEF ForceOff
<1>2. PICK r \in SetSecurity(s, FALSE) : x \in RewriteBoth(r)
  BY <1>1
<1>3. s \in Board /\ r.board \in Board
  BY StartType, SetSecurityType
<1>4. Security \notin r.board.sources[c]
  BY <1>3, SetSecurityReleases
<1>5. x.sources = r.board.sources
  BY <1>2, <1>3, RewriteBothSources
<1> QED
  BY <1>4, <1>5

---------------------------------------------------------------------------
(* The pins: a call leaves GPIO as available as it was, and a dry run never moves a pin. *)

SameWiring(x, b) == x.enabled = b.enabled /\ (~b.enabled => x.pin = b.pin)

LEMMA ApplyWiring ==
    ASSUME NEW b \in Board, NEW c \in Channel, NEW r \in Apply(b, c)
    PROVE  SameWiring(r.board, b)
<1> DEFINE on == b.sources[c] # {}
           bb == [b EXCEPT !.on[c] = on]
           written == [bb EXCEPT !.pin[c] = on]
           failed  == [bb EXCEPT !.faults = @ - 1]
<1>1. bb.enabled = b.enabled /\ bb.pin = b.pin
  BY DEF Board
<1>2. written.enabled = b.enabled /\ failed.enabled = b.enabled /\ failed.pin = b.pin
  BY DEF Board
<1>3. CASE r = Outcome(b, FALSE)
  BY <1>3, OutcomeFields DEF SameWiring
<1>4. CASE r \in GpioWrite(bb, c, on)
  <2>1. CASE ~bb.enabled
    BY <1>1, <1>4, <2>1, OutcomeFields, ZenonT(30) DEF GpioWrite, SameWiring
  <2>2. CASE bb.enabled
    <3> HIDE DEF bb, written, failed
    <3>1. CASE r = Outcome(written, FALSE)
      BY <1>1, <1>2, <2>2, <3>1, OutcomeFields DEF SameWiring
    <3>2. ASSUME NEW kind \in FaultKind, r = Outcome(failed, kind = "raise")
          PROVE  SameWiring(r.board, b)
      <4>1. r.board = failed
        BY <3>2 DEF Outcome
      <4> QED
        BY <1>2, <4>1 DEF SameWiring
    <3> QED
      BY <1>4, <2>2, <3>1, <3>2 DEF GpioWrite, written, failed
  <2> QED
    BY <2>1, <2>2
<1> QED
  BY <1>3, <1>4 DEF Apply

LEMMA WiringTransitive ==
    ASSUME NEW x, NEW y, NEW z, SameWiring(x, y), SameWiring(y, z)
    PROVE  SameWiring(x, z)
BY DEF SameWiring

LEMMA ApplyBothWiring ==
    ASSUME NEW b \in Board, NEW r \in ApplyBoth(b)
    PROVE  SameWiring(r.board, b)
<1>1. PICK q \in Apply(b, "red") : r \in IF q.raised THEN {q} ELSE Apply(q.board, "buzzer")
  BY DEF ApplyBoth, Then
<1>2. q.board \in Board /\ SameWiring(q.board, b)
  BY ApplyDrives, ApplyWiring DEF Drives, Channel
<1>3. CASE q.raised
  BY <1>1, <1>2, <1>3
<1>4. CASE ~q.raised
  <2>1. SameWiring(r.board, q.board)
    BY <1>1, <1>2, <1>4, ApplyWiring DEF Channel
  <2> QED
    BY <1>2, <2>1, WiringTransitive
<1> QED
  BY <1>3, <1>4

LEMMA SetSecurityWiring ==
    ASSUME NEW b \in Board, NEW on \in BOOLEAN, NEW r \in SetSecurity(b, on)
    PROVE  SameWiring(r.board, b)
<1>1. WithSecurity(b, on) \in Board
  BY WithSecurityType
<1>2. SameWiring(WithSecurity(b, on), b)
  BY DEF WithSecurity, SameWiring, Board
<1>3. SameWiring(r.board, WithSecurity(b, on))
  BY <1>1, ApplyBothWiring DEF SetSecurity
<1> QED
  BY <1>2, <1>3, WiringTransitive

LEMMA SetSourceWiring ==
    ASSUME NEW b \in Board, NEW c \in Channel, NEW a \in Alert, NEW on \in BOOLEAN,
           NEW r \in SetSource(b, c, a, on)
    PROVE  SameWiring(r.board, b)
<1> DEFINE bb == [b EXCEPT !.sources[c] = IF on THEN @ \cup {a} ELSE @ \ {a}]
<1>1. bb \in Board
  BY DEF Board, Source
<1>2. SameWiring(bb, b)
  BY DEF SameWiring, Board
<1>3. r \in Apply(bb, c)
  BY DEF SetSource
<1> HIDE DEF bb
<1>4. SameWiring(r.board, bb)
  BY <1>1, <1>3, ApplyWiring
<1> QED
  BY <1>2, <1>4, WiringTransitive

LEMMA SetAlertWiring ==
    ASSUME NEW b \in Board, NEW a \in Alert, NEW on \in BOOLEAN, NEW r \in SetAlert(b, a, on)
    PROVE  SameWiring(r.board, b)
<1>1. PICK q \in SetSource(b, "red", a, on) :
        r \in IF q.raised THEN {q} ELSE SetSource(q.board, "buzzer", a, on)
  BY DEF SetAlert, Then
<1>2. q.board \in Board /\ SameWiring(q.board, b)
  BY SetSourceKeepsSecurity, SetSourceWiring DEF Channel
<1>3. CASE q.raised
  BY <1>1, <1>2, <1>3
<1>4. CASE ~q.raised
  <2>1. SameWiring(r.board, q.board)
    BY <1>1, <1>2, <1>4, SetSourceWiring DEF Channel
  <2> QED
    BY <1>2, <2>1, WiringTransitive
<1> QED
  BY <1>3, <1>4

LEMMA DropAlertWiring ==
    ASSUME NEW b \in Board, NEW a \in Alert, NEW r \in DropAlert(b, a)
    PROVE  SameWiring(r.board, b)
<1> DEFINE bb == [b EXCEPT !.sources = [c \in Channel |-> b.sources[c] \ {a}]]
<1>1. bb \in Board /\ SameWiring(bb, b)
  BY DEF Board, SameWiring
<1>2. r \in ApplyBoth(bb)
  BY DEF DropAlert
<1> HIDE DEF bb
<1>3. SameWiring(r.board, bb)
  BY <1>1, <1>2, ApplyBothWiring
<1> QED
  BY <1>1, <1>3, WiringTransitive

\* Without GPIO the pins are off: nothing was lit, or cleanup has released them.
Released(b) == ~b.enabled => b.pin = AllOff

LEMMA ReleasedKept ==
    ASSUME NEW x, NEW b, SameWiring(x, b), Released(b)
    PROVE  Released(x)
BY DEF SameWiring, Released

LEMMA RewriteOffWiring ==
    ASSUME NEW b \in Board, NEW c \in Channel, NEW x \in RewriteOff(b, c)
    PROVE  SameWiring(x, b)
<1> DEFINE off == [b EXCEPT !.on[c] = FALSE]
           written == [off EXCEPT !.pin[c] = FALSE]
           failed  == [off EXCEPT !.faults = @ - 1]
<1>1. off.enabled = b.enabled /\ off.pin = b.pin
  BY DEF Board
<1>2. written.enabled = b.enabled /\ failed.enabled = b.enabled /\ failed.pin = b.pin
  BY DEF Board
<1>3. CASE x = b
  BY <1>3 DEF SameWiring
<1>4. ASSUME NEW r \in GpioWrite(off, c, FALSE), x = r.board
      PROVE  SameWiring(x, b)
  <2>1. CASE ~off.enabled
    BY <1>1, <1>4, <2>1, OutcomeFields DEF GpioWrite, SameWiring
  <2>2. CASE off.enabled
    <3> HIDE DEF off, written, failed
    <3>1. CASE r = Outcome(written, FALSE)
      BY <1>1, <1>2, <1>4, <2>2, <3>1, OutcomeFields DEF SameWiring
    <3>2. ASSUME NEW kind \in FaultKind, r = Outcome(failed, kind = "raise")
          PROVE  SameWiring(x, b)
      <4>1. r.board = failed
        BY <3>2 DEF Outcome
      <4> QED
        BY <1>2, <1>4, <4>1 DEF SameWiring
    <3> QED
      BY <1>4, <2>2, <3>1, <3>2 DEF GpioWrite, written, failed
  <2> QED
    BY <2>1, <2>2
<1> QED
  BY <1>3, <1>4 DEF RewriteOff

\* force_security_relays_off may start GPIO; it leaves it released or available.
LEMMA ForceOffReleased ==
    ASSUME NEW b \in Board, Released(b), NEW x \in ForceOff(b)
    PROVE  Released(x)
<1>1. PICK s \in Start(b) : \E r \in SetSecurity(s, FALSE) : x \in RewriteBoth(r)
  BY DEF ForceOff
<1>2. PICK r \in SetSecurity(s, FALSE) : x \in RewriteBoth(r)
  BY <1>1
<1>3. s \in Board /\ r.board \in Board
  BY StartType, SetSecurityType
<1>4. Released(s)
  BY DEF Start, Released, Board
<1>5. Released(r.board)
  BY <1>2, <1>3, <1>4, SetSecurityWiring, ReleasedKept
<1>6. CASE r.raised
  BY <1>2, <1>5, <1>6 DEF RewriteBoth
<1>7. CASE ~r.raised
  <2>1. PICK y \in RewriteOff(r.board, "red") : x \in RewriteOff(y, "buzzer")
    BY <1>2, <1>7 DEF RewriteBoth
  <2>2. y \in Board /\ Released(y)
    BY <1>3, <1>5, RewriteOffType, RewriteOffWiring, ReleasedKept DEF Channel
  <2>3. SameWiring(x, y)
    BY <2>1, <2>2, RewriteOffWiring DEF Channel
  <2> QED
    BY <2>2, <2>3, ReleasedKept
<1> QED
  BY <1>6, <1>7

\* cleanup drops every source.
LEMMA CleanupSources ==
    ASSUME NEW b \in Board, NEW x \in Cleanup(b)
    PROVE  x.sources = NoSources
<1> DEFINE bb == [b EXCEPT !.sources = NoSources]
<1>1. bb \in Board /\ bb.sources = NoSources
  BY DEF Board, NoSources
<1>2. PICK r \in ApplyBoth(bb) :
        x = [r.board EXCEPT !.enabled = FALSE,
                            !.pin = IF r.raised \/ ~b.enabled THEN @ ELSE AllOff]
  BY DEF Cleanup
<1> HIDE DEF bb
<1>3. r.board \in Board /\ r.board.sources = NoSources
  BY <1>1, ApplyBothDrives DEF Drives
<1> QED
  BY <1>2, <1>3 DEF Board

\* After cleanup there is no GPIO.
LEMMA CleanupDisables ==
    ASSUME NEW b \in Board, NEW x \in Cleanup(b)
    PROVE  ~x.enabled
<1> DEFINE bb == [b EXCEPT !.sources = NoSources]
<1>1. bb \in Board
  BY DEF Board, NoSources
<1>2. PICK r \in ApplyBoth(bb) :
        x = [r.board EXCEPT !.enabled = FALSE,
                            !.pin = IF r.raised \/ ~b.enabled THEN @ ELSE AllOff]
  BY DEF Cleanup
<1> HIDE DEF bb
<1>3. r.board \in Board
  BY <1>1, ApplyBothDrives DEF Drives
<1> QED
  BY <1>2, <1>3 DEF Board

\* cleanup whose writes do not raise leaves the pins off and GPIO released.
LEMMA CleanupReleases ==
    ASSUME NoRaise, NEW b \in Board, Released(b), NEW x \in Cleanup(b)
    PROVE  ~x.enabled /\ x.pin = AllOff
<1> DEFINE bb == [b EXCEPT !.sources = NoSources]
<1>1. bb \in Board /\ SameWiring(bb, b)
  BY DEF Board, NoSources, SameWiring
<1>2. PICK r \in ApplyBoth(bb) :
        x = [r.board EXCEPT !.enabled = FALSE,
                            !.pin = IF r.raised \/ ~b.enabled THEN @ ELSE AllOff]
  BY DEF Cleanup
<1> HIDE DEF bb
<1>3. r.board \in Board /\ ~r.raised
  BY <1>1, ApplyBothDrives, ApplyBothReturns DEF Drives
<1>4. SameWiring(r.board, b)
  BY <1>1, ApplyBothWiring, WiringTransitive
<1>5. ~b.enabled => r.board.pin = AllOff
  BY <1>4 DEF SameWiring, Released
<1> QED
  BY <1>2, <1>3, <1>5 DEF Board
---------------------------------------------------------------------------
(* Light: what a call without alerts can light, and what it remembers having lit. *)

\* A write writes its pin or uses up a fault.
LEMMA WriteOutcomes ==
    ASSUME NEW b, b.enabled, NEW c \in Channel, NEW active \in BOOLEAN,
           NEW r \in GpioWrite(b, c, active)
    PROVE  \/ r.board = [b EXCEPT !.pin[c] = active]
           \/ r.board = [b EXCEPT !.faults = @ - 1]
<1> DEFINE written == [b EXCEPT !.pin[c] = active]
           failed  == [b EXCEPT !.faults = @ - 1]
<1> HIDE DEF written, failed
<1>1. \/ r = Outcome(written, FALSE)
      \/ \E kind \in FaultKind : r = Outcome(failed, kind = "raise")
  BY DEF GpioWrite, written, failed
<1>2. r.board = written \/ r.board = failed
  BY <1>1 DEF Outcome
<1> QED
  BY <1>2 DEF written, failed

\* Applying an output that nothing asserts lights nothing.
LEMMA ApplyDims ==
    ASSUME NEW b \in Board, NEW c \in Channel, b.sources[c] = {}, NEW r \in Apply(b, c),
           IsOn(r.board)
    PROVE  IsOn(b)
<1> DEFINE bb == [b EXCEPT !.on[c] = FALSE]
           written == [bb EXCEPT !.pin[c] = FALSE]
           failed  == [bb EXCEPT !.faults = @ - 1]
<1>1. /\ bb.enabled = b.enabled /\ bb.pin = b.pin
      /\ \A d \in Channel : bb.on[d] => b.on[d]
  BY DEF Board
<1>2. /\ written.enabled = b.enabled /\ \A d \in Channel : written.pin[d] => b.pin[d]
      /\ failed.enabled = b.enabled /\ failed.pin = b.pin
  BY DEF Board
<1>3. CASE r = Outcome(b, FALSE)
  BY <1>3, OutcomeFields
<1>4. CASE r \in GpioWrite(bb, c, FALSE)
  <2> HIDE DEF bb
  <2>1. CASE ~bb.enabled
    <3>1. r.board = bb
      BY <1>4, <2>1, OutcomeFields DEF GpioWrite
    <3> QED
      BY <1>1, <2>1, <3>1 DEF IsOn
  <2>2. CASE bb.enabled
    <3>1. r.board = written \/ r.board = failed
      BY <1>4, <2>2, WriteOutcomes
    <3> HIDE DEF written, failed
    <3> QED
      BY <1>1, <1>2, <2>2, <3>1 DEF IsOn
  <2> QED
    BY <2>1, <2>2
<1> QED
  BY <1>3, <1>4 DEF Apply

\* set_security_relays(False) with no alert on the outputs.
LEMMA SetSecurityDims ==
    ASSUME Alert = {}, NEW b \in Board, NEW r \in SetSecurity(b, FALSE), IsOn(r.board)
    PROVE  IsOn(b)
<1> DEFINE w == WithSecurity(b, FALSE)
<1>1. w \in Board
  BY WithSecurityType
<1>2. \A c \in Channel : w.sources[c] = {}
  BY DEF WithSecurity, Board, Source
<1>3. IsOn(w) => IsOn(b)
  BY DEF WithSecurity, Board, IsOn
<1>4. r \in ApplyBoth(w)
  BY DEF SetSecurity
<1> HIDE DEF w
<1>5. PICK q \in Apply(w, "red") : r \in IF q.raised THEN {q} ELSE Apply(q.board, "buzzer")
  BY <1>4 DEF ApplyBoth, Then
<1>6. q.board \in Board /\ q.board.sources = w.sources
  BY <1>1, ApplyDrives DEF Drives, Channel
<1>7. IsOn(q.board) => IsOn(w)
  BY <1>1, <1>2, ApplyDims DEF Channel
<1>8. IsOn(q.board)
  <2>1. CASE q.raised
    BY <1>5, <2>1
  <2>2. CASE ~q.raised
    BY <1>2, <1>5, <1>6, <2>2, ApplyDims DEF Channel
  <2> QED
    BY <2>1, <2>2
<1> QED
  BY <1>3, <1>7, <1>8

LEMMA RewriteOffDims ==
    ASSUME NEW b \in Board, NEW c \in Channel, NEW x \in RewriteOff(b, c), IsOn(x)
    PROVE  IsOn(b)
<1> DEFINE bb == [b EXCEPT !.on[c] = FALSE]
           written == [bb EXCEPT !.pin[c] = FALSE]
           failed  == [bb EXCEPT !.faults = @ - 1]
<1>1. /\ bb.enabled = b.enabled /\ bb.pin = b.pin
      /\ \A d \in Channel : bb.on[d] => b.on[d]
  BY DEF Board
<1>2. /\ written.enabled = b.enabled /\ \A d \in Channel : written.pin[d] => b.pin[d]
      /\ failed.enabled = b.enabled /\ failed.pin = b.pin
  BY DEF Board
<1>3. CASE x = b
  BY <1>3
<1>4. ASSUME NEW r \in GpioWrite(bb, c, FALSE), x = r.board
      PROVE  IsOn(b)
  <2> HIDE DEF bb
  <2>1. CASE ~bb.enabled
    <3>1. r.board = bb
      BY <1>4, <2>1, OutcomeFields DEF GpioWrite
    <3> QED
      BY <1>1, <1>4, <2>1, <3>1 DEF IsOn
  <2>2. CASE bb.enabled
    <3>1. r.board = written \/ r.board = failed
      BY <1>4, <2>2, WriteOutcomes
    <3> HIDE DEF written, failed
    <3> QED
      BY <1>1, <1>2, <1>4, <2>2, <3>1 DEF IsOn
  <2> QED
    BY <2>1, <2>2
<1> QED
  BY <1>3, <1>4 DEF RewriteOff

\* force_security_relays_off lights nothing, and starting GPIO darkens the outputs.
LEMMA ForceOffDims ==
    ASSUME Alert = {}, NEW b \in Board, NEW x \in ForceOff(b), IsOn(x)
    PROVE  IsOn(b)
<1>1. PICK s \in Start(b) : \E r \in SetSecurity(s, FALSE) : x \in RewriteBoth(r)
  BY DEF ForceOff
<1>2. PICK r \in SetSecurity(s, FALSE) : x \in RewriteBoth(r)
  BY <1>1
<1>3. s \in Board /\ r.board \in Board
  BY StartType, SetSecurityType
<1>4. IsOn(s) => IsOn(b)
  <2>1. s = b \/ (s.enabled /\ s.pin = AllOff)
    BY DEF Start, Board
  <2> QED
    BY <2>1 DEF IsOn, AllOff
<1>5. IsOn(r.board) => IsOn(s)
  BY <1>3, SetSecurityDims
<1>6. CASE r.raised
  BY <1>2, <1>4, <1>5, <1>6 DEF RewriteBoth
<1>7. CASE ~r.raised
  <2>1. PICK y \in RewriteOff(r.board, "red") : x \in RewriteOff(y, "buzzer")
    BY <1>2, <1>7 DEF RewriteBoth
  <2>2. y \in Board
    BY <1>3, RewriteOffType DEF Channel
  <2>3. IsOn(y)
    BY <2>1, <2>2, RewriteOffDims DEF Channel
  <2>4. IsOn(r.board)
    BY <1>3, <2>3, RewriteOffDims DEF Channel
  <2> QED
    BY <1>4, <1>5, <2>4
<1> QED
  BY <1>6, <1>7

\* Applying an output that is asserted: the flag is set whatever the write does, an output whose
\* flag was set is not written, and a write that raises moves no pin.
LEMMA ApplyLights ==
    ASSUME NEW b \in Board, NEW c \in Channel, b.sources[c] # {}, NEW r \in Apply(b, c)
    PROVE  /\ r.board.on = [b.on EXCEPT ![c] = TRUE]
           /\ b.on[c] => r.board = b /\ ~r.raised
           /\ r.raised => IsOn(r.board) = IsOn(b)
<1> DEFINE bb == [b EXCEPT !.on[c] = TRUE]
           written == [bb EXCEPT !.pin[c] = TRUE]
           failed  == [bb EXCEPT !.faults = @ - 1]
           lit == [b.on EXCEPT ![c] = TRUE]
<1>1. bb.enabled = b.enabled /\ bb.pin = b.pin /\ bb.on = lit
  BY DEF Board
<1>2. /\ written.on = lit
      /\ failed.enabled = b.enabled /\ failed.pin = b.pin /\ failed.on = lit
  BY DEF Board
<1>3. CASE b.on[c]
  <2>1. r = Outcome(b, FALSE)
    BY <1>3 DEF Apply
  <2>2. b.on = lit
    BY <1>3 DEF Board
  <2> HIDE DEF lit
  <2>3. r.board = b /\ ~r.raised
    BY <2>1, OutcomeFields
  <2> QED
    BY <2>2, <2>3 DEF lit
<1>4. CASE ~b.on[c]
  <2>1. r \in GpioWrite(bb, c, TRUE)
    BY <1>4 DEF Apply, Board
  <2> HIDE DEF bb, lit
  <2>2. CASE r = Outcome(bb, FALSE)
    <3>1. r.board = bb /\ ~r.raised
      BY <2>2, OutcomeFields
    <3> QED
      BY <1>1, <1>4, <3>1 DEF lit
  <2>3. CASE bb.enabled /\ r = Outcome(written, FALSE)
    <3> HIDE DEF written
    <3>1. r.board = written /\ ~r.raised
      BY <2>3, OutcomeFields
    <3> QED
      BY <1>2, <1>4, <3>1 DEF lit
  <2>4. ASSUME NEW kind \in FaultKind, bb.enabled, r = Outcome(failed, kind = "raise")
        PROVE  r.board = failed /\ IsOn(r.board) = IsOn(b)
    <3> HIDE DEF failed
    <3>1. r.board = failed
      BY <2>4 DEF Outcome
    <3>2. IsOn(failed) = IsOn(b)
      BY <1>1, <1>2, <2>4 DEF IsOn
    <3> QED
      BY <3>1, <3>2
  <2>5. \/ r = Outcome(bb, FALSE)
        \/ bb.enabled /\ r = Outcome(written, FALSE)
        \/ bb.enabled /\ \E kind \in FaultKind : r = Outcome(failed, kind = "raise")
    BY <2>1 DEF GpioWrite
  <2>6. CASE bb.enabled /\ \E kind \in FaultKind : r = Outcome(failed, kind = "raise")
    <3>1. r.board = failed /\ IsOn(r.board) = IsOn(b)
      BY <2>4, <2>6
    <3> HIDE DEF failed
    <3> QED
      BY <1>2, <1>4, <3>1 DEF lit
  <2> QED
    BY <2>2, <2>3, <2>5, <2>6
<1> QED
  BY <1>3, <1>4

\* set_security_relays(True): an attempt that lights a relay of a dark board and raises had not
\* flagged the red output, and leaves both flagged; with both flagged it writes nothing.
LEMMA SetSecurityLights ==
    ASSUME NEW b \in Board, NEW r \in SetSecurity(b, TRUE)
    PROVE  /\ r.board.on["red"]
           /\ b.on["red"] /\ b.on["buzzer"] => ~r.raised /\ IsOn(r.board) = IsOn(b)
           /\ r.raised /\ IsOn(r.board) /\ ~IsOn(b) =>
                 ~b.on["red"] /\ r.board.on["buzzer"]
<1> DEFINE w == WithSecurity(b, TRUE)
<1>1. w \in Board /\ w.on = b.on /\ IsOn(w) = IsOn(b)
  <2>1. w \in Board
    BY WithSecurityType
  <2>2. w.on = b.on /\ w.pin = b.pin /\ w.enabled = b.enabled
    BY DEF WithSecurity, Board
  <2> HIDE DEF w
  <2> QED
    BY <2>1, <2>2 DEF IsOn
<1>2. \A c \in Channel : w.sources[c] # {}
  BY DEF WithSecurity, Board
<1>3. r \in ApplyBoth(w)
  BY DEF SetSecurity
<1> HIDE DEF w
<1>4. PICK q \in Apply(w, "red") : r \in IF q.raised THEN {q} ELSE Apply(q.board, "buzzer")
  BY <1>3 DEF ApplyBoth, Then
<1>5. "red" \in Channel /\ "buzzer" \in Channel
  BY DEF Channel
<1>6. q.board \in Board /\ q.board.sources = w.sources
  BY <1>1, <1>5, ApplyDrives DEF Drives
<1>7. /\ q.board.on = [w.on EXCEPT !["red"] = TRUE]
      /\ w.on["red"] => q.board = w /\ ~q.raised
      /\ q.raised => IsOn(q.board) = IsOn(w)
  BY <1>1, <1>2, <1>5, ApplyLights
<1>8. b.on \in [Channel -> BOOLEAN]
  BY DEF Board
<1>9. q.board.on["red"] /\ q.board.on["buzzer"] = b.on["buzzer"]
  BY <1>1, <1>5, <1>7, <1>8
<1>10. CASE q.raised
  <2>1. r = q
    BY <1>4, <1>10
  <2> QED
    BY <1>1, <1>7, <1>9, <1>10, <2>1
<1>11. CASE ~q.raised
  <2>1. r \in Apply(q.board, "buzzer")
    BY <1>4, <1>11
  <2>2. /\ r.board.on = [q.board.on EXCEPT !["buzzer"] = TRUE]
        /\ q.board.on["buzzer"] => r.board = q.board /\ ~r.raised
        /\ r.raised => IsOn(r.board) = IsOn(q.board)
    BY <1>2, <1>5, <1>6, <2>1, ApplyLights
  <2>3. q.board.on \in [Channel -> BOOLEAN]
    BY <1>6 DEF Board
  <2>4. r.board.on["red"] /\ r.board.on["buzzer"]
    BY <1>5, <1>9, <2>2, <2>3
  <2>5. b.on["red"] => q.board = w
    BY <1>1, <1>7
  <2> QED
    BY <1>1, <1>9, <2>2, <2>4, <2>5
<1> QED
  BY <1>10, <1>11
---------------------------------------------------------------------------
(* An output that something asserts is not switched off by what is done to the others. *)

LEMMA ApplyKeepsLit ==
    ASSUME NEW b \in Board, NEW c \in Channel, b.sources[c] # {}, b.pin[c], NEW d \in Channel,
           NEW r \in Apply(b, d)
    PROVE  r.board.pin[c]
<1> DEFINE on == b.sources[d] # {}
           bb == [b EXCEPT !.on[d] = on]
           written == [bb EXCEPT !.pin[d] = on]
           failed  == [bb EXCEPT !.faults = @ - 1]
<1>1. bb.pin = b.pin /\ failed.pin = b.pin
  BY DEF Board
<1>2. written.pin[c]
  BY DEF Board
<1>3. CASE r = Outcome(b, FALSE)
  BY <1>3, OutcomeFields
<1>4. CASE r \in GpioWrite(bb, d, on)
  <2> HIDE DEF bb, on
  <2>1. CASE ~bb.enabled
    BY <1>1, <1>4, <2>1, OutcomeFields DEF GpioWrite
  <2>2. CASE bb.enabled
    <3> HIDE DEF written, failed
    <3>1. \/ r = Outcome(written, FALSE)
          \/ \E kind \in FaultKind : r = Outcome(failed, kind = "raise")
      BY <1>4, <2>2 DEF GpioWrite, written, failed
    <3>2. r.board = written \/ r.board = failed
      BY <3>1 DEF Outcome
    <3> QED
      BY <1>1, <1>2, <3>2
  <2> QED
    BY <2>1, <2>2
<1> QED
  BY <1>3, <1>4 DEF Apply

LEMMA SetSecurityKeepsLit ==
    ASSUME NEW b \in Board, NEW c \in Channel, b.sources[c] \cap Alert # {}, b.pin[c],
           NEW on \in BOOLEAN, NEW r \in SetSecurity(b, on)
    PROVE  r.board.pin[c]
<1> DEFINE w == WithSecurity(b, on)
<1>1. w \in Board
  BY WithSecurityType
<1>2. w.sources[c] # {} /\ w.pin[c]
  BY BoardAssumption DEF WithSecurity, Board
<1>3. r \in ApplyBoth(w)
  BY DEF SetSecurity
<1> HIDE DEF w
<1>4. PICK q \in Apply(w, "red") : r \in IF q.raised THEN {q} ELSE Apply(q.board, "buzzer")
  BY <1>3 DEF ApplyBoth, Then
<1>5. q.board \in Board /\ q.board.sources = w.sources /\ q.board.pin[c]
  BY <1>1, <1>2, ApplyDrives, ApplyKeepsLit DEF Drives, Channel
<1>6. CASE q.raised
  BY <1>4, <1>5, <1>6
<1>7. CASE ~q.raised
  BY <1>2, <1>4, <1>5, <1>7, ApplyKeepsLit DEF Channel
<1> QED
  BY <1>6, <1>7

LEMMA RewriteOffKeepsLit ==
    ASSUME NEW b \in Board, NEW c \in Channel, b.sources[c] # {}, b.pin[c], NEW d \in Channel,
           NEW x \in RewriteOff(b, d)
    PROVE  x.pin[c]
<1> DEFINE bb == [b EXCEPT !.on[d] = FALSE]
           written == [bb EXCEPT !.pin[d] = FALSE]
           failed  == [bb EXCEPT !.faults = @ - 1]
<1>1. bb.pin = b.pin /\ failed.pin = b.pin
  BY DEF Board
<1>2. d # c => written.pin[c]
  BY DEF Board
<1>3. CASE x = b
  BY <1>3
<1>4. ASSUME b.sources[d] = {}, NEW r \in GpioWrite(bb, d, FALSE), x = r.board
      PROVE  x.pin[c]
  <2> HIDE DEF bb
  <2>1. CASE ~bb.enabled
    BY <1>1, <1>4, <2>1, OutcomeFields, ZenonT(30) DEF GpioWrite
  <2>2. CASE bb.enabled
    <3>1. r.board = written \/ r.board = failed
      BY <1>4, <2>2, WriteOutcomes
    <3> HIDE DEF written, failed
    <3> QED
      BY <1>1, <1>2, <1>4, <3>1
  <2> QED
    BY <2>1, <2>2
<1> QED
  BY <1>3, <1>4 DEF RewriteOff

\* force_security_relays_off on a board whose GPIO is up: an alert keeps its sources and its light.
LEMMA ForceOffKeepsLit ==
    ASSUME NEW b \in Board, b.enabled, NEW x \in ForceOff(b), NEW c \in Channel
    PROVE  /\ x.sources[c] \cap Alert = b.sources[c] \cap Alert
           /\ b.sources[c] \cap Alert # {} /\ b.pin[c] => x.pin[c]
<1>1. PICK r \in SetSecurity(b, FALSE) : x \in RewriteBoth(r)
  BY DEF ForceOff, Start
<1>2. r.board \in Board
  BY SetSecurityType
<1>3. r.board.sources[c] \cap Alert = b.sources[c] \cap Alert
  BY SetSecurityAlerts, ZenonT(30)
<1>4. b.sources[c] \cap Alert # {} /\ b.pin[c] => r.board.pin[c]
  BY SetSecurityKeepsLit
<1>5. CASE r.raised
  BY <1>1, <1>3, <1>4, <1>5 DEF RewriteBoth
<1>6. CASE ~r.raised
  <2>1. PICK y \in RewriteOff(r.board, "red") : x \in RewriteOff(y, "buzzer")
    BY <1>1, <1>6 DEF RewriteBoth
  <2>2. y \in Board /\ y.sources = r.board.sources
    BY <1>2, RewriteOffType, RewriteOffAlerts DEF Channel
  <2>3. x.sources = r.board.sources
    BY <2>1, <2>2, RewriteOffAlerts DEF Channel
  <2>4. r.board.sources[c] # {} /\ r.board.pin[c] => y.pin[c]
    BY <1>2, RewriteOffKeepsLit DEF Channel
  <2>5. y.sources[c] # {} /\ y.pin[c] => x.pin[c]
    BY <2>1, <2>2, RewriteOffKeepsLit DEF Channel
  <2> QED
    BY <1>3, <1>4, <2>2, <2>3, <2>4, <2>5
<1> QED
  BY <1>5, <1>6
===========================================================================
