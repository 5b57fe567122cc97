----------------------- MODULE ReconnectPolicy_proofs -----------------------
(***************************************************************************)
(* What the network agent's policy promises for every scan and every value *)
(* of its configuration.                                                   *)
(***************************************************************************)
EXTENDS ReconnectPolicy, TLAPS

\* 0 % is -100 dBm and 100 % is -50 dBm, and what lies between them lies between.
LEMMA PercentRange ==
    ASSUME NEW p \in 0 .. 100
    PROVE  PercentToDbm(p) \in -100 .. -50
BY DEF PercentToDbm

\* A stronger percentage is never a weaker signal in dBm, although int() truncates.
LEMMA PercentMonotone ==
    ASSUME NEW p \in 0 .. 100, NEW q \in p .. 100
    PROVE  PercentToDbm(p) <= PercentToDbm(q)
BY DEF PercentToDbm

\* _percent_to_dbm clamps what nmcli reports: the answer is a signal whatever it is.
THEOREM SignalToDbmRange ==
    ASSUME NEW percent \in Int
    PROVE  SignalToDbm(percent) \in -100 .. -50
<1> DEFINE p == IF percent < 0 THEN 0 ELSE IF percent > 100 THEN 100 ELSE percent
<1>1. p \in 0 .. 100
  OBVIOUS
<1>2. PercentToDbm(p) \in -100 .. -50
  BY <1>1, PercentRange
<1> QED
  BY <1>2 DEF SignalToDbm

\* A signal in dBm, of at most -1, is taken as it is: what has been normalised once may be
\* normalised again, as in the candidates should_switch is given.
THEOREM NormalizeIsIdempotent ==
    ASSUME NEW value \in Int
    PROVE  NormalizeRssi(NormalizeRssi(value)) = NormalizeRssi(value)
<1>1. CASE value \in 0 .. 100
  <2>1. NormalizeRssi(value) = PercentToDbm(value)
    BY <1>1 DEF NormalizeRssi
  <2>2. PercentToDbm(value) \in -100 .. -50
    BY <1>1, PercentRange
  <2>3. PercentToDbm(value) \notin 0 .. 100
    BY <2>2
  <2> QED
    BY <2>1, <2>3 DEF NormalizeRssi
<1>2. CASE value \notin 0 .. 100
  BY <1>2 DEF NormalizeRssi
<1> QED
  BY <1>1, <1>2

\* A candidate of rank_candidates is saved, not in backoff, was seen in the scan, and is as
\* strong as minimum_signal_dbm asks.
THEOREM CandidatesAreEligible ==
    ASSUME NEW scan, NEW saved, NEW backoff,
           NEW c \in Candidates(scan, saved, backoff)
    PROVE  /\ c.ssid \in saved \ backoff
           /\ c.rssi >= MinSignal
           /\ \E n \in scan : c.ssid = n.ssid /\ c.rssi = NormalizeRssi(n.rssi)
<1>1. PICK n \in {m \in Deduplicated(scan) : /\ m.ssid \in saved \ backoff
                                             /\ NormalizeRssi(m.rssi) >= MinSignal} :
          c = [ssid |-> n.ssid, rssi |-> NormalizeRssi(n.rssi)]
  BY DEF Candidates
<1>2. n \in scan
  BY DEF Deduplicated
<1> QED
  BY <1>1, <1>2

\* One candidate for each network: of its access points, the strongest counts.
THEOREM OneCandidateEach ==
    ASSUME NEW scan, \A n \in scan : n.rssi \in Int, NEW saved, NEW backoff,
           NEW c \in Candidates(scan, saved, backoff), NEW d \in Candidates(scan, saved, backoff),
           c.ssid = d.ssid
    PROVE  c = d
<1> DEFINE Chosen == {m \in Deduplicated(scan) : /\ m.ssid \in saved \ backoff
                                                 /\ NormalizeRssi(m.rssi) >= MinSignal}
<1>1. PICK m \in Chosen : c = [ssid |-> m.ssid, rssi |-> NormalizeRssi(m.rssi)]
  BY DEF Candidates
<1>2. PICK n \in Chosen : d = [ssid |-> n.ssid, rssi |-> NormalizeRssi(n.rssi)]
  BY DEF Candidates
<1>3. m \in Deduplicated(scan) /\ n \in Deduplicated(scan) /\ m.ssid = n.ssid
  BY <1>1, <1>2
<1>4. m \in scan /\ n \in scan /\ m.rssi <= n.rssi /\ n.rssi <= m.rssi
  BY <1>3 DEF Deduplicated
<1>5. m.rssi = n.rssi
  BY <1>4
<1> QED
  BY <1>1, <1>2, <1>3, <1>5

\* The order in which networks are tried begins with a candidate no other outshines: the agent's
\* best candidate, which is the head of the list.
THEOREM BestIsStrongest ==
    ASSUME NEW candidates, IsFiniteSet(candidates), Cardinality(candidates) \in Nat \ {0},
           \A c \in candidates : c.rssi \in Int,
           NEW s \in Ranked(candidates),
           NEW j \in 1 .. Cardinality(candidates)
    PROVE  s[1] \in candidates /\ s[1].rssi >= s[j].rssi
<1>1. s \in [1 .. Cardinality(candidates) -> candidates]
  BY DEF Ranked
<1>2. 1 \in 1 .. Cardinality(candidates) /\ s[1] \in candidates
  BY <1>1
<1>3. CASE j = 1
  BY <1>2, <1>3
<1>4. CASE j # 1
  <2>1. 1 < j
    BY <1>4
  <2> QED
    BY <1>2, <2>1 DEF Ranked
<1> QED
  BY <1>2, <1>3, <1>4

\* Two networks in range that are both strong enough never make the locker go to and fro: with
\* the signals as they are, should_switch does not say yes both ways.
THEOREM NoPingPong ==
    ASSUME NEW none, NEW a, NEW b, a.ssid # none, b.ssid # none,
           a.rssi \in Int, b.rssi \in Int, a.rssi >= MinSignal, b.rssi >= MinSignal,
           a.rssi < 0, b.rssi < 0,
           NEW coolingA, NEW coolingB,
           ShouldSwitch(a.ssid, none, a.rssi, b, coolingA)
    PROVE  ~ShouldSwitch(b.ssid, none, b.rssi, a, coolingB)
<1>1. NormalizeRssi(a.rssi) = a.rssi /\ NormalizeRssi(b.rssi) = b.rssi
  BY DEF NormalizeRssi
<1>2. b.rssi >= a.rssi + Hysteresis
  BY <1>1, PolicyAssumption DEF ShouldSwitch
<1>3. ~(a.rssi >= b.rssi + Hysteresis)
  BY <1>2, PolicyAssumption
<1> QED
  BY <1>1, <1>3, PolicyAssumption DEF ShouldSwitch

\* The network that is in use is never left for a candidate that is no stronger, unless it is
\* weaker than minimum_signal_dbm.
THEOREM SwitchesUpwards ==
    ASSUME NEW current, NEW none, current # none, NEW currentRssi \in Int,
           NEW candidate, candidate.rssi \in Int, candidate.rssi >= MinSignal,
           NEW coolingDown,
           ShouldSwitch(current, none, currentRssi, candidate, coolingDown)
    PROVE  candidate.rssi > NormalizeRssi(currentRssi) /\ candidate.ssid # current
<1>1. NormalizeRssi(currentRssi) \in Int
  BY DEF NormalizeRssi, PercentToDbm
<1>2. CASE NormalizeRssi(currentRssi) < MinSignal
  BY <1>1, <1>2, PolicyAssumption DEF ShouldSwitch
<1>3. CASE candidate.rssi >= NormalizeRssi(currentRssi) + Hysteresis
  BY <1>1, <1>3, PolicyAssumption DEF ShouldSwitch
<1> QED
  BY <1>2, <1>3 DEF ShouldSwitch
=============================================================================
