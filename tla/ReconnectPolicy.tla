-------------------------- MODULE ReconnectPolicy --------------------------
(***************************************************************************)
(* The pure part of the network agent's choices: what a scan says of a     *)
(* network, which saved networks may be tried and in which order, whether  *)
(* to leave the current network for a stronger one, and for how long a     *)
(* network that failed is left alone.  Signals are in dBm, times in        *)
(* seconds.                                                                *)
(***************************************************************************)
EXTENDS Integers, FiniteSets

CONSTANTS MinSignal,    \* minimum_signal_dbm
          Hysteresis,   \* switch_hysteresis_dbm
          BaseDelay,    \* retry_base_delay_seconds
          MaxDelay      \* max_retry_delay_seconds

\* config.py keeps the threshold negative and the hysteresis and the delays positive
ASSUME PolicyAssumption == /\ MinSignal \in Int /\ MinSignal < 0
                           /\ Hysteresis \in Nat \ {0}
                           /\ BaseDelay \in Nat \ {0} /\ MaxDelay \in Nat \ {0}

NoSignal == -999

(* A signal of the scanner, or None (NoSignal here).  Percentages become dBm; int() truncates
   towards zero. *)
PercentToDbm(p) == -((200 - p) \div 2)

NormalizeRssi(value) ==
    IF value \in 0..100 THEN PercentToDbm(value) ELSE value

(* nmcli reports percentages, clamped before they are converted. *)
SignalToDbm(percent) ==
    PercentToDbm(IF percent < 0 THEN 0 ELSE IF percent > 100 THEN 100 ELSE percent)

(* One entry per network: the strongest of its access points. *)
Deduplicated(scan) ==
    {n \in scan : \A m \in scan : m.ssid = n.ssid => m.rssi <= n.rssi}

(* The networks worth trying: saved, strong enough, and not in backoff. *)
Candidates(scan, saved, backoff) ==
    {[ssid |-> n.ssid, rssi |-> NormalizeRssi(n.rssi)] :
        n \in {m \in Deduplicated(scan) : /\ m.ssid \in saved \ backoff
                                          /\ NormalizeRssi(m.rssi) >= MinSignal}}

(* The orders in which they may be tried: strongest first.  Priority, the last success and the
   number of failures only decide between equal signals. *)
Ranked(candidates) ==
    {s \in [1..Cardinality(candidates) -> candidates] :
        \A i, j \in 1..Cardinality(candidates) :
            i < j => s[i] # s[j] /\ s[i].rssi >= s[j].rssi}

(* Whether to leave the current network, or none, for the candidate. *)
ShouldSwitch(current, none, currentRssi, candidate, coolingDown) ==
    \/ current = none
    \/ /\ candidate.ssid # current
       /\ ~coolingDown
       /\ \/ NormalizeRssi(currentRssi) < MinSignal
          \/ candidate.rssi >= NormalizeRssi(currentRssi) + Hysteresis

(* The backoff after the n-th failure in a row; a wrong password is left alone for a day. *)
Day == 24 * 60 * 60

FailureDelay(failures, wrongPassword) ==
    LET delay == BaseDelay * 2 ^ (IF failures > 1 THEN failures - 1 ELSE 0)
    IN  IF wrongPassword THEN Day ELSE IF delay < MaxDelay THEN delay ELSE MaxDelay
=============================================================================
