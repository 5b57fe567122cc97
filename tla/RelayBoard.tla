---------------------------- MODULE RelayBoard ----------------------------
(***************************************************************************)
(* The two outputs of the relay board that surveillance and alerts share:  *)
(* IN1 (red LED) and IN4 (buzzer), as RelayController keeps them.  An      *)
(* output is asserted by a set of named sources; the controller remembers  *)
(* the level it last asked for (_red_on, _buzzer_on) and skips a write     *)
(* that would not change it, whether or not the pin obeyed.                *)
(*                                                                         *)
(* Every operator maps a board to the set of its possible outcomes: a GPIO *)
(* write can succeed, can be verified as not having taken ("stuck"), or    *)
(* can raise ("raise").  FaultKind says which faults are possible and      *)
(* board.faults how many are left: a bound of the model.                   *)
(***************************************************************************)
EXTENDS Naturals

CONSTANTS Alert,      \* alert sources sharing the outputs; {} when RELAY_ALLOW_SHARED_ALERT_OUTPUTS is off
          FaultKind   \* the ways a GPIO write may fail

Security == "security_event"
Source   == Alert \cup {Security}
Channel  == {"red", "buzzer"}

ASSUME BoardAssumption == /\ Security \notin Alert
                          /\ FaultKind \subseteq {"stuck", "raise"}

Board == [enabled : BOOLEAN,
          sources : [Channel -> SUBSET Source],
          on      : [Channel -> BOOLEAN],
          pin     : [Channel -> BOOLEAN],
          faults  : Nat]

AllOff    == [c \in Channel |-> FALSE]
NoSources == [c \in Channel |-> {}]

Outcome(b, raised) == [board |-> b, raised |-> raised]

\* Runs Op on each outcome of R that did not raise, as two calls in sequence do.
Then(R, Op(_)) == UNION {IF r.raised THEN {r} ELSE Op(r.board) : r \in R}

---------------------------------------------------------------------------
(* One output. *)

\* _write: a dry run without GPIO; its own retries are part of the outcome.
GpioWrite(b, c, active) ==
    IF ~b.enabled
    THEN {Outcome(b, FALSE)}
    ELSE {Outcome([b EXCEPT !.pin[c] = active], FALSE)}
         \cup {Outcome([b EXCEPT !.faults = @ - 1], kind = "raise") :
                 kind \in {k \in FaultKind : b.faults > 0}}

\* _apply_red_locked, _apply_buzzer_locked: the flag is set before the write.
Apply(b, c) ==
    LET active == b.sources[c] # {}
    IN  IF b.on[c] = active
        THEN {Outcome(b, FALSE)}
        ELSE GpioWrite([b EXCEPT !.on[c] = active], c, active)

ApplyBoth(b) ==
    LET ApplyBuzzer(x) == Apply(x, "buzzer")
    IN  Then(Apply(b, "red"), ApplyBuzzer)

\* _set_red_source, _set_buzzer_source
SetSource(b, c, src, active) ==
    Apply([b EXCEPT !.sources[c] = IF active THEN @ \cup {src} ELSE @ \ {src}], c)

---------------------------------------------------------------------------
(* The controller's calls. *)

\* Mutant: turning security off forgets the red output.
WithSecurity_RedStays(b, active) ==
    [b EXCEPT !.sources = [c \in Channel |-> IF active \/ c = "red" THEN b.sources[c] \cup {Security}
                                                       ELSE b.sources[c] \ {Security}]]

WithSecurity(b, active) ==
    [b EXCEPT !.sources = [c \in Channel |-> IF active THEN b.sources[c] \cup {Security}
                                                       ELSE b.sources[c] \ {Security}]]

\* set_security_relays: both sources are updated, then both outputs.
SetSecurity(b, active) == ApplyBoth(WithSecurity(b, active))

\* is_security_relays_on: read back from the pins, or the flags in a dry run.
IsOn(b) == \E c \in Channel : IF b.enabled THEN b.pin[c] ELSE b.on[c]

\* start: GPIO may be unavailable; configuring it drives every pin inactive.
Start(b) ==
    IF b.enabled
    THEN {b}
    ELSE {b, [b EXCEPT !.enabled = TRUE, !.sources = NoSources, !.on = AllOff, !.pin = AllOff]}

\* Mutant: the output is switched off whoever else asserts it.
RewriteOff_Always(b, c) == {r.board : r \in GpioWrite([b EXCEPT !.on[c] = FALSE], c, FALSE)}

\* The direct write of force_security_relays_off, whose exception is caught.
RewriteOff(b, c) ==
    IF b.sources[c] # {}
    THEN {b}
    ELSE {r.board : r \in GpioWrite([b EXCEPT !.on[c] = FALSE], c, FALSE)}

\* An exception raised while applying skips the rewrites.
RewriteBoth(r) ==
    IF r.raised
    THEN {r.board}
    ELSE UNION {RewriteOff(x, "buzzer") : x \in RewriteOff(r.board, "red")}

\* force_security_relays_off
ForceOff(b) ==
    UNION {RewriteBoth(r) : r \in UNION {SetSecurity(s, FALSE) : s \in Start(b)}}

\* The red source and output first; an exception leaves the buzzer as it was
\* (the body of trigger_alert, and the end of _alert_worker).
SetAlert(b, a, active) ==
    LET SetBuzzer(x) == SetSource(x, "buzzer", a, active)
    IN  Then(SetSource(b, "red", a, active), SetBuzzer)

\* _clear_alert_source_locked, called by a QR success: both sources, then both outputs.
DropAlert(b, a) ==
    ApplyBoth([b EXCEPT !.sources = [c \in Channel |-> b.sources[c] \ {a}]])

\* Mutant: cleanup relies on its writes alone.
Cleanup_PinsKept(b) ==
    {[r.board EXCEPT !.enabled = FALSE] : r \in ApplyBoth([b EXCEPT !.sources = NoSources])}

\* cleanup: gpio.cleanup releases the pins, unless an earlier write raised.
Cleanup(b) ==
    {[r.board EXCEPT !.enabled = FALSE,
                     !.pin = IF r.raised \/ ~b.enabled THEN @ ELSE AllOff] :
       r \in ApplyBoth([b EXCEPT !.sources = NoSources])}
===========================================================================
