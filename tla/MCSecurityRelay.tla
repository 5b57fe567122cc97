-------------------------- MODULE MCSecurityRelay --------------------------
(* Instances of SecurityRelay for TLC: two detection sources are enough for one to clear or  *)
(* expire while the other is active; one alert shares the outputs.                           *)
EXTENDS SecurityRelay, TLC

CONSTANTS person, tamper, qr_failure

Sources == {person, tamper}
OneSource == {person}
NoAlert == {}
QrAlert == {qr_failure}
Stuck == {"stuck"}
AnyFault == {"stuck", "raise"}
CameraSymmetry == Permutations(Sources)
===========================================================================
