------------------------- MODULE MCStreamSupervision -------------------------
(* Model checking of StreamSupervision: one camera's stream and its supervisors. *)
EXTENDS StreamSupervision
===========================================================================
