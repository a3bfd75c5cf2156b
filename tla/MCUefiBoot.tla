----------------------------- MODULE MCUefiBoot -----------------------------
(* Model-checking instance of UefiBoot; the values are in UefiBoot.cfg. *)
EXTENDS UefiBoot
=============================================================================
