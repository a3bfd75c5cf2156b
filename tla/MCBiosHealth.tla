---------------------------- MODULE MCBiosHealth ----------------------------
(* Model-checking instances of BiosHealth; the values are in the cfg files. *)
EXTENDS BiosHealthStore
=============================================================================
