-------------------------- MODULE MCFirmwareUpdate --------------------------
(* Model-checking instances of FirmwareUpdate; the values are in the cfgs. *)
EXTENDS FirmwareUpdate
=============================================================================
