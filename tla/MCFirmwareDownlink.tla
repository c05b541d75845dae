-------------------------- MODULE MCFirmwareDownlink --------------------------
(* Small instances of FirmwareDownlink: the constants are given by the .cfg. *)
EXTENDS FirmwareDownlink
=============================================================================
