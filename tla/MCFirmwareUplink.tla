--------------------------- MODULE MCFirmwareUplink ---------------------------
(* Small instances of FirmwareUplink: the constants are given by the .cfg. *)
EXTENDS FirmwareUplink
=============================================================================
