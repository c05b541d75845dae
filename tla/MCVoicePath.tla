------------------------------ MODULE MCVoicePath ------------------------------
(* Small instances of VoicePath: the constants are given by the .cfg. *)
EXTENDS VoicePath
=============================================================================
