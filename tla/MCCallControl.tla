--------------------------- MODULE MCCallControl ---------------------------
(* Small instances of CallControl: a caller the phonebook knows and one it does
   not; the bounds and the plugin's commands are given by the .cfg. *)
EXTENDS CallControl

NotMisled == ~misled
=============================================================================
