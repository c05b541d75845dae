--------------------------- MODULE MCPlaybackRing ---------------------------
(* Small instances of PlaybackRing: the constants are given by the .cfg. *)
EXTENDS PlaybackRing
=============================================================================
