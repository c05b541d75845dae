------------------------------- MODULE MCLogger -------------------------------
(* Two threads, with the sizes of the code. *)
EXTENDS Logger

MCLengths == {0, 5000}
=============================================================================
