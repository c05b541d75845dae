---------------------------- MODULE LappingStream ----------------------------
(***************************************************************************)
(* What the two rings of the firmware promise, without cursors or cells.   *)
(* Neither of them has a test for room: a writer that gets a whole lap     *)
(* ahead of the reader makes it forget that lap, the oldest samples first. *)
(* What is left is in order, without repetition or invention.  Samples are *)
(* numbered as they come, from 1; Silence is the zero of an unused cell.   *)
(***************************************************************************)
EXTENDS Naturals, Sequences

CONSTANTS
    Capacity,     \* cells of the ring
    Dropped,      \* samples that may be cut off behind stored ones
    Silence

VARIABLES
    total,        \* number of the latest sample
    buffered,     \* samples stored and not taken yet, oldest first
    taken,        \* the samples taken last
    started       \* something has been taken

vars == <<total, buffered, taken, started>>

Init ==
    /\ total = 0
    /\ taken = <<>>
    /\ started \in BOOLEAN
    /\ buffered = IF started THEN <<>> ELSE [i \in 1..Capacity |-> Silence]

Newest(s, k) == SubSeq(s, Len(s) - k + 1, Len(s))

(* What is left of n samples: equal cursors mean that nothing is buffered, except
   where the reader has yet to make its false start. *)
Remaining(n) ==
    IF n % Capacity = 0 /\ ~started THEN Capacity ELSE n % Capacity

(* k samples are stored, the dropped ones behind them are not. *)
Store(k, dropped) ==
    LET all == buffered \o [i \in 1..k |-> total + i]
    IN  /\ total' = total + k + dropped
        /\ buffered' = Newest(all, Remaining(Len(all)))
        /\ UNCHANGED <<taken, started>>

Take(k) ==
    /\ started
    /\ taken' = SubSeq(buffered, 1, k)
    /\ buffered' = SubSeq(buffered, k + 1, Len(buffered))
    /\ UNCHANGED <<total, started>>

(* A reader that starts behind the last cell has a lap of silence before it, and
   takes something else instead of the first sample. *)
FalseStart ==
    /\ ~started
    /\ started' = TRUE
    /\ buffered' = Tail(buffered)
    /\ Len(taken') = 1 /\ taken'[1] \notin 1..total
    /\ UNCHANGED total

Next ==
    \/ \E k \in 1..Capacity, dropped \in {0, Dropped} : Store(k, dropped)
    \/ \E k \in 0..Len(buffered) : Take(k)
    \/ FalseStart

Spec == Init /\ [][Next]_vars
=============================================================================
