----------------------------- MODULE AudioStream -----------------------------
(***************************************************************************)
(* What the plugin's circular buffer promises to TeamSpeak, without the    *)
(* circular buffer: a lossy first-in first-out stream of samples.  Samples *)
(* are numbered in the order in which the network delivered them.          *)
(*                                                                         *)
(* Audio may be lost in two ways and in no other: the tail of a datagram   *)
(* is cut off, or the whole buffer is forgotten when it fills up exactly.  *)
(* What is heard is never reordered, never repeated and never invented.    *)
(***************************************************************************)
EXTENDS Naturals, Sequences

CONSTANTS
    Capacity,     \* samples the buffer has cells for
    Chunk,        \* samples handed to TeamSpeak at a time
    MaxOffer      \* samples of the largest datagram

VARIABLES
    total,        \* number of samples received so far
    offered,      \* samples of the datagram that is being stored
    buffered,     \* samples stored and not yet played, oldest first
    heard         \* the chunk TeamSpeak was given last

vars == <<total, offered, buffered, heard>>

Prefix(s, k) == SubSeq(s, 1, k)

Init ==
    /\ total = 0
    /\ offered = <<>>
    /\ buffered = <<>>
    /\ heard = <<>>

(* A datagram of n samples arrives once the one before it has been dealt with. *)
Offer(n) ==
    /\ offered = <<>>
    /\ offered' = [k \in 1..n |-> total + k]
    /\ total' = total + n
    /\ UNCHANGED <<buffered, heard>>

(* The first k samples of the datagram are stored; the others are lost. *)
Accept(k) ==
    /\ offered # <<>>
    /\ Len(buffered) + k < Capacity
    /\ buffered' = buffered \o Prefix(offered, k)
    /\ offered' = <<>>
    /\ UNCHANGED <<total, heard>>

(* The first k samples would fill the buffer to the brim: a full buffer is
   indistinguishable from an empty one, so everything in it is lost. *)
Overrun(k) ==
    /\ offered # <<>>
    /\ Len(buffered) + k = Capacity
    /\ buffered' = <<>>
    /\ offered' = <<>>
    /\ UNCHANGED <<total, heard>>

(* The oldest Chunk samples are handed to TeamSpeak. *)
Play ==
    /\ Len(buffered) >= Chunk
    /\ heard' = Prefix(buffered, Chunk)
    /\ buffered' = SubSeq(buffered, Chunk + 1, Len(buffered))
    /\ UNCHANGED <<total, offered>>

Next ==
    \/ \E n \in 1..MaxOffer : Offer(n)
    \/ \E k \in 0..Len(offered) : Accept(k) \/ Overrun(k)
    \/ Play

Spec == Init /\ [][Next]_vars

(* The samples heard last, those buffered and those on offer carry increasing
   numbers: whatever is heard next is newer than everything heard before. *)
InOrder ==
    LET all == heard \o buffered \o offered
    IN  \A i \in 1..Len(all) - 1 : all[i] < all[i + 1]

(* Nothing is heard that the network did not deliver. *)
NothingInvented ==
    LET all == heard \o buffered \o offered
    IN  \A i \in 1..Len(all) : all[i] \in 1..total
=============================================================================
