--------------------------- MODULE VoicePath_proofs ---------------------------
(* Theorems about VoicePath, for every block, ring, socket and network that
   satisfy VoiceAssumption. *)
EXTENDS VoicePath, TLAPS

LEMMA Sizes ==
    /\ BlockSamples \in Nat /\ buf_sz \in Nat
    /\ QueueLimit \in Nat /\ MaxInFlight \in Nat
  BY VoiceAssumption DEF VoiceAssumption

LEMMA KeptType == Kept \in Nat \ {0}
  BY VoiceAssumption DEF VoiceAssumption, Kept

(* Multiplication as the proofs need it. *)
LEMMA OneMore ==
    ASSUME NEW k \in Nat, NEW n \in Nat
    PROVE  k * n \in Nat /\ k * (n + 1) = k * n + k
  OBVIOUS

LEMMA OneLess ==
    ASSUME NEW k \in Nat, NEW n \in Nat \ {0}
    PROVE  k * (n - 1) \in Nat /\ k * n = k * (n - 1) + k
  <1>1. n - 1 \in Nat /\ n = (n - 1) + 1
    OBVIOUS
  <1> QED
    BY <1>1, OneMore

LEMMA NotMore ==
    ASSUME NEW k \in Nat, NEW m \in Nat, NEW n \in Nat, m <= n
    PROVE  k * m \in Nat /\ k * n \in Nat /\ k * m <= k * n
  OBVIOUS

-----------------------------------------------------------------------------
(* Cursors, counters and timers stay in their ranges (plugin.c:197-219,
   main.ino:366-393). *)
THEOREM TypeCorrect == Spec => []TypeOK
  <1>1. Init => TypeOK
    <2> SUFFICES ASSUME Init PROVE TypeOK
      OBVIOUS
    <2>1. emptyAtStart \in BOOLEAN /\ lapped \in BOOLEAN
      BY Zenon DEF Init
    <2>2. /\ since \in NoStart..BlockSamples + 1
          /\ lead \in Int /\ lead >= -(BlockSamples + 1)
      BY Sizes DEF Init, NoStart
    <2>3. /\ inFlight \in 0..MaxInFlight /\ queued \in 0..QueueLimit
          /\ call_in_progress \in {0, 1} /\ unplayed \in 0..buf_sz
      BY Sizes DEF Init
    <2> QED
      BY <2>1, <2>2, <2>3 DEF TypeOK
  <1>2. TypeOK /\ [Next]_vars => TypeOK'
    <2> SUFFICES ASSUME TypeOK, [Next]_vars PROVE TypeOK'
      OBVIOUS
    <2> USE Sizes, KeptType DEF TypeOK, NoStart
    <2>1. CASE StartPacing
      BY <2>1 DEF StartPacing, network, board
    <2>2. CASE SendBlock
      <3>1. since' = -1 /\ lead' = lead + BlockSamples /\ inFlight' \in 0..MaxInFlight
        BY <2>2 DEF SendBlock, BlockIsDue
      <3> QED
        BY <2>2, <3>1 DEF SendBlock, board
    <2>3. CASE NothingToSend
      BY <2>3 DEF NothingToSend, BlockIsDue, network, board
    <2>4. CASE Arrive
      BY <2>4 DEF Arrive, board
    <2>5. CASE LoseDatagram
      BY <2>5 DEF LoseDatagram, board
    <2>6. CASE StoreDatagram
      <3>1. buf_sz > 0
        <4>1. Kept * (QueueLimit + MaxInFlight + 1) \in Nat
          BY NotMore
        <4> QED
          BY <4>1, VoiceAssumption DEF VoiceAssumption, Kept
      <3>2. AfterStoring \in 0..buf_sz - 1
        BY <3>1 DEF AfterStoring
      <3> QED
        BY <2>6, <3>2 DEF StoreDatagram
    <2>7. CASE FlagChanges
      <3>1. /\ call_in_progress' \in {0, 1} /\ UNCHANGED <<since, lead, unplayed>>
            /\ UNCHANGED <<inFlight, queued>>
        BY <2>7 DEF FlagChanges, network
      <3>2. emptyAtStart' \in BOOLEAN /\ lapped' \in BOOLEAN
        BY <2>7, Zenon DEF FlagChanges
      <3> QED
        BY <3>1, <3>2
    <2>8. CASE Tick
      BY <2>8 DEF Tick, AtMost, AtLeast, AfterPlaying, network
    <2>9. CASE UNCHANGED vars
      BY <2>9 DEF vars
    <2> QED
      BY <2>1, <2>2, <2>3, <2>4, <2>5, <2>6, <2>7, <2>8, <2>9 DEF Next
  <1> QED
    BY <1>1, <1>2, PTL DEF Spec

-----------------------------------------------------------------------------
(* While the clock runs, at least as much time as it shows has not been used for
   voice. *)
Paced ==
    /\ lead <= 0
    /\ since # NoStart => lead + since <= 0

LEMMA PacedInit == Init => Paced
  BY DEF Init, Paced, NoStart

LEMMA PacedStep == TypeOK /\ Paced /\ [Next]_vars => Paced'
  <1> SUFFICES ASSUME TypeOK, Paced, [Next]_vars PROVE Paced'
    OBVIOUS
  <1> USE Sizes DEF TypeOK, Paced, NoStart
  <1>1. CASE StartPacing
    BY <1>1 DEF StartPacing
  <1>2. CASE SendBlock
    <2>1. since > BlockSamples /\ since' = -1 /\ lead' = lead + BlockSamples
      BY <1>2 DEF SendBlock, BlockIsDue
    <2> QED
      BY <2>1
  <1>3. CASE NothingToSend
    BY <1>3 DEF NothingToSend, BlockIsDue
  <1>4. CASE Arrive \/ LoseDatagram \/ StoreDatagram \/ FlagChanges \/ UNCHANGED vars
    <2>1. UNCHANGED <<since, lead>>
      BY <1>4 DEF Arrive, LoseDatagram, StoreDatagram, FlagChanges, vars
    <2> QED
      BY <2>1
  <1>5. CASE Tick
    BY <1>5 DEF Tick, AtMost, AtLeast
  <1> QED
    BY <1>1, <1>2, <1>3, <1>4, <1>5 DEF Next

(* The play thread never sends more voice than time has passed for, whatever the
   threads' timing (plugin.c:211-233). *)
THEOREM VoiceIsNotFaster == Spec => []NeverAhead
  <1>1. Paced => NeverAhead
    BY DEF Paced, NeverAhead
  <1> QED
    BY <1>1, TypeCorrect, PacedInit, PacedStep, PTL DEF Spec

-----------------------------------------------------------------------------
(* What is ahead of a sample that leaves TeamSpeak now: in the ring, at the socket
   and in the network; and how much of the next block's time is over, as far as it
   counts against it. *)
Ahead == unplayed + Kept * (queued + inFlight)
Over == IF since = NoStart THEN 0 ELSE AtMost(Kept, since)

(* In a call that began with an empty ring there is never more ahead than socket
   and network hold and one datagram, less the time since that was sent. *)
BacklogFits ==
    emptyAtStart
    => /\ call_in_progress = 1
       /\ ~lapped
       /\ Ahead + Over <= Kept * (QueueLimit + MaxInFlight + 1)

LEMMA Room == Kept * (QueueLimit + MaxInFlight + 1) < buf_sz
  BY VoiceAssumption DEF VoiceAssumption, Kept

LEMMA WaitingBound ==
    ASSUME TypeOK
    PROVE  /\ queued + inFlight \in Nat
           /\ Kept * (queued + inFlight) \in Nat
           /\ Kept * (QueueLimit + MaxInFlight) \in Nat
           /\ Kept * (QueueLimit + MaxInFlight + 1)
                = Kept * (QueueLimit + MaxInFlight) + Kept
           /\ Kept * (queued + inFlight) <= Kept * (QueueLimit + MaxInFlight)
  <1>1. /\ queued + inFlight \in Nat /\ QueueLimit + MaxInFlight \in Nat
        /\ queued + inFlight <= QueueLimit + MaxInFlight
    BY Sizes DEF TypeOK
  <1>2. Kept \in Nat
    BY KeptType
  <1> QED
    BY ONLY <1>1, <1>2, OneMore, NotMore

LEMMA OverType == ASSUME TypeOK PROVE Over \in 0..Kept
  BY KeptType, Sizes DEF TypeOK, Over, AtMost, NoStart

LEMMA BacklogInit == Init => BacklogFits
  BY DEF Init, BacklogFits

LEMMA BacklogStep == TypeOK /\ BacklogFits /\ [Next]_vars => BacklogFits'
  <1> SUFFICES ASSUME TypeOK, BacklogFits, [Next]_vars, emptyAtStart'
               PROVE  /\ call_in_progress' = 1
                      /\ ~lapped'
                      /\ Ahead' + Over' <= Kept * (QueueLimit + MaxInFlight + 1)
    BY DEF BacklogFits, Kept
  <1> DEFINE waiting == Kept * (queued + inFlight)
             most == Kept * (QueueLimit + MaxInFlight)
  <1>t. /\ Kept \in Nat \ {0} /\ waiting \in Nat /\ most \in Nat /\ waiting <= most
        /\ Kept * (QueueLimit + MaxInFlight + 1) = most + Kept
        /\ unplayed \in Nat /\ Over \in 0..Kept
        /\ queued \in Nat /\ inFlight \in Nat /\ most + Kept < buf_sz
        /\ buf_sz \in Nat
    BY WaitingBound, KeptType, OverType, Room, Sizes DEF TypeOK
  <1>f. emptyAtStart => /\ call_in_progress = 1 /\ ~lapped
                        /\ unplayed + waiting + Over <= most + Kept
    BY <1>t DEF BacklogFits, Ahead
  <1>k. Kept' = Kept
    BY DEF Kept
  <1>1. CASE StartPacing \/ NothingToSend
    <2>1. /\ UNCHANGED <<emptyAtStart, call_in_progress, lapped, unplayed, queued,
                         inFlight>>
          /\ since' \in {0, NoStart}
      BY <1>1 DEF StartPacing, NothingToSend, BlockIsDue, network, board
    <2>3. Over' = 0
      BY <2>1, <1>k, <1>t DEF Over, AtMost, NoStart
    <2>2. Ahead' = unplayed + waiting
      BY <2>1, <1>k DEF Ahead
    <2> HIDE DEF waiting, most
    <2> QED
      BY <1>t, <1>f, <2>1, <2>2, <2>3
  <1>2. CASE SendBlock
    <2>1. PICK arrives \in {0, 1} : inFlight' = inFlight + arrives
      BY <1>2 DEF SendBlock
    <2>2. /\ UNCHANGED <<emptyAtStart, call_in_progress, lapped, unplayed, queued>>
          /\ since > BlockSamples /\ since' = NoStart
      BY <1>2 DEF SendBlock, BlockIsDue, board
    <2>3. Over = Kept /\ Over' = 0
      BY <2>2, Sizes, VoiceAssumption
         DEF VoiceAssumption, Over, AtMost, Kept, TypeOK, NoStart
    <2>4. Ahead' = unplayed + waiting \/ Ahead' = unplayed + waiting + Kept
      <3>1. CASE arrives = 0
        BY <3>1, <2>1, <2>2, <1>k, <1>t DEF Ahead
      <3>2. CASE arrives = 1
        <4>1. queued' + inFlight' = (queued + inFlight) + 1
          BY <3>2, <2>1, <2>2, <1>t
        <4>2. Kept * ((queued + inFlight) + 1) = waiting + Kept
          BY <1>t, OneMore
        <4> HIDE DEF waiting
        <4> QED
          BY <4>1, <4>2, <2>2, <1>k, <1>t DEF Ahead
      <3> QED
        BY <3>1, <3>2
    <2> HIDE DEF waiting, most
    <2> QED
      BY <1>t, <1>f, <2>2, <2>3, <2>4
  <1>3. CASE Arrive \/ LoseDatagram
    <2>1. /\ UNCHANGED <<emptyAtStart, call_in_progress, lapped, unplayed, since>>
          /\ inFlight' = inFlight - 1 /\ inFlight > 0
          /\ queued' = queued + 1 \/ queued' = queued
      BY <1>3 DEF Arrive, LoseDatagram, board
    <2>2. Kept * (queued' + inFlight') <= waiting /\ Kept * (queued' + inFlight') \in Nat
      <3>1. /\ queued' + inFlight' \in Nat /\ queued + inFlight \in Nat
            /\ queued' + inFlight' <= queued + inFlight
        BY <2>1, <1>t
      <3> QED
        BY <3>1, <1>t, NotMore
    <2>3. Ahead' = unplayed + Kept * (queued' + inFlight') /\ Over' = Over
      BY <2>1, <1>k DEF Ahead, Over
    <2> DEFINE left == Kept * (queued' + inFlight')
    <2>4. Ahead' = unplayed + left /\ left <= waiting /\ left \in Nat
      BY <2>2, <2>3
    <2> HIDE DEF waiting, most, left
    <2> QED
      BY <1>t, <1>f, <2>1, <2>3, <2>4
  <1>4. CASE StoreDatagram
    <2>1. /\ UNCHANGED <<emptyAtStart, call_in_progress, inFlight, since>>
          /\ queued > 0 /\ queued' = queued - 1
          /\ unplayed' = (unplayed + Kept) % buf_sz
      BY <1>4 DEF StoreDatagram, AfterStoring
    <2>2. waiting = Kept * (queued' + inFlight') + Kept
          /\ Kept * (queued' + inFlight') \in Nat
      <3>1. queued + inFlight \in Nat \ {0}
            /\ queued' + inFlight' = (queued + inFlight) - 1
        BY <2>1, <1>t
      <3> QED
        BY <3>1, <1>t, OneLess
    <2> DEFINE left == Kept * (queued' + inFlight')
    <2>3. waiting = left + Kept /\ left \in Nat /\ Ahead' = unplayed' + left
          /\ Over' = Over
      BY <2>1, <2>2, <1>k DEF Ahead, Over
    <2> HIDE DEF waiting, most, left
    <2>4. unplayed + Kept < buf_sz
      BY <1>t, <1>f, <2>1, <2>3
    <2>5. (unplayed + Kept) % buf_sz = unplayed + Kept
      BY <2>4, <1>t
    <2>6. ~(unplayed + Kept >= buf_sz)
      BY <2>4, <1>t
    <2>7. ~lapped'
      <3>1. ~lapped
        BY <1>f, <2>1
      <3>2. lapped' = (lapped \/ unplayed + Kept >= buf_sz)
        BY <1>4, Zenon DEF StoreDatagram
      <3> QED
        BY <3>1, <3>2, <2>6, Zenon
    <2>8. Ahead' + Over' <= most + Kept
      BY <1>t, <1>f, <2>1, <2>3, <2>5
    <2> QED
      BY <1>t, <1>f, <2>1, <2>7, <2>8
  <1>5. CASE FlagChanges
    <2>1. /\ UNCHANGED <<since, queued, inFlight>>
          /\ unplayed' = unplayed /\ call_in_progress' = 1 - call_in_progress
      BY <1>5 DEF FlagChanges, network
    <2>2. call_in_progress = 0 /\ unplayed = 0 /\ ~lapped'
      BY <1>5, Zenon DEF FlagChanges
    <2>3. Ahead' = waiting /\ Over' = Over
      BY <2>1, <2>2, <1>k, <1>t DEF Ahead, Over
    <2> HIDE DEF waiting, most
    <2> QED
      BY <1>t, <2>1, <2>2, <2>3
  <1>6. CASE Tick
    <2>1. /\ UNCHANGED <<emptyAtStart, call_in_progress, lapped, queued, inFlight>>
          /\ call_in_progress = 1
          /\ unplayed' = IF unplayed - 1 < 0 THEN 0 ELSE unplayed - 1
      BY <1>6, <1>f DEF Tick, network, AfterPlaying, AtLeast
    <2>2. Over' \in 0..Kept /\ Over' <= Over + 1
      BY <1>6, KeptType, Sizes DEF Tick, Over, AtMost, NoStart, TypeOK, Kept
    <2>3. Ahead' = unplayed' + waiting
      BY <2>1, <1>k DEF Ahead
    <2> HIDE DEF waiting, most
    <2> QED
      BY <1>t, <1>f, <2>1, <2>2, <2>3
  <1>7. CASE UNCHANGED vars
    <2>1. /\ UNCHANGED <<emptyAtStart, call_in_progress, lapped, unplayed, queued,
                         inFlight, since>>
      BY <1>7 DEF vars
    <2>2. Ahead' = unplayed + waiting /\ Over' = Over
      BY <2>1, <1>k DEF Ahead, Over
    <2> HIDE DEF waiting, most
    <2> QED
      BY <1>t, <1>f, <2>1, <2>2
  <1> QED
    BY <1>1, <1>2, <1>3, <1>4, <1>5, <1>6, <1>7 DEF Next

(* A call that begins with an empty ring loses nothing to the missing test for room
   (main.ino:376-389), whatever had piled up at the socket. *)
THEOREM BacklogHasRoom == Spec => []RoomForBacklog
  <1>1. BacklogFits => RoomForBacklog
    BY DEF BacklogFits, RoomForBacklog
  <1> QED
    BY <1>1, TypeCorrect, BacklogInit, BacklogStep, PTL DEF Spec
=============================================================================
