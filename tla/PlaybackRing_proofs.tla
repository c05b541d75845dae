------------------------- MODULE PlaybackRing_proofs -------------------------
(***************************************************************************)
(* Theorems about PlaybackRing for every buffer, chunk and datagram size   *)
(* that satisfies RingAssumption, and any number of samples.               *)
(***************************************************************************)
EXTENDS PlaybackRing, TLAPS, SequenceTheorems

(* The acquire thread may only store where the play thread is not. *)
RoomToWrite ==
    acquire = "write" =>
        /\ bytes2write <= audio_buffer_size - audio_buffer_pos
        /\ stored <= bytes2write
        /\ \/ audio_buffer_pos >= audio_buffer_played
           \/ audio_buffer_pos + bytes2write <= audio_buffer_played

(* The play thread copies under the semaphore, and only when the buffer holds a
   whole chunk. *)
ChunkToCopy ==
    /\ play = "copy" => /\ c_pb_sem = 0
                        /\ Len(chunk) <= bytes2play
                        /\ available_samples >= bytes2play
    /\ play # "copy" => c_pb_sem = 1

(* The play thread's cursor only ever stands at the start of a chunk. *)
ChunkAligned == \E k \in Nat : audio_buffer_played = bytes2play * k

(* The datagram in mybuffer is one that was received. *)
DatagramReceived == receivedBytes <= received

(* The inductive invariant. *)
IInv ==
    /\ TypeOK
    /\ DatagramReceived
    /\ RoomToWrite
    /\ ChunkToCopy
    /\ ChunkAligned

-----------------------------------------------------------------------------
(* Arithmetic. *)

(* A position that is moved by at most one buffer length wraps at most once. *)
LEMMA ModOnce ==
    ASSUME NEW m \in Nat \ {0}, NEW x \in Nat, x < 2 * m
    PROVE  x % m = IF x < m THEN x ELSE x - m
  OBVIOUS

(* Multiplication by a natural number is monotone. *)
LEMMA TimesMonotone ==
    ASSUME NEW b \in Nat, NEW j \in Nat, NEW k \in Nat, j <= k
    PROVE  b * j <= b * k
  OBVIOUS

-----------------------------------------------------------------------------
(* What moving a cursor does. *)
LEMMA AdvancedInCells ==
    ASSUME NEW position \in Cells, NEW n \in Nat
    PROVE  Advanced(position, n) \in Cells
  BY RingAssumption DEF RingAssumption, Advanced, Cells

(* At most one lap: the cursor wraps at most once. *)
LEMMA AdvancedOnce ==
    ASSUME NEW position \in Cells, NEW n \in Nat, n <= audio_buffer_size
    PROVE  Advanced(position, n) =
             IF position + n < audio_buffer_size
             THEN position + n
             ELSE position + n - audio_buffer_size
  <1> DEFINE x == position + n
  <1>1. audio_buffer_size \in Nat \ {0}
    BY RingAssumption DEF RingAssumption
  <1>2. x \in Nat /\ x < 2 * audio_buffer_size
    BY <1>1 DEF Cells
  <1>3. x % audio_buffer_size =
          IF x < audio_buffer_size THEN x ELSE x - audio_buffer_size
    BY <1>1, <1>2, ModOnce
  <1>. QED
    BY <1>1, <1>2, <1>3 DEF Advanced, Cells

(* A chunk that starts at a multiple of its length does not reach past the end
   of the array, and the next one starts at a multiple again. *)
LEMMA ChunkFits ==
    ASSUME TypeOK, ChunkAligned
    PROVE  /\ audio_buffer_played + bytes2play <= audio_buffer_size
           /\ \E k \in Nat :
                Advanced(audio_buffer_played, bytes2play) = bytes2play * k
  <1>1. PICK n \in 1..audio_buffer_size : audio_buffer_size = bytes2play * n
    BY RingAssumption DEF RingAssumption
  <1>2. PICK k \in Nat : audio_buffer_played = bytes2play * k
    BY DEF ChunkAligned
  <1>3. /\ bytes2play \in Nat \ {0}
        /\ audio_buffer_size \in Nat \ {0}
        /\ audio_buffer_played \in Nat
        /\ audio_buffer_played < audio_buffer_size
    BY RingAssumption DEF RingAssumption, TypeOK, Cells
  <1>4. k < n
    <2>1. SUFFICES ASSUME n <= k PROVE FALSE
      OBVIOUS
    <2>2. bytes2play * n <= bytes2play * k
      BY <1>3, <2>1, TimesMonotone
    <2>. QED
      BY <1>1, <1>2, <1>3, <2>2
  <1>5. bytes2play * (k + 1) <= bytes2play * n
    BY <1>3, <1>4, TimesMonotone
  <1>6. bytes2play * (k + 1) = audio_buffer_played + bytes2play
    BY <1>2, <1>3
  <1>7. audio_buffer_played + bytes2play <= audio_buffer_size
    BY <1>1, <1>5, <1>6
  <1>8. /\ audio_buffer_played \in Cells
        /\ bytes2play <= audio_buffer_size
    BY <1>3, <1>7 DEF TypeOK
  <1>9. Advanced(audio_buffer_played, bytes2play) =
          IF audio_buffer_played + bytes2play < audio_buffer_size
          THEN bytes2play * (k + 1)
          ELSE 0
    <2>1. Advanced(audio_buffer_played, bytes2play) =
            IF audio_buffer_played + bytes2play < audio_buffer_size
            THEN audio_buffer_played + bytes2play
            ELSE audio_buffer_played + bytes2play - audio_buffer_size
      BY <1>3, <1>8, AdvancedOnce
    <2>. QED
      BY <1>3, <1>6, <1>7, <2>1
  <1>10. CASE audio_buffer_played + bytes2play < audio_buffer_size
    <2>1. Advanced(audio_buffer_played, bytes2play) = bytes2play * (k + 1)
      BY <1>9, <1>10
    <2>2. k + 1 \in Nat
      OBVIOUS
    <2>. QED
      BY ONLY <1>7, <2>1, <2>2
  <1>11. CASE ~(audio_buffer_played + bytes2play < audio_buffer_size)
    <2>1. Advanced(audio_buffer_played, bytes2play) = bytes2play * 0
      BY <1>3, <1>9, <1>11
    <2>2. 0 \in Nat
      OBVIOUS
    <2>. QED
      BY ONLY <1>7, <2>1, <2>2
  <1>. QED
    BY <1>10, <1>11

-----------------------------------------------------------------------------
(* The invariant holds initially. *)
LEMMA InitInvariant == Init => IInv
  <1>. SUFFICES ASSUME Init PROVE IInv
    OBVIOUS
  <1>1. audio_buffer_size \in Nat \ {0} /\ bytes2play \in Nat \ {0}
        /\ MaxDatagram \in Nat
    BY RingAssumption DEF RingAssumption
  <1>2. TypeOK /\ DatagramReceived
    BY <1>1 DEF Init, TypeOK, DatagramReceived, Cells, Silence
  <1>3. RoomToWrite /\ ChunkToCopy
    BY DEF Init, RoomToWrite, ChunkToCopy
  <1>4. ChunkAligned
    <2>1. 0 = bytes2play * 0
      BY <1>1
    <2>. QED
      BY <2>1 DEF Init, ChunkAligned
  <1>. QED
    BY <1>2, <1>3, <1>4 DEF IInv

(* Every step preserves it. *)
LEMMA StepInvariant == IInv /\ [Next]_vars => IInv'
  <1>. SUFFICES ASSUME IInv, [Next]_vars PROVE IInv'
    OBVIOUS
  <1>0. /\ audio_buffer_size \in Nat \ {0}
        /\ bytes2play \in Nat \ {0}
        /\ MaxDatagram \in Nat
    BY RingAssumption DEF RingAssumption
  <1>. USE DEF IInv
  <1>1. ASSUME NEW n \in 0..MaxDatagram, Receive(n) PROVE IInv'
    <2>1. TypeOK' /\ DatagramReceived'
      BY <1>0, <1>1 DEF TypeOK, DatagramReceived, Receive, ring, playVars
    <2>2. RoomToWrite'
      BY <1>1 DEF RoomToWrite, Receive, ring
    <2>3. ChunkToCopy' /\ ChunkAligned'
      BY <1>1 DEF ChunkToCopy, ChunkAligned, available_samples, Receive, ring,
                  playVars
    <2>. QED
      BY <2>1, <2>2, <2>3
  <1>2. CASE StartWriting
    <2>1. /\ SamplesThatFit \in 0..audio_buffer_size
          /\ SamplesThatFit <= audio_buffer_size - audio_buffer_pos
          /\ SamplesThatFit <= receivedBytes
      BY <1>0 DEF SamplesThatFit, TypeOK, Cells
    <2>2. TypeOK' /\ DatagramReceived'
      BY <1>0, <1>2, <2>1
      DEF TypeOK, DatagramReceived, StartWriting, ring, playVars
    <2>3. RoomToWrite'
      BY <1>0, <1>2, <2>1
      DEF TypeOK, Cells, RoomToWrite, StartWriting, HasRoom, ring
    <2>4. ChunkToCopy' /\ ChunkAligned'
      BY <1>2 DEF ChunkToCopy, ChunkAligned, available_samples, StartWriting,
                  ring, playVars
    <2>. QED
      BY <2>2, <2>3, <2>4
  <1>3. CASE StoreSample
    <2>1. mybuffer(stored) \in Nat
      BY <1>0 DEF TypeOK, DatagramReceived, mybuffer
    <2>2. TypeOK' /\ DatagramReceived'
      <3>1. audio_buffer' \in [Cells -> Nat]
        BY <1>3, <2>1 DEF TypeOK, StoreSample
      <3>2. stored' \in 0..audio_buffer_size
        BY <1>0, <1>3 DEF TypeOK, StoreSample
      <3>. QED
        BY <1>3, <3>1, <3>2
        DEF TypeOK, DatagramReceived, StoreSample, playVars
    <2>3. RoomToWrite'
      BY <1>0, <1>3 DEF TypeOK, RoomToWrite, StoreSample
    <2>4. ChunkToCopy' /\ ChunkAligned'
      BY <1>3 DEF ChunkToCopy, ChunkAligned, available_samples, StoreSample,
                  playVars
    <2>. QED
      BY <2>2, <2>3, <2>4
  <1>4. CASE PublishSamples
    <2>1. Advanced(audio_buffer_pos, bytes2write) \in Cells
      BY <1>0, AdvancedInCells DEF TypeOK
    <2>2. TypeOK' /\ DatagramReceived'
      BY <1>4, <2>1 DEF TypeOK, DatagramReceived, PublishSamples, playVars
    <2>3. RoomToWrite'
      BY <1>4 DEF RoomToWrite, PublishSamples
    <2>4. ChunkToCopy'
      BY <1>4 DEF ChunkToCopy, PublishSamples, playVars
    <2>5. ChunkAligned'
      BY <1>4 DEF ChunkAligned, PublishSamples
    <2>. QED
      BY <2>2, <2>3, <2>4, <2>5
  <1>5. CASE StartCopying
    <2>1. TypeOK' /\ DatagramReceived'
      BY <1>5 DEF TypeOK, DatagramReceived, StartCopying, acquireVars
    <2>2. RoomToWrite' /\ ChunkAligned'
      BY <1>5 DEF RoomToWrite, ChunkAligned, StartCopying, acquireVars
    <2>3. ChunkToCopy'
      BY <1>0, <1>5 DEF ChunkToCopy, available_samples, StartCopying
    <2>. QED
      BY <2>1, <2>2, <2>3
  <1>6. CASE CopySample
    <2>1. Advanced(audio_buffer_played, Len(chunk)) \in Cells
      BY AdvancedInCells DEF TypeOK
    <2>2. TypeOK' /\ DatagramReceived'
      BY <1>6, <2>1
      DEF TypeOK, DatagramReceived, CopySample, acquireVars, Silence
    <2>3. RoomToWrite' /\ ChunkAligned'
      BY <1>6 DEF RoomToWrite, ChunkAligned, CopySample, acquireVars
    <2>4. Len(chunk') = Len(chunk) + 1
      BY <1>6, <2>1 DEF TypeOK, CopySample
    <2>5. ChunkToCopy'
      BY <1>0, <1>6, <2>4
      DEF TypeOK, ChunkToCopy, available_samples, CopySample
    <2>. QED
      BY <2>2, <2>3, <2>5
  <1>7. CASE ReleaseChunk
    <2>1. Advanced(audio_buffer_played, bytes2play) \in Cells
      BY <1>0, AdvancedInCells DEF TypeOK
    <2>2. TypeOK' /\ DatagramReceived'
      BY <1>7, <2>1 DEF TypeOK, DatagramReceived, ReleaseChunk, acquireVars
    <2>3. RoomToWrite'
      <3>1. audio_buffer_played + bytes2play <= audio_buffer_size
        BY ChunkFits
      <3>2. audio_buffer_played' =
              IF audio_buffer_played + bytes2play < audio_buffer_size
              THEN audio_buffer_played + bytes2play
              ELSE 0
        <4>1. bytes2play <= audio_buffer_size
          BY <1>0, <3>1 DEF TypeOK, Cells
        <4>2. Advanced(audio_buffer_played, bytes2play) =
                IF audio_buffer_played + bytes2play < audio_buffer_size
                THEN audio_buffer_played + bytes2play
                ELSE audio_buffer_played + bytes2play - audio_buffer_size
          BY <1>0, <4>1, AdvancedOnce DEF TypeOK
        <4>. QED
          BY <1>0, <1>7, <3>1, <4>2 DEF TypeOK, Cells, ReleaseChunk
      <3>3. available_samples >= bytes2play
        BY <1>7 DEF ChunkToCopy, ReleaseChunk
      <3>4. UNCHANGED <<audio_buffer_pos, acquireVars>>
        BY <1>7 DEF ReleaseChunk
      <3>. QED
        BY <1>0, <3>1, <3>2, <3>3, <3>4
        DEF TypeOK, Cells, RoomToWrite, available_samples, acquireVars
    <2>4. ChunkToCopy'
      BY <1>7 DEF ChunkToCopy, ReleaseChunk
    <2>5. ChunkAligned'
      <3>1. PICK k \in Nat :
              Advanced(audio_buffer_played, bytes2play) = bytes2play * k
        BY ChunkFits
      <3>. QED
        BY <1>7, <3>1 DEF ChunkAligned, ReleaseChunk
    <2>. QED
      BY <2>2, <2>3, <2>4, <2>5
  <1>8. CASE Deliver
    <2>1. TypeOK' /\ DatagramReceived'
      BY <1>8 DEF TypeOK, DatagramReceived, Deliver, ring, acquireVars
    <2>2. RoomToWrite' /\ ChunkToCopy' /\ ChunkAligned'
      BY <1>8 DEF RoomToWrite, ChunkToCopy, ChunkAligned, Deliver, ring,
                  acquireVars
    <2>. QED
      BY <2>1, <2>2
  <1>9. CASE UNCHANGED vars
    <2>1. TypeOK' /\ DatagramReceived'
      BY <1>9 DEF TypeOK, DatagramReceived, vars, ring, acquireVars, playVars
    <2>2. RoomToWrite' /\ ChunkToCopy' /\ ChunkAligned'
      BY <1>9 DEF RoomToWrite, ChunkToCopy, ChunkAligned, available_samples,
                  vars, ring, acquireVars, playVars
    <2>. QED
      BY <2>1, <2>2
  <1>. QED
    BY <1>1, <1>2, <1>3, <1>4, <1>5, <1>6, <1>7, <1>8, <1>9
    DEF Next, Store, Playback

(* While one thread stores and the other copies, each has to itself the cells it is
   going to use (plugin.c:239-260, 347-359). *)
THEOREM Invariant == Spec => []IInv
  BY InitInvariant, StepInvariant, PTL DEF Spec

-----------------------------------------------------------------------------
(* Every reachable state is well typed: in particular both cursors stay inside
   the array (plugin.c:251, 359) and a cell holds one sample. *)
THEOREM TypeCorrect == Spec => []TypeOK
  BY Invariant, PTL DEF IInv

(* The lock-free stores of main_loop_acquire stay inside the array
   (plugin.c:351). *)
THEOREM StoreBounds == Spec => []StoresInBounds
<1>1. IInv => StoresInBounds
  BY RingAssumption
  DEF RingAssumption, IInv, TypeOK, Cells, RoomToWrite, StoresInBounds
<1>. QED
  BY <1>1, Invariant, PTL

(* The lock-free stores of main_loop_acquire and the copy-and-zero loop of
   main_loop_play never meet on a cell (plugin.c:245-248, 347-357). *)
THEOREM RaceFreedom == Spec => []NoDataRace
<1>1. ASSUME IInv, acquire = "write", stored < bytes2write,
             play = "copy", Len(chunk) < bytes2play
      PROVE  audio_buffer_pos + stored #
               Advanced(audio_buffer_played, Len(chunk))
  <2>1. /\ audio_buffer_size \in Nat \ {0}
        /\ bytes2play \in Nat \ {0}
        /\ audio_buffer_pos \in Cells
        /\ audio_buffer_played \in Cells
        /\ bytes2write \in Nat
        /\ stored \in Nat
        /\ Len(chunk) \in Nat
    BY <1>1, RingAssumption DEF RingAssumption, IInv, TypeOK
  <2>2. bytes2play <= audio_buffer_size
    BY <1>1, <2>1, ChunkFits DEF IInv, Cells
  <2>3. Advanced(audio_buffer_played, Len(chunk)) =
          IF audio_buffer_played + Len(chunk) < audio_buffer_size
          THEN audio_buffer_played + Len(chunk)
          ELSE audio_buffer_played + Len(chunk) - audio_buffer_size
    BY <1>1, <2>1, <2>2, AdvancedOnce
  <2>4. available_samples >= bytes2play
    BY <1>1 DEF IInv, ChunkToCopy
  <2>5. \/ audio_buffer_pos >= audio_buffer_played
        \/ audio_buffer_pos + bytes2write <= audio_buffer_played
    BY <1>1 DEF IInv, RoomToWrite
  <2>. QED
    BY <1>1, <2>1, <2>3, <2>4, <2>5 DEF Cells, available_samples
<1>2. IInv => NoDataRace
  BY <1>1 DEF NoDataRace
<1>. QED
  BY <1>2, Invariant, PTL

(* The two polling loops never wait for each other: a datagram that finds no
   room means that a chunk is ready to be played (plugin.c:243, 332-340).  It
   rests on the buffer holding a whole number of chunks. *)
THEOREM Progress == Spec => []NoMutualWait
<1>1. IInv => NoMutualWait
  <2>. SUFFICES ASSUME IInv, acquire = "wait", ~HasRoom
                PROVE  available_samples >= bytes2play
    BY DEF NoMutualWait
  <2>1. audio_buffer_played + bytes2play <= audio_buffer_size
    BY ChunkFits DEF IInv
  <2>. QED
    BY <2>1, RingAssumption
    DEF RingAssumption, IInv, TypeOK, Cells, HasRoom, available_samples
<1>. QED
  BY <1>1, Invariant, PTL

-----------------------------------------------------------------------------
(* Sequences. *)

(* A function on 1..n is a sequence of length n. *)
LEMMA FunctionIsSeq ==
    ASSUME NEW n \in Nat, NEW f \in [1..n -> Nat]
    PROVE  f \in Seq(Nat) /\ Len(f) = n
  OBVIOUS

(* A function that takes its first values from one sequence and the others from
   another one is their concatenation. *)
LEMMA Concatenated ==
    ASSUME NEW n \in Nat, NEW k \in Nat,
           NEW f \in [1..n -> Nat], NEW g \in [1..k -> Nat],
           NEW h \in [1..n + k -> Nat],
           \A i \in 1..n : h[i] = f[i],
           \A i \in 1..k : h[n + i] = g[i]
    PROVE  h = f \o g
  <1>1. f \in Seq(Nat) /\ Len(f) = n
    BY FunctionIsSeq
  <1>2. g \in Seq(Nat) /\ Len(g) = k
    BY FunctionIsSeq
  <1>3. h \in Seq(Nat) /\ Len(h) = n + k
    <2>1. n + k \in Nat
      OBVIOUS
    <2>. QED
      BY <2>1, FunctionIsSeq
  <1>4. /\ f \o g \in Seq(Nat)
        /\ Len(f \o g) = Len(f) + Len(g)
        /\ \A i \in 1..Len(f) + Len(g) :
             (f \o g)[i] = IF i <= Len(f) THEN f[i] ELSE g[i - Len(f)]
    BY <1>1, <1>2, ConcatProperties
  <1>5. ASSUME NEW i \in 1..n + k PROVE h[i] = (f \o g)[i]
    <2>1. CASE i \in 1..n
      BY <1>1, <1>2, <1>4, <2>1
    <2>2. CASE i \notin 1..n
      <3>1. i - n \in 1..k /\ n + (i - n) = i
        BY <2>2
      <3>2. (f \o g)[i] = g[i - n]
        BY <1>1, <1>2, <1>4, <2>2
      <3>. QED
        BY <3>1, <3>2
    <2>. QED
      BY <2>1, <2>2
  <1>. QED
    BY <1>1, <1>2, <1>3, <1>4, <1>5, SeqEqual

(* The first values of a sequence, and those behind them. *)
LEMMA FrontAndRest ==
    ASSUME NEW n \in Nat, NEW k \in 0..n, NEW f \in [1..n -> Nat]
    PROVE  /\ SubSeq(f, 1, k) = [i \in 1..k |-> f[i]]
           /\ SubSeq(f, k + 1, n) = [i \in 1..n - k |-> f[k + i]]
  <1>1. SubSeq(f, 1, k) = [i \in 1..k |-> f[i]]
    OBVIOUS
  <1>2. SubSeq(f, k + 1, n) = [i \in 1..n - k |-> f[k + i]]
    OBVIOUS
  <1>. QED
    BY <1>1, <1>2

(* A sequence of length zero. *)
LEMMA NoSamples ==
    ASSUME NEW f \in [1..0 -> Nat]
    PROVE  f = <<>>
  OBVIOUS

-----------------------------------------------------------------------------
(* The cells between the cursors and those that are being written. *)

(* The buffer is never full. *)
LEMMA AvailableBound ==
    ASSUME TypeOK
    PROVE  available_samples \in 0..audio_buffer_size - 1
  BY RingAssumption DEF RingAssumption, TypeOK, Cells, available_samples

(* Two samples in the buffer are in two cells. *)
LEMMA CellsDiffer ==
    ASSUME NEW position \in Cells,
           NEW i \in Cells, NEW j \in Cells, i # j
    PROVE  Advanced(position, i) # Advanced(position, j)
  <1>1. audio_buffer_size \in Nat \ {0}
    BY RingAssumption DEF RingAssumption
  <1>2. i \in Nat /\ i <= audio_buffer_size /\ j \in Nat /\ j <= audio_buffer_size
    BY <1>1 DEF Cells
  <1>3. Advanced(position, i) =
          IF position + i < audio_buffer_size
          THEN position + i
          ELSE position + i - audio_buffer_size
    BY <1>2, AdvancedOnce
  <1>4. Advanced(position, j) =
          IF position + j < audio_buffer_size
          THEN position + j
          ELSE position + j - audio_buffer_size
    BY <1>2, AdvancedOnce
  <1>. QED
    BY <1>1, <1>2, <1>3, <1>4 DEF Cells

(* The cells that are being written are free. *)
LEMMA RegionsDisjoint ==
    ASSUME IInv, acquire = "write",
           NEW i \in Nat, i < bytes2write,
           NEW k \in Nat, k < available_samples
    PROVE  /\ audio_buffer_pos + i \in Cells
           /\ Advanced(audio_buffer_played, k) \in Cells
           /\ audio_buffer_pos + i # Advanced(audio_buffer_played, k)
  <1>1. /\ audio_buffer_size \in Nat \ {0}
        /\ audio_buffer_pos \in Cells
        /\ audio_buffer_played \in Cells
        /\ bytes2write \in Nat
        /\ available_samples \in 0..audio_buffer_size - 1
    BY RingAssumption, AvailableBound DEF RingAssumption, IInv, TypeOK
  <1>2. Advanced(audio_buffer_played, k) =
          IF audio_buffer_played + k < audio_buffer_size
          THEN audio_buffer_played + k
          ELSE audio_buffer_played + k - audio_buffer_size
    BY <1>1, AdvancedOnce
  <1>3. /\ bytes2write <= audio_buffer_size - audio_buffer_pos
        /\ \/ audio_buffer_pos >= audio_buffer_played
           \/ audio_buffer_pos + bytes2write <= audio_buffer_played
    BY DEF IInv, RoomToWrite
  <1>. QED
    BY <1>1, <1>2, <1>3 DEF Cells, available_samples

(* A datagram that is published is appended to the samples in the buffer. *)
LEMMA WrittenIsNext ==
    ASSUME IInv, acquire = "write", NEW i \in Nat, i < bytes2write
    PROVE  Advanced(audio_buffer_played, available_samples + i)
             = audio_buffer_pos + i
  <1>1. /\ audio_buffer_size \in Nat \ {0}
        /\ audio_buffer_pos \in Cells
        /\ audio_buffer_played \in Cells
        /\ bytes2write \in Nat
        /\ available_samples \in 0..audio_buffer_size - 1
    BY RingAssumption, AvailableBound DEF RingAssumption, IInv, TypeOK
  <1>3. /\ bytes2write <= audio_buffer_size - audio_buffer_pos
        /\ \/ audio_buffer_pos >= audio_buffer_played
           \/ audio_buffer_pos + bytes2write <= audio_buffer_played
    BY DEF IInv, RoomToWrite
  <1>4. available_samples + i \in Nat /\ available_samples + i <= audio_buffer_size
    BY <1>1, <1>3 DEF Cells, available_samples
  <1>2. Advanced(audio_buffer_played, available_samples + i) =
          IF audio_buffer_played + (available_samples + i) < audio_buffer_size
          THEN audio_buffer_played + (available_samples + i)
          ELSE audio_buffer_played + (available_samples + i) - audio_buffer_size
    BY <1>1, <1>4, AdvancedOnce
  <1>. QED
    BY <1>1, <1>2, <1>3 DEF Cells, available_samples

-----------------------------------------------------------------------------
(* What has been stored of the datagram is still in its cells. *)
StoredFaithfully ==
    acquire = "write" =>
        /\ bytes2write <= receivedBytes
        /\ \A i \in 0..stored - 1 : audio_buffer[audio_buffer_pos + i] = mybuffer(i)

LEMMA StepStoredFaithfully ==
    ASSUME IInv, StoredFaithfully, [Next]_vars
    PROVE  StoredFaithfully'
  <1>0. /\ audio_buffer_size \in Nat \ {0}
        /\ bytes2play \in Nat \ {0}
        /\ stored \in Nat
        /\ audio_buffer \in [Cells -> Nat]
        /\ audio_buffer_pos \in Cells
        /\ audio_buffer_played \in Cells
        /\ receivedBytes \in Nat
        /\ chunk \in Seq(Nat)
    BY RingAssumption DEF RingAssumption, IInv, TypeOK
  <1>1. ASSUME NEW n \in 0..MaxDatagram, Receive(n) PROVE StoredFaithfully'
    BY <1>1 DEF Receive, StoredFaithfully
  <1>2. CASE StartWriting
    <2>1. SamplesThatFit <= receivedBytes
      BY <1>0 DEF SamplesThatFit, Cells
    <2>2. bytes2write' <= receivedBytes' /\ 0..stored' - 1 = {}
      BY <1>2, <2>1 DEF StartWriting
    <2>. QED
      BY <2>2 DEF StoredFaithfully
  <1>3. CASE StoreSample
    <2>0. /\ acquire = "write" /\ stored < bytes2write
          /\ audio_buffer' =
               [audio_buffer EXCEPT ![audio_buffer_pos + stored] = mybuffer(stored)]
          /\ stored' = stored + 1
          /\ audio_buffer_pos' = audio_buffer_pos
          /\ bytes2write' = bytes2write /\ receivedBytes' = receivedBytes
          /\ received' = received
      BY <1>3 DEF StoreSample
    <2>1. audio_buffer_pos + stored \in Cells
      BY <1>0, <2>0 DEF IInv, RoomToWrite, TypeOK, Cells
    <2>2. ASSUME NEW i \in 0..stored' - 1
          PROVE  (audio_buffer[audio_buffer_pos + i])' = mybuffer(i)'
      <3>1. mybuffer(i)' = mybuffer(i)
        BY <2>0 DEF mybuffer
      <3>2. CASE i = stored
        BY <1>0, <2>0, <2>1, <3>1, <3>2
      <3>3. CASE i # stored
        <4>1. i \in 0..stored - 1 /\ audio_buffer_pos + i # audio_buffer_pos + stored
          BY <1>0, <2>0, <3>3 DEF Cells
        <4>2. audio_buffer[audio_buffer_pos + i] = mybuffer(i)
          BY <2>0, <4>1 DEF StoredFaithfully
        <4>. QED
          BY <1>0, <2>0, <3>1, <4>1, <4>2
      <3>. QED
        BY <3>2, <3>3
    <2>. QED
      BY <2>0, <2>2 DEF StoredFaithfully
  <1>4. CASE PublishSamples
    BY <1>4 DEF PublishSamples, StoredFaithfully
  <1>5. CASE StartCopying
    BY <1>5 DEF StartCopying, acquireVars, StoredFaithfully, mybuffer
  <1>6. CASE CopySample
    <2>. SUFFICES ASSUME acquire' = "write" PROVE StoredFaithfully'
      BY DEF StoredFaithfully
    <2>. DEFINE cell == Advanced(audio_buffer_played, Len(chunk))
    <2>1. /\ acquire = "write"
          /\ play = "copy" /\ Len(chunk) < bytes2play
          /\ audio_buffer' = [audio_buffer EXCEPT ![cell] = Silence]
          /\ audio_buffer_pos' = audio_buffer_pos /\ stored' = stored
          /\ bytes2write' = bytes2write /\ receivedBytes' = receivedBytes
          /\ received' = received
      BY <1>6 DEF CopySample, acquireVars
    <2>2. Len(chunk) \in Nat /\ Len(chunk) < available_samples
      <3>1. available_samples \in Nat
        BY AvailableBound DEF IInv
      <3>. QED
        BY <1>0, <2>1, <3>1 DEF IInv, ChunkToCopy
    <2>3. ASSUME NEW i \in 0..stored - 1
          PROVE  (audio_buffer[audio_buffer_pos + i])' = mybuffer(i)'
      <3>1. i \in Nat /\ i < bytes2write
        BY <1>0, <2>1 DEF IInv, RoomToWrite, TypeOK
      <3>2. audio_buffer_pos + i \in Cells /\ audio_buffer_pos + i # cell
        BY <2>1, <2>2, <3>1, RegionsDisjoint
      <3>3. audio_buffer[audio_buffer_pos + i] = mybuffer(i)
        BY <2>1 DEF StoredFaithfully
      <3>4. audio_buffer'[audio_buffer_pos + i] = audio_buffer[audio_buffer_pos + i]
        BY <1>0, <2>1, <3>2
      <3>. QED
        BY <2>1, <3>3, <3>4 DEF mybuffer
    <2>. QED
      BY <2>1, <2>3 DEF StoredFaithfully
  <1>7. CASE ReleaseChunk
    BY <1>7 DEF ReleaseChunk, acquireVars, StoredFaithfully, mybuffer
  <1>8. CASE Deliver
    BY <1>8 DEF Deliver, ring, acquireVars, StoredFaithfully, mybuffer
  <1>9. CASE UNCHANGED vars
    BY <1>9 DEF vars, ring, acquireVars, StoredFaithfully, mybuffer
  <1>. QED
    BY <1>1, <1>2, <1>3, <1>4, <1>5, <1>6, <1>7, <1>8, <1>9
    DEF Next, Store, Playback

LEMMA StoredInvariant == Spec => [](IInv /\ StoredFaithfully)
<1>1. Init => IInv /\ StoredFaithfully
  BY InitInvariant DEF Init, StoredFaithfully
<1>2. IInv /\ StoredFaithfully /\ [Next]_vars => (IInv /\ StoredFaithfully)'
  BY StepInvariant, StepStoredFaithfully
<1>. QED
  BY <1>1, <1>2, PTL DEF Spec

-----------------------------------------------------------------------------
(* The samples of the mapped state. *)
BufferWellMapped ==
    /\ available_samples \in Nat
    /\ BufferedSamples \in [1..available_samples -> Nat]
    /\ BufferedSamples \in Seq(Nat)
    /\ Len(BufferedSamples) = available_samples
    /\ \A k \in 1..available_samples : BufferedSamples[k] = BufferedSample(k)

LEMMA MappedBuffer == IInv => BufferWellMapped
  <1>. SUFFICES ASSUME IInv PROVE BufferWellMapped
    OBVIOUS
  <1>1. available_samples \in Nat
    BY AvailableBound DEF IInv
  <1>2. ASSUME NEW k \in 1..available_samples PROVE BufferedSample(k) \in Nat
    <2>1. CASE play = "copy" /\ k <= Len(chunk)
      <3>1. chunk[k] \in Nat
        BY <1>1, <2>1 DEF IInv, TypeOK
      <3>. QED
        BY <2>1, <3>1 DEF BufferedSample
    <2>2. CASE ~(play = "copy" /\ k <= Len(chunk))
      <3>1. Advanced(audio_buffer_played, k - 1) \in Cells
        BY <1>1, AdvancedInCells DEF IInv, TypeOK
      <3>. QED
        BY <2>2, <3>1 DEF BufferedSample, IInv, TypeOK
    <2>. QED
      BY <2>1, <2>2
  <1>3. /\ BufferedSamples \in [1..available_samples -> Nat]
        /\ \A k \in 1..available_samples : BufferedSamples[k] = BufferedSample(k)
    BY <1>2 DEF BufferedSamples
  <1>. QED
    BY <1>1, <1>3, FunctionIsSeq DEF BufferWellMapped

LEMMA MappedBufferNext == IInv' => BufferWellMapped'
  BY MappedBuffer, PTL

LEMMA MappedDatagram ==
    ASSUME IInv, acquire # "receive"
    PROVE  /\ OfferedSamples = [k \in 1..receivedBytes |-> received - receivedBytes + k]
           /\ OfferedSamples \in [1..receivedBytes -> Nat]
           /\ OfferedSamples \in Seq(Nat)
           /\ Len(OfferedSamples) = receivedBytes
  <1>0. receivedBytes \in Nat /\ received \in Nat /\ receivedBytes <= received
    BY RingAssumption DEF RingAssumption, IInv, TypeOK, DatagramReceived
  <1>1. OfferedSamples = [k \in 1..receivedBytes |-> mybuffer(k - 1)]
    BY DEF OfferedSamples
  <1>2. \A k \in 1..receivedBytes : /\ mybuffer(k - 1) = received - receivedBytes + k
                                    /\ received - receivedBytes + k \in Nat
    BY <1>0 DEF mybuffer
  <1>3. /\ OfferedSamples = [k \in 1..receivedBytes |-> received - receivedBytes + k]
        /\ OfferedSamples \in [1..receivedBytes -> Nat]
    BY <1>1, <1>2
  <1>. QED
    BY <1>0, <1>3, FunctionIsSeq

(* The buffered samples stay the same when the cursors do and no cell that is
   waiting to be played changes. *)
LEMMA SameBuffer ==
    ASSUME IInv,
           audio_buffer_pos' = audio_buffer_pos,
           audio_buffer_played' = audio_buffer_played,
           \A k \in 1..available_samples : BufferedSample(k)' = BufferedSample(k)
    PROVE  BufferedSamples' = BufferedSamples
  <1>1. available_samples' = available_samples
    BY DEF available_samples
  <1>2. BufferedSamples' = [k \in 1..available_samples' |-> BufferedSample(k)']
    BY DEF BufferedSamples
  <1>3. BufferedSamples = [k \in 1..available_samples |-> BufferedSample(k)]
    BY DEF BufferedSamples
  <1>. QED
    BY <1>1, <1>2, <1>3

(* How many samples there are once the cursor has passed those stored: none
   when they fill the buffer. *)
LEMMA AvailableOncePublished ==
    ASSUME IInv, PublishSamples
    PROVE  /\ available_samples + bytes2write <= audio_buffer_size
           /\ available_samples' =
                IF available_samples + bytes2write < audio_buffer_size
                THEN available_samples + bytes2write
                ELSE 0
  <1>1. /\ audio_buffer_size \in Nat \ {0}
        /\ audio_buffer_pos \in Cells
        /\ audio_buffer_played \in Cells
        /\ bytes2write \in Nat
        /\ bytes2write <= audio_buffer_size - audio_buffer_pos
        /\ \/ audio_buffer_pos >= audio_buffer_played
           \/ audio_buffer_pos + bytes2write <= audio_buffer_played
    BY RingAssumption
    DEF RingAssumption, IInv, TypeOK, RoomToWrite, PublishSamples
  <1>2. Advanced(audio_buffer_pos, bytes2write) =
          IF audio_buffer_pos + bytes2write < audio_buffer_size
          THEN audio_buffer_pos + bytes2write
          ELSE audio_buffer_pos + bytes2write - audio_buffer_size
    BY <1>1, AdvancedOnce DEF Cells
  <1>3. /\ audio_buffer_pos' = Advanced(audio_buffer_pos, bytes2write)
        /\ audio_buffer_played' = audio_buffer_played
    BY DEF PublishSamples
  <1>. QED
    BY <1>1, <1>2, <1>3 DEF Cells, available_samples

(* A datagram arrives. *)
LEMMA ReceiveOffers ==
    ASSUME IInv, IInv', NEW n \in 0..MaxDatagram, Receive(n)
    PROVE  IF n = 0 THEN UNCHANGED Stream!vars ELSE Stream!Offer(n)
  <1>1. /\ acquire = "receive" /\ acquire' = "wait"
        /\ receivedBytes' = n /\ received' = received + n
        /\ UNCHANGED <<ring, playVars>>
    BY DEF Receive
  <1>2. MaxDatagram \in Nat /\ received \in Nat
    BY RingAssumption DEF RingAssumption, IInv, TypeOK
  <1>3. BufferedSamples' = BufferedSamples
    <2>1. \A k \in 1..available_samples : BufferedSample(k)' = BufferedSample(k)
      BY <1>1 DEF BufferedSample, ring, playVars
    <2>. QED
      BY <1>1, <2>1, SameBuffer DEF ring
  <1>4. HeardSamples' = HeardSamples
    BY <1>1 DEF HeardSamples, playVars
  <1>5. OfferedSamples = <<>>
    BY <1>1 DEF OfferedSamples
  <1>6. OfferedSamples' = [k \in 1..n |-> received + k]
    <2>1. OfferedSamples' = [k \in 1..n |-> mybuffer(k - 1)']
      BY <1>1 DEF OfferedSamples
    <2>2. \A k \in 1..n : mybuffer(k - 1)' = received + k
      BY <1>1, <1>2 DEF mybuffer
    <2>. QED
      BY <2>1, <2>2
  <1>7. CASE n = 0
    <2>1. OfferedSamples' \in [1..0 -> Nat]
      BY <1>2, <1>6, <1>7
    <2>2. OfferedSamples' = <<>>
      BY <2>1, NoSamples
    <2>. QED
      BY <1>1, <1>2, <1>3, <1>4, <1>5, <1>7, <2>2 DEF Stream!vars
  <1>8. CASE n # 0
    BY <1>1, <1>3, <1>4, <1>5, <1>6, <1>8 DEF Stream!Offer
  <1>. QED
    BY <1>7, <1>8

(* Finding room changes nothing that can be heard. *)
LEMMA StartWritingStutters ==
    ASSUME IInv, StartWriting
    PROVE  UNCHANGED Stream!vars
  <1>1. \A k \in 1..available_samples : BufferedSample(k)' = BufferedSample(k)
    BY DEF BufferedSample, StartWriting, ring, playVars
  <1>2. BufferedSamples' = BufferedSamples
    BY <1>1, SameBuffer DEF StartWriting, ring
  <1>3. OfferedSamples' = OfferedSamples
    BY DEF OfferedSamples, StartWriting, mybuffer
  <1>. QED
    BY <1>2, <1>3 DEF Stream!vars, HeardSamples, StartWriting, playVars

(* A sample is stored where nothing waits to be played. *)
LEMMA StoreSampleStutters ==
    ASSUME IInv, StoreSample
    PROVE  UNCHANGED Stream!vars
  <1>1. /\ acquire = "write" /\ acquire' = acquire
        /\ stored \in Nat /\ stored < bytes2write
        /\ audio_buffer \in [Cells -> Nat]
        /\ audio_buffer' =
             [audio_buffer EXCEPT ![audio_buffer_pos + stored] = mybuffer(stored)]
        /\ UNCHANGED <<audio_buffer_pos, audio_buffer_played, receivedBytes,
                       received, play, chunk, heard>>
    BY RingAssumption DEF RingAssumption, IInv, TypeOK, StoreSample, playVars
  <1>2. available_samples \in Nat
    BY MappedBuffer DEF BufferWellMapped
  <1>3. ASSUME NEW k \in 1..available_samples
        PROVE  BufferedSample(k)' = BufferedSample(k)
    <2>. DEFINE cell == Advanced(audio_buffer_played, k - 1)
    <2>1. k - 1 \in Nat /\ k - 1 < available_samples
      BY <1>2
    <2>2. cell \in Cells /\ audio_buffer_pos + stored # cell
      BY <1>1, <2>1, RegionsDisjoint
    <2>3. audio_buffer'[cell] = audio_buffer[cell]
      BY <1>1, <2>2
    <2>4. cell' = cell
      BY <1>1 DEF Advanced
    <2>. QED
      BY <1>1, <2>3, <2>4 DEF BufferedSample
  <1>4. BufferedSamples' = BufferedSamples
    BY <1>1, <1>3, SameBuffer
  <1>5. OfferedSamples' = OfferedSamples
    BY <1>1 DEF OfferedSamples, mybuffer
  <1>. QED
    BY <1>1, <1>4, <1>5 DEF Stream!vars, HeardSamples

(* Publishing the stored samples accepts them, or loses the whole buffer when
   they fill it; an empty datagram goes unnoticed. *)
LEMMA PublishAccepts ==
    ASSUME IInv, IInv', StoredFaithfully, PublishSamples
    PROVE  \/ UNCHANGED Stream!vars
           \/ Stream!Accept(bytes2write) /\ bytes2write \in 0..Len(OfferedSamples)
           \/ Stream!Overrun(bytes2write) /\ bytes2write \in 0..Len(OfferedSamples)
  <1>. DEFINE before == available_samples
  <1>1. /\ acquire = "write" /\ acquire' = "receive"
        /\ stored = bytes2write /\ c_pb_sem = 1
        /\ audio_buffer_pos' = Advanced(audio_buffer_pos, bytes2write)
        /\ UNCHANGED <<audio_buffer, audio_buffer_played, receivedBytes, received,
                       play, chunk, heard>>
        /\ play # "copy"
    BY DEF PublishSamples, playVars, IInv, ChunkToCopy
  <1>2. /\ bytes2write \in Nat /\ receivedBytes \in Nat /\ received \in Nat
        /\ bytes2write <= receivedBytes
        /\ audio_buffer_size \in Nat \ {0}
        /\ audio_buffer_pos \in Cells
        /\ before \in Nat
    BY <1>1, MappedBuffer, RingAssumption
    DEF RingAssumption, IInv, TypeOK, StoredFaithfully, BufferWellMapped
  <1>3. OfferedSamples' = <<>>
    BY <1>1 DEF OfferedSamples
  <1>4. /\ OfferedSamples \in [1..receivedBytes -> Nat]
        /\ OfferedSamples = [k \in 1..receivedBytes |-> received - receivedBytes + k]
        /\ Len(OfferedSamples) = receivedBytes
    BY <1>1, MappedDatagram
  <1>5. HeardSamples' = HeardSamples
    BY <1>1 DEF HeardSamples
  <1>6. CASE receivedBytes = 0
    <2>1. bytes2write = 0
      BY <1>2, <1>6
    <2>2. audio_buffer_pos' = audio_buffer_pos
      <3>1. Advanced(audio_buffer_pos, 0) = audio_buffer_pos
        BY <1>2, AdvancedOnce DEF Cells
      <3>. QED
        BY <1>1, <2>1, <3>1
    <2>3. \A k \in 1..available_samples : BufferedSample(k)' = BufferedSample(k)
      BY <1>1 DEF BufferedSample
    <2>4. BufferedSamples' = BufferedSamples
      BY <1>1, <2>2, <2>3, SameBuffer
    <2>5. OfferedSamples = <<>>
      BY <1>4, <1>6, NoSamples
    <2>. QED
      BY <1>1, <1>3, <1>5, <2>4, <2>5 DEF Stream!vars
  <1>7. CASE receivedBytes # 0
    <2>1. OfferedSamples # <<>>
      BY <1>2, <1>4, <1>7
    <2>2. /\ before + bytes2write <= audio_buffer_size
          /\ available_samples' =
               IF before + bytes2write < audio_buffer_size
               THEN before + bytes2write
               ELSE 0
      BY AvailableOncePublished
    <2>3. CASE before + bytes2write = audio_buffer_size
      <3>1. BufferedSamples' \in [1..0 -> Nat]
        <4>1. available_samples' = 0
          BY <1>2, <2>2, <2>3
        <4>2. BufferedSamples' \in [1..available_samples' -> Nat]
          BY MappedBufferNext DEF BufferWellMapped
        <4>. QED
          BY <4>1, <4>2
      <3>2. BufferedSamples' = <<>>
        BY <3>1, NoSamples
      <3>3. Len(BufferedSamples) = before
        BY MappedBuffer DEF BufferWellMapped
      <3>4. Stream!Overrun(bytes2write)
        BY <1>1, <1>3, <1>5, <2>1, <2>3, <3>2, <3>3 DEF Stream!Overrun
      <3>. QED
        BY <1>2, <1>4, <3>4
    <2>4. CASE before + bytes2write < audio_buffer_size
      <3>0. available_samples' = before + bytes2write
        BY <2>2, <2>4
      <3>1. /\ BufferedSamples \in [1..before -> Nat]
            /\ Len(BufferedSamples) = before
            /\ \A k \in 1..before : BufferedSamples[k] = BufferedSample(k)
        BY MappedBuffer DEF BufferWellMapped
      <3>2. /\ BufferedSamples' \in [1..before + bytes2write -> Nat]
            /\ \A k \in 1..before + bytes2write :
                 BufferedSamples'[k] = BufferedSample(k)'
        <4>1. /\ BufferedSamples' \in [1..available_samples' -> Nat]
              /\ \A k \in 1..available_samples' :
                   BufferedSamples'[k] = BufferedSample(k)'
          BY MappedBufferNext DEF BufferWellMapped
        <4>. QED
          BY <3>0, <4>1
      <3>3. ASSUME NEW k \in 1..before + bytes2write
            PROVE  BufferedSamples'[k] = audio_buffer[Advanced(audio_buffer_played, k - 1)]
        BY <1>1, <3>2 DEF BufferedSample, Advanced
      <3>4. ASSUME NEW k \in 1..before PROVE BufferedSamples'[k] = BufferedSamples[k]
        <4>1. k \in 1..before + bytes2write
          BY <1>2
        <4>. QED
          BY <1>1, <3>1, <3>3, <4>1 DEF BufferedSample
      <3>5. /\ Stream!Prefix(OfferedSamples, bytes2write)
                 = [k \in 1..bytes2write |-> OfferedSamples[k]]
            /\ Stream!Prefix(OfferedSamples, bytes2write) \in [1..bytes2write -> Nat]
        <4>1. bytes2write \in 0..receivedBytes
          BY <1>2
        <4>2. Stream!Prefix(OfferedSamples, bytes2write)
                = [k \in 1..bytes2write |-> OfferedSamples[k]]
          BY <1>2, <1>4, <4>1, FrontAndRest DEF Stream!Prefix
        <4>3. \A k \in 1..bytes2write : OfferedSamples[k] \in Nat
          BY <1>2, <1>4
        <4>. QED
          BY <4>2, <4>3
      <3>6. ASSUME NEW k \in 1..bytes2write
            PROVE  BufferedSamples'[before + k]
                     = Stream!Prefix(OfferedSamples, bytes2write)[k]
        <4>1. k - 1 \in Nat /\ k - 1 < bytes2write
          BY <1>2
        <4>2. Advanced(audio_buffer_played, before + (k - 1)) = audio_buffer_pos + (k - 1)
          BY <1>1, <4>1, WrittenIsNext
        <4>3. before + k \in 1..before + bytes2write /\ (before + k) - 1 = before + (k - 1)
          BY <1>2
        <4>4. BufferedSamples'[before + k] = audio_buffer[audio_buffer_pos + (k - 1)]
          BY <3>3, <4>2, <4>3
        <4>5. audio_buffer[audio_buffer_pos + (k - 1)] = mybuffer(k - 1)
          <5>1. k - 1 \in 0..stored - 1
            BY <1>1, <1>2
          <5>. QED
            BY <1>1, <5>1 DEF StoredFaithfully
        <4>6. mybuffer(k - 1) = received - receivedBytes + k
          BY <1>2 DEF mybuffer
        <4>7. OfferedSamples[k] = received - receivedBytes + k
          BY <1>2, <1>4
        <4>. QED
          BY <3>5, <4>4, <4>5, <4>6, <4>7
      <3>7. BufferedSamples'
              = BufferedSamples \o Stream!Prefix(OfferedSamples, bytes2write)
        <4>. DEFINE f == BufferedSamples
                    g == Stream!Prefix(OfferedSamples, bytes2write)
                    h == BufferedSamples'
        <4>1. /\ before \in Nat /\ bytes2write \in Nat
              /\ f \in [1..before -> Nat]
              /\ g \in [1..bytes2write -> Nat]
              /\ h \in [1..before + bytes2write -> Nat]
              /\ \A i \in 1..before : h[i] = f[i]
              /\ \A i \in 1..bytes2write : h[before + i] = g[i]
          BY <1>2, <3>1, <3>2, <3>4, <3>5, <3>6
        <4>. HIDE DEF before, f, g, h
        <4>2. h = f \o g
          BY <4>1, Concatenated
        <4>. QED
          BY <4>2 DEF f, g, h
      <3>8. Stream!Accept(bytes2write)
        BY <1>1, <1>3, <1>5, <2>1, <2>4, <3>1, <3>7 DEF Stream!Accept
      <3>. QED
        BY <1>2, <1>4, <3>8
    <2>. QED
      BY <1>2, <2>2, <2>3, <2>4
  <1>. QED
    BY <1>6, <1>7

(* Taking the semaphore changes nothing that can be heard. *)
LEMMA StartCopyingStutters ==
    ASSUME IInv, StartCopying
    PROVE  UNCHANGED Stream!vars
  <1>1. available_samples \in Nat
    BY MappedBuffer DEF BufferWellMapped
  <1>2. \A k \in 1..available_samples : BufferedSample(k)' = BufferedSample(k)
    BY <1>1 DEF BufferedSample, StartCopying, Advanced
  <1>3. BufferedSamples' = BufferedSamples
    BY <1>2, SameBuffer DEF StartCopying
  <1>4. OfferedSamples' = OfferedSamples
    BY DEF OfferedSamples, StartCopying, acquireVars, mybuffer
  <1>5. HeardSamples' = HeardSamples
    BY DEF HeardSamples, StartCopying
  <1>. QED
    BY <1>3, <1>4, <1>5 DEF Stream!vars, StartCopying, acquireVars

(* A sample that is copied out of its cell still counts as buffered. *)
LEMMA CopySampleStutters ==
    ASSUME IInv, CopySample
    PROVE  UNCHANGED Stream!vars
  <1>. DEFINE n == Len(chunk)
              cell == Advanced(audio_buffer_played, n)
  <1>1. /\ play = "copy" /\ play' = "copy"
        /\ n \in Nat /\ n < bytes2play
        /\ chunk \in Seq(Nat)
        /\ audio_buffer \in [Cells -> Nat]
        /\ audio_buffer_played \in Cells
        /\ bytes2play \in Nat
        /\ chunk' = Append(chunk, audio_buffer[cell])
        /\ audio_buffer' = [audio_buffer EXCEPT ![cell] = Silence]
        /\ UNCHANGED <<audio_buffer_pos, audio_buffer_played, acquireVars, heard>>
    BY RingAssumption DEF RingAssumption, IInv, TypeOK, CopySample
  <1>2. /\ available_samples \in 0..audio_buffer_size - 1
        /\ bytes2play <= available_samples
        /\ audio_buffer_size \in Nat \ {0}
    BY <1>1, AvailableBound, RingAssumption
    DEF RingAssumption, IInv, ChunkToCopy
  <1>3. cell \in Cells
    BY <1>1, AdvancedInCells
  <1>4. /\ Len(chunk') = n + 1
        /\ \A k \in 1..n : chunk'[k] = chunk[k]
        /\ chunk'[n + 1] = audio_buffer[cell]
    <2>1. audio_buffer[cell] \in Nat
      BY <1>1, <1>3
    <2>. QED
      BY <1>1, <2>1, AppendProperties
  <1>5. ASSUME NEW k \in 1..available_samples
        PROVE  BufferedSample(k)' = BufferedSample(k)
    <2>1. CASE k <= n
      BY <1>1, <1>2, <1>4, <2>1 DEF BufferedSample
    <2>2. CASE k = n + 1
      <3>1. BufferedSample(k)' = chunk'[k]
        BY <1>1, <1>4, <2>2 DEF BufferedSample
      <3>2. BufferedSample(k) = audio_buffer[cell]
        BY <1>1, <2>2 DEF BufferedSample
      <3>. QED
        BY <1>4, <2>2, <3>1, <3>2
    <2>3. CASE k > n + 1
      <3>1. k - 1 \in Cells /\ n \in Cells /\ k - 1 # n
        BY <1>1, <1>2, <2>3 DEF Cells
      <3>2. Advanced(audio_buffer_played, k - 1) # cell
        BY <1>1, <3>1, CellsDiffer
      <3>3. Advanced(audio_buffer_played, k - 1) \in Cells
        BY <1>1, <1>2, AdvancedInCells
      <3>4. audio_buffer'[Advanced(audio_buffer_played, k - 1)]
              = audio_buffer[Advanced(audio_buffer_played, k - 1)]
        BY <1>1, <3>2, <3>3
      <3>. QED
        BY <1>1, <1>2, <1>4, <2>3, <3>4 DEF BufferedSample, Advanced
    <2>. QED
      BY <1>1, <1>2, <2>1, <2>2, <2>3
  <1>6. BufferedSamples' = BufferedSamples
    BY <1>1, <1>5, SameBuffer
  <1>7. OfferedSamples' = OfferedSamples
    BY <1>1 DEF OfferedSamples, acquireVars, mybuffer
  <1>8. HeardSamples' = HeardSamples
    BY <1>1 DEF HeardSamples
  <1>. QED
    BY <1>1, <1>6, <1>7, <1>8 DEF Stream!vars, acquireVars

(* A chunk leaves the buffer: it was the oldest one. *)
LEMMA ReleaseChunkPlays ==
    ASSUME IInv, IInv', ReleaseChunk
    PROVE  Stream!Play
  <1>. DEFINE before == available_samples
              rest == before - bytes2play
  <1>1. /\ play = "copy" /\ play' = "deliver"
        /\ Len(chunk) = bytes2play
        /\ chunk \in Seq(Nat) /\ chunk' = chunk
        /\ audio_buffer_played \in Cells /\ audio_buffer_pos \in Cells
        /\ audio_buffer_played' = Advanced(audio_buffer_played, bytes2play)
        /\ UNCHANGED <<audio_buffer, audio_buffer_pos, acquireVars>>
    BY DEF ReleaseChunk, IInv, TypeOK
  <1>2. /\ audio_buffer_size \in Nat \ {0}
        /\ bytes2play \in Nat \ {0}
        /\ before \in 0..audio_buffer_size - 1
        /\ bytes2play <= before
        /\ audio_buffer_played + bytes2play <= audio_buffer_size
    BY <1>1, RingAssumption, AvailableBound, ChunkFits
    DEF RingAssumption, IInv, ChunkToCopy
  <1>3. audio_buffer_played' =
          IF audio_buffer_played + bytes2play < audio_buffer_size
          THEN audio_buffer_played + bytes2play
          ELSE audio_buffer_played + bytes2play - audio_buffer_size
    BY <1>1, <1>2, AdvancedOnce
  <1>4. available_samples' = rest /\ rest \in Nat
    BY <1>1, <1>2, <1>3 DEF available_samples, Cells
  <1>5. /\ BufferedSamples \in [1..before -> Nat]
        /\ Len(BufferedSamples) = before
        /\ \A k \in 1..before : BufferedSamples[k] = BufferedSample(k)
    BY MappedBuffer DEF BufferWellMapped
  <1>6. /\ BufferedSamples' \in [1..rest -> Nat]
        /\ \A k \in 1..rest : BufferedSamples'[k] = BufferedSample(k)'
    BY <1>4, MappedBufferNext DEF BufferWellMapped
  <1>7. /\ SubSeq(BufferedSamples, 1, bytes2play)
             = [k \in 1..bytes2play |-> BufferedSamples[k]]
        /\ SubSeq(BufferedSamples, bytes2play + 1, before)
             = [k \in 1..rest |-> BufferedSamples[bytes2play + k]]
    BY <1>2, <1>5, FrontAndRest
  <1>8. HeardSamples' = SubSeq(BufferedSamples, 1, bytes2play)
    <2>1. HeardSamples' = chunk
      BY <1>1 DEF HeardSamples
    <2>2. ASSUME NEW k \in 1..bytes2play PROVE BufferedSamples[k] = chunk[k]
      <3>1. k \in 1..before
        BY <1>2
      <3>. QED
        BY <1>1, <1>2, <1>5, <3>1 DEF BufferedSample
    <2>3. chunk = [k \in 1..bytes2play |-> chunk[k]]
      BY <1>1, <1>2
    <2>. QED
      BY <1>7, <2>1, <2>2, <2>3
  <1>9. BufferedSamples' = SubSeq(BufferedSamples, bytes2play + 1, before)
    <2>1. ASSUME NEW k \in 1..rest
          PROVE  BufferedSamples'[k] = BufferedSamples[bytes2play + k]
      <3>. DEFINE j == bytes2play + k
      <3>1. /\ k - 1 \in Nat /\ k - 1 <= audio_buffer_size
            /\ j \in 1..before
            /\ j - 1 \in Nat /\ j - 1 <= audio_buffer_size
            /\ ~(j <= Len(chunk))
            /\ j = bytes2play + k
        BY <1>1, <1>2
      <3>. HIDE DEF j
      <3>2. Advanced(audio_buffer_played, j - 1) =
              IF audio_buffer_played + (j - 1) < audio_buffer_size
              THEN audio_buffer_played + (j - 1)
              ELSE audio_buffer_played + (j - 1) - audio_buffer_size
        BY <1>1, <3>1, AdvancedOnce
      <3>3. audio_buffer_played' \in Cells
        BY DEF IInv, TypeOK
      <3>4. Advanced(audio_buffer_played', k - 1) =
              IF audio_buffer_played' + (k - 1) < audio_buffer_size
              THEN audio_buffer_played' + (k - 1)
              ELSE audio_buffer_played' + (k - 1) - audio_buffer_size
        BY <3>1, <3>3, AdvancedOnce
      <3>5. Advanced(audio_buffer_played', k - 1)
              = Advanced(audio_buffer_played, j - 1)
        BY <1>1, <1>2, <1>3, <3>1, <3>2, <3>3, <3>4 DEF Cells
      <3>6. BufferedSamples[j] = audio_buffer[Advanced(audio_buffer_played, j - 1)]
        BY <1>5, <3>1 DEF BufferedSample
      <3>7. BufferedSamples'[k] = audio_buffer[Advanced(audio_buffer_played', k - 1)]
        <4>1. Advanced(audio_buffer_played, k - 1)'
                = Advanced(audio_buffer_played', k - 1)
          BY DEF Advanced
        <4>. QED
          BY <1>1, <1>6, <4>1 DEF BufferedSample
      <3>. QED
        BY <3>5, <3>6, <3>7 DEF j
    <2>. QED
      BY <1>6, <1>7, <2>1
  <1>10. OfferedSamples' = OfferedSamples
    BY <1>1 DEF OfferedSamples, acquireVars, mybuffer
  <1>. QED
    BY <1>1, <1>2, <1>5, <1>8, <1>9, <1>10
    DEF Stream!Play, Stream!Prefix, acquireVars

(* TeamSpeak is given the chunk, which counted as heard already. *)
LEMMA DeliverStutters ==
    ASSUME IInv, Deliver
    PROVE  UNCHANGED Stream!vars
  <1>1. \A k \in 1..available_samples : BufferedSample(k)' = BufferedSample(k)
    BY DEF BufferedSample, Deliver, ring, Advanced
  <1>2. BufferedSamples' = BufferedSamples
    BY <1>1, SameBuffer DEF Deliver, ring
  <1>3. OfferedSamples' = OfferedSamples
    BY DEF OfferedSamples, Deliver, acquireVars, mybuffer
  <1>4. HeardSamples' = HeardSamples
    BY DEF HeardSamples, Deliver
  <1>. QED
    BY <1>2, <1>3, <1>4 DEF Stream!vars, Deliver, acquireVars

-----------------------------------------------------------------------------
(* Every step is a step of the stream or changes nothing of it. *)
LEMMA StepImplements ==
    ASSUME IInv, IInv', StoredFaithfully, [Next]_vars
    PROVE  [Stream!Next]_Stream!vars
  <1>1. ASSUME NEW n \in 0..MaxDatagram, Receive(n)
        PROVE  [Stream!Next]_Stream!vars
    <2>1. CASE n = 0
      BY <1>1, <2>1, ReceiveOffers
    <2>2. CASE n # 0
      <3>1. n \in 1..MaxDatagram
        BY <2>2, RingAssumption DEF RingAssumption
      <3>. QED
        BY <1>1, <2>2, <3>1, ReceiveOffers DEF Stream!Next
    <2>. QED
      BY <2>1, <2>2
  <1>2. CASE StartWriting
    BY <1>2, StartWritingStutters
  <1>3. CASE StoreSample
    BY <1>3, StoreSampleStutters
  <1>4. CASE PublishSamples
    BY <1>4, PublishAccepts DEF Stream!Next
  <1>5. CASE StartCopying
    BY <1>5, StartCopyingStutters
  <1>6. CASE CopySample
    BY <1>6, CopySampleStutters
  <1>7. CASE ReleaseChunk
    BY <1>7, ReleaseChunkPlays DEF Stream!Next
  <1>8. CASE Deliver
    BY <1>8, DeliverStutters
  <1>9. CASE UNCHANGED vars
    <2>1. UNCHANGED <<ring, acquireVars, playVars>>
      BY <1>9 DEF vars
    <2>2. \A k \in 1..available_samples : BufferedSample(k)' = BufferedSample(k)
      BY <2>1 DEF BufferedSample, ring, playVars, Advanced
    <2>3. BufferedSamples' = BufferedSamples
      BY <2>1, <2>2, SameBuffer DEF ring
    <2>4. OfferedSamples' = OfferedSamples
      BY <2>1 DEF OfferedSamples, acquireVars, mybuffer
    <2>5. HeardSamples' = HeardSamples
      BY <2>1 DEF HeardSamples, playVars
    <2>. QED
      BY <2>1, <2>3, <2>4, <2>5 DEF Stream!vars, acquireVars
  <1>. QED
    BY <1>1, <1>2, <1>3, <1>4, <1>5, <1>6, <1>7, <1>8, <1>9
    DEF Next, Store, Playback

(* Nothing has been received or heard at start-up. *)
LEMMA InitImplements == Init => Stream!Init
  <1>. SUFFICES ASSUME Init PROVE Stream!Init
    OBVIOUS
  <1>1. OfferedSamples = <<>> /\ HeardSamples = <<>>
    BY DEF Init, OfferedSamples, HeardSamples
  <1>2. BufferedSamples = <<>>
    <2>1. available_samples = 0
      BY DEF Init, available_samples
    <2>2. BufferedSamples \in [1..0 -> Nat]
      BY <2>1, InitInvariant, MappedBuffer DEF BufferWellMapped
    <2>. QED
      BY <2>2, NoSamples
  <1>. QED
    BY <1>1, <1>2 DEF Init, Stream!Init

(* The circular buffer implements the lossy stream (plugin.c:240-262, 332-366):
   audio is lost at the end of the array and when the buffer fills up exactly,
   and otherwise TeamSpeak hears what was received, in order, once. *)
THEOREM RingImplementsStream == Spec => ImplementsAudioStream
<1>1. IInv /\ StoredFaithfully /\ IInv' /\ [Next]_vars => [Stream!Next]_Stream!vars
  BY StepImplements
<1>. QED
  BY <1>1, InitImplements, StoredInvariant, PTL
  DEF Spec, ImplementsAudioStream, Stream!Spec

-----------------------------------------------------------------------------
(* Order.  That neighbours are in order says nothing about what becomes of them
   when the samples between two of them are lost: the invariant compares any two
   samples, of one sequence or of two. *)
Increasing(s) == \A i, j \in 1..Len(s) : i < j => s[i] < s[j]
Before(s, u) == \A i \in 1..Len(s), j \in 1..Len(u) : s[i] < u[j]
Delivered(s, t) == \A i \in 1..Len(s) : s[i] \in 1..t

OrderedStream(t, o, b, h) ==
    /\ t \in Nat /\ o \in Seq(Nat) /\ b \in Seq(Nat) /\ h \in Seq(Nat)
    /\ Increasing(h) /\ Increasing(b) /\ Increasing(o)
    /\ Before(h, b) /\ Before(h, o) /\ Before(b, o)
    /\ Delivered(h, t) /\ Delivered(b, t) /\ Delivered(o, t)

(* A sequence that repeats another from one place on inherits its order. *)
LEMMA SliceIsOrdered ==
    ASSUME NEW t \in Nat, NEW s \in Seq(Nat), NEW u \in Seq(Nat), NEW d \in Nat,
           Len(u) + d <= Len(s),
           \A i \in 1..Len(u) : u[i] = s[d + i]
    PROVE  /\ Increasing(s) => Increasing(u)
           /\ Delivered(s, t) => Delivered(u, t)
           /\ \A v \in Seq(Nat) : /\ Before(s, v) => Before(u, v)
                                  /\ Before(v, s) => Before(v, u)
  <1>1. Len(s) \in Nat /\ Len(u) \in Nat
    BY LenProperties
  <1>2. \A i \in 1..Len(u) : d + i \in 1..Len(s)
    BY <1>1
  <1>3. Increasing(s) => Increasing(u)
    <2>. SUFFICES ASSUME Increasing(s), NEW i \in 1..Len(u), NEW j \in 1..Len(u), i < j
                  PROVE  u[i] < u[j]
      BY DEF Increasing
    <2>1. d + i \in 1..Len(s) /\ d + j \in 1..Len(s) /\ d + i < d + j
      BY <1>1, <1>2
    <2>2. s[d + i] < s[d + j]
      BY <2>1 DEF Increasing
    <2>. QED
      BY <2>2
  <1>4. Delivered(s, t) => Delivered(u, t)
    BY <1>2 DEF Delivered
  <1>5. ASSUME NEW v \in Seq(Nat)
        PROVE  /\ Before(s, v) => Before(u, v)
               /\ Before(v, s) => Before(v, u)
    BY <1>2 DEF Before
  <1>. QED
    BY <1>3, <1>4, <1>5

(* A datagram is newer than everything received before it. *)
LEMMA OfferKeepsOrder ==
    ASSUME NEW t, NEW o, NEW b, NEW h, OrderedStream(t, o, b, h),
           NEW n \in Nat, NEW p, p = [k \in 1..n |-> t + k]
    PROVE  OrderedStream(t + n, p, b, h)
  <1>1. /\ t \in Nat /\ b \in Seq(Nat) /\ h \in Seq(Nat)
        /\ Increasing(h) /\ Increasing(b) /\ Before(h, b)
        /\ Delivered(h, t) /\ Delivered(b, t)
    BY DEF OrderedStream
  <1>2. p \in [1..n -> Nat]
    BY <1>1
  <1>3. p \in Seq(Nat) /\ Len(p) = n
    BY <1>2, FunctionIsSeq
  <1>4. Increasing(p) /\ Delivered(p, t + n)
    BY <1>1, <1>3 DEF Increasing, Delivered
  <1>5. Delivered(h, t + n) /\ Delivered(b, t + n)
    BY <1>1 DEF Delivered
  <1>6. Before(h, p)
    BY <1>1, <1>3 DEF Before, Delivered
  <1>7. Before(b, p)
    BY <1>1, <1>3 DEF Before, Delivered
  <1>. QED
    BY <1>1, <1>3, <1>4, <1>5, <1>6, <1>7 DEF OrderedStream

(* Forgetting the datagram, or the buffer too, disturbs no order. *)
LEMMA LossKeepsOrder ==
    ASSUME NEW t, NEW o, NEW b, NEW h, OrderedStream(t, o, b, h)
    PROVE  OrderedStream(t, <<>>, b, h) /\ OrderedStream(t, <<>>, <<>>, h)
  <1>1. <<>> \in Seq(Nat) /\ Len(<<>>) = 0
    BY EmptySeq
  <1>2. /\ Increasing(<<>>) /\ Delivered(<<>>, t)
        /\ \A s : Before(s, <<>>) /\ Before(<<>>, s)
    BY <1>1 DEF Increasing, Delivered, Before
  <1>. QED
    BY <1>1, <1>2 DEF OrderedStream

(* Appending the front of the datagram to the buffer disturbs no order. *)
LEMMA AcceptKeepsOrder ==
    ASSUME NEW t, NEW o, NEW b, NEW h, OrderedStream(t, o, b, h),
           NEW k \in 0..Len(o)
    PROVE  OrderedStream(t, <<>>, b \o SubSeq(o, 1, k), h)
  <1>. DEFINE u == SubSeq(o, 1, k)
              c == b \o u
  <1>1. /\ t \in Nat /\ o \in Seq(Nat) /\ b \in Seq(Nat) /\ h \in Seq(Nat)
        /\ Increasing(h) /\ Increasing(b) /\ Increasing(o)
        /\ Before(h, b) /\ Before(h, o) /\ Before(b, o)
        /\ Delivered(h, t) /\ Delivered(b, t) /\ Delivered(o, t)
    BY DEF OrderedStream
  <1>2. /\ u \in Seq(Nat) /\ Len(u) = k /\ k \in Nat
        /\ \A i \in 1..k : u[i] = o[i]
    BY <1>1
  <1>3. Increasing(u) /\ Delivered(u, t) /\ Before(b, u) /\ Before(h, u)
    <2>1. Len(u) + 0 <= Len(o) /\ \A i \in 1..Len(u) : u[i] = o[0 + i]
      BY <1>1, <1>2
    <2>. HIDE DEF u
    <2>. QED
      BY <1>1, <1>2, <2>1, SliceIsOrdered
  <1>. HIDE DEF u
  <1>4. /\ c \in Seq(Nat) /\ Len(c) = Len(b) + Len(u)
        /\ \A i \in 1..Len(b) + Len(u) :
             c[i] = IF i <= Len(b) THEN b[i] ELSE u[i - Len(b)]
        /\ Len(b) \in Nat /\ Len(u) \in Nat
    BY <1>1, <1>2, ConcatProperties, LenProperties
  <1>. HIDE DEF c
  <1>5. ASSUME NEW i \in 1..Len(c)
        PROVE  \/ i \in 1..Len(b) /\ c[i] = b[i]
               \/ i - Len(b) \in 1..Len(u) /\ c[i] = u[i - Len(b)]
    BY <1>4
  <1>6. Increasing(c)
    <2>. SUFFICES ASSUME NEW i \in 1..Len(c), NEW j \in 1..Len(c), i < j
                  PROVE  c[i] < c[j]
      BY DEF Increasing
    <2>1. CASE j \in 1..Len(b)
      <3>1. i \in 1..Len(b) /\ c[i] = b[i] /\ c[j] = b[j]
        BY <1>4, <2>1
      <3>. QED
        BY <1>1, <2>1, <3>1 DEF Increasing
    <2>2. CASE i \in 1..Len(b) /\ j \notin 1..Len(b)
      <3>1. c[i] = b[i] /\ j - Len(b) \in 1..Len(u) /\ c[j] = u[j - Len(b)]
        BY <1>4, <2>2
      <3>. QED
        BY <1>3, <2>2, <3>1 DEF Before
    <2>3. CASE i \notin 1..Len(b) /\ j \notin 1..Len(b)
      <3>1. /\ i - Len(b) \in 1..Len(u) /\ c[i] = u[i - Len(b)]
            /\ j - Len(b) \in 1..Len(u) /\ c[j] = u[j - Len(b)]
            /\ i - Len(b) < j - Len(b)
        BY <1>4, <2>3
      <3>. QED
        BY <1>3, <3>1 DEF Increasing
    <2>. QED
      BY <1>4, <2>1, <2>2, <2>3
  <1>7. Delivered(c, t)
    BY <1>1, <1>3, <1>5 DEF Delivered
  <1>8. Before(h, c)
    BY <1>1, <1>3, <1>5 DEF Before
  <1>9. OrderedStream(t, <<>>, c, h)
    <2>1. <<>> \in Seq(Nat) /\ Len(<<>>) = 0
      BY EmptySeq
    <2>2. /\ Increasing(<<>>) /\ Delivered(<<>>, t)
          /\ \A s : Before(s, <<>>)
      BY <2>1 DEF Increasing, Delivered, Before
    <2>. QED
      BY <1>1, <1>4, <1>6, <1>7, <1>8, <2>1, <2>2 DEF OrderedStream
  <1>. QED
    BY <1>9 DEF c, u

(* The chunk that is played was in front of the others. *)
LEMMA PlayKeepsOrder ==
    ASSUME NEW t, NEW o, NEW b, NEW h, OrderedStream(t, o, b, h),
           NEW k \in 0..Len(b)
    PROVE  OrderedStream(t, o, SubSeq(b, k + 1, Len(b)), SubSeq(b, 1, k))
  <1>. DEFINE u == SubSeq(b, 1, k)
              w == SubSeq(b, k + 1, Len(b))
  <1>1. /\ t \in Nat /\ o \in Seq(Nat) /\ b \in Seq(Nat)
        /\ Increasing(b) /\ Increasing(o) /\ Before(b, o)
        /\ Delivered(b, t) /\ Delivered(o, t)
    BY DEF OrderedStream
  <1>2. Len(b) \in Nat /\ k \in Nat /\ k <= Len(b)
    BY <1>1, LenProperties
  <1>3. /\ u \in Seq(Nat) /\ Len(u) = k
        /\ \A i \in 1..k : u[i] = b[i]
    BY <1>1, <1>2
  <1>4. /\ w \in Seq(Nat) /\ Len(w) = Len(b) - k
        /\ \A i \in 1..Len(b) - k : w[i] = b[k + i]
    <2>1. b \in [1..Len(b) -> Nat]
      BY <1>1, LenProperties
    <2>2. w = [i \in 1..Len(b) - k |-> b[k + i]]
      BY <1>2, <2>1, FrontAndRest
    <2>3. w \in [1..Len(b) - k -> Nat]
      <3>1. \A i \in 1..Len(b) - k : b[k + i] \in Nat
        BY <1>2, <2>1
      <3>. QED
        BY <2>2, <3>1
    <2>. DEFINE n == Len(b) - k
    <2>4. n \in Nat /\ w \in [1..n -> Nat]
      BY <1>2, <2>3
    <2>. HIDE DEF w, n
    <2>5. w \in Seq(Nat) /\ Len(w) = n
      BY <2>4, FunctionIsSeq
    <2>. QED
      BY <2>2, <2>5 DEF n
  <1>. HIDE DEF u, w
  <1>5. Increasing(u) /\ Delivered(u, t) /\ Before(u, o)
    <2>1. Len(u) + 0 <= Len(b) /\ \A i \in 1..Len(u) : u[i] = b[0 + i]
      BY <1>2, <1>3
    <2>. QED
      BY <1>1, <1>3, <2>1, SliceIsOrdered
  <1>6. Increasing(w) /\ Delivered(w, t) /\ Before(w, o)
    <2>1. Len(w) + k <= Len(b) /\ \A i \in 1..Len(w) : w[i] = b[k + i]
      BY <1>2, <1>4
    <2>. QED
      BY <1>1, <1>2, <1>4, <2>1, SliceIsOrdered
  <1>7. Before(u, w)
    <2>. SUFFICES ASSUME NEW i \in 1..Len(u), NEW j \in 1..Len(w) PROVE u[i] < w[j]
      BY DEF Before
    <2>1. i \in 1..Len(b) /\ k + j \in 1..Len(b) /\ i < k + j
      BY <1>2, <1>3, <1>4
    <2>2. b[i] < b[k + j]
      BY <1>1, <2>1 DEF Increasing
    <2>. QED
      BY <1>3, <1>4, <2>2
  <1>. QED
    BY <1>1, <1>3, <1>4, <1>5, <1>6, <1>7 DEF OrderedStream, u, w

(* What the mapped state's order amounts to. *)
InOrderInv == OrderedStream(received, OfferedSamples, BufferedSamples, HeardSamples)

(* Three ordered sequences, one before the other, make an ordered one. *)
LEMMA OrderedTogether ==
    ASSUME NEW t, NEW o, NEW b, NEW h, OrderedStream(t, o, b, h),
           NEW all, all = h \o b \o o
    PROVE  /\ \A i \in 1..Len(all) - 1 : all[i] < all[i + 1]
           /\ \A i \in 1..Len(all) : all[i] \in 1..t
  <1>. DEFINE f == h \o b
  <1>1. /\ t \in Nat /\ o \in Seq(Nat) /\ b \in Seq(Nat) /\ h \in Seq(Nat)
        /\ Increasing(h) /\ Increasing(b) /\ Increasing(o)
        /\ Before(h, b) /\ Before(h, o) /\ Before(b, o)
        /\ Delivered(h, t) /\ Delivered(b, t) /\ Delivered(o, t)
    BY DEF OrderedStream
  <1>2. Len(h) \in Nat /\ Len(b) \in Nat /\ Len(o) \in Nat
    BY <1>1, LenProperties
  <1>3. /\ f \in Seq(Nat) /\ Len(f) = Len(h) + Len(b)
        /\ \A i \in 1..Len(h) + Len(b) :
             f[i] = IF i <= Len(h) THEN h[i] ELSE b[i - Len(h)]
    BY <1>1, ConcatProperties
  <1>. HIDE DEF f
  <1>4. /\ Len(all) = Len(f) + Len(o)
        /\ \A i \in 1..Len(f) + Len(o) :
             all[i] = IF i <= Len(f) THEN f[i] ELSE o[i - Len(f)]
    <2>1. all = f \o o
      BY DEF f
    <2>2. f \in Seq(Nat) /\ o \in Seq(Nat)
      BY <1>1, <1>3
    <2>. QED
      BY ONLY <2>1, <2>2, ConcatProperties
  <1>5. ASSUME NEW i \in 1..Len(all)
        PROVE  \/ i \in 1..Len(h) /\ all[i] = h[i]
               \/ i - Len(h) \in 1..Len(b) /\ all[i] = b[i - Len(h)]
               \/ i - (Len(h) + Len(b)) \in 1..Len(o) /\ all[i] = o[i - (Len(h) + Len(b))]
    <2>1. CASE i <= Len(h)
      <3>1. i \in 1..Len(h) /\ i <= Len(f)
        BY <1>2, <1>3, <1>4, <2>1
      <3>2. all[i] = f[i] /\ f[i] = h[i]
        BY <1>2, <1>3, <1>4, <3>1
      <3>. QED
        BY <3>1, <3>2
    <2>2. CASE i > Len(h) /\ i <= Len(f)
      <3>1. i - Len(h) \in 1..Len(b)
        BY <1>2, <1>3, <1>4, <2>2
      <3>2. all[i] = f[i] /\ f[i] = b[i - Len(h)]
        BY <1>2, <1>3, <1>4, <2>2
      <3>. QED
        BY <3>1, <3>2
    <2>3. CASE i > Len(f)
      <3>1. i - (Len(h) + Len(b)) \in 1..Len(o)
        BY <1>2, <1>3, <1>4, <2>3
      <3>2. all[i] = o[i - (Len(h) + Len(b))]
        BY <1>2, <1>3, <1>4, <2>3
      <3>. QED
        BY <3>1, <3>2
    <2>. QED
      BY <1>2, <1>3, <1>4, <2>1, <2>2, <2>3
  <1>6. \A i \in 1..Len(all) : all[i] \in 1..t
    BY <1>1, <1>5 DEF Delivered
  <1>7. ASSUME NEW i \in 1..Len(all) - 1 PROVE all[i] < all[i + 1]
    <2>. DEFINE j == i + 1
    <2>0. i \in 1..Len(all) /\ j \in 1..Len(all) /\ i < j /\ i \in Nat /\ j \in Nat
      BY <1>2, <1>3, <1>4
    <2>. HIDE DEF j
    <2>. SUFFICES all[i] < all[j]
      BY DEF j
    <2>1. CASE j \in 1..Len(h)
      <3>1. i \in 1..Len(h) /\ all[i] = h[i] /\ all[j] = h[j]
        BY <1>2, <1>5, <2>0, <2>1
      <3>. QED
        BY <1>1, <2>0, <2>1, <3>1 DEF Increasing
    <2>2. CASE j - Len(h) \in 1..Len(b)
      <3>1. all[j] = b[j - Len(h)]
        BY <1>2, <1>5, <2>0, <2>2
      <3>2. CASE i \in 1..Len(h)
        <4>1. all[i] = h[i]
          BY <1>2, <1>5, <2>0, <3>2
        <4>. QED
          BY <1>1, <2>2, <3>1, <3>2, <4>1 DEF Before
      <3>3. CASE i \notin 1..Len(h)
        <4>1. /\ i - Len(h) \in 1..Len(b) /\ i - Len(h) < j - Len(h)
          BY <1>2, <2>0, <2>2, <3>3
        <4>2. all[i] = b[i - Len(h)]
          BY <1>2, <1>5, <2>0, <4>1
        <4>. QED
          BY <1>1, <2>2, <3>1, <4>1, <4>2 DEF Increasing
      <3>. QED
        BY <3>2, <3>3
    <2>3. CASE j - (Len(h) + Len(b)) \in 1..Len(o)
      <3>. DEFINE n == Len(h) + Len(b)
      <3>1. all[j] = o[j - n]
        BY <1>2, <1>5, <2>0, <2>3
      <3>2. CASE i \in 1..Len(h)
        <4>1. all[i] = h[i]
          BY <1>2, <1>5, <2>0, <3>2
        <4>. QED
          BY <1>1, <2>3, <3>1, <3>2, <4>1 DEF Before
      <3>3. CASE i - Len(h) \in 1..Len(b)
        <4>1. all[i] = b[i - Len(h)]
          BY <1>2, <1>5, <2>0, <3>3
        <4>. QED
          BY <1>1, <2>3, <3>1, <3>3, <4>1 DEF Before
      <3>4. CASE i > n
        <4>1. i - n \in 1..Len(o) /\ i - n < j - n
          BY <1>2, <2>0, <2>3, <3>4
        <4>2. all[i] = o[i - n]
          BY <1>2, <1>5, <2>0, <4>1
        <4>. QED
          BY <1>1, <2>3, <3>1, <4>1, <4>2 DEF Increasing
      <3>. QED
        BY <1>2, <2>0, <3>2, <3>3, <3>4
    <2>. QED
      BY <1>5, <2>0, <2>1, <2>2, <2>3
  <1>. QED
    BY <1>6, <1>7

(* Every step of the stream keeps the order. *)
LEMMA StepKeepsOrder ==
    ASSUME IInv, InOrderInv, [Stream!Next]_Stream!vars
    PROVE  InOrderInv'
  <1>0. /\ bytes2play \in Nat /\ MaxDatagram \in Nat
        /\ received \in Nat
        /\ OfferedSamples \in Seq(Nat) /\ BufferedSamples \in Seq(Nat)
    BY RingAssumption DEF RingAssumption, InOrderInv, OrderedStream
  <1>1. ASSUME NEW n \in 1..MaxDatagram, Stream!Offer(n) PROVE InOrderInv'
    BY <1>0, <1>1, OfferKeepsOrder DEF InOrderInv, Stream!Offer
  <1>2. ASSUME NEW k \in 0..Len(OfferedSamples), Stream!Accept(k) PROVE InOrderInv'
    BY <1>2, AcceptKeepsOrder DEF InOrderInv, Stream!Accept, Stream!Prefix
  <1>3. ASSUME NEW k \in 0..Len(OfferedSamples), Stream!Overrun(k) PROVE InOrderInv'
    BY <1>3, LossKeepsOrder DEF InOrderInv, Stream!Overrun
  <1>4. CASE Stream!Play
    <2>1. bytes2play \in 0..Len(BufferedSamples)
      BY <1>0, <1>4, LenProperties DEF Stream!Play
    <2>. QED
      BY <1>4, <2>1, PlayKeepsOrder DEF InOrderInv, Stream!Play, Stream!Prefix
  <1>5. CASE UNCHANGED Stream!vars
    BY <1>5 DEF InOrderInv, Stream!vars
  <1>. QED
    BY <1>1, <1>2, <1>3, <1>4, <1>5 DEF Stream!Next

(* What TeamSpeak hears next is always newer than what it heard before, and is
   something the network delivered, however the two threads interleave, the
   buffer wraps and datagrams are cut off or forgotten (plugin.c:240-262,
   347-359). *)
THEOREM HeardInOrder == Spec => []AudioInOrder
<1>1. Init => InOrderInv
  <2>. SUFFICES ASSUME Init PROVE InOrderInv
    OBVIOUS
  <2>1. /\ received = 0 /\ OfferedSamples = <<>>
        /\ BufferedSamples = <<>> /\ HeardSamples = <<>>
    BY InitImplements DEF Stream!Init
  <2>2. <<>> \in Seq(Nat) /\ Len(<<>>) = 0
    BY EmptySeq
  <2>. QED
    BY <2>1, <2>2 DEF InOrderInv, OrderedStream, Increasing, Before, Delivered
<1>2. IInv /\ StoredFaithfully /\ IInv' /\ InOrderInv /\ [Next]_vars => InOrderInv'
  BY StepImplements, StepKeepsOrder
<1>3. InOrderInv => AudioInOrder
  BY OrderedTogether
  DEF InOrderInv, AudioInOrder, Stream!InOrder, Stream!NothingInvented
<1>. QED
  BY <1>1, <1>2, <1>3, StoredInvariant, PTL DEF Spec
=============================================================================
