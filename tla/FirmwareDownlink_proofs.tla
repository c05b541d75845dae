------------------------ MODULE FirmwareDownlink_proofs ------------------------
(***************************************************************************)
(* Theorems about FirmwareDownlink, for every ring that is longer than a   *)
(* datagram and any number of samples.                                     *)
(***************************************************************************)
EXTENDS FirmwareDownlink, SequenceTheorems, TLAPS

(* The datagram in bufferloop has been received. *)
DatagramReceived ==
    loop # "receive" => new_audio_len + CutOff <= received

(* A second memcpy is left only where the first has reached the end of the ring,
   and starts at its beginning. *)
RestAtStart == loop = "storeRest" => audio_buffer_pos = 0

(* The inductive invariant. *)
IInv == TypeOK /\ DatagramReceived /\ RestAtStart

LEMMA ModOnce ==
    ASSUME NEW m \in Nat \ {0}, NEW x \in Nat, x <= m
    PROVE  /\ x % m \in 0..m - 1
           /\ x % m = IF x < m THEN x ELSE 0
  OBVIOUS

LEMMA InitInvariant == Init => IInv
  BY DownlinkAssumption
     DEF DownlinkAssumption, Init, IInv, TypeOK, DatagramReceived, RestAtStart,
         Cells, Silence, Foreign

(* memcpy writes samples that have been received. *)
LEMMA CopiedCells ==
    ASSUME IInv, loop # "receive", NEW first \in Nat, NEW n \in Nat
    PROVE  Copied(first, n) \in [0..buf_sz -> Nat \union {Foreign}]
  <1>1. SUFFICES ASSUME NEW c \in 0..buf_sz,
                        c \in audio_buffer_pos..audio_buffer_pos + n - 1
                 PROVE  bufferloop(first + c - audio_buffer_pos) \in Nat
    BY DEF IInv, TypeOK, Copied
  <1>2. /\ c \in Int /\ audio_buffer_pos \in Int /\ c >= audio_buffer_pos
        /\ received \in Nat /\ new_audio_len \in Nat
    BY <1>1, DownlinkAssumption DEF DownlinkAssumption, IInv, TypeOK, Cells
  <1>. QED
    BY <1>2 DEF IInv, DatagramReceived, bufferloop, CutOff

LEMMA GetAudioDataStep ==
    ASSUME IInv, NEW len \in CutOff + 1..MaxDatagram, GetAudioData(len)
    PROVE  IInv'
  <1>1. /\ new_audio_len' = len - CutOff /\ len - CutOff \in 1..buf_sz - 1
        /\ received' = received + len /\ received' \in Nat
        /\ data2copy' = 0 /\ loop' = "store"
    BY DownlinkAssumption DEF DownlinkAssumption, CutOff, IInv, TypeOK, GetAudioData
  <1>2. TypeOK'
    BY <1>1, DownlinkAssumption
       DEF DownlinkAssumption, IInv, TypeOK, GetAudioData
  <1>3. DatagramReceived' /\ RestAtStart'
    BY <1>1 DEF IInv, TypeOK, DatagramReceived, RestAtStart, CutOff
  <1>. QED
    BY <1>2, <1>3 DEF IInv

LEMMA StoreFirstStep ==
    ASSUME IInv, StoreFirst
    PROVE  IInv'
  <1> DEFINE n == IF ToEnd > new_audio_len THEN new_audio_len ELSE ToEnd
  <1>1. /\ n \in 0..new_audio_len /\ n \in Nat
        /\ audio_buffer_pos + n \in Nat /\ audio_buffer_pos + n <= buf_sz
        /\ n < new_audio_len => audio_buffer_pos + n = buf_sz
    BY DownlinkAssumption
       DEF DownlinkAssumption, IInv, TypeOK, Cells, ToEnd
  <1>2. /\ loop = "store" /\ data2copy' = n
        /\ audio_buffer' = Copied(0, n) /\ audio_buffer_pos' = AfterFirst(n)
        /\ loop' = IF n < new_audio_len THEN "storeRest" ELSE "receive"
        /\ new_audio_len' = new_audio_len /\ received' = received
    BY DEF StoreFirst
  <1>3. /\ AfterFirst(n) \in Cells
        /\ n < new_audio_len => AfterFirst(n) = 0
    <2>1. buf_sz \in Nat \ {0}
      BY DownlinkAssumption DEF DownlinkAssumption
    <2> DEFINE x == audio_buffer_pos + n
    <2>2. x \in Nat /\ x <= buf_sz
      BY <1>1
    <2>3. /\ x % buf_sz \in 0..buf_sz - 1
          /\ x % buf_sz = IF x < buf_sz THEN x ELSE 0
      <3>. HIDE DEF x
      <3>. QED
        BY ONLY <2>1, <2>2, ModOnce
    <2>. QED
      BY <1>1, <2>1, <2>3 DEF AfterFirst, Cells
  <1>4. Copied(0, n) \in [0..buf_sz -> Nat \union {Foreign}]
    BY <1>1, <1>2, CopiedCells
  <1>5. TypeOK'
    <2>. HIDE DEF n
    <2>. QED
      BY <1>1, <1>2, <1>3, <1>4 DEF IInv, TypeOK, StoreFirst
  <1>6. DatagramReceived' /\ RestAtStart'
    <2>. HIDE DEF n
    <2>. QED
      BY <1>2, <1>3 DEF IInv, DatagramReceived, RestAtStart
  <1>. QED
    BY <1>5, <1>6 DEF IInv

LEMMA StoreRestStep ==
    ASSUME IInv, StoreRest
    PROVE  IInv'
  <1> DEFINE n == new_audio_len - data2copy
  <1>1. n \in 0..buf_sz - 1 /\ n \in Nat /\ data2copy \in Nat
    BY DownlinkAssumption DEF DownlinkAssumption, IInv, TypeOK
  <1>2. audio_buffer_pos' = n
    BY <1>1 DEF IInv, RestAtStart, StoreRest
  <1>3. audio_buffer' \in [0..buf_sz -> Nat \union {Foreign}]
    BY <1>1, CopiedCells DEF StoreRest
  <1>4. TypeOK'
    BY <1>1, <1>2, <1>3 DEF IInv, TypeOK, Cells, StoreRest
  <1>5. DatagramReceived' /\ RestAtStart'
    BY DEF DatagramReceived, RestAtStart, StoreRest
  <1>. QED
    BY <1>4, <1>5 DEF IInv

LEMMA PlaySampleStep ==
    ASSUME IInv, PlaySample
    PROVE  IInv'
  <1>1. played_audio_pos' \in 0..buf_sz
    BY DownlinkAssumption DEF DownlinkAssumption, IInv, TypeOK, PlaySample
  <1>2. /\ dac' \in Nat \union {Foreign}
        /\ audio_buffer' \in [0..buf_sz -> Nat \union {Foreign}]
    BY DEF IInv, TypeOK, PlaySample, Silence
  <1>3. TypeOK'
    BY <1>1, <1>2 DEF IInv, TypeOK, PlaySample, loopVars
  <1>4. DatagramReceived' /\ RestAtStart'
    BY DEF IInv, DatagramReceived, RestAtStart, PlaySample, loopVars
  <1>. QED
    BY <1>3, <1>4 DEF IInv

LEMMA StepInvariant == IInv /\ [Next]_vars => IInv'
  <1>. SUFFICES ASSUME IInv, [Next]_vars PROVE IInv'
    OBVIOUS
  <1>1. CASE FlagChanges
    BY <1>1 DEF FlagChanges, IInv, TypeOK, DatagramReceived, RestAtStart, loopVars
  <1>2. CASE UNCHANGED vars
    BY <1>2 DEF vars, IInv, TypeOK, DatagramReceived, RestAtStart, loopVars
  <1>. QED
    BY <1>1, <1>2, GetAudioDataStep, StoreFirstStep, StoreRestStep,
       PlaySampleStep DEF Next

-----------------------------------------------------------------------------
(* Both cursors stay where main.ino:72 and 112-113, 379-387 are meant to keep
   them; only the first byte ever played is no cell of the ring. *)
THEOREM TypeCorrect == Spec => []TypeOK
  <1>1. IInv => TypeOK
    BY DEF IInv
  <1>. QED
    BY <1>1, InitInvariant, StepInvariant, PTL DEF Spec

(* Neither memcpy of loop() leaves audio_buffer, as long as a datagram is shorter
   than the ring (main.ino:377-388). *)
THEOREM CopyBounds == Spec => []CopiesInBounds
  <1>1. IInv => CopiesInBounds
    BY DownlinkAssumption
       DEF DownlinkAssumption, IInv, TypeOK, Cells, RestAtStart, CopiesInBounds
  <1>. QED
    BY <1>1, InitInvariant, StepInvariant, PTL DEF Spec
-----------------------------------------------------------------------------
(* The ring implements the stream that forgets a lap when it is lapped. *)

(* Something is left to be stored, and the byte behind the array is what it was until
   the interrupt has played it. *)
SomethingToStore ==
    /\ loop = "store" => new_audio_len >= 1
    /\ loop = "storeRest" => data2copy < new_audio_len
ForeignUntilPlayed == ~Started => audio_buffer[buf_sz] = Foreign

StoreInv == SomethingToStore /\ ForeignUntilPlayed

Samples == Nat \union {Foreign}

LEMMA ModTwice ==
    ASSUME NEW m \in Nat \ {0}, NEW x \in Nat, x < 2 * m
    PROVE  x % m = IF x < m THEN x ELSE x - m
  OBVIOUS

LEMMA ModOfDifference ==
    ASSUME NEW m \in Nat \ {0}, NEW x \in Int, x < m, -m <= x
    PROVE  x % m = IF x < 0 THEN x + m ELSE x
  <1>1. CASE x >= 0
    BY <1>1
  <1>2. CASE x < 0
    <2>1. (x + m) \in 0..m - 1
      BY <1>2
    <2>. QED
      BY <1>2, <2>1
  <1>. QED
    BY <1>1, <1>2

LEMMA Ring == buf_sz \in Nat \ {0} /\ CutOff = 2 /\ MaxDatagram - CutOff < buf_sz
  BY DownlinkAssumption DEF DownlinkAssumption, CutOff

(* How much is unplayed, without the remainder. *)
LEMMA UnplayedIs ==
    ASSUME audio_buffer_pos \in Cells, played_audio_pos \in 0..buf_sz
    PROVE  /\ Unplayed = IF ~Started
                         THEN IF audio_buffer_pos = 0 THEN buf_sz ELSE audio_buffer_pos
                         ELSE IF audio_buffer_pos >= played_audio_pos
                              THEN audio_buffer_pos - played_audio_pos
                              ELSE audio_buffer_pos - played_audio_pos + buf_sz
           /\ Unplayed \in 0..buf_sz
  <1> DEFINE x == audio_buffer_pos - played_audio_pos
  <1>1. /\ audio_buffer_pos \in 0..buf_sz - 1 /\ buf_sz \in Nat \ {0}
        /\ x \in Int /\ x < buf_sz /\ -buf_sz <= x
    BY Ring DEF Cells
  <1>2. x % buf_sz = IF x < 0 THEN x + buf_sz ELSE x
    <2>. HIDE DEF x
    <2>. QED
      BY ONLY <1>1, ModOfDifference
  <1>. QED
    BY <1>1, <1>2 DEF Unplayed, Started

(* Where the samples are that are unplayed. *)
LEMMA UnplayedCellIs ==
    ASSUME played_audio_pos \in 0..buf_sz, NEW k \in 1..buf_sz
    PROVE  /\ UnplayedCell(k) = IF played_audio_pos + k - 1 < buf_sz
                                THEN played_audio_pos + k - 1
                                ELSE played_audio_pos + k - 1 - buf_sz
           /\ UnplayedCell(k) \in Cells
  <1> DEFINE x == played_audio_pos + k - 1
  <1>1. x \in Nat /\ x < 2 * buf_sz /\ buf_sz \in Nat \ {0}
    BY Ring
  <1>2. x % buf_sz = IF x < buf_sz THEN x ELSE x - buf_sz
    <2>. HIDE DEF x
    <2>. QED
      BY ONLY <1>1, ModTwice
  <1>. QED
    BY <1>1, <1>2 DEF UnplayedCell, Cells

(* The sequence they make. *)
WellMapped ==
    /\ Unplayed \in 0..buf_sz
    /\ UnplayedSamples \in [1..Unplayed -> Samples]
    /\ UnplayedSamples \in Seq(Samples)
    /\ Len(UnplayedSamples) = Unplayed
    /\ \A k \in 1..Unplayed : UnplayedSamples[k] = audio_buffer[UnplayedCell(k)]

LEMMA FunctionIsSeq ==
    ASSUME NEW S, NEW n \in Nat, NEW f \in [1..n -> S]
    PROVE  f \in Seq(S) /\ Len(f) = n
  OBVIOUS

LEMMA Mapped == IInv => WellMapped
  <1>. SUFFICES ASSUME IInv PROVE WellMapped
    OBVIOUS
  <1>1. Unplayed \in 0..buf_sz
    BY UnplayedIs DEF IInv, TypeOK
  <1>2. ASSUME NEW k \in 1..Unplayed PROVE audio_buffer[UnplayedCell(k)] \in Samples
    <2>1. k \in 1..buf_sz
      BY <1>1, Ring
    <2>2. UnplayedCell(k) \in Cells
      BY <2>1, UnplayedCellIs DEF IInv, TypeOK
    <2>3. UnplayedCell(k) \in 0..buf_sz
      BY <2>2, Ring DEF Cells
    <2>. QED
      BY <2>3 DEF IInv, TypeOK, Samples
  <1>3. /\ UnplayedSamples \in [1..Unplayed -> Samples]
        /\ \A k \in 1..Unplayed : UnplayedSamples[k] = audio_buffer[UnplayedCell(k)]
    BY <1>2 DEF UnplayedSamples
  <1>4. Unplayed \in Nat
    BY <1>1, Ring
  <1>. QED
    BY <1>1, <1>3, <1>4, FunctionIsSeq DEF WellMapped

(* The newest samples of two sequences one after the other. *)
LEMMA NewestOfTwo ==
    ASSUME NEW S, NEW n \in Nat, NEW k \in Nat,
           NEW f \in [1..n -> S], NEW g \in [1..k -> S], NEW r \in 0..n + k
    PROVE  /\ Len(f \o g) = n + k
           /\ Stream!Newest(f \o g, r) \in [1..r -> S]
           /\ \A i \in 1..r : Stream!Newest(f \o g, r)[i] =
                IF n + k - r + i <= n THEN f[n + k - r + i] ELSE g[k - r + i]
  <1>1. f \in Seq(S) /\ Len(f) = n /\ g \in Seq(S) /\ Len(g) = k
    BY FunctionIsSeq
  <1>2. /\ f \o g \in Seq(S) /\ Len(f \o g) = n + k
        /\ \A i \in 1..n + k : (f \o g)[i] = IF i <= n THEN f[i] ELSE g[i - n]
    BY <1>1, ConcatProperties
  <1> DEFINE all == f \o g
             m == n + k - r + 1
             s == SubSeq(all, m, n + k)
  <1>3. m \in Int /\ n + k \in Int /\ (n + k) - m + 1 = r /\ m >= 1
        /\ \A i \in m..n + k : i \in 1..n + k
    OBVIOUS
  <1>4. \A i \in m..n + k : all[i] \in S
    <2>1. \A i \in 1..n + k : all[i] \in S
      <3>1. all \in Seq(S) /\ Len(all) = n + k
        BY <1>2
      <3>. HIDE DEF all
      <3>. QED
        BY ONLY <3>1, LenProperties
    <2>. QED
      BY ONLY <1>3, <2>1
  <1>5. /\ s \in Seq(S)
        /\ Len(s) = r
        /\ \A i \in 1..r : s[i] = all[m + i - 1]
    <2>. HIDE DEF all, m
    <2>1. /\ SubSeq(all, m, n + k) \in Seq(S)
          /\ Len(SubSeq(all, m, n + k)) = IF m <= n + k THEN (n + k) - m + 1 ELSE 0
          /\ \A i \in 1..(n + k) - m + 1 : SubSeq(all, m, n + k)[i] = all[m + i - 1]
      BY ONLY <1>3, <1>4, SubSeqProperties
    <2>2. m <= n + k \/ r = 0
      BY <1>3
    <2>. QED
      BY <1>3, <2>1, <2>2
  <1>6. \A i \in 1..r : m + i - 1 \in 1..n + k /\ m + i - 1 = n + k - r + i
                        /\ (n + k - r + i) - n = k - r + i
    OBVIOUS
  <1>7. \A i \in 1..r : s[i] = IF n + k - r + i <= n THEN f[n + k - r + i]
                                                     ELSE g[k - r + i]
    BY <1>2, <1>5, <1>6
  <1>8. s \in [1..r -> S]
    <2>. HIDE DEF s
    <2>. QED
      BY ONLY <1>5, LenProperties
  <1>9. Stream!Newest(all, r) = s
    <2>1. Len(all) - r + 1 = m /\ Len(all) = n + k
      BY <1>2
    <2>. QED
      BY <2>1 DEF Stream!Newest
  <1>. QED
    <2>. HIDE DEF s
    <2>. QED
      BY <1>2, <1>7, <1>8, <1>9

(* How much is left when n samples have been stored. *)
LEMMA RemainingIs ==
    ASSUME IInv, NEW n \in 1..buf_sz - audio_buffer_pos, n < buf_sz
    PROVE  LET next == IF audio_buffer_pos + n < buf_sz THEN audio_buffer_pos + n ELSE 0
           IN  Stream!Remaining(Unplayed + n) =
                 IF ~Started
                 THEN IF next = 0 THEN buf_sz ELSE next
                 ELSE IF next >= played_audio_pos
                      THEN next - played_audio_pos
                      ELSE next - played_audio_pos + buf_sz
  <1> DEFINE x == Unplayed + n
  <1>1. /\ audio_buffer_pos \in 0..buf_sz - 1 /\ buf_sz \in Nat \ {0}
        /\ played_audio_pos \in 0..buf_sz /\ n \in Nat
        /\ Started <=> played_audio_pos # buf_sz
    BY Ring DEF IInv, TypeOK, Cells, Started
  <1>2. /\ Unplayed = IF ~Started
                      THEN IF audio_buffer_pos = 0 THEN buf_sz ELSE audio_buffer_pos
                      ELSE IF audio_buffer_pos >= played_audio_pos
                           THEN audio_buffer_pos - played_audio_pos
                           ELSE audio_buffer_pos - played_audio_pos + buf_sz
        /\ Unplayed \in 0..buf_sz
    BY UnplayedIs DEF IInv, TypeOK
  <1>3. x \in Nat /\ x < 2 * buf_sz
    BY <1>1, <1>2
  <1>4. x % buf_sz = IF x < buf_sz THEN x ELSE x - buf_sz
    <2>. HIDE DEF x
    <2>. QED
      BY ONLY <1>1, <1>3, ModTwice
  <1>5. Stream!Remaining(x) = IF x % buf_sz = 0 /\ ~Started THEN buf_sz ELSE x % buf_sz
    BY DEF Stream!Remaining
  <1>. QED
    BY <1>1, <1>2, <1>4, <1>5

(* memcpy of n samples behind those that are unplayed: the stream's Store, with what
   it makes the reader forget. *)
LEMMA Stored ==
    ASSUME IInv, WellMapped', NEW total \in Nat,
           NEW n \in 1..buf_sz - audio_buffer_pos, n < buf_sz,
           \A c \in 0..buf_sz :
             audio_buffer'[c] = IF c \in audio_buffer_pos..audio_buffer_pos + n - 1
                                THEN total + 1 + (c - audio_buffer_pos)
                                ELSE audio_buffer[c],
           audio_buffer_pos' =
             (IF audio_buffer_pos + n < buf_sz THEN audio_buffer_pos + n ELSE 0),
           played_audio_pos' = played_audio_pos
    PROVE  LET all == UnplayedSamples \o [i \in 1..n |-> total + i]
           IN  UnplayedSamples' = Stream!Newest(all, Stream!Remaining(Len(all)))
  <1> DEFINE all == UnplayedSamples \o [i \in 1..n |-> total + i]
             u == Unplayed
             v == Unplayed'
             d == u + n - v
  <1>1. /\ audio_buffer_pos \in 0..buf_sz - 1 /\ buf_sz \in Nat \ {0}
        /\ played_audio_pos \in 0..buf_sz /\ n \in Nat
        /\ Started <=> played_audio_pos # buf_sz
        /\ Started' <=> Started
    BY Ring DEF IInv, TypeOK, Cells, Started
  <1>2. /\ u = IF ~Started
               THEN IF audio_buffer_pos = 0 THEN buf_sz ELSE audio_buffer_pos
               ELSE IF audio_buffer_pos >= played_audio_pos
                    THEN audio_buffer_pos - played_audio_pos
                    ELSE audio_buffer_pos - played_audio_pos + buf_sz
        /\ u \in 0..buf_sz
    BY UnplayedIs DEF IInv, TypeOK
  <1>3. Stream!Remaining(u + n) = v
    <2> DEFINE next == IF audio_buffer_pos + n < buf_sz THEN audio_buffer_pos + n ELSE 0
    <2>1. Stream!Remaining(u + n) =
            IF ~Started
            THEN IF next = 0 THEN buf_sz ELSE next
            ELSE IF next >= played_audio_pos
                 THEN next - played_audio_pos
                 ELSE next - played_audio_pos + buf_sz
      BY RemainingIs
    <2>2. next \in Int /\ next < buf_sz /\ next >= 0
      BY <1>1
    <2>3. v = IF audio_buffer_pos' = 0 /\ played_audio_pos' = buf_sz
              THEN buf_sz
              ELSE (audio_buffer_pos' - played_audio_pos') % buf_sz
      BY DEF Unplayed
    <2> DEFINE y == next - played_audio_pos
    <2>4. y \in Int /\ y < buf_sz /\ -buf_sz <= y
      BY <1>1, <2>2
    <2>5. y % buf_sz = IF y < 0 THEN y + buf_sz ELSE y
      <3>. HIDE DEF y
      <3>. QED
        BY ONLY <1>1, <2>4, ModOfDifference
    <2>6. v = IF next = 0 /\ played_audio_pos = buf_sz THEN buf_sz ELSE y % buf_sz
      <3>1. audio_buffer_pos' = next
        OBVIOUS
      <3>. HIDE DEF next, v
      <3>. QED
        BY <2>3, <3>1
    <2>. HIDE DEF next, u, v
    <2>. QED
      BY <1>1, <2>1, <2>2, <2>5, <2>6
  <1>4. /\ v \in 0..buf_sz /\ UnplayedSamples' \in [1..v -> Samples]
        /\ \A k \in 1..v : UnplayedSamples'[k] = audio_buffer'[UnplayedCell(k)']
    BY DEF WellMapped
  <1>5. /\ UnplayedSamples \in [1..u -> Samples]
        /\ \A k \in 1..u : UnplayedSamples[k] = audio_buffer[UnplayedCell(k)]
    BY Mapped DEF WellMapped
  <1>6. v = u + n \/ v = u + n - buf_sz
    <2>1. u + n \in Nat /\ u + n < 2 * buf_sz
      BY <1>1, <1>2
    <2>2. Stream!Remaining(u + n) = IF (u + n) % buf_sz = 0 /\ ~Started
                                    THEN buf_sz ELSE (u + n) % buf_sz
      BY DEF Stream!Remaining
    <2> DEFINE x == u + n
    <2>3. x % buf_sz = IF x < buf_sz THEN x ELSE x - buf_sz
      <3>. HIDE DEF x
      <3>. QED
        BY ONLY <1>1, <2>1, ModTwice DEF x
    <2>. HIDE DEF u, v
    <2>. QED
      BY <1>1, <1>2, <1>3, <2>1, <2>2, <2>3
  <1>7. [i \in 1..n |-> total + i] \in [1..n -> Samples]
    BY DEF Samples
  <1>8. /\ Len(all) = u + n
        /\ Stream!Newest(all, v) \in [1..v -> Samples]
        /\ \A i \in 1..v : Stream!Newest(all, v)[i] =
             IF u + n - v + i <= u THEN UnplayedSamples[u + n - v + i]
                                   ELSE [j \in 1..n |-> total + j][n - v + i]
    <2> DEFINE f == UnplayedSamples
               g == [i \in 1..n |-> total + i]
    <2>1. u \in Nat /\ n \in Nat /\ v \in 0..u + n /\ f \in [1..u -> Samples]
          /\ g \in [1..n -> Samples]
      BY <1>1, <1>2, <1>4, <1>5, <1>6, <1>7
    <2>. HIDE DEF u, v, f, g
    <2>2. Len(f \o g) = u + n
      BY ONLY <2>1, NewestOfTwo
    <2>3. Stream!Newest(f \o g, v) \in [1..v -> Samples]
      BY ONLY <2>1, NewestOfTwo DEF Stream!Newest
    <2>4. \A i \in 1..v : SubSeq(f \o g, Len(f \o g) - v + 1, Len(f \o g))[i] =
            IF u + n - v + i <= u THEN f[u + n - v + i] ELSE g[n - v + i]
      BY ONLY <2>1, NewestOfTwo DEF Stream!Newest
    <2>5. Stream!Newest(f \o g, v)
            = SubSeq(f \o g, Len(f \o g) - v + 1, Len(f \o g))
      BY DEF Stream!Newest
    <2>. QED
      BY <2>2, <2>3, <2>4, <2>5 DEF f, g
  <1>9. ASSUME NEW k \in 1..v
        PROVE  UnplayedSamples'[k] = IF u + n - v + k <= u
                                     THEN UnplayedSamples[u + n - v + k]
                                     ELSE total + (n - v + k)
    <2> DEFINE c == UnplayedCell(k)
    <2>1. k \in 1..buf_sz
      BY <1>1, <1>4
    <2>2. /\ c = IF played_audio_pos + k - 1 < buf_sz
                 THEN played_audio_pos + k - 1
                 ELSE played_audio_pos + k - 1 - buf_sz
          /\ c \in 0..buf_sz
      BY <2>1, UnplayedCellIs, Ring DEF IInv, TypeOK, Cells
    <2>3. UnplayedCell(k)' = c
      BY DEF UnplayedCell
    <2>4. UnplayedSamples'[k] = IF c \in audio_buffer_pos..audio_buffer_pos + n - 1
                                THEN total + 1 + (c - audio_buffer_pos)
                                ELSE audio_buffer[c]
      <3>1. UnplayedSamples'[k] = audio_buffer'[c]
        BY <1>4, <2>3
      <3>. HIDE DEF c, v
      <3>. QED
        BY <2>2, <3>1
    <2>5. CASE u + n - v + k <= u
      <3> DEFINE j == u + n - v + k
      <3>1. j \in 1..u /\ j \in 1..buf_sz
        <4>. HIDE DEF u, v
        <4>. QED
          BY <1>1, <1>2, <1>4, <1>6, <2>5
      <3>2. UnplayedCell(j) = IF played_audio_pos + j - 1 < buf_sz
                              THEN played_audio_pos + j - 1
                              ELSE played_audio_pos + j - 1 - buf_sz
        <4>. HIDE DEF j
        <4>. QED
          BY <3>1, UnplayedCellIs DEF IInv, TypeOK
      <3>3. UnplayedCell(j) = c /\ c \notin audio_buffer_pos..audio_buffer_pos + n - 1
        <4>. HIDE DEF u, v, c
        <4>. QED
          BY <1>1, <1>2, <1>4, <1>6, <2>1, <2>2, <2>5, <3>2, <3>1
      <3>4. UnplayedSamples[j] = audio_buffer[c]
        <4>1. UnplayedSamples[j] = audio_buffer[UnplayedCell(j)]
          <5>. HIDE DEF j, u
          <5>. QED
            BY <1>5, <3>1
        <4>. QED
          BY <3>3, <4>1
      <3>. QED
        BY <2>4, <2>5, <3>3, <3>4
    <2>6. CASE ~(u + n - v + k <= u)
      <3>1. /\ c \in audio_buffer_pos..audio_buffer_pos + n - 1
            /\ 1 + (c - audio_buffer_pos) = n - v + k
        <4>. HIDE DEF u, v, c
        <4>. QED
          BY <1>1, <1>2, <1>4, <1>6, <2>1, <2>2, <2>6
      <3>2. total + 1 + (c - audio_buffer_pos) = total + (n - v + k)
        <4>. HIDE DEF u, v, c
        <4>. QED
          BY <1>1, <1>4, <2>2, <3>1
      <3>. QED
        BY <2>4, <2>6, <3>1, <3>2
    <2>. QED
      BY <2>5, <2>6
  <1>10. ASSUME NEW k \in 1..v, ~(u + n - v + k <= u)
         PROVE  [j \in 1..n |-> total + j][n - v + k] = total + (n - v + k)
    <2>1. n - v + k \in 1..n
      <3>. HIDE DEF u, v
      <3>. QED
        BY <1>1, <1>2, <1>4, <1>10
    <2>. QED
      BY <2>1
  <1>11. UnplayedSamples' = Stream!Newest(all, v)
    <2> DEFINE new == Stream!Newest(all, v)
    <2>1. ASSUME NEW k \in 1..v PROVE UnplayedSamples'[k] = new[k]
      <3>. HIDE DEF u, v, all
      <3>. QED
        BY <1>8, <1>9, <1>10
    <2>2. new \in [1..v -> Samples]
      BY <1>8
    <2>. HIDE DEF u, v, all, new
    <2>3. UnplayedSamples' = new
      BY ONLY <1>4, <2>1, <2>2
    <2>. QED
      BY <2>3 DEF new
  <1>. QED
    <2>. HIDE DEF all, u, v
    <2>1. Stream!Remaining(Len(all)) = v
      BY <1>3, <1>8
    <2>. QED
      BY <1>11, <2>1 DEF all


-----------------------------------------------------------------------------
(* StoreInv is inductive with the invariant of the copies. *)

(* memcpy of n samples, cell by cell. *)
LEMMA CopiedIs ==
    ASSUME IInv, NEW first \in Nat, NEW n \in Nat, audio_buffer' = Copied(first, n)
    PROVE  \A c \in 0..buf_sz :
             audio_buffer'[c] = IF c \in audio_buffer_pos..audio_buffer_pos + n - 1
                                THEN bufferloop(first + c - audio_buffer_pos)
                                ELSE audio_buffer[c]
  BY DEF IInv, TypeOK, Copied

(* The number of samples of each of the two memcpys. *)
LEMMA FirstFits ==
    ASSUME IInv, StoreInv, StoreFirst
    PROVE  /\ data2copy' \in 1..buf_sz - audio_buffer_pos
           /\ data2copy' < buf_sz /\ data2copy' <= new_audio_len
           /\ audio_buffer' = Copied(0, data2copy')
           /\ audio_buffer_pos' = IF audio_buffer_pos + data2copy' < buf_sz
                                  THEN audio_buffer_pos + data2copy' ELSE 0
           /\ loop' = IF data2copy' < new_audio_len THEN "storeRest" ELSE "receive"
  <1>1. /\ audio_buffer_pos \in 0..buf_sz - 1 /\ buf_sz \in Nat \ {0}
        /\ new_audio_len \in 1..buf_sz - 1
    BY Ring DEF IInv, TypeOK, Cells, StoreInv, SomethingToStore, StoreFirst
  <1>2. /\ data2copy' = IF ToEnd > new_audio_len THEN new_audio_len ELSE ToEnd
        /\ ToEnd = buf_sz - audio_buffer_pos
        /\ audio_buffer' = Copied(0, data2copy')
        /\ audio_buffer_pos' = (audio_buffer_pos + data2copy') % buf_sz
        /\ loop' = IF data2copy' < new_audio_len THEN "storeRest" ELSE "receive"
    BY DEF StoreFirst, ToEnd, AfterFirst
  <1>3. data2copy' \in 1..buf_sz - audio_buffer_pos /\ data2copy' <= new_audio_len
    BY <1>1, <1>2
  <1> DEFINE x == audio_buffer_pos + data2copy'
  <1>4. x \in Nat /\ x <= buf_sz /\ buf_sz \in Nat \ {0}
    <2> DEFINE n == data2copy'
    <2>1. n \in 1..buf_sz - audio_buffer_pos
      BY <1>3
    <2>2. audio_buffer_pos + n \in Nat /\ audio_buffer_pos + n <= buf_sz
      <3>. HIDE DEF n
      <3>. QED
        BY ONLY <1>1, <2>1
    <2>. QED
      BY <1>1, <2>2
  <1>5. x % buf_sz = IF x < buf_sz THEN x ELSE 0
    <2>. HIDE DEF x
    <2>. QED
      BY ONLY <1>4, ModOnce
  <1>. QED
    BY <1>1, <1>2, <1>3, <1>5

LEMMA RestFits ==
    ASSUME IInv, StoreInv, StoreRest,
           NEW n, n = new_audio_len - data2copy
    PROVE  /\ n \in 1..buf_sz - audio_buffer_pos /\ n < buf_sz
           /\ data2copy \in Nat
           /\ audio_buffer_pos = 0
           /\ audio_buffer' = Copied(data2copy, n)
           /\ audio_buffer_pos' = n
  <1>1. /\ buf_sz \in Nat \ {0} /\ new_audio_len \in 0..buf_sz - 1
        /\ data2copy \in 0..new_audio_len /\ data2copy < new_audio_len
        /\ audio_buffer_pos = 0
    BY Ring DEF IInv, TypeOK, RestAtStart, StoreInv, SomethingToStore, StoreRest
  <1>2. n \in 1..buf_sz - 1 /\ n \in Int
    BY <1>1
  <1>. QED
    BY <1>1, <1>2 DEF StoreRest

LEMMA InitStoreInv == Init => StoreInv
  BY Ring DEF Init, StoreInv, SomethingToStore, ForeignUntilPlayed, Started

LEMMA StepStoreInv == IInv /\ StoreInv /\ [Next]_vars => StoreInv'
  <1>. SUFFICES ASSUME IInv, StoreInv, [Next]_vars PROVE StoreInv'
    OBVIOUS
  <1>. USE DEF StoreInv
  <1>1. ASSUME NEW len \in CutOff + 1..MaxDatagram, GetAudioData(len)
        PROVE  StoreInv'
    <2>1. new_audio_len' = len - CutOff /\ len - CutOff >= 1 /\ loop' = "store"
      BY <1>1, Ring DEF GetAudioData
    <2>. QED
      BY <1>1, <2>1
         DEF GetAudioData, SomethingToStore, ForeignUntilPlayed, Started
  <1>2. CASE StoreFirst
    <2>1. SomethingToStore'
      BY <1>2, FirstFits DEF StoreFirst, SomethingToStore
    <2>2. data2copy' \in Nat
      BY <1>2, FirstFits, Ring DEF IInv, TypeOK, Cells
    <2>3. buf_sz \in 0..buf_sz
          /\ buf_sz \notin audio_buffer_pos..audio_buffer_pos + data2copy' - 1
      BY <1>2, FirstFits, Ring DEF IInv, TypeOK, Cells
    <2>4. audio_buffer'[buf_sz] = audio_buffer[buf_sz]
      BY <1>2, <2>2, <2>3, FirstFits, CopiedIs
    <2>. QED
      BY <1>2, <2>1, <2>4 DEF StoreFirst, ForeignUntilPlayed, Started
  <1>3. CASE StoreRest
    <2> DEFINE n == new_audio_len - data2copy
    <2>1. /\ n \in 1..buf_sz - audio_buffer_pos /\ n < buf_sz /\ audio_buffer_pos = 0
          /\ data2copy \in Nat /\ audio_buffer' = Copied(data2copy, n)
      BY <1>3, RestFits
    <2>2. buf_sz \in 0..buf_sz /\ n \in Nat
          /\ buf_sz \notin audio_buffer_pos..audio_buffer_pos + n - 1
      <3>. HIDE DEF n
      <3>. QED
        BY <2>1, Ring
    <2>3. audio_buffer'[buf_sz] = audio_buffer[buf_sz]
      <3>. HIDE DEF n
      <3>. QED
        BY <2>1, <2>2, CopiedIs
    <2>. QED
      BY <1>3, <2>3 DEF StoreRest, SomethingToStore, ForeignUntilPlayed, Started
  <1>4. CASE PlaySample
    <2>1. played_audio_pos' # buf_sz
      BY <1>4, Ring DEF IInv, TypeOK, PlaySample
    <2>. QED
      BY <1>4, <2>1
         DEF PlaySample, loopVars, SomethingToStore, ForeignUntilPlayed, Started
  <1>5. CASE FlagChanges
    BY <1>5 DEF FlagChanges, loopVars, SomethingToStore, ForeignUntilPlayed, Started
  <1>6. CASE UNCHANGED vars
    BY <1>6 DEF vars, loopVars, SomethingToStore, ForeignUntilPlayed, Started
  <1>. QED
    BY <1>1, <1>2, <1>3, <1>4, <1>5, <1>6 DEF Next

-----------------------------------------------------------------------------
(* Every step of the ring is a step of the stream, or none. *)

(* The number of the latest sample, where loop() is. *)
Latest ==
    /\ loop = "receive" => LatestStored = received
    /\ loop = "store" => LatestStored = received - (new_audio_len + CutOff)
    /\ loop = "storeRest" =>
         LatestStored = received - (new_audio_len + CutOff) + data2copy

LEMMA LatestIs == IInv => Latest
  <1>. SUFFICES ASSUME IInv PROVE Latest
    OBVIOUS
  <1>1. received \in Int /\ new_audio_len \in Int /\ data2copy \in Int
    BY Ring DEF IInv, TypeOK
  <1>2. CASE loop = "receive"
    BY <1>2 DEF Latest, LatestStored
  <1>3. CASE loop = "store"
    <2>1. LatestStored = bufferloop(0) - 1
      BY <1>3 DEF LatestStored
    <2>. QED
      BY <1>1, <1>3, <2>1, Ring DEF Latest, bufferloop
  <1>4. CASE loop = "storeRest"
    <2>1. LatestStored = bufferloop(data2copy) - 1
      BY <1>4 DEF LatestStored
    <2>. QED
      BY <1>1, <1>4, <2>1, Ring DEF Latest, bufferloop
  <1>. QED
    BY <1>2, <1>3, <1>4 DEF IInv, TypeOK

LEMMA UnplayedStays ==
    UNCHANGED <<audio_buffer, audio_buffer_pos, played_audio_pos, dac>>
      => UNCHANGED <<UnplayedSamples, LastPlayed, Started>>
  BY DEF UnplayedSamples, Unplayed, UnplayedCell, LastPlayed, Started

LEMMA ReceiveStutters ==
    ASSUME IInv, Latest, Latest', NEW len \in CutOff + 1..MaxDatagram,
           GetAudioData(len)
    PROVE  UNCHANGED Stream!vars
  <1>1. /\ received \in Int /\ len \in Int
        /\ loop = "receive" /\ loop' = "store"
        /\ received' = received + len /\ new_audio_len' = len - CutOff
    BY Ring DEF IInv, TypeOK, GetAudioData
  <1>2. LatestStored' = LatestStored
    BY <1>1, Ring DEF Latest
  <1>. QED
    BY <1>2, UnplayedStays DEF GetAudioData, Stream!vars

LEMMA StoreFirstStores ==
    ASSUME IInv, StoreInv, Latest, Latest', WellMapped', StoreFirst
    PROVE  \E k \in 1..buf_sz, dropped \in {0, CutOff} : Stream!Store(k, dropped)
  <1> DEFINE n == data2copy'
             total == LatestStored
             dropped == IF n < new_audio_len THEN 0 ELSE CutOff
  <1>1. /\ n \in 1..buf_sz - audio_buffer_pos /\ n < buf_sz /\ n <= new_audio_len
        /\ audio_buffer' = Copied(0, n)
        /\ audio_buffer_pos' = (IF audio_buffer_pos + n < buf_sz
                                THEN audio_buffer_pos + n ELSE 0)
        /\ loop' = IF n < new_audio_len THEN "storeRest" ELSE "receive"
    BY FirstFits
  <1>2. /\ loop = "store" /\ played_audio_pos' = played_audio_pos
        /\ new_audio_len' = new_audio_len /\ received' = received /\ dac' = dac
    BY DEF StoreFirst
  <1>3. /\ received \in Nat /\ new_audio_len \in Nat /\ audio_buffer_pos \in Nat
        /\ new_audio_len + CutOff <= received
        /\ audio_buffer_pos < buf_sz
    BY <1>2, Ring DEF IInv, TypeOK, Cells, DatagramReceived
  <1>4. total = received - (new_audio_len + CutOff) /\ total \in Nat
    BY <1>2, <1>3, Ring DEF Latest
  <1>5. n \in Nat /\ n \in 1..buf_sz
    BY <1>1, <1>3, Ring
  <1>6. LatestStored' = total + n + dropped
    <2>1. /\ n < new_audio_len =>
               LatestStored' = received - (new_audio_len + CutOff) + n
          /\ ~(n < new_audio_len) => LatestStored' = received
      BY <1>1, <1>2 DEF Latest
    <2>. HIDE DEF n, total
    <2>. QED
      BY <1>1, <1>3, <1>4, <1>5, <2>1, Ring
  <1>7. \A c \in 0..buf_sz :
          audio_buffer'[c] = IF c \in audio_buffer_pos..audio_buffer_pos + n - 1
                             THEN total + 1 + (c - audio_buffer_pos)
                             ELSE audio_buffer[c]
    <2>1. ASSUME NEW c \in 0..buf_sz
          PROVE  bufferloop(0 + c - audio_buffer_pos)
                   = total + 1 + (c - audio_buffer_pos)
      <3>. HIDE DEF total
      <3>. QED
        BY <1>3, <1>4, Ring DEF bufferloop
    <2>2. \A c \in 0..buf_sz :
            audio_buffer'[c] = IF c \in audio_buffer_pos..audio_buffer_pos + n - 1
                               THEN bufferloop(0 + c - audio_buffer_pos)
                               ELSE audio_buffer[c]
      <3>. HIDE DEF n
      <3>. QED
        BY <1>1, <1>5, CopiedIs
    <2>. QED
      BY <2>1, <2>2
  <1> DEFINE all == UnplayedSamples \o [i \in 1..n |-> total + i]
  <1>8. UnplayedSamples' = Stream!Newest(all, Stream!Remaining(Len(all)))
    <2>. HIDE DEF n, total
    <2>. QED
      BY <1>1, <1>2, <1>4, <1>5, <1>7, Stored
  <1>9. UNCHANGED <<LastPlayed, Started>>
    BY <1>2 DEF LastPlayed, Started
  <1>10. Stream!Store(n, dropped)
    BY <1>6, <1>8, <1>9 DEF Stream!Store
  <1>. QED
    BY <1>5, <1>10

LEMMA StoreRestStores ==
    ASSUME IInv, StoreInv, Latest, Latest', WellMapped', StoreRest
    PROVE  \E k \in 1..buf_sz, dropped \in {0, CutOff} : Stream!Store(k, dropped)
  <1> DEFINE n == new_audio_len - data2copy
             total == LatestStored
  <1>1. /\ n \in 1..buf_sz - audio_buffer_pos /\ n < buf_sz
        /\ data2copy \in Nat /\ audio_buffer_pos = 0
        /\ audio_buffer' = Copied(data2copy, n) /\ audio_buffer_pos' = n
    BY RestFits
  <1>2. /\ loop = "storeRest" /\ loop' = "receive"
        /\ played_audio_pos' = played_audio_pos
        /\ new_audio_len' = new_audio_len /\ received' = received /\ dac' = dac
    BY DEF StoreRest
  <1>3. /\ received \in Nat /\ new_audio_len \in Nat
        /\ new_audio_len + CutOff <= received
    BY <1>2, Ring DEF IInv, TypeOK, DatagramReceived
  <1>4. /\ total = received - (new_audio_len + CutOff) + data2copy
        /\ total \in Nat
    BY <1>1, <1>2, <1>3, Ring DEF Latest
  <1>5. n \in Nat /\ n \in 1..buf_sz
    <2>. HIDE DEF n
    <2>. QED
      BY <1>1, Ring
  <1>6. LatestStored' = total + n + CutOff
    <2>1. LatestStored' = received
      BY <1>2 DEF Latest
    <2>. QED
      BY <1>1, <1>3, <1>4, <2>1, Ring
  <1>7. \A c \in 0..buf_sz :
          audio_buffer'[c] = IF c \in audio_buffer_pos..audio_buffer_pos + n - 1
                             THEN total + 1 + (c - audio_buffer_pos)
                             ELSE audio_buffer[c]
    <2>1. ASSUME NEW c \in 0..buf_sz
          PROVE  bufferloop(data2copy + c - audio_buffer_pos)
                   = total + 1 + (c - audio_buffer_pos)
      <3>. HIDE DEF total
      <3>. QED
        BY <1>1, <1>3, <1>4, Ring DEF bufferloop
    <2>2. \A c \in 0..buf_sz :
            audio_buffer'[c] = IF c \in audio_buffer_pos..audio_buffer_pos + n - 1
                               THEN bufferloop(data2copy + c - audio_buffer_pos)
                               ELSE audio_buffer[c]
      <3>. HIDE DEF n
      <3>. QED
        BY <1>1, <1>5, CopiedIs
    <2>. QED
      BY <2>1, <2>2
  <1>8. audio_buffer_pos' = (IF audio_buffer_pos + n < buf_sz
                             THEN audio_buffer_pos + n ELSE 0)
    <2>. HIDE DEF n
    <2>. QED
      BY <1>1, <1>5
  <1> DEFINE all == UnplayedSamples \o [i \in 1..n |-> total + i]
  <1>9. UnplayedSamples' = Stream!Newest(all, Stream!Remaining(Len(all)))
    <2>. HIDE DEF n, total
    <2>. QED
      BY <1>1, <1>2, <1>4, <1>5, <1>7, <1>8, Stored
  <1>10. UNCHANGED <<LastPlayed, Started>>
    BY <1>2 DEF LastPlayed, Started
  <1>11. Stream!Store(n, CutOff)
    BY <1>6, <1>9, <1>10 DEF Stream!Store
  <1>. QED
    BY <1>5, <1>11


(* The interrupt takes the sample that waits longest, or, the first time, the byte
   behind the array in its place. *)
LEMMA Played ==
    ASSUME IInv, WellMapped', PlaySample
    PROVE  /\ Unplayed \in 1..buf_sz
           /\ Unplayed' = Unplayed - 1
           /\ \A k \in 1..Unplayed - 1 : UnplayedSamples'[k] = UnplayedSamples[k + 1]
           /\ Started => dac' = UnplayedSamples[1]
           /\ Started'
  <1> DEFINE u == Unplayed
             v == Unplayed'
             p == played_audio_pos
             q == audio_buffer_pos
             next == IF p + 1 < buf_sz THEN p + 1
                     ELSE IF p + 1 = buf_sz THEN 0
                     ELSE IF buf_sz = 1 THEN 0 ELSE 1
  <1>1. /\ buf_sz \in Nat \ {0} /\ p \in 0..buf_sz /\ q \in 0..buf_sz - 1 /\ p # q
        /\ Started <=> p # buf_sz
        /\ dac' = audio_buffer[p]
        /\ audio_buffer' = [audio_buffer EXCEPT ![p] = Silence]
        /\ audio_buffer_pos' = q
        /\ played_audio_pos' = (p + 1) % buf_sz
    BY Ring DEF IInv, TypeOK, Cells, Started, PlaySample, SomethingToPlay
  <1>2. (p + 1) % buf_sz = next
    <2>. HIDE DEF p
    <2>1. CASE p < buf_sz
      <3>1. p + 1 \in Nat /\ p + 1 <= buf_sz
        BY <1>1, <2>1
      <3> DEFINE x == p + 1
      <3>2. x % buf_sz = IF x < buf_sz THEN x ELSE 0
        <4>1. x \in Nat /\ x <= buf_sz
          BY <3>1
        <4>. HIDE DEF x
        <4>. QED
          BY ONLY <1>1, <4>1, ModOnce
      <3>. QED
        BY <1>1, <3>1, <3>2
    <2>2. CASE p = buf_sz /\ buf_sz > 1
      <3> DEFINE x == p + 1
      <3>1. x \in Nat /\ x < 2 * buf_sz
        BY <1>1, <2>2
      <3>2. x % buf_sz = IF x < buf_sz THEN x ELSE x - buf_sz
        <4>. HIDE DEF x
        <4>. QED
          BY ONLY <1>1, <3>1, ModTwice
      <3>. QED
        BY <1>1, <2>2, <3>2
    <2>3. CASE p = buf_sz /\ buf_sz = 1
      BY <2>3
    <2>. QED
      BY <1>1, <2>1, <2>2, <2>3
  <1>3. next \in 0..buf_sz - 1 /\ played_audio_pos' = next
    BY <1>1, <1>2
  <1>4. Started'
    BY <1>1, <1>3 DEF Started
  <1>5. /\ u = IF ~Started
               THEN IF q = 0 THEN buf_sz ELSE q
               ELSE IF q >= p THEN q - p ELSE q - p + buf_sz
        /\ u \in 0..buf_sz
    BY UnplayedIs DEF IInv, TypeOK
  <1>6. v = IF q >= next THEN q - next ELSE q - next + buf_sz
    <2> DEFINE x == q - next
    <2>1. v = x % buf_sz
      <3>1. v = IF audio_buffer_pos' = 0 /\ played_audio_pos' = buf_sz
                THEN buf_sz
                ELSE (audio_buffer_pos' - played_audio_pos') % buf_sz
        BY DEF Unplayed
      <3>2. next # buf_sz
        <4>. HIDE DEF next
        <4>. QED
          BY <1>1, <1>3
      <3>. HIDE DEF next, v
      <3>. QED
        BY <1>1, <1>3, <3>1, <3>2
    <2>2. x \in Int /\ x < buf_sz /\ -buf_sz <= x
      <3>. HIDE DEF next
      <3>. QED
        BY <1>1, <1>3
    <2>3. x % buf_sz = IF x < 0 THEN x + buf_sz ELSE x
      <3>. HIDE DEF x
      <3>. QED
        BY ONLY <1>1, <2>2, ModOfDifference
    <2>. HIDE DEF v, next
    <2>. QED
      BY <1>1, <1>3, <2>1, <2>2, <2>3
  <1>7. u \in 1..buf_sz /\ v = u - 1
    <2>. HIDE DEF u, v, p, q
    <2>. QED
      BY <1>1, <1>5, <1>6
  <1>8. ASSUME NEW k \in 1..u - 1
        PROVE  UnplayedSamples'[k] = UnplayedSamples[k + 1]
    <2> DEFINE c == UnplayedCell(k + 1)
    <2>1. k \in 1..buf_sz /\ k + 1 \in 1..buf_sz /\ k + 1 \in 1..u /\ k \in 1..v
      <3>. HIDE DEF u, v
      <3>. QED
        BY <1>1, <1>7
    <2>2. c = IF p + k < buf_sz THEN p + k ELSE p + k - buf_sz
      BY <1>1, <2>1, UnplayedCellIs DEF IInv, TypeOK
    <2>3. c \in 0..buf_sz - 1 /\ c # p
      <3>. HIDE DEF u, v, p, c
      <3>. QED
        BY <1>1, <2>1, <2>2
    <2>4. UnplayedCell(k)' = c
      <3>1. UnplayedCell(k)' = (next + k - 1) % buf_sz
        BY <1>3 DEF UnplayedCell
      <3> DEFINE x == next + k - 1
      <3>2. x \in Nat /\ x < 2 * buf_sz
        <4>. HIDE DEF next
        <4>. QED
          BY <1>1, <1>3, <2>1
      <3>3. x % buf_sz = IF x < buf_sz THEN x ELSE x - buf_sz
        <4>. HIDE DEF x
        <4>. QED
          BY ONLY <1>1, <3>2, ModTwice
      <3>4. x = IF p + 1 < buf_sz THEN p + k
                ELSE IF p + 1 = buf_sz THEN k - 1
                ELSE IF buf_sz = 1 THEN k - 1 ELSE k
        BY <1>1, <2>1
      <3>. HIDE DEF p, c, x
      <3>. QED
        BY <1>1, <2>1, <2>2, <3>1, <3>3, <3>4
    <2>5. UnplayedSamples'[k] = audio_buffer'[c]
      <3>1. \A i \in 1..v : UnplayedSamples'[i] = audio_buffer'[UnplayedCell(i)']
        BY DEF WellMapped
      <3>. HIDE DEF v, c
      <3>. QED
        BY <2>1, <2>4, <3>1
    <2>6. audio_buffer'[c] = audio_buffer[c]
      <3>1. DOMAIN audio_buffer = 0..buf_sz /\ c \in 0..buf_sz
        BY <1>1, <2>3 DEF IInv, TypeOK
      <3>. HIDE DEF c, p
      <3>. QED
        BY <1>1, <2>3, <3>1
    <2>7. UnplayedSamples[k + 1] = audio_buffer[c]
      BY <2>1, Mapped DEF WellMapped
    <2>. QED
      BY <2>5, <2>6, <2>7
  <1>9. ASSUME Started PROVE dac' = UnplayedSamples[1]
    <2>1. 1 \in 1..buf_sz /\ 1 \in 1..u
      <3>. HIDE DEF u
      <3>. QED
        BY <1>1, <1>7
    <2>2. UnplayedCell(1) = p
      BY <1>1, <1>9, <2>1, UnplayedCellIs DEF IInv, TypeOK
    <2>. QED
      BY <1>1, <2>1, <2>2, Mapped DEF WellMapped
  <1>. QED
    BY <1>4, <1>7, <1>8, <1>9

LEMMA PlaySampleTakes ==
    ASSUME IInv, StoreInv, Latest, Latest', WellMapped', PlaySample
    PROVE  (\E k \in 0..Len(UnplayedSamples) : Stream!Take(k)) \/ Stream!FalseStart
  <1> DEFINE s == UnplayedSamples
             t == UnplayedSamples'
             u == Unplayed
  <1>1. /\ u \in Nat /\ u >= 1
        /\ s \in Seq(Samples) /\ Len(s) = u /\ s \in [1..u -> Samples]
    <2>1. u \in 1..buf_sz /\ buf_sz \in Nat
      BY Played, Ring
    <2>2. s \in Seq(Samples) /\ Len(s) = u /\ s \in [1..u -> Samples]
      BY Mapped DEF WellMapped
    <2>. HIDE DEF s, u
    <2>. QED
      BY <2>1, <2>2
  <1>2. t \in Seq(Samples) /\ Len(t) = u - 1 /\ t \in [1..u - 1 -> Samples]
    <2>1. Unplayed' = u - 1
      BY Played
    <2>. HIDE DEF u
    <2>. QED
      BY <2>1 DEF WellMapped
  <1>3. \A k \in 1..u - 1 : t[k] = s[k + 1]
    BY Played
  <1>4. /\ SubSeq(s, 2, u) \in Seq(Samples)
        /\ Len(SubSeq(s, 2, u)) = u - 1
        /\ \A k \in 1..u - 1 : SubSeq(s, 2, u)[k] = s[k + 1]
    <2>. HIDE DEF s, u
    <2>1. \A i \in 2..u : s[i] \in Samples
      BY <1>1
    <2>2. 2 \in Int /\ u \in Int
      BY <1>1
    <2>3. /\ SubSeq(s, 2, u) \in Seq(Samples)
          /\ Len(SubSeq(s, 2, u)) = IF 2 <= u THEN u - 2 + 1 ELSE 0
          /\ \A i \in 1..u - 2 + 1 : SubSeq(s, 2, u)[i] = s[2 + i - 1]
      BY ONLY <2>1, <2>2, SubSeqProperties
    <2>. QED
      BY <1>1, <2>3
  <1>5. t = SubSeq(s, 2, u)
    <2> DEFINE w == SubSeq(s, 2, u)
    <2>1. w \in Seq(Samples) /\ Len(w) = Len(t)
      BY <1>2, <1>4
    <2>2. \A k \in 1..Len(t) : t[k] = w[k]
      BY <1>2, <1>3, <1>4
    <2>3. t \in Seq(Samples)
      BY <1>2
    <2>. HIDE DEF s, t, u, w
    <2>4. t = w
      BY ONLY <2>1, <2>2, <2>3, SeqEqual
    <2>. QED
      BY <2>4 DEF w
  <1>6. LatestStored' = LatestStored
    BY DEF PlaySample, loopVars, LatestStored, bufferloop
  <1>7. LastPlayed' = <<dac'>> /\ Started'
    BY Played DEF LastPlayed
  <1>8. CASE Started
    <2>1. SubSeq(s, 1, 1) = <<s[1]>>
      <3> DEFINE w == SubSeq(s, 1, 1)
      <3>1. s[1] \in Samples /\ 1 \in Int
        BY <1>1
      <3>. HIDE DEF s, u
      <3>2. \A i \in 1..1 : s[i] \in Samples
        BY <3>1
      <3>3. /\ w \in Seq(Samples)
            /\ Len(w) = IF 1 <= 1 THEN 1 - 1 + 1 ELSE 0
            /\ \A i \in 1..1 - 1 + 1 : w[i] = s[1 + i - 1]
        BY ONLY <3>1, <3>2, SubSeqProperties
      <3>4. Len(w) = 1 /\ w[1] = s[1]
        BY <3>3
      <3>. HIDE DEF w
      <3>5. w \in [1..1 -> Samples]
        BY ONLY <3>3, <3>4, LenProperties
      <3>6. w = <<s[1]>>
        BY ONLY <3>1, <3>4, <3>5
      <3>. QED
        BY <3>6 DEF w
    <2>2. dac' = s[1]
      BY <1>8, Played
    <2>3. LastPlayed' = SubSeq(s, 1, 1)
      BY <1>7, <2>1, <2>2
    <2>4. t = SubSeq(s, 1 + 1, Len(s))
      BY <1>1, <1>5
    <2>5. 1 \in 0..Len(s)
      BY <1>1
    <2>6. Stream!Take(1)
      BY <1>6, <1>7, <1>8, <2>3, <2>4 DEF Stream!Take
    <2>. QED
      BY <2>5, <2>6
  <1>9. CASE ~Started
    <2>1. dac' = Foreign
      BY <1>9 DEF PlaySample, Started, StoreInv, ForeignUntilPlayed
    <2>2. LatestStored \in Nat
      <3>1. /\ received \in Nat /\ new_audio_len \in Nat /\ data2copy \in Nat
            /\ loop # "receive" => new_audio_len + CutOff <= received
            /\ loop \in {"receive", "store", "storeRest"}
        BY Ring DEF IInv, TypeOK, DatagramReceived
      <3>. QED
        BY <3>1, Ring DEF Latest
    <2>3. Foreign \notin 1..LatestStored
      BY <2>2 DEF Foreign
    <2>4. Len(LastPlayed') = 1 /\ LastPlayed'[1] = dac'
      BY <1>7
    <2>5. t = Tail(s)
      <3>1. s \in Seq(Samples) /\ s # <<>>
        BY <1>1
      <3>2. t \in Seq(Samples) /\ Len(t) = u - 1 /\ Len(s) = u
            /\ \A k \in 1..u - 1 : t[k] = s[k + 1]
        BY <1>1, <1>2, <1>3
      <3> DEFINE w == Tail(s)
      <3>. HIDE DEF s, t, u
      <3>3. w \in Seq(Samples) /\ Len(w) = Len(t)
            /\ \A k \in 1..Len(t) : t[k] = w[k]
        BY <3>1, <3>2, HeadTailProperties
      <3>. HIDE DEF w
      <3>4. t = w
        BY ONLY <3>2, <3>3, SeqEqual
      <3>. QED
        BY <3>4 DEF w
    <2>6. Stream!FalseStart
      BY <1>6, <1>7, <1>9, <2>1, <2>3, <2>4, <2>5 DEF Stream!FalseStart
    <2>. QED
      BY <2>6
  <1>. QED
    BY <1>8, <1>9

LEMMA InitImplements == Init => Stream!Init
  <1>. SUFFICES ASSUME Init PROVE Stream!Init
    OBVIOUS
  <1>1. ~Started /\ LastPlayed = <<>> /\ LatestStored = 0 /\ Unplayed = buf_sz
    BY DEF Init, Started, LastPlayed, LatestStored, Unplayed
  <1>2. ASSUME NEW k \in 1..buf_sz
        PROVE  audio_buffer[UnplayedCell(k)] = Silence
    <2>1. played_audio_pos \in 0..buf_sz
      BY Ring DEF Init
    <2>2. UnplayedCell(k) \in Cells
      BY <2>1, UnplayedCellIs
    <2>3. UnplayedCell(k) \in 0..buf_sz /\ UnplayedCell(k) # buf_sz
      BY <2>2, Ring DEF Cells
    <2>. QED
      BY <2>3 DEF Init
  <1>3. UnplayedSamples = [k \in 1..buf_sz |-> Silence]
    BY <1>1, <1>2 DEF UnplayedSamples
  <1>4. Started \in BOOLEAN
    BY DEF Started
  <1>. QED
    BY <1>1, <1>3, <1>4, Zenon DEF Stream!Init

LEMMA StepImplements ==
    ASSUME IInv, StoreInv, Latest, Latest', WellMapped', [Next]_vars
    PROVE  [Stream!Next]_(Stream!vars)
  <1>1. CASE FlagChanges
    <2>1. LatestStored' = LatestStored
      BY <1>1 DEF FlagChanges, loopVars, LatestStored, bufferloop
    <2>. QED
      BY <1>1, <2>1, UnplayedStays DEF FlagChanges, Stream!vars
  <1>2. CASE UNCHANGED vars
    <2>1. LatestStored' = LatestStored
      BY <1>2 DEF vars, loopVars, LatestStored, bufferloop
    <2>. QED
      BY <1>2, <2>1, UnplayedStays DEF vars, Stream!vars
  <1>. QED
    BY <1>1, <1>2, ReceiveStutters, StoreFirstStores, StoreRestStores,
       PlaySampleTakes DEF Next, Stream!Next

(* The ring of main.ino:72-73 is a stream that loses nothing but a lap of the oldest
   samples when loop() gets a lap ahead (the stores of 377-389 have no test for
   room), the two bytes cut off each datagram, and the sample in whose place the
   first interrupt plays the byte behind the array (107-113). *)
THEOREM DownlinkImplementsStream == Spec => ImplementsLappingStream
  <1>1. Init => Stream!Init
    BY InitImplements
  <1>2. IInv /\ StoreInv /\ Latest /\ Latest' /\ WellMapped' /\ [Next]_vars
          => [Stream!Next]_(Stream!vars)
    BY StepImplements
  <1>. QED
    BY <1>1, <1>2, InitInvariant, StepInvariant, InitStoreInv, StepStoreInv,
       LatestIs, Mapped, PTL
       DEF Spec, ImplementsLappingStream, Stream!Spec
=============================================================================
