------------------------ MODULE FirmwareUplink_proofs ------------------------
(***************************************************************************)
(* Theorems about FirmwareUplink, for every ring, packet size and          *)
(* threshold that satisfies UplinkAssumption and any number of samples.    *)
(***************************************************************************)
EXTENDS FirmwareUplink, SequenceTheorems, TLAPS

(* How far the interrupt's cursor is ahead of loop()'s on the ring. *)
Ahead ==
    IF audio2send_sent <= audio2send_pos_w
    THEN audio2send_pos_w - audio2send_sent
    ELSE audio2send_pos_w - audio2send_sent + audio2send_buffer_sz

(* The cursors tell what is unsent, but for whole laps. *)
CursorsTell == \E laps \in Nat : Unsent = Ahead + audio2send_buffer_sz * laps

(* What loop() is about to send has been recorded, and it takes the branch that
   fits. *)
PacketPending ==
    /\ loop # "read" => audio2send <= Unsent
    /\ loop = "sendTail" => audio2send_sent + audio2send >= audio2send_buffer_sz
    /\ loop = "send" => audio2send_sent + audio2send < audio2send_buffer_sz

(* The inductive invariant. *)
IInv == TypeOK /\ CursorsTell /\ PacketPending

(* One round of loop() together with what is left for it does not come to
   max_audio2send samples. *)
ShortRounds == Threshold + RoundTicks < max_audio2send

(* While rounds are short: all but the threshold has come up since the cursor was
   read, or is in the packet. *)
KeepingUp ==
    /\ loop = "read" => Unsent <= Threshold + sinceRead
    /\ loop # "read" => /\ Unsent = audio2send + sinceRead
                        /\ audio2send <= Threshold + RoundTicks

-----------------------------------------------------------------------------
(* Arithmetic. *)

LEMMA ModOnce ==
    ASSUME NEW m \in Nat \ {0}, NEW x \in Nat, x < 2 * m
    PROVE  x % m = IF x < m THEN x ELSE x - m
  OBVIOUS

LEMMA ModOfMultiple ==
    ASSUME NEW m \in Nat \ {0}, NEW k \in Nat
    PROVE  (m * k) % m = 0
  OBVIOUS

LEMMA ModAtMost ==
    ASSUME NEW m \in Nat \ {0}, NEW x \in Nat
    PROVE  x % m \in 0..m - 1 /\ x % m <= x
  OBVIOUS

LEMMA TimesMonotone ==
    ASSUME NEW b \in Nat, NEW j \in Nat, NEW k \in Nat, j <= k
    PROVE  b * j <= b * k
  OBVIOUS

LEMMA TimesSuccessor ==
    ASSUME NEW b \in Nat, NEW k \in Int
    PROVE  b * (k + 1) = b * k + b /\ b * (k - 1) = b * k - b
  OBVIOUS

(* What the assumption says of the two sizes. *)
LEMMA Sizes ==
    /\ max_audio2send \in Nat \ {0}
    /\ audio2send_buffer_sz \in Nat \ {0}
    /\ 2 * max_audio2send <= audio2send_buffer_sz
    /\ audio2send_buffer_sz % max_audio2send = 0
    /\ Threshold \in Nat /\ Threshold < max_audio2send
    /\ RoundTicks \in Nat
  <1>1. PICK k \in 2..audio2send_buffer_sz :
              audio2send_buffer_sz = max_audio2send * k
    BY UplinkAssumption DEF UplinkAssumption
  <1>2. max_audio2send * 2 <= max_audio2send * k
    BY <1>1, UplinkAssumption, TimesMonotone DEF UplinkAssumption
  <1>3. (max_audio2send * k) % max_audio2send = 0
    <2>1. max_audio2send \in Nat \ {0} /\ k \in Nat
      BY <1>1, UplinkAssumption DEF UplinkAssumption
    <2>. QED
      BY ONLY <2>1, ModOfMultiple
  <1>. QED
    BY <1>1, <1>2, <1>3, UplinkAssumption DEF UplinkAssumption

(* A cursor wraps at most once. *)
LEMMA AfterOnce ==
    ASSUME NEW cell \in Cells, NEW n \in Nat, n <= audio2send_buffer_sz
    PROVE  After(cell, n) = IF cell + n < audio2send_buffer_sz
                            THEN cell + n
                            ELSE cell + n - audio2send_buffer_sz
  <1> DEFINE x == cell + n
  <1>1. x \in Nat /\ x < 2 * audio2send_buffer_sz
    BY Sizes DEF Cells
  <1>2. x % audio2send_buffer_sz =
          IF x < audio2send_buffer_sz THEN x ELSE x - audio2send_buffer_sz
    <2>. HIDE DEF x
    <2>1. audio2send_buffer_sz \in Nat \ {0}
      BY Sizes
    <2>. QED
      BY ONLY <1>1, <2>1, ModOnce
  <1>. QED
    BY <1>2, Sizes DEF After, Cells

(* loop() never takes more than has been recorded. *)
LEMMA ToSendIsThere ==
    ASSUME IInv
    PROVE  /\ ToSend \in 0..max_audio2send - 1
           /\ ToSend <= Unsent
           /\ Unsent < max_audio2send => ToSend = Unsent
  <1>1. PICK laps \in Nat : Unsent = Ahead + audio2send_buffer_sz * laps
    BY DEF IInv, CursorsTell
  <1>2. audio2send_buffer_sz * laps \in Nat
    BY Sizes
  <1>3. /\ audio2send_sent \in Cells /\ audio2send_pos_w \in Cells
        /\ Ahead \in 0..audio2send_buffer_sz - 1
        /\ Backlog \in Nat
        /\ Unsent \in Int
    BY Sizes DEF IInv, TypeOK, Cells, Ahead, Backlog, Unsent
  <1>4. Ahead <= Unsent
    BY <1>1, <1>2, <1>3
  <1>5. Backlog = IF Ahead = 0 THEN audio2send_buffer_sz ELSE Ahead
    BY <1>3, Sizes DEF Backlog, Ahead, Cells
  <1>6. ToSend \in 0..max_audio2send - 1
    BY <1>3, Sizes, ModAtMost DEF ToSend
  <1>7. CASE Ahead = 0
    <2>1. ToSend = 0
      BY <1>5, <1>7, Sizes DEF ToSend
    <2>2. Unsent < max_audio2send => Unsent = 0
      <3>1. laps # 0 => audio2send_buffer_sz * 1 <= audio2send_buffer_sz * laps
        BY Sizes, TimesMonotone
      <3>2. laps = 0 => audio2send_buffer_sz * laps = 0
        BY Sizes
      <3>. QED
        BY <1>1, <1>2, <1>7, <3>1, <3>2, Sizes
    <2>. QED
      BY <1>3, <1>4, <1>6, <1>7, <2>1, <2>2
  <1>8. CASE Ahead # 0
    <2>1. ToSend = Ahead % max_audio2send
      BY <1>5, <1>8 DEF ToSend
    <2>2. ToSend <= Ahead
      BY <2>1, <1>3, Sizes, ModAtMost
    <2>3. ASSUME Unsent < max_audio2send PROVE ToSend = Unsent
      <3>1. laps # 0 => audio2send_buffer_sz * 1 <= audio2send_buffer_sz * laps
        BY Sizes, TimesMonotone
      <3>2. laps = 0 => audio2send_buffer_sz * laps = 0
        BY Sizes
      <3>3. Unsent = Ahead
        BY <1>1, <1>2, <1>3, <2>3, <3>1, <3>2, Sizes
      <3>. QED
        BY <1>3, <2>1, <2>3, <3>3, Sizes, ModOnce
    <2>. QED
      BY <1>3, <1>4, <1>6, <2>2, <2>3
  <1>. QED
    BY <1>7, <1>8

LEMMA DivInNat ==
    ASSUME NEW m \in Nat \ {0}, NEW x \in Nat
    PROVE  x \div m \in Nat
  OBVIOUS

-----------------------------------------------------------------------------
(* The invariant holds initially, and in a first round nothing is late. *)
LEMMA InitInvariant == Init => IInv /\ KeepingUp
  <1>. SUFFICES ASSUME Init PROVE IInv /\ KeepingUp
    OBVIOUS
  <1>1. TypeOK
    BY Sizes DEF Init, TypeOK, Cells
  <1>2. CursorsTell
    <2>1. Unsent = 0 /\ Ahead = 0
      BY DEF Init, Unsent, Ahead
    <2>2. audio2send_buffer_sz * 0 = 0
      BY Sizes
    <2>3. Unsent = Ahead + audio2send_buffer_sz * 0
      BY <2>1, <2>2
    <2>. QED
      BY <2>3 DEF CursorsTell
  <1>3. PacketPending /\ KeepingUp
    BY Sizes DEF Init, PacketPending, KeepingUp, Unsent
  <1>. QED
    BY <1>1, <1>2, <1>3 DEF IInv

(* The invariant says that something has been recorded for all that was sent. *)
LEMMA UnsentInNat ==
    ASSUME IInv
    PROVE  /\ Unsent \in Nat
           /\ Ahead \in 0..audio2send_buffer_sz - 1
           /\ Ahead <= Unsent
  <1>1. PICK laps \in Nat : Unsent = Ahead + audio2send_buffer_sz * laps
    BY DEF IInv, CursorsTell
  <1>2. audio2send_buffer_sz * laps \in Nat
    BY Sizes
  <1>3. Ahead \in 0..audio2send_buffer_sz - 1
    BY Sizes DEF IInv, TypeOK, Cells, Ahead
  <1>. QED
    BY <1>1, <1>2, <1>3

(* The interrupt adds a sample; if it thereby catches up with loop()'s cursor the
   ring is a lap behind. *)
LEMMA TakeSampleStep ==
    ASSUME IInv, TakeSample
    PROVE  IInv'
  <1>1. PICK laps \in Nat : Unsent = Ahead + audio2send_buffer_sz * laps
    BY DEF IInv, CursorsTell
  <1>n. Unsent \in Nat /\ Ahead \in Nat /\ audio2send_buffer_sz * laps \in Nat
    BY UnsentInNat, Sizes
  <1>2. audio2send_pos_w' =
          IF audio2send_pos_w + 1 < audio2send_buffer_sz
          THEN audio2send_pos_w + 1
          ELSE audio2send_pos_w + 1 - audio2send_buffer_sz
    BY AfterOnce, Sizes DEF IInv, TypeOK, TakeSample
  <1>3. TypeOK'
    BY <1>2, Sizes DEF IInv, TypeOK, TakeSample, Cells, flags, loopVars
  <1>4. CursorsTell'
    <2>1. /\ Unsent' = Unsent + 1
          /\ audio2send_sent' = audio2send_sent
      BY DEF IInv, TypeOK, TakeSample, Unsent, loopVars
    <2>2. audio2send_buffer_sz * (laps + 1) =
            audio2send_buffer_sz * laps + audio2send_buffer_sz
      BY Sizes, TimesSuccessor
    <2>3. CASE Ahead + 1 = audio2send_buffer_sz
      <3>1. Ahead' = 0
        BY <1>2, <2>1, <2>3, Sizes DEF IInv, TypeOK, Cells, Ahead
      <3>2. Unsent' = Ahead' + audio2send_buffer_sz * (laps + 1)
        BY ONLY <1>1, <1>n, <2>1, <2>2, <2>3, <3>1, Sizes
      <3>. QED
        BY <3>2 DEF CursorsTell
    <2>4. CASE Ahead + 1 # audio2send_buffer_sz
      <3>1. Ahead' = Ahead + 1
        BY <1>2, <2>1, <2>4, Sizes DEF IInv, TypeOK, Cells, Ahead
      <3>2. Unsent' = Ahead' + audio2send_buffer_sz * laps
        BY ONLY <1>1, <1>n, <2>1, <3>1, Sizes
      <3>. QED
        BY <3>2, Sizes DEF CursorsTell, TakeSample
    <2>. QED
      BY <2>3, <2>4
  <1>5. PacketPending'
    BY DEF IInv, TypeOK, PacketPending, TakeSample, Unsent, loopVars
  <1>. QED
    BY <1>3, <1>4, <1>5 DEF IInv

(* Reading the cursor: no more is taken up than has been recorded. *)
LEMMA ReadCursorStep ==
    ASSUME IInv, ReadCursor
    PROVE  IInv'
  <1>1. /\ ToSend \in 0..max_audio2send - 1
        /\ ToSend <= Unsent
    BY ToSendIsThere
  <1>2. standing' \in Nat
    BY UnsentInNat, Sizes, DivInNat DEF ReadCursor, Unsent
  <1>3. TypeOK'
    BY <1>1, <1>2, Sizes DEF IInv, TypeOK, ReadCursor, flags, isrVars
  <1>4. CursorsTell'
    BY DEF IInv, CursorsTell, ReadCursor, Unsent, Ahead, isrVars
  <1>5. PacketPending'
    <2>1. /\ audio2send' = ToSend
          /\ audio2send_sent' = audio2send_sent
          /\ Unsent' = Unsent
      BY DEF ReadCursor, Unsent, isrVars
    <2>2. /\ loop' = "sendTail" => ReachesEnd(ToSend)
          /\ loop' = "send" => ~ReachesEnd(ToSend)
      BY <1>1, Sizes DEF ReadCursor
    <2>3. audio2send_sent \in Nat /\ audio2send_sent + ToSend \in Nat
      BY <1>1 DEF IInv, TypeOK, Cells
    <2>. QED
      BY <1>1, <2>1, <2>2, <2>3, Sizes DEF PacketPending, ReachesEnd
  <1>. QED
    BY <1>3, <1>4, <1>5 DEF IInv

(* What send_data is called with lies in the ring. *)
LEMMA PacketFits ==
    ASSUME IInv
    PROVE  PacketsInBounds
  BY Sizes DEF IInv, TypeOK, Cells, PacketPending, PacketsInBounds, PacketSize

LEMMA CopySampleStep ==
    ASSUME IInv, CopySample
    PROVE  IInv'
  <1>1. audio2send_sent + Len(packet) \in Cells
    <2>1. audio2send_sent + PacketSize <= audio2send_buffer_sz
      BY PacketFits DEF CopySample, PacketsInBounds
    <2>2. PacketSize \in Nat /\ audio2send_sent \in Nat /\ Len(packet) \in Nat
      BY Sizes DEF IInv, TypeOK, Cells, PacketSize
    <2>. QED
      BY <2>1, <2>2, Sizes DEF CopySample, Cells
  <1>2. packet' \in Seq(Nat)
    BY <1>1 DEF IInv, TypeOK, CopySample
  <1>3. TypeOK'
    BY <1>2 DEF IInv, TypeOK, CopySample, flags, isrVars
  <1>4. CursorsTell'
    BY DEF IInv, CursorsTell, CopySample, Unsent, Ahead, isrVars
  <1>5. PacketPending'
    BY DEF IInv, PacketPending, CopySample, Unsent, isrVars
  <1>. QED
    BY <1>3, <1>4, <1>5 DEF IInv

(* The cells before the end of the ring have gone. *)
LEMMA SendTailStep ==
    ASSUME IInv, SendTail
    PROVE  IInv'
  <1>1. PICK laps \in Nat : Unsent = Ahead + audio2send_buffer_sz * laps
    BY DEF IInv, CursorsTell
  <1> DEFINE size == audio2send_buffer_sz - audio2send_sent
  <1>2. /\ size \in 1..audio2send_buffer_sz
        /\ size <= audio2send /\ audio2send <= Unsent
        /\ PacketSize = size
        /\ audio2send' = audio2send - size
        /\ audio2send_sent' = 0 /\ loop' = "send"
        /\ audio2send_pos_w' = audio2send_pos_w
        /\ dispatched' = dispatched + size
        /\ recorded' = recorded
    BY Sizes DEF IInv, TypeOK, Cells, PacketPending, SendTail, SendPacket,
                 PacketSize, isrVars
  <1>3. TypeOK'
    BY <1>2, Sizes DEF IInv, TypeOK, Cells, SendTail, SendPacket, flags, isrVars
  <1>4. /\ Unsent' = Unsent - size
        /\ Ahead' = audio2send_pos_w
    BY <1>2, Sizes DEF IInv, TypeOK, Cells, Unsent, Ahead
  <1>5. CursorsTell'
    <2>1. CASE audio2send_sent > audio2send_pos_w
      <3>1. Unsent' = Ahead' + audio2send_buffer_sz * laps
        BY <1>1, <1>4, <2>1, Sizes DEF IInv, TypeOK, Cells, Ahead
      <3>. QED
        BY <3>1, <1>2 DEF CursorsTell
    <2>2. CASE audio2send_sent <= audio2send_pos_w
      <3>1. laps # 0
        <4>1. laps = 0 => audio2send_buffer_sz * laps = 0
          BY Sizes
        <4>. QED
          BY <1>1, <1>2, <2>2, <4>1, Sizes DEF IInv, TypeOK, Cells, Ahead
      <3>2. audio2send_buffer_sz * (laps - 1) =
              audio2send_buffer_sz * laps - audio2send_buffer_sz
        BY Sizes, TimesSuccessor
      <3>3. laps - 1 \in Nat
        BY <3>1
      <3>4. Unsent' = Ahead' + audio2send_buffer_sz * (laps - 1)
        BY <1>1, <1>4, <2>2, <3>2, Sizes DEF IInv, TypeOK, Cells, Ahead
      <3>. QED
        BY <3>3, <3>4 DEF CursorsTell
    <2>. QED
      BY <2>1, <2>2, Sizes DEF IInv, TypeOK, Cells
  <1>6. PacketPending'
    <2>1. Unsent \in Nat /\ audio2send \in Nat /\ audio2send < max_audio2send
      BY UnsentInNat, Sizes DEF IInv, TypeOK
    <2>2. audio2send' <= Unsent' /\ 0 + audio2send' < audio2send_buffer_sz
      BY <1>2, <1>4, <2>1, Sizes
    <2>. QED
      BY <1>2, <2>2 DEF PacketPending
  <1>. QED
    BY <1>3, <1>5, <1>6 DEF IInv

(* The last datagram of a round. *)
LEMMA SendRestStep ==
    ASSUME IInv, SendRest
    PROVE  IInv'
  <1>1. PICK laps \in Nat : Unsent = Ahead + audio2send_buffer_sz * laps
    BY DEF IInv, CursorsTell
  <1>n. /\ Unsent \in Nat /\ Ahead \in Nat /\ audio2send_buffer_sz * laps \in Nat
        /\ audio2send \in Nat
    BY UnsentInNat, Sizes DEF IInv, TypeOK
  <1>2. /\ audio2send_sent + audio2send < audio2send_buffer_sz
        /\ audio2send <= Unsent
        /\ PacketSize = audio2send
        /\ audio2send' = audio2send
        /\ loop' = "read"
        /\ audio2send_pos_w' = audio2send_pos_w
        /\ dispatched' = dispatched + audio2send
        /\ recorded' = recorded
    BY DEF IInv, PacketPending, SendRest, SendPacket, PacketSize, isrVars
  <1>3. audio2send_sent' = audio2send_sent + audio2send
    BY <1>2, AfterOnce, Sizes DEF IInv, TypeOK, Cells, SendRest
  <1>4. TypeOK'
    BY <1>2, <1>3, Sizes DEF IInv, TypeOK, Cells, SendRest, SendPacket, flags,
                             isrVars
  <1>5. Unsent' = Unsent - audio2send
    BY <1>2 DEF IInv, TypeOK, Unsent
  <1>6. CursorsTell'
    <2>1. CASE audio2send <= Ahead
      <3>1. Ahead' = Ahead - audio2send
        BY <1>2, <1>3, <2>1, Sizes DEF IInv, TypeOK, Cells, Ahead
      <3>2. Unsent' = Ahead' + audio2send_buffer_sz * laps
        BY ONLY <1>1, <1>n, <1>5, <3>1, Sizes
      <3>. QED
        BY <3>2 DEF CursorsTell
    <2>2. CASE audio2send > Ahead
      <3>1. Ahead' = Ahead - audio2send + audio2send_buffer_sz
        BY <1>2, <1>3, <2>2, Sizes DEF IInv, TypeOK, Cells, Ahead
      <3>2. laps # 0
        <4>1. laps = 0 => audio2send_buffer_sz * laps = 0
          BY Sizes
        <4>. QED
          BY <1>1, <1>2, <2>2, <4>1, Sizes DEF IInv, TypeOK, Cells, Ahead
      <3>3. audio2send_buffer_sz * (laps - 1) =
              audio2send_buffer_sz * laps - audio2send_buffer_sz
        BY Sizes, TimesSuccessor
      <3>4. laps - 1 \in Nat
        BY <3>2
      <3>5. Unsent' = Ahead' + audio2send_buffer_sz * (laps - 1)
        BY ONLY <1>1, <1>n, <1>5, <3>1, <3>3, Sizes
      <3>. QED
        BY <3>4, <3>5 DEF CursorsTell
    <2>. QED
      BY <2>1, <2>2, Sizes DEF IInv, TypeOK, Cells, Ahead
  <1>7. PacketPending'
    BY <1>2 DEF PacketPending
  <1>. QED
    BY <1>4, <1>6, <1>7 DEF IInv

LEMMA FlagsChangeStep ==
    ASSUME IInv, FlagsChange \/ UNCHANGED vars
    PROVE  IInv'
  BY DEF IInv, TypeOK, CursorsTell, PacketPending, Unsent, Ahead, FlagsChange,
         vars, flags, isrVars, loopVars

(* Every step preserves the invariant. *)
LEMMA StepInvariant == IInv /\ [Next]_vars => IInv'
  BY TakeSampleStep, ReadCursorStep, CopySampleStep, SendTailStep,
     SendRestStep, FlagsChangeStep DEF Next, Loop

-----------------------------------------------------------------------------
(* While rounds are short. *)

(* Nothing but a sample or a reading of the cursor disturbs KeepingUp, and a
   reading finds less than max_audio2send samples, so that it takes them all. *)
LEMMA KeepingUpStep ==
    ASSUME ShortRounds, IInv, KeepingUp, [Next]_vars
    PROVE  KeepingUp'
  <1>1. /\ Unsent \in Nat /\ audio2send \in Nat /\ sinceRead \in Nat
        /\ sinceRead <= RoundTicks
        /\ recorded \in Nat /\ dispatched \in Nat
    BY UnsentInNat, Sizes DEF IInv, TypeOK
  <1>2. CASE TakeSample
    <2>1. /\ Unsent' = Unsent + 1 /\ sinceRead' = sinceRead + 1
          /\ audio2send' = audio2send /\ loop' = loop
      BY <1>1, <1>2 DEF TakeSample, Unsent, loopVars
    <2>. QED
      BY <1>1, <2>1, Sizes DEF KeepingUp
  <1>3. CASE ReadCursor
    <2>1. Unsent <= Threshold + RoundTicks /\ Unsent < max_audio2send
      BY <1>1, <1>3, Sizes DEF ShortRounds, KeepingUp, ReadCursor
    <2>2. ToSend = Unsent
      BY <1>1, <2>1, ToSendIsThere
    <2>3. /\ audio2send' = Unsent /\ sinceRead' = 0 /\ Unsent' = Unsent
          /\ loop' = "read" => Unsent <= Threshold
      BY <1>1, <1>3, <2>2, Sizes DEF ReadCursor, Unsent, isrVars
    <2>. QED
      BY <1>1, <2>1, <2>3, Sizes DEF KeepingUp
  <1>4. CASE CopySample
    BY <1>4 DEF KeepingUp, CopySample, Unsent, isrVars
  <1>5. CASE SendTail
    <2>1. PacketSize \in Nat
      BY <1>5, Sizes DEF IInv, TypeOK, Cells, PacketSize, SendTail
    <2>2. /\ Unsent' = Unsent - PacketSize
          /\ audio2send' = audio2send - PacketSize
          /\ sinceRead' = sinceRead /\ loop = "sendTail" /\ loop' = "send"
      BY <1>1, <1>5, <2>1 DEF SendTail, SendPacket, Unsent, isrVars
    <2>. QED
      BY <1>1, <2>1, <2>2, Sizes DEF KeepingUp
  <1>6. CASE SendRest
    <2>1. PacketSize = audio2send
      BY <1>6 DEF PacketSize, SendRest
    <2>2. /\ Unsent' = Unsent - audio2send
          /\ sinceRead' = sinceRead /\ loop = "send" /\ loop' = "read"
      BY <1>1, <1>6, <2>1 DEF SendRest, SendPacket, Unsent, isrVars
    <2>. QED
      BY <1>1, <2>2, Sizes DEF KeepingUp
  <1>7. CASE FlagsChange \/ UNCHANGED vars
    BY <1>7 DEF KeepingUp, FlagsChange, Unsent, vars, isrVars, loopVars
  <1>. QED
    BY <1>2, <1>3, <1>4, <1>5, <1>6, <1>7 DEF Next, Loop

(* What KeepingUp says of the cursors: the ring is never full, so that they tell
   what is unsent. *)
LEMMA CursorsMeet ==
    ASSUME ShortRounds, IInv, KeepingUp
    PROVE  /\ KeepsUp
           /\ Unsent < audio2send_buffer_sz
           /\ Ahead = Unsent
  <1>1. /\ Unsent \in Nat /\ audio2send \in Nat /\ sinceRead \in Nat
        /\ sinceRead <= RoundTicks
    BY UnsentInNat, Sizes DEF IInv, TypeOK, Cells
  <1>2. KeepsUp
    BY <1>1, Sizes DEF KeepsUp, KeepingUp
  <1>3. Unsent < audio2send_buffer_sz
    BY <1>1, <1>2, Sizes DEF KeepsUp, ShortRounds
  <1>4. Ahead = Unsent
    <2>1. PICK laps \in Nat : Unsent = Ahead + audio2send_buffer_sz * laps
      BY DEF IInv, CursorsTell
    <2>2. laps # 0 => audio2send_buffer_sz * 1 <= audio2send_buffer_sz * laps
      BY Sizes, TimesMonotone
    <2>3. laps = 0 => audio2send_buffer_sz * laps = 0
      BY Sizes
    <2>4. Ahead \in Nat
      BY UnsentInNat
    <2>. QED
      BY <1>1, <1>3, <2>1, <2>2, <2>3, <2>4, Sizes
  <1>. QED
    BY <1>2, <1>3, <1>4

(* The interrupt's cursor is in no cell of the packet, copied already or not. *)
LEMMA WriterOutsidePacket ==
    ASSUME ShortRounds, IInv, KeepingUp, loop # "read"
    PROVE  /\ PacketSize \in Nat /\ PacketSize <= Unsent
           /\ audio2send_sent + PacketSize <= audio2send_buffer_sz
           /\ audio2send_pos_w \notin
                audio2send_sent .. audio2send_sent + PacketSize - 1
  <1>1. /\ Unsent \in Nat /\ audio2send \in Nat
        /\ audio2send_sent \in Nat /\ audio2send_pos_w \in Nat
    BY UnsentInNat, Sizes DEF IInv, TypeOK, Cells
  <1>2. PacketSize \in Nat /\ PacketSize <= Unsent
    BY <1>1, Sizes DEF IInv, TypeOK, Cells, PacketPending, PacketSize
  <1>3. \/ audio2send_pos_w < audio2send_sent
        \/ audio2send_pos_w = audio2send_sent + Unsent
    BY <1>1, CursorsMeet, Sizes DEF Ahead
  <1>. QED
    BY <1>1, <1>2, <1>3, PacketFits DEF PacketsInBounds

LEMMA KeepingUpSuffices ==
    ASSUME ShortRounds, IInv, KeepingUp
    PROVE  KeepsUp /\ CopyUndisturbed
  <1>1. CopyUndisturbed
    <2>1. SUFFICES ASSUME loop # "read"
                   PROVE  audio2send_pos_w \notin
                            audio2send_sent + Len(packet)
                            .. audio2send_sent + PacketSize - 1
      BY DEF CopyUndisturbed
    <2>2. Len(packet) \in Nat /\ audio2send_sent \in Nat
          /\ audio2send_pos_w \in Nat
      BY Sizes DEF IInv, TypeOK, Cells
    <2>. QED
      BY <2>1, <2>2, WriterOutsidePacket
  <1>. QED
    BY <1>1, CursorsMeet

-----------------------------------------------------------------------------
(* When rounds are long. *)

LEMMA ModUnique ==
    ASSUME NEW m \in Nat \ {0}, NEW x \in Nat, NEW r \in 0..m - 1, NEW k \in Nat,
           x = m * k + r
    PROVE  x % m = r /\ x \div m = k
  OBVIOUS

LEMMA DivMod ==
    ASSUME NEW m \in Nat \ {0}, NEW x \in Nat
    PROVE  /\ x = m * (x \div m) + (x % m)
           /\ x \div m \in Nat /\ x % m \in 0..m - 1
  OBVIOUS

LEMMA TimesAssociative ==
    ASSUME NEW a \in Nat, NEW b \in Nat, NEW c \in Nat, NEW d \in Nat
    PROVE  (a * b) * c + a * d = a * (b * c + d)
  OBVIOUS

(* Whole laps are whole packets: what loop() sends is what is unsent, modulo
   max_audio2send, however many laps it is behind. *)
LEMMA ToSendIsRemainder ==
    ASSUME IInv
    PROVE  ToSend = Unsent % max_audio2send
  <1>1. PICK laps \in Nat : Unsent = Ahead + audio2send_buffer_sz * laps
    BY DEF IInv, CursorsTell
  <1>2. PICK packets \in 2..audio2send_buffer_sz :
              audio2send_buffer_sz = max_audio2send * packets
    BY UplinkAssumption DEF UplinkAssumption
  <1>3. /\ max_audio2send \in Nat \ {0} /\ packets \in Nat
        /\ Unsent \in Nat /\ Ahead \in Nat
    BY <1>2, Sizes, UnsentInNat
  <1> DEFINE q == Ahead \div max_audio2send
             r == Ahead % max_audio2send
  <1>4. Ahead = max_audio2send * q + r /\ q \in Nat /\ r \in 0..max_audio2send - 1
    BY ONLY <1>3, DivMod
  <1>5. Unsent = max_audio2send * (packets * laps + q) + r
    <2>1. (max_audio2send * packets) * laps + max_audio2send * q =
            max_audio2send * (packets * laps + q)
      BY ONLY <1>3, <1>4, TimesAssociative
    <2>2. /\ (max_audio2send * packets) * laps \in Nat
          /\ max_audio2send * q \in Nat
          /\ max_audio2send * (packets * laps + q) \in Nat
      <3>1. max_audio2send * packets \in Nat /\ packets * laps + q \in Nat
        BY ONLY <1>3, <1>4
      <3>. QED
        BY ONLY <1>3, <1>4, <3>1
    <2>3. Unsent = max_audio2send * q + r + (max_audio2send * packets) * laps
      BY ONLY <1>1, <1>2, <1>4
    <2>. QED
      BY ONLY <1>4, <2>1, <2>2, <2>3
  <1>6. Unsent % max_audio2send = r
    <2> DEFINE k == packets * laps + q
    <2>1. k \in Nat
      BY ONLY <1>3, <1>4
    <2>2. Unsent = max_audio2send * k + r
      BY <1>5
    <2>3. r \in 0..max_audio2send - 1
      BY <1>4
    <2>. HIDE DEF k, r
    <2>. QED
      BY ONLY <1>3, <2>1, <2>2, <2>3, ModUnique
  <1>7. ToSend = r
    <2>1. /\ audio2send_sent \in Cells /\ audio2send_pos_w \in Cells
      BY DEF IInv, TypeOK
    <2>2. Backlog = IF Ahead = 0 THEN audio2send_buffer_sz ELSE Ahead
      BY <2>1, Sizes DEF Backlog, Ahead, Cells
    <2>3. CASE Ahead # 0
      BY <2>2, <2>3 DEF ToSend
    <2>4. CASE Ahead = 0
      <3>1. r = 0
        BY <2>4, Sizes
      <3>. QED
        BY <2>2, <2>4, <3>1, Sizes DEF ToSend
    <2>. QED
      BY <2>3, <2>4
  <1>. QED
    BY <1>6, <1>7

(* What remains when the packet in hand is sent is at least what loop() has
   fallen behind by. *)
StandingRemains ==
    IF loop = "read" THEN Unsent >= max_audio2send * standing
                     ELSE Unsent - audio2send >= max_audio2send * standing

LEMMA DivAtLeast ==
    ASSUME NEW m \in Nat \ {0}, NEW x \in Nat, NEW k \in Nat, x >= m * k
    PROVE  x \div m >= k
  OBVIOUS

LEMMA StandingInit == Init => StandingRemains
  BY Sizes DEF Init, StandingRemains, Unsent

(* Only a reading of the cursor looks at standing, and it finds no less. *)
LEMMA StandingStep ==
    ASSUME IInv, StandingRemains, [Next]_vars
    PROVE  StandingRemains' /\ standing' >= standing
  <1>1. /\ Unsent \in Nat /\ audio2send \in Nat /\ standing \in Nat
        /\ recorded \in Nat /\ dispatched \in Nat
        /\ max_audio2send * standing \in Nat
    BY UnsentInNat, Sizes DEF IInv, TypeOK
  <1>2. CASE TakeSample
    <2>1. /\ Unsent' = Unsent + 1
          /\ audio2send' = audio2send /\ loop' = loop /\ standing' = standing
      BY <1>1, <1>2 DEF TakeSample, Unsent, loopVars
    <2>2. max_audio2send * standing' = max_audio2send * standing
      BY <2>1
    <2>. QED
      BY <1>1, <2>1, <2>2 DEF StandingRemains
  <1>3. CASE ReadCursor
    <2>1. /\ loop = "read" /\ audio2send' = ToSend /\ Unsent' = Unsent
          /\ standing' = Unsent \div max_audio2send
      BY <1>3 DEF ReadCursor, Unsent, isrVars
    <2> DEFINE d == Unsent \div max_audio2send
    <2>2. Unsent = max_audio2send * d + ToSend /\ d \in Nat /\ ToSend \in Nat
      <3>1. max_audio2send \in Nat \ {0}
        BY Sizes
      <3>2. /\ Unsent = max_audio2send * d + (Unsent % max_audio2send)
            /\ d \in Nat
            /\ Unsent % max_audio2send \in 0..max_audio2send - 1
        BY ONLY <1>1, <3>1, DivMod
      <3>. QED
        BY ONLY <3>1, <3>2, ToSendIsRemainder, IInv
    <2>3. max_audio2send * d \in Nat
      <3>. HIDE DEF d
      <3>. QED
        BY ONLY <2>2, Sizes
    <2>4. StandingRemains'
      <3>1. standing' = d
        BY <2>1
      <3>. HIDE DEF d
      <3>2. max_audio2send * standing' = max_audio2send * d
        BY <3>1
      <3>. QED
        BY <1>1, <2>1, <2>2, <2>3, <3>2 DEF StandingRemains
    <2>5. standing' >= standing
      BY <1>1, <2>1, Sizes, DivAtLeast DEF StandingRemains
    <2>. QED
      BY <2>4, <2>5
  <1>4. CASE CopySample \/ FlagsChange \/ UNCHANGED vars
    <2>1. /\ Unsent' = Unsent
          /\ audio2send' = audio2send /\ loop' = loop /\ standing' = standing
      BY <1>4 DEF CopySample, FlagsChange, Unsent, vars, isrVars, loopVars
    <2>2. max_audio2send * standing' = max_audio2send * standing
      BY <2>1
    <2>. QED
      BY <1>1, <2>1, <2>2 DEF StandingRemains
  <1>5. CASE SendTail
    <2>1. PacketSize \in Nat
      BY <1>5, Sizes DEF IInv, TypeOK, Cells, PacketSize, SendTail
    <2>2. /\ Unsent' = Unsent - PacketSize
          /\ audio2send' = audio2send - PacketSize
          /\ standing' = standing /\ loop = "sendTail" /\ loop' = "send"
      BY <1>1, <1>5, <2>1 DEF SendTail, SendPacket, Unsent, isrVars
    <2>3. max_audio2send * standing' = max_audio2send * standing
      BY <2>2
    <2>. QED
      BY <1>1, <2>1, <2>2, <2>3 DEF StandingRemains
  <1>6. CASE SendRest
    <2>1. PacketSize = audio2send
      BY <1>6 DEF PacketSize, SendRest
    <2>2. /\ Unsent' = Unsent - audio2send
          /\ standing' = standing /\ loop = "send" /\ loop' = "read"
      BY <1>1, <1>6, <2>1 DEF SendRest, SendPacket, Unsent, isrVars
    <2>3. max_audio2send * standing' = max_audio2send * standing
      BY <2>2
    <2>. QED
      BY <1>1, <2>2, <2>3 DEF StandingRemains
  <1>. QED
    BY <1>2, <1>3, <1>4, <1>5, <1>6 DEF Next, Loop

-----------------------------------------------------------------------------
(* The invariant holds in every reachable state. *)
THEOREM Invariant == Spec => []IInv
  <1>1. Init => IInv
    BY InitInvariant
  <1>. QED
    BY <1>1, StepInvariant, PTL DEF Spec

(* The cursors of the interrupt and of loop() stay inside the ring, and no more
   is ever sent than was recorded (main.ino:120-128, 347-366). *)
THEOREM TypeCorrect == Spec => []TypeOK
  <1>1. IInv => TypeOK
    BY DEF IInv
  <1>. QED
    BY <1>1, Invariant, PTL

(* send_data never reads beyond the ring, however late loop() is
   (main.ino:355-363). *)
THEOREM PacketBounds == Spec => []PacketsInBounds
  BY PacketFits, Invariant, PTL

(* While rounds are short, loop() keeps up and the interrupt does not touch what
   is being copied (main.ino:350-366 against 124). *)
THEOREM ShortRoundsSuffice ==
    ASSUME ShortRounds
    PROVE  Spec => [](KeepsUp /\ CopyUndisturbed)
  <1>1. Init => IInv /\ KeepingUp
    BY InitInvariant
  <1>2. (IInv /\ KeepingUp) /\ [Next]_vars => (IInv /\ KeepingUp)'
    BY StepInvariant, KeepingUpStep
  <1>3. IInv /\ KeepingUp => KeepsUp /\ CopyUndisturbed
    BY KeepingUpSuffices
  <1>. QED
    BY <1>1, <1>2, <1>3, PTL DEF Spec

(* Whatever the rounds are like, what loop() has fallen behind by stays: it sends
   the remainder only (main.ino:350). *)
THEOREM DelayStays == Spec => DelayNeverShrinks
  <1>1. Init => IInv /\ StandingRemains
    BY InitInvariant, StandingInit
  <1>2. (IInv /\ StandingRemains) /\ [Next]_vars => (IInv /\ StandingRemains)'
    BY StepInvariant, StandingStep
  <1>3. (IInv /\ StandingRemains) /\ [Next]_vars => [standing' >= standing]_vars
    BY StandingStep
  <1>. QED
    BY <1>1, <1>2, <1>3, PTL DEF Spec, DelayNeverShrinks

-----------------------------------------------------------------------------
(* While rounds are short, the ring implements the stream. *)

(* What send_data has copied is what the ring holds: nothing of it is overwritten
   before the packet is complete, nor after. *)
PacketCopied ==
    /\ loop = "read" => packet = <<>>
    /\ loop # "read" => Len(packet) <= PacketSize
    /\ \A i \in 1..Len(packet) :
         packet[i] = audio2send_buffer[audio2send_sent + i - 1]

LEMMA InitPacketCopied == Init => PacketCopied
  BY DEF Init, PacketCopied

LEMMA PacketSizeIsNat == IInv => PacketSize \in Nat
  BY Sizes DEF IInv, TypeOK, Cells, PacketSize

LEMMA PacketCopiedStep ==
    ASSUME ShortRounds, IInv, KeepingUp, PacketCopied, PacketSize' \in Nat,
           [Next]_vars
    PROVE  PacketCopied'
  <1>1. /\ packet \in Seq(Nat) /\ Len(packet) \in Nat
        /\ audio2send_sent \in Nat
        /\ audio2send_buffer \in [Cells -> Nat]
        /\ audio2send_pos_w \in Cells
    BY Sizes DEF IInv, TypeOK, Cells
  <1>2. CASE TakeSample
    <2>1. /\ packet' = packet /\ loop' = loop /\ audio2send_sent' = audio2send_sent
          /\ PacketSize' = PacketSize
          /\ audio2send_buffer' =
               [audio2send_buffer EXCEPT ![audio2send_pos_w] = recorded + 1]
      BY <1>2 DEF TakeSample, loopVars, PacketSize
    <2>2. ASSUME NEW i \in 1..Len(packet)
          PROVE  packet[i] = audio2send_buffer'[audio2send_sent + i - 1]
      <3>1. loop # "read"
        BY <2>2 DEF PacketCopied
      <3>2. /\ PacketSize \in Nat /\ Len(packet) <= PacketSize
            /\ audio2send_sent + PacketSize <= audio2send_buffer_sz
            /\ audio2send_pos_w \notin
                 audio2send_sent .. audio2send_sent + PacketSize - 1
        BY <3>1, WriterOutsidePacket DEF PacketCopied
      <3>3. /\ audio2send_sent + i - 1 # audio2send_pos_w
            /\ audio2send_sent + i - 1 \in Cells
        BY <1>1, <2>2, <3>2, Sizes DEF Cells
      <3>. QED
        BY <1>1, <2>1, <2>2, <3>3 DEF PacketCopied
    <2>. QED
      BY <2>1, <2>2 DEF PacketCopied
  <1>3. CASE ReadCursor
    <2>1. packet' = <<>> /\ Len(packet') = 0
      BY <1>3 DEF ReadCursor, PacketCopied
    <2>. QED
      BY <2>1 DEF PacketCopied
  <1>4. CASE CopySample
    <2>1. /\ loop # "read" /\ loop' = loop
          /\ Len(packet) < PacketSize /\ PacketSize' = PacketSize
          /\ audio2send_buffer' = audio2send_buffer
          /\ audio2send_sent' = audio2send_sent
          /\ packet' = Append(packet, audio2send_buffer[audio2send_sent + Len(packet)])
      BY <1>4 DEF CopySample, PacketSize, isrVars
    <2>2. /\ Len(packet') = Len(packet) + 1
          /\ \A i \in 1..Len(packet) : packet'[i] = packet[i]
          /\ packet'[Len(packet) + 1]
               = audio2send_buffer[audio2send_sent + Len(packet)]
      BY <1>1, <2>1
    <2>3. ASSUME NEW i \in 1..Len(packet')
          PROVE  packet'[i] = audio2send_buffer[audio2send_sent + i - 1]
      <3>1. i \in 1..Len(packet) \/ i = Len(packet) + 1
        BY <1>1, <2>2
      <3>2. CASE i \in 1..Len(packet)
        BY <2>2, <3>2 DEF PacketCopied
      <3>3. CASE i = Len(packet) + 1
        <4>1. audio2send_sent + i - 1 = audio2send_sent + Len(packet)
          BY <1>1, <3>3
        <4>. QED
          BY <2>2, <3>3, <4>1
      <3>. QED
        BY <3>1, <3>2, <3>3
    <2>4. Len(packet') <= PacketSize'
      BY <1>1, <2>1, <2>2
    <2>. QED
      BY <2>1, <2>3, <2>4 DEF PacketCopied
  <1>5. CASE SendTail \/ SendRest
    <2>1. packet' = <<>> /\ Len(packet') = 0
      BY <1>5 DEF SendTail, SendRest, SendPacket
    <2>. QED
      BY <2>1 DEF PacketCopied
  <1>6. CASE FlagsChange \/ UNCHANGED vars
    <2>1. /\ packet' = packet /\ loop' = loop /\ audio2send_sent' = audio2send_sent
          /\ PacketSize' = PacketSize /\ audio2send_buffer' = audio2send_buffer
      BY <1>6 DEF FlagsChange, vars, isrVars, loopVars, PacketSize
    <2>. QED
      BY <2>1 DEF PacketCopied
  <1>. QED
    BY <1>2, <1>3, <1>4, <1>5, <1>6 DEF Next, Loop

(* The sequence of what is unsent. *)
WellMapped ==
    /\ Unsent \in Nat
    /\ UnsentSamples \in Seq(Nat)
    /\ Len(UnsentSamples) = Unsent
    /\ \A k \in 1..Unsent :
         UnsentSamples[k] = audio2send_buffer[After(audio2send_sent, k - 1)]

LEMMA FunctionIsSeq ==
    ASSUME NEW S, NEW n \in Nat, NEW f \in [1..n -> S]
    PROVE  f \in Seq(S) /\ Len(f) = n
  OBVIOUS

LEMMA AfterIsCell ==
    ASSUME NEW cell \in Nat, NEW n \in Nat
    PROVE  After(cell, n) \in Cells
  <1> DEFINE x == cell + n
  <1>1. x \in Nat /\ audio2send_buffer_sz \in Nat \ {0}
    BY Sizes
  <1>2. x % audio2send_buffer_sz \in 0..audio2send_buffer_sz - 1
    <2>. HIDE DEF x
    <2>. QED
      BY ONLY <1>1, ModAtMost
  <1>. QED
    BY <1>2 DEF After, Cells

LEMMA Mapped == IInv => WellMapped
  <1>. SUFFICES ASSUME IInv PROVE WellMapped
    OBVIOUS
  <1>1. Unsent \in Nat
    BY UnsentInNat
  <1>2. ASSUME NEW k \in 1..Unsent
        PROVE  audio2send_buffer[After(audio2send_sent, k - 1)] \in Nat
    <2>1. audio2send_sent \in Nat /\ k - 1 \in Nat
      BY <1>1, Sizes DEF IInv, TypeOK, Cells
    <2>2. After(audio2send_sent, k - 1) \in Cells
      BY <2>1, AfterIsCell
    <2>. QED
      BY <2>2 DEF IInv, TypeOK
  <1>3. /\ UnsentSamples \in [1..Unsent -> Nat]
        /\ \A k \in 1..Unsent :
             UnsentSamples[k] = audio2send_buffer[After(audio2send_sent, k - 1)]
    BY <1>2 DEF UnsentSamples
  <1>. QED
    BY <1>1, <1>3, FunctionIsSeq DEF WellMapped

LEMMA WholeSubSeq ==
    ASSUME NEW S, NEW s \in Seq(S)
    PROVE  SubSeq(s, 1, Len(s)) = s
  <1> DEFINE n == Len(s)
             w == SubSeq(s, 1, n)
  <1>1. n \in Nat /\ 1 \in Int /\ n \in Int /\ \A i \in 1..n : s[i] \in S
    OBVIOUS
  <1>. HIDE DEF n
  <1>2. /\ w \in Seq(S)
        /\ Len(w) = IF 1 <= n THEN n - 1 + 1 ELSE 0
        /\ \A i \in 1..n - 1 + 1 : w[i] = s[1 + i - 1]
    BY ONLY <1>1, SubSeqProperties
  <1>3. Len(w) = n /\ \A i \in 1..n : w[i] = s[i]
    BY ONLY <1>1, <1>2
  <1>. HIDE DEF w
  <1>4. w = s
    BY ONLY <1>2, <1>3, s \in Seq(S), SeqEqual DEF n
  <1>. QED
    BY <1>4 DEF w, n


(* An interrupt adds one sample behind those that are unsent. *)
LEMMA TakeSampleStores ==
    ASSUME ShortRounds, IInv, KeepingUp, WellMapped, WellMapped', TakeSample
    PROVE  Stream!Store(1, 0)
  <1> DEFINE u == Unsent
             s == UnsentSamples
             t == UnsentSamples'
             g == [i \in 1..1 |-> recorded + i]
             all == s \o g
  <1>1. /\ u \in Nat /\ recorded \in Nat /\ dispatched \in Nat
        /\ audio2send \in Nat /\ sinceRead \in Nat /\ sinceRead < RoundTicks
        /\ audio2send_sent \in Cells /\ audio2send_pos_w \in Cells
    BY UnsentInNat, Sizes DEF IInv, TypeOK, TakeSample
  <1>2. /\ audio2send_buffer' =
             [audio2send_buffer EXCEPT ![audio2send_pos_w] = recorded + 1]
        /\ recorded' = recorded + 1 /\ dispatched' = dispatched
        /\ audio2send_sent' = audio2send_sent /\ datagram' = datagram
    BY DEF TakeSample, loopVars
  <1>3. Unsent' = u + 1
    BY <1>1, <1>2 DEF Unsent
  <1>4. u + 1 < audio2send_buffer_sz
    <2>. HIDE DEF u
    <2>1. u < Threshold + 2 * RoundTicks
      BY <1>1, Sizes DEF KeepingUp, u
    <2>. QED
      BY <1>1, <2>1, Sizes DEF ShortRounds
  <1>5. audio2send_pos_w = After(audio2send_sent, u)
    <2>1. audio2send_pos_w = IF audio2send_sent + u < audio2send_buffer_sz
                             THEN audio2send_sent + u
                             ELSE audio2send_sent + u - audio2send_buffer_sz
      BY <1>1, CursorsMeet, Sizes DEF Ahead, Cells
    <2>2. u \in Nat /\ u <= audio2send_buffer_sz
      BY <1>1, <1>4, Sizes
    <2>. HIDE DEF u
    <2>. QED
      BY <1>1, <2>1, <2>2, AfterOnce
  <1>cells. \A k \in 1..u + 1 :
          t[k] = audio2send_buffer'[After(audio2send_sent, k - 1)]
    <2>1. \A k \in 1..Unsent' :
            t[k] = audio2send_buffer'[After(audio2send_sent, k - 1)']
      BY DEF WellMapped
    <2>2. \A k \in Int : After(audio2send_sent, k - 1)' = After(audio2send_sent, k - 1)
      BY <1>2 DEF After
    <2>. HIDE DEF t, u
    <2>. QED
      BY <1>1, <1>3, <2>1, <2>2
  <1>6. ASSUME NEW k \in 1..u PROVE t[k] = s[k]
    <2> DEFINE c == After(audio2send_sent, k - 1)
    <2>1. k - 1 \in Nat /\ k - 1 < u
      BY <1>1
    <2>2. /\ c = IF audio2send_sent + (k - 1) < audio2send_buffer_sz
                 THEN audio2send_sent + (k - 1)
                 ELSE audio2send_sent + (k - 1) - audio2send_buffer_sz
          /\ audio2send_pos_w = IF audio2send_sent + u < audio2send_buffer_sz
                                THEN audio2send_sent + u
                                ELSE audio2send_sent + u - audio2send_buffer_sz
      <3>1. k - 1 <= audio2send_buffer_sz /\ u <= audio2send_buffer_sz
        <4>. HIDE DEF u
        <4>. QED
          BY <1>1, <1>4, <2>1, Sizes
      <3>. HIDE DEF u
      <3>. QED
        BY <1>1, <1>5, <2>1, <3>1, AfterOnce
    <2>3. c \in Cells /\ c # audio2send_pos_w
      <3>1. audio2send_sent \in 0..audio2send_buffer_sz - 1
        BY <1>1 DEF Cells
      <3>. HIDE DEF c, u
      <3>. QED
        BY <1>1, <1>4, <2>1, <2>2, <3>1, Sizes DEF Cells
    <2>4. t[k] = audio2send_buffer'[c]
      <3>1. k \in 1..u + 1
        BY <1>1
      <3>. HIDE DEF t, u
      <3>. QED
        BY <1>cells, <3>1
    <2>5. s[k] = audio2send_buffer[c]
      BY DEF WellMapped
    <2>. QED
      <3>. HIDE DEF c, s, t
      <3>. QED
        BY <1>2, <2>3, <2>4, <2>5 DEF IInv, TypeOK
  <1>7. t[u + 1] = recorded + 1
    <2>1. u + 1 \in 1..u + 1 /\ (u + 1) - 1 = u
      BY <1>1
    <2>2. t[u + 1] = audio2send_buffer'[After(audio2send_sent, u)]
      <3>. HIDE DEF t, u
      <3>. QED
        BY <1>cells, <2>1
    <2>. HIDE DEF t, u
    <2>. QED
      BY <1>1, <1>2, <1>5, <2>2 DEF IInv, TypeOK
  <1>8. /\ all \in Seq(Nat) /\ Len(all) = u + 1
        /\ \A i \in 1..u + 1 : all[i] = IF i <= u THEN s[i] ELSE recorded + 1
    <2>1. s \in Seq(Nat) /\ Len(s) = u
      BY DEF WellMapped
    <2>2. g \in Seq(Nat) /\ Len(g) = 1
      <3>1. g \in [1..1 -> Nat] /\ 1 \in Nat
        BY <1>1
      <3>. HIDE DEF g
      <3>. QED
        BY ONLY <3>1, FunctionIsSeq
    <2>3. g[1] = recorded + 1
      OBVIOUS
    <2>. HIDE DEF s, g, u
    <2>4. /\ s \o g \in Seq(Nat) /\ Len(s \o g) = Len(s) + Len(g)
          /\ \A i \in 1..Len(s) + Len(g) :
               (s \o g)[i] = IF i <= Len(s) THEN s[i] ELSE g[i - Len(s)]
      BY ONLY <2>1, <2>2, ConcatProperties
    <2>5. \A i \in 1..u + 1 : i <= u \/ i - u = 1
      BY <1>1
    <2>. QED
      BY <1>1, <2>1, <2>2, <2>3, <2>4, <2>5
  <1>9. t = all
    <2>1. t \in Seq(Nat) /\ Len(t) = u + 1
      BY <1>3 DEF WellMapped
    <2>2. \A i \in 1..u + 1 : i \in 1..u \/ i = u + 1
      BY <1>1
    <2>3. ASSUME NEW i \in 1..Len(t) PROVE t[i] = all[i]
      <3>1. i \in 1..u + 1
        BY <2>1
      <3>2. CASE i \in 1..u
        <4>1. t[i] = s[i]
          BY <1>6, <3>2
        <4>2. i <= u
          BY <3>2
        <4>. HIDE DEF all, s, t, u
        <4>. QED
          BY <1>8, <3>1, <4>1, <4>2
      <3>3. CASE i = u + 1
        <4>1. ~(i <= u)
          BY <1>1, <3>3
        <4>. HIDE DEF all, s, t, u
        <4>. QED
          BY <1>7, <1>8, <3>1, <3>3, <4>1
      <3>. QED
        BY <2>2, <3>1, <3>2, <3>3
    <2>. HIDE DEF all, s, t, u
    <2>. QED
      BY ONLY <1>8, <2>1, <2>3, SeqEqual
  <1>10. Stream!Remaining(Len(all)) = Len(all)
    <2>1. (u + 1) % audio2send_buffer_sz = u + 1
      <3> DEFINE x == u + 1
      <3>1. x \in Nat /\ x < audio2send_buffer_sz /\ audio2send_buffer_sz \in Nat \ {0}
        BY <1>1, <1>4, Sizes
      <3>2. x < 2 * audio2send_buffer_sz
        BY <3>1
      <3>3. x % audio2send_buffer_sz = x
        <4>. HIDE DEF x
        <4>. QED
          BY ONLY <3>1, <3>2, ModOnce
      <3>. QED
        BY <3>3
    <2>. HIDE DEF all, u
    <2>. QED
      BY <1>8, <2>1 DEF Stream!Remaining
  <1>11. Stream!Newest(all, Stream!Remaining(Len(all))) = all
    <2>1. Len(all) - Len(all) + 1 = 1
      <3>. HIDE DEF all
      <3>. QED
        BY <1>1, <1>8
    <2>2. SubSeq(all, 1, Len(all)) = all
      <3>. HIDE DEF all
      <3>. QED
        BY ONLY <1>8, WholeSubSeq
    <2>3. Stream!Newest(all, Stream!Remaining(Len(all)))
            = SubSeq(all, Len(all) - Stream!Remaining(Len(all)) + 1, Len(all))
      BY DEF Stream!Newest
    <2>. HIDE DEF all
    <2>. QED
      BY <1>10, <2>1, <2>2, <2>3
  <1>12. recorded' = recorded + 1 + 0
    BY <1>1, <1>2
  <1>. QED
    <2>1. t = Stream!Newest(s \o [i \in 1..1 |-> recorded + i],
                            Stream!Remaining(Len(s \o [i \in 1..1 |-> recorded + i])))
      BY <1>9, <1>11
    <2>. QED
      BY <1>2, <1>12, <2>1 DEF Stream!Store

(* A datagram takes the samples that have waited longest. *)
LEMMA PacketTakes ==
    ASSUME ShortRounds, IInv, KeepingUp, PacketCopied, WellMapped, WellMapped',
           loop # "read", SendPacket,
           audio2send_sent' = After(audio2send_sent, PacketSize)
    PROVE  Stream!Take(PacketSize) /\ PacketSize \in 0..Len(UnsentSamples)
  <1> DEFINE u == Unsent
             n == PacketSize
             s == UnsentSamples
             t == UnsentSamples'
  <1>1. /\ u \in Nat /\ n \in Nat /\ n <= u
        /\ audio2send_sent \in Cells /\ audio2send_sent \in Nat
        /\ audio2send_sent + n <= audio2send_buffer_sz
        /\ u < audio2send_buffer_sz
        /\ recorded \in Nat /\ dispatched \in Nat
        /\ audio2send_buffer_sz \in Nat
    BY UnsentInNat, WriterOutsidePacket, CursorsMeet, Sizes DEF IInv, TypeOK, Cells
  <1>2. /\ Len(packet) = n /\ datagram' = packet
        /\ dispatched' = dispatched + n /\ recorded' = recorded
        /\ audio2send_buffer' = audio2send_buffer
    BY DEF SendPacket, isrVars
  <1>3. Unsent' = u - n
    BY <1>1, <1>2 DEF Unsent
  <1>4. s \in Seq(Nat) /\ Len(s) = u
        /\ \A k \in 1..u : s[k] = audio2send_buffer[After(audio2send_sent, k - 1)]
    BY DEF WellMapped
  <1>5. t \in Seq(Nat) /\ Len(t) = u - n
        /\ \A k \in 1..u - n :
             t[k] = audio2send_buffer[After(audio2send_sent', k - 1)]
    <2>1. /\ t \in Seq(Nat) /\ Len(t) = Unsent'
          /\ \A k \in 1..Unsent' :
               t[k] = audio2send_buffer'[After(audio2send_sent, k - 1)']
      BY DEF WellMapped
    <2>2. \A k \in Int :
            After(audio2send_sent, k - 1)' = After(audio2send_sent', k - 1)
      BY DEF After
    <2>. HIDE DEF u, n, t
    <2>. QED
      BY <1>1, <1>2, <1>3, <2>1, <2>2
  <1>6. \A i \in 1..u : s[i] \in Nat
    <2>. HIDE DEF s, u
    <2>. QED
      BY <1>4, ElementOfSeq
  (* The datagram. *)
  <1>7. packet = SubSeq(s, 1, n)
    <2> DEFINE w == SubSeq(s, 1, n)
    <2>1. w \in Seq(Nat) /\ Len(w) = n /\ \A i \in 1..n : w[i] = s[i]
      <3>1. 1 \in Int /\ n \in Int /\ \A i \in 1..n : s[i] \in Nat
        <4>. HIDE DEF s, u, n
        <4>. QED
          BY <1>1, <1>6
      <3>. HIDE DEF s, u, n
      <3>2. /\ w \in Seq(Nat)
            /\ Len(w) = IF 1 <= n THEN n - 1 + 1 ELSE 0
            /\ \A i \in 1..n - 1 + 1 : w[i] = s[1 + i - 1]
        BY ONLY <3>1, SubSeqProperties
      <3>3. n - 1 + 1 = n /\ \A i \in 1..n : 1 + i - 1 = i
        BY <1>1
      <3>. HIDE DEF w
      <3>. QED
        BY <1>1, <3>2, <3>3
    <2>2. ASSUME NEW i \in 1..n PROVE packet[i] = s[i]
      <3>1. packet[i] = audio2send_buffer[audio2send_sent + i - 1]
        BY <1>2 DEF PacketCopied
      <3>2. After(audio2send_sent, i - 1) = audio2send_sent + i - 1
        <4>1. i - 1 \in Nat /\ i - 1 <= audio2send_buffer_sz
              /\ audio2send_sent + (i - 1) < audio2send_buffer_sz
          <5>. HIDE DEF n
          <5>. QED
            BY <1>1
        <4>. QED
          BY <1>1, <4>1, AfterOnce
      <3>3. i \in 1..u
        <4>. HIDE DEF n, u
        <4>. QED
          BY <1>1
      <3>. HIDE DEF s, u, n
      <3>. QED
        BY <1>4, <3>1, <3>2, <3>3
    <2>3. packet \in Seq(Nat)
      BY DEF IInv, TypeOK
    <2>4. Len(packet) = Len(w) /\ \A i \in 1..Len(packet) : packet[i] = w[i]
      <3>. HIDE DEF s, n, w
      <3>. QED
        BY <1>2, <2>1, <2>2
    <2>. HIDE DEF w, s, n
    <2>5. packet = w
      BY ONLY <2>1, <2>3, <2>4, SeqEqual
    <2>. QED
      BY <2>5 DEF w
  (* What is left. *)
  <1>8. t = SubSeq(s, n + 1, Len(s))
    <2> DEFINE w == SubSeq(s, n + 1, u)
    <2>1. /\ w \in Seq(Nat) /\ Len(w) = u - n
          /\ \A i \in 1..u - n : w[i] = s[n + i]
      <3>1. n + 1 \in Int /\ u \in Int /\ \A i \in n + 1..u : s[i] \in Nat
        <4>. HIDE DEF s, u, n
        <4>. QED
          BY <1>1, <1>6
      <3>. HIDE DEF s, u, n
      <3>2. /\ w \in Seq(Nat)
            /\ Len(w) = IF n + 1 <= u THEN u - (n + 1) + 1 ELSE 0
            /\ \A i \in 1..u - (n + 1) + 1 : w[i] = s[n + 1 + i - 1]
        BY ONLY <3>1, SubSeqProperties
      <3>3. /\ u - (n + 1) + 1 = u - n /\ \A i \in 1..u - n : n + 1 + i - 1 = n + i
            /\ n + 1 <= u \/ u - n = 0
        BY <1>1
      <3>. HIDE DEF w
      <3>. QED
        BY <1>1, <3>2, <3>3
    <2>2. ASSUME NEW i \in 1..u - n PROVE t[i] = s[n + i]
      <3>1. t[i] = audio2send_buffer[After(audio2send_sent', i - 1)]
        BY <1>5
      <3>2. /\ i - 1 \in Nat /\ n + i - 1 \in Nat /\ n + i \in 1..u
            /\ i - 1 <= audio2send_buffer_sz /\ n + i - 1 <= audio2send_buffer_sz
            /\ n <= audio2send_buffer_sz
        <4>. HIDE DEF n, u
        <4>. QED
          BY <1>1
      <3>3. audio2send_sent' = IF audio2send_sent + n < audio2send_buffer_sz
                               THEN audio2send_sent + n
                               ELSE audio2send_sent + n - audio2send_buffer_sz
        <4>. HIDE DEF n
        <4>. QED
          BY <1>1, <3>2, AfterOnce DEF n
      <3>4. audio2send_sent' \in Cells
        <4>. HIDE DEF n
        <4>. QED
          BY <1>1, <3>3 DEF Cells
      <3>5. After(audio2send_sent', i - 1) =
              IF audio2send_sent' + (i - 1) < audio2send_buffer_sz
              THEN audio2send_sent' + (i - 1)
              ELSE audio2send_sent' + (i - 1) - audio2send_buffer_sz
        BY <3>2, <3>4, AfterOnce
      <3> DEFINE j == n + i - 1
      <3>6. After(audio2send_sent, j) =
              IF audio2send_sent + j < audio2send_buffer_sz
              THEN audio2send_sent + j
              ELSE audio2send_sent + j - audio2send_buffer_sz
        <4>1. j \in Nat /\ j <= audio2send_buffer_sz
          BY <3>2
        <4>. HIDE DEF j
        <4>. QED
          BY <1>1, <4>1, AfterOnce
      <3>7. After(audio2send_sent', i - 1) = After(audio2send_sent, j)
        <4>1. audio2send_sent + n <= audio2send_buffer_sz /\ n + i <= u
          BY <1>1
        <4>. HIDE DEF n, u
        <4>. QED
          BY <1>1, <3>3, <3>5, <3>6, <4>1
      <3>8. s[n + i] = audio2send_buffer[After(audio2send_sent, j)]
        <4>1. (n + i) - 1 = j
          BY <1>1
        <4>. HIDE DEF n, u, s, j
        <4>. QED
          BY <1>4, <3>2, <4>1
      <3>. HIDE DEF n, u, s, t, j
      <3>. QED
        BY <3>1, <3>7, <3>8
    <2>3. Len(t) = Len(w) /\ \A i \in 1..Len(t) : t[i] = w[i]
      <3>. HIDE DEF s, t, n, u, w
      <3>. QED
        BY <1>5, <2>1, <2>2
    <2>4. t = w
      <3>. HIDE DEF s, t, n, u, w
      <3>. QED
        BY ONLY <1>5, <2>1, <2>3, SeqEqual
    <2>. QED
      BY <1>4, <2>4
  <1>9. n \in 0..Len(s)
    <2>. HIDE DEF n, s, u
    <2>. QED
      BY <1>1, <1>4
  <1>10. datagram' = SubSeq(s, 1, n) /\ recorded' = recorded
    BY <1>2, <1>7
  <1>. QED
    BY <1>8, <1>9, <1>10 DEF Stream!Take

LEMMA InitImplements == Init => Stream!Init
  <1>. SUFFICES ASSUME Init PROVE Stream!Init
    OBVIOUS
  <1>1. Unsent = 0 /\ recorded = 0 /\ datagram = <<>>
    BY DEF Init, Unsent
  <1>2. UnsentSamples = <<>>
    <2>1. UnsentSamples =
            [k \in 1..0 |-> audio2send_buffer[After(audio2send_sent, k - 1)]]
      BY <1>1 DEF UnsentSamples
    <2>2. 1..0 = {}
      OBVIOUS
    <2>. QED
      BY <2>1, <2>2
  <1>. QED
    BY <1>1, <1>2 DEF Stream!Init

LEMMA StepImplements ==
    ASSUME ShortRounds, IInv, KeepingUp, PacketCopied, WellMapped, WellMapped',
           [Next]_vars
    PROVE  [Stream!Next]_(Stream!vars)
  <1>1. CASE TakeSample
    <2>1. Stream!Store(1, 0)
      BY <1>1, TakeSampleStores
    <2>2. 1 \in 1..audio2send_buffer_sz
      BY Sizes
    <2>. QED
      BY <2>1, <2>2 DEF Stream!Next
  <1>2. CASE ReadCursor \/ CopySample \/ FlagsChange \/ UNCHANGED vars
    <2>1. /\ recorded' = recorded /\ datagram' = datagram
          /\ dispatched' = dispatched
          /\ audio2send_buffer' = audio2send_buffer
          /\ audio2send_sent' = audio2send_sent
      BY <1>2 DEF ReadCursor, CopySample, FlagsChange, vars, isrVars, loopVars
    <2>2. UnsentSamples' = UnsentSamples
      BY <2>1 DEF UnsentSamples, Unsent, After
    <2>. QED
      BY <2>1, <2>2 DEF Stream!vars
  <1>3. CASE SendTail
    <2>1. /\ loop = "sendTail" /\ SendPacket /\ audio2send_sent' = 0
          /\ PacketSize = audio2send_buffer_sz - audio2send_sent
      BY <1>3 DEF SendTail, PacketSize
    <2>2. After(audio2send_sent, PacketSize) = 0
      BY <2>1, Sizes DEF IInv, TypeOK, Cells, After
    <2>3. Stream!Take(PacketSize) /\ PacketSize \in 0..Len(UnsentSamples)
      BY <2>1, <2>2, PacketTakes
    <2>. QED
      BY <2>3 DEF Stream!Next
  <1>4. CASE SendRest
    <2>1. /\ loop = "send" /\ SendPacket /\ PacketSize = audio2send
          /\ audio2send_sent' = After(audio2send_sent, audio2send)
      BY <1>4 DEF SendRest, PacketSize
    <2>2. audio2send_sent' = After(audio2send_sent, PacketSize)
      BY <2>1
    <2>3. Stream!Take(PacketSize) /\ PacketSize \in 0..Len(UnsentSamples)
      BY <2>1, <2>2, PacketTakes
    <2>. QED
      BY <2>3 DEF Stream!Next
  <1>. QED
    BY <1>1, <1>2, <1>3, <1>4 DEF Next, Loop

(* While rounds are short, what send_data copies is what the interrupt recorded:
   there is no lock around the copy, and none is needed (main.ino:350-366 against
   124). *)
THEOREM ShortRoundsLeaveCopiesAlone ==
    ASSUME ShortRounds
    PROVE  Spec => []CopyUndisturbed
  BY ShortRoundsSuffice, PTL

(* While rounds are short, each datagram holds the samples that follow those of the
   datagram before it: nothing is lost, repeated, torn or reordered
   (main.ino:120-128, 347-366). *)
THEOREM UplinkImplementsStream ==
    ASSUME ShortRounds
    PROVE  Spec => ImplementsLappingStream
  <1>1. Init => IInv /\ KeepingUp /\ PacketCopied
    BY InitInvariant, InitPacketCopied
  <1>2. IInv /\ KeepingUp /\ [Next]_vars => IInv' /\ KeepingUp'
    BY StepInvariant, KeepingUpStep
  <1>3. IInv /\ KeepingUp /\ PacketCopied /\ (PacketSize \in Nat)' /\ [Next]_vars
          => PacketCopied'
    BY PacketCopiedStep
  <1>4. IInv /\ KeepingUp /\ PacketCopied /\ WellMapped /\ WellMapped' /\ [Next]_vars
          => [Stream!Next]_(Stream!vars)
    BY StepImplements
  <1>. QED
    BY <1>1, <1>2, <1>3, <1>4, PacketSizeIsNat, Mapped, InitImplements, PTL
       DEF Spec, ImplementsLappingStream, Stream!Spec
=============================================================================
