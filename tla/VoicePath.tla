------------------------------ MODULE VoicePath ------------------------------
(***************************************************************************)
(* TeamSpeak's voice on its way to the ear of the caller, end to end: the  *)
(* play thread takes a block from TeamSpeak whenever more than the block's *)
(* own duration has passed (plugin.c), resamples and sends it (server.c);  *)
(* the network and the board's UDP socket hold some datagrams, and lose    *)
(* others; the board reads them during a call only (main.ino), into a ring *)
(* that the timer interrupt plays.  FirmwareDownlink has the cells of that *)
(* ring; here they are counted, and time is added.                         *)
(*                                                                         *)
(* The unit of time is one sample, 125 us: the interrupt plays one in each *)
(* Tick.  All timers are relative to the present.                          *)
(*                                                                         *)
(* External: the network, and the queue of the board's UDP socket.         *)
(***************************************************************************)
EXTENDS Integers

CONSTANTS
    BlockSamples,   \* what is sent at once; as many time units (512 in the code)
    CutOff,         \* what get_audio_data leaves out of it (2 in the code)
    buf_sz,         \* cells of the board's ring (4096 in the code)
    QueueLimit,     \* datagrams the board's socket holds
    MaxInFlight     \* datagrams the network holds

(* The ring takes what can have piled up before a call. *)
ASSUME VoiceAssumption ==
    /\ BlockSamples \in Nat /\ CutOff \in Nat /\ CutOff < BlockSamples
    /\ QueueLimit \in Nat /\ MaxInFlight \in Nat
    /\ buf_sz \in Nat
    /\ (BlockSamples - CutOff) * (QueueLimit + MaxInFlight + 1) < buf_sz

VARIABLES
    since,              \* now - start, or NoStart; large values are all one
    lead,               \* audio sent, less the time that has passed; small ones too
    inFlight, queued,   \* datagrams in the network and at the board's socket
    call_in_progress,
    unplayed,           \* samples in the board's ring; buf_sz at the false start
    emptyAtStart,       \* history: so was the ring when this call began
    lapped              \* history: the writer has lapped the reader in this call

vars == <<since, lead, inFlight, queued, call_in_progress, unplayed, emptyAtStart,
          lapped>>

NoStart == -1

(* What a datagram leaves in the ring. *)
Kept == BlockSamples - CutOff

TypeOK ==
    /\ since \in NoStart..BlockSamples + 1
    /\ lead \in Int /\ lead >= -(BlockSamples + 1)
    /\ inFlight \in 0..MaxInFlight
    /\ queued \in 0..QueueLimit
    /\ call_in_progress \in {0, 1}
    /\ unplayed \in 0..buf_sz
    /\ emptyAtStart \in BOOLEAN /\ lapped \in BOOLEAN

(* played_audio_pos starts behind the ring, which looks like a lap of silence. *)
Init ==
    /\ since = NoStart
    /\ lead = 0
    /\ inFlight = 0 /\ queued = 0
    /\ call_in_progress = 0
    /\ unplayed = buf_sz
    /\ emptyAtStart = FALSE /\ lapped = FALSE

network == <<inFlight, queued>>
board == <<call_in_progress, unplayed, emptyAtStart, lapped>>

-----------------------------------------------------------------------------
(* The pacing of main_loop_play. *)

StartPacing ==
    /\ since = NoStart
    /\ since' = 0
    /\ UNCHANGED <<lead, network, board>>

(* Mutant: the clock is not started again. *)
BlockIsDueForGood == since' = since /\ since > BlockSamples

BlockIsDue == since > BlockSamples /\ since' = NoStart

(* send_voice: one datagram, which nobody misses when it is lost, be it for an
   error of sendto or in a full network. *)
SendBlock ==
    /\ BlockIsDue
    /\ lead' = lead + BlockSamples
    /\ \E arrives \in {0, 1} :
          /\ inFlight + arrives <= MaxInFlight
          /\ inFlight' = inFlight + arrives
    /\ UNCHANGED <<queued, board>>

(* TeamSpeak has nothing to say, or resampling yields nothing. *)
NothingToSend ==
    /\ BlockIsDue
    /\ UNCHANGED <<lead, network, board>>

(* The network, in any order; the socket drops what it cannot hold. *)
Arrive ==
    /\ inFlight > 0
    /\ inFlight' = inFlight - 1
    /\ \/ queued < QueueLimit /\ queued' = queued + 1
       \/ queued = QueueLimit /\ UNCHANGED queued
    /\ UNCHANGED <<since, lead, board>>

LoseDatagram ==
    /\ inFlight > 0
    /\ inFlight' = inFlight - 1
    /\ UNCHANGED <<since, lead, queued, board>>

-----------------------------------------------------------------------------
(* The board. *)

(* Mutant: the cursor does not wrap. *)
AfterStoringWithoutWrap == unplayed + Kept

AfterStoring == (unplayed + Kept) % buf_sz

(* loop() reads a datagram and stores it without a test for room. *)
StoreDatagram ==
    /\ call_in_progress = 1
    /\ queued > 0
    /\ queued' = queued - 1
    /\ unplayed' = AfterStoring
    /\ lapped' = (lapped \/ unplayed + Kept >= buf_sz)
    /\ UNCHANGED <<since, lead, inFlight, call_in_progress, emptyAtStart>>

(* taskloop begins or ends a call; the ring and the socket keep what they have. *)
FlagChanges ==
    /\ call_in_progress' = 1 - call_in_progress
    /\ emptyAtStart' = (call_in_progress = 0 /\ unplayed = 0)
    /\ lapped' = FALSE
    /\ UNCHANGED <<since, lead, network, unplayed>>

(* One unit of time: both clocks advance, and the interrupt plays a sample. *)
AtLeast(bound, n) == IF n < bound THEN bound ELSE n
AtMost(bound, n) == IF n > bound THEN bound ELSE n

(* Mutant: nothing is played unless there is a whole datagram to play. *)
AfterPlayingBlocks == IF unplayed < Kept THEN unplayed ELSE unplayed - 1

AfterPlaying == AtLeast(0, unplayed - 1)

Tick ==
    /\ since' = IF since = NoStart THEN NoStart ELSE AtMost(BlockSamples + 1, since + 1)
    /\ lead' = AtLeast(-(BlockSamples + 1), lead - 1)
    /\ unplayed' = IF call_in_progress = 1 THEN AfterPlaying ELSE unplayed
    /\ UNCHANGED <<network, call_in_progress, emptyAtStart, lapped>>

Next ==
    \/ StartPacing \/ SendBlock \/ NothingToSend
    \/ Arrive \/ LoseDatagram
    \/ StoreDatagram \/ FlagChanges
    \/ Tick

Spec == Init /\ [][Next]_vars

(* Time passes, and loop() goes round; of the plugin and the network nothing is
   assumed. *)
FairSpec == Spec /\ WF_vars(Tick) /\ WF_vars(StoreDatagram)

-----------------------------------------------------------------------------
(* No more voice is ever sent than time has passed for, so the play thread is not
   "a little bit faster" than the board, as the comment has it (plugin.c:213), but
   slower. *)
NeverAhead == lead <= 0

(* A call that begins with an empty ring is never lapped, although nothing tests
   for room: what has piled up in the socket before the call and in the network
   fits (main.ino:376-389, TSutils.cpp:24). *)
RoomForBacklog == emptyAtStart => ~lapped

(* What a call finds in the ring or the socket, however old, is played out in the
   end, because the voice is slower than the board (main.ino:366-393, 99-113). *)
BacklogDrains == call_in_progress = 1 ~> (unplayed = 0 \/ call_in_progress = 0)
=============================================================================
