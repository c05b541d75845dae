----------------------------- MODULE PlaybackRing -----------------------------
(***************************************************************************)
(* The plugin's circular buffer for the audio of the phone call (plugin.c).*)
(*                                                                         *)
(* Two threads share audio_buffer:                                         *)
(*   - main_loop_acquire receives a UDP datagram, waits until the buffer   *)
(*     has room for it, writes it sample by sample WITHOUT holding the     *)
(*     semaphore, then moves audio_buffer_pos under the semaphore;         *)
(*   - main_loop_play takes bytes2play samples out of the buffer under the *)
(*     semaphore, zeroing the cells, moves audio_buffer_played, releases   *)
(*     the semaphore and gives the chunk to TeamSpeak.                     *)
(*                                                                         *)
(* A sample is represented by its number in the order of arrival, counted  *)
(* from 1; Silence is the zero of a cell that was never written or was     *)
(* played.  The initial state is the one after start-up: the socket is     *)
(* bound and both threads are in their loops.  Noise cancelling is off     *)
(* (noise_cancelnoise = 0, the default), so the sample that is stored is   *)
(* the one that was received.                                              *)
(***************************************************************************)
EXTENDS Naturals, Integers, Sequences, FiniteSets

CONSTANTS
    audio_buffer_size,    \* cells of the circular buffer (6144 in the code)
    bytes2play,           \* samples of one chunk (256 in the code)
    MaxDatagram,          \* most samples of one datagram (2000 in the code)
    MaxSamples            \* bound on the samples received in one behaviour

(* The buffer holds a whole number of chunks: 6144 = 24 * 256. *)
ASSUME RingAssumption ==
    /\ audio_buffer_size \in Nat \ {0}
    /\ bytes2play \in Nat \ {0}
    /\ MaxDatagram \in Nat
    /\ MaxSamples \in Nat
    /\ \E chunks \in 1..audio_buffer_size : audio_buffer_size = bytes2play * chunks

VARIABLES
    audio_buffer,
    audio_buffer_pos,       \* next cell to write; moved by the acquire thread
    audio_buffer_played,    \* next cell to play; moved by the play thread
    c_pb_sem,               \* 1 when free, 0 while the play thread copies
    acquire,                \* program counter of main_loop_acquire
    receivedBytes,          \* samples of the datagram in mybuffer
    bytes2write,            \* how many of them will be stored
    stored,                 \* how many of them have been stored (the loop's i)
    received,               \* samples received so far, mybuffer's included
    play,                   \* program counter of main_loop_play
    chunk,                  \* samples copied out of the buffer
    heard                   \* the chunk given last to processCustomCaptureData

ring == <<audio_buffer, audio_buffer_pos, audio_buffer_played, c_pb_sem>>
acquireVars == <<acquire, receivedBytes, bytes2write, stored, received>>
playVars == <<play, chunk, heard>>
vars == <<ring, acquireVars, playVars>>

Cells == 0..audio_buffer_size - 1
Silence == 0

TypeOK ==
    /\ audio_buffer \in [Cells -> Nat]
    /\ audio_buffer_pos \in Cells
    /\ audio_buffer_played \in Cells
    /\ c_pb_sem \in {0, 1}
    /\ acquire \in {"receive", "wait", "write"}
    /\ receivedBytes \in 0..MaxDatagram
    /\ bytes2write \in 0..audio_buffer_size
    /\ stored \in 0..audio_buffer_size
    /\ received \in Nat
    /\ play \in {"check", "copy", "deliver"}
    /\ chunk \in Seq(Nat)
    /\ heard \in Seq(Nat)

Init ==
    /\ audio_buffer = [c \in Cells |-> Silence]
    /\ audio_buffer_pos = 0
    /\ audio_buffer_played = 0
    /\ c_pb_sem = 1
    /\ acquire = "receive"
    /\ receivedBytes = 0
    /\ bytes2write = 0
    /\ stored = 0
    /\ received = 0
    /\ play = "check"
    /\ chunk = <<>>
    /\ heard = <<>>

-----------------------------------------------------------------------------
(* The acquire thread. *)

(* The number of mybuffer[i], the datagram being the latest samples received. *)
mybuffer(i) == received - receivedBytes + i + 1

(* recvfrom returns a datagram, possibly an empty one; the two sections under
   noise_sem around it do nothing in this build. *)
Receive(n) ==
    /\ acquire = "receive"
    /\ received + n <= MaxSamples
    /\ receivedBytes' = n
    /\ received' = received + n
    /\ acquire' = "wait"
    /\ UNCHANGED <<ring, bytes2write, stored, playVars>>

(* Mutant: the datagram's length is left out of the test for room. *)
HasRoomForNothing ==
    \/ audio_buffer_pos <= audio_buffer_played
    \/ audio_buffer_pos >= audio_buffer_played

(* The condition under which the acquire thread leaves its polling loop. *)
HasRoom ==
    \/ audio_buffer_pos + receivedBytes <= audio_buffer_played
    \/ audio_buffer_pos >= audio_buffer_played

(* What does not fit before the end of the buffer is not stored at all. *)
SamplesThatFit ==
    LET toEnd == audio_buffer_size - audio_buffer_pos
    IN  IF toEnd > receivedBytes THEN receivedBytes ELSE toEnd

(* One round of the polling loop that finds room, then the computation of
   bytes2write; a round that finds none changes nothing. *)
StartWriting ==
    /\ acquire = "wait"
    /\ c_pb_sem = 1
    /\ HasRoom
    /\ bytes2write' = SamplesThatFit
    /\ stored' = 0
    /\ acquire' = "write"
    /\ UNCHANGED <<ring, receivedBytes, received, playVars>>

(* One round of the copying loop: the semaphore is not held. *)
StoreSample ==
    /\ acquire = "write"
    /\ stored < bytes2write
    /\ audio_buffer' =
         [audio_buffer EXCEPT ![audio_buffer_pos + stored] = mybuffer(stored)]
    /\ stored' = stored + 1
    /\ UNCHANGED <<audio_buffer_pos, audio_buffer_played, c_pb_sem, acquire,
                   receivedBytes, bytes2write, received, playVars>>

(* Mutant: the modulus is forgotten. *)
AdvancedWithoutWrap(position, n) == position + n

(* The position after n more cells. *)
Advanced(position, n) == (position + n) % audio_buffer_size

(* Mutant: the cursor moves by what was received, not by what was stored. *)
PublishReceived ==
    /\ acquire = "write"
    /\ stored = bytes2write
    /\ c_pb_sem = 1
    /\ audio_buffer_pos' = Advanced(audio_buffer_pos, receivedBytes)
    /\ acquire' = "receive"
    /\ UNCHANGED <<audio_buffer, audio_buffer_played, c_pb_sem, receivedBytes,
                   bytes2write, stored, received, playVars>>

(* Under the semaphore, the cursor moves past what was stored. *)
PublishSamples ==
    /\ acquire = "write"
    /\ stored = bytes2write
    /\ c_pb_sem = 1
    /\ audio_buffer_pos' = Advanced(audio_buffer_pos, bytes2write)
    /\ acquire' = "receive"
    /\ UNCHANGED <<audio_buffer, audio_buffer_played, c_pb_sem, receivedBytes,
                   bytes2write, stored, received, playVars>>

-----------------------------------------------------------------------------
(* The play thread.  Its other half, which sends TeamSpeak's audio to the
   firmware, does not touch this buffer. *)

(* Mutant: the wrap-around is forgotten. *)
AvailableWithoutWrap == audio_buffer_pos - audio_buffer_played

available_samples ==
    LET difference == audio_buffer_pos - audio_buffer_played
    IN  IF difference < 0 THEN difference + audio_buffer_size ELSE difference

(* The thread takes the semaphore and finds a chunk; a round that finds less
   releases the semaphore, sleeps and changes nothing. *)
StartCopying ==
    /\ play = "check"
    /\ c_pb_sem = 1
    /\ available_samples >= bytes2play
    /\ c_pb_sem' = 0
    /\ chunk' = <<>>
    /\ play' = "copy"
    /\ UNCHANGED <<audio_buffer, audio_buffer_pos, audio_buffer_played,
                   acquireVars, heard>>

(* One round of the copying loop: read the cell and zero it. *)
CopySample ==
    LET cell == Advanced(audio_buffer_played, Len(chunk))
    IN  /\ play = "copy"
        /\ Len(chunk) < bytes2play
        /\ chunk' = Append(chunk, audio_buffer[cell])
        /\ audio_buffer' = [audio_buffer EXCEPT ![cell] = Silence]
        /\ UNCHANGED <<audio_buffer_pos, audio_buffer_played, c_pb_sem,
                       acquireVars, play, heard>>

ReleaseChunk ==
    /\ play = "copy"
    /\ Len(chunk) = bytes2play
    /\ audio_buffer_played' = Advanced(audio_buffer_played, bytes2play)
    /\ c_pb_sem' = 1
    /\ play' = "deliver"
    /\ UNCHANGED <<audio_buffer, audio_buffer_pos, acquireVars, chunk, heard>>

(* processCustomCaptureData: TeamSpeak gets the chunk. *)
Deliver ==
    /\ play = "deliver"
    /\ heard' = chunk
    /\ play' = "check"
    /\ UNCHANGED <<ring, acquireVars, chunk>>

-----------------------------------------------------------------------------
Store == StartWriting \/ StoreSample \/ PublishSamples
Playback == StartCopying \/ CopySample \/ ReleaseChunk \/ Deliver

Next ==
    \/ \E n \in 0..MaxDatagram : Receive(n)
    \/ Store
    \/ Playback

Spec == Init /\ [][Next]_vars

(* Both threads run forever and neither is starved by the scheduler; nothing
   obliges the network to deliver another datagram. *)
FairSpec == Spec /\ WF_vars(Store) /\ WF_vars(Playback)

-----------------------------------------------------------------------------
(* The two threads never access the same cell at the same time, although the
   acquire thread writes without the semaphore: the lock-free stores of
   main_loop_acquire (plugin.c:347-357) against the copy-and-zero loop of
   main_loop_play (plugin.c:245-248). *)
NoDataRace ==
    /\ acquire = "write" /\ stored < bytes2write
    /\ play = "copy" /\ Len(chunk) < bytes2play
    => audio_buffer_pos + stored # Advanced(audio_buffer_played, Len(chunk))

(* Every store hits a cell of the array (plugin.c:351 indexes it with
   audio_buffer_pos + i, without a modulus). *)
StoresInBounds ==
    acquire = "write" /\ stored < bytes2write
    => audio_buffer_pos + stored \in Cells

(* When the acquire thread finds no room it is not alone: the play thread has
   a chunk to take, which is what makes room.  The two polling loops never wait
   for each other (plugin.c:332-340 against plugin.c:243). *)
NoMutualWait ==
    acquire = "wait" /\ ~HasRoom => available_samples >= bytes2play

(* The acquire thread's polling loop (plugin.c:332-340) always ends. *)
WriterGetsRoom == acquire = "wait" ~> acquire = "write"

(* The comment of plugin.c:238 says of available_samples: "Calculate how many
   samples are available in the circular buffer".  With no access in progress,
   these are the cells that were written and not played yet. *)
AvailableCountsUnplayed ==
    acquire # "write" /\ play # "copy"
    => available_samples =
         Cardinality({c \in Cells : audio_buffer[c] # Silence})

-----------------------------------------------------------------------------
(* The buffer as a lossy stream.  A chunk counts as heard from the moment it has
   left the buffer; while it is being copied it still counts as buffered. *)
BufferedSample(k) ==
    IF play = "copy" /\ k <= Len(chunk)
    THEN chunk[k]
    ELSE audio_buffer[Advanced(audio_buffer_played, k - 1)]

(* The refinement mapping. *)
OfferedSamples ==
    IF acquire = "receive" THEN <<>> ELSE [k \in 1..receivedBytes |-> mybuffer(k - 1)]
BufferedSamples == [k \in 1..available_samples |-> BufferedSample(k)]
HeardSamples == IF play = "deliver" THEN chunk ELSE heard

Stream == INSTANCE AudioStream WITH
    Capacity <- audio_buffer_size,
    Chunk <- bytes2play,
    MaxOffer <- MaxDatagram,
    total <- received,
    offered <- OfferedSamples,
    buffered <- BufferedSamples,
    heard <- HeardSamples

(* The circular buffer implements the lossy stream: audio is lost at the end
   of the array and when the buffer fills up, and only then; what TeamSpeak
   hears is otherwise the received audio, in order and without repetition. *)
ImplementsAudioStream == Stream!Spec

(* What TeamSpeak hears next is always newer than what it heard before, and is
   something the network delivered. *)
AudioInOrder == Stream!InOrder /\ Stream!NothingInvented
=============================================================================
