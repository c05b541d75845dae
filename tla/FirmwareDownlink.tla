--------------------------- MODULE FirmwareDownlink ---------------------------
(***************************************************************************)
(* TeamSpeak's audio on its way into the phone call (main.ino): loop()     *)
(* receives datagrams and stores them in the ring audio_buffer; the timer  *)
(* interrupt takes one sample every 125 us and gives it to the DAC.        *)
(*                                                                         *)
(* setup() and loop() run on one core, and so does the interrupt, which    *)
(* loop() holds off in its two critical sections: each of those, and the   *)
(* whole interrupt, is one step.  The flag belongs to taskloop, on the     *)
(* other core (see CallControl); here it changes at any moment.            *)
(*                                                                         *)
(* A sample is its number in the order in which loop() receives them.      *)
(***************************************************************************)
EXTENDS Integers, Sequences

CONSTANTS
    buf_sz,             \* cells of the ring (4096 in the code)
    MaxDatagram,        \* bytes of the largest datagram (512 from the plugin)
    MaxSamples          \* bound on the samples received in one behaviour

(* get_audio_data keeps all but the last two bytes of a datagram. *)
CutOff == 2

ASSUME DownlinkAssumption ==
    /\ buf_sz \in Nat \ {0}
    /\ MaxDatagram \in Nat
    /\ MaxSamples \in Nat
    /\ MaxDatagram - CutOff < buf_sz

VARIABLES
    call_in_progress,
    audio_buffer,       \* its cells, and the byte behind it
    audio_buffer_pos,   \* next cell to store into; moved by loop()
    played_audio_pos,   \* next cell to play; moved by the interrupt
    loop,               \* where loop() is
    new_audio_len,      \* samples in bufferloop
    data2copy,          \* how many of them its first memcpy copies
    received,           \* bytes received so far, those cut off included
    dac                 \* the voltage at the DAC

loopVars == <<loop, new_audio_len, data2copy, received>>
vars == <<call_in_progress, audio_buffer, audio_buffer_pos, played_audio_pos,
          loopVars, dac>>

Cells == 0..buf_sz - 1
Silence == 0
Foreign == -1           \* what is behind the array, or at the DAC at first

TypeOK ==
    /\ call_in_progress \in {0, 1}
    /\ audio_buffer \in [0..buf_sz -> Nat \union {Foreign}]
    /\ audio_buffer_pos \in Cells
    /\ played_audio_pos \in 0..buf_sz
    /\ loop \in {"receive", "store", "storeRest"}
    /\ new_audio_len \in 0..buf_sz - 1
    /\ data2copy \in 0..new_audio_len
    /\ received \in Nat
    /\ dac \in Nat \union {Foreign}

(* played_audio_pos starts behind the last cell. *)
Init ==
    /\ call_in_progress = 0
    /\ audio_buffer = [c \in 0..buf_sz |-> IF c = buf_sz THEN Foreign ELSE Silence]
    /\ audio_buffer_pos = 0
    /\ played_audio_pos = buf_sz
    /\ loop = "receive"
    /\ new_audio_len = 0
    /\ data2copy = 0
    /\ received = 0
    /\ dac = Foreign

-----------------------------------------------------------------------------
(* loop(). *)

(* get_audio_data finds a datagram; with none, or with nothing but the bytes
   that are cut off, the round changes nothing. *)
GetAudioData(len) ==
    /\ loop = "receive"
    /\ call_in_progress = 1
    /\ received + len <= MaxSamples
    /\ received' = received + len
    /\ new_audio_len' = len - CutOff
    /\ data2copy' = 0
    /\ loop' = "store"
    /\ UNCHANGED <<call_in_progress, audio_buffer, audio_buffer_pos,
                   played_audio_pos, dac>>

bufferloop(i) == received - (new_audio_len + CutOff) + i + 1

(* memcpy of n samples from bufferloop[first] on. *)
Copied(first, n) ==
    [c \in DOMAIN audio_buffer |->
        IF c \in audio_buffer_pos..audio_buffer_pos + n - 1
        THEN bufferloop(first + c - audio_buffer_pos)
        ELSE audio_buffer[c]]

(* Mutant: the cursor is left behind the last cell. *)
AfterFirstWithoutWrap(n) == audio_buffer_pos + n

AfterFirst(n) == (audio_buffer_pos + n) % buf_sz

ToEnd == buf_sz - audio_buffer_pos

(* Mutant: the rest of a datagram that reaches the end is not stored. *)
StoreFirstOnly ==
    LET n == IF ToEnd > new_audio_len THEN new_audio_len ELSE ToEnd
    IN  /\ loop = "store"
        /\ data2copy' = n
        /\ audio_buffer' = Copied(0, n)
        /\ audio_buffer_pos' = AfterFirst(n)
        /\ loop' = "receive"
        /\ UNCHANGED <<call_in_progress, played_audio_pos, new_audio_len,
                       received, dac>>

(* The first critical section: there is no test for room. *)
StoreFirst ==
    LET n == IF ToEnd > new_audio_len THEN new_audio_len ELSE ToEnd
    IN  /\ loop = "store"
        /\ data2copy' = n
        /\ audio_buffer' = Copied(0, n)
        /\ audio_buffer_pos' = AfterFirst(n)
        /\ loop' = IF n < new_audio_len THEN "storeRest" ELSE "receive"
        /\ UNCHANGED <<call_in_progress, played_audio_pos, new_audio_len,
                       received, dac>>

(* The second: the cursor is not wrapped again. *)
StoreRest ==
    LET n == new_audio_len - data2copy
    IN  /\ loop = "storeRest"
        /\ audio_buffer' = Copied(data2copy, n)
        /\ audio_buffer_pos' = audio_buffer_pos + n
        /\ loop' = "receive"
        /\ UNCHANGED <<call_in_progress, played_audio_pos, new_audio_len,
                       data2copy, received, dac>>

-----------------------------------------------------------------------------
(* timer_callback, its first half. *)

SomethingToPlay == audio_buffer_pos # played_audio_pos

PlaySample ==
    /\ call_in_progress = 1
    /\ SomethingToPlay
    /\ dac' = audio_buffer[played_audio_pos]
    /\ audio_buffer' = [audio_buffer EXCEPT ![played_audio_pos] = Silence]
    /\ played_audio_pos' = (played_audio_pos + 1) % buf_sz
    /\ UNCHANGED <<call_in_progress, audio_buffer_pos, loopVars>>

(* A call begins or ends. *)
FlagChanges ==
    /\ call_in_progress' = 1 - call_in_progress
    /\ UNCHANGED <<audio_buffer, audio_buffer_pos, played_audio_pos, loopVars, dac>>

Next ==
    \/ \E len \in CutOff + 1..MaxDatagram : GetAudioData(len)
    \/ StoreFirst
    \/ StoreRest
    \/ PlaySample
    \/ FlagChanges

Spec == Init /\ [][Next]_vars

-----------------------------------------------------------------------------
(* Both memcpys of loop() stay inside audio_buffer, although the second compares
   its length with nothing (main.ino:377-389). *)
CopiesInBounds ==
    /\ loop = "store" => audio_buffer_pos < buf_sz
    /\ loop = "storeRest" => audio_buffer_pos + (new_audio_len - data2copy) <= buf_sz

Unplayed ==
    IF audio_buffer_pos = 0 /\ played_audio_pos = buf_sz
    THEN buf_sz
    ELSE (audio_buffer_pos - played_audio_pos) % buf_sz

(* The refinement mapping. *)
UnplayedCell(k) == (played_audio_pos + k - 1) % buf_sz
UnplayedSamples == [k \in 1..Unplayed |-> audio_buffer[UnplayedCell(k)]]
LatestStored ==
    CASE loop = "receive" -> received
      [] loop = "store" -> bufferloop(0) - 1
      [] loop = "storeRest" -> bufferloop(data2copy) - 1
Started == played_audio_pos # buf_sz
LastPlayed == IF Started THEN <<dac>> ELSE <<>>

(* The ring implements a stream that forgets a lap when it is lapped, with one false
   start in the life of the board (main.ino:72): see ImplementsLappingStream. *)
Stream == INSTANCE LappingStream WITH
    Capacity <- buf_sz,
    Dropped <- CutOff,
    total <- LatestStored,
    buffered <- UnplayedSamples,
    taken <- LastPlayed,
    started <- Started

(* A writer that laps the reader loses a lap of audio, the oldest; nothing else
   is lost but the two bytes of each datagram, and the first sample ever stored
   if it is there when the first interrupt plays the byte behind the array. *)
ImplementsLappingStream == Stream!Spec
=============================================================================
