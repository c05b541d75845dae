---------------------------- MODULE FirmwareUplink ----------------------------
(***************************************************************************)
(* The phone's audio on its way to TeamSpeak (main.ino): the timer         *)
(* interrupt samples the call every 125 us into audio2send_buffer; loop()  *)
(* compares the interrupt's cursor with its own, sends what it finds,      *)
(* modulo max_audio2send, and moves its own cursor.                        *)
(*                                                                         *)
(* loop() reads the cursor in a critical section, but copies the samples   *)
(* outside of it: the interrupt may come between any two of them.          *)
(* The flags belong to taskloop (see CallControl) and change at any        *)
(* moment.  Datagrams get lost on the network, not here.                   *)
(*                                                                         *)
(* Time appears as RoundTicks, the most samples the interrupt takes        *)
(* between two readings of the cursor.                                     *)
(***************************************************************************)
EXTENDS Integers, Sequences

CONSTANTS
    max_audio2send,         \* 512 in the code
    audio2send_buffer_sz,   \* cells of the ring (12 * 512 in the code)
    Threshold,              \* least backlog that is not sent (256 in the code)
    RoundTicks,             \* bound on the interrupts of one round of loop()
    MaxSamples              \* bound on the samples taken in one behaviour

(* The ring holds a whole number of max_audio2send's, which makes equal cursors
   a backlog of nothing. *)
ASSUME UplinkAssumption ==
    /\ max_audio2send \in Nat \ {0}
    /\ audio2send_buffer_sz \in Nat
    /\ \E k \in 2..audio2send_buffer_sz : audio2send_buffer_sz = max_audio2send * k
    /\ Threshold \in 0..max_audio2send - 1
    /\ RoundTicks \in Nat
    /\ MaxSamples \in Nat

VARIABLES
    call_in_progress, recording_noise,
    audio2send_buffer,
    audio2send_pos_w,       \* next cell to write; moved by the interrupt
    audio2send_sent,        \* next cell to send; moved by loop()
    audio2send,             \* how much loop() has yet to send in this round
    loop,                   \* where loop() is
    packet,                 \* what send_data has copied
    datagram,               \* the datagram sent last
    recorded,               \* history: samples taken
    dispatched,             \* history: samples sent
    standing,               \* history: whole max_audio2send's behind, when last read
    sinceRead               \* interrupts since the cursor was read last

flags == <<call_in_progress, recording_noise>>
isrVars == <<audio2send_buffer, audio2send_pos_w, recorded>>
loopVars == <<audio2send_sent, audio2send, loop, packet, datagram, dispatched,
              standing>>
vars == <<flags, isrVars, loopVars, sinceRead>>

Cells == 0..audio2send_buffer_sz - 1

TypeOK ==
    /\ call_in_progress \in {0, 1}
    /\ recording_noise \in {0, 1}
    /\ audio2send_buffer \in [Cells -> Nat]
    /\ audio2send_pos_w \in Cells
    /\ audio2send_sent \in Cells
    /\ audio2send \in 0..max_audio2send - 1
    /\ loop \in {"read", "sendTail", "send"}
    /\ packet \in Seq(Nat)
    /\ datagram \in Seq(Nat)
    /\ recorded \in Nat /\ dispatched \in Nat /\ standing \in Nat
    /\ sinceRead \in 0..RoundTicks

Init ==
    /\ call_in_progress = 0 /\ recording_noise = 0
    /\ audio2send_buffer = [c \in Cells |-> 0]
    /\ audio2send_pos_w = 0
    /\ audio2send_sent = 0
    /\ audio2send = 0
    /\ loop = "read"
    /\ packet = <<>>
    /\ datagram = <<>>
    /\ recorded = 0 /\ dispatched = 0 /\ standing = 0
    /\ sinceRead = 0

(* A call or a recording is on. *)
On == call_in_progress = 1 \/ recording_noise = 1

-----------------------------------------------------------------------------
(* Mutant: the wrap-around is forgotten. *)
AfterWithoutWrap(cell, n) == cell + n

After(cell, n) == (cell + n) % audio2send_buffer_sz

(* timer_callback, its second half. *)
TakeSample ==
    /\ On
    /\ recorded < MaxSamples
    /\ sinceRead < RoundTicks
    /\ audio2send_buffer' =
         [audio2send_buffer EXCEPT ![audio2send_pos_w] = recorded + 1]
    /\ audio2send_pos_w' = After(audio2send_pos_w, 1)
    /\ recorded' = recorded + 1
    /\ sinceRead' = sinceRead + 1
    /\ UNCHANGED <<flags, loopVars>>

-----------------------------------------------------------------------------
(* loop(), its first half; the second is FirmwareDownlink. *)

Backlog ==
    IF audio2send_sent < audio2send_pos_w
    THEN audio2send_pos_w - audio2send_sent
    ELSE audio2send_buffer_sz - audio2send_sent + audio2send_pos_w

(* Mutants: the wrap-around is forgotten; all of the backlog is sent. *)
ToSendWithoutWrap ==
    IF audio2send_sent < audio2send_pos_w
    THEN (audio2send_pos_w - audio2send_sent) % max_audio2send
    ELSE (audio2send_sent - audio2send_pos_w) % max_audio2send
ToSendAll == Backlog % audio2send_buffer_sz

ToSend == Backlog % max_audio2send

(* Mutant: only a packet that ends exactly at the end is noticed. *)
ReachesEndExactly(n) == audio2send_sent + n = audio2send_buffer_sz

ReachesEnd(n) == audio2send_sent + n >= audio2send_buffer_sz

(* One reading of the cursor.  Up to Threshold samples are left for later. *)
ReadCursor ==
    /\ loop = "read"
    /\ On
    /\ audio2send' = ToSend
    /\ loop' = CASE ToSend <= Threshold -> "read"
                 [] ToSend > Threshold /\ ReachesEnd(ToSend) -> "sendTail"
                 [] OTHER -> "send"
    /\ sinceRead' = 0
    /\ standing' = (recorded - dispatched) \div max_audio2send
    /\ UNCHANGED <<flags, isrVars, audio2send_sent, packet, datagram, dispatched>>

(* The size send_data is called with. *)
PacketSize ==
    IF loop = "sendTail" THEN audio2send_buffer_sz - audio2send_sent
                         ELSE audio2send

(* One byte of send_data's memcpy. *)
CopySample ==
    /\ loop \in {"sendTail", "send"}
    /\ Len(packet) < PacketSize
    /\ packet' = Append(packet, audio2send_buffer[audio2send_sent + Len(packet)])
    /\ UNCHANGED <<flags, isrVars, audio2send_sent, audio2send, loop, datagram,
                   dispatched, standing, sinceRead>>

(* The datagram leaves and is counted. *)
SendPacket ==
    /\ Len(packet) = PacketSize
    /\ datagram' = packet
    /\ packet' = <<>>
    /\ dispatched' = dispatched + PacketSize
    /\ UNCHANGED <<flags, isrVars, standing, sinceRead>>

(* Mutant: what the first datagram took is sent again by the second. *)
SendTailTwice ==
    /\ loop = "sendTail"
    /\ SendPacket
    /\ audio2send' = audio2send
    /\ audio2send_sent' = 0
    /\ loop' = "send"

(* The backlog reaches the end of the ring: what is before the end goes first,
   the rest, possibly nothing, in a datagram of its own. *)
SendTail ==
    /\ loop = "sendTail"
    /\ SendPacket
    /\ audio2send' = audio2send - PacketSize
    /\ audio2send_sent' = 0
    /\ loop' = "send"

SendRest ==
    /\ loop = "send"
    /\ SendPacket
    /\ audio2send_sent' = After(audio2send_sent, audio2send)
    /\ loop' = "read"
    /\ UNCHANGED audio2send

(* taskloop, and parse_serial. *)
FlagsChange ==
    /\ \E c, r \in {0, 1} : call_in_progress' = c /\ recording_noise' = r
    /\ UNCHANGED <<isrVars, loopVars, sinceRead>>

Loop == ReadCursor \/ CopySample \/ SendTail \/ SendRest

Next == TakeSample \/ Loop \/ FlagsChange

Spec == Init /\ [][Next]_vars

(* loop() runs on, whatever happens. *)
FairSpec == Spec /\ WF_vars(Loop)

-----------------------------------------------------------------------------
(* Samples taken and not sent yet; packet's included. *)
Unsent == recorded - dispatched

(* send_data reads cells of the ring only, in each of the two datagrams of a
   backlog that wraps, the empty one included (main.ino:355-363). *)
PacketsInBounds ==
    /\ loop # "read" => audio2send_sent + PacketSize <= audio2send_buffer_sz
    /\ loop = "sendTail" => PacketSize <= audio2send

(* The interrupt never writes to a cell that loop() has yet to copy: there is no
   lock around the copy (main.ino:124 against TSutils.cpp:49). *)
CopyUndisturbed ==
    loop # "read"
    => audio2send_pos_w \notin audio2send_sent + Len(packet)
                               .. audio2send_sent + PacketSize - 1

(* As long as a round of loop() is short, it keeps up: no more than Threshold
   and what two rounds add is ever behind (main.ino:350-353). *)
KeepsUp == Unsent <= Threshold + 2 * RoundTicks

(* What loop() has fallen behind by in whole multiples of max_audio2send it never
   makes good, because it sends the remainder only (main.ino:350): a delay that
   has come up stays until the end of the call, and into the next one. *)
DelayNeverShrinks == [][standing' >= standing]_vars

(* More than Threshold samples do not stay unsent while a call lasts. *)
BacklogIsSent == Unsent > Threshold ~> Unsent <= Threshold \/ ~On

(* The ring as a stream of samples. *)
UnsentSamples ==
    [k \in 1..Unsent |-> audio2send_buffer[After(audio2send_sent, k - 1)]]

Stream == INSTANCE LappingStream WITH
    Capacity <- audio2send_buffer_sz,
    Dropped <- 0,
    Silence <- 0,
    total <- recorded,
    buffered <- UnsentSamples,
    taken <- datagram,
    started <- TRUE

(* Each datagram holds the samples after those of the datagram before it: while
   loop() keeps up nothing is lost, repeated, torn or reordered. *)
ImplementsLappingStream == Stream!Spec
=============================================================================
