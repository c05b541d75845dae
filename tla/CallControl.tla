------------------------------ MODULE CallControl ------------------------------
(***************************************************************************)
(* The control path of a phone call: who decides that a call is up.        *)
(*                                                                         *)
(*   - the plugin's at_send_command (at_commands.c) connects to the        *)
(*     firmware, sends one command and waits for whatever comes back;      *)
(*   - the firmware's taskloop (main.ino) serves one such client, passes   *)
(*     the command to the modem, forwards what the modem says within the   *)
(*     next 100 ms, then looks at the modem's unsolicited messages with    *)
(*     parse_serial (SIMutils.cpp), which answers calls and maintains      *)
(*     call_in_progress, the flag that switches the audio on;              *)
(*   - the modem (external) executes commands in order and reports calls.  *)
(*                                                                         *)
(* taskloop reads the modem with readString, which returns all that came   *)
(* until the line was silent for a second: a chunk of one or more          *)
(* messages, in which parse_serial searches for words in a fixed order.    *)
(*                                                                         *)
(* Left out: the debugging console (SerialMon), which can also write to    *)
(* the modem; !STOPTEXT! and the text-message prompt; failures of connect, *)
(* send and recv, after which at_send_command returns without effect; a    *)
(* serial buffer that overflows; commands hidden in parameters, for which  *)
(* see AtCommands.                                                         *)
(***************************************************************************)
EXTENDS Naturals, Sequences, SequencesExt

CONSTANTS
    Callers,          \* who may call
    Phonebook,        \* those saved in the modem's phonebook
    NoCaller,         \* the "from" of anything that is not a call of theirs
    Commands,         \* what the plugin may send
    MayRefuse,        \* which of dialling and answering the modem may refuse
    MaxCalls,         \* bound on incoming calls
    MaxCommands,      \* bound on commands of the plugin
    MaxKeepAlives,    \* bound on the keep-alive of loop()
    MaxRestarts,      \* bound on restarts of the board
    MaxUnread         \* bound on what is queued for or by a modem that rings on

ASSUME CallAssumption ==
    /\ Phonebook \subseteq Callers
    /\ NoCaller \notin Callers
    /\ Commands \subseteq {"ATD", "ATH", "PB_ONLY=0", "PB_ONLY=1",
                           "RNSTART", "RNSTOP", "query"}
    /\ MayRefuse \subseteq {"ATA", "ATD"}
    /\ MaxUnread \in Nat

VARIABLES
    \* the firmware
    call_in_progress,
    ACCEPT_ONLY_PB,
    recording_noise,
    task,             \* where taskloop is in its cycle
    input,            \* the chunk read last while a client waits
    \* the modem
    line,             \* its call
    second,           \* its other call: waiting, or put on hold
    toModem,          \* commands written to SerialAT
    fromModem,        \* messages not yet read from SerialAT
    \* the plugin and its TCP connection
    client,           \* where at_send_command is
    command,          \* the command it sends
    link,             \* its connection, as the board sees it
    reply,            \* what is in the connection for the plugin
    \* history and bounds
    misled,           \* something happened that parse_serial cannot see through
    used              \* how often each bounded event has happened

firmware == <<call_in_progress, ACCEPT_ONLY_PB, recording_noise, task, input>>
modem == <<line, second>>
plugin == <<client, command, link, reply>>
vars == <<firmware, modem, toModem, fromModem, plugin, misled, used>>

Ended == {"NO CARRIER", "BUSY", "NO ANSWER"}
(* The modem's messages.  RESULT is OK, ERROR or another word parse_serial does not
   look for: nothing depends on which, nor on whose command it answers.  "garbled"
   is a command with another in its middle. *)
AtCommands == Commands \union {"ATA", "AT+CHLD=2", "AT", "garbled"}
Messages == [says : {"RESULT", "RING"} \union Ended,
             from : Callers \union {NoCaller}]
Call == [state : {"none", "ringing", "dialling", "active", "waiting", "held"},
         from : Callers \union {NoCaller}]
NoCall == [state |-> "none", from |-> NoCaller]

TypeOK ==
    /\ call_in_progress \in {0, 1}
    /\ ACCEPT_ONLY_PB \in {0, 1}
    /\ recording_noise \in {0, 1}
    /\ task \in {"accept", "command", "window", "modem"}
    /\ input \in Seq(Messages)
    /\ line \in {c \in Call : c.state \notin {"waiting", "held"}}
    /\ second \in {c \in Call : c.state \in {"none", "waiting", "held"}}
    /\ toModem \in Seq(AtCommands)
    /\ fromModem \in Seq(Messages) /\ Len(fromModem) <= MaxUnread
    /\ client \in {"idle", "connected", "waiting"}
    /\ command \in Commands \union {"none"}
    /\ link \in {"none", "pending", "open", "lost"}
    /\ reply \in Seq(Messages)
    /\ misled \in BOOLEAN
    /\ used \in [{"call", "command", "keepalive", "restart"} -> Nat]

Init ==
    /\ call_in_progress = 0 /\ ACCEPT_ONLY_PB = 0 /\ recording_noise = 0
    /\ task = "accept" /\ input = <<>>
    /\ line = NoCall /\ second = NoCall
    /\ toModem = <<>> /\ fromModem = <<>>
    /\ client = "idle" /\ command = "none" /\ link = "none" /\ reply = <<>>
    /\ misled = FALSE
    /\ used = [e \in {"call", "command", "keepalive", "restart"} |-> 0]

Count(event, bound) ==
    /\ used[event] < bound
    /\ used' = [used EXCEPT ![event] = @ + 1]

-----------------------------------------------------------------------------
(* The plugin: at_send_command. *)

Connect(c) ==
    /\ client = "idle"
    /\ Count("command", MaxCommands)
    /\ client' = "connected"
    /\ command' = c
    /\ link' = "pending"
    /\ reply' = <<>>
    /\ UNCHANGED <<firmware, modem, toModem, fromModem, misled>>

Send ==
    /\ client = "connected"
    /\ client' = "waiting"
    /\ UNCHANGED <<firmware, modem, toModem, fromModem, command, link, reply,
                   misled, used>>

(* recv has no timeout: it returns with data or when the board closes. *)
Receive ==
    /\ client = "waiting"
    /\ reply # <<>> \/ link = "none"
    /\ client' = "idle"
    /\ link' = "none"
    /\ command' = "none"
    /\ reply' = <<>>
    /\ UNCHANGED <<firmware, modem, toModem, fromModem, misled, used>>

-----------------------------------------------------------------------------
(* The firmware: taskloop. *)

AcceptClient ==
    /\ task = "accept"
    /\ IF link = "pending"
       THEN link' = "open" /\ task' = "command"
       ELSE UNCHANGED link /\ task' = "modem"
    /\ UNCHANGED <<call_in_progress, ACCEPT_ONLY_PB, recording_noise, input,
                   modem, toModem, fromModem, client, command, reply, misled,
                   used>>

(* A chunk is the first k unread messages: the line was silent after them. *)
Chunk(k) == SubSeq(fromModem, 1, k)
Unread(k) == SubSeq(fromModem, k + 1, Len(fromModem))
Says(chunk, words) == \E i \in 1..Len(chunk) : chunk[i].says \in words

(* Mutant: the digit is read one character early, where the equals sign is. *)
ModeOffByOne ==
    IF command \in {"PB_ONLY=0", "PB_ONLY=1"} THEN 61 - 48 ELSE ACCEPT_ONLY_PB

ModeAfterCommand ==
    CASE command = "PB_ONLY=1" -> 1
      [] command = "PB_ONLY=0" -> 0
      [] OTHER -> ACCEPT_ONLY_PB

(* Commands the firmware understands take effect before, and besides, being
   passed to the modem. *)
ReadCommand ==
    /\ task = "command"
    /\ link = "open" /\ client = "waiting"
    /\ recording_noise' = CASE command = "RNSTART" -> 1
                            [] command = "RNSTOP" -> 0
                            [] OTHER -> recording_noise
    /\ call_in_progress' = IF command = "ATD" THEN 1 ELSE call_in_progress
    /\ ACCEPT_ONLY_PB' = ModeAfterCommand
    /\ toModem' = Append(toModem, command)
    /\ task' = "window"
    /\ UNCHANGED <<input, modem, fromModem, plugin, misled, used>>

(* Each chunk read in the window replaces the one before it, and none of them
   is ever shown to parse_serial. *)
ReadReply(k) ==
    /\ task = "window"
    /\ input' = Chunk(k)
    /\ fromModem' = Unread(k)
    /\ misled' = (misled \/ Says(Chunk(k), Ended))
    /\ UNCHANGED <<call_in_progress, ACCEPT_ONLY_PB, recording_noise, task,
                   modem, toModem, plugin, used>>

(* 100 ms without a message. *)
EndWindow ==
    /\ task = "window"
    /\ fromModem = <<>>
    /\ reply' = IF link = "open" /\ input # <<>> THEN input ELSE reply
    /\ input' = <<>>
    /\ task' = "modem"
    /\ UNCHANGED <<call_in_progress, ACCEPT_ONLY_PB, recording_noise, modem,
                   toModem, fromModem, client, command, link, misled, used>>

-----------------------------------------------------------------------------
(* The firmware: parse_serial. *)

(* It reads the name field behind the fourth comma of the chunk: that of the
   first caller reported in it. *)
check_caller_in_pb(chunk) ==
    LET first == SelectInSeq(chunk, LAMBDA m : m.says = "RING")
    IN  first # 0 /\ chunk[first].from \in Phonebook

MayAnswer(chunk) ==
    /\ Says(chunk, {"RING"})
    /\ ACCEPT_ONLY_PB = 1 => check_caller_in_pb(chunk)

(* The modem has gone on to another call, or is about to dial one. *)
AnotherCall == line # NoCall \/ Contains(toModem, "ATD")

(* Mutant: the words that end a call are not looked for. *)
FlagNeverCleared(chunk) == IF MayAnswer(chunk) THEN 1 ELSE call_in_progress

(* RING is searched for before the words that end a call, whatever their order
   in the chunk. *)
FlagAfter(chunk) ==
    CASE Says(chunk, Ended) -> 0
      [] ~Says(chunk, Ended) /\ MayAnswer(chunk) -> 1
      [] OTHER -> call_in_progress

ParseSerial(k) ==
    LET chunk == Chunk(k)
        answer == IF call_in_progress = 1 THEN "AT+CHLD=2" ELSE "ATA"
    IN  /\ task = "modem"
        /\ fromModem' = Unread(k)
        /\ toModem' = IF MayAnswer(chunk) THEN Append(toModem, answer)
                                          ELSE toModem
        /\ call_in_progress' = FlagAfter(chunk)
        /\ misled' = (misled \/ (Says(chunk, Ended) /\ AnotherCall))
        /\ UNCHANGED <<ACCEPT_ONLY_PB, recording_noise, task, input, modem,
                       plugin, used>>

(* Mutant: the connection outlives the round. *)
NextRoundKeepsClient ==
    /\ task = "modem"
    /\ fromModem = <<>>
    /\ task' = "accept"
    /\ UNCHANGED <<call_in_progress, ACCEPT_ONLY_PB, recording_noise, input,
                   modem, toModem, fromModem, plugin, misled, used>>

(* Nothing more to read: the WiFiClient object goes out of scope, which closes
   the connection, and the cycle begins again. *)
NextRound ==
    /\ task = "modem"
    /\ fromModem = <<>>
    /\ link' = IF link = "open" THEN "none" ELSE link
    /\ task' = "accept"
    /\ UNCHANGED <<call_in_progress, ACCEPT_ONLY_PB, recording_noise, input,
                   modem, toModem, fromModem, client, command, reply, misled,
                   used>>

(* taskloop writes a client's command character by character. *)
BeingWritten ==
    task = "window" /\ toModem # <<>> /\ toModem[Len(toModem)] \in Commands

(* The other task's keep-alive comes between two commands or into the middle of the
   one being written, which is then no command any more. *)
KeepAlive ==
    /\ Count("keepalive", MaxKeepAlives)
    /\ \/ toModem' = Append(toModem, "AT") /\ UNCHANGED misled
       \/ /\ BeingWritten
          /\ toModem' = [toModem EXCEPT ![Len(toModem)] = "garbled"]
          /\ misled' = (misled \/ toModem[Len(toModem)] = "ATD")
    /\ UNCHANGED <<firmware, modem, fromModem, plugin>>

(* The board restarts and restarts its modem.  A plugin that waits for its answer
   is not told; one that has yet to send is refused when it does. *)
Restart ==
    /\ Count("restart", MaxRestarts)
    /\ call_in_progress' = 0 /\ ACCEPT_ONLY_PB' = 0 /\ recording_noise' = 0
    /\ task' = "accept" /\ input' = <<>>
    /\ line' = NoCall /\ second' = NoCall
    /\ toModem' = <<>> /\ fromModem' = <<>>
    /\ link' = IF client = "waiting" /\ link # "none" THEN "lost" ELSE "none"
    /\ misled' = FALSE
    /\ UNCHANGED <<client, command, reply>>

-----------------------------------------------------------------------------
(* The modem. *)

Tell(message) ==
    /\ Len(fromModem) < MaxUnread
    /\ fromModem' = Append(fromModem, message)

Ring(c) == [says |-> "RING", from |-> c]
Report(words) == [says |-> words, from |-> NoCaller]

(* An answer meant for an earlier caller has not got to the modem yet. *)
AnswerPending == Contains(toModem, "ATA") \/ Contains(toModem, "AT+CHLD=2")

CallerRings(c) ==
    /\ Count("call", MaxCalls)
    /\ second = NoCall
    /\ \/ line = NoCall /\ line' = [state |-> "ringing", from |-> c]
                        /\ UNCHANGED second
       \/ line.state = "active" /\ second' = [state |-> "waiting", from |-> c]
                                /\ UNCHANGED line
    /\ Tell(Ring(c))
    /\ misled' = (misled \/ AnswerPending)
    /\ UNCHANGED <<firmware, toModem, plugin>>

(* RING is repeated for as long as the caller waits. *)
RingAgain ==
    /\ ~Says(fromModem, {"RING"}) /\ Len(toModem) < MaxUnread
    /\ \/ line.state = "ringing" /\ Tell(Ring(line.from))
       \/ second.state = "waiting" /\ Tell(Ring(second.from))
    /\ UNCHANGED <<firmware, modem, toModem, plugin, misled, used>>

(* What becomes of the modem's other call when the first is over. *)
Promoted ==
    CASE second.state = "waiting" -> [second EXCEPT !.state = "ringing"]
      [] second.state = "held" -> [second EXCEPT !.state = "active"]
      [] OTHER -> NoCall

(* The other side gives up or hangs up.  With two calls, nothing says which. *)
CallEnds ==
    /\ \/ line.state \in {"ringing", "active"} /\ line' = Promoted
       \/ second # NoCall /\ UNCHANGED line
    /\ second' = NoCall
    /\ Tell(Report("NO CARRIER"))
    /\ UNCHANGED <<firmware, toModem, plugin, misled, used>>

DialAnswered ==
    /\ line.state = "dialling"
    /\ line' = [line EXCEPT !.state = "active"]
    /\ UNCHANGED <<firmware, second, toModem, fromModem, plugin, misled, used>>

DialFails(why) ==
    /\ line.state = "dialling"
    /\ line' = NoCall
    /\ Tell(Report(why))
    /\ UNCHANGED <<firmware, second, toModem, plugin, misled, used>>

(* The modem takes back nothing taskloop has done: call_in_progress has been set for
   the dial or the answer, and no word of this tells it otherwise. *)
Refuse ==
    /\ Tell(Report("RESULT"))
    /\ UNCHANGED modem
    /\ misled' = (misled \/ line.state \in {"none", "ringing"})

(* A caller who has given up cannot be answered. *)
ExecuteATA ==
    \/ /\ line.state = "ringing"
       /\ line' = [line EXCEPT !.state = "active"]
       /\ Tell(Report("RESULT"))
       /\ UNCHANGED <<second, misled>>
    \/ /\ line = NoCall
       /\ Tell(Report("NO CARRIER"))
       /\ UNCHANGED <<modem, misled>>
    \/ /\ line.state \in {"dialling", "active"} \/ "ATA" \in MayRefuse
       /\ Refuse

(* AT+CHLD=2 is defined for a waiting or held call; whether it also takes a
   call that merely rings is left open. *)
ExecuteCHLD ==
    /\ UNCHANGED misled
    /\ \/ /\ second # NoCall
          /\ line' = [second EXCEPT !.state = "active"]
          /\ second' = [line EXCEPT !.state = "held"]
          /\ Tell(Report("RESULT"))
       \/ /\ second = NoCall /\ line.state = "ringing"
          /\ line' = [line EXCEPT !.state = "active"]
          /\ UNCHANGED second
          /\ Tell(Report("RESULT"))
       \/ /\ second = NoCall
          /\ UNCHANGED modem
          /\ Tell(Report("RESULT"))

(* There is no service, or the number is none; or there is a call already. *)
ExecuteATD ==
    \/ /\ line = NoCall
       /\ line' = [state |-> "dialling", from |-> NoCaller]
       /\ Tell(Report("RESULT"))
       /\ UNCHANGED <<second, misled>>
    \/ /\ line # NoCall \/ "ATD" \in MayRefuse
       /\ Refuse

ExecuteATH ==
    /\ line' = NoCall
    /\ second' = NoCall
    /\ Tell(Report("RESULT"))
    /\ misled' = (misled \/ line.state \in {"dialling", "active"})

(* Names and texts that the modem lists may hold the words taskloop looks for; of
   those that end a call one stands for all. *)
ExecuteQuery ==
    \E words \in {"RESULT", "RING", "BUSY"} :
        /\ Tell(Report(words))
        /\ UNCHANGED <<modem, misled>>

Execute ==
    /\ toModem # <<>>
    /\ toModem' = Tail(toModem)
    /\ CASE Head(toModem) = "ATA" -> ExecuteATA
         [] Head(toModem) = "AT+CHLD=2" -> ExecuteCHLD
         [] Head(toModem) = "ATD" -> ExecuteATD
         [] Head(toModem) = "ATH" -> ExecuteATH
         [] Head(toModem) = "query" -> ExecuteQuery
         [] OTHER ->
              Tell(Report("RESULT")) /\ UNCHANGED <<modem, misled>>
    /\ UNCHANGED <<firmware, plugin, used>>

-----------------------------------------------------------------------------
ReadSerial == \E k \in 1..Len(fromModem) : ReadReply(k) \/ ParseSerial(k)

(* readString that finds the line silent after the last message. *)
ReadAll ==
    /\ fromModem # <<>>
    /\ ReadReply(Len(fromModem)) \/ ParseSerial(Len(fromModem))

Next ==
    \/ \E c \in Commands : Connect(c)
    \/ Send
    \/ Receive
    \/ AcceptClient
    \/ ReadCommand
    \/ ReadSerial
    \/ EndWindow
    \/ NextRound
    \/ KeepAlive
    \/ Restart
    \/ \E c \in Callers : CallerRings(c)
    \/ RingAgain
    \/ CallEnds
    \/ DialAnswered
    \/ \E why \in Ended : DialFails(why)
    \/ Execute

Spec == Init /\ [][Next]_vars

(* The plugin's call and the firmware's task run on; the modem works through its
   commands and goes on ringing.  RING comes only every few seconds, so now and
   then a chunk ends with the last message, and the line is silent when taskloop
   looks: hence ReadAll, and strong fairness for the steps that wait for
   silence. *)
FairSpec ==
    /\ Spec
    /\ WF_vars(Send) /\ WF_vars(Receive)
    /\ WF_vars(AcceptClient) /\ WF_vars(ReadCommand) /\ WF_vars(ReadAll)
    /\ SF_vars(EndWindow) /\ SF_vars(NextRound)
    /\ WF_vars(Execute) /\ WF_vars(RingAgain)

-----------------------------------------------------------------------------
(* Everything said and written has been dealt with. *)
Quiet == task = "accept" /\ toModem = <<>> /\ fromModem = <<>>

(* When all is quiet, call_in_progress tells whether there is a call, unless one
   of seven things happened: the words that tell the end of a call were read inside a
   command's window; they were parsed while the modem had another call; a new caller
   rang before the answer to an earlier one got to the modem; the plugin hung up;
   the plugin dialled while the phone rang; the modem refused to dial or to answer;
   the keep-alive spoilt a dial (SIMutils.cpp:34-53, main.ino:279-326, 397).  That an
   answer to the plugin may hold the words parse_serial looks for is no eighth. *)
FlagTellsCall ==
    Quiet /\ ~misled
    => (call_in_progress = 1 <=> line.state \in {"dialling", "active"})

(* at_send_command returns (at_commands.c:340-387): whatever callers and the modem
   do meanwhile, taskloop gets to the client and lets go of it; also across a
   restart of the board, unless that comes between send and the reply, when recv,
   which has no timeout, is left with a connection nobody will close. *)
CommandReturns == client = "waiting" ~> client = "idle" \/ link = "lost"

(* A caller who goes on ringing and is in the phonebook is taken off the hook
   unless taskloop has been misled: a RING that is swallowed by a command's
   window, or that shares a chunk with another caller's, is made up for by the
   next one (SIMutils.cpp:38-47). *)
KnownCallerServed ==
    line.state = "ringing" /\ line.from \in Phonebook /\ ~misled
    ~> line.state # "ringing" \/ line.from \notin Phonebook \/ misled

(* README.md:165 says: "The firmware is configured to automatically answer
   incoming calls (`ATA`)".  A caller who goes on ringing gets an ATA. *)
IncomingCallsAnswered ==
    line.state = "ringing"
    ~> "ATA" \in {toModem[i] : i \in 1..Len(toModem)} \/ line.state # "ringing"
=============================================================================
