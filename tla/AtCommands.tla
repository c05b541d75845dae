------------------------------- MODULE AtCommands -------------------------------
(***************************************************************************)
(* Chat commands and what they do to the modem.  A line of chat that       *)
(* begins with the keyword is a request (onTextMessageEvent, plugin.c);    *)
(* at_process_command (at_commands.c) finds what it asks for and sends the *)
(* modem one or several AT commands, each over a connection of its own.    *)
(* The result of at_send_command is ignored, so a request goes on when one *)
(* of its commands gets lost.                                              *)
(*                                                                         *)
(* The modem (external) keeps the modes it has been put into, and after    *)
(* AT+CMGS takes whatever it is sent for the text of a message.  The board *)
(* adds a keep-alive of its own to what it forwards; CallControl has the   *)
(* details of forwarding.                                                  *)
(*                                                                         *)
(* A request's number stands for the names, numbers and texts it is made   *)
(* with; whether they are fit to be put into a command is a choice.  Left  *)
(* out: memory corruption by utf8_to_ucs2_encoder, commands that TCP       *)
(* delivers in parts, and what the board's debugging console writes.       *)
(***************************************************************************)
EXTENDS Naturals, Sequences, FiniteSets

CONSTANTS
    Requests,         \* what may be asked in the chat
    Settings,         \* the sets of permissions settings.ini may give
    MaxRequests,      \* bound on requests
    MaxFailures,      \* bound on connections that fail
    MaxKeepAlives,    \* bound on keep-alives
    MaxRestarts       \* bound on restarts of the board, and with it the modem

Permissions == {"create contacts", "delete contacts", "send sms", "delete sms",
                "make call"}

CrudWords == {"phonebook", "text"}
Words == CrudWords \union {"call", "hang", "network", "pb_mode", "mynumber",
                           "noise", "help", "other"}
Verbs == {"create", "read", "update", "delete", "send", "other"}

(* A request: its first word, the number of its parameters (from the fourth on they
   count as one), what the first of them says, and whether the third is one of
   the names of a list of messages. *)
Request == [word : Words, n : 0..4, verb : Verbs, known : BOOLEAN]

(* The commands, as far as they differ.  "unknown" is a buffer nothing was written
   to; CRASH is no command but the end of TeamSpeak.  "altered" is one whose parameter
   is more than it should be: a quote, comma, semicolon or line break in it goes
   into the command as it is. *)
At == {"CPBW", "CPBW delete", "CPBR", "CMGD", "CMGR", "CMGL", "CMGF=1",
       "CSCS=UCS2", "CSCS=GSM", "CMGS", "TEXT", "stray TEXT", "cut TEXT", "long TEXT",
       "CSQ", "CREG?", "COPS?", "ATD", "ATH", "PB_ONLY", "CNUM", "RNSTART", "AT",
       "altered", "unknown", "CRASH"}

(* Texts that end with the character 26: the request's, one from another place in the
   line or behind it, and one the encoder gave up, or gave up the number of, at a
   character that UCS-2 does not have.  A long one (over 255 characters) loses its
   end, for the board reads 1024 bytes and no more. *)
Texts == {"TEXT", "stray TEXT", "cut TEXT"}
AllTexts == Texts \union {"long TEXT"}

(* What is not what the request asks for. *)
Distorted == {"altered", "stray TEXT", "cut TEXT", "long TEXT"}

ASSUME RequestAssumption ==
    /\ Requests \subseteq Request
    /\ Settings \subseteq SUBSET Permissions
    /\ MaxRequests \in Nat

VARIABLES
    \* the plugin
    allowed,          \* the permissions of settings.ini
    request,          \* the number of the latest request
    asked,            \* that request
    phase,            \* what at_process_command does about it
    todo,             \* the commands it has yet to send
    reply,            \* what output is
    failed,           \* history: a command of the request failed
    \* the modem
    toModem,          \* commands written to SerialAT and not executed yet
    textMode, charset,
    prompt,           \* the CMGS whose text the modem waits for, or 0
    typed,            \* what it has got of that text
    sent,             \* the message it sent last
    done,             \* what has been done that needs a permission, or "anything"
    \* history and bounds
    disturbed,        \* something came between a text and its being sent
    used

plugin == <<allowed, request, asked, phase, todo, reply, failed>>
modes == <<textMode, charset>>
modem == <<modes, prompt, typed, sent, done>>
vars == <<plugin, toModem, modem, disturbed, used>>

(* A command on its way: whose request it belongs to (0: the board's), and whether
   the other task wrote into the middle of it. *)
Item == [at : At, of : 0..MaxRequests, whole : BOOLEAN]
Charsets == {"default", "GSM", "UCS2"}
Message == [to : 0..MaxRequests, ucs2 : BOOLEAN, text : Seq(Item)]
NoMessage == [to |-> 0, ucs2 |-> FALSE, text |-> <<>>]
NoRequest == [word |-> "other", n |-> 0, verb |-> "other", known |-> FALSE]

TypeOK ==
    /\ allowed \in Settings
    /\ request \in 0..MaxRequests
    /\ asked \in Requests \union {NoRequest}
    /\ phase \in {"idle", "busy", "recording", "crashed"}
    /\ todo \in Seq(At)
    /\ reply \in {"none", "answer", "undefined"}
    /\ failed \in BOOLEAN
    /\ toModem \in Seq(Item)
    /\ textMode \in BOOLEAN
    /\ charset \in Charsets
    /\ prompt \in 0..MaxRequests
    /\ typed \in Seq(Item)
    /\ sent \in Message
    /\ done \subseteq Permissions \union {"anything"}
    /\ disturbed \in BOOLEAN
    /\ used \in [{"failure", "keepalive", "restart"} -> Nat]

Init ==
    /\ allowed \in Settings
    /\ request = 0 /\ asked = NoRequest
    /\ phase = "idle" /\ todo = <<>> /\ reply = "none" /\ failed = FALSE
    /\ toModem = <<>>
    /\ textMode = FALSE /\ charset = "default"
    /\ prompt = 0 /\ typed = <<>> /\ sent = NoMessage
    /\ done = {}
    /\ disturbed = FALSE
    /\ used = [e \in {"failure", "keepalive", "restart"} |-> 0]

Count(event, bound) ==
    /\ used[event] < bound
    /\ used' = [used EXCEPT ![event] = @ + 1]

-----------------------------------------------------------------------------
(* at_process_command: what is done about which request.  A row says for which
   word, verb and number of parameters it stands, which permission it needs,
   which commands it sends, and where the reply comes from.  Several sequences of
   commands are the outcomes of undefined behaviour and of what the parameters are. *)

Row(word, verbs, n, needs, scripts, replies) ==
    [word |-> word, verbs |-> verbs, n |-> n, needs |-> needs,
     scripts |-> scripts, replies |-> replies]

(* Mutant: the text is sent in the character set the modem is in. *)
TextModeOnly(UCS2) == <<"CMGF=1">>

(* at_set_text_mode. *)
TextMode(UCS2) == <<"CMGF=1", IF UCS2 THEN "CSCS=UCS2" ELSE "CSCS=GSM">>

(* Mutants of at_text_create: no end of the list, text first. *)
TextWithoutEnd(text) == <<"CMGS", text, "no end">>
TextFirst(text) == <<text, "CMGS">>

at_text_create(text) == <<"CMGS", text>>

(* A command that parameters are pasted into; nothing looks at what is in them. *)
Pasted(at) == {<<at>>, <<"altered">>}

(* phonebook_api.update is a null pointer. *)
PhonebookRows == {
    Row("phonebook", {"create"}, {3, 4}, {"create contacts"}, Pasted("CPBW"), "last"),
    Row("phonebook", {"update"}, {3}, {"create contacts"}, {<<"CRASH">>}, "none"),
    Row("phonebook", {"read"}, {3}, {}, Pasted("CPBR"), "last"),
    Row("phonebook", {"delete"}, {2}, {"delete contacts"}, Pasted("CPBW delete"), "last")}

(* Number and text are encoded.  The encoder returns a null pointer if there is
   nothing it can encode before the end or the first character it cannot. *)
Sending(texts) ==
    {TextMode(TRUE) \o at_text_create(t) : t \in texts}
    \union {TextMode(TRUE) \o <<"CRASH">>}

(* The text is taken from where the line goes on if there is one space between the
   words; if the line does not go on, that is behind its end. *)
TextRows == {
    Row("text", {"delete"}, 2..4, {"delete sms"}, Pasted("CMGD"), "last"),
    Row("text", {"send"}, 3..4, {"send sms"}, Sending(AllTexts), "none"),
    Row("text", {"send"}, {2}, {"send sms"}, Sending({"stray TEXT", "long TEXT"}), "none"),
    Row("text", {"read"}, {2}, {}, {TextMode(FALSE) \o s : s \in Pasted("CMGR")}, "last"),
    Row("text", {"read"}, 3..4, {}, {TextMode(FALSE) \o <<"CMGL">>}, "last")}

(* at_help reads 700 of the 702 bytes of at_help.txt and does not terminate them;
   it crashes where the file is not in the working directory. *)
OtherRows == {
    Row("call", Verbs, 1..4, {"make call"}, Pasted("ATD"), "none"),
    Row("hang", Verbs, 0..4, {}, {<<"ATH">>}, "none"),
    Row("network", Verbs, 0..4, {}, {<<"CSQ", "CREG?", "COPS?">>}, "all"),
    Row("pb_mode", Verbs, 1..4, {}, {<<"PB_ONLY">>}, "none"),
    Row("mynumber", Verbs, 0..4, {}, {<<"CNUM">>}, "last"),
    Row("noise", Verbs, 0..4, {}, {<<"RNSTART">>}, "none"),
    Row("help", Verbs, 0..4, {}, {<<>>, <<"CRASH">>}, "file")}

Rows == PhonebookRows \union TextRows \union OtherRows

Matches(r) == {h \in Rows : h.word = r.word /\ r.verb \in h.verbs /\ r.n \in h.n}

(* Mutant: the permissions are not looked at. *)
HandlersUnchecked(r) == Matches(r)

Handlers(r) == {h \in Matches(r) : h.needs \subseteq allowed}

(* at_text_read writes nothing for a list it does not know. *)
Written(r, script) ==
    [i \in DOMAIN script |->
        IF script[i] = "CMGL" /\ ~r.known THEN "unknown" ELSE script[i]]

IsTextSend(r) == r.word = "text" /\ r.verb = "send"

-----------------------------------------------------------------------------
(* The plugin. *)

(* A line of chat begins with the keyword.  Whatever has disturbed an earlier text
   is over when the modem is back to commands, unless it was made to do something
   that nobody knows. *)
NextRequest(r) ==
    /\ phase = "idle"
    /\ request < MaxRequests
    /\ request' = request + 1
    /\ asked' = r
    /\ failed' = FALSE
    /\ disturbed' = (disturbed /\ (prompt # 0 \/ toModem # <<>> \/ "anything" \in done))
    /\ UNCHANGED <<allowed, toModem, modem, used>>

(* Nothing is done, and the chat is not told. *)
Refuse(r) ==
    /\ NextRequest(r)
    /\ Handlers(r) = {}
    /\ reply' = "none"
    /\ UNCHANGED <<phase, todo>>

Handle(r) ==
    /\ NextRequest(r)
    /\ \E h \in Handlers(r) : \E script \in h.scripts :
        /\ todo' = Written(r, script)
        /\ phase' = IF script = <<>> THEN "idle" ELSE "busy"
        /\ reply' = IF h.replies = "file" THEN "undefined" ELSE "none"

Replies == (CHOOSE h \in Handlers(asked) : TRUE).replies

(* Mutant: the outputs of the network command are taken as they are. *)
ReplyOfLast(answered) ==
    IF answered /\ Len(todo) = 1 THEN "answer" ELSE reply

(* What output is after the next command.  The network command puts together what
   its three commands left, or what was in memory in their place. *)
ReplyAfter(answered) ==
    CASE Replies = "last" /\ Len(todo) = 1 /\ answered -> "answer"
      [] Replies = "all" /\ ~answered -> "undefined"
      [] Replies = "all" /\ answered /\ Len(todo) = 1 /\ ~failed -> "answer"
      [] OTHER -> reply

(* record_noise waits for samples that no code counts: it waits for ever.  What was
   in memory need not be the address of a string. *)
PhasesAfter(answered) ==
    CASE Len(todo) > 1 -> {"busy"}
      [] todo = <<"RNSTART">> -> {"recording"}
      [] Len(todo) = 1 /\ ReplyAfter(answered) = "undefined" -> {"idle", "crashed"}
      [] OTHER -> {"idle"}

(* at_send_command comes to an end, and the request goes on whatever came of it. *)
CommandDone(answered) ==
    /\ phase = "busy" /\ Head(todo) # "CRASH"
    /\ reply' = ReplyAfter(answered)
    /\ failed' = (failed \/ ~answered)
    /\ todo' = Tail(todo)
    /\ phase' \in PhasesAfter(answered)
    /\ UNCHANGED <<allowed, request, asked, modem>>

Delivered ==
    /\ toModem' = Append(toModem, [at |-> Head(todo), of |-> request, whole |-> TRUE])
    /\ disturbed' = (disturbed \/ Head(todo) \in Distorted)

Answered ==
    /\ CommandDone(TRUE)
    /\ Delivered
    /\ UNCHANGED used

(* recv fails: the board has the command all the same. *)
Unanswered ==
    /\ CommandDone(FALSE)
    /\ Count("failure", MaxFailures)
    /\ Delivered

(* connect or send fails. *)
Lost ==
    /\ CommandDone(FALSE)
    /\ Count("failure", MaxFailures)
    /\ disturbed' = (disturbed \/ IsTextSend(asked))
    /\ UNCHANGED toModem

Crash ==
    /\ phase = "busy" /\ Head(todo) = "CRASH"
    /\ phase' = "crashed"
    /\ UNCHANGED <<allowed, request, asked, todo, reply, failed, toModem, modem,
                   disturbed, used>>

-----------------------------------------------------------------------------
(* The board. *)

TextCommands == {"CMGF=1", "CSCS=UCS2", "CMGS"} \union AllTexts

Waiting(ats) == Cardinality({i \in DOMAIN toModem : toModem[i].at \in ats})

(* By the time it gets to the end of its queue the modem waits for a text. *)
PromptAhead ==
    Waiting({"CMGS"}) + (IF prompt # 0 THEN 1 ELSE 0) > Waiting(Texts)

(* Every minute loop() writes AT to the modem, wherever taskloop is, which writes
   commands character by character.  What taskloop itself writes in between, the
   answer to a caller (parse_serial), comes whole like the first of these. *)
KeepAlive ==
    /\ Count("keepalive", MaxKeepAlives)
    /\ \/ /\ toModem' = Append(toModem, [at |-> "AT", of |-> 0, whole |-> TRUE])
          /\ disturbed' = (disturbed \/ PromptAhead)
       \/ /\ toModem # <<>>
          /\ toModem' = [toModem EXCEPT ![Len(toModem)].whole = FALSE]
          /\ disturbed' = (disturbed \/ toModem[Len(toModem)].at \in TextCommands)
    /\ UNCHANGED <<plugin, modem>>

(* setup() restarts the modem, too. *)
Restart ==
    /\ Count("restart", MaxRestarts)
    /\ toModem' = <<>>
    /\ textMode' = FALSE /\ charset' = "default"
    /\ prompt' = 0 /\ typed' = <<>>
    /\ disturbed' = (disturbed \/ prompt # 0 \/ Waiting(TextCommands) > 0
                     \/ (phase = "busy" /\ IsTextSend(asked)))
    /\ UNCHANGED <<plugin, sent, done>>

-----------------------------------------------------------------------------
(* The modem. *)

(* What a command that was not executed in a prompt does to the modes. *)
SetMode(at) ==
    /\ textMode' = (textMode \/ at = "CMGF=1")
    /\ charset' = CASE at = "CSCS=UCS2" -> "UCS2"
                    [] at = "CSCS=GSM" -> "GSM"
                    [] OTHER -> charset

(* What a command does that needs a permission. *)
Needs(at) ==
    {p \in Permissions : <<at, p>> \in {<<"CPBW", "create contacts">>,
                                        <<"CPBW delete", "delete contacts">>,
                                        <<"CMGD", "delete sms">>,
                                        <<"ATD", "make call">>}}

(* The modem may refuse a command, and does so with one that has something else in its
   middle.  A text that nothing has asked for is an error, and so is a CMGS with
   quotes outside of text mode. *)
ExecuteCommand(item) ==
    /\ prompt = 0
    /\ \/ /\ item.whole
          /\ SetMode(item.at)
          /\ prompt' = IF item.at = "CMGS" /\ textMode THEN item.of ELSE 0
          /\ done' = done \union Needs(item.at)
          /\ UNCHANGED disturbed
       \/ /\ disturbed' = (disturbed \/ item.at \in TextCommands)
          /\ UNCHANGED <<modes, prompt, done>>
    /\ UNCHANGED <<typed, sent>>

(* The character 26 at the end of a text sends all that has been typed, unless the
   modem refuses it, for its length or for want of a network. *)
SubmitText(item) ==
    /\ prompt # 0
    /\ item.at \in Texts
    /\ \/ /\ sent' = [to |-> prompt, ucs2 |-> charset = "UCS2", text |-> Append(typed, item)]
          /\ done' = done \union {"send sms"}
          /\ UNCHANGED disturbed
       \/ /\ disturbed' = TRUE
          /\ UNCHANGED <<sent, done>>
    /\ prompt' = 0 /\ typed' = <<>>
    /\ UNCHANGED modes

(* Everything else is typed. *)
SwallowCommand(item) ==
    /\ prompt # 0
    /\ item.at \notin Texts
    /\ typed' = Append(typed, item)
    /\ UNCHANGED <<modes, prompt, sent, done, disturbed>>

(* What a parameter adds may be any command, or the end of a text or of its entry. *)
ExecuteAltered(item) ==
    /\ textMode' \in BOOLEAN /\ charset' \in Charsets
    /\ prompt' \in {0, prompt, item.of}
    /\ typed' = IF prompt' = 0 THEN <<>> ELSE Append(typed, item)
    /\ sent' \in {sent, NoMessage}
    /\ done' = done \union {"anything"}
    /\ UNCHANGED disturbed

Execute ==
    /\ toModem # <<>>
    /\ LET item == Head(toModem)
       IN  IF item.at = "altered"
           THEN ExecuteAltered(item)
           ELSE ExecuteCommand(item) \/ SubmitText(item) \/ SwallowCommand(item)
    /\ toModem' = Tail(toModem)
    /\ UNCHANGED <<plugin, used>>

-----------------------------------------------------------------------------
Next ==
    \/ \E r \in Requests : Refuse(r) \/ Handle(r)
    \/ Answered
    \/ Unanswered
    \/ Lost
    \/ Crash
    \/ KeepAlive
    \/ Restart
    \/ Execute

Spec == Init /\ [][Next]_vars

-----------------------------------------------------------------------------
(* A message consists of the text of one request, all of it and nothing else, in the
   character set it is written in, and goes to the number of that request. *)
Intact(message) ==
    /\ message.ucs2
    /\ message.text = <<[at |-> "TEXT", of |-> message.to, whole |-> TRUE]>>

(* The four commands of a text (at_commands.c:518-533) make the modem send that text,
   in whatever modes earlier requests left it, unless
   - the text was not taken from the line it is in (at_commands.c:456),
   - the encoder stopped in it or in the number (at_commands.c:75),
   - it was longer than the board reads (main.ino:262),
   - one of the commands got lost, or the modem refused one of them or the text,
   - something else came into one of them, or between CMGS and the text,
   - the board restarted, or
   - a parameter has made the modem do anything at all (at_commands.c:20-48, 135, 170).
   None of these can be left out. *)
TextAsTyped == [][sent' # sent => disturbed \/ Intact(sent')]_vars

(* Under the same conditions the text is sent: when the request is over and
   the modem has worked off its commands, the newest message is the request's. *)
TextIsSent ==
    /\ phase = "idle" /\ toModem = <<>> /\ ~disturbed
    /\ IsTextSend(asked) /\ Handlers(asked) # {}
    => sent.to = request

(* As long as the parameters of requests are no more than they should be, all that
   the modem does that needs a permission has been permitted, whatever else goes
   wrong (the tests of allow_... in at_process_command).  It is no promise against
   parameters that are more: those reach the modem from every request, also one
   that needs no permission (at_commands.c:39). *)
OnlyWhatIsPermitted == "anything" \in done \/ done \subseteq allowed

(* A query whose commands were answered has a reply; one that puts together
   several answers has none to rely on if one is missing (at_commands.c:573-588). *)
ReplyTellsAnswers ==
    phase = "idle" /\ Handlers(asked) # {} =>
        /\ Replies \in {"last", "all"} /\ ~failed => reply = "answer"
        /\ Replies = "all" /\ failed => reply = "undefined"
=============================================================================
