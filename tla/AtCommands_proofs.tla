-------------------------- MODULE AtCommands_proofs --------------------------
(***************************************************************************)
(* Theorems about AtCommands, for any set of requests and of settings and  *)
(* any number of requests, failures, keep-alives and restarts.             *)
(***************************************************************************)
EXTENDS AtCommands, FiniteSetTheorems, SequenceTheorems, TLAPS

(* What a command does that needs a permission, in a prompt or not. *)
Effects(at) == Needs(at) \union (IF at \in Texts THEN {"send sms"} ELSE {})

(* No command on its way does what is not permitted, whatever state it will find the
   modem in. *)
PermittedAhead ==
    /\ \A i \in 1..Len(todo) : Effects(todo[i]) \subseteq allowed
    /\ \A i \in 1..Len(toModem) : Effects(toModem[i].at) \subseteq allowed

BusyWithSomething == phase = "busy" => todo # <<>>

(* The inductive invariant. *)
IInv == TypeOK /\ PermittedAhead /\ BusyWithSomething /\ OnlyWhatIsPermitted

-----------------------------------------------------------------------------
(* What the rows of at_process_command's dispatch say. *)

(* Scripts consist of commands, and do nothing that their row does not need. *)
GoodScript(script, needs) ==
    /\ script \in Seq(At)
    /\ \A i \in 1..Len(script) : Effects(script[i]) \subseteq needs

Harmless == {"CRASH", "CPBR", "CMGR", "CMGL", "CMGF=1", "CSCS=UCS2", "CSCS=GSM",
             "CMGS", "CSQ", "CREG?", "COPS?", "ATH", "PB_ONLY", "CNUM", "RNSTART",
             "AT", "altered", "long TEXT", "unknown"}

LEMMA HarmlessCommands == \A c \in Harmless : c \in At /\ Effects(c) = {}
  <1>1. ASSUME NEW c \in Harmless
        PROVE  c \in At /\ c \notin Texts /\ Needs(c) = {}
    BY <1>1 DEF Harmless, At, Texts, Needs
  <1> QED
    BY <1>1 DEF Effects

LEMMA OtherCommands ==
    /\ Effects("CPBW") \subseteq {"create contacts"} /\ "CPBW" \in At
    /\ Effects("CPBW delete") \subseteq {"delete contacts"} /\ "CPBW delete" \in At
    /\ Effects("CMGD") \subseteq {"delete sms"} /\ "CMGD" \in At
    /\ Effects("ATD") \subseteq {"make call"} /\ "ATD" \in At
    /\ \A t \in Texts : Effects(t) \subseteq {"send sms"} /\ t \in At
  BY DEF Effects, Needs, Texts, At

LEMMA OneCommand ==
    ASSUME NEW c \in At, NEW needs, Effects(c) \subseteq needs
    PROVE  GoodScript(<<c>>, needs)
  BY DEF GoodScript

LEMMA HarmlessCommand ==
    ASSUME NEW c \in Harmless, NEW needs
    PROVE  GoodScript(<<c>>, needs)
  BY HarmlessCommands, OneCommand

LEMMA TwoCommands ==
    ASSUME NEW c \in At, NEW d \in At, NEW needs,
           Effects(c) \subseteq needs, Effects(d) \subseteq needs
    PROVE  GoodScript(<<c, d>>, needs)
  BY DEF GoodScript

LEMMA OneAfterTheOther ==
    ASSUME NEW needs, NEW s, NEW t, GoodScript(s, needs), GoodScript(t, needs)
    PROVE  GoodScript(s \o t, needs)
  <1>1. s \in Seq(At) /\ t \in Seq(At) /\ Len(s) \in Nat /\ Len(t) \in Nat
    BY DEF GoodScript
  <1>2. /\ s \o t \in Seq(At)
        /\ Len(s \o t) = Len(s) + Len(t)
        /\ \A i \in 1..Len(s) + Len(t) :
             (s \o t)[i] = IF i <= Len(s) THEN s[i] ELSE t[i - Len(s)]
    BY <1>1, ConcatProperties
  <1>3. ASSUME NEW i \in 1..Len(s \o t)
        PROVE  Effects((s \o t)[i]) \subseteq needs
    <2>1. CASE i <= Len(s)
      <3>1. i \in 1..Len(s) /\ (s \o t)[i] = s[i]
        BY <1>1, <1>2, <2>1
      <3> QED
        BY <3>1 DEF GoodScript
    <2>2. CASE ~(i <= Len(s))
      <3>1. i - Len(s) \in 1..Len(t) /\ (s \o t)[i] = t[i - Len(s)]
        BY <1>1, <1>2, <2>2
      <3> QED
        BY <3>1 DEF GoodScript
    <2> QED
      BY <2>1, <2>2
  <1> QED
    BY <1>2, <1>3 DEF GoodScript

LEMMA TextModeGood ==
    ASSUME NEW needs, NEW UCS2 \in BOOLEAN
    PROVE  GoodScript(TextMode(UCS2), needs)
  <1>1. \A c \in Harmless : GoodScript(<<"CMGF=1", c>>, needs)
    BY TwoCommands, HarmlessCommands DEF Harmless
  <1> QED
    BY <1>1 DEF TextMode, Harmless

GoodRow(h) == \A script \in h.scripts : GoodScript(script, h.needs)

LEMMA RowOfOne ==
    ASSUME NEW word, NEW verbs, NEW n, NEW needs, NEW replies,
           NEW s, GoodScript(s, needs)
    PROVE  GoodRow(Row(word, verbs, n, needs, {s}, replies))
  BY DEF GoodRow, Row

LEMMA RowOfTwo ==
    ASSUME NEW word, NEW verbs, NEW n, NEW needs, NEW replies,
           NEW s, GoodScript(s, needs), NEW t, GoodScript(t, needs)
    PROVE  GoodRow(Row(word, verbs, n, needs, {s, t}, replies))
  BY DEF GoodRow, Row

LEMMA RowOfAll ==
    ASSUME NEW word, NEW verbs, NEW n, NEW needs, NEW replies, NEW scripts,
           \A s \in scripts : GoodScript(s, needs)
    PROVE  GoodRow(Row(word, verbs, n, needs, scripts, replies))
  BY DEF GoodRow, Row

(* That parameters are more than they should be is not the row's doing. *)
LEMMA PastedGood ==
    ASSUME NEW c \in At, NEW needs, Effects(c) \subseteq needs
    PROVE  \A s \in Pasted(c) : GoodScript(s, needs)
  <1>1. GoodScript(<<c>>, needs)
    BY OneCommand
  <1>2. GoodScript(<<"altered">>, needs)
    BY HarmlessCommand DEF Harmless
  <1> QED
    BY <1>1, <1>2 DEF Pasted

LEMMA PhonebookRowsGood ==
    \A h \in PhonebookRows : GoodRow(h)
  <1>1. \A s \in Pasted("CPBW") : GoodScript(s, {"create contacts"})
    BY OtherCommands, PastedGood
  <1>2. \A s \in Pasted("CPBW delete") : GoodScript(s, {"delete contacts"})
    BY OtherCommands, PastedGood
  <1>3. /\ GoodScript(<<"CRASH">>, {"create contacts"})
        /\ \A s \in Pasted("CPBR") : GoodScript(s, {})
    <2>1. "CPBR" \in At /\ Effects("CPBR") \subseteq {}
      BY HarmlessCommands DEF Harmless
    <2> QED
      BY <2>1, PastedGood, HarmlessCommand DEF Harmless
  <1>4. /\ GoodRow(Row("phonebook", {"create"}, {3, 4}, {"create contacts"},
                       Pasted("CPBW"), "last"))
        /\ GoodRow(Row("phonebook", {"update"}, {3}, {"create contacts"},
                       {<<"CRASH">>}, "none"))
        /\ GoodRow(Row("phonebook", {"read"}, {3}, {}, Pasted("CPBR"), "last"))
        /\ GoodRow(Row("phonebook", {"delete"}, {2}, {"delete contacts"},
                       Pasted("CPBW delete"), "last"))
    BY <1>1, <1>2, <1>3, RowOfOne, RowOfAll
  <1> QED
    BY <1>4 DEF PhonebookRows

LEMMA TextRowsGood ==
    \A h \in TextRows : GoodRow(h)
  <1>1. \A s \in Pasted("CMGD") : GoodScript(s, {"delete sms"})
    BY OtherCommands, PastedGood
  <1>2. ASSUME NEW t \in AllTexts
        PROVE  GoodScript(TextMode(TRUE) \o at_text_create(t), {"send sms"})
    <2>1. "CMGS" \in At /\ Effects("CMGS") \subseteq {"send sms"}
      BY HarmlessCommands DEF Harmless
    <2>2. t \in At /\ Effects(t) \subseteq {"send sms"}
      BY OtherCommands, HarmlessCommands DEF Harmless, AllTexts
    <2>3. GoodScript(at_text_create(t), {"send sms"})
      BY <2>1, <2>2, TwoCommands DEF at_text_create
    <2> QED
      BY <2>3, TextModeGood, OneAfterTheOther
  <1>3. ASSUME NEW needs, NEW c \in Harmless, NEW UCS2 \in BOOLEAN
        PROVE  GoodScript(TextMode(UCS2) \o <<c>>, needs)
    BY TextModeGood, HarmlessCommand, OneAfterTheOther
  <1>4. ASSUME NEW texts \in SUBSET AllTexts
        PROVE  \A s \in Sending(texts) : GoodScript(s, {"send sms"})
    <2>1. GoodScript(TextMode(TRUE) \o <<"CRASH">>, {"send sms"})
      BY <1>3 DEF Harmless
    <2> QED
      BY <1>2, <2>1 DEF Sending
  <1>5. \A s \in {TextMode(FALSE) \o s : s \in Pasted("CMGR")} : GoodScript(s, {})
    BY <1>3 DEF Harmless, Pasted
  <1>6. GoodScript(TextMode(FALSE) \o <<"CMGL">>, {})
    BY <1>3 DEF Harmless
  <1>7. {"stray TEXT", "long TEXT"} \in SUBSET AllTexts
    BY DEF AllTexts, Texts
  <1>8. /\ GoodRow(Row("text", {"delete"}, 2..4, {"delete sms"}, Pasted("CMGD"), "last"))
        /\ GoodRow(Row("text", {"send"}, 3..4, {"send sms"}, Sending(AllTexts), "none"))
        /\ GoodRow(Row("text", {"send"}, {2}, {"send sms"},
                       Sending({"stray TEXT", "long TEXT"}), "none"))
    BY <1>1, <1>4, <1>7, RowOfAll
  <1>9. /\ GoodRow(Row("text", {"read"}, {2}, {},
                       {TextMode(FALSE) \o s : s \in Pasted("CMGR")}, "last"))
        /\ GoodRow(Row("text", {"read"}, 3..4, {},
                       {TextMode(FALSE) \o <<"CMGL">>}, "last"))
    BY <1>5, <1>6, RowOfAll
  <1> QED
    BY <1>8, <1>9 DEF TextRows

LEMMA OtherRowsGood ==
    \A h \in OtherRows : GoodRow(h)
  <1>1. \A s \in Pasted("ATD") : GoodScript(s, {"make call"})
    BY OtherCommands, PastedGood
  <1>2. \A needs : GoodScript(<<>>, needs)
    BY DEF GoodScript
  <1>3. ASSUME NEW needs
        PROVE  GoodScript(<<"CSQ", "CREG?", "COPS?">>, needs)
    <2>1. "CSQ" \in At /\ "CREG?" \in At /\ "COPS?" \in At
      BY HarmlessCommands DEF Harmless
    <2>2. Effects("CSQ") = {} /\ Effects("CREG?") = {} /\ Effects("COPS?") = {}
      BY HarmlessCommands DEF Harmless
    <2> QED
      BY <2>1, <2>2 DEF GoodScript
  <1>4. \A needs : /\ GoodScript(<<"ATH">>, needs)
                   /\ GoodScript(<<"PB_ONLY">>, needs)
                   /\ GoodScript(<<"CNUM">>, needs)
                   /\ GoodScript(<<"RNSTART">>, needs)
                   /\ GoodScript(<<"CRASH">>, needs)
    BY HarmlessCommand DEF Harmless
  <1>5. /\ GoodRow(Row("call", Verbs, 1..4, {"make call"}, Pasted("ATD"), "none"))
        /\ GoodRow(Row("hang", Verbs, 0..4, {}, {<<"ATH">>}, "none"))
        /\ GoodRow(Row("network", Verbs, 0..4, {},
                       {<<"CSQ", "CREG?", "COPS?">>}, "all"))
        /\ GoodRow(Row("pb_mode", Verbs, 1..4, {}, {<<"PB_ONLY">>}, "none"))
        /\ GoodRow(Row("mynumber", Verbs, 0..4, {}, {<<"CNUM">>}, "last"))
        /\ GoodRow(Row("noise", Verbs, 0..4, {}, {<<"RNSTART">>}, "none"))
        /\ GoodRow(Row("help", Verbs, 0..4, {}, {<<>>, <<"CRASH">>}, "file"))
    BY <1>1, <1>2, <1>3, <1>4, RowOfOne, RowOfTwo, RowOfAll
  <1> QED
    BY <1>5 DEF OtherRows

LEMMA RowsGood ==
    \A h \in Rows : GoodRow(h)
  BY PhonebookRowsGood, TextRowsGood, OtherRowsGood DEF Rows

LEMMA WrittenGood ==
    ASSUME NEW r, NEW script, NEW needs, GoodScript(script, needs)
    PROVE  GoodScript(Written(r, script), needs)
  <1> DEFINE w == Written(r, script)
  <1>1. script \in Seq(At) /\ Len(script) \in Nat /\ DOMAIN script = 1..Len(script)
    BY DEF GoodScript
  <1>2. "unknown" \in At /\ Effects("unknown") = {}
    BY HarmlessCommands DEF Harmless
  <1>3. \A i \in 1..Len(script) : script[i] \in At
    BY <1>1
  <1>4. w = [i \in 1..Len(script) |->
               IF script[i] = "CMGL" /\ ~r.known THEN "unknown" ELSE script[i]]
    BY <1>1 DEF Written
  <1>5. w \in [1..Len(script) -> At]
    BY <1>2, <1>3, <1>4
  <1>6. w \in Seq(At) /\ Len(w) = Len(script)
    BY <1>1, <1>5
  <1>7. \A i \in 1..Len(script) : Effects(w[i]) \subseteq needs
    BY <1>2, <1>4 DEF GoodScript
  <1> QED
    BY <1>6, <1>7 DEF GoodScript

-----------------------------------------------------------------------------
(* The invariant. *)

LEMMA InitInvariant == Init => IInv
  <1> SUFFICES ASSUME Init PROVE IInv
    OBVIOUS
  <1> USE DEF Init
  <1>1. MaxRequests \in Nat
    BY RequestAssumption
  <1>2. sent \in Message
    BY <1>1 DEF NoMessage, Message
  <1>3. used \in [{"failure", "keepalive", "restart"} -> Nat]
    OBVIOUS
  <1>4. todo \in Seq(At) /\ toModem \in Seq(Item) /\ typed \in Seq(Item)
    OBVIOUS
  <1>5. request \in 0..MaxRequests /\ prompt \in 0..MaxRequests
    BY <1>1
  <1>6. allowed \in Settings /\ asked \in Requests \union {NoRequest}
    OBVIOUS
  <1>7. done \subseteq Permissions \union {"anything"}
    OBVIOUS
  <1>8. TypeOK
    BY ONLY <1>2, <1>3, <1>4, <1>5, <1>6, <1>7, Init DEF Init, TypeOK, Charsets
  <1> QED
    BY <1>8 DEF IInv, PermittedAhead, BusyWithSomething, OnlyWhatIsPermitted

(* What Count leaves of used. *)
LEMMA Counted ==
    ASSUME TypeOK, NEW event \in {"failure", "keepalive", "restart"}, NEW bound,
           Count(event, bound)
    PROVE  used' \in [{"failure", "keepalive", "restart"} -> Nat]
  BY DEF TypeOK, Count

LEMMA RequestInvariant ==
    ASSUME IInv, NEW r \in Requests, Refuse(r) \/ Handle(r)
    PROVE  IInv'
  <1>1. NextRequest(r)
    BY DEF Refuse, Handle
  <1>2. /\ request' \in 0..MaxRequests /\ asked' = r /\ failed' = FALSE
        /\ disturbed' \in BOOLEAN
        /\ UNCHANGED <<allowed, toModem, modem, used>>
    BY <1>1, RequestAssumption DEF NextRequest, IInv, TypeOK
  <1>3. /\ todo' \in Seq(At)
        /\ \A i \in 1..Len(todo') : Effects(todo'[i]) \subseteq allowed
        /\ phase' \in {"idle", "busy"}
        /\ phase' = "busy" => todo' # <<>>
        /\ reply' \in {"none", "undefined"}
    <2>1. CASE Refuse(r)
      BY <2>1 DEF Refuse, NextRequest, IInv, TypeOK, PermittedAhead
    <2>2. CASE Handle(r)
      <3>1. PICK h \in Handlers(r) : \E script \in h.scripts :
              /\ todo' = Written(r, script)
              /\ phase' = IF script = <<>> THEN "idle" ELSE "busy"
              /\ reply' = IF h.replies = "file" THEN "undefined" ELSE "none"
        BY <2>2 DEF Handle
      <3>2. PICK script \in h.scripts :
              /\ todo' = Written(r, script)
              /\ phase' = IF script = <<>> THEN "idle" ELSE "busy"
              /\ reply' = IF h.replies = "file" THEN "undefined" ELSE "none"
        BY <3>1
      <3>3. h \in Rows /\ h.needs \subseteq allowed
        BY DEF Handlers, Matches
      <3>4. GoodScript(script, h.needs)
        BY <3>3, RowsGood DEF GoodRow
      <3>5. GoodScript(todo', h.needs)
        BY <3>2, <3>4, WrittenGood
      <3>6. script # <<>> => todo' # <<>>
        <4>1. script \in Seq(At) /\ DOMAIN todo' = DOMAIN script
          BY <3>2, <3>4 DEF GoodScript, Written
        <4> QED
          BY <4>1
      <3> QED
        BY <3>2, <3>3, <3>5, <3>6 DEF GoodScript
    <2> QED
      BY <2>1, <2>2
  <1>4. TypeOK'
    BY <1>2, <1>3 DEF IInv, TypeOK, modem, modes
  <1>5. PermittedAhead'
    BY <1>2, <1>3 DEF IInv, PermittedAhead
  <1> QED
    BY <1>2, <1>3, <1>4, <1>5 DEF IInv, BusyWithSomething, OnlyWhatIsPermitted, modem

(* at_send_command's outcomes. *)
LEMMA CommandInvariant ==
    ASSUME IInv, Answered \/ Unanswered \/ Lost
    PROVE  IInv'
  <1> PICK answered \in BOOLEAN : CommandDone(answered)
    BY DEF Answered, Unanswered, Lost
  <1>1. /\ todo \in Seq(At) /\ todo # <<>> /\ request \in 0..MaxRequests
        /\ toModem \in Seq(Item)
    BY DEF CommandDone, IInv, TypeOK, BusyWithSomething
  <1>2. /\ Head(todo) \in At /\ Effects(Head(todo)) \subseteq allowed
        /\ Tail(todo) \in Seq(At) /\ Len(Tail(todo)) = Len(todo) - 1
        /\ \A i \in 1..Len(Tail(todo)) : Effects(Tail(todo)[i]) \subseteq allowed
    <2>1. /\ Head(todo) = todo[1] /\ 1 \in 1..Len(todo) /\ Len(todo) \in Nat
      BY <1>1
    <2>2. /\ Head(todo) \in At /\ Tail(todo) \in Seq(At)
          /\ Len(Tail(todo)) = Len(todo) - 1
          /\ \A i \in 1..Len(Tail(todo)) : Tail(todo)[i] = todo[i + 1]
      BY <1>1, HeadTailProperties
    <2>3. \A i \in 1..Len(Tail(todo)) : i + 1 \in 1..Len(todo)
      BY <2>1, <2>2
    <2> QED
      BY <2>1, <2>2, <2>3 DEF IInv, PermittedAhead
  <1>3. /\ toModem' \in Seq(Item)
        /\ \A i \in 1..Len(toModem') : Effects(toModem'[i].at) \subseteq allowed
    <2>1. CASE Delivered
      <3> DEFINE item == [at |-> Head(todo), of |-> request, whole |-> TRUE]
      <3>1. item \in Item /\ item.at = Head(todo)
        BY <1>1, <1>2 DEF Item
      <3>2. /\ toModem' \in Seq(Item) /\ Len(toModem') = Len(toModem) + 1
            /\ \A i \in 1..Len(toModem) : toModem'[i] = toModem[i]
            /\ toModem'[Len(toModem) + 1] = item
        BY <1>1, <2>1, <3>1, AppendProperties DEF Delivered
      <3>3. \A i \in 1..Len(toModem') : i \in 1..Len(toModem) \/ i = Len(toModem) + 1
        BY <1>1, <3>2
      <3> QED
        BY <1>2, <3>1, <3>2, <3>3 DEF IInv, PermittedAhead
    <2>2. CASE UNCHANGED toModem
      BY <1>1, <2>2 DEF IInv, PermittedAhead
    <2> QED
      BY <2>1, <2>2 DEF Answered, Unanswered, Lost
  <1>4. reply' \in {"none", "answer", "undefined"}
    BY DEF CommandDone, ReplyAfter, IInv, TypeOK
  <1>5. /\ phase' \in {"idle", "busy", "recording", "crashed"}
        /\ phase' = "busy" => Len(todo) > 1
    BY DEF CommandDone, PhasesAfter
  <1>6. phase' = "busy" => todo' # <<>>
    <2>1. todo' = Tail(todo) /\ Len(todo) \in Nat
      BY <1>1 DEF CommandDone
    <2>2. Len(todo) > 1 => Len(todo') # 0
      BY <1>2, <2>1
    <2> QED
      BY <1>5, <2>2
  <1>7. used' \in [{"failure", "keepalive", "restart"} -> Nat]
    BY Counted DEF Answered, Unanswered, Lost, IInv, TypeOK
  <1>8. disturbed' \in BOOLEAN /\ failed' \in BOOLEAN
    BY DEF Answered, Unanswered, Lost, Delivered, CommandDone, IInv, TypeOK
  <1>9. /\ todo' = Tail(todo)
        /\ UNCHANGED <<allowed, request, asked, modem>>
    BY DEF CommandDone
  <1>10. TypeOK'
    BY <1>2, <1>3, <1>4, <1>5, <1>7, <1>8, <1>9 DEF IInv, TypeOK, modem, modes
  <1>11. PermittedAhead'
    BY <1>2, <1>3, <1>9 DEF PermittedAhead
  <1> QED
    BY <1>6, <1>9, <1>10, <1>11 DEF IInv, BusyWithSomething, OnlyWhatIsPermitted, modem

LEMMA CrashInvariant == ASSUME IInv, Crash PROVE IInv'
  BY DEF Crash, IInv, TypeOK, PermittedAhead, BusyWithSomething, OnlyWhatIsPermitted,
         modem, modes

LEMMA KeepAliveInvariant == ASSUME IInv, KeepAlive PROVE IInv'
  <1>1. /\ toModem \in Seq(Item) /\ Len(toModem) \in Nat
        /\ \A i \in 1..Len(toModem) : Effects(toModem[i].at) \subseteq allowed
    BY DEF IInv, TypeOK, PermittedAhead
  <1>2. /\ toModem' \in Seq(Item)
        /\ \A i \in 1..Len(toModem') : Effects(toModem'[i].at) \subseteq allowed
    <2> DEFINE item == [at |-> "AT", of |-> 0, whole |-> TRUE]
    <2>1. CASE toModem' = Append(toModem, item)
      <3>1. item \in Item /\ item.at = "AT" /\ Effects("AT") = {}
        <4>1. "AT" \in At /\ Effects("AT") = {}
          BY HarmlessCommands DEF Harmless
        <4>2. 0 \in 0..MaxRequests
          BY RequestAssumption
        <4> QED
          BY <4>1, <4>2 DEF Item
      <3>2. /\ toModem' \in Seq(Item) /\ Len(toModem') = Len(toModem) + 1
            /\ \A i \in 1..Len(toModem) : toModem'[i] = toModem[i]
            /\ toModem'[Len(toModem) + 1] = item
        BY <1>1, <2>1, <3>1, AppendProperties
      <3>3. \A i \in 1..Len(toModem') : i \in 1..Len(toModem) \/ i = Len(toModem) + 1
        BY <1>1, <3>2
      <3> QED
        BY <1>1, <3>1, <3>2, <3>3
    <2>2. CASE toModem # <<>> /\ toModem' = [toModem EXCEPT ![Len(toModem)].whole = FALSE]
      <3>1. /\ toModem' \in [1..Len(toModem) -> Item]
            /\ \A i \in 1..Len(toModem) : toModem'[i].at = toModem[i].at
        <4>1. Len(toModem) \in 1..Len(toModem) /\ toModem \in [1..Len(toModem) -> Item]
          BY <1>1, <2>2
        <4>2. \A i \in 1..Len(toModem) :
                toModem'[i] = IF i = Len(toModem) THEN [toModem[i] EXCEPT !.whole = FALSE]
                                                  ELSE toModem[i]
          BY <2>2, <4>1
        <4>3. \A i \in 1..Len(toModem) :
                toModem'[i] \in Item /\ toModem'[i].at = toModem[i].at
          BY <4>1, <4>2 DEF Item
        <4>4. DOMAIN toModem' = 1..Len(toModem)
              /\ toModem' = [i \in DOMAIN toModem' |-> toModem'[i]]
          BY <2>2, <4>1
        <4> QED
          BY <4>3, <4>4
      <3>2. toModem' \in Seq(Item) /\ Len(toModem') = Len(toModem)
        BY <1>1, <3>1
      <3> QED
        BY <1>1, <3>1, <3>2
    <2> QED
      BY <2>1, <2>2 DEF KeepAlive
  <1>3. /\ used' \in [{"failure", "keepalive", "restart"} -> Nat]
        /\ disturbed' \in BOOLEAN
        /\ UNCHANGED <<plugin, modem>>
    BY Counted DEF KeepAlive, IInv, TypeOK
  <1>4. TypeOK'
    BY <1>2, <1>3 DEF IInv, TypeOK, plugin, modem, modes
  <1> QED
    BY <1>2, <1>3, <1>4
       DEF IInv, PermittedAhead, BusyWithSomething, OnlyWhatIsPermitted, plugin, modem

LEMMA RestartInvariant == ASSUME IInv, Restart PROVE IInv'
  <1>1. /\ used' \in [{"failure", "keepalive", "restart"} -> Nat]
        /\ disturbed' \in BOOLEAN
    BY Counted DEF Restart, IInv, TypeOK
  <1>2. /\ toModem' = <<>> /\ toModem' \in Seq(Item) /\ typed' \in Seq(Item)
        /\ prompt' \in 0..MaxRequests
    BY RequestAssumption DEF Restart
  <1>3. TypeOK'
    BY <1>1, <1>2 DEF Restart, IInv, TypeOK, plugin, Charsets
  <1> QED
    BY <1>2, <1>3
       DEF Restart, IInv, PermittedAhead, BusyWithSomething, OnlyWhatIsPermitted, plugin

(* The modem's steps. *)
LEMMA ExecuteInvariant == ASSUME IInv, Execute PROVE IInv'
  <1> DEFINE item == Head(toModem)
  <1>1. /\ toModem \in Seq(Item) /\ toModem # <<>> /\ Len(toModem) \in Nat
        /\ toModem' = Tail(toModem)
        /\ UNCHANGED <<plugin, used>>
    BY DEF Execute, IInv, TypeOK
  <1>2. /\ item \in Item /\ item = toModem[1] /\ 1 \in 1..Len(toModem)
        /\ toModem' \in Seq(Item) /\ Len(toModem') = Len(toModem) - 1
        /\ \A i \in 1..Len(toModem') : toModem'[i] = toModem[i + 1]
    BY <1>1, HeadTailProperties
  <1>3. item.at \in At /\ item.of \in 0..MaxRequests /\ Effects(item.at) \subseteq allowed
    BY <1>2 DEF Item, IInv, PermittedAhead
  <1>4. \A i \in 1..Len(toModem') : Effects(toModem'[i].at) \subseteq allowed
    <2>1. \A i \in 1..Len(toModem') : i + 1 \in 1..Len(toModem)
      BY <1>1, <1>2
    <2> QED
      BY <1>2, <2>1 DEF IInv, PermittedAhead
  <1>5. Effects(item.at) \subseteq Permissions
    BY DEF Effects, Needs, Permissions, Texts
  <1>6. /\ textMode' \in BOOLEAN /\ charset' \in Charsets /\ prompt' \in 0..MaxRequests
        /\ typed' \in Seq(Item) /\ sent' \in Message
        /\ disturbed' \in BOOLEAN
        /\ done \subseteq done' /\ done' \subseteq done \union Effects(item.at) \union {"anything"}
        /\ "anything" \in done' \/ done' \subseteq done \union Effects(item.at)
    <2> USE DEF IInv, TypeOK
    <2>1. CASE ExecuteCommand(item)
      <3>1. 0 \in 0..MaxRequests
        BY RequestAssumption
      <3>2. CASE /\ SetMode(item.at)
                 /\ prompt' = IF item.at = "CMGS" /\ textMode THEN item.of ELSE 0
                 /\ done' = done \union Needs(item.at)
                 /\ UNCHANGED disturbed
        <4>1. textMode' \in BOOLEAN /\ charset' \in Charsets
          BY <3>2 DEF SetMode, Charsets
        <4>2. prompt' \in 0..MaxRequests
          BY <1>3, <3>1, <3>2
        <4> QED
          BY <2>1, <3>2, <4>1, <4>2 DEF ExecuteCommand, Effects
      <3>3. CASE /\ disturbed' = (disturbed \/ item.at \in TextCommands)
                 /\ UNCHANGED <<modes, prompt, done>>
        BY <2>1, <3>3 DEF ExecuteCommand, modes
      <3> QED
        BY <2>1, <3>2, <3>3 DEF ExecuteCommand
    <2>2. CASE SubmitText(item)
      <3>1. Append(typed, item) \in Seq(Item)
        BY <1>2, AppendProperties
      <3>2. sent' \in Message
        <4>1. CASE sent' = sent
          BY <4>1
        <4>2. CASE sent' = [to |-> prompt, ucs2 |-> charset = "UCS2",
                            text |-> Append(typed, item)]
          BY <3>1, <4>2 DEF Message
        <4> QED
          BY <2>2, <4>1, <4>2 DEF SubmitText
      <3>3. 0 \in 0..MaxRequests
        BY RequestAssumption
      <3> QED
        <4>1. /\ done' = done \union {"send sms"} \/ done' = done
              /\ disturbed' \in BOOLEAN /\ item.at \in Texts
          BY <2>2 DEF SubmitText
        <4>2. done \subseteq done' /\ done' \subseteq done \union Effects(item.at)
          BY <4>1 DEF Effects
        <4>3. typed' \in Seq(Item) /\ prompt' \in 0..MaxRequests
          <5>1. typed' = <<>> /\ prompt' = 0
            BY <2>2 DEF SubmitText
          <5>2. <<>> \in Seq(Item)
            OBVIOUS
          <5> QED
            BY ONLY <3>3, <5>1, <5>2
        <4> QED
          BY <2>2, <3>2, <4>1, <4>2, <4>3 DEF SubmitText, modes
    <2>3. CASE SwallowCommand(item)
      BY <1>2, <2>3, AppendProperties DEF SwallowCommand, modes
    <2>4. CASE ExecuteAltered(item)
      <3>1. 0 \in 0..MaxRequests /\ <<>> \in Seq(Item)
        BY RequestAssumption
      <3>2. Append(typed, item) \in Seq(Item)
        BY <1>2, AppendProperties
      <3>3. NoMessage \in Message
        BY <3>1 DEF NoMessage, Message
      <3>4. prompt' \in 0..MaxRequests /\ typed' \in Seq(Item) /\ sent' \in Message
        BY <1>3, <2>4, <3>1, <3>2, <3>3 DEF ExecuteAltered
      <3> QED
        BY <2>4, <3>4 DEF ExecuteAltered
    <2> QED
      BY <2>1, <2>2, <2>3, <2>4 DEF Execute
  <1>7. /\ "anything" \in done' \/ done' \subseteq allowed
        /\ done' \subseteq Permissions \union {"anything"}
    BY <1>3, <1>5, <1>6 DEF IInv, TypeOK, OnlyWhatIsPermitted
  <1>8. TypeOK'
    BY <1>1, <1>2, <1>6, <1>7 DEF IInv, TypeOK, plugin
  <1> QED
    BY <1>1, <1>4, <1>7, <1>8
       DEF IInv, PermittedAhead, BusyWithSomething, OnlyWhatIsPermitted, plugin

(* No command yet to be sent or executed does what is not permitted, unless it is one
   that a parameter has altered, in any reachable state (the tests of allow_... in
   at_process_command). *)
THEOREM Invariant == Spec => []IInv
  <1>1. ASSUME IInv, [Next]_vars PROVE IInv'
    <2>1. CASE \E r \in Requests : Refuse(r) \/ Handle(r)
      BY <1>1, <2>1, RequestInvariant
    <2>2. CASE Answered \/ Unanswered \/ Lost
      BY <1>1, <2>2, CommandInvariant
    <2>3. CASE Crash
      BY <1>1, <2>3, CrashInvariant
    <2>4. CASE KeepAlive
      BY <1>1, <2>4, KeepAliveInvariant
    <2>5. CASE Restart
      BY <1>1, <2>5, RestartInvariant
    <2>6. CASE Execute
      BY <1>1, <2>6, ExecuteInvariant
    <2>7. CASE UNCHANGED vars
      BY <1>1, <2>7 DEF IInv, TypeOK, PermittedAhead, BusyWithSomething,
         OnlyWhatIsPermitted, vars, plugin, modem, modes
    <2> QED
      BY <1>1, <2>1, <2>2, <2>3, <2>4, <2>5, <2>6, <2>7 DEF Next
  <1> QED
    BY <1>1, InitInvariant, PTL DEF Spec

(* State has its types: whatever is asked, the modem is only sent commands this code
   knows, each for a request that was made. *)
THEOREM TypeCorrect == Spec => []TypeOK
  <1>1. IInv => TypeOK
    BY DEF IInv
  <1> QED
    BY <1>1, Invariant, PTL

(* Whatever is asked, gets lost or comes in between, the modem does nothing that
   settings.ini does not permit, as long as no parameter was more than it should be:
   parameters go into the commands as they are (at_commands.c:20-48, 135, 170) and
   the tests of allow_... in at_process_command look at the words alone. *)
THEOREM PermissionsHold == Spec => []OnlyWhatIsPermitted
  <1>1. IInv => OnlyWhatIsPermitted
    BY DEF IInv
  <1> QED
    BY <1>1, Invariant, PTL
-----------------------------------------------------------------------------
(* What the proofs below have to know of the rows: the reply, and which commands
   have to do with a text. *)

(* Which reply a request may expect is in its word and verb. *)
ReplyOf(word, verb) ==
    CASE word = "network" -> "all"
      [] word = "help" -> "file"
      [] \/ word = "mynumber"
         \/ word = "phonebook" /\ verb # "update"
         \/ word = "text" /\ verb # "send" -> "last"
      [] OTHER -> "none"

TextScripts ==
    {<<"CMGF=1", "CSCS=UCS2", "CMGS", t>> : t \in AllTexts}
    \union {<<"CMGF=1", "CSCS=UCS2", "CRASH">>}

TextParts == AllTexts \union {"CMGS"}

Plain(script) == \A i \in 1..Len(script) : script[i] \notin TextParts

RowFits(h) ==
    /\ h.word # "other"
    /\ \A verb \in h.verbs : h.replies = ReplyOf(h.word, verb)
    /\ \A script \in h.scripts :
        /\ script = <<>> => h.replies = "file"
        /\ IF h.word = "text" /\ "send" \in h.verbs
           THEN script \in TextScripts
           ELSE Plain(script)

LEMMA PlainRow ==
    ASSUME NEW word, NEW verbs, NEW n, NEW needs, NEW scripts, NEW replies,
           word # "other", word # "text" \/ "send" \notin verbs,
           \A verb \in verbs : replies = ReplyOf(word, verb),
           \A script \in scripts : Plain(script),
           <<>> \in scripts => replies = "file"
    PROVE  RowFits(Row(word, verbs, n, needs, scripts, replies))
  BY DEF RowFits, Row

LEMMA TextRow ==
    ASSUME NEW n, NEW needs, NEW scripts, scripts \subseteq TextScripts
    PROVE  RowFits(Row("text", {"send"}, n, needs, scripts, "none"))
  <1>1. <<>> \notin TextScripts
    BY DEF TextScripts
  <1>2. ReplyOf("text", "send") = "none"
    BY DEF ReplyOf
  <1> QED
    BY <1>1, <1>2 DEF RowFits, Row

LEMMA PlainCommand == ASSUME NEW c, c \notin TextParts PROVE Plain(<<c>>)
  BY DEF Plain

LEMMA PlainCommands ==
    ASSUME NEW c, NEW d, NEW e,
           c \notin TextParts, d \notin TextParts, e \notin TextParts
    PROVE  Plain(<<c, d, e>>)
  <1>1. \A i \in 1..3 : <<c, d, e>>[i] \in {c, d, e}
    OBVIOUS
  <1> QED
    BY <1>1 DEF Plain

LEMMA TwoAndOne ==
    ASSUME NEW c, NEW d, NEW e
    PROVE  <<c, d>> \o <<e>> = <<c, d, e>>
  <1> DEFINE S == {c, d, e}
             s == <<c, d>>
             t == <<e>>
  <1>1. s \in Seq(S) /\ t \in Seq(S) /\ Len(s) = 2 /\ Len(t) = 1
    OBVIOUS
  <1>2. /\ s \o t \in Seq(S) /\ Len(s \o t) = 3
        /\ \A i \in 1..3 : (s \o t)[i] = IF i <= 2 THEN s[i] ELSE t[i - 2]
    BY <1>1, ConcatProperties
  <1>3. (s \o t)[1] = c /\ (s \o t)[2] = d /\ (s \o t)[3] = e
    BY <1>2
  <1>4. <<c, d, e>> \in Seq(S) /\ Len(<<c, d, e>>) = 3
    OBVIOUS
  <1>5. \A i \in 1..Len(s \o t) : (s \o t)[i] = <<c, d, e>>[i]
    BY <1>2, <1>3
  <1> QED
    BY <1>2, <1>4, <1>5, SeqEqual

LEMMA TwoAndTwo ==
    ASSUME NEW c, NEW d, NEW e, NEW f
    PROVE  <<c, d>> \o <<e, f>> = <<c, d, e, f>>
  <1> DEFINE S == {c, d, e, f}
             s == <<c, d>>
             t == <<e, f>>
  <1>1. s \in Seq(S) /\ t \in Seq(S) /\ Len(s) = 2 /\ Len(t) = 2
    OBVIOUS
  <1>2. /\ s \o t \in Seq(S) /\ Len(s \o t) = 4
        /\ \A i \in 1..4 : (s \o t)[i] = IF i <= 2 THEN s[i] ELSE t[i - 2]
    BY <1>1, ConcatProperties
  <1>3. /\ (s \o t)[1] = c /\ (s \o t)[2] = d
        /\ (s \o t)[3] = e /\ (s \o t)[4] = f
    BY <1>2
  <1>4. <<c, d, e, f>> \in Seq(S) /\ Len(<<c, d, e, f>>) = 4
    OBVIOUS
  <1>5. \A i \in 1..Len(s \o t) : (s \o t)[i] = <<c, d, e, f>>[i]
    BY <1>2, <1>3
  <1> QED
    BY <1>2, <1>4, <1>5, SeqEqual

LEMMA TextModeScript ==
    ASSUME NEW c, c \notin TextParts
    PROVE  Plain(TextMode(FALSE) \o <<c>>) /\ TextMode(FALSE) \o <<c>> # <<>>
  <1>1. TextMode(FALSE) \o <<c>> = <<"CMGF=1", "CSCS=GSM", c>>
    BY TwoAndOne DEF TextMode
  <1>2. "CMGF=1" \notin TextParts /\ "CSCS=GSM" \notin TextParts
    BY DEF TextParts, AllTexts, Texts
  <1>3. <<"CMGF=1", "CSCS=GSM", c>> # <<>>
    OBVIOUS
  <1> QED
    BY <1>1, <1>2, <1>3, PlainCommands

LEMMA SendingFits ==
    ASSUME NEW texts \in SUBSET AllTexts
    PROVE  Sending(texts) \subseteq TextScripts
  <1>1. \A t : TextMode(TRUE) \o at_text_create(t) = <<"CMGF=1", "CSCS=UCS2", "CMGS", t>>
    BY TwoAndTwo DEF TextMode, at_text_create
  <1>2. TextMode(TRUE) \o <<"CRASH">> = <<"CMGF=1", "CSCS=UCS2", "CRASH">>
    BY TwoAndOne DEF TextMode
  <1> QED
    BY <1>1, <1>2 DEF Sending, TextScripts

LEMMA PastedPlain ==
    ASSUME NEW c, c \notin TextParts
    PROVE  (\A s \in Pasted(c) : Plain(s)) /\ <<>> \notin Pasted(c)
  <1>1. Plain(<<c>>) /\ Plain(<<"altered">>)
    BY PlainCommand DEF TextParts, AllTexts, Texts
  <1>2. <<c>> # <<>> /\ <<"altered">> # <<>>
    OBVIOUS
  <1> QED
    BY <1>1, <1>2 DEF Pasted

LEMMA RowsFit ==
    \A h \in Rows : RowFits(h)
  <1>1. /\ Plain(<<"CRASH">>) /\ Plain(<<"ATH">>) /\ Plain(<<"PB_ONLY">>) /\ Plain(<<"CNUM">>)
        /\ Plain(<<"RNSTART">>)
    BY PlainCommand DEF TextParts, AllTexts, Texts
  <1>2. Plain(<<>>) /\ Plain(<<"CSQ", "CREG?", "COPS?">>)
    <2>1. "CSQ" \notin TextParts /\ "CREG?" \notin TextParts /\ "COPS?" \notin TextParts
      BY DEF TextParts, AllTexts, Texts
    <2> QED
      BY <2>1, PlainCommands DEF Plain
  <1>3. \A c : <<c>> # <<>>
    OBVIOUS
  <1>7. \A c \in {"CPBW", "CPBR", "CPBW delete", "CMGD", "ATD"} :
          (\A s \in Pasted(c) : Plain(s)) /\ <<>> \notin Pasted(c)
    BY PastedPlain DEF TextParts, AllTexts, Texts
  <1>4. \A h \in PhonebookRows : RowFits(h)
    <2>1. /\ \A verb \in {"create", "read", "delete"} : ReplyOf("phonebook", verb) = "last"
          /\ ReplyOf("phonebook", "update") = "none"
      BY DEF ReplyOf
    <2>2. /\ RowFits(Row("phonebook", {"create"}, {3, 4}, {"create contacts"},
                         Pasted("CPBW"), "last"))
          /\ RowFits(Row("phonebook", {"update"}, {3}, {"create contacts"},
                         {<<"CRASH">>}, "none"))
          /\ RowFits(Row("phonebook", {"read"}, {3}, {}, Pasted("CPBR"), "last"))
          /\ RowFits(Row("phonebook", {"delete"}, {2}, {"delete contacts"},
                         Pasted("CPBW delete"), "last"))
      BY <1>1, <1>3, <1>7, <2>1, PlainRow
    <2> QED
      BY <2>2 DEF PhonebookRows
  <1>5. \A h \in TextRows : RowFits(h)
    <2>1. /\ ReplyOf("text", "delete") = "last" /\ ReplyOf("text", "read") = "last"
      BY DEF ReplyOf
    <2>2. RowFits(Row("text", {"delete"}, 2..4, {"delete sms"}, Pasted("CMGD"), "last"))
      BY <1>7, <2>1, PlainRow
    <2>3. /\ RowFits(Row("text", {"send"}, 3..4, {"send sms"}, Sending(AllTexts), "none"))
          /\ RowFits(Row("text", {"send"}, {2}, {"send sms"},
                         Sending({"stray TEXT", "long TEXT"}), "none"))
      <3>1. /\ AllTexts \in SUBSET AllTexts
            /\ {"stray TEXT", "long TEXT"} \in SUBSET AllTexts
        BY DEF AllTexts, Texts
      <3>2. /\ Sending(AllTexts) \subseteq TextScripts
            /\ Sending({"stray TEXT", "long TEXT"}) \subseteq TextScripts
        BY <3>1, SendingFits
      <3> QED
        BY <3>2, TextRow
    <2>4. "CMGR" \notin TextParts /\ "CMGL" \notin TextParts /\ "altered" \notin TextParts
      BY DEF TextParts, AllTexts, Texts
    <2>5. RowFits(Row("text", {"read"}, {2}, {},
                      {TextMode(FALSE) \o s : s \in Pasted("CMGR")}, "last"))
      <3>1. {TextMode(FALSE) \o s : s \in Pasted("CMGR")}
              = {TextMode(FALSE) \o <<"CMGR">>, TextMode(FALSE) \o <<"altered">>}
        BY DEF Pasted
      <3>2. /\ Plain(TextMode(FALSE) \o <<"CMGR">>)
            /\ Plain(TextMode(FALSE) \o <<"altered">>)
            /\ TextMode(FALSE) \o <<"CMGR">> # <<>>
            /\ TextMode(FALSE) \o <<"altered">> # <<>>
        BY <2>4, TextModeScript
      <3> QED
        BY <2>1, <3>1, <3>2, PlainRow
    <2>6. RowFits(Row("text", {"read"}, 3..4, {}, {TextMode(FALSE) \o <<"CMGL">>}, "last"))
      BY <2>1, <2>4, TextModeScript, PlainRow
    <2> QED
      BY <2>2, <2>3, <2>5, <2>6 DEF TextRows
  <1>6. \A h \in OtherRows : RowFits(h)
    <2>1. /\ \A verb \in Verbs : /\ ReplyOf("call", verb) = "none"
                                 /\ ReplyOf("hang", verb) = "none"
                                 /\ ReplyOf("network", verb) = "all"
                                 /\ ReplyOf("pb_mode", verb) = "none"
                                 /\ ReplyOf("mynumber", verb) = "last"
                                 /\ ReplyOf("noise", verb) = "none"
                                 /\ ReplyOf("help", verb) = "file"
      BY DEF ReplyOf
    <2>2. <<"CSQ", "CREG?", "COPS?">> # <<>>
      OBVIOUS
    <2>3. /\ RowFits(Row("call", Verbs, 1..4, {"make call"}, Pasted("ATD"), "none"))
          /\ RowFits(Row("hang", Verbs, 0..4, {}, {<<"ATH">>}, "none"))
          /\ RowFits(Row("pb_mode", Verbs, 1..4, {}, {<<"PB_ONLY">>}, "none"))
          /\ RowFits(Row("mynumber", Verbs, 0..4, {}, {<<"CNUM">>}, "last"))
          /\ RowFits(Row("noise", Verbs, 0..4, {}, {<<"RNSTART">>}, "none"))
      BY <1>1, <1>3, <1>7, <2>1, PlainRow
    <2>4. RowFits(Row("network", Verbs, 0..4, {}, {<<"CSQ", "CREG?", "COPS?">>}, "all"))
      BY <1>2, <2>1, <2>2, PlainRow
    <2>5. RowFits(Row("help", Verbs, 0..4, {}, {<<>>, <<"CRASH">>}, "file"))
      BY <1>1, <1>2, <2>1, PlainRow
    <2> QED
      BY <2>3, <2>4, <2>5 DEF OtherRows
  <1> QED
    BY <1>4, <1>5, <1>6 DEF Rows

(* A request's reply does not depend on which of the handlers is taken. *)
LEMMA RepliesOfHandler ==
    ASSUME NEW h \in Handlers(asked)
    PROVE  Replies = h.replies /\ h.replies = ReplyOf(asked.word, asked.verb)
  <1>1. \A g \in Handlers(asked) : g.replies = ReplyOf(asked.word, asked.verb)
    BY RowsFit DEF Handlers, Matches, RowFits
  <1>2. (CHOOSE g \in Handlers(asked) : TRUE) \in Handlers(asked)
    OBVIOUS
  <1> QED
    BY <1>1, <1>2 DEF Replies

(* at_text_read's omission does not touch the commands of a text. *)
LEMMA WrittenFits ==
    ASSUME NEW r, NEW script \in Seq(At)
    PROVE  /\ Plain(script) => Plain(Written(r, script))
           /\ script \in TextScripts => Written(r, script) = script
  <1> DEFINE w == Written(r, script)
  <1>1. /\ DOMAIN script = 1..Len(script) /\ Len(script) \in Nat
        /\ w = [i \in 1..Len(script) |->
                  IF script[i] = "CMGL" /\ ~r.known THEN "unknown" ELSE script[i]]
    BY DEF Written
  <1>2. ASSUME Plain(script) PROVE Plain(w)
    <2>1. Len(w) = Len(script)
      BY <1>1
    <2>2. "unknown" \notin TextParts
      BY DEF TextParts, AllTexts, Texts
    <2>3. \A i \in 1..Len(script) : w[i] = "unknown" \/ w[i] = script[i]
      BY <1>1
    <2> QED
      BY <1>2, <2>1, <2>2, <2>3 DEF Plain
  <1>3. ASSUME script \in TextScripts PROVE w = script
    <2>1. \A i \in 1..Len(script) : script[i] # "CMGL"
      <3>1. CASE \E t \in AllTexts : script = <<"CMGF=1", "CSCS=UCS2", "CMGS", t>>
        <4>1. PICK t \in AllTexts : script = <<"CMGF=1", "CSCS=UCS2", "CMGS", t>>
          BY <3>1
        <4>2. t # "CMGL"
          BY DEF AllTexts, Texts
        <4>3. Len(script) = 4 /\ script[1] = "CMGF=1" /\ script[2] = "CSCS=UCS2"
              /\ script[3] = "CMGS" /\ script[4] = t
          BY <4>1
        <4> QED
          BY <4>2, <4>3
      <3>2. CASE script = <<"CMGF=1", "CSCS=UCS2", "CRASH">>
        BY <3>2
      <3> QED
        BY <1>3, <3>1, <3>2 DEF TextScripts
    <2>2. w = [i \in 1..Len(script) |-> script[i]]
      BY <1>1, <2>1
    <2>3. script = [i \in 1..Len(script) |-> script[i]]
      BY <1>1
    <2> QED
      BY <2>2, <2>3
  <1> QED
    BY <1>2, <1>3

(* What Handle does, as far as replies and texts go. *)
LEMMA HandleDoes ==
    ASSUME IInv, NEW r \in Requests, Handle(r)
    PROVE  \E h \in Handlers(r) :
             /\ todo' = <<>> <=> phase' = "idle"
             /\ phase' \in {"idle", "busy"}
             /\ phase' = "idle" => h.replies = "file"
             /\ h.replies = ReplyOf(r.word, r.verb)
             /\ IF IsTextSend(r) THEN todo' \in TextScripts ELSE Plain(todo')
  <1>1. PICK h \in Handlers(r) : \E script \in h.scripts :
          /\ todo' = Written(r, script)
          /\ phase' = IF script = <<>> THEN "idle" ELSE "busy"
    BY DEF Handle
  <1>2. PICK script \in h.scripts :
          /\ todo' = Written(r, script)
          /\ phase' = IF script = <<>> THEN "idle" ELSE "busy"
    BY <1>1
  <1>3. h \in Rows /\ h.word = r.word /\ r.verb \in h.verbs
    BY DEF Handlers, Matches
  <1>4. script \in Seq(At)
    BY <1>3, RowsGood DEF GoodRow, GoodScript
  <1>5. RowFits(h)
    BY <1>3, RowsFit
  <1>6. todo' = <<>> <=> script = <<>>
    <2>1. DOMAIN todo' = DOMAIN script
      BY <1>2 DEF Written
    <2>2. todo' \in Seq(At)
      BY <1>2, <1>4, <1>3, RowsGood, WrittenGood DEF GoodRow, GoodScript
    <2> QED
      BY <1>4, <2>1, <2>2
  <1>7. h.word = "text" /\ "send" \in h.verbs <=> IsTextSend(r)
    <2>1. CASE h.word = "text" /\ "send" \in h.verbs
      <3>1. h.replies = "none"
        BY <1>5, <2>1 DEF RowFits, ReplyOf
      <3> QED
        BY <1>3, <1>5, <2>1, <3>1 DEF RowFits, ReplyOf, IsTextSend
    <2> QED
      BY <1>3, <2>1 DEF IsTextSend
  <1>8. IF IsTextSend(r) THEN todo' \in TextScripts ELSE Plain(todo')
    BY <1>2, <1>4, <1>5, <1>7, WrittenFits DEF RowFits
  <1>9. /\ h.replies = ReplyOf(r.word, r.verb)
        /\ script = <<>> => h.replies = "file"
    BY <1>3, <1>5 DEF RowFits
  <1> QED
    BY <1>2, <1>6, <1>8, <1>9

-----------------------------------------------------------------------------
(* The replies. *)

(* An answer that is missing shows from then on.  The handlers of a request under way
   are those it was begun with, for nothing changes the permissions. *)
ReplyAhead ==
    phase = "busy" => (Replies = "all" /\ failed => reply = "undefined")

LEMMA RequestReply ==
    ASSUME IInv, NEW r \in Requests, Refuse(r) \/ Handle(r)
    PROVE  ReplyAhead' /\ ReplyTellsAnswers'
  <1>1. asked' = r /\ allowed' = allowed /\ failed' = FALSE
    BY DEF Refuse, Handle, NextRequest
  <1>2. ReplyAhead'
    BY <1>1 DEF ReplyAhead
  <1>3. Handlers(asked)' = Handlers(r)
    BY <1>1 DEF Handlers, Matches, Rows
  <1>4. CASE Refuse(r)
    BY <1>2, <1>3, <1>4 DEF Refuse, ReplyTellsAnswers
  <1>5. CASE Handle(r)
    <2>1. PICK h \in Handlers(r) :
            /\ phase' = "idle" => h.replies = "file"
            /\ h.replies = ReplyOf(r.word, r.verb)
      BY <1>5, HandleDoes
    <2>2. ASSUME NEW g \in Handlers(r) PROVE g.replies = h.replies
      BY <2>1, RowsFit DEF Handlers, Matches, RowFits
    <2>3. Replies' = (CHOOSE g \in Handlers(r) : TRUE).replies
      BY <1>3 DEF Replies
    <2>4. Replies' = h.replies
      BY <2>2, <2>3
    <2> QED
      BY <1>1, <1>2, <2>1, <2>4 DEF ReplyTellsAnswers
  <1> QED
    BY <1>4, <1>5

LEMMA CommandReply ==
    ASSUME IInv, ReplyAhead, NEW answered \in BOOLEAN, CommandDone(answered)
    PROVE  ReplyAhead' /\ ReplyTellsAnswers'
  <1>1. /\ phase = "busy" /\ reply' = ReplyAfter(answered)
        /\ failed' = (failed \/ ~answered)
        /\ phase' \in PhasesAfter(answered)
        /\ UNCHANGED <<allowed, asked>>
    BY DEF CommandDone
  <1>2. Replies' = Replies /\ Handlers(asked)' = Handlers(asked)
    BY <1>1 DEF Replies, Handlers, Matches
  <1>3. Len(todo) = 1 \/ Len(todo) > 1
    <2>1. todo \in Seq(At) /\ todo # <<>>
      BY <1>1 DEF IInv, TypeOK, BusyWithSomething
    <2>2. Len(todo) \in Nat /\ Len(todo) # 0
      BY <2>1, EmptySeq, LenProperties
    <2> QED
      BY ONLY <2>2, SMT
  <1>4. phase' = "idle" => Len(todo) = 1
    <2>1. CASE Len(todo) > 1
      <3>1. PhasesAfter(answered) = {"busy"}
        BY <2>1 DEF PhasesAfter
      <3> QED
        BY <1>1, <3>1
    <2> QED
      BY <1>3, <2>1
  <1>5. Replies = "all" /\ failed' => reply' = "undefined"
    <2>1. CASE ~answered
      BY <1>1, <2>1 DEF ReplyAfter
    <2>2. CASE answered
      <3>1. Replies = "all" /\ failed => reply = "undefined"
        BY <1>1 DEF ReplyAhead
      <3> QED
        BY <1>1, <2>2, <3>1 DEF ReplyAfter
    <2> QED
      BY <2>1, <2>2
  <1>6. Replies \in {"last", "all"} /\ ~failed' /\ Len(todo) = 1 => reply' = "answer"
    BY <1>1 DEF ReplyAfter
  <1> QED
    BY <1>2, <1>4, <1>5, <1>6 DEF ReplyAhead, ReplyTellsAnswers

(* A query whose commands were answered has a reply, and network has none to rely on
   if an answer is missing, whatever permissions it meets (at_commands.c:573-588). *)
THEOREM RepliesTellAnswers == Spec => []ReplyTellsAnswers
  <1> DEFINE Inv == ReplyAhead /\ ReplyTellsAnswers
  <1>1. Init => Inv
    <2> SUFFICES ASSUME Init PROVE Inv
      OBVIOUS
    <2>1. Handlers(NoRequest) = {}
      <3>1. \A h \in Rows : h.word # "other"
        BY RowsFit DEF RowFits
      <3> QED
        BY <3>1 DEF Handlers, Matches, NoRequest
    <2> QED
      BY <2>1 DEF Init, ReplyAhead, ReplyTellsAnswers
  <1>2. ASSUME IInv, Inv, [Next]_vars PROVE Inv'
    <2>1. CASE \E r \in Requests : Refuse(r) \/ Handle(r)
      BY <1>2, <2>1, RequestReply
    <2>2. CASE Answered \/ Unanswered \/ Lost
      <3>1. PICK answered \in BOOLEAN : CommandDone(answered)
        BY <2>2 DEF Answered, Unanswered, Lost
      <3> QED
        BY <1>2, <3>1, CommandReply
    <2>3. CASE Crash
      BY <1>2, <2>3 DEF Crash, ReplyAhead, ReplyTellsAnswers
    <2>4. CASE KeepAlive \/ Restart \/ Execute \/ UNCHANGED vars
      <3>1. UNCHANGED plugin
        BY <2>4 DEF KeepAlive, Restart, Execute, vars
      <3>2. Replies' = Replies /\ Handlers(asked)' = Handlers(asked)
        BY <3>1 DEF plugin, Replies, Handlers, Matches
      <3> QED
        BY <1>2, <3>1, <3>2 DEF plugin, ReplyAhead, ReplyTellsAnswers
    <2> QED
      BY <1>2, <2>1, <2>2, <2>3, <2>4 DEF Next
  <1> QED
    BY <1>1, <1>2, Invariant, PTL DEF Spec
-----------------------------------------------------------------------------
(* The texts.  What the modem will have been put into when it gets to place i of its
   queue q, if nothing restarts it before. *)

TextModeBy(q, i, mode) == mode \/ \E j \in 1..(i - 1) : q[j].at = "CMGF=1"

UCS2By(q, i, set) ==
    \/ /\ set = "UCS2"
       /\ \A k \in 1..(i - 1) : q[k].at # "CSCS=GSM"
    \/ \E j \in 1..(i - 1) :
        /\ q[j].at = "CSCS=UCS2"
        /\ \A k \in (j + 1)..(i - 1) : q[k].at # "CSCS=GSM"

(* The modem asks for the text of the request under way, or is about to. *)
TextAwaited ==
    IF toModem = <<>>
    THEN prompt = request
    ELSE toModem[Len(toModem)].at = "CMGS" /\ toModem[Len(toModem)].of = request

OnlyTextLeft == phase = "busy" /\ IsTextSend(asked) /\ \E t \in AllTexts : todo = <<t>>

(* What is left of the commands of a text, and what those before have led to. *)
RestOfText ==
    LET here == Len(toModem) + 1
    IN  \/ \E t \in AllTexts :
            \/ todo = <<"CMGF=1", "CSCS=UCS2", "CMGS", t>>
            \/ todo = <<"CSCS=UCS2", "CMGS", t>> /\ TextModeBy(toModem, here, textMode)
            \/ /\ todo = <<"CMGS", t>>
               /\ TextModeBy(toModem, here, textMode)
               /\ UCS2By(toModem, here, charset)
            \/ todo = <<t>> /\ TextAwaited
        \/ todo \in {<<"CMGF=1", "CSCS=UCS2", "CRASH">>, <<"CSCS=UCS2", "CRASH">>,
                     <<"CRASH">>}

(* Only a request to send a text has to do with texts. *)
OwnCommands ==
    phase = "busy" => request # 0 /\ (IsTextSend(asked) \/ Plain(todo))

Untyped == prompt = 0 => typed = <<>>

WholeTexts == \A i \in 1..Len(toModem) : toModem[i].at \in TextCommands => toModem[i].whole

(* What is on its way is what was asked for. *)
Undistorted == \A i \in 1..Len(toModem) : toModem[i].at \notin Distorted

(* The modem will be ready for each CMGS, and each is followed by a text: there or
   yet to come. *)
EachAsks ==
    \A i \in 1..Len(toModem) : toModem[i].at = "CMGS" =>
        /\ toModem[i].of # 0
        /\ TextModeBy(toModem, i, textMode)
        /\ UCS2By(toModem, i, charset)
        /\ IF i = Len(toModem)
           THEN OnlyTextLeft /\ toModem[i].of = request
           ELSE toModem[i + 1].at \in Texts

(* Each text has been asked for by the CMGS of its own request. *)
EachAnswers ==
    \A i \in 1..Len(toModem) : toModem[i].at \in Texts =>
        IF i = 1 THEN prompt # 0 /\ prompt = toModem[1].of
                 ELSE toModem[i - 1].at = "CMGS" /\ toModem[i - 1].of = toModem[i].of

Prompted ==
    prompt # 0 =>
        /\ charset = "UCS2"
        /\ IF toModem = <<>> THEN OnlyTextLeft /\ prompt = request
                             ELSE toModem[1].at \in Texts

(* When a text has been handed over the newest text is the request's, on its way or
   sent. *)
NewestText ==
    phase = "idle" /\ IsTextSend(asked) /\ Handlers(asked) # {} =>
        /\ \A i \in 1..Len(toModem) :
            /\ toModem[i].at \in Texts
            /\ \A j \in (i + 1)..Len(toModem) : toModem[j].at \notin Texts
            => toModem[i].of = request
        /\ (\A i \in 1..Len(toModem) : toModem[i].at \notin Texts) => sent.to = request

Orderly == typed = <<>> /\ Undistorted /\ WholeTexts /\ EachAsks /\ EachAnswers /\ Prompted

TextInv ==
    /\ OwnCommands
    /\ Untyped
    /\ ~disturbed =>
        /\ Orderly
        /\ NewestText
        /\ phase = "busy" /\ IsTextSend(asked) => RestOfText

(* What is ahead of a place depends on the commands before it. *)
LEMMA SameAhead ==
    ASSUME NEW p, NEW q, NEW i \in Nat, \A j \in 1..(i - 1) : p[j].at = q[j].at,
           NEW mode, NEW set
    PROVE  /\ TextModeBy(q, i, mode) => TextModeBy(p, i, mode)
           /\ UCS2By(q, i, set) => UCS2By(p, i, set)
  <1>1. TextModeBy(q, i, mode) => TextModeBy(p, i, mode)
    BY DEF TextModeBy
  <1>2. ASSUME UCS2By(q, i, set) PROVE UCS2By(p, i, set)
    <2>1. ASSUME NEW j \in Nat, NEW k \in (j + 1)..(i - 1) PROVE k \in 1..(i - 1)
      OBVIOUS
    <2> QED
      BY <1>2, <2>1 DEF UCS2By
  <1> QED
    BY <1>1, <1>2

(* One command later. *)
LEMMA NextAhead ==
    ASSUME NEW q, NEW i \in Nat \ {0}, NEW mode, NEW set
    PROVE  /\ TextModeBy(q, i, mode) => TextModeBy(q, i + 1, mode)
           /\ q[i].at = "CMGF=1" => TextModeBy(q, i + 1, mode)
           /\ UCS2By(q, i, set) /\ q[i].at # "CSCS=GSM" => UCS2By(q, i + 1, set)
           /\ q[i].at = "CSCS=UCS2" => UCS2By(q, i + 1, set)
  <1>1. i + 1 - 1 = i /\ i \in 1..i /\ \A j \in 1..i : j = i \/ j \in 1..(i - 1)
    OBVIOUS
  <1>2. \A j \in 1..(i - 1) : j \in 1..i
    OBVIOUS
  <1>3. /\ TextModeBy(q, i, mode) => TextModeBy(q, i + 1, mode)
        /\ q[i].at = "CMGF=1" => TextModeBy(q, i + 1, mode)
    BY <1>1, <1>2 DEF TextModeBy
  <1>4. ASSUME UCS2By(q, i, set), q[i].at # "CSCS=GSM" PROVE UCS2By(q, i + 1, set)
    <2>1. CASE set = "UCS2" /\ \A k \in 1..(i - 1) : q[k].at # "CSCS=GSM"
      BY <1>1, <1>4, <2>1 DEF UCS2By
    <2>2. CASE \E j \in 1..(i - 1) : /\ q[j].at = "CSCS=UCS2"
                                     /\ \A k \in (j + 1)..(i - 1) : q[k].at # "CSCS=GSM"
      <3>1. PICK j \in 1..(i - 1) : /\ q[j].at = "CSCS=UCS2"
                                    /\ \A k \in (j + 1)..(i - 1) : q[k].at # "CSCS=GSM"
        BY <2>2
      <3>2. \A k \in (j + 1)..i : k = i \/ k \in (j + 1)..(i - 1)
        OBVIOUS
      <3>3. j \in 1..i /\ \A k \in (j + 1)..i : q[k].at # "CSCS=GSM"
        BY <1>2, <1>4, <3>1, <3>2
      <3> QED
        BY <1>1, <3>1, <3>3 DEF UCS2By
    <2> QED
      BY <1>4, <2>1, <2>2 DEF UCS2By
  <1>5. ASSUME q[i].at = "CSCS=UCS2" PROVE UCS2By(q, i + 1, set)
    <2>1. \A k \in (i + 1)..i : FALSE
      OBVIOUS
    <2> QED
      BY <1>1, <1>5, <2>1 DEF UCS2By
  <1> QED
    BY <1>3, <1>4, <1>5

(* When the first command has been executed the others are ahead as before. *)
LEMMA ExecutedAhead ==
    ASSUME NEW p, NEW q, NEW i \in Nat \ {0}, \A j \in 1..(i - 1) : p[j].at = q[j + 1].at,
           NEW mode, NEW mode2, NEW set, NEW set2,
           mode => mode2, q[1].at = "CMGF=1" => mode2,
           set = "UCS2" /\ q[1].at # "CSCS=GSM" => set2 = "UCS2",
           q[1].at = "CSCS=UCS2" => set2 = "UCS2"
    PROVE  /\ TextModeBy(q, i + 1, mode) => TextModeBy(p, i, mode2)
           /\ UCS2By(q, i + 1, set) => UCS2By(p, i, set2)
  <1>1. i + 1 - 1 = i
    OBVIOUS
  <1>2. \A j \in 1..i : j = 1 \/ (j - 1 \in 1..(i - 1) /\ (j - 1) + 1 = j)
    OBVIOUS
  <1>3. \A j \in 1..(i - 1) : j + 1 \in 1..i
    OBVIOUS
  <1>4. ASSUME TextModeBy(q, i + 1, mode) PROVE TextModeBy(p, i, mode2)
    <2>1. CASE \E j \in 1..i : q[j].at = "CMGF=1"
      <3>1. PICK j \in 1..i : q[j].at = "CMGF=1"
        BY <2>1
      <3>2. CASE j = 1
        BY <3>1, <3>2 DEF TextModeBy
      <3>3. CASE j # 1
        <4>1. j - 1 \in 1..(i - 1) /\ p[j - 1].at = "CMGF=1"
          BY <1>2, <3>1, <3>3
        <4> QED
          BY <4>1 DEF TextModeBy
      <3> QED
        BY <3>2, <3>3
    <2> QED
      BY <1>1, <1>4, <2>1 DEF TextModeBy
  <1>5. ASSUME UCS2By(q, i + 1, set) PROVE UCS2By(p, i, set2)
    <2>1. CASE set = "UCS2" /\ \A k \in 1..i : q[k].at # "CSCS=GSM"
      <3>1. 1 \in 1..i
        OBVIOUS
      <3>2. \A k \in 1..(i - 1) : p[k].at # "CSCS=GSM"
        BY <1>3, <2>1
      <3> QED
        BY <2>1, <3>1, <3>2 DEF UCS2By
    <2>2. CASE \E j \in 1..i : /\ q[j].at = "CSCS=UCS2"
                               /\ \A k \in (j + 1)..i : q[k].at # "CSCS=GSM"
      <3>1. PICK j \in 1..i : /\ q[j].at = "CSCS=UCS2"
                              /\ \A k \in (j + 1)..i : q[k].at # "CSCS=GSM"
        BY <2>2
      <3>2. CASE j = 1
        <4>1. \A k \in 1..(i - 1) : k + 1 \in (j + 1)..i
          BY <3>2
        <4>2. \A k \in 1..(i - 1) : p[k].at # "CSCS=GSM"
          BY <3>1, <4>1
        <4> QED
          BY <3>1, <3>2, <4>2 DEF UCS2By
      <3>3. CASE j # 1
        <4>1. j - 1 \in 1..(i - 1) /\ p[j - 1].at = "CSCS=UCS2"
          BY <1>2, <3>1, <3>3
        <4>2. \A k \in ((j - 1) + 1)..(i - 1) : k + 1 \in (j + 1)..i /\ k \in 1..(i - 1)
          BY <4>1
        <4>3. \A k \in ((j - 1) + 1)..(i - 1) : p[k].at # "CSCS=GSM"
          BY <3>1, <4>2
        <4> QED
          BY <4>1, <4>3 DEF UCS2By
      <3> QED
        BY <3>2, <3>3
    <2> QED
      BY <1>1, <1>5, <2>1, <2>2 DEF UCS2By
  <1> QED
    BY <1>4, <1>5

(* The board notices a text that is asked for or about to be (PromptAhead counts): as
   many CMGS as texts on the way means that the last of them has its text. *)
LEMMA NothingAsked ==
    ASSUME IInv, EachAsks, EachAnswers, ~PromptAhead
    PROVE  /\ toModem = <<>> => prompt = 0
           /\ toModem # <<>> => toModem[Len(toModem)].at # "CMGS"
  <1> DEFINE n == Len(toModem)
             C == {i \in DOMAIN toModem : toModem[i].at \in {"CMGS"}}
             T == {i \in DOMAIN toModem : toModem[i].at \in Texts}
             a == IF prompt # 0 THEN 1 ELSE 0
  <1>1. toModem \in Seq(Item) /\ n \in Nat /\ DOMAIN toModem = 1..n /\ a \in {0, 1}
    BY DEF IInv, TypeOK
  <1>2. /\ IsFiniteSet(C) /\ IsFiniteSet(T)
        /\ Cardinality(C) \in Nat /\ Cardinality(T) \in Nat
    <2>1. IsFiniteSet(1..n)
      BY <1>1, FS_Interval
    <2>2. C \in SUBSET (1..n) /\ T \in SUBSET (1..n)
      BY <1>1
    <2>3. IsFiniteSet(C) /\ IsFiniteSet(T)
      BY ONLY <2>1, <2>2, FS_Subset
    <2> QED
      BY ONLY <2>3, FS_CardinalityType
  <1>3. Waiting({"CMGS"}) = Cardinality(C) /\ Waiting(Texts) = Cardinality(T)
    BY DEF Waiting
  <1>4. ~(Cardinality(C) + a > Cardinality(T))
    BY <1>3 DEF PromptAhead
  <1>5. ASSUME toModem = <<>>, prompt # 0 PROVE FALSE
    <2>1. T = {}
      BY <1>5
    <2>2. Cardinality(T) = 0
      BY ONLY <2>1, FS_EmptySet
    <2>3. a = 1
      BY <1>5
    <2> QED
      BY ONLY <1>2, <1>4, <2>2, <2>3, SMT
  <1>6. ASSUME toModem # <<>>, toModem[n].at = "CMGS" PROVE FALSE
    <2> DEFINE D == C \ {n}
               E == IF prompt # 0 THEN D \union {0} ELSE D
               f == [i \in T |-> i - 1]
    <2>1. n \in C /\ n \in Nat \ {0}
      BY <1>1, <1>6, EmptySeq
    <2>2. IsFiniteSet(D) /\ Cardinality(D) = Cardinality(C) - 1 /\ 0 \notin D
      <3>1. IsFiniteSet(D) /\ Cardinality(D) = Cardinality(C) - 1
        BY ONLY <1>2, <2>1, FS_RemoveElement
      <3>2. 0 \notin D
        BY <1>1
      <3> QED
        BY <3>1, <3>2
    <2>3. IsFiniteSet(E) /\ Cardinality(E) = Cardinality(C) - 1 + a
      <3>1. CASE prompt # 0
        <4>1. IsFiniteSet(D \union {0}) /\ Cardinality(D \union {0}) = Cardinality(D) + 1
          BY ONLY <2>2, FS_AddElement
        <4>2. E = D \union {0} /\ a = 1
          BY <3>1
        <4> QED
          BY ONLY <1>2, <2>2, <4>1, <4>2
      <3>2. CASE prompt = 0
        <4>1. E = D /\ a = 0
          BY <3>2
        <4> QED
          BY ONLY <1>2, <2>2, <4>1
      <3> QED
        BY <3>1, <3>2
    <2>4. ASSUME NEW i \in T PROVE i \in Int /\ i - 1 \in E
      <3>1. i \in 1..n /\ toModem[i].at \in Texts
        BY <1>1
      <3>2. CASE i = 1
        <4>1. prompt # 0
          BY <3>1, <3>2 DEF EachAnswers
        <4> QED
          BY <3>2, <4>1
      <3>3. CASE i # 1
        <4>1. toModem[i - 1].at = "CMGS"
          BY <3>1, <3>3 DEF EachAnswers
        <4>2. i - 1 \in 1..n /\ i - 1 # n
          BY <1>1, <3>1, <3>3
        <4>3. i - 1 \in D
          BY <1>1, <4>1, <4>2
        <4> QED
          BY <3>1, <4>3
      <3> QED
        BY <3>2, <3>3
    <2>5. f \in Injection(T, E)
      <3>1. f \in [T -> E]
        BY <2>4
      <3>2. \A i, j \in T : f[i] = f[j] => i = j
        <4>1. \A i \in T : i \in Int /\ f[i] = i - 1
          BY <2>4
        <4>2. \A i, j \in Int : i - 1 = j - 1 => i = j
          OBVIOUS
        <4> QED
          BY ONLY <4>1, <4>2
      <3> QED
        BY <3>1, <3>2 DEF Injection, IsInjective
    <2>6. Cardinality(T) <= Cardinality(E)
      BY ONLY <2>3, <2>5, FS_Injection
    <2> QED
      BY ONLY <1>1, <1>2, <1>4, <2>3, <2>6, SMT
  <1> QED
    BY <1>5, <1>6

(* A command more in the modem's queue. *)
LEMMA Added ==
    ASSUME IInv, NEW x \in Item, toModem' = Append(toModem, x)
    PROVE  /\ Len(toModem) \in Nat /\ Len(toModem') = Len(toModem) + 1
           /\ toModem' # <<>>
           /\ \A i \in 1..Len(toModem) : toModem'[i] = toModem[i]
           /\ toModem'[Len(toModem) + 1] = x
           /\ \A i \in 1..(Len(toModem) + 1) : \A mode, set :
                /\ TextModeBy(toModem, i, mode) => TextModeBy(toModem', i, mode)
                /\ UCS2By(toModem, i, set) => UCS2By(toModem', i, set)
  <1>1. toModem \in Seq(Item) /\ Len(toModem) \in Nat
    BY DEF IInv, TypeOK
  <1>2. /\ toModem' \in Seq(Item) /\ Len(toModem') = Len(toModem) + 1
        /\ \A i \in 1..Len(toModem) : toModem'[i] = toModem[i]
        /\ toModem'[Len(toModem) + 1] = x
    BY <1>1, AppendProperties
  <1>3. toModem' # <<>>
    BY <1>1, <1>2, EmptySeq
  <1>4. ASSUME NEW i \in 1..(Len(toModem) + 1), NEW mode, NEW set
        PROVE  /\ TextModeBy(toModem, i, mode) => TextModeBy(toModem', i, mode)
               /\ UCS2By(toModem, i, set) => UCS2By(toModem', i, set)
    <2>1. i \in Nat /\ \A j \in 1..(i - 1) : j \in 1..Len(toModem)
      BY <1>1
    <2>2. \A j \in 1..(i - 1) : toModem'[j].at = toModem[j].at
      BY <1>2, <2>1
    <2> QED
      BY ONLY <2>1, <2>2, SameAhead
  <1> QED
    BY <1>1, <1>2, <1>3, <1>4

(* One that has to do with no text, when none is asked for. *)
LEMMA PlainAdded ==
    ASSUME IInv, Orderly, NEW x \in Item, toModem' = Append(toModem, x),
           x.at \notin TextParts, x.at \in TextCommands => x.whole,
           x.at \notin Distorted,
           toModem = <<>> => prompt = 0,
           toModem # <<>> => toModem[Len(toModem)].at # "CMGS",
           UNCHANGED modem
    PROVE  Orderly'
  <1> DEFINE n == Len(toModem)
  <1>1. /\ n \in Nat /\ Len(toModem') = n + 1 /\ toModem' # <<>>
        /\ \A i \in 1..n : toModem'[i] = toModem[i]
        /\ toModem'[n + 1] = x
        /\ \A i \in 1..(n + 1) : \A mode, set :
             /\ TextModeBy(toModem, i, mode) => TextModeBy(toModem', i, mode)
             /\ UCS2By(toModem, i, set) => UCS2By(toModem', i, set)
    BY Added
  <1>2. /\ \A i \in 1..(n + 1) : i \in 1..n \/ i = n + 1
        /\ \A i \in 1..n : i \in 1..(n + 1) /\ (i = n \/ i + 1 \in 1..n)
        /\ \A i \in 1..n : i = 1 \/ i - 1 \in 1..n
        /\ \A i \in 1..n : n \in 1..n /\ i # n + 1
    BY <1>1
  <1>3. toModem # <<>> => 1 \in 1..n
    BY <1>1, EmptySeq DEF IInv, TypeOK
  <1>4. x.at # "CMGS" /\ x.at \notin Texts
    BY DEF TextParts, AllTexts
  <1>5. /\ textMode' = textMode /\ charset' = charset /\ prompt' = prompt
        /\ typed' = typed /\ sent' = sent
    BY DEF modem, modes
  <1>6. WholeTexts' /\ Undistorted'
    BY <1>1, <1>2 DEF Orderly, WholeTexts, Undistorted
  <1>7. \A i \in 1..n : toModem[i].at = "CMGS" => i # n
    <2>1. ASSUME NEW i \in 1..n PROVE toModem # <<>>
      BY <1>1
    <2> QED
      BY <2>1
  <1>8. EachAsks'
    <2> SUFFICES ASSUME NEW i \in 1..Len(toModem'), toModem'[i].at = "CMGS"
                 PROVE  /\ toModem'[i].of # 0
                        /\ TextModeBy(toModem', i, textMode')
                        /\ UCS2By(toModem', i, charset')
                        /\ i # Len(toModem')
                        /\ toModem'[i + 1].at \in Texts
      BY DEF EachAsks
    <2>1. i \in 1..n
      BY <1>1, <1>2, <1>4
    <2>2. toModem[i].at = "CMGS" /\ toModem'[i] = toModem[i] /\ i # n
      BY <1>1, <1>7, <2>1
    <2>3. /\ toModem[i].of # 0
          /\ TextModeBy(toModem, i, textMode)
          /\ UCS2By(toModem, i, charset)
          /\ toModem[i + 1].at \in Texts
      BY <2>1, <2>2 DEF Orderly, EachAsks
    <2>4. i + 1 \in 1..n /\ i \in 1..(n + 1) /\ i # n + 1
      BY <1>2, <2>1, <2>2
    <2> QED
      BY <1>1, <1>5, <2>2, <2>3, <2>4
  <1>9. EachAnswers'
    <2> SUFFICES ASSUME NEW i \in 1..Len(toModem'), toModem'[i].at \in Texts
                 PROVE  IF i = 1 THEN prompt' # 0 /\ prompt' = toModem'[1].of
                        ELSE /\ toModem'[i - 1].at = "CMGS"
                             /\ toModem'[i - 1].of = toModem'[i].of
      BY DEF EachAnswers
    <2>1. i \in 1..n
      BY <1>1, <1>2, <1>4
    <2>2. toModem[i].at \in Texts /\ toModem'[i] = toModem[i]
      BY <1>1, <2>1
    <2>3. IF i = 1 THEN prompt # 0 /\ prompt = toModem[1].of
          ELSE toModem[i - 1].at = "CMGS" /\ toModem[i - 1].of = toModem[i].of
      BY <2>1, <2>2 DEF Orderly, EachAnswers
    <2>4. i = 1 \/ (i # 1 /\ toModem'[i - 1] = toModem[i - 1])
      BY <1>1, <1>2, <2>1
    <2> QED
      BY <1>5, <2>2, <2>3, <2>4
  <1>10. Prompted'
    <2>1. ASSUME prompt # 0 PROVE charset = "UCS2" /\ toModem'[1].at \in Texts
      <3>1. toModem # <<>>
        BY <2>1
      <3>2. charset = "UCS2" /\ toModem[1].at \in Texts
        BY <2>1, <3>1 DEF Orderly, Prompted
      <3> QED
        BY <1>1, <1>3, <3>1, <3>2
    <2> QED
      BY <1>1, <1>5, <2>1 DEF Prompted
  <1> QED
    BY <1>5, <1>6, <1>8, <1>9, <1>10 DEF Orderly

(* Where no text is awaited alone, none is asked for at the end of the queue. *)
LEMMA NoneAsked ==
    ASSUME IInv, Orderly, ~OnlyTextLeft
    PROVE  /\ toModem = <<>> => prompt = 0
           /\ toModem # <<>> => toModem[Len(toModem)].at # "CMGS"
  <1>1. toModem = <<>> => prompt = 0
    BY DEF Orderly, Prompted
  <1>2. toModem # <<>> => Len(toModem) \in 1..Len(toModem)
    BY EmptySeq DEF IInv, TypeOK
  <1>3. toModem # <<>> => toModem[Len(toModem)].at # "CMGS"
    BY <1>2 DEF Orderly, EachAsks
  <1> QED
    BY <1>1, <1>3

(* The queue remains in order when only the plugin goes on to something that is no
   part of sending a text. *)
LEMMA OrderKept ==
    ASSUME IInv, Orderly, ~OnlyTextLeft, UNCHANGED <<toModem, modem>>
    PROVE  Orderly'
  <1>1. /\ toModem' = toModem /\ textMode' = textMode /\ charset' = charset
        /\ prompt' = prompt /\ typed' = typed
    BY DEF modem, modes
  <1>2. WholeTexts' /\ Undistorted' /\ EachAnswers' /\ typed' = <<>>
    BY <1>1 DEF Orderly, WholeTexts, Undistorted, EachAnswers
  <1>3. EachAsks'
    <2>1. \A i \in 1..Len(toModem) : toModem[i].at = "CMGS" =>
            /\ toModem[i].of # 0
            /\ TextModeBy(toModem, i, textMode)
            /\ UCS2By(toModem, i, charset)
            /\ i # Len(toModem)
            /\ toModem[i + 1].at \in Texts
      BY DEF Orderly, EachAsks
    <2> QED
      BY <1>1, <2>1 DEF EachAsks
  <1>4. Prompted'
    BY <1>1 DEF Orderly, Prompted
  <1> QED
    BY <1>2, <1>3, <1>4 DEF Orderly

LEMMA RequestTexts ==
    ASSUME IInv, TextInv, NEW r \in Requests, Refuse(r) \/ Handle(r)
    PROVE  TextInv'
  <1>1. /\ phase = "idle" /\ request' = request + 1 /\ request \in Nat
        /\ asked' = r /\ allowed' = allowed
        /\ disturbed' = (disturbed /\ (prompt # 0 \/ toModem # <<>> \/ "anything" \in done))
        /\ UNCHANGED <<toModem, modem>>
    BY DEF Refuse, Handle, NextRequest, IInv, TypeOK
  <1>2. Handlers(asked)' = Handlers(r)
    BY <1>1 DEF Handlers, Matches
  <1>3. /\ phase' = "busy" => IF IsTextSend(r) THEN todo' \in TextScripts ELSE Plain(todo')
        /\ phase' = "idle" /\ IsTextSend(r) => Handlers(r) = {}
    <2>1. CASE Refuse(r)
      BY <1>1, <2>1 DEF Refuse
    <2>2. CASE Handle(r)
      <3>1. PICK h \in Handlers(r) :
             /\ phase' = "idle" => h.replies = "file"
             /\ h.replies = ReplyOf(r.word, r.verb)
             /\ IF IsTextSend(r) THEN todo' \in TextScripts ELSE Plain(todo')
        BY <2>2, HandleDoes
      <3>2. IsTextSend(r) => ReplyOf(r.word, r.verb) = "none"
        BY DEF IsTextSend, ReplyOf
      <3> QED
        BY <3>1, <3>2
    <2> QED
      BY <2>1, <2>2
  <1>4. OwnCommands'
    BY <1>1, <1>3 DEF OwnCommands, IsTextSend
  <1>5. Untyped'
    BY <1>1 DEF TextInv, Untyped, modem
  <1>6. ASSUME ~disturbed' PROVE Orderly' /\ NewestText'
                                 /\ (phase' = "busy" /\ IsTextSend(asked') => RestOfText')
    <2>1. Orderly'
      <3>1. CASE ~disturbed
        <4>1. Orderly /\ ~OnlyTextLeft
          BY <1>1, <3>1 DEF TextInv, OnlyTextLeft
        <4> QED
          BY <1>1, <4>1, OrderKept
      <3>2. CASE prompt = 0 /\ toModem = <<>>
        <4>1. prompt' = 0 /\ toModem' = <<>> /\ typed' = <<>>
          BY <1>1, <3>2 DEF TextInv, Untyped, modem
        <4>2. \A i \in 1..Len(toModem') : FALSE
          BY <4>1
        <4> QED
          BY <4>1, <4>2 DEF Orderly, Undistorted, WholeTexts, EachAsks, EachAnswers,
             Prompted
      <3> QED
        BY <1>1, <1>6, <3>1, <3>2
    <2>2. NewestText'
      BY <1>1, <1>2, <1>3 DEF NewestText, IsTextSend
    <2>3. phase' = "busy" /\ IsTextSend(asked') => RestOfText'
      BY <1>1, <1>3 DEF RestOfText, TextScripts
    <2> QED
      BY <2>1, <2>2, <2>3
  <1> QED
    BY <1>4, <1>5, <1>6 DEF TextInv, IsTextSend

(* The commands of a text, one by one. *)
LEMMA HeadsAndTails ==
    ASSUME NEW c, NEW d, NEW e, NEW f
    PROVE  /\ Head(<<c, d, e, f>>) = c /\ Tail(<<c, d, e, f>>) = <<d, e, f>>
           /\ Len(<<c, d, e, f>>) = 4
           /\ Head(<<d, e, f>>) = d /\ Tail(<<d, e, f>>) = <<e, f>> /\ Len(<<d, e, f>>) = 3
           /\ Head(<<e, f>>) = e /\ Tail(<<e, f>>) = <<f>> /\ Len(<<e, f>>) = 2
           /\ Head(<<f>>) = f /\ Tail(<<f>>) = <<>> /\ Len(<<f>>) = 1
  OBVIOUS

(* What at_send_command's end leaves to do. *)
LEMMA CommandLeaves ==
    ASSUME IInv, TextInv, NEW answered \in BOOLEAN, CommandDone(answered)
    PROVE  /\ phase = "busy" /\ request # 0 /\ todo' = Tail(todo)
           /\ Len(todo) > 1 => phase' = "busy"
           /\ Len(todo) = 1 => phase' # "busy"
           /\ UNCHANGED <<allowed, request, asked, modem>>
           /\ OwnCommands' /\ Untyped'
           /\ [at |-> Head(todo), of |-> request, whole |-> TRUE] \in Item
           /\ ~IsTextSend(asked) => Head(todo) \notin TextParts
  <1>1. /\ phase = "busy" /\ todo' = Tail(todo) /\ phase' \in PhasesAfter(answered)
        /\ UNCHANGED <<allowed, request, asked, modem>>
    BY DEF CommandDone
  <1>2. request # 0 /\ (IsTextSend(asked) \/ Plain(todo))
    BY <1>1 DEF TextInv, OwnCommands
  <1>3. Len(todo) > 1 => phase' = "busy"
    <2>1. ASSUME Len(todo) > 1 PROVE PhasesAfter(answered) = {"busy"}
      BY <2>1 DEF PhasesAfter
    <2>2. ASSUME Len(todo) > 1 PROVE phase' = "busy"
      BY <1>1, <2>1, <2>2
    <2> QED
      BY <2>2
  <1>4. Len(todo) = 1 => phase' # "busy"
    <2>1. ASSUME Len(todo) = 1 PROVE "busy" \notin PhasesAfter(answered)
      <3>1. ~(Len(todo) > 1)
        BY <2>1
      <3> QED
        BY <3>1 DEF PhasesAfter
    <2> QED
      BY <1>1, <2>1
  <1>5. /\ todo \in Seq(At) /\ todo # <<>> /\ Len(todo) \in Nat \ {0}
        /\ Head(todo) = todo[1] /\ Head(todo) \in At
        /\ Len(Tail(todo)) = Len(todo) - 1
        /\ \A i \in 1..Len(Tail(todo)) : Tail(todo)[i] = todo[i + 1]
    <2>1. todo \in Seq(At) /\ todo # <<>>
      BY <1>1 DEF IInv, TypeOK, BusyWithSomething
    <2> QED
      BY <2>1, EmptySeq, HeadTailProperties
  <1>6. Plain(todo) => Plain(Tail(todo))
    <2>1. \A i \in 1..Len(Tail(todo)) : i + 1 \in 1..Len(todo)
      BY <1>5
    <2> QED
      BY <1>5, <2>1 DEF Plain
  <1>7. Plain(todo) => Head(todo) \notin TextParts
    <2>1. 1 \in 1..Len(todo)
      BY <1>5
    <2> QED
      BY <1>5, <2>1 DEF Plain
  <1>8. OwnCommands'
    BY <1>1, <1>2, <1>6 DEF OwnCommands, IsTextSend
  <1>9. Untyped'
    BY <1>1 DEF TextInv, Untyped, modem
  <1>10. [at |-> Head(todo), of |-> request, whole |-> TRUE] \in Item
    BY <1>5 DEF IInv, TypeOK, Item
  <1> QED
    BY <1>1, <1>2, <1>3, <1>4, <1>7, <1>8, <1>9, <1>10

LEMMA LostTexts ==
    ASSUME IInv, TextInv, Lost
    PROVE  TextInv'
  <1>1. CommandDone(FALSE) /\ disturbed' = (disturbed \/ IsTextSend(asked))
        /\ toModem' = toModem
    BY DEF Lost
  <1>2. OwnCommands' /\ Untyped' /\ asked' = asked /\ UNCHANGED modem
    BY <1>1, CommandLeaves
  <1>3. ASSUME ~disturbed' PROVE Orderly' /\ ~IsTextSend(asked')
    <2>1. ~IsTextSend(asked) /\ ~disturbed
      BY <1>1, <1>3
    <2>2. Orderly /\ ~OnlyTextLeft
      BY <2>1 DEF TextInv, OnlyTextLeft
    <2>3. Orderly'
      BY <1>1, <1>2, <2>2, OrderKept
    <2> QED
      BY <1>2, <2>1, <2>3 DEF IsTextSend
  <1> QED
    BY <1>2, <1>3 DEF TextInv, NewestText, IsTextSend

(* The CMGS of a text gets to the modem: the text is what is left. *)
LEMMA CMGSAdded ==
    ASSUME IInv, Orderly, NEW t \in AllTexts, todo' = <<t>>, phase' = "busy",
           IsTextSend(asked'), ~OnlyTextLeft, request # 0, request' = request,
           TextModeBy(toModem, Len(toModem) + 1, textMode),
           UCS2By(toModem, Len(toModem) + 1, charset),
           NEW x \in Item, toModem' = Append(toModem, x),
           x.at = "CMGS", x.of = request, x.whole,
           UNCHANGED modem
    PROVE  Orderly' /\ TextAwaited'
  <1> DEFINE n == Len(toModem)
  <1>1. /\ n \in Nat /\ Len(toModem') = n + 1 /\ toModem' # <<>>
        /\ \A i \in 1..n : toModem'[i] = toModem[i]
        /\ toModem'[n + 1] = x
        /\ \A i \in 1..(n + 1) : \A mode, set :
             /\ TextModeBy(toModem, i, mode) => TextModeBy(toModem', i, mode)
             /\ UCS2By(toModem, i, set) => UCS2By(toModem', i, set)
    BY Added
  <1>2. /\ \A i \in 1..(n + 1) : i \in 1..n \/ i = n + 1
        /\ \A i \in 1..n : i \in 1..(n + 1) /\ (i = n \/ i + 1 \in 1..n) /\ i # n + 1
        /\ \A i \in 1..n : i = 1 \/ i - 1 \in 1..n
        /\ n + 1 \in 1..(n + 1)
    BY <1>1
  <1>3. /\ toModem # <<>> => 1 \in 1..n /\ n \in 1..n
        /\ toModem = <<>> => prompt = 0
        /\ toModem # <<>> => toModem[n].at # "CMGS"
        /\ \A i \in 1..n : toModem # <<>>
    BY <1>1, EmptySeq, NoneAsked DEF IInv, TypeOK
  <1>4. x.at \notin Texts
    BY DEF Texts
  <1>5. /\ textMode' = textMode /\ charset' = charset /\ prompt' = prompt
        /\ typed' = typed
    BY DEF modem, modes
  <1>6. WholeTexts' /\ Undistorted'
    BY <1>1, <1>2 DEF Orderly, WholeTexts, Undistorted, Distorted
  <1>7. OnlyTextLeft'
    BY DEF OnlyTextLeft, IsTextSend
  <1>8. EachAsks'
    <2> SUFFICES ASSUME NEW i \in 1..Len(toModem'), toModem'[i].at = "CMGS"
                 PROVE  /\ toModem'[i].of # 0
                        /\ TextModeBy(toModem', i, textMode')
                        /\ UCS2By(toModem', i, charset')
                        /\ IF i = Len(toModem')
                           THEN OnlyTextLeft' /\ toModem'[i].of = request'
                           ELSE toModem'[i + 1].at \in Texts
      BY DEF EachAsks
    <2>1. CASE i \in 1..n
      <3>1. toModem[i].at = "CMGS" /\ toModem'[i] = toModem[i] /\ i # n
        BY <1>1, <1>3, <2>1
      <3>2. /\ toModem[i].of # 0
            /\ TextModeBy(toModem, i, textMode)
            /\ UCS2By(toModem, i, charset)
            /\ toModem[i + 1].at \in Texts
        BY <2>1, <3>1 DEF Orderly, EachAsks
      <3>3. i + 1 \in 1..n /\ i \in 1..(n + 1) /\ i # n + 1
        BY <1>2, <2>1, <3>1
      <3> QED
        BY <1>1, <1>5, <3>1, <3>2, <3>3
    <2>2. CASE i = n + 1
      <3>1. toModem'[i].of = request
        BY <1>1, <2>2
      <3>2. TextModeBy(toModem', i, textMode) /\ UCS2By(toModem', i, charset)
        BY <1>1, <1>2, <2>2
      <3> QED
        BY <1>1, <1>5, <1>7, <2>2, <3>1, <3>2
    <2> QED
      BY <1>1, <1>2, <2>1, <2>2
  <1>9. EachAnswers'
    <2> SUFFICES ASSUME NEW i \in 1..Len(toModem'), toModem'[i].at \in Texts
                 PROVE  IF i = 1 THEN prompt' # 0 /\ prompt' = toModem'[1].of
                        ELSE /\ toModem'[i - 1].at = "CMGS"
                             /\ toModem'[i - 1].of = toModem'[i].of
      BY DEF EachAnswers
    <2>1. i \in 1..n
      BY <1>1, <1>2, <1>4
    <2>2. toModem[i].at \in Texts /\ toModem'[i] = toModem[i]
      BY <1>1, <2>1
    <2>3. IF i = 1 THEN prompt # 0 /\ prompt = toModem[1].of
          ELSE toModem[i - 1].at = "CMGS" /\ toModem[i - 1].of = toModem[i].of
      BY <2>1, <2>2 DEF Orderly, EachAnswers
    <2>4. i = 1 \/ (i # 1 /\ toModem'[i - 1] = toModem[i - 1])
      BY <1>1, <1>2, <2>1
    <2> QED
      BY <1>5, <2>2, <2>3, <2>4
  <1>10. Prompted'
    <2>1. ASSUME prompt # 0 PROVE charset = "UCS2" /\ toModem'[1].at \in Texts
      <3>1. toModem # <<>>
        BY <1>3, <2>1
      <3>2. charset = "UCS2" /\ toModem[1].at \in Texts
        BY <2>1, <3>1 DEF Orderly, Prompted
      <3> QED
        BY <1>1, <1>3, <3>1, <3>2
    <2> QED
      BY <1>1, <1>5, <2>1 DEF Prompted
  <1>11. TextAwaited'
    BY <1>1 DEF TextAwaited
  <1> QED
    BY <1>5, <1>6, <1>8, <1>9, <1>10, <1>11 DEF Orderly

(* A text that the modem asks for, or is about to, gets there. *)
LEMMA TextAdded ==
    ASSUME IInv, Orderly, TextAwaited, request # 0, request' = request,
           NEW x \in Item, toModem' = Append(toModem, x),
           x.at \in Texts, x.at \notin Distorted, x.of = request, x.whole,
           UNCHANGED modem
    PROVE  Orderly' /\ NewestText'
  <1> DEFINE n == Len(toModem)
  <1>1. /\ n \in Nat /\ Len(toModem') = n + 1 /\ toModem' # <<>>
        /\ \A i \in 1..n : toModem'[i] = toModem[i]
        /\ toModem'[n + 1] = x
        /\ \A i \in 1..(n + 1) : \A mode, set :
             /\ TextModeBy(toModem, i, mode) => TextModeBy(toModem', i, mode)
             /\ UCS2By(toModem, i, set) => UCS2By(toModem', i, set)
    BY Added
  <1>2. /\ \A i \in 1..(n + 1) : i \in 1..n \/ i = n + 1
        /\ \A i \in 1..n : i \in 1..(n + 1) /\ (i = n \/ i + 1 \in 1..n) /\ i # n + 1
        /\ \A i \in 1..n : i = 1 \/ i - 1 \in 1..n
        /\ \A i \in 1..n : n + 1 \in (i + 1)..(n + 1)
        /\ n + 1 \in 1..(n + 1) /\ (n + 1) - 1 = n
        /\ n = 0 \/ n + 1 # 1
    BY <1>1
  <1>3. /\ toModem # <<>> => 1 \in 1..n /\ n \in 1..n
        /\ toModem = <<>> <=> n = 0
    BY <1>1, EmptySeq DEF IInv, TypeOK
  <1>4. x.at # "CMGS"
    BY DEF Texts
  <1>5. /\ textMode' = textMode /\ charset' = charset /\ prompt' = prompt
        /\ typed' = typed
    BY DEF modem, modes
  <1>6. WholeTexts' /\ Undistorted'
    BY <1>1, <1>2 DEF Orderly, WholeTexts, Undistorted
  <1>7. EachAsks'
    <2> SUFFICES ASSUME NEW i \in 1..Len(toModem'), toModem'[i].at = "CMGS"
                 PROVE  /\ toModem'[i].of # 0
                        /\ TextModeBy(toModem', i, textMode')
                        /\ UCS2By(toModem', i, charset')
                        /\ i # Len(toModem')
                        /\ toModem'[i + 1].at \in Texts
      BY DEF EachAsks
    <2>1. i \in 1..n
      BY <1>1, <1>2, <1>4
    <2>2. toModem[i].at = "CMGS" /\ toModem'[i] = toModem[i]
      BY <1>1, <2>1
    <2>3. /\ toModem[i].of # 0
          /\ TextModeBy(toModem, i, textMode)
          /\ UCS2By(toModem, i, charset)
          /\ i # n => toModem[i + 1].at \in Texts
      BY <2>1, <2>2 DEF Orderly, EachAsks
    <2>4. toModem'[i + 1].at \in Texts
      <3>1. CASE i = n
        BY <1>1, <3>1
      <3>2. CASE i # n
        <4>1. i + 1 \in 1..n
          BY <1>2, <2>1, <3>2
        <4> QED
          BY <1>1, <2>3, <3>2, <4>1
      <3> QED
        BY <3>1, <3>2
    <2>5. i \in 1..(n + 1) /\ i # n + 1
      BY <1>2, <2>1
    <2> QED
      BY <1>1, <1>5, <2>2, <2>3, <2>4, <2>5
  <1>8. EachAnswers'
    <2> SUFFICES ASSUME NEW i \in 1..Len(toModem'), toModem'[i].at \in Texts
                 PROVE  IF i = 1 THEN prompt' # 0 /\ prompt' = toModem'[1].of
                        ELSE /\ toModem'[i - 1].at = "CMGS"
                             /\ toModem'[i - 1].of = toModem'[i].of
      BY DEF EachAnswers
    <2>1. CASE i \in 1..n
      <3>1. toModem[i].at \in Texts /\ toModem'[i] = toModem[i]
        BY <1>1, <2>1
      <3>2. IF i = 1 THEN prompt # 0 /\ prompt = toModem[1].of
            ELSE toModem[i - 1].at = "CMGS" /\ toModem[i - 1].of = toModem[i].of
        BY <2>1, <3>1 DEF Orderly, EachAnswers
      <3>3. i = 1 \/ (i # 1 /\ toModem'[i - 1] = toModem[i - 1])
        BY <1>1, <1>2, <2>1
      <3> QED
        BY <1>5, <3>1, <3>2, <3>3
    <2>2. CASE i = n + 1
      <3>1. CASE n = 0
        <4>1. i = 1 /\ toModem'[1] = x
          BY <1>1, <2>2, <3>1
        <4>2. prompt = request
          BY <1>3, <3>1 DEF TextAwaited
        <4> QED
          BY <1>5, <4>1, <4>2
      <3>2. CASE n # 0
        <4>1. i # 1 /\ i - 1 = n /\ toModem'[i - 1] = toModem[n] /\ toModem'[i] = x
          BY <1>1, <1>2, <1>3, <2>2, <3>2
        <4>2. toModem[n].at = "CMGS" /\ toModem[n].of = request
          BY <1>3, <3>2 DEF TextAwaited
        <4> QED
          BY <4>1, <4>2
      <3> QED
        BY <3>1, <3>2
    <2> QED
      BY <1>1, <1>2, <2>1, <2>2
  <1>9. Prompted'
    <2>1. ASSUME prompt # 0 PROVE charset = "UCS2" /\ toModem'[1].at \in Texts
      <3>1. charset = "UCS2"
        BY <2>1 DEF Orderly, Prompted
      <3>2. CASE toModem = <<>>
        <4>1. n + 1 = 1
          BY <1>3, <3>2
        <4> QED
          BY <1>1, <3>1, <4>1
      <3>3. CASE toModem # <<>>
        <4>1. toModem[1].at \in Texts
          BY <2>1, <3>3 DEF Orderly, Prompted
        <4> QED
          BY <1>1, <1>3, <3>1, <3>3, <4>1
      <3> QED
        BY <3>2, <3>3
    <2> QED
      BY <1>1, <1>5, <2>1 DEF Prompted
  <1>10. NewestText'
    <2>1. ASSUME NEW i \in 1..(n + 1),
                 \A j \in (i + 1)..(n + 1) : toModem'[j].at \notin Texts
          PROVE  toModem'[i].of = request
      <3>1. i = n + 1
        BY <1>1, <1>2, <2>1
      <3> QED
        BY <1>1, <3>1
    <2>2. toModem'[n + 1].at \in Texts
      BY <1>1
    <2> QED
      BY <1>1, <1>2, <2>1, <2>2 DEF NewestText
  <1> QED
    BY <1>5, <1>6, <1>7, <1>8, <1>9, <1>10 DEF Orderly

LEMMA DeliveredTexts ==
    ASSUME IInv, TextInv, NEW answered \in BOOLEAN, CommandDone(answered), Delivered
    PROVE  TextInv'
  <1> DEFINE x == [at |-> Head(todo), of |-> request, whole |-> TRUE]
             n == Len(toModem)
  <1>1. /\ phase = "busy" /\ request # 0 /\ todo' = Tail(todo)
        /\ Len(todo) > 1 => phase' = "busy"
        /\ Len(todo) = 1 => phase' # "busy"
        /\ request' = request /\ asked' = asked /\ allowed' = allowed
        /\ UNCHANGED modem
        /\ OwnCommands' /\ Untyped'
        /\ x \in Item
        /\ ~IsTextSend(asked) => Head(todo) \notin TextParts
    BY CommandLeaves
  <1>2. /\ x.at = Head(todo) /\ x.of = request /\ x.whole
        /\ toModem' = Append(toModem, x)
        /\ disturbed' = (disturbed \/ x.at \in Distorted)
    BY DEF Delivered
  <1>3. /\ textMode' = textMode /\ charset' = charset
    BY <1>1 DEF modem, modes
  <1> HIDE DEF x
  <1>4. Head(todo) # "CRASH"
    BY DEF CommandDone
  <1> SUFFICES ASSUME ~disturbed'
               PROVE  /\ Orderly' /\ NewestText'
                      /\ phase' = "busy" /\ IsTextSend(asked') => RestOfText'
    BY <1>1 DEF TextInv, IsTextSend
  <1>5. /\ Orderly
        /\ IsTextSend(asked) => RestOfText
        /\ x.at \notin Distorted
    BY <1>1, <1>2 DEF TextInv
  <1>6. ASSUME Head(todo) \notin TextParts, ~OnlyTextLeft PROVE Orderly'
    <2>1. /\ toModem = <<>> => prompt = 0
          /\ toModem # <<>> => toModem[Len(toModem)].at # "CMGS"
      BY <1>5, <1>6, NoneAsked
    <2> QED
      BY <1>1, <1>2, <1>5, <1>6, <2>1, PlainAdded
  <1>7. CASE ~IsTextSend(asked)
    <2>1. Head(todo) \notin TextParts /\ ~OnlyTextLeft /\ ~IsTextSend(asked')
      BY <1>1, <1>7 DEF OnlyTextLeft
    <2> QED
      BY <1>6, <2>1 DEF NewestText, IsTextSend
  <1>8. OnlyTextLeft => Len(todo) = 1
    BY HeadsAndTails DEF OnlyTextLeft
  <1>9. "CMGF=1" \notin TextParts /\ "CSCS=UCS2" \notin TextParts
    BY DEF TextParts, AllTexts, Texts
  <1>10. CASE IsTextSend(asked)
    <2>1. /\ n \in Nat /\ Len(toModem') = n + 1 /\ n + 1 \in 1..(n + 1)
          /\ n + 1 \in Nat \ {0}
          /\ toModem'[n + 1] = x
          /\ \A mode, set :
               /\ TextModeBy(toModem, n + 1, mode) => TextModeBy(toModem', n + 1, mode)
               /\ UCS2By(toModem, n + 1, set) => UCS2By(toModem', n + 1, set)
      <3>1. n \in Nat
        BY DEF IInv, TypeOK
      <3>2. n + 1 \in 1..(n + 1) /\ n + 1 \in Nat \ {0}
        BY <3>1
      <3> QED
        BY <1>1, <1>2, <3>1, <3>2, Added
    <2>2. IsTextSend(asked')
      BY <1>1, <1>10
    <2>3. CASE \E t \in AllTexts : todo = <<"CMGF=1", "CSCS=UCS2", "CMGS", t>>
      <3>1. PICK t \in AllTexts : todo = <<"CMGF=1", "CSCS=UCS2", "CMGS", t>>
        BY <2>3
      <3>2. Head(todo) = "CMGF=1" /\ todo' = <<"CSCS=UCS2", "CMGS", t>> /\ Len(todo) = 4
        BY <1>1, <3>1, HeadsAndTails
      <3>3. ~OnlyTextLeft /\ phase' = "busy" /\ "CMGF=1" \notin TextParts
        BY <1>1, <1>8, <1>9, <3>2
      <3>4. TextModeBy(toModem', n + 1 + 1, textMode')
        BY <1>2, <2>1, <3>2, NextAhead
      <3> QED
        BY <1>6, <2>1, <3>2, <3>3, <3>4 DEF NewestText, RestOfText
    <2>4. CASE \E t \in AllTexts : /\ todo = <<"CSCS=UCS2", "CMGS", t>>
                                /\ TextModeBy(toModem, n + 1, textMode)
      <3>1. PICK t \in AllTexts : todo = <<"CSCS=UCS2", "CMGS", t>>
        BY <2>4
      <3>2. Head(todo) = "CSCS=UCS2" /\ todo' = <<"CMGS", t>> /\ Len(todo) = 3
        BY <1>1, <3>1, HeadsAndTails
      <3>3. ~OnlyTextLeft /\ phase' = "busy" /\ "CSCS=UCS2" \notin TextParts
        BY <1>1, <1>8, <1>9, <3>2
      <3>4. /\ TextModeBy(toModem', n + 1 + 1, textMode')
            /\ UCS2By(toModem', n + 1 + 1, charset')
        BY <1>2, <1>3, <2>1, <2>4, <3>2, NextAhead
      <3> QED
        BY <1>6, <2>1, <3>2, <3>3, <3>4 DEF NewestText, RestOfText
    <2>5. CASE \E t \in AllTexts : /\ todo = <<"CMGS", t>>
                                /\ TextModeBy(toModem, n + 1, textMode)
                                /\ UCS2By(toModem, n + 1, charset)
      <3>1. PICK t \in AllTexts : todo = <<"CMGS", t>>
        BY <2>5
      <3>2. Head(todo) = "CMGS" /\ todo' = <<t>> /\ Len(todo) = 2
        BY <1>1, <3>1, HeadsAndTails
      <3>3. ~OnlyTextLeft /\ phase' = "busy"
        BY <1>1, <3>2 DEF OnlyTextLeft
      <3>4. Orderly' /\ TextAwaited'
        BY <1>1, <1>2, <1>5, <2>2, <2>5, <3>2, <3>3, CMGSAdded
      <3> QED
        BY <3>2, <3>3, <3>4 DEF NewestText, RestOfText
    <2>6. CASE \E t \in AllTexts : todo = <<t>> /\ TextAwaited
      <3>1. PICK t \in AllTexts : todo = <<t>>
        BY <2>6
      <3>2. Head(todo) = t /\ Len(todo) = 1
        BY <3>1, HeadsAndTails
      <3>3. Orderly' /\ NewestText'
        <4>1. t \in Texts
          BY <1>2, <1>5, <3>2 DEF AllTexts, Distorted
        <4> QED
          BY <1>1, <1>2, <1>5, <2>6, <3>2, <4>1, TextAdded
      <3> QED
        BY <1>1, <3>2, <3>3
    <2>7. CASE todo \in {<<"CMGF=1", "CSCS=UCS2", "CRASH">>, <<"CSCS=UCS2", "CRASH">>}
      <3>1. \/ /\ Head(todo) = "CMGF=1" /\ todo' = <<"CSCS=UCS2", "CRASH">>
               /\ Len(todo) = 3
            \/ /\ Head(todo) = "CSCS=UCS2" /\ todo' = <<"CRASH">> /\ Len(todo) = 2
        <4>1. CASE todo = <<"CMGF=1", "CSCS=UCS2", "CRASH">>
          BY <1>1, <4>1, HeadsAndTails
        <4>2. CASE todo = <<"CSCS=UCS2", "CRASH">>
          BY <1>1, <4>2, HeadsAndTails
        <4> QED
          BY <2>7, <4>1, <4>2
      <3>2. Len(todo) \in {2, 3}
        BY <3>1
      <3>3. ~OnlyTextLeft
        BY <1>8, <3>2
      <3>4. phase' = "busy"
        BY <1>1, <3>2
      <3>5. Head(todo) \notin TextParts
        BY <1>9, <3>1
      <3>6. todo' \in {<<"CSCS=UCS2", "CRASH">>, <<"CRASH">>}
        BY <3>1
      <3> QED
        BY <1>6, <3>3, <3>4, <3>5, <3>6 DEF NewestText, RestOfText
    <2>8. CASE todo = <<"CRASH">>
      BY <1>4, <2>8, HeadsAndTails
    <2> QED
      BY <1>5, <1>10, <2>3, <2>4, <2>5, <2>6, <2>7, <2>8 DEF RestOfText
  <1> QED
    BY <1>7, <1>10

LEMMA CrashTexts ==
    ASSUME IInv, TextInv, Crash
    PROVE  TextInv'
  <1>1. /\ phase = "busy" /\ Head(todo) = "CRASH" /\ phase' = "crashed"
        /\ UNCHANGED <<toModem, modem, disturbed>>
    BY DEF Crash
  <1>2. ~OnlyTextLeft
    <2>1. \A t \in AllTexts : todo = <<t>> => Head(todo) \in AllTexts
      BY HeadsAndTails
    <2>2. "CRASH" \notin AllTexts
      BY DEF AllTexts, Texts
    <2> QED
      BY <1>1, <2>1, <2>2 DEF OnlyTextLeft
  <1>3. OwnCommands' /\ Untyped'
    BY <1>1 DEF TextInv, OwnCommands, Untyped, modem
  <1>4. ~disturbed' => Orderly'
    BY <1>1, <1>2, OrderKept DEF TextInv
  <1> QED
    BY <1>1, <1>3, <1>4 DEF TextInv, NewestText

(* A text still to be asked for stays ahead when something else is put in between. *)
LEMMA RestAdded ==
    ASSUME IInv, RestOfText, NEW x \in Item, toModem' = Append(toModem, x),
           x.at # "CSCS=GSM", ~TextAwaited, UNCHANGED <<todo, modem>>
    PROVE  RestOfText'
  <1> DEFINE n == Len(toModem)
  <1>1. n \in Nat
    BY DEF IInv, TypeOK
  <1>2. n + 1 \in 1..(n + 1) /\ n + 1 \in Nat \ {0}
    BY <1>1
  <1>3. /\ Len(toModem') = n + 1 /\ toModem'[n + 1] = x
        /\ \A mode, set :
             /\ TextModeBy(toModem, n + 1, mode) => TextModeBy(toModem', n + 1, mode)
             /\ UCS2By(toModem, n + 1, set) => UCS2By(toModem', n + 1, set)
    BY <1>2, Added
  <1>4. \A mode, set :
          /\ TextModeBy(toModem, n + 1, mode) => TextModeBy(toModem', n + 1 + 1, mode)
          /\ UCS2By(toModem, n + 1, set) => UCS2By(toModem', n + 1 + 1, set)
    BY <1>2, <1>3, NextAhead
  <1>5. todo' = todo /\ textMode' = textMode /\ charset' = charset
    BY DEF modem, modes
  <1> QED
    BY <1>3, <1>4, <1>5 DEF RestOfText

LEMMA KeepAliveTexts ==
    ASSUME IInv, TextInv, KeepAlive
    PROVE  TextInv'
  <1> DEFINE n == Len(toModem)
             x == [at |-> "AT", of |-> 0, whole |-> TRUE]
  <1>1. UNCHANGED <<plugin, modem>>
    BY DEF KeepAlive
  <1>2. /\ UNCHANGED <<allowed, request, asked, phase, todo>>
        /\ UNCHANGED <<prompt, typed, sent, textMode, charset>>
    BY <1>1 DEF plugin, modem, modes
  <1>3. OwnCommands' /\ Untyped'
    BY <1>2 DEF TextInv, OwnCommands, Untyped, Plain, IsTextSend
  <1>4. Handlers(asked)' = Handlers(asked)
    BY <1>2 DEF Handlers, Matches
  <1>5. toModem \in Seq(Item) /\ n \in Nat
    BY DEF IInv, TypeOK
  <1>6. ASSUME toModem' = Append(toModem, x), ~(disturbed \/ PromptAhead)
        PROVE  Orderly' /\ NewestText' /\ (phase = "busy" /\ IsTextSend(asked) => RestOfText')
    <2>1. Orderly /\ NewestText /\ (phase = "busy" /\ IsTextSend(asked) => RestOfText)
      BY <1>6 DEF TextInv
    <2>2. /\ toModem = <<>> => prompt = 0
          /\ toModem # <<>> => toModem[Len(toModem)].at # "CMGS"
      BY <1>6, <2>1, NothingAsked DEF Orderly
    <2>3. x \in Item /\ x.at = "AT" /\ x.whole
      BY RequestAssumption DEF Item, At
    <2>4. "AT" \notin TextParts /\ "AT" \notin Texts /\ "AT" \notin Distorted
      BY DEF TextParts, AllTexts, Texts, Distorted
    <2> HIDE DEF x
    <2>5. Orderly'
      BY <1>1, <1>6, <2>1, <2>2, <2>3, <2>4, PlainAdded
    <2>6. /\ Len(toModem') = n + 1
          /\ \A i \in 1..n : toModem'[i] = toModem[i]
          /\ toModem'[n + 1] = x
      BY <1>6, <2>3, Added
    <2>7. /\ \A i \in 1..(n + 1) : i \in 1..n \/ i = n + 1
          /\ \A i \in 1..n : i \in 1..(n + 1)
          /\ \A i \in 1..n : \A j \in (i + 1)..(n + 1) : j \in (i + 1)..n \/ j = n + 1
          /\ \A i \in 1..n : \A j \in (i + 1)..n : j \in (i + 1)..(n + 1) /\ j \in 1..n
      BY <1>5
    <2>8. NewestText'
      <3> SUFFICES ASSUME phase = "idle", IsTextSend(asked), Handlers(asked) # {}
                   PROVE  /\ \A i \in 1..(n + 1) :
                               /\ toModem'[i].at \in Texts
                               /\ \A j \in (i + 1)..(n + 1) : toModem'[j].at \notin Texts
                               => toModem'[i].of = request
                          /\ (\A i \in 1..(n + 1) : toModem'[i].at \notin Texts)
                             => sent.to = request
        BY <1>2, <1>4, <2>6 DEF NewestText, IsTextSend
      <3>1. ASSUME NEW i \in 1..(n + 1), toModem'[i].at \in Texts,
                   \A j \in (i + 1)..(n + 1) : toModem'[j].at \notin Texts
            PROVE  toModem'[i].of = request
        <4>1. i \in 1..n /\ toModem'[i] = toModem[i]
          BY <2>3, <2>4, <2>6, <2>7, <3>1
        <4>2. \A j \in (i + 1)..n : toModem[j].at \notin Texts
          BY <2>6, <2>7, <3>1, <4>1
        <4> QED
          BY <2>1, <3>1, <4>1, <4>2 DEF NewestText
      <3>2. ASSUME \A i \in 1..(n + 1) : toModem'[i].at \notin Texts
            PROVE  sent.to = request
        <4>1. \A i \in 1..n : toModem[i].at \notin Texts
          BY <2>6, <2>7, <3>2
        <4> QED
          BY <2>1, <4>1 DEF NewestText
      <3> QED
        BY <3>1, <3>2
    <2>9. ASSUME phase = "busy", IsTextSend(asked) PROVE RestOfText'
      <3>1. request # 0
        BY <2>9 DEF TextInv, OwnCommands
      <3>2. ~TextAwaited
        BY <2>2, <3>1 DEF TextAwaited
      <3>3. x.at # "CSCS=GSM"
        BY <2>3
      <3> QED
        BY <1>1, <1>2, <1>6, <2>1, <2>3, <2>9, <3>2, <3>3, RestAdded
    <2> QED
      BY <2>5, <2>8, <2>9
  <1>7. ASSUME toModem # <<>>, toModem' = [toModem EXCEPT ![n].whole = FALSE],
               ~(disturbed \/ toModem[n].at \in TextCommands)
        PROVE  Orderly' /\ NewestText' /\ (phase = "busy" /\ IsTextSend(asked) => RestOfText')
    <2>1. Orderly /\ NewestText /\ (phase = "busy" /\ IsTextSend(asked) => RestOfText)
      BY <1>7 DEF TextInv
    <2>2. /\ Len(toModem') = n /\ n \in 1..n /\ toModem' # <<>>
          /\ \A i \in 1..n : /\ toModem'[i].at = toModem[i].at
                             /\ toModem'[i].of = toModem[i].of
                             /\ i # n => toModem'[i].whole = toModem[i].whole
      <3>1. n \in 1..n /\ toModem \in [1..n -> Item]
        BY <1>5, <1>7, EmptySeq
      <3>2. \A i \in 1..n :
              toModem'[i] = IF i = n THEN [toModem[i] EXCEPT !.whole = FALSE]
                                     ELSE toModem[i]
        BY <1>7, <3>1
      <3>3. \A i \in 1..n : /\ toModem'[i] \in Item
                            /\ toModem'[i].at = toModem[i].at
                            /\ toModem'[i].of = toModem[i].of
                            /\ i # n => toModem'[i].whole = toModem[i].whole
        BY <3>1, <3>2 DEF Item
      <3>4. DOMAIN toModem' = 1..n /\ toModem' = [i \in DOMAIN toModem' |-> toModem'[i]]
        BY <1>7, <3>1
      <3>5. toModem' \in [1..n -> Item]
        BY <3>3, <3>4
      <3>6. toModem' \in Seq(Item) /\ Len(toModem') = n
        BY <1>5, <3>5
      <3>7. toModem' # <<>>
        <4>1. n # 0
          BY <1>5, <3>1
        <4> QED
          BY ONLY <3>6, <4>1, EmptySeq
      <3> QED
        BY <3>1, <3>3, <3>6, <3>7
    <2>3. \A i \in 1..(n + 1) : \A mode, set :
            /\ TextModeBy(toModem, i, mode) => TextModeBy(toModem', i, mode)
            /\ UCS2By(toModem, i, set) => UCS2By(toModem', i, set)
      <3>1. ASSUME NEW i \in 1..(n + 1), NEW mode, NEW set
            PROVE  /\ TextModeBy(toModem, i, mode) => TextModeBy(toModem', i, mode)
                   /\ UCS2By(toModem, i, set) => UCS2By(toModem', i, set)
        <4>1. i \in Nat /\ \A j \in 1..(i - 1) : j \in 1..n
          BY <1>5
        <4>2. \A j \in 1..(i - 1) : toModem'[j].at = toModem[j].at
          BY <2>2, <4>1
        <4> QED
          BY ONLY <4>1, <4>2, SameAhead
      <3> QED
        BY <3>1
    <2>4. /\ \A i \in 1..n : i \in 1..(n + 1) /\ (i = n \/ i + 1 \in 1..n)
          /\ \A i \in 1..n : i = 1 \/ i - 1 \in 1..n
          /\ \A i \in 1..n : 1 \in 1..n
          /\ \A i \in 1..n : \A j \in (i + 1)..n : j \in 1..n
          /\ n + 1 \in 1..(n + 1)
      BY <1>5
    <2>5. WholeTexts' /\ Undistorted'
      BY <1>7, <2>1, <2>2 DEF Orderly, WholeTexts, Undistorted
    <2>6. EachAsks'
      <3>1. OnlyTextLeft' = OnlyTextLeft
        BY <1>2 DEF OnlyTextLeft, IsTextSend
      <3> SUFFICES ASSUME NEW i \in 1..n, toModem'[i].at = "CMGS"
                   PROVE  /\ toModem'[i].of # 0
                          /\ TextModeBy(toModem', i, textMode)
                          /\ UCS2By(toModem', i, charset)
                          /\ IF i = n THEN OnlyTextLeft /\ toModem'[i].of = request
                             ELSE toModem'[i + 1].at \in Texts
        BY <1>2, <2>2, <3>1 DEF EachAsks
      <3>2. /\ toModem[i].of # 0
            /\ TextModeBy(toModem, i, textMode)
            /\ UCS2By(toModem, i, charset)
            /\ IF i = n THEN OnlyTextLeft /\ toModem[i].of = request
               ELSE toModem[i + 1].at \in Texts
        BY <2>1, <2>2 DEF Orderly, EachAsks
      <3>3. i = n \/ toModem'[i + 1].at = toModem[i + 1].at
        BY <2>2, <2>4
      <3> QED
        BY <2>2, <2>3, <2>4, <3>2, <3>3
    <2>7. EachAnswers'
      <3> SUFFICES ASSUME NEW i \in 1..n, toModem'[i].at \in Texts
                   PROVE  IF i = 1 THEN prompt # 0 /\ prompt = toModem'[1].of
                          ELSE /\ toModem'[i - 1].at = "CMGS"
                               /\ toModem'[i - 1].of = toModem'[i].of
        BY <1>2, <2>2 DEF EachAnswers
      <3>1. IF i = 1 THEN prompt # 0 /\ prompt = toModem[1].of
            ELSE toModem[i - 1].at = "CMGS" /\ toModem[i - 1].of = toModem[i].of
        BY <2>1, <2>2 DEF Orderly, EachAnswers
      <3> QED
        BY <2>2, <2>4, <3>1
    <2>8. Prompted'
      <3>1. prompt # 0 => charset = "UCS2" /\ toModem[1].at \in Texts
        BY <1>7, <2>1 DEF Orderly, Prompted
      <3> QED
        BY <1>2, <2>2, <2>4, <3>1 DEF Prompted
    <2>9. NewestText'
      <3> SUFFICES ASSUME phase = "idle", IsTextSend(asked), Handlers(asked) # {}
                   PROVE  /\ \A i \in 1..n :
                               /\ toModem'[i].at \in Texts
                               /\ \A j \in (i + 1)..n : toModem'[j].at \notin Texts
                               => toModem'[i].of = request
                          /\ (\A i \in 1..n : toModem'[i].at \notin Texts)
                             => sent.to = request
        BY <1>2, <1>4, <2>2 DEF NewestText, IsTextSend
      <3>1. ASSUME NEW i \in 1..n, toModem'[i].at \in Texts,
                   \A j \in (i + 1)..n : toModem'[j].at \notin Texts
            PROVE  toModem'[i].of = request
        <4>1. \A j \in (i + 1)..n : toModem[j].at \notin Texts
          BY <2>2, <2>4, <3>1
        <4> QED
          BY <2>1, <2>2, <3>1, <4>1 DEF NewestText
      <3>2. (\A i \in 1..n : toModem'[i].at \notin Texts) => sent.to = request
        BY <2>1, <2>2 DEF NewestText
      <3> QED
        BY <3>1, <3>2
    <2>10. ASSUME RestOfText PROVE RestOfText'
      <3>1. TextAwaited => TextAwaited'
        BY <1>2, <1>7, <2>2 DEF TextAwaited
      <3> QED
        BY <1>2, <2>2, <2>3, <2>4, <2>10, <3>1 DEF RestOfText
    <2>11. typed' = <<>>
      BY <1>2, <2>1 DEF Orderly
    <2> QED
      BY <2>1, <2>5, <2>6, <2>7, <2>8, <2>9, <2>10, <2>11 DEF Orderly
  <1>8. ~disturbed' => Orderly' /\ NewestText'
                       /\ (phase = "busy" /\ IsTextSend(asked) => RestOfText')
    BY <1>6, <1>7 DEF KeepAlive
  <1> QED
    BY <1>2, <1>3, <1>8 DEF TextInv, IsTextSend

LEMMA RestartTexts ==
    ASSUME IInv, TextInv, Restart
    PROVE  TextInv'
  <1>1. /\ toModem' = <<>> /\ prompt' = 0 /\ typed' = <<>>
        /\ disturbed' = (disturbed \/ prompt # 0 \/ Waiting(TextCommands) > 0
                         \/ (phase = "busy" /\ IsTextSend(asked)))
        /\ UNCHANGED <<allowed, request, asked, phase, todo, sent>>
    BY DEF Restart, plugin
  <1>2. OwnCommands' /\ Untyped'
    BY <1>1 DEF TextInv, OwnCommands, Untyped, Plain, IsTextSend
  <1>3. \A i \in 1..Len(toModem') : FALSE
    BY <1>1
  <1>4. Orderly'
    BY <1>1, <1>3 DEF Orderly, Undistorted, WholeTexts, EachAsks, EachAnswers, Prompted
  <1>5. ASSUME ~disturbed' PROVE NewestText' /\ ~(phase' = "busy" /\ IsTextSend(asked'))
    <2>1. \A i \in 1..Len(toModem) : toModem[i].at \notin Texts
      <3> DEFINE W == {i \in DOMAIN toModem : toModem[i].at \in TextCommands}
      <3>1. DOMAIN toModem = 1..Len(toModem) /\ Len(toModem) \in Nat
        BY DEF IInv, TypeOK
      <3>2. IsFiniteSet(1..Len(toModem)) /\ W \in SUBSET (1..Len(toModem))
        BY <3>1, FS_Interval
      <3>3. IsFiniteSet(W) /\ Cardinality(W) \in Nat
        BY ONLY <3>2, FS_Subset, FS_CardinalityType
      <3>4. ~(Cardinality(W) > 0)
        BY <1>1, <1>5 DEF Waiting
      <3>5. Cardinality(W) = 0
        BY ONLY <3>3, <3>4, SMT
      <3>6. W = {}
        BY ONLY <3>3, <3>5, FS_EmptySet
      <3>7. Texts \subseteq TextCommands
        BY DEF AllTexts, TextCommands
      <3> QED
        BY <3>1, <3>6, <3>7
    <2>2. phase = "idle" /\ IsTextSend(asked) /\ Handlers(asked) # {} => sent.to = request
      BY <1>1, <1>5, <2>1 DEF TextInv, NewestText
    <2>3. Handlers(asked)' = Handlers(asked)
      BY <1>1 DEF Handlers, Matches
    <2>4. NewestText'
      BY <1>1, <1>3, <2>2, <2>3 DEF NewestText, IsTextSend
    <2> QED
      BY <1>1, <1>5, <2>4 DEF IsTextSend
  <1> QED
    BY <1>2, <1>4, <1>5 DEF TextInv

(* The modem's step, and what it does to a message it sends. *)
LEMMA ExecuteTexts ==
    ASSUME IInv, TextInv, Execute
    PROVE  TextInv' /\ (sent' # sent => disturbed \/ Intact(sent'))
  <1> DEFINE item == Head(toModem)
             n == Len(toModem)
  <1>1. /\ toModem \in Seq(Item) /\ toModem # <<>> /\ n \in Nat \ {0}
        /\ item = toModem[1] /\ item \in Item
        /\ toModem' \in Seq(Item) /\ Len(toModem') = n - 1
        /\ \A i \in 1..(n - 1) : toModem'[i] = toModem[i + 1]
    <2>1. toModem \in Seq(Item) /\ toModem # <<>> /\ toModem' = Tail(toModem)
      BY DEF Execute, IInv, TypeOK
    <2> QED
      BY <2>1, EmptySeq, HeadTailProperties
  <1>2. /\ UNCHANGED <<allowed, request, asked, phase, todo>>
        /\ IF item.at = "altered"
           THEN ExecuteAltered(item)
           ELSE \/ ExecuteCommand(item)
                \/ SubmitText(item)
                \/ SwallowCommand(item)
    BY DEF Execute, plugin
  <1> HIDE DEF item
  <1>3. OwnCommands'
    BY <1>2 DEF TextInv, OwnCommands, Plain, IsTextSend
  <1>4. Untyped'
    BY <1>2 DEF TextInv, Untyped, ExecuteCommand, SubmitText, SwallowCommand, ExecuteAltered
  <1>5. CASE disturbed
    <2>1. disturbed'
      BY <1>2, <1>5 DEF ExecuteCommand, SubmitText, SwallowCommand, ExecuteAltered
    <2> QED
      BY <1>3, <1>4, <1>5, <2>1 DEF TextInv
  <1>7. CASE ~disturbed /\ disturbed'
    <2>1. sent' = sent
      BY <1>2, <1>7 DEF ExecuteCommand, SubmitText, SwallowCommand, ExecuteAltered
    <2> QED
      BY <1>3, <1>4, <1>7, <2>1 DEF TextInv
  <1>6. CASE ~disturbed /\ ~disturbed'
    <2>1. /\ typed = <<>> /\ Undistorted /\ WholeTexts /\ EachAsks /\ EachAnswers
          /\ Prompted
          /\ NewestText
          /\ phase = "busy" /\ IsTextSend(asked) => RestOfText
      BY <1>6 DEF TextInv, Orderly
    <2>2. /\ 1 \in 1..n /\ 1 \in Nat
          /\ \A i \in 1..(n - 1) : /\ i \in 1..n /\ i + 1 \in 1..n /\ i + 1 # 1
                                   /\ (i + 1) - 1 = i
                                   /\ i = n - 1 <=> i + 1 = n
                                   /\ i = n - 1 \/ i + 1 \in 1..(n - 1)
                                   /\ i = 1 \/ (i # 1 /\ i - 1 \in 1..(n - 1)
                                                /\ (i - 1) + 1 = i)
          /\ \A i \in 1..n : i = 1 \/ (i - 1 \in 1..(n - 1) /\ (i - 1) + 1 = i)
          /\ toModem' = <<>> <=> n = 1
          /\ toModem' # <<>> => n - 1 \in 1..(n - 1) /\ (n - 1) + 1 = n /\ 1 \in 1..(n - 1)
      <3>1. toModem' = <<>> <=> n = 1
        <4>1. toModem' = <<>> <=> Len(toModem') = 0
          BY <1>1, EmptySeq
        <4> QED
          BY <1>1, <4>1
      <3> QED
        BY <1>1, <3>1
    <2>3. item.at \in Texts <=> prompt # 0
      <3>1. item.at \in Texts => prompt # 0
        BY <1>1, <2>1, <2>2 DEF EachAnswers
      <3>2. prompt # 0 => item.at \in Texts
        BY <1>1, <2>1 DEF Prompted
      <3> QED
        BY <3>1, <3>2
    <2>4. item.at \in TextCommands => item.whole
      BY <1>1, <2>1, <2>2 DEF WholeTexts
    <2>5. /\ item.at = "CMGS" => /\ item.of # 0
                                 /\ textMode = TRUE
                                 /\ charset = "UCS2"
      <3>1. ASSUME item.at = "CMGS"
            PROVE  /\ item.of # 0 /\ TextModeBy(toModem, 1, textMode)
                   /\ UCS2By(toModem, 1, charset)
        BY <1>1, <2>1, <2>2, <3>1 DEF EachAsks
      <3>2. \A j \in 1..(1 - 1) : FALSE
        OBVIOUS
      <3>3. TextModeBy(toModem, 1, textMode) => textMode
        BY <3>2 DEF TextModeBy
      <3>4. UCS2By(toModem, 1, charset) => charset = "UCS2"
        BY <3>2 DEF UCS2By
      <3>5. textMode \in BOOLEAN
        BY DEF IInv, TypeOK
      <3> QED
        BY <3>1, <3>3, <3>4, <3>5
    <2>21. item.at \notin Distorted
      BY <1>1, <2>1, <2>2 DEF Undistorted
    <2>6. ExecuteCommand(item) \/ SubmitText(item)
      BY <1>2, <2>3, <2>21 DEF SwallowCommand, Distorted
    <2>22. ASSUME ExecuteCommand(item)
           PROVE  \/ /\ SetMode(item.at)
                     /\ prompt' = IF item.at = "CMGS" /\ textMode THEN item.of ELSE 0
                  \/ /\ item.at \notin TextCommands
                     /\ prompt = 0 /\ UNCHANGED <<modes, prompt>>
      BY <1>6, <2>22 DEF ExecuteCommand
    <2>7. /\ textMode => textMode'
          /\ item.at = "CMGF=1" => textMode'
          /\ charset = "UCS2" /\ item.at # "CSCS=GSM" => charset' = "UCS2"
          /\ item.at = "CSCS=UCS2" => charset' = "UCS2"
      <3>1. CASE ExecuteCommand(item)
        <4>1. CASE SetMode(item.at)
          BY <4>1 DEF SetMode
        <4>2. CASE item.at \notin TextCommands /\ UNCHANGED modes
          <5>1. item.at # "CMGF=1" /\ item.at # "CSCS=UCS2"
            BY <4>2 DEF TextCommands
          <5> QED
            BY <4>2, <5>1 DEF modes
        <4> QED
          BY <2>22, <3>1, <4>1, <4>2
      <3>2. CASE SubmitText(item)
        BY <3>2 DEF SubmitText, modes, Texts
      <3> QED
        BY <2>6, <3>1, <3>2
    <2>8. prompt' = IF item.at = "CMGS" THEN item.of ELSE 0
      <3>1. CASE ExecuteCommand(item)
        <4>1. CASE prompt' = IF item.at = "CMGS" /\ textMode THEN item.of ELSE 0
          BY <2>5, <4>1
        <4>2. CASE item.at \notin TextCommands /\ prompt = 0 /\ prompt' = prompt
          BY <4>2 DEF TextCommands
        <4> QED
          BY <2>22, <3>1, <4>1, <4>2
      <3>2. CASE SubmitText(item)
        BY <3>2 DEF SubmitText, Texts
      <3> QED
        BY <2>6, <3>1, <3>2
    <2>9. typed' = <<>>
      BY <2>1, <2>6 DEF ExecuteCommand, SubmitText
    <2>10. WholeTexts' /\ Undistorted'
      BY <1>1, <2>1, <2>2 DEF WholeTexts, Undistorted
    <2>11. \A i \in 1..n :
             /\ TextModeBy(toModem, i + 1, textMode) => TextModeBy(toModem', i, textMode')
             /\ UCS2By(toModem, i + 1, charset) => UCS2By(toModem', i, charset')
      <3>1. ASSUME NEW i \in 1..n
            PROVE  /\ TextModeBy(toModem, i + 1, textMode)
                      => TextModeBy(toModem', i, textMode')
                   /\ UCS2By(toModem, i + 1, charset) => UCS2By(toModem', i, charset')
        <4>1. i \in Nat \ {0} /\ \A j \in 1..(i - 1) : j \in 1..(n - 1)
          BY <1>1
        <4>2. \A j \in 1..(i - 1) : toModem'[j].at = toModem[j + 1].at
          BY <1>1, <4>1
        <4> QED
          BY ONLY <1>1, <2>7, <4>1, <4>2, ExecutedAhead
      <3> QED
        BY <3>1
    <2>12. EachAsks'
      <3>1. OnlyTextLeft' = OnlyTextLeft
        BY <1>2 DEF OnlyTextLeft, IsTextSend
      <3> SUFFICES ASSUME NEW i \in 1..(n - 1), toModem'[i].at = "CMGS"
                   PROVE  /\ toModem'[i].of # 0
                          /\ TextModeBy(toModem', i, textMode')
                          /\ UCS2By(toModem', i, charset')
                          /\ IF i = n - 1 THEN OnlyTextLeft /\ toModem'[i].of = request
                             ELSE toModem'[i + 1].at \in Texts
        BY <1>1, <1>2, <3>1 DEF EachAsks
      <3>2. toModem'[i] = toModem[i + 1] /\ i + 1 \in 1..n
        BY <1>1, <2>2
      <3>3. /\ toModem[i + 1].of # 0
            /\ TextModeBy(toModem, i + 1, textMode)
            /\ UCS2By(toModem, i + 1, charset)
            /\ IF i + 1 = n THEN OnlyTextLeft /\ toModem[i + 1].of = request
               ELSE toModem[i + 1 + 1].at \in Texts
        BY <2>1, <3>2 DEF EachAsks
      <3>4. i = n - 1 \/ toModem'[i + 1] = toModem[i + 1 + 1]
        BY <1>1, <2>2
      <3> QED
        BY <2>2, <2>11, <3>2, <3>3, <3>4
    <2>13. EachAnswers'
      <3> SUFFICES ASSUME NEW i \in 1..(n - 1), toModem'[i].at \in Texts
                   PROVE  IF i = 1 THEN prompt' # 0 /\ prompt' = toModem'[1].of
                          ELSE /\ toModem'[i - 1].at = "CMGS"
                               /\ toModem'[i - 1].of = toModem'[i].of
        BY <1>1 DEF EachAnswers
      <3>1. toModem'[i] = toModem[i + 1] /\ i + 1 \in 1..n /\ i + 1 # 1 /\ (i + 1) - 1 = i
        BY <1>1, <2>2
      <3>2. toModem[i].at = "CMGS" /\ toModem[i].of = toModem[i + 1].of
        BY <2>1, <3>1 DEF EachAnswers
      <3>3. CASE i = 1
        BY <1>1, <2>5, <2>8, <3>1, <3>2, <3>3
      <3>4. CASE i # 1
        <4>1. toModem'[i - 1] = toModem[i]
          BY <1>1, <2>2, <3>4
        <4> QED
          BY <3>1, <3>2, <3>4, <4>1
      <3> QED
        BY <3>3, <3>4
    <2>14. Prompted'
      <3> SUFFICES ASSUME prompt' # 0
                   PROVE  /\ charset' = "UCS2"
                          /\ IF toModem' = <<>> THEN OnlyTextLeft' /\ prompt' = request'
                                                ELSE toModem'[1].at \in Texts
        BY DEF Prompted
      <3>1. item.at = "CMGS" /\ prompt' = item.of
        BY <2>8
      <3>2. charset' = "UCS2"
        BY <2>5, <2>7, <3>1
      <3>3. IF 1 = n THEN OnlyTextLeft /\ toModem[1].of = request
            ELSE toModem[1 + 1].at \in Texts
        BY <1>1, <2>1, <2>2, <3>1 DEF EachAsks
      <3>4. OnlyTextLeft' = OnlyTextLeft
        BY <1>2 DEF OnlyTextLeft, IsTextSend
      <3>5. CASE n = 1
        BY <1>1, <1>2, <2>2, <3>1, <3>2, <3>3, <3>4, <3>5
      <3>6. CASE n # 1
        <4>1. toModem'[1] = toModem[1 + 1]
          BY <1>1, <2>2, <3>6
        <4> QED
          BY <2>2, <3>2, <3>3, <3>6, <4>1
      <3> QED
        BY <3>5, <3>6
    <2>15. sent' # sent => item.at \in Texts /\ Intact(sent') /\ sent'.to = item.of
      <3> SUFFICES ASSUME sent' # sent
                   PROVE  item.at \in Texts /\ Intact(sent') /\ sent'.to = item.of
        OBVIOUS
      <3>1. SubmitText(item)
        BY <2>6 DEF ExecuteCommand
      <3>2. /\ item.at \in Texts /\ prompt # 0
            /\ sent' = [to |-> prompt, ucs2 |-> charset = "UCS2", text |-> Append(typed, item)]
        BY <1>6, <3>1 DEF SubmitText
      <3>3. prompt = item.of
        BY <1>1, <2>1, <2>2, <3>2 DEF EachAnswers
      <3>4. charset = "UCS2"
        BY <2>1, <3>2 DEF Prompted
      <3>5. item.whole
        BY <2>4, <3>2 DEF AllTexts, TextCommands
      <3>9. item.at = "TEXT"
        BY <2>21, <3>2 DEF Texts, Distorted
      <3>6. item = [at |-> item.at, of |-> item.of, whole |-> TRUE]
        BY <1>1, <3>5 DEF Item
      <3>7. Append(typed, item) = <<item>>
        BY <2>1
      <3>8. /\ sent'.to = item.of /\ sent'.ucs2
            /\ sent'.text = <<[at |-> item.at, of |-> item.of, whole |-> TRUE]>>
        BY <3>2, <3>3, <3>4, <3>6, <3>7
      <3> QED
        BY <3>2, <3>8, <3>9 DEF Intact
    <2>16. item.at \in Texts => sent'.to = item.of
      <3> SUFFICES ASSUME item.at \in Texts PROVE sent'.to = item.of
        OBVIOUS
      <3>1. SubmitText(item)
        BY <2>3, <2>6 DEF ExecuteCommand
      <3>2. sent'.to = prompt
        <4>1. sent' = [to |-> prompt, ucs2 |-> charset = "UCS2", text |-> Append(typed, item)]
          BY <1>6, <3>1 DEF SubmitText
        <4> QED
          BY <4>1
      <3>3. prompt = item.of
        BY <1>1, <2>1, <2>2 DEF EachAnswers
      <3> QED
        BY <3>2, <3>3
    <2>17. NewestText'
      <3>1. Handlers(asked)' = Handlers(asked)
        BY <1>2 DEF Handlers, Matches
      <3> SUFFICES ASSUME phase = "idle", IsTextSend(asked), Handlers(asked) # {}
                   PROVE  /\ \A i \in 1..(n - 1) :
                               /\ toModem'[i].at \in Texts
                               /\ \A j \in (i + 1)..(n - 1) : toModem'[j].at \notin Texts
                               => toModem'[i].of = request
                          /\ (\A i \in 1..(n - 1) : toModem'[i].at \notin Texts)
                             => sent'.to = request
        BY <1>1, <1>2, <3>1 DEF NewestText, IsTextSend
      <3>2. /\ \A i \in 1..n : /\ toModem[i].at \in Texts
                               /\ \A j \in (i + 1)..n : toModem[j].at \notin Texts
                               => toModem[i].of = request
            /\ (\A i \in 1..n : toModem[i].at \notin Texts) => sent.to = request
        BY <2>1 DEF NewestText
      <3>3. ASSUME NEW i \in 1..(n - 1), toModem'[i].at \in Texts,
                   \A j \in (i + 1)..(n - 1) : toModem'[j].at \notin Texts
            PROVE  toModem'[i].of = request
        <4>1. i + 1 \in 1..n /\ toModem'[i] = toModem[i + 1]
          BY <1>1, <2>2
        <4>2. \A j \in (i + 1 + 1)..n : j - 1 \in (i + 1)..(n - 1) /\ j - 1 \in 1..(n - 1)
                                         /\ (j - 1) + 1 = j
          BY <1>1
        <4>3. \A j \in (i + 1 + 1)..n : toModem[j].at \notin Texts
          BY <1>1, <3>3, <4>2
        <4> QED
          BY <3>2, <3>3, <4>1, <4>3
      <3>4. ASSUME \A i \in 1..(n - 1) : toModem'[i].at \notin Texts
            PROVE  sent'.to = request
        <4>1. \A i \in 2..n : i - 1 \in 1..(n - 1) /\ (i - 1) + 1 = i
          BY <1>1
        <4>2. \A i \in 2..n : toModem[i].at \notin Texts
          BY <1>1, <3>4, <4>1
        <4>3. CASE item.at \in Texts
          <5>1. \A j \in (1 + 1)..n : toModem[j].at \notin Texts
            BY <4>2
          <5> QED
            BY <1>1, <2>2, <2>16, <3>2, <4>3, <5>1
        <4>4. CASE item.at \notin Texts
          <5>1. \A i \in 1..n : i = 1 \/ i \in 2..n
            BY <1>1
          <5>2. \A i \in 1..n : toModem[i].at \notin Texts
            BY <1>1, <4>2, <4>4, <5>1
          <5> QED
            BY <2>15, <3>2, <4>4, <5>2
        <4> QED
          BY <4>3, <4>4
      <3> QED
        BY <3>3, <3>4
    <2>18. ASSUME RestOfText PROVE RestOfText'
      <3>1. n \in 1..n /\ n + 1 = Len(toModem) + 1 /\ Len(toModem') + 1 = n
        BY <1>1
      <3>2. /\ TextModeBy(toModem, n + 1, textMode)
               => TextModeBy(toModem', Len(toModem') + 1, textMode')
            /\ UCS2By(toModem, n + 1, charset)
               => UCS2By(toModem', Len(toModem') + 1, charset')
        BY <2>11, <3>1
      <3>3. TextAwaited => TextAwaited'
        <4> SUFFICES ASSUME TextAwaited PROVE TextAwaited'
          OBVIOUS
        <4>1. toModem[n].at = "CMGS" /\ toModem[n].of = request
          BY <1>1 DEF TextAwaited
        <4>2. CASE n = 1
          BY <1>1, <1>2, <2>2, <2>8, <4>1, <4>2 DEF TextAwaited
        <4>3. CASE n # 1
          <5>1. toModem'[n - 1] = toModem[n]
            BY <1>1, <2>2, <4>3
          <5> QED
            BY <1>1, <1>2, <2>2, <4>1, <4>3, <5>1 DEF TextAwaited
        <4> QED
          BY <4>2, <4>3
      <3>4. todo' = todo
        BY <1>2
      <3> QED
        BY <2>18, <3>2, <3>3, <3>4 DEF RestOfText
    <2>19. phase' = "busy" /\ IsTextSend(asked') => RestOfText'
      BY <1>2, <2>1, <2>18 DEF IsTextSend
    <2>20. Orderly'
      BY <2>9, <2>10, <2>12, <2>13, <2>14 DEF Orderly
    <2>23. TextInv'
      BY <1>3, <1>4, <2>17, <2>19, <2>20 DEF TextInv, IsTextSend
    <2> QED
      BY <2>15, <2>23
  <1> QED
    BY <1>5, <1>6, <1>7

LEMMA StepTexts ==
    ASSUME IInv, TextInv, [Next]_vars
    PROVE  TextInv' /\ (sent' # sent => disturbed \/ Intact(sent'))
  <1>1. CASE \E r \in Requests : Refuse(r) \/ Handle(r)
    <2>1. sent' = sent
      BY <1>1 DEF Refuse, Handle, NextRequest, modem
    <2> QED
      BY <1>1, <2>1, RequestTexts
  <1>2. CASE Answered \/ Unanswered
    <2>1. PICK answered \in BOOLEAN : CommandDone(answered)
      BY <1>2 DEF Answered, Unanswered
    <2>2. Delivered
      BY <1>2 DEF Answered, Unanswered
    <2>3. sent' = sent
      BY <2>1 DEF CommandDone, modem
    <2> QED
      BY <2>1, <2>2, <2>3, DeliveredTexts
  <1>3. CASE Lost
    <2>1. sent' = sent
      BY <1>3 DEF Lost, CommandDone, modem
    <2> QED
      BY <1>3, <2>1, LostTexts
  <1>4. CASE Crash
    <2>1. sent' = sent
      BY <1>4 DEF Crash, modem
    <2> QED
      BY <1>4, <2>1, CrashTexts
  <1>5. CASE KeepAlive
    <2>1. sent' = sent
      BY <1>5 DEF KeepAlive, modem
    <2> QED
      BY <1>5, <2>1, KeepAliveTexts
  <1>6. CASE Restart
    <2>1. sent' = sent
      BY <1>6 DEF Restart
    <2> QED
      BY <1>6, <2>1, RestartTexts
  <1>7. CASE Execute
    BY <1>7, ExecuteTexts
  <1>8. CASE UNCHANGED vars
    <2>1. /\ UNCHANGED <<allowed, request, asked, phase, todo, toModem, textMode, charset,
                         prompt, typed, sent, disturbed>>
      BY <1>8 DEF vars, plugin, modem, modes
    <2>2. Handlers(asked)' = Handlers(asked)
      BY <2>1 DEF Handlers, Matches
    <2>3. Orderly' = Orderly /\ NewestText' = NewestText /\ RestOfText' = RestOfText
      BY <2>1, <2>2 DEF Orderly, Undistorted, WholeTexts, EachAsks, EachAnswers, Prompted,
         OnlyTextLeft, NewestText, RestOfText, TextAwaited, IsTextSend
    <2> QED
      BY <2>1, <2>3 DEF TextInv, OwnCommands, Untyped, Plain, IsTextSend
  <1> QED
    BY <1>1, <1>2, <1>3, <1>4, <1>5, <1>6, <1>7, <1>8 DEF Next

LEMMA InitTexts == Init => TextInv
  <1> SUFFICES ASSUME Init PROVE TextInv
    OBVIOUS
  <1>1. /\ toModem = <<>> /\ prompt = 0 /\ typed = <<>> /\ phase = "idle"
        /\ asked = NoRequest
    BY DEF Init
  <1>2. ~IsTextSend(asked)
    BY <1>1 DEF IsTextSend, NoRequest
  <1>3. \A i \in 1..Len(toModem) : FALSE
    BY <1>1
  <1> QED
    BY <1>1, <1>2, <1>3
       DEF TextInv, OwnCommands, Untyped, Orderly, Undistorted, WholeTexts, EachAsks,
       EachAnswers, Prompted, NewestText

(* While nothing disturbs them, the commands of a text reach the modem whole, in their
   order, and in the modes they need (at_commands.c:518-533). *)
THEOREM TextInvariant == Spec => []TextInv
  BY InitTexts, StepTexts, Invariant, PTL DEF Spec

(* A message that leaves is the text of one request, whole and in the character set it
   is written in, and goes to that request's number (at_commands.c:518-533), unless
   one of the events named at TextAsTyped has come in between. *)
THEOREM TextsLeaveAsTyped == Spec => TextAsTyped
  <1>1. ASSUME IInv, TextInv, [Next]_vars
        PROVE  [sent' # sent => disturbed \/ Intact(sent')]_vars
    BY <1>1, StepTexts
  <1> QED
    BY <1>1, Invariant, TextInvariant, PTL DEF Spec, TextAsTyped

(* Under the same conditions the text is sent when the request is over and the modem
   has worked off its commands: none is left unsubmitted, and none is overtaken. *)
THEOREM TextsAreSent == Spec => []TextIsSent
  <1>1. ASSUME TextInv PROVE TextIsSent
    <2> SUFFICES ASSUME phase = "idle", toModem = <<>>, ~disturbed,
                        IsTextSend(asked), Handlers(asked) # {}
                 PROVE  sent.to = request
      BY DEF TextIsSent
    <2>1. \A i \in 1..Len(toModem) : FALSE
      OBVIOUS
    <2> QED
      BY <1>1, <2>1 DEF TextInv, NewestText
  <1> QED
    BY <1>1, TextInvariant, PTL
=============================================================================
