-------------------------- MODULE CallControl_proofs --------------------------
(***************************************************************************)
(* What call_in_progress tells, for any callers, phonebook and commands,   *)
(* any number of calls, restarts and keep-alives, and chunks of any length.*)
(***************************************************************************)
EXTENDS CallControl, SequenceTheorems, TLAPS

(* The constants. *)
LEMMA Given ==
    /\ Phonebook \subseteq Callers
    /\ Commands \subseteq {"ATD", "ATH", "PB_ONLY=0", "PB_ONLY=1",
                           "RNSTART", "RNSTOP", "query"}
    /\ MaxUnread \in Nat
  BY CallAssumption DEF CallAssumption

-----------------------------------------------------------------------------
(* Sequences: what is in them after one more, one less, or in two pieces. *)

LEMMA ContainsAppended ==
    ASSUME NEW S, NEW s \in Seq(S), NEW e \in S, NEW x
    PROVE  Contains(Append(s, e), x) <=> Contains(s, x) \/ x = e
  <1>1. /\ Len(s) \in Nat
        /\ Len(Append(s, e)) = Len(s) + 1
        /\ \A i \in 1..Len(s) : Append(s, e)[i] = s[i]
        /\ Append(s, e)[Len(s) + 1] = e
    BY AppendProperties
  <1>2. ASSUME Contains(Append(s, e), x) PROVE Contains(s, x) \/ x = e
    <2>1. PICK i \in 1..Len(s) + 1 : Append(s, e)[i] = x
      BY <1>1, <1>2 DEF Contains
    <2>2. CASE i = Len(s) + 1
      BY <1>1, <2>1, <2>2
    <2>3. CASE i # Len(s) + 1
      <3>1. i \in 1..Len(s)
        BY <1>1, <2>3
      <3> QED
        BY <1>1, <2>1, <3>1 DEF Contains
    <2> QED
      BY <2>2, <2>3
  <1>3. ASSUME Contains(s, x) \/ x = e PROVE Contains(Append(s, e), x)
    <2>1. \E i \in 1..Len(s) + 1 : Append(s, e)[i] = x
      <3>1. CASE x = e
        <4>1. Len(s) + 1 \in 1..Len(s) + 1
          BY <1>1
        <4> QED
          BY <1>1, <3>1, <4>1
      <3>2. CASE Contains(s, x)
        <4>1. PICK i \in 1..Len(s) : s[i] = x
          BY <3>2 DEF Contains
        <4>2. i \in 1..Len(s) + 1
          BY <1>1
        <4> QED
          BY <1>1, <4>1, <4>2
      <3> QED
        BY <1>3, <3>1, <3>2
    <2> QED
      BY <1>1, <2>1 DEF Contains
  <1> QED
    BY <1>2, <1>3

LEMMA ContainsHeadOrTail ==
    ASSUME NEW S, NEW s \in Seq(S), s # <<>>, NEW x
    PROVE  Contains(s, x) <=> Head(s) = x \/ Contains(Tail(s), x)
  <1>1. /\ Len(s) \in Nat /\ Len(s) # 0
        /\ Len(Tail(s)) = Len(s) - 1
        /\ \A i \in 1..Len(s) - 1 : Tail(s)[i] = s[i + 1]
        /\ Head(s) = s[1]
    BY HeadTailProperties, EmptySeq
  <1>2. ASSUME Contains(s, x), Head(s) # x PROVE Contains(Tail(s), x)
    <2>1. PICK i \in 1..Len(s) : s[i] = x
      BY <1>2 DEF Contains
    <2>2. i - 1 \in 1..Len(s) - 1 /\ (i - 1) + 1 = i
      <3>1. i # 1
        BY <1>1, <1>2, <2>1
      <3> QED
        BY <1>1, <3>1
    <2>3. Tail(s)[i - 1] = x
      BY <1>1, <2>1, <2>2
    <2> QED
      BY <1>1, <2>2, <2>3 DEF Contains
  <1>3. ASSUME Head(s) = x PROVE Contains(s, x)
    <2>1. 1 \in 1..Len(s)
      BY <1>1
    <2> QED
      BY <1>1, <1>3, <2>1 DEF Contains
  <1>4. ASSUME Contains(Tail(s), x) PROVE Contains(s, x)
    <2>1. PICK i \in 1..Len(s) - 1 : Tail(s)[i] = x
      BY <1>1, <1>4 DEF Contains
    <2>2. i + 1 \in 1..Len(s)
      BY <1>1
    <2> QED
      BY <1>1, <2>1, <2>2 DEF Contains
  <1> QED
    BY <1>2, <1>3, <1>4

(* One whose last member is replaced by another. *)
LEMMA LastReplaced ==
    ASSUME NEW S, NEW s \in Seq(S), s # <<>>, NEW e \in S
    PROVE  /\ [s EXCEPT ![Len(s)] = e] \in Seq(S)
           /\ \A x : x # e /\ x # s[Len(s)]
                  => (Contains([s EXCEPT ![Len(s)] = e], x) <=> Contains(s, x))
  <1> DEFINE t == [s EXCEPT ![Len(s)] = e]
  <1>1. Len(s) \in Nat \ {0} /\ Len(s) \in 1..Len(s)
    BY EmptySeq, LenProperties
  <1>2. t \in Seq(S) /\ Len(t) = Len(s)
    BY <1>1, ExceptSeq
  <1>3. \A i \in 1..Len(s) : t[i] = IF i = Len(s) THEN e ELSE s[i]
    BY <1>1
  <1>4. ASSUME NEW x, x # e, x # s[Len(s)] PROVE Contains(t, x) <=> Contains(s, x)
    BY <1>2, <1>3, <1>4 DEF Contains
  <1> QED
    BY <1>2, <1>4

LEMMA SaysAppended ==
    ASSUME NEW S, NEW s \in Seq(S), NEW m \in S, NEW words
    PROVE  Says(Append(s, m), words) <=> Says(s, words) \/ m.says \in words
  <1>1. /\ Len(s) \in Nat
        /\ Len(Append(s, m)) = Len(s) + 1
        /\ \A i \in 1..Len(s) : Append(s, m)[i] = s[i]
        /\ Append(s, m)[Len(s) + 1] = m
    BY AppendProperties
  <1>2. ASSUME Says(Append(s, m), words) PROVE Says(s, words) \/ m.says \in words
    <2>1. PICK i \in 1..Len(s) + 1 : Append(s, m)[i].says \in words
      BY <1>1, <1>2 DEF Says
    <2>2. CASE i = Len(s) + 1
      BY <1>1, <2>1, <2>2
    <2>3. CASE i # Len(s) + 1
      <3>1. i \in 1..Len(s)
        BY <1>1, <2>3
      <3> QED
        BY <1>1, <2>1, <3>1 DEF Says
    <2> QED
      BY <2>2, <2>3
  <1>3. ASSUME m.says \in words PROVE Says(Append(s, m), words)
    <2>1. Len(s) + 1 \in 1..Len(s) + 1
      BY <1>1
    <2> QED
      BY <1>1, <1>3, <2>1 DEF Says
  <1>4. ASSUME Says(s, words) PROVE Says(Append(s, m), words)
    <2>1. PICK i \in 1..Len(s) : s[i].says \in words
      BY <1>4 DEF Says
    <2>2. i \in 1..Len(s) + 1
      BY <1>1
    <2> QED
      BY <1>1, <2>1, <2>2 DEF Says
  <1> QED
    BY <1>2, <1>3, <1>4

(* A chunk and the rest are the messages there were. *)
LEMMA ChunkAndRest ==
    ASSUME fromModem \in Seq(Messages), NEW k \in 1..Len(fromModem)
    PROVE  /\ Chunk(k) \in Seq(Messages) /\ Unread(k) \in Seq(Messages)
           /\ Len(Unread(k)) <= Len(fromModem)
           /\ \A words : Says(fromModem, words)
                           => Says(Chunk(k), words) \/ Says(Unread(k), words)
  <1>1. Len(fromModem) \in Nat /\ k \in Nat
    BY LenProperties
  <1>2. /\ Chunk(k) \in Seq(Messages)
        /\ Len(Chunk(k)) = k
        /\ \A i \in 1..k : Chunk(k)[i] = fromModem[i]
    BY <1>1 DEF Chunk
  <1>3. /\ Unread(k) \in Seq(Messages)
        /\ Len(Unread(k)) = Len(fromModem) - k
        /\ \A i \in 1..Len(fromModem) - k : Unread(k)[i] = fromModem[i + k]
    BY <1>1 DEF Unread
  <1>4. ASSUME NEW words, Says(fromModem, words)
        PROVE  Says(Chunk(k), words) \/ Says(Unread(k), words)
    <2>1. PICK i \in 1..Len(fromModem) : fromModem[i].says \in words
      BY <1>4 DEF Says
    <2>2. CASE i <= k
      <3>1. i \in 1..k
        BY <1>1, <2>2
      <3> QED
        BY <1>2, <2>1, <3>1 DEF Says
    <2>3. CASE ~(i <= k)
      <3>1. i - k \in 1..Len(fromModem) - k /\ (i - k) + k = i
        BY <1>1, <2>3
      <3> QED
        BY <1>3, <2>1, <3>1 DEF Says
    <2> QED
      BY <2>2, <2>3
  <1> QED
    BY <1>1, <1>2, <1>3, <1>4

-----------------------------------------------------------------------------
(* Types, in groups, with what they do not say: a second call needs a first, and
   who connects has a command. *)

Board ==
    /\ call_in_progress \in {0, 1}
    /\ ACCEPT_ONLY_PB \in {0, 1}
    /\ recording_noise \in {0, 1}
    /\ task \in {"accept", "command", "window", "modem"}
    /\ input \in Seq(Messages)

Lines ==
    /\ line \in {c \in Call : c.state \notin {"waiting", "held"}}
    /\ second \in {c \in Call : c.state \in {"none", "waiting", "held"}}
    /\ line.state = "none" => line = NoCall
    /\ second.state = "none" => second = NoCall
    /\ second # NoCall => line.state = "active"

Serial ==
    /\ toModem \in Seq(AtCommands)
    /\ fromModem \in Seq(Messages) /\ Len(fromModem) <= MaxUnread

Client ==
    /\ client \in {"idle", "connected", "waiting"}
    /\ command \in Commands \union {"none"}
    /\ client # "idle" => command \in Commands
    /\ link \in {"none", "pending", "open", "lost"}
    /\ reply \in Seq(Messages)

Events == {"call", "command", "keepalive", "restart"}
Counted == used \in [Events -> Nat]
Remembered == misled \in BOOLEAN

Types == Board /\ Lines /\ Serial /\ Client /\ Counted /\ Remembered

LEMMA InitTypes == Init => Types
  <1> SUFFICES ASSUME Init PROVE Types
    OBVIOUS
  <1>1. \A S : <<>> \in Seq(S)
    BY EmptySeq
  <1>2. Board /\ Client
    BY <1>1 DEF Init, Board, Client
  <1>3. Lines
    BY DEF Init, Lines, Call, NoCall
  <1>4. Serial
    <2>1. Len(fromModem) = 0
      BY EmptySeq DEF Init
    <2> QED
      BY <1>1, <2>1, Given DEF Init, Serial
  <1>5. Counted
    BY DEF Init, Counted, Events
  <1>6. Remembered
    BY DEF Init, Remembered
  <1> QED
    BY <1>2, <1>3, <1>4, <1>5, <1>6 DEF Types

LEMMA TypesImplyTypeOK == Types => TypeOK
  BY DEF Types, Board, Lines, Serial, Client, Counted, Events, Remembered, TypeOK

LEMMA CountedStep == Counted /\ [Next]_vars => Counted'
  <1> SUFFICES ASSUME Counted, [Next]_vars PROVE Counted'
    OBVIOUS
  <1>1. ASSUME NEW e \in Events, NEW n, Count(e, n) PROVE Counted'
    <2>1. used[e] + 1 \in Nat
      BY DEF Counted
    <2> QED
      BY <1>1, <2>1 DEF Count, Counted
  <1>2. UNCHANGED used => Counted'
    BY DEF Counted
  <1>3. (\E e \in Events : \E n : Count(e, n)) \/ UNCHANGED used
    BY DEF Events, Next, vars, Connect, Send, Receive, AcceptClient, ReadCommand, ReadSerial,
           ReadReply, ParseSerial, EndWindow, NextRound, KeepAlive, Restart,
           CallerRings, RingAgain, CallEnds, DialAnswered, DialFails, Execute
  <1> QED
    BY <1>1, <1>2, <1>3

LEMMA RememberedStep == Remembered /\ [Next]_vars => Remembered'
  <1> SUFFICES ASSUME Remembered, [Next]_vars PROVE Remembered'
    OBVIOUS
  <1>1. misled' = FALSE \/ misled' = misled \/ \E more \in BOOLEAN : misled' = (misled \/ more)
    <2>1. CASE ReadSerial
      BY <2>1 DEF ReadSerial, ReadReply, ParseSerial, Says
    <2>2. CASE \E c \in Callers : CallerRings(c)
      BY <2>2 DEF CallerRings, AnswerPending, Contains
    <2>3. CASE Execute
      BY <2>3 DEF Execute, ExecuteATA, ExecuteCHLD, ExecuteATD, ExecuteATH,
                  ExecuteQuery, Refuse
    <2>4. CASE Restart
      BY <2>4 DEF Restart
    <2>5. CASE \/ (\E c \in Commands : Connect(c)) \/ Send \/ Receive \/ AcceptClient
               \/ ReadCommand \/ EndWindow \/ NextRound \/ KeepAlive
      BY <2>5 DEF Connect, Send, Receive, AcceptClient, ReadCommand, EndWindow,
                  NextRound, KeepAlive
    <2>6. CASE \/ RingAgain \/ CallEnds \/ DialAnswered
               \/ (\E why \in Ended : DialFails(why)) \/ UNCHANGED vars
      BY <2>6 DEF RingAgain, CallEnds, DialAnswered, DialFails, vars
    <2> QED
      BY <2>1, <2>2, <2>3, <2>4, <2>5, <2>6 DEF Next
  <1>2. ASSUME NEW more \in BOOLEAN PROVE (misled \/ more) \in BOOLEAN
    BY Zenon
  <1>3. FALSE \in BOOLEAN
    OBVIOUS
  <1> QED
    BY <1>1, <1>2, <1>3, Zenon DEF Remembered

LEMMA BoardStep == Board /\ Serial /\ [Next]_vars => Board'
  <1> SUFFICES ASSUME Board, Serial, [Next]_vars PROVE Board'
    OBVIOUS
  <1>1. CASE AcceptClient
    BY <1>1 DEF AcceptClient, Board
  <1>2. CASE ReadCommand
    BY <1>2 DEF ReadCommand, ModeAfterCommand, Board
  <1>3. CASE \E k \in 1..Len(fromModem) : ReadReply(k)
    BY <1>3, ChunkAndRest DEF ReadReply, Board, Serial
  <1>4. CASE \E k \in 1..Len(fromModem) : ParseSerial(k)
    <2>1. PICK k \in 1..Len(fromModem) : ParseSerial(k)
      BY <1>4
    <2>2. FlagAfter(Chunk(k)) \in {0, 1}
      BY DEF FlagAfter, Board
    <2> QED
      BY <2>1, <2>2 DEF ParseSerial, Board
  <1>5. CASE EndWindow
    BY <1>5, EmptySeq DEF EndWindow, Board
  <1>6. CASE NextRound
    BY <1>6 DEF NextRound, Board
  <1>7. CASE Restart
    BY <1>7, EmptySeq DEF Restart, Board
  <1>8. CASE \/ (\E c \in Commands : Connect(c)) \/ Send \/ Receive \/ KeepAlive
             \/ (\E c \in Callers : CallerRings(c)) \/ RingAgain \/ CallEnds
             \/ DialAnswered \/ (\E why \in Ended : DialFails(why)) \/ Execute
             \/ UNCHANGED vars
    <2>1. UNCHANGED firmware
      BY <1>8 DEF Connect, Send, Receive, KeepAlive, CallerRings, RingAgain, CallEnds,
                  DialAnswered, DialFails, Execute, vars
    <2> QED
      BY <2>1 DEF firmware, Board
  <1> QED
    BY <1>1, <1>2, <1>3, <1>4, <1>5, <1>6, <1>7, <1>8 DEF Next, ReadSerial

LEMMA ClientStep == Board /\ Client /\ [Next]_vars => Client'
  <1> SUFFICES ASSUME Board, Client, [Next]_vars PROVE Client'
    OBVIOUS
  <1>1. CASE \E c \in Commands : Connect(c)
    BY <1>1, EmptySeq DEF Connect, Client
  <1>2. CASE Send
    BY <1>2 DEF Send, Client
  <1>3. CASE Receive
    BY <1>3, EmptySeq DEF Receive, Client
  <1>4. CASE AcceptClient
    BY <1>4 DEF AcceptClient, Client
  <1>5. CASE EndWindow
    BY <1>5 DEF EndWindow, Client, Board
  <1>6. CASE NextRound
    BY <1>6 DEF NextRound, Client
  <1>7. CASE Restart
    BY <1>7 DEF Restart, Client
  <1>8. CASE \/ ReadCommand \/ ReadSerial \/ KeepAlive
             \/ (\E c \in Callers : CallerRings(c)) \/ RingAgain \/ CallEnds
             \/ DialAnswered \/ (\E why \in Ended : DialFails(why)) \/ Execute
             \/ UNCHANGED vars
    <2>1. UNCHANGED plugin
      BY <1>8 DEF ReadCommand, ReadSerial, ReadReply, ParseSerial, KeepAlive,
                  CallerRings, RingAgain, CallEnds, DialAnswered, DialFails, Execute, vars
    <2> QED
      BY <2>1 DEF plugin, Client
  <1> QED
    BY <1>1, <1>2, <1>3, <1>4, <1>5, <1>6, <1>7, <1>8 DEF Next

(* What the modem says. *)
LEMMA RingIsMessage == \A c \in Callers : Ring(c) \in Messages
  BY DEF Ring, Messages

LEMMA ReportIsMessage ==
    \A w \in {"RESULT", "RING"} \union Ended : Report(w) \in Messages
  BY DEF Report, Messages

LEMMA Told ==
    ASSUME Serial, NEW m \in Messages, Tell(m)
    PROVE  /\ fromModem' \in Seq(Messages) /\ Len(fromModem') <= MaxUnread
           /\ \A words : Says(fromModem, words) => Says(fromModem', words)
           /\ \A words : m.says \in words => Says(fromModem', words)
  <1>1. /\ fromModem \in Seq(Messages) /\ fromModem' = Append(fromModem, m)
        /\ Len(fromModem) < MaxUnread
    BY DEF Serial, Tell
  <1>2. Len(fromModem) \in Nat /\ Len(fromModem') = Len(fromModem) + 1
    BY <1>1, AppendProperties
  <1>3. fromModem' \in Seq(Messages)
    BY <1>1, AppendProperties
  <1>4. \A words : Says(fromModem', words) <=> Says(fromModem, words) \/ m.says \in words
    BY <1>1, SaysAppended
  <1> QED
    BY <1>1, <1>2, <1>3, <1>4, Given

(* The modem executes one command, which it answers. *)
LEMMA ExecuteSays ==
    ASSUME Serial, Execute
    PROVE  /\ toModem # <<>> /\ toModem' = Tail(toModem)
           /\ \E w \in {"RESULT", "RING"} \union Ended : Tell(Report(w))
           /\ UNCHANGED <<firmware, plugin, used>>
  <1>1. toModem # <<>> /\ toModem \in Seq(AtCommands)
    BY DEF Execute, Serial
  <1>2. {"RESULT", "NO CARRIER", "BUSY", "RING"} \subseteq {"RESULT", "RING"} \union Ended
    BY DEF Ended
  <1>3. \E w \in {"RESULT", "NO CARRIER", "BUSY", "RING"} : Tell(Report(w))
    <2>1. CASE Head(toModem) = "ATA"
      BY <2>1 DEF Execute, ExecuteATA, Refuse
    <2>2. CASE Head(toModem) = "AT+CHLD=2"
      BY <2>2 DEF Execute, ExecuteCHLD
    <2>3. CASE Head(toModem) = "ATD"
      BY <2>3 DEF Execute, ExecuteATD, Refuse
    <2>4. CASE Head(toModem) = "ATH"
      BY <2>4 DEF Execute, ExecuteATH
    <2>5. CASE Head(toModem) = "query"
      BY <2>5 DEF Execute, ExecuteQuery
    <2>6. CASE Head(toModem) \notin {"ATA", "AT+CHLD=2", "ATD", "ATH", "query"}
      BY <2>6 DEF Execute
    <2> QED
      BY <2>1, <2>2, <2>3, <2>4, <2>5, <2>6
  <1> QED
    BY <1>1, <1>2, <1>3 DEF Execute

LEMMA SerialStep == Lines /\ Serial /\ Client /\ [Next]_vars => Serial'
  <1> SUFFICES ASSUME Lines, Serial, Client, [Next]_vars PROVE Serial'
    OBVIOUS
  <1>1. ASSUME NEW m \in Messages, Tell(m), UNCHANGED toModem PROVE Serial'
    BY <1>1, Told DEF Serial
  <1>2. ASSUME NEW at \in AtCommands, toModem' = Append(toModem, at)
        PROVE  toModem' \in Seq(AtCommands)
    BY <1>2, AppendProperties DEF Serial
  <1>3. CASE ReadCommand
    <2>1. command \in AtCommands
      BY <1>3 DEF ReadCommand, Client, AtCommands
    <2> QED
      BY <1>2, <1>3, <2>1 DEF ReadCommand, Serial
  <1>4. CASE \E k \in 1..Len(fromModem) : ReadReply(k)
    <2>1. PICK k \in 1..Len(fromModem) : ReadReply(k)
      BY <1>4
    <2>2. Unread(k) \in Seq(Messages) /\ Len(Unread(k)) <= Len(fromModem)
      BY ChunkAndRest DEF Serial
    <2>3. Len(fromModem) \in Nat /\ Len(Unread(k)) \in Nat
      BY <2>2, LenProperties DEF Serial
    <2> QED
      BY <2>1, <2>2, <2>3, Given DEF ReadReply, Serial
  <1>5. CASE \E k \in 1..Len(fromModem) : ParseSerial(k)
    <2>1. PICK k \in 1..Len(fromModem) : ParseSerial(k)
      BY <1>5
    <2>2. Unread(k) \in Seq(Messages) /\ Len(Unread(k)) <= Len(fromModem)
      BY ChunkAndRest DEF Serial
    <2>3. Len(fromModem) \in Nat /\ Len(Unread(k)) \in Nat
      BY <2>2, LenProperties DEF Serial
    <2>4. toModem' \in Seq(AtCommands)
      <3>1. {"ATA", "AT+CHLD=2"} \subseteq AtCommands
        BY DEF AtCommands
      <3> QED
        BY <1>2, <2>1, <3>1 DEF ParseSerial, Serial
    <2>5. fromModem' = Unread(k)
      BY <2>1 DEF ParseSerial
    <2> QED
      BY <2>2, <2>3, <2>4, <2>5, Given DEF Serial
  <1>6. CASE KeepAlive
    <2>1. "AT" \in AtCommands /\ "garbled" \in AtCommands
      BY DEF AtCommands
    <2>2. toModem' \in Seq(AtCommands)
      BY <1>2, <1>6, <2>1, LastReplaced DEF KeepAlive, BeingWritten, Serial
    <2> QED
      BY <1>6, <2>2 DEF KeepAlive, Serial
  <1>7. CASE Restart
    <2>1. /\ <<>> \in Seq(AtCommands) /\ <<>> \in Seq(Messages)
          /\ Len(<<>>) = 0
      BY EmptySeq
    <2> QED
      BY <1>7, <2>1, Given DEF Restart, Serial
  <1>8. CASE \E c \in Callers : CallerRings(c)
    BY <1>1, <1>8, RingIsMessage DEF CallerRings
  <1>9. CASE RingAgain
    <2>1. line.from \in Callers \union {NoCaller} /\ second.from \in Callers \union {NoCaller}
      BY DEF Lines, Call
    <2>2. Ring(line.from) \in Messages /\ Ring(second.from) \in Messages
      BY <2>1 DEF Ring, Messages
    <2> QED
      BY <1>1, <1>9, <2>2 DEF RingAgain
  <1>10. CASE CallEnds
    <2>1. Report("NO CARRIER") \in Messages
      BY ReportIsMessage DEF Ended
    <2> QED
      BY <1>1, <1>10, <2>1 DEF CallEnds
  <1>11. CASE \E why \in Ended : DialFails(why)
    BY <1>1, <1>11, ReportIsMessage DEF DialFails
  <1>12. CASE Execute
    <2>1. PICK w \in {"RESULT", "RING"} \union Ended : Tell(Report(w))
      BY <1>12, ExecuteSays
    <2>2. toModem' \in Seq(AtCommands)
      BY <1>12, ExecuteSays, HeadTailProperties DEF Serial
    <2> QED
      BY <2>1, <2>2, ReportIsMessage, Told DEF Serial
  <1>13. CASE \/ (\E c \in Commands : Connect(c)) \/ Send \/ Receive \/ AcceptClient
              \/ EndWindow \/ NextRound \/ DialAnswered \/ UNCHANGED vars
    BY <1>13 DEF Connect, Send, Receive, AcceptClient, EndWindow, NextRound,
                 DialAnswered, vars, Serial
  <1> QED
    BY <1>3, <1>4, <1>5, <1>6, <1>7, <1>8, <1>9, <1>10, <1>11, <1>12, <1>13
       DEF Next, ReadSerial

(* A call of the modem's is one of a few kinds. *)
LEMMA CallKinds ==
    ASSUME NEW state \in {"none", "ringing", "dialling", "active", "waiting", "held"},
           NEW c \in Call
    PROVE  /\ [c EXCEPT !.state = state] \in Call
           /\ [c EXCEPT !.state = state].state = state
  BY DEF Call

LEMMA LinesStep == Lines /\ [Next]_vars => Lines'
  <1> SUFFICES ASSUME Lines, [Next]_vars PROVE Lines'
    OBVIOUS
  <1>1. /\ line \in Call /\ second \in Call
        /\ NoCall \in Call /\ NoCall.state = "none"
        /\ line.state \in {"none", "ringing", "dialling", "active"}
    BY DEF Lines, Call, NoCall
  <1>2. CASE \E c \in Callers : CallerRings(c)
    BY <1>2 DEF CallerRings, Lines, Call, NoCall
  <1>3. CASE CallEnds
    <2>1. second' = NoCall
      BY <1>3 DEF CallEnds
    <2>2. CASE UNCHANGED line
      BY <1>1, <2>1, <2>2 DEF Lines
    <2>3. CASE line' = Promoted
      <3>1. CASE second.state = "waiting"
        BY <1>1, <2>1, <2>3, <3>1, CallKinds DEF Promoted, Lines
      <3>2. CASE second.state = "held"
        BY <1>1, <2>1, <2>3, <3>2, CallKinds DEF Promoted, Lines
      <3>3. CASE second.state \notin {"waiting", "held"}
        BY <1>1, <2>1, <2>3, <3>3 DEF Promoted, Lines
      <3> QED
        BY <3>1, <3>2, <3>3
    <2> QED
      BY <1>3, <2>2, <2>3 DEF CallEnds
  <1>4. CASE DialAnswered
    BY <1>1, <1>4, CallKinds DEF DialAnswered, Lines
  <1>5. CASE \E why \in Ended : DialFails(why)
    BY <1>1, <1>5 DEF DialFails, Lines
  <1>6. CASE Restart
    BY <1>1, <1>6 DEF Restart, Lines
  <1>7. CASE Execute
    <2>1. CASE Head(toModem) = "ATA"
      <3>1. \/ /\ line.state = "ringing" /\ UNCHANGED second
               /\ line' = [line EXCEPT !.state = "active"]
            \/ UNCHANGED modem
        BY <1>7, <2>1 DEF Execute, ExecuteATA, Refuse, modem
      <3>2. CASE /\ line.state = "ringing" /\ UNCHANGED second
                 /\ line' = [line EXCEPT !.state = "active"]
        BY <1>1, <3>2, CallKinds DEF Lines
      <3>3. CASE UNCHANGED modem
        BY <3>3 DEF Lines, modem
      <3> QED
        BY <3>1, <3>2, <3>3
    <2>2. CASE Head(toModem) = "AT+CHLD=2"
      <3>1. CASE /\ second # NoCall
                 /\ line' = [second EXCEPT !.state = "active"]
                 /\ second' = [line EXCEPT !.state = "held"]
        BY <1>1, <3>1, CallKinds DEF Lines
      <3>2. CASE /\ second = NoCall /\ line.state = "ringing"
                 /\ line' = [line EXCEPT !.state = "active"]
                 /\ UNCHANGED second
        BY <1>1, <3>2, CallKinds DEF Lines
      <3>3. CASE UNCHANGED modem
        BY <3>3 DEF Lines, modem
      <3> QED
        BY <1>7, <2>2, <3>1, <3>2, <3>3 DEF Execute, ExecuteCHLD
    <2>3. CASE Head(toModem) = "ATD"
      <3>1. \/ line = NoCall /\ UNCHANGED second
               /\ line' = [state |-> "dialling", from |-> NoCaller]
            \/ UNCHANGED modem
        BY <1>7, <2>3 DEF Execute, ExecuteATD, Refuse, modem
      <3> QED
        BY <1>1, <3>1 DEF Lines, Call, modem
    <2>4. CASE Head(toModem) = "ATH"
      BY <1>1, <1>7, <2>4 DEF Execute, ExecuteATH, Lines
    <2>5. CASE Head(toModem) \notin {"ATA", "AT+CHLD=2", "ATD", "ATH"}
      <3>1. UNCHANGED modem
        BY <1>7, <2>5 DEF Execute, ExecuteQuery, modem
      <3> QED
        BY <3>1 DEF Lines, modem
    <2> QED
      BY <2>1, <2>2, <2>3, <2>4, <2>5
  <1>8. CASE \/ (\E c \in Commands : Connect(c)) \/ Send \/ Receive \/ AcceptClient
             \/ ReadCommand \/ ReadSerial \/ EndWindow \/ NextRound \/ KeepAlive
             \/ RingAgain \/ UNCHANGED vars
    <2>1. UNCHANGED modem
      BY <1>8 DEF Connect, Send, Receive, AcceptClient, ReadCommand, ReadSerial,
                  ReadReply, ParseSerial, EndWindow, NextRound, KeepAlive, RingAgain,
                  vars
    <2> QED
      BY <2>1 DEF Lines, modem
  <1> QED
    BY <1>2, <1>3, <1>4, <1>5, <1>6, <1>7, <1>8 DEF Next

LEMMA TypesStep == Types /\ [Next]_vars => Types'
  BY CountedStep, RememberedStep, BoardStep, ClientStep, SerialStep, LinesStep DEF Types

LEMMA TypesAlways == Spec => []Types
  BY InitTypes, TypesStep, PTL DEF Spec

(* The type invariant, for any callers and commands. *)
THEOREM TypeCorrect == Spec => []TypeOK
  BY TypesAlways, TypesImplyTypeOK, PTL

-----------------------------------------------------------------------------
(* The flag. *)

InCall == line.state \in {"dialling", "active"}

(* The flag is set when there is a call, and already when an answer is on its way
   to a call that rings, or a number on its way to be dialled. *)
FlagSet ==
    /\ InCall => call_in_progress = 1
    /\ AnswerPending /\ line.state = "ringing" => call_in_progress = 1
    /\ Contains(toModem, "ATD") => call_in_progress = 1

(* When it is set without a call, one may be about to begin, or the end of one is
   still to be read. *)
FlagMeant ==
    call_in_progress = 1
    => \/ InCall
       \/ Says(fromModem, Ended)
       \/ Contains(toModem, "ATD")
       \/ Contains(toModem, "ATA")

FlagKept == ~misled => FlagSet /\ FlagMeant

LEMMA InitFlag == Init => FlagKept
  <1> SUFFICES ASSUME Init PROVE FlagKept
    OBVIOUS
  <1>1. Len(toModem) = 0 /\ Len(fromModem) = 0
    BY EmptySeq DEF Init
  <1>2. \A x : ~Contains(toModem, x)
    BY <1>1 DEF Contains
  <1> QED
    BY <1>2 DEF Init, FlagKept, FlagSet, FlagMeant, InCall, NoCall, AnswerPending

(* A board that has just started. *)
LEMMA FlagAtRestart == Restart => FlagKept'
  <1> SUFFICES ASSUME Restart PROVE FlagKept'
    OBVIOUS
  <1>1. toModem' = <<>> /\ line' = NoCall /\ call_in_progress' = 0
    BY DEF Restart
  <1>2. Len(toModem') = 0
    BY <1>1, EmptySeq
  <1>3. \A x : ~Contains(toModem', x)
    BY <1>2 DEF Contains
  <1> QED
    BY <1>1, <1>3 DEF FlagKept, FlagSet, FlagMeant, InCall, NoCall, AnswerPending

(* Once misled, always misled, but for a restart. *)
LEMMA MisledStays ==
    ASSUME Types, Next, ~Restart, misled PROVE misled'
  <1>1. CASE ReadSerial
    BY <1>1 DEF ReadSerial, ReadReply, ParseSerial
  <1>2. CASE \E c \in Callers : CallerRings(c)
    BY <1>2 DEF CallerRings
  <1>3. CASE Execute
    BY <1>3 DEF Execute, ExecuteATA, ExecuteCHLD, ExecuteATD, ExecuteATH,
                ExecuteQuery, Refuse
  <1>4. CASE \/ (\E c \in Commands : Connect(c)) \/ Send \/ Receive \/ AcceptClient
             \/ ReadCommand \/ EndWindow \/ NextRound \/ KeepAlive
    BY <1>4 DEF Connect, Send, Receive, AcceptClient, ReadCommand, EndWindow,
                NextRound, KeepAlive
  <1>5. CASE \/ RingAgain \/ CallEnds \/ DialAnswered
             \/ (\E why \in Ended : DialFails(why))
    BY <1>5 DEF RingAgain, CallEnds, DialAnswered, DialFails
  <1> QED
    BY <1>1, <1>2, <1>3, <1>4, <1>5 DEF Next

LEMMA FlagReadCommand ==
    ASSUME Types, FlagSet, FlagMeant, ReadCommand PROVE FlagSet' /\ FlagMeant'
  <1>1. /\ toModem' = Append(toModem, command)
        /\ call_in_progress' = IF command = "ATD" THEN 1 ELSE call_in_progress
        /\ UNCHANGED <<line, fromModem>>
    BY DEF ReadCommand, modem
  <1>2. command \in Commands /\ command \in AtCommands
    BY DEF ReadCommand, Types, Client, AtCommands
  <1>3. \A x : Contains(toModem', x) <=> Contains(toModem, x) \/ x = command
    BY <1>1, <1>2, ContainsAppended DEF Types, Serial
  <1>4. command \notin {"ATA", "AT+CHLD=2"}
    BY <1>2, Given
  <1>5. AnswerPending' <=> AnswerPending
    BY <1>3, <1>4 DEF AnswerPending
  <1>6. CASE command = "ATD"
    BY <1>1, <1>3, <1>6 DEF FlagSet, FlagMeant
  <1>7. CASE command # "ATD"
    <2>1. UNCHANGED call_in_progress
      BY <1>1, <1>7
    <2>2. (Contains(toModem', "ATD") <=> Contains(toModem, "ATD"))
          /\ (Contains(toModem', "ATA") <=> Contains(toModem, "ATA"))
      BY <1>3, <1>4, <1>7
    <2> QED
      BY <1>1, <1>5, <2>1, <2>2 DEF FlagSet, FlagMeant, InCall
  <1> QED
    BY <1>6, <1>7

(* The keep-alive may spoil a command, but no answer, and a dial only by misleading. *)
LEMMA FlagKeepAlive ==
    ASSUME Types, FlagSet, FlagMeant, KeepAlive, ~misled' PROVE FlagSet' /\ FlagMeant'
  <1>1. UNCHANGED <<call_in_progress, line, fromModem>>
    BY DEF KeepAlive, firmware, modem
  <1>2. \A x \in {"ATA", "ATD", "AT+CHLD=2"} :
            Contains(toModem', x) <=> Contains(toModem, x)
    <2>1. CASE toModem' = Append(toModem, "AT")
      <3>1. \A x : Contains(toModem', x) <=> Contains(toModem, x) \/ x = "AT"
        BY <2>1, ContainsAppended DEF Types, Serial, AtCommands
      <3> QED
        BY <3>1
    <2>2. CASE /\ BeingWritten
               /\ toModem' = [toModem EXCEPT ![Len(toModem)] = "garbled"]
               /\ misled' = (misled \/ toModem[Len(toModem)] = "ATD")
      <3>1. toModem[Len(toModem)] \notin {"ATA", "ATD", "AT+CHLD=2"}
        BY <2>2, Given DEF BeingWritten
      <3>2. toModem \in Seq(AtCommands) /\ toModem # <<>> /\ "garbled" \in AtCommands
        BY <2>2 DEF BeingWritten, Types, Serial, AtCommands
      <3>3. \A x : x # "garbled" /\ x # toModem[Len(toModem)]
                 => (Contains(toModem', x) <=> Contains(toModem, x))
        BY <2>2, <3>2, LastReplaced
      <3> QED
        BY <3>1, <3>3
    <2> QED
      BY <2>1, <2>2 DEF KeepAlive
  <1>3. AnswerPending' <=> AnswerPending
    BY <1>2 DEF AnswerPending
  <1> QED
    BY <1>1, <1>2, <1>3 DEF FlagSet, FlagMeant, InCall

(* A window swallows a chunk: nothing in it may end a call, or taskloop is misled. *)
LEMMA FlagReadReply ==
    ASSUME Types, FlagSet, FlagMeant, NEW k \in 1..Len(fromModem), ReadReply(k), ~misled'
    PROVE  FlagSet' /\ FlagMeant'
  <1>1. UNCHANGED <<call_in_progress, line, toModem>> /\ fromModem' = Unread(k)
    BY DEF ReadReply, modem
  <1>2. ~Says(Chunk(k), Ended)
    BY DEF ReadReply
  <1>3. Says(fromModem, Ended) => Says(fromModem', Ended)
    BY <1>1, <1>2, ChunkAndRest DEF Types, Serial
  <1> QED
    BY <1>1, <1>3 DEF FlagSet, FlagMeant, InCall, AnswerPending

(* A chunk with the end of a call clears the flag; if there is no call and none is
   being dialled, rightly so, and otherwise taskloop is misled.  A chunk with a
   RING sets it, and an answer is on its way. *)
LEMMA FlagParseSerial ==
    ASSUME Types, FlagSet, FlagMeant, NEW k \in 1..Len(fromModem), ParseSerial(k), ~misled'
    PROVE  FlagSet' /\ FlagMeant'
  <1> DEFINE chunk == Chunk(k)
             answer == IF call_in_progress = 1 THEN "AT+CHLD=2" ELSE "ATA"
  <1>1. /\ fromModem' = Unread(k)
        /\ toModem' = IF MayAnswer(chunk) THEN Append(toModem, answer) ELSE toModem
        /\ call_in_progress' = FlagAfter(chunk)
        /\ Says(chunk, Ended) => ~AnotherCall
        /\ UNCHANGED line
    BY DEF ParseSerial, modem
  <1>2. Says(fromModem, Ended) => Says(chunk, Ended) \/ Says(fromModem', Ended)
    BY <1>1, ChunkAndRest DEF Types, Serial
  <1>3. answer \in AtCommands
    BY DEF AtCommands
  <1>4. MayAnswer(chunk)
        => \A x : Contains(toModem', x) <=> Contains(toModem, x) \/ x = answer
    BY <1>1, <1>3, ContainsAppended DEF Types, Serial
  <1>5. CASE Says(chunk, Ended)
    <2>1. call_in_progress' = 0
      BY <1>1, <1>5 DEF FlagAfter
    <2>2. line' = NoCall /\ ~Contains(toModem, "ATD")
      BY <1>1, <1>5 DEF AnotherCall
    <2>3. ~Contains(toModem', "ATD")
      BY <1>1, <1>4, <2>2
    <2> QED
      BY <2>1, <2>2, <2>3 DEF FlagSet, FlagMeant, InCall, NoCall
  <1>6. CASE ~Says(chunk, Ended) /\ MayAnswer(chunk)
    <2>1. call_in_progress' = 1
      BY <1>1, <1>6 DEF FlagAfter
    <2>2. CASE call_in_progress = 1
      BY <1>1, <1>2, <1>4, <1>6, <2>1, <2>2 DEF FlagSet, FlagMeant, InCall
    <2>3. CASE call_in_progress # 1
      <3>1. Contains(toModem', "ATA")
        BY <1>4, <1>6, <2>3
      <3> QED
        BY <2>1, <3>1 DEF FlagSet, FlagMeant
    <2> QED
      BY <2>2, <2>3
  <1>7. CASE ~Says(chunk, Ended) /\ ~MayAnswer(chunk)
    <2>1. UNCHANGED <<call_in_progress, toModem>>
      BY <1>1, <1>7 DEF FlagAfter
    <2> QED
      BY <1>1, <1>2, <1>7, <2>1 DEF FlagSet, FlagMeant, InCall, AnswerPending
  <1> QED
    BY <1>5, <1>6, <1>7

(* A new caller does not ring while an answer is on its way, or taskloop is
   misled. *)
LEMMA FlagCallerRings ==
    ASSUME Types, FlagSet, FlagMeant, NEW c \in Callers, CallerRings(c), ~misled'
    PROVE  FlagSet' /\ FlagMeant'
  <1>1. /\ UNCHANGED <<call_in_progress, toModem>>
        /\ ~AnswerPending
        /\ Says(fromModem, Ended) => Says(fromModem', Ended)
    BY RingIsMessage, Told DEF CallerRings, firmware, Types
  <1>2. ~AnswerPending'
    BY <1>1 DEF AnswerPending
  <1>3. InCall' <=> InCall
    BY DEF CallerRings, InCall, NoCall
  <1> QED
    BY <1>1, <1>2, <1>3 DEF FlagSet, FlagMeant

LEMMA FlagCallEnds ==
    ASSUME Types, FlagSet, FlagMeant, CallEnds
    PROVE  FlagSet' /\ FlagMeant'
  <1>1. UNCHANGED <<call_in_progress, toModem>> /\ Says(fromModem', Ended)
    <2>1. Report("NO CARRIER") \in Messages
      BY ReportIsMessage DEF Ended
    <2>2. Report("NO CARRIER").says \in Ended
      BY DEF Report, Ended
    <2> QED
      BY <2>1, <2>2, Told DEF CallEnds, firmware, Types
  <1>2. FlagMeant'
    BY <1>1 DEF FlagMeant
  <1>3. line' = line \/ line' = NoCall \/ line.state = "active"
    <2>1. second # NoCall => line.state = "active"
      BY DEF Types, Lines
    <2>2. CASE second = NoCall
      <3>1. Promoted = NoCall
        BY <2>2 DEF Promoted, NoCall
      <3> QED
        BY <3>1 DEF CallEnds
    <2> QED
      BY <2>1, <2>2
  <1>4. InCall' \/ line'.state = "ringing" => line' = line \/ InCall
    BY <1>3 DEF InCall, NoCall
  <1>5. FlagSet'
    <2>1. CASE line' = line
      BY <1>1, <2>1 DEF FlagSet, InCall, AnswerPending
    <2>2. CASE line' # line
      BY <1>1, <1>4, <2>2 DEF FlagSet
    <2> QED
      BY <2>1, <2>2
  <1> QED
    BY <1>2, <1>5

LEMMA FlagDialAnswered ==
    ASSUME Types, FlagSet, FlagMeant, DialAnswered
    PROVE  FlagSet' /\ FlagMeant'
  <1>1. /\ UNCHANGED <<call_in_progress, toModem, fromModem>>
        /\ InCall /\ line'.state = "active"
    BY DEF DialAnswered, firmware, InCall, Types, Lines, Call
  <1> QED
    BY <1>1 DEF FlagSet, FlagMeant, InCall, AnswerPending

LEMMA FlagDialFails ==
    ASSUME Types, FlagSet, FlagMeant, NEW why \in Ended, DialFails(why)
    PROVE  FlagSet' /\ FlagMeant'
  <1>1. UNCHANGED <<call_in_progress, toModem>> /\ line' = NoCall
    BY DEF DialFails, firmware
  <1>2. Says(fromModem', Ended)
    <2>1. Report(why).says \in Ended
      BY DEF Report
    <2> QED
      BY <2>1, ReportIsMessage, Told DEF DialFails, Types
  <1> QED
    BY <1>1, <1>2 DEF FlagSet, FlagMeant, InCall, NoCall, AnswerPending

(* The modem executes a command: a call that begins was announced, and what no
   longer rings or no longer waits to be dialled is a call, or its end is told. *)
LEMMA FlagExecute ==
    ASSUME Types, FlagSet, FlagMeant, Execute, ~misled'
    PROVE  FlagSet' /\ FlagMeant'
  <1> DEFINE at == Head(toModem)
  <1>1. /\ toModem # <<>> /\ toModem' = Tail(toModem)
        /\ UNCHANGED call_in_progress
        /\ Says(fromModem, Ended) => Says(fromModem', Ended)
    BY ExecuteSays, ReportIsMessage, Told DEF Types, firmware
  <1>2. \A x : Contains(toModem, x) <=> at = x \/ Contains(toModem', x)
    BY <1>1, ContainsHeadOrTail DEF Types, Serial
  <1>3. /\ Contains(toModem', "ATD") => call_in_progress' = 1
        /\ AnswerPending' => AnswerPending
        /\ at \in {"ATA", "AT+CHLD=2"} => AnswerPending
        /\ at = "ATD" => call_in_progress' = 1
    BY <1>1, <1>2 DEF FlagSet, AnswerPending
  <1>4. call_in_progress' = 1 /\ at \notin {"ATA", "ATD"}
        => InCall \/ Says(fromModem', Ended) \/ Contains(toModem', "ATD")
                  \/ Contains(toModem', "ATA")
    BY <1>1, <1>2 DEF FlagMeant
  <1>5. line.state \in {"none", "ringing", "dialling", "active"} /\ line \in Call
    BY DEF Types, Lines, Call
  (* A step that leaves the line as it is, or answers it, or begins a call. *)
  <1>6. ASSUME UNCHANGED line, at \notin {"ATA", "ATD"} PROVE FlagSet' /\ FlagMeant'
    BY <1>1, <1>3, <1>4, <1>6 DEF FlagSet, FlagMeant, InCall
  <1>7. ASSUME InCall', call_in_progress = 1 PROVE FlagSet' /\ FlagMeant'
    BY <1>1, <1>7 DEF FlagSet, FlagMeant
  <1>8. CASE at = "ATA"
    <2>1. CASE line.state = "ringing" /\ line' = [line EXCEPT !.state = "active"]
      <3>1. call_in_progress = 1
        BY <1>3, <1>8, <2>1 DEF FlagSet
      <3>2. line'.state = "active"
        BY <1>5, <2>1, CallKinds
      <3> QED
        BY <1>7, <3>1, <3>2 DEF InCall
    <2>2. CASE line = NoCall /\ Tell(Report("NO CARRIER")) /\ UNCHANGED modem
      <3>1. UNCHANGED line
        BY <2>2 DEF modem
      <3>2. Report("NO CARRIER") \in Messages /\ Report("NO CARRIER").says \in Ended
        BY ReportIsMessage DEF Report, Ended
      <3>3. Says(fromModem', Ended)
        BY <2>2, <3>2, Told DEF Types
      <3> QED
        BY <1>1, <1>3, <2>2, <3>1, <3>3 DEF FlagSet, FlagMeant, InCall, NoCall
    <2>3. CASE Refuse
      <3>1. UNCHANGED line /\ line.state \notin {"none", "ringing"}
        BY <2>3 DEF Refuse, modem
      <3>2. InCall
        BY <1>5, <3>1 DEF InCall
      <3> QED
        BY <1>7, <3>1, <3>2 DEF FlagSet, InCall
    <2> QED
      BY <1>8, <2>1, <2>2, <2>3 DEF Execute, ExecuteATA, modem
  <1>9. CASE at = "AT+CHLD=2"
    <2>1. CASE second # NoCall /\ line' = [second EXCEPT !.state = "active"]
      <3>1. InCall /\ line'.state = "active"
        BY <2>1, CallKinds DEF Types, Lines, InCall
      <3> QED
        BY <1>7, <3>1 DEF FlagSet, InCall
    <2>2. CASE line.state = "ringing" /\ line' = [line EXCEPT !.state = "active"]
      <3>1. call_in_progress = 1
        BY <1>3, <1>9, <2>2 DEF FlagSet
      <3>2. line'.state = "active"
        BY <1>5, <2>2, CallKinds
      <3> QED
        BY <1>7, <3>1, <3>2 DEF InCall
    <2>3. CASE UNCHANGED line
      BY <1>6, <1>9, <2>3
    <2> QED
      BY <1>9, <2>1, <2>2, <2>3 DEF Execute, ExecuteCHLD, modem
  <1>10. CASE at = "ATD"
    <2>1. CASE Refuse
      <3>1. UNCHANGED line /\ line.state \notin {"none", "ringing"}
        BY <2>1 DEF Refuse, modem
      <3> QED
        BY <1>1, <1>3, <1>5, <1>7, <1>10, <3>1 DEF InCall
    <2>2. CASE line' = [state |-> "dialling", from |-> NoCaller]
      <3>1. InCall'
        BY <2>2 DEF InCall
      <3> QED
        BY <1>1, <1>3, <1>7, <1>10, <3>1
    <2> QED
      BY <1>10, <2>1, <2>2 DEF Execute, ExecuteATD
  <1>11. CASE at = "ATH"
    <2>1. line' = NoCall /\ ~InCall
      BY <1>11 DEF Execute, ExecuteATH, InCall
    <2> QED
      BY <1>3, <1>4, <1>11, <2>1 DEF FlagSet, FlagMeant, InCall, NoCall
  <1>12. CASE at \notin {"ATA", "AT+CHLD=2", "ATD", "ATH"}
    <2>1. UNCHANGED line
      BY <1>12 DEF Execute, ExecuteQuery, modem
    <2> QED
      BY <1>6, <1>12, <2>1
  <1> QED
    BY <1>8, <1>9, <1>10, <1>11, <1>12

LEMMA FlagStep == Types /\ FlagKept /\ [Next]_vars => FlagKept'
  <1> SUFFICES ASSUME Types, FlagKept, [Next]_vars PROVE FlagKept'
    OBVIOUS
  <1>1. CASE Restart
    BY <1>1, FlagAtRestart
  <1>2. CASE UNCHANGED vars
    BY <1>2 DEF vars, firmware, modem, FlagKept, FlagSet, FlagMeant, InCall,
                AnswerPending
  <1>3. CASE Next /\ ~Restart
    <2> SUFFICES ASSUME ~misled' PROVE FlagSet' /\ FlagMeant'
      BY DEF FlagKept
    <2>1. ~misled
      BY <1>3, MisledStays
    <2>2. FlagSet /\ FlagMeant
      BY <2>1 DEF FlagKept
    <2>3. CASE \/ (\E c \in Commands : Connect(c)) \/ Send \/ Receive \/ AcceptClient
               \/ EndWindow \/ NextRound \/ RingAgain
      <3>1. UNCHANGED <<call_in_progress, toModem, line>>
        BY <2>3 DEF Connect, Send, Receive, AcceptClient, EndWindow, NextRound,
                    RingAgain, firmware, modem
      <3>2. CASE UNCHANGED fromModem
        BY <2>2, <3>1, <3>2 DEF FlagSet, FlagMeant, InCall, AnswerPending
      <3>3. CASE RingAgain
        <4>1. /\ line.from \in Callers \union {NoCaller}
              /\ second.from \in Callers \union {NoCaller}
          BY DEF Types, Lines, Call
        <4>2. Ring(line.from) \in Messages /\ Ring(second.from) \in Messages
          BY <4>1 DEF Ring, Messages
        <4>3. Says(fromModem, Ended) => Says(fromModem', Ended)
          BY <3>3, <4>2, Told DEF RingAgain, Types
        <4> QED
          BY <2>2, <3>1, <4>3 DEF FlagSet, FlagMeant, InCall, AnswerPending
      <3> QED
        BY <2>3, <3>2, <3>3 DEF Connect, Send, Receive, AcceptClient, EndWindow, NextRound
    <2>4. CASE ReadCommand
      BY <2>2, <2>4, FlagReadCommand
    <2>5. CASE ReadSerial
      BY <2>2, <2>5, FlagReadReply, FlagParseSerial DEF ReadSerial
    <2>6. CASE KeepAlive
      BY <2>2, <2>6, FlagKeepAlive
    <2>7. CASE \E c \in Callers : CallerRings(c)
      BY <2>2, <2>7, FlagCallerRings
    <2>8. CASE CallEnds
      BY <2>2, <2>8, FlagCallEnds
    <2>9. CASE DialAnswered
      BY <2>2, <2>9, FlagDialAnswered
    <2>10. CASE \E why \in Ended : DialFails(why)
      BY <2>2, <2>10, FlagDialFails
    <2>11. CASE Execute
      BY <2>2, <2>11, FlagExecute
    <2> QED
      BY <1>3, <2>3, <2>4, <2>5, <2>6, <2>7, <2>8, <2>9, <2>10, <2>11 DEF Next
  <1> QED
    BY <1>1, <1>2, <1>3

(* When all is quiet the flag tells whether there is a call, for any callers,
   commands and chunks, whatever the modem may refuse, unless one of the seven
   things happened that `misled' records (SIMutils.cpp:34-53, main.ino:279-326, 397). *)
THEOREM FlagIsRight == Spec => []FlagTellsCall
  <1>1. FlagKept => FlagTellsCall
    <2> SUFFICES ASSUME FlagKept, Quiet, ~misled
                 PROVE  call_in_progress = 1 <=> InCall
      BY DEF FlagTellsCall, InCall
    <2>1. Len(toModem) = 0 /\ Len(fromModem) = 0
      BY EmptySeq DEF Quiet
    <2>2. ~Contains(toModem, "ATD") /\ ~Contains(toModem, "ATA") /\ ~Says(fromModem, Ended)
      BY <2>1 DEF Contains, Says
    <2> QED
      BY <2>2 DEF FlagKept, FlagSet, FlagMeant
  <1> QED
    BY <1>1, TypesAlways, InitFlag, FlagStep, PTL DEF Spec
=============================================================================
