----------------------------- MODULE Logger_proofs -----------------------------
(***************************************************************************)
(* The logger's lines stay within their buffer and of one piece, for every *)
(* number of threads, every size of the buffers, every length of a message *)
(* and every number of exits.                                              *)
(***************************************************************************)
EXTENDS Logger, TLAPS

(* What each mention of the constants comes to. *)
LEMMA Sizes ==
    /\ Nobody \notin Threads
    /\ CLOG_MAX_MESSAGE_SIZE \in Nat /\ CLOG_MAX_MESSAGE_SIZE > 0
    /\ CLOG_MAX_LOCATION_SIZE \in Nat /\ CLOG_MAX_LOCATION_SIZE > 0
    /\ CLOG_MAX_TIME_SIZE \in Nat /\ CLOG_MAX_TIME_SIZE > 19
    /\ MaxExits \in Nat
BY LoggerAssumption DEF LoggerAssumption

(* snprintf leaves less than the buffer holds. *)
LEMMA CutFits ==
    ASSUME NEW n \in Nat, NEW size \in Nat, size > 0
    PROVE  Cut(n, size) \in 0..size - 1 /\ Cut(n, size) \in Nat
BY DEF Cut

(* A line, whatever is in the buffers, is shorter than final_buf. *)
LEMMA LineFits ==
    ASSUME NEW date \in 0..CLOG_MAX_TIME_SIZE - 1,
           NEW message \in 0..CLOG_MAX_MESSAGE_SIZE - 1,
           NEW location \in 0..CLOG_MAX_LOCATION_SIZE - 1,
           NEW colour \in LevelColours, NEW name \in LevelNames
    PROVE  /\ LineLength(date, message, location, colour, name) \in Nat
           /\ LineLength(date, message, location, colour, name) < FinalSize
<1>1. /\ colour \in Nat /\ colour <= 13
      /\ name \in Nat /\ name <= 5
    BY DEF LevelColours, LevelNames
<1>2. CASE use_ansi
    <2>1. CASE location = 0
        BY <1>1, <1>2, <2>1, Sizes DEF LineLength, FinalSize, DateColours, LocationColours
    <2>2. CASE location # 0
        BY <1>1, <1>2, <2>2, Sizes DEF LineLength, FinalSize, DateColours, LocationColours
    <2> QED BY <2>1, <2>2
<1>3. CASE ~use_ansi
    <2>1. CASE location = 0
        BY <1>1, <1>3, <2>1, Sizes DEF LineLength, FinalSize, DateColours, LocationColours
    <2>2. CASE location # 0
        BY <1>1, <1>3, <2>2, Sizes DEF LineLength, FinalSize, DateColours, LocationColours
    <2> QED BY <2>1, <2>2
<1> QED BY <1>2, <1>3

-----------------------------------------------------------------------------
(* Types.  The Booleans are kept apart from the rest, which needs arithmetic. *)

Flags ==
    /\ clog_is_initialized \in BOOLEAN /\ clog_mutex \in BOOLEAN
    /\ use_ansi \in BOOLEAN /\ registered \in BOOLEAN /\ clearedInUse \in BOOLEAN

Lines ==
    /\ length["time"] \in 0..CLOG_MAX_TIME_SIZE - 1
    /\ length["message"] \in 0..CLOG_MAX_MESSAGE_SIZE - 1
    /\ length["location"] \in 0..CLOG_MAX_LOCATION_SIZE - 1
    /\ length \in [Parts -> Nat]
    /\ len \in Nat /\ len < FinalSize

Places ==
    /\ buffer \in [Parts -> Threads \cup {Nobody}]
    /\ final_buf \in [Parts -> Threads \cup {Nobody}]
    /\ line \in [by : Threads \cup {Nobody}, parts : [Parts -> Threads \cup {Nobody}]]
    /\ pc \in [Threads -> Labels]
    /\ back \in [Threads -> {"enter", "lock"}]

Exits == exits \in 0..MaxExits

Types == Flags /\ Lines /\ Places /\ Exits

LEMMA InitTypes == Init => Types
<1> SUFFICES ASSUME Init PROVE Types
    OBVIOUS
<1>1. Flags
    BY DEF Init, Flags
<1>2. Lines
    BY Sizes DEF Init, Lines, Parts, FinalSize
<1>3. Places
    BY DEF Init, Places, Parts, Labels, Inside
<1>4. Exits
    BY Sizes DEF Init, Exits
<1> QED BY <1>1, <1>2, <1>3, <1>4 DEF Types

LEMMA StepFlags == Flags /\ [Next]_vars => Flags'
<1> SUFFICES ASSUME Flags, [Next]_vars PROVE Flags'
    OBVIOUS
<1>1. CASE UNCHANGED vars
    BY <1>1, Zenon DEF vars, buffers, history, Flags
<1>2. ASSUME NEW t \in Threads, Log(t) \/ Enter(t) PROVE Flags'
    BY <1>2, Zenon DEF Log, Enter, CallInit, Goes, buffers, history, Flags
<1>3. ASSUME NEW t \in Threads, TestAgain(t) \/ CompareExchange(t) PROVE Flags'
    BY <1>3, Zenon DEF TestAgain, CompareExchange, Goes, buffers, history, Flags
<1>4. ASSUME NEW t \in Threads, ClearMutex(t) PROVE Flags'
    BY <1>4, Zenon DEF ClearMutex, Goes, buffers, history, Flags
<1>5. ASSUME NEW t \in Threads, Await(t) \/ Lock(t) \/ Unlock(t) PROVE Flags'
    BY <1>5, Zenon DEF Await, Lock, Unlock, Goes, buffers, history, Flags
<1>6. ASSUME NEW t \in Threads, clog_format_time(t) \/ FormatMessage(t) \/ FormatLocation(t)
      PROVE  Flags'
    BY <1>6, Zenon DEF clog_format_time, FormatMessage, FormatLocation, Format, Goes,
                       buffers, history, Flags
<1>7. ASSUME NEW t \in Threads, Compose(t) \/ clog_safe_write(t) PROVE Flags'
    BY <1>7, Zenon DEF Compose, clog_safe_write, Goes, buffers, history, Flags
<1>8. ASSUME NEW t \in Threads, clog_cleanup(t) PROVE Flags'
    BY <1>8, Zenon DEF clog_cleanup, buffers, history, Flags
<1> QED BY <1>1, <1>2, <1>3, <1>4, <1>5, <1>6, <1>7, <1>8, Zenon DEF Next, Step

(* The steps that leave the buffers and their lengths alone. *)
LEMMA OutsideSteps ==
    ASSUME NEW t \in Threads,
           \/ Log(t) \/ Enter(t) \/ TestAgain(t) \/ CompareExchange(t) \/ ClearMutex(t)
           \/ Await(t) \/ Lock(t) \/ Unlock(t) \/ clog_cleanup(t)
    PROVE  /\ UNCHANGED <<buffer, length, final_buf, len, line>>
           /\ exits' = exits \/ (exits' = exits + 1 /\ exits < MaxExits)
BY SMT DEF Log, Enter, CallInit, TestAgain, CompareExchange, ClearMutex, Await, Lock, Unlock,
       clog_cleanup, Goes, buffers

LEMMA FormatLines ==
    ASSUME Lines, NEW t \in Threads,
           clog_format_time(t) \/ FormatMessage(t) \/ FormatLocation(t)
    PROVE  Lines'
<1>1. CASE clog_format_time(t)
    <2>1. Cut(19, CLOG_MAX_TIME_SIZE) \in 0..CLOG_MAX_TIME_SIZE - 1
        BY CutFits, Sizes
    <2> QED BY <1>1, <2>1, Sizes DEF clog_format_time, Format, Lines, Parts
<1>2. CASE FormatMessage(t)
    <2>1. PICK n \in Lengths : Format(t, "message", CLOG_MAX_MESSAGE_SIZE, n, "location")
        BY <1>2 DEF FormatMessage
    <2>2. n \in Nat
        BY LoggerAssumption DEF LoggerAssumption
    <2>3. Cut(n, CLOG_MAX_MESSAGE_SIZE) \in 0..CLOG_MAX_MESSAGE_SIZE - 1
        BY <2>2, CutFits, Sizes
    <2> QED BY <2>1, <2>3, Sizes DEF Format, Lines, Parts
<1>3. CASE FormatLocation(t)
    <2>1. PICK n \in Lengths : Format(t, "location", CLOG_MAX_LOCATION_SIZE, n, "compose")
        BY <1>3 DEF FormatLocation
    <2>2. n \in Nat
        BY LoggerAssumption DEF LoggerAssumption
    <2>3. Cut(n, CLOG_MAX_LOCATION_SIZE) \in 0..CLOG_MAX_LOCATION_SIZE - 1
        BY <2>2, CutFits, Sizes
    <2> QED BY <2>1, <2>3, Sizes DEF Format, Lines, Parts
<1> QED BY <1>1, <1>2, <1>3

LEMMA StepLines == Lines /\ [Next]_vars => Lines'
<1> SUFFICES ASSUME Lines, [Next]_vars PROVE Lines'
    OBVIOUS
<1>1. CASE UNCHANGED vars
    BY <1>1 DEF vars, buffers, Lines, FinalSize
<1>2. ASSUME NEW t \in Threads,
             \/ Log(t) \/ Enter(t) \/ TestAgain(t) \/ CompareExchange(t) \/ ClearMutex(t)
             \/ Await(t) \/ Lock(t) \/ Unlock(t) \/ clog_cleanup(t)
      PROVE  Lines'
    BY <1>2, OutsideSteps DEF Lines, FinalSize
<1>3. ASSUME NEW t \in Threads, clog_format_time(t) \/ FormatMessage(t) \/ FormatLocation(t)
      PROVE  Lines'
    BY <1>3, FormatLines
<1>4. ASSUME NEW t \in Threads, Compose(t) PROVE Lines'
    <2>1. PICK colour \in LevelColours, name \in LevelNames :
             len' = LineLength(length["time"], length["message"], length["location"],
                               colour, name)
        BY <1>4 DEF Compose
    <2>2. len' \in Nat /\ len' < FinalSize
        BY <2>1, LineFits DEF Lines
    <2> QED BY <1>4, <2>2 DEF Compose, Lines, FinalSize
<1>5. ASSUME NEW t \in Threads, clog_safe_write(t) PROVE Lines'
    BY <1>5 DEF clog_safe_write, Lines, FinalSize
<1> QED BY <1>1, <1>2, <1>3, <1>4, <1>5, Zenon DEF Next, Step

LEMMA StepPlaces == Places /\ [Next]_vars => Places'
<1> SUFFICES ASSUME Places, [Next]_vars PROVE Places'
    OBVIOUS
<1> USE DEF Places, Labels, Inside, Parts
<1>1. CASE UNCHANGED vars
    BY <1>1 DEF vars, buffers
<1>2. ASSUME NEW t \in Threads, Log(t) \/ Enter(t) PROVE Places'
    BY <1>2 DEF Log, Enter, CallInit, Goes, buffers
<1>3. ASSUME NEW t \in Threads, TestAgain(t) \/ CompareExchange(t) \/ ClearMutex(t) \/ Await(t)
      PROVE  Places'
    BY <1>3 DEF TestAgain, CompareExchange, ClearMutex, Await, Goes, buffers
<1>4. ASSUME NEW t \in Threads, Lock(t) \/ Unlock(t) \/ clog_cleanup(t) PROVE Places'
    BY <1>4 DEF Lock, Unlock, clog_cleanup, Goes, buffers
<1>5. ASSUME NEW t \in Threads, clog_format_time(t) \/ FormatMessage(t) \/ FormatLocation(t)
      PROVE  Places'
    BY <1>5 DEF clog_format_time, FormatMessage, FormatLocation, Format, Goes
<1>6. ASSUME NEW t \in Threads, Compose(t) \/ clog_safe_write(t) PROVE Places'
    BY <1>6 DEF Compose, clog_safe_write, Goes
<1> QED BY <1>1, <1>2, <1>3, <1>4, <1>5, <1>6, Zenon DEF Next, Step

LEMMA StepExits == Exits /\ [Next]_vars => Exits'
<1> SUFFICES ASSUME Exits, [Next]_vars PROVE Exits'
    OBVIOUS
<1>1. CASE UNCHANGED vars
    BY <1>1 DEF vars, Exits
<1>2. ASSUME NEW t \in Threads,
             \/ Log(t) \/ Enter(t) \/ TestAgain(t) \/ CompareExchange(t) \/ ClearMutex(t)
             \/ Await(t) \/ Lock(t) \/ Unlock(t) \/ clog_cleanup(t)
      PROVE  Exits'
    BY <1>2, OutsideSteps, Sizes DEF Exits
<1>3. ASSUME NEW t \in Threads,
             \/ clog_format_time(t) \/ FormatMessage(t) \/ FormatLocation(t)
             \/ Compose(t) \/ clog_safe_write(t)
      PROVE  Exits'
    BY <1>3 DEF clog_format_time, FormatMessage, FormatLocation, Format, Compose,
                clog_safe_write, Goes, Exits
<1> QED BY <1>1, <1>2, <1>3, Zenon DEF Next, Step

LEMMA TypesAlways == Spec => []Types
<1>1. Types /\ [Next]_vars => Types'
    BY StepFlags, StepLines, StepPlaces, StepExits DEF Types
<1> QED BY <1>1, InitTypes, PTL DEF Spec

(* The type invariant: clog.h's state, and what its static buffers may hold. *)
THEOREM TypeCorrect == Spec => []TypeOK
<1>1. Types => TypeOK
    BY Zenon DEF Types, Flags, Lines, Places, Exits, TypeOK
<1> QED BY <1>1, TypesAlways, PTL

(* A line never goes past the end of final_buf, whatever the message
   (clog.h:597-638 never compares the sum with the size). *)
THEOREM LinesFit == Spec => []WriteInBounds
<1>1. Types => WriteInBounds
    BY Zenon DEF Types, Lines, WriteInBounds
<1> QED BY <1>1, TypesAlways, PTL

-----------------------------------------------------------------------------
(* Lines are whole.  As long as the lock was never cleared under a thread, whoever
   is inside holds it and is alone, and what it has done so far is undisturbed. *)

Alone ==
    \A t \in Threads : pc[t] \in Inside =>
        clog_mutex /\ \A u \in Threads : pc[u] \in Inside => u = t

Done ==
    \A t \in Threads :
        /\ pc[t] \in {"message", "location", "compose", "write", "unlock"} => buffer["time"] = t
        /\ pc[t] \in {"location", "compose", "write", "unlock"} => buffer["message"] = t
        /\ pc[t] \in {"compose", "write", "unlock"} => buffer["location"] = t
        /\ pc[t] \in {"write", "unlock"} => \A p \in Parts : final_buf[p] = t

Whole == \A p \in Parts : line.parts[p] = line.by

Kept == Alone /\ Done /\ Whole

LEMMA InitKept == Init => Kept
BY DEF Init, Kept, Alone, Done, Whole, Inside

(* What clears the lock says so. *)
LEMMA StaysCleared == Flags /\ clearedInUse /\ [Next]_vars => clearedInUse'
<1> SUFFICES ASSUME Flags, clearedInUse, [Next]_vars PROVE clearedInUse'
    OBVIOUS
<1>1. CASE UNCHANGED vars
    BY <1>1, Zenon DEF vars, history
<1>2. ASSUME NEW t \in Threads, Log(t) \/ Enter(t) PROVE clearedInUse'
    BY <1>2, Zenon DEF Log, Enter, CallInit, history
<1>3. ASSUME NEW t \in Threads, Step(t) PROVE clearedInUse'
    BY <1>3, <1>2, Zenon DEF Step, TestAgain, CompareExchange, ClearMutex, Await, clog_format_time,
        FormatMessage, FormatLocation, Format, Compose, clog_safe_write, Unlock, history
<1>4. ASSUME NEW t \in Threads, Lock(t) \/ clog_cleanup(t) PROVE clearedInUse'
    BY <1>4, Zenon DEF Lock, clog_cleanup, history
<1> QED BY <1>1, <1>2, <1>3, <1>4, Zenon DEF Next

(* A step of a thread outside the critical section that stays there, of which only
   ClearMutex writes the lock: nobody is inside then. *)
LEMMA OutsideKeeps ==
    ASSUME Places, Flags, Kept, ~clearedInUse', NEW t \in Threads,
           \/ Log(t) \/ Enter(t) \/ TestAgain(t) \/ CompareExchange(t) \/ ClearMutex(t)
           \/ Await(t) \/ clog_cleanup(t)
    PROVE  Kept'
<1>1. /\ pc[t] \notin Inside
      /\ \E l \in Labels \ Inside : pc' = [pc EXCEPT ![t] = l]
      /\ UNCHANGED <<buffer, final_buf, line>>
    <2>1. CASE Log(t) \/ Enter(t)
        BY <2>1 DEF Log, Enter, CallInit, Goes, buffers, Labels, Inside
    <2>2. CASE TestAgain(t) \/ ClearMutex(t) \/ Await(t)
        <3>1. back[t] \in Labels \ Inside
            BY DEF Places, Labels, Inside
        <3> QED BY <2>2, <3>1 DEF TestAgain, ClearMutex, Await, Goes, buffers, Labels, Inside
    <2>3. CASE CompareExchange(t) \/ clog_cleanup(t)
        BY <2>3 DEF CompareExchange, clog_cleanup, Goes, buffers, Labels, Inside
    <2> QED BY <2>1, <2>2, <2>3
<1>2. clog_mutex => clog_mutex'
    <2>1. CASE ClearMutex(t)
        BY <2>1, Zenon DEF ClearMutex, Flags
    <2>2. CASE ~ClearMutex(t)
        BY <2>2, Zenon DEF Log, Enter, CallInit, TestAgain, CompareExchange, Await, clog_cleanup
    <2> QED BY <2>1, <2>2
<1>3. \A u \in Threads : pc'[u] \in Inside \/ pc'[u] \in {"message", "location", "compose", "write", "unlock"}
                           => u # t /\ pc'[u] = pc[u]
    BY <1>1 DEF Places, Labels, Inside
<1>4. Alone'
    BY <1>2, <1>3, Zenon DEF Kept, Alone
<1>5. Done'
    BY <1>1, <1>3 DEF Kept, Done
<1>6. Whole'
    BY <1>1, Zenon DEF Kept, Whole
<1> QED BY <1>4, <1>5, <1>6 DEF Kept

LEMMA LockKeeps ==
    ASSUME Places, Kept, NEW t \in Threads, Lock(t)
    PROVE  Kept'
<1>1. \A u \in Threads : pc[u] \notin Inside
    BY Zenon DEF Kept, Alone, Lock
<1>2. /\ clog_mutex' = TRUE
      /\ pc' = [pc EXCEPT ![t] = "time"] /\ UNCHANGED <<buffer, final_buf, line>>
    BY DEF Lock, Goes, buffers
<1>3. \A u \in Threads : pc'[u] \in Inside => u = t /\ pc'[u] = "time"
    BY <1>1, <1>2 DEF Places
<1>4. Alone'
    BY <1>2, <1>3, Zenon DEF Alone
<1>5. Done'
    BY <1>3 DEF Done, Inside
<1>6. Whole'
    BY <1>2, Zenon DEF Kept, Whole
<1> QED BY <1>4, <1>5, <1>6 DEF Kept

LEMMA UnlockKeeps ==
    ASSUME Places, Kept, NEW t \in Threads, Unlock(t)
    PROVE  Kept'
<1>1. \A u \in Threads : pc[u] \in Inside => u = t
    BY DEF Kept, Alone, Unlock, Goes, Inside
<1>2. pc' = [pc EXCEPT ![t] = "idle"] /\ UNCHANGED <<buffer, final_buf, line>>
    BY DEF Unlock, Goes, buffers
<1>3. \A u \in Threads : pc'[u] \notin Inside
    BY <1>1, <1>2 DEF Places, Inside
<1>4. Alone'
    BY <1>3, Zenon DEF Alone
<1>5. Done'
    BY <1>3 DEF Done, Inside
<1>6. Whole'
    BY <1>2, Zenon DEF Kept, Whole
<1> QED BY <1>4, <1>5, <1>6 DEF Kept

(* A step inside the critical section. *)
LEMMA InsideKeeps ==
    ASSUME Places, Kept, NEW t \in Threads,
           \/ clog_format_time(t) \/ FormatMessage(t) \/ FormatLocation(t)
           \/ Compose(t) \/ clog_safe_write(t)
    PROVE  Kept'
<1>1. /\ pc[t] \in Inside /\ clog_mutex' = clog_mutex
      /\ \E l \in Inside : pc' = [pc EXCEPT ![t] = l]
    BY DEF clog_format_time, FormatMessage, FormatLocation, Format, Compose, clog_safe_write,
           Goes, Inside
<1>2. \A u \in Threads : u # t => pc[u] \notin Inside
    BY <1>1, Zenon DEF Kept, Alone
<1>3. \A u \in Threads : u # t => pc'[u] \notin Inside
    BY <1>1, <1>2 DEF Places
<1>4. Alone'
    BY <1>1, <1>3, Zenon DEF Kept, Alone
<1>5. Done'
    <2>1. SUFFICES
              /\ pc'[t] \in {"message", "location", "compose", "write", "unlock"}
                   => buffer'["time"] = t
              /\ pc'[t] \in {"location", "compose", "write", "unlock"}
                   => buffer'["message"] = t
              /\ pc'[t] \in {"compose", "write", "unlock"} => buffer'["location"] = t
              /\ pc'[t] \in {"write", "unlock"} => \A p \in Parts : final_buf'[p] = t
        BY <1>3 DEF Done, Inside
    <2>2. CASE clog_format_time(t)
        BY <2>2 DEF clog_format_time, Format, Goes, Places, Parts
    <2>3. CASE FormatMessage(t)
        BY <2>3 DEF FormatMessage, Format, Goes, Places, Parts, Kept, Done
    <2>4. CASE FormatLocation(t)
        BY <2>4 DEF FormatLocation, Format, Goes, Places, Parts, Kept, Done
    <2>5. CASE Compose(t)
        BY <2>5 DEF Compose, Goes, Places, Parts, Kept, Done
    <2>6. CASE clog_safe_write(t)
        BY <2>6 DEF clog_safe_write, Goes, Places, Parts, Kept, Done
    <2> QED BY <2>2, <2>3, <2>4, <2>5, <2>6
<1>6. Whole'
    <2>1. CASE clog_safe_write(t)
        BY <2>1 DEF clog_safe_write, Goes, Kept, Done, Whole
    <2>2. CASE ~clog_safe_write(t)
        <3>1. line' = line
            BY <2>2 DEF clog_format_time, FormatMessage, FormatLocation, Format, Compose
        <3> QED BY <3>1, Zenon DEF Kept, Whole
    <2> QED BY <2>1, <2>2
<1> QED BY <1>4, <1>5, <1>6 DEF Kept

LEMMA StepKept ==
    ASSUME Flags, Places, Kept, [Next]_vars, ~clearedInUse'
    PROVE  Kept'
<1>1. CASE UNCHANGED vars
    BY <1>1 DEF vars, buffers, Kept, Alone, Done, Whole
<1> QED BY <1>1, OutsideKeeps, LockKeeps, UnlockKeeps, InsideKeeps, Zenon DEF Next, Step

(* Every line is of one piece, unless the lock was cleared while it was taken. *)
THEOREM LinesAreWhole == Spec => []LinesWhole
<1> DEFINE Inv == clearedInUse \/ Kept
<1>1. Init => Inv
    BY InitKept
<1>2. Types /\ Inv /\ [Next]_vars => Inv'
    <2> SUFFICES ASSUME Types, Inv, [Next]_vars PROVE Inv'
        OBVIOUS
    <2>1. CASE clearedInUse
        BY <2>1, StaysCleared, Zenon DEF Types
    <2>2. CASE clearedInUse'
        BY <2>2
    <2>3. CASE ~clearedInUse /\ ~clearedInUse'
        BY <2>3, StepKept, Zenon DEF Types
    <2> QED BY <2>1, <2>2, <2>3, Zenon
<1>3. Inv => LinesWhole
    BY Zenon DEF Kept, Whole, LinesWhole
<1> QED BY <1>1, <1>2, <1>3, TypesAlways, PTL DEF Spec
=============================================================================
