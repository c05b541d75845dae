-------------------------------- MODULE Logger --------------------------------
(***************************************************************************)
(* The logger (clog.h) as one source file of the plugin has it: its state  *)
(* is static, so every file has a copy of its own, which is set up by the  *)
(* file's first line and cleaned up by exit, while the other threads run   *)
(* on.  A spinlock guards static buffers in which a line is put together.  *)
(*                                                                         *)
(* Lines and parts of lines are known by the thread they come from, and by *)
(* their lengths.  The colours stay as they are: nobody sets another mode. *)
(***************************************************************************)
EXTENDS Integers

CONSTANTS
    Threads,                    \* those that log in this source file
    Nobody,
    CLOG_MAX_MESSAGE_SIZE,      \* 1024 in the code
    CLOG_MAX_TIME_SIZE,         \* 32
    CLOG_MAX_LOCATION_SIZE,     \* 256
    Lengths,                    \* what messages and locations may be long
    MaxExits                    \* bound on the threads that call exit

(* A date has 19 characters. *)
ASSUME LoggerAssumption ==
    /\ Nobody \notin Threads
    /\ CLOG_MAX_MESSAGE_SIZE \in Nat \ {0}
    /\ CLOG_MAX_LOCATION_SIZE \in Nat \ {0}
    /\ CLOG_MAX_TIME_SIZE \in Nat /\ CLOG_MAX_TIME_SIZE > 19
    /\ Lengths \subseteq Nat
    /\ MaxExits \in Nat

Parts == {"time", "message", "location"}

VARIABLES
    clog_is_initialized,
    clog_mutex,             \* TRUE: taken
    buffer,                 \* of each part, who wrote it
    length,                 \* of each part, how long it is
    final_buf,              \* the line: of each of its parts, whom it is from
    len,                    \* how long the line is
    line,                   \* the line written last, and by whom
    use_ansi,               \* whether the output is a terminal
    pc,                     \* where each thread is
    back,                   \* where clog_init was called, as what comes after it
    registered,             \* exit will call clog_cleanup
    exits,                  \* how many threads have called exit
    clearedInUse            \* history: clog_init has cleared a lock that was taken

buffers == <<buffer, length, final_buf, len, line, use_ansi>>
history == <<registered, clearedInUse>>
vars == <<clog_is_initialized, clog_mutex, buffers, pc, back, exits, history>>

(* The labels within the critical section. *)
Inside == {"time", "message", "location", "compose", "write", "unlock"}

Labels == {"idle", "init", "cas", "clear", "await", "enter", "lock", "gone"} \cup Inside

(* What can be in final_buf: its declared size. *)
FinalSize ==
    CLOG_MAX_MESSAGE_SIZE + CLOG_MAX_TIME_SIZE + CLOG_MAX_LOCATION_SIZE + 256

TypeOK ==
    /\ clog_is_initialized \in BOOLEAN /\ clog_mutex \in BOOLEAN
    /\ buffer \in [Parts -> Threads \cup {Nobody}]
    /\ length["time"] \in 0..CLOG_MAX_TIME_SIZE - 1
    /\ length["message"] \in 0..CLOG_MAX_MESSAGE_SIZE - 1
    /\ length["location"] \in 0..CLOG_MAX_LOCATION_SIZE - 1
    /\ length \in [Parts -> Nat]
    /\ final_buf \in [Parts -> Threads \cup {Nobody}]
    /\ len \in Nat
    /\ line \in [by : Threads \cup {Nobody}, parts : [Parts -> Threads \cup {Nobody}]]
    /\ use_ansi \in BOOLEAN
    /\ pc \in [Threads -> Labels]
    /\ back \in [Threads -> {"enter", "lock"}]
    /\ registered \in BOOLEAN
    /\ exits \in 0..MaxExits
    /\ clearedInUse \in BOOLEAN

Init ==
    /\ clog_is_initialized = FALSE
    /\ clog_mutex = FALSE
    /\ buffer = [p \in Parts |-> Nobody]
    /\ length = [p \in Parts |-> 0]
    /\ final_buf = [p \in Parts |-> Nobody]
    /\ len = 0
    /\ line = [by |-> Nobody, parts |-> [p \in Parts |-> Nobody]]
    /\ use_ansi \in BOOLEAN
    /\ pc = [t \in Threads |-> "idle"]
    /\ back = [t \in Threads |-> "enter"]
    /\ registered = FALSE
    /\ exits = 0
    /\ clearedInUse = FALSE

(* Thread t goes on. *)
Goes(t, from, to) ==
    /\ pc[t] = from
    /\ pc' = [pc EXCEPT ![t] = to]
    /\ UNCHANGED <<exits, use_ansi>>

(* Thread t tests the flag, and calls clog_init if it is not set. *)
CallInit(t, from, to) ==
    /\ Goes(t, from, IF clog_is_initialized THEN to ELSE "init")
    /\ back' = [back EXCEPT ![t] = to]
    /\ UNCHANGED <<clog_is_initialized, clog_mutex, buffers, history>>

-----------------------------------------------------------------------------
(* clog_log; a line below clog_min_level ends here and changes nothing. *)
Log(t) == CallInit(t, "idle", "enter")

(* clog_init: tested once more, then exchanged by one thread only. *)
TestAgain(t) ==
    /\ Goes(t, "init", IF clog_is_initialized THEN back[t] ELSE "cas")
    /\ UNCHANGED <<clog_is_initialized, clog_mutex, buffers, back, history>>

CompareExchange(t) ==
    /\ Goes(t, "cas", IF clog_is_initialized THEN "await" ELSE "clear")
    /\ clog_is_initialized' = TRUE
    /\ UNCHANGED <<clog_mutex, buffers, back, history>>

(* The lock is set up, although the flag has already told the others that it is. *)
ClearMutex(t) ==
    /\ Goes(t, "clear", back[t])
    /\ clog_mutex' = FALSE
    /\ registered' = TRUE
    /\ clearedInUse' = (clearedInUse \/ clog_mutex)
    /\ UNCHANGED <<clog_is_initialized, buffers, back>>

Await(t) ==
    /\ clog_is_initialized
    /\ Goes(t, "await", back[t])
    /\ UNCHANGED <<clog_is_initialized, clog_mutex, buffers, back, history>>

-----------------------------------------------------------------------------
(* clog_log_impl. *)
Enter(t) == CallInit(t, "enter", "lock")

(* Mutant: the flag is set, but it is not looked at. *)
SetOnly(t) ==
    /\ clog_mutex' = TRUE
    /\ Goes(t, "lock", "time")
    /\ UNCHANGED <<clog_is_initialized, buffers, back, history>>

Lock(t) ==
    /\ ~clog_mutex
    /\ clog_mutex' = TRUE
    /\ Goes(t, "lock", "time")
    /\ UNCHANGED <<clog_is_initialized, buffers, back, history>>

(* Mutant: snprintf's result, which is not cut, is taken for the length. *)
Uncut(n, size) == n

(* snprintf into a buffer of this size. *)
Cut(n, size) == IF n < size THEN n ELSE size - 1

(* One part is formatted into its static buffer. *)
Format(t, part, size, n, next) ==
    /\ Goes(t, part, next)
    /\ buffer' = [buffer EXCEPT ![part] = t]
    /\ length' = [length EXCEPT ![part] = Cut(n, size)]
    /\ UNCHANGED <<clog_is_initialized, clog_mutex, final_buf, len, line, back, history>>

clog_format_time(t) == Format(t, "time", CLOG_MAX_TIME_SIZE, 19, "message")
FormatMessage(t) ==
    \E n \in Lengths : Format(t, "message", CLOG_MAX_MESSAGE_SIZE, n, "location")
FormatLocation(t) ==
    \E n \in Lengths : Format(t, "location", CLOG_MAX_LOCATION_SIZE, n, "compose")

(* Lengths of the escape sequences of a coloured line: bold around the date; the
   level's colour, of one sequence or two, and its name; dim around the location. *)
DateColours == 9
LevelColours == {9, 13}
LocationColours == 8
LevelNames == {4, 5}

LineLength(date, message, location, colour, name) ==
    LET coloured(n) == IF use_ansi THEN n ELSE 0
    IN  coloured(DateColours) + date + 1
        + coloured(colour) + name + 3
        + message
        + (IF location = 0 THEN 0 ELSE coloured(LocationColours) + location + 1)
        + 1

(* The parts are copied into the line. *)
Compose(t) ==
    /\ Goes(t, "compose", "write")
    /\ final_buf' = buffer
    /\ \E colour \in LevelColours, name \in LevelNames :
          len' = LineLength(length["time"], length["message"], length["location"],
                            colour, name)
    /\ UNCHANGED <<clog_is_initialized, clog_mutex, buffer, length, line, back, history>>

clog_safe_write(t) ==
    /\ Goes(t, "write", "unlock")
    /\ line' = [by |-> t, parts |-> final_buf]
    /\ UNCHANGED <<clog_is_initialized, clog_mutex, buffer, length, final_buf, len,
                   back, history>>

(* Mutant: the lock is left taken. *)
UnlockNot(t) ==
    /\ Goes(t, "unlock", "idle")
    /\ UNCHANGED <<clog_is_initialized, clog_mutex, buffers, back, history>>

Unlock(t) ==
    /\ Goes(t, "unlock", "idle")
    /\ clog_mutex' = FALSE
    /\ UNCHANGED <<clog_is_initialized, buffers, back, history>>

-----------------------------------------------------------------------------
(* exit, called by a thread between two lines; the others run on until it is
   through.  clog_cleanup gives the flag back, not the lock. *)
clog_cleanup(t) ==
    /\ exits < MaxExits
    /\ pc[t] = "idle"
    /\ pc' = [pc EXCEPT ![t] = "gone"]
    /\ exits' = exits + 1
    /\ clog_is_initialized' = (clog_is_initialized /\ ~registered)
    /\ UNCHANGED <<clog_mutex, buffers, back, history>>

Step(t) ==
    \/ TestAgain(t) \/ CompareExchange(t) \/ ClearMutex(t) \/ Await(t) \/ Enter(t)
    \/ clog_format_time(t) \/ FormatMessage(t) \/ FormatLocation(t)
    \/ Compose(t) \/ clog_safe_write(t) \/ Unlock(t)

Next == \E t \in Threads : Log(t) \/ Step(t) \/ Lock(t) \/ clog_cleanup(t)

Spec == Init /\ [][Next]_vars

(* A thread that logs gets on; one that spins finds the lock free in the end, since
   no thread logs without a pause. *)
FairSpec ==
    Spec /\ \A t \in Threads : WF_vars(Step(t)) /\ SF_vars(Lock(t))

-----------------------------------------------------------------------------
(* Every line is of one piece, although its parts stand in static buffers, unless
   clog_init has cleared the lock while a thread held it: its flag goes before the
   lock, and comes back by exit (clog.h:236-237, 261). *)
LinesWhole == clearedInUse \/ \A p \in Parts : line.parts[p] = line.by

(* No more of final_buf is written than there is of it, although the sum of what
   snprintf returns is never tested (clog.h:597-638). *)
WriteInBounds == len < FinalSize

(* Whoever begins a line ends it: the lock comes free, whoever has set it up or
   cleared it meanwhile; only a thread that waits in clog_init for another's set-up
   may wait for good, if exit takes the flag back (clog.h:70-72, 243-245, 261). *)
LinesEnd ==
    \A t \in Threads :
        pc[t] \in Labels \ {"idle", "gone"}
            ~> pc[t] = "idle" \/ (pc[t] = "await" /\ exits > 0)
=============================================================================
