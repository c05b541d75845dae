------------------------------ MODULE PluginLife ------------------------------
(***************************************************************************)
(* The plugin from load to unload (plugin.c, settings.c, server.c): the    *)
(* callbacks that TeamSpeak's main thread makes one after the other, and   *)
(* the pair of threads that every established connection starts.           *)
(*                                                                         *)
(* The threads use the semaphores, the socket and the ring that the        *)
(* callbacks set up, without waiting for the set-up and without being      *)
(* waited for.  What they do to the ring is in PlaybackRing; here the ring *)
(* is left out, its tests come out either way, and the sections that the   *)
(* semaphores protect are followed.                                        *)
(*                                                                         *)
(* External: TeamSpeak calls callbacks one at a time and unmaps the plugin *)
(* after ts3plugin_shutdown; a UDP port has one socket of a process at     *)
(* most; a cancelled thread ends at its next cancellation point.           *)
(***************************************************************************)
EXTENDS Integers, FiniteSets

CONSTANTS
    MaxPairs,       \* bound on the pairs of threads started in one behaviour
    MaxLoads,       \* bound on how often the plugin is loaded
    Environments,   \* the environments TeamSpeak may run in
    Files,          \* the contents settings.ini may have
    Defaults,       \* the values load_settings falls back on
    NotSet          \* an option that the environment or a file leaves out

Pairs == 1..MaxPairs
Threads == {"play", "acquire"} \X Pairs
Semaphores == {"c_pb_sem", "noise_sem"}
Options == {"ts_audio_port", "noise_cancelnoise"}

ASSUME LifeAssumption ==
    /\ MaxPairs \in Nat /\ MaxLoads \in Nat
    /\ DOMAIN Defaults = Options /\ \A o \in Options : Defaults[o] # NotSet
    /\ \A options \in Environments \cup Files : DOMAIN options = Options

Ports == {options["ts_audio_port"] :
            options \in Environments \cup Files \cup {Defaults}} \ {NotSet}

VARIABLES
    process,            \* TeamSpeak: "up", "exited", "crashed"
    environment,        \* its environment variables
    plugin,             \* "out", "in", or "down" (shut down, still mapped)
    loads,              \* how often it was loaded
    main,               \* where the main thread is
    settings,           \* the value of every option
    sem,                \* the values of the semaphores
    recording_noise,
    socket_desc,        \* the socket of this pair; 0 is the standard input
    port,               \* the port each pair's socket is bound to, for ever
    pairs,              \* number of pairs started so far
    t1, t2,             \* the pair that each handle refers to, 0 if none
    pc,                 \* where each thread is
    mybuffer,           \* whether each acquire thread ever received a datagram
    cancelled,          \* threads that pthread_cancel was called for
    resetInUse          \* history: a semaphore was initialised while it was held

mainVars == <<plugin, loads, main, settings>>
socketVars == <<socket_desc, port>>
pairVars == <<pairs, t1, t2, cancelled>>
vars == <<process, environment, mainVars, sem, recording_noise, socketVars,
          pairVars, pc, mybuffer, resetInUse>>

(* Where a thread is between two of its steps.  Those named last are inside of a
   section.  A section with nothing to do in it is one step. *)
PlayLabels == {"none", "start", "bind", "loop", "chunk", "gone"}
AcquireLabels == {"none", "rename", "receive", "branch", "room", "store", "publish",
                  "gone", "roomHeld", "publishHeld", "storeHeld"}
MainLabels == {"idle", "query", "playback", "initRing", "initNoise", "createPlay",
               "createAcquire", "flag", "count", "countHeld"}

PlaybackHolders ==
    {t \in Threads : pc[t] \in {"chunk", "roomHeld", "publishHeld"}}
NoiseHolders ==
    {t \in Threads : pc[t] = "storeHeld"}
    \cup {<<"main", 0>> : held \in {main} \cap {"countHeld"}}

Alive == {t \in Threads : pc[t] \notin {"none", "gone"}}

TypeOK ==
    /\ process \in {"up", "exited", "crashed"}
    /\ environment \in Environments
    /\ plugin \in {"out", "in", "down"}
    /\ loads \in 0..MaxLoads
    /\ main \in MainLabels
    /\ DOMAIN settings = Options
    /\ settings["ts_audio_port"] \in Ports
    /\ sem \in [Semaphores -> Nat]
    /\ recording_noise \in {0, 1}
    /\ socket_desc \in 0..MaxPairs
    /\ port \in [Pairs -> Ports \cup {NotSet}]
    /\ pairs \in 0..MaxPairs
    /\ t1 \in 0..pairs /\ t2 \in 0..pairs
    /\ pc \in [Threads -> PlayLabels \cup AcquireLabels]
    /\ \A p \in Pairs : /\ pc[<<"play", p>>] \in PlayLabels
                        /\ pc[<<"acquire", p>>] \in AcquireLabels
    /\ mybuffer \in [Pairs -> BOOLEAN]
    /\ cancelled \subseteq Threads
    /\ resetInUse \in BOOLEAN

Init ==
    /\ process = "up"
    /\ environment \in Environments
    /\ plugin = "out" /\ loads = 0 /\ main = "idle"
    /\ settings = Defaults
    /\ sem = [s \in Semaphores |-> 0]
    /\ recording_noise = 0
    /\ socket_desc = 0
    /\ port = [p \in Pairs |-> NotSet]
    /\ pairs = 0 /\ t1 = 0 /\ t2 = 0
    /\ pc = [t \in Threads |-> "none"]
    /\ mybuffer = [p \in Pairs |-> FALSE]
    /\ cancelled = {}
    /\ resetInUse = FALSE

-----------------------------------------------------------------------------
(* Callbacks.  The main thread is idle between them. *)

ExitProcess ==
    /\ process' = "exited"
    /\ UNCHANGED <<environment, mainVars, sem, recording_noise, socketVars,
                   pairVars, pc, mybuffer, resetInUse>>

(* load_settings: the user's file, or else a second path, which names a directory:
   according to iniparser that is an empty file or none (then the plugin ends
   TeamSpeak).  The environment comes before the file, the file before the
   default. *)
Preferred(option, file) ==
    IF environment[option] # NotSet THEN environment[option]
    ELSE IF file[option] # NotSet THEN file[option]
    ELSE Defaults[option]

EmptyFile == [o \in Options |-> NotSet]

load_settings ==
    \E file \in Files \cup {EmptyFile} :
        settings' = [o \in Options |-> Preferred(o, file)]

(* ts3plugin_init, in a fresh copy of the plugin's variables.  Without settings or
   without its playback device the plugin ends the process. *)
ts3plugin_init ==
    /\ plugin = "out" /\ main = "idle" /\ loads < MaxLoads
    /\ \/ ExitProcess
       \/ /\ load_settings
          /\ plugin' = "in"
          /\ loads' = loads + 1
          /\ sem' = [s \in Semaphores |-> 0]
          /\ recording_noise' = 0
          /\ socket_desc' = 0
          /\ t1' = 0 /\ t2' = 0
          /\ resetInUse' = FALSE
          /\ UNCHANGED <<process, environment, main, port, pairs, pc, mybuffer,
                         cancelled>>

(* The main thread goes on, and nothing else happens. *)
MainGoes(from, to) ==
    /\ main = from
    /\ main' = to
    /\ UNCHANGED <<process, environment, plugin, loads, settings, sem,
                   recording_noise, socketVars, pairVars, pc, mybuffer, resetInUse>>

(* A connection is established; any of the queries that follow may fail, which
   leaves the plugin as it is, without threads if it has none yet. *)
ConnectionEstablished ==
    /\ plugin = "in" /\ pairs < MaxPairs
    /\ MainGoes("idle", "query")

QueriesEnd == \E next \in {"playback", "idle"} : MainGoes("query", next)

(* Both devices open, or the plugin ends the process. *)
OpenDevices ==
    \/ MainGoes("playback", "initRing")
    \/ main = "playback" /\ ExitProcess

(* sem_init, whoever uses the semaphore at the moment. *)
Initialise(s, holders, from, to) ==
    /\ main = from
    /\ main' = to
    /\ sem' = [sem EXCEPT ![s] = 1]
    /\ resetInUse' = (resetInUse \/ holders # {})
    /\ UNCHANGED <<process, environment, plugin, loads, settings, recording_noise,
                   socketVars, pairVars, pc, mybuffer>>

InitRingSemaphore ==
    Initialise("c_pb_sem", PlaybackHolders, "initRing", "initNoise")
InitNoiseSemaphore ==
    Initialise("noise_sem", NoiseHolders, "initNoise", "createPlay")

(* pthread_create: the handle of the pair before is overwritten. *)
CreatePlay ==
    /\ main = "createPlay"
    /\ main' = "createAcquire"
    /\ pairs' = pairs + 1
    /\ t1' = pairs + 1
    /\ pc' = [pc EXCEPT ![<<"play", pairs + 1>>] = "start"]
    /\ UNCHANGED <<process, environment, plugin, loads, settings, sem,
                   recording_noise, socketVars, t2, mybuffer, cancelled, resetInUse>>

(* And at_init, which only stores the board's address. *)
CreateAcquire ==
    /\ main = "createAcquire"
    /\ main' = "idle"
    /\ t2' = pairs
    /\ pc' = [pc EXCEPT ![<<"acquire", pairs>>] = "rename"]
    /\ UNCHANGED <<process, environment, plugin, loads, settings, sem,
                   recording_noise, socketVars, pairs, t1, mybuffer, cancelled,
                   resetInUse>>

-----------------------------------------------------------------------------
(* record_noise, called for a chat command, after the board has answered. *)

RecordNoise == plugin = "in" /\ MainGoes("idle", "flag")

SetRecording ==
    /\ main = "flag" /\ sem["noise_sem"] > 0
    /\ recording_noise' = 1
    /\ main' = "count"
    /\ UNCHANGED <<process, environment, plugin, loads, settings, sem, socketVars,
                   pairVars, pc, mybuffer, resetInUse>>

(* recorded_noise_samples is never counted (plugin.c:306-326 is disabled), so the
   loop finds too few of them for ever. *)
CountSamples ==
    /\ \/ /\ main = "count" /\ sem["noise_sem"] > 0
          /\ main' = "countHeld"
          /\ sem' = [sem EXCEPT !["noise_sem"] = @ - 1]
       \/ /\ main = "countHeld"
          /\ main' = "count"
          /\ sem' = [sem EXCEPT !["noise_sem"] = @ + 1]
    /\ UNCHANGED <<process, environment, plugin, loads, settings, recording_noise,
                   socketVars, pairVars, pc, mybuffer, resetInUse>>

-----------------------------------------------------------------------------
(* Unloading. *)

CrashProcess ==
    /\ process' = "crashed"
    /\ UNCHANGED <<environment, mainVars, sem, recording_noise, socketVars,
                   pairVars, pc, mybuffer, resetInUse>>

(* Mutant: only the handle that was set last is cancelled. *)
CancelReceiverOnly == {<<"acquire", t2>>}

ToCancel == {<<"play", t1>>, <<"acquire", t2>>}

(* The last pair is cancelled, and nobody waits for it; the socket stays.  A
   handle that was never set is 0, which pthread_cancel may or may not survive. *)
ts3plugin_shutdown ==
    /\ plugin = "in" /\ main = "idle"
    /\ \/ /\ plugin' = "down"
          /\ cancelled' = cancelled \cup (ToCancel \cap Threads)
          /\ UNCHANGED <<process, environment, loads, main, settings, sem,
                         recording_noise, socketVars, pairs, t1, t2, pc, mybuffer,
                         resetInUse>>
       \/ t1 = 0 /\ CrashProcess

(* TeamSpeak unmaps the plugin.  A thread that has not ended has no code to run
   any more. *)
Unload ==
    /\ plugin = "down"
    /\ \/ Alive # {} /\ CrashProcess
       \/ /\ Alive = {}
          /\ plugin' = "out"
          /\ UNCHANGED <<process, environment, loads, main, settings, sem,
                         recording_noise, socketVars, pairVars, pc, mybuffer,
                         resetInUse>>

-----------------------------------------------------------------------------
(* Threads.  sem_wait, recvfrom and usleep are cancellation points: there a
   cancelled thread ends, and never while it holds a semaphore. *)

(* Thread t goes on to one of next, and nothing else happens. *)
Goes(t, from, next) ==
    /\ pc[t] = from
    /\ \E to \in next : pc' = [pc EXCEPT ![t] = to]
    /\ UNCHANGED <<process, environment, mainVars, recording_noise, pairVars,
                   resetInUse>>

(* Mutant: the outcome of sem_trywait is ignored. *)
WaitsNot(t, s, from, to) ==
    /\ t \notin cancelled
    /\ Goes(t, from, {to})
    /\ sem' = [sem EXCEPT ![s] = @ - 1]
    /\ UNCHANGED <<socketVars, mybuffer>>

Waits(t, s, from, to) ==
    /\ t \notin cancelled /\ sem[s] > 0
    /\ Goes(t, from, {to})
    /\ sem' = [sem EXCEPT ![s] = @ - 1]
    /\ UNCHANGED <<socketVars, mybuffer>>

Posts(t, s, from, next) ==
    /\ Goes(t, from, next)
    /\ sem' = [sem EXCEPT ![s] = @ + 1]
    /\ UNCHANGED <<socketVars, mybuffer>>

(* main_loop_play *)

(* start_udp_socket, up to socket: the variable is shared by all pairs. *)
OpenSocket(p) ==
    /\ Goes(<<"play", p>>, "start", {"bind"})
    /\ socket_desc' = p
    /\ UNCHANGED <<sem, port, mybuffer>>

Taken == \E q \in Pairs : port[q] = settings["ts_audio_port"]

(* Mutants: the failure ends the thread only; the port is shared. *)
BindOrReturn(p) ==
    /\ UNCHANGED <<sem, socket_desc, mybuffer>>
    /\ \/ Goes(<<"play", p>>, "bind", {"gone"}) /\ UNCHANGED port
       \/ /\ ~Taken
          /\ Goes(<<"play", p>>, "bind", {"loop"})
          /\ port' = [port EXCEPT ![socket_desc] = settings["ts_audio_port"]]
BindShared(p) ==
    /\ UNCHANGED <<sem, socket_desc, mybuffer>>
    /\ Goes(<<"play", p>>, "bind", {"loop"})
    /\ port' = [port EXCEPT ![socket_desc] = settings["ts_audio_port"]]

(* The rest of it.  A port that is taken, by an earlier socket of TeamSpeak's own
   or by another program, ends the process. *)
Bind(p) ==
    \/ pc[<<"play", p>>] = "bind" /\ ExitProcess
    \/ /\ ~Taken
       /\ Goes(<<"play", p>>, "bind", {"loop"})
       /\ port' = [port EXCEPT ![socket_desc] = settings["ts_audio_port"]]
       /\ UNCHANGED <<sem, socket_desc, mybuffer>>

(* One round: pace and send (VoicePath), then play a chunk (PlaybackRing). *)
PlayRound(p) ==
    \/ Waits(<<"play", p>>, "c_pb_sem", "loop", "chunk")
    \/ Posts(<<"play", p>>, "c_pb_sem", "chunk", {"loop"})

(* main_loop_acquire *)

(* A section that leaves everything as it is: wasIrecordingBefore stays 0, so
   nothing is renamed; the branches on the recording are disabled. *)
Passes(p, s, from, to) ==
    /\ <<"acquire", p>> \notin cancelled /\ sem[s] > 0
    /\ Goes(<<"acquire", p>>, from, {to})
    /\ UNCHANGED <<sem, socketVars, mybuffer>>

RenameRecording(p) == Passes(p, "noise_sem", "rename", "receive")
NoiseBranch(p) == Passes(p, "noise_sem", "branch", "room")

(* recvfrom returns: a datagram of the socket it was called on, this pair's or an
   earlier one, or at once the error of the standard input, which is no socket.
   Nobody looks at the -1. *)
Receive(p) ==
    /\ <<"acquire", p>> \notin cancelled
    /\ Goes(<<"acquire", p>>, "receive", {"branch"})
    /\ \/ socket_desc = 0 /\ UNCHANGED mybuffer
       \/ /\ \E q \in 1..socket_desc : <<"play", q>> \in Alive /\ port[q] # NotSet
          /\ mybuffer' = [mybuffer EXCEPT ![p] = TRUE]
    /\ UNCHANGED <<sem, socketVars>>

(* Mutant: the loop is left by its condition, and both posts are made. *)
TestRoomPostingTwice(p) ==
    \/ Waits(<<"acquire", p>>, "c_pb_sem", "room", "roomHeld")
    \/ /\ Goes(<<"acquire", p>>, "roomHeld", {"room", "store"})
       /\ sem' = [sem EXCEPT !["c_pb_sem"] = @ + 2]
       /\ UNCHANGED <<socketVars, mybuffer>>

(* Asks again as long as there is no room.  A datagram may have no samples; what
   the standard input gave has 2^64 - 1. *)
TestRoom(p) ==
    \/ Waits(<<"acquire", p>>, "c_pb_sem", "room", "roomHeld")
    \/ Posts(<<"acquire", p>>, "c_pb_sem", "roomHeld", {"room", "store"})
    \/ mybuffer[p] /\ Posts(<<"acquire", p>>, "c_pb_sem", "roomHeld", {"publish"})

(* What is stored comes from the datagram, or from the denoised one.  Without a
   first datagram, as of the second always, there is no buffer to read from. *)
NoBuffer(p) ==
    \/ ~mybuffer[p]
    \/ settings["noise_cancelnoise"] # 0 /\ recording_noise = 0

StoreSample(p) ==
    \/ Waits(<<"acquire", p>>, "noise_sem", "store", "storeHeld")
    \/ pc[<<"acquire", p>>] = "storeHeld" /\ NoBuffer(p) /\ CrashProcess
    \/ /\ ~NoBuffer(p)
       /\ Posts(<<"acquire", p>>, "noise_sem", "storeHeld", {"store", "publish"})

Publish(p) ==
    \/ Waits(<<"acquire", p>>, "c_pb_sem", "publish", "publishHeld")
    \/ Posts(<<"acquire", p>>, "c_pb_sem", "publishHeld", {"rename"})

(* A cancelled thread ends where it waits, or where it logs (bind). *)
End(t) ==
    /\ t \in cancelled
    /\ \E from \in {"bind", "loop", "rename", "receive", "branch", "room",
                    "store", "publish"} : Goes(t, from, {"gone"})
    /\ UNCHANGED <<sem, socketVars, mybuffer>>

Play(p) == OpenSocket(p) \/ Bind(p) \/ PlayRound(p) \/ End(<<"play", p>>)

Acquire(p) ==
    \/ RenameRecording(p) \/ Receive(p) \/ NoiseBranch(p)
    \/ TestRoom(p) \/ StoreSample(p) \/ Publish(p) \/ End(<<"acquire", p>>)

Callback ==
    \/ QueriesEnd \/ OpenDevices \/ InitRingSemaphore \/ InitNoiseSemaphore
    \/ CreatePlay \/ CreateAcquire \/ SetRecording \/ CountSamples

TeamSpeak ==
    ts3plugin_init \/ ConnectionEstablished \/ RecordNoise \/ ts3plugin_shutdown
    \/ Unload

Next ==
    /\ process = "up"
    /\ \/ TeamSpeak \/ Callback
       \/ \E p \in Pairs : Play(p) \/ Acquire(p)

Spec == Init /\ [][Next]_vars

(* Threads that can run, run; TeamSpeak need not call anything. *)
FairSpec ==
    /\ Spec
    /\ \A p \in Pairs : /\ WF_vars(process = "up" /\ Play(p))
                        /\ WF_vars(process = "up" /\ Acquire(p))
    /\ WF_vars(process = "up" /\ Callback)

-----------------------------------------------------------------------------
Started(p) == pc[<<"play", p>>] \in {"loop", "chunk"}

(* A ring has one reader at most, however often the connection is established
   again: the socket that is never closed keeps the next play thread from its
   loop (server.c:36, plugin.c:179). *)
OnePlayer == \A p, q \in Pairs : Started(p) /\ Started(q) => p = q

(* Two threads fill the ring at once (plugin.c:584) only while one of the two play
   threads has yet to find the port taken, or is being cancelled. *)
SecondPairIsBrief ==
    \A p, q \in Pairs :
        /\ p # q
        /\ <<"acquire", p>> \in Alive /\ <<"acquire", q>> \in Alive
        => \/ \E r \in {p, q} : \/ pc[<<"play", r>>] \in {"start", "bind"}
                                \/ <<"play", r>> \in cancelled
           \/ process # "up"

(* Each semaphore admits one thread and counts it, from its sem_init on, until a
   second connection initialises one that is held (plugin.c:579-580). *)
SectionsExclusive ==
    resetInUse \/ /\ sem["c_pb_sem"] + Cardinality(PlaybackHolders) <= 1
                  /\ sem["noise_sem"] + Cardinality(NoiseHolders) <= 1

(* A port that is still bound, by this pair's predecessor or by a pair of an
   earlier load, ends TeamSpeak, unless the plugin is shut down before
   (plugin.c:178-181). *)
TakenPortEndsProcess ==
    (\E p \in Pairs : pc[<<"play", p>>] = "bind" /\ Taken)
    ~> (process # "up" \/ plugin # "in")

(* The pair that is running when the plugin is shut down ends, wherever its threads
   are: they are cancelled, and nobody is inside of a section for ever, nor waits
   where cancelling does not reach (plugin.c:386-387). *)
LastPairEnds ==
    plugin = "down"
    ~> (process # "up" \/ {<<"play", t1>>, <<"acquire", t2>>} \cap Alive = {})
=============================================================================
