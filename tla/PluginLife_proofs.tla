--------------------------- MODULE PluginLife_proofs ---------------------------
(***************************************************************************)
(* A ring has one reader at most, however often the plugin is loaded and   *)
(* the connection established, and whatever the options are.               *)
(*                                                                         *)
(* Nothing in the code says so: it follows from the port.  A play thread   *)
(* that has got to its loop has bound the port that the options name; so   *)
(* the port is taken for the next one.  This lasts because the options     *)
(* change only when the plugin is loaded, when no thread is left.          *)
(***************************************************************************)
EXTENDS PluginLife, FiniteSetTheorems, TLAPS

(* The steps, sorted by what they change. *)

EndsProcess ==
    /\ process' \in {"exited", "crashed"}
    /\ UNCHANGED <<environment, mainVars, sem, recording_noise, socketVars,
                   pairVars, pc, mybuffer, resetInUse>>

Loads ==
    /\ plugin = "out" /\ main = "idle" /\ loads < MaxLoads
    /\ load_settings
    /\ plugin' = "in"
    /\ loads' = loads + 1
    /\ sem' = [s \in Semaphores |-> 0]
    /\ recording_noise' = 0
    /\ socket_desc' = 0
    /\ t1' = 0 /\ t2' = 0
    /\ resetInUse' = FALSE
    /\ UNCHANGED <<process, environment, main, port, pairs, pc, mybuffer, cancelled>>

(* The labels of the main thread from which it goes on to create a pair. *)
Before == {"query", "playback", "initRing", "initNoise", "createPlay"}

MainGoesOn ==
    /\ plugin = "in" \/ main # "idle"
    /\ main' \in MainLabels \ {"createAcquire"}
    /\ main' \in Before => main \in Before \/ pairs < MaxPairs
    /\ sem' \in [Semaphores -> Nat]
    /\ recording_noise' \in {recording_noise, 1}
    /\ resetInUse' \in BOOLEAN
    /\ UNCHANGED <<process, environment, plugin, loads, settings, socketVars, pairVars,
                   pc, mybuffer>>

ShutsDown ==
    /\ plugin = "in" /\ main = "idle"
    /\ plugin' = "down"
    /\ cancelled' = cancelled \cup (ToCancel \cap Threads)
    /\ UNCHANGED <<process, environment, loads, main, settings, sem, recording_noise,
                   socketVars, pairs, t1, t2, pc, mybuffer, resetInUse>>

Unloads ==
    /\ plugin = "down"
    /\ Alive = {}
    /\ plugin' = "out"
    /\ UNCHANGED <<process, environment, loads, main, settings, sem, recording_noise,
                   socketVars, pairVars, pc, mybuffer, resetInUse>>

(* A step of a thread that is neither socket nor bind, and does not begin to play; only
   a thread that was cancelled ends. *)
ThreadGoes(t) ==
    /\ t \in Alive
    /\ \E l \in (IF t[1] = "play" THEN PlayLabels ELSE AcquireLabels) :
          /\ pc' = [pc EXCEPT ![t] = l]
          /\ l \notin {"none", "start", "bind"}
          /\ l \in {"loop", "chunk"} => pc[t] \in {"loop", "chunk"}
          /\ l = "gone" => t \in cancelled
    /\ sem' \in [Semaphores -> Nat]
    /\ mybuffer' \in [Pairs -> BOOLEAN]
    /\ UNCHANGED <<process, environment, mainVars, recording_noise, pairVars,
                   socketVars, resetInUse>>

Binds(p) ==
    /\ ~Taken
    /\ Goes(<<"play", p>>, "bind", {"loop"})
    /\ port' = [port EXCEPT ![socket_desc] = settings["ts_audio_port"]]
    /\ UNCHANGED <<sem, socket_desc, mybuffer>>

-----------------------------------------------------------------------------
(* Types, and what goes with them. *)

Numbers ==
    /\ loads \in 0..MaxLoads
    /\ main \in MainLabels
    /\ socket_desc \in 0..MaxPairs
    /\ pairs \in 0..MaxPairs
    /\ t1 \in 0..pairs /\ t2 \in 0..pairs
    /\ main \in Before => pairs < MaxPairs
    /\ main = "createAcquire" => pairs > 0

Labelled ==
    /\ pc \in [Threads -> PlayLabels \cup AcquireLabels]
    /\ \A p \in Pairs : /\ pc[<<"play", p>>] \in PlayLabels
                        /\ pc[<<"acquire", p>>] \in AcquireLabels

Values ==
    /\ process \in {"up", "exited", "crashed"}
    /\ environment \in Environments
    /\ plugin \in {"out", "in", "down"}
    /\ DOMAIN settings = Options
    /\ settings["ts_audio_port"] \in Ports
    /\ recording_noise \in {0, 1}
    /\ port \in [Pairs -> Ports \cup {NotSet}]

Counted == sem \in [Semaphores -> Nat]

Marks ==
    /\ mybuffer \in [Pairs -> BOOLEAN]
    /\ cancelled \subseteq Threads
    /\ resetInUse \in BOOLEAN

Types == Numbers /\ Labelled /\ Values /\ Counted /\ Marks

LEMMA TypesImplyTypeOK == Types => TypeOK
BY Zenon DEF Types, Numbers, Labelled, Values, Counted, Marks, TypeOK

LEMMA InitTypes == Init => Types
<1> SUFFICES ASSUME Init PROVE Types
    OBVIOUS
<1>1. Numbers
    BY LifeAssumption DEF Init, Numbers, Before, MainLabels, LifeAssumption
<1>2. Labelled
    BY DEF Init, Labelled, Threads, PlayLabels, AcquireLabels
<1>3. Values
    BY LifeAssumption DEF Init, Values, LifeAssumption, Ports, Options
<1>4. Counted
    BY DEF Init, Counted
<1>5. Marks
    BY DEF Init, Marks
<1> QED BY <1>1, <1>2, <1>3, <1>4, <1>5 DEF Types

-----------------------------------------------------------------------------
(* Every step is of one of these kinds. *)

LEMMA CallbackKinds ==
    ASSUME Types, TeamSpeak \/ Callback
    PROVE  EndsProcess \/ Loads \/ MainGoesOn \/ CreatePlay \/ CreateAcquire \/ ShutsDown
           \/ Unloads
<1>1. CASE ts3plugin_init
    BY <1>1, Zenon DEF ts3plugin_init, ExitProcess, EndsProcess, Loads
<1>2. CASE ConnectionEstablished
    BY <1>2 DEF ConnectionEstablished, MainGoes, MainGoesOn, MainLabels, Before, Types,
        Counted, Marks
<1>3. CASE RecordNoise \/ QueriesEnd
    BY <1>3 DEF RecordNoise, QueriesEnd, MainGoes, MainGoesOn, MainLabels, Before, Types,
        Counted, Marks
<1>4. CASE OpenDevices
    BY <1>4 DEF OpenDevices, MainGoes, MainGoesOn, MainLabels, Before, Types, Counted, Marks,
        ExitProcess, EndsProcess
<1>5. CASE InitRingSemaphore \/ InitNoiseSemaphore
    <2>1. sem' \in [Semaphores -> Nat]
        BY <1>5 DEF InitRingSemaphore, InitNoiseSemaphore, Initialise, Types, Counted
    <2>2. resetInUse' \in BOOLEAN
        BY <1>5, Zenon DEF InitRingSemaphore, InitNoiseSemaphore, Initialise, Types, Marks
    <2> QED BY <1>5, <2>1, <2>2 DEF InitRingSemaphore, InitNoiseSemaphore, Initialise,
            MainGoesOn, MainLabels, Before
<1>6. CASE SetRecording
    BY <1>6 DEF SetRecording, MainGoesOn, MainLabels, Before, Types, Counted, Marks
<1>7. CASE CountSamples
    <2>1. sem' \in [Semaphores -> Nat]
        BY <1>7 DEF CountSamples, Types, Counted, Semaphores
    <2> QED BY <1>7, <2>1 DEF CountSamples, MainGoesOn, MainLabels, Before, Types, Marks
<1>8. CASE ts3plugin_shutdown
    BY <1>8, Zenon DEF ts3plugin_shutdown, CrashProcess, EndsProcess, ShutsDown
<1>9. CASE Unload
    BY <1>9, Zenon DEF Unload, CrashProcess, EndsProcess, Unloads
<1> QED BY <1>1, <1>2, <1>3, <1>4, <1>5, <1>6, <1>7, <1>8, <1>9, Zenon DEF TeamSpeak, Callback

LEMMA PlayKinds ==
    ASSUME Types, NEW p \in Pairs, Play(p)
    PROVE  EndsProcess \/ OpenSocket(p) \/ Binds(p) \/ ThreadGoes(<<"play", p>>)
<1> DEFINE t == <<"play", p>>
<1>0. t \in Threads /\ t[1] = "play"
    BY DEF Threads
<1>1. CASE OpenSocket(p)
    BY <1>1
<1>2. CASE Bind(p)
    BY <1>2, Zenon DEF Bind, ExitProcess, EndsProcess, Binds
<1>3. CASE PlayRound(p) \/ End(t)
    <2>1. sem' \in [Semaphores -> Nat]
        BY <1>3 DEF PlayRound, End, Waits, Posts, Types, Counted, Semaphores
    <2>2. UNCHANGED <<process, environment, mainVars, recording_noise, pairVars,
                      socketVars, mybuffer, resetInUse>>
        BY <1>3 DEF PlayRound, End, Waits, Posts, Goes
    <2>3. /\ pc[t] \notin {"none", "gone"}
          /\ \E l \in PlayLabels :
                /\ pc' = [pc EXCEPT ![t] = l]
                /\ l \notin {"none", "start", "bind"}
                /\ l \in {"loop", "chunk"} => pc[t] \in {"loop", "chunk"}
                /\ l = "gone" => t \in cancelled
        <3>1. CASE PlayRound(p)
            BY <3>1 DEF PlayRound, Waits, Posts, Goes, PlayLabels
        <3>2. CASE End(t)
            BY <3>2 DEF End, Goes, PlayLabels
        <3> QED BY <1>3, <3>1, <3>2
    <2>4. mybuffer' \in [Pairs -> BOOLEAN]
        BY <2>2, Zenon DEF Types, Marks
    <2> QED BY <1>0, <2>1, <2>2, <2>3, <2>4, Zenon DEF ThreadGoes, Alive
<1> QED BY <1>1, <1>2, <1>3, Zenon DEF Play

LEMMA AcquireKinds ==
    ASSUME Types, NEW p \in Pairs, Acquire(p)
    PROVE  EndsProcess \/ ThreadGoes(<<"acquire", p>>)
<1> DEFINE t == <<"acquire", p>>
<1>0. t \in Threads /\ t[1] # "play"
    BY DEF Threads
<1>1. CASE StoreSample(p) /\ CrashProcess
    BY <1>1, Zenon DEF CrashProcess, EndsProcess
<1>2. CASE ~(StoreSample(p) /\ CrashProcess)
    <2>1. sem' \in [Semaphores -> Nat]
        BY <1>2 DEF Acquire, RenameRecording, Receive, NoiseBranch, TestRoom, StoreSample,
            Publish, End, Passes, Waits, Posts, Types, Counted, Semaphores
    <2>2. UNCHANGED <<process, environment, mainVars, recording_noise, pairVars,
                      socketVars, resetInUse>>
        BY <1>2 DEF Acquire, RenameRecording, Receive, NoiseBranch, TestRoom, StoreSample,
            Publish, End, Passes, Waits, Posts, Goes, socketVars
    <2>3. /\ pc[t] \notin {"none", "gone"}
          /\ \E l \in AcquireLabels :
                /\ pc' = [pc EXCEPT ![t] = l]
                /\ l \notin {"none", "start", "bind"}
                /\ l \in {"loop", "chunk"} => pc[t] \in {"loop", "chunk"}
                /\ l = "gone" => t \in cancelled
        <3>1. CASE RenameRecording(p) \/ Receive(p) \/ NoiseBranch(p)
            BY <3>1 DEF RenameRecording, Receive, NoiseBranch, Passes, Goes, AcquireLabels
        <3>2. CASE TestRoom(p)
            BY <3>2 DEF TestRoom, Waits, Posts, Goes, AcquireLabels
        <3>3. CASE StoreSample(p)
            BY <1>2, <3>3 DEF StoreSample, Waits, Posts, Goes, AcquireLabels
        <3>4. CASE Publish(p)
            BY <3>4 DEF Publish, Waits, Posts, Goes, AcquireLabels
        <3>5. CASE End(t)
            BY <3>5 DEF End, Goes, AcquireLabels
        <3> QED BY <3>1, <3>2, <3>3, <3>4, <3>5, Zenon DEF Acquire
    <2>4. mybuffer' \in [Pairs -> BOOLEAN]
        <3>1. CASE Receive(p)
            BY <3>1 DEF Receive, Types, Marks
        <3>2. CASE ~Receive(p)
            <4>1. mybuffer' = mybuffer
                BY <1>2, <3>2, Zenon DEF Acquire, RenameRecording, NoiseBranch, TestRoom,
                    StoreSample, Publish, End, Passes, Waits, Posts
            <4> QED BY <4>1, Zenon DEF Types, Marks
        <3> QED BY <3>1, <3>2
    <2> QED BY <1>0, <2>1, <2>2, <2>3, <2>4, Zenon DEF ThreadGoes, Alive
<1> QED BY <1>1, <1>2

Kinds ==
    \/ EndsProcess \/ Loads \/ MainGoesOn \/ CreatePlay \/ CreateAcquire \/ ShutsDown
    \/ Unloads
    \/ \E p \in Pairs : OpenSocket(p) \/ Binds(p)
    \/ \E t \in Threads : ThreadGoes(t)

LEMMA NextKinds == Types /\ Next => Kinds
<1> SUFFICES ASSUME Types, Next PROVE Kinds
    OBVIOUS
<1>1. CASE TeamSpeak \/ Callback
    BY <1>1, CallbackKinds, Zenon DEF Kinds
<1>2. ASSUME NEW p \in Pairs, Play(p) \/ Acquire(p) PROVE Kinds
    <2>1. <<"play", p>> \in Threads /\ <<"acquire", p>> \in Threads
        BY DEF Threads
    <2> QED BY <1>2, <2>1, PlayKinds, AcquireKinds, Zenon DEF Kinds
<1> QED BY <1>1, <1>2, Zenon DEF Next

(* Their preservation of the types. *)

LEMMA StepNumbers == Types /\ Kinds => Numbers'
<1> SUFFICES ASSUME Types, Kinds PROVE Numbers'
    OBVIOUS
<1>0. Numbers /\ MaxPairs \in Nat /\ MaxLoads \in Nat
    BY LifeAssumption DEF Types, LifeAssumption
<1>1. CASE EndsProcess
    BY <1>0, <1>1 DEF EndsProcess, mainVars, socketVars, pairVars, Numbers
<1>2. CASE Loads
    BY <1>0, <1>2 DEF Loads, Numbers, Before
<1>3. CASE MainGoesOn
    BY <1>0, <1>3 DEF MainGoesOn, socketVars, pairVars, Numbers
<1>4. CASE CreatePlay
    BY <1>0, <1>4 DEF CreatePlay, socketVars, Numbers, Before, MainLabels
<1>5. CASE CreateAcquire
    BY <1>0, <1>5 DEF CreateAcquire, socketVars, Numbers, Before, MainLabels
<1>6. CASE ShutsDown \/ Unloads
    BY <1>0, <1>6 DEF ShutsDown, Unloads, socketVars, pairVars, Numbers
<1>7. ASSUME NEW p \in Pairs, OpenSocket(p) \/ Binds(p) PROVE Numbers'
    BY <1>0, <1>7 DEF OpenSocket, Binds, Goes, mainVars, pairVars, Numbers, Pairs
<1>8. ASSUME NEW t \in Threads, ThreadGoes(t) PROVE Numbers'
    BY <1>0, <1>8 DEF ThreadGoes, mainVars, pairVars, socketVars, Numbers
<1> QED BY <1>1, <1>2, <1>3, <1>4, <1>5, <1>6, <1>7, <1>8, Zenon DEF Kinds

(* A label of the right kind at one thread. *)
LEMMA OneLabel ==
    ASSUME Labelled, NEW t \in Threads,
           NEW l \in (IF t[1] = "play" THEN PlayLabels ELSE AcquireLabels),
           pc' = [pc EXCEPT ![t] = l]
    PROVE  Labelled'
<1>1. pc' \in [Threads -> PlayLabels \cup AcquireLabels]
    BY DEF Labelled
<1>2. \A p \in Pairs : <<"play", p>> \in Threads /\ <<"acquire", p>> \in Threads
    BY DEF Threads
<1>3. ASSUME NEW p \in Pairs PROVE pc'[<<"play", p>>] \in PlayLabels
    <2>1. CASE t = <<"play", p>>
        BY <1>2, <2>1 DEF Labelled
    <2>2. CASE t # <<"play", p>>
        BY <1>2, <2>2 DEF Labelled
    <2> QED BY <2>1, <2>2
<1>4. ASSUME NEW p \in Pairs PROVE pc'[<<"acquire", p>>] \in AcquireLabels
    <2>1. CASE t = <<"acquire", p>>
        BY <1>2, <2>1 DEF Labelled
    <2>2. CASE t # <<"acquire", p>>
        BY <1>2, <2>2 DEF Labelled
    <2> QED BY <2>1, <2>2
<1> QED BY <1>1, <1>3, <1>4, Zenon DEF Labelled

LEMMA StepLabelled == Types /\ Kinds => Labelled'
<1> SUFFICES ASSUME Types, Kinds PROVE Labelled'
    OBVIOUS
<1>0. Labelled
    BY DEF Types
<1>1. CASE EndsProcess \/ Loads \/ MainGoesOn \/ ShutsDown \/ Unloads
    <2>1. pc' = pc
        BY <1>1, Zenon DEF EndsProcess, Loads, MainGoesOn, ShutsDown, Unloads
    <2> QED BY <1>0, <2>1, Zenon DEF Labelled
<1>2. CASE CreatePlay
    <2>1. pairs + 1 \in Pairs
        BY <1>2, LifeAssumption DEF Types, Numbers, Before, CreatePlay, Pairs, LifeAssumption
    <2>2. /\ <<"play", pairs + 1>> \in Threads /\ "start" \in PlayLabels
          /\ <<"play", pairs + 1>>[1] = "play"
        BY <2>1 DEF Threads, PlayLabels
    <2> QED BY <1>0, <1>2, <2>2, OneLabel DEF CreatePlay
<1>3. CASE CreateAcquire
    <2>1. pairs \in Pairs
        BY <1>3, LifeAssumption DEF Types, Numbers, CreateAcquire, Pairs, LifeAssumption
    <2>2. /\ <<"acquire", pairs>> \in Threads /\ "rename" \in AcquireLabels
          /\ <<"acquire", pairs>>[1] # "play"
        BY <2>1 DEF Threads, AcquireLabels
    <2> QED BY <1>0, <1>3, <2>2, OneLabel DEF CreateAcquire
<1>4. ASSUME NEW p \in Pairs, OpenSocket(p) \/ Binds(p) PROVE Labelled'
    <2>1. <<"play", p>> \in Threads /\ <<"play", p>>[1] = "play"
        BY DEF Threads
    <2>2. \E l \in PlayLabels : pc' = [pc EXCEPT ![<<"play", p>>] = l]
        BY <1>4 DEF OpenSocket, Binds, Goes, PlayLabels
    <2> QED BY <1>0, <2>1, <2>2, OneLabel
<1>5. ASSUME NEW t \in Threads, ThreadGoes(t) PROVE Labelled'
    <2>1. \E l \in (IF t[1] = "play" THEN PlayLabels ELSE AcquireLabels) :
              pc' = [pc EXCEPT ![t] = l]
        BY <1>5, Zenon DEF ThreadGoes
    <2> QED BY <1>0, <2>1, OneLabel, Zenon
<1> QED BY <1>1, <1>2, <1>3, <1>4, <1>5, Zenon DEF Kinds

(* The environment, the file and the defaults have a port each, or none. *)
LEMMA LoadedSettings ==
    ASSUME environment \in Environments, load_settings
    PROVE  DOMAIN settings' = Options /\ settings'["ts_audio_port"] \in Ports
<1>1. PICK file \in Files \cup {EmptyFile} :
          settings' = [o \in Options |-> Preferred(o, file)]
    BY Zenon DEF load_settings
<1>2. "ts_audio_port" \in Options
    BY DEF Options
<1>3. Preferred("ts_audio_port", file) \in Ports
    <2>1. CASE file = EmptyFile
        BY <1>2, <2>1, LifeAssumption DEF Preferred, Ports, EmptyFile, LifeAssumption
    <2>2. CASE file \in Files
        BY <1>2, <2>2, LifeAssumption DEF Preferred, Ports, LifeAssumption
    <2> QED BY <2>1, <2>2
<1> QED BY <1>1, <1>2, <1>3

LEMMA StepValues == Types /\ Kinds => Values'
<1> SUFFICES ASSUME Types, Kinds PROVE Values'
    OBVIOUS
<1>0. Values
    BY DEF Types
<1> HIDE DEF Ports
<1>1. CASE EndsProcess
    BY <1>0, <1>1 DEF EndsProcess, mainVars, socketVars, Values
<1>2. CASE Loads
    BY <1>0, <1>2, LoadedSettings DEF Loads, Values
<1>3. CASE MainGoesOn
    BY <1>0, <1>3 DEF MainGoesOn, socketVars, Values
<1>4. CASE CreatePlay \/ CreateAcquire
    BY <1>0, <1>4 DEF CreatePlay, CreateAcquire, socketVars, Values
<1>5. CASE ShutsDown \/ Unloads
    BY <1>0, <1>5 DEF ShutsDown, Unloads, socketVars, Values
<1>6. ASSUME NEW p \in Pairs, OpenSocket(p) \/ Binds(p) PROVE Values'
    BY <1>0, <1>6 DEF OpenSocket, Binds, Goes, mainVars, Values
<1>7. ASSUME NEW t \in Threads, ThreadGoes(t) PROVE Values'
    BY <1>0, <1>7 DEF ThreadGoes, mainVars, socketVars, Values
<1> QED BY <1>1, <1>2, <1>3, <1>4, <1>5, <1>6, <1>7, Zenon DEF Kinds

LEMMA StepCounted == Types /\ Kinds => Counted'
<1> SUFFICES ASSUME Types, Kinds PROVE Counted'
    OBVIOUS
<1>1. CASE Loads
    BY <1>1 DEF Loads, Counted
<1>2. CASE ~Loads
    BY <1>2, Zenon DEF Kinds, EndsProcess, MainGoesOn, CreatePlay, CreateAcquire, ShutsDown,
        Unloads, OpenSocket, Binds, ThreadGoes, Types, Counted
<1> QED BY <1>1, <1>2

LEMMA StepMarks == Types /\ Kinds => Marks'
<1> SUFFICES ASSUME Types, Kinds PROVE Marks'
    OBVIOUS
<1>1. cancelled' \in {cancelled, cancelled \cup (ToCancel \cap Threads)}
    BY Zenon DEF Kinds, EndsProcess, Loads, MainGoesOn, CreatePlay, CreateAcquire, ShutsDown,
        Unloads, OpenSocket, Binds, Goes, ThreadGoes, pairVars
<1>2. cancelled' \subseteq Threads
    BY <1>1 DEF Types, Marks
<1>3. mybuffer' \in [Pairs -> BOOLEAN]
    BY Zenon DEF Kinds, EndsProcess, Loads, MainGoesOn, CreatePlay, CreateAcquire, ShutsDown,
        Unloads, OpenSocket, Binds, Goes, ThreadGoes, Types, Marks
<1>4. resetInUse' \in BOOLEAN
    BY Zenon DEF Kinds, EndsProcess, Loads, MainGoesOn, CreatePlay, CreateAcquire, ShutsDown,
        Unloads, OpenSocket, Binds, Goes, ThreadGoes, Types, Marks
<1> QED BY <1>2, <1>3, <1>4, Zenon DEF Marks

LEMMA StepTypes == Types /\ [Next]_vars => Types'
<1> SUFFICES ASSUME Types, [Next]_vars PROVE Types'
    OBVIOUS
<1>1. CASE UNCHANGED vars
    <2> USE <1>1 DEF vars, mainVars, socketVars, pairVars
    <2>1. Numbers' /\ Labelled' /\ Values'
        BY DEF Types, Numbers, Labelled, Values
    <2>2. Counted' /\ Marks'
        BY Zenon DEF Types, Counted, Marks
    <2> QED BY <2>1, <2>2 DEF Types
<1>2. CASE Next
    BY <1>2, NextKinds, StepNumbers, StepLabelled, StepValues, StepCounted, StepMarks, Zenon
        DEF Types
<1> QED BY <1>1, <1>2

LEMMA TypesAlways == Spec => []Types
BY InitTypes, StepTypes, PTL DEF Spec

(* The type invariant, for every number of pairs and loads. *)
THEOREM TypeCorrect == Spec => []TypeOK
BY TypesAlways, TypesImplyTypeOK, PTL

-----------------------------------------------------------------------------
(* One reader. *)

Tied ==
    /\ \A p \in Pairs : Started(p) => Taken
    /\ \A p \in Pairs : pc[<<"play", p>>] = "bind" => socket_desc # 0
    /\ plugin = "out" => \A p \in Pairs : pc[<<"play", p>>] \in {"none", "gone"}
    /\ main # "idle" => plugin = "in"

Sole == Tied /\ OnePlayer

LEMMA InitSole == Init => Sole
<1> SUFFICES ASSUME Init PROVE Sole
    OBVIOUS
<1>1. \A p \in Pairs : pc[<<"play", p>>] = "none"
    BY DEF Init, Threads
<1> QED BY <1>1 DEF Sole, Tied, OnePlayer, Started, Init

(* No more play threads than before are at bind or in their loop, and what they
   rest on is as it was. *)
LEMMA NothingNew ==
    ASSUME Sole,
           UNCHANGED <<socketVars, settings>>,
           \A p \in Pairs : /\ Started(p)' => Started(p)
                            /\ pc'[<<"play", p>>] = "bind" => pc[<<"play", p>>] = "bind",
           plugin' = "out" => \A p \in Pairs : pc'[<<"play", p>>] \in {"none", "gone"},
           main' # "idle" => plugin' = "in"
    PROVE  Sole'
<1>1. Taken' = Taken
    BY DEF Taken, socketVars
<1>2. Tied'
    BY <1>1, Zenon DEF Sole, Tied, socketVars
<1>3. OnePlayer'
    BY Zenon DEF Sole, OnePlayer
<1> QED BY <1>2, <1>3, Zenon DEF Sole

LEMMA NobodyAlive ==
    ASSUME Alive = {}
    PROVE  \A p \in Pairs : pc[<<"play", p>>] \in {"none", "gone"}
BY DEF Alive, Threads

LEMMA StepSole == Types /\ Sole /\ [Next]_vars => Sole'
<1> SUFFICES ASSUME Types, Sole, [Next]_vars PROVE Sole'
    OBVIOUS
<1>0. \A p \in Pairs : <<"play", p>> \in Threads /\ <<"acquire", p>> \in Threads
    BY DEF Threads
<1>1. CASE UNCHANGED vars
    BY <1>1, NothingNew DEF vars, mainVars, socketVars, Started, Sole, Tied
<1>2. CASE EndsProcess
    BY <1>2, NothingNew DEF EndsProcess, mainVars, socketVars, Started, Sole, Tied
<1>3. CASE Loads
    BY <1>3 DEF Loads, Started, Sole, Tied, OnePlayer
<1>4. CASE MainGoesOn
    BY <1>4, NothingNew DEF MainGoesOn, Started, Sole, Tied
<1>5. CASE CreatePlay
    <2>1. pc' = [pc EXCEPT ![<<"play", pairs + 1>>] = "start"] /\ plugin = "in"
        BY <1>5, Zenon DEF CreatePlay, Sole, Tied
    <2>2. \A p \in Pairs : pc'[<<"play", p>>] \in {pc[<<"play", p>>], "start"}
        BY <1>0, <2>1 DEF Types, Labelled
    <2> QED BY <1>5, <2>1, <2>2, NothingNew DEF CreatePlay, Started
<1>6. CASE CreateAcquire
    <2>1. pc' = [pc EXCEPT ![<<"acquire", pairs>>] = "rename"] /\ plugin = "in"
        BY <1>6, Zenon DEF CreateAcquire, Sole, Tied
    <2>2. \A p \in Pairs : pc'[<<"play", p>>] = pc[<<"play", p>>]
        BY <1>0, <2>1 DEF Types, Labelled
    <2> QED BY <1>6, <2>1, <2>2, NothingNew DEF CreateAcquire, Started
<1>7. CASE ShutsDown
    BY <1>7, NothingNew DEF ShutsDown, Started
<1>8. CASE Unloads
    BY <1>8, NothingNew, NobodyAlive DEF Unloads, Started, Sole, Tied
<1>9. ASSUME NEW p \in Pairs, OpenSocket(p) PROVE Sole'
    <2>1. /\ pc[<<"play", p>>] = "start" /\ pc' = [pc EXCEPT ![<<"play", p>>] = "bind"]
          /\ socket_desc' = p /\ UNCHANGED <<port, mainVars>>
        BY <1>9 DEF OpenSocket, Goes
    <2>2. \A q \in Pairs : Started(q)' => Started(q)
        BY <1>0, <2>1 DEF Started, Types, Labelled
    <2>3. plugin # "out"
        BY <2>1 DEF Sole, Tied
    <2>4. Taken' = Taken
        BY <2>1 DEF Taken, mainVars
    <2>5. p # 0
        BY DEF Pairs
    <2>6. Tied'
        BY <2>1, <2>2, <2>3, <2>4, <2>5, Zenon DEF Sole, Tied, mainVars
    <2>7. OnePlayer'
        BY <2>2, Zenon DEF Sole, OnePlayer
    <2> QED BY <2>6, <2>7 DEF Sole
<1>10. ASSUME NEW p \in Pairs, Binds(p) PROVE Sole'
    <2>1. /\ pc[<<"play", p>>] = "bind" /\ pc' = [pc EXCEPT ![<<"play", p>>] = "loop"]
          /\ port' = [port EXCEPT ![socket_desc] = settings["ts_audio_port"]]
          /\ UNCHANGED <<socket_desc, mainVars>>
        BY <1>10 DEF Binds, Goes
    <2>2. \A q \in Pairs : ~Started(q)
        BY <1>10, Zenon DEF Binds, Sole, Tied
    <2>3. \A q \in Pairs : q # p => pc'[<<"play", q>>] = pc[<<"play", q>>]
        BY <1>0, <2>1 DEF Types, Labelled
    <2>4. \A q \in Pairs : Started(q)' => q = p
        BY <2>2, <2>3, Zenon DEF Started
    <2>5. socket_desc \in Pairs
        BY <2>1, LifeAssumption DEF Sole, Tied, Types, Numbers, Pairs, LifeAssumption
    <2>6. Taken'
        BY <2>1, <2>5 DEF Taken, mainVars, Types, Values
    <2>7. plugin # "out"
        BY <2>1 DEF Sole, Tied
    <2>8. socket_desc # 0
        BY <2>1, Zenon DEF Sole, Tied
    <2>9. Tied'
        BY <2>1, <2>6, <2>7, <2>8, Zenon DEF Sole, Tied, mainVars
    <2>10. OnePlayer'
        BY <2>4, Zenon DEF OnePlayer
    <2> QED BY <2>9, <2>10 DEF Sole
<1>11. ASSUME NEW t \in Threads, ThreadGoes(t) PROVE Sole'
    <2>1. PICK l \in (IF t[1] = "play" THEN PlayLabels ELSE AcquireLabels) :
              /\ pc' = [pc EXCEPT ![t] = l]
              /\ l \notin {"none", "start", "bind"}
              /\ l \in {"loop", "chunk"} => pc[t] \in {"loop", "chunk"}
        BY <1>11, Zenon DEF ThreadGoes
    <2>2. \A q \in Pairs : \/ pc'[<<"play", q>>] = pc[<<"play", q>>]
                           \/ t = <<"play", q>> /\ pc'[<<"play", q>>] = l
        BY <1>0, <2>1 DEF Types, Labelled
    <2>3. UNCHANGED <<socketVars, mainVars>>
        BY <1>11 DEF ThreadGoes
    <2>4. \A q \in Pairs : pc[<<"play", q>>] \in {"none", "gone"} /\ plugin = "out"
                               => pc'[<<"play", q>>] = pc[<<"play", q>>]
        BY <1>11, <2>2 DEF ThreadGoes, Alive
    <2> QED BY <2>1, <2>2, <2>3, <2>4, NothingNew DEF Started, mainVars, Sole, Tied
<1> QED BY <1>1, <1>2, <1>3, <1>4, <1>5, <1>6, <1>7, <1>8, <1>9, <1>10, <1>11, NextKinds,
        Zenon DEF Kinds

(* Two play threads never read the ring at the same time (plugin.c:239-256), although
   every established connection starts one and none is ended for it. *)
THEOREM OneReader == Spec => []OnePlayer
<1>1. Sole => OnePlayer
    BY DEF Sole
<1> QED BY <1>1, InitSole, StepSole, TypesAlways, PTL DEF Spec

-----------------------------------------------------------------------------
(* A second writer. *)

(* An acquire thread is accompanied by the play thread of its pair, which ends only
   when it is cancelled: one that finds the port taken takes the process with it. *)
Accompanied ==
    /\ \A p \in Pairs :
          /\ pc[<<"acquire", p>>] # "none" => pc[<<"play", p>>] # "none"
          /\ pc[<<"play", p>>] = "gone" => <<"play", p>> \in cancelled
    /\ main = "createAcquire" => pc[<<"play", pairs>>] # "none"

LEMMA InitAccompanied == Init => Accompanied
<1> SUFFICES ASSUME Init PROVE Accompanied
    OBVIOUS
<1>1. \A p \in Pairs : pc[<<"play", p>>] = "none" /\ pc[<<"acquire", p>>] = "none"
    BY DEF Init, Threads
<1> QED BY <1>1 DEF Init, Accompanied

LEMMA StepAccompanied == Types /\ Accompanied /\ [Next]_vars => Accompanied'
<1> SUFFICES ASSUME Types, Accompanied, [Next]_vars PROVE Accompanied'
    OBVIOUS
<1>0. /\ \A p \in Pairs : <<"play", p>> \in Threads /\ <<"acquire", p>> \in Threads
      /\ pc \in [Threads -> PlayLabels \cup AcquireLabels]
    BY DEF Threads, Types, Labelled
<1>1. CASE UNCHANGED vars \/ EndsProcess \/ ShutsDown \/ Unloads
    <2>1. UNCHANGED <<pc, pairs, main>> /\ cancelled \subseteq cancelled'
        BY <1>1, Zenon DEF vars, mainVars, pairVars, EndsProcess, ShutsDown, Unloads
    <2> QED BY <2>1 DEF Accompanied
<1>2. CASE Loads \/ MainGoesOn
    <2>1. UNCHANGED <<pc, pairs, cancelled>> /\ main' # "createAcquire"
        BY <1>2 DEF Loads, MainGoesOn, pairVars
    <2> QED BY <2>1 DEF Accompanied
<1>3. CASE CreatePlay
    <2>1. /\ pc' = [pc EXCEPT ![<<"play", pairs + 1>>] = "start"]
          /\ pairs' = pairs + 1 /\ cancelled' = cancelled
        BY <1>3 DEF CreatePlay
    <2>2. pairs + 1 \in Pairs
        BY <1>3, LifeAssumption DEF Types, Numbers, Before, CreatePlay, Pairs, LifeAssumption
    <2>3. \A p \in Pairs : /\ pc'[<<"acquire", p>>] = pc[<<"acquire", p>>]
                           /\ \/ pc'[<<"play", p>>] = pc[<<"play", p>>]
                              \/ pc'[<<"play", p>>] = "start"
        BY <1>0, <2>1
    <2>4. pc'[<<"play", pairs'>>] = "start"
        BY <1>0, <2>1, <2>2
    <2> QED BY <2>1, <2>3, <2>4 DEF Accompanied
<1>4. CASE CreateAcquire
    <2>1. /\ pc' = [pc EXCEPT ![<<"acquire", pairs>>] = "rename"]
          /\ main = "createAcquire" /\ main' = "idle" /\ cancelled' = cancelled
        BY <1>4 DEF CreateAcquire
    <2>2. \A p \in Pairs : /\ pc'[<<"play", p>>] = pc[<<"play", p>>]
                           /\ p # pairs => pc'[<<"acquire", p>>] = pc[<<"acquire", p>>]
        BY <1>0, <2>1
    <2> QED BY <2>1, <2>2 DEF Accompanied
<1>5. ASSUME NEW p \in Pairs, OpenSocket(p) \/ Binds(p) PROVE Accompanied'
    <2>1. /\ UNCHANGED <<mainVars, pairVars>>
          /\ \E l \in {"bind", "loop"} : pc' = [pc EXCEPT ![<<"play", p>>] = l]
        BY <1>5 DEF OpenSocket, Binds, Goes
    <2>2. \A q \in Pairs : /\ pc'[<<"acquire", q>>] = pc[<<"acquire", q>>]
                           /\ \/ pc'[<<"play", q>>] = pc[<<"play", q>>]
                              \/ pc'[<<"play", q>>] \in {"bind", "loop"}
        BY <1>0, <2>1
    <2>3. pairs \in Pairs \/ main' # "createAcquire"
        BY <2>1, LifeAssumption DEF mainVars, Types, Numbers, Pairs, LifeAssumption
    <2> QED BY <2>1, <2>2, <2>3 DEF Accompanied, mainVars, pairVars
<1>6. ASSUME NEW t \in Threads, ThreadGoes(t) PROVE Accompanied'
    <2>1. PICK l \in (IF t[1] = "play" THEN PlayLabels ELSE AcquireLabels) :
              /\ pc' = [pc EXCEPT ![t] = l]
              /\ l # "none" /\ (l = "gone" => t \in cancelled)
        BY <1>6, Zenon DEF ThreadGoes
    <2>2. t \in Alive /\ UNCHANGED <<mainVars, pairVars>>
        BY <1>6 DEF ThreadGoes
    <2>3. \A u \in Threads : \/ pc'[u] = pc[u]
                             \/ u = t /\ pc'[u] = l /\ pc[u] # "none"
        BY <1>0, <2>1, <2>2 DEF Alive
    <2>4. pairs \in Pairs \/ main' # "createAcquire"
        BY <2>2, LifeAssumption DEF mainVars, Types, Numbers, Pairs, LifeAssumption
    <2>5. \A u \in Threads : /\ pc'[u] # "none" => pc[u] # "none"
                             /\ pc[u] # "none" => pc'[u] # "none"
                             /\ pc'[u] = "gone" => pc[u] = "gone" \/ u \in cancelled
        BY <2>1, <2>3
    <2> QED BY <1>0, <2>2, <2>4, <2>5, Zenon DEF Accompanied, mainVars, pairVars
<1> QED BY <1>1, <1>2, <1>3, <1>4, <1>5, <1>6, NextKinds, Zenon DEF Kinds

(* Two threads fill the ring at the same time (plugin.c:347-357, 584) only while one
   of the two play threads has yet to find the port taken, or is being cancelled. *)
THEOREM SecondWriterIsBrief == Spec => []SecondPairIsBrief
<1>1. Types /\ Sole /\ Accompanied => SecondPairIsBrief
    <2> SUFFICES ASSUME Types, Sole, Accompanied,
                        NEW p \in Pairs, NEW q \in Pairs, p # q,
                        <<"acquire", p>> \in Alive, <<"acquire", q>> \in Alive,
                        \A r \in {p, q} : /\ pc[<<"play", r>>] \notin {"start", "bind"}
                                          /\ <<"play", r>> \notin cancelled
                 PROVE  FALSE
        BY DEF SecondPairIsBrief
    <2>1. ASSUME NEW r \in {p, q} PROVE Started(r)
        <3>1. pc[<<"acquire", r>>] # "none"
            BY DEF Alive
        <3>2. pc[<<"play", r>>] \notin {"none", "gone", "start", "bind"}
            BY <3>1 DEF Accompanied
        <3> QED BY <3>2 DEF Started, Types, Labelled, PlayLabels
    <2> QED BY <2>1 DEF Sole, OnePlayer
<1> QED BY <1>1, InitSole, StepSole, InitAccompanied, StepAccompanied, TypesAlways, PTL
        DEF Spec

-----------------------------------------------------------------------------
(* Sections. *)

(* A semaphore is free and nobody holds it, or one thread does; before its sem_init
   it is 0 and nobody has got past it. *)
Admits(n, holders) ==
    /\ n \in {0, 1}
    /\ n = 1 => holders = {}
    /\ \A t, u \in holders : t = u

(* No thread is left when the plugin is loaded, and no callback is under way. *)
Unused ==
    /\ plugin = "out" => Alive = {}
    /\ main # "idle" => plugin = "in"

Exclusive ==
    /\ Unused
    /\ resetInUse \/ Admits(sem["c_pb_sem"], PlaybackHolders)
    /\ resetInUse \/ Admits(sem["noise_sem"], NoiseHolders)

(* What a step does to a semaphore of value n with the holders in before, which then
   has value m and those in after: nothing, wait, post, initialise, or load the
   plugin.  It was or is reset in use when r or q holds. *)
SemStep(r, n, before, q, m, after) ==
    \/ m = n /\ after \subseteq before /\ (r => q)
    \/ /\ n > 0 /\ m = n - 1 /\ q = r
       /\ \E t : after \subseteq before \cup {t}
    \/ /\ m = n + 1 /\ q = r
       /\ \E t \in before : after \subseteq before \ {t}
    \/ m = 1 /\ after \subseteq before /\ q = (r \/ before # {})
    \/ m = 0 /\ after = {}

(* Each of them leaves the semaphore with one holder at most. *)
LEMMA SemStepAdmits ==
    ASSUME NEW r \in BOOLEAN, NEW q \in BOOLEAN, NEW n \in Nat, NEW m,
           NEW before, NEW after,
           r \/ Admits(n, before), SemStep(r, n, before, q, m, after)
    PROVE  q \/ Admits(m, after)
<1> SUFFICES ASSUME ~q PROVE Admits(m, after)
    OBVIOUS
<1>1. CASE m = n /\ after \subseteq before /\ (r => q)
    BY <1>1 DEF Admits
<1>2. CASE /\ n > 0 /\ m = n - 1 /\ q = r
           /\ \E t : after \subseteq before \cup {t}
    <2>1. before = {} /\ m = 0
        BY <1>2 DEF Admits
    <2> QED BY <1>2, <2>1 DEF Admits
<1>3. CASE /\ m = n + 1 /\ q = r
           /\ \E t \in before : after \subseteq before \ {t}
    <2>1. after = {} /\ n = 0
        BY <1>3 DEF Admits
    <2> QED BY <1>3, <2>1 DEF Admits
<1>4. CASE m = 1 /\ after \subseteq before /\ q = (r \/ before # {})
    <2>1. after = {}
        BY <1>4
    <2> QED BY <1>4, <2>1 DEF Admits
<1>5. CASE m = 0 /\ after = {}
    BY <1>5 DEF Admits
<1> QED BY <1>1, <1>2, <1>3, <1>4, <1>5, Zenon DEF SemStep

RingStep ==
    SemStep(resetInUse, sem["c_pb_sem"], PlaybackHolders,
            resetInUse', sem'["c_pb_sem"], PlaybackHolders')

NoiseStep ==
    SemStep(resetInUse, sem["noise_sem"], NoiseHolders,
            resetInUse', sem'["noise_sem"], NoiseHolders')

(* Nobody gets into a section, and the semaphores stay as they are. *)
LEMMA NeutralStep ==
    ASSUME UNCHANGED <<sem, resetInUse>>,
           PlaybackHolders' \subseteq PlaybackHolders, NoiseHolders' \subseteq NoiseHolders
    PROVE  RingStep /\ NoiseStep
BY DEF RingStep, NoiseStep, SemStep

LEMMA MainHolds ==
    ASSUME pc' = pc, main' = "countHeld" => main = "countHeld"
    PROVE  PlaybackHolders' \subseteq PlaybackHolders /\ NoiseHolders' \subseteq NoiseHolders
BY DEF PlaybackHolders, NoiseHolders

(* The labels inside of a section. *)
Held(s) == IF s = "c_pb_sem" THEN {"chunk", "roomHeld", "publishHeld"} ELSE {"storeHeld"}

(* Only the thread that moves may get into a section or out of it. *)
LEMMA OneMoves ==
    ASSUME Types, NEW t \in Threads, NEW l, pc' = [pc EXCEPT ![t] = l],
           main' = "countHeld" => main = "countHeld"
    PROVE  /\ PlaybackHolders' \subseteq PlaybackHolders \cup {t}
           /\ NoiseHolders' \subseteq NoiseHolders \cup {t}
           /\ l \notin Held("c_pb_sem") => PlaybackHolders' \subseteq PlaybackHolders \ {t}
           /\ l \notin Held("noise_sem") => NoiseHolders' \subseteq NoiseHolders \ {t}
<1>0. \A u \in Threads : pc'[u] = IF u = t THEN l ELSE pc[u]
    BY DEF Types, Labelled
<1>1. t # <<"main", 0>>
    BY DEF Threads
<1>2. /\ PlaybackHolders' \subseteq PlaybackHolders \cup {t}
      /\ l \notin Held("c_pb_sem") => PlaybackHolders' \subseteq PlaybackHolders \ {t}
    BY <1>0 DEF PlaybackHolders, Held
<1>3. /\ NoiseHolders' \subseteq NoiseHolders \cup {t}
      /\ l \notin Held("noise_sem") => NoiseHolders' \subseteq NoiseHolders \ {t}
    BY <1>0, <1>1 DEF NoiseHolders, Held
<1> QED BY <1>2, <1>3

(* A thread goes from one label outside of the sections to another one. *)
LEMMA OutsideStep ==
    ASSUME Types, NEW t \in Threads, NEW from, NEW next, Goes(t, from, next),
           next \cap (Held("c_pb_sem") \cup Held("noise_sem")) = {},
           sem' = sem
    PROVE  RingStep /\ NoiseStep
<1>1. PICK l \in next : pc' = [pc EXCEPT ![t] = l]
    BY Zenon DEF Goes
<1>2. main' = main /\ resetInUse' = resetInUse
    BY DEF Goes, mainVars
<1>3. l \notin Held("c_pb_sem") /\ l \notin Held("noise_sem")
    OBVIOUS
<1> QED BY <1>1, <1>2, <1>3, OneMoves, NeutralStep

LEMMA WaitStep ==
    ASSUME Types, NEW t \in Threads, NEW s \in Semaphores, NEW from, NEW to,
           Waits(t, s, from, to), to \in Held(s)
    PROVE  RingStep /\ NoiseStep
<1>1. /\ pc' = [pc EXCEPT ![t] = to]
      /\ sem[s] > 0 /\ sem' = [sem EXCEPT ![s] = @ - 1]
      /\ main' = main /\ resetInUse' = resetInUse
      /\ sem \in [Semaphores -> Nat]
    BY DEF Waits, Goes, mainVars, Types, Counted
<1>2. CASE s = "c_pb_sem"
    <2>1. to \notin Held("noise_sem")
        BY <1>2 DEF Held
    <2>2. /\ PlaybackHolders' \subseteq PlaybackHolders \cup {t}
          /\ NoiseHolders' \subseteq NoiseHolders
        BY <1>1, <2>1, OneMoves
    <2>3. sem'["c_pb_sem"] = sem["c_pb_sem"] - 1 /\ sem'["noise_sem"] = sem["noise_sem"]
        BY <1>1, <1>2 DEF Semaphores
    <2> QED BY <1>1, <1>2, <2>2, <2>3 DEF RingStep, NoiseStep, SemStep
<1>3. CASE s = "noise_sem"
    <2>1. to \notin Held("c_pb_sem")
        BY <1>3 DEF Held
    <2>2. /\ NoiseHolders' \subseteq NoiseHolders \cup {t}
          /\ PlaybackHolders' \subseteq PlaybackHolders
        BY <1>1, <2>1, OneMoves
    <2>3. sem'["noise_sem"] = sem["noise_sem"] - 1 /\ sem'["c_pb_sem"] = sem["c_pb_sem"]
        BY <1>1, <1>3 DEF Semaphores
    <2> QED BY <1>1, <1>3, <2>2, <2>3 DEF RingStep, NoiseStep, SemStep
<1> QED BY <1>2, <1>3 DEF Semaphores

LEMMA PostStep ==
    ASSUME Types, NEW t \in Threads, NEW s \in Semaphores, NEW from, NEW next,
           Posts(t, s, from, next), from \in Held(s),
           next \cap (Held("c_pb_sem") \cup Held("noise_sem")) = {}
    PROVE  RingStep /\ NoiseStep
<1>1. PICK l \in next : pc' = [pc EXCEPT ![t] = l]
    BY Zenon DEF Posts, Goes
<1>2. /\ pc[t] = from /\ sem' = [sem EXCEPT ![s] = @ + 1]
      /\ main' = main /\ resetInUse' = resetInUse
      /\ sem \in [Semaphores -> Nat]
    BY DEF Posts, Goes, mainVars, Types, Counted
<1>3. l \notin Held("c_pb_sem") /\ l \notin Held("noise_sem")
    OBVIOUS
<1>4. /\ PlaybackHolders' \subseteq PlaybackHolders \ {t}
      /\ NoiseHolders' \subseteq NoiseHolders \ {t}
    BY <1>1, <1>2, <1>3, OneMoves
<1>5. CASE s = "c_pb_sem"
    <2>1. t \in PlaybackHolders
        BY <1>2, <1>5 DEF PlaybackHolders, Held
    <2>2. sem'["c_pb_sem"] = sem["c_pb_sem"] + 1 /\ sem'["noise_sem"] = sem["noise_sem"]
        BY <1>2, <1>5 DEF Semaphores
    <2> QED BY <1>2, <1>4, <2>1, <2>2 DEF RingStep, NoiseStep, SemStep
<1>6. CASE s = "noise_sem"
    <2>1. t \in NoiseHolders
        BY <1>2, <1>6 DEF NoiseHolders, Held
    <2>2. sem'["noise_sem"] = sem["noise_sem"] + 1 /\ sem'["c_pb_sem"] = sem["c_pb_sem"]
        BY <1>2, <1>6 DEF Semaphores
    <2> QED BY <1>2, <1>4, <2>1, <2>2 DEF RingStep, NoiseStep, SemStep
<1> QED BY <1>5, <1>6 DEF Semaphores

(* The steps of the play thread, of the acquire thread and of the callbacks. *)

LEMMA PlaySections ==
    ASSUME Types, NEW p \in Pairs, Play(p)
    PROVE  RingStep /\ NoiseStep
<1> DEFINE t == <<"play", p>>
<1>0. /\ t \in Threads /\ "c_pb_sem" \in Semaphores
      /\ \A l \in {"bind", "loop", "gone"} :
            {l} \cap (Held("c_pb_sem") \cup Held("noise_sem")) = {}
      /\ "chunk" \in Held("c_pb_sem")
    BY DEF Threads, Semaphores, Held
<1> HIDE DEF t
<1>1. CASE OpenSocket(p)
    <2>1. Goes(t, "start", {"bind"}) /\ sem' = sem
        BY <1>1 DEF OpenSocket, t
    <2> QED BY <1>0, <2>1, OutsideStep
<1>2. CASE Bind(p)
    <2>1. CASE ExitProcess
        <3>1. UNCHANGED <<sem, pc, main, resetInUse>>
            BY <2>1 DEF ExitProcess, mainVars
        <3> QED BY <3>1, MainHolds, NeutralStep
    <2>2. CASE ~ExitProcess
        <3>1. Goes(t, "bind", {"loop"}) /\ sem' = sem
            BY <1>2, <2>2, Zenon DEF Bind, t
        <3> QED BY <1>0, <3>1, OutsideStep
    <2> QED BY <2>1, <2>2
<1>3. CASE Waits(t, "c_pb_sem", "loop", "chunk")
    BY <1>0, <1>3, WaitStep
<1>4. CASE Posts(t, "c_pb_sem", "chunk", {"loop"})
    BY <1>0, <1>4, PostStep
<1>5. CASE End(t)
    <2>1. PICK from \in {"bind", "loop", "rename", "receive", "branch", "room", "store",
                         "publish"} : Goes(t, from, {"gone"})
        BY <1>5, Zenon DEF End
    <2>2. sem' = sem
        BY <1>5, Zenon DEF End
    <2> QED BY <1>0, <2>1, <2>2, OutsideStep
<1> QED BY <1>1, <1>2, <1>3, <1>4, <1>5, Zenon DEF Play, PlayRound, t

LEMMA AcquireSections ==
    ASSUME Types, NEW p \in Pairs, Acquire(p)
    PROVE  RingStep /\ NoiseStep
<1> DEFINE t == <<"acquire", p>>
           Outside(next) == next \cap (Held("c_pb_sem") \cup Held("noise_sem")) = {}
<1>0. /\ t \in Threads
      /\ "c_pb_sem" \in Semaphores /\ "noise_sem" \in Semaphores
      /\ \A next \in SUBSET {"rename", "receive", "branch", "room", "store", "publish",
                               "gone"} : Outside(next)
      /\ "roomHeld" \in Held("c_pb_sem") /\ "publishHeld" \in Held("c_pb_sem")
      /\ "storeHeld" \in Held("noise_sem")
    BY DEF Threads, Semaphores, Held
<1>1. ASSUME NEW from, NEW to \in {"receive", "branch", "room", "gone"},
             Goes(t, from, {to}), sem' = sem
      PROVE  RingStep /\ NoiseStep
    <2>1. Outside({to})
        BY <1>0
    <2> QED BY <1>0, <1>1, <2>1, OutsideStep
<1>2. ASSUME NEW from, NEW next \in SUBSET {"rename", "room", "store", "publish"},
             NEW s \in Semaphores, Posts(t, s, from, next), from \in Held(s)
      PROVE  RingStep /\ NoiseStep
    <2>1. Outside(next)
        BY <1>0
    <2> QED BY <1>0, <1>2, <2>1, PostStep
<1>3. ASSUME NEW from, NEW to, NEW s \in Semaphores, Waits(t, s, from, to), to \in Held(s)
      PROVE  RingStep /\ NoiseStep
    BY <1>0, <1>3, WaitStep
<1> HIDE DEF t, Outside
<1>4. CASE RenameRecording(p)
    <2>1. Goes(t, "rename", {"receive"}) /\ sem' = sem
        BY <1>4, Zenon DEF RenameRecording, Passes, t
    <2> QED BY <1>1, <2>1
<1>5. CASE NoiseBranch(p)
    <2>1. Goes(t, "branch", {"room"}) /\ sem' = sem
        BY <1>5, Zenon DEF NoiseBranch, Passes, t
    <2> QED BY <1>1, <2>1
<1>6. CASE Receive(p)
    <2>1. Goes(t, "receive", {"branch"}) /\ sem' = sem
        BY <1>6, Zenon DEF Receive, t
    <2> QED BY <1>1, <2>1
<1>7. CASE TestRoom(p)
    <2>1. \/ Waits(t, "c_pb_sem", "room", "roomHeld")
          \/ Posts(t, "c_pb_sem", "roomHeld", {"room", "store"})
          \/ Posts(t, "c_pb_sem", "roomHeld", {"publish"})
        BY <1>7, Zenon DEF TestRoom, t
    <2>2. {"room", "store"} \in SUBSET {"rename", "room", "store", "publish"}
          /\ {"publish"} \in SUBSET {"rename", "room", "store", "publish"}
        OBVIOUS
    <2> QED BY <1>0, <1>2, <1>3, <2>1, <2>2, Zenon
<1>8. CASE StoreSample(p)
    <2>1. \/ Waits(t, "noise_sem", "store", "storeHeld")
          \/ CrashProcess
          \/ Posts(t, "noise_sem", "storeHeld", {"store", "publish"})
        BY <1>8, Zenon DEF StoreSample, t
    <2>2. {"store", "publish"} \in SUBSET {"rename", "room", "store", "publish"}
        OBVIOUS
    <2>3. CASE CrashProcess
        <3>1. UNCHANGED <<sem, pc, main, resetInUse>>
            BY <2>3 DEF CrashProcess, mainVars
        <3> QED BY <3>1, MainHolds, NeutralStep
    <2> QED BY <1>0, <1>2, <1>3, <2>1, <2>2, <2>3, Zenon
<1>9. CASE Publish(p)
    <2>1. \/ Waits(t, "c_pb_sem", "publish", "publishHeld")
          \/ Posts(t, "c_pb_sem", "publishHeld", {"rename"})
        BY <1>9, Zenon DEF Publish, t
    <2>2. {"rename"} \in SUBSET {"rename", "room", "store", "publish"}
        OBVIOUS
    <2> QED BY <1>0, <1>2, <1>3, <2>1, <2>2, Zenon
<1>10. CASE End(t)
    <2>1. \E from : Goes(t, from, {"gone"}) /\ sem' = sem
        BY <1>10, Zenon DEF End
    <2> QED BY <1>1, <2>1
<1> QED BY <1>4, <1>5, <1>6, <1>7, <1>8, <1>9, <1>10, Zenon DEF Acquire, t

(* sem_init, for either semaphore: the other one stays as it is. *)
LEMMA InitialiseSections ==
    ASSUME Types, InitRingSemaphore \/ InitNoiseSemaphore
    PROVE  RingStep /\ NoiseStep
<1>1. /\ sem \in [Semaphores -> Nat] /\ resetInUse \in BOOLEAN
      /\ "c_pb_sem" \in Semaphores /\ "noise_sem" \in Semaphores
    BY Zenon DEF Types, Counted, Marks, Semaphores
<1>2. /\ PlaybackHolders' \subseteq PlaybackHolders
      /\ NoiseHolders' \subseteq NoiseHolders
    <2>1. pc' = pc /\ main' # "countHeld"
        BY DEF InitRingSemaphore, InitNoiseSemaphore, Initialise
    <2> QED BY <2>1, MainHolds
<1>3. CASE InitRingSemaphore
    <2>1. /\ sem' = [sem EXCEPT !["c_pb_sem"] = 1]
          /\ resetInUse' = (resetInUse \/ PlaybackHolders # {})
        BY <1>3, Zenon DEF InitRingSemaphore, Initialise
    <2>2. sem'["c_pb_sem"] = 1 /\ sem'["noise_sem"] = sem["noise_sem"]
        BY <1>1, <2>1
    <2>3. resetInUse => resetInUse'
        BY <2>1, Zenon
    <2> QED BY <1>2, <2>1, <2>2, <2>3, Zenon DEF RingStep, NoiseStep, SemStep
<1>4. CASE InitNoiseSemaphore
    <2>1. /\ sem' = [sem EXCEPT !["noise_sem"] = 1]
          /\ resetInUse' = (resetInUse \/ NoiseHolders # {})
        BY <1>4, Zenon DEF InitNoiseSemaphore, Initialise
    <2>2. sem'["noise_sem"] = 1 /\ sem'["c_pb_sem"] = sem["c_pb_sem"]
        BY <1>1, <2>1
    <2>3. resetInUse => resetInUse'
        BY <2>1, Zenon
    <2> QED BY <1>2, <2>1, <2>2, <2>3, Zenon DEF RingStep, NoiseStep, SemStep
<1> QED BY <1>3, <1>4

(* The rounds of record_noise's loop. *)
LEMMA CountSections ==
    ASSUME Types, CountSamples
    PROVE  RingStep /\ NoiseStep
<1> DEFINE t == <<"main", 0>>
<1>1. /\ sem \in [Semaphores -> Nat]
      /\ "c_pb_sem" \in Semaphores /\ "noise_sem" \in Semaphores
      /\ pc' = pc /\ resetInUse' = resetInUse
      /\ t \notin Threads
    BY DEF Types, Counted, Semaphores, CountSamples, Threads
<1>2. PlaybackHolders' = PlaybackHolders
    BY <1>1 DEF PlaybackHolders
<1>3. CASE main = "count"
    <2>1. /\ sem["noise_sem"] > 0 /\ main' = "countHeld"
          /\ sem' = [sem EXCEPT !["noise_sem"] = @ - 1]
        BY <1>3 DEF CountSamples
    <2>2. sem'["noise_sem"] = sem["noise_sem"] - 1 /\ sem'["c_pb_sem"] = sem["c_pb_sem"]
        BY <1>1, <2>1
    <2>3. NoiseHolders' \subseteq NoiseHolders \cup {t}
        BY <1>1 DEF NoiseHolders
    <2> QED BY <1>1, <1>2, <2>1, <2>2, <2>3 DEF RingStep, NoiseStep, SemStep
<1>4. CASE main = "countHeld"
    <2>1. /\ main' = "count"
          /\ sem' = [sem EXCEPT !["noise_sem"] = @ + 1]
        BY <1>4 DEF CountSamples
    <2>2. sem'["noise_sem"] = sem["noise_sem"] + 1 /\ sem'["c_pb_sem"] = sem["c_pb_sem"]
        BY <1>1, <2>1
    <2>3. t \in NoiseHolders /\ NoiseHolders' \subseteq NoiseHolders \ {t}
        BY <1>1, <1>4, <2>1 DEF NoiseHolders
    <2> QED BY <1>1, <1>2, <2>2, <2>3 DEF RingStep, NoiseStep, SemStep
<1> QED BY <1>3, <1>4 DEF CountSamples

(* The other steps of TeamSpeak's main thread; only the plugin's loading needs to know
   that nobody is left. *)
LEMMA CallbackSections ==
    ASSUME Types, Unused, TeamSpeak \/ Callback
    PROVE  RingStep /\ NoiseStep
<1>1. CASE UNCHANGED <<sem, pc, resetInUse>> /\ (main' = "countHeld" => main = "countHeld")
    BY <1>1, MainHolds, NeutralStep
<1>2. CASE ts3plugin_init
    <2>1. CASE ExitProcess
        BY <1>1, <2>1 DEF ExitProcess, mainVars
    <2>2. CASE Loads
        <3>1. /\ plugin = "out" /\ main' = "idle" /\ pc' = pc
              /\ sem' = [s \in Semaphores |-> 0]
            BY <2>2 DEF Loads
        <3>2. PlaybackHolders' = {} /\ NoiseHolders' = {}
            <4>1. \A t \in Threads : pc[t] \in {"none", "gone"}
                BY <3>1 DEF Unused, Alive
            <4> QED BY <3>1, <4>1 DEF PlaybackHolders, NoiseHolders
        <3>3. sem'["c_pb_sem"] = 0 /\ sem'["noise_sem"] = 0
            BY <3>1 DEF Semaphores
        <3> QED BY <3>2, <3>3 DEF RingStep, NoiseStep, SemStep
    <2> QED BY <1>2, <2>1, <2>2, Zenon DEF ts3plugin_init, Loads
<1>3. CASE ConnectionEstablished \/ RecordNoise \/ QueriesEnd
    BY <1>1, <1>3 DEF ConnectionEstablished, RecordNoise, QueriesEnd, MainGoes
<1>4. CASE OpenDevices
    BY <1>1, <1>4 DEF OpenDevices, MainGoes, ExitProcess, mainVars
<1>5. CASE InitRingSemaphore \/ InitNoiseSemaphore
    BY <1>5, InitialiseSections
<1>6. CASE CreatePlay
    <2>1. pairs + 1 \in Pairs
        BY <1>6, LifeAssumption DEF Types, Numbers, Before, CreatePlay, Pairs, LifeAssumption
    <2>2. /\ <<"play", pairs + 1>> \in Threads
          /\ "start" \notin Held("c_pb_sem") /\ "start" \notin Held("noise_sem")
        BY <2>1 DEF Threads, Held
    <2>3. /\ pc' = [pc EXCEPT ![<<"play", pairs + 1>>] = "start"]
          /\ main' = "createAcquire" /\ UNCHANGED <<sem, resetInUse>>
        BY <1>6 DEF CreatePlay
    <2> QED BY <2>2, <2>3, OneMoves, NeutralStep
<1>7. CASE CreateAcquire
    <2>1. pairs \in Pairs
        BY <1>7, LifeAssumption DEF Types, Numbers, CreateAcquire, Pairs, LifeAssumption
    <2>2. /\ <<"acquire", pairs>> \in Threads
          /\ "rename" \notin Held("c_pb_sem") /\ "rename" \notin Held("noise_sem")
        BY <2>1 DEF Threads, Held
    <2>3. /\ pc' = [pc EXCEPT ![<<"acquire", pairs>>] = "rename"]
          /\ main' = "idle" /\ UNCHANGED <<sem, resetInUse>>
        BY <1>7 DEF CreateAcquire
    <2> QED BY <2>2, <2>3, OneMoves, NeutralStep
<1>8. CASE SetRecording
    BY <1>1, <1>8 DEF SetRecording
<1>9. CASE CountSamples
    BY <1>9, CountSections
<1>10. CASE ts3plugin_shutdown
    BY <1>1, <1>10, Zenon DEF ts3plugin_shutdown, CrashProcess, mainVars
<1>11. CASE Unload
    BY <1>1, <1>11, Zenon DEF Unload, CrashProcess, mainVars
<1> QED BY <1>2, <1>3, <1>4, <1>5, <1>6, <1>7, <1>8, <1>9, <1>10, <1>11, Zenon
        DEF TeamSpeak, Callback

LEMMA StepUnused == Types /\ Unused /\ [Next]_vars => Unused'
<1> SUFFICES ASSUME Types, Unused, [Next]_vars PROVE Unused'
    OBVIOUS
<1>1. CASE UNCHANGED vars \/ EndsProcess \/ ShutsDown \/ Unloads
    BY <1>1 DEF vars, mainVars, EndsProcess, ShutsDown, Unloads, Unused, Alive
<1>2. CASE Loads \/ MainGoesOn \/ CreatePlay \/ CreateAcquire
    BY <1>2 DEF Loads, MainGoesOn, CreatePlay, CreateAcquire, Unused
<1>3. ASSUME NEW p \in Pairs, OpenSocket(p) \/ Binds(p) PROVE Unused'
    <2>1. <<"play", p>> \in Alive /\ UNCHANGED mainVars
        BY <1>3 DEF OpenSocket, Binds, Goes, Alive, Threads
    <2> QED BY <2>1 DEF Unused, mainVars
<1>4. ASSUME NEW t \in Threads, ThreadGoes(t) PROVE Unused'
    BY <1>4 DEF ThreadGoes, Unused, mainVars
<1> QED BY <1>1, <1>2, <1>3, <1>4, NextKinds, Zenon DEF Kinds

LEMMA InitExclusive == Init => Exclusive
<1> SUFFICES ASSUME Init PROVE Exclusive
    OBVIOUS
<1>1. /\ sem["c_pb_sem"] = 0 /\ sem["noise_sem"] = 0 /\ main = "idle"
      /\ \A t \in Threads : pc[t] = "none"
    BY DEF Init, Semaphores
<1>2. Alive = {} /\ PlaybackHolders = {} /\ NoiseHolders = {}
    BY <1>1 DEF Alive, PlaybackHolders, NoiseHolders
<1> QED BY <1>1, <1>2 DEF Exclusive, Unused, Admits

LEMMA StepExclusive == Types /\ Types' /\ Exclusive /\ [Next]_vars => Exclusive'
<1> SUFFICES ASSUME Types, Types', Exclusive, [Next]_vars PROVE Exclusive'
    OBVIOUS
<1>1. Unused'
    BY StepUnused DEF Exclusive
<1>2. RingStep /\ NoiseStep
    <2>1. CASE UNCHANGED vars
        BY <2>1, MainHolds, NeutralStep DEF vars, mainVars
    <2>2. CASE TeamSpeak \/ Callback
        BY <2>2, CallbackSections DEF Exclusive
    <2>3. ASSUME NEW p \in Pairs, Play(p) \/ Acquire(p) PROVE RingStep /\ NoiseStep
        BY <2>3, PlaySections, AcquireSections
    <2> QED BY <2>1, <2>2, <2>3, Zenon DEF Next
<1>3. /\ resetInUse \in BOOLEAN /\ resetInUse' \in BOOLEAN
      /\ sem["c_pb_sem"] \in Nat /\ sem["noise_sem"] \in Nat
    <2>1. sem["c_pb_sem"] \in Nat /\ sem["noise_sem"] \in Nat
        BY DEF Types, Counted, Semaphores
    <2> QED BY <2>1, Zenon DEF Types, Marks
<1>4. resetInUse' \/ Admits(sem'["c_pb_sem"], PlaybackHolders')
    BY <1>2, <1>3, SemStepAdmits, Zenon DEF RingStep, Exclusive
<1>5. resetInUse' \/ Admits(sem'["noise_sem"], NoiseHolders')
    BY <1>2, <1>3, SemStepAdmits, Zenon DEF NoiseStep, Exclusive
<1> QED BY <1>1, <1>4, <1>5, Zenon DEF Exclusive

LEMMA AdmitsOne ==
    ASSUME NEW n, NEW holders, Admits(n, holders)
    PROVE  n + Cardinality(holders) <= 1
<1>1. CASE holders = {}
    <2>1. Cardinality(holders) = 0
        BY <1>1, FS_EmptySet
    <2> QED BY <2>1 DEF Admits
<1>2. CASE holders # {}
    <2>1. PICK t \in holders : holders = {t}
        BY <1>2 DEF Admits
    <2>2. Cardinality(holders) = 1 /\ n = 0
        BY <1>2, <2>1, FS_Singleton DEF Admits
    <2> QED BY <2>2
<1> QED BY <1>1, <1>2

(* Each semaphore admits one thread of all pairs, and the main thread, and counts it,
   for any number of pairs and loads, as long as no connection initialises one that is
   held (plugin.c:239-260, 332-362, 579-580). *)
THEOREM MutualExclusion == Spec => []SectionsExclusive
<1>1. Exclusive => SectionsExclusive
    BY AdmitsOne, Zenon DEF Exclusive, SectionsExclusive
<1> QED BY <1>1, InitExclusive, StepExclusive, TypesAlways, PTL DEF Spec
=============================================================================
