# Verification of the TeamSpeak GSM call gateway

TLA+ models, TLC runs and TLAPS proofs for the TeamSpeak 3 plugin
(`src/ts3client-pluginsdk`) and the TTGO T-Call firmware (`src/ttgo`) that carry
a GSM phone call into a TeamSpeak channel. File and line references below are
relative to `src/`; `plugin.c`, `server.c`, `settings.c` are in
`ts3client-pluginsdk/src`, `at_commands.c` and `noise_clean.c` in its `utils`,
`main.ino`, `SIMutils.cpp` and `TSutils.cpp` in `ttgo/main`.

## 1. Inventory

| Component | State | Operations | Talks to |
|---|---|---|---|
| Playback ring (`plugin.c:176-365`) | `audio_buffer`, `audio_buffer_pos`, `audio_buffer_played`, semaphore `c_pb_sem`; the two threads' locals | `main_loop_acquire`: receive, wait for room, store, publish; `main_loop_play`: check, copy and zero, release, deliver | UDP socket (`server.c`), TeamSpeak's capture device |
| Voice to the board (`plugin.c:197-233`, `server.c:56-120`) | pacing clock `start`, packets | pace, resample, convert to 8 bits, cut into packets | TeamSpeak's playback device, UDP |
| Chat commands (`plugin.c:592-648`, `at_commands.c`) | none of its own | parse a chat line, format AT commands, run one or several, reply | command client, TeamSpeak |
| Command client (`at_commands.c:340-387`) | one TCP connection | connect, send, receive one answer | firmware `taskloop` |
| Noise recording (`at_commands.c:315-338`, `plugin.c:292-328`) | `recording_noise` (one on each side), `recorded_noise_samples`, `noise_sem` | start, count, stop | firmware flag of the same name |
| Noise profile (`noise_clean.c`) | status, profile file | load or compute a profile, remove noise | files |
| Plugin life cycle (`plugin.c:124-173, 368-389, 438-590`) | threads `t1`, `t2`, socket, semaphores | init, connection established, noise recording, shutdown, unload | TeamSpeak |
| Settings (`settings.c`) | option variables | find and parse `settings.ini`, prefer the environment | files |
| Logger (`utils/clog.h`) | per source file: a flag, a spinlock, the static buffers of a line | set up at the first line, log, clean up at exit | the threads that log, `exit` |
| Call control (`main.ino:247-336`, `SIMutils.cpp`) | `call_in_progress`, `ACCEPT_ONLY_PB`, `recording_noise`, the serial line's buffers | serve a client, forward a command and its answer, parse the modem's messages, answer calls | SIM800 modem over a serial line, command client over TCP |
| Firmware audio (`main.ino:97-129, 340-393`, `TSutils.cpp`) | downlink ring `audio_buffer`, uplink ring `audio2send_buffer`, their cursors | timer interrupt (play one, sample one), `loop()` (send, receive) | UDP, DAC and ADC |
| Modem set-up (`main.ino:131-244`) | none | pins, power, WiFi, modem restart | hardware |
| Vendored code | TeamSpeak SDK headers, `sdft.h` | | |

How the parts interact: two threads of the plugin share one ring; the plugin
and the firmware exchange audio as UDP datagrams (lost without notice) and
commands over one short TCP connection each; `taskloop` on core 0, `loop()` on
core 1 and the timer interrupt share flags and rings on the board; the modem
speaks to `taskloop` over a serial line that mixes answers with unsolicited
messages.

What is hard: lock-free stores next to a locked copy; two polling loops that
must not wait for each other; full and empty looking alike; a flag that mirrors
the modem's state by searching words in chunks of text whose boundaries depend
on timing; messages swallowed by a command's answer window; a blocking receive
without a timeout; an interrupt that shares cursors with a task; restarts that
lose settings; callbacks that set up semaphores, sockets and threads again while the
threads of the connection before still use them; a logger whose set-up and clean-up
race with its lines; two clocks, of the plugin and of the board, that nothing
synchronises. `PROJECT.json` lists each hazard at its line, with the
properties that cover it.

What makes each part correct:

* playback ring: no two accesses to a cell at once, cursors and stores inside
  the array, no mutual wait, audio heard in order, nothing invented, losses only
  of the two known kinds;
* call control: the flag agrees with the modem, callers are answered and
  filtered as documented, commands return;
* firmware audio: accesses inside the rings, packets cut from fresh samples,
  backlog bounded;
* commands: the right AT commands in the right order, a defined reply, a modem
  left in command mode;
* life cycle: one reader of the ring, sections that exclude each other, and a
  shutdown that ends what runs;
* voice: never sent faster than it is played, so that a ring without a test for
  room has room;
* logger: lines of one piece, inside their buffer, that end.

## 2. Modules

| Module | Models | Extends / instantiates |
|---|---|---|
| `AudioStream` | what the playback ring promises: a lossy first-in first-out stream | |
| `PlaybackRing` | the ring and its two threads | instance `Stream` of `AudioStream` (refinement mapping) |
| `PlaybackRing_proofs` | theorems about `PlaybackRing` | `PlaybackRing`, `TLAPS` |
| `CallControl` | `taskloop`, `parse_serial`, `at_send_command`, and the modem (external) | |
| `CallControl_proofs` | theorems about it | the module, `SequenceTheorems`, `TLAPS` |
| `LappingStream` | what the two rings of the firmware promise: a stream that forgets whole laps, oldest first | |
| `FirmwareDownlink` | `get_audio_data`, the second half of `loop()`, and the first half of `timer_callback` | instance `Stream` of `LappingStream` |
| `FirmwareUplink` | the second half of `timer_callback`, the first half of `loop()`, and `send_data` | instance `Stream` of `LappingStream` |
| `FirmwareDownlink_proofs`, `FirmwareUplink_proofs` | theorems about them | the module, `SequenceTheorems`, `TLAPS` |
| `AtCommands` | `ts3plugin_onTextMessageEvent`, `at_process_command`, what `at_send_command` makes of a failure, and the modem's modes and text prompt (external) | |
| `AtCommands_proofs` | theorems about it | the module, `FiniteSetTheorems`, `SequenceTheorems`, `TLAPS` |
| `PluginLife` | `plugin.c`'s callbacks (init, connection, `record_noise`, shutdown), its two threads as sections, `load_settings`, `start_udp_socket` | |
| `PluginLife_proofs` | theorems about it | the module, `TLAPS` |
| `VoicePath` | pacing in `main_loop_play`, `send_voice`, the network and the board's socket (external), the downlink ring as a number of samples, with time | |
| `VoicePath_proofs` | theorems about it | the module, `TLAPS` |
| `Logger` | one source file's copy of `clog.h` | |
| `Logger_proofs` | theorems about it | the module, `TLAPS` |
| `MC*` | small instances for TLC | the module of the same name |

### PlaybackRing

State and names are those of `plugin.c`. The unit of interleaving is one cell:
`StoreSample` is one round of the store loop (no semaphore), `CopySample` one
round of the copy-and-zero loop (semaphore held, so `StartWriting` and
`PublishSamples`, which need it, wait). `Receive` and `Deliver` are `recvfrom`
and `processCustomCaptureData`. A round of a polling loop that finds nothing
changes nothing and is left to stuttering. A sample is its number in order of
arrival, and 0 is silence, so order, repetition and loss are visible in the
cells; the conversion of a byte to a sample (`plugin.c:351`) does not touch
them. The noise branch is left out: `noise_cancelnoise` is 0 by default and its
buffer is only filled by disabled code (`plugin.c:306-326`). What the branch and a
failing `recvfrom` lead to is in `PluginLife`.

`AudioStream` has no cells, cursors or threads: a datagram is offered, a prefix
of it is accepted, or it fills the buffer exactly and everything is lost
(`Overrun`), and chunks are played from the front. The mapping takes the cells
between the cursors for the buffered samples; while a chunk is being copied its
copied part comes from `chunk`, and the chunk counts as heard from the moment
the cursor moves. `ImplementsAudioStream` says that every step of the ring is a
step of the stream or a stutter. The overrun is part of the abstract promise
because the code has it; that it contradicts the comment at `plugin.c:238` is
what the run `playback_ring_overrun` shows.

### CallControl

`taskloop` is a cycle `accept`, `command`, `window`, `modem`. `readString`
returns what came until a second of silence, so an action that reads takes any
non-empty prefix of the unread messages as one chunk (`ReadReply` in the window
after a command, `ParseSerial` otherwise). A message is what it says and who rings
(for `RING` with its `+CLIP` line); all words that `parse_serial` does not know,
`OK`, `ERROR`, `+CME ERROR` and `NO DIALTONE` among them, are `RESULT`. The modem
is external: it executes commands in order, has one call and possibly a second
one, repeats `RING`, may refuse a dial or an answer (`Refuse`; `MayRefuse` says which,
so that a run can also look at a modem that refuses nothing), and may or may not take a
merely ringing call on `AT+CHLD=2`. What it answers to a query (`ExecuteQuery`: a list
of texts or contacts) may hold the words `parse_serial` looks for. `loop()` writes its
keep-alive between two commands or into the middle of one that `taskloop` is writing,
which is then no command any more (`KeepAlive`). `at_send_command` is `Connect`, `Send`, `Receive`; the connection
is closed when the `WiFiClient` goes out of scope, at the end of the cycle
(`NextRound`).

`misled` is a history variable. It becomes true when something happens that
`parse_serial` cannot see through; `FlagTellsCall` says that otherwise the flag
agrees with the modem whenever all is quiet. There are seven such events: the words
that end a call are read inside a command's window; they are parsed while the modem
has another call; a new caller rings before the answer to an earlier one gets to the
modem; the plugin hangs up; the plugin dials while the phone rings; the modem refuses
to dial or to answer (`call_in_progress` has been set before it is asked, and no word
of its refusal is one that `parse_serial` knows); the keep-alive spoils a dial. None can
be left out: without any one of them TLC finds the flag wrong.

Left out: the debugging console; a serial buffer that overflows; `!STOPTEXT!`, which no
code of the plugin sends; commands hidden in parameters, the text prompt, and failing
`connect`, `send` and `recv`, which are in `AtCommands`.

### FirmwareDownlink, FirmwareUplink, LappingStream

`setup()` and `loop()` run on core 1; the timer is set up there
(`main.ino:214-215`), so its interrupt comes on core 1 too. A critical section
of `loop()` and the whole interrupt are therefore single steps of these models,
and everything of `loop()` outside of a critical section is interleaved with the
interrupt: the byte-wise copy in `send_data` (`CopySample`) above all. The flags
belong to `taskloop` on core 0 and change at any moment.

*Downlink.* `GetAudioData` takes a datagram and leaves out its last two bytes, as
`get_audio_data` does; `StoreFirst` and `StoreRest` are the two critical
sections; `PlaySample` is the interrupt. There is no test for room: a writer
that laps the reader makes a whole lap of audio vanish. `played_audio_pos` starts
at `buf_sz`, one behind the last cell (`main.ino:72`), so the first interrupt of
the first call plays and zeroes the byte behind the array and a lap of silence
follows (4095 samples, half a second): the `FalseStart` of `LappingStream`.
The models have a cell for that byte and name its content `Foreign`.
Datagrams of one or two bytes, whose length would become 0 or negative, are left
out: the plugin sends 512.

*Uplink.* `ReadCursor` is the critical section in which `loop()` computes its
backlog, modulo `max_audio2send`, and what follows from it; a packet that
reaches the end of the ring goes out as two datagrams, the second of them
possibly empty (`PlaybackRing` accepts an empty datagram: `Receive(0)`).
`RoundTicks` stands for time: at most that many interrupts come between two
readings of the cursor. That loop() sends only the remainder of the backlog has a
consequence the code does not mention: a delay of 512 samples (64 ms) or more,
however it came up, is never made good, neither in this call nor in the next one
(`DelayNeverShrinks`). How short a round must be for this never to happen is the
content of `KeepsUp` and of the theorem `ShortRoundsSuffice`: 256 + `RoundTicks`
< 512, that is less than 32 ms.

### AtCommands

`CallControl` follows one command through the board; `AtCommands` looks at the
same path from the chat, where a command is one of several of a request. The
dispatch of `at_process_command` is a table (`PhonebookRows`, `TextRows`,
`OtherRows`): word, verb, number of parameters, permission, commands, source of
the reply. A request without a row, or whose row needs what is not permitted, is
refused without a word. A row with several sequences of commands leaves open which
of them it is. Some are undefined behaviour: a text that is not there is read from
behind the line and sent, or crashes the encoder; `help` reads a file it does not check
into a buffer it does not terminate. Others depend on what the model knows of a
parameter, which is whether it fits:

* `Pasted`: parameters are put into a command as they are (`at_commands.c:20-48`, `135`,
  `170`, `178`). One with a quote, a comma, a semicolon or a line break makes another
  command, or several, of it: `altered`, which may do anything that the modem can do
  (`ExecuteAltered`; `done` then holds "anything").
* `Sending`: the text is the one that was typed, or comes from another place of the line
  (`at_commands.c:456`), ends at the first character that UCS-2 does not have (`:75`),
  or is longer than the 1024 bytes the board reads (`main.ino:262`) and loses the
  character that ends it.

`Delivered` is where such a command or text is noted (`Distorted`).

`src/README.md:167` says that any standard AT command can be sent. The table has
no row that passes a command through: only the nine words of `at_commands.c:425-466`
are known. No run is spent on this; the table itself shows it (section 7 has the other
disagreements).

A command is `Answered`, `Unanswered` (the board has it, `recv` fails) or `Lost`
(`connect` or `send` fails); whichever, the request goes on. The modem executes
what it is sent in order, or refuses it. It keeps the character set it was told last; in text mode,
`CMGS` opens a prompt, in which everything up to the next text is swallowed.
`KeepAlive` is the `AT` that `loop()` writes from the other core every minute:
between two commands, or into the middle of one, since `taskloop` writes
character by character.

`disturbed` is a history variable like `misled`: a text is sent, as it was typed and to
its number, unless it was not taken from its line, the encoder stopped in it or in the
number, it was too long, one of its commands was lost or refused or the text was,
something else came into one of them or between `CMGS` and the text (a keep-alive, or
what `taskloop` itself answers a caller), the board restarted, or a parameter made the
modem do anything. None of these can be left out: without any one of them TLC finds a
violation. What `TextAsTyped` and `TextIsSent` are about, then, is the rest: queues,
modes and prompts that one request leaves to the next.

`OnlyWhatIsPermitted` is as narrow: the tests of `allow_...` hold, in whatever order
things happen and whatever is lost, as long as no parameter is `altered`. With one that
is, every permission can be got around, also by a request that needs none (section 7).

Of names, numbers and texts only the above is in the model, and nothing of answers'
lengths. A terminator written as a pointer (`at_commands.c:84`) can overwrite anything;
the model assumes that it overwrites nothing that matters. Left out too are commands
that TCP delivers in parts, the debugging console, and a line that consists of the
keyword alone, whose length becomes negative (`plugin.c:613`).

### PluginLife

TeamSpeak's main thread makes one callback at a time (`main` is where it is in
one); every established connection starts a pair of threads, whose local state is
`pc[<<"play", p>>]` and `pc[<<"acquire", p>>]`. `PlaybackRing` has one pair and
looks at cells; here pairs come and go, the ring's tests come out either way, and a
step is a section of a semaphore, a system call or a callback's statement that other
threads can see.

The globals are one for all pairs, as in the code: `socket_desc` is overwritten by
each play thread, `t1` and `t2` by each connection, and `sem_init` is called on
semaphores that may be held (`resetInUse`). No code closes a socket, so the port of
every pair stays bound until the process ends, and `bind` ends the process when it
finds its port taken (`server.c:36`, `plugin.c:179`). That is what keeps a second
reader away from the ring (`OnePlayer`): not a test, but an `exit`. An acquire thread
that gets to `recvfrom` before the socket is there reads the standard input,
descriptor 0, gets -1, and as `size_t` this passes for a large datagram. That this
ends TeamSpeak, like the buffer that noise cancelling reads and nothing allocates
(`plugin.c:353`), is in the model (`CrashProcess`), but no property is
made of it: nothing in the code stands in the way of these crashes.

`Unload` is TeamSpeak's: it unmaps the plugin after `ts3plugin_shutdown`, which
cancels threads without joining them; one that has not ended crashes TeamSpeak.
`ts3plugin_init` runs in a fresh copy of the plugin's variables, of a process whose
ports are as they were.

`load_settings` decides where a value comes from: environment, file, default; a
missing file falls back on a path that names a directory. Strings are left out, among
them the path of the noise recording, which is put together from a buffer that
nothing has written unless the option begins with `~` (`plugin.c:278-288`). The logger is not called here: what a thread that is cancelled
inside of it leaves behind is in section 6.

### VoicePath

`FirmwareDownlink` shows what happens when the writer laps the reader; `VoicePath`
asks whether the plugin's voice can make it. It adds time: a `Tick` is a sample's
125 us, in which the interrupt plays one. `since` is `now - start` of
`plugin.c:197-233`; `lead` is how much voice has been sent ahead of the time that
passed, and both saturate where nothing depends on them any more. A block is one
datagram: soxr turns 3072 samples at 48 kHz into 512 at 8 kHz at most, for which there
is room, and `send_voice` cuts at 512. The board's ring is counted, not
followed cell by cell; what it holds when a call begins is history
(`emptyAtStart`). `loop()` reads a datagram only during a call, so before one the
socket's queue fills up.

`VoiceAssumption` names the condition under which there is room: what the socket
and the network hold, and one datagram, fit into the ring. With the code's numbers
(510 bytes kept of 512, 4096 cells) socket and network may hold seven datagrams
between them; both are external, so their limits are constants.

### Logger

`clog.h` keeps its state in `static` variables of a header, so each source file has
a flag, a lock and buffers of its own; `Logger` is one such copy. `Log` is the
macro's call; the labels of `pc` are the places between two accesses to shared
state. `clog_init` sets the flag by compare-and-exchange and the lock afterwards
(`ClearMutex`); `exit` gives the flag back, not the lock. `clearedInUse` is a
history variable: the lock was cleared while a thread held it. The buffers hold who
wrote them and how long the text is; `LineLength` is the sum that
`clog_log_impl` keeps in `len` and never compares with the buffer.

Left out: the branches for Windows, the setters that nobody calls after
start-up, levels (a line below the minimum changes nothing), and cancellation.

## 3. Runs

| Run | Shows | Bounds |
|---|---|---|
| `playback_ring` | type invariant, absence of races, no mutual wait, order with nothing invented, refinement of `AudioStream`, the writer gets room | 6 cells, chunks of 2, datagrams up to 4, 15 samples |
| `playback_ring_overrun` | violation: a full ring reads as empty | the same |
| `call_flag` | type invariant, `FlagTellsCall` | two callers (one in the phonebook), two calls, two commands out of four (a query among them), one keep-alive, a modem that may refuse, three unread messages |
| `call_served` | `CommandReturns`, `KnownCallerServed` | two calls, one command out of four, one restart, a modem that may refuse, two unread messages |
| `call_hang_up` | violation: after a hang-up no caller gets an `ATA` | two calls, `ATH`, a modem that refuses nothing |
| `firmware_downlink` | type invariant, copies inside the ring, refinement of `LappingStream`, and with it the order of what is played | 4 cells, datagrams up to 5 bytes, 22 bytes received |
| `firmware_uplink` | type invariant, no cell overwritten while it is copied, `KeepsUp`, refinement, backlog is sent | 12 cells, packets below 6, threshold 3, 2 interrupts a round, 40 samples |
| `firmware_uplink_slow` | accesses inside the ring, `DelayNeverShrinks` | 10 cells, packets below 5, threshold 2, 6 interrupts a round, 30 samples |
| `at_requests` | type invariant, only what is permitted is done, the reply is what the answers make it, a text is sent, and as typed | two requests of all kinds, four settings, one failure, one keep-alive, one restart |
| `plugin_life` | type invariant, one reader, how long two pairs fill the ring, sections, what a taken port does, a shutdown ends the last pair | two loads, two pairs, two environments, one file besides the empty one |
| `voice_path` | type invariant, `NeverAhead`, `RoomForBacklog`, `BacklogDrains` | blocks of 8 samples of which 6 are kept, a ring of 38, three datagrams at the socket, two in the network |
| `logger` | type invariant, whole lines, lines inside the buffer, every line ends | two threads, the code's sizes, messages and locations of length 0 and 5000, one exit |

Why the bounds are enough. The ring has three chunks, so that a cursor can be
behind, ahead, equal and wrapped, and a datagram can be longer than what is left
before the end; fifteen samples go round it two and a half times. For the call,
a chunk of three messages holds `RING`, `NO CARRIER` and the next `RING`; two
calls suffice for one to be mistaken for the other. In
the firmware's rings the sizes that are sent do not divide the ring (1, 2 and 3 of
4 cells; 4 and 5 of 12; 3 and 4 of 10), so both cursors come to stand on every
cell, a packet reaches the end exactly, by less and not at all, and the last
sample is on the third lap or later; the downlink's writer laps its reader several
times, and the slow uplink falls behind by more than a packet. `MaxUnread` also
keeps the
modem from ringing on while its commands pile up; in the code the modem answers
within milliseconds and rings every few seconds. `call_flag` explores no further
once `misled` is true (`CONSTRAINT`): from there its invariant says nothing
until a restart. Restarts are in `call_served`, and in the theorem `FlagIsRight`,
which has neither bound.
Two chat requests are enough for a mode, a prompt or a queue that one request left to
meet the commands of another; requests of the same row differ in nothing the model
knows. In the four settings any one permission is given where any other is not, so a
test of the wrong permission, or of none, shows. `call_hang_up` has a modem that refuses
nothing, so that what it finds has no other cause than the hang-up.

Two pairs are a connection and its successor, two loads an unloading and what it
leaves in the process; every hazard of the life cycle is between a pair and the one
before or after it. The environment gives no port or one, the file the same port or
none, so the second load finds its port taken, or free. In `voice_path` the ring is as
small as its assumption allows (36 < 38), so one datagram more would lap; sizes do not
divide it, so the ring wraps at every remainder. A third thread in `logger` would wait
where the second waits; of the lengths, 0 leaves the location out and 5000 is
cut. `logger` and `plugin_life` take one and two minutes, most of it for liveness.

`CHECK_DEADLOCK FALSE` in the ring's runs: when the last datagram has been
played both threads poll, which is stuttering. So it is in those of `AtCommands`:
nobody need ask again, and TeamSpeak may have crashed or wait for noise for ever.
In `plugin_life` the process may have exited or crashed, in `logger` both threads may
have called `exit` or wait for one who did.

Fairness. In `PlaybackRing`, weak fairness of each thread's steps: the threads
run for ever and the scheduler starves neither; nothing is assumed of the
network. In `CallControl`, weak fairness of the plugin's send and receive, of
`taskloop` and of the modem's command execution and ringing; none of callers,
commands, keep-alives or restarts. `RING` comes every few seconds and
`readString` waits for one second of silence, so a chunk now and then ends with
the last message (`ReadAll`), and the line is found silent again and again:
hence strong fairness of the two steps that wait for silence. In
`FirmwareUplink`, weak fairness of `loop()`'s steps: it is the only task of its
core and waits for nothing; none of the interrupt or of the flags. In `PluginLife`,
weak fairness of each thread and of a callback that has begun, as long as the process
is up; TeamSpeak itself need call nothing. In `VoicePath`, of time and of
`loop()`'s reading; nothing is assumed of the plugin or of the network. In `Logger`,
weak fairness of each thread's steps and strong fairness of taking the lock: a
spinning thread is not guaranteed the lock by the code, but no thread logs without a
pause, so it finds the lock free again and again.

## 4. Proofs

`PlaybackRing_proofs` proves, for every buffer size that is a multiple of the
chunk (`RingAssumption`; 6144 = 24 * 256 in the code), every datagram size and
any number of samples:

* `TypeCorrect`: `Spec => []TypeOK`;
* `StoreBounds`: the unchecked index `audio_buffer_pos + i` stays inside the array;
* `RaceFreedom`: `Spec => []NoDataRace`;
* `Progress`: `Spec => []NoMutualWait`;
* `RingImplementsStream`: `Spec => ImplementsAudioStream`, the refinement;
* `HeardInOrder`: `Spec => []AudioInOrder`.

None of these is inductive. `IInv` adds: while the acquire thread stores, what
is left to store fits before the end of the array, and the read cursor is
either behind the write cursor or beyond all that will be stored
(`RoomToWrite`); while the play thread copies, it holds the semaphore and the
buffer holds a whole chunk (`ChunkToCopy`); the read cursor is a multiple of
the chunk (`ChunkAligned`); and the datagram in hand has been received
(`DatagramReceived`). The step that matters is `ReleaseChunk` during a store:
the cursor moves by one chunk, does not pass the write cursor because a whole
chunk was available, and wraps to 0 exactly because chunks never straddle the
end (`ChunkFits`). That same alignment gives `Progress`: a write cursor behind
the read cursor leaves at least one chunk to play.

The refinement needs two facts more. `StoredFaithfully`: the part of a datagram that
has been stored is still in its cells, which the copy-and-zero loop cannot reach
because it stays behind the write cursor; so publishing it appends just that prefix.
`BufferWellMapped`: the sequence the mapping reads from ring and chunk is one of
samples, as long as the cursors say; while a chunk is copied, its samples are taken
from where they are at the moment, and the sequence does not change. Every step of the
two threads is then an `Offer`, `Accept`, `Overrun` or `Play` of the stream, or a
stutter. `HeardInOrder` is proved of the stream (`InOrderInv`: what is heard,
buffered and offered is increasing, one before the other, and delivered) and carried
over by the refinement.

`FirmwareUplink_proofs` proves, for every ring that holds a whole number (two or
more) of packets and every threshold below a packet (`UplinkAssumption`;
6144 = 12 * 512 and 256 in the code):

* `TypeCorrect`: `Spec => []TypeOK`;
* `PacketBounds`: `Spec => []PacketsInBounds`;
* `DelayStays`: `Spec => DelayNeverShrinks`;

and if rounds are short, `Threshold + RoundTicks < max_audio2send`:

* `ShortRoundsSuffice`: `Spec => [](KeepsUp /\ CopyUndisturbed)`, and
  `ShortRoundsLeaveCopiesAlone` for the second alone;
* `UplinkImplementsStream`: `Spec => ImplementsLappingStream`.

The inductive invariant adds to `TypeOK` that the cursors tell what is unsent up
to whole laps (`CursorsTell`) and that a packet under way has been recorded and
is sent by the branch that fits it (`PacketPending`). From it follows the fact
all of this rests on (`ToSendIsRemainder`): because the ring is a whole number of
packets, the backlog the code computes has the same remainder as the true one,
laps or not. `KeepingUp` counts, on top of it, what can have come up since the
cursor was read; `StandingRemains` is the part of the backlog that a round leaves
alone, and is what `DelayStays` needs.

The refinement needs short rounds: with long ones the interrupt may overtake a packet
that is being copied and tear it. `CursorsMeet` says that then the ring is never full, so that
the distance of the cursors is what is unsent, without laps, and the stream never
forgets one; `WriterOutsidePacket`, that the interrupt's cursor is in no cell of
the packet in hand, copied or not; hence `PacketCopied`: what `send_data` has copied
is what the ring still holds, and the datagram is the front of what is unsent. The
second, possibly empty datagram of a backlog that wraps is a `Take` like any other.

`FirmwareDownlink_proofs` proves, for every `buf_sz` larger than what a datagram
leaves (`DownlinkAssumption`):

* `TypeCorrect`: `Spec => []TypeOK`;
* `CopyBounds`: `Spec => []CopiesInBounds`. What the second, unchecked copy needs is
  that it starts at cell 0 (`RestAtStart`) and that its length is below `buf_sz`
  (`DatagramReceived`);
* `DownlinkImplementsStream`: `Spec => ImplementsLappingStream`.

Here nothing is assumed of time: the writer may lap the reader as often as it likes,
and the refinement says that a lap is all that is lost. `RemainingIs` and `Stored` are
its heart: after n samples have been stored, the distance of the cursors is what the
stream keeps, all of it or all but one lap, and the cells from the read cursor on hold
just the newest of the old samples and the new ones, however often either end has
wrapped. `StoreInv` adds to the invariant that a copy under way has something to
copy (the stream has no empty store) and that the byte behind the array is untouched
until the first interrupt plays it (no copy reaches it, since none passes the end),
which makes that interrupt the stream's false start.

`AtCommands_proofs` proves, for any set of requests, any settings and any numbers of
requests, failures, keep-alives and restarts:

* `TypeCorrect`: `Spec => []TypeOK`;
* `PermissionsHold`: `Spec => []OnlyWhatIsPermitted`;
* `RepliesTellAnswers`: `Spec => []ReplyTellsAnswers`;
* `TextsLeaveAsTyped`: `Spec => TextAsTyped`;
* `TextsAreSent`: `Spec => []TextIsSent`.

`PermissionsHold` and the two theorems about texts say what their properties say and no
more: the first is about parameters that are what they should be, the others name the
events after which they promise nothing. For permissions, the invariant says that no command yet to be sent
or executed does what is not permitted (`PermittedAhead`), whether the modem will
take it for a command or for a text; it rests on `RowsGood`: no row of the dispatch
sends a command with an effect for which the row does not test the permission. For
replies, `ReplyAhead` says that a missing answer shows from the moment it is missing.

Texts need to know the whole queue between the board and the modem, for a request may
be over long before the modem gets to its commands, and the next one add its own
behind them. `TextInv` says what the queue looks like while nothing has disturbed it:
each `CMGS` will find the modem in text mode and in UCS2, whatever it is in now
and whatever is ahead of the command (`EachAsks`, with `TextModeBy` and `UCS2By`);
it is followed by the text of its own request, or that text is what the request under
way has left to send (`RestOfText`); each text has its `CMGS` or its prompt before it
(`EachAnswers`, `Prompted`); nothing has been typed into a prompt that is not its text
(`Untyped`, `Orderly`); nothing in the queue is an altered command or another text than
the one typed (`Undistorted`); and when a request is over the newest text of the queue, or,
with none left, the one sent last, is its own (`NewestText`). A keep-alive is
harmless unless a prompt will be open when the modem gets to it. The model tells by
counting: more prompts than texts in the queue (`PromptAhead`). `NothingAsked` shows,
with an injection from the texts into the prompts that misses the last one, that where
the numbers agree no prompt is open at the end of the queue. TLC checked `TextInv` as an
invariant, with three requests and two keep-alives, before it was proved.

`PluginLife_proofs` proves, for any number of loads and pairs, any environment and any
file (`LifeAssumption`):

* `TypeCorrect`: `Spec => []TypeOK`;
* `OneReader`: `Spec => []OnePlayer`;
* `SecondWriterIsBrief`: `Spec => []SecondPairIsBrief`;
* `MutualExclusion`: `Spec => []SectionsExclusive`.

`OnePlayer` alone is not inductive: it needs that a started play thread has left its
port taken, and that the option that names the port does not change while a play
thread is alive. `Tied` says both: `Started(p) => Taken`; a thread at `bind` has
opened a socket; the plugin is loaded (when options change) only if every play thread
has ended; and the main thread is idle unless the plugin is in. Since most
steps change one label and one semaphore, each is first sorted into one of a
few kinds (`Kinds`), and the invariants are shown for the kinds (`NothingNew`).

`SecondPairIsBrief` follows from `OnePlayer` and `Accompanied`: an acquire thread has a
play thread beside it that is under way, or was cancelled. For `SectionsExclusive` the
count alone is not inductive; `Exclusive` says for each semaphore that it is 1 and
nobody is in its sections, or 0 and one thread is, or, before `sem_init`, nobody
(`Admits`), and that no thread is left from the load before (`Unused`). What a step
can do to a semaphore is again sorted into kinds (`SemStep`): wait, post, initialise,
load, or nothing that lets anybody in. It excepts, by name, a semaphore that was
initialised while a thread held it.

`VoicePath_proofs` proves, for all sizes for which `VoiceAssumption` holds:

* `TypeCorrect`: `Spec => []TypeOK`;
* `VoiceIsNotFaster`: `Spec => []NeverAhead`, by `Paced`: as much time as the clock
  shows has not yet been used for voice;
* `BacklogHasRoom`: `Spec => []RoomForBacklog`, by `BacklogFits`: in a call that began
  with an empty ring, what is in the ring, at the socket and in the network, plus the
  time since the last block, never exceeds what socket and network hold and one
  datagram. A block adds what its time has taken away, an interrupt removes a sample
  while the clock adds one; because every block takes *more* than its own duration,
  the sum does not grow.

`Logger_proofs` proves, for every set of threads and all sizes (`LoggerAssumption`):

* `TypeCorrect`: `Spec => []TypeOK`, which holds the lengths of the parts;
* `LinesFit`: `Spec => []WriteInBounds`, by `LineFits`, which adds the longest part of
  each kind, with every colour, and finds the sum below the 256 bytes left over for it;
* `LinesAreWhole`: `Spec => []LinesWhole`. Unless the lock was cleared in use, a thread
  inside is alone and the lock taken (`Alone`), and the parts it has been through are
  its own (`Done`); of this follows that the line written last is whole (`Whole`).

`CallControl_proofs` proves, for any callers, phonebook and commands, any number of
calls, commands, keep-alives and restarts, and chunks of any length:

* `TypeCorrect`: `Spec => []TypeOK`;
* `FlagIsRight`: `Spec => []FlagTellsCall`.

`FlagTellsCall` speaks of quiet states only; between them the flag runs ahead of the
modem or lags behind it. `FlagKept` says how far, unless taskloop has been misled.
`FlagSet`: the flag is set when there is a call, but also when an answer is on its way
to a call that rings, or an `ATD` to the modem. `FlagMeant`: a set flag without a call
means that an answer or an `ATD` is on its way or that the end of a call is still to
be read. The steps that matter are `ParseSerial`, which clears the flag of a chunk
that tells an end and at the same time may send an `ATA`, and `Execute`: an `ATA` for
a caller who has given up is answered with `NO CARRIER`, which takes the flag back.
A dial or an answer that is refused (`Refuse`) and a dial that is spoilt (`KeepAlive`)
leave the flag set for nothing. The seven events of `misled` are just the cases in which
the invariant would break.

Proved, then, are all invariants and action properties of the passing runs and the
three refinements. Only model-checked are the liveness properties, which are out of the
prover's reach like `ENABLED`, on which fairness rests: `WriterGetsRoom`,
`CommandReturns`, `KnownCallerServed`, `BacklogIsSent`, `TakenPortEndsProcess`,
`LastPairEnds`, `BacklogDrains` and `LinesEnd`. What can be said of them without
fairness is among the theorems: `Progress` (the two loops of the ring do not wait for
each other) and `DelayStays` (what a slow `loop()` has fallen behind by it never makes
good).

## 5. Plan

Every component with behaviour of its own has a module, and every safety property its
theorem. What is left:

1. to compose: the downlink's ring as a stream, with the clock of `VoicePath`, which
   counts its samples; both are modelled, and each has its theorems;
2. the safety half of the liveness properties: that nothing but the modem's silence
   keeps `taskloop` from answering a command (`CommandReturns`), and that a section is
   left by whoever is inside (`LastPairEnds`).

## 6. Not modelled

* `noise_clean.c` and `sdft.h`: nothing in the build calls `remove_noise`, whose only
  caller is disabled (`plugin.c:306-326`), and what it computes is floating point,
  out of TLC's reach. Read, not modelled: the recording may be longer than
  `MAX_INPUT`, into which it is read without a test (`noise_clean.c:117`); `mean`
  starts from its former value (`:75`); the profile is written to the file that was
  opened for reading the recording (`:79`); `load_noise_profile` returns 0 when it succeeds, and its
  caller takes that for the failure (`:179`).
* The TeamSpeak headers: declarations.
* Resampling by soxr: its output is a number of samples here.
* The Windows console of `clog.h`, its unused string helpers and setters.
* Cancellation inside the logger: `pthread_cancel` (`plugin.c:386`) may hit a thread
  in `fwrite`, a cancellation point, while it holds the spinlock of its source file.
  Every later line of that file then spins for ever. It takes a log level that lets
  the thread's line through at that moment.
* Strings: paths, names, numbers, texts; and with them the memory corruption of
  `at_commands.c:84`, after which no property of the code is left.
* `setup()` beyond what a restart resets: pins, power, WiFi, ADC and DAC.
* Containers, start scripts, the case.

## 7. Where documents and code disagree

Two disagreements are runs that end in a violation: the comment at `plugin.c:238`
(`playback_ring_overrun`) and `README.md:165` (`call_hang_up`). The others, seen while
modelling:

* `README.md:167`: commands are not passed through (see `AtCommands`), and what is
  printed is whatever the board's window of 100 ms held, not the response to the
  command, which may come later (`main.ino:297`; `ReadReply` and `EndWindow` of
  `CallControl`).
* `at_help.txt:11`: in phonebook mode a stranger is let in when an old `RING` of a known
  caller is acted on after that caller gave up and the stranger rings (`ParseSerial`).
* `at_help.txt:4`: what a text command sends is changed by one lost connection among
  its four (`AtCommands`, `disturbed`).
* `at_commands.c:98`: "converting to usc2 encoding to support emojis"; `iconv` to
  `UCS-2BE` stops at the first one, its result is ignored (`:75`), and what was before it
  is sent. Of a text over 255 characters the board reads the first 1024 bytes
  (`main.ino:262`), without the character that ends it, and the modem goes on waiting.
* `at_help.txt:4`: "text send" without a text sends what is in memory behind the line,
  or crashes (`at_commands.c:456`).
* `allow_...` of `settings.ini`: what is tested is the first words of a request; what
  its parameters add to the AT command is not (`at_commands.c:20-48`, `135`, `170`,
  `178`). A second command after a semicolon goes to the modem with a request that
  needs no permission, and a deletion with more fields than an index is a `CPBW` that
  writes a contact. `OnlyWhatIsPermitted` and its theorem do not cover such parameters.
* `plugin.c:213-214`: "a little bit faster" than 64 ms; the code waits for more than 64
  ms, and so is slower (`NeverAhead`).
* `clog.h:152`: "ensuring thread-safe setup"; the flag is set before the lock, and a
  lock taken in between is cleared (`clearedInUse`).
* `README.md:151` has `settings.ini` in TeamSpeak's directory; `settings.c:29` reads it
  from `~/.config/teamspeak-gsm`.
* `settings.ini.example` has no `allow_make_call`, whose default in the file is 0
  (`settings.c:100`).
* `settings.c:43-47`: the default path of the noise profile loses its file name, and
  that of the recording its home directory, since `strcpy` overwrites the wrong one.
