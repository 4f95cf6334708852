# A TLA+ verification of shield-development

The repository builds a DLL that is loaded into the game *Black Ops 4*, diverts
some of the game's functions and imports, and replaces its online services with
servers that live in the process. This directory holds TLA+ models of its parts,
the TLC configurations that check them on small instances, and theorems about
them that TLAPS checks for every instance.

Paths below are relative to `src/source/proxy-dll/` unless they say otherwise.

## The system

| Part | Source | State it keeps | Operations | Runs on |
|---|---|---|---|---|
| Component loader, process life cycle | `loader/`, `main.cpp` | sorted list of components, three static guards, `initialized` | `register_component`, `pre_start`, `post_unpack`, `pre_destroy`, `get_system_metrics`, `exit_hook` | static initializers, the main thread, any game thread that exits |
| Scheduler | `component/scheduler.cpp` | four pipelines with two task lists each, `kill`, async thread | `schedule`, `loop`, `once`, `execute`, frame stubs | any thread submits; async thread, render and main threads execute |
| Demonware, TCP | `component/demonware.cpp`, `demonware/servers/tcp_server.cpp`, `demonware/server_registry.hpp` | socket map, blocking modes, in/out queue per server, `exit_server` | `connect`, `send`, `recv`, `select`, `closesocket`, `ioctlsocket`, `frame` | game threads; one server thread |
| Demonware, UDP | same, `udp_server.cpp`, `stun_server.cpp` | in queue, one out queue per socket and server | `sendto`, `recvfrom`, `frame` | the same threads |
| Lobby session | `lobby_server.cpp`, `keys.cpp`, `reply.cpp`, `service.hpp`, `auth3_server.cpp` | transcript to hash, three keys, message counter, current task id | `handle`, `call_service`, `exec_task` | server thread |
| File share and pooled storage | `fileshare_server.cpp`, `fileshare.cpp`, `bdPooledStorage.cpp` | upload name, buffer and flag; metadata and data files | `PUT`, chunk, `GET`; pre/post upload, download, summary | server thread |
| Object store, profiles, stats | `bdObjectStore.cpp`, `bdProfiles.cpp`, `bdStats.cpp`, `objects.cpp` | files | read and write tasks | server thread |
| Name resolution | `component/demonware.cpp`, `server_registry.hpp`, `utilities/memory.cpp` | registry, allocator of the answers, a static answer per thread | `getaddrinfo`, `freeaddrinfo`, `gethostbyname`, `getpeername` | game threads |
| Buffers | `byte_buffer.cpp`, `bit_buffer.cpp`, `protobuf.cpp`, `data_types.hpp` | bytes, cursor, type-tag flag | typed reads and writes | any |
| Console window | `component/console.cpp` | input line, cursor, history, kill event | key input, print, resize | console thread, any printing thread |
| In-game console | `component/game_console.cpp`, `keycatchers.cpp` | output ring and scroll offset, input, history, matches | print, char, key, draw | main thread handles keys, renderer draws, any thread prints |
| Splash | `component/splash.cpp` | window handle, thread | show, destroy | window thread, loader's callers |
| Mods | `component/mods.cpp` | assets, redirects, caches, scripts of the mods | load, reload, lookup stubs | main thread loads, game threads look up |
| Custom scripts | `component/gsc_custom.cpp` | detours and linked scripts per instance | sync, link, find, report of issues | script threads |
| Script functions | `component/gsc_funcs.cpp` | HUD elements, JSON files, developer switch, error buffers | functions of scripts, draw | script and render threads |
| Hash lookup | `component/hashes.cpp`, `definitions/variables.cpp` | table from hashes to texts | load, add, look up | several |
| Commands and dvars | `component/command.cpp`, `dvars.cpp` | handlers, argument stacks, pointers | add, execute, params; find | main thread |
| Crash recovery | `component/blackbox.cpp`, `utilities/thread.cpp` | exception data per thread, recovery count | exception filter, dump, reset | the threads that crash |
| Utilities | `shared-code/utilities/` | settings document, ring of format buffers | read, write, `va`, signature search | any |
| The rest | `arxan.cpp`, `platform.cpp`, `lua.cpp`, ... | none, or the game's code bytes | patches at start-up | loader |

How they interact: `main.cpp` diverts the entry point, `GetSystemMetrics` and
`ExitProcess`; the loader calls every component through three virtual functions.
The scheduler's and demonware's threads are started by one of these calls and
joined by another, so shutdown of the loader depends on shutdown of both. Calls
of the game on sockets reach demonware's queues; the server thread takes packets
from them and calls the servers, which call the lobby's services and the file
share, which write files. Everything shared between threads is in a
`concurrency::container` (a mutex around an object), a few flags, or unlocked.

What is hard: passes over a list that is added to by any thread and by the
handlers themselves; tests without a lock followed by locked updates; handles the
operating system reuses; an exit at any moment on any thread; hooks that throw
half way through a list; protocols spread over two servers; a reload of the mods while
their assets and scripts are in use; a renderer that prepares what the main thread's
keys then act on; files that are written in two steps. Many small parts keep a table or
a stack for others, where the difficulty is the long sequence of legal calls.

`PROJECT.json` lists the hazards line by line, each with the properties that are about it.

## Modules

    TaskLifecycle  <-- implemented by --  Scheduler       (MCScheduler, SchedulerProofs)
    RequestReply   <-- implemented by --  DemonwareTcp    (MCDemonwareTcp, DemonwareTcpProofs)
                                          DemonwareUdp    (MCDemonwareUdp, DemonwareUdpProofs)
                                          ComponentLoader (MCComponentLoader, ComponentLoaderProofs)
                                          LobbySession, which extends LobbyServices (MCLobbySession, LobbySessionProofs)
    MCStorage    = PooledStorage | ObjectStore | NameResolution                 (StorageProofs)
    MCWindows    = GameConsoleInput | GameConsoleOutput | ConsoleWindow | Splash
                   | ScriptHud | Blackbox | Commands (commands | variables)     (WindowsProofs)
    MCContent    = Mods, which extends ModFiles | GscCustom (over ModFiles)
                   | Hashes | Settings                                          (StorageProofs)
    MCAlgorithms = Buffers | Protobuf | ScriptApi | GsicFile | Utilities | SavedJson

The four modules with `|` put parts next to each other that share no state: a behaviour
of such a module is one of one of its parts while the others stay where they start, so
the states of the parts add up and do not multiply. `SequenceFacts` holds the lemmas that
the proof modules share: on sequences, on what is selected from them, and on what is computed
from one position to the next. A module of theorems about several parts extends
their composition and speaks of the specification of each part (`SplashWindow!Spec`,
`Objects!Spec`), whose states are the ones its part of the run explores.

**Scheduler**. `callbacks` and `newCallbacks` are the two lists of each pipeline,
`owner[p]` is the holder of the recursive mutex for the length of a pass, `at[p]`
the iterator. A pass is `BeginPass` (lock, `merge_callbacks`), then `SkipTask`,
`CallTask` and `HandlerReturns` per task, then `EndPass`. While a handler runs, its
thread and all others can call `Schedule`; no mutex but that of the pass is held
across steps. Instead of `last_call` the model keeps the time left of each
interval, counted down by `Tick` to 0, the only fact `execute` derives from it.
`PreDestroy` can be called from inside a handler: the game may exit there, and the
pass then never ends. `ticket`, `calls` and `visited` are history.

**TaskLifecycle** is what a caller relies on: a task waits, runs, and waits again
or is done; tasks of one pipeline never run at the same time.

**DemonwareTcp**. One action per mutex-protected access and per unlocked test:
`send` is `SendFind`, `HandleInput`; `recv` is `RecvFind`, `RecvCheck`
(`pending_data`), `HandleOutput`; `select` is `SelectSnapshot`, `SelectReturns`;
`closesocket` is three `CloseStep`s in the code's order. `Socket` is the operating
system's and gives out any handle that is not open. The server thread is
`ResetExit`, `TestExit`, and per server `TakePacket`, `Handle`, `LeaveServer`.
Packets and bytes are numbers, counted per server; a handler answers with one
`send` of some length, possibly none, as the lobby, authentication, umbrella and
file share servers do. Unlocked tests of a queue read one word of it, so they are
atomic; a locked loop is one step. The writable and exceptional sets of `select`
touch no state and are left out, as is the time it waits.

**RequestReply** is what the game relies on: packets are answered in order, once,
and the bytes of the answers are read in order, once.

**DemonwareUdp**. `recvfrom` visits the servers in turn (`PendingData`,
`HandleOutput` per server, `RecvReturns`), each of the two under the mutex but not
both together. `lost` records the packets that a later server's packet overwrote.

**ComponentLoader**. `guard[h]` is the static local variable of each of
`pre_start`, `post_unpack`, `pre_destroy`: the first thread evaluates it
(`Begin`, `CallHook`, `HookThrows`, `EndLoop`), the others wait for `Evaluated`.
`Lands` is `push_back` and `stable_sort` in one: where the new component ends up in a
list that is in order. A component is known by when it creates its thread. The scheduler's and demonware's
`pre_destroy` are taken to return here: that is what `ShutdownCompletes` of their
own modules says, with the exception named there.

**LobbySession** is the protocol on top of one TCP server's queues, message by
message: `authIn`, `authOut`, `lobbyIn` and `lobbyOut` are what RequestReply leaves of
the queues of two servers, and each `Handle...` action is one call of `handle` by
the server thread. `packetBuffer`, `data`, `taskId`, `msgCount` and `transaction` are the
globals, members and static locals of `keys.cpp`, `service.hpp`, `reply.cpp` and
`reply.hpp`. Cryptography is symbolic: `Derive(key, packets)` is a key that only the same
session key and the same packets give, and a task decrypted with another key could be
any task. The game (`Fresh` to `ReadAnswer`) is not in the repository. What the model
takes from the servers' code is the order of the messages, and one assumption: the
game hashes the packets of its own connection only. A game that leaves tells neither
server, and what it left in the queues is handled or read by its next connection.

**LobbyServices** is the table of the nineteen services: which task ids each
registers and which kinds of answer its handler can give. `"none"` is a handler that
throws out of `std::filesystem`; `lobby_server::handle` swallows it and sends nothing.

**PooledStorage** is a file upload and its download: `_preUpload` gives an id and
writes the metadata, `Put`, `Chunk` and `LastChunk` are packets of the file share server,
`_postUploadFile` and `_preUploadSummary` rewrite the metadata. `meta` and `files` are the
files on the disk; `Serialized` and `Valid` are what the conversion to JSON and back
drops and refuses. The game sends the packets of one upload in order; everything
else, of several uploads and a viewer, is interleaved. `flaws` is history: it records
which of four things happened to an upload, so that the properties can say that
nothing else goes wrong.

**ObjectStore** is the user's own objects and profile, one action per task. `known`
and `unsure` are history: what the responses have told the game. A write fails as a
whole or not at all; a disk that fills up in the middle of one is not modelled.

**GameConsoleInput** has the line of input. The main thread handles a key or a character
in one step; `draw_input` on the renderer takes several (it clears and finds
the matches, sets `fixed_input`, tests how many matches there are and takes the first for
the completion), and
the handlers fall between them. A line is a sequence of characters; which names match
is a choice, and a match is known by the input it was found for, which is all that
`KeysActOnWhatIsSeen` needs to tell a stale one. `seen` is history: how much of the
line the renderer has drawn since it last changed.

**GameConsoleOutput** is the ring of lines with `display_line_offset` and
`visible_line_count`, which are written outside its lock: ctrl-C is two steps.

**ConsoleWindow** is the row of the screen the cursor is in, drawn cell by cell as
`set_cursor_pos`, `clear_output` and `update` do; `Blank`, the prompt and the characters
are what the cells can hold. The console takes the cursor to the next row when the last cell of
a row is written (`Wraps`), and `set_cursor_pos` never takes it up again. Printing and keys hold `print_mutex` and are one step, a
resize is two. `kill` and `event` are what the thread waits for.

**Splash** has the window thread (`OwnerStep`) and one `HookStep` per call of
`destroy_window` for each place at which another thread can come between. The windows of
the operating system are modelled by what the code relies on.

**ModFiles** reads a mod: one operator per kind of entry, with every flaw the readers
notice (`flaws`) and the ones that throw out of `load_mods`. **Mods** has the loading
with its lock, and the look-ups of other threads in two steps,
`LookupRedirect` without the lock, `LookupAsset` under it. A directory is read as the list of its
`Entries`, one per step of `LoadOne`, by `ReadEntry`. `basis` is history: the
list that the last whole load has read; `ServesWholeLoads` recomputes from it what
should be offered (`Offered`), without the readers. `ModsAssumption` says what files can hold and that
a match is of values that can be hooked. **GsicFile** is the format of script
files in detail, byte counts included, with the debug section.

**GscCustom** links scripts. A script has imports with places (sites), a detour has a
body, and `links[i][script]` says where each place leads. The scripts of the mods come
from `ModFiles`' storage by `sync_gsic`; the game's linking of a group is external and
calls the stubs one script at a time. `latest_script_index` is kept per list of detours as
in the code. `gone` has the instances whose lists refer to scripts that a reload has destroyed. The
loops over files, over a group and over the lists are recursive functions of the position
reached (`LinkHooked`, `LinkGroup`, `LinkDetours`). `ScriptsAssumption` says that scripts lie at
addresses and that the game has the scripts of its groups. **ScriptApi** is the rest of a script's surroundings: looking functions up,
the switch for developers, the report of linking issues, errors and their texts, and the
nearest export of a position.

**ScriptHud** has the table of elements and a frame, **SavedJson** the two conversions of
trees of values, over recursive operators.

**Buffers** and **Protobuf** write and read byte by byte and bit by bit. An outcome of a read is `"ok"`, `"refused"` (a tag that is another) or stuck where
the code reads outside or divides by zero; a read of a byte that was never set has
several outcomes. **Hashes** uses a hash of the same shape as FNV-1a (a fold over
characters that can be continued), kept as the text that was folded, so that different
texts differ. A line of a precomputed file is its hash and the rest, a sequence in which the comma
and the blank are parts of their own, with the number of parts that begin in the characters that
are searched; a hash that is `full` takes all 18 characters that are copied. The lines of a file are read one by one;
`brought` is history: the lines that were come to, whatever was made of them. `HashesAssumption` says that
texts consist of `Parts` and lines have their fields.
**Settings** reads and writes the settings file, in two steps (`SettingsAssumption`: a
default has the type of its setting). **Commands** has the two
argument stacks of the game as the code uses them, and how variables are found. **NameResolution** has the allocator
block by block and a step for each call of it; `call` is how far a thread is in a stub. **Utilities** has the search for a signature, which
searches a memory in parts, and the ring of buffers of `va`. **Blackbox** has the threads of a process that crashes:
a thread that was asked to stop (`asked`) goes on until the system stops it (`Stop`), and `lock` is that of the heap
and the loader, for a thread that stops or crashes inside one of them.

## Runs

| Run | Instance | Checks | What it shows |
|---|---|---|---|
| `scheduler` | 2 game threads (one renders, one renders and runs `Com_Frame`), 3 tasks: looping and one-shot on `main`, one-shot on `async`; one interval of 1 | `NoTaskLost`, `TasksInOrder`, `ImplementsLifecycle`, `EventuallyCalled`, `ShutdownCompletes` | no interleaving of submission, merge, pass and shutdown loses, repeats, reorders or skips a task |
| `scheduler_server` | one task on `server`, one on `main` | `ServerTasksCalled` | violated: the pipeline that `scheduler.hpp` calls the game's server thread has no thread, its hook is commented out |
| `demonware_tcp` | 2 threads, 1 handle (closed and reused), 2 servers, 2 packets in all, answers of 0, 1 or 3 bytes, reads of up to 2 | `MapsAreFresh`, `EveryPacketOnce`, `ReadinessHolds`, `ImplementsRequestReply`, `EveryPacketAnswered`, `ShutdownCompletes` | maps, queues and thread keep their promises although tests and updates are separate steps |
| `demonware_udp` | 2 threads, 2 sockets, 2 servers, 2 packets | `AnswersOnceInOrder`, `EveryDiscoveryAnswered` | answers come once and in order, and the only way to lose one is to have asked two servers on one socket |
| `component_loader` | 2 game threads, 4 components: one of higher priority, one with a thread from its constructor, from `pre_start`, from `post_unpack` | `CallsInPlace`, `CleanExit`, `ExitCompletes` | racing starts and exits, with hooks that throw anywhere |
| `lobby_session` | 2 connections of one process, 2 tasks in each, 7 requests: a service without objects, one that may fail or throw, a list that may throw, the service without tasks, a structured reply, an unknown task, an unknown service | `TasksDecrypt`, `FirstHandshakeOnly`, `AnswersMatch`, `EveryoneAnswered` | keys never change under a task that waits, replies match requests, and only the first handshake of a process succeeds |
| `storage` | 2 films, a viewer, at most 1 chunk each, 2 seconds; 2 objects and a profile, 2 contents and the empty one, batches of up to 2, any files and directory to begin with; 2 threads, 3 names (a TCP server's, one left to the system, a blocked one) and 3 blocks | `DownloadIsUpload`, `UploadIsOffered`, `ResponsesAreTrue`, `ResolverIsTrue` | what is downloaded is what was uploaded unless two uploads shared a second or overlapped, a write failed or a description came early; responses report what is on the disk, by the index of the request; blocks of answers return to their owners, whatever the other thread does between two calls of the allocator |
| `console_input` | a letter and the slash, one name that matches, lines of 2 characters, a history of 1; 2 elements of scripts and 3 calls; 3 threads, 2 of which may crash, in 2 seconds; 2 spellings of a command, 2 levels of commands and texts; 3 spellings of variables, 2 of them in the table | `KeysActOnWhatIsSeen`, `DrawnAsAsked`, `CrashIsReported`, `CommandsAreOwn`, `VariablesAreTrue` | Enter and Tab act on the line that was drawn, wherever the keys fall between the steps of the renderer; a frame draws each element with the text, place, scale and colour the last calls asked for; of the threads that crash together one reports it, unless they freeze each other or one is frozen inside the heap; handlers read their own arguments; the client finds the variables the game finds |
| `windows` | a ring of 3 lines with windows of 1 and 2; a prompt of 4 cells in a row of 7, lines up to 15, history of 2; both hooks of the splash | `RowShowsLine`, `SplashIsGone`, `OutputFollows`, `WindowsEnd` | the row, the ring and the splash window stay true under other threads, and their threads end |
| `content` | directories with whole, flawed and harmful mods loaded twice, one thread that looks up; four sets of scripts with detours next to five scripts of the game, four groups, two machines; five lists of hashes and six texts in three steps; three keys, two files of the user, two starts | `ServesWholeLoads`, `DetoursLinked`, `StaleOnlyInFrontend`, `TablesReadBack` | what is served, linked and looked up is what was asked for, across reloads, levels and restarts |
| `lazylink` | the scripts of `content` | `LazyLinkSkipsBody` | violated: `find_detour` takes the offset of a detour's body for its size |
| `algorithms` | one part at a time, in the header of MCAlgorithms | `BuffersReadBack`, `CallersGetTheirOwn`, `SavedIsRestored` | what was written is read back, and everyone gets what is theirs |

A property of the last run has a part per module, each stated and explained at the end
of its module and named in MCAlgorithms: `BuffersReadBack` is `WhatIsWrittenIsRead`, `BitsComeBack`, `FieldsDecode`
and `ResponseDecodes`; `CallersGetTheirOwn` is
`ScriptsSeeTheirApi`, `AcceptedWhole` and `MarkedForDevelopers` of the scripts, `LastTextsStay` of `va` and
`FindsEveryMatch` of the search. `TablesReadBack` of `content` is `HashesReadBack` of Hashes and
`SettingsReadBack` of Settings. `ResolverIsTrue` is `BlocksReturn` and `HostsAreOwn` of NameResolution,
`CommandsAreOwn` is `LastHandlerRuns` and `ArgumentsAreOwn`, `VariablesAreTrue` is `FindsAsTheGame`
and `DomainsAreTold` of Commands, and `CrashIsReported` is `SomebodyReports` and `EndIsExplained` of
Blackbox. `console_input` and `windows` are two runs of MCWindows.
What a precomputed list must give is stated from its lines, not from what the loader makes of them: `SaidBy` has the
texts that a line may stand for by the comment of its format, and `LinesAreRead` says that no line but
the ones named there is missing from the table.
The types of Scheduler, DemonwareTcp, DemonwareUdp, ComponentLoader, LobbySession, PooledStorage
and the windows are proved (as `TypeOK` or as conjuncts of their invariants); where another module
has a `TypeOK`, it is an aid to the reader and no run checks it.

Why the bounds are enough to be of use: every hazard needs at most two threads and
two items of one queue (one to be overtaken, lost or repeated, and one to overtake
it). Two servers show a round that leaves one out; an answer longer than a buffer
shows partial reads; one handle is closed and given out again; the components are
one of each kind. A second connection is enough to meet what a first one left behind,
a second upload to share a second with the first or to be overtaken by it; a batch of
two can name one object twice. A reload needs one look-up to cross and one load before
it; a detour needs a target, a script that includes it, one that replaces it and one that
is linked before the detour is known. Three blocks are two answers' less one, so the
allocator runs out, and a block given back is taken by the other thread; three buffers of `va` wrap; two threads that crash
freeze each other, and a third that does not can be frozen inside the heap. What the runs say about two, the theorems say about any number,
where there are theorems.

`CHECK_DEADLOCK FALSE` stands where the process ends, or the game has nothing left to
ask within the bounds (every run but `demonware_udp`). The two uploads of
`storage` are alike, which makes its symmetry sound; it has no liveness property.

### Fairness

Weak fairness on what the component's own threads do next and on the return of
handlers and hooks; nothing is assumed about the game submitting, sending,
receiving or exiting. In the scheduler the start of a pass is strongly fair per
pipeline: the game keeps ending frames, but the thread that does it is at times
inside another pass. Liveness of a task is claimed up to the moment `kill` is set.
In DemonwareTcp a round over the servers ends because the game does not send for
ever (`MaxAsked`): `tcp_server::frame` empties a queue before it goes on, so a game
that never stops sending to one server would starve the others.

In LobbySession the server thread is fair as a whole (`Server`), which is the loop of
`server_main`, and the game reads what it has asked for (`Advance`); it is free to send a
task, to send a keep-alive and to leave.

In `windows` the console thread is fair in each of its wake-ups, the window thread and
the two hooks of the splash in what they do next; the user need never press a key. The
other runs without a liveness property assume nothing.

### What the models found

* `pipeline::server` is never executed (`scheduler.hpp:13` against
  `scheduler.cpp:169`); nobody submits to it today.
* `server_main` begins with `exit_server = false` (`component/demonware.cpp:119`). An
  exit between the creation of the thread and this statement is overwritten, and
  `pre_destroy` waits for ever. `ShutdownCompletes` of DemonwareTcp names this exception
  (`overwritten`); without it TLC finds the behaviour.
* A `post_unpack` that runs after `pre_destroy` on another thread leaves a thread
  nobody joins; `CleanExit` names this exception (`lateUnpack`).
* `recvfrom` can forget an answer (`LossNeedsTwoServers`, a part of `AnswersOnceInOrder`, says when).
* `packet_buffer` (`demonware/keys.cpp:23`) is never emptied. A second handshake of the same process
  hashes the packets of the first as well and cannot give the game's keys, if the game
  hashes its own connection only (`FirstHandshakeOnly`).
* A task whose handler throws is never answered (`demonware/servers/lobby_server.cpp:156`): the list of
  films before a file share directory exists is one. `EveryoneAnswered` excepts these
  tasks; without the exception TLC finds one.
* Two uploads that begin in the same second share their id
  (`demonware/services/bdPooledStorage.cpp:56`), and two that overlap share name, buffer and
  flag of the file share server. `DownloadIsUpload` excepts both.
* A description that comes before the report of the size is dropped by it, and an
  empty file or an empty description is never offered, although each task was
  answered as usual (`UploadIsOffered`).
* The answer to the writing of a profile is the same when nothing was written
  (`demonware/services/bdProfiles.cpp:49`); it is the only write of a file that says nothing (`ResponsesAreTrue`).
* `find_detour` (`component/gsc_custom.cpp:67`) takes `fixup_offset` where `link_detours`
  (`:145`) takes `fixup_size`: run `lazylink`.
* Enter before the first frame after an edit runs the `fixed_input` of the earlier line,
  and clearing the line while it is drawn can leave matches of the old one; the
  properties speak of a line that was drawn (`component/game_console.cpp:668`). The first
  match is read after a test of their number without a lock (`draw_input`).
* A ring that is full when a line is printed leaves the offset one past the last window,
  a blank row: `print_internal` adds to the offset, and the ring does not grow. With a window of one
  line the offset is then behind the last line, and nothing is drawn until the output is scrolled or
  cleared (`component/game_console.cpp:93`, `:353`); `OutputFollows` names this exception. A line printed
  while ctrl-C empties the ring leaves the offset past the end (`raced`).
* `get_max_input_length` of the console window leaves no room for the prompt: a line that fills the
  row with it takes the cursor to the next row, and the row above is not cleared (`wrapped`,
  `component/console.cpp:67`). Escape and Return leave a blank row until the next key.
* A splash window that the user closes, or that `destroy_window` does not find yet, keeps
  its thread (`loose`); two hooks at once may join or detach it twice (`clash`).
* A look-up that reads the redirect before a reload and the asset after it mixes the two
  (`torn`). A cell out of range or a short row throws through `load_mods`: the storage is
  half loaded, and at start the hooks are never created.
* The comment of the COMMON format says `<hash>,<string>` (`component/hashes.cpp:148`), but the code looks
  for a comma and a blank: a line as the comment has it is passed over without a word (`Spaced` in
  `IsRead`), and of one with a blank the blank becomes part of the text (`SaidBy`). It is the last separator
  in reach of the first 18 characters that counts: a short hash loses the beginning of a text that has one. A
  hash of 18 characters leaves `value` without an end (`:168`), and what follows it in memory
  is read as well (`spilt`). A list of this format always reports failure.
* An import with an unknown flag ends the linking of its script's detours.
* Values deeper than ten containers become undefined without a word, keys of arrays
  that are names change (`var_` is hashed again), and of two functions with one action the
  reverse look-up names the first.
* Two machines that resolve at once take the developer switch from each other
  (`overlapped`), and the report of linking issues runs after the switch is back: it
  names developer functions that were linked.
* Nothing sets `initialized` of the blackbox: a crash never recovers
  (`component/blackbox.cpp:46`). Two dumps of one second share a file. The message says that a minidump
  has been written (`:69`) also when it has not: nobody looks at what `write_minidump` returns.
* `SuspendThread` does not wait (`shared-code/utilities/thread.cpp:82`). Two threads that crash together can
  ask each other and both stop (`crossed`), and a thread that is stopped inside the heap keeps the one that
  would show the error waiting; the process then hangs without a word. `CrashIsReported` says
  that nothing else leads there.
* A refused array header leaves the types of a buffer changed, an empty array divides by
  zero when it is read, a blob trusts its length (`Buffers` has these as outcomes).
* A client that ends between the two halves of a write loses all settings, and edits of
  the user while it runs are overwritten (`disturbed`).
* A signature search never tests the last position of its range, and `va` returns null
  for an empty text.
* `gethostbyname` does not know the blocked hosts, `getsockname` gives the peer's address.

## Proofs

`SchedulerProofs` proves, for all finite or infinite sets of tasks and threads and
all intervals, that `IInv` is inductive, and from it `TypeOK`, `NoTaskLost`,
`SubmissionOrder`, `OnceIsOnce`, `NothingSkippedOver`, `QuietAfterJoin`,
`PassNeverGrows` and `TasksInOrder`, which is two of them, and
`Spec => ImplementsLifecycle`. They assume `SchedulerAssumption` of the module and nothing else.

The invariants are not inductive alone. That no task is lost needs to know where a
task can be; the argument is:

* a task is in the lists of its own pipeline only, and only if it was submitted
  (`ticket > 0`), and tickets are bounded by `issued`, so a new task is the latest;
* read one after the other the two lists are in order of ticket, which makes their
  entries distinct; merging the second into the first does not change the
  concatenation, appending adds the latest at its end, erasing keeps the order;
* a task inside its handler is the one at the iterator, the pass holds the mutex, and
  a one-shot task in the lists has been called only if it is that one; so its erasure
  is the only way out, and it happens after exactly one call;
* what lies before the iterator has been visited: a step moves over a task it has
  just visited, an erasure pulls the next unvisited one to the iterator.

For the refinement `StageOf` maps a state to the abstract one: submitted and
running, submitted and in a list, or gone. `IInv` gives that the mapped stages of
other tasks do not change and that no other task of the pipeline runs.

`DemonwareTcpProofs` proves, for any sets of threads, handles and servers, any lengths
and any bound on the requests, `TypeOK`, `MapsAreFresh`, `EveryPacketOnce`,
`BytesInOrder`, `ReadinessHolds` and the refinement of RequestReply, from
`DemonwareAssumption`. `IInv` adds to them:

* `ClosingInv`: no two threads are inside `closesocket` of one handle, and a thread
  that is has undone exactly the maps its step has passed, so the handle the
  operating system takes back is forgotten; `UnusedInv`: it has no history either;
* `PacketInv` and `ByteInv`, the order of packets and bytes by position: what is
  answered, in hand and queued adds up to what was asked, what is read and queued
  to what was sent, so taking from the front and appending keep the numbering;
* `ThreadInv`: a packet is in hand only while the thread is at a server.

`ReadinessHolds` is proved through `Believes(c, srv)`, what a thread inside call `c`
takes for granted of a queue: only a read shortens a queue, and `Overtaken` marks
every other call that believed in it.

`ComponentLoaderProofs` proves, for any components, priorities and threads, `TypeOK`,
`HooksInOrder`, `StartedBeforeUnpack`, `MetricsAfterUnpack`, `CallsInPlace` (these three) and `CleanExit`, from
`LoaderAssumption`. Its `IInv` says that the list is in order, without repetitions,
and complete once the process runs (`ListInv`); that a loop has called exactly what
lies before its index, once (`LoopInv`), which with the first makes the priorities
the order of the calls; at which places of the process's life each guard can have
which value, among them that `pre_start` never overlaps `pre_destroy` (`FlowInv`);
and that a thread found joinable after its component's `pre_destroy` came from a late
`post_unpack` (`ThreadInv`).

`DemonwareUdpProofs` proves, for any threads, sockets and servers and any bound on the
packets, `TypeOK` and `AnswersOnceInOrder` (`EveryAnswerOnce`, `OldestFirst`,
`LossNeedsTwoServers`), from `UdpAssumption`. None of the three is inductive:

* `WaitInv`: packets are numbered as they are sent, so the queues in are increasing, what
  is popped is less than what is behind it, and of two packets of a server the later one
  waits at least as long; `WaitChange` says once what any step can do to that;
* `PlaceInv`: an answer exists exactly when its question is a discovery that no longer
  waits, and is in a queue out, in a call, received or lost, at one of them and once; the
  queues out are increasing and hold answers of their server to their socket. With sets of
  places that are empty or singletons this gives the number of answers;
* the order follows: what `HandleOutput` takes is the least of its queue, and an older
  packet that still waited would make the younger wait too;
* `CallInv`: what a call has found is from a server before the one it is at, and what it
  is about to take is there because an answer to its socket had been made. The queue
  may have been emptied by another thread since, but the answer was made all the same,
  which is what `LossNeedsTwoServers` asks for.

`LobbySessionProofs` proves, for any requests and any number of connections and tasks, `TypeOK`,
`TasksDecrypt`, `FirstHandshakeOnly` and `AnswersMatch`, from `LobbyAssumption`. A property of
keys says nothing by itself of the packets still in the queues, so `IInv` adds:

* `TranscriptInv`: what is hashed begins with the hello of the first connection that began a
  handshake, and keys that were sent are derived from packets that begin like it. The game
  accepts a response only if it begins with its own hello;
* `SoloInv`: so the game gets in only by a handshake nobody else began, and of such a
  one the queues, the transcript and the keys hold exactly what its stage says
  (`HelloQueued`, `HelloAnswered`, `AuthQueued`, `AuthAnswered`, `HasKeys`);
* `TaskInv`: a task in the queue was encrypted with the keys in force, and no `client_auth` is
  in the queue with it: no handshake can finish before it is handled;
* `AnswerInv`: what was asked waits, in order, or has one answer, or was thrown; the answers
  have the numbers `1 .. msgCount` in the order of their tasks, and the game has
  read the first of them.

`StorageProofs` proves `DownloadIsUpload` and `UploadIsOffered` of PooledStorage and
`ResponsesAreTrue` of ObjectStore, for any number of uploads, chunks and seconds and for any
names, contents and batches, from `StorageAssumption` and `NoneAssumption`. Neither of the first two
is inductive, because the viewer reads metadata and data at two times and two servers write them.
Call an upload clean that has an id and no flaw; `PoolInv` says

* `AloneInv`: its id is its own, so its metadata and its data file are (names are told
  apart by the ids in them);
* `MetaInv`: its metadata are what its own tasks have made of them (`MetaOf`), in particular an
  upload described before its size was reported is not clean, and one of no parts stays as it was
  posted, since it cannot be read;
* `ServerInv`: while its packets arrive no other's do, so the server's one buffer holds its
  chunks so far; whatever the name on the server is, the last chunk of another never writes under
  this one's;
* `DataInv`, from that: once the server has answered its last chunk, its file holds
  all its chunks;
* `IndexInv`: a description is filed under the id of the upload it is of;
* `ViewerInv`: so what the viewer was shown can still be downloaded when it asks, or is
  flawed, and what it was offered has its final size and is there. A file is never deleted
  (`FilesKept`), and metadata become `DESCRIBED` last.

For ObjectStore `ObjectInv` is the two halves of the property themselves, and the lemma
`ToldFacts` that a list of entries read from the files tells what is in them, also when a name
is in it twice.

For NameResolution, `ResolverIsTrue`, for any names, threads, blocks and any hash, colliding ones
included. The one assumption is that `None`, the pointer that is not set, is no block. What
`allocator::find` has said is used under later locks, so `CallsInv` says what a thread has in hand in each step of its
call, and `PlacesInv`, block by block, that a block is in one answer or in one hand, and in the memory of its
owner; the answers of the allocator are the ones with two different blocks. So the first block of an answer
tells whose it is (`FindsOwn`), and that stays true until both are given back.
`BlocksMove` is the argument that all steps share. A host
entry is of its own thread's question because the stub's `hostent` is `thread_local` (`HostsInv`).

The second half of `StorageProofs` is about what MCContent composes. The assumptions are the ones
named in Mods, GscCustom, Hashes and Settings, which TLC evaluates for the instances of the
run. Much of the state is what a loop has made of files. The library's induction takes
the claim as an operator, which the provers cannot instantiate; here a claim about every
position is proved by the least position at which it fails (`NothingFails` of `SequenceFacts`), from the
well-founded order of the numbers: it holds at the first, and each step keeps it.

* Mods, `ServesWholeLoads`, for any directories, threads, matches and edits. `LoaderInv` says
  what the storage has after n entries, in terms of these entries only: the assets, cache entries
  and Lua files are those of the good ones in their order, a redirect is the last one of its name, the errors
  are those of the entries that were not taken. Each kind of entry is one lemma. `ModsInv` adds that
  outside a load the storage is that of `basis`, that an answer says which list it is from, and that a
  look-up whose redirect may be of another load is marked as torn.
* GscCustom, `StaleOnlyInFrontend`: only a reload leaves lists of destroyed scripts, it is refused in
  a match, and a level that begins has no scripts, so the first one that is linked drops the lists before
  anything reads them (`ScriptsInv`).
* GscCustom, `DetoursLinked`, for any scripts, groups, reloads and levels. Within one linking every
  list has seen the scripts up to its `latest` and none beyond, and never more than a list
  before it, so later lists write over earlier ones and not the reverse; a site leads to the last
  detour that takes it of the lists that have seen its script (`Ready`). A list that is new begins with
  no script seen, and catches up with those linked before it (`SeenBefore`, `CatchesUp`). At the end of a
  linking all lists have seen all scripts, unless an import is damaged (`Listed`). Two lists never
  have a detour of one function because `sync_gsic` refuses the second (`Apart`). `DetoursInv` is this for
  each instance whose lists are of scripts that are still there.
* Hashes and Settings, `TablesReadBack`. Each line of a file that is read keeps the table true
  (`LineTrue`: a text in the table has the hash it stands for, or is what the format of the file says of a
  line that was come to) and leaves its hash in it, which never leaves the table again, so
  any number of lists does, in any format; what is shown for a hash is read as that hash. That what the loader
  cuts out of a line is what the format says rests on the last separator being the first one, or on
  there being another in reach. `SettingsInv` says that what was told to a caller is what the document has, and that the file agrees with
  the document unless it is being written or was `disturbed`. It assumes that
  the values for no document, a broken one and one that is no object are no functions (`NoDocuments`), as they
  stand for files without keys.

`WindowsProofs` proves the safety properties of the parts of MCWindows, for any keys, names, lengths, rings
and interleavings, from `InputAssumption` and `WindowsAssumption`.

* In-game input, `KeysActOnWhatIsSeen`: `LineInv` (the line and the history have their types and
  bounds), `RendererInv` (the matches belong to `fixed_input`, or are one step ahead of it, and a
  choice is on offer only between two draws) and `DrawnInv` (what a draw that began after the last
  edit has is of the line that is there; one that began earlier may still leave its own input
  behind, but then the line does not count as drawn).
* In-game output, `OffsetStays` and `OutputFollows`: the offset never lags behind a printed line,
  and only a line printed between the halves of ctrl-C takes it past the end. A window that shows the
  newest line ends with it, or has a blank row below it, and then printing leaves the offset where it is.
* Splash, `SplashIsGone`: `destroy_window` returns only when the thread is no longer joinable; a
  thread that was joined has ended and taken its window with it, one that was detached had ended
  or is `loose`. Without an overlap of the hooks, what the test before the join found is still so
  when it joins (`SplashHooksInv`).
* Console window, `RowShowsLine`: the row shows the prompt and the line, or is empty and so is
  the line (`RowInv`); `clear_output` blanks exactly what `update` drew, an editing key
  that only adds covers what was there (`CoveredRow`), and a recalled line fits the buffer because
  every line of the history did (`PromptHistoryInv`). All this is of a row that was not
  filled: the row a wrapped cursor has come to is not the one the line began in.
* Texts of scripts (ScriptHud), `DrawnAsAsked`, from `HudAssumption` (numbers are whole; the
  arguments of a registration may be missing, and its places be any numbers). The property asks for
  the last call of some names for an element; `CallsInv` says that there is one, and `CallAdded` how
  it changes with each call, for all names and elements at once. `HudInv` is then, field by field,
  that the element holds what that call asked for, the three parts of the colour and its opacity
  each by the last call that gives them (a registration gives all); `ElementSame` and `ElementRegistered` are the two ways
  a step can keep it so. That a proportion of the screen is what is drawn, for every number a script
  may give as a place, is `RelativeOnScreen`. Finding that proof corrected the property: negative
  places pass the check of the registration as the number after the last one does, and their
  coordinate is 0; the run now has a registration with a negative place.
* Crashes (Blackbox), `CrashIsReported`, for any number of threads and seconds. That all but one of
  the threads that show an error were asked to stop is not inductive: `SuspendInv` adds that of two threads
  that have listed the others, one was asked or is still to be asked by the other. Whoever took the list
  last has the other in it, and nobody leaves a list but by being asked. While nobody who was asked
  goes on asking (`~crossed`), the one that asked last was not asked itself: it runs, and only a lock
  of a frozen thread can hold it up. `ReportInv` is what a thread has left behind at each stage: its
  exception data and a dump of some second, whole or not, its own or that of one that replaced it.
* Commands and variables (Commands), `CommandsAreOwn` and `VariablesAreTrue`, for any spellings,
  handlers, texts and table, from `CommandsAssumption` (no handler is `None`, texts and the table are
  sequences, the least unsigned number is 0). `TableInv` says that what was handed to the game has a
  handler in the map, so a command that is called has one, and that it is the last. `NestingInv` says that the stacks of
  arguments and the params that are alive are the same, level by level, and that of the params of one
  world the inner ones are of higher levels; so what is dropped at the end of the innermost params is
  their own, and what the others will read stays. `PointerInv` says that a pointer that was fetched is of
  a variable that the game still has, under the name of its entry; the entry a name is looked up by
  is the first with that name in any spelling (`SmallestOfSet`, from the well-founded order of the
  numbers).

Each proof has one step or lemma per action; the lemmas on sequences are in
`SequenceFacts`.

Only model-checked:

* what needs fairness, which is beyond the proof system: `EventuallyCalled`,
  `EveryPacketAnswered`, `EveryDiscoveryAnswered`, `ShutdownCompletes`, `ExitCompletes`,
  `EveryoneAnswered`, `WindowsEnd`;
* the parts of `algorithms`: `BuffersReadBack` and `SavedIsRestored` are about recursive operators and
  about numbers cut into bits and bytes, `CallersGetTheirOwn` has the nearest of
  some exports, a file cut at any byte and a sorted result of a search in parts. What these compute is induction over data and bit arithmetic, which is
  beyond the provers; the run compares them with reference definitions;
* the two properties that the code violates, `ServerTasksCalled` and `LazyLinkSkipsBody`.

## Plan

The order in which the modules were built: what runs on several threads first
(Scheduler, DemonwareTcp, DemonwareUdp, ComponentLoader), then the protocols
(LobbySession, PooledStorage, ObjectStore), the windows and consoles, mods and scripts,
the formats and tables. What is left:

1. An abstract store of files that PooledStorage implements while no upload is flawed,
   and an abstract table of assets that Mods implements while nothing is torn.
2. The table of HUD elements without its lock: a frame in the middle of a call.
3. LobbySession over DemonwareTcp's queues instead of message by message.

## Not modelled, and why

Patches of the game's machine code (arxan, platform, unlockall, lua, the byte
patches of several components): their effect is in the game, which is not here.
Definitions of the game's structures and the generated tables of names: data. Wrappers
of the operating system and of libraries (hooks, `nt`, ciphers, compression): they appear
only as the atomicity of steps and as files that are written or not. Cut-off or malformed
packets of the lobby. Drawing, logging and message texts, but for those that a property
is about. Handlers that re-enter their own pipeline, which the recursive mutex would
permit: no caller does. Data races inside a container without a lock (the tables of hashes
and of HUD elements, a redirect under a reload's clearing): what a torn `std::map` or
`std::vector` does next is anything, and no property could be stated of it.
