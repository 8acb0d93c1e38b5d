# A TLA+ verification of qzjs

qzjs is an embeddable JavaScript runtime in C: a QuickJS engine on a thread of
its own with a libuv loop, Web Workers on threads or in child processes, an
isolated mode in which the runtime itself is a child process, an I/O layer
(HTTP, TCP, TLS, files, timers, storage), extensions (WebAssembly, compression,
crypto), a debugger, and a control plane through which a host or a local
controller steers the tree of runtimes. This directory holds TLA+ models of
these parts, TLC configurations that check them, and TLAPS proofs about the
parts that the rest relies on: the queue, the threads and processes, the control
plane, the life of an HTTP request, and the services of a runtime (contexts,
timers, files, storage, TCP connections, the debugger, WebAssembly and the native
memory behind the objects of a script).

## 1. The system

### Components

| Component | State it keeps | Operations | Correct if |
|---|---|---|---|
| Inbound queue (`msgq.c`) | `msg_head`, `msg_tail`, nodes with `q.next`, the `wake` async | push (any thread), pop, has_pending, drain at teardown | no freed node is touched, FIFO in the order of the tail exchange, no lost wake-up, no leak |
| Runtime thread and host API (`thread.c`, `qzjs.c`) | `thread_ready`, `ready_err`, `shutting_down`, `wait_idle`, `thread_joined`, JS jobs, handles and requests | create, post, wait_idle, destroy; init, loop, idle test, teardown | every call returns, joined once, an exit on idle loses nothing |
| Isolated main runtime (`rt_host.c`, `rt_main.c`) | the host's loop thread, the child, frames between them, flags of handshake, idle and ping | create, post, wait_idle, ping, destroy; crash of the child | as the thread mode, across processes; what the host is told is true |
| Contexts (`context.c`) | slots, the active context, suspended state, extension hooks | create, spawn, suspend, rebuild, destroy | no job reaches a context that is gone, state survives a rebuild |
| Workers on threads (`worker.c`, `bridge.c`, `worker.js`) | slot table, per worker its flags and runtime | new Worker, reap, post, terminate, close, teardown | no use after free, no message to the wrong worker, no deadlock in a join |
| Control plane (`control.c`) | receipt table, commands in the queue | sink, endpoint command, forward, route, claim, dispatch, reap | each command is answered once, to its sender, truthfully |
| Control endpoint (`control_endpoint.c`) | listener, connections, socket file | init, accept, read, close | a listening runtime is reachable; no write to a closed connection |
| Process channel (`ipc_process.c`, `ipc_envelope.c`) | per child: socket, spill buffer, read buffer, pid, handle slot | spawn, post, flush, read pump, ping, terminate, free; encode, decode | lossless FIFO frames, each child reaped once, handles come back |
| Storage relay (`bridge.c`, `rt_main.c`, `local-storage.js`) | table of correlations | request, relay, reply | each reply reaches its requester, no one waits for ever |
| HTTP client (`uv_io.c`) | an operation with its socket, timers, TLS session and buffers | request, proxy, handshake, read, decode, abort, teardown | ends once, freed once, success only for a whole body |
| TCP and TLS (`tcp_io.c`) | connections, listeners, shared TLS contexts | connect, listen, accept, read, write, close | one end per connection, nothing used after it is freed |
| Files, timers, stores (`uv_io.c`, `bridge.c`, `timers.js`, `local-storage.js`) | requests and buffers, timer slots, tables, the storage file | read, write, list, set, clear, save | one answer per request; a crash leaves a whole file |
| WebAssembly (`ext_wasm3.c`, `ext_wamr.c`) | modules, instances, memories, tables, closures; one engine per process | load, instantiate, call, grow, collect | nothing is freed that can still be called; exceptions belong to their call |
| Compression, crypto (`ext_compress.c`, `ext_crypto.c`) | stream handles, the generator of a runtime, buffers of a call | push, flush, free; digest, cipher, sign | whole output, every path releases what it took |
| Debugger (`debugger.c`, `debugger_dap.c`) | breakpoints, step state, the stop, the connection | set, step, pause, inspect, service | stops where asked, every request is answered |
| JS polyfills | streams, ports, HTTP/2, WebSocket, service workers | the web APIs | per API |

They interact as follows. Everything enters a runtime through the inbound queue:
host posts, worker messages and control commands. Worker threads push into their
parent's queue; child processes write frames that the parent's read pump hands
to JS or to the control plane. The I/O layer reports completions as callbacks of
the loop. Everything of a runtime happens on one thread, but JS runs *inside* the
C callbacks, so a callback's caller resumes in a state that JS may have changed.

### What is hard

* Threads: the push has a window between the exchange of the tail and the store
  of the link; the idle test reads several things one after the other; a slot is
  freed on the strength of a flag that a running thread sets; threads start one
  WebAssembly engine together.
* Ends: a runtime, a worker, a child, a connection, a request may end at any
  moment, by itself or by somebody else, with messages under way in both
  directions and several handles that close in any order.
* Re-entrancy: JS called from the read pump, a socket, a timer, an import or the
  conversion of an argument may terminate or change what is calling it.
* Time: deadlines of commands, pings, connect and idle time-outs, the three tiers
  of terminate, the bounded pump of the teardown.
* Failure in the middle: of a create, a file operation, an instantiation, a crypto
  call; a process killed between writing a file and renaming it.
* Bounds: slots, handles, tables, buffers sized by a formula before they are
  filled, `size_t`.

`PROJECT.json` lists these hazards with their lines and the properties that
would catch them.

## 2. Modules

| Module | Models | Uses |
|---|---|---|
| `MsgFifo` | what the queue promises: places are claimed, linked, taken in order | |
| `MsgQueue` | `qz_msg_push`, `qz_msg_pop`, `qz_msg_has_pending`, the teardown drain, one step per access to shared memory | `MsgFifo` as the abstract specification |
| `RuntimeThread` | `qz_create` … `qz_destroy` and `qz_thread_main` | the queue as `MsgFifo` describes it |
| `IsolatedHost` | `rt_host.c` and the child's side in `rt_main.c` | the channel as a FIFO of frames |
| `WorkerSlots` | the thread backend of Web Workers | the queue as `MsgFifo` describes it |
| `ControlPlane` | commands and receipts of one runtime with one child | the queue as a FIFO |
| `CtlEndpoint` | the socket file of the endpoint, among several runtimes | |
| `IpcTx` | one direction of a process channel, byte by byte, and terminate | |
| `ProcHandles` | the parent's view of its child processes | the channel as a FIFO of frames, as `IpcTx` shows it to be |
| `StorageRelay` | storage calls of child processes through a relay | the same |
| `Contexts` | `context.c` and the hooks of the extensions | |
| `Timers` | `timers.js` and the timer slots of the bridge | |
| `FsOps`, `Stores` | file operations; the file behind localStorage, the key-value store and proxy credentials | |
| `HttpOp` | the life of a request: resolve, connect, tunnel, handshake, send, read, end, abort, teardown | bodies as counted units |
| `TcpIo` | connections and listeners, plain and TLS | |
| `HttpText`, `DataCodecs` | conversions as operators, the decoders of chunked bodies, the loops around miniz; `Codecs` states what they promise | |
| `WasmObjects`, `WasmLoads`, `WamrShared` | lifetimes under collection, nested calls and exceptions; validate, compile, instantiate, tables; the engine shared by threads | |
| `NativeCalls` | compression handles; what crypto calls hold, the generator of a runtime | |
| `Debugger` | the dispatch hook, the pump while stopped, DAP requests | |
| `Services` | what holds of what is stored and of the native memory behind the objects of a script | `Stores`, `WasmObjects`, `WasmLoads`, `NativeCalls` |
| `MsgQueueProofs`, `WorkerSlotsProofs`, `ControlPlaneProofs` | the proofs about the module each is named after; `ControlPlaneProofs` also those about `CtlEndpoint` | that module, TLAPS |
| `RuntimeProofs` | the proofs about `RuntimeThread`, `IsolatedHost`, `StorageRelay`, `WamrShared` and `Debugger` | these, TLAPS |
| `ChannelProofs` | the proofs about `IpcTx` and `ProcHandles` | these, TLAPS |
| `NetworkProofs` | the proofs about `HttpOp` and `TcpIo` | these, TLAPS |
| `ServicesProofs` | the proofs about `Timers`, `FsOps`, `Contexts` and the modules that `Services` composes | these, TLAPS |

The definitions carry the names of the functions or flags they stand for;
`PROJECT.json` maps each to its lines. Operators whose comment begins with
*Faulty variant* are not part of any specification: each is an operation with a
plausible mistake, and shows that the property listed with it in `PROJECT.json`
would notice that mistake. Formulas marked *Known not to hold* state what one
might expect and the code does not do: some of them are refuted by runs of their
own, no passing run checks them (see the deviations in §3).

Parts that do not interact are checked together in one run: an `MC…` module
extends them, and its variable `part` chooses the one that moves, so that the
state space is the sum of theirs. A part that does not move is in its initial
state, in which no action with a fairness condition is enabled; fairness is
therefore never demanded of a part that stands still.

### State and abstraction

* **MsgQueue.** A node is an address; `live` is the set of allocated ones, so
  `malloc` may return an address that was freed before. A message is named by
  its producer and the number of the push. `uv_async_send` sets the flag `wake`,
  which the loop clears before it calls back. `claimed`, `delivered` and `chain`
  are history variables. `LatePost` says whether producers may push while the
  teardown drains.
* **RuntimeThread.** `pc` is the place in `qz_thread_main` and
  `qz_thread_teardown`, `host` the place in the host's API call. JavaScript is
  reduced to what the loop can see: a task may queue a job, start a timer, a
  thread-pool request, or the streaming request. A job carries the task it stems
  from, so that "a message is a task" can be stated. `misuse` records accesses to
  objects that do not exist (any more).
* **IsolatedHost.** Three actors: the host's thread in an API call, its loop
  thread, the child. Frames are whole; the child may die at any step.
* **WorkerSlots.** A worker is an incarnation; the id that JS and C use is the
  slot. `wsd` and `rsd` are the two `shutting_down` flags that terminate sets in
  this order. The reap walks the slots one at a time and joins in the middle.
* **ControlPlane.** A command has a correl, a sender and an entry in the table. The
  table is a set of entries numbered by their registration: a lookup by correl
  finds the newest (`First`), as the list with its head insertion does. Time is a
  step `Expire` that may happen at any moment to any entry. The child
  answers, is slow, or dies. The payload is reduced to whether it reaches 512
  bytes.
* **CtlEndpoint.** The file system is a function from paths to the runtime that
  listens there, `Stale` or nothing; every system call is a step.
* **IpcTx.** A frame is a fixed number of bytes, one of them the length. A
  `send` takes any number of bytes that fit. `len` counts modulo `SizeMod`, like
  `size_t`.
* **ProcHandles.** Whole frames; the PONG of ping *s* is a frame of its own.
  `rxproc` and `incb` are the position of the read pump, between which JS runs.
* **StorageRelay.** One owner, one relay, several children; a frame is its
  correlation and, as history, the process it was sent for.
* **Contexts.** A context is an incarnation in a slot. Calls from scripts nest on
  a stack: a script that is being evaluated may spawn, suspend, resume and
  destroy, its own context too once a call of its own has made the main one the
  active one. It then runs on (`StrayJob`), and what called it returns (`OwnGone`)
  or uses what was freed (`UseFreed`), after which nothing more is said of the
  runtime. Extensions keep one piece of state per runtime.
* **Timers.** A call of `setTimeout` is a model value; `handles` is the table of
  the C side, whose slots are used again. Reactions run in a flush. A script may
  clear any handle it was ever given; `clashed`, `stolen` and `wrong` record which
  calls were named by one number at the same time, lost their entry to the clear
  of another call, and ran a callback that was not theirs.
* **FsOps, Stores.** Files have a length and a version of their content; a
  read or write takes part of what it was asked for; a process may be killed
  between any two system calls.
* **HttpOp.** An operation has sets of open handles and of requests in flight,
  the two counters of closes, and what the caller was told. Server and network
  choose among success, failure, end of file and silence at every step. The
  consumer of a stream may abort it from inside the callbacks a read makes
  (`AbortInside`); the read then goes on as the code does.
* **TcpIo.** What a connection is told is a sequence; a callback may close its
  connection, and `cut` says that its function was released while it ran. A write
  is under way until its callback, which a close may bring early. TLS is a number of handshake units and records that are read from
  a buffer with an offset.
* **HttpText, DataCodecs.** Texts are short sequences over a
  small alphabet, or lengths where only lengths matter. A probe is one input; for
  chunked bodies the input arrives in all splits.
* **WasmObjects.** A graph of objects with the references C holds and the ones
  `gc_mark` reports; a collection finalizes a garbage set in any order.
* **WasmObjects, WasmLoads.** A stack of calls through exports and
  imports; the references a loading call owns; slots of a table with reference
  counts, and `grow` split at the conversion of its argument.
* **NativeCalls.** A function is the sequence of its steps with what each gets
  and what the code releases if it fails.
* **Debugger.** The program is a walk over lines; requests are read in order;
  evaluations dispatch into the hook again.

## 3. What TLC checks

A property of a run is a conjunction of named parts where one component promises
several things that belong together; the parts are defined, each with what it
says, just above the conjunction, and the type invariant of a component is one of
them. Bounds are the named constants in the `.cfg` files; the numbers are
distinct states.

| Run | Parts and their instance | Property (and what it consists of) |
|---|---|---|
| `msgq` (191 651) | the queue: 2 producers, 2 pushes each, 3 addresses | no use after free (`NoUseAfterFree`); dispatch in claim order (`FifoOrder`); `NodesAreKept`: `NoLeakAtClose` and the types; refinement of `MsgFifo` (`ImplementsFifo`) |
| | the socket: 3 frames of 3 bytes, room for 4 bytes | `SocketIsFifo`: `LenInBuffer`, `LosslessFifo`, `KillsOnlyHung` |
| | child processes: 2 handles, 2 children, 1 frame and 2 pings each | `ChildrenAreServed`: `ReapedOnce`, `NoCrossDelivery`, `FramesInOrder`, `PingTruthful` |
| | all three | `MessagesArrive`: `EveryClaimDispatched` (no lost wake-up), `EveryFrameArrives`, `FramesConsumed`, `EndIsNoticed` |
| `rt` (168 125) | a runtime on a thread: host and a second poster, 1 post each, 3 pieces of JS work, jobs may throw, init may fail | `ThreadExitIsSound`: `WaitIdleServesPosts`, `IdleExitIsClean`, `JoinedOnce`; `MessageIsATask` |
| | a runtime in a process: 2 posts, 1 echo, 2 pings, the child may die anywhere | `HostIsToldTheTruth`: `CreateIsTruthful`, `IdleServesEarlier`, `CrashIsTrue`, `IsoPingTruthful`; `ChildEndsOnce`: `LoopJoinedOnce`, `NoOrphan` |
| | the debugger: a program of 2 lines with calls, 3 requests, 3 stops | `StopsAreSound`: `OnePump`, `FramesAreCurrent`, `StepMoves` |
| | 3 threads that load WebAssembly through WAMR, 2 loads | `EngineIsShared`: `EngineStartsOnce`, `ImportFindsSlot` |
| | all four | `WaitsEnd`: `HostCallsReturn`, `IsoWaitsEnd`, `RequestsAnswered`, `PauseStops`, `EnsureEnds` |
| `workers` (838 515) | 2 slots, 3 workers, 1 message each | `WorkersAreJoined`: `FreedAfterJoin`, `NoWorkerOutlivesParent`; `LinkedAreNotMisrouted`; `TerminateIsOwn` (terminate on an object whose own worker was not joined stops no other one); `ParentCallsReturn` |
| `ctl` (219 967) | commands: host, 2 connections, a child, 2 commands | `ReceiptPairing`; `TimeoutIsTrue`: `NeverExecutedLate`, `TimeoutIsTruthful`; `NoDanglingSink`; `AnsweredUnlessAsleep` |
| | endpoints: 2 runtimes with 2 lives, 2 explicit paths | `EndpointsAreFound`: `EndpointReachable`, `DefaultPathIsFree` |
| `http` (291 285) | a plain request, a tunnelled one or an HTTPS stream, beside an HTTP stream; bodies of one unit | `FreedByTheLast`: `FreedIsUnreferenced`, `TornDownIsFreed`; `ToldOnce`: `EndsOnce`, `FreedIsTold`; `SuccessIsComplete`; `StreamEnds` |
| `host` (547 201) | timers: 2 timeouts, an interval, 3 slots | `TimersAreOwn`: `ArmedIsInSlot`, `ReactionIsOwn`; `TimeoutRuns` |
| | contexts: 3 slots, 3 incarnations, scripts nested 3 deep | `ContextsAreSound`: `TableIsTrue`, `JobsFindContext`, `MainIsActive`, `InitialisedIsAlive`, `StateIsKept` |
| | files: one operation of each kind, 3 at a time | `FilesAreTrue`: `SettledOnce`, `BackingOnce`, `ReadIsTrue`, `WriteIsWhole` |
| | localStorage: 2 owners, 4 writes, kills at any step; stores: 3 keys for 2 places, 2 proxies | `StoredIsKept`: `FileIsWhole`, `MemoryIsFile`, `StoreIsMap`, `AuthIsOwn` |
| | WebAssembly: 1 module, 2 instances, 2 pages; 5 nested frames; 2 loads | `WasmIsSafe`: `ParsedFreedOnce`, `ExportFindsRuntime`, `ModuleFindsData`, `NoGarbageStays`, `BufferIsCurrent`, `ThrownIsOwn`, `ThrowIsOver`, `BoundIsFound`, `LoadsPristine` |
| | loads; a table of up to 3 slots; 2 compression streams; 3 native crypto calls | `ResourcesAddUp`: `ReferencesAddUp`, `SlotsAreCounted`, `StreamEndsOnce`, `ExitsAddUp`, `ReadyIsSeeded` |
| `peers` (158 946) | a relay with 2 entries and 3 children | `AnswersAreOwn`: `SyncAnswerIsOwn`, `SlotsAreInFlight` |
| | 2 connections, plain or TLS, one dialled or accepted and one accepted | `ConnectionsAreSound`: `EndIsLast`, `HandleIsLive`, `StructOutlivesSocket`, `TlsCtxIsHeld`, `DataIsPrefix`, `WrittenIsTaken` |
| | both | `PeersEnd`: `SyncEnds`, `TornDownGoes` |
| | chunked bodies of up to 2 chunks, well formed or not, in every split | `ChunksDecode`: `PlainDecodes`, `StreamDecodes`, `CompactionStaysBehind` |
| | URLs, proxies, host patterns, request heads, the answer to CONNECT, JSON escapes, paths | `TextsAreWhole`: `UrlRoundTrip`, `AuthorityRoundTrip`, `ProxyUrlRoundTrip`, `NoProxyIsByLabel`, `SniIsByLabel`, `AlpnFits`, `RequestIsWhole`, `TunnelHeaderFound`, `JsonFits`, `ArrayFits`, `NoParentInPath` |
| | base64, envelopes with a damaged byte or cut short, sizes and formats of crypto and WebAssembly, gzip and zlib wrappers, sequences of up to 3 pushes | `BytesAreWhole`: `Base64RoundTrip`, `AtobStaysInBuffer`, `EnvelopeInBounds`, `EnvelopeRoundTrip`, `PaddingIsWhole`, `Pkcs8IsWhole`, `CipherIsWhole`, `SignatureRoundTrip`, `SectionsFound`, `WrapIsUndone`, `GzipDataFound`, `FlushIsWhole`, `InflateIsWhole`, `DecompressIsWhole` |
| `workers_gap` | 2 slots, 3 workers | violates `NoMisrouting`, see below |
| `endpoint_shared` | one explicit path for both runtimes | violates `EndpointReachable` |
| `proc_leak` | 1 handle, 1 child | violates `TerminatedIsReleased` |
| `ipc_epipe` | the socket, the peer may die inside a flush | violates `LenInBuffer` |
| `http_reentry` | as `http` | violates `NeverToldTwice` |

Why the bounds are enough for the cases they are meant for:

* With two producers one can stand in the window of its push while the other
  completes one behind it; three addresses for four messages make a freed node
  come back; two slots and three workers make a slot be reused while the other
  is in use; one message per worker suffices to leave one behind in the parent's
  queue. `PumpRounds` is 2 instead of 16: the rounds are alike.
* A socket that is not a multiple of the frame makes every frame be split
  somewhere. Two pings make a late PONG meet a new ping.
* Two requests are enough for the shared things of the HTTP client (the stream
  that abort finds, the teardown of several), a body of one unit for a body that
  is missing, cut or whole; chunk boundaries are the business of `HttpText`,
  where every split of every input is tried.
* Three relayed children for two entries fill the table; a child that dies while
  its request is at the owner makes a reply without a requester.
* Two accepted connections share one TLS context, so that one holds it when the
  other goes; two records make one remain in the buffer when a callback closes.
  Two connections that scripts dialled share nothing and are left out.
* Three context slots hold the main context, a spawned one and one that takes a
  freed slot; depth three is a script that is run by a script that is run by one.
* Inputs of conversions contain the boundaries of their buffers and formulas:
  block and padding sizes, one below and one above a limit, empty parts.

### Fairness

* `msgq`: a producer inside `qz_msg_push` and the runtime thread are run by the
  operating system; the loop turns and its 1 ms timer fires; a peer that is not
  hung reads; message handlers return and a ping ends at its deadline. That a
  producer starts a push, that the teardown starts or that a child does anything
  is not assumed.
* `rt`: the threads run, requests in the pool finish, due timers and ended
  streams are reported; the host's loop thread and a living child take their
  steps, and a host inside a call goes on. Neither the host nor the child need
  begin anything. In the debugger a program that is not stopped goes on, a
  condition that is evaluated again and again ends, and the service is called
  again and again (strong fairness, because the hook looks at the connection
  only at some instructions). A thread that initialises WAMR comes to an end.
* `workers`: every thread runs, and a script that was started ends; that is an
  assumption on scripts, the code has no way to enforce it for workers.
* `ctl`: the loop serves what is ready, and deadlines pass. Nothing
  else need ever wake the loop, nor need the child answer: `AnsweredUnlessAsleep`
  says that a sleeping loop is the only thing that keeps a sender waiting.
* `http`: whatever libuv owes an operation (a resolved name, a connection or its
  refusal, a close callback, an armed timer) happens. The server need not send
  anything, nor does the caller abort.
* `host`: reactions are run, an interval's callback returns, and an armed timer
  fires even if others keep firing (strong fairness: libuv takes due timers in
  order of their time).
* `peers`: owner, relay and children that live handle what has arrived, and a
  child whose relay is gone ends. A relay serves all of its children (strong
  fairness, its loop polls all of them). For sockets: names are resolved or not,
  connects end, writes and closes are reported.

`CHECK_DEADLOCK FALSE` stands in the configurations of systems that come to
rest: a runtime that is destroyed, a request that is over, a budget of calls
that is spent.

### Deviations of the code from what it says

Five runs exhibit a disagreement and are listed as findings in `PROJECT.json`:

* `workers_gap`: `qz_worker_msg_queued` stops at the first unlinked message. A
  third worker that is inside its push hides a message of the worker being
  reaped, although `worker.c` argues that an unlinked message cannot matter. The
  slot is reused and the new worker's object gets the old worker's message.
* `endpoint_shared`: `bind` fails on a path another runtime listens on, and the
  failure path unlinks it, which the comment above promises not to do.
* `proc_leak`: a worker that ended by itself is marked dead, after which
  `terminate()` no longer releases its handle.
* `ipc_epipe`: `tx->len = 0` on EPIPE, then `tx->len -= off`.
* `http_reentry`: a script that aborts a stream inside `on_headers` or `on_data` is
  told so, its consumer is freed, and the read that is still on the stack reports
  an end to it once more (`uv_io.c:3180-3211`).

Others are conditions of the passing runs. Each can be seen by changing the
constants named here, or by checking the named formula (marked *Known not to
hold* where it is defined) as an invariant or property:

| Module | Change | Then |
|---|---|---|
| `MsgQueue` | `LatePost = TRUE` | `NoUseAfterFree` fails: the drain leaves `msg_tail` at a freed node (`qzjs.c:465`), and a push after it writes there. The code relies on its callers to have stopped. |
| `RuntimeThread` | `CompletionsBeforeFree` | a pool request slower than the pump of 16 rounds completes after `JS_FreeRuntime` if the host destroys a busy runtime. |
| | `FailableInit` with `loop_init` or `async_init`, `FailedCreateIsClean` | the failed create sends on a wake handle that was never initialised. |
| | `HostCallsReturn` without its second disjunct | a job that throws ends the flush and the thread blocks with jobs left over. |
| | `promised` counting every message whose post has returned | `WaitIdleServesPosts` fails with two posters: a post in progress hides the later one from the idle test. |
| `IsolatedHost` | `AllPostsServed` | posts the child has not read when it goes idle are lost. |
| | `OneWriter` | host thread and loop thread both write to the channel (`rt_host.c:394`), which the head comment (`rt_host.c:13`) excludes. |
| | `PingFindsProc` | the loop thread frees the process between the ping's test and its use. |
| `WorkerSlots` | `TerminateIsLocal` | a `terminate()` on an object whose worker was joined stops the worker that has the id now; `TerminateIsOwn` is what remains. |
| `ControlPlane` | `UniqueCorrel = FALSE` | `ReceiptPairing` fails: receipts are matched by correl alone, also across connections. |
| | `ReceiptOrTimeout` | deadlines are looked at after `uv_run` has returned (`control.c:610`, `thread.c:165-167`) and nothing makes it return for them: a command to a silent child gets neither receipt nor TIMEOUT while the loop sleeps, against `control.c:594-595`. |
| | `ExecutedIsAnswered` | a result that `JS_JSONStringify` throws on is dropped after its entry was taken (`control.c:124-132`): neither receipt nor TIMEOUT, although the command was executed. |
| | a receipt of 512 bytes counted as arrived | `TimeoutIsTruthful` fails: it is taken for a command and its sender told TIMEOUT. |
| `ProcHandles` | `Reentrant = TRUE` | `NoCrossDelivery` fails: the pump goes on with the freed process and the slot is another's. |
| | `PingBusy = TRUE` | `PingTruthful` fails (a frame before the PONG) and so does `FramesConsumed` (frames read by the ping wait for new bytes). |
| `IpcTx` | `TermBehind = TRUE` | `KillsOnlyHung` fails: the shutdown frame is dropped when the socket is full. |
| `StorageRelay` | `NoneRefused` | with the table full a request is dropped, and the child that made it waits for ever. |
| `Contexts` | `RunningIsAlive` | the test that keeps a script from destroying its own context (`context.c:451`, promised by `qz_internal.h:564`) looks at the active context, which a nested spawn or rebuild sets back to the main one. |
| | `NoFreedUse`, `NoStrayJob` | after a script has destroyed its own context, spawn destroys the freed `qz_ctx_t` again if the script throws (`context.c:356-358`), rebuild restores into it (`:426-442`), and jobs it queues are not dropped (`:259-264`). |
| | `ExtStateSurvives`, `IoFindsContext` | the hooks of a context that ends free the state of the extensions, which belongs to the runtime, under the other contexts; I/O started by a context may be reported after it is gone. |
| `Timers` | `CallbackIsOwn` | a timer that fired has freed its slot before its reaction runs; a slot given out in between makes the reaction run another's callback. |
| | `StaleClearIsIgnored` | the handle of a timer that has run names the next timer in its slot, and clearing it stops that one (`timers.js:150-168`); `docs/js-api/timers.md:65` says such a handle is ignored. |
| `FsOps` | `NothingUnwritten` | a file that shrinks while it is read into a buffer of its former size gives bytes nobody wrote. |
| `Stores` | `AlwaysWhole` | two processes that save at once share the temporary file, and one renames what the other has just cut. |
| | `AuthIsAllocated` | the header value lent to a request is freed when a request through another proxy computes its own. |
| `HttpOp` | `SecuredIsSent` | a request whose handshake needs the peer's answer, as every real one does, is never sent (`uv_io.c:2429`). |
| | `EagerProxy = TRUE` or `LateAbort = TRUE` | `EndsOnce` fails: a write that is cancelled after the proxy's answer failed, and an abort between end and close, report a second end. |
| | `BusyTeardown = TRUE`, `BusySpec` | the teardown aborts the head of the registry until the registry is empty (`uv_io.c:3053`), but an aborted operation stays in it until its handles have closed: the loop does not end. |
| `HttpText` | `SplitBodyDecodes` | a body split inside a size line is not decoded as the comment (`uv_io.c:167`) says. |
| `TcpIo` | `WrittenIsSent` | a close cancels the writes libuv has queued, and the write callback ignores its status (`tcp_io.c:554-556`): what was accepted may be lost unnoticed. `WrittenIsTaken` says only that libuv takes what is written after `onconnect`. |
| | `RunningCallbackHeld` | a script that closes a connection inside one of its callbacks has the running function released (`tcp_io.c:364-369`, called without a reference at `:443`, `:487`, `:509`, `:545`); `bridge.c:1743-1745` takes one against just that. |
| | `CallbacksReleased`, `DnsFindsConn` | a close in `onconnection` leaves the callbacks referenced; after a close during resolution the resolver's answer uses the freed connection. |
| `Debugger` | `BreakpointsHit` | a breakpoint in a loop of one line is hit once (`debugger.c:218`). |
| | `Pipelines = TRUE` | `RequestsAnswered` fails: requests that arrive together stay in the `FILE` buffer, where `poll` does not see them. |
| `WasmLoads` | `AlwaysPristine` | with WAMR `validate` loads from the caller's buffer, which the loader rewrites; a later load of it sees other bytes. |
| `WamrShared` | `Overlap = TRUE` | `ImportFindsSlot` fails: threads register imports into one table without a lock. |
| `NativeCalls` | `NothingLeft`, `FreedIsInitialised` | two error exits keep an allocation (`ext_crypto.c:252`, `:628`), a failed allocation makes the generator's destroy free contexts that were never initialised (`:1303`). |

Smaller ones, met while translating; the models follow the code:

* HTTP: for a buffered request an end of file or a close notice before the
  announced length is a success; plain requests have no read time-out; custom
  headers beyond the request buffer are dropped silently.
* Timers: a timer beyond the table is a `RangeError`; `docs/js-api/timers.md:90` says
  it returns 0.
* WebAssembly: more than 16 arguments or 4 results pass the end of fixed arrays;
  a table's maximum of 0 means no maximum; compile and instantiate throw instead of
  rejecting; exported i64 globals come back as Number. With WAMR an import that
  throws `undefined` has no pending exception (`ext_wamr.c:1315`): the caller gets the
  engine's TypeError instead. `CallsAssumption` leaves `undefined` out.
* Compression: the zlib trailer is written little-endian (`docs/js-api/compress.md:26`
  describes zlib); an empty flush after unflushed data leaves it held.
* Crypto: an unsupported algorithm is named in the message of the TypeError after
  `JS_FreeCString` (`ext_crypto.c:128`, `:266`), and HKDF compares the name of its
  hash after releasing it (`:489`). `NativeCalls` has no step for reading a name.
* Debugger: `setBreakpoints` for one file clears those of the others.

## 4. What TLAPS proves

A theorem holds for every value of the constants that satisfies the module's
`ASSUME` (types of the constants, and that NULL, the stub and the like are
distinct from the rest); a run of §3 shows the same property on one instance.
Several theorems assume in addition that a constant is `FALSE` (or `TRUE`) that
stands for a condition the code leaves to its callers or to the peer. The code
does not keep what the theorem says without it: the table of deviations names
each of these constants and what happens under its other value.

| Theorem | States | Assumes |
|---|---|---|
| `MsgQueueProofs`: `MemorySafety`, `FifoDispatch`, `NodesStayKept` | `NoUseAfterFree`, `FifoOrder`, `NodesAreKept` | `LatePost = FALSE` |
| `QueueImplementsFifo` | `ImplementsFifo`: every step of the queue is one of `MsgFifo` or a stutter | `LatePost = FALSE` |
| `ChannelProofs`: `ChannelIsFifo` | `SocketIsFifo` | `DieInFlush = FALSE`, `TermBehind = FALSE` |
| `ParentServesChildren` | `ChildrenAreKept`, and the action properties `StraysAreOfTheTerminated` and `WellMeansAnswered`, whatever handlers and children do | |
| `RuntimeProofs`: `ThreadEndsSoundly`, `MessagesAreTasks` | `ThreadExitIsSound`, the action property `MessageIsATask` | |
| `HostHearsTheTruth`, `NoChildLeftBehind` | `HostIsToldTheTruth`, `ChildEndsOnce` | |
| `AnswersReachTheirCalls` | `AnswersAreOwn` | |
| `EngineStartsSafely` | `EngineStartsOnce`, with any overlap | |
| `EngineSharedSafely` | `EngineServesAll`, with any overlap | |
| `StopsStaySound` | `StopsAreSound` | |
| `WorkerSlotsProofs`: `WorkersJoined`, `OnlyGapsMisroute` | `WorkersAreJoined`, `LinkedAreNotMisrouted` | |
| `TerminateStaysOwn` | the action property `TerminateIsOwn`, with stale objects in use | |
| `ControlPlaneProofs`: `ReceiptsFindTheirConnection` | `NoDanglingSink` | |
| `OneReceiptEach`, `TimeoutsAreTrue` | `ReceiptPairing`, `TimeoutIsTrue` | `UniqueCorrel = TRUE` |
| `EndpointsFound` | `EndpointsAreFound` | `SharedPath = FALSE` |
| `NetworkProofs`: `OperationsAreFreed`, `ConsumersHearOnce`, `EarlyEndsAreErrors` | `FreedByTheLast`, `ToldOnce`, `SuccessIsComplete` | `EagerProxy = FALSE`, `LateAbort = FALSE` |
| `ConnectionsStaySound` | `ConnectionsAreSound` | |
| `ServicesProofs`: `TimersStayOwn` | `TimersAreOwn` | |
| `FilesStayTrue` | `FilesAreTrue` | |
| `ContextsStaySound` | `ContextsAreSound` | |
| `StoredStaysKept` | `StoredIsKept` | |
| `WasmStaysSafe` | `WasmIsSafe` | |
| `ResourcesStayTrue` | `ResourcesAddUp` | |

Almost none of these properties is inductive. Each part of a proof module begins
with the strengthening it needs, as named parts; there is a lemma for each action,
and under it a step for each part the action can disturb. TLC checked each
strengthening on a small instance before it was proved.

* **MsgQueue** (`IInv`). That the predecessor a producer is about to write to is
  still allocated depends on the consumer being unable to pass it, which depends
  on its link being NULL, which depends on no one else owning that gap. `IInv`
  says so with the list `chain` of nodes in claim order: its nodes are distinct
  and allocated (`ChainShape`); neighbours are linked, or the first's link is NULL
  and exactly one producer is about to set it (`ChainLinks`); what a producer
  holds is fresh before the exchange and in the chain after it
  (`ProducerState`); the data of the chain are the messages claimed and not
  delivered (`Pending`); and every allocated node is in the chain or in a
  producer's hand (`Accounted`). The refinement maps the exchange of the tail to
  the claim of a place, the store of the link to its linking and the advance of
  the head to the delivery or, in the drain, to the discarding of the oldest
  message; the steps between them stutter.
* **IpcTx** (`TxInv`). A byte has a place in the stream: the number of its frame
  and its index there. What the peer holds, what is in the socket and what is not
  yet sent are three consecutive stretches of the stream (`Places`), and `len` is
  what the buffer holds (`BufferCount`); so a frame is complete exactly when its
  last byte is read. Sizes of frames, sockets and `size_t` are arbitrary.
* **ProcHandles** (`ProcInv`). A slot names its process only together with the slot
  number that the process keeps (`Life`); that the read pump hands a frame to its
  own worker needs that no process is started while it runs (`PumpState`); that
  nothing is lost needs the frames in buffer and socket as one sequence
  (`Stream`); that a ping is answered truthfully needs the order of PINGs on their
  way out and PONGs on their way back (`PingState`). Handlers may terminate the
  process that is being read and start another, and a busy child may be pinged:
  the theorem says what holds then too, that a stray frame is of a process whose
  Worker was terminated and that no ping is called well without its answer. The
  stronger `NoCrossDelivery` and `PingTruthful` are disjuncts with the constant
  under which they hold.
* **WorkerSlots** (`WorkerInv`). `Joined` ties a worker's slot, the runtime behind
  `w->self` and its thread together: a runtime that has not been freed is still in
  its slot, where the reap and the teardown look. `Routed` says that, as long as
  no slot was given back over an unlinked message, the sender of a queued message
  still has its slot and the Worker object under that id is the sender's. So the
  misrouting that `workers_gap` shows is the only kind there is. From `Joined`
  also follows that an object whose worker was not joined has the worker's own
  slot, whatever other objects have its id: `TerminateIsOwn`.
* **RuntimeThread** (`RtInv`). `Phase` ties the host's place in the API to the place
  of the thread and the objects that exist there, `Promise` says where a message is
  that `qz_wait_idle` has to wait for, `Tasks` when a job of a message may be
  pending. Any number of posters, posts, pieces of work and rounds of the teardown,
  any set of failing initialisation steps.
* **IsolatedHost** (`IsoInv`). `IsoLife` orders the ends of loop thread, handle and
  child; `IsoTold`, `IsoPings` and `IsoAsked` say what a frame under way, or the
  lack of one, proves; `IsoInOrder`, `IsoComplete` and `IsoServed` number the
  messages through the host's queue, the channel and the child's queue, without a
  gap while the child lives. The child may die at any step.
* **ControlPlane** (`SinkInv`, `CtlInv`). `Keys` ties whatever carries a correl to
  the one command that uses it; `Single` and `Tokens` let a command have one entry
  of its own and one copy on the way to the child or back; `Answers` and `Timely`
  say that an entry and its receipt exclude each other. That no receipt goes to a
  closed connection needs only `SinkInv`, and holds whatever correls are used. For
  the endpoints `EpInv` says that no two runtimes hold one path, and that the file
  under the path of a bound one is its own, at each step of the start.
* **HttpOp** (`HttpInv`). An operation is unused, under way, over or gone. While it
  is under way only the timer of the connection can have been closed, and its phase
  says which callbacks libuv owes it (`Phase`); when it is over its consumer was told
  once, or twice if it aborted inside a callback (`Told`), and what keeps it is a
  close callback or the resolver (`Kept`). In every state the two counters of closes add up to the handles in libuv's closing queue
  (`Shape`), and the registry names live streams only (`Registry`). The theorems are
  about `Spec`, with any number of requests of every kind; the loop of the teardown
  (`BusySpec`) is not covered, see the deviations.

* **WamrShared** (`Registered`). That one thread at a time initialises the engine
  follows from the three values of its state alone. A module is linked to its own
  imports only if the newest registration is that of the one thread between
  registration and second load, and if a group stays in the list while a module
  built on it lives, whichever others are removed: `RemoveFirstFacts` is the lemma
  about the list. Where registrations overlap, what remains is that a thread takes
  away its own group only (`OwnListed`): an import without a slot was linked to
  another thread's group. Any number of threads and loads, failures included.
* **StorageRelay** (`RelayInv`). The relay gives its own numbers to the requests of
  its children. `Numbered` says of every frame between relay and owner that its
  number leads back to the process it was sent for: through the slot that holds
  the number, or through the call the relay itself waits in. `SlotsDiffer` keeps a
  number in one slot although slots are emptied when a child goes and filled again.
* **Debugger** (`DbgInv`). `RequestsCounted` accounts for each request as answered,
  in the pipe or in the buffer, with pipelining or without it; `StepIsUnderWay`
  says that a step from a line stays a step until another line is reached,
  whatever breakpoints, pauses and evaluations come between.
* **Timers** (`TimerInv`). A call is in one place: its slot, among the reactions or
  in its callback (`CallIsOnce`); an entry is under the handle of its call
  (`EntriesNamed`). A slot that is given out while an older call still goes by its
  number makes the two calls clash. Of those that never clashed, one that is to
  come has its entry and the timer under its number (`OwnEntries`,
  `EntryOwnsSlot`), and one that ran, was cleared or lost its entry to an old handle
  is over (`OverIsOver`). So clashes are the only way to another's callback, and a
  stale handle can cost a call its timer, never make it run after that.
* **FsOps** (`FsInv`). Each operation has a place (`Placed`), a store (`Backed`) and
  an answer or a callback that will give one (`Answers`); an undisturbed read has
  the file up to its offset (`ReadSoFar`), an undisturbed write has put its bytes
  there (`WrittenSoFar`). No two operations that write have one inode, because a
  write makes its own (`InodesAreRooted`).
* **Contexts** (`CtxInv`). The proof is about one record, the table with its counts
  (`Consistent`), and what each operation on it returns. Scripts nest: one that
  initialises a context is inside older ones only (`Nesting`), its context is a
  line of its own without a state (`Initialising`), and it is the active one until
  a call from it has returned (`ActiveIsRight`). That is where the protection of a
  running script's context ends, and what the property says of it too; a script
  whose context is gone still runs, and what it does to the table is covered up to
  the first use of the freed context.
* **Stores** (`LsInv`, `StoreInv`, `ProxyInv`). As long as no two processes write at
  once the temporary file belongs to the one that writes (`OneWrites`) and the area
  a process goes back to is what the file says (`BasedOnFile`), so that neither a
  kill nor a roll-back separates the two. A key of the store `Agrees` with what the
  resolved promises say of it, whichever entries were moved by a deletion; an
  allocation keeps the credentials it was made for.
* **WasmObjects** (`WasmInv`). The live objects are closed under references
  (`Closed`), and instance, module and runtime belong together (`InstancesOwn`).
  What `NoGarbageStays` needs is that six steps of references reach everything
  reachable, although the objects are many: an instance is reached in one step
  and whatever hangs on it in two more.
  For nested calls (`CallsInv`): a call binds the closures of an instance that is live
  (`Bound`), an import is called by an export below it (`CalledByExport`), and an
  exception waits only in an instance of which a call is under way
  (`ThrownWaits`), however calls and instances nest.
* **WasmLoads** (`LoadsInv`, `TablesInv`). The references of a load are
  a function of the place it has reached and of how it ended (`LoadIsOk`); the
  count of an object is the number of slots in live tables that hold it, one more
  if a script does (`CountsOk`), also while a `grow` converts its argument.
* **NativeCalls** (`ZInv`, `CryptoInv`). An object leads to a context of
  its class that was not freed, and no two objects to one. What a native crypto
  call holds before each step is fixed by the table of the steps of its function
  (`HeldThen`): the prover goes through the tables.
* **TcpIo** (`TcpInv`). A connection is untouched, `Here` or `TornDown`: `TornDown` holds
  nothing but what libuv still owes it, `Here` has told no end. `Wire` says that
  received, taken, handshake and data add up and that the buffer is the stretch of
  the peer's stream that ends where it was received, so that reads may cut it
  anywhere and the buffer may be moved; `Established` that onconnect waits for the
  handshake, and so that libuv takes what is written after it. Nothing is proved
  about the references to callbacks or about what becomes of queued writes.
  `CtxOk` counts the references to the TLS context.

What the constants are assumed to be, beyond their types: processes of the relay
are not named like its owner or its parent (`RelayAssumption`), a call of
`setTimeout` is not named like the script (`TimersAssumption`), the kinds of file
operations are disjoint and the writes finitely many (`FsAssumption`), no
import throws `undefined` (`CallsAssumption`; the code does not exclude it, see the
smaller deviations), tables are finitely many, may have two slots and hold no object
that is NULL (`TablesAssumption`), connections are finitely many and a handshake is
not empty (`TcpAssumption`), and bounds are natural numbers.

Model-checked only:

* liveness, which is beyond the prover: `EveryClaimDispatched`, `HostCallsReturn`,
  `IsoWaitsEnd`, `RequestsAnswered`, `PauseStops`, `EnsureEnds`,
  `ParentCallsReturn`, `AnsweredUnlessAsleep`, `FramesConsumed`, `EndIsNoticed`,
  `EveryFrameArrives`, `StreamEnds`, `TimeoutRuns`, `SyncEnds`, `TornDownGoes`;
* the conversions in `peers`: their loops are folds and recursive functions over
  data, and what they compute for every input needs an induction the provers
  cannot be given;
* the five deviations of §3 that are runs.

Every other invariant and action property of the runs of §3 is stated by a theorem;
`ChildrenAreServed` and `EngineIsShared` in the forms `ChildrenAreKept` and
`EngineServesAll`, which say what they say under the constants of the runs and what
is left of it without.

## 5. What is not modelled

* The polyfills of streams, message ports, HTTP/2, WebSocket and service workers
  (`polyfill/src`): JS state machines of their own, without threads. Planned.
* `polyfill_default.c` and the worker boot image: generated byte code.
* The algorithms of crypto and compression (they are in libraries), character set
  conversion, serialization of values, certificate loading: computations without
  a state of the system. Their frames are modelled: sizes, paddings, wrappers,
  what is held when a step fails.
* The command line tools: argument handling and printing around the host API.
* The interrupt flag of the control plane, command lines of more than one hop
  (`target_path` with several elements), pings that cross levels.
* DAP requests that only format what the engine says (`scopes`, `variables`,
  `evaluate` beyond its running inside a stop).
* Memory-order effects weaker than those of the annotated atomics: every access
  to shared memory is one step of a sequentially consistent interleaving.
* Memory exhaustion, except where it takes the path of another modelled failure
  (in `WasmLoads` and `NativeCalls` every allocation may fail).

## 6. Plan

The parts the rest relies on are modelled, checked and, where the prover reaches,
proved. What would come next, in this order:

1. The interrupt flag of the control plane (`control.c`): it stays set until some
   script runs, and may end a task it was not meant for. It belongs between
   `ControlPlane` and `RuntimeThread`, as a flag of the runtime that the dispatch
   of the next task reads.
2. The polyfill `worker.js`, which keeps Worker objects whose id has passed to
   another worker: `WorkerSlots` has the slots and stale objects, not the registry
   of the script's side.
3. The state machines of the other polyfills: message ports, back-pressure of
   streams, flow control of HTTP/2, the closing handshake of WebSocket, the life
   cycle of service workers.
4. The loop of the HTTP teardown (`BusySpec`), which only TLC covers.
