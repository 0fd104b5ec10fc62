# callwire in TLA+

callwire lets programs in Go, Python, Rust, TypeScript, Java, C, C++, Swift and COBOL
call each other's functions: length-prefixed msgpack frames over a TCP connection, four
call patterns (unary, server streaming, client streaming, bidirectional), clients that
multiplex calls by `id` and may reconnect, and an optional registry and orchestrator that
start and find workers. This directory models the concurrent and the memory-managing parts
of it in TLA+, checks them with TLC and proves most of the safety results with TLAPS.
`PROJECT.json` holds the machine-readable side: components, runs, mutants, findings,
hazards, theorems and, for every definition, the source lines it stands for.

## The system

| Part | State | Operations | What makes it hard |
|---|---|---|---|
| Go client (`go/callwire/client.go`) | `pending` map, `conn`, `closed`, one channel per call | `Import`, `ImportStream`, `ClientStream`, `BidiStream`, `Close`, read loops, reconnect loop | three mutexes, bounded channels, deadlines, `Close` against the reader, stale connections |
| Go server (`server.go`) | `streams` map, per-call channels, listener | connection loop, two dispatchers, collector with its 10 ms timer, feeder | frames routed by id to goroutines that come and go, bounded channels, panics |
| Rust client (`rust/src/client.rs`) | actor: pending map, outbound queues, command queue, reader tasks | four imports, `send`, `close_and_recv`, `recv`, `close`, drain, reconnect | one task serves all queues; bounded channels; frames of an old connection |
| C server (`c/src/server.c`) | handler table, per-connection list of input queues | accept loop, read loop, one thread per call, `close` | manual lifetimes, no join, no time limits, reused descriptors |
| C client (`c/src/client.c`, `convenience.c`) | one socket | blocking calls and streams | takes the next frame for the answer |
| C framing and codec (`framing.c`, `codec.c`) | bytes | read and write a frame, encode, decode | short and failed sends and receives, length bounds, maps of other encoders |
| C++ binding (`callwire.hpp`) | `Value`, closures of `Server` | moves, adoption, trampolines, export, close, destruction | who frees what, while calls run |
| COBOL shim (`cobol_shim.c`) | blank-padded fields | two call functions, two trampolines | off by one at a full field |
| Rust server, Swift, Python, TypeScript, Java, registries, orchestration | see "Not modelled" | | |

A client and a server share only a connection, an ordered stream of frames in each
direction that can break at any moment, so each side is modelled with the other as its
environment. `GoStreams` composes both Go sides, `CClient` both C sides, where the
interaction is the question. The C++, Swift and COBOL servers run on the C core.

## Modules

| Module | Models | State and actions |
|---|---|---|
| `RpcContract` | what a client promises its callers, whatever the language | `status`, `produced`, `finished`, `delivered` per call; open, produce, finish, deliver, answer, fail |
| `GoClient` | `client.go`: unary calls and server streams, both read loops, `drainPending`, reconnection, `Close` | variables carry the code's names (`pending`, `conn`, `closed`, `nextID`); `pc[i]` is the place of call *i*'s goroutine, `rd` that of the reader, `closer` that of `Close`; `opaque[i]` are the frames of call *i* that `decodeMessage` refuses. A critical section is one step; `pendingMu` is held over several steps only by `drainPending`, `writeMu` (`pc[i] = "writing"`) only by a write, which may wait for the server |
| `GoServer` | `server.go`: one accepted connection | `loop` is `handleConnection`, `hd[c]` the dispatcher of call *c*, `feeder[c]` the goroutine that feeds a bidirectional function, `buf`, `inCh` the channels, `streams` the map, `refused[c]` the frames that `decodeMessage` refused |
| `GoStreams` | extends `GoServer` with the Go client's `ClientStream` and `BidiStream` | replaces the environment client by `Send`, the sending goroutine, `CloseAndRecv`/`CloseSend`, the reader with its bounded channels (`rd`, `hand`, `resp`), `drainPending` and deadlines; `conn` is `c.conn`, which the goroutines read without its lock: this connection, the next one, or nil |
| `RustClient` | `client.rs`: `run_actor`, reader tasks, `drain_pending`, `reconnect_loop`, the four patterns | `actor` is the place of the actor in its loop, `pending` its map, `queue` the reader messages, one bounded channel per call; `Top`, `Pump*` and `Take*` are the parts of the loop |
| `CServer` | `server.c`: accept loop, read loop, call threads, input queues, `close` | `loop[k]` is `handle_connection`, `thread[i]` the call's thread, `inputs` the registered queues, `held[k]` the queue pointer that the read loop keeps after it has released `inputs_mu`, `freed` the queues that no longer exist, `sockfd[k]` the descriptor by which a call's thread finds its connection, `foreign` the calls whose frame went to another client, `broken` the connections whose reading failed while their client was there |
| `CClient` | `client.c` and `convenience.c` on one connection, with the server's threads at its other end | `toClient`, `toServer` are the two directions, `mixed` that a function has read another call's frame, `strayed` that the program has not kept to the rule that makes this impossible, `adrift` the first call whose read failed with more of its answer to come, `skewed` that the failure was inside a frame |
| `CBindings` | the conversions of `convenience.c` and `cobol_shim.c` | operators on strings and argument lists, used by `CClient` |
| `CCodec` | `codec.c` and `third_party/mpack_stub.h` | encoders, decoder and the msgpack primitives as operators on tokens (recursive: TLC only); integers keep the width and sign of their tag, and are converted as the code casts them |
| `CFraming` | `framing.c` under `conn_write_frame` | threads share a socket through `write_mu`; `net` is what is in flight, in units of a header byte or a token; sends and receives take any number of units or fail |
| `CppValues` | `callwire::Value` | heap blocks, the places that hold them and the `owns_` flags; one action per constructor, assignment, move, release and free |
| `CppServer` | `callwire::Server`, its trampolines and the handler table of `server.c` | extends `CppValues`; closures, names, calls that run while others export, close and destroy |
| `GoClientProofs`, `RustClientProofs`, `CServerProofs`, `CClientProofs`, `CppServerProofs` | the theorems about the module they are named after | – |
| `RustUploadProofs`, `RustOrderProofs`, `RustContractProofs` | more theorems about `RustClient`, on top of `RustClientProofs` | – |
| `MC*` | the instances TLC runs | model values, symmetry, the jobs of `CFraming` and the uses of `CClient` |

Payloads are numbers that say which chunk it is, errors and values are told apart only
where the code branches on them, and text, logging and encodings are left out but for
`CBindings` and `CCodec`, which are about them. Undefined behaviour of the C server (a push
to a freed queue, the use of a freed server) is a nondeterministic step whose outcomes
include the end of the process.

A frame may hold a value that the reader's decoder does not know: vmihailenco's `msgpack`
refuses a map with keys that are no strings in an `interface{}`, `mpack_stub.h` an ext tag.
The Go loops and the C read loop skip such a frame and go on (`SkipFrame`, `LoopSkip`,
`RouteSkip`); `read_wire_message` fails the call (`ReadRefused`). `rmpv` takes every value,
so the Rust client, which would skip the frame too, has no such step. A read that fails on
a connection that lives (a length over 16 MB, `malloc`, `recv`) is a step of its own in
`CServer` (`ReadFails`) and `CClient` (`ReadCut`, after which `ReadSkewed` reads the rest of
the frame as if another began there).

Definitions named in `PROJECT.json` under `mutants` are altered versions of actions, one
for each property, that show that the property notices such a mistake. They are not part
of any specification.

## Runs

Passing runs:

| Run | States | Shows |
|---|---|---|
| `goclient_shared` | 5.2 M | Two concurrent calls, two connections, losses, reconnection, timeouts, `Close`. `NoForgottenCaller`: a live call without an answer is in `pending`, and in an open client the reader is still on the connection that has its request; not covered are `Close`, and a request that vanished on a connection already lost, which only the deadline ends. `UnarySendNeverBlocks`: the reader always has room in a unary call's one-slot channel, also when the call has given up (for functions called with the pattern they have, `Mismatch = FALSE`). `CloseIsFinal`: after `Close` no connection stays open but one the reconnect loop is about to close |
| `goclient_stream` | 130 k | A stream longer than its channel. `StreamInOrder`: no gap between the server and the application but the frames that do not decode. `ImplementsContract`: `GoClient` implements `RpcContract`, the chunks produced being those that decode. `ReturnsUnlessBlocked`: every call returns unless `drainPending` stays blocked, or a write that a live server does not take in |
| `goserver_one` | 134 k | One call of every pattern against every shape of function, with late and undecodable frames, losses and panics. `ChunksInOrder` and `InvokedWithAll` (a client-streaming function is called with everything) for the chunks that decode, `OnlyStraysAfterAnswer`, `NoEntryLeaks`, and the liveness properties `LoopUnblocks` and `DispatchEnds` (a dispatcher is left waiting only on a dead connection, where nobody tells it) |
| `gostreams_one` | 1.2 M | Go client against Go server, with full channels, undecodable answers, `Close` and a replaced connection. `DeliveredPrefix`, `FirstAnswerCounts` (a late `NotFoundError` never takes the place of the answer), `UploadAnswered` (while the connection lasts and if the answer decodes) |
| `rustclient_one` | 401 k | One call of every pattern, three connections, with and without reconnection. `PendingOnCurrent`: no entry outlives its connection. `UploadInOrder`, `SilentOnlyAfterClose`, `ImplementsContract`, and `CallsReturn`: unless the client reconnects for ever, calls and streams return, and bidirectional streams whose terminator has reached the server |
| `cserver_one` | 950 k | One call of every kind over two connections that may share a descriptor number, with losses, reads that fail on a live connection, undecodable chunks, early returns, threads that cannot be created, and `close`. `InputInOrder` (for the chunks that decode), `StaleNeedsEarlyReturn` (a freed queue is used only after its handler left before the end of its input), `ForeignNeedsDeadConn` (an answer goes astray only when its client has gone or the server gave up reading it), `AnsweredAtMostOnce`, `HandlersEnd` (unless a live client does not read) |
| `c_client` | 1.4 M | Two calls of a C or COBOL program, of every kind, against handlers that fit and that do not. `OwnFramesOnly`: a program that ends each call before the next reads only its own frames, until a read fails in the middle of an answer, a chunk that does not decode included; from then on the connection is out of step. `StreamWhole`, `EchoKept` (strings through the COBOL fields), `WaitsOnlyForServer` (what a wait without end waits for) |
| `c_wire` | 330 k | Two threads write the messages of all encoders, and maps of other encoders with every integer tag, whole and cut off, in sends and receives of every size. `FramesIntact`, `DecodedAsMeant` (an integer of 2^63 or more, which `int64_t` has no room for, comes out negative), `FramesArrive` |
| `cpp_server` | 227 k | A call through the C++ trampolines while other threads export, close and destroy. `OneOwner`, `NeverBad`, `ClosureLifetimes`, `OnlyStreamArgsLeak` |

Runs that TLC must find violated; each states what a document, comment or test of the
repository says, and its trace is what the code does (the quotations are in
`PROJECT.json`, `findings`):

| Run | Property | What happens |
|---|---|---|
| `goclient_drain_blocks` | `EveryCallReturns` | `drainPending` blocks on a full stream channel with `pendingMu` held, which the stream's goroutine needs to leave |
| `rustclient_upload_hangs` | `UploadReturns` | the actor does not wait on its outbound queues; a terminator queued after the pump has passed stays there, or is discarded by the `is_closed` test |
| `cserver_cut_off` | `CleanEndMeansDone` | a lost connection gives the handler the return value documented as a clean end |

Five more configurations of this kind are kept and not listed as runs:

| Configuration | Property | What happens |
|---|---|---|
| `GoClientCloseStrands.cfg` | `CloseWakesCallers` | `Close` between two frames: the read loop leaves at its top without `drainPending`, and a call waits for its own deadline |
| `GoClientSkips.cfg` | `StreamEndsWhole` | a chunk that `decodeMessage` refuses is skipped, and the stream ends without an error and without it |
| `GoServerLateChunk.cfg` | `AnsweredOnce` | a client stream whose first chunk comes after 10 ms is answered as a unary call, and again for each late frame |
| `GoStreamsCloseOvertakes.cfg` | `UploadComplete` | `CloseAndRecv` writes `stream_close` while accepted chunks are still queued |
| `CClientNoTimeout.cfg` | `HeaderTimeout` | `c/include/callwire.h:80` says of `callwire_client_call` "Blocks until response or timeout"; there is no timeout, and a call whose server thread gave up without a frame waits for ever |

### Bounds

Channel capacities are 1 (64 to 1024 in the code; the Rust client's command channel has 2) so that full channels are
common; chunk bounds exceed them, so that senders block. Two connections are the least
that has a stale one, or a descriptor handed out again; the Rust run has three, since a
reader's `Closed` can be two connections late. `goclient_shared` has two calls because its
questions are about calls that share a reader and a lock, `c_client` because its question
is whether one call reads the frames of another. The server and Rust runs have one call:
there, calls share the loop, which handles one frame or command at a time, and a map
indexed by id; the proofs about `CServer` cover any number. `c_wire` has two writers and
two frames, the least that can mix, limits of a few tokens so that messages exceed them,
maps of up to four entries, and integers of 2, 4 and 6 bits for the 8 to 64 of the code:
one width less than the greatest, and the greatest, are the two cases of the conversions. `cpp_server` has two registrations of one name, and four
blocks, one of them with keys that are no strings, which are interchangeable otherwise
(symmetry). The COBOL fields have two characters and strings up to three.
`Mismatch = TRUE` (calling a streaming function with `Import`) is part of `GoClient` and
no run switches it on. Deadlock is not checked: a client without calls, a server without
clients and a closed client rest, and bounded counters stop.

### Fairness

- `GoClient`: goroutines are scheduled; Go's mutexes do not starve a waiter, hence strong
  fairness for taking `pendingMu` and `writeMu`; every call has a deadline. A write to a
  connection that is lost or closed returns. One to a live connection need not: `conn.Write`
  has no deadline and waits for a server that reads, which is not assumed. Nothing is asked
  of the server, of `Close` or of the application that reads a stream.
- `GoServer`, `GoStreams`: goroutines are scheduled, the timer fires, connections take in
  what is written to them, a client finishes what it started, and functions read their
  input and return. The last three are assumptions about the peer and about users.
- `RustClient`: tasks are scheduled, the server reads (`write_frame` has no time limit) and
  answers the calls it has all of, callers keep waiting for what they asked for, and the
  server closes a connection that the client has closed. A bidirectional call may be
  answered before its `stream_end`, but need not be. Redialling has no fairness of success,
  hence "unless the client reconnects for ever".
- `CServer`: threads are scheduled, and a handler reads to the end of its input and
  returns. Nothing is asked of the client: a `send` to a live one, which has no time limit,
  need not return.
- `CClient`: the client reads what has come, the server's threads run, a handler reads its
  input and returns. Nothing is asked of the program.
- `CFraming`: a thread inside `send_all`, and the reader, go on while the connection lets
  them. `CppServer` has no liveness property and no fairness.

## Proofs

Every theorem holds for all values of the constants that the named `ASSUME` of its module
allows: any number of calls, connections, chunks, blocks, names, any capacity. TLC checked
the inductive invariants on the small instances before they were proved.

### `GoClientProofs` (assumption `GoClientAssumption`)

- `TypeCorrect`: `Spec => []TypeOK`. Not inductive alone, since the reader uses a
  connection and a frame that only `rd` vouches for; `ReaderHolds` adds that.
- `UnarySendsDoNotBlock`: `UnarySendNeverBlocks`, under `~Mismatch`, by `ReaderInv`: an entry
  leaves `pending` only with its terminal frame (`Remembered`), and the frame finds room
  because the entry was still there. The induction needs that no frame precedes its request
  (`CallOrder`), that frames fit the kind of their call (`FramesFit`), that a stream's
  channel holds no frame that its goroutine would ignore (`StreamChannels`), and that a
  unary answer in the reader's hand has left the map (`UnaryAnsweredOnce`).
- `CloseLeavesNothingOpen`: `CloseIsFinal`. The invariant `ConnOwner` gives every open
  connection one owner (`c.conn`, the goroutine in `Close`, or the reconnect loop that
  has just dialled it) and says that only a lost connection is replaced.
- `CallersAreNotForgotten`: `NoForgottenCaller`, under `~Mismatch`. That an unanswered call is
  in `pending` is `Remembered`; that the reader is on its connection is `Watched`, which
  rests on `ConnOwner` and on a call's connection being no newer than the client's
  (`SnapOld`): the reader leaves a lost connection only when its drain has emptied the map,
  and a request written to that connection afterwards does not reach the server.

### `RustClientProofs`, `RustUploadProofs`, `RustOrderProofs`, `RustContractProofs` (`RustClientAssumption`)

Every safety property of the run `rustclient_one` is a theorem: with and without
reconnection, for any number of calls, connections and chunks and any channel capacities.
Three modules build on `ClientInv`, the invariant of the first. It joins the types of the
state (`TypeInv`, without the capacities), the place of the actor in its loop and what its
maps may hold there (`ActorInv`), the life of a call from its command on (`LifeInv`: before
the command nothing has happened, while it waits the actor knows nothing of the call, there
is one command per call, a task of `drain_pending` is the last to speak to its stream, a
request was written to one connection), and `WatchInv`.

- `PendingStaysCurrent`: `PendingOnCurrent`. `WatchInv`: while there is a writer, or a
  pending call, the reader of the connection dialled last runs or its `Closed` is queued.
  The induction needs `WriterInv` (the writer is the connection dialled last) for the step
  that takes an old reader's `Closed`, and `SrvInv` for the request of a pending call.
- `UploadsArriveInOrder`: `UploadInOrder`, by `UploadInv`. As long as the queue of a call
  can still reach the server that has its request (`Carried`), what the server has and what
  is queued are together what `send` accepted, in order (`Going`), with the terminator last
  once the caller has ended the upload (`Ending`), or all of it has arrived (`Over`). A
  queue that outlives its connection is pumped to the next one and loses payloads when a
  write fails, so the tie is gone then; but the server of the next connection does not know
  the call, and what the old one has stays a prefix (`UplInv`).
- `SilenceNeedsClose`: `SilentOnlyAfterClose`, by `ToldInv`: a stream that still waits, in a
  client that reconnects and is not closing, has a sender (its entry in `pending`, its
  command, the frame in the actor's hand, or its task of `drain_pending`) or a last word in
  its channel. Every step that drops the sender has to leave the word behind.
- `KeepsContract`: the refinement `RustClient!Spec => RpcContract!Spec`, step by step. `Begin`
  opens the call, the server's steps produce and finish, a receive delivers,
  answers or fails, and the steps of actor, readers and tasks stutter. The answer is the
  step that needs proof: a call is answered only when the server has finished it and
  everything it produced was delivered. `FrameInv` says that a frame, wherever it is (wire,
  reader queue, hand, channel), fits what the server has done of its call (`Fits`).
  `OrderInv` follows the frames of a stream from the server to its caller: those in the
  channel go on from what was received (`ChanOrder`), the one in the actor's hand goes on
  from these (`HandOrder`), and while the call is pending those in the reader queue and on
  the wire of its connection are numbered on from there without a gap, the end being
  numbered after the last chunk (`Numbering`, `Flows`). Hence an end that reaches the
  caller has all chunks before it.
- `TypesHold`: `Spec => []TypeOK`. Its capacities are `CapInv`: whoever sends finds room,
  waits, or fails. That no more is received than was sent is `RecvInv` of the order above.

### `CServerProofs` (`CServerAssumption`)

`ServerInv` is one inductive invariant for three theorems. It is proved kept by the accept
loop and the read loops first, then by the calls' threads and the clients.

- `FramesStayHome`: `ForeignNeedsDeadConn`. `ConnInv`: a connection whose client is there
  and whose reading has not failed is being read, hence its descriptor is not closed, and
  no two open connections have the same one. So a frame written by number goes home unless
  the link was lost or the server gave up reading it.
- `StaleOnlyAfterEarlyReturn`: `StaleNeedsEarlyReturn`. A queue is freed when its handler
  has returned, which was early or after the end (`FreeInv`). The end is in a queue, or was
  seen by its handler, only when the client has finished and no frame of the call is on
  its way, or the read loop is over (`SettledInv`). What the read loop holds is the queue
  of the frame it is at (`HoldInv`), so after an end it holds no such queue. `WireInv`
  places the frames: a request is the first of its call and its thread does not exist yet,
  a terminator is the last.
- `AnswersAtMostOnce`: `AnsweredAtMostOnce`. `TermInv` ties the number of terminal frames
  to the place of the thread; that a request is read once, before its thread exists and
  while no terminal frame was written, is `WireInv` again.
- `InputArrivesInOrder`: `InputInOrder`, by `OrderInv`, inductive relative to `ServerInv`:
  while a handler may receive, what it got, what is queued and what is on the wire, refused
  chunks apart, are the chunks from 1 to the last one sent, each at its place (`BufInv`, `FlowInv`); an end mark
  comes last and stands for all of them (`EndInv`). Before its thread exists a call has
  neither queue nor input (`FreshInv`), so that the chunks that follow a request find
  nothing in front of them.
- `TypesHold`: `Spec => []TypeOK`, with the bounds (`BoundInv`). That a handler is given no
  more chunks than a client may send follows from the order above.

### `CClientProofs` (`CClientAssumption`)

`ClientReadsOwnFrames` (`OwnFramesOnly`) and `StreamsComeWhole` (`StreamWhole`) follow from
`OwnInv`: either the program has strayed, or a read has failed in mid-answer, or every frame
under way is of the call in hand (`FramesInv`), whose thread at the server is where the
frames say (`ThreadInv`), and the chunks received and under way are those emitted, in order
(`StreamInv`). A last frame that does not decode leaves nothing behind, so it keeps the third
case. For the streams before a failed read there is `DriftInv`: what a call has been handed
when it is over, the one whose read failed included, does not change any more, whatever
later calls read (`LeftInv`).

### `CppServerProofs` (`CppValuesAssumption`, `CppServerAssumption`)

- `ValuesHaveOneOwner`, `ValuesNeverBad` by `ValuesInv`: every block is held by one place
  that owns it, or is free.
- `ServerUsesValues`: the refinement `CppServer!Spec => CppValues!ValuesSpec`: every step of
  the server is one of `Value` or leaves the values alone. `ServerOneOwner` and
  `ServerNeverBad` carry the two results over.
- `ClosuresLiveWithServer` by `ClosuresInv`; `ServerTypes`; `RoutingNeverChanges`, an action
  property: what a name is bound to never changes.
- `FinishedCallsAreTidy` by `TidyInv`, which says for each place of a call's thread which
  of its variables may hold blocks.

### Only model-checked

- All liveness properties (`ReturnsUnlessBlocked`, `LoopUnblocks`, `DispatchEnds`,
  `UploadAnswered`, `HandlersEnd`, `FramesArrive`, `CallsReturn`, `WaitsOnlyForServer`):
  fairness is beyond the prover.
- `DecodedAsMeant` and `FramesIntact`: the codec is recursive, and what a recursive
  definition computes for every input cannot be proved here; `CFraming` extends it.
- `EchoKept`: it is about the greatest position of a character that is no blank, a fold
  over a string, for which the same holds.
- `GoServer` and `GoStreams`: their properties speak of the frames of one call among those
  of all (`SelectSeq`), an induction over data.
- `StreamInOrder` and the refinement of `RpcContract` by `GoClient`: not yet proved. The
  same order and refinement are proved for `RustClient`.

## Not modelled

- Python, TypeScript and Java clients and servers: the same protocol in other languages.
  Where they differ from the modelled ones and deserve a model of their own: writes without
  a lock (`python/callwire/server.py:229`), the 30 s silence of a client stream
  (`server.py:241`), a drain that may meet a full queue (`client.py:133`, `:180`), `offer`
  dropping chunks (`Client.java:225`), the end of the read loop (`Client.java:232`), `close`
  against a reconnection under way (`client.ts:540`).
- Rust server: its loop has the shape of the Go server's.
- The Go server's listener (`Export`, `autoServe`, `Serve`, `Close`), and `Batch`, a fan-out
  of `Import`.
- Registries and `DiscoverPool`: tables and caches of clients in front of the modelled
  clients (`registry.go:112`, a refresh that keeps clients of workers that have gone, is
  their hazard). Orchestration: child processes, ports and a pid file
  (`orchestration.go:342`), whose behaviour is the operating system's.
- The Rust client's TLS actor and its registry routing.
- C++ `Client` objects, typed accessors; `callwire_client_close`; COBOL registration and the
  COBOL runtime; the Swift wrapper (its C sources are copies of `c/`).
- TLS set-up, command lines, scaffolding, examples: I/O.
- msgpack's byte formats, below the tokens of `CCodec`, and what a Go program does with a
  value that decodes to another type than it asked for.
