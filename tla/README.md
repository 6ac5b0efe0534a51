# TLA+ models of verus_mcp

The repository is an MCP server that runs the Verus verifier, together with three
Rust libraries (`tiny-http`, `fixedbitset`, `iban_validate`) that were annotated
with its help, and Python scripts that keep the record of such sessions. This
directory holds TLA+ models of its concurrent and algorithmic parts, the TLC
configurations that check them and TLAPS proofs of what matters most.

## 1. The system

| component | source | state | operations |
|---|---|---|---|
| receive queue | `tiny-http/src/util/messages_queue.rs` | deque of `Control` under a mutex, condition variable | `push`, `unblock`, `pop`, `try_pop`, `pop_timeout` |
| task pool | `tiny-http/src/util/task_pool.rs` | deque of tasks under a mutex, condition variable, two atomic counters | `new`, `spawn`, worker loop, `drop` |
| connection | `tiny-http/src/client.rs`, `util/sequential.rs`, `request.rs` | `no_more_requests`, the chains of readers and writers, requests in the users' hands | `next`, `respond`, `as_reader`, `upgrade`, `into_writer`, drops |
| body readers | `tiny-http/src/util/{equal,fused}_reader.rs`, `custom_stream.rs` | bytes left, inner reader | `read`, `drop` |
| response | `tiny-http/src/response.rs` | headers, body, length | `with_*`, `raw_print`, `choose_transfer_encoding` |
| server | `tiny-http/src/lib.rs` | close flag, queue, listening socket | accept loop, `recv*`, `unblock`, `drop` |
| TLS back ends, sockets | `tiny-http/src/ssl*`, `connection.rs`, `util/refined_tcp_stream.rs` | one mutex per TLS stream | `read`, `write`, `shutdown` |
| MCP server | `src/verus.rs`, `src/main.rs` | none of its own; a child process per call | `verify`, `check_syntax`, `get_diagnostics`, `cargo_build`, `cargo_test` |
| session scripts | `scripts/*.py` | JSON log of sessions, knowledge base, progress files | create, end, event, list |
| `FixedBitSet` | `fixedbitset/src/lib.rs` | SIMD blocks of words and a length in bits | `insert`, `set`, `toggle`, ranges, set algebra, iterators |
| IBAN | `iban_validate/` | none | parse, checksum, two formats |

How the HTTP server's parts interact. The accept thread hands each connection to
the task pool. A pool thread runs the connection: it reads a header, builds a
`Request` and pushes it to the receive queue; user threads take requests out of
the queue and answer them in any order. The requests of one connection share one
input and one output stream. `util/sequential.rs` gives each request a reader and
a writer and hands the stream from one to the next when they are dropped. Over
HTTPS both directions share a mutex, so the connection thread waits for a
notification that the request was answered before it reads on.

How the MCP server's parts interact. The service loop of `rmcp` starts a task
per tool call on tokio's worker threads. The three `verus_*` tools start
`cargo-verus` and read its stdout with blocking calls on the worker itself; the
two `cargo_*` tools hand `Command::output` to a blocking thread and await it with
a timeout. Children and pipes belong to the operating system.

What is hard here: threads that wake, time out and give up in an order nobody
tests; counters read outside the lock that orders sleeping and notifying; a chain
of readers and writers whose order depends on when other threads drop things;
threads that wait for each other through these chains; bits behind the end of a
set that every operation must leave at zero; child processes whose pipes fill. `PROJECT.json` lists each of these hazards at its line.

What makes each component correct:

- receive queue: receives return what was sent, in order; a sleeping receiver is
  woken for a message; a timed receive ends.
- task pool: each connection runs once; the counters that decide between a new
  thread and a queued task count right; idle threads end.
- connection: one response per request, in the order of the requests; the body of
  a request is not parsed as a header; over HTTPS the two directions do not
  block each other.
- body readers: exactly the announced number of bytes is consumed, however the body
  arrives and whoever reads, gives up or drops it; an end of file means the end.
- response: the client finds the end of each response, for every status, method,
  version and TE.
- server: a client that speaks is served; a dropped server's accept thread ends.
- MCP server: a call is answered with the whole output of its child, in time, and
  leaves no process behind.
- session scripts: no event is lost.
- `FixedBitSet`: every operation is the operation on the set of numbers.
- IBAN: both textual forms parse to the same number, and only numbers with
  remainder 1 modulo 97 are accepted.

## 2. Modules

Each `X.tla` holds state, actions and properties; the operators marked as mutants
are variants of a definition with a plausible bug. They are used by no action:
a mutant that replaces the definition it is named after must break the property
`PROJECT.json` pairs it with.

### `MessagesQueue.tla`, `MessageLog.tla`

A consumer is in one of the receives or outside. Each critical section of the
mutex is one action: `Push`, `UnblockOne`, `Pop`, `TryPop` and `PopTimeout` enter
a call; `PopWakes` and `PopTimeoutWakes` are the iteration after a wakeup.
`NotifyOne` picks any sleeper, `SpuriousWakeup` is allowed at any time, and the
time of `pop_timeout` is a clock per consumer: `Tick` lets time pass,
`TimerFires` ends a sleep, and `Remaining` is the `saturating` subtraction of
lines 89–94. The code gives each wait the full timeout, and so does `SleepLimit`.

`stranded` is a history variable: the queued tokens whose wakeup a `pop_timeout` used
up when it gave up beside them (`GiveUp`).

`MessageLog` is what the queue promises: a log of the tokens sent, of which each
receive takes the next one. `MessagesQueue` implements it (`ImplementsLog`).

### `TaskPool.tla`, `Workers.tla`

The accept thread's `Spawn`, the workers, and `DropStores`/`DropNotifies`, the
two steps of `Drop`. The mutex is modelled by `LockFree`: only the stretch from
finding the queue empty to sleeping (`"holding"`) takes several steps, because
`active_tasks` is read there and changed elsewhere without the mutex.
`Registration` guards are places: a thread between `GoIdle` and its next round
has one of `waiting_tasks`, a thread from `Register` to `Deregister` one of
`active_tasks`. `Many` is the 999999999 that drop stores. `Panic` unwinds a
worker out of a task.

`Workers` is what the pool promises: a task that was submitted waits, runs and is over,
once. `TaskPool` implements it (`ImplementsWorkers`): a task waits while it is queued or
carried by a thread that was not scheduled yet, it runs while a worker is inside of it.

### `Server.tla`

The accept thread, the connections as the accept thread and the receivers see them,
the receiving calls of the user's threads and the drop of the `Server`. It composes
the specifications of its two parts instead of the parts: the connections run on
`Workers`, and the requests go through a `MessageLog`; each action of the server that
touches a part is a conjunct `Pool!...` or `Log!...`. `accept` is the place of the
accept thread; `backlog` is what the kernel holds for it; a client is away, open or
closed, and a `Silent` one says nothing for as long as it is open. `DropStores` and
`DropConnects` are the two steps of the drop, which need that no receiver is inside of
a call, because a receiver borrows the server. What happens inside of one connection
is `ClientConnection`; here it delivers requests and ends, and over HTTPS waits for the
answer after each (`awaiting`). The close flag is stored and loaded `Relaxed`; the model
takes the load that follows a store to see it, as an atomic on one location does in
the end. A connection that the pool queued behind the thread of a silent client is the exception
`Behind` of `RequestServed`.

### `Exchange.tla`

The bytes of one connection, one request after the other. The client's stream is a
sequence of units: a head, or a byte of a body; all bytes of bodies are alike. The
server reads a head, and `new_request` leaves a body out, fills a buffer with it
(`"filling"`) or leaves it to an `EqualReader` in a `FusedReader`. A read takes any number
of bytes that are there, not more than it asked for (`Read`). The user reads with
buffers of any size, also of size 0 (`ReadIntoNothing`), answers, drops, or unpacks the request with `into_writer`; the drop
of the reader drains what is left (`Draining`). The other direction is `RawPrint`:
`AddHeader`, `ChooseTransferEncoding` with `ParseTe`, and the framing, written as units
too; `Extent` is what a client takes for the response by the rules of RFC 7230. A client
may hold its body back for `100 Continue` (`patient`) and hang up anywhere. Chunked
bodies of requests and upgrades are left out; requests that overlap are
`ClientConnection`. `ASSUME` says that only HTTP/1.1 requests expect something.

### `ClientConnection.tla`, `ResponseStream.tla`

One connection, plain or `secure`. A slot is one `SequentialWriter`; `MyTurn` and
`HeaderSourceReady` are the two chains of `sequential.rs`. The client sends `Requests`,
records of what the connection tells apart: what the `Request` keeps of the stream
(`reader`: nothing, the `EqualReader` of a body, or the whole stream after an upgrade), whether
it `expects` 100 Continue, and whether it is the `last`; a header of any of these may meet any
state of the others. Or the connection thread reads one of `Failures`: a malformed
header, a request that `new_request` refuses or that breaks off, a version that is not supported,
end of file. The header and the body are two events: `arrived` holds the slots whose body is
here, `SendBody` adds to it, and nothing makes the client do so.

User threads receive requests and answer, drop, upgrade or unpack them. A call takes several
steps, and `busy` says where its thread is: a `Writing` call waits for the slot's turn, a
`Reading` one for the body. Whoever lets go of a body's reader, by reading to its
end or by dropping it unread, waits in `DropReader` until the body is over (`BodyOver`), as the
drop of the `EqualReader` does; so `into_writer` (`"unpack"`), the drop of an answered `Request`
(`"drain"`) and of an upgraded stream (`"close"`) may wait for the client, over HTTPS with the mutex
of the stream (`WaitsForBody`, `StreamFree`). A response is written in two steps, so responses
could mix if the chain let them.

`ResponseStream` is what the client may see: whole responses in the order of the
requests. `OrderKept` says that each write is a step of it unless a writer before was given
up unwritten, which is what a refused request does (`CC_refused`). `MCClientConnection` names the
requests of each run. Left out are chunked bodies, whose `Decoder` is a library, and what is
read from an upgraded stream behind the request.

### `VerusServer.tla`

Tool calls with their task, their blocking closure and their child. `phase` is
the task: `"reading"` occupies a worker (`Busy`), `"awaiting"` does not. The
pipes hold a number of lines up to `PipeSize`; a child that finds one full waits
in it. Nothing limits what a child writes to either pipe; `ReadBy` says which the server reads. How tokio, rmcp, pipes and children behave is external: a free worker
polls any task that is ready, dropping the runtime waits for busy workers and
running blocking threads and drops everything else, a child may write, end or be
killed at any moment. Paths, arguments and the parsing of diagnostics are left
out.

### `FixedBitSet.tla`

A word is the set of its bits that are 1, a bit set is a length and a function
from word numbers to words, with `K * SimdBlockLen(length)` words. The
operations are operators on bit sets, word by word as in the code; `Masks` is
`MaskAt` and `MaskBlocks`; the iterators are records with a front word, a back
word and the stretch of words between them. The behaviours are those of a
caller that applies any operation to its sets, or borrows one and calls `next`
and `next_back` in any order. The lazy iterators over two sets, `as_mut_slice` (which documents
what writing past the length does), formatting and serde are left out.

### Proof modules

`MessagesQueueProofs.tla`, `TaskPoolProofs.tla`, `ServerProofs.tla`, `ExchangeProofs.tla`,
`ResponseProofs.tla` (which extends it), `ClientConnectionProofs.tla`, `VerusServerProofs.tla`
and `FixedBitSetProofs.tla`, see section 5.

## 3. Runs

| run | expects | bounds | shows |
|---|---|---|---|
| `MQ_queue` | pass | 3 consumers, 1 value and unblock, all calls, timeout 2, 2 tokens | the log, no wakeup lost but by `pop_timeout`, the bound on the time of a timed receive, and `pop` returns |
| `MQ_lost` | violation | 2 consumers, timeout 1, 2 tokens | a timed receive swallows a notification |
| `TP_pool` | pass | 1 permanent thread, 2 tasks | counters, tasks and wakeups, with panics and a drop at any time; the pool implements `Workers` |
| `CC_pipeline` | pass | 2 users holding one request each, 3 slots, 4 requests, all failures | responses in order, one notification each, bodies kept apart from headers, answers and the end of the connection while bodies come |
| `CC_refused` | violation | 1 user, 3 slots | an error response overtakes an earlier response |
| `CC_505` | violation | 1 user, 3 slots | the 505 response is never sent |
| `SV_server` | pass | 1 client that speaks, 1 silent, 1 receiver, 2 requests each, 1 unblock | clients are served, one request in flight over HTTPS, the end of the accept thread |
| `EX_framing` | pass | 2 requests, bodies of 0 to 2 bytes (buffered up to 1), responses of 0 to 2 (chunked from 2), 3 statuses | requests and responses keep their frames, and nobody waits for ever |
| `FBS_sets` | pass | 2 sets, words of 2 bits, blocks of 2 words, 5 bits | exactness of all operations, queries and iterators |
| `FBS_blocks` | violation | the same, with surplus bits | `with_capacity_and_blocks` does not truncate |
| `VS_calls` | pass | 2 calls on 1 worker, pipes of 1 line | complete results, no orphans or zombies, what may hold a worker, timeouts, the end |
| `VS_stderr` | violation | the same, with children that end unless they are blocked | a full stderr pipe stops the server |

Why the bounds are enough to show what they show. In the queue three consumers
allow a notified, a sleeping and an arriving one at once; a value and an unblock
token in either order let a swap, a loss and a repetition be seen, since the queue
compares a token only with `Unblock`. In the pool one permanent
thread and two tasks give up to three threads: one that is created, one that
expires, and a task queued for either. Three slots in the connection give a
request, its successor and the error response behind both; the conditions of
`sequential.rs` only look at the neighbour. Its four requests are one without a body, one with
a body in the middle of the stream, one with a body that is expected and last, and
an upgrade: each value of `reader`, `expects` and `last` once, the last request with a reader
that is not empty included. Five bits in words of two and
blocks of two words have a full block, a last block with one bit, a word
behind the slice and sets whose lengths differ by a block. One worker and two
calls let one call starve the other; more workers need as many hanging calls.
In the server one client that speaks and one that holds its handshake are what the
accept thread can be between, next to the connection of the drop; two requests let one
follow another. In the exchange a body of two
bytes can arrive in pieces, break off in the middle and be read in part; bodies of one
and of two bytes lie on the two sides of `BUFFERED`, responses of one and of two on those
of `THRESHOLD`; a second request shows what the first left in the stream.

`CHECK_DEADLOCK FALSE` is given where the system may really stop: the client has
sent all it wants, the pool has been dropped, the server is down, or the bound
on the tokens is reached.

Fairness. `MessagesQueue`: woken consumers run and timers fire; nobody has to
send. `TaskPool`: strong fairness of each worker, because the mutex serves every
thread that waits for it in the end, and of its timer, because spurious wakeups
do not cut short every sleep; `EndingSpec` adds that connections end.
`ClientConnection`: one condition for each thread, weak, because nothing takes its step away
but its own: the connection thread runs (`Server`), and a user thread runs as long as it is
inside of a call, holds a request to answer or drop, or can receive one (`Serves`). Nothing makes
the client send a header or the rest of a body. A thread that waits for a body may wait for
ever; `EveryRequestAnswered` and `ConnectionCloses` therefore have the premise `BodiesCome`, that no
body is waited for for good, and without it TLC finds both violated by a client that holds
its body back from a user who called `into_writer`. `RespondReturns` needs no premise.
`Server`: the accept thread, the threads of the connections and the drop run; a submitted
connection starts while no silent client occupies a thread, which is what `EveryTaskRuns`
of the pool gives where no task panics; a receiver calls `recv` again and answers what it holds; nobody has to connect, hang up, unblock or
drop, `accept` need not fail, and a silent client may stay so.
`Exchange`: the server's threads run, and the client sends the body it announced (unless
it waits for `100 Continue`) and reads its answers; the user may hold a request for
ever.
`VerusServer`: a ready task gets a free worker in the end, blocking threads
run and timers fire; children are not assumed to end, except in `VS_stderr`,
where they do unless they are blocked, so that the violation is the server's. The premise of
`WorkerComesFree` is that a write that finds room in its pipe goes on (the kernel); of
`CargoAnsweredIfServed`, that workers become free. What else may hold a worker is what
`WorkerComesFree` says: a child that runs for ever, or one at its unread stderr.

## 4. Disagreements found

Shown by runs (`PROJECT.json`, findings):

1. `MQ_lost`. A `pop_timeout` that was notified and finds its time used up
   returns `None` without looking at the queue (messages_queue.rs:95). A thread in
   `pop` then sleeps beside a queued message. `NoLostWakeup` says, and the proof shows, that
   this is the only way to lose a wakeup.
2. `CC_refused`. When `new_request` fails it drops its writer unwritten, which
   hands the turn on; the 417 or 408 overtakes the response to the request before
   (client.rs:227).
3. `CC_505`. The writer of the 505 comes behind the writer of the request that is
   still a local of the same thread (client.rs:241): it waits for itself.
4. `FBS_blocks`. `with_capacity_and_blocks` keeps bits of the last word behind the
   length (lib.rs:134), although it says that it truncates.
5. `VS_stderr`. `verify` pipes stderr and never reads it (verus.rs:118), on a worker
   thread: child and server wait for each other, and with all workers lost even
   the timeout of a cargo call is not looked at.

Found while modelling and shown by no run of their own:

- `pop_timeout` waits with the full timeout after each wakeup that brings nothing
  (messages_queue.rs:87): it may take almost twice its timeout, which is what
  `BlocksLessThanTwice` states.
- `try_pop` and `pop_timeout` take the token of `unblock` that was meant for a
  blocked thread (messages_queue.rs:70).
- `spawn` looks at `waiting_tasks`, which still counts a thread that was woken for
  another task (task_pool.rs:78): a connection may queue behind busy threads
  instead of getting a thread, and remains there if they panic. `EveryTaskRuns`
  says so by its last disjunct.
- The permanent threads are not always kept: two threads that both read a count
  above the minimum both choose the timed sleep (task_pool.rs:110).
- `Drop` of the pool does not take the mutex: a worker between its decision to
  sleep and its sleep misses the notification (task_pool.rs:138). A thread with a
  timed sleep ends all the same (`TimedThreadsEndAfterDrop`), one without sleeps on.
- The tiny-http README (68–75) says that nobody waits "for a request to be answered to
  read the next one" and that after the last request the thread "can be reclaimed, even when the
  request has not yet been answered". If that request has a body, the drop of the connection
  waits for its reader (sequential.rs:165), and the drop of the reader for the client's bytes
  (equal_reader.rs:75). CHANGELOG.md:57 says that the reader "no longer needs to be explicitly
  consumed"; the drop still consumes it, so an answered request keeps its thread
  while the client holds the body back.
- One user thread that holds two requests and answers the later one first blocks
  itself (sequential.rs:136, against request.rs:32–33). In `CC_pipeline` users hold one
  request at a time; with `HoldMany` they hold any.
- `spawn` says "If no thread is available, spawns a new one" (task_pool.rs); with the
  stale `waiting_tasks` above it does not always.
- The TLS handshake is made by the accept thread (lib.rs:342): a client that connects and
  says nothing keeps everyone else out, and the drop of the server does not end the
  thread while it does (`Stuck` in `AcceptThreadEnds` and `RequestServed`).
- Any error of `accept`, also a passing one, ends the accept thread and the listener, and
  one receiver is told (lib.rs:395); the others wait on.
- `incoming_requests` says that its iterator returns `None` when the socket is shut down
  (lib.rs:415); it returns `None` for any error or unblock token, and after the shutdown
  only the one receiver that gets the error sees it. lib.rs:141 says that the drop of the
  server closes the reading part of its clients; connections that were accepted go
  on, their requests are never received, and an HTTPS thread waits for ever for
  the answer.
- `FusedReader::read` with an empty buffer takes the 0 for the end of the body
  (fused_reader.rs:32): the reader is dropped, which drains the rest inside of the read.
  Nothing of the next request is lost; `EofMeansEnd` excepts the user's view of it.
- `into_writer` drops the request before it returns the writer (request.rs:398): if the
  client holds its body back for `100 Continue`, the drop of the reader waits for the
  body and the client for a word. `WaitsEnd` excepts it by name, `BodiesCome` leaves it out. `upgrade`
  and then a read or the drop of the stream does the same: the stream sends no `100 Continue`.
- `as_reader` panics if `100 Continue` is due after `respond` took the writer
  (request.rs:371).
- The comment on buffering a response whose length is not known says it is needed only
  for HTTP 1.0 (response.rs:406); it happens for status 1xx and 204 and for a TE that
  prefers identity too.
- A wrong length with identity encoding, or a reader that fails in the middle, leaves the
  client waiting or takes the next response apart; with chunked encoding the drop of the
  encoder writes the last chunk, so a truncated body looks whole. `Exchange` models readers
  that deliver what was announced.
- `100 Continue` is sent to HTTP/1.0 clients that ask for it, which do not know it.
- `size_hint` of `Masks` is one too large for ranges that end with a word
  (lib.rs:1282), although it is declared exact.
- `verus_check_syntax` runs the full verification (verus.rs:381).
- A line of cargo-verus that is not UTF-8 leaves its child running and unreaped
  (verus.rs:130); `NoOrphan` and `ExitedChildReaped` except this case by name.

## 5. Proofs

Every safety property that a passing run checks is also the statement of a theorem
below, for all values of the constants that the named assumptions allow. The
assumptions are in the modules that declare the constants, and TLC evaluates them
on the runs.

`MessagesQueueProofs.tla` (any consumers, values, calls and timeout;
`TimeoutAssumption`):

- `TypeCorrect`: the type invariant, which is inductive.
- `FifoCorrect`: `Fifo`, inductive together with the types.
- `Refinement`: each step is a step of `MessageLog` or leaves it alone; the mapping
  is the identity on `sent`, `taken` and `result`.
- `WakeupsSuffice`: `NoLostWakeup`. Needs that the set of consumers is finite: the
  argument counts the woken ones. A push adds a token and wakes one sleeper, or there is
  none; a pop that leaves takes a token with it; a `pop_timeout` that leaves without one
  adds to `stranded`.
- `TimedReceiveEnds`: `BlocksLessThanTwice`. The invariant relates what is left of the timeout,
  the time of the current sleep and whether the timer fired.

`TaskPoolProofs.tla` (any number of permanent threads and of connections;
`SizeAssumption`, of which the part on `Many` matters: what drop stores is more than
all threads together):

- `TypeCorrect`: the type invariant. That `active_tasks` stays a natural number after
  drop wrote over it needs `ActiveEnough`: what is left of it and the threads that
  ended make up at least what drop stored.
- `CountersRight`: `CountersCorrect`. Each action is one thread's move between places;
  `AtMoves` says how a move changes the number of threads at any group of places.
- `WakeupsSuffice`: `NoLostWakeup`. A worker holds the mutex from the moment it finds
  the queue empty until it sleeps (`HolderSawEmpty`), so spawn cannot queue a task it
  would not see.
- These three follow from `Safety`, which proves the conjunction `Inv` inductive.
- `OnePlace`: a connection that was handed over is queued, with one worker or over, and
  in one place only. It is inductive with the shape of the variables (`PlaceInv`).
- `Refinement`: each step of the pool is a step of `Workers` or leaves it alone. It needs
  `OnePlace`: otherwise a start would not take the task from where it waited.

`ServerProofs.tla` (any clients, receivers and bounds; `ServerAssumption`):

- `OneAfterClose`: `AtMostOneAfterClose`; once a connection was accepted late, the accept
  thread is past `accept` and will look at the flag.
- `OneAtATime`: `OneInFlight`. The invariant `FlightInv`: over HTTPS a request that is queued
  or held is the last one of its connection, the connection waits for its answer, and
  it is queued once or held, not both.
- `TypeCorrect`: the type invariant, of the server's variables and of those of the pool
  and the queue.
- `EachSubmittedOnce`: what the accept thread hands to `spawn` is new to the pool. `PlaceInv`: a
  connection is with its client, in the backlog, in the handshake or with the pool, and
  in one of these places only; and the connection that the drop makes to wake `accept`
  is nowhere before the drop.

The pool and the queue inside of `Server` are their specifications `Workers` and `MessageLog`: each
action that touches them is one of their actions, by the way it is written, and that is no
theorem. What must be shown is that the code of the two parts implements these
specifications, the two `Refinement` theorems, and that the server keeps to what a caller
of the pool must do, `EachSubmittedOnce`.

`ExchangeProofs.tla` (any requests, statuses, sizes and thresholds; `ExchangeAssumption`):

- `FramingCorrect`: `FramingKept`. The invariant `Framed`: what is left of the body that is
  being read comes first in the input and a head follows it (`BodyFirst`); behind each head
  comes its body and then a head (`Whole`); and what the client still owes completes the
  last body, unless it hung up (`Complete`). `BodyRead` shows that reading any part of the
  body keeps it.
- `NoEarlyEof`: `EofMeansEnd`. `ProgressInv` says at each phase what was read (`got`) and what the
  reader has left add up to: the length that was announced as long as the reader is
  open, no more than it once a read into an empty buffer gave the rest up. It needs `Framed`:
  a read that finds no byte is one of an input that the client closed.
- `NothingBeyondBody`: the user never gets more bytes than the request announced; a part of
  `ProgressInv`.

`ResponseProofs.tla` (the same constants):

- `UnderstoodByClient`: `ResponseUnderstood`, that the first response on the wire is the one
  that was given, by the rules a client reads it with. Whoever reads takes the first
  response off, so the invariant must say it of every response that is under way, and
  of those that are to come. `AnsweringInv` says that the output falls into responses
  (`Parts`: the positions `cut` where they begin, and `asker`, the pending request that each
  answers; `100 Continue` answers none), each of them framed as was meant (`IsResponse`);
  and that the heads in the input are those of the pending requests that no response
  answers yet (`Coming`). Without `Coming`, a response could be written with the version and
  the method of another request than the one that it answers. It also needs `Framed`,
  which says what the next head is. `PrintedAsMeant` is the lemma about `raw_print`: each of
  its ways to frame a response, with whatever headers the user gave, writes an `IsResponse`.
  `Understood` is the lemma about the client: it finds the end of one.
- `TypeCorrect`: the type invariant, which these invariants give but for the kinds of a few
  variables (`Kinds`).

The proofs about `new_response`, which adds the user's headers one by one, and those about
`TE`, which takes the best of several encodings, go by induction over numbers. The induction
theorems of the library cannot be instantiated, so `Least` and `Induction` derive what is
needed from the well-foundedness of the subset order on finite sets, which is a theorem
without an operator parameter; they are used for sets defined in place.

`ClientConnectionProofs.tla` (any users, slots, requests, failures and operations, HTTP or HTTPS;
`ConnectionAssumption`):

- `TypeCorrect`: the type invariant, with `ErrorTook`: an error response has a writer.
- `NotifiedOnce`: `OneNotification`. `NotesInv`: over HTTPS only the last request can be one that did
  not notify yet, then the connection waits for it and no notification is on its way.
- `BodiesNotParsed`: `BodyIsNotParsed`, an action property: when anything more is read as a header,
  each body before is over. It does not follow from the guard of that read, which is about
  the readers that were dropped. `BodyInv` relates the two: a body whose reader was dropped has been
  read or drained to its end, on each path that drops a reader, and every slot with a
  body has a `Request`.
- `OrderIsKept`: `OrderKept`, the order on the wire as long as no slot was given up. `HeldInv` says
  where the `Request` of a slot may be when its writer is open, in the middle or written, and
  that each call of a user has its own request; `WireInv` says that nothing of a slot is on
  the wire before the slots in front of it are done (`Tidy`), and that what is on the
  wire was written with its slot's writer (`PartInv`).
- `Refinement`: if `new_request` refuses nothing (`"refused" \notin Failures`) and no user calls
  `into_writer`, the connection implements `ResponseStream`: whole responses in the order of the
  requests. Without these conditions a writer may be dropped unused and the code lets a
  response overtake one before (`CC_refused` shows it for the first); `OrderIsKept` needs
  neither, it excepts what follows such a writer. `SpokenInv`: a slot whose writer is done has
  its head on the wire, or the connection is at its end.

`VerusServerProofs.tla` (any calls, workers, blocking threads and sizes of pipes;
`ServerAssumption`):

- `TypeCorrect`: the type invariant, that no pipe holds more than its size included.
- `ResultsComplete`: `ResultComplete`, what a call returns is all that its child wrote, and the child
  was reaped.
- `NoOrphans`: `NoOrphan`, of the children that a server leaves behind when it is down.
- They follow from `VerusInv` (`Invariant`), which says for each call what its child and its pipes
  may be in, by the phase of the call. For `cargo_*` it goes by the state of the
  closure and not by that of the task: after a timeout the call is over and its closure
  goes on. `DownInv`: a server that is down has no thread left that reads.

`FixedBitSetProofs.tla` (any width of words and of blocks, any bound on the length,
any names; `WidthAssumption`). All of them assume that callers give
`with_capacity_and_blocks` no surplus bits (`SurplusBits = FALSE`); the run `FBS_blocks` shows that
otherwise even the first fails:

- `GhostFree`: `NoGhostBits`, for whatever order of the modelled operations (`as_mut_slice`, which hands out
  the words themselves, is not one of them). The invariant `Inv` states it word by word — bit `p` of word `w` is set
  only if `w * W + p < length` — and adds that a set has the words its length asks
  for; both are needed, since growing keeps words by their numbers. The lemmas
  `DivMod` to `WordsMonotone` are the arithmetic of blocks; `MergedGood`, `ReducedGood` and
  `MaskedGood` reduce each operation to what it does to a word.
- `OperationsCorrect`: `OperationsExact`, for two sets of any lengths and any ranges. A number is in a
  set if its bit is in its word; `Masks` selects in each word what is in the range.
- `QueriesCorrect`: `QueriesExact`. The counts are those of the pairs of a word and a
  bit in it; `PairsCount`: there are as many as numbers in the set, if no ghost bit is counted.
- `IteratorsCorrect`: `IteratorSound`. `IteratorInv` divides the numbers of the set into those that were
  returned from the front, those from the back and those that are left in the front word,
  the words between and the back word (`Answers`), and says at which numbers the two
  words begin (`Window`): next and next_back meet in any word.
- `TypeCorrect`: the type invariant.

Only model-checked: the liveness properties of all runs (`PopReturnsUnlessStranded`, `EveryTaskRuns`,
`TimedThreadsEndAfterDrop`, `EveryRequestAnswered`, `ConnectionCloses`, `RespondReturns`, `AcceptThreadEnds`,
`RequestServed`, `WaitsEnd`, `WorkerComesFree`, `CargoAnsweredIfServed`, `ExitedChildReaped`, `ServerStops`), which hold under
fairness and are out of the prover's reach. The five violations are found by TLC.

## 6. Plan

Done: the modules above. Next, in this order:

1. `SessionLog.tla`: the read-modify-write cycles of `verus-log.py` by several processes;
   property: no event is lost (violated: lost updates, and a truncated file that is
   taken for a corrupted one).
2. `Iban.tla`: the piecewise checksum against the remainder of the number, and the
   two textual forms against each other.
3. Proofs about these two modules: that a session file that was written whole is read
   whole, and that the piecewise remainder is the remainder of the number. The safety
   properties of the other modules are proved; their liveness stays with TLC.

## 7. Not modelled

The TLS libraries, sockets and the operating system (external); parsing and
formatting of HTTP headers, dates, JSON and diagnostics (data without state); the
country registry of `iban_validate` (a generated table) and, until `Iban.tla`, its checksum;
the decoder of chunked bodies (a library) and `CustomStream`, which passes every call on;
`verus-log.py`, until `SessionLog.tla`; the scripts that only report
(`verus-progress.py`, `verus-spec-status.py`, `verus-kb.py`); the lazy set iterators, serde and
formatting of `FixedBitSet`; the annotations of Verus in the three libraries, which
another verifier checks.
