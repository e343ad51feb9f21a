# A verification of turnloop

This directory holds TLA+ models of turnloop, the TLC configurations that check
them on small instances, and proofs, checked by TLAPS, of theorems about them
for every value of the constants. `PROJECT.json` is the machine-readable side:
which source lines each definition models, which run checks which property, which
hazards the code has, and which theorems are proved.

Paths below are relative to `src/crates/turnloop/src/` unless they start with
`src/`; `src/protocols/turnloop-x` is written `turnloop-x`.

## 1. The system

turnloop is a completion-based event loop. A **host** owns a loop (`Driver`) on
one thread, submits operations to it and calls `turn`, which waits, and hands
back completions. Other threads reach the loop in two ways only: by posting to it
or notifying it (`Poster`, `Notifier`), and by finishing work that the loop gave to
the blocking pool. Under the driver sit a backend per platform and the services
that need threads; above it an executor, a connection-pool scheduler and the
protocol crates, most of which do no I/O of their own.

| Part | State | Hard behaviour |
|---|---|---|
| Ring (`queue.rs`) | slots with a four-valued state, two cursors, a counter | many producers against one consumer, one atomic at a time |
| Work port (`blocking.rs`, `driver.rs`) | result ring, credits | credits bound a ring that is scanned, not counted |
| Notifier (`notifier.rs`) | state word RUNNING / PARKED, NOTIFIED, CLOSED | lost wake-ups, failing wakes, external mode, posts at close |
| Driver (`driver.rs`) | handle and operation tables, timers, deadlines, completion queue, counters | promises of handle slots, partial failure, close and cancel in every order |
| Table, timer heap (`table.rs`, `timer/heap.rs`) | generational slots; four-ary heap with positions | stale identifiers, saturation |
| Pool, file service, waits (`blocking.rs`, `fs/service.rs`, `external_wait.rs`) | job queues, FIFO per handle, registrations | idle time-out racing a push; cancellation at the head of a FIFO; a value that changes outside the mutex |
| Executor (`executor.rs`) | task slots, operation slots with generations | completions for abandoned futures |
| Backends (`backend/`) | per-direction FIFOs, readiness cache; overlapped requests; pollables | cancellation against late completions, storage the kernel owns |
| Connection pools (`src/crates/turnloop-io`, `*/src/pool.rs`) | entries, waiters, leases | a time-out racing a grant |
| Protocol crates (`src/protocols`) | connection state machines, topologies, decoders | replies matched by order, flow control, redirection, replay, input in pieces |

What makes the system correct, in the order of importance used here:

1. an accepted operation ends exactly once, an accepted post is delivered once or returned;
2. the loop never sleeps over work it was told about;
3. the promises made at admission hold when they are called in: a slot for an
   accepted connection, room in the completion queue, room in the result ring;
4. `Closed` is the last word on a handle, and every close and cancel ends;
5. `alive()` and the counters behind it are exact after any sequence of calls;
6. a protocol client tells each caller the answer to its own request, once.

## 2. Modules

A behaviour of an `MC` module exercises one of several components, which its
variable `part` (or, for the driver, the host program) names; this keeps the number of
runs small and lets one property be stated for all that share it. Definitions
whose comment begins "Fault:" belong to no specification: each is a plausible
mistake in the definition that follows it, used to show that a property notices.

### The core

**Queue** (`queue.rs`). One action per atomic instruction. A push takes the cursor and
scans, a compare-and-swap per slot; a winner counts, writes and publishes in three
further steps, and a scan that meets no empty slot refuses. A pop mirrors it.
`accepted`, `refused` and `popped` are history: what the caller was told. Memory is
sequentially consistent, which is the reading that the acquire/release pairs
on a slot's state allow; weak memory is not modelled.

The second half of the module is the work port over this ring: a producer is a worker in `complete`, a value an operation.
`Admit` is `admit_port`, `new_op` and `charge_port`; the credit returns in `retire` after the pop. A
refused push is the failed `assert!` of `complete`: the worker is in
`panicked` and its result is lost. When the loop goes away the port closes (`ClosePort`), and a
worker that finds it closed drops its result. `Suite` runs the ring alone or under the port.

**Notifier** (`notifier.rs` and the sleeping part of `turn`). Each atomic on the state word, on
the post ring and on the kernel's wake object is a step. The ring is a bounded set,
which is what Queue promises; the wake object (an eventfd, `EVFILT_USER`, a
completion packet) is a flag that a poll drains, and is external. In external mode a
turn ends with `external_park` and waits for the host to see the flag. `WakeFails` makes the
wake system call fail at will.

**DriverState, Driver** (`driver.rs`). The driver is one record `d`, and each private method (`new_op`,
`retire`, `maybe_closed`, `enqueue`, `set_ref`...) an operator from records to
records (DriverState), so a public call composes them as the code does (Driver). Backend, workers,
services and posters appear as the requests they owe an answer to (`inflight`, `jobs`,
`ring`, `posts`). `turn` is a sequence of phases, because a backend may add events
in any order and number between them; calls of the host happen only outside
`turn`, as `&mut self` enforces. A call that fails at any of its steps is a
`Refusal`, with what it undid. Time is abstract: an armed timer or deadline may be due or
not. Calls that differ only in data are one action with the kinds as parameter.
`MCDriverCases` runs it under three host programs (sockets, processes, files and jobs; timers, posts and lookups; references),
and a second loop with larger tables under one that accepts connections.

### Services and backends (`MCServices`, `MCProgress`)

| Module | Code | State and actions |
|---|---|---|
| FsService, FileRequests | `fs/service.rs` over the pool of `blocking.rs`; `LongSet` of `blocking.rs` | FIFO per handle, leases, job slots, workers; submit, start, retry, cancel, complete, drop. FileRequests is the abstract promise it implements. The threads for long jobs: handed jobs, thread and idle counts; submit, park, time-out, notify, retire |
| ExternalWait | `external_wait.rs` | registrations under a mutex, the helper thread's sleep; the agent without threads |
| Executor | `executor.rs` | slots with generations, wake flags, passes over tasks; abandonment and dispatch |
| TimerTable | `table.rs`, `timer/heap.rs` | generational table in pages; heap with its position index |
| UnixEngine | `backend/unix.rs`, `files.rs` | intrusive lists, cached readiness over an edge-triggered poller; the file bridge |
| UnixServices | `backend/services.rs`, `signals.rs`, `watch.rs`, `fsevents.rs` | tickets, the dispatcher thread, child exits, watches |
| IocpEngine, IocpThreads, IocpServices | `backend/iocp/` | overlapped requests whose storage the kernel owns; port, timer, helper thread, synchronous workers; console controls, exits, directory watches |
| WasiP2, WasiP3, WasiFiles | `backend/wasi_*` | pollables; waitables with pinned storage; file requests a poll runs itself |

The kernels are external: they do what the code in `src/` relies on, at any moment
between two of its steps.

### Protocol crates (`MCProtocols`, `MCProgress`)

| Module | Code |
|---|---|
| AsyncPool, PoolPolicies | the scheduler `src/crates/turnloop-io/src/pool.rs` with the SQL and MongoDB policies (`*/src/pool.rs`) |
| Http1Exchange, Http2, HttpClient, HttpServer | `turnloop-http`: codec and both ends of HTTP/1, HTTP/2 connections against each other, client pool with deadlines, exchanges with redirects and proxies, accept loop with graceful shutdown |
| RedisConnection, RedisCluster | `turnloop-redis`: pipelining, subscriptions, replay; slot map, redirects, Sentinel |
| PostgresConnection, MySqlConnection, SmtpConnection | the sans-I/O connections of the three crates |
| MongoConnection, MongoClient, MongoOperations | `turnloop-mongodb`: connection under the shared driver; topology, monitoring, retries; sessions, transactions, cursors, change streams, bulk writes |
| StreamLayers | `turnloop-websocket` and `turnloop-tls` |
| Decompression | `turnloop-http/src/compression.rs`; the frame decoder, its readers, the decode buffer and the ring over raw memory of `turnloop-zstd-decoder` |

Peers, transports and third-party libraries are external. Messages are records
with a tag, bodies numbers of units, names model values; an encoded byte of a compressed
body is a record that says what it is a byte of.

## 3. Runs

| Run | Question | Bounds |
|---|---|---|
| `work_port` | Are slots exclusive, values popped once and eventually, `is_empty` honest; does occupancy stay within credits and every credit come back, unless a worker died or the port closed? | 2 producers, 3 values, 2 slots: every scan collides and the ring wraps |
| `work_port_full` | Can the assertion of `complete` fail? (finding 1) | 4 operations |
| `notifier` | Does the loop sleep over work without a wake on its way or a failure reported? One wake per park, each post delivered once or returned? | 2 producers, 3 posts, a ring of 2, an output of 1, failing wakes |
| `notifier_live` | Is each post delivered, does each notify end the wait it raced with, also in external mode? | 2 producers, 1 post |
| `notifier_ok` | Does `Ok` from `notify` mean that the loop wakes? (finding 2) | 2 producers, 2 posts |
| `driver` | Are promised slots free and accepted connections housed; are the books exact, operations owned, deadlines live, `Closed` last, queues within their reserves; does a refusal leave no trace? | listeners: 3 handles, 3 operations, two events per turn; the other host programs: 2 and 2, one event per turn |
| `driver_live` | Does each close end in `Closed` handed over, each cancel in a terminal completion? (The safety invariants are those of `driver`.) | 2 handles, 2 operations, one event and one post per turn; sockets and listeners (a cancelled timer ends in the call itself) |
| `services` | Do the services and backends run each job once, sleep over nothing they could report, report in order, touch memory only while they own it? | 50 small host programs of 2-6 operations |
| `protocols` | Does each protocol crate, against its peer, account for leases, tolerate crossing messages, tell each caller once and the right answer, agree with the other end, decode what was encoded? | 54 small programs of 2-4 requests with one or two losses, time-outs or restarts |
| `progress` | Is everything accepted answered, does every shutdown return; does the file service implement one request at a time per handle in order? | the smallest instance of each component that has contention |
| `redis_replay` | Is a subscription that is sent again acknowledged as a whole? (finding 3) | one command of two names, one loss |
| `zstd_split` | Does a decoder consume only what it was given? (finding 4) | one frame with a checksum, in pieces |

Two of everything is enough for the races, since each involves one party that holds
something and one that wants it; capacities of one and two put every buffer at
its limit within a few steps. Where a third party matters (an accept, the
connection it brings and a handle the host opens meanwhile) the bound is larger.

**Bounds of the model that are not the code's**: each value is pushed, each payload
posted at most once per behaviour; `MaxPosts` limits the posts waiting at the driver; generations, clocks,
losses and restarts are counted up to the constants named `Max...`.

**Deadlock** is checked in the core runs: the loop and the host can always take a
step. The suites of services and protocols end when their program has run, so
there it is not.

**Fairness.** Queue: only the consumer is fair; a producer may stop in the middle of a
push. The work port: the loop collects and a running worker goes on. Notifier: the loop thread
runs, a host that has been told to turn does so, and a producer inside `post`
goes on; strong fairness is needed where another branch (external mode, an early
wake) may disable a step again and again. Driver: the host keeps turning, not every
turn fails, the backend ends what was cancelled and workers finish; the code
states these as duties of host and backend. MCProgress: threads, tasks and peers
go on (weak), and what others can disable again and again (a lease
coming free, a stream's turn to send) happens (strong). No fairness is
assumed of the host's calls, of posts, or of events on operations nobody cancelled.

## 4. Theorems

| Theorem | Module | States |
|---|---|---|
| `RingSafe` | QueueProofs | `ExclusiveSlots`, for any number of producers, slots and values |
| `RingHonest` | QueueProofs | `EmptyIsHonest`: `is_empty` is true only when no returned push is still in the ring |
| `RingConserves` | QueueProofs | `AcceptedOnce`: an accepted value is in the ring, in the consumer's hands, or popped once |
| `PortSafe`, `PortSuiteSafe` | QueueProofs | `PortWithinCredits`: every slot in use is paid for by a credit, so occupancy stays within `max_undelivered` |
| `NotifierTypes` | NotifierProofs | the state word and queues have their types, and the reserve bounds hold |
| `ParkingSafe`, `WakesAreOne` | NotifierProofs | `NoLostWake` and `WakesCoalesce`, for any number of producers and posts, failing wakes included |
| `PostingSafe` | NotifierProofs | `PostedOnce`: an accepted post is in exactly one place |
| `AcceptedStays` | NotifierProofs | no step makes the loop forget a post it accepted (an action property) |
| `AcceptsAreSafe` | DriverTheorems | `ReservedIsFree` and `AcceptIsHoused`: promised slots are free, no accepted connection is destroyed |
| `CountsAreExact` | DriverTheorems | `BooksAreExact`: every counter of the driver counts what it says, after any sequence of calls |
| `CompletionsFit` | DriverTheorems | `QueueFits`: the completion queue never outgrows its reserves |
| `OperationsAreOwned` | DriverTheorems | `EveryOpHasOwner`: exactly one party will end each operation |
| `ClosedComesLast` | DriverTheorems | `ClosedIsLast`: nothing names a handle after its `Closed` |
| `DeadlinesFire` | DriverTheorems | `DeadlinesAreLive`: no timer or deadline outlives its operation |
| `RefusalsAreUndone` | DriverTheorems | `RefusalLeavesNoTrace`: what a refused call changed is taken back (an action property) |
| `DriverTypes` | DriverTheorems | the fields of the driver have their types; counters are never negative and stay within the limits |

The driver's theorems hold for all tables, limits, event capacities and host programs, `rebuild` included.

**Ring.** `ExclusiveSlots` is not inductive: it says who owns a WRITING slot, and nothing says that a READING
slot has an owner or that the counter counts. `RingInv` adds both (`ReadersOwn`,
`OccupiedCounts`: the counter is the number of slots that have been counted and not uncounted), and
`DataInv` says where each accepted value is: in exactly one slot that owes it, or in the consumer's hands.
For the port, the slots in use inject into the operations that hold a credit.

**Parking.** `NoLostWake` speaks of a waiting loop. `ParkInv` goes back to the steps before it waits: what
it has looked at (`Unseen`), who must still wake it when NOTIFIED is set (`Owned`), that one
producer per park wins the right to wake (`OneWinner`), and what the loop's position says of
the word (`BitsByPhase`). The last three are conditional on no failed wake having been
reported in this park; `NoLostWake` is too.

**The driver: two invariants, preserved together** (`AllInv`, DriverTheorems).

- `DriverInv` (DriverProofs) is about promises. `Sound`: the promised
  slots are free, and the promises are those of single-shot accepts plus the pool of
  multishot accepts. `Owned`: backend, workers and ring hold distinct
  live operations, so that no operation retires twice. And while a poll's events are handled, the
  accept budget left is within the promises, which is what makes it sound to read the budget before the poll and spend it after.
- `LedgerInv` (DriverCalls) is about what is owed. Its heart, `Ledger` (DriverAccounts), relates each counter to the tables:
  `outstanding` to the operations and to the results still queued, each handle's `pending` to its operations,
  `refs` to the referenced handles and operations, `buffered` to the places of the queue, class by class. Exact
  counts are not inductive on their own: that a decrement does not go below zero, that a result is queued for a handle that is
  still there, and that a `Closed` is queued once need the order of the queue (`Lines`), what is still owed to each handle
  (`Owed`), what it weighs in `refs` (`Weights`), the armed timers (`Clocks`) and the files an open hides until
  it completes (`HiddenBut`). `Turning` adds what holds between the phases of `turn`: a poll may add at most `events_per_turn`
  events because the last drain left none.

Each needs the other. A refused call restores the books only because the promises are numbers, which `Sound` says;
`rebuild` keeps the promises only because `outstanding = 0` means that nobody owes an operation, which the ledger says.

The argument follows the structure of `driver.rs`. DriverLedger proves what the smallest steps (`enqueue`, `maybe_closed`,
`set_ref`, a credit) do to one column of the ledger; DriverAdmissions and DriverEndings that each private method keeps
all of it. DriverCalls assumes these facts as *laws*, one per method, and proves one lemma per action; DriverTheorems proves
the laws from the lemmas and closes the induction. What the counting needs of finite sets (`Counting`, `SetsCount`) is likewise
assumed by the lemmas and taken in DriverTheorems from the library's theorems. Nothing assumed is left open: the theorems assume
only what the modules assume of their constants. This keeps each proof's context small enough for the provers.

**Assumptions** are those named in the modules that declare the constants: capacities are positive, tables finite, null
values outside the sets, `max_undelivered` within the ring. TLC evaluates them on every run.

**Only model-checked.** Every liveness property (`driver_live`, `notifier_live`, `progress` and those of `work_port`): the prover does
not reason about fairness and ENABLED. The invariants of the suites `services` and `protocols`: each is a conjunction over
some fifty host programs of twenty components whose invariants have not been strengthened to inductive ones. The refinement
`ImplementsFileOrder`, whose mapping follows the links of a handle's list: what that yields needs induction over data.
`AcceptsAreHoused` repeats the driver's proved invariants on an instance with larger tables; it is the model-checked
counterpart of `AcceptsAreSafe`.

## 5. Findings

1. **A result may be lost in a ring that is not full** (`blocking.rs:281`, run
   `work_port_full`). `complete` asserts that `push` succeeds, since credits keep the
   ring from overflowing. But `push` gives up after one pass, not when the ring is full:
   while a worker scans, the loop frees a slot the scan has passed, the returned
   credit admits another operation, and its worker fills the slot the scan has
   yet to reach. `PortSafe` shows that the credit argument itself is right.
2. **`Ok` from a coalesced notify** (`notifier.rs:44`, run `notifier_ok`). A producer that
   finds NOTIFIED set returns `Ok`; if the winner's wake then fails, only the
   winner is told. `NoLostWake` says what does hold.
3. **A replayed subscription keeps its old count** (`turnloop-redis/src/lib.rs:680`, run
   `redis_replay`). A SUBSCRIBE of two names with one acknowledgement when
   the transport is lost completes on the first acknowledgement of the next
   transport, and the second meets another command.
4. **A missing checksum is reported as consumed** (`turnloop-zstd-decoder/src/decoding/frame_decoder.rs:440`,
   run `zstd_split`). Given fewer than four bytes, `decode_from_to` still answers that it read four.

Some properties that hold carry an exception that names one behaviour of the code; without it
TLC refutes them:

- `RacesAreTolerated`: a client's trailers that are under way when the server resets the stream fail the whole
  connection (`http2.rs:1060`), though the documentation of `reset` (883-885) means to tolerate frames in flight, and
  tolerates DATA. `Http2!LateTrailers` is the exception.
- `EndsAgree`: a MySQL command that fails after it opened a transaction ends in an ERR packet, which carries no status
  flags, so `is_reusable` decides on those of the command before (`MyReusableIsClean`, `my_silent`).
- `EndsAgree`: a graceful shutdown cuts an in-flight request where another service fails: `run` returns that error and
  drops the services it has not joined (`HttpServer!InFlightFinishes`).
- `BodiesAreDecoded`: a chain of codings stages 16 KiB between two decoders while `decode_from_to` asks for room for a
  whole block, so a larger block leaves the body unfinished (`Decompression!StageIsFull`, `decode_stage`).
- `LeasesAreAccounted`: the HTTP client reads its clock twice, so `acquire` may find the places of an origin held by
  idle connections that fell due in between, and waits (`HttpClient!NeverWaits`, `http_single`).
- `NobodySleeps`: a pooled multishot read that finds no buffer stays ready, so that polls return at once with nothing done
  until the host gives a buffer back (`UnixEngine!NeverSpins`).
- `AnswersMatch`: a MongoDB cursor whose getMore was lost may skip a batch (`RowsInOrder`).

Behaviours met while modelling that are modelled as the code has them and that
no run states as a property:

- *Driver.* `close` ignores a backend that refuses a cancel, so `Closed` waits for the
  operation's natural end; a refused `accept_start` may leave its promise with another armed
  accept that had none (`RefusalLeavesNoTrace` states exactly this).
- *Backends.* The cancellation of a process exit ends only when the child does. On IOCP and WASI 0.3 a cancel
  that races a native success drops the data that arrived. IOCP collects from its services in a fixed order.
- *HTTP.* A connection refused by the accept loop is not counted against `stop_by`; a server response delimited by close ignores
  keep-alive.
- *MongoDB.* A monitor that lost its server stops; a pool stays paused after a fresh
  hello until the next check; `application_error` is judged by the current generation.
- *Redis.* An ASK redirect at the redirect limit leaves the asking flag set; a closed session
  of a cluster node stays in `nodes`; `transport_lost` requeues in reverse order.
- *WebSocket, TLS.* `close` after the peer's Close fails; a TLS read waits behind pending output.
- *Decoders.* `FrameDecoderState::new` does not check the window limit that `reset` checks; the counter of
  output bytes misses filled runs.

## 6. Not modelled

Codecs and parsers (SQL wire formats, HPACK, BSON, entropy coding): data
transformation without control. System-call wrappers: one call per request and no state
of their own. The browser backend and client. Handle passing beyond its place in the
submit path. Weak memory. The contract suite and benchmarks. `PROJECT.json` lists every part with the reason.
