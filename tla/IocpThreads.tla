---------------------------- MODULE IocpThreads -----------------------------
(***************************************************************************)
(* How the Windows backend waits (backend/iocp/port.rs, timer.rs,          *)
(* integration.rs and the poll of mod.rs): by itself, blocked in the port  *)
(* with a timer whose expiry is a packet of that port; or inside the loop  *)
(* of a host, which waits for an event while a helper thread moves the     *)
(* packets of the port to a bounded queue.  The threads of a synchronous   *)
(* handle follow in the second half.                                       *)
(***************************************************************************)
EXTENDS Naturals, Sequences, FiniteSets, SequencesExt

CONSTANTS
    Batch,               \* packets that one call takes; the queue holds two batches
    MaxPosts,            \* packets of operations
    MaxTime,             \* the clock stops here
    MaxTurns,            \* turns of the host
    NoTime               \* no deadline

VARIABLES
    backend,             \* the loop: its timer, its deadline, the turn under way
    kernel,              \* the port, the timer, the event, the helper and the clock
    told                 \* the packets of operations that were applied, in order

eventVars == <<backend, kernel, told>>

EventsInit ==
    /\ backend = [phase |-> "idle", event |-> FALSE, active |-> FALSE, generation |-> 0, pending |-> FALSE,
                  deadline |-> NoTime, hand |-> <<>>, turns |-> 0, armed |-> FALSE, refused |-> FALSE, dropping |-> FALSE]
    /\ kernel = [port |-> <<>>, timer |-> "idle", due |-> 0, event |-> FALSE, now |-> 0, posted |-> 0,
                 helper |-> "none", batch |-> <<>>, queue |-> <<>>, stopping |-> FALSE, error |-> FALSE]
    /\ told = <<>>

Op(n) == [key |-> "op", n |-> n]
Timer(g) == [key |-> "timer", n |-> g]
Wake == [key |-> "wake", n |-> 0]
Stop == [key |-> "stop", n |-> 0]
Posted(k, e) == [k EXCEPT !.port = Append(@, e)]
IsOp(e) == e.key = "op"
First(s, n) == SubSeq(s, 1, IF Len(s) < n THEN Len(s) ELSE n)
Rest(s, n) == SubSeq(s, 1 + (IF Len(s) < n THEN Len(s) ELSE n), Len(s))

---------------------------------------------------------------------------
\* The timer.  Every operator maps the pair of the loop and the kernel.

\* cancel: a packet that waits for the timer, or that nobody took, is taken
\* back; one that was taken is over; one under way comes.
CancelTimer(s) ==
    IF s.b.pending THEN s
    ELSE [b |-> [s.b EXCEPT !.pending = s.k.timer = "flight", !.active = s.k.timer = "flight" /\ @],
          k |-> [s.k EXCEPT !.timer = IF @ = "flight" THEN @ ELSE "idle",
                            !.port = SelectSeq(@, LAMBDA e : e.key # "timer")]]

Arm(s, due) ==
    IF s.b.active THEN [s EXCEPT !.b.refused = TRUE]
    ELSE [s EXCEPT !.b.active = TRUE, !.b.generation = @ + 1, !.k.timer = "armed", !.k.due = due]

ArmEventDeadline(s) ==
    LET c == CancelTimer(s) IN
    IF c.b.pending \/ c.b.deadline = NoTime THEN c
    ELSE IF c.b.deadline <= c.k.now THEN [c EXCEPT !.k = Posted(c.k, Wake)]
    ELSE Arm(c, c.b.deadline)

\* entry: a packet of the timer acknowledges only its own generation.
Entry(s, e) ==
    IF e.key # "timer" THEN s
    ELSE LET mine == e.n = s.b.generation
             seen == [s EXCEPT !.b.active = @ /\ ~mine, !.b.pending = @ /\ ~mine]
         IN  IF s.b.event /\ s.b.deadline # NoTime /\ s.b.deadline > s.k.now THEN ArmEventDeadline(seen) ELSE seen

Entries(s, es) == FoldSeq(LAMBDA e, t : Entry(t, e), s, Reverse(es))

State == [b |-> backend, k |-> kernel]
Becomes(s) == backend' = s.b /\ kernel' = s.k

---------------------------------------------------------------------------
\* The loop.

\* The core reports the next deadline before it polls, and whenever it changes.
DeadlineChanged ==
    /\ backend.phase = "idle" /\ ~backend.dropping /\ backend.turns < MaxTurns
    /\ \E d \in {NoTime} \cup (kernel.now .. MaxTime) :
           /\ d # backend.deadline
           /\ LET s == [State EXCEPT !.b.deadline = d, !.b.turns = @ + 1]
              IN  Becomes(IF backend.event THEN ArmEventDeadline(s) ELSE s)
    /\ UNCHANGED told

Integration ==
    /\ backend.phase = "idle" /\ ~backend.event /\ ~backend.dropping
    /\ Becomes(ArmEventDeadline([State EXCEPT !.b.event = TRUE, !.k.helper = "check"]))
    /\ UNCHANGED told

\* poll, blocking: arm the timer unless the packet of the last one is still to
\* come, then wait in the port.
Block ==
    /\ backend.phase = "idle" /\ ~backend.event
    /\ LET armed == ~backend.dropping /\ backend.deadline # NoTime /\ backend.deadline > kernel.now
           s == [State EXCEPT !.b.phase = "blocked", !.b.armed = armed]
       IN  Becomes(IF armed /\ ~backend.pending THEN Arm(s, backend.deadline) ELSE s)
    /\ UNCHANGED told

\* The wait ends with packets; one without an armed timer may also end at once.
Unblock ==
    /\ backend.phase = "blocked"
    /\ \/ kernel.port # <<>>
       \/ ~backend.armed /\ ~backend.dropping /\ backend.deadline # NoTime /\ backend.deadline <= kernel.now
    /\ LET s == [State EXCEPT !.b.phase = "apply", !.b.hand = First(kernel.port, Batch),
                              !.k.port = Rest(kernel.port, Batch),
                              !.k.timer = IF \E e \in ToSet(First(kernel.port, Batch)) : e.key = "timer" THEN "idle" ELSE @]
       IN  Becomes(IF backend.armed THEN CancelTimer(s) ELSE s)
    /\ UNCHANGED told

Apply ==
    /\ backend.phase = "apply"
    /\ LET s == Entries([State EXCEPT !.b.phase = "idle", !.b.hand = <<>>, !.b.armed = FALSE], backend.hand) IN
       Becomes([s EXCEPT !.b.deadline = IF @ # NoTime /\ @ <= s.k.now THEN NoTime ELSE @])
    /\ told' = told \o SelectSeq(backend.hand, IsOp)

\* The host heard the event, which resets it, and runs a turn: a failure of the
\* helper stays signalled, and so does what one drain leaves.
HostTurn ==
    /\ backend.phase = "idle" /\ backend.event /\ kernel.event
    /\ IF kernel.error THEN UNCHANGED <<backend, kernel>>
       ELSE LET rest == Rest(kernel.queue, Batch) IN
            Becomes([State EXCEPT !.b.phase = "apply", !.b.hand = First(kernel.queue, Batch), !.k.queue = rest,
                                  !.k.event = rest # <<>>, !.k.helper = IF @ = "room" THEN "check" ELSE @])
    /\ UNCHANGED told

\* Drop: the helper is joined, what it moved is applied, and the port is waited
\* on again.
Drop ==
    /\ backend.phase = "idle" /\ ~backend.dropping
    /\ backend' = [backend EXCEPT !.dropping = TRUE, !.phase = IF backend.event THEN "join" ELSE "idle"]
    /\ kernel' = IF ~backend.event THEN kernel
                 ELSE [Posted(kernel, Stop) EXCEPT !.stopping = TRUE, !.helper = IF @ = "room" THEN "check" ELSE @]
    /\ UNCHANGED told

Join ==
    /\ backend.phase = "join" /\ kernel.helper = "none"
    /\ LET s == [State EXCEPT !.k.queue = <<>>] IN
       Becomes([Entries(s, kernel.queue) EXCEPT !.b.phase = "idle", !.b.event = FALSE, !.b.deadline = NoTime])
    /\ told' = told \o SelectSeq(kernel.queue, IsOp)

---------------------------------------------------------------------------
\* The helper, pump.

HelperStep(k) == kernel' = k /\ UNCHANGED <<backend, told>>

\* Room for a whole batch is reserved before it leaves the port.
PumpCheck ==
    /\ kernel.helper = "check"
    /\ HelperStep([kernel EXCEPT !.helper = IF kernel.stopping THEN "none"
                                            ELSE IF Len(kernel.queue) > Batch THEN "room" ELSE "port"])

PumpWait ==
    /\ kernel.helper = "port" /\ kernel.port # <<>>
    /\ HelperStep([kernel EXCEPT !.helper = "publish", !.batch = First(kernel.port, Batch), !.port = Rest(@, Batch),
                                 !.timer = IF \E e \in ToSet(First(kernel.port, Batch)) : e.key = "timer" THEN "idle" ELSE @])

PumpPublish ==
    /\ kernel.helper = "publish"
    /\ LET stop == kernel.stopping \/ Stop \in ToSet(kernel.batch) IN
       HelperStep([kernel EXCEPT !.queue = @ \o SelectSeq(kernel.batch, LAMBDA e : e # Stop), !.batch = <<>>,
                                 !.event = TRUE, !.stopping = stop, !.helper = IF stop THEN "none" ELSE "check"])

PumpFails ==
    /\ kernel.helper = "port" /\ ~kernel.stopping
    /\ HelperStep([kernel EXCEPT !.helper = "none", !.error = TRUE, !.event = TRUE])

---------------------------------------------------------------------------
\* The kernel: operations complete, others notify, time passes, the timer fires.

Completes ==
    /\ kernel.posted < MaxPosts
    /\ HelperStep([Posted(kernel, Op(kernel.posted + 1)) EXCEPT !.posted = @ + 1])

Tick == kernel.now < MaxTime /\ HelperStep([kernel EXCEPT !.now = @ + 1])

Fires == kernel.timer = "armed" /\ kernel.due <= kernel.now /\ HelperStep([kernel EXCEPT !.timer = "flight"])
Queues == kernel.timer = "flight" /\ HelperStep([Posted(kernel, Timer(backend.generation)) EXCEPT !.timer = "queued"])

EventsNext ==
    \/ DeadlineChanged \/ Integration \/ Block \/ Unblock \/ Apply \/ HostTurn \/ Drop \/ Join
    \/ PumpCheck \/ PumpWait \/ PumpPublish \/ PumpFails
    \/ Completes \/ Tick \/ Fires \/ Queues

---------------------------------------------------------------------------
\* No packet of an operation is lost, applied twice or overtaken, whoever
\* took it from the port: not when the queue is full, nor when the helper
\* fails or is joined with a batch in its hands.
PacketsInOrder ==
    told \o SelectSeq(backend.hand \o kernel.queue \o kernel.batch \o kernel.port, IsOp)
        = [n \in 1 .. kernel.posted |-> Op(n)]

QueueHasRoom == Len(kernel.queue) + Len(kernel.batch) <= 2 * Batch

Everything == ToSet(kernel.port \o kernel.batch \o kernel.queue)
TimerComes == kernel.timer \in {"armed", "flight"} \/ \E e \in Everything : e.key \in {"timer", "wake"}

\* A loop that sleeps is woken: by the timer for its deadline, the packet of
\* which is on its way or will be; by the event for whatever the helper has
\* moved or for its failure; and the helper sleeps only in the port, or over a
\* full queue that the host has been told of.  The timer is never armed
\* before its packet came back.
SleepIsOver ==
    /\ ~backend.refused
    /\ backend.phase = "blocked" /\ backend.armed => TimerComes
    /\ backend.phase = "idle" /\ backend.event /\ ~kernel.event =>
           /\ kernel.queue = <<>> /\ ~kernel.error /\ kernel.helper \in {"check", "port", "publish"}
           /\ backend.deadline # NoTime => TimerComes

---------------------------------------------------------------------------
(***************************************************************************)
(* The workers of a synchronous Windows handle (backend/iocp/sync_io.rs):  *)
(* one thread reads and one writes, and the system runs one call at a time *)
(* on a pipe opened for both.  A write therefore cancels the idle read,    *)
(* which is issued again after it.  CancelSynchronousIo names a thread,    *)
(* not a request: it misses a call that has not entered the kernel yet,    *)
(* and may be lost just after; a helper repeats it.  Every step below      *)
(* holds the mutex of the pair.                                            *)
(***************************************************************************)
CONSTANTS
    Preemptible,         \* a pipe for both directions
    MaxBytes,            \* bytes the peer sends
    MaxStarts            \* requests of one direction


syncVars == <<backend, kernel, told>>

Read == 1
Write == 2
Dirs == {Read, Write}

SyncInit ==
    /\ backend = [at |-> <<"wait", "wait">>, asleep |-> {}, job |-> {}, active |-> {}, inIo |-> {}, cancelled |-> {},
                  stop |-> {}, result |-> <<"none", "none">>, writing |-> FALSE, preempt |-> FALSE, helper |-> <<>>, panic |-> FALSE]
    /\ kernel = [call |-> <<"out", "out">>, sent |-> 0, bytes |-> 0, room |-> TRUE]
    /\ told = [starts |-> <<0, 0>>, due |-> {}, asked |-> {}, read |-> 0, dropped |-> {}]

NotifyAll(b) == [b EXCEPT !.asleep = {}]

---------------------------------------------------------------------------
\* The loop's side.

Start(d) ==
    /\ d \notin told.due \cup told.dropped /\ told.starts[d] < MaxStarts
    /\ backend' = NotifyAll([backend EXCEPT !.job = @ \cup {d}, !.cancelled = @ \ {d},
                                            !.panic = @ \/ d \in backend.job \cup backend.active \cup backend.inIo
                                                      \/ backend.result[d] # "none"])
    /\ told' = [told EXCEPT !.starts[d] = @ + 1, !.due = @ \cup {d}, !.asked = @ \ {d}]
    /\ UNCHANGED kernel

\* A call in the kernel returns aborted, unless the cancellation misses it or
\* is lost.
Hit(k, d) == IF k.call[d] = "pending" THEN {k, [k EXCEPT !.call[d] = "aborted"]} ELSE {k}

Cancel(d) ==
    /\ d \in told.due /\ d \notin told.asked
    /\ backend' = NotifyAll([backend EXCEPT !.cancelled = @ \cup {d},
                                            !.helper = IF d \in backend.inIo THEN Append(@, d) ELSE @])
    /\ kernel' \in IF d \in backend.inIo THEN Hit(kernel, d) ELSE {kernel}
    /\ told' = [told EXCEPT !.asked = @ \cup {d}]

\* The packet was taken from the port.
Finish(d) ==
    /\ backend.result[d] # "none"
    /\ backend' = [backend EXCEPT !.result[d] = "none"]
    /\ told' = [told EXCEPT !.due = @ \ {d}, !.read = IF d = Read /\ backend.result[d] = "ok" THEN @ + 1 ELSE @]
    /\ UNCHANGED kernel

DropWorker(d) ==
    /\ d \notin told.due \cup told.dropped
    /\ backend' = NotifyAll([backend EXCEPT !.stop = @ \cup {d}, !.panic = @ \/ d \in backend.active \cup backend.job])
    /\ told' = [told EXCEPT !.dropped = @ \cup {d}]
    /\ UNCHANGED kernel

---------------------------------------------------------------------------
\* pump.

Awake(d, at) == backend.at[d] = at /\ d \notin backend.asleep

Ends(b, d, result) ==
    NotifyAll([b EXCEPT !.at[d] = "wait", !.active = @ \ {d}, !.result[d] = result,
                        !.writing = IF d = Write /\ Preemptible THEN FALSE ELSE @])

TakeJob(d) ==
    /\ Awake(d, "wait")
    /\ backend' = IF d \in backend.stop THEN [backend EXCEPT !.at[d] = "gone"]
                  ELSE IF d \notin backend.job THEN [backend EXCEPT !.asleep = @ \cup {d}]
                  ELSE [backend EXCEPT !.at[d] = "enter", !.job = @ \ {d}, !.active = @ \cup {d}]
    /\ UNCHANGED <<kernel, told>>

\* The head of the inner loop: give up, cancel the idle read, stay behind a
\* write, or enter native I/O.
Enter(d) ==
    /\ Awake(d, "enter")
    /\ backend' = CASE d \in backend.cancelled -> Ends(backend, d, "aborted")
                    [] Preemptible /\ d = Write ->
                           [backend EXCEPT !.writing = TRUE, !.at[d] = "preempt",
                                           !.preempt = IF Read \in backend.inIo THEN TRUE ELSE @]
                    [] Preemptible /\ d = Read /\ backend.writing -> [backend EXCEPT !.asleep = @ \cup {d}]
                    [] OTHER -> [backend EXCEPT !.inIo = @ \cup {d}, !.at[d] = "io"]
    /\ kernel' = IF backend'.at[d] = "io" THEN [kernel EXCEPT !.call[d] = "entering"] ELSE kernel
    /\ UNCHANGED told

\* One round of cancel_until_returned by the write worker.
PreemptRead ==
    /\ backend.at[Write] = "preempt"
    /\ IF Read \in backend.inIo /\ Write \notin backend.cancelled
       THEN kernel' \in Hit(kernel, Read) /\ UNCHANGED backend
       ELSE IF Write \in backend.cancelled
       THEN backend' = [backend EXCEPT !.at[Write] = "enter"] /\ UNCHANGED kernel
       ELSE /\ backend' = [backend EXCEPT !.inIo = @ \cup {Write}, !.at[Write] = "io"]
            /\ kernel' = [kernel EXCEPT !.call[Write] = "entering"]
    /\ UNCHANGED told

\* The call came back: a read that a write preempted is issued again.
Returned(d) ==
    /\ backend.at[d] = "io" /\ kernel.call[d] \in {"ok", "aborted"}
    /\ LET left == [backend EXCEPT !.inIo = @ \ {d}]
           reader == NotifyAll([left EXCEPT !.preempt = FALSE])
           b == IF Preemptible /\ d = Read THEN reader ELSE left
       IN  backend' = IF Preemptible /\ d = Read /\ backend.preempt /\ kernel.call[d] = "aborted"
                         /\ Read \notin backend.cancelled
                      THEN [b EXCEPT !.at[d] = "enter"]
                      ELSE Ends(b, d, kernel.call[d])
    /\ kernel' = [kernel EXCEPT !.call[d] = "out"]
    /\ UNCHANGED told

\* One round of the helper of all pairs.
Canceller ==
    /\ backend.helper # <<>>
    /\ LET d == Head(backend.helper) IN
       IF d \in backend.inIo \cap backend.cancelled
       THEN kernel' \in Hit(kernel, d) /\ UNCHANGED backend
       ELSE backend' = [backend EXCEPT !.helper = Tail(@)] /\ UNCHANGED kernel
    /\ UNCHANGED told

---------------------------------------------------------------------------
\* The kernel and the peer.

Other(d) == 3 - d

\* A pipe lets one call in at a time.
EntersKernel(d) ==
    /\ kernel.call[d] = "entering"
    /\ Preemptible => kernel.call[Other(d)] # "pending"
    /\ kernel' = [kernel EXCEPT !.call[d] = "pending"]
    /\ UNCHANGED <<backend, told>>

CompletesCall(d) ==
    /\ kernel.call[d] = "pending"
    /\ IF d = Read THEN kernel.bytes > 0 ELSE kernel.room
    /\ kernel' = IF d = Read THEN [kernel EXCEPT !.call[d] = "ok", !.bytes = @ - 1]
                 ELSE [kernel EXCEPT !.call[d] = "ok", !.room = FALSE]
    /\ UNCHANGED <<backend, told>>

PeerSends ==
    /\ kernel.sent < MaxBytes
    /\ kernel' = [kernel EXCEPT !.sent = @ + 1, !.bytes = @ + 1]
    /\ UNCHANGED <<backend, told>>

PeerReads == ~kernel.room /\ kernel' = [kernel EXCEPT !.room = TRUE] /\ UNCHANGED <<backend, told>>

SyncNext ==
    \/ \E d \in Dirs : Start(d) \/ Cancel(d) \/ Finish(d) \/ DropWorker(d) \/ TakeJob(d) \/ Enter(d) \/ Returned(d)
                       \/ EntersKernel(d) \/ CompletesCall(d)
    \/ PreemptRead \/ Canceller \/ PeerSends \/ PeerReads

---------------------------------------------------------------------------
\* A request that the loop waits for is in exactly one place, and the worker
\* is out of its buffer when it ends: neither start nor drop finds another.
RequestIsOnePlace ==
    /\ ~backend.panic
    /\ \A d \in Dirs :
           Cardinality({w \in 1 .. 3 : <<d \in backend.job, d \in backend.active, backend.result[d] # "none">>[w]})
               = IF d \in told.due THEN 1 ELSE 0
    /\ \A d \in Dirs : kernel.call[d] # "out" => d \in backend.active

\* No byte that left the pipe is lost, and a request ends aborted only if it
\* was cancelled, not because a write preempted it or a cancellation meant for
\* an earlier request arrived late.
AbortIsAsked ==
    /\ told.read + kernel.bytes
       + (IF kernel.call[Read] = "ok" THEN 1 ELSE 0) + (IF backend.result[Read] = "ok" THEN 1 ELSE 0) = kernel.sent
    /\ \A d \in Dirs : backend.result[d] = "aborted" => d \in told.asked

\* A sleeping worker has nothing to do: no request, or a write before it that
\* is under way; a write never enters the kernel behind an idle read; and a
\* cancelled call always has somebody who repeats the cancellation.
SyncSleepsOverNothing ==
    /\ \A d \in backend.asleep :
           \/ backend.at[d] = "wait" /\ d \notin backend.job \cup backend.stop
           \/ d = Read /\ backend.at[d] = "enter" /\ backend.writing /\ Write \in backend.active /\ d \notin backend.cancelled
    /\ Preemptible /\ Write \in backend.inIo => Read \notin backend.inIo
    /\ \A d \in Dirs : d \in backend.inIo \cap backend.cancelled =>
           \E i \in DOMAIN backend.helper : backend.helper[i] = d
=============================================================================
