------------------------------- MODULE Driver -------------------------------
(***************************************************************************)
(* crates/turnloop/src/driver.rs: the public calls of Driver and its turn, *)
(* composed of the methods that DriverState defines.  The driver is one    *)
(* record, d.  The backend, the pool's workers and the posting threads     *)
(* appear as the requests they owe an answer to.  Deadlines are abstract:  *)
(* an armed timer may be due or not.                                       *)
(***************************************************************************)
EXTENDS DriverState

VARIABLES
    d,          \* the Driver
    inflight,   \* operations the backend owes a terminal event
    jobs,       \* operations the pool, file service or wait service owes a result
    ring,       \* operations whose result is in the WorkPort
    posts,      \* posts in the Poster
    phase,      \* where the loop thread is in turn; "host" outside it
    left,       \* iterations left in this phase
    accepts,    \* Budget::accepts left of this poll
    dropped     \* a connection was destroyed for want of a handle slot

vars == <<d, inflight, jobs, ring, posts, phase, left, accepts, dropped>>
others == <<inflight, jobs, ring, posts>>
turnVars == <<phase, left, accepts>>

Phases == {"host", "expire", "poll", "events", "expire_again", "timers", "work", "posts", "drain"}

Init ==
    /\ d = InitDriver
    /\ inflight = {} /\ jobs = {} /\ ring = {} /\ posts = 0
    /\ phase = "host" /\ left = 0 /\ accepts = 0 /\ dropped = FALSE

---------------------------------------------------------------------------
\* Public calls, made by the host between turns

\* The handles the host has been given and that resource() finds.
Known ==
    {h \in Live(d) : /\ ~d.handles[h].hidden
                     /\ \A i \in 1 .. Len(d.queued) : d.queued[i].brings # h}
Usable(kind) == {h \in Known : ~d.handles[h].closing /\ d.handles[h].kind = kind}

HostCalls(call) ==
    /\ phase = "host" /\ call \in Calls
    /\ UNCHANGED <<turnVars, posts, dropped>>

\* tcp_listen, pipe_listen, udp_bind, open_stdio and attach.
Open ==
    /\ HostCalls("open")
    /\ \E h \in Room(d) : d' = NewHandle(d, h, "Socket")
    /\ UNCHANGED <<inflight, jobs, ring>>

\* accept, accept_start, read, write, recv, send_to, shutdown, ... on a socket.
Submit(kind) ==
    /\ HostCalls(kind)
    /\ MayReserve(d, kind)
    /\ \E h \in Usable("Socket"), o \in OpRoom(d) :
          /\ d' = SubmitOp(d, o, h, kind)
          /\ inflight' = inflight \cup {o}
    /\ UNCHANGED <<jobs, ring>>

\* The backend refuses the request.
SubmitRefused(kind) ==
    /\ HostCalls(kind)
    /\ MayReserve(d, kind)
    /\ \E h \in Usable("Socket"), o \in OpRoom(d) :
          d' = Unsubmit(SubmitOp(d, o, h, kind), o)
    /\ UNCHANGED <<inflight, jobs, ring>>

\* tcp_connect, pipe_connect_until, tcp_connect_bound (with or without a
\* deadline), signal_start and fs_watch: a handle and its first operation.
OpenSubmit(kind) ==
    /\ HostCalls(kind)
    /\ \E h \in Room(d), o \in OpRoom(d), timed \in BOOLEAN :
          /\ timed => kind = "connect"
          /\ LET s == SubmitOp(NewHandle(d, h, "Socket"), o, h, kind)
             IN  d' = IF timed THEN [s EXCEPT !.deadlines = @ \cup {o}] ELSE s
          /\ inflight' = inflight \cup {o}
    /\ UNCHANGED <<jobs, ring>>

\* The submission is refused: the handle is released again.
OpenSubmitRefused(kind) ==
    /\ HostCalls(kind)
    /\ \E h \in Room(d) :
          LET opened == NewHandle(d, h, "Socket") IN
          IF OpRoom(d) = {} THEN d' = RemoveHandle(opened, h)
          ELSE \E o \in OpRoom(d) :
                  d' = RemoveHandle(Unsubmit(SubmitOp(opened, o, h, kind), o), h)
    /\ UNCHANGED <<inflight, jobs, ring>>

\* spawn_extra: the process handle, its pipes, and the exit operation.
Spawn ==
    /\ HostCalls("spawn")
    /\ \E h \in Room(d) : \E P \in SUBSET (Room(d) \ {h}), o \in OpRoom(d) :
          /\ Cardinality(P) + 1 + d.reserved_handles <= Remaining(d)
          /\ d' = NewOp(AddHandles(d, {h} \cup P), o, "io", h)
          /\ inflight' = inflight \cup {o}
    /\ UNCHANGED <<jobs, ring>>

\* A handle, the operation or the backend is refused: all of it is undone.
SpawnRefused ==
    /\ HostCalls("spawn")
    /\ \E h \in Room(d) : \E P \in SUBSET (Room(d) \ {h}) :
          LET H == {h} \cup P
              s == AddHandles(d, H)
          IN  /\ Cardinality(H) + d.reserved_handles <= Remaining(d)
              /\ \/ d' = RemoveHandles(s, H)
                 \/ \E o \in OpRoom(d) :
                       d' = RemoveHandles(Unsubmit(NewOp(s, o, "io", h), o), H)
    /\ UNCHANGED <<inflight, jobs, ring>>

Timer(kind) ==
    /\ HostCalls(kind)
    /\ \E h \in Room(d), o \in OpRoom(d) :
          d' = [NewOp(NewHandle(d, h, "Timer"), o, kind, h) EXCEPT !.timers = @ \cup {h}]
    /\ UNCHANGED <<inflight, jobs, ring>>

\* Fault: a timer that has fired is armed again.
TimerResetAny ==
    /\ HostCalls("timer_reset")
    /\ \E h \in Usable("Timer") : d' = [d EXCEPT !.timers = @ \cup {h}]
    /\ UNCHANGED <<inflight, jobs, ring>>

TimerReset ==
    /\ HostCalls("timer_reset")
    /\ \E h \in Usable("Timer") :
          /\ OpsOf(d, h) # {}
          /\ d' = [d EXCEPT !.timers = @ \cup {h}]
    /\ UNCHANGED <<inflight, jobs, ring>>

\* blocking, blocking_with, resolve on the pool, and external_wait.
Blocking ==
    /\ HostCalls("job")
    /\ Admits(d)
    /\ \E o \in OpRoom(d) :
          /\ d' = JobOp(d, o)
          /\ jobs' = jobs \cup {o}
    /\ UNCHANGED <<inflight, ring>>

BlockingRefused ==
    /\ HostCalls("job")
    /\ Admits(d)
    /\ \E o \in OpRoom(d) : d' = Unsubmit(JobOp(d, o), o)
    /\ UNCHANGED <<inflight, jobs, ring>>

\* resolve: by the backend, or by the pool where the backend has no resolver.
Resolve ==
    /\ HostCalls("lookup")
    /\ \E o \in OpRoom(d) :
          /\ d' = MakeNative(NewOp(d, o, "lookup", None), o)
          /\ inflight' = inflight \cup {o}
    /\ UNCHANGED <<jobs, ring>>

ResolveOnPool ==
    /\ HostCalls("lookup")
    /\ \E o \in OpRoom(d) :
          LET s == Unsubmit(NewOp(d, o, "lookup", None), o) IN
          /\ Admits(s)
          /\ \E p \in OpRoom(s) : d' = JobOp(s, p) /\ jobs' = jobs \cup {p}
    /\ UNCHANGED <<inflight, ring>>

ResolveRefused ==
    /\ HostCalls("lookup")
    /\ \E o \in OpRoom(d) : d' = Unsubmit(NewOp(d, o, "lookup", None), o)
    /\ UNCHANGED <<inflight, jobs, ring>>

\* fs: a request on a path or an open file, or one that opens a file, whose
\* handle stays hidden until Opened.
FsAdmits == FilesOnPool => Admits(d)

Accepted(s, o) ==
    IF FilesOnPool
    THEN d' = s /\ jobs' = jobs \cup {o} /\ UNCHANGED <<inflight, ring>>
    ELSE d' = MakeNative(s, o) /\ inflight' = inflight \cup {o} /\ UNCHANGED <<jobs, ring>>

Fs ==
    /\ HostCalls("fs") /\ FsAdmits
    /\ \E h \in Usable(FileKind) \cup {None}, o \in OpRoom(d) : Accepted(FsOp(d, o, h), o)

FsOpen ==
    /\ HostCalls("fs") /\ FsAdmits
    /\ \E h \in Room(d), o \in OpRoom(d) :
          Accepted(FsOp(Hide(NewHandle(d, h, FileKind), h), o, h), o)

FsRefused ==
    /\ HostCalls("fs") /\ FsAdmits
    /\ \/ \E h \in Usable(FileKind) \cup {None}, o \in OpRoom(d) :
             d' = Unsubmit(FsOp(d, o, h), o)
       \/ \E h \in Room(d) :
             LET s == Hide(NewHandle(d, h, FileKind), h) IN
             IF OpRoom(d) = {} THEN d' = RemoveHandle(s, h)
             ELSE \E o \in OpRoom(d) : d' = RemoveHandle(Unsubmit(FsOp(s, o, h), o), h)
    /\ UNCHANGED <<inflight, jobs, ring>>

\* cancel and stop.
Cancel ==
    /\ HostCalls("cancel")
    /\ \E o \in LiveOps(d) : ~d.ops[o].cancel /\ d' = CancelInner(d, o)
    /\ UNCHANGED <<inflight, jobs, ring>>

\* close and, with the same bookkeeping, signal_stop and fs_watch_stop.
Close ==
    /\ HostCalls("close")
    /\ \E h \in Known : \E kept \in Refusable(d, h) :
          /\ ~d.handles[h].closing
          /\ LET r == d.handles[h]
                 s == [d EXCEPT !.handles[h].closing = TRUE,
                                !.refs = @ + One(r.kind = "Timer" /\ r.referenced)]
             IN  d' = MaybeClosed(CancelAll(s, h, kept), h)
    /\ UNCHANGED <<inflight, jobs, ring>>

\* detach: operations are cancelled even when the answer is WouldBlock.
Detach ==
    /\ HostCalls("detach")
    /\ \E h \in Usable("Socket") : \E kept \in Refusable(d, h) :
          LET s == CancelAll(d, h, kept)
          IN  d' = IF Detachable(s, h) THEN RemoveHandle(s, h) ELSE s
    /\ UNCHANGED <<inflight, jobs, ring>>

SetRef ==
    /\ HostCalls("set_ref")
    /\ \E h \in Known : d' = FlipRef(d, h)
    /\ UNCHANGED <<inflight, jobs, ring>>

\* rebuild: only when nothing is owed.
Rebuild ==
    /\ HostCalls("rebuild")
    /\ d.outstanding = 0 /\ Live(d) = {} /\ d.queued = << >> /\ posts = 0 /\ ring = {}
    /\ d' = InitDriver
    /\ UNCHANGED <<inflight, jobs, ring>>

---------------------------------------------------------------------------
\* Other threads

JobDone(o) ==
    /\ o \in jobs
    /\ jobs' = jobs \ {o} /\ ring' = ring \cup {o}
    /\ UNCHANGED <<d, inflight, posts, turnVars, dropped>>

Post ==
    /\ posts < MaxPosts
    /\ posts' = posts + 1
    /\ UNCHANGED <<d, inflight, jobs, ring, turnVars, dropped>>

---------------------------------------------------------------------------
\* turn, one loop iteration at a time

Goto(from, to, n) == phase = from /\ phase' = to /\ left' = n
Iterate(at) == phase = at /\ left > 0 /\ left' = left - 1 /\ UNCHANGED phase

TurnBegin ==
    /\ Goto("host", "expire", 0)
    /\ UNCHANGED <<d, others, accepts, dropped>>

\* expire_connects: the backend accepts the cancellation of an expired connect.
ExpireConnect ==
    /\ phase \in {"expire", "expire_again"}
    /\ \E o \in d.deadlines :
          d' = [d EXCEPT !.deadlines = @ \ {o}, !.ops[o].cancel = TRUE]
    /\ UNCHANGED <<others, turnVars, dropped>>

\* ... or refuses it: the deadline is kept and turn returns the error.
ExpireFails ==
    /\ phase \in {"expire", "expire_again"} /\ d.deadlines # {}
    /\ phase' = "host"
    /\ UNCHANGED <<d, others, left, accepts, dropped>>

\* Whether turn makes its native step.
Queued == d.queued # << >> \/ posts > 0 \/ ring # {}

\* Fault: pending native operations do not count when something is queued.
NativeStepWhenIdle == d.buffered["NATIVE"] = 0 /\ ~Queued

NativeStep == d.buffered["NATIVE"] = 0 /\ (Queued => d.native_pending # 0)

ExpireDone ==
    /\ \/ Goto("expire", IF NativeStep THEN "poll" ELSE "expire_again", 0)
       \/ Goto("expire_again", "timers", EventsPerTurn)
    /\ UNCHANGED <<d, others, accepts, dropped>>

\* Fault: the accept budget ignores the slots of single-shot accepts.
PollGenerous ==
    /\ Goto("poll", "events", EventsPerTurn)
    /\ accepts' = Remaining(d)
    /\ UNCHANGED <<d, others, dropped>>

Poll ==
    /\ Goto("poll", "events", EventsPerTurn)
    /\ accepts' = Budget(d)
    /\ UNCHANGED <<d, others, dropped>>

PollFails ==
    /\ Goto("poll", "host", 0)
    /\ UNCHANGED <<d, others, accepts, dropped>>

\* A connection taken from the kernel, for an operation not being cancelled:
\* attach_reserved, whose call of the backend's attach may fail.
Attach(o, terminal) ==
    LET s == Spend(d, o) IN
    /\ dropped' = (dropped \/ Room(s) = {})
    /\ \/ \E h \in Room(s) : d' = Finish(Refill(NewHandle(s, h, "Socket"), o), o, terminal, h)
       \/ d' = Finish(Refill(s, o), o, terminal, None)

\* accept_event for a terminal event of the backend.
EventLast(o) ==
    /\ Iterate("events")
    /\ o \in inflight /\ inflight' = inflight \ {o}
    /\ \/ d.ops[o].kind = "accept" /\ ~d.ops[o].cancel /\ Attach(o, TRUE)
       \/ /\ d.ops[o].kind # "fs"
          /\ d' = Finish(d, o, TRUE, None) /\ UNCHANGED dropped
       \/ /\ d.ops[o].kind = "fs"
          /\ \E opened \in BOOLEAN : (opened => ~d.ops[o].cancel) /\ d' = FinishFs(d, o, opened)
          /\ UNCHANGED dropped
    /\ UNCHANGED <<jobs, ring, posts, accepts>>

\* accept_event for a further event of a multishot operation; one that comes
\* after cancel is discarded.
EventMore(o) ==
    /\ Iterate("events")
    /\ o \in inflight
    /\ \/ /\ d.ops[o].kind \in {"watch", "read_start"}
          /\ d' = IF d.ops[o].cancel THEN d ELSE Finish(d, o, FALSE, None)
          /\ UNCHANGED <<accepts, dropped>>
       \/ /\ d.ops[o].kind = "accept_start" /\ accepts > 0
          /\ accepts' = accepts - 1
          /\ IF d.ops[o].cancel THEN UNCHANGED <<d, dropped>> ELSE Attach(o, FALSE)
    /\ UNCHANGED others

EventsDone ==
    /\ Goto("events", "expire_again", 0)
    /\ UNCHANGED <<d, others, accepts, dropped>>

\* An interval that cannot be armed again, its next deadline overflowing, ends
\* as a one-shot timer does.
FireTimer ==
    /\ Iterate("timers")
    /\ d.buffered["TIMER"] < EventsPerTurn
    /\ \E h \in d.timers : \E o \in OpsOf(d, h) :
          \/ /\ d.ops[o].kind = "interval"
             /\ d' = Finish(d, o, FALSE, None)
          \/ /\ IsTimer(d.ops[o].kind)
             /\ d' = Finish([d EXCEPT !.timers = @ \ {h}], o, TRUE, None)
    /\ UNCHANGED <<others, accepts, dropped>>

TimersDone ==
    /\ Goto("timers", "work", EventsPerTurn)
    /\ UNCHANGED <<d, others, accepts, dropped>>

PopWork ==
    /\ Iterate("work")
    /\ \E o \in ring :
          /\ ring' = ring \ {o}
          /\ \/ d.ops[o].kind # "fs" /\ d' = Finish(d, o, TRUE, None)
             \/ /\ d.ops[o].kind = "fs"
                /\ \E opened \in BOOLEAN :
                      (opened => ~d.ops[o].cancel) /\ d' = FinishFs(d, o, opened)
    /\ UNCHANGED <<inflight, jobs, posts, accepts, dropped>>

WorkDone ==
    /\ left = 0 \/ ring = {}
    /\ Goto("work", "posts", EventsPerTurn)
    /\ UNCHANGED <<d, others, accepts, dropped>>

\* Fault: the post reserve is not looked at.
PopPostUnbounded ==
    /\ Iterate("posts")
    /\ posts > 0 /\ posts' = posts - 1
    /\ d' = Enqueue(d, Entry(None, FALSE, TRUE, "POST"))
    /\ UNCHANGED <<inflight, jobs, ring, accepts, dropped>>

PopPost ==
    /\ Iterate("posts")
    /\ d.buffered["POST"] < EventsPerTurn
    /\ posts > 0 /\ posts' = posts - 1
    /\ d' = Enqueue(d, Entry(None, FALSE, TRUE, "POST"))
    /\ UNCHANGED <<inflight, jobs, ring, accepts, dropped>>

PostsDone ==
    /\ left = 0 \/ posts = 0 \/ d.buffered["POST"] = EventsPerTurn
    /\ Goto("posts", "drain", OutCapacity)
    /\ UNCHANGED <<d, others, accepts, dropped>>

Drain ==
    /\ Iterate("drain")
    /\ d.queued # << >>
    /\ d' = DrainOne(d)
    /\ UNCHANGED <<others, accepts, dropped>>

DrainDone ==
    /\ left = 0 \/ d.queued = << >>
    /\ Goto("drain", "host", 0)
    /\ UNCHANGED <<d, others, accepts, dropped>>

---------------------------------------------------------------------------
SubmitKinds == {"io", "read_start", "accept", "accept_start"}
OpenKinds == {"connect", "watch"}

Refusal ==
    \/ \E k \in SubmitKinds : SubmitRefused(k)
    \/ \E k \in OpenKinds : OpenSubmitRefused(k)
    \/ SpawnRefused \/ BlockingRefused \/ ResolveRefused \/ FsRefused

Call ==
    \/ Open \/ Spawn \/ TimerReset \/ Blocking \/ Resolve \/ ResolveOnPool \/ Fs \/ FsOpen
    \/ \E k \in SubmitKinds : Submit(k)
    \/ \E k \in OpenKinds : OpenSubmit(k)
    \/ \E k \in {"timer", "interval"} : Timer(k)
    \/ Cancel \/ Close \/ Detach \/ SetRef \/ Rebuild

TurnStep ==
    \/ ExpireConnect \/ ExpireDone \/ Poll \/ EventsDone \/ FireTimer \/ TimersDone
    \/ PopWork \/ WorkDone \/ PopPost \/ PostsDone \/ Drain \/ DrainDone

TurnFails == ExpireFails \/ PollFails

Next ==
    \/ Call \/ Refusal \/ TurnBegin \/ TurnStep \/ TurnFails \/ Post
    \/ \E o \in Ops : EventLast(o) \/ EventMore(o) \/ JobDone(o)

\* The host keeps turning and not every turn fails; the backend answers every
\* request that was cancelled; a worker finishes its job.
Fairness ==
    /\ SF_vars(TurnBegin) /\ WF_vars(TurnStep) /\ SF_vars(ExpireDone) /\ SF_vars(Poll)
    /\ \A o \in Ops : SF_vars(EventLast(o) /\ d.ops[o].cancel) /\ WF_vars(JobDone(o))

Spec == Init /\ [][Next]_vars /\ Fairness

---------------------------------------------------------------------------
\* Properties

\* No counter of the driver underflows or passes its configured limit, and the
\* buffered native events, timer repeats and posts stay within their reserves,
\* which enqueue() asserts.
TypeOK ==
    /\ IsDriver(d)
    /\ d.handles \in [Handles -> Resources \cup {Free}]
    /\ d.ops \in [Ops -> Operations \cup {Free}]
    /\ d.timers \subseteq Handles /\ d.deadlines \subseteq Ops
    /\ \A i \in DOMAIN d.queued : d.queued[i] \in Completions
    /\ d.buffered \in [Classes -> 0 .. EventsPerTurn]
    /\ d.refs \in Nat /\ d.native_pending \in Nat
    /\ d.outstanding \in 0 .. Cardinality(Ops)
    /\ d.undelivered \in 0 .. MaxUndelivered
    /\ d.reserved_handles \in Nat /\ d.multishot_armed \in Nat /\ d.multishot_reserved \in Nat
    /\ inflight \subseteq Ops /\ jobs \subseteq Ops /\ ring \subseteq Ops
    /\ posts \in 0 .. MaxPosts
    /\ phase \in Phases /\ left \in Nat /\ accepts \in Nat /\ dropped \in BOOLEAN

\* Promised handle slots are free slots (assert_reservations), and the promises
\* are exactly those of the single-shot accepts plus the multishot pool, which
\* never exceeds the armed multishot accepts.
ReservedIsFree ==
    /\ d.reserved_handles <= Remaining(d)
    /\ d.reserved_handles =
          d.multishot_reserved + Cardinality({o \in LiveOps(d) : d.ops[o].reserved_handles = 1})
    /\ d.multishot_reserved <= d.multishot_armed
    /\ d.multishot_armed = Cardinality({o \in LiveOps(d) : d.ops[o].multishot})

\* A connection the kernel handed over is never destroyed for want of a slot,
\* however single-shot accepts, multishot batches and the host's own handles
\* compete for the table.
AcceptIsHoused == ~dropped

\* queued never exceeds completion_capacity, which enqueue() asserts.
QueueFits ==
    /\ Len(d.queued) <= CompletionCapacity
    /\ \A c \in Classes :
          d.buffered[c] = Cardinality({i \in DOMAIN d.queued : d.queued[i].class = c})

\* outstanding counts the operations and the terminal results not yet handed
\* over, so a result always has room when its operation was admitted.
OutstandingIsExact ==
    d.outstanding = Cardinality(LiveOps(d))
                    + Cardinality({i \in DOMAIN d.queued : d.queued[i].terminal /\ d.queued[i].op})

\* alive() is exact: refs counts the referenced handles that are no idle timers,
\* the operations of referenced handles or of none, and the referenced results;
\* and a queued result counts exactly while its handle is referenced, however
\* set_ref was called since it was queued.
RefsAreExact ==
    /\ d.refs =
          Cardinality({h \in Live(d) :
              d.handles[h].referenced /\ (d.handles[h].kind # "Timer" \/ d.handles[h].closing)})
          + Cardinality({o \in LiveOps(d) : Referenced(d, d.ops[o].handle)})
          + Cardinality({i \in DOMAIN d.queued : d.queued[i].referenced})
    /\ \A i \in DOMAIN d.queued :
          LET e == d.queued[i] IN
          e.terminal /\ e.op /\ Present(d, e.handle) => (e.referenced <=> d.handles[e.handle].referenced)

\* Every accepted operation has exactly one party that will end it: its armed
\* timer, the backend, a worker or service, or a result in the ring.  Hence
\* every operation ends exactly once and none is forgotten.
EveryOpHasOwner ==
    \A o \in Ops :
        LET owners == One(o \in inflight) + One(o \in jobs) + One(o \in ring)
                      + One(/\ o \in LiveOps(d) /\ IsTimer(d.ops[o].kind)
                            /\ d.ops[o].handle \in d.timers)
        IN  owners = One(o \in LiveOps(d))

\* The timer queue and the connect deadlines name only what can still fire: a
\* timer with an operation, a connect that is live and not being cancelled.
DeadlinesAreLive ==
    /\ \A h \in d.timers : h \in Live(d) /\ OpsOf(d, h) # {} /\ ~d.handles[h].closing
    /\ \A o \in d.deadlines : o \in LiveOps(d) /\ ~d.ops[o].cancel

\* Closed is the last completion that names its handle, the handle has no
\* operation left, and no queued completion names a handle that is gone.
ClosedIsLast ==
    \A i \in DOMAIN d.queued :
        LET h == d.queued[i].handle IN
        /\ h # None => h \in Live(d)
        /\ d.queued[i].closed =>
              /\ OpsOf(d, h) = {}
              /\ \A j \in DOMAIN d.queued : j > i => d.queued[j].handle # h

\* The counters that gate the native step and pool admission are exact, and so
\* is each handle's count of operations, whose handle outlives them.
CountersAreExact ==
    /\ d.native_pending = Cardinality({o \in LiveOps(d) : d.ops[o].native})
    /\ d.undelivered = Cardinality({o \in LiveOps(d) : d.ops[o].port})
    /\ \A h \in Live(d) : d.handles[h].pending = Cardinality(OpsOf(d, h))
    /\ \A o \in LiveOps(d) : d.ops[o].handle # None => Present(d, d.ops[o].handle)

\* The driver's books are exact, however calls, events, refusals and set_ref
\* interleave: the counters that gate the native step, pool admission and
\* handles, the references alive() reads, and the room promised to results.
BooksAreExact == CountersAreExact /\ RefsAreExact /\ OutstandingIsExact

\* A submission that any of its steps refuses leaves the driver as it was, but
\* for the pool of multishot promises: a refused accept_start may leave its
\* promise to an armed accept that had none.
RefusalLeavesNoTrace == [][Refusal => Unpooled(d') = Unpooled(d)]_vars

\* A closed handle is eventually released, after its Closed was handed over.
CloseCompletes ==
    \A h \in Handles : (h \in Live(d) /\ d.handles[h].closing) ~> h \notin Live(d)

\* A cancelled operation eventually leaves the operation table.
CancelCompletes ==
    \A o \in Ops : (o \in LiveOps(d) /\ d.ops[o].cancel) ~> o \notin LiveOps(d)
=============================================================================
