---------------------------- MODULE DriverState -----------------------------
(***************************************************************************)
(* The Driver of crates/turnloop/src/driver.rs as a record, and each of    *)
(* its private methods as an operator from records to records: handles,    *)
(* operations, queued completions and the counters that admission and      *)
(* liveness rest on.  Module Driver composes its public calls of them as   *)
(* the code composes its methods.                                          *)
(***************************************************************************)
EXTENDS Integers, FiniteSets, Sequences

CONSTANTS
    Handles, Ops,       \* slots of the two tables: max_handles, max_operations
    EventsPerTurn,      \* Config::events_per_turn
    MaxUndelivered,     \* PoolConfig::max_undelivered
    MaxPosts,           \* posts waiting at once (bound of the model)
    OutCapacity,        \* capacity of the host's Completions
    Calls,              \* the public calls this host makes
    CancelFails,        \* whether the backend may refuse a cancellation
    FilesOnPool,        \* B::FILESYSTEM == Filesystem::Pool, else Backend
    None

ASSUME SlotsAssumption == IsFiniteSet(Handles) /\ IsFiniteSet(Ops)
ASSUME NoneAssumption == None \notin Handles \cup Ops
ASSUME EventsAssumption == EventsPerTurn \in Nat \ {0}
ASSUME UndeliveredAssumption == MaxUndelivered \in Nat \ {0}
ASSUME FlagsAssumption == CancelFails \in BOOLEAN /\ FilesOnPool \in BOOLEAN
ASSUME OutAssumption == OutCapacity \in Nat \ {0} /\ MaxPosts \in Nat

Classes == {"NATIVE", "TIMER", "POST"}
OpKinds == {"io", "read_start", "watch", "connect", "accept", "accept_start", "timer", "interval", "job", "lookup", "fs"}

Free == None  \* a vacant slot of a table
IsTimer(kind) == kind \in {"timer", "interval"}

Resources ==
    [kind : {"Socket", "File", "Timer"}, hidden : BOOLEAN, referenced : BOOLEAN,
     pending : Int, closing : BOOLEAN, closed_queued : BOOLEAN]
Operations ==
    [kind : OpKinds, handle : Handles \cup {None}, cancel : BOOLEAN, native : BOOLEAN,
     port : BOOLEAN, reserved_handles : {0, 1}, multishot : BOOLEAN]

ASSUME VacantAssumption == None \notin Resources \cup Operations

Resource(kind) ==
    [kind |-> kind, hidden |-> FALSE, referenced |-> TRUE, pending |-> 0,
     closing |-> FALSE, closed_queued |-> FALSE]

Op(kind, h, native) ==
    [kind |-> kind, handle |-> h, cancel |-> FALSE, native |-> native, port |-> FALSE,
     reserved_handles |-> 0, multishot |-> FALSE]

---------------------------------------------------------------------------
\* Private methods of Driver

One(b) == IF b THEN 1 ELSE 0

Live(s) == {h \in Handles : s.handles[h] # Free}
LiveOps(s) == {o \in Ops : s.ops[o] # Free}
OpsOf(s, h) == {o \in LiveOps(s) : s.ops[o].handle = h}
Remaining(s) == Cardinality(Handles \ Live(s))
CompletionCapacity == 3 * EventsPerTurn + Cardinality(Ops) + Cardinality(Handles)

\* The handle slots new_handle may use.
Room(s) == IF Remaining(s) > s.reserved_handles THEN Handles \ Live(s) ELSE {}

NewHandle(s, h, kind) ==
    [s EXCEPT !.handles[h] = Resource(kind),
              !.refs = @ + One(kind # "Timer")]

\* handles.remove(h) and, for a socket or file, refs -= 1 if referenced.
RemoveHandle(s, h) ==
    [s EXCEPT !.handles[h] = Free,
              !.refs = @ - One(s.handles[h].referenced)]

OpRoom(s) == IF s.outstanding < Cardinality(Ops) THEN Ops \ LiveOps(s) ELSE {}

\* A handle slot that is in use; both methods look the handle up again.
Present(s, h) == h # None /\ s.handles[h] # Free
Referenced(s, h) == h = None \/ (Present(s, h) /\ s.handles[h].referenced)
Pend(s, h, n) == IF Present(s, h) THEN [s.handles EXCEPT ![h].pending = @ + n] ELSE s.handles

NewOp(s, o, kind, h) ==
    LET native == Present(s, h) /\ s.handles[h].kind = "Socket" IN
    [s EXCEPT !.ops[o] = Op(kind, h, native),
              !.handles = Pend(s, h, 1),
              !.refs = @ + One(Referenced(s, h)),
              !.native_pending = @ + One(native),
              !.outstanding = @ + 1]

\* A lookup or path request that the backend accepted natively.
MakeNative(s, o) ==
    [s EXCEPT !.ops[o].native = TRUE,
              !.native_pending = @ + One(~s.ops[o].native)]

Admits(s) == s.undelivered < MaxUndelivered
ChargePort(s, o) == [s EXCEPT !.ops[o].port = TRUE, !.undelivered = @ + 1]

Retire(s, o) ==
    LET op == s.ops[o]
        armed == s.multishot_armed - One(op.multishot)
        surplus == One(op.multishot /\ s.multishot_reserved > armed)
    IN  [s EXCEPT !.ops[o] = Free,
                  !.deadlines = @ \ {o},
                  !.multishot_armed = armed,
                  !.multishot_reserved = @ - surplus,
                  !.reserved_handles = @ - op.reserved_handles - surplus,
                  !.native_pending = @ - One(op.native),
                  !.undelivered = @ - One(op.port),
                  !.handles = Pend(s, op.handle, -1),
                  !.refs = @ - One(Referenced(s, op.handle))]

\* A completion: the handle it names, whether it ends an operation, the handle
\* it introduces to the host (an accepted connection or an opened file).
Entry(h, op, terminal, class) ==
    [handle |-> h, op |-> op, terminal |-> terminal, class |-> class, closed |-> FALSE,
     referenced |-> FALSE, brings |-> None]

\* The buffered completions of a class, n more; terminal results have none.
Buffer(s, class, n) == IF class = "NONE" THEN s.buffered ELSE [s.buffered EXCEPT ![class] = @ + n]

Enqueue(s, e) ==
    [s EXCEPT !.buffered = Buffer(s, e.class, 1),
              !.refs = @ + One(e.referenced),
              !.queued = Append(@, e)]

\* Fault: the undo completes the operation that was never accepted.
UnsubmitCompletes(s, o) == Enqueue(Retire(s, o), Entry(None, TRUE, TRUE, "NONE"))

\* retire(op) and outstanding -= 1, for a submission that was not accepted.
Unsubmit(s, o) == [Retire(s, o) EXCEPT !.outstanding = @ - 1]

MaybeClosed(s, h) ==
    IF Present(s, h) /\ s.handles[h].pending = 0
           /\ s.handles[h].closing /\ ~s.handles[h].closed_queued
    THEN Enqueue([s EXCEPT !.handles[h].closed_queued = TRUE],
                 [Entry(h, FALSE, TRUE, "NONE") EXCEPT !.closed = TRUE])
    ELSE s

\* Fault: the last operation of a closing handle does not report Closed.
FinishForgetsClosed(s, o, terminal, brings) ==
    LET op == s.ops[o]
        class == IF terminal THEN "NONE" ELSE IF IsTimer(op.kind) THEN "TIMER" ELSE "NATIVE"
        e == [Entry(op.handle, TRUE, terminal, class) EXCEPT
                 !.referenced = terminal /\ Referenced(s, op.handle), !.brings = brings]
    IN  IF terminal THEN Retire(Enqueue(s, e), o) ELSE Enqueue(s, e)

\* finish(): a terminal completion retires its operation, and may be the last
\* that a closing handle waits for.
Finish(s, o, terminal, brings) ==
    LET op == s.ops[o]
        class == IF terminal THEN "NONE" ELSE IF IsTimer(op.kind) THEN "TIMER" ELSE "NATIVE"
        e == [Entry(op.handle, TRUE, terminal, class) EXCEPT
                 !.referenced = terminal /\ Referenced(s, op.handle), !.brings = brings]
    IN  IF terminal THEN MaybeClosed(Retire(Enqueue(s, e), o), op.handle) ELSE Enqueue(s, e)

\* finish_fs(): an open that did not succeed never shows its handle.
FinishFs(s, o, opened) ==
    LET h == s.ops[o].handle IN
    IF ~(Present(s, h) /\ s.handles[h].hidden) THEN Finish(s, o, TRUE, None)
    ELSE IF opened THEN Finish([s EXCEPT !.handles[h].hidden = FALSE], o, TRUE, h)
    ELSE LET f == Finish(s, o, TRUE, None)
         IN  RemoveHandle([f EXCEPT !.queued[Len(f.queued)].handle = None], h)

\* Fault: every operation ends at once.
CancelInnerNow(s, o) ==
    IF s.ops[o].cancel THEN s
    ELSE Finish([s EXCEPT !.timers = @ \ {s.ops[o].handle}], o, TRUE, None)

\* cancel_inner(): a timer ends at once; anything else is flagged and ends when
\* the backend, the pool or a service answers.
CancelInner(s, o) ==
    IF s.ops[o].cancel THEN s
    ELSE IF IsTimer(s.ops[o].kind)
         THEN Finish([s EXCEPT !.timers = @ \ {s.ops[o].handle}], o, TRUE, None)
         ELSE [s EXCEPT !.ops[o].cancel = TRUE, !.deadlines = @ \ {o}]

\* The loop over a handle's operations in close, detach and signal_stop, of
\* which the backend refuses to cancel those in kept.  A timer handle has one
\* operation at most; for others the order is immaterial.
CancelAll(s, h, kept) ==
    IF s.handles[h].kind = "Timer"
    THEN LET own == OpsOf(s, h) IN IF own = {} THEN s ELSE CancelInner(s, CHOOSE o \in own : TRUE)
    ELSE LET gone == OpsOf(s, h) \ kept IN
         [s EXCEPT !.ops = [o \in Ops |-> IF o \in gone THEN [@[o] EXCEPT !.cancel = TRUE] ELSE @[o]],
                   !.deadlines = @ \ gone]

\* The cancellations the backend may refuse.
Refusable(s, h) ==
    {kept \in SUBSET {o \in OpsOf(s, h) : s.ops[o].native /\ ~s.ops[o].cancel} :
        kept # {} => CancelFails}

\* submit(): an operation whose completion creates a handle reserves its slot.
Reserves(kind) == kind \in {"accept", "accept_start"}

MayReserve(s, kind) == Reserves(kind) => Remaining(s) >= s.reserved_handles + 1

Reserve(s, o, kind) ==
    CASE kind = "accept_start" ->
            [s EXCEPT !.ops[o].multishot = TRUE, !.multishot_armed = @ + 1,
                      !.multishot_reserved = @ + 1, !.reserved_handles = @ + 1]
      [] kind = "accept" ->
            [s EXCEPT !.ops[o].reserved_handles = 1, !.reserved_handles = @ + 1]
      [] OTHER -> s

SubmitOp(s, o, h, kind) == Reserve(NewOp(s, o, kind, h), o, kind)

\* attach_reserved() up to the call of attach: the promise is given back.
Spend(s, o) ==
    IF s.ops[o].multishot
    THEN [s EXCEPT !.multishot_reserved = @ - One(@ # 0),
                   !.reserved_handles = @ - One(s.multishot_reserved # 0)]
    ELSE [s EXCEPT !.ops[o].reserved_handles = 0,
                   !.reserved_handles = @ - s.ops[o].reserved_handles]

\* ... and after it: the pool of promises is refilled as far as slots allow.
Refill(s, o) ==
    LET wanted == s.multishot_armed - s.multishot_reserved
        free == Remaining(s) - s.reserved_handles
        n == IF ~s.ops[o].multishot \/ free < 0 THEN 0 ELSE (IF wanted < free THEN wanted ELSE free)
    IN  [s EXCEPT !.multishot_reserved = @ + n, !.reserved_handles = @ + n]

Budget(s) == Remaining(s) - (s.reserved_handles - s.multishot_reserved)

\* Fault: a delivered completion is not taken off its reserve.
DrainOneKeepsReserve(s) ==
    LET e == Head(s.queued)
        popped == [s EXCEPT
            !.queued = Tail(@),
            !.refs = @ - One(e.referenced),
            !.outstanding = @ - One(e.terminal /\ e.op)]
    IN  IF e.closed /\ Present(s, e.handle) THEN RemoveHandle(popped, e.handle) ELSE popped

\* drain(): hand over the oldest completion; delivering Closed frees the handle.
DrainOne(s) ==
    LET e == Head(s.queued)
        popped == [s EXCEPT
            !.queued = Tail(@),
            !.refs = @ - One(e.referenced),
            !.buffered = Buffer(s, e.class, -1),
            !.outstanding = @ - One(e.terminal /\ e.op)]
    IN  IF e.closed /\ Present(s, e.handle) THEN RemoveHandle(popped, e.handle) ELSE popped

InitDriver ==
    [handles |-> [h \in Handles |-> Free], ops |-> [o \in Ops |-> Free],
     timers |-> {}, deadlines |-> {}, queued |-> << >>,
     buffered |-> [c \in Classes |-> 0],
     refs |-> 0, outstanding |-> 0, reserved_handles |-> 0, multishot_armed |-> 0,
     multishot_reserved |-> 0, native_pending |-> 0, undelivered |-> 0]

---------------------------------------------------------------------------
\* Steps of the public calls

\* spawn_extra: the handles of a process and its pipes, and their undoing.
AddHandles(s, H) ==
    [s EXCEPT !.handles = [h \in Handles |-> IF h \in H THEN Resource("Socket") ELSE @[h]],
              !.refs = @ + Cardinality(H)]
RemoveHandles(s, H) ==
    [s EXCEPT !.handles = [h \in Handles |-> IF h \in H THEN Free ELSE @[h]],
              !.refs = @ - Cardinality(H)]

\* blocking, blocking_with and external_wait: an operation charged to the port.
JobOp(s, o) == ChargePort(NewOp(s, o, "job", None), o)

\* fs: a file's handle stays hidden until Opened.
FileKind == IF FilesOnPool THEN "File" ELSE "Socket"
Hide(s, h) == [s EXCEPT !.handles[h].hidden = TRUE]
FsOp(s, o, h) ==
    IF FilesOnPool THEN ChargePort(NewOp(s, o, "fs", h), o) ELSE NewOp(s, o, "fs", h)

\* Fault: detach looks at the operations only.
DetachableEarly(s, h) == s.handles[h].pending = 0

Detachable(s, h) ==
    /\ s.handles[h].pending = 0
    /\ \A i \in 1 .. Len(s.queued) : s.queued[i].handle # h

\* What a handle weighs in refs: itself, and its operations.
Weight(r) == r.pending + One(r.kind # "Timer" \/ r.closing)

\* Fault: queued terminal results keep the reference they were queued with.
FlipRefShallow(s, h) ==
    LET r == s.handles[h]
        weight == Weight(r)
    IN  [s EXCEPT !.handles[h].referenced = ~r.referenced,
                  !.refs = IF r.referenced THEN @ - weight ELSE @ + weight]

\* set_ref(h, !referenced): the handle, its operations, and the terminal
\* results of its operations that are still queued.
FlipRef(s, h) ==
    LET r == s.handles[h]
        carried == {i \in 1 .. Len(s.queued) :
                       /\ s.queued[i].handle = h /\ s.queued[i].terminal /\ s.queued[i].op
                       /\ s.queued[i].referenced = r.referenced}
        weight == Weight(r) + Cardinality(carried)
    IN  [s EXCEPT !.handles[h].referenced = ~r.referenced,
                  !.refs = IF r.referenced THEN @ - weight ELSE @ + weight,
                  !.queued = [i \in DOMAIN @ |-> IF i \in carried
                                  THEN [@[i] EXCEPT !.referenced = ~r.referenced] ELSE @[i]]]

---------------------------------------------------------------------------
\* The completions and the fields of a Driver

Completions ==
    [handle : Handles \cup {None}, op : BOOLEAN, terminal : BOOLEAN,
     class : Classes \cup {"NONE"}, closed : BOOLEAN, referenced : BOOLEAN,
     brings : Handles \cup {None}]

Fields ==
    {"handles", "ops", "timers", "deadlines", "queued", "buffered", "refs", "outstanding",
     "reserved_handles", "multishot_armed", "multishot_reserved", "native_pending",
     "undelivered"}

\* A record with the fields of the Driver.
IsDriver(s) == DOMAIN s = Fields /\ s = [x \in Fields |-> s[x]]

\* All but the pool of multishot promises.
Unpooled(s) == [s EXCEPT !.reserved_handles = @ - s.multishot_reserved, !.multishot_reserved = 0]
=============================================================================
