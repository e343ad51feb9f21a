---------------------------- MODULE DriverAccounts ----------------------------
(***************************************************************************)
(* The books that Driver keeps: what is owed, what is counted, and what    *)
(* makes the two agree.                                                    *)
(***************************************************************************)
EXTENDS DriverState

\* f takes T into U, no two elements to the same.
OneToOne(f, T, U) == f \in [T -> U] /\ \A x, y \in T : f[x] = f[y] => x = y

\* What the counting below needs to know of finite sets.
Counting ==
    /\ IsFiniteSet({}) /\ Cardinality({}) = 0
    /\ \A T : IsFiniteSet(T) => Cardinality(T) \in Nat /\ (Cardinality(T) = 0 => T = {})
    /\ \A m, n \in Int : IsFiniteSet(m .. n)
    /\ \A T, U : IsFiniteSet(U) /\ T \subseteq U => IsFiniteSet(T) /\ Cardinality(T) <= Cardinality(U)
    /\ \A T, x : IsFiniteSet(T) /\ x \notin T =>
          IsFiniteSet(T \cup {x}) /\ Cardinality(T \cup {x}) = Cardinality(T) + 1
    /\ \A T, x : IsFiniteSet(T) /\ x \in T =>
          IsFiniteSet(T \ {x}) /\ Cardinality(T \ {x}) = Cardinality(T) - 1
    /\ \A T, U : IsFiniteSet(T) /\ IsFiniteSet(U) /\ T \cap U = {} =>
          IsFiniteSet(T \cup U) /\ Cardinality(T \cup U) = Cardinality(T) + Cardinality(U)
    /\ \A T, U, f : IsFiniteSet(U) /\ OneToOne(f, T, U) => IsFiniteSet(T) /\ Cardinality(T) <= Cardinality(U)

\* The tables of s hold what they should.
Shaped(s) ==
    /\ IsDriver(s)
    /\ s.handles \in [Handles -> Resources \cup {None}]
    /\ s.ops \in [Ops -> Operations \cup {None}]
    /\ s.deadlines \subseteq LiveOps(s)

\* Counting in the queue

\* The places of q that hold a completion of M.
At(q, M) == {i \in DOMAIN q : q[i] \in M}

---------------------------------------------------------------------------
\* The methods, slot by slot

\* The tables of t and s are the same.
SameTables(s, t) ==
    /\ t.handles = s.handles /\ t.ops = s.ops /\ Live(t) = Live(s) /\ LiveOps(t) = LiveOps(s)
    /\ \A x : OpsOf(t, x) = OpsOf(s, x)

Natives(s) == {o \in LiveOps(s) : s.ops[o].native}
Ports(s) == {o \in LiveOps(s) : s.ops[o].port}

Tallies(s) ==
    /\ s.native_pending = Cardinality(Natives(s))
    /\ s.undelivered = Cardinality(Ports(s))
    /\ \A o \in LiveOps(s) : s.ops[o].handle # None => s.ops[o].handle \in Live(s)
    /\ \A h \in Live(s) : s.handles[h].pending = Cardinality(OpsOf(s, h))

---------------------------------------------------------------------------
\* Completions: what buffered counts, and which handles they name

\* A buffered event, the result of an operation, or Closed.
Event(e) == e.class \in Classes /\ ~(e.terminal /\ e.op) /\ ~e.closed
Result(e) == e.class = "NONE" /\ e.terminal /\ e.op /\ ~e.closed
Goodbye(e) == e.class = "NONE" /\ e.terminal /\ ~e.op /\ e.closed /\ e.handle # None
Proper(e) == Event(e) \/ Result(e) \/ Goodbye(e)

OfClass(c) == {e \in Completions : e.class = c}

\* A handle that has said Closed.
Parted(s, h) == OpsOf(s, h) = {} /\ s.handles[h].closing /\ s.handles[h].closed_queued

\* Completions name handles that are live; after Closed none names its handle.
Named(s) ==
    /\ \A i \in DOMAIN s.queued : s.queued[i].handle \in Live(s) \cup {None}
    /\ \A i \in DOMAIN s.queued : s.queued[i].closed => Parted(s, s.queued[i].handle)
    /\ \A i, j \in DOMAIN s.queued :
          s.queued[i].closed /\ j > i => s.queued[j].handle # s.queued[i].handle

Buffers(s) ==
    /\ s.buffered \in [Classes -> Int]
    /\ \A c \in Classes : s.buffered[c] = Cardinality(At(s.queued, OfClass(c)))

Lines(s) ==
    /\ s.queued \in Seq(Completions) /\ Buffers(s)
    /\ \A i \in DOMAIN s.queued : Proper(s.queued[i])
    /\ Named(s)

\* t is s with e queued.
Queues(s, e, t) ==
    /\ t.queued = Append(s.queued, e) /\ t.buffered = Buffer(s, e.class, 1)
    /\ t.refs = s.refs + One(e.referenced)
    /\ t.handles = s.handles /\ t.ops = s.ops /\ t.timers = s.timers
    /\ t.deadlines = s.deadlines /\ t.outstanding = s.outstanding
    /\ t.native_pending = s.native_pending /\ t.undelivered = s.undelivered

---------------------------------------------------------------------------
\* References: what refs and outstanding count

Results == {e \in Completions : e.terminal /\ e.op}
Counted == {e \in Completions : e.referenced}

Owed(s) == s.outstanding = Cardinality(LiveOps(s)) + Cardinality(At(s.queued, Results))

\* The handles and the operations that keep the loop alive.
Weighty(s) ==
    {h \in Live(s) : s.handles[h].referenced /\ (s.handles[h].kind # "Timer" \/ s.handles[h].closing)}
Weighing(s) == {o \in LiveOps(s) : Referenced(s, s.ops[o].handle)}

Refs(s) == s.refs = Cardinality(Weighty(s)) + Cardinality(Weighing(s)) + Cardinality(At(s.queued, Counted))

\* A queued result counts while its handle is referenced.
Carried(s) ==
    \A i \in DOMAIN s.queued :
        s.queued[i].terminal /\ s.queued[i].op /\ s.queued[i].handle # None =>
            s.queued[i].referenced = s.handles[s.queued[i].handle].referenced

Weights(s) == Refs(s) /\ Carried(s)

\* All of them are numbers.
Numbers(s) ==
    /\ IsFiniteSet(LiveOps(s)) /\ Cardinality(LiveOps(s)) \in Nat
    /\ IsFiniteSet(Weighty(s)) /\ Cardinality(Weighty(s)) \in Nat
    /\ IsFiniteSet(Weighing(s)) /\ Cardinality(Weighing(s)) \in Nat
    /\ Cardinality(At(s.queued, Results)) \in Nat /\ Cardinality(At(s.queued, Counted)) \in Nat

---------------------------------------------------------------------------
\* Timers, deadlines, and files that are being opened

\* A timer's operation is its handle's only one and is armed; a deadline is that
\* of another operation, which is not being cancelled.
TimerOp(s, o) ==
    /\ IsTimer(s.ops[o].kind) =>
          /\ s.ops[o].handle \in Live(s) /\ s.handles[s.ops[o].handle].kind = "Timer"
          /\ s.ops[o].handle \in s.timers /\ ~s.ops[o].cancel
    /\ s.ops[o].handle \in Live(s) /\ s.handles[s.ops[o].handle].kind = "Timer" =>
          IsTimer(s.ops[o].kind) /\ OpsOf(s, s.ops[o].handle) = {o}
    /\ o \in s.deadlines => ~s.ops[o].cancel /\ ~IsTimer(s.ops[o].kind)

Armed(s, h, x) ==
    h \in Live(s) /\ s.handles[h].kind = "Timer" /\ ~s.handles[h].closing /\ OpsOf(s, h) \ {x} # {}

\* All timers and deadlines are in order, but for the operation x.
ClocksBut(s, x) ==
    /\ \A o \in LiveOps(s) \ {x} : TimerOp(s, o)
    /\ \A h \in s.timers : Armed(s, h, x)

Clocks(s) == ClocksBut(s, None)

\* The handle of a file that is being opened is known to its operation only.
Hiding(s, h) ==
    /\ ~s.handles[h].closing /\ s.handles[h].kind # "Timer"
    /\ \A i \in DOMAIN s.queued : s.queued[i].handle # h
    /\ \E o \in LiveOps(s) : OpsOf(s, h) = {o} /\ s.ops[o].kind = "fs"

HiddenBut(s, X) == \A h \in Live(s) \ X : s.handles[h].hidden => Hiding(s, h)

\* All but the clocks and the hidden files.
Sums(s) == Tallies(s) /\ Lines(s) /\ Owed(s) /\ Weights(s)

Ledger(s) == Sums(s) /\ Clocks(s) /\ HiddenBut(s, {})

---------------------------------------------------------------------------
\* Handles change

\* t has the operations and the queue of s.
SameOpsAndQueue(s, t) ==
    /\ t.ops = s.ops /\ t.queued = s.queued /\ t.buffered = s.buffered
    /\ t.outstanding = s.outstanding /\ t.native_pending = s.native_pending
    /\ t.undelivered = s.undelivered /\ t.deadlines = s.deadlines

\* t has the handles H beside those of s.
HandlesAdded(s, t, H, r) ==
    /\ Live(t) = Live(s) \cup H
    /\ \A x \in Live(s) : t.handles[x] = s.handles[x]
    /\ \A x \in H : x \in Handles /\ t.handles[x] = r /\ OpsOf(t, x) = {}

\* t is s without the handle h.
Loses(s, t, h) ==
    /\ SameOpsAndQueue(s, t) /\ t.timers = s.timers
    /\ t.handles = [s.handles EXCEPT ![h] = None]
    /\ t.refs = s.refs - One(s.handles[h].referenced)

---------------------------------------------------------------------------
\* Operations end

\* The result e of the operation o.
Ending(s, o, e) ==
    /\ e \in Completions /\ Result(e) /\ e.handle \in {s.ops[o].handle, None}
    /\ e.referenced <=> Referenced(s, s.ops[o].handle)

\* The completion that finish() queues.
Outcome(s, o, terminal, brings) ==
    [Entry(s.ops[o].handle, TRUE, terminal,
           IF terminal THEN "NONE" ELSE IF IsTimer(s.ops[o].kind) THEN "TIMER" ELSE "NATIVE")
     EXCEPT !.referenced = terminal /\ Referenced(s, s.ops[o].handle), !.brings = brings]

---------------------------------------------------------------------------
\* Promises, charges and cancellations

\* t and s agree but for the operations, their deadlines and the promises.
SameRest(s, t) ==
    /\ t.handles = s.handles /\ t.queued = s.queued /\ t.buffered = s.buffered
    /\ t.refs = s.refs /\ t.outstanding = s.outstanding /\ t.timers = s.timers

\* ... and on what counts operations.
SameCounts(s, t) == t.native_pending = s.native_pending /\ t.undelivered = s.undelivered

\* The operations of t are those of s, of the same kinds.
SameKinds(s, t) ==
    LiveOps(t) = LiveOps(s) /\ \A x \in LiveOps(s) : t.ops[x].kind = s.ops[x].kind

---------------------------------------------------------------------------
\* Submissions

\* t is s with the operation o more.
Issued(s, o, kind, t) ==
    /\ o \in Ops \ LiveOps(s) /\ LiveOps(t) = LiveOps(s) \cup {o} /\ t.ops[o].kind = kind
    /\ \A x \in LiveOps(s) : t.ops[x].kind = s.ops[x].kind

\* A usable handle of a socket or a file, or none.
Ready(s, h) ==
    h # None => /\ h \in Live(s) /\ ~s.handles[h].closing /\ s.handles[h].kind # "Timer"
                /\ ~s.handles[h].hidden

---------------------------------------------------------------------------
\* Cancellation

\* The operations that a timer does not end.
Others(s) == {o \in LiveOps(s) : ~IsTimer(s.ops[o].kind)}

\* t has the handles of s and its operations, but perhaps those of timers.
SameOthers(s, t) == Live(t) = Live(s) /\ Others(t) = Others(s)

\* The timer of an operation is taken from the queue.
Disarm(s, o) == [s EXCEPT !.timers = @ \ {s.ops[o].handle}]

---------------------------------------------------------------------------
\* close and detach

\* close() marks its handle, and a timer weighs from then on.
Closing(s, h) ==
    [s EXCEPT !.handles[h].closing = TRUE,
              !.refs = @ + One(s.handles[h].kind = "Timer" /\ s.handles[h].referenced)]

---------------------------------------------------------------------------
\* set_ref

\* The queued results of h, which count while it is referenced.
Tied(s, h) == {i \in DOMAIN s.queued : s.queued[i].handle = h /\ s.queued[i].terminal /\ s.queued[i].op}

\* The rest of s is the same in t, and refs follows.
Reweighed(s, h, t) ==
    /\ t.timers = s.timers /\ t.deadlines = s.deadlines /\ t.outstanding = s.outstanding
    /\ t.buffered = s.buffered /\ t.native_pending = s.native_pending /\ t.undelivered = s.undelivered
    /\ t.refs = IF s.handles[h].referenced
                THEN s.refs - (Weight(s.handles[h]) + Cardinality(Tied(s, h)))
                ELSE s.refs + (Weight(s.handles[h]) + Cardinality(Tied(s, h)))

\* The queue after set_ref(h, to), entry by entry.
Relabel(s, h, to) ==
    [i \in DOMAIN s.queued |-> IF i \in Tied(s, h) THEN [s.queued[i] EXCEPT !.referenced = to] ELSE s.queued[i]]

\* The fields that set_ref() writes.
Flipped(s, h, t) ==
    /\ IsDriver(t) /\ Reweighed(s, h, t) /\ t.ops = s.ops
    /\ t.handles = [s.handles EXCEPT ![h] = [s.handles[h] EXCEPT !.referenced = ~s.handles[h].referenced]]
    /\ t.queued = Relabel(s, h, ~s.handles[h].referenced)

---------------------------------------------------------------------------
\* Events of the backend

\* The file is open: its handle is hidden no longer.
Reveal(s, h) == [s EXCEPT !.handles[h].hidden = FALSE]

\* a and b differ in their queues.
SameButQueue(a, b) ==
    /\ a.handles = b.handles /\ a.ops = b.ops /\ a.timers = b.timers /\ a.deadlines = b.deadlines
    /\ a.buffered = b.buffered /\ a.refs = b.refs /\ a.outstanding = b.outstanding
    /\ a.reserved_handles = b.reserved_handles /\ a.multishot_armed = b.multishot_armed
    /\ a.multishot_reserved = b.multishot_reserved /\ a.native_pending = b.native_pending
    /\ a.undelivered = b.undelivered

\* The counts of promised slots are the same.
SamePledges(s, t) ==
    /\ t.reserved_handles = s.reserved_handles /\ t.multishot_armed = s.multishot_armed
    /\ t.multishot_reserved = s.multishot_reserved

\* finish_fs() hides the handle of a file that was not opened.
Unname(e) == [e EXCEPT !.handle = None]
UnnameLast(v) == [v EXCEPT !.queued[Len(v.queued)].handle = None]

---------------------------------------------------------------------------
\* finish_fs

Awaits(s, o, h) == s.ops[o].handle = h /\ s.handles[h].hidden

\* The result of an open that failed, which names no handle.
Nameless(s, o) == Unname(Outcome(s, o, TRUE, None))

\* An operation that no timer ends has ended.
Ends(s, o, t) == Shaped(t) /\ Ledger(t) /\ Others(t) = Others(s) \ {o}

\* finish() may tell the host of the handle.
Shown(s, o) == s.ops[o].handle # None => ~s.handles[s.ops[o].handle].hidden

---------------------------------------------------------------------------
\* Posts, delivery, and the driver at rest

\* t has the counts of s but for the completion e.
Handed(s, e, t) ==
    /\ t.buffered = Buffer(s, e.class, -1) /\ t.outstanding = s.outstanding - One(e.terminal /\ e.op)
    /\ t.undelivered = s.undelivered

---------------------------------------------------------------------------
\* Refusals

\* The counters that a submission adds to.
Numeric(s) ==
    /\ s.refs \in Int /\ s.outstanding \in Int /\ s.native_pending \in Int /\ s.undelivered \in Int
    /\ s.reserved_handles \in Int /\ s.multishot_armed \in Int /\ s.multishot_reserved \in Int

\* t is s but for promises that moved within the pool.
SameButPool(s, t) ==
    /\ IsDriver(t) /\ t.handles = s.handles /\ t.ops = s.ops /\ t.timers = s.timers
    /\ t.deadlines = s.deadlines /\ t.queued = s.queued /\ t.buffered = s.buffered /\ t.refs = s.refs
    /\ t.outstanding = s.outstanding /\ t.native_pending = s.native_pending /\ t.undelivered = s.undelivered
    /\ t.multishot_armed = s.multishot_armed
    /\ t.reserved_handles \in Int /\ t.multishot_reserved \in Int
    /\ t.reserved_handles - t.multishot_reserved = s.reserved_handles - s.multishot_reserved

\* The promises are counted in numbers.
Pledged(s) == s.reserved_handles \in Int /\ s.multishot_armed \in Int /\ s.multishot_reserved \in Int

===============================================================================
