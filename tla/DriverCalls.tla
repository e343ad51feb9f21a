------------------------------ MODULE DriverCalls ------------------------------
(***************************************************************************)
(* Every step of Driver keeps its books.  The first part says what each    *)
(* private method promises of them; DriverAdmissions and DriverEndings     *)
(* keep these promises, DriverTheorems puts the two together.  The second  *)
(* part has the calls that are refused after they have changed something   *)
(* and take it back; the rest has one lemma for each step.                 *)
(***************************************************************************)
EXTENDS Driver, DriverAccounts, TLAPS

---------------------------------------------------------------------------
\* What the methods promise

AtFiniteLaw ==
    \A q, M :
        q \in Seq(Completions)
        => IsFiniteSet(At(q, M)) /\ Cardinality(At(q, M)) \in Nat /\ At(q, M) \subseteq 1 .. Len(q)

CountNoneLaw ==
    \A T :
        IsFiniteSet(T)
        => (Cardinality(T) = 0 <=> T = {})

OneCountsLaw ==
    \A x :
        Cardinality({x}) = 1 /\ IsFiniteSet({x})

OpsFiniteLaw ==
    \A T :
        T \in SUBSET Ops
        => IsFiniteSet(T) /\ Cardinality(T) \in Nat

HandlesFiniteLaw ==
    \A T :
        T \in SUBSET Handles
        => IsFiniteSet(T) /\ Cardinality(T) \in Nat

OpShapeLaw ==
    \A s, o :
        Shaped(s) /\ o \in LiveOps(s)
        => /\ o \in Ops /\ s.ops[o] \in Operations /\ s.ops[o] # None
           /\ s.ops[o].handle \in Handles \cup {None} /\ s.ops[o].kind \in OpKinds

EnqueueQueuesLaw ==
    \A s, e, t :
        IsDriver(s) /\ t = Enqueue(s, e)
        => Queues(s, e, t)

NumbersHoldLaw ==
    \A s :
        s.queued \in Seq(Completions)
        => Numbers(s)

FinishIsLaw ==
    \A s, o, brings :
        /\ Finish(s, o, TRUE, brings) = MaybeClosed(Retire(Enqueue(s, Outcome(s, o, TRUE, brings)), o), s.ops[o].handle)
        /\ Finish(s, o, FALSE, brings) = Enqueue(s, Outcome(s, o, FALSE, brings))

\* new_handle().
NewHandleLaw ==
    \A s, h, kind, t :
        /\ Shaped(s) /\ Ledger(s) /\ h \in Handles \ Live(s) /\ kind \in {"Socket", "File", "Timer"}
        /\ t = NewHandle(s, h, kind)
        => /\ Shaped(t) /\ Ledger(t) /\ HandlesAdded(s, t, {h}, Resource(kind)) /\ SameOpsAndQueue(s, t)
           /\ t.timers = s.timers

\* The handle of a file that is yet to be opened.
HiddenLaw ==
    \A s, h, kind, t :
        /\ Shaped(s) /\ Ledger(s) /\ h \in Handles \ Live(s) /\ kind \in {"Socket", "File"}
        /\ t = Hide(NewHandle(s, h, kind), h)
        => /\ Shaped(t) /\ Sums(t) /\ Clocks(t) /\ HiddenBut(t, {h}) /\ SameOpsAndQueue(s, t) /\ t.timers = s.timers
           /\ HandlesAdded(s, t, {h}, [Resource(kind) EXCEPT !.hidden = TRUE])

\* The handles of a process and its pipes.
AddHandlesLaw ==
    \A s, H, t :
        Shaped(s) /\ Ledger(s) /\ H \in SUBSET (Handles \ Live(s)) /\ t = AddHandles(s, H)
        => /\ Shaped(t) /\ Ledger(t) /\ HandlesAdded(s, t, H, Resource("Socket")) /\ SameOpsAndQueue(s, t)
           /\ t.timers = s.timers

\* Only the pool of promises and the deadlines change.
PoolLaw ==
    \A s, t :
        /\ Shaped(s) /\ Ledger(s) /\ IsDriver(t) /\ t.ops = s.ops /\ SameRest(s, t) /\ SameCounts(s, t)
        /\ t.deadlines \subseteq LiveOps(s)
        /\ \A x \in t.deadlines : ~s.ops[x].cancel /\ ~IsTimer(s.ops[x].kind)
        => Shaped(t) /\ Ledger(t) /\ SameKinds(s, t)

NativeLaw ==
    \A s, o, t :
        Shaped(s) /\ Ledger(s) /\ o \in LiveOps(s) /\ t = MakeNative(s, o)
        => Shaped(t) /\ Ledger(t) /\ SameKinds(s, t)

IssuedKeptLaw ==
    \A s, o, kind, u, t :
        Issued(s, o, kind, u) /\ SameKinds(u, t)
        => Issued(s, o, kind, t)

NewOpIssuedLaw ==
    \A s, o, kind, h, t :
        /\ Shaped(s) /\ Ledger(s) /\ o \in OpRoom(s) /\ kind \in OpKinds /\ ~IsTimer(kind) /\ Ready(s, h)
        /\ t = NewOp(s, o, kind, h)
        => Shaped(t) /\ Ledger(t) /\ Issued(s, o, kind, t) /\ ~t.ops[o].port /\ ~t.ops[o].cancel

\* submit() on an open handle.
SubmitLaw ==
    \A s, o, kind, h, t :
        /\ Shaped(s) /\ Ledger(s) /\ o \in OpRoom(s) /\ kind \in OpKinds /\ ~IsTimer(kind) /\ Ready(s, h)
        /\ t = SubmitOp(s, o, h, kind)
        => Shaped(t) /\ Ledger(t) /\ Issued(s, o, kind, t) /\ ~t.ops[o].cancel

\* A connect with a deadline.
DeadlineLaw ==
    \A s, o, t :
        /\ Shaped(s) /\ Ledger(s) /\ o \in LiveOps(s) /\ ~s.ops[o].cancel /\ ~IsTimer(s.ops[o].kind)
        /\ t = [s EXCEPT !.deadlines = @ \cup {o}]
        => Shaped(t) /\ Ledger(t) /\ SameKinds(s, t)

\* blocking() and external_wait().
JobLaw ==
    \A s, o, t :
        Shaped(s) /\ Ledger(s) /\ o \in OpRoom(s) /\ t = JobOp(s, o)
        => Shaped(t) /\ Ledger(t) /\ Issued(s, o, "job", t)

FsOnReadyLaw ==
    \A s, o, h, t :
        Shaped(s) /\ Ledger(s) /\ o \in OpRoom(s) /\ Ready(s, h) /\ t = FsOp(s, o, h)
        => Shaped(t) /\ Ledger(t) /\ Issued(s, o, "fs", t)

FileKindsLaw == FileKind \in {"Socket", "File"}

SameOpRoomLaw ==
    \A s, u :
        SameOpsAndQueue(s, u)
        => OpRoom(u) = OpRoom(s)

\* A file is opened under a handle that nobody knows yet.
FsOpenLaw ==
    \A s, h, o, u, t :
        /\ Shaped(s) /\ Ledger(s) /\ h \in Handles \ Live(s) /\ o \in OpRoom(s)
        /\ u = Hide(NewHandle(s, h, FileKind), h) /\ t = FsOp(u, o, h)
        => Shaped(t) /\ Ledger(t) /\ Issued(s, o, "fs", t)

OpenSubmitLaw ==
    \A s, h, o, kind, u, t :
        /\ Shaped(s) /\ Ledger(s) /\ h \in Handles \ Live(s) /\ o \in OpRoom(s) /\ kind \in OpKinds
        /\ ~IsTimer(kind) /\ u = NewHandle(s, h, "Socket") /\ t = SubmitOp(u, o, h, kind)
        => Shaped(t) /\ Ledger(t) /\ Issued(s, o, kind, t) /\ ~t.ops[o].cancel

\* spawn_extra(): a process, its pipes, and the operation that reports its exit.
SpawnLaw ==
    \A s, H, h, o, u, t :
        /\ Shaped(s) /\ Ledger(s) /\ H \in SUBSET (Handles \ Live(s)) /\ h \in H /\ o \in OpRoom(s)
        /\ u = AddHandles(s, H) /\ t = NewOp(u, o, "io", h)
        => Shaped(t) /\ Ledger(t) /\ Issued(s, o, "io", t)

\* timer() and interval(): a handle, its operation, and the armed deadline.
TimerLaw ==
    \A s, h, o, kind, u, v, t :
        /\ Shaped(s) /\ Ledger(s) /\ h \in Handles \ Live(s) /\ o \in OpRoom(s) /\ kind \in OpKinds
        /\ IsTimer(kind) /\ u = NewHandle(s, h, "Timer") /\ v = NewOp(u, o, kind, h)
        /\ t = [v EXCEPT !.timers = @ \cup {h}]
        => Shaped(t) /\ Ledger(t) /\ Issued(s, o, kind, t)

\* timer_reset() arms the timer of an operation again.
ResetLaw ==
    \A s, h, t :
        /\ Shaped(s) /\ Ledger(s) /\ h \in Live(s) /\ s.handles[h].kind = "Timer" /\ ~s.handles[h].closing
        /\ OpsOf(s, h) # {} /\ t = [s EXCEPT !.timers = @ \cup {h}]
        => Shaped(t) /\ Ledger(t) /\ SameTables(s, t)

OthersSameLaw ==
    \A s, t :
        SameKinds(s, t)
        => Others(t) = Others(s)

\* cancel_inner() of a timer.
CancelTimerLaw ==
    \A s, o, u, t :
        /\ Shaped(s) /\ Ledger(s) /\ o \in LiveOps(s) /\ IsTimer(s.ops[o].kind) /\ u = Disarm(s, o)
        /\ t = Finish(u, o, TRUE, None)
        => Shaped(t) /\ Ledger(t) /\ SameOthers(s, t)

\* cancel_inner().
CancelInnerLaw ==
    \A s, o, t :
        Shaped(s) /\ Ledger(s) /\ o \in LiveOps(s) /\ t = CancelInner(s, o)
        => Shaped(t) /\ Ledger(t) /\ SameOthers(s, t)

\* close().
CloseLaw ==
    \A s, h, kept, u, t :
        /\ Shaped(s) /\ Ledger(s) /\ h \in Live(s) /\ ~s.handles[h].closing /\ ~s.handles[h].hidden
        /\ u = CancelAll(Closing(s, h), h, kept) /\ t = MaybeClosed(u, h)
        => Shaped(t) /\ Ledger(t) /\ SameOthers(s, t)

\* Removing a handle takes it out of the table and off refs.
RemoveLosesLaw ==
    \A s, h, t :
        IsDriver(s) /\ t = RemoveHandle(s, h)
        => IsDriver(t) /\ Loses(s, t, h)

\* detach(), which removes a handle that nothing is owed to.
LetGo(u, h) == IF Detachable(u, h) THEN RemoveHandle(u, h) ELSE u

Untimed(s, h) == h \in Live(s) /\ s.handles[h].kind # "Timer"

SameBusy(s, t) == Others(t) = Others(s)

DetachLaw ==
    \A s, h, kept, u, t :
        Shaped(s) /\ Ledger(s) /\ Untimed(s, h) /\ u = CancelAll(s, h, kept) /\ t = LetGo(u, h)
        => Shaped(t) /\ Ledger(t) /\ SameBusy(s, t)

\* set_ref() flips exactly the results that are tied to the handle.
FlipIsLaw ==
    \A s, h, t :
        Lines(s) /\ Carried(s) /\ h \in Live(s) /\ t = FlipRef(s, h) /\ IsDriver(s)
        => Flipped(s, h, t)

\* set_ref().
FlipLaw ==
    \A s, h, t :
        Shaped(s) /\ Ledger(s) /\ h \in Live(s) /\ t = FlipRef(s, h)
        => Shaped(t) /\ Ledger(t) /\ SameOthers(s, t)

\* expire_connects() cancels a connect whose deadline has passed.
ExpireLaw ==
    \A s, o, t :
        /\ Shaped(s) /\ Ledger(s) /\ o \in s.deadlines
        /\ t = [s EXCEPT !.deadlines = @ \ {o}, !.ops[o].cancel = TRUE]
        => Shaped(t) /\ Ledger(t) /\ SameOthers(s, t)

\* Only the request that opens a file has a hidden handle.
NotHiddenLaw ==
    \A s, o :
        Shaped(s) /\ Ledger(s) /\ o \in LiveOps(s) /\ s.ops[o].kind # "fs"
        => (s.ops[o].handle # None => s.ops[o].handle \in Live(s) /\ ~s.handles[s.ops[o].handle].hidden)

\* finish() with a completion that is not the last.
FinishMoreLaw ==
    \A s, o, brings, t :
        /\ Shaped(s) /\ Ledger(s) /\ o \in LiveOps(s) /\ s.ops[o].kind # "fs" /\ brings \in Handles \cup {None}
        /\ t = Finish(s, o, FALSE, brings)
        => /\ Shaped(t) /\ Ledger(t) /\ SameOthers(s, t)
           /\ t.buffered = Buffer(s, IF IsTimer(s.ops[o].kind) THEN "TIMER" ELSE "NATIVE", 1)

\* attach_reserved(), up to the call of attach.
SpendLaw ==
    \A s, o, t :
        Shaped(s) /\ Ledger(s) /\ o \in LiveOps(s) /\ t = Spend(s, o)
        => Shaped(t) /\ Ledger(t) /\ SameKinds(s, t) /\ SameRest(s, t)

\* t has the operations and the buffered events of s.
Attached(s, t) == Shaped(t) /\ Ledger(t) /\ SameKinds(s, t) /\ t.buffered = s.buffered

\* A connection is given a handle, the pool is refilled.
AttachLaw ==
    \A s, o, u, h, v, t :
        /\ Shaped(s) /\ Ledger(s) /\ o \in LiveOps(s) /\ u = Spend(s, o) /\ h \in Handles \ Live(u)
        /\ v = NewHandle(u, h, "Socket") /\ t = Refill(v, o)
        => Attached(s, t)

\* ... or attach fails.
UnattachedLaw ==
    \A s, o, u, t :
        Shaped(s) /\ Ledger(s) /\ o \in LiveOps(s) /\ u = Spend(s, o) /\ t = Refill(u, o)
        => Attached(s, t)

DriverEqualLaw ==
    \A a, b :
        IsDriver(a) /\ IsDriver(b) /\ SameButQueue(a, b) /\ a.queued = b.queued
        => a = b

EnqueueDriverLaw ==
    \A s, e, t :
        IsDriver(s) /\ t = Enqueue(s, e)
        => IsDriver(t) /\ SamePledges(s, t)

NamelessEndsLaw ==
    \A s, o, e :
        Shaped(s) /\ o \in LiveOps(s) /\ e = Nameless(s, o)
        => Ending(s, o, e) /\ e.handle = None

FinishEndsLaw ==
    \A s, o, brings, t :
        /\ Shaped(s) /\ Ledger(s) /\ o \in LiveOps(s) /\ ~IsTimer(s.ops[o].kind) /\ Shown(s, o)
        /\ brings \in Handles \cup {None} /\ t = Finish(s, o, TRUE, brings)
        => Ends(s, o, t)

\* What finish_fs() makes of an open that failed.
UnopenedFinishLaw ==
    \A s, o, h, e, w :
        /\ Shaped(s) /\ Ledger(s) /\ o \in LiveOps(s) /\ h \in Live(s) /\ Awaits(s, o, h) /\ e = Nameless(s, o)
        /\ w = Retire(Enqueue(s, e), o)
        => FinishFs(s, o, FALSE) = RemoveHandle(w, h)

\* finish_fs().
FinishFsLaw ==
    \A s, o, opened, t :
        /\ Shaped(s) /\ Ledger(s) /\ o \in LiveOps(s) /\ ~IsTimer(s.ops[o].kind) /\ opened \in BOOLEAN
        /\ t = FinishFs(s, o, opened)
        => Ends(s, o, t)

\* poll_posts() queues a completion that names nothing.
PostLaw ==
    \A s, e, t :
        Shaped(s) /\ Ledger(s) /\ e = Entry(None, FALSE, TRUE, "POST") /\ t = Enqueue(s, e)
        => Shaped(t) /\ Ledger(t) /\ SameTables(s, t) /\ Queues(s, e, t)

\* drain() hands over a completion; with Closed goes the handle.
DrainLaw ==
    \A s, t :
        Shaped(s) /\ Ledger(s) /\ s.queued # << >> /\ t = DrainOne(s)
        => Shaped(t) /\ Ledger(t) /\ t.ops = s.ops /\ Handed(s, Head(s.queued), t)

\* The driver as new() and rebuild() leave it.
InitLaw ==
    \A s :
        s = InitDriver
        => Shaped(s) /\ Ledger(s) /\ Others(s) = {}

\* All of it holds, DriverLedger proves.
Laws ==
    /\ AtFiniteLaw /\ CountNoneLaw /\ OneCountsLaw /\ OpsFiniteLaw /\ HandlesFiniteLaw /\ OpShapeLaw
    /\ EnqueueQueuesLaw /\ NumbersHoldLaw /\ FinishIsLaw /\ NewHandleLaw /\ HiddenLaw /\ AddHandlesLaw
    /\ PoolLaw /\ NativeLaw /\ IssuedKeptLaw /\ NewOpIssuedLaw /\ SubmitLaw /\ DeadlineLaw /\ JobLaw
    /\ FsOnReadyLaw /\ FileKindsLaw /\ SameOpRoomLaw /\ FsOpenLaw /\ OpenSubmitLaw /\ SpawnLaw /\ TimerLaw
    /\ ResetLaw /\ OthersSameLaw /\ CancelTimerLaw /\ CancelInnerLaw /\ CloseLaw /\ RemoveLosesLaw /\ DetachLaw
    /\ FlipIsLaw /\ FlipLaw /\ ExpireLaw /\ NotHiddenLaw /\ FinishMoreLaw /\ SpendLaw /\ AttachLaw
    /\ UnattachedLaw /\ DriverEqualLaw /\ EnqueueDriverLaw /\ NamelessEndsLaw /\ FinishEndsLaw
    /\ UnopenedFinishLaw /\ FinishFsLaw /\ PostLaw /\ DrainLaw /\ InitLaw

---------------------------------------------------------------------------
\* What is left of a refused call

\* The requests of submit(), blocking(), resolve() and fs(), undone.
SubmitUndoneLaw ==
    \A s, o, h, kind, t :
        /\ Shaped(s) /\ Numeric(s) /\ o \in OpRoom(s) /\ h \in Live(s) \cup {None} /\ kind \in OpKinds
        /\ \/ t = Unsubmit(SubmitOp(s, o, h, kind), o) \/ t = Unsubmit(NewOp(s, o, kind, h), o)
           \/ t = Unsubmit(ChargePort(NewOp(s, o, kind, h), o), o)
        => SameButPool(s, t)

\* tcp_connect and the like.
OpenUndoneLaw ==
    \A s, h, v, w, t :
        /\ Shaped(s) /\ Ledger(s) /\ Numeric(s) /\ h \in Handles \ Live(s) /\ v = NewHandle(s, h, "Socket")
        /\ w = v \/ \E o \in OpRoom(s), kind \in OpKinds : w = Unsubmit(SubmitOp(v, o, h, kind), o)
        /\ t = RemoveHandle(w, h)
        => SameButPool(s, t)

\* The open of a file.
FsOpenUndoneLaw ==
    \A s, h, v, w, t :
        /\ Shaped(s) /\ Ledger(s) /\ Numeric(s) /\ h \in Handles \ Live(s) /\ v = Hide(NewHandle(s, h, FileKind), h)
        /\ w = v \/ \E o \in OpRoom(s) : w = Unsubmit(FsOp(v, o, h), o)
        /\ t = RemoveHandle(w, h)
        => SameButPool(s, t)

\* spawn_extra().
SpawnUndoneLaw ==
    \A s, H, h, v, w, t :
        /\ Shaped(s) /\ Ledger(s) /\ Numeric(s) /\ H \in SUBSET (Handles \ Live(s)) /\ h \in H /\ v = AddHandles(s, H)
        /\ w = v \/ \E o \in OpRoom(s) : w = Unsubmit(NewOp(v, o, "io", h), o)
        /\ t = RemoveHandles(w, H)
        => SameButPool(s, t)

NumericHoldsLaw ==
    \A s : Ledger(s) /\ Pledged(s) => Numeric(s)

\* All of it holds, as the next part proves.
UndoLaws ==
    /\ SubmitUndoneLaw /\ OpenUndoneLaw /\ FsOpenUndoneLaw /\ SpawnUndoneLaw /\ NumericHoldsLaw

---------------------------------------------------------------------------
\* u is s with the operation q of h at o, before the backend is asked.
Requested(s, o, h, q, u) ==
    /\ IsDriver(u) /\ q \in Operations /\ q.handle = h
    /\ u.ops = [s.ops EXCEPT ![o] = q] /\ u.handles = Pend(s, h, 1)
    /\ u.refs = s.refs + One(Referenced(s, h)) /\ u.outstanding = s.outstanding + 1
    /\ u.native_pending = s.native_pending + One(q.native) /\ u.undelivered = s.undelivered + One(q.port)
    /\ u.timers = s.timers /\ u.deadlines = s.deadlines /\ u.queued = s.queued /\ u.buffered = s.buffered
    /\ u.multishot_armed = s.multishot_armed + One(q.multishot)
    /\ u.multishot_reserved = s.multishot_reserved + One(q.multishot)
    /\ u.reserved_handles = s.reserved_handles + q.reserved_handles + One(q.multishot)

\* A slot written twice, and a vacant one written and cleared.
LEMMA OpRewritten ==
  ASSUME NEW f \in [Ops -> Operations \cup {None}], NEW o \in Ops, NEW q, NEW r
  PROVE  /\ [[f EXCEPT ![o] = q] EXCEPT ![o] = r] = [f EXCEPT ![o] = r]
         /\ [f EXCEPT ![o] = q][o] = q
         /\ f[o] = None => [f EXCEPT ![o] = None] = f
<1>1. [f EXCEPT ![o] = q] = [x \in Ops |-> IF x = o THEN q ELSE f[x]]
  BY Zenon
<1>2. [f EXCEPT ![o] = r] = [x \in Ops |-> IF x = o THEN r ELSE f[x]]
  BY Zenon
<1>3. PICK g : g = [x \in Ops |-> IF x = o THEN q ELSE f[x]]
  BY Zenon
<1>4. [g EXCEPT ![o] = r] = [x \in Ops |-> IF x = o THEN r ELSE g[x]] /\ g[o] = q
  BY Zenon, <1>3
<1>5. \A x \in Ops : (IF x = o THEN r ELSE g[x]) = (IF x = o THEN r ELSE f[x])
  BY Zenon, <1>3
<1>6. [g EXCEPT ![o] = r] = [f EXCEPT ![o] = r]
  BY Zenon, <1>2, <1>4, <1>5
<1>7. f[o] = None => [f EXCEPT ![o] = None] = f
  OBVIOUS
<1> QED
  BY Zenon, <1>1, <1>3, <1>4, <1>6, <1>7

\* A count that is taken back.
PendBy(r, n) == [r EXCEPT !.pending = @ + n]

Shifted(r, n, q) ==
    /\ q \in Resources /\ q.pending = r.pending + n /\ q.kind = r.kind /\ q.hidden = r.hidden
    /\ q.referenced = r.referenced /\ q.closing = r.closing /\ q.closed_queued = r.closed_queued

\* A change of pending changes no other field.
LEMMA PendingMoves ==
  ASSUME NEW r \in Resources, NEW n \in Int, NEW q, q = PendBy(r, n)
  PROVE  Shifted(r, n, q)
  BY DEF Resources, Shifted, PendBy

\* A resource is what its fields are.
LEMMA ResourcesEqual ==
  ASSUME NEW q \in Resources, NEW r \in Resources, q.pending = r.pending, q.kind = r.kind, q.hidden = r.hidden,
         q.referenced = r.referenced, q.closing = r.closing, q.closed_queued = r.closed_queued
  PROVE  q = r
  BY DEF Resources

\* One more and one less is the same resource.
LEMMA PendingBack ==
  ASSUME NEW r \in Resources, NEW q, q = PendBy(r, 1)
  PROVE  PendBy(q, -1) = r /\ q.referenced = r.referenced /\ q \in Resources
<1>0. 1 \in Int /\ -1 \in Int /\ r.pending \in Int
  BY DEF Resources
<1>1. Shifted(r, 1, q)
  BY Zenon, <1>0, PendingMoves
<1>2. PICK p : p = PendBy(q, -1)
  BY Zenon
<1>3. q \in Resources
  BY Zenon, <1>1 DEF Shifted
<1>4. Shifted(q, -1, p)
  BY Zenon, <1>0, <1>2, <1>3, PendingMoves
<1>5. p.pending = r.pending
  BY <1>0, <1>1, <1>4 DEF Shifted
<1>6. p = r
  BY Zenon, <1>1, <1>4, <1>5, ResourcesEqual DEF Shifted
<1> QED
  BY Zenon, <1>1, <1>2, <1>6 DEF Shifted

\* Undoing the count of a handle restores the table of handles.
LEMMA PendBack ==
  ASSUME NEW s, Shaped(s), NEW h \in Live(s) \cup {None}, NEW u, u.handles = Pend(s, h, 1)
  PROVE  Pend(u, h, -1) = s.handles /\ (Referenced(u, h) <=> Referenced(s, h))
<1>1. CASE h = None
  BY Zenon, <1>1 DEF Pend, Present, Referenced
<1>2. CASE h # None
  <2> DEFINE r == s.handles[h]
             q == PendBy(r, 1)
  <2>1. h \in Handles /\ Present(s, h) /\ r \in Resources /\ s.handles \in [Handles -> Resources \cup {None}]
    BY <1>2 DEF Shaped, Live, Present, Free
  <2>2. PendBy(q, -1) = r /\ q.referenced = r.referenced /\ q \in Resources
    BY Zenon, <2>1, PendingBack
  <2>3. u.handles = [s.handles EXCEPT ![h] = q]
    BY Zenon, <2>1 DEF Pend, PendBy
  <2> HIDE DEF q
  <2>4. u.handles[h] = q
    BY Zenon, <2>1, <2>3
  <2>5. q # None
    BY <2>2, VacantAssumption
  <2>6. Present(u, h)
    BY Zenon, <1>2, <2>4, <2>5 DEF Present, Free
  <2>7. Pend(u, h, -1) = [u.handles EXCEPT ![h] = PendBy(q, -1)]
    BY Zenon, <2>4, <2>6 DEF Pend, PendBy
  <2>8. Pend(u, h, -1) = [[s.handles EXCEPT ![h] = q] EXCEPT ![h] = r]
    BY Zenon, <2>2, <2>3, <2>7
  <2> HIDE DEF r
  <2>9. [[s.handles EXCEPT ![h] = q] EXCEPT ![h] = r] = s.handles
    BY <2>1 DEF r
  <2>10. Referenced(u, h) <=> Referenced(s, h)
    BY Zenon, <2>1, <2>2, <2>4, <2>6 DEF Referenced, r
  <2> QED
    BY Zenon, <2>8, <2>9, <2>10
<1> QED
  BY Zenon, <1>1, <1>2

\* retire() and outstanding -= 1 take all of a request back.
LEMMA UndoneOp ==
  ASSUME NEW s, Shaped(s), Numeric(s), NEW o \in OpRoom(s), NEW h \in Live(s) \cup {None}, NEW q,
         NEW u, Requested(s, o, h, q, u), NEW t, t = Unsubmit(u, o)
  PROVE  SameButPool(s, t)
<1> DEFINE v == Retire(u, o)
           surplus == One(u.ops[o].multishot /\ u.multishot_reserved > u.multishot_armed - One(u.ops[o].multishot))
<1>1. o \in Ops /\ o \notin LiveOps(s) /\ s.ops[o] = None /\ s.ops \in [Ops -> Operations \cup {None}]
  BY DEF OpRoom, LiveOps, Shaped, Free
<1>2. u.ops = [s.ops EXCEPT ![o] = q] /\ IsDriver(u) /\ u.handles = Pend(s, h, 1) /\ q.handle = h /\ q \in Operations
  BY Zenon DEF Requested
<1>3. u.ops[o] = q /\ [u.ops EXCEPT ![o] = None] = s.ops
  BY Zenon, <1>1, <1>2, OpRewritten
<1>4. /\ IsDriver(v) /\ v.ops = [u.ops EXCEPT ![o] = None] /\ v.deadlines = u.deadlines \ {o}
      /\ v.multishot_armed = u.multishot_armed - One(q.multishot)
      /\ v.multishot_reserved = u.multishot_reserved - surplus
      /\ v.reserved_handles = u.reserved_handles - q.reserved_handles - surplus
      /\ v.native_pending = u.native_pending - One(q.native) /\ v.undelivered = u.undelivered - One(q.port)
      /\ v.handles = Pend(u, h, -1) /\ v.refs = u.refs - One(Referenced(u, h))
      /\ v.timers = u.timers /\ v.queued = u.queued /\ v.buffered = u.buffered /\ v.outstanding = u.outstanding
  <2>1. /\ IsDriver(v) /\ v.ops = [u.ops EXCEPT ![o] = Free] /\ v.deadlines = u.deadlines \ {o}
        /\ v.timers = u.timers /\ v.queued = u.queued /\ v.buffered = u.buffered /\ v.outstanding = u.outstanding
        /\ v.multishot_armed = u.multishot_armed - One(u.ops[o].multishot)
    BY ZenonT(60), <1>2 DEF Retire, IsDriver, Fields
  <2>2. /\ v.multishot_reserved = u.multishot_reserved - surplus
        /\ v.reserved_handles = u.reserved_handles - u.ops[o].reserved_handles - surplus
    BY Zenon, <1>2 DEF Retire, IsDriver, Fields
  <2>3. /\ v.native_pending = u.native_pending - One(u.ops[o].native)
        /\ v.undelivered = u.undelivered - One(u.ops[o].port)
        /\ v.handles = Pend(u, u.ops[o].handle, -1) /\ v.refs = u.refs - One(Referenced(u, u.ops[o].handle))
    BY Zenon, <1>2 DEF Retire, IsDriver, Fields
  <2> HIDE DEF v, surplus
  <2> QED
    BY Zenon, <1>2, <1>3, <2>1, <2>2, <2>3 DEF Free
<1> HIDE DEF v
<1>5. /\ IsDriver(t) /\ t.ops = v.ops /\ t.deadlines = v.deadlines /\ t.multishot_armed = v.multishot_armed
      /\ t.multishot_reserved = v.multishot_reserved /\ t.reserved_handles = v.reserved_handles
      /\ t.native_pending = v.native_pending /\ t.undelivered = v.undelivered /\ t.handles = v.handles
      /\ t.refs = v.refs /\ t.timers = v.timers /\ t.queued = v.queued /\ t.buffered = v.buffered
      /\ t.outstanding = v.outstanding - 1
  <2>1. t = [v EXCEPT !.outstanding = @ - 1]
    BY Zenon DEF Unsubmit, v
  <2> QED
    BY Zenon, <1>4, <2>1 DEF IsDriver, Fields
<1>6. Pend(u, h, -1) = s.handles /\ (Referenced(u, h) <=> Referenced(s, h))
  BY Zenon, <1>2, PendBack
<1>7. t.handles = s.handles /\ t.ops = s.ops
  BY Zenon, <1>3, <1>4, <1>5, <1>6
<1>8. t.timers = s.timers /\ t.queued = s.queued /\ t.buffered = s.buffered
  BY Zenon, <1>4, <1>5 DEF Requested
<1>9. t.deadlines = s.deadlines
  <2>1. t.deadlines = s.deadlines \ {o} /\ s.deadlines \subseteq LiveOps(s)
    BY Zenon, <1>4, <1>5 DEF Requested, Shaped
  <2> QED
    BY Zenon, <1>1, <2>1
<1>10. q.reserved_handles \in Int /\ One(q.multishot) \in Int /\ One(q.native) \in Int /\ One(q.port) \in Int
       /\ surplus \in Int /\ One(Referenced(s, h)) \in Int /\ One(Referenced(u, h)) = One(Referenced(s, h))
  BY <1>2, <1>6 DEF Operations, One
<1> HIDE DEF surplus
<1>11. /\ u.refs = s.refs + One(Referenced(s, h)) /\ u.outstanding = s.outstanding + 1
       /\ u.native_pending = s.native_pending + One(q.native) /\ u.undelivered = s.undelivered + One(q.port)
       /\ u.multishot_armed = s.multishot_armed + One(q.multishot)
       /\ u.multishot_reserved = s.multishot_reserved + One(q.multishot)
       /\ u.reserved_handles = s.reserved_handles + q.reserved_handles + One(q.multishot)
  BY Zenon DEF Requested
<1>12. /\ s.refs \in Int /\ s.outstanding \in Int /\ s.native_pending \in Int /\ s.undelivered \in Int
       /\ s.reserved_handles \in Int /\ s.multishot_armed \in Int /\ s.multishot_reserved \in Int
  BY Zenon DEF Numeric
<1>13. t.refs = s.refs /\ t.outstanding = s.outstanding
  BY <1>4, <1>5, <1>10, <1>11, <1>12
<1>14. t.native_pending = s.native_pending /\ t.undelivered = s.undelivered /\ t.multishot_armed = s.multishot_armed
  BY <1>4, <1>5, <1>10, <1>11, <1>12
<1>15. /\ t.reserved_handles \in Int /\ t.multishot_reserved \in Int
       /\ t.reserved_handles - t.multishot_reserved = s.reserved_handles - s.multishot_reserved
  BY <1>4, <1>5, <1>10, <1>11, <1>12
<1> QED
  BY Zenon, <1>5, <1>7, <1>8, <1>9, <1>13, <1>14, <1>15 DEF SameButPool

\* A request with nothing reserved or charged yet.
Bare(q) == q \in Operations /\ ~q.port /\ ~q.multishot /\ q.reserved_handles = 0

\* What new_op() writes, field by field.
LEMMA NewOpRequested ==
  ASSUME NEW s, Shaped(s), Numeric(s), NEW o, NEW kind \in OpKinds, NEW h \in Handles \cup {None},
         NEW u, u = NewOp(s, o, kind, h)
  PROVE  \E q : Bare(q) /\ Requested(s, o, h, q, u)
<1> DEFINE native == Present(s, h) /\ s.handles[h].kind = "Socket"
           q == Op(kind, h, native)
<1>1. IsDriver(s)
  BY Zenon DEF Shaped
<1>2. native \in BOOLEAN
  BY DEF Present
<1>3. /\ IsDriver(u) /\ u.ops = [s.ops EXCEPT ![o] = q] /\ u.handles = Pend(s, h, 1)
      /\ u.refs = s.refs + One(Referenced(s, h)) /\ u.native_pending = s.native_pending + One(native)
      /\ u.outstanding = s.outstanding + 1 /\ u.undelivered = s.undelivered
      /\ u.timers = s.timers /\ u.deadlines = s.deadlines /\ u.queued = s.queued /\ u.buffered = s.buffered
      /\ u.multishot_armed = s.multishot_armed /\ u.multishot_reserved = s.multishot_reserved
      /\ u.reserved_handles = s.reserved_handles
  BY Zenon, <1>1 DEF NewOp, IsDriver, Fields
<1> HIDE DEF native
<1>4. /\ q \in Operations /\ q.handle = h /\ q.native = native /\ q.port = FALSE /\ q.multishot = FALSE
      /\ q.reserved_handles = 0
  BY <1>2 DEF Op, Operations
<1> HIDE DEF q
<1>5. Bare(q)
  BY Zenon, <1>4 DEF Bare
<1>6. /\ s.undelivered = s.undelivered + One(q.port) /\ s.multishot_armed = s.multishot_armed + One(q.multishot)
      /\ s.multishot_reserved = s.multishot_reserved + One(q.multishot)
      /\ s.reserved_handles = s.reserved_handles + q.reserved_handles + One(q.multishot)
  BY <1>4 DEF Numeric, One
<1>7. Requested(s, o, h, q, u)
  BY Zenon, <1>3, <1>4, <1>6 DEF Requested
<1> QED
  BY Zenon, <1>5, <1>7

\* submit() reserves before it asks the backend.
LEMMA ReserveRequested ==
  ASSUME NEW s, Shaped(s), Numeric(s), NEW o \in Ops, NEW h, NEW q, Bare(q), NEW u, Requested(s, o, h, q, u),
         NEW kind, NEW t, t = Reserve(u, o, kind)
  PROVE  \E p : Requested(s, o, h, p, t)
<1>1. /\ s.ops \in [Ops -> Operations \cup {None}] /\ IsDriver(u) /\ u.ops = [s.ops EXCEPT ![o] = q]
      /\ q \in Operations /\ q.handle = h
  BY Zenon DEF Shaped, Requested
<1>2. u.ops[o] = q
  BY Zenon, <1>1, OpRewritten
<1>3. /\ s.multishot_armed \in Int /\ s.multishot_reserved \in Int /\ s.reserved_handles \in Int
      /\ One(q.multishot) = 0 /\ q.reserved_handles = 0
      /\ u.multishot_armed = s.multishot_armed + One(q.multishot)
      /\ u.multishot_reserved = s.multishot_reserved + One(q.multishot)
      /\ u.reserved_handles = s.reserved_handles + q.reserved_handles + One(q.multishot)
  BY Zenon DEF Numeric, Requested, Bare, One
<1>4. CASE kind = "accept_start"
  <2> DEFINE p == [q EXCEPT !.multishot = TRUE]
  <2>1. /\ p \in Operations /\ p.handle = h /\ p.native = q.native /\ p.port = q.port /\ p.multishot = TRUE
        /\ p.reserved_handles = q.reserved_handles
    BY Zenon, <1>1 DEF Operations
  <2>2. /\ IsDriver(t) /\ t.ops = [u.ops EXCEPT ![o] = [u.ops[o] EXCEPT !.multishot = TRUE]]
        /\ t.multishot_armed = u.multishot_armed + 1 /\ t.multishot_reserved = u.multishot_reserved + 1
        /\ t.reserved_handles = u.reserved_handles + 1
        /\ t.handles = u.handles /\ t.refs = u.refs /\ t.outstanding = u.outstanding
        /\ t.native_pending = u.native_pending /\ t.undelivered = u.undelivered /\ t.timers = u.timers
        /\ t.deadlines = u.deadlines /\ t.queued = u.queued /\ t.buffered = u.buffered
    BY Zenon, <1>1, <1>4 DEF Reserve, IsDriver, Fields
  <2> HIDE DEF p
  <2>3. t.ops = [s.ops EXCEPT ![o] = p]
    <3>1. t.ops = [[s.ops EXCEPT ![o] = q] EXCEPT ![o] = p]
      BY Zenon, <1>1, <1>2, <2>2 DEF p
    <3> QED
      BY Zenon, <1>1, <3>1, OpRewritten
  <2>4. /\ t.multishot_armed = s.multishot_armed + One(p.multishot)
        /\ t.multishot_reserved = s.multishot_reserved + One(p.multishot)
        /\ t.reserved_handles = s.reserved_handles + p.reserved_handles + One(p.multishot)
    BY <1>3, <2>1, <2>2 DEF One
  <2>5. Requested(s, o, h, p, t)
    BY Zenon, <2>1, <2>2, <2>3, <2>4 DEF Requested
  <2> QED
    BY Zenon, <2>5
<1>5. CASE kind = "accept"
  <2> DEFINE p == [q EXCEPT !.reserved_handles = 1]
  <2>1. /\ p \in Operations /\ p.handle = h /\ p.native = q.native /\ p.port = q.port /\ p.multishot = q.multishot
        /\ p.reserved_handles = 1
    BY Zenon, <1>1 DEF Operations
  <2>2. /\ IsDriver(t) /\ t.ops = [u.ops EXCEPT ![o] = [u.ops[o] EXCEPT !.reserved_handles = 1]]
        /\ t.multishot_armed = u.multishot_armed /\ t.multishot_reserved = u.multishot_reserved
        /\ t.reserved_handles = u.reserved_handles + 1
        /\ t.handles = u.handles /\ t.refs = u.refs /\ t.outstanding = u.outstanding
        /\ t.native_pending = u.native_pending /\ t.undelivered = u.undelivered /\ t.timers = u.timers
        /\ t.deadlines = u.deadlines /\ t.queued = u.queued /\ t.buffered = u.buffered
    BY Zenon, <1>1, <1>5 DEF Reserve, IsDriver, Fields
  <2> HIDE DEF p
  <2>3. t.ops = [s.ops EXCEPT ![o] = p]
    <3>1. t.ops = [[s.ops EXCEPT ![o] = q] EXCEPT ![o] = p]
      BY Zenon, <1>1, <1>2, <2>2 DEF p
    <3> QED
      BY Zenon, <1>1, <3>1, OpRewritten
  <2>4. /\ t.multishot_armed = s.multishot_armed + One(p.multishot)
        /\ t.multishot_reserved = s.multishot_reserved + One(p.multishot)
        /\ t.reserved_handles = s.reserved_handles + p.reserved_handles + One(p.multishot)
    BY <1>3, <2>1, <2>2 DEF One
  <2>5. Requested(s, o, h, p, t)
    BY Zenon, <2>1, <2>2, <2>3, <2>4 DEF Requested
  <2> QED
    BY Zenon, <2>5
<1>6. CASE kind # "accept_start" /\ kind # "accept"
  BY Zenon, <1>6 DEF Reserve
<1> QED
  BY Zenon, <1>4, <1>5, <1>6

\* blocking() and fs() charge the port before they hand the job over.
LEMMA ChargeRequested ==
  ASSUME NEW s, Shaped(s), Numeric(s), NEW o \in Ops, NEW h, NEW q, Bare(q), NEW u, Requested(s, o, h, q, u),
         NEW t, t = ChargePort(u, o)
  PROVE  \E p : Requested(s, o, h, p, t)
<1> DEFINE p == [q EXCEPT !.port = TRUE]
<1>1. /\ s.ops \in [Ops -> Operations \cup {None}] /\ IsDriver(u) /\ u.ops = [s.ops EXCEPT ![o] = q]
      /\ q \in Operations /\ q.handle = h
  BY Zenon DEF Shaped, Requested
<1>2. u.ops[o] = q
  BY Zenon, <1>1, OpRewritten
<1>3. s.undelivered \in Int /\ u.undelivered = s.undelivered + One(q.port) /\ One(q.port) = 0
  BY Zenon DEF Numeric, Requested, Bare, One
<1>4. /\ p \in Operations /\ p.handle = h /\ p.native = q.native /\ p.port = TRUE /\ p.multishot = q.multishot
      /\ p.reserved_handles = q.reserved_handles
  BY Zenon, <1>1 DEF Operations
<1>5. /\ IsDriver(t) /\ t.ops = [u.ops EXCEPT ![o] = [u.ops[o] EXCEPT !.port = TRUE]]
      /\ t.undelivered = u.undelivered + 1
      /\ t.multishot_armed = u.multishot_armed /\ t.multishot_reserved = u.multishot_reserved
      /\ t.reserved_handles = u.reserved_handles
      /\ t.handles = u.handles /\ t.refs = u.refs /\ t.outstanding = u.outstanding
      /\ t.native_pending = u.native_pending /\ t.timers = u.timers
      /\ t.deadlines = u.deadlines /\ t.queued = u.queued /\ t.buffered = u.buffered
  BY Zenon, <1>1 DEF ChargePort, IsDriver, Fields
<1> HIDE DEF p
<1>6. t.ops = [s.ops EXCEPT ![o] = p]
  <2>1. t.ops = [[s.ops EXCEPT ![o] = q] EXCEPT ![o] = p]
    BY Zenon, <1>1, <1>2, <1>5 DEF p
  <2> QED
    BY Zenon, <1>1, <2>1, OpRewritten
<1>7. t.undelivered = s.undelivered + One(p.port)
  BY <1>3, <1>4, <1>5 DEF One
<1>8. Requested(s, o, h, p, t)
  BY ZenonT(60), <1>4, <1>5, <1>6, <1>7 DEF Requested
<1> QED
  BY Zenon, <1>8

\* The requests of submit(), blocking(), resolve() and fs(), undone.
LEMMA SubmitUndone ==
  ASSUME NEW s, Shaped(s), Numeric(s), NEW o \in OpRoom(s), NEW h \in Live(s) \cup {None}, NEW kind \in OpKinds,
         NEW t, \/ t = Unsubmit(SubmitOp(s, o, h, kind), o) \/ t = Unsubmit(NewOp(s, o, kind, h), o)
                \/ t = Unsubmit(ChargePort(NewOp(s, o, kind, h), o), o)
  PROVE  SameButPool(s, t)
<1> DEFINE u == NewOp(s, o, kind, h)
<1>1. o \in Ops /\ h \in Handles \cup {None}
  BY DEF OpRoom, Live
<1>2. PICK q : Bare(q) /\ Requested(s, o, h, q, u)
  BY Zenon, <1>1, NewOpRequested
<1>3. CASE t = Unsubmit(SubmitOp(s, o, h, kind), o)
  <2>1. PICK p : Requested(s, o, h, p, Reserve(u, o, kind))
    BY Zenon, <1>1, <1>2, ReserveRequested
  <2>2. t = Unsubmit(Reserve(u, o, kind), o)
    BY Zenon, <1>3 DEF SubmitOp
  <2> QED
    BY Zenon, <2>1, <2>2, UndoneOp
<1>4. CASE t = Unsubmit(NewOp(s, o, kind, h), o)
  BY Zenon, <1>2, <1>4, UndoneOp
<1>5. CASE t = Unsubmit(ChargePort(NewOp(s, o, kind, h), o), o)
  <2>1. PICK p : Requested(s, o, h, p, ChargePort(u, o))
    BY Zenon, <1>1, <1>2, ChargeRequested
  <2> QED
    BY Zenon, <1>5, <2>1, UndoneOp
<1> QED
  BY Zenon, <1>3, <1>4, <1>5

\* v is s with the handles H beside, each of which weighs one.
Widened(s, v, H) ==
    /\ IsDriver(v) /\ SameOpsAndQueue(s, v) /\ v.timers = s.timers /\ SamePledges(s, v)
    /\ v.refs = s.refs + Cardinality(H)
    /\ \A x \in H : v.handles[x].referenced
    /\ \A x \in Handles \ H : v.handles[x] = s.handles[x]

\* t is w without them.
Narrowed(w, t, H) ==
    /\ IsDriver(t) /\ SameOpsAndQueue(w, t) /\ t.timers = w.timers /\ SamePledges(w, t)
    /\ t.refs = w.refs - Cardinality(H)
    /\ t.handles = [x \in Handles |-> IF x \in H THEN None ELSE w.handles[x]]

\* Removing the handles that were just added restores everything but promises
\* that moved within the pool.
LEMMA HandlesUndone ==
  ASSUME Counting, Laws, NEW s, Shaped(s), Numeric(s), NEW H \in SUBSET (Handles \ Live(s)), NEW v, Widened(s, v, H),
         NEW w, SameButPool(v, w), NEW t, Narrowed(w, t, H)
  PROVE  SameButPool(s, t)
<1>1. s.handles \in [Handles -> Resources \cup {None}] /\ \A x \in H : x \in Handles /\ s.handles[x] = None
  BY DEF Shaped, Live, Free
<1>2. t.handles = s.handles
  <2>1. t.handles = [x \in Handles |-> IF x \in H THEN None ELSE v.handles[x]]
    BY Zenon DEF Narrowed, SameButPool
  <2>2. \A x \in Handles \ H : v.handles[x] = s.handles[x]
    BY Zenon DEF Widened
  <2>3. \A x \in Handles : (IF x \in H THEN None ELSE v.handles[x]) = s.handles[x]
    BY Zenon, <1>1, <2>2
  <2>4. s.handles = [x \in Handles |-> s.handles[x]]
    BY Zenon, <1>1
  <2> QED
    BY Zenon, <2>1, <2>3, <2>4
<1>3. t.refs = s.refs
  <2>1. Cardinality(H) \in Nat
    BY Zenon DEF Laws, HandlesFiniteLaw
  <2>2. s.refs \in Int /\ v.refs = s.refs + Cardinality(H) /\ t.refs = v.refs - Cardinality(H)
    BY Zenon DEF Numeric, Widened, Narrowed, SameButPool
  <2> QED
    BY <2>1, <2>2
<1>4. /\ t.ops = s.ops /\ t.timers = s.timers /\ t.deadlines = s.deadlines /\ t.queued = s.queued
      /\ t.buffered = s.buffered /\ t.outstanding = s.outstanding /\ t.native_pending = s.native_pending
      /\ t.undelivered = s.undelivered /\ t.multishot_armed = s.multishot_armed /\ IsDriver(t)
  BY Zenon DEF Widened, Narrowed, SameButPool, SameOpsAndQueue, SamePledges
<1>5. /\ t.reserved_handles \in Int /\ t.multishot_reserved \in Int
      /\ t.reserved_handles - t.multishot_reserved = s.reserved_handles - s.multishot_reserved
  BY Zenon DEF Widened, Narrowed, SameButPool, SamePledges
<1> QED
  BY Zenon, <1>2, <1>3, <1>4, <1>5 DEF SameButPool

\* new_handle() adds one handle.
LEMMA NewHandleWidens ==
  ASSUME Counting, Laws, NEW s, Shaped(s), NEW h \in Handles, NEW kind \in {"Socket", "File"},
         NEW v, v = NewHandle(s, h, kind)
  PROVE  Widened(s, v, {h})
<1>1. IsDriver(s) /\ s.handles \in [Handles -> Resources \cup {None}]
  BY Zenon DEF Shaped
<1>2. /\ IsDriver(v) /\ SameOpsAndQueue(s, v) /\ v.timers = s.timers /\ SamePledges(s, v)
      /\ v.refs = s.refs + One(kind # "Timer") /\ v.handles = [s.handles EXCEPT ![h] = Resource(kind)]
  BY Zenon, <1>1 DEF NewHandle, IsDriver, Fields, SameOpsAndQueue, SamePledges
<1>3. Cardinality({h}) = 1 /\ One(kind # "Timer") = 1
  <2>1. One(kind # "Timer") = 1
    BY DEF One
  <2> QED
    BY Zenon, <2>1 DEF Laws, OneCountsLaw
<1>4. v.handles[h] = Resource(kind) /\ \A x \in Handles \ {h} : v.handles[x] = s.handles[x]
  BY Zenon, <1>1, <1>2
<1>5. Resource(kind).referenced
  BY DEF Resource
<1> QED
  BY Zenon, <1>2, <1>3, <1>4, <1>5 DEF Widened

\* A handle that is hidden at once is one handle more.
LEMMA HideWidens ==
  ASSUME Counting, Laws, NEW s, Shaped(s), NEW h \in Handles, NEW kind \in {"Socket", "File"},
         NEW u, u = NewHandle(s, h, kind), u.handles \in [Handles -> Resources \cup {None}],
         u.handles[h] \in Resources, NEW v, v = Hide(u, h)
  PROVE  Widened(s, v, {h})
<1>1. Widened(s, u, {h})
  BY Zenon, NewHandleWidens
<1>2. IsDriver(u)
  BY Zenon, <1>1 DEF Widened
<1>3. /\ IsDriver(v) /\ SameOpsAndQueue(u, v) /\ v.timers = u.timers /\ SamePledges(u, v) /\ v.refs = u.refs
      /\ v.handles = [u.handles EXCEPT ![h] = [u.handles[h] EXCEPT !.hidden = TRUE]]
  BY Zenon, <1>2 DEF Hide, IsDriver, Fields, SameOpsAndQueue, SamePledges
<1>4. v.handles[h].referenced = u.handles[h].referenced /\ \A x \in Handles \ {h} : v.handles[x] = u.handles[x]
  <2> DEFINE r == [u.handles[h] EXCEPT !.hidden = TRUE]
  <2>1. r.referenced = u.handles[h].referenced
    BY Zenon DEF Resources
  <2> HIDE DEF r
  <2>2. v.handles = [u.handles EXCEPT ![h] = r]
    BY Zenon, <1>3 DEF r
  <2>3. v.handles[h] = r /\ \A x \in Handles \ {h} : v.handles[x] = u.handles[x]
    BY Zenon, <2>2
  <2> QED
    BY Zenon, <2>1, <2>3
<1>5. /\ SameOpsAndQueue(s, v) /\ v.timers = s.timers /\ SamePledges(s, v) /\ v.refs = s.refs + Cardinality({h})
  BY Zenon, <1>1, <1>3 DEF Widened, SameOpsAndQueue, SamePledges
<1>6. v.handles[h].referenced /\ \A x \in Handles \ {h} : v.handles[x] = s.handles[x]
  BY Zenon, <1>1, <1>4 DEF Widened
<1> QED
  BY Zenon, <1>3, <1>5, <1>6 DEF Widened

\* The handles of the pipes of a child are handles more.
LEMMA AddWidens ==
  ASSUME NEW s, Shaped(s), NEW H \in SUBSET Handles, NEW v, v = AddHandles(s, H)
  PROVE  Widened(s, v, H)
<1>1. IsDriver(s)
  BY Zenon DEF Shaped
<1>2. /\ IsDriver(v) /\ SameOpsAndQueue(s, v) /\ v.timers = s.timers /\ SamePledges(s, v)
      /\ v.refs = s.refs + Cardinality(H)
      /\ v.handles = [x \in Handles |-> IF x \in H THEN Resource("Socket") ELSE s.handles[x]]
  BY Zenon, <1>1 DEF AddHandles, IsDriver, Fields, SameOpsAndQueue, SamePledges
<1>3. \A x \in H : v.handles[x] = Resource("Socket")
  BY Zenon, <1>2
<1>4. \A x \in Handles \ H : v.handles[x] = s.handles[x]
  BY Zenon, <1>2
<1>5. Resource("Socket").referenced
  BY DEF Resource
<1> QED
  BY Zenon, <1>2, <1>3, <1>4, <1>5 DEF Widened

\* release_handle() of a handle that weighs one.
LEMMA RemoveNarrows ==
  ASSUME Counting, Laws, NEW w, IsDriver(w), NEW h \in Handles, w.handles \in [Handles -> Resources \cup {None}],
         w.handles[h].referenced, NEW t, t = RemoveHandle(w, h)
  PROVE  Narrowed(w, t, {h})
<1>1. /\ IsDriver(t) /\ SameOpsAndQueue(w, t) /\ t.timers = w.timers /\ SamePledges(w, t)
      /\ t.refs = w.refs - One(w.handles[h].referenced) /\ t.handles = [w.handles EXCEPT ![h] = None]
  BY Zenon DEF RemoveHandle, IsDriver, Fields, SameOpsAndQueue, SamePledges, Free
<1>2. Cardinality({h}) = 1 /\ One(w.handles[h].referenced) = 1
  BY Zenon DEF Laws, OneCountsLaw, One
<1>3. t.handles = [x \in Handles |-> IF x \in {h} THEN None ELSE w.handles[x]]
  BY Zenon, <1>1
<1> QED
  BY Zenon, <1>1, <1>2, <1>3 DEF Narrowed

\* Removing handles takes them and their references.
LEMMA RemovesNarrow ==
  ASSUME NEW w, IsDriver(w), NEW H, NEW t, t = RemoveHandles(w, H)
  PROVE  Narrowed(w, t, H)
<1>1. /\ IsDriver(t) /\ SameOpsAndQueue(w, t) /\ t.timers = w.timers /\ SamePledges(w, t)
      /\ t.refs = w.refs - Cardinality(H)
      /\ t.handles = [x \in Handles |-> IF x \in H THEN None ELSE w.handles[x]]
  BY Zenon DEF RemoveHandles, IsDriver, Fields, SameOpsAndQueue, SamePledges, Free
<1> QED
  BY Zenon, <1>1 DEF Narrowed

\* The counters of a driver in order are numbers.
LEMMA NumericHolds ==
  ASSUME Counting, Laws, NEW s, Ledger(s), Pledged(s)
  PROVE  Numeric(s)
<1>1. s.queued \in Seq(Completions) /\ Owed(s) /\ Refs(s) /\ Tallies(s)
  BY DEF Ledger, Sums, Lines, Weights
<1>2. Numbers(s)
  BY Zenon, <1>1 DEF Laws, NumbersHoldLaw
<1>3. Cardinality(Natives(s)) \in Nat /\ Cardinality(Ports(s)) \in Nat
  <2>1. Natives(s) \in SUBSET Ops /\ Ports(s) \in SUBSET Ops
    BY DEF Natives, Ports, LiveOps
  <2> QED
    BY Zenon, <2>1 DEF Laws, OpsFiniteLaw
<1>4. s.native_pending \in Int /\ s.undelivered \in Int
  BY <1>1, <1>3 DEF Tallies
<1>5. s.refs \in Int /\ s.outstanding \in Int
  BY <1>1, <1>2 DEF Numbers, Owed, Refs
<1> QED
  BY Zenon, <1>4, <1>5 DEF Numeric, Pledged

\* They are with the new handles.
LEMMA WidenedNumeric ==
  ASSUME Counting, Laws, NEW s, Numeric(s), NEW H \in SUBSET Handles, NEW v, Widened(s, v, H)
  PROVE  Numeric(v)
<1>1. Cardinality(H) \in Nat
  BY Zenon DEF Laws, HandlesFiniteLaw
<1>2. s.refs \in Int /\ v.refs = s.refs + Cardinality(H)
  BY Zenon DEF Numeric, Widened
<1>3. v.refs \in Int
  BY <1>1, <1>2
<1> QED
  BY Zenon, <1>3 DEF Numeric, Widened, SameOpsAndQueue, SamePledges

\* A driver differs from itself by nothing.
LEMMA SelfPool ==
  ASSUME NEW v, Shaped(v), Numeric(v)
  PROVE  SameButPool(v, v)
  BY Zenon DEF SameButPool, Shaped, Numeric

\* A handle made for a request that was then refused.
LEMMA FreshUndone ==
  ASSUME Counting, Laws, NEW s, Shaped(s), Numeric(s), NEW h \in Handles \ Live(s), NEW v, Shaped(v), Widened(s, v, {h}),
         NEW w, SameButPool(v, w), NEW t, t = RemoveHandle(w, h)
  PROVE  SameButPool(s, t)
<1>1. IsDriver(w) /\ w.handles = v.handles /\ v.handles \in [Handles -> Resources \cup {None}]
  BY Zenon DEF SameButPool, Shaped
<1>2. w.handles[h].referenced
  BY Zenon, <1>1 DEF Widened
<1>3. Narrowed(w, t, {h})
  BY Zenon, <1>1, <1>2, RemoveNarrows
<1>4. {h} \in SUBSET (Handles \ Live(s))
  BY Zenon
<1> QED
  BY Zenon, <1>3, <1>4, HandlesUndone

\* tcp_connect and the like.
LEMMA OpenUndone ==
  ASSUME Counting, Laws, NEW s, Shaped(s), Ledger(s), Numeric(s), NEW h \in Handles \ Live(s),
         NEW v, v = NewHandle(s, h, "Socket"),
         NEW w, w = v \/ \E o \in OpRoom(s), kind \in OpKinds : w = Unsubmit(SubmitOp(v, o, h, kind), o),
         NEW t, t = RemoveHandle(w, h)
  PROVE  SameButPool(s, t)
<1>1. Shaped(v) /\ HandlesAdded(s, v, {h}, Resource("Socket")) /\ SameOpsAndQueue(s, v)
  BY Zenon DEF Laws, NewHandleLaw
<1>2. Widened(s, v, {h})
  BY Zenon, NewHandleWidens
<1>3. Numeric(v)
  <2>1. {h} \in SUBSET Handles
    BY Zenon
  <2> QED
    BY Zenon, <1>2, <2>1, WidenedNumeric
<1>4. SameButPool(v, w)
  <2>1. CASE w = v
    BY Zenon, <1>1, <1>3, <2>1, SelfPool
  <2>2. CASE \E o \in OpRoom(s), kind \in OpKinds : w = Unsubmit(SubmitOp(v, o, h, kind), o)
    <3>1. PICK o \in OpRoom(s), kind \in OpKinds : w = Unsubmit(SubmitOp(v, o, h, kind), o)
      BY Zenon, <2>2
    <3>2. o \in OpRoom(v)
      BY Zenon, <1>1, <3>1 DEF Laws, SameOpRoomLaw
    <3>3. h \in Live(v) \cup {None}
      BY Zenon, <1>1 DEF HandlesAdded
    <3> QED
      BY Zenon, <1>1, <1>3, <3>1, <3>2, <3>3, SubmitUndone
  <2> QED
    BY Zenon, <2>1, <2>2
<1> QED
  BY Zenon, <1>1, <1>2, <1>4, FreshUndone

\* The open of a file.
LEMMA FsOpenUndone ==
  ASSUME Counting, Laws, NEW s, Shaped(s), Ledger(s), Numeric(s), NEW h \in Handles \ Live(s),
         NEW v, v = Hide(NewHandle(s, h, FileKind), h),
         NEW w, w = v \/ \E o \in OpRoom(s) : w = Unsubmit(FsOp(v, o, h), o),
         NEW t, t = RemoveHandle(w, h)
  PROVE  SameButPool(s, t)
<1> DEFINE u == NewHandle(s, h, FileKind)
<1>1. FileKind \in {"Socket", "File"}
  BY Zenon DEF Laws, FileKindsLaw
<1>2. /\ Shaped(v) /\ SameOpsAndQueue(s, v)
      /\ HandlesAdded(s, v, {h}, [Resource(FileKind) EXCEPT !.hidden = TRUE])
  BY Zenon, <1>1 DEF Laws, HiddenLaw
<1>3. Shaped(u) /\ HandlesAdded(s, u, {h}, Resource(FileKind))
  BY Zenon, <1>1 DEF Laws, NewHandleLaw
<1>4. u.handles \in [Handles -> Resources \cup {None}] /\ u.handles[h] \in Resources
  <2>1. u.handles[h] = Resource(FileKind)
    BY Zenon, <1>3 DEF HandlesAdded
  <2>2. Resource(FileKind) \in Resources
    BY <1>1 DEF Resource, Resources
  <2> QED
    BY Zenon, <1>3, <2>1, <2>2 DEF Shaped
<1>5. Widened(s, v, {h})
  <2> HIDE DEF u
  <2>1. v = Hide(u, h) /\ u = NewHandle(s, h, FileKind)
    BY Zenon DEF u
  <2> QED
    BY Zenon, <1>1, <1>4, <2>1, HideWidens
<1>6. Numeric(v)
  <2>1. {h} \in SUBSET Handles
    BY Zenon
  <2> QED
    BY Zenon, <1>5, <2>1, WidenedNumeric
<1>7. SameButPool(v, w)
  <2>1. CASE w = v
    BY Zenon, <1>2, <1>6, <2>1, SelfPool
  <2>2. CASE \E o \in OpRoom(s) : w = Unsubmit(FsOp(v, o, h), o)
    <3>1. PICK o \in OpRoom(s) : w = Unsubmit(FsOp(v, o, h), o)
      BY Zenon, <2>2
    <3>2. o \in OpRoom(v)
      BY Zenon, <1>2, <3>1 DEF Laws, SameOpRoomLaw
    <3>3. h \in Live(v) \cup {None} /\ "fs" \in OpKinds
      BY Zenon, <1>2 DEF HandlesAdded, OpKinds
    <3>4. w = Unsubmit(NewOp(v, o, "fs", h), o) \/ w = Unsubmit(ChargePort(NewOp(v, o, "fs", h), o), o)
      BY Zenon, <3>1 DEF FsOp
    <3> QED
      BY Zenon, <1>2, <1>6, <3>2, <3>3, <3>4, SubmitUndone
  <2> QED
    BY Zenon, <2>1, <2>2
<1> QED
  BY Zenon, <1>2, <1>5, <1>7, FreshUndone

\* spawn_extra().
LEMMA SpawnUndone ==
  ASSUME Counting, Laws, NEW s, Shaped(s), Ledger(s), Numeric(s), NEW H \in SUBSET (Handles \ Live(s)), NEW h \in H,
         NEW v, v = AddHandles(s, H),
         NEW w, w = v \/ \E o \in OpRoom(s) : w = Unsubmit(NewOp(v, o, "io", h), o),
         NEW t, t = RemoveHandles(w, H)
  PROVE  SameButPool(s, t)
<1>1. H \in SUBSET Handles
  BY Zenon
<1>2. Shaped(v) /\ HandlesAdded(s, v, H, Resource("Socket")) /\ SameOpsAndQueue(s, v)
  BY Zenon DEF Laws, AddHandlesLaw
<1>3. Widened(s, v, H)
  BY Zenon, <1>1, AddWidens
<1>4. Numeric(v)
  BY Zenon, <1>1, <1>3, WidenedNumeric
<1>5. SameButPool(v, w)
  <2>1. CASE w = v
    BY Zenon, <1>2, <1>4, <2>1, SelfPool
  <2>2. CASE \E o \in OpRoom(s) : w = Unsubmit(NewOp(v, o, "io", h), o)
    <3>1. PICK o \in OpRoom(s) : w = Unsubmit(NewOp(v, o, "io", h), o)
      BY Zenon, <2>2
    <3>2. o \in OpRoom(v)
      BY Zenon, <1>2, <3>1 DEF Laws, SameOpRoomLaw
    <3>3. h \in Live(v) \cup {None} /\ "io" \in OpKinds
      BY Zenon, <1>2 DEF HandlesAdded, OpKinds
    <3> QED
      BY Zenon, <1>2, <1>4, <3>1, <3>2, <3>3, SubmitUndone
  <2> QED
    BY Zenon, <2>1, <2>2
<1>6. Narrowed(w, t, H)
  BY Zenon, <1>5, RemovesNarrow DEF SameButPool
<1> QED
  BY Zenon, <1>3, <1>5, <1>6, HandlesUndone

\* What remains of a refused call is what the contracts say.
LEMMA UndoLawsHold ==
  ASSUME Counting, Laws
  PROVE  UndoLaws
<1>1. SubmitUndoneLaw
  BY ZenonT(60), SubmitUndone DEF SubmitUndoneLaw
<1>2. OpenUndoneLaw
  BY Zenon, OpenUndone DEF OpenUndoneLaw
<1>3. FsOpenUndoneLaw
  BY Zenon, FsOpenUndone DEF FsOpenUndoneLaw
<1>4. SpawnUndoneLaw
  BY ZenonT(60), SpawnUndone DEF SpawnUndoneLaw
<1>5. NumericHoldsLaw
  BY Zenon, NumericHolds DEF NumericHoldsLaw
<1> QED
  BY Zenon, <1>1, <1>2, <1>3, <1>4, <1>5 DEF UndoLaws

---------------------------------------------------------------------------
\* Limits

\* The counters that admission looks at stay within what was configured.
Within(s) ==
    /\ IsDriver(s)
    /\ s.outstanding \in Int /\ s.outstanding <= Cardinality(Ops)
    /\ s.undelivered \in Int /\ s.undelivered <= MaxUndelivered
    /\ s.buffered \in [Classes -> Int] /\ \A c \in Classes : s.buffered[c] <= EventsPerTurn

\* s and t agree on them.
SameLimits(s, t) ==
    t.outstanding = s.outstanding /\ t.undelivered = s.undelivered /\ t.buffered = s.buffered

\* t is within the limits too and buffers as much as s, or one event of c more.
Fits(s, t) == Within(t) /\ t.buffered = s.buffered
OneMore(s, c, t) ==
    /\ Within(t) /\ t.buffered[c] = s.buffered[c] + 1
    /\ \A x \in Classes \ {c} : t.buffered[x] = s.buffered[x]

\* What two steps add fits if each fits.
LEMMA FitsTwice ==
  ASSUME NEW s, NEW u, NEW t, Fits(s, u), Fits(u, t)
  PROVE  Fits(s, t)
  BY Zenon DEF Fits

\* The limits depend on operations and counts only.
LEMMA WithinSame ==
  ASSUME NEW s, Within(s), NEW t, IsDriver(t), SameLimits(s, t)
  PROVE  Within(t)
  BY Zenon DEF Within, SameLimits

\* Handles that change leave the operations within their limits.
LEMMA WithinTables ==
  ASSUME NEW s, Within(s), NEW t, Shaped(t), SameOpsAndQueue(s, t)
  PROVE  Within(t)
<1>1. SameLimits(s, t)
  BY Zenon DEF SameOpsAndQueue, SameLimits
<1> QED
  BY Zenon, <1>1, WithinSame DEF Shaped

\* new_op() finds room for a result.
LEMMA WithinNewOp ==
  ASSUME Counting, Laws, NEW s, Within(s), NEW o \in OpRoom(s), NEW kind, NEW h, NEW t, t = NewOp(s, o, kind, h)
  PROVE  Within(t) /\ t.undelivered = s.undelivered
<1>1. IsDriver(s)
  BY Zenon DEF Within
<1>2. IsDriver(t) /\ t.outstanding = s.outstanding + 1 /\ t.undelivered = s.undelivered /\ t.buffered = s.buffered
  BY Zenon, <1>1 DEF NewOp, IsDriver, Fields
<1>3. s.outstanding < Cardinality(Ops)
  BY DEF OpRoom
<1>4. /\ s.outstanding \in Int /\ s.undelivered \in Int /\ s.undelivered <= MaxUndelivered
      /\ s.buffered \in [Classes -> Int] /\ \A c \in Classes : s.buffered[c] <= EventsPerTurn
  BY Zenon DEF Within
<1>5. Cardinality(Ops) \in Nat
  BY Zenon DEF Laws, OpsFiniteLaw
<1>6. s.outstanding + 1 \in Int /\ s.outstanding + 1 <= Cardinality(Ops)
  BY <1>3, <1>4, <1>5
<1> QED
  BY Zenon, <1>2, <1>4, <1>6 DEF Within

\* charge_port(), which admission allowed.
LEMMA WithinCharge ==
  ASSUME NEW s, Within(s), Admits(s), NEW o, NEW t, t = ChargePort(s, o)
  PROVE  Within(t)
<1>1. IsDriver(s)
  BY Zenon DEF Within
<1>2. IsDriver(t) /\ t.outstanding = s.outstanding /\ t.undelivered = s.undelivered + 1 /\ t.buffered = s.buffered
  BY Zenon, <1>1 DEF ChargePort, IsDriver, Fields
<1>3. /\ s.outstanding \in Int /\ s.undelivered \in Int /\ s.outstanding <= Cardinality(Ops)
      /\ s.buffered \in [Classes -> Int] /\ \A c \in Classes : s.buffered[c] <= EventsPerTurn
  BY Zenon DEF Within
<1>4. s.undelivered + 1 \in Int /\ s.undelivered + 1 <= MaxUndelivered
  BY <1>3, UndeliveredAssumption DEF Admits
<1> QED
  BY Zenon, <1>2, <1>3, <1>4 DEF Within

\* What changes promises and flags only.
LEMMA WithinFlags ==
  ASSUME NEW s, IsDriver(s), NEW o, NEW kind
  PROVE  /\ IsDriver(Reserve(s, o, kind)) /\ SameLimits(s, Reserve(s, o, kind))
         /\ IsDriver(MakeNative(s, o)) /\ SameLimits(s, MakeNative(s, o))
         /\ IsDriver(Spend(s, o)) /\ SameLimits(s, Spend(s, o))
         /\ IsDriver(Refill(s, o)) /\ SameLimits(s, Refill(s, o))
<1>1. IsDriver(Reserve(s, o, kind)) /\ SameLimits(s, Reserve(s, o, kind))
  <2>1. CASE kind = "accept_start"
    BY Zenon, <2>1 DEF Reserve, SameLimits, IsDriver, Fields
  <2>2. CASE kind = "accept"
    BY Zenon, <2>2 DEF Reserve, SameLimits, IsDriver, Fields
  <2>3. CASE kind # "accept_start" /\ kind # "accept"
    BY Zenon, <2>3 DEF Reserve, SameLimits
  <2> QED
    BY Zenon, <2>1, <2>2, <2>3
<1>2. IsDriver(MakeNative(s, o)) /\ SameLimits(s, MakeNative(s, o))
  BY Zenon DEF MakeNative, SameLimits, IsDriver, Fields
<1>3. IsDriver(Spend(s, o)) /\ SameLimits(s, Spend(s, o))
  <2>1. CASE s.ops[o].multishot
    BY Zenon, <2>1 DEF Spend, SameLimits, IsDriver, Fields
  <2>2. CASE ~s.ops[o].multishot
    BY Zenon, <2>2 DEF Spend, SameLimits, IsDriver, Fields
  <2> QED
    BY Zenon, <2>1, <2>2
<1>4. IsDriver(Refill(s, o)) /\ SameLimits(s, Refill(s, o))
  BY Zenon DEF Refill, SameLimits, IsDriver, Fields
<1> QED
  BY Zenon, <1>1, <1>2, <1>3, <1>4

\* So do promises.
LEMMA WithinReserve ==
  ASSUME NEW s, Within(s), NEW o, NEW kind, NEW t, t = Reserve(s, o, kind)
  PROVE  Within(t)
  BY Zenon, WithinFlags, WithinSame DEF Within

\* So does giving an operation to the backend.
LEMMA WithinNative ==
  ASSUME NEW s, Within(s), NEW o, NEW t, t = MakeNative(s, o)
  PROVE  Within(t)
  BY Zenon, WithinFlags, WithinSame DEF Within

\* An operation ends: its result has no class, and the pool's count shrinks.
LEMMA WithinRetire ==
  ASSUME Laws, NEW s, Within(s), NEW e, e.class = "NONE", NEW o, NEW t, t = Retire(Enqueue(s, e), o)
  PROVE  Fits(s, t)
<1> DEFINE u == Enqueue(s, e)
<1>1. IsDriver(s)
  BY Zenon DEF Within
<1>2. IsDriver(u) /\ Queues(s, e, u)
  BY Zenon, <1>1 DEF Laws, EnqueueDriverLaw, EnqueueQueuesLaw
<1>3. SameLimits(s, u)
  BY Zenon, <1>2 DEF Queues, SameLimits, Buffer
<1> HIDE DEF u
<1>4. t = Retire(u, o)
  BY Zenon DEF u
<1>5. /\ IsDriver(t) /\ t.outstanding = u.outstanding /\ t.buffered = u.buffered
      /\ t.undelivered = u.undelivered - One(u.ops[o].port)
  BY ZenonT(60), <1>2, <1>4 DEF Retire, IsDriver, Fields
<1>6. /\ s.outstanding \in Int /\ s.outstanding <= Cardinality(Ops)
      /\ s.undelivered \in Int /\ s.undelivered <= MaxUndelivered
      /\ s.buffered \in [Classes -> Int] /\ \A c \in Classes : s.buffered[c] <= EventsPerTurn
  BY Zenon DEF Within
<1>7. t.outstanding = s.outstanding /\ t.buffered = s.buffered /\ t.undelivered = s.undelivered - One(u.ops[o].port)
  BY Zenon, <1>3, <1>5 DEF SameLimits
<1>8. t.undelivered \in Int /\ t.undelivered <= MaxUndelivered
  BY <1>6, <1>7, UndeliveredAssumption DEF One
<1> QED
  BY Zenon, <1>5, <1>6, <1>7, <1>8 DEF Within, Fits

\* Closed has no class either.
LEMMA WithinClosed ==
  ASSUME Laws, NEW s, Within(s), NEW h, NEW t, t = MaybeClosed(s, h)
  PROVE  Fits(s, t)
<1>1. IsDriver(s)
  BY Zenon DEF Within
<1> DEFINE u == [s EXCEPT !.handles[h].closed_queued = TRUE]
           e == [Entry(h, FALSE, TRUE, "NONE") EXCEPT !.closed = TRUE]
<1>2. t = Enqueue(u, e) \/ t = s
  BY Zenon DEF MaybeClosed
<1>3. CASE t = Enqueue(u, e)
  <2>1. IsDriver(u) /\ SameLimits(s, u)
    BY Zenon, <1>1 DEF IsDriver, Fields, SameLimits
  <2>2. e.class = "NONE"
    BY DEF Entry
  <2> HIDE DEF u, e
  <2>3. IsDriver(t) /\ Queues(u, e, t)
    BY Zenon, <1>3, <2>1 DEF Laws, EnqueueDriverLaw, EnqueueQueuesLaw
  <2>4. SameLimits(s, t)
    BY Zenon, <2>1, <2>2, <2>3 DEF Queues, SameLimits, Buffer
  <2> QED
    BY Zenon, <2>3, <2>4, WithinSame DEF SameLimits, Fits
<1>4. CASE t = s
  BY <1>4 DEF Fits
<1> QED
  BY Zenon, <1>2, <1>3, <1>4

\* finish() with a last completion.
LEMMA WithinFinish ==
  ASSUME Laws, NEW s, Within(s), NEW o, NEW brings, NEW t, t = Finish(s, o, TRUE, brings)
  PROVE  Fits(s, t)
<1> DEFINE e == Outcome(s, o, TRUE, brings)
           u == Retire(Enqueue(s, e), o)
<1>1. e.class = "NONE"
  BY DEF Outcome, Entry
<1>2. t = MaybeClosed(u, s.ops[o].handle)
  BY Zenon DEF Laws, FinishIsLaw
<1> HIDE DEF e
<1>3. Fits(s, u)
  BY Zenon, <1>1, WithinRetire
<1> HIDE DEF u
<1>4. Within(u)
  BY Zenon, <1>3 DEF Fits
<1>5. Fits(u, t)
  BY Zenon, <1>2, <1>4, WithinClosed
<1> QED
  BY Zenon, <1>3, <1>5, FitsTwice

\* Removing a handle owes nobody anything.
LEMMA WithinRemove ==
  ASSUME Laws, NEW s, Within(s), NEW h, NEW t, t = RemoveHandle(s, h)
  PROVE  Fits(s, t)
<1>1. IsDriver(t) /\ SameOpsAndQueue(s, t)
  BY Zenon DEF Laws, RemoveLosesLaw, Within, Loses
<1>2. SameLimits(s, t)
  BY Zenon, <1>1 DEF SameLimits, SameOpsAndQueue
<1> QED
  BY Zenon, <1>1, <1>2, WithinSame DEF SameLimits, Fits

\* finish_fs().
LEMMA WithinFinishFs ==
  ASSUME Counting, Laws, NEW s, Shaped(s), Ledger(s), Within(s), NEW o \in LiveOps(s), NEW opened \in BOOLEAN,
         NEW t, t = FinishFs(s, o, opened)
  PROVE  Fits(s, t)
<1>0. PICK h : s.ops[o].handle = h
  OBVIOUS
<1>1. CASE ~(Present(s, h) /\ s.handles[h].hidden)
  <2>1. t = Finish(s, o, TRUE, None)
    BY Zenon, <1>0, <1>1 DEF FinishFs
  <2> QED
    BY Zenon, <2>1, WithinFinish
<1>2. CASE Present(s, h) /\ s.handles[h].hidden /\ opened
  <2>1. PICK u : u = Reveal(s, h)
    BY Zenon
  <2>2. t = Finish(u, o, TRUE, h)
    BY Zenon, <1>0, <1>2, <2>1 DEF FinishFs, Reveal
  <2>3. IsDriver(u) /\ SameLimits(s, u)
    BY Zenon, <2>1 DEF Within, Reveal, SameLimits, IsDriver, Fields
  <2>4. Within(u)
    BY Zenon, <2>3, WithinSame
  <2>5. Fits(s, u)
    BY Zenon, <2>3, <2>4 DEF SameLimits, Fits
  <2>6. Fits(u, t)
    BY Zenon, <2>2, <2>4, WithinFinish
  <2> QED
    BY Zenon, <2>5, <2>6, FitsTwice
<1>3. CASE Present(s, h) /\ s.handles[h].hidden /\ ~opened
  <2>1. h \in Live(s) /\ t = FinishFs(s, o, FALSE) /\ Awaits(s, o, h)
    <3>1. h \in Handles
      BY Zenon, <1>0, <1>3 DEF Laws, OpShapeLaw, Present
    <3> QED
      BY Zenon, <1>0, <1>3, <3>1 DEF Present, Live, Awaits
  <2>2. PICK e : e = Nameless(s, o)
    BY Zenon
  <2>3. PICK w : w = Retire(Enqueue(s, e), o)
    BY Zenon
  <2>4. FinishFs(s, o, FALSE) = RemoveHandle(w, h)
    BY Zenon, <2>1, <2>2, <2>3 DEF Laws, UnopenedFinishLaw
  <2>5. t = RemoveHandle(w, h)
    BY Zenon, <2>1, <2>4
  <2>6. e.class = "NONE"
    BY Zenon, <2>2 DEF Laws, NamelessEndsLaw, Ending, Result
  <2>7. Fits(s, w)
    BY Zenon, <2>3, <2>6, WithinRetire
  <2>8. Within(w)
    BY Zenon, <2>7 DEF Fits
  <2>9. Fits(w, t)
    BY Zenon, <2>5, <2>8, WithinRemove
  <2> QED
    BY Zenon, <2>7, <2>9, FitsTwice
<1> QED
  BY Zenon, <1>1, <1>2, <1>3

\* cancel_inner().
LEMMA WithinCancel ==
  ASSUME Laws, NEW s, Within(s), NEW o, NEW t, t = CancelInner(s, o)
  PROVE  Within(t)
<1>1. IsDriver(s)
  BY Zenon DEF Within
<1>2. CASE s.ops[o].cancel
  BY Zenon, <1>2 DEF CancelInner
<1>3. CASE ~s.ops[o].cancel /\ IsTimer(s.ops[o].kind)
  <2> DEFINE u == Disarm(s, o)
  <2>1. t = Finish(u, o, TRUE, None)
    BY Zenon, <1>3 DEF CancelInner, Disarm
  <2>2. IsDriver(u) /\ SameLimits(s, u)
    BY Zenon, <1>1 DEF Disarm, SameLimits, IsDriver, Fields
  <2> HIDE DEF u
  <2>3. Within(u)
    BY Zenon, <2>2, WithinSame
  <2> QED
    BY Zenon, <2>1, <2>3, WithinFinish DEF Fits
<1>4. CASE ~s.ops[o].cancel /\ ~IsTimer(s.ops[o].kind)
  <2>1. t = [s EXCEPT !.ops[o].cancel = TRUE, !.deadlines = @ \ {o}]
    BY Zenon, <1>4 DEF CancelInner
  <2>2. IsDriver(t) /\ SameLimits(s, t)
    BY Zenon, <1>1, <2>1 DEF SameLimits, IsDriver, Fields
  <2> QED
    BY Zenon, <2>2, WithinSame
<1> QED
  BY Zenon, <1>2, <1>3, <1>4

\* The loop over a handle's operations.
LEMMA WithinCancelAll ==
  ASSUME Laws, NEW s, Within(s), NEW h, NEW kept, NEW t, t = CancelAll(s, h, kept)
  PROVE  Within(t)
<1>1. IsDriver(s)
  BY Zenon DEF Within
<1>2. CASE s.handles[h].kind = "Timer"
  <2>1. t = s \/ t = CancelInner(s, CHOOSE o \in OpsOf(s, h) : TRUE)
    BY Zenon, <1>2 DEF CancelAll
  <2> QED
    BY Zenon, <2>1, WithinCancel
<1>3. CASE s.handles[h].kind # "Timer"
  <2> DEFINE X == OpsOf(s, h) \ kept
  <2>1. t = [s EXCEPT !.ops = [o \in Ops |-> IF o \in X THEN [@[o] EXCEPT !.cancel = TRUE] ELSE @[o]],
                      !.deadlines = @ \ X]
    BY Zenon, <1>3 DEF CancelAll
  <2> HIDE DEF X
  <2>2. IsDriver(t) /\ SameLimits(s, t)
    BY Zenon, <1>1, <2>1 DEF SameLimits, IsDriver, Fields
  <2> QED
    BY Zenon, <2>2, WithinSame
<1> QED
  BY Zenon, <1>2, <1>3

\* close().
LEMMA WithinClose ==
  ASSUME Laws, NEW s, Within(s), NEW h, NEW kept, NEW u, u = CancelAll(Closing(s, h), h, kept), NEW t, t = MaybeClosed(u, h)
  PROVE  Within(t)
<1> DEFINE v == Closing(s, h)
<1>1. IsDriver(v) /\ SameLimits(s, v)
  BY Zenon DEF Within, Closing, SameLimits, IsDriver, Fields
<1>2. u = CancelAll(v, h, kept)
  OBVIOUS
<1> HIDE DEF v
<1>3. Within(v)
  BY Zenon, <1>1, WithinSame
<1>4. Within(u)
  BY Zenon, <1>2, <1>3, WithinCancelAll
<1> QED
  BY Zenon, <1>4, WithinClosed DEF Fits

\* drain().
LEMMA WithinDrain ==
  ASSUME Counting, Laws, NEW s, Shaped(s), Ledger(s), Within(s), s.queued # << >>, NEW t, t = DrainOne(s)
  PROVE  Within(t)
<1> DEFINE e == Head(s.queued)
<1>1. Shaped(t) /\ Ledger(t) /\ Handed(s, e, t)
  BY Zenon DEF Laws, DrainLaw
<1> HIDE DEF e
<1>2. /\ t.buffered = Buffer(s, e.class, -1) /\ t.outstanding = s.outstanding - One(e.terminal /\ e.op)
      /\ t.undelivered = s.undelivered /\ t.buffered \in [Classes -> Int] /\ IsDriver(t)
  BY Zenon, <1>1 DEF Handed, Ledger, Sums, Lines, Buffers, Shaped
<1>3. /\ s.outstanding \in Int /\ s.outstanding <= Cardinality(Ops)
      /\ s.undelivered \in Int /\ s.undelivered <= MaxUndelivered
      /\ s.buffered \in [Classes -> Int] /\ \A c \in Classes : s.buffered[c] <= EventsPerTurn
  BY Zenon DEF Within
<1>4. t.outstanding \in Int /\ t.outstanding <= Cardinality(Ops)
  <2>1. Cardinality(Ops) \in Nat
    BY Zenon DEF Laws, OpsFiniteLaw
  <2> QED
    BY <1>2, <1>3, <2>1 DEF One
<1>5. \A c \in Classes : t.buffered[c] <= EventsPerTurn
  BY <1>2, <1>3, EventsAssumption DEF Buffer
<1> QED
  BY Zenon, <1>2, <1>3, <1>4, <1>5 DEF Within

\* A completion of class c, of which there are less than a turn's worth.
LEMMA WithinEvent ==
  ASSUME NEW s, Within(s), NEW c \in Classes, s.buffered[c] < EventsPerTurn,
         NEW t, IsDriver(t), t.buffered = Buffer(s, c, 1), t.outstanding = s.outstanding,
         t.undelivered = s.undelivered
  PROVE  OneMore(s, c, t)
<1>1. t.buffered = [s.buffered EXCEPT ![c] = @ + 1]
  BY DEF Buffer, Classes
<1>2. s.buffered \in [Classes -> Int] /\ \A x \in Classes : s.buffered[x] <= EventsPerTurn
  BY Zenon DEF Within
<1>3. /\ t.buffered \in [Classes -> Int] /\ t.buffered[c] = s.buffered[c] + 1
      /\ \A x \in Classes \ {c} : t.buffered[x] = s.buffered[x]
  BY <1>1, <1>2
<1>4. \A x \in Classes : t.buffered[x] <= EventsPerTurn
  BY <1>2, <1>3, EventsAssumption
<1> QED
  BY Zenon, <1>3, <1>4 DEF Within, OneMore

\* set_ref().
LEMMA WithinFlip ==
  ASSUME Laws, NEW s, Shaped(s), Ledger(s), Within(s), NEW h \in Live(s), NEW t, t = FlipRef(s, h)
  PROVE  Within(t)
<1>1. Lines(s) /\ Carried(s) /\ IsDriver(s)
  BY Zenon DEF Ledger, Sums, Weights, Shaped
<1>2. Flipped(s, h, t)
  BY Zenon, <1>1 DEF Laws, FlipIsLaw
<1>3. IsDriver(t) /\ SameLimits(s, t)
  BY Zenon, <1>2 DEF Flipped, Reweighed, SameLimits
<1> QED
  BY Zenon, <1>3, WithinSame

\* finish() with a completion that is not the last.
LEMMA WithinMore ==
  ASSUME Laws, NEW s, Within(s), NEW o, NEW brings, NEW c \in Classes,
         c = IF IsTimer(s.ops[o].kind) THEN "TIMER" ELSE "NATIVE", s.buffered[c] < EventsPerTurn,
         NEW t, t = Finish(s, o, FALSE, brings)
  PROVE  OneMore(s, c, t)
<1> DEFINE e == Outcome(s, o, FALSE, brings)
<1>1. t = Enqueue(s, e)
  BY Zenon DEF Laws, FinishIsLaw
<1>2. e.class = c
  BY DEF Outcome, Entry
<1> HIDE DEF e
<1>3. IsDriver(s)
  BY Zenon DEF Within
<1>4. IsDriver(t) /\ Queues(s, e, t)
  BY Zenon, <1>1, <1>3 DEF Laws, EnqueueDriverLaw, EnqueueQueuesLaw
<1>5. t.buffered = Buffer(s, c, 1) /\ t.outstanding = s.outstanding /\ t.undelivered = s.undelivered
  BY Zenon, <1>2, <1>4 DEF Queues
<1> QED
  BY Zenon, <1>4, <1>5, WithinEvent

---------------------------------------------------------------------------
\* Refusals

\* What a refusal must leave alone does not include promises that moved within
\* the pool.
LEMMA PoolUnseen ==
  ASSUME Laws, NEW s, IsDriver(s), NEW t, SameButPool(s, t)
  PROVE  Unpooled(t) = Unpooled(s)
<1> DEFINE a == Unpooled(t)
           b == Unpooled(s)
<1>1. IsDriver(t)
  BY Zenon DEF SameButPool
<1>2. /\ IsDriver(a) /\ a.handles = t.handles /\ a.ops = t.ops /\ a.timers = t.timers /\ a.deadlines = t.deadlines
      /\ a.queued = t.queued /\ a.buffered = t.buffered /\ a.refs = t.refs /\ a.outstanding = t.outstanding
      /\ a.native_pending = t.native_pending /\ a.undelivered = t.undelivered
      /\ a.multishot_armed = t.multishot_armed /\ a.multishot_reserved = 0
      /\ a.reserved_handles = t.reserved_handles - t.multishot_reserved
  BY Zenon, <1>1 DEF Unpooled, IsDriver, Fields
<1>3. /\ IsDriver(b) /\ b.handles = s.handles /\ b.ops = s.ops /\ b.timers = s.timers /\ b.deadlines = s.deadlines
      /\ b.queued = s.queued /\ b.buffered = s.buffered /\ b.refs = s.refs /\ b.outstanding = s.outstanding
      /\ b.native_pending = s.native_pending /\ b.undelivered = s.undelivered
      /\ b.multishot_armed = s.multishot_armed /\ b.multishot_reserved = 0
      /\ b.reserved_handles = s.reserved_handles - s.multishot_reserved
  BY Zenon DEF Unpooled, IsDriver, Fields
<1> HIDE DEF a, b
<1>4. SameButQueue(a, b) /\ a.queued = b.queued
  BY Zenon, <1>2, <1>3 DEF SameButPool, SameButQueue
<1>5. a = b
  BY Zenon, <1>2, <1>3, <1>4 DEF Laws, DriverEqualLaw
<1> QED
  BY Zenon, <1>5 DEF a, b

\* A driver that differs by such promises keeps the books.
LEMMA PoolKeeps ==
  ASSUME Counting, Laws, NEW s, Shaped(s), Ledger(s), Within(s), NEW t, SameButPool(s, t)
  PROVE  Shaped(t) /\ Ledger(t) /\ Within(t) /\ t.ops = s.ops
<1>1. /\ IsDriver(t) /\ t.ops = s.ops /\ SameRest(s, t) /\ SameCounts(s, t) /\ SameLimits(s, t)
      /\ t.deadlines = s.deadlines
  BY Zenon DEF SameButPool, SameRest, SameCounts, SameLimits
<1>2. s.deadlines \subseteq LiveOps(s)
  BY Zenon DEF Shaped
<1>3. \A x \in t.deadlines : ~s.ops[x].cancel /\ ~IsTimer(s.ops[x].kind)
  <2> SUFFICES ASSUME NEW x \in s.deadlines PROVE ~s.ops[x].cancel /\ ~IsTimer(s.ops[x].kind)
    BY Zenon, <1>1
  <2>1. x \in LiveOps(s) /\ x # None
    BY <1>2, NoneAssumption DEF LiveOps
  <2>2. TimerOp(s, x)
    BY Zenon, <2>1 DEF Ledger, Clocks, ClocksBut
  <2> QED
    BY Zenon, <2>2 DEF TimerOp
<1>4. Shaped(t) /\ Ledger(t)
  BY Zenon, <1>1, <1>2, <1>3 DEF Laws, PoolLaw
<1>5. Within(t)
  BY Zenon, <1>1, WithinSame
<1> QED
  BY Zenon, <1>1, <1>4, <1>5

\* Known handles are live and not hidden; vacant slots are not live.
LEMMA KnownIs ==
  /\ \A h \in Known : h \in Live(d) /\ h # None /\ ~d.handles[h].hidden
  /\ \A kind : \A h \in Usable(kind) : h \in Known /\ ~d.handles[h].closing /\ d.handles[h].kind = kind
  /\ \A s : \A h \in Room(s) : h \in Handles \ Live(s)
  /\ \A s : \A o \in OpRoom(s) : o \in Ops \ LiveOps(s)
<1>1. \A h \in Known : h \in Live(d) /\ h # None /\ ~d.handles[h].hidden
  BY NoneAssumption DEF Known, Live
<1>2. \A kind : \A h \in Usable(kind) : h \in Known /\ ~d.handles[h].closing /\ d.handles[h].kind = kind
  BY DEF Usable
<1>3. \A s : \A h \in Room(s) : h \in Handles \ Live(s)
  BY Zenon DEF Room
<1>4. \A s : \A o \in OpRoom(s) : o \in Ops \ LiveOps(s)
  BY Zenon DEF OpRoom
<1> QED
  BY Zenon, <1>1, <1>2, <1>3, <1>4

\* The kinds of operations that calls submit, none of them a timer's.
LEMMA CallKinds ==
  /\ SubmitKinds \subseteq OpKinds /\ OpenKinds \subseteq OpKinds /\ {"timer", "interval"} \subseteq OpKinds
  /\ \A k \in SubmitKinds \cup OpenKinds : ~IsTimer(k)
  /\ ~IsTimer("io") /\ ~IsTimer("job") /\ ~IsTimer("lookup") /\ ~IsTimer("fs")
  /\ {"io", "job", "lookup", "fs"} \subseteq OpKinds
  BY DEF SubmitKinds, OpenKinds, OpKinds, IsTimer

\* No refused call leaves a trace beyond the pool of promises.
LEMMA RefusalUndone ==
  ASSUME Counting, UndoLaws, Shaped(d), Ledger(d), Pledged(d), Refusal
  PROVE  SameButPool(d, d')
<1>1. Numeric(d)
  BY Zenon DEF UndoLaws, NumericHoldsLaw
<1>2. ASSUME NEW kind \in SubmitKinds, SubmitRefused(kind) PROVE SameButPool(d, d')
  <2>1. PICK h \in Usable("Socket"), o \in OpRoom(d) : d' = Unsubmit(SubmitOp(d, o, h, kind), o)
    BY Zenon, <1>2 DEF SubmitRefused
  <2>2. h \in Live(d) \cup {None} /\ kind \in OpKinds
    BY Zenon, <2>1, KnownIs, CallKinds
  <2> QED
    BY Zenon, <1>1, <2>1, <2>2 DEF UndoLaws, SubmitUndoneLaw
<1>3. ASSUME NEW kind \in OpenKinds, OpenSubmitRefused(kind) PROVE SameButPool(d, d')
  <2> DEFINE Made(h) == NewHandle(d, h, "Socket")
  <2>1. PICK h \in Room(d) :
           IF OpRoom(d) = {} THEN d' = RemoveHandle(Made(h), h)
           ELSE \E o \in OpRoom(d) : d' = RemoveHandle(Unsubmit(SubmitOp(Made(h), o, h, kind), o), h)
    BY Zenon, <1>3 DEF OpenSubmitRefused
  <2>2. h \in Handles \ Live(d) /\ kind \in OpKinds
    BY Zenon, <2>1, KnownIs, CallKinds
  <2>3. \E w : /\ d' = RemoveHandle(w, h)
               /\ w = Made(h) \/ \E o \in OpRoom(d), k \in OpKinds : w = Unsubmit(SubmitOp(Made(h), o, h, k), o)
    BY Zenon, <2>1, <2>2
  <2> QED
    BY Zenon, <1>1, <2>2, <2>3 DEF UndoLaws, OpenUndoneLaw
<1>4. ASSUME SpawnRefused PROVE SameButPool(d, d')
  <2>1. PICK h \in Room(d) : \E P \in SUBSET (Room(d) \ {h}) :
           \/ d' = RemoveHandles(AddHandles(d, {h} \cup P), {h} \cup P)
           \/ \E o \in OpRoom(d) :
                 d' = RemoveHandles(Unsubmit(NewOp(AddHandles(d, {h} \cup P), o, "io", h), o), {h} \cup P)
    BY Zenon, <1>4 DEF SpawnRefused
  <2>2. PICK P \in SUBSET (Room(d) \ {h}) :
           \/ d' = RemoveHandles(AddHandles(d, {h} \cup P), {h} \cup P)
           \/ \E o \in OpRoom(d) :
                 d' = RemoveHandles(Unsubmit(NewOp(AddHandles(d, {h} \cup P), o, "io", h), o), {h} \cup P)
    BY Zenon, <2>1
  <2> DEFINE H == {h} \cup P
             v == AddHandles(d, H)
  <2>3. H \in SUBSET (Handles \ Live(d)) /\ h \in H
    BY Zenon, <2>1, <2>2, KnownIs
  <2>4. \E w : /\ d' = RemoveHandles(w, H)
               /\ w = v \/ \E o \in OpRoom(d) : w = Unsubmit(NewOp(v, o, "io", h), o)
    BY Zenon, <2>2
  <2> HIDE DEF H
  <2> QED
    BY Zenon, <1>1, <2>3, <2>4 DEF UndoLaws, SpawnUndoneLaw
<1>5. ASSUME BlockingRefused PROVE SameButPool(d, d')
  <2>1. PICK o \in OpRoom(d) : d' = Unsubmit(ChargePort(NewOp(d, o, "job", None), o), o)
    BY Zenon, <1>5 DEF BlockingRefused, JobOp
  <2>2. None \in Live(d) \cup {None} /\ "job" \in OpKinds
    BY Zenon, CallKinds
  <2> QED
    BY Zenon, <1>1, <2>1, <2>2 DEF UndoLaws, SubmitUndoneLaw
<1>6. ASSUME ResolveRefused PROVE SameButPool(d, d')
  <2>1. PICK o \in OpRoom(d) : d' = Unsubmit(NewOp(d, o, "lookup", None), o)
    BY Zenon, <1>6 DEF ResolveRefused
  <2>2. None \in Live(d) \cup {None} /\ "lookup" \in OpKinds
    BY Zenon, CallKinds
  <2> QED
    BY Zenon, <1>1, <2>1, <2>2 DEF UndoLaws, SubmitUndoneLaw
<1>7. ASSUME FsRefused PROVE SameButPool(d, d')
  <2>1. \/ \E h \in Usable(FileKind) \cup {None}, o \in OpRoom(d) : d' = Unsubmit(FsOp(d, o, h), o)
        \/ \E h \in Room(d) : \E w :
              /\ d' = RemoveHandle(w, h)
              /\ \/ w = Hide(NewHandle(d, h, FileKind), h)
                 \/ \E o \in OpRoom(d) : w = Unsubmit(FsOp(Hide(NewHandle(d, h, FileKind), h), o, h), o)
    BY Zenon, <1>7 DEF FsRefused
  <2>2. CASE \E h \in Usable(FileKind) \cup {None}, o \in OpRoom(d) : d' = Unsubmit(FsOp(d, o, h), o)
    <3>1. PICK h \in Usable(FileKind) \cup {None}, o \in OpRoom(d) : d' = Unsubmit(FsOp(d, o, h), o)
      BY Zenon, <2>2
    <3>2. h \in Live(d) \cup {None} /\ "fs" \in OpKinds
      BY Zenon, <3>1, KnownIs, CallKinds
    <3>3. d' = Unsubmit(NewOp(d, o, "fs", h), o) \/ d' = Unsubmit(ChargePort(NewOp(d, o, "fs", h), o), o)
      BY Zenon, <3>1 DEF FsOp
    <3> QED
      BY Zenon, <1>1, <3>2, <3>3 DEF UndoLaws, SubmitUndoneLaw
  <2>3. CASE \E h \in Room(d) : \E w :
              /\ d' = RemoveHandle(w, h)
              /\ \/ w = Hide(NewHandle(d, h, FileKind), h)
                 \/ \E o \in OpRoom(d) : w = Unsubmit(FsOp(Hide(NewHandle(d, h, FileKind), h), o, h), o)
    <3>1. PICK h \in Room(d) : \E w :
              /\ d' = RemoveHandle(w, h)
              /\ \/ w = Hide(NewHandle(d, h, FileKind), h)
                 \/ \E o \in OpRoom(d) : w = Unsubmit(FsOp(Hide(NewHandle(d, h, FileKind), h), o, h), o)
      BY Zenon, <2>3
    <3>2. h \in Handles \ Live(d)
      BY Zenon, <3>1, KnownIs
    <3> QED
      BY Zenon, <1>1, <3>1, <3>2 DEF UndoLaws, FsOpenUndoneLaw
  <2> QED
    BY Zenon, <2>1, <2>2, <2>3
<1> QED
  BY Zenon, <1>2, <1>3, <1>4, <1>5, <1>6, <1>7 DEF Refusal

---------------------------------------------------------------------------
\* The books of the driver

\* Every operation that no timer ends is owed by exactly one party.
Owners(s, I, J, R) ==
    /\ Others(s) = I \cup J \cup R
    /\ I \cap J = {} /\ I \cap R = {} /\ J \cap R = {}

Books(s, I, J, R) == Shaped(s) /\ Ledger(s) /\ Within(s) /\ Owners(s, I, J, R)

\* The native events of a poll fit in what is left of their reserve.
Turning(s, p, n) ==
    /\ p \in Phases /\ n \in Nat
    /\ p = "poll" => s.buffered["NATIVE"] = 0
    /\ p = "events" => s.buffered["NATIVE"] + n <= EventsPerTurn

LedgerInv ==
    /\ Books(d, inflight, jobs, ring) /\ Turning(d, phase, left)
    /\ posts \in 0 .. MaxPosts /\ dropped \in BOOLEAN

\* The owners are right as long as the operations that no timer ends are the
\* same.
LEMMA OwnersSame ==
  ASSUME NEW s, NEW I, NEW J, NEW R, Owners(s, I, J, R), NEW t, Others(t) = Others(s)
  PROVE  Owners(t, I, J, R)
  BY Zenon DEF Owners

\* The same, with the same table of operations.
LEMMA OwnersOps ==
  ASSUME NEW s, NEW I, NEW J, NEW R, Owners(s, I, J, R), NEW t, t.ops = s.ops
  PROVE  Owners(t, I, J, R)
  BY Zenon DEF Owners, Others, LiveOps

\* A new operation is owed by the backend or by the pool; a timer by neither.
LEMMA OwnersIssued ==
  ASSUME NEW s, NEW I, NEW J, NEW R, Owners(s, I, J, R), NEW o, NEW kind, NEW t, Issued(s, o, kind, t)
  PROVE  /\ ~IsTimer(kind) => Owners(t, I \cup {o}, J, R) /\ Owners(t, I, J \cup {o}, R)
         /\ IsTimer(kind) => Owners(t, I, J, R)
<1>1. o \notin Others(s) /\ Others(t) = IF IsTimer(kind) THEN Others(s) ELSE Others(s) \cup {o}
  BY Zenon DEF Issued, Others
<1> QED
  BY Zenon, <1>1 DEF Owners

\* An operation ends, and its owner is rid of it.
LEMMA OwnersEnded ==
  ASSUME NEW s, NEW I, NEW J, NEW R, Owners(s, I, J, R), NEW o, NEW t, Others(t) = Others(s) \ {o}
  PROVE  (o \in I => Owners(t, I \ {o}, J, R)) /\ (o \in R => Owners(t, I, J, R \ {o}))
  BY Zenon DEF Owners

\* What the backend, the pool or the result ring holds is a live operation.
LEMMA Owes ==
  ASSUME NEW s, NEW I, NEW J, NEW R, Owners(s, I, J, R), NEW o \in I \cup J \cup R
  PROVE  o \in LiveOps(s) /\ ~IsTimer(s.ops[o].kind) /\ o \in Ops
  BY Zenon DEF Owners, Others, LiveOps

\* The parts of the books, by name.
LEMMA BooksAre ==
  ASSUME LedgerInv
  PROVE  Shaped(d) /\ Ledger(d) /\ Within(d) /\ Owners(d, inflight, jobs, ring)
  BY Zenon DEF LedgerInv, Books

\* A call changes neither the turn nor the posts.
LEMMA CallTurns ==
  ASSUME LedgerInv, NEW call, HostCalls(call), Books(d', inflight', jobs', ring')
  PROVE  LedgerInv'
<1>1. phase' = phase /\ left' = left /\ posts' = posts /\ dropped' = dropped /\ phase = "host"
  BY Zenon DEF HostCalls, turnVars
<1>2. Turning(d, phase, left) /\ posts \in 0 .. MaxPosts /\ dropped \in BOOLEAN
  BY Zenon DEF LedgerInv
<1>3. Turning(d', phase', left')
  BY <1>1, <1>2 DEF Turning
<1> QED
  BY Zenon, <1>1, <1>2, <1>3 DEF LedgerInv

---------------------------------------------------------------------------
\* The calls

\* open() keeps the books: a timer, a socket or a child with its pipes.
LEMMA OpenStep ==
  ASSUME Counting, Laws, LedgerInv, Open
  PROVE  LedgerInv'
<1>1. PICK h \in Room(d) : d' = NewHandle(d, h, "Socket")
  BY Zenon DEF Open
<1>2. inflight' = inflight /\ jobs' = jobs /\ ring' = ring /\ HostCalls("open")
  BY Zenon DEF Open
<1>3. h \in Handles \ Live(d)
  BY Zenon, <1>1, KnownIs
<1>4. Shaped(d) /\ Ledger(d) /\ Within(d) /\ Owners(d, inflight, jobs, ring)
  BY Zenon, BooksAre
<1>5. Shaped(d') /\ Ledger(d') /\ SameOpsAndQueue(d, d')
  BY Zenon, <1>1, <1>3, <1>4 DEF Laws, NewHandleLaw
<1>6. Within(d')
  BY Zenon, <1>4, <1>5, WithinTables
<1>7. Owners(d', inflight', jobs', ring')
  BY Zenon, <1>2, <1>4, <1>5, OwnersOps DEF SameOpsAndQueue
<1> QED
  BY Zenon, <1>2, <1>5, <1>6, <1>7, CallTurns DEF Books

\* A request that the backend accepted.
LEMMA SubmitStep ==
  ASSUME Counting, Laws, LedgerInv, NEW kind \in SubmitKinds, Submit(kind)
  PROVE  LedgerInv'
<1>1. PICK h \in Usable("Socket"), o \in OpRoom(d) : d' = SubmitOp(d, o, h, kind) /\ inflight' = inflight \cup {o}
  BY Zenon DEF Submit
<1>2. jobs' = jobs /\ ring' = ring /\ HostCalls(kind)
  BY Zenon DEF Submit
<1>3. Ready(d, h) /\ kind \in OpKinds /\ ~IsTimer(kind)
  BY Zenon, <1>1, KnownIs, CallKinds DEF Ready
<1>4. Shaped(d) /\ Ledger(d) /\ Within(d) /\ Owners(d, inflight, jobs, ring)
  BY Zenon, BooksAre
<1>5. Shaped(d') /\ Ledger(d') /\ Issued(d, o, kind, d')
  BY Zenon, <1>1, <1>3, <1>4 DEF Laws, SubmitLaw
<1>6. Within(d')
  <2>1. Within(NewOp(d, o, kind, h))
    BY Zenon, <1>1, <1>4, WithinNewOp
  <2> QED
    BY Zenon, <1>1, <2>1, WithinReserve DEF SubmitOp
<1>7. Owners(d', inflight', jobs', ring')
  BY Zenon, <1>1, <1>2, <1>3, <1>4, <1>5, OwnersIssued
<1> QED
  BY Zenon, <1>2, <1>5, <1>6, <1>7, CallTurns DEF Books

\* A handle and its first operation, which may have a deadline.
LEMMA OpenSubmitStep ==
  ASSUME Counting, Laws, LedgerInv, NEW kind \in OpenKinds, OpenSubmit(kind)
  PROVE  LedgerInv'
<1> DEFINE Opened(h) == NewHandle(d, h, "Socket")
           Asked(h, o) == SubmitOp(Opened(h), o, h, kind)
<1>1. PICK h \in Room(d), o \in OpRoom(d), timed \in BOOLEAN :
         /\ d' = IF timed THEN [Asked(h, o) EXCEPT !.deadlines = @ \cup {o}] ELSE Asked(h, o)
         /\ inflight' = inflight \cup {o}
  BY Zenon DEF OpenSubmit
<1>2. jobs' = jobs /\ ring' = ring /\ HostCalls(kind)
  BY Zenon DEF OpenSubmit
<1>3. h \in Handles \ Live(d) /\ kind \in OpKinds /\ ~IsTimer(kind)
  BY Zenon, <1>1, KnownIs, CallKinds
<1>4. Shaped(d) /\ Ledger(d) /\ Within(d) /\ Owners(d, inflight, jobs, ring)
  BY Zenon, BooksAre
<1> DEFINE u == Opened(h)
           v == Asked(h, o)
<1>5. Shaped(u) /\ SameOpsAndQueue(d, u)
  BY Zenon, <1>3, <1>4 DEF Laws, NewHandleLaw
<1>6. Within(u)
  BY Zenon, <1>4, <1>5, WithinTables
<1>7. Shaped(v) /\ Ledger(v) /\ Issued(d, o, kind, v) /\ ~v.ops[o].cancel
  BY Zenon, <1>1, <1>3, <1>4 DEF Laws, OpenSubmitLaw
<1>8. Within(v)
  <2>1. o \in OpRoom(u)
    BY Zenon, <1>1, <1>5 DEF Laws, SameOpRoomLaw
  <2>2. v = Reserve(NewOp(u, o, kind, h), o, kind)
    BY Zenon DEF SubmitOp
  <2> HIDE DEF u, v
  <2>3. Within(NewOp(u, o, kind, h))
    BY Zenon, <1>6, <2>1, WithinNewOp
  <2> QED
    BY Zenon, <2>2, <2>3, WithinReserve
<1> HIDE DEF v
<1>9. CASE ~timed
  <2>1. d' = v
    BY Zenon, <1>1, <1>9 DEF v
  <2>2. Owners(d', inflight', jobs', ring')
    BY Zenon, <1>1, <1>2, <1>3, <1>4, <1>7, <2>1, OwnersIssued
  <2> QED
    BY Zenon, <1>2, <1>7, <1>8, <2>1, <2>2, CallTurns DEF Books
<1>10. CASE timed
  <2>1. d' = [v EXCEPT !.deadlines = @ \cup {o}]
    BY Zenon, <1>1, <1>10 DEF v
  <2>2. o \in LiveOps(v) /\ ~IsTimer(v.ops[o].kind)
    BY Zenon, <1>3, <1>7 DEF Issued
  <2>3. Shaped(d') /\ Ledger(d') /\ SameKinds(v, d')
    BY Zenon, <1>7, <2>1, <2>2 DEF Laws, DeadlineLaw
  <2>4. Issued(d, o, kind, d')
    BY Zenon, <1>7, <2>3 DEF Laws, IssuedKeptLaw
  <2>5. Within(d')
    <3>1. SameLimits(v, d')
      BY Zenon, <1>7, <2>1 DEF SameLimits, Shaped, IsDriver, Fields
    <3> QED
      BY Zenon, <1>8, <2>3, <3>1, WithinSame DEF Shaped
  <2>6. Owners(d', inflight', jobs', ring')
    BY Zenon, <1>1, <1>2, <1>3, <1>4, <2>4, OwnersIssued
  <2> QED
    BY Zenon, <1>2, <2>3, <2>5, <2>6, CallTurns DEF Books
<1> QED
  BY Zenon, <1>9, <1>10

\* A process, its pipes and its exit operation.
LEMMA SpawnStep ==
  ASSUME Counting, Laws, LedgerInv, Spawn
  PROVE  LedgerInv'
<1>1. PICK h \in Room(d) : \E P \in SUBSET (Room(d) \ {h}), o \in OpRoom(d) :
         d' = NewOp(AddHandles(d, {h} \cup P), o, "io", h) /\ inflight' = inflight \cup {o}
  BY Zenon DEF Spawn
<1>2. PICK P \in SUBSET (Room(d) \ {h}), o \in OpRoom(d) :
         d' = NewOp(AddHandles(d, {h} \cup P), o, "io", h) /\ inflight' = inflight \cup {o}
  BY Zenon, <1>1
<1>3. jobs' = jobs /\ ring' = ring /\ HostCalls("spawn")
  BY Zenon DEF Spawn
<1> DEFINE H == {h} \cup P
           u == AddHandles(d, H)
<1>4. H \in SUBSET (Handles \ Live(d)) /\ h \in H
  BY ZenonT(60), <1>1, <1>2, KnownIs
<1>5. Shaped(d) /\ Ledger(d) /\ Within(d) /\ Owners(d, inflight, jobs, ring)
  BY Zenon, BooksAre
<1>6. d' = NewOp(u, o, "io", h)
  BY Zenon, <1>2
<1> HIDE DEF H
<1>7. Shaped(d') /\ Ledger(d') /\ Issued(d, o, "io", d')
  BY Zenon, <1>2, <1>4, <1>5, <1>6 DEF Laws, SpawnLaw
<1>8. Within(d')
  <2>1. Shaped(u) /\ SameOpsAndQueue(d, u)
    BY Zenon, <1>4, <1>5 DEF Laws, AddHandlesLaw
  <2>2. Within(u) /\ o \in OpRoom(u)
    BY Zenon, <1>2, <1>5, <2>1, WithinTables DEF Laws, SameOpRoomLaw
  <2> QED
    BY Zenon, <1>6, <2>2, WithinNewOp
<1>9. Owners(d', inflight', jobs', ring')
  BY Zenon, <1>2, <1>3, <1>5, <1>7, OwnersIssued, CallKinds
<1> QED
  BY Zenon, <1>3, <1>7, <1>8, <1>9, CallTurns DEF Books

\* A timer: its handle, its operation and its deadline.
LEMMA TimerStep ==
  ASSUME Counting, Laws, LedgerInv, NEW kind \in {"timer", "interval"}, Timer(kind)
  PROVE  LedgerInv'
<1>1. PICK h \in Room(d), o \in OpRoom(d) :
         d' = [NewOp(NewHandle(d, h, "Timer"), o, kind, h) EXCEPT !.timers = @ \cup {h}]
  BY Zenon DEF Timer
<1>2. inflight' = inflight /\ jobs' = jobs /\ ring' = ring /\ HostCalls(kind)
  BY Zenon DEF Timer
<1>3. h \in Handles \ Live(d) /\ kind \in OpKinds /\ IsTimer(kind)
  BY Zenon, <1>1, KnownIs, CallKinds DEF IsTimer
<1>4. Shaped(d) /\ Ledger(d) /\ Within(d) /\ Owners(d, inflight, jobs, ring)
  BY Zenon, BooksAre
<1>u. PICK u : u = NewHandle(d, h, "Timer")
  BY Zenon
<1>v. PICK v : v = NewOp(u, o, kind, h)
  BY Zenon
<1>5. d' = [v EXCEPT !.timers = @ \cup {h}]
  BY Zenon, <1>1, <1>u, <1>v
<1>6. Shaped(d') /\ Ledger(d') /\ Issued(d, o, kind, d')
  BY Zenon, <1>1, <1>3, <1>4, <1>5, <1>u, <1>v DEF Laws, TimerLaw
<1>7. Within(d')
  <2>1. Shaped(u) /\ SameOpsAndQueue(d, u)
    BY Zenon, <1>3, <1>4, <1>u DEF Laws, NewHandleLaw
  <2>2. Within(u) /\ o \in OpRoom(u)
    BY Zenon, <1>1, <1>4, <2>1, WithinTables DEF Laws, SameOpRoomLaw
  <2>3. Within(v)
    BY Zenon, <1>v, <2>2, WithinNewOp
  <2>4. IsDriver(d') /\ SameLimits(v, d')
    BY Zenon, <1>5, <2>3 DEF Within, SameLimits, IsDriver, Fields
  <2> QED
    BY Zenon, <2>3, <2>4, WithinSame
<1>8. Owners(d', inflight', jobs', ring')
  BY Zenon, <1>2, <1>3, <1>4, <1>6, OwnersIssued
<1> QED
  BY Zenon, <1>2, <1>6, <1>7, <1>8, CallTurns DEF Books

\* timer_reset() keeps the books.
LEMMA ResetStep ==
  ASSUME Counting, Laws, LedgerInv, TimerReset
  PROVE  LedgerInv'
<1>1. PICK h \in Usable("Timer") : OpsOf(d, h) # {} /\ d' = [d EXCEPT !.timers = @ \cup {h}]
  BY Zenon DEF TimerReset
<1>2. inflight' = inflight /\ jobs' = jobs /\ ring' = ring /\ HostCalls("timer_reset")
  BY Zenon DEF TimerReset
<1>3. h \in Live(d) /\ d.handles[h].kind = "Timer" /\ ~d.handles[h].closing
  BY Zenon, <1>1, KnownIs
<1>4. Shaped(d) /\ Ledger(d) /\ Within(d) /\ Owners(d, inflight, jobs, ring)
  BY Zenon, BooksAre
<1>5. Shaped(d') /\ Ledger(d') /\ SameTables(d, d')
  BY Zenon, <1>1, <1>3, <1>4 DEF Laws, ResetLaw
<1>6. Within(d')
  <2>1. IsDriver(d') /\ SameLimits(d, d')
    BY Zenon, <1>1, <1>4 DEF Within, SameLimits, IsDriver, Fields
  <2> QED
    BY Zenon, <1>4, <2>1, WithinSame
<1>7. Owners(d', inflight', jobs', ring')
  BY Zenon, <1>2, <1>4, <1>5, OwnersOps DEF SameTables
<1> QED
  BY Zenon, <1>2, <1>5, <1>6, <1>7, CallTurns DEF Books

\* A job of the pool, which admission allowed.
LEMMA WithinJob ==
  ASSUME Counting, Laws, NEW s, Within(s), Admits(s), NEW o \in OpRoom(s), NEW kind, NEW h,
         NEW t, t = ChargePort(NewOp(s, o, kind, h), o)
  PROVE  Within(t)
<1>u. PICK u : u = NewOp(s, o, kind, h)
  BY Zenon
<1>1. Within(u) /\ u.undelivered = s.undelivered
  <2>1. Within(u)
    BY Zenon, <1>u, WithinNewOp
  <2>2. u.undelivered = s.undelivered
    BY Zenon, <1>u DEF Within, NewOp, IsDriver, Fields
  <2> QED
    BY Zenon, <2>1, <2>2
<1>2. Admits(u)
  BY Zenon, <1>1 DEF Admits
<1>3. t = ChargePort(u, o)
  BY Zenon, <1>u
<1> QED
  BY Zenon, <1>1, <1>2, <1>3, WithinCharge

\* blocking() keeps the books: the job is charged before it is queued.
LEMMA BlockingStep ==
  ASSUME Counting, Laws, LedgerInv, Blocking
  PROVE  LedgerInv'
<1>1. PICK o \in OpRoom(d) : d' = JobOp(d, o) /\ jobs' = jobs \cup {o}
  BY Zenon DEF Blocking
<1>2. inflight' = inflight /\ ring' = ring /\ HostCalls("job") /\ Admits(d)
  BY Zenon DEF Blocking
<1>3. Shaped(d) /\ Ledger(d) /\ Within(d) /\ Owners(d, inflight, jobs, ring)
  BY Zenon, BooksAre
<1>4. Shaped(d') /\ Ledger(d') /\ Issued(d, o, "job", d')
  BY Zenon, <1>1, <1>3 DEF Laws, JobLaw
<1>5. Within(d')
  BY Zenon, <1>1, <1>2, <1>3, WithinJob DEF JobOp
<1>6. Owners(d', inflight', jobs', ring')
  BY Zenon, <1>1, <1>2, <1>3, <1>4, OwnersIssued, CallKinds
<1> QED
  BY Zenon, <1>2, <1>4, <1>5, <1>6, CallTurns DEF Books

\* A lookup keeps the books.
LEMMA ResolveStep ==
  ASSUME Counting, Laws, LedgerInv, Resolve
  PROVE  LedgerInv'
<1>1. PICK o \in OpRoom(d) : d' = MakeNative(NewOp(d, o, "lookup", None), o) /\ inflight' = inflight \cup {o}
  BY Zenon DEF Resolve
<1>2. jobs' = jobs /\ ring' = ring /\ HostCalls("lookup")
  BY Zenon DEF Resolve
<1>3. Shaped(d) /\ Ledger(d) /\ Within(d) /\ Owners(d, inflight, jobs, ring)
  BY Zenon, BooksAre
<1> DEFINE u == NewOp(d, o, "lookup", None)
<1>4. Ready(d, None) /\ "lookup" \in OpKinds /\ ~IsTimer("lookup")
  BY Zenon, CallKinds DEF Ready
<1>5. Shaped(u) /\ Ledger(u) /\ Issued(d, o, "lookup", u) /\ Within(u)
  BY Zenon, <1>1, <1>3, <1>4, WithinNewOp DEF Laws, NewOpIssuedLaw
<1>6. d' = MakeNative(u, o)
  BY Zenon, <1>1
<1> HIDE DEF u
<1>7. Shaped(d') /\ Ledger(d') /\ SameKinds(u, d')
  <2>1. o \in LiveOps(u)
    BY Zenon, <1>5 DEF Issued
  <2> QED
    BY Zenon, <1>5, <1>6, <2>1 DEF Laws, NativeLaw
<1>8. Within(d') /\ Issued(d, o, "lookup", d')
  BY Zenon, <1>5, <1>6, <1>7, WithinNative DEF Laws, IssuedKeptLaw
<1>9. Owners(d', inflight', jobs', ring')
  BY Zenon, <1>1, <1>2, <1>3, <1>4, <1>8, OwnersIssued
<1> QED
  BY Zenon, <1>2, <1>7, <1>8, <1>9, CallTurns DEF Books

\* A lookup that the backend refused and the pool takes.
LEMMA ResolveOnPoolStep ==
  ASSUME Counting, Laws, UndoLaws, LedgerInv, Pledged(d), ResolveOnPool
  PROVE  LedgerInv'
<1>1. PICK o \in OpRoom(d) :
         LET s == Unsubmit(NewOp(d, o, "lookup", None), o)
         IN  Admits(s) /\ \E p \in OpRoom(s) : d' = JobOp(s, p) /\ jobs' = jobs \cup {p}
  BY Zenon DEF ResolveOnPool
<1> DEFINE s == Unsubmit(NewOp(d, o, "lookup", None), o)
<1>2. PICK p \in OpRoom(s) : d' = JobOp(s, p) /\ jobs' = jobs \cup {p}
  BY Zenon, <1>1
<1>3. Admits(s)
  BY Zenon, <1>1
<1>4. inflight' = inflight /\ ring' = ring /\ HostCalls("lookup")
  BY Zenon DEF ResolveOnPool
<1>5. Shaped(d) /\ Ledger(d) /\ Within(d) /\ Owners(d, inflight, jobs, ring)
  BY Zenon, BooksAre
<1>6. SameButPool(d, s)
  <2>1. None \in Live(d) \cup {None} /\ "lookup" \in OpKinds /\ Numeric(d)
    BY Zenon, <1>5, CallKinds DEF UndoLaws, NumericHoldsLaw
  <2> QED
    BY Zenon, <1>1, <1>5, <2>1 DEF UndoLaws, SubmitUndoneLaw
<1> HIDE DEF s
<1>7. Shaped(s) /\ Ledger(s) /\ Within(s) /\ s.ops = d.ops
  BY Zenon, <1>5, <1>6, PoolKeeps
<1>8. Shaped(d') /\ Ledger(d') /\ Issued(s, p, "job", d')
  BY Zenon, <1>2, <1>7 DEF Laws, JobLaw
<1>9. Within(d')
  BY Zenon, <1>2, <1>3, <1>7, WithinJob DEF JobOp
<1>10. Owners(d', inflight', jobs', ring')
  <2>1. Owners(s, inflight, jobs, ring)
    BY Zenon, <1>5, <1>7, OwnersOps
  <2> QED
    BY Zenon, <1>2, <1>4, <1>8, <2>1, OwnersIssued, CallKinds
<1> QED
  BY Zenon, <1>4, <1>8, <1>9, <1>10, CallTurns DEF Books

\* fs() hands its request to the file service or to the backend.
LEMMA WithinFs ==
  ASSUME Counting, Laws, NEW s, Within(s), FilesOnPool => Admits(s), NEW o \in OpRoom(s), NEW h, NEW t, t = FsOp(s, o, h)
  PROVE  Within(t)
<1>1. CASE FilesOnPool
  BY Zenon, <1>1, WithinJob DEF FsOp
<1>2. CASE ~FilesOnPool
  BY Zenon, <1>2, WithinNewOp DEF FsOp
<1> QED
  BY Zenon, <1>1, <1>2

\* A file request that the service or the backend has accepted keeps the books.
LEMMA AcceptedStep ==
  ASSUME Counting, Laws, LedgerInv, HostCalls("fs"), NEW o, NEW s, Shaped(s), Ledger(s), Within(s), Issued(d, o, "fs", s),
         Accepted(s, o)
  PROVE  LedgerInv'
<1>1. Owners(d, inflight, jobs, ring)
  BY Zenon, BooksAre
<1>2. CASE FilesOnPool
  <2>1. d' = s /\ jobs' = jobs \cup {o} /\ inflight' = inflight /\ ring' = ring
    BY Zenon, <1>2 DEF Accepted
  <2>2. Owners(d', inflight', jobs', ring')
    BY Zenon, <1>1, <2>1, OwnersIssued, CallKinds
  <2> QED
    BY Zenon, <2>1, <2>2, CallTurns DEF Books
<1>3. CASE ~FilesOnPool
  <2>1. d' = MakeNative(s, o) /\ inflight' = inflight \cup {o} /\ jobs' = jobs /\ ring' = ring
    BY Zenon, <1>3 DEF Accepted
  <2>2. o \in LiveOps(s)
    BY Zenon DEF Issued
  <2>3. Shaped(d') /\ Ledger(d') /\ SameKinds(s, d')
    BY Zenon, <2>1, <2>2 DEF Laws, NativeLaw
  <2>4. Within(d') /\ Issued(d, o, "fs", d')
    BY Zenon, <2>1, <2>3, WithinNative DEF Laws, IssuedKeptLaw
  <2>5. Owners(d', inflight', jobs', ring')
    BY Zenon, <1>1, <2>1, <2>4, OwnersIssued, CallKinds
  <2> QED
    BY Zenon, <2>3, <2>4, <2>5, CallTurns DEF Books
<1> QED
  BY Zenon, <1>2, <1>3

\* A file request on an open file keeps the books.
LEMMA FsStep ==
  ASSUME Counting, Laws, LedgerInv, Fs
  PROVE  LedgerInv'
<1>1. PICK h \in Usable(FileKind) \cup {None}, o \in OpRoom(d) : Accepted(FsOp(d, o, h), o)
  BY Zenon DEF Fs
<1>2. HostCalls("fs") /\ (FilesOnPool => Admits(d))
  BY Zenon DEF Fs, FsAdmits
<1>3. Ready(d, h)
  <2>1. FileKind # "Timer"
    BY DEF Laws, FileKindsLaw
  <2>2. CASE h \in Usable(FileKind)
    <3>1. h \in Live(d) /\ ~d.handles[h].hidden /\ ~d.handles[h].closing /\ d.handles[h].kind = FileKind
      BY Zenon, <2>2, KnownIs
    <3> QED
      BY Zenon, <2>1, <3>1 DEF Ready
  <2> QED
    BY Zenon, <1>1, <2>2 DEF Ready
<1>4. Shaped(d) /\ Ledger(d) /\ Within(d)
  BY Zenon, BooksAre
<1> DEFINE s == FsOp(d, o, h)
<1>5. Shaped(s) /\ Ledger(s) /\ Issued(d, o, "fs", s) /\ Within(s)
  BY Zenon, <1>1, <1>2, <1>3, <1>4, WithinFs DEF Laws, FsOnReadyLaw
<1> QED
  BY Zenon, <1>1, <1>2, <1>5, AcceptedStep

\* Opening a file keeps the books: its handle is hidden until the result.
LEMMA FsOpenStep ==
  ASSUME Counting, Laws, LedgerInv, FsOpen
  PROVE  LedgerInv'
<1>1. PICK h \in Room(d), o \in OpRoom(d) : Accepted(FsOp(Hide(NewHandle(d, h, FileKind), h), o, h), o)
  BY Zenon DEF FsOpen
<1>2. HostCalls("fs") /\ (FilesOnPool => Admits(d))
  BY Zenon DEF FsOpen, FsAdmits
<1>3. h \in Handles \ Live(d) /\ FileKind \in {"Socket", "File"}
  BY Zenon, <1>1, KnownIs DEF Laws, FileKindsLaw
<1>4. Shaped(d) /\ Ledger(d) /\ Within(d)
  BY Zenon, BooksAre
<1> DEFINE u == Hide(NewHandle(d, h, FileKind), h)
           s == FsOp(u, o, h)
<1>5. Shaped(s) /\ Ledger(s) /\ Issued(d, o, "fs", s)
  BY Zenon, <1>1, <1>3, <1>4 DEF Laws, FsOpenLaw
<1>6. Within(s)
  <2>1. Shaped(u) /\ SameOpsAndQueue(d, u)
    BY Zenon, <1>3, <1>4 DEF Laws, HiddenLaw
  <2>2. Within(u) /\ o \in OpRoom(u)
    BY Zenon, <1>1, <1>4, <2>1, WithinTables DEF Laws, SameOpRoomLaw
  <2>3. FilesOnPool => Admits(u)
    BY Zenon, <1>2, <2>1 DEF Admits, SameOpsAndQueue
  <2> HIDE DEF u
  <2> QED
    BY Zenon, <2>2, <2>3, WithinFs
<1> QED
  BY Zenon, <1>1, <1>2, <1>5, <1>6, AcceptedStep

\* cancel() keeps the books, whether the operation ends at once or when its
\* owner says so.
LEMMA CancelStep ==
  ASSUME Counting, Laws, LedgerInv, Cancel
  PROVE  LedgerInv'
<1>1. PICK o \in LiveOps(d) : d' = CancelInner(d, o)
  BY Zenon DEF Cancel
<1>2. inflight' = inflight /\ jobs' = jobs /\ ring' = ring /\ HostCalls("cancel")
  BY Zenon DEF Cancel
<1>3. Shaped(d) /\ Ledger(d) /\ Within(d) /\ Owners(d, inflight, jobs, ring)
  BY Zenon, BooksAre
<1>4. Shaped(d') /\ Ledger(d') /\ SameOthers(d, d') /\ Within(d')
  BY Zenon, <1>1, <1>3, WithinCancel DEF Laws, CancelInnerLaw
<1>5. Owners(d', inflight', jobs', ring')
  BY Zenon, <1>2, <1>3, <1>4, OwnersSame DEF SameOthers
<1> QED
  BY Zenon, <1>2, <1>4, <1>5, CallTurns DEF Books

\* close() keeps the books: it cancels every operation of its handle.
LEMMA CloseStep ==
  ASSUME Counting, Laws, LedgerInv, Close
  PROVE  LedgerInv'
<1>1. PICK h \in Known : \E kept \in Refusable(d, h) :
         ~d.handles[h].closing /\ d' = MaybeClosed(CancelAll(Closing(d, h), h, kept), h)
  BY Zenon DEF Close, Closing
<1>2. PICK kept \in Refusable(d, h) : d' = MaybeClosed(CancelAll(Closing(d, h), h, kept), h)
  BY Zenon, <1>1
<1>3. inflight' = inflight /\ jobs' = jobs /\ ring' = ring /\ HostCalls("close")
  BY Zenon DEF Close
<1>4. h \in Live(d) /\ ~d.handles[h].hidden /\ ~d.handles[h].closing
  BY Zenon, <1>1, KnownIs
<1>5. Shaped(d) /\ Ledger(d) /\ Within(d) /\ Owners(d, inflight, jobs, ring)
  BY Zenon, BooksAre
<1>6. Shaped(d') /\ Ledger(d') /\ SameOthers(d, d') /\ Within(d')
  <2>1. PICK u : u = CancelAll(Closing(d, h), h, kept)
    BY Zenon
  <2>2. Shaped(d') /\ Ledger(d') /\ SameOthers(d, d')
    <3>1. d' = MaybeClosed(u, h)
      BY Zenon, <1>2, <2>1
    <3> QED
      BY Zenon, <1>4, <1>5, <2>1, <3>1 DEF Laws, CloseLaw
  <2>3. Within(d')
    BY Zenon, <1>2, <1>4, <1>5, WithinClose
  <2> QED
    BY Zenon, <2>2, <2>3
<1>7. Owners(d', inflight', jobs', ring')
  BY Zenon, <1>3, <1>5, <1>6, OwnersSame DEF SameOthers
<1> QED
  BY Zenon, <1>3, <1>6, <1>7, CallTurns DEF Books

\* detach() keeps the books: the handle goes without a Closed.
LEMMA DetachStep ==
  ASSUME Counting, Laws, LedgerInv, Detach
  PROVE  LedgerInv'
<1>1. PICK h \in Usable("Socket") : \E kept \in Refusable(d, h) :
         d' = IF Detachable(CancelAll(d, h, kept), h) THEN RemoveHandle(CancelAll(d, h, kept), h)
              ELSE CancelAll(d, h, kept)
  BY Zenon DEF Detach
<1>2. PICK kept \in Refusable(d, h) :
         d' = IF Detachable(CancelAll(d, h, kept), h) THEN RemoveHandle(CancelAll(d, h, kept), h)
              ELSE CancelAll(d, h, kept)
  BY Zenon, <1>1
<1>3. inflight' = inflight /\ jobs' = jobs /\ ring' = ring /\ HostCalls("detach")
  BY Zenon DEF Detach
<1>4. Untimed(d, h)
  <2>1. h \in Live(d) /\ d.handles[h].kind = "Socket"
    BY Zenon, <1>1, KnownIs
  <2> QED
    BY <2>1 DEF Untimed
<1>5. Shaped(d) /\ Ledger(d) /\ Within(d) /\ Owners(d, inflight, jobs, ring)
  BY Zenon, BooksAre
<1>6. Shaped(d') /\ Ledger(d') /\ SameBusy(d, d')
  <2>1. PICK u : u = CancelAll(d, h, kept)
    BY Zenon
  <2>2. d' = LetGo(u, h)
    BY Zenon, <1>2, <2>1 DEF LetGo
  <2> QED
    BY Zenon, <1>4, <1>5, <2>1, <2>2 DEF Laws, DetachLaw
<1>7. Within(d')
  <2>1. Within(CancelAll(d, h, kept))
    BY Zenon, <1>5, WithinCancelAll
  <2> QED
    BY Zenon, <1>2, <2>1, WithinRemove DEF Fits
<1>8. Owners(d', inflight', jobs', ring')
  BY Zenon, <1>3, <1>5, <1>6, OwnersSame DEF SameBusy
<1> QED
  BY Zenon, <1>3, <1>6, <1>7, <1>8, CallTurns DEF Books

\* set_ref() keeps the books, with the operations and queued results of its
\* handle.
LEMMA SetRefStep ==
  ASSUME Counting, Laws, LedgerInv, SetRef
  PROVE  LedgerInv'
<1>1. PICK h \in Known : d' = FlipRef(d, h)
  BY Zenon DEF SetRef
<1>2. inflight' = inflight /\ jobs' = jobs /\ ring' = ring /\ HostCalls("set_ref")
  BY Zenon DEF SetRef
<1>3. h \in Live(d)
  BY Zenon, <1>1, KnownIs
<1>4. Shaped(d) /\ Ledger(d) /\ Within(d) /\ Owners(d, inflight, jobs, ring)
  BY Zenon, BooksAre
<1>5. Shaped(d') /\ Ledger(d') /\ SameOthers(d, d') /\ Within(d')
  BY Zenon, <1>1, <1>3, <1>4, WithinFlip DEF Laws, FlipLaw
<1>6. Owners(d', inflight', jobs', ring')
  BY Zenon, <1>2, <1>4, <1>5, OwnersSame DEF SameOthers
<1> QED
  BY Zenon, <1>2, <1>5, <1>6, CallTurns DEF Books

\* The driver at rest is within every limit.
LEMMA WithinInit ==
  ASSUME Laws, Counting
  PROVE  Within(InitDriver)
<1>1. /\ InitDriver.outstanding = 0 /\ InitDriver.undelivered = 0 /\ InitDriver.buffered = [c \in Classes |-> 0]
      /\ IsDriver(InitDriver)
  BY Zenon DEF InitDriver, IsDriver, Fields
<1>2. Cardinality(Ops) \in Nat
  BY Zenon DEF Laws, OpsFiniteLaw
<1> QED
  BY <1>1, <1>2, EventsAssumption, UndeliveredAssumption DEF Within

\* Where nothing is owed, nobody owes anything.
LEMMA NothingOwed ==
  ASSUME Counting, Laws, LedgerInv, d.outstanding = 0
  PROVE  inflight = {} /\ jobs = {} /\ ring = {}
<1>1. Owed(d) /\ d.queued \in Seq(Completions) /\ Owners(d, inflight, jobs, ring)
  BY Zenon, BooksAre DEF Ledger, Sums, Lines
<1>2. Numbers(d)
  BY Zenon, <1>1 DEF Laws, NumbersHoldLaw
<1>3. Cardinality(LiveOps(d)) = 0 /\ IsFiniteSet(LiveOps(d))
  BY <1>1, <1>2 DEF Owed, Numbers
<1>4. LiveOps(d) = {}
  BY Zenon, <1>3 DEF Laws, CountNoneLaw
<1>5. Others(d) = {}
  BY Zenon, <1>4 DEF Others
<1> QED
  BY Zenon, <1>1, <1>5 DEF Owners

\* rebuild() keeps the books: it starts them anew.
LEMMA RebuildStep ==
  ASSUME Counting, Laws, LedgerInv, Rebuild
  PROVE  LedgerInv'
<1>1. /\ d' = InitDriver /\ inflight' = inflight /\ jobs' = jobs /\ ring' = ring /\ HostCalls("rebuild")
      /\ d.outstanding = 0
  BY Zenon DEF Rebuild
<1>2. inflight = {} /\ jobs = {} /\ ring = {}
  BY Zenon, <1>1, NothingOwed
<1>3. Shaped(d') /\ Ledger(d') /\ Others(d') = {} /\ Within(d')
  BY Zenon, <1>1, WithinInit DEF Laws, InitLaw
<1>4. Owners(d', inflight', jobs', ring')
  BY Zenon, <1>1, <1>2, <1>3 DEF Owners
<1> QED
  BY Zenon, <1>1, <1>3, <1>4, CallTurns DEF Books

\* A call that is refused keeps the books.
LEMMA RefusalStep ==
  ASSUME Counting, Laws, UndoLaws, LedgerInv, Pledged(d), Refusal
  PROVE  LedgerInv'
<1>1. /\ inflight' = inflight /\ jobs' = jobs /\ ring' = ring /\ \E call : HostCalls(call)
  BY Zenon DEF Refusal, SubmitRefused, OpenSubmitRefused, SpawnRefused, BlockingRefused, ResolveRefused, FsRefused
<1>2. Shaped(d) /\ Ledger(d) /\ Within(d) /\ Owners(d, inflight, jobs, ring)
  BY Zenon, BooksAre
<1>3. SameButPool(d, d')
  BY Zenon, <1>2, RefusalUndone
<1>4. Shaped(d') /\ Ledger(d') /\ Within(d') /\ d'.ops = d.ops
  BY Zenon, <1>2, <1>3, PoolKeeps
<1>5. Owners(d', inflight', jobs', ring')
  BY Zenon, <1>1, <1>2, <1>4, OwnersOps
<1>6. Books(d', inflight', jobs', ring')
  BY Zenon, <1>4, <1>5 DEF Books
<1> QED
  BY Zenon, <1>1, <1>6, CallTurns

\* Every call of the host keeps the books.
LEMMA CallStep ==
  ASSUME Counting, Laws, UndoLaws, LedgerInv, Pledged(d), Call
  PROVE  LedgerInv'
<1>1. ASSUME \E k \in SubmitKinds : Submit(k) PROVE LedgerInv'
  BY Zenon, <1>1, SubmitStep
<1>2. ASSUME \E k \in OpenKinds : OpenSubmit(k) PROVE LedgerInv'
  BY Zenon, <1>2, OpenSubmitStep
<1>3. ASSUME \E k \in {"timer", "interval"} : Timer(k) PROVE LedgerInv'
  BY Zenon, <1>3, TimerStep
<1> QED
  BY Zenon, <1>1, <1>2, <1>3, OpenStep, SpawnStep, ResetStep, BlockingStep, ResolveStep, ResolveOnPoolStep, FsStep,
     FsOpenStep, CancelStep, CloseStep, DetachStep, SetRefStep, RebuildStep DEF Call

---------------------------------------------------------------------------
\* Other threads, and the turn

\* A worker's result changes hands; a post arrives.
LEMMA ThreadStep ==
  ASSUME LedgerInv, Post \/ \E o \in Ops : JobDone(o)
  PROVE  LedgerInv'
<1>1. /\ Shaped(d) /\ Ledger(d) /\ Within(d) /\ Owners(d, inflight, jobs, ring) /\ Turning(d, phase, left)
      /\ posts \in 0 .. MaxPosts /\ dropped \in BOOLEAN
  BY Zenon, BooksAre DEF LedgerInv
<1>2. CASE Post
  <2>1. /\ posts < MaxPosts /\ posts' = posts + 1 /\ d' = d /\ inflight' = inflight /\ jobs' = jobs /\ ring' = ring
        /\ phase' = phase /\ left' = left /\ dropped' = dropped
    BY Zenon, <1>2 DEF Post, turnVars
  <2>2. posts' \in 0 .. MaxPosts
    BY <1>1, <2>1, OutAssumption
  <2> QED
    BY Zenon, <1>1, <2>1, <2>2 DEF LedgerInv, Books
<1>3. CASE \E o \in Ops : JobDone(o)
  <2>1. PICK o \in Ops : JobDone(o)
    BY Zenon, <1>3
  <2>2. /\ o \in jobs /\ jobs' = jobs \ {o} /\ ring' = ring \cup {o} /\ d' = d /\ inflight' = inflight /\ posts' = posts
        /\ phase' = phase /\ left' = left /\ dropped' = dropped
    BY Zenon, <2>1 DEF JobDone, turnVars
  <2>3. Owners(d', inflight', jobs', ring')
    BY Zenon, <1>1, <2>2 DEF Owners
  <2> QED
    BY Zenon, <1>1, <2>2, <2>3 DEF LedgerInv, Books
<1> QED
  BY Zenon, <1>2, <1>3

\* The loop thread goes from one phase to another.
LEMMA MoveStep ==
  ASSUME LedgerInv, d' = d, inflight' = inflight, jobs' = jobs, ring' = ring, posts' = posts, dropped' = dropped,
         Turning(d, phase', left')
  PROVE  LedgerInv'
  BY Zenon DEF LedgerInv

\* The steps of a turn that only move on keep the books.
LEMMA PhaseStep ==
  ASSUME LedgerInv, \/ TurnBegin \/ ExpireDone \/ Poll \/ EventsDone \/ TimersDone \/ WorkDone \/ PostsDone
                    \/ DrainDone \/ TurnFails
  PROVE  LedgerInv'
<1>1. Turning(d, phase, left)
  BY Zenon DEF LedgerInv
<1>2. d' = d /\ inflight' = inflight /\ jobs' = jobs /\ ring' = ring /\ posts' = posts /\ dropped' = dropped
  BY Zenon DEF TurnBegin, ExpireDone, Poll, EventsDone, TimersDone, WorkDone, PostsDone, DrainDone, TurnFails,
     ExpireFails, PollFails, others
<1>3. left' \in Nat
  BY <1>1, EventsAssumption, OutAssumption
     DEF TurnBegin, ExpireDone, Poll, EventsDone, TimersDone, WorkDone, PostsDone, DrainDone, TurnFails, ExpireFails,
         PollFails, Goto, Turning
<1>4. phase' \in Phases
  BY DEF TurnBegin, ExpireDone, Poll, EventsDone, TimersDone, WorkDone, PostsDone, DrainDone, TurnFails, ExpireFails,
         PollFails, Goto, Phases
<1>5. phase' = "poll" => d.buffered["NATIVE"] = 0
  BY DEF TurnBegin, ExpireDone, Poll, EventsDone, TimersDone, WorkDone, PostsDone, DrainDone, TurnFails, ExpireFails,
         PollFails, Goto, NativeStep
<1>6. phase' = "events" => phase = "poll" /\ left' = EventsPerTurn
  BY DEF TurnBegin, ExpireDone, Poll, EventsDone, TimersDone, WorkDone, PostsDone, DrainDone, TurnFails, ExpireFails,
         PollFails, Goto
<1>7. phase' = "events" => d.buffered["NATIVE"] + left' <= EventsPerTurn
  BY <1>1, <1>6, EventsAssumption DEF Turning
<1>8. Turning(d, phase', left')
  BY Zenon, <1>3, <1>4, <1>5, <1>7 DEF Turning
<1> QED
  BY Zenon, <1>2, <1>8, MoveStep

\* An iteration of a loop of the turn, other than that over the native events.
LEMMA LoopStep ==
  ASSUME LedgerInv, NEW at \in Phases \ {"poll", "events"}, Iterate(at), Books(d', inflight', jobs', ring'),
         posts' \in 0 .. MaxPosts, dropped' = dropped
  PROVE  LedgerInv'
<1>1. Turning(d, phase, left) /\ dropped \in BOOLEAN
  BY Zenon DEF LedgerInv
<1>2. phase' = at /\ left' \in Nat
  BY <1>1 DEF Iterate, Turning
<1>3. Turning(d', phase', left')
  BY <1>2 DEF Turning
<1> QED
  BY Zenon, <1>1, <1>3 DEF LedgerInv

\* A connect that timed out is cancelled, and the books are kept.
LEMMA ExpireStep ==
  ASSUME Counting, Laws, LedgerInv, ExpireConnect
  PROVE  LedgerInv'
<1>1. PICK o \in d.deadlines : d' = [d EXCEPT !.deadlines = @ \ {o}, !.ops[o].cancel = TRUE]
  BY Zenon DEF ExpireConnect
<1>2. /\ inflight' = inflight /\ jobs' = jobs /\ ring' = ring /\ posts' = posts /\ phase' = phase /\ left' = left
      /\ dropped' = dropped /\ phase \in {"expire", "expire_again"}
  BY Zenon DEF ExpireConnect, others, turnVars
<1>3. Shaped(d) /\ Ledger(d) /\ Within(d) /\ Owners(d, inflight, jobs, ring)
  BY Zenon, BooksAre
<1>4. Shaped(d') /\ Ledger(d') /\ SameOthers(d, d')
  BY Zenon, <1>1, <1>3 DEF Laws, ExpireLaw
<1>5. Within(d')
  <2>1. IsDriver(d') /\ SameLimits(d, d')
    BY Zenon, <1>1, <1>3 DEF Within, SameLimits, IsDriver, Fields
  <2> QED
    BY Zenon, <1>3, <2>1, WithinSame
<1>6. Owners(d', inflight', jobs', ring')
  BY Zenon, <1>2, <1>3, <1>4, OwnersSame DEF SameOthers
<1>7. Turning(d', phase', left')
  <2>1. Turning(d, phase, left)
    BY Zenon DEF LedgerInv
  <2> QED
    BY <1>2, <2>1 DEF Turning
<1>8. posts' \in 0 .. MaxPosts /\ dropped' \in BOOLEAN
  BY Zenon, <1>2 DEF LedgerInv
<1> QED
  BY Zenon, <1>4, <1>5, <1>6, <1>7, <1>8 DEF LedgerInv, Books

\* A timer that fires keeps the books.
LEMMA FireStep ==
  ASSUME Counting, Laws, LedgerInv, FireTimer
  PROVE  LedgerInv'
<1>1. PICK h \in d.timers : \E o \in OpsOf(d, h) :
         \/ d.ops[o].kind = "interval" /\ d' = Finish(d, o, FALSE, None)
         \/ IsTimer(d.ops[o].kind) /\ d' = Finish([d EXCEPT !.timers = @ \ {h}], o, TRUE, None)
  BY Zenon DEF FireTimer
<1>2. PICK o \in OpsOf(d, h) :
         \/ d.ops[o].kind = "interval" /\ d' = Finish(d, o, FALSE, None)
         \/ IsTimer(d.ops[o].kind) /\ d' = Finish([d EXCEPT !.timers = @ \ {h}], o, TRUE, None)
  BY Zenon, <1>1
<1>3. /\ inflight' = inflight /\ jobs' = jobs /\ ring' = ring /\ posts' = posts /\ dropped' = dropped
      /\ Iterate("timers") /\ d.buffered["TIMER"] < EventsPerTurn
  BY Zenon DEF FireTimer, others
<1>4. Shaped(d) /\ Ledger(d) /\ Within(d) /\ Owners(d, inflight, jobs, ring)
  BY Zenon, BooksAre
<1>5. o \in LiveOps(d) /\ d.ops[o].handle = h
  BY Zenon DEF OpsOf
<1>6. Shaped(d') /\ Ledger(d') /\ SameOthers(d, d') /\ Within(d')
  <2>1. CASE d.ops[o].kind = "interval" /\ d' = Finish(d, o, FALSE, None)
    <3>1. d.ops[o].kind # "fs" /\ IsTimer(d.ops[o].kind) /\ "TIMER" \in Classes
      BY <2>1 DEF IsTimer, Classes
    <3>2. Shaped(d') /\ Ledger(d') /\ SameOthers(d, d')
      BY Zenon, <1>4, <1>5, <2>1, <3>1 DEF Laws, FinishMoreLaw
    <3>3. Within(d')
      BY Zenon, <1>3, <1>4, <2>1, <3>1, WithinMore DEF OneMore
    <3> QED
      BY Zenon, <3>2, <3>3
  <2>2. CASE IsTimer(d.ops[o].kind) /\ d' = Finish([d EXCEPT !.timers = @ \ {h}], o, TRUE, None)
    <3> DEFINE u == Disarm(d, o)
    <3>1. d' = Finish(u, o, TRUE, None)
      BY Zenon, <1>5, <2>2 DEF Disarm
    <3>2. Shaped(d') /\ Ledger(d') /\ SameOthers(d, d')
      BY Zenon, <1>4, <1>5, <2>2, <3>1 DEF Laws, CancelTimerLaw
    <3>3. IsDriver(u) /\ SameLimits(d, u)
      BY Zenon, <1>4 DEF Within, Disarm, SameLimits, IsDriver, Fields
    <3> HIDE DEF u
    <3>4. Within(u)
      BY Zenon, <1>4, <3>3, WithinSame
    <3>5. Within(d')
      BY Zenon, <3>1, <3>4, WithinFinish DEF Fits
    <3> QED
      BY Zenon, <3>2, <3>5
  <2> QED
    BY Zenon, <1>2, <2>1, <2>2
<1>7. Owners(d', inflight', jobs', ring')
  BY Zenon, <1>3, <1>4, <1>6, OwnersSame DEF SameOthers
<1>8. posts' \in 0 .. MaxPosts /\ "timers" \in Phases \ {"poll", "events"}
  BY <1>3 DEF LedgerInv, Phases
<1> QED
  BY Zenon, <1>3, <1>6, <1>7, <1>8, LoopStep DEF Books

\* The last completion of an operation that no timer ends.
LEMMA LastEnds ==
  ASSUME Counting, Laws, NEW s, Shaped(s), Ledger(s), Within(s), NEW o \in LiveOps(s), ~IsTimer(s.ops[o].kind),
         NEW t, \/ \E brings \in Handles \cup {None} : s.ops[o].kind # "fs" /\ t = Finish(s, o, TRUE, brings)
                \/ \E opened \in BOOLEAN : t = FinishFs(s, o, opened)
  PROVE  Ends(s, o, t) /\ Fits(s, t)
<1>1. CASE \E brings \in Handles \cup {None} : s.ops[o].kind # "fs" /\ t = Finish(s, o, TRUE, brings)
  <2>1. PICK brings \in Handles \cup {None} : s.ops[o].kind # "fs" /\ t = Finish(s, o, TRUE, brings)
    BY Zenon, <1>1
  <2>2. Shown(s, o)
    BY Zenon, <2>1 DEF Laws, NotHiddenLaw, Shown
  <2>3. Ends(s, o, t)
    BY Zenon, <2>1, <2>2 DEF Laws, FinishEndsLaw
  <2>4. Fits(s, t)
    BY Zenon, <2>1, WithinFinish
  <2> QED
    BY Zenon, <2>3, <2>4
<1>2. CASE \E opened \in BOOLEAN : t = FinishFs(s, o, opened)
  <2>1. PICK opened \in BOOLEAN : t = FinishFs(s, o, opened)
    BY Zenon, <1>2
  <2>2. Ends(s, o, t)
    BY Zenon, <2>1 DEF Laws, FinishFsLaw
  <2>3. Fits(s, t)
    BY Zenon, <2>1, WithinFinishFs
  <2> QED
    BY Zenon, <2>2, <2>3
<1> QED
  BY Zenon, <1>1, <1>2

\* A result popped from the ring keeps the books, also when it ends nothing
\* yet.
LEMMA WorkStep ==
  ASSUME Counting, Laws, LedgerInv, PopWork
  PROVE  LedgerInv'
<1>1. PICK o \in ring :
         /\ ring' = ring \ {o}
         /\ \/ d.ops[o].kind # "fs" /\ d' = Finish(d, o, TRUE, None)
            \/ \E opened \in BOOLEAN : d' = FinishFs(d, o, opened)
  BY Zenon DEF PopWork
<1>2. inflight' = inflight /\ jobs' = jobs /\ posts' = posts /\ dropped' = dropped /\ Iterate("work")
  BY Zenon DEF PopWork
<1>3. Shaped(d) /\ Ledger(d) /\ Within(d) /\ Owners(d, inflight, jobs, ring)
  BY Zenon, BooksAre
<1>4. o \in LiveOps(d) /\ ~IsTimer(d.ops[o].kind)
  BY Zenon, <1>1, <1>3, Owes
<1>5. Shaped(d') /\ Ledger(d') /\ Within(d') /\ Others(d') = Others(d) \ {o}
  BY Zenon, <1>1, <1>3, <1>4, LastEnds DEF Ends, Fits
<1>6. Owners(d', inflight', jobs', ring')
  BY Zenon, <1>1, <1>2, <1>3, <1>5, OwnersEnded
<1>7. posts' \in 0 .. MaxPosts /\ "work" \in Phases \ {"poll", "events"}
  BY <1>2 DEF LedgerInv, Phases
<1> QED
  BY Zenon, <1>2, <1>5, <1>6, <1>7, LoopStep DEF Books

\* A post that becomes a completion keeps the books.
LEMMA PostStep ==
  ASSUME Counting, Laws, LedgerInv, PopPost
  PROVE  LedgerInv'
<1> DEFINE e == Entry(None, FALSE, TRUE, "POST")
<1>1. /\ inflight' = inflight /\ jobs' = jobs /\ ring' = ring /\ dropped' = dropped /\ Iterate("posts")
      /\ d.buffered["POST"] < EventsPerTurn /\ posts > 0 /\ posts' = posts - 1 /\ d' = Enqueue(d, e)
  BY Zenon DEF PopPost
<1>2. Shaped(d) /\ Ledger(d) /\ Within(d) /\ Owners(d, inflight, jobs, ring)
  BY Zenon, BooksAre
<1>3. Shaped(d') /\ Ledger(d') /\ SameTables(d, d') /\ Queues(d, e, d')
  BY Zenon, <1>1, <1>2 DEF Laws, PostLaw
<1>4. Within(d')
  <2>1. e.class = "POST" /\ "POST" \in Classes
    BY DEF Entry, Classes
  <2> HIDE DEF e
  <2>2. d'.buffered = Buffer(d, "POST", 1) /\ d'.outstanding = d.outstanding /\ d'.undelivered = d.undelivered
    BY Zenon, <1>3, <2>1 DEF Queues
  <2> QED
    BY Zenon, <1>1, <1>2, <1>3, <2>1, <2>2, WithinEvent DEF Shaped, OneMore
<1>5. Owners(d', inflight', jobs', ring')
  BY Zenon, <1>1, <1>2, <1>3, OwnersOps DEF SameTables
<1>6. posts' \in 0 .. MaxPosts /\ "posts" \in Phases \ {"poll", "events"}
  BY <1>1, OutAssumption DEF LedgerInv, Phases
<1> QED
  BY Zenon, <1>1, <1>3, <1>4, <1>5, <1>6, LoopStep DEF Books

\* Delivery keeps the books: with a Closed its handle is released.
LEMMA DrainStep ==
  ASSUME Counting, Laws, LedgerInv, Drain
  PROVE  LedgerInv'
<1>1. /\ inflight' = inflight /\ jobs' = jobs /\ ring' = ring /\ posts' = posts /\ dropped' = dropped
      /\ Iterate("drain") /\ d.queued # << >> /\ d' = DrainOne(d)
  BY Zenon DEF Drain, others
<1>2. Shaped(d) /\ Ledger(d) /\ Within(d) /\ Owners(d, inflight, jobs, ring)
  BY Zenon, BooksAre
<1>3. Shaped(d') /\ Ledger(d') /\ d'.ops = d.ops /\ Within(d')
  BY Zenon, <1>1, <1>2, WithinDrain DEF Laws, DrainLaw
<1>4. Owners(d', inflight', jobs', ring')
  BY Zenon, <1>1, <1>2, <1>3, OwnersOps
<1>5. posts' \in 0 .. MaxPosts /\ "drain" \in Phases \ {"poll", "events"}
  BY <1>1 DEF LedgerInv, Phases
<1> QED
  BY Zenon, <1>1, <1>3, <1>4, <1>5, LoopStep DEF Books

---------------------------------------------------------------------------
\* Native events

\* attach_reserved(), whether or not the connection got its handle.
LEMMA AttachedKeeps ==
  ASSUME Counting, Laws, NEW s, Shaped(s), Ledger(s), Within(s), NEW o \in LiveOps(s), NEW u, u = Spend(s, o),
         NEW t, \/ \E h \in Room(u) : t = Refill(NewHandle(u, h, "Socket"), o)
                \/ t = Refill(u, o)
  PROVE  Shaped(t) /\ Ledger(t) /\ Within(t) /\ SameKinds(s, t) /\ t.buffered = s.buffered
<1>1. Shaped(u) /\ Ledger(u)
  BY Zenon DEF Laws, SpendLaw
<1>2. Within(u)
  BY Zenon, WithinFlags, WithinSame DEF Within
<1>3. CASE \E h \in Room(u) : t = Refill(NewHandle(u, h, "Socket"), o)
  <2>1. PICK h \in Room(u) : t = Refill(NewHandle(u, h, "Socket"), o)
    BY Zenon, <1>3
  <2>v. PICK v : v = NewHandle(u, h, "Socket")
    BY Zenon
  <2>2. h \in Handles \ Live(u)
    BY Zenon, <2>1, KnownIs
  <2>3. Shaped(v) /\ SameOpsAndQueue(u, v)
    BY Zenon, <1>1, <2>v, <2>2 DEF Laws, NewHandleLaw
  <2>4. Within(v)
    BY Zenon, <1>2, <2>3, WithinTables
  <2>5. Attached(s, t)
    <3>1. t = Refill(v, o)
      BY Zenon, <2>1, <2>v
    <3> QED
      BY Zenon, <2>v, <2>2, <3>1 DEF Laws, AttachLaw
  <2>6. Within(t)
    <3>1. t = Refill(v, o)
      BY Zenon, <2>1, <2>v
    <3> QED
      BY Zenon, <2>4, <3>1, WithinFlags, WithinSame DEF Within
  <2> QED
    BY Zenon, <2>5, <2>6 DEF Attached
<1>4. CASE t = Refill(u, o)
  <2>1. Attached(s, t)
    BY Zenon, <1>4 DEF Laws, UnattachedLaw
  <2>2. Within(t)
    BY Zenon, <1>2, <1>4, WithinFlags, WithinSame DEF Within
  <2> QED
    BY Zenon, <2>1, <2>2 DEF Attached
<1> QED
  BY Zenon, <1>3, <1>4

\* What an accepted connection does: it gets a slot, or none if its accept is
\* being cancelled.
LEMMA AttachIs ==
  ASSUME NEW o, NEW terminal, Attach(o, terminal), dropped \in BOOLEAN
  PROVE  /\ dropped' \in BOOLEAN
         /\ \E t : \E brings \in Handles \cup {None} :
               /\ \/ \E h \in Room(Spend(d, o)) : t = Refill(NewHandle(Spend(d, o), h, "Socket"), o)
                  \/ t = Refill(Spend(d, o), o)
               /\ d' = Finish(t, o, terminal, brings)
<1>1. dropped' \in BOOLEAN
  BY DEF Attach
<1>2. \/ \E h \in Room(Spend(d, o)) : d' = Finish(Refill(NewHandle(Spend(d, o), h, "Socket"), o), o, terminal, h)
      \/ d' = Finish(Refill(Spend(d, o), o), o, terminal, None)
  BY Zenon DEF Attach
<1>3. \A h \in Room(Spend(d, o)) : h \in Handles \cup {None}
  BY Zenon, KnownIs
<1> QED
  BY Zenon, <1>1, <1>2, <1>3

\* An iteration over the native events uses up one of what is left.
LEMMA EventStep ==
  ASSUME LedgerInv, Iterate("events"), Books(d', inflight', jobs', ring'), posts' = posts, dropped' \in BOOLEAN,
         d'.buffered["NATIVE"] <= d.buffered["NATIVE"] + 1
  PROVE  LedgerInv'
<1>1. Turning(d, phase, left) /\ posts \in 0 .. MaxPosts
  BY Zenon DEF LedgerInv
<1>2. d.buffered["NATIVE"] \in Int /\ d'.buffered["NATIVE"] \in Int
  <2>1. "NATIVE" \in Classes
    BY DEF Classes
  <2>2. d.buffered \in [Classes -> Int] /\ d'.buffered \in [Classes -> Int]
    BY Zenon, BooksAre DEF Books, Within
  <2> QED
    BY <2>1, <2>2
<1>3. phase = "events" /\ phase' = "events" /\ left > 0 /\ left' = left - 1
  BY Zenon DEF Iterate
<1>4. Turning(d', phase', left')
  BY <1>1, <1>2, <1>3, EventsAssumption DEF Turning
<1> QED
  BY Zenon, <1>1, <1>4 DEF LedgerInv

\* The last event of an operation keeps the books, with the connection it may
\* bring.
LEMMA EventLastStep ==
  ASSUME Counting, Laws, LedgerInv, NEW o \in Ops, EventLast(o)
  PROVE  LedgerInv'
<1>1. /\ Iterate("events") /\ o \in inflight /\ inflight' = inflight \ {o} /\ jobs' = jobs /\ ring' = ring
      /\ posts' = posts
  BY Zenon DEF EventLast
<1>2. Shaped(d) /\ Ledger(d) /\ Within(d) /\ Owners(d, inflight, jobs, ring) /\ dropped \in BOOLEAN
  BY Zenon, BooksAre DEF LedgerInv
<1>3. o \in LiveOps(d) /\ ~IsTimer(d.ops[o].kind)
  BY Zenon, <1>1, <1>2, Owes
<1>4. /\ Shaped(d') /\ Ledger(d') /\ Within(d') /\ Others(d') = Others(d) \ {o} /\ d'.buffered = d.buffered
      /\ dropped' \in BOOLEAN
  <2>1. CASE d.ops[o].kind = "accept" /\ Attach(o, TRUE)
    <3>1. dropped' \in BOOLEAN
      BY Zenon, <1>2, <2>1, AttachIs
    <3>2. PICK t : \E brings \in Handles \cup {None} :
               /\ \/ \E h \in Room(Spend(d, o)) : t = Refill(NewHandle(Spend(d, o), h, "Socket"), o)
                  \/ t = Refill(Spend(d, o), o)
               /\ d' = Finish(t, o, TRUE, brings)
      BY Zenon, <1>2, <2>1, AttachIs
    <3>3. Shaped(t) /\ Ledger(t) /\ Within(t) /\ SameKinds(d, t) /\ t.buffered = d.buffered
      BY Zenon, <1>2, <1>3, <3>2, AttachedKeeps
    <3>4. o \in LiveOps(t) /\ t.ops[o].kind = d.ops[o].kind /\ Others(t) = Others(d)
      BY Zenon, <1>3, <3>3 DEF Laws, OthersSameLaw, SameKinds
    <3>5. t.ops[o].kind # "fs" /\ ~IsTimer(t.ops[o].kind)
      BY <1>3, <2>1, <3>4
    <3>6. Shaped(d') /\ Ledger(d') /\ Within(d') /\ Others(d') = Others(t) \ {o} /\ d'.buffered = t.buffered
      <4>1. \E brings \in Handles \cup {None} : t.ops[o].kind # "fs" /\ d' = Finish(t, o, TRUE, brings)
        BY Zenon, <3>2, <3>5
      <4>2. Ends(t, o, d') /\ Fits(t, d')
        BY Zenon, <3>3, <3>4, <3>5, <4>1, LastEnds
      <4> QED
        BY Zenon, <4>2 DEF Ends, Fits
    <3> QED
      BY Zenon, <3>1, <3>3, <3>4, <3>6
  <2>2. CASE dropped' = dropped /\ \/ d.ops[o].kind # "fs" /\ d' = Finish(d, o, TRUE, None)
                                   \/ \E opened \in BOOLEAN : d' = FinishFs(d, o, opened)
    BY Zenon, <1>2, <1>3, <2>2, LastEnds DEF Ends, Fits
  <2> QED
    BY Zenon, <2>1, <2>2 DEF EventLast
<1>5. Owners(d', inflight', jobs', ring')
  BY Zenon, <1>1, <1>2, <1>4, OwnersEnded
<1>6. d'.buffered["NATIVE"] <= d.buffered["NATIVE"] + 1
  BY <1>2, <1>4 DEF Within, Classes
<1> QED
  BY Zenon, <1>1, <1>4, <1>5, <1>6, EventStep DEF Books

\* An event of a multishot operation keeps the books and the operation.
LEMMA EventMoreStep ==
  ASSUME Counting, Laws, LedgerInv, NEW o \in Ops, EventMore(o)
  PROVE  LedgerInv'
<1>1. /\ Iterate("events") /\ o \in inflight /\ inflight' = inflight /\ jobs' = jobs /\ ring' = ring /\ posts' = posts
  BY Zenon DEF EventMore, others
<1>2. /\ Shaped(d) /\ Ledger(d) /\ Within(d) /\ Owners(d, inflight, jobs, ring) /\ dropped \in BOOLEAN
      /\ Turning(d, phase, left)
  BY Zenon, BooksAre DEF LedgerInv
<1>3. o \in LiveOps(d) /\ ~IsTimer(d.ops[o].kind)
  BY Zenon, <1>1, <1>2, Owes
<1>4. "NATIVE" \in Classes /\ d.buffered["NATIVE"] \in Int /\ d.buffered["NATIVE"] < EventsPerTurn
  <2>1. "NATIVE" \in Classes
    BY DEF Classes
  <2>2. d.buffered \in [Classes -> Int]
    BY Zenon, <1>2 DEF Within
  <2>3. phase = "events" /\ left > 0
    BY Zenon, <1>1 DEF Iterate
  <2> QED
    BY <1>2, <2>1, <2>2, <2>3, EventsAssumption DEF Turning
<1>5. CASE d' = d /\ dropped' = dropped
  <2>1. d'.buffered["NATIVE"] <= d.buffered["NATIVE"] + 1
    BY <1>4, <1>5
  <2> QED
    BY Zenon, <1>1, <1>2, <1>5, <2>1, EventStep DEF Books
<1>6. CASE \E t : \E brings \in Handles \cup {None} :
              /\ Shaped(t) /\ Ledger(t) /\ Within(t) /\ SameKinds(d, t) /\ t.buffered = d.buffered
              /\ t.ops[o].kind # "fs" /\ d' = Finish(t, o, FALSE, brings) /\ dropped' \in BOOLEAN
  <2>1. PICK t : \E brings \in Handles \cup {None} :
              /\ Shaped(t) /\ Ledger(t) /\ Within(t) /\ SameKinds(d, t) /\ t.buffered = d.buffered
              /\ t.ops[o].kind # "fs" /\ d' = Finish(t, o, FALSE, brings) /\ dropped' \in BOOLEAN
    BY Zenon, <1>6
  <2>2. o \in LiveOps(t) /\ ~IsTimer(t.ops[o].kind) /\ Others(t) = Others(d)
    BY Zenon, <1>3, <2>1 DEF Laws, OthersSameLaw, SameKinds
  <2>3. Shaped(d') /\ Ledger(d') /\ Others(d') = Others(t)
    BY Zenon, <2>1, <2>2 DEF Laws, FinishMoreLaw, SameOthers
  <2>4. Within(d') /\ d'.buffered["NATIVE"] = d.buffered["NATIVE"] + 1
    <3>1. PICK brings : d' = Finish(t, o, FALSE, brings)
      BY Zenon, <2>1
    <3>2. "NATIVE" = IF IsTimer(t.ops[o].kind) THEN "TIMER" ELSE "NATIVE"
      BY Zenon, <2>2
    <3>3. Within(t) /\ t.buffered = d.buffered
      BY Zenon, <2>1
    <3>4. t.buffered["NATIVE"] < EventsPerTurn
      BY Zenon, <1>4, <3>3
    <3>5. OneMore(t, "NATIVE", d')
      BY Zenon, <1>4, <3>1, <3>2, <3>3, <3>4, WithinMore
    <3> QED
      BY Zenon, <3>3, <3>5 DEF OneMore
  <2>5. Owners(d', inflight', jobs', ring')
    BY Zenon, <1>1, <1>2, <2>2, <2>3, OwnersSame
  <2>6. d'.buffered["NATIVE"] <= d.buffered["NATIVE"] + 1
    BY <1>4, <2>4
  <2> QED
    BY Zenon, <1>1, <2>1, <2>3, <2>4, <2>5, <2>6, EventStep DEF Books
<1>7. CASE d.ops[o].kind \in {"watch", "read_start"} /\ ~d.ops[o].cancel /\ d' = Finish(d, o, FALSE, None) /\ dropped' = dropped
  <2>1. SameKinds(d, d) /\ d.ops[o].kind # "fs"
    BY <1>7 DEF SameKinds
  <2> QED
    BY Zenon, <1>2, <1>6, <1>7, <2>1
<1>8. CASE d.ops[o].kind = "accept_start" /\ Attach(o, FALSE)
  <2>1. dropped' \in BOOLEAN
    BY Zenon, <1>2, <1>8, AttachIs
  <2>2. PICK t : \E brings \in Handles \cup {None} :
             /\ \/ \E h \in Room(Spend(d, o)) : t = Refill(NewHandle(Spend(d, o), h, "Socket"), o)
                \/ t = Refill(Spend(d, o), o)
             /\ d' = Finish(t, o, FALSE, brings)
    BY Zenon, <1>2, <1>8, AttachIs
  <2>3. Shaped(t) /\ Ledger(t) /\ Within(t) /\ SameKinds(d, t) /\ t.buffered = d.buffered
    BY Zenon, <1>2, <1>3, <2>2, AttachedKeeps
  <2>4. t.ops[o].kind # "fs"
    BY <1>3, <1>8, <2>3 DEF SameKinds
  <2> QED
    BY Zenon, <1>6, <2>1, <2>2, <2>3, <2>4
<1> QED
  BY Zenon, <1>5, <1>7, <1>8 DEF EventMore

---------------------------------------------------------------------------
\* The ledger is kept

\* A new driver has its books in order.
LEMMA LedgerInit ==
  ASSUME Counting, Laws, Init
  PROVE  LedgerInv
<1>1. /\ d = InitDriver /\ inflight = {} /\ jobs = {} /\ ring = {} /\ posts = 0 /\ phase = "host" /\ left = 0
      /\ dropped = FALSE
  BY Zenon DEF Init
<1>2. Shaped(d) /\ Ledger(d) /\ Others(d) = {} /\ Within(d)
  BY Zenon, <1>1, WithinInit DEF Laws, InitLaw
<1>3. Owners(d, inflight, jobs, ring)
  BY Zenon, <1>1, <1>2 DEF Owners
<1>4. Turning(d, phase, left)
  BY <1>1 DEF Turning, Phases
<1>5. posts \in 0 .. MaxPosts
  BY <1>1, OutAssumption
<1>6. dropped \in BOOLEAN
  BY <1>1
<1> QED
  BY Zenon, <1>2, <1>3, <1>4, <1>5, <1>6 DEF LedgerInv, Books

\* Every step keeps the books, given that the promises are numbers.
LEMMA LedgerNext ==
  ASSUME Counting, Laws, UndoLaws, LedgerInv, Pledged(d), [Next]_vars
  PROVE  LedgerInv'
<1>1. CASE UNCHANGED vars
  BY Zenon, <1>1 DEF vars, LedgerInv
<1>2. CASE Next
  <2>1. ASSUME \E o \in Ops : EventLast(o) \/ EventMore(o) PROVE LedgerInv'
    BY Zenon, <2>1, EventLastStep, EventMoreStep
  <2>2. ASSUME TurnStep PROVE LedgerInv'
    BY Zenon, <2>2, ExpireStep, FireStep, WorkStep, PostStep, DrainStep, PhaseStep DEF TurnStep
  <2> QED
    BY Zenon, <1>2, <2>1, <2>2, CallStep, RefusalStep, ThreadStep, PhaseStep DEF Next
<1> QED
  BY Zenon, <1>1, <1>2

---------------------------------------------------------------------------
\* What the ledger says

\* The size of an interval.
Intervals == \A n \in Nat : IsFiniteSet(1 .. n) /\ Cardinality(1 .. n) = n

\* The places of the queue that hold Closed.
Goodbyes == {e \in Completions : e.closed}

\* There are no more of them than handles, since each names its own.
LEMMA GoodbyesFit ==
  ASSUME Counting, NEW s, Lines(s)
  PROVE  Cardinality(At(s.queued, Goodbyes)) <= Cardinality(Handles)
<1> DEFINE T == At(s.queued, Goodbyes)
           f == [i \in T |-> s.queued[i].handle]
<1>1. s.queued \in Seq(Completions) /\ Named(s)
  BY Zenon DEF Lines
<1>2. ASSUME NEW i \in T PROVE i \in DOMAIN s.queued /\ s.queued[i].closed /\ i \in Nat
  BY <1>1 DEF At, Goodbyes
<1>3. ASSUME NEW i \in T PROVE s.queued[i].handle \in Handles
  <2>1. s.queued[i].handle # None
    BY Zenon, <1>2 DEF Lines, Proper, Event, Result, Goodbye
  <2>2. s.queued[i].handle \in Live(s) \cup {None}
    BY Zenon, <1>1, <1>2 DEF Named
  <2> QED
    BY Zenon, <2>1, <2>2 DEF Live
<1>4. ASSUME NEW i \in T, NEW j \in T, s.queued[i].handle = s.queued[j].handle PROVE i = j
  <2>1. ~(j > i) /\ ~(i > j)
    BY Zenon, <1>1, <1>2, <1>4 DEF Named
  <2> QED
    BY <1>2, <2>1
<1>5. OneToOne(f, T, Handles)
  BY Zenon, <1>3, <1>4 DEF OneToOne
<1> HIDE DEF f
<1> QED
  BY Zenon, <1>5, SlotsAssumption DEF Counting

\* The sizes of two sets that are apart add up.
LEMMA UnionSize ==
  ASSUME Counting, NEW T, NEW U, IsFiniteSet(T), IsFiniteSet(U), T \cap U = {}
  PROVE  IsFiniteSet(T \cup U) /\ Cardinality(T \cup U) = Cardinality(T) + Cardinality(U)
  BY Zenon DEF Counting

\* completion_capacity: a reserve for each class of events, a place for each
\* operation's result and one for each handle's Closed.
LEMMA QueueBound ==
  ASSUME Counting, Laws, Intervals, NEW s, Shaped(s), Ledger(s), Within(s)
  PROVE  Len(s.queued) <= CompletionCapacity
<1> DEFINE q == s.queued
           A == At(q, OfClass("NATIVE"))
           B == At(q, OfClass("TIMER"))
           C == At(q, OfClass("POST"))
           E == At(q, Results)
           G == At(q, Goodbyes)
<1>1. q \in Seq(Completions) /\ Lines(s) /\ Owed(s)
  BY Zenon DEF Ledger, Sums, Lines
<1>2. /\ IsFiniteSet(A) /\ IsFiniteSet(B) /\ IsFiniteSet(C) /\ IsFiniteSet(E) /\ IsFiniteSet(G)
      /\ Cardinality(A) \in Nat /\ Cardinality(B) \in Nat /\ Cardinality(C) \in Nat
      /\ Cardinality(E) \in Nat /\ Cardinality(G) \in Nat
  BY Zenon, <1>1 DEF Laws, AtFiniteLaw
<1>3. ASSUME NEW i \in DOMAIN q PROVE Proper(q[i]) /\ q[i] \in Completions
  BY <1>1 DEF Lines
<1>4. DOMAIN q = (((A \cup B) \cup C) \cup E) \cup G
  <2>1. ASSUME NEW i \in DOMAIN q PROVE i \in (((A \cup B) \cup C) \cup E) \cup G
    BY <1>3, <2>1 DEF At, Proper, Event, Result, Goodbye, OfClass, Classes, Results, Goodbyes
  <2>2. A \subseteq DOMAIN q /\ B \subseteq DOMAIN q /\ C \subseteq DOMAIN q /\ E \subseteq DOMAIN q /\ G \subseteq DOMAIN q
    BY Zenon DEF At
  <2> HIDE DEF A, B, C, E, G
  <2> QED
    BY Zenon, <2>1, <2>2
<1>5. /\ A \cap B = {} /\ (A \cup B) \cap C = {} /\ ((A \cup B) \cup C) \cap E = {}
      /\ (((A \cup B) \cup C) \cup E) \cap G = {}
  BY <1>3 DEF At, Proper, Event, Result, Goodbye, OfClass, Classes, Results, Goodbyes
<1>6. /\ Cardinality(A) <= EventsPerTurn /\ Cardinality(B) <= EventsPerTurn /\ Cardinality(C) <= EventsPerTurn
  <2>1. "NATIVE" \in Classes /\ "TIMER" \in Classes /\ "POST" \in Classes
    BY DEF Classes
  <2>2. \A c \in Classes : s.buffered[c] = Cardinality(At(q, OfClass(c))) /\ s.buffered[c] <= EventsPerTurn
    BY Zenon, <1>1 DEF Lines, Buffers, Within
  <2> QED
    BY Zenon, <2>1, <2>2
<1>7. Cardinality(E) <= Cardinality(Ops) /\ Cardinality(Ops) \in Nat
  <2>1. s.outstanding = Cardinality(LiveOps(s)) + Cardinality(E) /\ s.outstanding <= Cardinality(Ops)
    BY Zenon, <1>1 DEF Owed, Within
  <2>2. Cardinality(LiveOps(s)) \in Nat /\ Cardinality(Ops) \in Nat
    BY DEF Laws, OpsFiniteLaw, LiveOps
  <2> HIDE DEF E
  <2> QED
    BY <1>2, <2>1, <2>2
<1>8. Cardinality(G) <= Cardinality(Handles) /\ Cardinality(Handles) \in Nat
  BY Zenon, <1>1, GoodbyesFit, SlotsAssumption DEF Counting
<1>9. DOMAIN q = 1 .. Len(q) /\ Len(q) \in Nat
  BY <1>1
<1> HIDE DEF A, B, C, E, G, q
<1>10. IsFiniteSet(A \cup B) /\ Cardinality(A \cup B) = Cardinality(A) + Cardinality(B)
  BY Zenon, <1>2, <1>5, UnionSize
<1>11. IsFiniteSet((A \cup B) \cup C) /\ Cardinality((A \cup B) \cup C) = Cardinality(A \cup B) + Cardinality(C)
  BY Zenon, <1>2, <1>5, <1>10, UnionSize
<1>12. /\ IsFiniteSet(((A \cup B) \cup C) \cup E)
       /\ Cardinality(((A \cup B) \cup C) \cup E) = Cardinality((A \cup B) \cup C) + Cardinality(E)
  BY Zenon, <1>2, <1>5, <1>11, UnionSize
<1>13. Cardinality(DOMAIN q) = Cardinality(((A \cup B) \cup C) \cup E) + Cardinality(G)
  BY Zenon, <1>2, <1>4, <1>5, <1>12, UnionSize
<1>14. Cardinality(DOMAIN q) = Len(q)
  BY Zenon, <1>9 DEF Intervals
<1>15. Len(q) <= 3 * EventsPerTurn + Cardinality(Ops) + Cardinality(Handles)
  <2>1. Cardinality(A \cup B) \in Nat /\ Cardinality(A \cup B) <= 2 * EventsPerTurn
    BY <1>2, <1>6, <1>10, EventsAssumption
  <2>2. Cardinality((A \cup B) \cup C) \in Nat /\ Cardinality((A \cup B) \cup C) <= 3 * EventsPerTurn
    BY <1>2, <1>6, <1>11, <2>1, EventsAssumption
  <2>3. /\ Cardinality(((A \cup B) \cup C) \cup E) \in Nat
        /\ Cardinality(((A \cup B) \cup C) \cup E) <= 3 * EventsPerTurn + Cardinality(Ops)
    BY <1>2, <1>7, <1>12, <2>2, EventsAssumption
  <2>4. Len(q) = Cardinality(((A \cup B) \cup C) \cup E) + Cardinality(G)
    BY Zenon, <1>13, <1>14
  <2> QED
    BY <1>2, <1>7, <1>8, <2>3, <2>4, EventsAssumption
<1> QED
  BY Zenon, <1>15 DEF CompletionCapacity, q

\* Books in order keep the queue within its limits.
LEMMA LedgerFits ==
  ASSUME Counting, Laws, Intervals, LedgerInv
  PROVE  QueueFits
<1>1. Shaped(d) /\ Ledger(d) /\ Within(d)
  BY Zenon, BooksAre
<1>2. Len(d.queued) <= CompletionCapacity
  BY Zenon, <1>1, QueueBound
<1>3. d.queued \in Seq(Completions) /\ Buffers(d)
  BY Zenon, <1>1 DEF Ledger, Sums, Lines
<1>4. ASSUME NEW c \in Classes
      PROVE  d.buffered[c] = Cardinality({i \in DOMAIN d.queued : d.queued[i].class = c})
  <2>1. At(d.queued, OfClass(c)) = {i \in DOMAIN d.queued : d.queued[i].class = c}
    BY <1>3 DEF At, OfClass
  <2> QED
    BY Zenon, <1>3, <2>1 DEF Buffers
<1> QED
  BY Zenon, <1>2, <1>4 DEF QueueFits

\* Books in order make outstanding, refs and the other counters exact.
LEMMA LedgerBalances ==
  ASSUME LedgerInv
  PROVE  OutstandingIsExact /\ RefsAreExact /\ CountersAreExact
<1>1. Shaped(d) /\ Tallies(d) /\ Owed(d) /\ Refs(d) /\ Carried(d) /\ Lines(d)
  BY Zenon, BooksAre DEF Ledger, Sums, Weights
<1>2. d.queued \in Seq(Completions)
  BY Zenon, <1>1 DEF Lines
<1>3. /\ At(d.queued, Results) = {i \in DOMAIN d.queued : d.queued[i].terminal /\ d.queued[i].op}
      /\ At(d.queued, Counted) = {i \in DOMAIN d.queued : d.queued[i].referenced}
  BY <1>2 DEF At, Results, Counted
<1>4. OutstandingIsExact
  BY Zenon, <1>1, <1>3 DEF Owed, OutstandingIsExact
<1>5. RefsAreExact
  <2>1. \A i \in DOMAIN d.queued :
           d.queued[i].terminal /\ d.queued[i].op /\ Present(d, d.queued[i].handle) =>
              (d.queued[i].referenced <=> d.handles[d.queued[i].handle].referenced)
    BY Zenon, <1>1 DEF Carried, Present
  <2> QED
    BY Zenon, <1>1, <1>3, <2>1 DEF Refs, RefsAreExact, Weighty, Weighing
<1>6. CountersAreExact
  <2>1. \A o \in LiveOps(d) : d.ops[o].handle # None => Present(d, d.ops[o].handle)
    BY Zenon, <1>1 DEF Tallies, Present, Live
  <2> QED
    BY Zenon, <1>1, <2>1 DEF Tallies, CountersAreExact, Natives, Ports
<1> QED
  BY Zenon, <1>4, <1>5, <1>6

\* Books in order give every live operation an owner that will end it.
LEMMA LedgerOwns ==
  ASSUME LedgerInv
  PROVE  EveryOpHasOwner
<1>1. Ledger(d) /\ Owners(d, inflight, jobs, ring)
  BY Zenon, BooksAre
<1> SUFFICES ASSUME NEW o \in Ops
             PROVE  One(o \in inflight) + One(o \in jobs) + One(o \in ring)
                    + One(/\ o \in LiveOps(d) /\ IsTimer(d.ops[o].kind)
                          /\ d.ops[o].handle \in d.timers)
                       = One(o \in LiveOps(d))
  BY Zenon DEF EveryOpHasOwner
<1>2. o \in LiveOps(d) /\ IsTimer(d.ops[o].kind) => d.ops[o].handle \in d.timers
  <2>1. o # None
    BY NoneAssumption
  <2> QED
    BY Zenon, <1>1, <2>1 DEF Ledger, Clocks, ClocksBut, TimerOp
<1>3. /\ o \in inflight \cup jobs \cup ring <=> o \in LiveOps(d) /\ ~IsTimer(d.ops[o].kind)
      /\ ~(o \in inflight /\ o \in jobs) /\ ~(o \in inflight /\ o \in ring) /\ ~(o \in jobs /\ o \in ring)
  BY <1>1 DEF Owners, Others
<1> QED
  BY <1>2, <1>3 DEF One

\* Books in order have Closed last and deadlines of live operations.
LEMMA LedgerOrders ==
  ASSUME LedgerInv
  PROVE  ClosedIsLast /\ DeadlinesAreLive
<1>1. Shaped(d) /\ Lines(d) /\ Clocks(d)
  BY Zenon, BooksAre DEF Ledger, Sums
<1>2. ClosedIsLast
  BY Zenon, <1>1 DEF Lines, Named, Parted, ClosedIsLast
<1>3. DeadlinesAreLive
  <2>1. \A h \in d.timers : h \in Live(d) /\ OpsOf(d, h) # {} /\ ~d.handles[h].closing
    BY <1>1 DEF Clocks, ClocksBut, Armed
  <2>2. \A o \in d.deadlines : o \in LiveOps(d) /\ o # None
    BY <1>1, NoneAssumption DEF Shaped, LiveOps
  <2>3. \A o \in d.deadlines : ~d.ops[o].cancel
    BY Zenon, <1>1, <2>2 DEF Clocks, ClocksBut, TimerOp
  <2> QED
    BY Zenon, <2>1, <2>2, <2>3 DEF DeadlinesAreLive
<1> QED
  BY Zenon, <1>2, <1>3

\* Where the books are kept every field has its type, and every counter is a
\* number within its limit.
LEMMA LedgerTypes ==
  ASSUME Counting, Laws, LedgerInv, accepts \in Nat,
         d.reserved_handles \in Nat, d.multishot_armed \in Nat, d.multishot_reserved \in Nat
  PROVE  TypeOK
<1>1. /\ Shaped(d) /\ Ledger(d) /\ Within(d) /\ Owners(d, inflight, jobs, ring)
      /\ phase \in Phases /\ left \in Nat /\ posts \in 0 .. MaxPosts /\ dropped \in BOOLEAN
  BY Zenon DEF LedgerInv, Books, Turning
<1>2. Lines(d) /\ Tallies(d) /\ Owed(d) /\ Refs(d) /\ Clocks(d)
  BY Zenon, <1>1 DEF Ledger, Sums, Weights
<1>3. /\ IsDriver(d) /\ d.handles \in [Handles -> Resources \cup {Free}]
      /\ d.ops \in [Ops -> Operations \cup {Free}] /\ d.deadlines \subseteq Ops
  BY Zenon, <1>1 DEF Shaped, Free, LiveOps
<1>4. d.queued \in Seq(Completions)
  BY Zenon, <1>2 DEF Lines
<1>5. \A i \in DOMAIN d.queued : d.queued[i] \in Completions
  BY <1>4
<1>6. d.timers \subseteq Handles
  BY <1>2 DEF Clocks, ClocksBut, Armed, Live
<1>7. Cardinality(LiveOps(d)) \in Nat /\ Cardinality(At(d.queued, Results)) \in Nat
      /\ Cardinality(Weighty(d)) \in Nat /\ Cardinality(Weighing(d)) \in Nat
      /\ Cardinality(At(d.queued, Counted)) \in Nat
  <2>1. Numbers(d)
    BY Zenon, <1>4 DEF Laws, NumbersHoldLaw
  <2> QED
    BY Zenon, <2>1 DEF Numbers
<1>8. Cardinality(Natives(d)) \in Nat /\ Cardinality(Ports(d)) \in Nat
  <2>1. Natives(d) \subseteq LiveOps(d) /\ Ports(d) \subseteq LiveOps(d)
    BY DEF Natives, Ports
  <2>2. IsFiniteSet(LiveOps(d))
    <3>1. Numbers(d)
      BY Zenon, <1>4 DEF Laws, NumbersHoldLaw
    <3> QED
      BY Zenon, <3>1 DEF Numbers
  <2> QED
    BY Zenon, <2>1, <2>2 DEF Counting
<1>9. d.refs \in Nat /\ d.outstanding \in Nat /\ d.native_pending \in Nat /\ d.undelivered \in Nat
  BY <1>2, <1>7, <1>8 DEF Owed, Refs, Tallies
<1>10. d.outstanding \in 0 .. Cardinality(Ops) /\ d.undelivered \in 0 .. MaxUndelivered
  <2>1. d.outstanding <= Cardinality(Ops) /\ d.undelivered <= MaxUndelivered
    BY Zenon, <1>1 DEF Within
  <2>2. Cardinality(Ops) \in Nat
    BY Zenon, SlotsAssumption DEF Counting
  <2>3. MaxUndelivered \in Nat
    BY UndeliveredAssumption
  <2> QED
    BY <1>9, <2>1, <2>2, <2>3
<1>11. d.buffered \in [Classes -> 0 .. EventsPerTurn]
  <2>1. d.buffered \in [Classes -> Int] /\ (\A c \in Classes : d.buffered[c] <= EventsPerTurn) /\ Buffers(d)
    BY Zenon, <1>1, <1>2 DEF Within, Lines
  <2>2. \A c \in Classes : d.buffered[c] \in Nat
    <3> SUFFICES ASSUME NEW c \in Classes PROVE d.buffered[c] \in Nat
      OBVIOUS
    <3>1. Cardinality(At(d.queued, OfClass(c))) \in Nat
      BY Zenon, <1>4 DEF Laws, AtFiniteLaw
    <3> QED
      BY Zenon, <2>1, <3>1 DEF Buffers
  <2>3. EventsPerTurn \in Nat
    BY EventsAssumption
  <2> QED
    BY <2>1, <2>2, <2>3
<1>12. inflight \subseteq Ops /\ jobs \subseteq Ops /\ ring \subseteq Ops
  BY <1>1 DEF Owners, Others, LiveOps
<1> QED
  BY Zenon, <1>1, <1>3, <1>5, <1>6, <1>9, <1>10, <1>11, <1>12 DEF TypeOK

===============================================================================
