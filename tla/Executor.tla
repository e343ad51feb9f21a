------------------------------ MODULE Executor ------------------------------
(***************************************************************************)
(* The local futures executor (executor.rs): tasks polled from the host's  *)
(* turn, futures that hold a slot with a generation and a staging buffer,  *)
(* and the routing of completions to slots.  The driver is what the        *)
(* executor sees of it: operations in flight that complete once, cancelled *)
(* or not, handles that are open until closed and Closed until delivered,  *)
(* and a sticky notification.  A future is one of the executor's: `io'     *)
(* stands for read, write, shutdown, resolve, blocking and fetch, which    *)
(* use their slot alike; `connect' never stores its operation.             *)
(***************************************************************************)
EXTENDS Naturals, FiniteSets

CONSTANTS
    Slots,          \* ExecutorConfig::operations, as 1 .. n
    MaxGeneration,  \* 0x7fff_ffff in the code
    Futures,
    TaskOf,         \* the task that owns each future
    Handles         \* bound: loop handles at one time

VARIABLES
    ex,         \* slots, operations in flight, handles
    futures,    \* [kind, slot, gen, handle] of each pending future
    streams,    \* handles owned by AsyncIo adapters
    tasks,      \* "none", "live" or "cancelled"
    ready,      \* TaskWake::ready
    waking,     \* tasks whose waker has stored ready and not yet notified
    notified,   \* the driver's notification
    phase,      \* where the host thread is
    todo,       \* tasks the pass has not visited
    polling     \* the task being polled

exVars == <<ex, futures, streams, tasks, ready, waking, notified, phase, todo, polling>>

Tasks == {TaskOf[f] : f \in Futures}
None == "none"
NoFuture == [kind |-> None, slot |-> 0, gen |-> 0, handle |-> None]
NoSlot == [gen |-> 0, used |-> FALSE, abandoned |-> FALSE, op |-> FALSE, timer |-> FALSE,
           closing |-> None, result |-> None, conn |-> None, waker |-> None]
Kinds == {"io", "accept", "sleep", "connect", "close"}

ExInit ==
    /\ ex = [slots |-> [s \in Slots |-> NoSlot], flight |-> {}, handles |-> [h \in Handles |-> "none"]]
    /\ futures = [f \in Futures |-> NoFuture] /\ streams = {}
    /\ tasks = [t \in Tasks |-> "none"] /\ ready = [t \in Tasks |-> FALSE]
    /\ waking = {} /\ notified = FALSE
    /\ phase = "host" /\ todo = {} /\ polling = None

---------------------------------------------------------------------------
(* Methods of Shared, as functions of the executor's record. *)

CloseHandle(e, h) == IF h \in Handles THEN [e EXCEPT !.handles[h] = IF @ = "open" THEN "closing" ELSE @] ELSE e

Unused(e) == {s \in Slots : ~e.slots[s].used /\ e.slots[s].gen < MaxGeneration}
Reserve(e, s, t) ==
    [e EXCEPT !.slots[s] = [@ EXCEPT !.gen = @ + 1, !.used = TRUE, !.abandoned = FALSE, !.waker = t]]

\* Fault: what the slot still holds is forgotten.
FreeDropsResult(e, s) ==
    [e EXCEPT !.slots[s] = [NoSlot EXCEPT !.gen = e.slots[s].gen, !.abandoned = e.slots[s].abandoned]]

\* free: a connection left in the slot's result is closed.
Free(e, s) ==
    CloseHandle([e EXCEPT !.slots[s] = [NoSlot EXCEPT !.gen = e.slots[s].gen, !.abandoned = e.slots[s].abandoned]],
                e.slots[s].conn)

Cancelled(e, s, g) == [e EXCEPT !.flight = {IF c.slot = s /\ c.gen = g THEN [c EXCEPT !.cancel = TRUE] ELSE c : c \in @}]

\* abandon: the timer is closed or the operation cancelled, either of which
\* ends it; the slot is kept until that end has been delivered.
Abandon(e, s, g) ==
    IF ~e.slots[s].used \/ e.slots[s].gen # g THEN e
    ELSE LET sl == e.slots[s]
             a == [e EXCEPT !.slots[s].abandoned = TRUE, !.slots[s].waker = None, !.slots[s].timer = FALSE]
             b == IF sl.timer \/ sl.op THEN Cancelled(a, s, g) ELSE a
         IN IF sl.result # None \/ ~sl.op THEN Free(b, s) ELSE b

\* Dropping a pending future; Connect closes its socket first.
DropFuture(e, f) ==
    LET u == futures[f] IN
    IF u.kind = None THEN e ELSE Abandon(CloseHandle(e, u.handle), u.slot, u.gen)

DropAll(e, fs) ==
    LET Step[S \in SUBSET fs] ==
            IF S = {} THEN e ELSE LET f == CHOOSE x \in S : TRUE IN DropFuture(Step[S \ {f}], f)
    IN Step[fs]

\* dispatch: a token whose generation is not the slot's is dropped.
Fresh(e, c) == e.slots[c.slot].used /\ e.slots[c.slot].gen = c.gen

Dispatch(e, c, result, conn) ==
    LET d == [e EXCEPT !.flight = @ \ {c}]
        r == [d EXCEPT !.slots[c.slot] = [@ EXCEPT !.timer = FALSE, !.result = result, !.conn = conn, !.waker = None]]
    IN IF ~Fresh(e, c) THEN d
       ELSE IF e.slots[c.slot].abandoned THEN Free(r, c.slot)
       ELSE r

Wakes(e, c) == IF Fresh(e, c) /\ ~e.slots[c.slot].abandoned THEN {e.slots[c.slot].waker} \ {None} ELSE {}
Owned(t) == {f \in Futures : TaskOf[f] = t}
Wake(ts) == ready' = [t \in Tasks |-> ready[t] \/ t \in ts] /\ notified' = (notified \/ ts # {})

---------------------------------------------------------------------------
(* Polling a task: it may poll, start and drop its futures in any order. *)

\* What the first poll of each kind submits, once its slot is reserved.
Io(e, s, op) == [e EXCEPT !.flight = @ \cup {op}, !.slots[s].op = TRUE]
Sleep(e, s, op) == [Io(e, s, op) EXCEPT !.slots[s].timer = TRUE]
Connect(e, op, h) == [e EXCEPT !.flight = @ \cup {op}, !.handles[h] = "open"]
Close(e, s, h) == [CloseHandle(e, h) EXCEPT !.slots[s].closing = h]

\* The first poll of a future reserves a slot and submits.  A Close takes the
\* handle of an adapter, closing it unless that has begun.
Start(f, kind, h) ==
    /\ polling = TaskOf[f] /\ futures[f] = NoFuture
    /\ kind = "close" => h \in streams
    /\ kind = "connect" => ex.handles[h] = "none"
    /\ \E s \in Unused(ex) :
        /\ \A r \in Unused(ex) : s <= r
        /\ LET e == Reserve(ex, s, polling)
               g == e.slots[s].gen
               op == [slot |-> s, gen |-> g, kind |-> kind, cancel |-> FALSE]
           IN /\ futures' = [futures EXCEPT ![f] = [kind |-> kind, slot |-> s, gen |-> g,
                                                     handle |-> IF kind = "connect" THEN h ELSE None]]
              /\ ex' = CASE kind = "close" -> Close(e, s, h)
                         [] kind = "connect" -> Connect(e, op, h)
                         [] kind = "sleep" -> Sleep(e, s, op)
                         [] OTHER -> Io(e, s, op)
    /\ streams' = IF kind = "close" THEN streams \ {h} ELSE streams
    /\ UNCHANGED <<tasks, ready, waking, notified, phase, todo, polling>>

\* The driver refuses the submission: the slot is freed, its generation spent.
StartRefused(f) ==
    /\ polling = TaskOf[f] /\ futures[f] = NoFuture
    /\ \E s \in Unused(ex) :
        /\ \A r \in Unused(ex) : s <= r
        /\ ex' = Free(Reserve(ex, s, polling), s)
    /\ UNCHANGED <<futures, streams, tasks, ready, waking, notified, phase, todo, polling>>

\* A poll that finds a result ends the future: an accepted or connected handle
\* becomes an adapter, the socket of a failed connect is closed with it.
Finish(f) ==
    /\ polling = TaskOf[f] /\ futures[f] # NoFuture
    /\ LET u == futures[f]
           sl == ex.slots[u.slot]
           won == u.kind = "connect" /\ sl.result = "ok"
           e == Free([ex EXCEPT !.slots[u.slot].result = None, !.slots[u.slot].conn = None], u.slot)
       IN /\ sl.result # None
          /\ ex' = IF won THEN e ELSE CloseHandle(e, u.handle)
          /\ streams' = streams \cup ({sl.conn} \ {None}) \cup (IF won THEN {u.handle} ELSE {})
    /\ futures' = [futures EXCEPT ![f] = NoFuture]
    /\ UNCHANGED <<tasks, ready, waking, notified, phase, todo, polling>>

\* A race, a time-out or a cancelled scope drops a pending future.
Drop(f) ==
    /\ polling = TaskOf[f] /\ futures[f] # NoFuture
    /\ ex' = DropFuture(ex, f) /\ futures' = [futures EXCEPT ![f] = NoFuture]
    /\ UNCHANGED <<streams, tasks, ready, waking, notified, phase, todo, polling>>

DropStream(h) ==
    /\ polling # None /\ h \in streams
    /\ ex' = CloseHandle(ex, h) /\ streams' = streams \ {h}
    /\ UNCHANGED <<futures, tasks, ready, waking, notified, phase, todo, polling>>

\* The poll returns.  A pending task has polled what it awaits; polling stores
\* the waker again, and a finished one is dropped with its futures.
Returns(done) ==
    /\ polling # None
    /\ LET mine == {f \in Owned(polling) : futures[f] # NoFuture} IN
       IF done
       THEN /\ ex' = DropAll(ex, mine)
            /\ futures' = [f \in Futures |-> IF f \in mine THEN NoFuture ELSE futures[f]]
            /\ tasks' = [tasks EXCEPT ![polling] = "none"]
       ELSE /\ \A f \in mine : ex.slots[futures[f].slot].result = None
            /\ ex' = [ex EXCEPT !.slots = [s \in Slots |->
                        IF \E f \in mine : futures[f].slot = s THEN [@[s] EXCEPT !.waker = polling] ELSE @[s]]]
            /\ UNCHANGED <<futures, tasks>>
    /\ polling' = None
    /\ UNCHANGED <<streams, ready, waking, notified, phase, todo>>

---------------------------------------------------------------------------
(* The turn: run_ready, the driver's turn, dispatch, run_ready. *)

BeginTurn ==
    /\ phase = "host"
    /\ phase' = "pass1" /\ todo' = {t \in Tasks : tasks[t] # "none"}
    /\ UNCHANGED <<ex, futures, streams, tasks, ready, waking, notified, polling>>

\* run_ready: the flag is swapped before the poll; a cancelled task is dropped.
Visit(t) ==
    /\ phase \in {"pass1", "pass2"} /\ polling = None /\ t \in todo
    /\ todo' = todo \ {t}
    /\ ready' = [ready EXCEPT ![t] = FALSE]
    /\ \/ ~ready[t] /\ UNCHANGED <<ex, futures, tasks, polling>>
       \/ /\ ready[t] /\ tasks[t] = "live" /\ polling' = t
          /\ UNCHANGED <<ex, futures, tasks>>
       \/ /\ ready[t] /\ tasks[t] = "cancelled"
          /\ ex' = DropAll(ex, Owned(t))
          /\ futures' = [f \in Futures |-> IF f \in Owned(t) THEN NoFuture ELSE futures[f]]
          /\ tasks' = [tasks EXCEPT ![t] = "none"] /\ UNCHANGED polling
    /\ UNCHANGED <<streams, waking, notified, phase>>

\* alive: a task, or an operation or a handle of the driver.
Alive == ex.flight # {} \/ (\E t \in Tasks : tasks[t] # "none") \/ \E h \in Handles : ex.handles[h] # "none"

\* The driver may sleep only when no task is ready and something is alive.
Block ==
    /\ phase = "pass1" /\ todo = {} /\ polling = None
    /\ phase' = IF (\E t \in Tasks : tasks[t] # "none" /\ ready[t])
                   \/ ~Alive THEN "dispatch" ELSE "blocked"
    /\ UNCHANGED <<ex, futures, streams, tasks, ready, waking, notified, todo, polling>>

\* The driver's turn returns: notified, or with completions, or timed out.
Unblock ==
    /\ phase = "blocked"
    /\ notified \/ ex.flight # {} \/ \E h \in Handles : ex.handles[h] = "closing"
    /\ phase' = "dispatch" /\ notified' = FALSE
    /\ UNCHANGED <<ex, futures, streams, tasks, ready, waking, todo, polling>>

\* claims and dispatch of one completion of an operation.
Complete(c, result) ==
    /\ phase = "dispatch"
    /\ result = "cancelled" => c.cancel
    /\ \E h \in Handles \cup {None} :
        /\ (h = None) # (c.kind = "accept" /\ result = "ok")
        /\ h # None => ex.handles[h] = "none"
        /\ ex' = IF h = None THEN Dispatch(ex, c, result, None)
                 ELSE Dispatch([ex EXCEPT !.handles[h] = "open"], c, result, h)
    /\ Wake(Wakes(ex, c))
    /\ UNCHANGED <<futures, streams, tasks, waking, phase, todo, polling>>

\* Fault: Closed has no operation and is routed to nobody.
ClosedUnrouted(h) ==
    /\ phase = "dispatch" /\ ex.handles[h] = "closing"
    /\ \A f \in Futures : futures[f].kind = "connect" => futures[f].handle # h
    /\ ex' = [ex EXCEPT !.handles[h] = "none"]
    /\ UNCHANGED <<futures, streams, tasks, ready, waking, notified, phase, todo, polling>>

\* claims of a Closed: every Close future that watches the handle sees it.
Closed(h) ==
    /\ phase = "dispatch" /\ ex.handles[h] = "closing"
    /\ \A f \in Futures : futures[f].kind = "connect" => futures[f].handle # h
    /\ LET watch == {s \in Slots : ex.slots[s].used /\ ex.slots[s].closing = h} IN
       /\ ex' = [ex EXCEPT !.handles[h] = "none",
                           !.slots = [s \in Slots |-> IF s \in watch THEN [@[s] EXCEPT !.result = "ok"] ELSE @[s]]]
       /\ Wake({ex.slots[s].waker : s \in watch} \ {None})
    /\ UNCHANGED <<futures, streams, tasks, waking, phase, todo, polling>>

SecondPass ==
    /\ phase = "dispatch"
    /\ phase' = "pass2" /\ todo' = {t \in Tasks : tasks[t] # "none"}
    /\ UNCHANGED <<ex, futures, streams, tasks, ready, waking, notified, polling>>

EndTurn ==
    /\ phase = "pass2" /\ todo = {} /\ polling = None
    /\ phase' = "host"
    /\ UNCHANGED <<ex, futures, streams, tasks, ready, waking, notified, todo, polling>>

---------------------------------------------------------------------------
(* The host between turns, and wakers on other threads. *)

Spawn(t) ==
    /\ phase = "host" /\ tasks[t] = "none"
    /\ tasks' = [tasks EXCEPT ![t] = "live"] /\ ready' = [ready EXCEPT ![t] = TRUE]
    /\ UNCHANGED <<ex, futures, streams, waking, notified, phase, todo, polling>>

\* JoinHandle::cancel, also when the handle is dropped.
CancelTask(t) ==
    /\ phase = "host" /\ tasks[t] = "live"
    /\ tasks' = [tasks EXCEPT ![t] = "cancelled"] /\ Wake({t})
    /\ UNCHANGED <<ex, futures, streams, waking, phase, todo, polling>>

\* TaskWake::wake_by_ref from another thread: the flag, then the notification.
WakeStore(t) ==
    /\ tasks[t] # "none" /\ t \notin waking
    /\ ready' = [ready EXCEPT ![t] = TRUE] /\ waking' = waking \cup {t}
    /\ UNCHANGED <<ex, futures, streams, tasks, notified, phase, todo, polling>>

WakeNotify(t) ==
    /\ t \in waking
    /\ waking' = waking \ {t} /\ notified' = TRUE
    /\ UNCHANGED <<ex, futures, streams, tasks, ready, phase, todo, polling>>

PollStep ==
    \/ \E f \in Futures, kind \in Kinds, h \in Handles : Start(f, kind, h)
    \/ \E f \in Futures : StartRefused(f) \/ Drop(f)
    \/ \E h \in Handles : DropStream(h)
    \/ \E done \in BOOLEAN : Returns(done)

ExNext ==
    \/ PollStep
    \/ \E f \in Futures : Finish(f)
    \/ \E t \in Tasks : Visit(t) \/ Spawn(t) \/ CancelTask(t) \/ WakeStore(t) \/ WakeNotify(t)
    \/ \E c \in ex.flight, r \in {"ok", "error", "cancelled"} : Complete(c, r)
    \/ \E h \in Handles : Closed(h)
    \/ BeginTurn \/ Block \/ Unblock \/ SecondPass \/ EndTurn

ExSpec == ExInit /\ [][ExNext]_exVars

---------------------------------------------------------------------------
Holders(s) == {f \in Futures : futures[f] # NoFuture /\ futures[f].slot = s /\ futures[f].gen = ex.slots[s].gen}

\* A slot in use belongs to one pending future, or to an operation still in
\* flight; so no slot leaks, and the staging buffer of an operation that was
\* given one is not handed to another future before the operation has ended.
SlotsAreOwned ==
    /\ \A s \in Slots : ex.slots[s].used =>
          IF ex.slots[s].abandoned
          THEN Holders(s) = {} /\ \E c \in ex.flight : c.slot = s /\ c.gen = ex.slots[s].gen
          ELSE Cardinality(Holders(s)) = 1
    /\ \A f \in Futures : futures[f] # NoFuture => f \in Holders(futures[f].slot)
    /\ \A c \in ex.flight : c.kind # "connect" => ex.slots[c.slot].used /\ ex.slots[c.slot].gen = c.gen

\* Each connection has one owner: an adapter, a pending connect, the result a
\* future has yet to take, or the close that releases it.
ConnectionsAreOwned ==
    \A h \in Handles :
        LET owners == {s \in Slots : ex.slots[s].conn = h} \cup {f \in Futures : futures[f].handle = h}
        IN ex.handles[h] = "open" <=> Cardinality(owners) + (IF h \in streams THEN 1 ELSE 0) = 1

\* A result reaches the future that asked for it: nobody else's completion is
\* ever found in a slot, though tokens of dropped connects arrive late.
ResultsMatch ==
    \A f \in Futures : futures[f] # NoFuture =>
        LET sl == ex.slots[futures[f].slot]
            flying == \E c \in ex.flight : c.slot = futures[f].slot /\ c.gen = futures[f].gen IN
        /\ flying <=> sl.result = None /\ futures[f].kind # "close"
        /\ futures[f].kind = "close" /\ sl.result = None => ex.handles[sl.closing] = "closing"
        /\ sl.conn # None => futures[f].kind = "accept"

\* The driver never sleeps over a task that was woken, unless the waker is on
\* its way to the notifier.
NoTaskSleeps ==
    phase = "blocked" => \A t \in Tasks : ready[t] /\ tasks[t] # "none" => notified \/ waking # {}

\* A pending future whose operation has ended.
HasResult(f) == futures[f] # NoFuture /\ ex.slots[futures[f].slot].result # None
=============================================================================
