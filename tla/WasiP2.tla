------------------------------- MODULE WasiP2 -------------------------------
(***************************************************************************)
(* The WASI 0.2 backend (backend/wasi_p2.rs).  A component has one agent   *)
(* and no threads: a poll runs what is cached as ready, and only if that   *)
(* produced nothing subscribes the level-triggered pollables of every      *)
(* direction with an operation, of every name lookup and of the deadline,  *)
(* and waits for them in one call.  The host acts between any two steps.   *)
(* The list of a direction, whose links UnixEngine models, is here its     *)
(* sequence of operations; requests on files are in WasiFiles.             *)
(***************************************************************************)
EXTENDS Naturals, Sequences, FiniteSets, SequencesExt

CONSTANTS
    Program,             \* the operations in the order in which the driver submits them
    Capacity,            \* events_per_turn: room of one poll
    Budgets,             \* connections the driver can house when it polls
    Units,               \* stream writes it takes to write one buffer
    Leases,              \* buffers of the pool
    Burst,               \* addresses taken from one lookup in one poll
    MaxArrivals,         \* bytes, connections or addresses that reach one handle
    Breaks,              \* whether the peer may reset, or the resolver fail
    NoOp                 \* no operation

VARIABLES
    backend,             \* the backend: resources, lists, queues and the poll under way
    kernel,              \* per handle, what the host of the component holds for it
    told                 \* per operation: whether its end was reported, and how

wasiVars == <<backend, kernel, told>>

Ops == DOMAIN Program
HandleOf(o) == Program[o].handle
KindOf(o) == Program[o].kind
Handles == {HandleOf(o) : o \in Ops}
IsLookup(o) == KindOf(o) = "lookup"
Resolver(h) == \E o \in Ops : HandleOf(o) = h /\ IsLookup(o)

In == 1
Out == 2
Direction(o) == IF KindOf(o) \in {"accept", "accepts", "read", "reads"} THEN In ELSE Out
Listener(h) == \E o \in Ops : HandleOf(o) = h /\ KindOf(o) \in {"accept", "accepts"}
ToConnect(h) == \E o \in Ops : HandleOf(o) = h /\ KindOf(o) = "connect"

Absent == [open |-> FALSE, used |-> FALSE]
Resource(h) ==
    [open |-> TRUE, used |-> TRUE, connect |-> ToConnect(h), connecting |-> FALSE,
     streams |-> ~ToConnect(h) /\ ~Listener(h), ready |-> <<TRUE, TRUE>>, lists |-> <<<<>>, <<>>>>,
     queued |-> FALSE, throttled |-> FALSE]

NewHost(h) ==
    [in |-> 0, eof |-> FALSE, out |-> 1, arrived |-> 0, wire |-> <<>>,
     conn |-> IF ToConnect(h) THEN "none" ELSE "done"]

NoLookup == [live |-> FALSE, ready |-> FALSE, found |-> 0]

WasiInit ==
    /\ backend = [res |-> [h \in Handles |-> Absent], submitted |-> 0, lookups |-> [o \in Ops |-> NoLookup],
                  flushing |-> {}, ready |-> <<>>, throttled |-> <<>>, cancelled |-> <<>>,
                  accepts |-> 1, leases |-> Leases, phase |-> "idle", room |-> 0, steps |-> 0]
    /\ kernel = [h \in Handles |-> NewHost(h)]
    /\ told = [o \in Ops |-> "open"]

---------------------------------------------------------------------------
\* The lists and the queues.

First(b, h, d) == IF b.res[h].lists[d] = <<>> THEN NoOp ELSE b.res[h].lists[d][1]

Throttles(o) == o # NoOp /\ KindOf(o) = "accepts"

Schedule(b, h) ==
    LET r == b.res[h]
        held == b.accepts = 0 /\ r.ready[In] /\ Throttles(First(b, h, In))
    IN  IF ~r.open \/ r.queued THEN b
        ELSE IF \E d \in {In, Out} : r.ready[d] /\ r.lists[d] # <<>> /\ ~(d = In /\ held)
        THEN [b EXCEPT !.res[h].queued = TRUE, !.ready = Append(@, h)]
        ELSE IF held /\ ~r.throttled
        THEN [b EXCEPT !.res[h].throttled = TRUE, !.throttled = Append(@, h)]
        ELSE b

Resumed(b, budget) ==
    LET fresh == [b EXCEPT !.accepts = budget] IN
    IF budget = 0 THEN fresh
    ELSE FoldSeq(LAMBDA h, c : Schedule([c EXCEPT !.res[h].throttled = FALSE], h),
                 [fresh EXCEPT !.throttled = <<>>], Reverse(b.throttled))

Unlink(b, o) ==
    [b EXCEPT !.res[HandleOf(o)].lists[Direction(o)] = SelectSeq(@, LAMBDA x : x # o)]

---------------------------------------------------------------------------
\* What the driver does between two polls.

Idle == backend.phase = "idle"
Pending(o) == o <= backend.submitted /\ told[o] = "open"
Cancels(o) == o \in ToSet(backend.cancelled)

Open(h) ==
    /\ Idle /\ ~backend.res[h].used /\ ~Resolver(h)
    /\ backend' = [backend EXCEPT !.res[h] = Resource(h)]
    /\ UNCHANGED <<kernel, told>>

Submit(o) ==
    LET h == HandleOf(o) IN
    /\ Idle /\ o = backend.submitted + 1 /\ ~IsLookup(o) /\ backend.res[h].open
    /\ KindOf(o) = "connect" => backend.res[h].connect
    /\ backend' = Schedule([backend EXCEPT !.submitted = o,
                                           !.res[h].lists[Direction(o)] = Append(@, o)], h)
    /\ UNCHANGED <<kernel, told>>

Resolve(o) ==
    /\ Idle /\ o = backend.submitted + 1 /\ IsLookup(o)
    /\ backend' = [backend EXCEPT !.submitted = o,
                                  !.lookups[o] = [live |-> TRUE, ready |-> TRUE, found |-> 0]]
    /\ UNCHANGED <<kernel, told>>

Cancel(o) ==
    /\ Idle /\ Pending(o) /\ ~Cancels(o)
    /\ backend' = IF IsLookup(o)
                  THEN [backend EXCEPT !.lookups[o] = NoLookup, !.cancelled = Append(@, o)]
                  ELSE Schedule([Unlink(backend, o) EXCEPT !.cancelled = Append(@, o)], HandleOf(o))
    /\ UNCHANGED <<kernel, told>>

\* The driver releases only a handle whose operations have ended.
Release(h) ==
    /\ Idle /\ backend.res[h].open
    /\ \A o \in Ops : HandleOf(o) = h => o <= backend.submitted /\ ~Pending(o)
    /\ backend' = [backend EXCEPT !.res[h] = [open |-> FALSE, used |-> TRUE],
                                  !.ready = SelectSeq(@, LAMBDA x : x # h),
                                  !.throttled = SelectSeq(@, LAMBDA x : x # h)]
    /\ UNCHANGED <<kernel, told>>

ReturnLease ==
    /\ Idle /\ backend.leases < Leases
    /\ backend' = [backend EXCEPT !.leases = @ + 1]
    /\ UNCHANGED <<kernel, told>>

---------------------------------------------------------------------------
\* One operation against the host: what it reports, "again" for WouldBlock, or
\* "none" when it stays at the head of its list with its readiness kept.

Result(event, terminal, k) == [event |-> event, terminal |-> terminal, k |-> k]
Again(k) == Result("again", FALSE, k)
Failure(k) == Result("error", TRUE, k)

Receive(b, o, k, pooled) ==
    IF pooled /\ b.leases = 0 THEN Result("none", FALSE, k)
    ELSE IF ~b.res[HandleOf(o)].streams \/ k.conn = "reset" THEN Failure(k)
    ELSE IF k.in > 0 THEN Result("read", ~pooled, [k EXCEPT !.in = @ - 1])
    ELSE IF k.eof THEN Result("eof", TRUE, k)
    ELSE Again(k)

\* check_write, then a part of the buffer, the flush with the last part, and on
\* a later attempt the end of the flush.
Write(b, o, k) ==
    LET offset == Cardinality({i \in DOMAIN k.wire : k.wire[i] = o}) IN
    IF ~b.res[HandleOf(o)].streams \/ k.conn = "reset" THEN Failure(k)
    ELSE IF k.out = 0 THEN Again(k)
    ELSE IF o \in b.flushing THEN Result("wrote", TRUE, k)
    ELSE Result(IF offset + 1 = Units THEN "flush" ELSE "none", FALSE,
                [k EXCEPT !.out = 0, !.wire = Append(@, o)])

Connect(b, o, k) ==
    LET finish(c) == CASE c = "syn" -> Result("progress", FALSE, [k EXCEPT !.conn = c])
                       [] c = "refused" -> Failure([k EXCEPT !.conn = c])
                       [] OTHER -> Result("connected", TRUE, [k EXCEPT !.conn = c])
    IN  IF b.res[HandleOf(o)].connecting THEN {finish(k.conn)}
        ELSE {finish("syn"), finish("done"), finish("refused")}

Execute(b, o, k) ==
    CASE KindOf(o) \in {"accept", "accepts"} ->
            {IF k.in = 0 THEN Again(k)
             ELSE Result("accepted", KindOf(o) = "accept", [k EXCEPT !.in = @ - 1])}
      [] KindOf(o) \in {"read", "reads"} -> {Receive(b, o, k, KindOf(o) = "reads")}
      [] KindOf(o) = "write" -> {Write(b, o, k)}
      [] KindOf(o) = "shutdown" -> {Result("shutdown", TRUE, [k EXCEPT !.wire = Append(@, o)])}
      [] KindOf(o) = "connect" -> Connect(b, o, k)

Reports(x) == x.event \notin {"again", "none", "flush", "progress"}

Applied(b, o, x) ==
    LET h == HandleOf(o)
        c == [b EXCEPT !.res[h].ready[Direction(o)] = @ /\ x.event \notin {"again", "progress"},
                       !.res[h].connecting = @ \/ x.event \in {"progress", "connected"},
                       !.res[h].connect = @ /\ x.event # "connected",
                       !.res[h].streams = @ \/ x.event = "connected",
                       !.flushing = IF x.event = "flush" THEN @ \cup {o} ELSE @,
                       !.leases = IF KindOf(o) = "reads" /\ x.event = "read" THEN @ - 1 ELSE @,
                       !.accepts = IF KindOf(o) = "accepts" /\ x.event = "accepted" THEN @ - 1 ELSE @,
                       !.room = IF Reports(x) THEN @ - 1 ELSE @]
    IN  IF x.terminal THEN Unlink(c, o) ELSE c

Ended(t, over) == [o \in Ops |-> IF o \notin over THEN t[o] ELSE IF t[o] = "open" THEN "ended" ELSE "twice"]

Tell(t, o, x) ==
    IF ~Reports(x) \/ (~x.terminal /\ t[o] = "open") THEN t
    ELSE IF x.event = "connected" /\ t[o] = "open" THEN [t EXCEPT ![o] = "connected"]
    ELSE Ended(t, {o})

---------------------------------------------------------------------------
\* poll.

Begin(budget) ==
    /\ Idle
    /\ LET b == Resumed(backend, budget)
           n == IF Len(b.cancelled) < Capacity THEN Len(b.cancelled) ELSE Capacity
       IN  /\ backend' = [b EXCEPT !.cancelled = SubSeq(@, n + 1, Len(@)), !.phase = "first",
                                   !.room = Capacity - n, !.steps = Capacity - n]
           /\ told' = Ended(told, {b.cancelled[i] : i \in 1 .. n})
    /\ UNCHANGED kernel

RunsMore == backend.steps > 0 /\ backend.room > 0 /\ backend.ready # <<>>

\* What one direction of a resource may do: the engine, its host and what it
\* told afterwards.
Try(e, h, d) ==
    LET o == First(e.b, h, d) IN
    IF e.b.room = 0 \/ ~e.b.res[h].ready[d] \/ o = NoOp \/ (e.b.accepts = 0 /\ Throttles(o)) THEN {e}
    ELSE {[b |-> Applied(e.b, o, x), k |-> x.k, t |-> Tell(e.t, o, x)] : x \in Execute(e.b, o, e.k)}

RunReady ==
    /\ backend.phase \in {"first", "second"} /\ RunsMore
    /\ LET h == Head(backend.ready)
           popped == [backend EXCEPT !.ready = Tail(@), !.steps = @ - 1, !.res[h].queued = FALSE]
       IN  \E e1 \in Try([b |-> popped, k |-> kernel[h], t |-> told], h, In) :
           \E e2 \in Try(e1, h, Out) :
               /\ backend' = Schedule(e2.b, h)
               /\ kernel' = [kernel EXCEPT ![h] = e2.k]
               /\ told' = e2.t

\* run_dns: every ready lookup while there is room; the addresses taken, then
\* the end, an error or WouldBlock.
Looks(b, o) == b.room > 0 /\ b.lookups[o].live /\ b.lookups[o].ready
Taken(o) == IF kernel[HandleOf(o)].in < Burst THEN kernel[HandleOf(o)].in ELSE Burst
Answered(o) == Taken(o) < Burst /\ (kernel[HandleOf(o)].eof \/ kernel[HandleOf(o)].conn = "reset")

RunDns(b) ==
    LET one(o, c) ==
            IF ~Looks(c, o) THEN c
            ELSE IF Answered(o) THEN [c EXCEPT !.lookups[o] = NoLookup, !.room = @ - 1]
            ELSE [c EXCEPT !.lookups[o].found = @ + Taken(o), !.lookups[o].ready = Taken(o) = Burst]
    IN  FoldSeq(one, b, Reverse([i \in 1 .. Len(Program) |-> i]))

\* The lookups that run_dns ended, and what they took from the resolver.
Resolves(after) ==
    /\ told' = Ended(told, {o \in Ops : backend.lookups[o].live /\ ~after.lookups[o].live})
    /\ kernel' = [h \in Handles |-> IF \E o \in Ops : HandleOf(o) = h /\ IsLookup(o) /\ Looks(backend, o)
                                       /\ after.lookups[o] # backend.lookups[o]
                                    THEN [kernel[h] EXCEPT !.in = @ - (IF @ < Burst THEN @ ELSE Burst)]
                                    ELSE kernel[h]]

HasWork(b) == b.ready # <<>> \/ b.cancelled # <<>> \/ \E o \in Ops : b.lookups[o].live /\ b.lookups[o].ready

Decide ==
    /\ backend.phase = "first" /\ ~RunsMore
    /\ LET b == RunDns(backend) IN
       /\ backend' = [b EXCEPT !.phase = IF HasWork(b) \/ b.room < Capacity THEN "idle" ELSE "wait",
                               !.room = Capacity, !.steps = 0]
       /\ Resolves(b)

Level(h, d) ==
    LET k == kernel[h] IN
    IF backend.res[h].streams
    THEN k.conn = "reset" \/ (d = In /\ (k.in > 0 \/ k.eof)) \/ (d = Out /\ k.out > 0)
    ELSE k.in > 0 \/ k.conn = "refused" \/ (k.conn = "done" /\ ~Listener(h))

\* A held listener is not subscribed.
Subscribed(h, d) ==
    /\ backend.res[h].open /\ backend.res[h].lists[d] # <<>>
    /\ ~(d = In /\ backend.res[h].throttled)

LookupFires(o) ==
    LET k == kernel[HandleOf(o)] IN backend.lookups[o].live /\ (k.in > 0 \/ k.eof \/ k.conn = "reset")

\* The pollables that are ready, all of them at once, or the deadline alone; with
\* nothing subscribed and no deadline the poll fails at once.
WaitEnds ==
    /\ backend.phase = "wait"
    /\ LET fired == {<<h, d>> \in Handles \X {In, Out} : Subscribed(h, d) /\ Level(h, d)}
           noted == [backend EXCEPT
                        !.res = [h \in Handles |->
                            IF \A d \in {In, Out} : <<h, d>> \notin fired THEN @[h]
                            ELSE [@[h] EXCEPT !.ready = [d \in {In, Out} |-> @[d] \/ <<h, d>> \in fired]]],
                        !.lookups = [o \in Ops |-> [@[o] EXCEPT !.ready = @ \/ LookupFires(o)]],
                        !.phase = "second", !.steps = Capacity]
       IN  backend' = FoldSet(LAMBDA h, b : Schedule(b, h), noted, {f[1] : f \in fired})
    /\ UNCHANGED <<kernel, told>>

EndPoll ==
    /\ backend.phase = "second" /\ ~RunsMore
    /\ LET b == RunDns(backend) IN
       /\ backend' = [b EXCEPT !.phase = "idle", !.room = Capacity, !.steps = 0]
       /\ Resolves(b)

---------------------------------------------------------------------------
\* The host of the component.

Becomes(h, k) == kernel' = [kernel EXCEPT ![h] = k] /\ UNCHANGED <<backend, told>>
Talks(h) == (backend.res[h].open \/ Resolver(h)) /\ kernel[h].conn = "done"

HostStep ==
    \E h \in Handles : LET k == kernel[h] IN
        \/ /\ Talks(h) /\ ~k.eof /\ k.arrived < MaxArrivals
           /\ Becomes(h, [k EXCEPT !.in = @ + 1, !.arrived = @ + 1])
        \/ Talks(h) /\ ~Listener(h) /\ ~k.eof /\ Becomes(h, [k EXCEPT !.eof = TRUE])
        \/ Talks(h) /\ k.out = 0 /\ Becomes(h, [k EXCEPT !.out = 1])
        \/ Talks(h) /\ ~Listener(h) /\ Breaks /\ Becomes(h, [k EXCEPT !.conn = "reset"])
        \/ k.conn = "syn" /\ \E how \in {"done", "refused"} : Becomes(h, [k EXCEPT !.conn = how])

WasiNext ==
    \/ \E h \in Handles : Open(h) \/ Release(h)
    \/ \E o \in Ops : Submit(o) \/ Resolve(o) \/ Cancel(o)
    \/ ReturnLease
    \/ \E budget \in Budgets : Begin(budget)
    \/ RunReady \/ Decide \/ WaitEnds \/ EndPoll \/ HostStep

---------------------------------------------------------------------------
\* Whether the first operation of a direction would get somewhere now.
CouldMove(h, d) == backend.res[h].open /\ backend.res[h].lists[d] # <<>> /\ Level(h, d)

\* The component waits only if no cancellation and no cached readiness is left,
\* and whatever could move ends the wait, save a multishot accept out of
\* budget: `every other source, single-shot accepts included', is subscribed
\* (the Budget contract of backend/mod.rs).
WasiSleepsOverNothing ==
    backend.phase = "wait" =>
        /\ ~HasWork(backend)
        /\ backend.accepts > 0 => backend.throttled = <<>>
        /\ \A h \in Handles, d \in {In, Out} :
               CouldMove(h, d) => Subscribed(h, d) \/ (backend.accepts = 0 /\ Throttles(First(backend, h, d)))

\* An operation has one terminal event and none after it; no multishot accept
\* goes past the budget; a connect that reports success is connected.
WasiTellsOnce ==
    /\ backend.accepts >= 0
    /\ \A o \in Ops :
        /\ told[o] # "twice"
        /\ told[o] = "connected" => kernel[HandleOf(o)].conn \in {"done", "reset"}

\* Buffers leave a handle in the order of their writes, each without a gap, a
\* shutdown after them; and a write that ended without being cancelled has
\* written all of its units and seen its flush through.
WasiWritesInOrder ==
    /\ \A h \in Handles : \A i, j \in DOMAIN kernel[h].wire : i < j => kernel[h].wire[i] <= kernel[h].wire[j]
    /\ \A o \in backend.flushing :
        Cardinality({i \in DOMAIN kernel[HandleOf(o)].wire : kernel[HandleOf(o)].wire[i] = o}) = Units
=============================================================================
