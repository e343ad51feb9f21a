----------------------------- MODULE IocpEngine -----------------------------
(***************************************************************************)
(* The Windows backend (backend/iocp/mod.rs with pipes.rs, bridge.rs and   *)
(* ipc.rs): the head of each direction of a resource has at most one       *)
(* native request, whose storage the kernel owns until its packet has been *)
(* taken from the completion port.  A resource associated with another     *)
(* port is routed: its request signals an event, and a callback of the     *)
(* system's thread pool posts the packet.  A named-pipe listener keeps its *)
(* own fixed backlog of instances.                                         *)
(***************************************************************************)
EXTENDS Naturals, Sequences, FiniteSets, SequencesExt

CONSTANTS
    Program,             \* the operations in the order in which the host submits them
    Capacity,            \* events_per_turn: room of one poll
    Budgets,             \* connections the driver can house when it polls
    Units,               \* transfers it takes to write one buffer, or one handle
    Leases,              \* buffers of the pool
    Backlog,             \* instances of a pipe listener
    MaxArrivals,         \* bytes, connections or free instances that reach one handle
    Routings,            \* whether a resource is associated with another port
    Faults,              \* whether the peer may reset and registrations may fail
    NoOp                 \* no list element

VARIABLES
    backend,             \* the engine: resources, lists, queues and the poll under way
    kernel,              \* sockets, native requests, events and the completion port
    told                 \* per operation: whether its end was reported

iocpVars == <<backend, kernel, told>>

Ops == DOMAIN Program
HandleOf(o) == Program[o].handle
KindOf(o) == Program[o].kind
Handles == {HandleOf(o) : o \in Ops}

In == 1
Out == 2
Direction(o) ==
    IF KindOf(o) \in {"read", "reads", "leased", "recv_handle", "accept", "accepts", "pipes"} THEN In ELSE Out
PipeListens(h) == \E o \in Ops : HandleOf(o) = h /\ KindOf(o) = "pipes"
Dials(h) == \E o \in Ops : HandleOf(o) = h /\ KindOf(o) = "dial"

Resource(skip, routed) ==
    [open |-> TRUE, used |-> TRUE, skip |-> skip, routed |-> routed,
     heads |-> <<NoOp, NoOp>>, tails |-> <<NoOp, NoOp>>]

Slot == [waiting |-> TRUE, ready |-> "none"]

NewOp == [held |-> FALSE, stage |-> "start", waiting |-> FALSE, queued |-> FALSE, pool |-> FALSE, listener |-> FALSE,
          throttled |-> FALSE, cancelled |-> FALSE, done |-> "none", offset |-> 0, lease |-> FALSE]

IocpInit ==
    /\ backend = [res |-> [h \in Handles |-> [Resource(FALSE, FALSE) EXCEPT !.open = FALSE, !.used = FALSE]],
                  next |-> [o \in Ops |-> NoOp], op |-> [o \in Ops |-> NewOp], submitted |-> 0,
                  ready |-> <<>>, throttled |-> <<>>, pooling |-> <<>>, accepts |-> 1, leases |-> Leases, lent |-> 0,
                  slots |-> [i \in 1 .. Backlog |-> Slot], cursor |-> 1, bridged |-> {},
                  phase |-> "idle", room |-> 0, steps |-> 0, invalid |-> FALSE]
    /\ kernel = [sock |-> [h \in Handles |-> [in |-> 0, arrived |-> 0, eof |-> FALSE, reset |-> FALSE, out |-> 1, wire |-> <<>>]],
                 pending |-> {}, aborting |-> {}, event |-> [o \in Ops |-> "none"], port |-> <<>>]
    /\ told = [o \in Ops |-> "open"]

---------------------------------------------------------------------------
\* The lists and the queues.

Schedule(b, o) ==
    LET p == b.op[o] IN
    IF ~p.held \/ p.queued \/ p.waiting \/ p.listener \/ (p.throttled /\ ~p.cancelled) THEN b
    ELSE [b EXCEPT !.op[o].queued = TRUE, !.ready = Append(@, o)]

Link(b, o) ==
    LET h == HandleOf(o)
        d == Direction(o)
        tail == b.res[h].tails[d]
        linked == [b EXCEPT !.res[h].tails[d] = o,
                            !.res[h].heads[d] = IF tail = NoOp THEN o ELSE @,
                            !.next = [x \in Ops |-> IF x = tail THEN o ELSE @[x]],
                            !.op[o] = [NewOp EXCEPT !.held = TRUE]]
    IN  IF tail = NoOp THEN Schedule(linked, o) ELSE linked

\* The new head of the direction is scheduled, whatever was removed.
Unlink(b, o) ==
    LET h == HandleOf(o)
        d == Direction(o)
        r == b.res[h]
        before == {p \in Ops : b.next[p] = o /\ r.heads[d] # o}
        head == IF r.heads[d] = o THEN b.next[o] ELSE r.heads[d]
        tail == IF r.tails[d] # o THEN r.tails[d]
                ELSE IF before = {} THEN NoOp ELSE CHOOSE p \in before : TRUE
        cut == [b EXCEPT !.res[h].heads[d] = head, !.res[h].tails[d] = tail,
                         !.next = [x \in Ops |-> IF x = o THEN NoOp ELSE IF x \in before THEN b.next[o] ELSE @[x]],
                         !.op[o] = NewOp]
    IN  IF head = NoOp THEN cut ELSE Schedule(cut, head)

Throttles(o) == KindOf(o) \in {"accepts", "pipes"}

\* A poll with a budget schedules what an earlier one held back.
Resume(b, budget) ==
    LET fresh == [b EXCEPT !.accepts = budget] IN
    IF budget = 0 THEN fresh
    ELSE FoldSeq(LAMBDA o, c : IF c.op[o].throttled THEN Schedule([c EXCEPT !.op[o].throttled = FALSE], o) ELSE c,
                 [fresh EXCEPT !.throttled = <<>>], Reverse(b.throttled))

\* run_ready first schedules those that waited for a buffer, if there is one.
Refill(b) ==
    LET woken == IF b.leases = 0 THEN b
                 ELSE FoldSeq(LAMBDA o, c : Schedule([c EXCEPT !.op[o].pool = FALSE], o),
                              [b EXCEPT !.pooling = <<>>], Reverse(b.pooling))
    IN  [woken EXCEPT !.steps = Len(woken.ready)]

---------------------------------------------------------------------------
\* What the host does between two polls.

Open(h) ==
    /\ backend.phase = "idle" /\ ~backend.res[h].used
    /\ \E routed \in Routings, skip \in BOOLEAN :
           /\ routed => ~skip
           /\ PipeListens(h) \/ Dials(h) => ~routed
           /\ backend' = [backend EXCEPT !.res[h] = Resource(skip, routed)]
    /\ UNCHANGED <<kernel, told>>

Submit(o) ==
    /\ backend.phase = "idle" /\ backend.res[HandleOf(o)].open /\ o = backend.submitted + 1
    /\ backend' = [Link(backend, o) EXCEPT !.submitted = o]
    /\ UNCHANGED <<kernel, told>>

\* CancelIoEx asks the kernel, which may have completed the request; only the
\* packet ends it.  When it fails otherwise, the operation stays as it was.
Cancel(o) ==
    /\ backend.phase = "idle" /\ backend.op[o].held /\ ~backend.op[o].cancelled
    /\ \/ /\ backend' = Schedule([backend EXCEPT !.op[o].cancelled = TRUE, !.op[o].listener = FALSE,
                                                  !.op[o].pool = FALSE, !.pooling = SelectSeq(@, LAMBDA x : x # o)], o)
          /\ kernel' = [kernel EXCEPT !.aborting = IF o \in kernel.pending THEN @ \cup {o} ELSE @]
       \/ backend.op[o].waiting /\ Faults /\ UNCHANGED <<backend, kernel>>
    /\ UNCHANGED told

\* The driver releases a handle whose operations have ended; the instances of
\* a listener are cancelled, and their packets find nobody.
Release(h) ==
    /\ backend.phase = "idle" /\ backend.res[h].open
    /\ \A o \in Ops : HandleOf(o) = h => o <= backend.submitted /\ ~backend.op[o].held
    /\ backend' = [backend EXCEPT !.res[h].open = FALSE]
    /\ UNCHANGED <<kernel, told>>

ReturnLease ==
    /\ backend.phase = "idle" /\ backend.lent > 0
    /\ backend' = [backend EXCEPT !.leases = @ + 1, !.lent = @ - 1]
    /\ UNCHANGED <<kernel, told>>

---------------------------------------------------------------------------
\* Native requests.

Sock(k, o) == k.sock[HandleOf(o)]

\* Whether the kernel can complete the request now, how, and what it takes.
Completes(s, o) ==
    \/ s.reset
    \/ Direction(o) = In /\ (s.in > 0 \/ s.eof)
    \/ KindOf(o) \in {"write", "send_handle"} /\ s.out > 0
    \/ KindOf(o) = "dial" /\ s.in > 0
    \/ KindOf(o) = "connect"

Outcomes(s, o) ==
    IF s.reset THEN {"error"}
    ELSE IF KindOf(o) = "connect" THEN {"ok", "error"}
    ELSE IF Direction(o) = In /\ s.in = 0 THEN {"eof"} ELSE {"ok"}

Taken(s, o, result) ==
    CASE result # "ok" \/ KindOf(o) \in {"reads", "dial", "connect"} -> s
      [] Direction(o) = In -> [s EXCEPT !.in = @ - 1]
      [] OTHER -> [s EXCEPT !.out = @ - 1, !.wire = Append(@, o)]

Done(b, k, event, terminal) == [b |-> b, k |-> k, event |-> event, terminal |-> terminal]
Quietly(b, k) == Done(b, k, "none", FALSE)

\* submitted: a success is complete at once if the port is skipped, or its
\* packet is on the way; a pending request of a routed resource needs its wait
\* registered, and is drained if that fails.
Submitted(b, k, o, stage) ==
    LET r == b.res[HandleOf(o)]
        s == Sock(k, o)
        c == [b EXCEPT !.op[o].stage = stage, !.invalid = @ \/ o \in b.bridged]
        waits == [c EXCEPT !.op[o].waiting = TRUE]
        now == IF ~Completes(s, o) THEN {} ELSE
               {LET taken == [k EXCEPT !.sock[HandleOf(o)] = Taken(s, o, x)] IN
                IF x = "error" \/ r.skip \/ r.routed
                THEN Quietly([c EXCEPT !.op[o].done = x], taken)
                ELSE Quietly(waits, [taken EXCEPT !.port = Append(@, [to |-> "op", n |-> o, result |-> x])])
                : x \in Outcomes(s, o)}
        later == IF Completes(s, o) /\ KindOf(o) # "connect" THEN {}
                 ELSE {Quietly([waits EXCEPT !.bridged = IF r.routed THEN @ \cup {o} ELSE @],
                               [k EXCEPT !.pending = @ \cup {o}])}
                      \cup IF r.routed /\ Faults THEN {Done(c, k, "error", TRUE)} ELSE {}
    IN  now \cup later

\* accept of a pipe listener: the first instance that is ready, from the
\* cursor, and a fresh instance in its place, to which a client may have
\* connected already.
Accept(b, k, o) ==
    LET order == [i \in 1 .. Backlog |-> ((b.cursor + i - 2) % Backlog) + 1]
        ready == {i \in 1 .. Backlog : b.slots[order[i]].ready # "none"}
        i == order[CHOOSE x \in ready : \A y \in ready : x <= y]
        rearmed == [b EXCEPT !.cursor = (i % Backlog) + 1, !.slots[i] = Slot]
        broken == [rearmed EXCEPT !.slots[i] = [waiting |-> FALSE, ready |-> "error"]]
        met == [rearmed EXCEPT !.slots[i] = [waiting |-> FALSE, ready |-> "ok"]]
        end == IF b.slots[i].ready = "ok" THEN "accepted" ELSE "error"
    IN  IF ready = {} THEN {Quietly([b EXCEPT !.op[o].listener = TRUE], k)}
        ELSE {Done(c, k, end, end = "error") : c \in {rearmed} \cup IF Faults THEN {broken} ELSE {}}
             \cup IF Sock(k, o).arrived = MaxArrivals THEN {}
                  ELSE {Done(met, [k EXCEPT !.sock[HandleOf(o)].arrived = @ + 1], end, end = "error")}

\* A busy pipe is tried again after each wait that ended.
Dial(b, k, o) ==
    IF b.op[o].done \in {"error", "aborted"} THEN {Done(b, k, "error", TRUE)}
    ELSE IF Sock(k, o).in > 0
    THEN {Done(b, [k EXCEPT !.sock[HandleOf(o)].in = @ - 1], "connected", TRUE)}
    ELSE Submitted([b EXCEPT !.op[o].done = "none"], k, o, "io")

\* A handle travels as one frame, in as many transfers as it takes.
IpcStep(b, k, o) ==
    LET p == b.op[o] IN
    IF p.done = "none" THEN Submitted(b, k, o, "io")
    ELSE IF p.done # "ok" THEN {Done(b, k, "error", TRUE)}
    ELSE IF p.offset + 1 = Units THEN {Done(b, k, "transferred", TRUE)}
    ELSE Submitted([b EXCEPT !.op[o].offset = @ + 1, !.op[o].done = "none"], k, o, "io")

\* read_ready: the zero-byte receive of a pooled read said that there is
\* something; only now a buffer is taken, and the bytes may be gone.
ReadReady(b, k, o) ==
    LET s == Sock(k, o)
        c == [b EXCEPT !.op[o].done = "none"]
    IN  IF b.leases = 0 THEN {Quietly([b EXCEPT !.op[o].pool = TRUE, !.op[o].done = "ok"], k)}
        ELSE IF s.reset THEN {Done(c, k, "error", TRUE)}
        ELSE IF s.in > 0 THEN {Done([c EXCEPT !.leases = @ - 1, !.lent = @ + 1], [k EXCEPT !.sock[HandleOf(o)].in = @ - 1], "read", FALSE)}
        ELSE IF s.eof THEN {Done(c, k, "eof", TRUE)}
        ELSE {Quietly([c EXCEPT !.op[o].stage = "start"], k)}

\* A buffer of the pool for a read that holds it while it is pending.
ReadBuffer(b, k, o) ==
    IF KindOf(o) = "leased" /\ ~b.op[o].lease
    THEN IF b.leases = 0 THEN {Quietly([b EXCEPT !.op[o].pool = TRUE], k)}
         ELSE Submitted([b EXCEPT !.leases = @ - 1, !.op[o].lease = TRUE], k, o, "io")
    ELSE Submitted(b, k, o, "io")

Start(b, k, o) ==
    CASE KindOf(o) = "shutdown" -> {Done(b, [k EXCEPT !.sock[HandleOf(o)].wire = Append(@, o)], "shutdown", TRUE)}
      [] KindOf(o) = "reads" -> Submitted(b, k, o, "idle")
      [] KindOf(o) = "pipes" -> Accept(b, k, o)
      [] KindOf(o) \in {"read", "leased"} -> ReadBuffer(b, k, o)
      [] OTHER -> Submitted(b, k, o, "io")

Execute(b, k, o) ==
    LET p == b.op[o]
        c == [b EXCEPT !.op[o].done = "none"]
    IN  IF KindOf(o) \in {"send_handle", "recv_handle"} THEN IpcStep(b, k, o)
        ELSE IF KindOf(o) = "dial" THEN Dial(b, k, o)
        ELSE IF p.done = "none" THEN Start(b, k, o)
        ELSE IF p.done \in {"error", "aborted"} THEN {Done(c, k, "error", TRUE)}
        ELSE IF p.stage = "idle" THEN ReadReady(b, k, o)
        ELSE CASE KindOf(o) = "write" ->
                    IF p.offset + 1 = Units THEN {Done(c, k, "wrote", TRUE)}
                    ELSE Start([c EXCEPT !.op[o].offset = @ + 1, !.op[o].stage = "start"], k, o)
               [] KindOf(o) = "accepts" -> {Done(c, k, "accepted", FALSE)}
               [] p.done = "eof" -> {Done(c, k, "eof", TRUE)}
               [] OTHER -> {Done(c, k, KindOf(o), TRUE)}

\* The lease of a read goes to the host with its data, back to the pool
\* otherwise.
Settled(x, o) ==
    LET b == IF ~x.terminal \/ ~x.b.op[o].lease THEN x.b
             ELSE IF x.event = "leased" THEN [x.b EXCEPT !.lent = @ + 1] ELSE [x.b EXCEPT !.leases = @ + 1]
        spent == [b EXCEPT !.accepts = IF x.event = "accepted" THEN @ - 1 ELSE @, !.room = @ - 1]
        p == b.op[o]
        back == [b EXCEPT !.pooling = IF p.pool THEN Append(@, o) ELSE @]
    IN  IF x.event = "none" THEN IF p.pool \/ p.waiting \/ p.listener THEN back ELSE Schedule(back, o)
        ELSE IF x.terminal THEN Unlink(spent, o)
        ELSE Schedule([spent EXCEPT !.op[o].stage = "start", !.op[o].done = "none"], o)

Tell(t, o, x) ==
    IF x.event = "none" THEN t
    ELSE [t EXCEPT ![o] = IF @ # "open" THEN "twice" ELSE IF x.terminal THEN "ended" ELSE @]

---------------------------------------------------------------------------
\* poll.

Begin(budget) ==
    /\ backend.phase = "idle"
    /\ backend' = [Refill(Resume(backend, budget)) EXCEPT !.phase = "first", !.room = Capacity]
    /\ UNCHANGED <<kernel, told>>

RunsMore == backend.steps > 0 /\ backend.room > 0

RunReady ==
    /\ backend.phase \in {"first", "second"} /\ RunsMore
    /\ LET o == Head(backend.ready)
           b == [backend EXCEPT !.ready = Tail(@), !.steps = @ - 1, !.op[o].queued = FALSE]
           p == b.op[o]
           held == [b EXCEPT !.op[o].throttled = TRUE, !.throttled = IF p.throttled THEN @ ELSE Append(@, o)]
       IN  IF ~p.held THEN backend' = b /\ UNCHANGED <<kernel, told>>
           ELSE IF ~p.cancelled /\ b.accepts = 0 /\ Throttles(o)
           THEN backend' = held /\ UNCHANGED <<kernel, told>>
           ELSE \E x \in IF p.cancelled THEN {Done(b, kernel, "cancelled", TRUE)} ELSE Execute(b, kernel, o) :
                    backend' = Settled(x, o) /\ kernel' = x.k /\ told' = Tell(told, o, x)

Decide ==
    /\ backend.phase = "first" /\ ~RunsMore
    /\ backend' = [backend EXCEPT !.phase = IF backend.room < Capacity \/ backend.ready # <<>> THEN "idle" ELSE "wait",
                                  !.room = Capacity, !.steps = 0]
    /\ UNCHANGED <<kernel, told>>

\* entry: a packet of an operation must find it waiting; one of a listener
\* that is gone is dropped.
Entry(b, e) ==
    LET p == b.op[e.n] IN
    IF e.to = "op"
    THEN IF ~p.held \/ ~p.waiting THEN [b EXCEPT !.invalid = TRUE]
         ELSE Schedule([b EXCEPT !.op[e.n].waiting = FALSE, !.op[e.n].done = e.result, !.bridged = @ \ {e.n}], e.n)
    ELSE LET h == CHOOSE x \in Handles : PipeListens(x)
             head == b.res[h].heads[In]
             filled == [b EXCEPT !.invalid = @ \/ ~b.slots[e.n].waiting,
                                 !.slots[e.n] = [waiting |-> FALSE, ready |-> e.result]]
         IN  IF ~b.res[h].open THEN b
             ELSE IF head = NoOp THEN filled
             ELSE Schedule([filled EXCEPT !.op[head].listener = FALSE], head)

\* The wait takes every packet there is, or ends without any: its timer, a
\* notification, an alert.
WaitEnds ==
    /\ backend.phase = "wait"
    /\ backend' = [Refill(FoldSeq(LAMBDA e, b : Entry(b, e), backend, Reverse(kernel.port)))
                   EXCEPT !.phase = "second"]
    /\ kernel' = [kernel EXCEPT !.port = <<>>]
    /\ UNCHANGED told

EndPoll ==
    /\ backend.phase = "second" /\ ~RunsMore
    /\ backend' = [backend EXCEPT !.phase = "idle", !.steps = 0]
    /\ UNCHANGED <<kernel, told>>

---------------------------------------------------------------------------
\* The kernel, the peer and the thread pool of the system.

Post(k, to, n, result) == [k EXCEPT !.port = Append(@, [to |-> to, n |-> n, result |-> result])]

\* A request ends with what it waited for, or aborted; a cancellation may lose
\* that race.
NativeEnds(o) ==
    /\ o \in kernel.pending
    /\ \E x \in (IF Completes(Sock(kernel, o), o) THEN Outcomes(Sock(kernel, o), o) ELSE {})
                \cup IF o \in kernel.aborting THEN {"aborted"} ELSE {} :
           LET k == [kernel EXCEPT !.pending = @ \ {o}, !.aborting = @ \ {o},
                                   !.sock[HandleOf(o)] = Taken(@, o, x)]
           IN  kernel' = IF backend.res[HandleOf(o)].routed THEN [k EXCEPT !.event[o] = x] ELSE Post(k, "op", o, x)
    /\ UNCHANGED <<backend, told>>

\* complete: the callback of the registered wait.
Callback(o) ==
    /\ kernel.event[o] # "none"
    /\ kernel' = [Post(kernel, "op", o, kernel.event[o]) EXCEPT !.event[o] = "none"]
    /\ UNCHANGED <<backend, told>>

Talks(h) == backend.res[h].open /\ ~kernel.sock[h].reset
Becomes(h, s) == kernel' = [kernel EXCEPT !.sock[h] = s] /\ UNCHANGED <<backend, told>>

Arrives(h) ==
    /\ Talks(h) /\ ~PipeListens(h) /\ ~kernel.sock[h].eof /\ kernel.sock[h].arrived < MaxArrivals
    /\ Becomes(h, [kernel.sock[h] EXCEPT !.in = @ + 1, !.arrived = @ + 1])

\* Another client takes the instance that was free.
Snatches(h) == Talks(h) /\ Dials(h) /\ kernel.sock[h].in > 0 /\ Becomes(h, [kernel.sock[h] EXCEPT !.in = @ - 1])

\* A client connects to an instance of a pipe listener.
Calls(h, i) ==
    /\ Talks(h) /\ PipeListens(h) /\ kernel.sock[h].arrived < MaxArrivals
    /\ backend.slots[i].waiting /\ ~\E e \in ToSet(kernel.port) : e.to = "slot" /\ e.n = i
    /\ \E x \in {"ok"} \cup IF Faults THEN {"error"} ELSE {} :
           kernel' = [Post(kernel, "slot", i, x) EXCEPT !.sock[h].arrived = @ + 1]
    /\ UNCHANGED <<backend, told>>

Listens(h) == \E o \in Ops : HandleOf(o) = h /\ KindOf(o) \in {"accept", "accepts", "pipes", "dial"}

KernelStep ==
    \/ \E o \in Ops : NativeEnds(o) \/ Callback(o)
    \/ \E h \in Handles :
           \/ Arrives(h) \/ Snatches(h) \/ \E i \in 1 .. Backlog : Calls(h, i)
           \/ Talks(h) /\ kernel.sock[h].out = 0 /\ Becomes(h, [kernel.sock[h] EXCEPT !.out = 1])
           \/ Talks(h) /\ ~Listens(h) /\ ~kernel.sock[h].eof /\ Becomes(h, [kernel.sock[h] EXCEPT !.eof = TRUE])
           \/ Talks(h) /\ ~Listens(h) /\ Faults /\ Becomes(h, [kernel.sock[h] EXCEPT !.reset = TRUE])

IocpNext ==
    \/ \E h \in Handles : Open(h) \/ Release(h)
    \/ \E o \in Ops : Submit(o) \/ Cancel(o)
    \/ ReturnLease \/ RunReady \/ Decide \/ WaitEnds \/ EndPoll
    \/ \E budget \in Budgets : Begin(budget)
    \/ KernelStep

---------------------------------------------------------------------------
\* The request of o is somewhere outside the engine.
Outside(o) ==
    \/ o \in kernel.pending \/ kernel.event[o] # "none"
    \/ \E e \in ToSet(kernel.port) : e.to = "op" /\ e.n = o

\* The storage of an operation, its buffer included, is released only after
\* the kernel gave it back: an operation waits exactly while its request or
\* the packet of it is outside, a direction has one such request, no packet
\* finds anybody else, and the wait of a bridge is registered once.
KernelOwnsWaiting ==
    /\ ~backend.invalid
    /\ \A o \in Ops : Outside(o) <=> backend.op[o].held /\ backend.op[o].waiting
    /\ \A o, p \in Ops : o # p /\ Outside(o) /\ Outside(p) => HandleOf(o) # HandleOf(p) \/ Direction(o) # Direction(p)

\* The loop blocks in the port only if every operation that it holds waits
\* for something that has not happened: its request, a buffer while there is
\* none, an instance of its listener, budget, or the operation before it.
IocpSleepsOverNothing ==
    backend.phase = "wait" =>
        /\ backend.ready = <<>>
        /\ backend.leases > 0 => backend.pooling = <<>>
        /\ \A o \in Ops : backend.op[o].held =>
               LET p == backend.op[o] IN
               \/ p.waiting
               \/ ~p.cancelled /\ p.pool /\ backend.leases = 0 /\ o \in ToSet(backend.pooling)
               \/ ~p.cancelled /\ p.listener /\ \A i \in 1 .. Backlog : backend.slots[i].ready = "none"
               \/ ~p.cancelled /\ p.throttled /\ backend.accepts = 0 /\ o \in ToSet(backend.throttled)
               \/ ~p.cancelled /\ backend.res[HandleOf(o)].heads[Direction(o)] # o

\* Operations of a direction end in turn: nothing is executed before those
\* submitted earlier, buffers leave in order and without gaps, and an
\* operation has one terminal event.
IocpInOrder ==
    /\ \A o \in Ops : told[o] # "twice"
    /\ \A h \in Handles : \A i, j \in DOMAIN kernel.sock[h].wire : i < j =>
           kernel.sock[h].wire[i] <= kernel.sock[h].wire[j]
    /\ \A o, p \in Ops :
           HandleOf(o) = HandleOf(p) /\ Direction(o) = Direction(p) /\ o < p /\ backend.op[o].held =>
               ~backend.op[p].waiting /\ backend.op[p].done = "none" /\ ~backend.op[p].lease

\* Every buffer of the pool is free, with a pending read, or with the host.
IocpLeasesCover ==
    backend.leases + Cardinality({o \in Ops : backend.op[o].lease}) + backend.lent = Leases
=============================================================================
