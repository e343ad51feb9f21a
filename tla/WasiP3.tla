------------------------------- MODULE WasiP3 -------------------------------
(***************************************************************************)
(* The WASI 0.3 backend (backend/wasi_p3.rs, wait_set.rs and               *)
(* return_storage.rs).  The head of each direction starts one native       *)
(* request, a subtask or a read or write of a stream or future, whose      *)
(* result the host writes into storage the operation pins.  A request that *)
(* does not return at once joins the wait set; a poll waits for one event  *)
(* of the set, or none.  Cancelling withdraws the request before anything  *)
(* it writes to is given back.                                             *)
(***************************************************************************)
EXTENDS Naturals, Sequences, FiniteSets, SequencesExt

CONSTANTS
    Program,             \* the operations in the order in which the driver submits them
    Capacity,            \* events_per_turn: room of one poll
    Budgets,             \* connections the driver can house when it polls
    Units,               \* stream writes it takes to write one buffer
    Leases,              \* buffers of the pool
    MaxArrivals,         \* bytes, connections or datagrams that reach one handle
    Breaks,              \* whether results other than success occur
    NoOp                 \* no operation

VARIABLES
    backend,             \* the backend: resources, lists, operations, the poll under way
    kernel,              \* the host: what it holds per handle, and its requests
    told                 \* per operation: whether its end was reported

p3Vars == <<backend, kernel, told>>

Ops == DOMAIN Program
HandleOf(o) == Program[o].handle
KindOf(o) == Program[o].kind
Handles == {HandleOf(o) : o \in Ops}

In == 1
Out == 2
Direction(o) == IF KindOf(o) \in {"accept", "accepts", "read", "reads", "recv"} THEN In ELSE Out
ToConnect(h) == \E o \in Ops : HandleOf(o) = h /\ KindOf(o) = "connect"
IsUdp(h) == \E o \in Ops : HandleOf(o) = h /\ KindOf(o) = "recv"
Pooled(o) == KindOf(o) \in {"reads", "recv"}

\* The native requests that are subtasks; the others are reads and writes of a
\* stream or a future.
Subtasks == {"connect", "receive"}

Absent == [open |-> FALSE, used |-> FALSE]
Resource(h) ==
    [open |-> TRUE, used |-> TRUE, connect |-> ToConnect(h), streams |-> ~ToConnect(h), closed |-> FALSE,
     readResult |-> "none", writer |-> TRUE, writeResult |-> "none",
     ready |-> <<TRUE, TRUE>>, lists |-> <<<<>>, <<>>>>, queued |-> FALSE, throttled |-> FALSE]

NewPending == [wait |-> "no", code |-> "none", offset |-> 0, lease |-> FALSE]

P3Init ==
    /\ backend = [res |-> [h \in Handles |-> Absent], submitted |-> 0, p |-> [o \in Ops |-> NewPending], set |-> {},
                  ready |-> <<>>, throttled |-> <<>>, cancelled |-> <<>>, accepts |-> 1, leases |-> Leases,
                  dropped |-> 0, delivered |-> 0, slots |-> 0, phase |-> "idle", room |-> 0, steps |-> 0]
    /\ kernel = [host |-> [h \in Handles |-> [in |-> 0, eof |-> FALSE, out |-> 1, arrived |-> 0, wire |-> <<>>]],
                 task |-> [o \in Ops |-> "none"], list |-> [o \in Ops |-> 0], given |-> 0]
    /\ told = [o \in Ops |-> "open"]

---------------------------------------------------------------------------
\* The lists and the queues.

First(b, h, d) == IF b.res[h].lists[d] = <<>> THEN NoOp ELSE b.res[h].lists[d][1]

Throttles(o) == o # NoOp /\ KindOf(o) = "accepts"

\* A parked accept whose read already fired leaves the wait set.
Schedule(b, h) ==
    LET r == b.res[h]
        o == First(b, h, In)
        held == b.accepts = 0 /\ r.ready[In] /\ Throttles(o)
    IN  IF ~r.open \/ r.queued THEN b
        ELSE IF \E d \in {In, Out} : r.ready[d] /\ r.lists[d] # <<>> /\ ~(d = In /\ held)
        THEN [b EXCEPT !.res[h].queued = TRUE, !.ready = Append(@, h)]
        ELSE IF held /\ ~r.throttled
        THEN [b EXCEPT !.res[h].throttled = TRUE, !.throttled = Append(@, h),
                       !.set = IF b.p[o].wait # "no" /\ b.p[o].code # "none" THEN @ \ {o} ELSE @]
        ELSE b

Resumed(b, budget) ==
    LET fresh == [b EXCEPT !.accepts = budget] IN
    IF budget = 0 THEN fresh
    ELSE FoldSeq(LAMBDA h, c : Schedule([c EXCEPT !.res[h].throttled = FALSE], h),
                 [fresh EXCEPT !.throttled = <<>>], Reverse(b.throttled))

Unlink(b, o) ==
    [b EXCEPT !.res[HandleOf(o)].lists[Direction(o)] = SelectSeq(@, LAMBDA x : x # o)]

---------------------------------------------------------------------------
\* The storage of returned lists: a slot per datagram socket at the high-water
\* mark, the heap beyond.  Slot numbers start at one; Heap stands for the heap.
Heap == 99

Allocated(b, k) ==
    LET free == {s \in 1 .. b.slots : \A o \in Ops : k.list[o] # s} IN
    IF free = {} THEN Heap ELSE CHOOSE s \in free : \A q \in free : s <= q

---------------------------------------------------------------------------
\* What the driver does between two polls.

Idle == backend.phase = "idle"
Pending(o) == o <= backend.submitted /\ told[o] = "open"
Cancels(o) == o \in ToSet(backend.cancelled)

Open(h) ==
    /\ Idle /\ ~backend.res[h].used
    /\ LET udp == Cardinality({x \in Handles : backend.res[x].open /\ IsUdp(x)}) + (IF IsUdp(h) THEN 1 ELSE 0) IN
       backend' = [backend EXCEPT !.res[h] = Resource(h), !.slots = IF @ < udp THEN @ + 1 ELSE @]
    /\ UNCHANGED <<kernel, told>>

Submit(o) ==
    LET h == HandleOf(o) IN
    /\ Idle /\ o = backend.submitted + 1 /\ backend.res[h].open
    /\ KindOf(o) = "connect" => backend.res[h].connect
    /\ backend' = Schedule([backend EXCEPT !.submitted = o,
                                           !.res[h].lists[Direction(o)] = Append(@, o)], h)
    /\ UNCHANGED <<kernel, told>>

\* quiesce: leave the set, take the code at hand or cancel the request for one,
\* and give back what a request that had succeeded meanwhile brought.
Quiesced(b, k, o) ==
    LET p == b.p[o]
        h == HandleOf(o)
        code == IF p.code \notin {"none", "started"} THEN p.code
                ELSE IF k.task[o] \in {"none", "starting", "running", "started"} THEN "cancelled" ELSE k.task[o]
        result == code \in {"ok", "err"}
    IN  IF p.wait = "no" THEN [b |-> b, k |-> k]
        ELSE [b |-> [b EXCEPT !.set = @ \ {o}, !.p[o].wait = "no", !.p[o].code = "none",
                              !.dropped = IF p.wait = "accept" /\ code = "sock" THEN @ + 1 ELSE @,
                              !.res[h].closed = @ \/ (p.wait = "read" /\ code = "closed"),
                              !.res[h].readResult = IF p.wait = "read_done" /\ result THEN code ELSE @,
                              !.res[h].writeResult = IF p.wait = "write_done" /\ result THEN code ELSE @],
              k |-> [k EXCEPT !.task[o] = "none", !.list[o] = 0]]

Cancel(o) ==
    LET h == HandleOf(o)
        q == Quiesced(backend, kernel, o)
        head == First(backend, h, Direction(o)) = o
        b == [Unlink(q.b, o) EXCEPT !.res[h].ready[Direction(o)] = @ \/ head, !.cancelled = Append(@, o)]
    IN  /\ Idle /\ Pending(o) /\ ~Cancels(o)
        /\ backend' = Schedule(b, h)
        /\ kernel' = q.k
        /\ UNCHANGED told

Release(h) ==
    /\ Idle /\ backend.res[h].open
    /\ \A o \in Ops : HandleOf(o) = h => o <= backend.submitted /\ ~Pending(o)
    /\ backend' = [backend EXCEPT !.res[h] = [open |-> FALSE, used |-> TRUE],
                                  !.ready = SelectSeq(@, LAMBDA x : x # h),
                                  !.throttled = SelectSeq(@, LAMBDA x : x # h)]
    /\ UNCHANGED <<kernel, told>>

ReturnLease ==
    /\ Idle /\ backend.leases + Cardinality({o \in Ops : backend.p[o].lease}) < Leases
    /\ backend' = [backend EXCEPT !.leases = @ + 1]
    /\ UNCHANGED <<kernel, told>>

\* Every operation is quiesced before the resources go.
Drop ==
    /\ Idle
    /\ LET q == FoldSet(LAMBDA o, x : Quiesced(x.b, x.k, o), [b |-> backend, k |-> kernel], Ops) IN
       /\ backend' = [q.b EXCEPT !.phase = "dropped"]
       /\ kernel' = q.k
    /\ UNCHANGED told

---------------------------------------------------------------------------
\* One run of an operation, from `e': the backend, the host and what it reports.

Outcome(e, event, terminal) == [e EXCEPT !.event = event, !.terminal = terminal]

\* start: at once with a code, or in the wait set without one.
Started(e, o, wait, code) ==
    LET blocked == code \in {"starting", "running"} IN
    [e EXCEPT !.b.p[o].wait = wait, !.b.p[o].code = IF blocked THEN "none" ELSE code,
              !.b.set = IF blocked THEN @ \cup {o} ELSE @,
              !.k.task[o] = IF blocked THEN code ELSE "none"]

\* A read or write that the host can serve at once is served, else it blocks.
StartAccept(e, o) ==
    IF e.k.host[HandleOf(o)].in = 0 THEN {Started(e, o, "accept", "running")}
    ELSE {Started([e EXCEPT !.k.host[HandleOf(o)].in = @ - 1, !.k.given = @ + 1], o, "accept", "sock")}

StartRead(e, o) ==
    LET k == e.k.host[HandleOf(o)] IN
    IF k.in > 0 THEN {Started([e EXCEPT !.k.host[HandleOf(o)].in = @ - 1], o, "read", "data")}
    ELSE {Started(e, o, "read", IF k.eof THEN "closed" ELSE "running")}

StartWrite(e, o) ==
    IF e.k.host[HandleOf(o)].out = 0 THEN {Started(e, o, "write", "running")}
    ELSE {Started([e EXCEPT !.k.host[HandleOf(o)].out = 0, !.k.host[HandleOf(o)].wire = Append(@, o)], o, "write", "some")}

Results == IF Breaks THEN {"ok", "err"} ELSE {"ok"}
StartDone(e, o, wait) == {Started(e, o, wait, code) : code \in Results \cup {"running"}}

Ended(e, r, event) == Outcome(e, IF r = "ok" THEN event ELSE "error", TRUE)

\* The operation with no request of its own under way.
Begun(e, o) ==
    LET h == HandleOf(o)
        r == e.b.res[h]
        pooled == [e EXCEPT !.b.p[o].lease = TRUE, !.b.leases = IF e.b.p[o].lease THEN @ ELSE @ - 1]
        dry == Pooled(o) /\ ~e.b.p[o].lease /\ e.b.leases = 0
    IN  CASE KindOf(o) = "connect" ->
                {Started(e, o, "connect", code) : code \in {"starting", "running"}}
                \cup {Ended(IF code = "ok" THEN [e EXCEPT !.b.res[h].streams = TRUE, !.b.res[h].connect = FALSE]
                            ELSE e, code, "connected") : code \in Results}
          [] KindOf(o) \in {"accept", "accepts"} -> StartAccept(e, o)
          [] KindOf(o) \in {"read", "reads"} ->
                IF ~r.streams THEN {Outcome(e, "error", TRUE)}
                ELSE IF r.readResult # "none" THEN {Ended(e, r.readResult, "eof")}
                ELSE IF r.closed THEN StartDone(e, o, "read_done")
                ELSE IF dry THEN {e}
                ELSE StartRead(IF Pooled(o) THEN pooled ELSE e, o)
          [] KindOf(o) = "write" ->
                IF e.b.p[o].offset = Units THEN {Outcome(e, "wrote", TRUE)}
                ELSE IF ~r.streams \/ ~r.writer THEN {Outcome(e, "error", TRUE)}
                ELSE StartWrite(e, o)
          [] KindOf(o) = "shutdown" ->
                IF ~r.streams THEN {Outcome(e, "error", TRUE)}
                ELSE IF r.writeResult # "none" THEN {Ended(e, r.writeResult, "shutdown")}
                ELSE StartDone([e EXCEPT !.b.res[h].writer = FALSE], o, "write_done")
          [] KindOf(o) = "recv" ->
                IF dry THEN {e}
                ELSE {Started(pooled, o, "receive", code) : code \in {"starting", "running"}}

\* The operation whose request has returned `code'.
Finished(e, o, wait, code) ==
    LET h == HandleOf(o) IN
    CASE wait = "connect" ->
            {Ended(IF code = "ok" THEN [e EXCEPT !.b.res[h].streams = TRUE, !.b.res[h].connect = FALSE] ELSE e,
                   code, "connected")}
      [] wait = "accept" ->
            {IF code # "sock" THEN Outcome(e, "error", TRUE)
             ELSE Outcome([e EXCEPT !.b.delivered = @ + 1], "accepted", KindOf(o) = "accept")}
      [] wait = "read" ->
            IF code = "data" THEN {Outcome([e EXCEPT !.b.p[o].lease = FALSE], "read", KindOf(o) = "read")}
            ELSE StartDone([e EXCEPT !.b.res[h].closed = TRUE], o, "read_done")
      [] wait = "read_done" -> {Ended([e EXCEPT !.b.res[h].readResult = code], code, "eof")}
      [] wait = "write" ->
            IF code # "some" THEN {Outcome(e, "error", TRUE)}
            ELSE Begun([e EXCEPT !.b.p[o].offset = @ + 1], o)
      [] wait = "write_done" -> {Ended([e EXCEPT !.b.res[h].writeResult = code], code, "shutdown")}
      [] wait = "receive" -> {Ended([e EXCEPT !.b.p[o].lease = FALSE, !.k.list[o] = 0], code, "received")}

Execute(e, o) ==
    LET p == e.b.p[o] IN
    IF p.wait = "no" THEN Begun(e, o)
    ELSE IF p.code = "none" THEN {e}
    ELSE IF p.code = "started" THEN {[e EXCEPT !.b.p[o].code = "none"]}
    ELSE Finished([e EXCEPT !.b.p[o].wait = "no", !.b.p[o].code = "none", !.b.set = @ \ {o}], o, p.wait, p.code)

Reports(x) == x.event # "none"

Applied(x, o) ==
    LET h == HandleOf(o)
        b == [x.b EXCEPT !.res[h].ready[Direction(o)] =
                             @ /\ ~(x.event = "none" /\ x.b.p[o].wait # "no" /\ x.b.p[o].code = "none"),
                         !.leases = IF x.terminal /\ x.b.p[o].lease THEN @ + 1 ELSE @,
                         !.p[o].lease = @ /\ ~x.terminal,
                         !.accepts = IF x.event = "accepted" /\ ~x.terminal THEN @ - 1 ELSE @,
                         !.room = IF Reports(x) THEN @ - 1 ELSE @]
    IN  [b |-> IF x.terminal THEN Unlink(b, o) ELSE b, k |-> x.k,
         t |-> IF ~Reports(x) THEN x.t
               ELSE [x.t EXCEPT ![o] = IF @ # "open" THEN "twice" ELSE IF x.terminal THEN "ended" ELSE @]]

---------------------------------------------------------------------------
\* poll.

\* Cancelled operations leave the table, with the lease one may still own.
Begin(budget) ==
    /\ Idle
    /\ LET b == Resumed(backend, budget)
           n == IF Len(b.cancelled) < Capacity THEN Len(b.cancelled) ELSE Capacity
           over == {b.cancelled[i] : i \in 1 .. n}
       IN  /\ backend' = [b EXCEPT !.cancelled = SubSeq(@, n + 1, Len(@)), !.phase = "first",
                                   !.leases = @ + Cardinality({o \in over : b.p[o].lease}),
                                   !.p = [o \in Ops |-> IF o \in over THEN NewPending ELSE @[o]],
                                   !.room = Capacity - n, !.steps = Capacity - n]
           /\ told' = [o \in Ops |-> IF o \notin over THEN told[o] ELSE IF told[o] = "open" THEN "ended" ELSE "twice"]
    /\ UNCHANGED kernel

RunsMore == backend.steps > 0 /\ backend.room > 0 /\ backend.ready # <<>>

Try(e, h, d) ==
    LET o == First(e.b, h, d) IN
    IF e.b.room = 0 \/ ~e.b.res[h].ready[d] \/ o = NoOp \/ (e.b.accepts = 0 /\ Throttles(o)) THEN {e}
    ELSE {Applied(x, o) :
             x \in Execute([b |-> e.b, k |-> e.k, t |-> e.t, event |-> "none", terminal |-> FALSE], o)}

RunReady ==
    /\ backend.phase \in {"first", "second"} /\ RunsMore
    /\ LET h == Head(backend.ready)
           popped == [backend EXCEPT !.ready = Tail(@), !.steps = @ - 1, !.res[h].queued = FALSE]
       IN  \E e1 \in Try([b |-> popped, k |-> kernel, t |-> told], h, In) :
           \E e2 \in Try(e1, h, Out) :
               backend' = Schedule(e2.b, h) /\ kernel' = e2.k /\ told' = e2.t

HasWork == backend.ready # <<>> \/ backend.cancelled # <<>>

Decide ==
    /\ backend.phase = "first" /\ ~RunsMore
    /\ backend' = [backend EXCEPT !.phase = IF HasWork \/ backend.room < Capacity THEN "idle" ELSE "wait",
                                  !.room = Capacity, !.steps = 0]
    /\ UNCHANGED <<kernel, told>>

\* An event of a request in the set: it started, or returned.
HasEvent(o) == kernel.task[o] \notin {"none", "starting", "running"}

\* One event, or the deadline, whose subtask leaves with this poll.
WaitEnds ==
    /\ backend.phase = "wait"
    /\ \/ /\ backend' = [backend EXCEPT !.phase = "second", !.steps = Capacity]
          /\ UNCHANGED kernel
       \/ \E o \in backend.set :
            /\ HasEvent(o)
            /\ backend' = Schedule([backend EXCEPT !.phase = "second", !.steps = Capacity,
                                                   !.p[o].code = kernel.task[o],
                                                   !.res[HandleOf(o)].ready[Direction(o)] = TRUE], HandleOf(o))
            /\ kernel' = [kernel EXCEPT !.task[o] = IF @ = "started" THEN "running" ELSE "none"]
    /\ UNCHANGED told

EndPoll ==
    /\ backend.phase = "second" /\ ~RunsMore
    /\ backend' = [backend EXCEPT !.phase = "idle", !.room = Capacity, !.steps = 0]
    /\ UNCHANGED <<kernel, told>>

---------------------------------------------------------------------------
\* The host.

Host(k) == kernel' = k /\ UNCHANGED <<backend, told>>

\* A request returns.
Returns(o) ==
    LET h == HandleOf(o)
        k == kernel.host[h]
        done(code) == [kernel EXCEPT !.task[o] = code]
        wait == backend.p[o].wait
    IN  /\ kernel.task[o] = "running"
        /\ \/ wait = "connect" /\ \E r \in Results : Host(done(r))
           \/ wait \in {"read_done", "write_done"} /\ \E r \in Results : Host(done(r))
           \/ wait = "accept" /\ k.in > 0 /\ Host([done("sock") EXCEPT !.host[h].in = @ - 1, !.given = @ + 1])
           \/ wait = "read" /\ k.in > 0 /\ Host([done("data") EXCEPT !.host[h].in = @ - 1])
           \/ wait = "read" /\ k.in = 0 /\ k.eof /\ Host(done("closed"))
           \/ wait = "write" /\ k.out > 0
              /\ Host([done("some") EXCEPT !.host[h].out = 0, !.host[h].wire = Append(@, o)])
           \/ wait = "write" /\ Breaks /\ Host(done("closed"))
           \/ wait = "receive" /\ k.in > 0
              /\ Host([done("ok") EXCEPT !.host[h].in = @ - 1, !.list[o] = Allocated(backend, kernel)])
           \/ wait = "receive" /\ Breaks /\ Host(done("err"))

HostStep ==
    \/ \E o \in Ops : Returns(o)
    \/ \E o \in Ops : kernel.task[o] = "starting" /\ Host([kernel EXCEPT !.task[o] = "started"])
    \/ \E h \in Handles : LET k == kernel.host[h] IN
        /\ backend.res[h].open /\ backend.res[h].streams
        /\ \/ ~k.eof /\ k.arrived < MaxArrivals
              /\ Host([kernel EXCEPT !.host[h].in = @ + 1, !.host[h].arrived = @ + 1])
           \/ ~k.eof /\ Host([kernel EXCEPT !.host[h].eof = TRUE])
           \/ k.out = 0 /\ Host([kernel EXCEPT !.host[h].out = 1])

P3Next ==
    \/ \E h \in Handles : Open(h) \/ Release(h)
    \/ \E o \in Ops : Submit(o) \/ Cancel(o)
    \/ ReturnLease \/ Drop
    \/ \E budget \in Budgets : Begin(budget)
    \/ RunReady \/ Decide \/ WaitEnds \/ EndPoll \/ HostStep

---------------------------------------------------------------------------
\* The host has a request only for an operation that waits for it and whose
\* end was not reported: nothing it writes to was given back by a completion,
\* a cancellation or the drop of the loop, and no request is forgotten.
P3OwnsRequests ==
    \A o \in Ops :
        /\ kernel.task[o] # "none" => Pending(o) /\ ~Cancels(o) /\ backend.p[o].wait # "no" /\ backend.phase # "dropped"
        /\ backend.p[o].wait # "no" /\ backend.p[o].code = "none" => kernel.task[o] # "none"

\* The loop waits only if no cancellation and no code is left to apply, and
\* every request under way is in the wait set; what is held back is a multishot
\* accept out of budget, and its request, once returned, is not in the set,
\* where it would end every wait.
P3SleepsOverNothing ==
    backend.phase = "wait" =>
        /\ ~HasWork
        /\ \A o \in Ops : kernel.task[o] # "none" => o \in backend.set
        /\ \A o \in backend.set : backend.p[o].code = "none"
        /\ \A h \in Handles, d \in {In, Out} :
               LET o == First(backend, h, d) IN
               backend.res[h].open /\ o # NoOp =>
                   \/ o \in backend.set
                   \/ backend.accepts = 0 /\ Throttles(o) /\ backend.res[h].throttled

\* A connection the host handed over was delivered, dropped by a cancellation,
\* or is in the storage of the one accept that took it; a returned list is in
\* one slot, owned by an operation that still waits for it.
P3LosesNothing ==
    /\ kernel.given = backend.delivered + backend.dropped
                      + Cardinality({o \in Ops : backend.p[o].code = "sock" \/ kernel.task[o] = "sock"})
    /\ \A o, q \in Ops : kernel.list[o] # 0 =>
        /\ backend.p[o].wait = "receive" /\ Pending(o)
        /\ o # q => kernel.list[o] # kernel.list[q] \/ kernel.list[o] = Heap
    /\ backend.leases + Cardinality({o \in Ops : backend.p[o].lease}) <= Leases

\* One terminal event and none after it, no multishot accept past the budget,
\* and buffers written in the order of their operations.
P3TellsOnce ==
    /\ backend.accepts >= 0
    /\ \A o \in Ops : told[o] # "twice"
    /\ \A h \in Handles : \A i, j \in DOMAIN kernel.host[h].wire :
           i < j => kernel.host[h].wire[i] <= kernel.host[h].wire[j]
=============================================================================
