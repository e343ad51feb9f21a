----------------------------- MODULE UnixEngine -----------------------------
(***************************************************************************)
(* The completion engine that epoll and kqueue share (backend/unix.rs)     *)
(* over an edge-triggered poller.  Each direction of a resource keeps an   *)
(* intrusive list of operations; readiness is cached until a system call   *)
(* says EAGAIN.  A poll first runs what is cached, sleeps in the poller    *)
(* only if that produced nothing and left nothing, and runs what the       *)
(* poller reported.  The kernel acts between any two of these steps.       *)
(* Regular files, which no poller reports, follow in the second half.      *)
(***************************************************************************)
EXTENDS Naturals, Sequences, FiniteSets, SequencesExt

CONSTANTS
    Program,             \* the operations in the order in which the host submits them
    Capacity,            \* events_per_turn: room of one poll, events of one wait
    Budgets,             \* connections the driver can house when it polls
    Units,               \* system calls it takes to write one buffer
    Leases,              \* buffers of the pool
    MaxArrivals,         \* bytes or connections that reach one handle
    Breaks,              \* whether the peer may reset
    MaxAttaches,         \* how often one transport is attached again
    NoOp                 \* no list element

VARIABLES
    backend,             \* the engine: resources, lists, queues and the poll under way
    kernel,              \* per handle, what the kernel holds for it
    told                 \* per operation: whether its end was reported, and how

engineVars == <<backend, kernel, told>>

\* An operation is its place in the program.
Ops == DOMAIN Program
HandleOf(o) == Program[o].handle
KindOf(o) == Program[o].kind
Handles == {HandleOf(o) : o \in Ops}

In == 1
Out == 2
Direction(o) == IF KindOf(o) \in {"accept", "accepts", "read", "reads"} THEN In ELSE Out
Listens(h) == \E o \in Ops : HandleOf(o) = h /\ KindOf(o) \in {"accept", "accepts"}
ToConnect(h) == \E o \in Ops : HandleOf(o) = h /\ KindOf(o) = "connect"

Unopened == [open |-> FALSE, used |-> FALSE]
Released == [open |-> FALSE, used |-> TRUE]
NewResource(connect) ==
    [open |-> TRUE, used |-> TRUE, connect |-> connect, connecting |-> FALSE, ready |-> <<TRUE, TRUE>>,
     heads |-> <<NoOp, NoOp>>, tails |-> <<NoOp, NoOp>>, queued |-> FALSE, throttled |-> FALSE]

NewSocket(h) ==
    [in |-> 0, eof |-> FALSE, out |-> 1, arrived |-> 0, edge |-> <<FALSE, FALSE>>, wire |-> <<>>,
     conn |-> IF ToConnect(h) THEN "none" ELSE "done"]

EngineInit ==
    /\ backend = [res |-> [h \in Handles |-> Unopened], next |-> [o \in Ops |-> NoOp], submitted |-> 0, attached |-> 0,
                  ready |-> <<>>, throttled |-> <<>>, cancelled |-> <<>>, accepts |-> 1, leases |-> Leases,
                  phase |-> "idle", room |-> 0, steps |-> 0, worked |-> FALSE]
    /\ kernel = [h \in Handles |-> NewSocket(h)]
    /\ told = [o \in Ops |-> "open"]

---------------------------------------------------------------------------
\* The lists and the queues.

Throttles(o) == o # NoOp /\ KindOf(o) = "accepts"

Held(b, h) == b.accepts = 0 /\ b.res[h].ready[In] /\ Throttles(b.res[h].heads[In])

Runs(b, h) ==
    \E d \in {In, Out} : b.res[h].ready[d] /\ b.res[h].heads[d] # NoOp /\ ~(d = In /\ Held(b, h))

Schedule(b, h) ==
    IF ~b.res[h].open \/ b.res[h].queued THEN b
    ELSE IF Runs(b, h)
    THEN [b EXCEPT !.res[h].queued = TRUE, !.ready = Append(@, h)]
    ELSE IF Held(b, h) /\ ~b.res[h].throttled
    THEN [b EXCEPT !.res[h].throttled = TRUE, !.throttled = Append(@, h)]
    ELSE b

Resume(b, budget) ==
    LET fresh == [b EXCEPT !.accepts = budget] IN
    IF budget = 0 THEN fresh
    ELSE FoldSeq(LAMBDA h, c : Schedule([c EXCEPT !.res[h].throttled = FALSE], h),
                 [fresh EXCEPT !.throttled = <<>>], Reverse(b.throttled))

Link(b, o) ==
    LET h == HandleOf(o)
        d == Direction(o)
        tail == b.res[h].tails[d]
    IN  [b EXCEPT !.res[h].tails[d] = o,
                  !.res[h].heads[d] = IF tail = NoOp THEN o ELSE @,
                  !.next = [x \in Ops |-> IF x = o THEN NoOp ELSE IF x = tail THEN o ELSE @[x]]]

\* The operations of a direction in list order.
Chain(b, h, d) ==
    LET walk[n \in 0 .. Cardinality(Ops)] ==
            IF n = 0 THEN <<>>
            ELSE LET before == walk[n - 1]
                     at == IF before = <<>> THEN b.res[h].heads[d] ELSE b.next[before[Len(before)]]
                 IN  IF at = NoOp \/ Len(before) < n - 1 THEN before ELSE Append(before, at)
    IN  walk[Cardinality(Ops)]

Unlink(b, o) ==
    LET h == HandleOf(o)
        d == Direction(o)
        r == b.res[h]
        chain == ToSet(Chain(b, h, d))
        before == {p \in chain : b.next[p] = o}
        tail == IF r.tails[d] # o THEN r.tails[d]
                ELSE IF r.heads[d] # o /\ before # {} THEN CHOOSE p \in before : TRUE ELSE NoOp
    IN  [b EXCEPT !.res[h].heads[d] = IF @ = o THEN b.next[o] ELSE @,
                  !.res[h].tails[d] = tail,
                  !.next = [x \in Ops |-> IF r.heads[d] # o /\ x \in before THEN b.next[o] ELSE @[x]]]

Pending(o) == o <= backend.submitted /\ told[o] = "open"

---------------------------------------------------------------------------
\* What the host does between two polls.

Open(h) ==
    /\ backend.phase = "idle" /\ ~backend.res[h].used
    /\ backend' = [backend EXCEPT !.res[h] = NewResource(ToConnect(h))]
    /\ kernel' = [kernel EXCEPT ![h] = [NewSocket(h) EXCEPT !.edge = <<TRUE, TRUE>>]]
    /\ UNCHANGED told

Submit(o) ==
    /\ backend.phase = "idle" /\ backend.res[HandleOf(o)].open
    /\ o = backend.submitted + 1
    /\ KindOf(o) = "connect" => backend.res[HandleOf(o)].connect
    /\ backend' = Schedule([Link(backend, o) EXCEPT !.submitted = o], HandleOf(o))
    /\ UNCHANGED <<kernel, told>>

Cancel(o) ==
    /\ backend.phase = "idle" /\ Pending(o) /\ o \notin ToSet(backend.cancelled)
    /\ backend' = Schedule([Unlink(backend, o) EXCEPT !.cancelled = Append(@, o)], HandleOf(o))
    /\ UNCHANGED <<kernel, told>>

\* The driver releases and detaches only a handle whose operations have ended.
Quiet(h) == \A o \in Ops : HandleOf(o) = h => ~Pending(o)

Without(b, h) ==
    [b EXCEPT !.res[h] = Released,
              !.ready = SelectSeq(@, LAMBDA x : x # h), !.throttled = SelectSeq(@, LAMBDA x : x # h)]

Release(h) ==
    /\ backend.phase = "idle" /\ backend.res[h].open /\ Quiet(h)
    /\ \A o \in Ops : HandleOf(o) = h => o <= backend.submitted
    /\ backend' = Without(backend, h)
    /\ UNCHANGED <<kernel, told>>

\* detach deregisters, attach registers the same descriptor on this loop again
\* with its readiness assumed.
Reattach(h) ==
    /\ backend.phase = "idle" /\ backend.res[h].open /\ Quiet(h) /\ backend.attached < MaxAttaches
    /\ backend.res[h].heads = <<NoOp, NoOp>>
    /\ backend' = [Without(backend, h) EXCEPT !.res[h] = NewResource(FALSE), !.attached = @ + 1]
    /\ kernel' = [kernel EXCEPT ![h].edge = <<TRUE, TRUE>>]
    /\ UNCHANGED told

ReturnLease ==
    /\ backend.phase = "idle" /\ backend.leases < Leases
    /\ backend' = [backend EXCEPT !.leases = @ + 1]
    /\ UNCHANGED <<kernel, told>>

---------------------------------------------------------------------------
\* One operation against the kernel: what it reports, or "again" for EAGAIN, or
\* "none" when it stays at the head with its readiness kept.

Result(event, terminal, k) == [event |-> event, terminal |-> terminal, k |-> k]
Again(k) == Result("again", FALSE, k)
Failure(k) == Result("error", TRUE, k)

Receive(o, k, pooled) ==
    IF pooled /\ backend.leases = 0 THEN Result("none", FALSE, k)
    ELSE IF k.conn \in {"none", "reset", "refused"} THEN Failure(k)
    ELSE IF k.in > 0 THEN Result("read", ~pooled, [k EXCEPT !.in = @ - 1])
    ELSE IF k.eof THEN Result("eof", TRUE, k)
    ELSE Again(k)

Write(o, k) ==
    LET offset == Cardinality({i \in DOMAIN k.wire : k.wire[i] = o}) IN
    IF k.conn # "done" THEN Failure(k)
    ELSE IF k.out = 0 THEN Again(k)
    ELSE Result(IF offset + 1 = Units THEN "wrote" ELSE "none", offset + 1 = Units,
                [k EXCEPT !.out = @ - 1, !.wire = Append(@, o)])

Connect(r, k) ==
    IF r.connecting
    THEN {IF k.conn = "refused" THEN Failure(k) ELSE Result("connected", TRUE, k)}
    ELSE {Result("connected", TRUE, [k EXCEPT !.conn = "done"]),
          Failure([k EXCEPT !.conn = "refused"]),
          Result("progress", FALSE, [k EXCEPT !.conn = "syn"])}

\* accept() fails before it takes a connection; a connection whose options cannot
\* be set is taken and dropped.  Either ends a multishot accept too.
Accept(o, k) ==
    LET taken == [k EXCEPT !.in = @ - 1] IN
    {Failure(k)} \cup
    IF k.in = 0 THEN {Again(k)}
    ELSE {Result("accepted", KindOf(o) = "accept", taken), Failure(taken)}

Execute(r, o, k) ==
    {Result("interrupted", FALSE, k)} \cup
    CASE KindOf(o) \in {"accept", "accepts"} ->
            Accept(o, k)
      [] KindOf(o) = "read" -> {Receive(o, k, FALSE)}
      [] KindOf(o) = "reads" -> {Receive(o, k, TRUE)}
      [] KindOf(o) = "write" -> {Write(o, k)}
      [] KindOf(o) = "shutdown" -> {Result("shutdown", TRUE, [k EXCEPT !.wire = Append(@, o)])}
      [] KindOf(o) = "connect" -> Connect(r, k)

Reports(x) == x.event \notin {"again", "none", "interrupted", "progress"}

Applied(b, h, d, o, x) ==
    LET r == [b.res[h] EXCEPT !.ready[d] = @ /\ x.event \notin {"again", "progress"},
                              !.connecting = @ \/ x.event = "progress",
                              !.connect = @ /\ x.event # "connected"]
        c == [b EXCEPT !.res[h] = r,
                       !.leases = IF KindOf(o) = "reads" /\ x.event = "read" THEN @ - 1 ELSE @,
                       !.accepts = IF KindOf(o) = "accepts" /\ x.event = "accepted" THEN @ - 1 ELSE @,
                       !.room = IF Reports(x) THEN @ - 1 ELSE @,
                       !.worked = @ \/ Reports(x) \/ x.event = "interrupted" \/ x.k # kernel[h]]
    IN  IF x.terminal THEN Unlink(c, o) ELSE c

Tell(t, o, x) ==
    IF ~Reports(x) THEN t
    ELSE [t EXCEPT ![o] = CASE @ # "open" -> "twice"
                            [] ~x.terminal -> "open"
                            [] x.event = "connected" -> "connected"
                            [] OTHER -> "ended"]

---------------------------------------------------------------------------
\* poll.

Begin(budget) ==
    /\ backend.phase = "idle"
    /\ LET resumed == Resume(backend, budget)
           n == IF Len(resumed.cancelled) < Capacity THEN Len(resumed.cancelled) ELSE Capacity
           over == {resumed.cancelled[i] : i \in 1 .. n}
       IN  /\ backend' = [resumed EXCEPT !.cancelled = SubSeq(@, n + 1, Len(@)), !.phase = "first",
                                         !.room = Capacity - n, !.steps = Capacity - n, !.worked = n > 0]
           /\ told' = [o \in Ops |-> IF o \notin over THEN told[o]
                                     ELSE IF told[o] = "open" THEN "ended" ELSE "twice"]
    /\ UNCHANGED kernel

RunsMore == backend.steps > 0 /\ backend.room > 0 /\ backend.ready # <<>>

\* What one direction of a resource taken from the queue may do.
Attempts(b, h, d) ==
    LET o == b.res[h].heads[d] IN
    IF b.room = 0 \/ ~b.res[h].ready[d] \/ o = NoOp \/ (b.accepts = 0 /\ Throttles(o)) THEN {}
    ELSE {o}

RunReady ==
    /\ backend.phase \in {"first", "second"} /\ RunsMore
    /\ LET h == Head(backend.ready)
           b0 == [backend EXCEPT !.ready = Tail(@), !.steps = @ - 1, !.res[h].queued = FALSE]
           first == Attempts(b0, h, In)
           Passed(b) == LET c == Schedule(b, h) IN [c EXCEPT !.worked = @ \/ ~c.res[h].queued]
       IN  \E x1 \in IF first = {} THEN {0} ELSE Execute(b0.res[h], CHOOSE o \in first : TRUE, kernel[h]) :
               LET o1 == CHOOSE o \in first : TRUE
                   b1 == IF first = {} THEN b0 ELSE Applied(b0, h, In, o1, x1)
                   k1 == IF first = {} THEN kernel[h] ELSE x1.k
                   t1 == IF first = {} THEN told ELSE Tell(told, o1, x1)
                   second == Attempts(b1, h, Out)
               IN  \E x2 \in IF second = {} THEN {0} ELSE Execute(b1.res[h], CHOOSE o \in second : TRUE, k1) :
                       LET o2 == CHOOSE o \in second : TRUE IN
                       IF second = {}
                       THEN backend' = Passed(b1) /\ kernel' = [kernel EXCEPT ![h] = k1] /\ told' = t1
                       ELSE /\ backend' = Passed(Applied(b1, h, Out, o2, x2))
                            /\ kernel' = [kernel EXCEPT ![h] = x2.k]
                            /\ told' = Tell(t1, o2, x2)

HasWork == backend.ready # <<>> \/ backend.cancelled # <<>>

\* Cached work is done: return what there is, or sleep.
Decide ==
    /\ backend.phase = "first" /\ ~RunsMore
    /\ backend' = [backend EXCEPT !.phase = IF HasWork \/ backend.room < Capacity THEN "idle" ELSE "wait",
                                  !.room = Capacity, !.steps = 0, !.worked = FALSE]
    /\ UNCHANGED <<kernel, told>>

Level(k, d) ==
    \/ k.conn \in {"none", "reset", "refused"}
    \/ d = In /\ (k.in > 0 \/ k.eof)
    \/ d = Out /\ k.conn = "done" /\ k.out > 0

Fires(h) == backend.res[h].open /\ \E d \in {In, Out} : kernel[h].edge[d] /\ Level(kernel[h], d)

\* The poller reports the edges whose condition still holds, or the wait ends
\* without any: its timeout, a notification, a signal.  epoll reports both
\* directions of a descriptor that fires, kqueue each filter.
WaitEnds(both) ==
    /\ backend.phase = "wait"
    /\ LET fired == {h \in Handles : Fires(h)} IN
       \E some \in SUBSET fired :
           /\ Cardinality(some) <= Capacity
           /\ Cardinality(some) < Capacity => some \in {fired, {}}
           /\ LET noted == [h \in Handles |->
                      IF h \notin some THEN backend.res[h]
                      ELSE [backend.res[h] EXCEPT !.ready =
                              [d \in {In, Out} |-> @[d] \/ (Level(kernel[h], d) /\ (both \/ kernel[h].edge[d]))]]]
              IN  backend' = FoldSet(LAMBDA h, b : Schedule(b, h),
                                     [backend EXCEPT !.res = noted, !.phase = "second", !.steps = Capacity],
                                     some)
           /\ kernel' = [h \in Handles |-> IF h \in some THEN [kernel[h] EXCEPT !.edge = <<FALSE, FALSE>>]
                                           ELSE kernel[h]]
    /\ UNCHANGED told

EndPoll ==
    /\ backend.phase = "second" /\ ~RunsMore
    /\ backend' = [backend EXCEPT !.phase = "idle", !.room = Capacity, !.steps = 0, !.worked = FALSE]
    /\ UNCHANGED <<kernel, told>>

---------------------------------------------------------------------------
\* The kernel.

Becomes(h, k) == kernel' = [kernel EXCEPT ![h] = k] /\ UNCHANGED <<backend, told>>
Talks(h) == backend.res[h].open /\ kernel[h].conn = "done"

Arrives(h) ==
    /\ Talks(h) /\ ~kernel[h].eof /\ kernel[h].arrived < MaxArrivals
    /\ Becomes(h, [kernel[h] EXCEPT !.in = @ + 1, !.arrived = @ + 1, !.edge[In] = TRUE])

Ends(h) == Talks(h) /\ ~kernel[h].eof /\ Becomes(h, [kernel[h] EXCEPT !.eof = TRUE, !.edge[In] = TRUE])

Drains(h) == Talks(h) /\ kernel[h].out = 0 /\ Becomes(h, [kernel[h] EXCEPT !.out = 1, !.edge[Out] = TRUE])

Resets(h) == Talks(h) /\ Becomes(h, [kernel[h] EXCEPT !.conn = "reset", !.edge = <<TRUE, TRUE>>])

Connects(h, how) ==
    /\ backend.res[h].open /\ kernel[h].conn = "syn"
    /\ Becomes(h, [kernel[h] EXCEPT !.conn = how, !.edge = <<@[In] \/ how = "refused", TRUE>>])

KernelStep ==
    \E h \in Handles :
        \/ Arrives(h) \/ Drains(h) \/ Connects(h, "done") \/ Connects(h, "refused")
        \/ ~Listens(h) /\ Ends(h)
        \/ ~Listens(h) /\ Breaks /\ Resets(h)

PollStep ==
    \/ \E budget \in Budgets : Begin(budget)
    \/ RunReady \/ Decide \/ EndPoll
    \/ \E both \in BOOLEAN : WaitEnds(both)

EngineNext ==
    \/ \E h \in Handles : Open(h) \/ Release(h) \/ Reattach(h)
    \/ \E o \in Ops : Submit(o) \/ Cancel(o)
    \/ ReturnLease \/ PollStep \/ KernelStep

---------------------------------------------------------------------------
\* What would happen if the head of this direction were tried now.
CouldMove(h, d) ==
    LET o == backend.res[h].heads[d] IN
    /\ backend.res[h].open /\ o # NoOp
    /\ Level(kernel[h], d)

\* The loop blocks in the poller only if no cancellation waits to be reported
\* and every operation that could move is about to be reported by the poller,
\* or is a multishot accept without budget: readiness cached or consumed on any
\* path is never forgotten.
EngineSleepsOverNothing ==
    backend.phase = "wait" =>
        /\ backend.cancelled = <<>> /\ backend.ready = <<>>
        /\ backend.accepts > 0 => backend.throttled = <<>>
        /\ \A h \in Handles, d \in {In, Out} :
               CouldMove(h, d) => Fires(h) \/ (backend.accepts = 0 /\ Throttles(backend.res[h].heads[d]))

\* The intrusive list of a direction holds exactly the operations that are
\* pending and not cancelled, in the order of submission, whatever was
\* cancelled from its head, middle or tail; its tail is its last element.
ListsAreFifo ==
    \A h \in Handles, d \in {In, Out} : backend.res[h].open =>
        LET chain == Chain(backend, h, d) IN
        /\ chain = SelectSeq([i \in 1 .. backend.submitted |-> i], LAMBDA o :
                       /\ HandleOf(o) = h /\ Direction(o) = d /\ Pending(o)
                       /\ o \notin ToSet(backend.cancelled))
        /\ backend.res[h].tails[d] = IF chain = <<>> THEN NoOp ELSE chain[Len(chain)]

\* An operation has one terminal event and none after it; a multishot accept
\* never takes a connection past the budget of its poll; and a connect that
\* reports success is connected, not merely without an error so far.
EngineTellsOnce ==
    /\ backend.accepts >= 0
    /\ \A o \in Ops :
        /\ told[o] # "twice"
        /\ told[o] = "connected" => kernel[HandleOf(o)].conn \in {"done", "reset"}

\* Buffers leave a handle in the order in which their writes were submitted,
\* each without a gap, and a shutdown after the writes before it.
WritesInOrder ==
    \A h \in Handles : \A i, j \in DOMAIN kernel[h].wire : i < j =>
        kernel[h].wire[i] <= kernel[h].wire[j]

\* A poll that returns at once, with neither events nor a wait, has moved
\* something, unless every resource that it tried waits for a buffer of the pool:
\* only the host, which holds the leases, ends that.
NeverSpins ==
    backend.phase = "first" /\ ~RunsMore /\ HasWork /\ backend.room = Capacity /\ ~backend.worked =>
        \E h \in ToSet(backend.ready) : /\ backend.res[h].heads[In] # NoOp /\ backend.leases = 0
                                        /\ KindOf(backend.res[h].heads[In]) = "reads"

---------------------------------------------------------------------------
(***************************************************************************)
(* Regular files of the Unix backend (backend/files.rs): poll never reads  *)
(* or writes one.  Each file keeps its operations in a list; the head is a *)
(* job on the shared blocking pool, with a pool lease if it reads into     *)
(* one.  Workers run jobs at any time and publish through a ring, then     *)
(* notify, then leave the count that Files::drop waits for.                *)
(***************************************************************************)
CONSTANTS
    FileOps,             \* operations, in the order in which they are submitted
    Length,              \* reads a file answers before its end
    Room                 \* events of one poll

fileVars == <<backend, kernel, told>>

FOps == DOMAIN FileOps
FileOf(o) == FileOps[o].handle
FileNames == {FileOf(o) : o \in FOps}
Pooled(o) == FileOps[o].kind \in {"pooled", "multishot"}
Multishot(o) == FileOps[o].kind = "multishot"

FilesInit ==
    /\ backend = [lists |-> [f \in FileNames |-> <<>>], submitted |-> {}, cancelled |-> {}, flagged |-> {},
                  ready |-> <<>>, awaiting |-> <<>>, leases |-> {}, free |-> Leases, lent |-> 0,
                  results |-> <<>>, running |-> 0, next |-> 1, at |-> "idle", room |-> Room, notified |-> FALSE]
    /\ kernel = [jobs |-> [o \in FOps |-> "none"], notifying |-> 0, leaving |-> 0, read |-> [f \in FileNames |-> 0],
                 order |-> [f \in FileNames |-> <<>>]]
    /\ told = [o \in FOps |-> "open"]

Idle == backend.at = "idle"
Owner(r) == r[1]

---------------------------------------------------------------------------
\* The loop thread.

FileSubmit(o) ==
    /\ Idle /\ o = backend.next
    /\ backend' = [backend EXCEPT !.lists[FileOf(o)] = Append(@, o), !.next = @ + 1,
                                  !.ready = IF backend.lists[FileOf(o)] = <<>> THEN Append(@, o) ELSE @]
    /\ UNCHANGED <<kernel, told>>

FileCancel(o) ==
    /\ Idle /\ o < backend.next /\ told[o] = "open" /\ o \notin backend.cancelled
    /\ LET waits == o \in ToSet(backend.awaiting) IN
       backend' = [backend EXCEPT !.cancelled = @ \cup {o},
                                  !.awaiting = SelectSeq(@, LAMBDA x : x # o),
                                  !.ready = IF waits THEN Append(@, o) ELSE @,
                                  !.flagged = IF o \in backend.submitted THEN @ \cup {o} ELSE @]
    /\ UNCHANGED <<kernel, told>>

FilesHaveWork ==
    \/ backend.results # <<>> \/ backend.ready # <<>>
    \/ backend.awaiting # <<>> /\ backend.free > 0

\* What start does with one element of the ready queue.
Launched(b, o, refused) ==
    LET b0 == [b EXCEPT !.ready = Tail(@)] IN
    IF o \in b.cancelled
    THEN [b0 EXCEPT !.submitted = @ \cup {o}, !.results = Append(@, <<o, "cancelled">>)]
    ELSE IF Pooled(o) /\ b.free = 0
    THEN [b0 EXCEPT !.awaiting = Append(@, o)]
    ELSE LET b1 == IF Pooled(o) THEN [b0 EXCEPT !.free = @ - 1, !.leases = @ \cup {o}] ELSE b0
             b2 == [b1 EXCEPT !.submitted = @ \cup {o}, !.flagged = @ \ {o}]
         IN  IF refused THEN [b2 EXCEPT !.results = Append(@, <<o, "error">>)]
             ELSE [b2 EXCEPT !.running = @ + 1]

Retried(b) ==
    IF b.free = 0 THEN b
    ELSE [b EXCEPT !.ready = @ \o b.awaiting, !.awaiting = <<>>]

PollFiles ==
    /\ Idle
    /\ backend' = [Retried(backend) EXCEPT !.at = "start", !.room = Room]
    /\ UNCHANGED <<kernel, told>>

StartJob ==
    /\ backend.at \in {"start", "restart"} /\ backend.ready # <<>>
    /\ LET o == Head(backend.ready) IN
       \E refused \in BOOLEAN :
           LET b == Launched(backend, o, refused) IN
           /\ backend' = b
           /\ kernel' = IF b.running > backend.running THEN [kernel EXCEPT !.jobs[o] = "queued"] ELSE kernel
    /\ UNCHANGED told

\* The outcome of a job is terminal unless a multishot read goes on.
Terminal(r) == Owner(r) \in backend.cancelled \/ ~Multishot(Owner(r)) \/ r[2] # "read"

TakeResult ==
    /\ backend.at = "take" /\ backend.room > 0 /\ backend.results # <<>>
    /\ LET r == Head(backend.results)
           o == Owner(r)
           rest == Tail(backend.lists[FileOf(o)])
           read == r[2] = "read" /\ o \in backend.leases
           b == [backend EXCEPT !.results = Tail(@), !.room = @ - 1, !.leases = @ \ {o},
                                !.lent = IF read THEN @ + 1 ELSE @,
                                !.free = IF o \in backend.leases /\ ~read THEN @ + 1 ELSE @]
       IN  /\ backend' =
                 IF Terminal(r)
                 THEN [b EXCEPT !.lists[FileOf(o)] = rest,
                                !.ready = IF rest = <<>> THEN @ ELSE Append(@, rest[1])]
                 ELSE [b EXCEPT !.submitted = @ \ {o}, !.ready = Append(@, o)]
           /\ told' = [told EXCEPT ![o] = IF @ # "open" THEN "twice" ELSE IF Terminal(r) THEN r[2] ELSE @]
    /\ UNCHANGED kernel

\* The steps of one poll: start, take results while there is room, start.
NextStage ==
    \/ /\ backend.at = "start" /\ backend.ready = <<>>
       /\ backend' = [backend EXCEPT !.at = "take"]
    \/ /\ backend.at = "take" /\ (backend.room = 0 \/ backend.results = <<>>)
       /\ backend' = [Retried(backend) EXCEPT !.at = "restart"]
    \/ /\ backend.at = "restart" /\ backend.ready = <<>>
       /\ backend' = [backend EXCEPT !.at = IF FilesHaveWork \/ backend.room < Room THEN "idle" ELSE "wait",
                                     !.room = Room]

PollGoesOn == NextStage /\ UNCHANGED <<kernel, told>>

\* The wait ends by a notification, or for another reason.
FilesWake ==
    /\ backend.at = "wait"
    /\ backend' = [backend EXCEPT !.at = "idle", !.notified = FALSE]
    /\ UNCHANGED <<kernel, told>>

ReturnsLease ==
    /\ Idle /\ backend.lent > 0
    /\ backend' = [backend EXCEPT !.lent = @ - 1, !.free = @ + 1]
    /\ UNCHANGED <<kernel, told>>

\* Files::drop flags every active operation that has a slot, then waits for the
\* workers; nothing the operations own may be touched once it returns.
FilesDrop ==
    /\ Idle
    /\ backend' = [backend EXCEPT !.at = "dropping", !.flagged = backend.submitted]
    /\ UNCHANGED <<kernel, told>>

FilesDropped ==
    /\ backend.at = "dropping" /\ backend.running = 0
    /\ backend' = [backend EXCEPT !.at = "dropped"]
    /\ UNCHANGED <<kernel, told>>

---------------------------------------------------------------------------
\* A worker of the pool: Slot::run.

WorkerTakes(o) ==
    /\ kernel.jobs[o] = "queued"
    /\ kernel' = [kernel EXCEPT !.jobs[o] = IF o \in backend.flagged THEN "skips" ELSE "executes"]
    /\ UNCHANGED <<backend, told>>

\* execute: one read or the whole write, at the position of the file, or an error.
Outcomes(o) ==
    {"error"} \cup
    IF FileOps[o].kind = "write" THEN {"wrote"}
    ELSE IF kernel.read[FileOf(o)] < Length THEN {"read"} ELSE {"eof"}

WorkerPublishes(o) ==
    /\ kernel.jobs[o] \in {"skips", "executes"}
    /\ \E outcome \in IF kernel.jobs[o] = "skips" THEN {"cancelled"} ELSE Outcomes(o) :
           /\ backend' = [backend EXCEPT !.results = Append(@, <<o, outcome>>)]
           /\ kernel' = [kernel EXCEPT !.jobs[o] = "none", !.notifying = @ + 1,
                            !.read[FileOf(o)] = IF outcome = "read" THEN @ + 1 ELSE @,
                            !.order[FileOf(o)] = IF kernel.jobs[o] = "executes" /\ o \notin ToSet(@)
                                                 THEN Append(@, o) ELSE @]
    /\ UNCHANGED told

\* Publication and notification are two steps, and the slot may serve its next
\* job in between: a worker that has published is no longer tied to it.
WorkerNotifies ==
    /\ kernel.notifying > 0
    /\ backend' = [backend EXCEPT !.notified = TRUE]
    /\ kernel' = [kernel EXCEPT !.notifying = @ - 1, !.leaving = @ + 1]
    /\ UNCHANGED told

WorkerLeaves ==
    /\ kernel.leaving > 0
    /\ backend' = [backend EXCEPT !.running = @ - 1]
    /\ kernel' = [kernel EXCEPT !.leaving = @ - 1]
    /\ UNCHANGED told

FilesNext ==
    \/ \E o \in FOps : FileSubmit(o) \/ FileCancel(o) \/ WorkerTakes(o) \/ WorkerPublishes(o)
    \/ PollFiles \/ StartJob \/ TakeResult \/ PollGoesOn \/ FilesWake \/ ReturnsLease
    \/ FilesDrop \/ FilesDropped \/ WorkerNotifies \/ WorkerLeaves
---------------------------------------------------------------------------
InFlight == {o \in FOps : kernel.jobs[o] # "none"}

\* The jobs of a file run one at a time and in the order of submission, also
\* around cancellations and the restarts of a multishot read; and what start
\* takes up is always an unsubmitted head, listed once.
FileJobsInOrder ==
    /\ \A o \in InFlight : o = Head(backend.lists[FileOf(o)])
    /\ \A f \in FileNames : \A i, j \in DOMAIN kernel.order[f] : i < j => kernel.order[f][i] < kernel.order[f][j]
    /\ LET queue == backend.ready \o backend.awaiting IN
       /\ Cardinality(ToSet(queue)) = Len(queue)
       /\ \A o \in ToSet(queue) : o = Head(backend.lists[FileOf(o)]) /\ o \notin backend.submitted

\* A job that may still touch memory has its lease held by the loop, leases are
\* neither lost nor made, the count that drop waits for is exact, and after the
\* drop nothing touches an operation's memory.
FileLeasesCover ==
    /\ \A o \in InFlight : Pooled(o) => o \in backend.leases
    /\ backend.free + backend.lent + Cardinality(backend.leases) = Leases
    /\ backend.running = Cardinality(InFlight) + kernel.notifying + kernel.leaving
    /\ backend.at = "dropped" => InFlight = {}

\* The loop blocks only if there is nothing to start and a published result is
\* announced or about to be.
FilesSleepOverNothing ==
    backend.at = "wait" =>
        /\ backend.ready = <<>> /\ (backend.awaiting = <<>> \/ backend.free = 0)
        /\ backend.results = <<>> \/ backend.notified \/ kernel.notifying > 0
        /\ \A o \in backend.cancelled : told[o] = "open" =>
               \E p \in FOps : p <= o /\ FileOf(p) = FileOf(o) /\ (p \in InFlight \/ p \in ToSet(backend.awaiting)
                                \/ \E r \in ToSet(backend.results) : Owner(r) = p)

\* An operation ends once, cancelled or not, and only an unfinished multishot
\* read that nobody cancelled reports and goes on.
FileEndsOnce ==
    /\ \A o \in FOps : told[o] # "twice"
    /\ \A o \in FOps : o < backend.next => (told[o] = "open") = (o \in ToSet(backend.lists[FileOf(o)]))
=============================================================================
