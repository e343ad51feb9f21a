---------------------------- MODULE IocpServices ----------------------------
(***************************************************************************)
(* Children and signals of the Windows backend (backend/iocp/services.rs,  *)
(* signals.rs and the Child of process.rs).  The console runs a control    *)
(* handler on a thread of its own, which walks the published tickets; the  *)
(* exit of a child is a callback of the system's thread pool.  Both set a  *)
(* flag and notify the loop, and both use memory that the loop frees.      *)
(* Directory watches follow in the second half.                            *)
(***************************************************************************)
EXTENDS Naturals, Sequences, FiniteSets, FiniteSetsExt, SequencesExt

CONSTANTS
    Watchers,            \* slots of signal watchers, numbers
    Children,            \* slots of children, numbers above those of the watchers
    Room,                \* events of one poll
    MaxRaises,           \* controls that the console raises
    MaxOpens,            \* subscriptions of one slot
    MaxSubmits           \* operations of one slot

VARIABLES
    backend,             \* the entries and the poll under way
    kernel,              \* tickets, the control thread, processes and callbacks
    told                 \* what the host was told, and what it is owed

iocpServiceVars == <<backend, kernel, told>>

Slots == Watchers \cup Children
NoSlot == 0
NoEntry == [open |-> FALSE, op |-> FALSE, cancelled |-> FALSE, closing |-> FALSE, leaving |-> FALSE]
NoChild == [proc |-> "none", ready |-> FALSE, wait |-> FALSE, calling |-> FALSE, status |-> FALSE, terminating |-> FALSE]

IocpServicesInit ==
    /\ backend = [entry |-> [x \in Slots |-> NoEntry], pending |-> 0, phase |-> "idle", dropping |-> NoSlot]
    /\ kernel = [published |-> {}, live |-> {}, pending |-> {}, wake |-> FALSE, raises |-> 0,
                 active |-> FALSE, todo |-> {}, holds |-> NoSlot, stored |-> FALSE,
                 child |-> [c \in Children |-> NoChild]]
    /\ told = [opens |-> [x \in Slots |-> 0], submits |-> [x \in Slots |-> 0], owed |-> {}, wrong |-> FALSE]

Idle == backend.phase = "idle" /\ backend.dropping = NoSlot

---------------------------------------------------------------------------
\* The child.

Exited(p) == p.proc = "exited"

\* status: the callback is joined before the flag it uses can go.
Status(p) == IF p.ready THEN [p EXCEPT !.status = TRUE, !.wait = FALSE] ELSE p

\* kill: the system refuses to end what has an exit code; what it accepted is
\* not over yet.
Kill(p) ==
    IF p.status \/ p.terminating THEN p
    ELSE IF p.proc = "running" THEN [p EXCEPT !.proc = "exiting", !.terminating = TRUE]
    ELSE [p EXCEPT !.terminating = TRUE, !.ready = @ \/ Exited(p)]

CloseChild(p) ==
    IF p.status THEN p
    ELSE IF p.ready \/ Exited(p) THEN Status([p EXCEPT !.ready = TRUE])
    ELSE IF p.terminating THEN p ELSE Kill(p)

---------------------------------------------------------------------------
\* The host, between polls.

Opens(x) == /\ Idle /\ ~backend.entry[x].open /\ told.opens[x] < MaxOpens
            /\ backend' = [backend EXCEPT !.entry[x] = [NoEntry EXCEPT !.open = TRUE]]
            /\ told' = [told EXCEPT !.opens[x] = @ + 1]

Subscribe(w) ==
    /\ Opens(w)
    /\ kernel' = [kernel EXCEPT !.published = @ \cup {w}, !.live = @ \cup {w}, !.pending = @ \ {w}]

\* The child is suspended until its wait is registered.
Spawn(c) ==
    /\ Opens(c)
    /\ kernel' = [kernel EXCEPT !.child[c] = [NoChild EXCEPT !.proc = "running", !.wait = TRUE]]

Submit(x) ==
    /\ Idle /\ backend.entry[x].open /\ ~backend.entry[x].op /\ ~backend.entry[x].leaving /\ told.submits[x] < MaxSubmits
    /\ backend' = [backend EXCEPT !.entry[x].op = TRUE, !.entry[x].cancelled = FALSE, !.pending = @ + 1]
    /\ told' = [told EXCEPT !.submits[x] = @ + 1]
    /\ UNCHANGED kernel

Cancel(x) ==
    /\ Idle /\ backend.entry[x].op
    /\ backend' = [backend EXCEPT !.entry[x].cancelled = ~backend.entry[x].closing]
    /\ UNCHANGED <<kernel, told>>

KillChild(c) ==
    /\ Idle /\ backend.entry[c].open
    /\ kernel' = [kernel EXCEPT !.child[c] = Kill(@)]
    /\ UNCHANGED <<backend, told>>

\* The driver closes: prepare_close, then the operation is cancelled.
Close(x) ==
    /\ Idle /\ backend.entry[x].open /\ ~backend.entry[x].leaving
    /\ backend' = [backend EXCEPT !.entry[x].closing = x \in Children, !.entry[x].leaving = TRUE,
                                  !.entry[x].cancelled = x \notin Children]
    /\ kernel' = IF x \in Children THEN [kernel EXCEPT !.child[x] = CloseChild(@)] ELSE kernel
    /\ UNCHANGED told

\* release, once no operation is left: a subscription is unpublished first, a
\* child that still runs is killed.
Release(x) ==
    /\ Idle /\ backend.entry[x].leaving /\ ~backend.entry[x].op
    /\ backend' = [backend EXCEPT !.dropping = x]
    /\ kernel' = IF x \in Watchers THEN [kernel EXCEPT !.published = @ \ {x}]
                 ELSE [kernel EXCEPT !.child[x] = IF Exited(@) THEN Status([@ EXCEPT !.ready = TRUE]) ELSE Kill(@)]
    /\ told' = [told EXCEPT !.owed = @ \ {x}]

\* The drop waits for the control thread, or for the exit and the callback.
Dropped ==
    /\ backend.dropping # NoSlot
    /\ LET x == backend.dropping IN
       /\ IF x \in Watchers THEN ~kernel.active
          ELSE kernel.child[x].status \/ (Exited(kernel.child[x]) /\ ~kernel.child[x].calling)
       /\ kernel' = IF x \in Watchers THEN [kernel EXCEPT !.live = @ \ {x}, !.pending = @ \ {x}]
                    ELSE [kernel EXCEPT !.child[x] = NoChild]
       /\ backend' = [backend EXCEPT !.dropping = NoSlot, !.entry[x] = NoEntry]
    /\ UNCHANGED told

---------------------------------------------------------------------------
\* poll.  collect goes through the entries in order, while there is room.

Ends(x) == backend.entry[x].cancelled \/ (x \in Children /\ kernel.child[x].ready)
Ready(x) == backend.entry[x].op /\ (Ends(x) \/ x \in kernel.pending)
Collected == {x \in Slots : Ready(x) /\ Cardinality({y \in Slots : Ready(y) /\ y < x}) < Room}

\* status joins the callback, which may still be notifying.
Collect(next) ==
    /\ \A c \in Collected \cap Children : ~backend.entry[c].cancelled => ~kernel.child[c].calling
    /\ LET over == {x \in Collected : Ends(x)}
           signals == Collected \ over
       IN  /\ backend' = [backend EXCEPT
                  !.entry = [x \in Slots |-> IF x \in over THEN [@[x] EXCEPT !.op = FALSE] ELSE @[x]],
                  !.pending = @ - Cardinality(over), !.phase = IF Collected = {} THEN next ELSE "idle"]
           /\ kernel' = [kernel EXCEPT !.pending = @ \ signals,
                  !.child = [c \in Children |-> IF c \in over /\ ~backend.entry[c].cancelled THEN Status(@[c]) ELSE @[c]]]
           /\ told' = [told EXCEPT !.owed = @ \ signals,
                  !.wrong = @ \/ \E c \in over \cap Children : ~backend.entry[c].cancelled /\ ~Exited(kernel.child[c])]

First == Idle /\ Collect("wait")
Second == backend.phase = "second" /\ Collect("idle")

\* A notification, or anything else, ends the wait.
WaitEnds ==
    /\ backend.phase = "wait"
    /\ backend' = [backend EXCEPT !.phase = "second"]
    /\ kernel' = [kernel EXCEPT !.wake = FALSE]
    /\ UNCHANGED told

---------------------------------------------------------------------------
\* The control thread, dispatch.

KernelStep(k) == kernel' = k /\ UNCHANGED backend

Raise ==
    /\ ~kernel.active /\ kernel.raises < MaxRaises
    /\ KernelStep([kernel EXCEPT !.active = TRUE, !.raises = @ + 1, !.todo = Watchers])
    /\ told' = [told EXCEPT !.owed = @ \cup kernel.published]

LoadSlot ==
    /\ kernel.active /\ kernel.holds = NoSlot /\ kernel.todo # {}
    /\ LET w == Min(kernel.todo) IN
       KernelStep([kernel EXCEPT !.todo = @ \ {w}, !.holds = IF w \in kernel.published THEN w ELSE NoSlot])
    /\ UNCHANGED told

Store ==
    /\ kernel.holds # NoSlot /\ ~kernel.stored
    /\ KernelStep([kernel EXCEPT !.stored = TRUE, !.pending = @ \cup {kernel.holds}])
    /\ UNCHANGED told

NotifyLoop ==
    /\ kernel.stored
    /\ KernelStep([kernel EXCEPT !.stored = FALSE, !.holds = NoSlot, !.wake = TRUE])
    /\ UNCHANGED told

Return ==
    /\ kernel.active /\ kernel.todo = {} /\ kernel.holds = NoSlot
    /\ KernelStep([kernel EXCEPT !.active = FALSE])
    /\ UNCHANGED told

\* Processes: an exit code first, then the signalled handle, then the callback
\* of the registered wait.
ProcessSteps(c) ==
    /\ LET p == kernel.child[c] IN
       \/ p.proc = "running" /\ KernelStep([kernel EXCEPT !.child[c].proc = "exiting"])
       \/ p.proc = "exiting" /\ KernelStep([kernel EXCEPT !.child[c].proc = "exited"])
       \/ Exited(p) /\ p.wait /\ ~p.calling /\ KernelStep([kernel EXCEPT !.child[c].calling = TRUE, !.child[c].ready = TRUE])
       \/ p.calling /\ KernelStep([kernel EXCEPT !.child[c].calling = FALSE, !.child[c].wait = FALSE, !.wake = TRUE])
    /\ UNCHANGED told

IocpServicesNext ==
    \/ \E w \in Watchers : Subscribe(w)
    \/ \E c \in Children : Spawn(c) \/ KillChild(c) \/ ProcessSteps(c)
    \/ \E x \in Slots : Submit(x) \/ Cancel(x) \/ Close(x) \/ Release(x)
    \/ Dropped \/ First \/ Second \/ WaitEnds
    \/ Raise \/ LoadSlot \/ Store \/ NotifyLoop \/ Return

---------------------------------------------------------------------------
\* The control thread never uses a ticket that was freed, the callback never a
\* child that was; and the count that lets collect return early is exact.
TicketsOutliveUse ==
    /\ kernel.holds # NoSlot => kernel.holds \in kernel.live
    /\ \A c \in Children : kernel.child[c].calling => backend.entry[c].open
    /\ backend.pending = Cardinality({x \in Slots : backend.entry[x].op})

\* The loop blocks over no entry that is ready, unless somebody is about to
\* notify it.
IocpServicesSleep ==
    backend.phase = "wait" /\ ~kernel.wake =>
        \A x \in Slots : Ready(x) => kernel.stored \/ (x \in Children /\ kernel.child[x].calling)

\* A control reaches everyone subscribed when it was raised, and a child is
\* reported, or its close completed, only after it has exited.
ControlsAreSeen ==
    /\ ~told.wrong
    /\ ~kernel.active => told.owed \subseteq kernel.pending

---------------------------------------------------------------------------
(***************************************************************************)
(* Watches of the Windows backend (backend/iocp/watch.rs, fs/watch.rs): a  *)
(* directory has one request at a time in the kernel, which collects       *)
(* changes between two requests and drops them all when its buffer is      *)
(* full; the packet of a request is parsed into a ring of bounded room,    *)
(* and reported from there in buffers of the pool.  A watch that is        *)
(* released with a request pending is retired until its packet came.       *)
(***************************************************************************)
CONSTANTS
    Watched,             \* handles of watches
    Changes,             \* changes that happen to every directory
    Mine,                \* those of the watched name; the parent's others are skipped
    BufferRoom,          \* changes the kernel keeps between two requests
    RingRoom,            \* changes the ring keeps
    Leases,              \* buffers of the pool, one change each
    Faults               \* whether requests may fail

iocpWatchVars == <<backend, kernel, told>>

Keys == Watched \X (1 .. MaxOpens)
NoWatch == [open |-> FALSE, key |-> 0, armed |-> FALSE, cancelling |-> FALSE, queued |-> FALSE,
            op |-> FALSE, ring |-> <<>>, lost |-> FALSE]

IocpWatchesInit ==
    /\ backend = [watch |-> [h \in Watched |-> NoWatch], opens |-> [h \in Watched |-> 0], ready |-> <<>>, finished |-> <<>>,
                  retired |-> {}, leases |-> Leases, phase |-> "idle", room |-> 0, invalid |-> FALSE, dropping |-> FALSE]
    /\ kernel = [pending |-> {}, aborting |-> {}, kept |-> [k \in Keys |-> <<>>], over |-> {}, listening |-> {}, port |-> <<>>, now |-> 0]
    /\ told = [seen |-> [k \in Keys |-> {}], from |-> [k \in Keys |-> 0], ended |-> [k \in Keys |-> 0], warned |-> {}]

KeyOf(h) == <<h, backend.opens[h]>>
WatchIdle == backend.phase = "idle" /\ ~backend.dropping
IsEmpty(w) == w.ring = <<>> /\ ~w.lost
Aborting(k, key) == [k EXCEPT !.aborting = IF key \in k.pending THEN @ \cup {key} ELSE @]

---------------------------------------------------------------------------
\* start and the one operation, which the driver submits with it.
Start(h) ==
    /\ WatchIdle /\ ~backend.watch[h].open /\ backend.opens[h] < MaxOpens
    /\ LET key == <<h, backend.opens[h] + 1>> IN
       /\ backend' = [backend EXCEPT !.opens[h] = @ + 1, !.watch[h] = [NoWatch EXCEPT !.open = TRUE, !.armed = TRUE, !.op = TRUE]]
       /\ kernel' = [kernel EXCEPT !.pending = @ \cup {key}, !.listening = @ \cup {key}]
       /\ told' = [told EXCEPT !.from[key] = kernel.now]

Finish(b, h, result) ==
    IF ~b.watch[h].op THEN b
    ELSE [b EXCEPT !.watch[h].op = FALSE, !.finished = Append(@, <<h, b.opens[h], result>>)]

\* The end follows the acknowledgement of the kernel, if a request is pending.
CancelWatch(h) ==
    /\ WatchIdle /\ backend.watch[h].op /\ ~backend.watch[h].cancelling
    /\ LET b == [backend EXCEPT !.watch[h].cancelling = TRUE, !.watch[h].ring = <<>>, !.watch[h].lost = FALSE] IN
       backend' = IF b.watch[h].armed THEN b ELSE Finish(b, h, "cancelled")
    /\ kernel' = Aborting(kernel, KeyOf(h))
    /\ UNCHANGED told

\* After the end was reported: a pending request retires the storage.
ReleaseWatch(h) ==
    /\ WatchIdle /\ backend.watch[h].open /\ told.ended[KeyOf(h)] > 0
    /\ backend' = [backend EXCEPT !.watch[h] = NoWatch, !.ready = SelectSeq(@, LAMBDA x : x # h),
                                  !.retired = IF backend.watch[h].armed THEN @ \cup {KeyOf(h)} ELSE @]
    /\ kernel' = [Aborting(kernel, KeyOf(h)) EXCEPT !.listening = @ \ {KeyOf(h)}]
    /\ UNCHANGED told

ReturnLease == /\ WatchIdle /\ backend.leases < Leases
               /\ backend' = [backend EXCEPT !.leases = @ + 1]
               /\ UNCHANGED <<kernel, told>>

---------------------------------------------------------------------------
\* A packet.

\* parse: an empty packet says that the kernel dropped what it had; a ring
\* without room remembers that it did.
Parse(w, e) ==
    IF e.over THEN [w EXCEPT !.lost = TRUE]
    ELSE FoldSeq(LAMBDA c, v : IF c \notin Mine THEN v
                               ELSE IF Len(v.ring) = RingRoom THEN [v EXCEPT !.lost = TRUE]
                               ELSE [v EXCEPT !.ring = Append(@, c)],
                 w, Reverse(e.changes))

\* completed, and the next request; the packets of retired watches free them.
Completed(s, e) ==
    LET h == e.key[1]
        w == s.b.watch[h]
        taken == [s EXCEPT !.b.watch[h].armed = FALSE]
        parsed == [taken EXCEPT !.b.watch[h] = Parse(@, e)]
        armed == [parsed EXCEPT !.b.watch[h].armed = TRUE, !.k.pending = @ \cup {e.key}]
        queue == w.op /\ ~w.queued /\ ~IsEmpty(parsed.b.watch[h])
    IN  IF e.key \in s.b.retired THEN {[s EXCEPT !.b.retired = @ \ {e.key}]}
        ELSE IF ~w.open \/ e.key # KeyOf(h) \/ ~w.armed THEN {[s EXCEPT !.b.invalid = TRUE]}
        ELSE IF w.cancelling THEN {[taken EXCEPT !.b = Finish(taken.b, h, "cancelled")]}
        ELSE IF e.status = "error" THEN {[taken EXCEPT !.b = Finish(taken.b, h, "error")]}
        ELSE {IF queue THEN [armed EXCEPT !.b.watch[h].queued = TRUE, !.b.ready = Append(@, h)] ELSE armed}
             \cup IF Faults THEN {[parsed EXCEPT !.b = Finish(parsed.b, h, "error")]} ELSE {}

Entries(s, port) == FoldSeq(LAMBDA e, states : UNION {Completed(t, e) : t \in states}, {s}, Reverse(port))

---------------------------------------------------------------------------
\* collect, one event a step: the ends first, then the rings.

Collecting == backend.phase \in {"first", "second"} /\ backend.room > 0

CollectFinished ==
    /\ Collecting /\ backend.finished # <<>>
    /\ backend' = [backend EXCEPT !.finished = Tail(@), !.room = @ - 1]
    /\ LET f == Head(backend.finished) IN told' = [told EXCEPT !.ended[<<f[1], f[2]>>] = @ + 1]
    /\ UNCHANGED kernel

Reportable == backend.ready # <<>> /\ (backend.leases > 0 \/ LET w == backend.watch[Head(backend.ready)] IN
                                                                ~w.op \/ w.cancelling \/ IsEmpty(w))

CollectReady ==
    /\ Collecting /\ backend.finished = <<>> /\ Reportable
    /\ LET h == Head(backend.ready)
           w == backend.watch[h]
           rest == [backend EXCEPT !.ready = Tail(@)]
           after == [w EXCEPT !.ring = IF @ = <<>> THEN @ ELSE Tail(@), !.lost = FALSE]
           more == ~IsEmpty(after)
           done == [rest EXCEPT !.watch[h] = [after EXCEPT !.queued = more], !.leases = @ - 1, !.room = @ - 1,
                                !.ready = IF more THEN Append(@, h) ELSE @]
       IN  IF ~w.op \/ w.cancelling \/ IsEmpty(w)
           THEN backend' = [rest EXCEPT !.watch[h].queued = FALSE] /\ UNCHANGED told
           ELSE /\ backend' = done
                /\ told' = [told EXCEPT !.seen[KeyOf(h)] = @ \cup (IF w.ring = <<>> THEN {} ELSE {Head(w.ring)}),
                                        !.warned = IF w.lost THEN @ \cup {KeyOf(h)} ELSE @]
    /\ UNCHANGED kernel

CanCollect == backend.room > 0 /\ (backend.finished # <<>> \/ Reportable)

Pending == backend.retired # {} \/ \E h \in Watched : backend.watch[h].armed

Begin ==
    /\ backend.phase = "idle" /\ (backend.dropping => Pending)
    /\ backend' = [backend EXCEPT !.phase = "first", !.room = Room]
    /\ UNCHANGED <<kernel, told>>

Decide ==
    /\ backend.phase = "first" /\ ~CanCollect
    /\ backend' = [backend EXCEPT !.phase = IF backend.room < Room THEN "idle" ELSE "wait"]
    /\ UNCHANGED <<kernel, told>>

WatchWaitEnds ==
    /\ backend.phase = "wait" /\ (backend.dropping => kernel.port # <<>>)
    /\ \E s \in Entries([b |-> backend, k |-> [kernel EXCEPT !.port = <<>>]], kernel.port) :
           backend' = [s.b EXCEPT !.phase = "second"] /\ kernel' = s.k
    /\ UNCHANGED told

EndPoll ==
    /\ backend.phase = "second" /\ ~CanCollect
    /\ backend' = [backend EXCEPT !.phase = "idle"]
    /\ UNCHANGED <<kernel, told>>

\* Drop of the backend: cancel everything, then poll while anything is pending.
Shutdown ==
    /\ WatchIdle
    /\ backend' = [backend EXCEPT !.dropping = TRUE,
                                  !.watch = [h \in Watched |-> [@[h] EXCEPT !.cancelling = @ \/ backend.watch[h].open]]]
    /\ kernel' = [kernel EXCEPT !.aborting = @ \cup (kernel.pending \cap {KeyOf(h) : h \in {x \in Watched : backend.watch[x].armed}})]
    /\ UNCHANGED told

---------------------------------------------------------------------------
\* The kernel.

Happens ==
    /\ kernel.now < Changes /\ kernel.listening # {}
    /\ LET c == kernel.now + 1
           full == {k \in kernel.listening : Len(kernel.kept[k]) = BufferRoom}
       IN  kernel' = [kernel EXCEPT !.now = c, !.over = @ \cup full,
                          !.kept = [k \in Keys |-> IF k \notin kernel.listening THEN @[k]
                                                   ELSE IF k \in full THEN <<>> ELSE Append(@[k], c)]]
    /\ UNCHANGED <<backend, told>>

\* A request ends with what was kept, aborted if that was asked, or in error.
RequestEnds(key) ==
    /\ key \in kernel.pending
    /\ \E status \in (IF kernel.kept[key] # <<>> \/ key \in kernel.over THEN {"ok"} ELSE {})
                     \cup (IF key \in kernel.aborting \/ Faults THEN {"error"} ELSE {}) :
           LET e == [key |-> key, status |-> status, over |-> status = "ok" /\ key \in kernel.over,
                     changes |-> IF status = "ok" THEN kernel.kept[key] ELSE <<>>]
           IN  kernel' = [kernel EXCEPT !.pending = @ \ {key}, !.aborting = @ \ {key}, !.port = Append(@, e),
                              !.kept[key] = <<>>, !.over = @ \ {key}]
    /\ UNCHANGED <<backend, told>>

IocpWatchesNext ==
    \/ \E h \in Watched : Start(h) \/ CancelWatch(h) \/ ReleaseWatch(h)
    \/ ReturnLease \/ Begin \/ CollectFinished \/ CollectReady \/ Decide \/ WatchWaitEnds \/ EndPoll \/ Shutdown
    \/ Happens \/ \E key \in Keys : RequestEnds(key)

---------------------------------------------------------------------------
InPort(key) == \E e \in ToSet(kernel.port) : e.key = key

\* The buffer and the OVERLAPPED of a request outlive it: what is pending, or
\* whose packet has not been taken, is armed or retired, and nothing else is;
\* no packet finds another watch; and a watch ends once.
WatchStorageIsOwned ==
    /\ ~backend.invalid
    /\ {key \in Keys : key \in kernel.pending \/ InPort(key)}
           = backend.retired \cup {KeyOf(h) : h \in {x \in Watched : backend.watch[x].open /\ backend.watch[x].armed}}
    /\ \A key \in Keys : told.ended[key] <= 1

\* Whatever happened to the watched name since the watch began was reported,
\* is on its way, or a loss was reported or is about to be.
IocpNoSilentLoss ==
    \A h \in Watched : backend.watch[h].op /\ ~backend.watch[h].cancelling =>
        LET key == KeyOf(h)
            w == backend.watch[h]
            onTheWay == ToSet(w.ring) \cup ToSet(kernel.kept[key])
                        \cup UNION {ToSet(e.changes) : e \in {x \in ToSet(kernel.port) : x.key = key}}
            loss == key \in told.warned \/ w.lost \/ key \in kernel.over
                    \/ \E e \in ToSet(kernel.port) : e.key = key /\ (e.over \/ e.status = "error")
        IN  loss \/ ((told.from[key] + 1) .. kernel.now) \cap Mine \subseteq told.seen[key] \cup onTheWay

\* The loop blocks over no end, and over no ring that it has a buffer for; a
\* watch it holds has a request; and the drop of the backend waits only for
\* packets that come.
IocpWatchesSleep ==
    backend.phase = "wait" =>
        /\ backend.finished = <<>>
        /\ \A h \in Watched : LET w == backend.watch[h] IN
               /\ w.op => w.armed
               /\ w.op /\ ~w.cancelling /\ ~IsEmpty(w) => h \in ToSet(backend.ready) /\ backend.leases = 0
        /\ backend.dropping => kernel.aborting # {} \/ kernel.port # <<>>
=============================================================================
