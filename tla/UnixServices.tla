---------------------------- MODULE UnixServices ----------------------------
(***************************************************************************)
(* Signals and children of the Unix backend (backend/services.rs and       *)
(* backend/signals.rs).  A signal handler leaves a flag and a byte; one    *)
(* dispatcher thread per process turns them into tickets and entries of a  *)
(* loop's ready queue, under the lock that subscribing and unsubscribing   *)
(* take.  A child is watched by a pidfd or kqueue filter and by a          *)
(* subscription to SIGCHLD, because the filter may fire before the exit    *)
(* status can be read.  Filesystem watches follow in the second half.      *)
(***************************************************************************)
EXTENDS Naturals, Sequences, FiniteSets, SequencesExt

CONSTANTS
    Watchers,            \* handles that subscribe to a signal
    Children,            \* handles of child processes
    Room,                \* events of one poll
    MaxRaises, MaxOpens, MaxSubmits

VARIABLES
    backend,             \* Services, the signal records and the poll under way
    kernel,              \* children, signal flags, the pipe and the dispatcher thread
    told                 \* per handle: signals it is owed, and the exits it reported

serviceVars == <<backend, kernel, told>>

Handles == Watchers \cup Children
Signals == (IF Watchers = {} THEN {} ELSE {"usr"}) \cup (IF Children = {} THEN {} ELSE {"chld"})
SignalOf(h) == IF h \in Watchers THEN "usr" ELSE "chld"

NoEntry == [live |-> FALSE]
Entry(status) == [live |-> TRUE, op |-> FALSE, cancelled |-> FALSE, status |-> status]
Vacant == [at |-> "poll", scan |-> {}, taken |-> {}, left |-> {}, stage |-> 0]

ServicesInit ==
    /\ backend = [entry |-> [h \in Handles |-> NoEntry], ticket |-> [h \in Handles |-> FALSE], queue |-> <<>>,
                  subscribers |-> {}, at |-> "idle", steps |-> 0, room |-> 0,
                  opens |-> [h \in Handles |-> 0], submits |-> [h \in Handles |-> 0]]
    /\ kernel = [child |-> [h \in Children |-> "none"], filter |-> [h \in Children |-> FALSE],
                 edge |-> {}, flag |-> [s \in Signals |-> FALSE], writing |-> 0, pipe |-> FALSE,
                 handler |-> {}, notified |-> FALSE, raises |-> 0, helper |-> Vacant]
    /\ told = [h \in Handles |-> [owed |-> FALSE, exits |-> 0]]

Idle == backend.at = "idle"
Live(h) == backend.entry[h].live
Watching(h) == Live(h) /\ backend.entry[h].op

---------------------------------------------------------------------------
\* ReadyQueue: one credit per handle.
Pushed(b, h) == [b EXCEPT !.queue = IF h \in ToSet(@) THEN @ ELSE Append(@, h)]
Removed(b, h) == [b EXCEPT !.queue = SelectSeq(@, LAMBDA x : x # h)]

\* subscribe and Subscription::drop take the records lock, which the dispatcher
\* holds from its first to its last ticket.
RecordsFree == kernel.helper.at # "dispatch"

Subscribed(b, h) == [b EXCEPT !.subscribers = @ \cup {h}, !.ticket[h] = FALSE]
Unsubscribed(b, h) == [b EXCEPT !.subscribers = @ \ {h}]

\* Every subscription starts from a cleared flag, the first or not.
DispositionClears(k, b) == [k EXCEPT !.handler = {SignalOf(h) : h \in b.subscribers}, !.flag = [s \in Signals |-> FALSE]]

\* The disposition follows the records: installed by the first subscriber of a
\* number, restored by the last one.
Disposition(k, b) == [k EXCEPT !.handler = {SignalOf(h) : h \in b.subscribers}]

---------------------------------------------------------------------------
\* The loop thread.

WatchSignal(h) ==
    /\ Idle /\ h \in Watchers /\ ~Live(h) /\ backend.opens[h] < MaxOpens /\ RecordsFree
    /\ backend' = [Subscribed(backend, h) EXCEPT !.entry[h] = Entry(FALSE), !.opens[h] = @ + 1]
    /\ kernel' = Disposition(kernel, backend')
    /\ told' = [told EXCEPT ![h].owed = FALSE]

\* The first half of register_child: subscribe, before the child is looked at.
SpawnChild(h) ==
    /\ Idle /\ h \in Children /\ ~Live(h) /\ backend.opens[h] < MaxOpens /\ RecordsFree
    /\ kernel.child[h] \in {"none", "reaped"}
    /\ backend' = [Subscribed(backend, h) EXCEPT !.opens[h] = @ + 1, !.at = h]
    /\ kernel' = [Disposition(kernel, backend') EXCEPT !.child[h] = "running", !.filter[h] = FALSE, !.edge = @ \ {h}]
    /\ told' = [told EXCEPT ![h] = [owed |-> FALSE, exits |-> 0]]

Reaped(k, h) == [k EXCEPT !.child[h] = "reaped"]

\* register: a filter; ESRCH from a child that is leaving, which is waited for;
\* no pidfd in this kernel, where SIGCHLD has to do.
RegisterChild(h) ==
    /\ backend.at = h
    /\ \/ /\ kernel' = [kernel EXCEPT !.filter[h] = TRUE,
                                      !.edge = IF kernel.child[h] = "running" THEN @ ELSE @ \cup {h}]
          /\ backend' = [backend EXCEPT !.entry[h] = Entry(FALSE), !.at = "idle"]
       \/ /\ kernel.child[h] = "zombie"
          /\ kernel' = Reaped(kernel, h)
          /\ backend' = [backend EXCEPT !.entry[h] = Entry(TRUE), !.at = "idle"]
       \/ /\ kernel' = kernel
          /\ backend' = [backend EXCEPT !.entry[h] = Entry(FALSE), !.at = "idle"]
    /\ UNCHANGED told

\* Any other failure drops the ChildState, which kills and reaps, and then the
\* subscription; release clears the credit a dispatch may have left.
RegisterFails(h) ==
    /\ backend.at = h /\ RecordsFree
    /\ backend' = [Removed(Unsubscribed(backend, h), h) EXCEPT !.at = "idle"]
    /\ kernel' = Disposition(Reaped(kernel, h), backend')
    /\ UNCHANGED told

SubmitWatch(h) ==
    /\ Idle /\ Live(h) /\ ~Watching(h) /\ backend.submits[h] < MaxSubmits
    /\ LET b == [backend EXCEPT !.entry[h].op = TRUE, !.entry[h].cancelled = FALSE, !.submits[h] = @ + 1] IN
       backend' = IF h \in Children \/ backend.ticket[h] THEN Pushed(b, h) ELSE b
    /\ UNCHANGED <<kernel, told>>

CancelWatch(h) ==
    /\ Idle /\ Watching(h)
    /\ backend' = Pushed([backend EXCEPT !.entry[h].cancelled = TRUE], h)
    /\ UNCHANGED <<kernel, told>>

\* Closing a child: prepare_close reaps or kills it, and the driver cancels its
\* operation.
CloseChild(h) ==
    /\ Idle /\ h \in Children /\ Live(h)
    /\ LET gone == backend.entry[h].status \/ kernel.child[h] = "zombie" IN
       /\ backend' = Pushed([backend EXCEPT !.entry[h].cancelled = backend.entry[h].op,
                                            !.entry[h].status = gone], h)
       /\ kernel' = IF gone THEN Reaped(kernel, h)
                    ELSE IF kernel.child[h] = "running" THEN [kernel EXCEPT !.child[h] = "killed"] ELSE kernel
    /\ UNCHANGED told

\* The driver releases a handle whose operation has ended.  Dropping the entry
\* kills and reaps a child that is still there, then unsubscribes.
ReleaseService(h) ==
    /\ Idle /\ Live(h) /\ ~Watching(h) /\ RecordsFree
    /\ backend' = [Removed(Unsubscribed(backend, h), h) EXCEPT !.entry[h] = NoEntry]
    /\ LET k == Disposition(kernel, backend') IN
       kernel' = IF h \in Children THEN [Reaped(k, h) EXCEPT !.filter[h] = FALSE, !.edge = @ \ {h}] ELSE k
    /\ UNCHANGED told

BeginServices ==
    /\ Idle
    /\ backend' = [backend EXCEPT !.at = "poll", !.steps = Room, !.room = Room]
    /\ UNCHANGED <<kernel, told>>

PollsMore == backend.steps > 0 /\ backend.room > 0 /\ backend.queue # <<>>

\* One turn of the loop in poll.
PollService ==
    /\ backend.at = "poll" /\ PollsMore
    /\ LET h == Head(backend.queue)
           e == backend.entry[h]
           b == [backend EXCEPT !.queue = Tail(@), !.steps = @ - 1]
           ended == [b EXCEPT !.entry[h].op = FALSE, !.room = @ - 1]
           seen == [b EXCEPT !.ticket[h] = FALSE]
       IN  CASE ~Watching(h) -> backend' = b /\ UNCHANGED <<kernel, told>>
             [] h \in Watchers /\ Watching(h) /\ e.cancelled -> backend' = ended /\ UNCHANGED <<kernel, told>>
             [] h \in Watchers /\ Watching(h) /\ ~e.cancelled ->
                    /\ backend' = IF b.ticket[h] THEN [seen EXCEPT !.room = @ - 1] ELSE b
                    /\ told' = IF b.ticket[h] THEN [told EXCEPT ![h].owed = FALSE] ELSE told
                    /\ UNCHANGED kernel
             [] h \in Children /\ Watching(h) /\ ~e.status /\ kernel.child[h] # "zombie" ->
                    backend' = seen /\ UNCHANGED <<kernel, told>>
             [] h \in Children /\ Watching(h) /\ (e.status \/ kernel.child[h] = "zombie") ->
                    /\ h \in backend.subscribers => RecordsFree
                    /\ backend' = [Unsubscribed(ended, h) EXCEPT !.ticket[h] = FALSE, !.entry[h].status = TRUE]
                    /\ kernel' = Disposition(Reaped(kernel, h), backend')
                    /\ told' = [told EXCEPT ![h].exits = IF e.cancelled \/ @ = 2 THEN @ ELSE @ + 1]

PollEnds ==
    /\ backend.at = "poll" /\ ~PollsMore
    /\ backend' = [backend EXCEPT !.at = IF backend.queue = <<>> /\ backend.room = Room THEN "wait" ELSE "idle",
                                  !.steps = 0, !.room = 0]
    /\ UNCHANGED <<kernel, told>>

\* The wait ends: for a notification, an exit the poller reports, a timeout.
WaitReturns ==
    /\ backend.at = "wait"
    /\ backend' = [FoldSet(LAMBDA h, b : IF Watching(h) THEN Pushed(b, h) ELSE b, backend, kernel.edge)
                      EXCEPT !.at = "idle"]
    /\ kernel' = [kernel EXCEPT !.edge = {}, !.notified = FALSE]
    /\ UNCHANGED told

---------------------------------------------------------------------------
\* The kernel and the handler, which runs on any thread.

\* A signal that finds a handler; one that finds none is not ours.
Signalled(k, s) == IF s \in k.handler THEN [k EXCEPT !.flag[s] = TRUE, !.writing = @ + 1] ELSE k

Raise ==
    /\ "usr" \in kernel.handler /\ kernel.raises < MaxRaises
    /\ kernel' = [Signalled(kernel, "usr") EXCEPT !.raises = @ + 1]
    /\ told' = [h \in Handles |-> IF h \in Watchers \cap backend.subscribers
                                  THEN [told[h] EXCEPT !.owed = TRUE] ELSE told[h]]
    /\ UNCHANGED backend

WriteByte ==
    /\ kernel.writing > 0
    /\ kernel' = [kernel EXCEPT !.writing = @ - 1, !.pipe = TRUE]
    /\ UNCHANGED <<backend, told>>

\* The filter of a child may fire while its status cannot be read yet.
Leaves(h) ==
    /\ kernel.child[h] \in {"running", "killed"}
    /\ kernel' = [kernel EXCEPT !.child[h] = "leaving", !.edge = IF kernel.filter[h] THEN @ \cup {h} ELSE @]
    /\ UNCHANGED <<backend, told>>

Exits(h) ==
    /\ kernel.child[h] = "leaving"
    /\ kernel' = Signalled([kernel EXCEPT !.child[h] = "zombie"], "chld")
    /\ UNCHANGED <<backend, told>>

\* The dispatcher: drain the pipe, take each flag, then the records lock, and for
\* each subscriber store the ticket, push the credit, notify.
DrainPipe ==
    /\ kernel.helper.at = "poll" /\ kernel.pipe
    /\ kernel' = [kernel EXCEPT !.pipe = FALSE, !.helper = [Vacant EXCEPT !.at = "scan", !.scan = Signals]]
    /\ UNCHANGED <<backend, told>>

Scanning(rest) == [Vacant EXCEPT !.at = IF rest = {} THEN "poll" ELSE "scan", !.scan = rest]

TakeFlag(s) ==
    /\ kernel.helper.at = "scan" /\ s \in kernel.helper.scan
    /\ LET rest == kernel.helper.scan \ {s} IN
       kernel' = [kernel EXCEPT !.flag[s] = FALSE,
                     !.helper = IF kernel.flag[s] THEN [Vacant EXCEPT !.at = "lock", !.scan = rest, !.taken = {s}]
                                ELSE Scanning(rest)]
    /\ UNCHANGED <<backend, told>>

\* Who subscribes is read under the lock: others may have come and gone since the
\* flag was taken.
LockRecords ==
    /\ kernel.helper.at = "lock"
    /\ LET d == kernel.helper
           to == {h \in backend.subscribers : SignalOf(h) \in d.taken}
       IN  kernel' = [kernel EXCEPT !.helper = IF to = {} THEN Scanning(d.scan)
                                               ELSE [d EXCEPT !.at = "dispatch", !.taken = {}, !.left = to, !.stage = 1]]
    /\ UNCHANGED <<backend, told>>

Current == CHOOSE h \in kernel.helper.left : TRUE

Dispatch ==
    /\ kernel.helper.at = "dispatch"
    /\ LET h == Current
           d == kernel.helper
           over == d.left = {h}
       IN  \/ /\ d.stage = 1
              /\ backend' = [backend EXCEPT !.ticket[h] = TRUE]
              /\ kernel' = [kernel EXCEPT !.helper.stage = 2]
           \/ /\ d.stage = 2
              /\ backend' = Pushed(backend, h)
              /\ kernel' = [kernel EXCEPT !.helper.stage = 3]
           \/ /\ d.stage = 3
              /\ backend' = backend
              /\ kernel' = [kernel EXCEPT !.notified = TRUE,
                               !.helper = IF ~over THEN [d EXCEPT !.left = @ \ {h}, !.stage = 1]
                                          ELSE Scanning(d.scan)]
    /\ UNCHANGED told

ServicesNext ==
    \/ \E h \in Watchers : WatchSignal(h)
    \/ \E h \in Children : SpawnChild(h) \/ RegisterChild(h) \/ RegisterFails(h) \/ CloseChild(h) \/ Leaves(h) \/ Exits(h)
    \/ \E h \in Handles : SubmitWatch(h) \/ CancelWatch(h) \/ ReleaseService(h)
    \/ BeginServices \/ PollService \/ PollEnds \/ WaitReturns
    \/ Raise \/ WriteByte \/ DrainPipe \/ (\E s \in Signals : TakeFlag(s)) \/ LockRecords \/ Dispatch

---------------------------------------------------------------------------
\* The dispatcher will still reach h for signal s.
Coming(s) ==
    /\ kernel.flag[s]
    /\ kernel.writing > 0 \/ kernel.pipe \/ (kernel.helper.at # "poll" /\ s \in kernel.helper.scan)
InHand(h) == SignalOf(h) \in kernel.helper.taken \/ h \in kernel.helper.left
Announced(h) == Coming(SignalOf(h)) \/ InHand(h) \/ kernel.notified \/ (h \in Children /\ h \in kernel.edge)

\* The loop never blocks over a signal that was stored for a watch, over a
\* child that can be reaped for one, or over a credit, without a wake-up that
\* is still to come.
ServicesSleepOverNothing ==
    backend.at = "wait" => \A h \in Handles :
        \/ h \in ToSet(backend.queue)
        \/ Watching(h) /\ (backend.ticket[h] \/ (h \in Children /\ kernel.child[h] = "zombie"))
        => Announced(h)

\* A signal raised while a handle subscribes to its number reaches that handle:
\* it is a flag on its way to the dispatcher, in the dispatcher's hands, or a
\* ticket, until the handle reports it.
NoSignalIsLost ==
    \A h \in Watchers : told[h].owed /\ Live(h) =>
        \/ backend.ticket[h] \/ Coming("usr")
        \/ InHand(h) /\ (h \in kernel.helper.left => h # Current \/ kernel.helper.stage = 1)

\* The process's disposition is ours exactly while somebody subscribes, the
\* ready queue holds only live handles (a slot used again never finds the
\* credit of its predecessor), and no child outlives its handle or is reaped
\* before its handle has its status.
ChildrenAreOwned ==
    /\ kernel.handler = {SignalOf(h) : h \in backend.subscribers}
    /\ \A h \in ToSet(backend.queue) : Live(h) \/ backend.at = h
    /\ \A h \in Children :
        /\ ~Live(h) /\ backend.at # h => kernel.child[h] \in {"none", "reaped"}
        /\ Live(h) => (backend.entry[h].status = (kernel.child[h] = "reaped"))
    /\ \A h \in backend.subscribers : Live(h) \/ backend.at = h

---------------------------------------------------------------------------
(***************************************************************************)
(* Filesystem watches of the Unix backends (backend/watch.rs,              *)
(* backend/fsevents.rs, fs/watch.rs).  With inotify the loop reads one     *)
(* descriptor for all its watches, and watches of one inode share a watch  *)
(* descriptor; with FSEvents the system calls back on a queue of its own   *)
(* and publishes to the loop.  Either way records wait in a bounded ring   *)
(* per watch until a pooled buffer can carry them.                         *)
(***************************************************************************)
CONSTANTS
    Watched,             \* handle |-> the file it watches
    FsEvents,            \* FSEvents instead of inotify
    Changes,             \* identities of the changes that happen, in order
    Large,               \* the changes whose record is larger than a lease
    Gone,                \* the change that removes its file
    QueueRoom,           \* events the kernel queues for one inotify descriptor
    RingRoom, LeaseRoom, \* records of a ring and of a lease
    ReadBound,           \* reads of one poll (16)
    Leases, MaxErrors


watchVars == <<backend, kernel, told>>

WHandles == DOMAIN Watched
WFiles == {Watched[h] : h \in WHandles}
NoWatch == [live |-> FALSE, op |-> FALSE, queued |-> FALSE, wd |-> 0]
EmptyRing == [records |-> <<>>, overflow |-> FALSE]
NoCallback == [stage |-> 0, h |-> CHOOSE h \in WHandles : TRUE]

WatchesInit ==
    /\ backend = [entry |-> [h \in WHandles |-> NoWatch], ring |-> [h \in WHandles |-> EmptyRing],
                  ready |-> <<>>, cancelled |-> <<>>, readable |-> FALSE, reads |-> 0, steps |-> 0, room |-> 1,
                  free |-> Leases, at |-> "idle", silent |-> {}, used |-> {}, errors |-> 0, failed |-> FALSE]
    /\ kernel = [queue |-> <<>>, edge |-> FALSE, wds |-> [f \in WFiles |-> 0], next |-> 1, gone |-> {},
                 streams |-> [h \in WHandles |-> <<>>], callback |-> NoCallback,
                 queued |-> {}, inbox |-> <<>>, notified |-> FALSE, happened |-> 0]
    /\ told = [h \in WHandles |-> {}]

IsEmpty(ring) == ring.records = <<>> /\ ~ring.overflow

---------------------------------------------------------------------------
\* Ring.

Push(ring, id) ==
    IF Len(ring.records) < RingRoom THEN [ring EXCEPT !.records = Append(@, id)]
    ELSE [ring EXCEPT !.overflow = TRUE]

\* take: the leading records that fit; one that no lease can hold is dropped as
\* lost when it is first in line.
Take(ring) ==
    FoldLeft(LAMBDA a, id :
                 IF a.rest # <<>> THEN [a EXCEPT !.rest = Append(@, id)]
                 ELSE IF id \notin Large /\ Len(a.out) < LeaseRoom THEN [a EXCEPT !.out = Append(@, id)]
                 ELSE IF a.out # <<>> THEN [a EXCEPT !.rest = <<id>>]
                 ELSE [a EXCEPT !.lost = TRUE],
             [out |-> <<>>, rest |-> <<>>, lost |-> ring.overflow], ring.records)

Queue(b, h) ==
    IF b.entry[h].op /\ ~b.entry[h].queued /\ ~IsEmpty(b.ring[h])
    THEN [b EXCEPT !.entry[h].queued = TRUE, !.ready = Append(@, h)]
    ELSE b

---------------------------------------------------------------------------
\* The loop thread.

\* start and the submission of its one operation are one call of the driver.
\* inotify_add_watch returns the descriptor that the inode already has.
StartWatch(h) ==
    /\ Idle /\ h \notin backend.used /\ Watched[h] \notin kernel.gone
    /\ LET f == Watched[h]
           wd == IF kernel.wds[f] # 0 THEN kernel.wds[f] ELSE kernel.next
       IN  /\ backend' = [backend EXCEPT !.used = @ \cup {h}, !.ring[h] = EmptyRing,
                              !.entry[h] = [live |-> TRUE, op |-> TRUE, queued |-> FALSE, wd |-> wd]]
           /\ kernel' = IF FsEvents THEN kernel
                        ELSE [kernel EXCEPT !.wds[f] = wd, !.next = IF kernel.wds[f] = 0 THEN @ + 1 ELSE @]
    /\ UNCHANGED told

CancelFsWatch(h) ==
    /\ Idle /\ backend.entry[h].op
    /\ backend' = [backend EXCEPT !.entry[h].op = FALSE, !.ring[h] = EmptyRing, !.cancelled = Append(@, h),
                                  !.silent = @ \ {h}]
    /\ told' = [told EXCEPT ![h] = {}]
    /\ UNCHANGED kernel

Enqueue(k, event) ==
    [k EXCEPT !.edge = TRUE,
              !.queue = CASE Len(@) < QueueRoom -> Append(@, event)
                          [] Len(@) = QueueRoom -> Append(@, [kind |-> "overflow"])
                          [] OTHER -> @]

Shared(h) == \E o \in WHandles \ {h} : backend.entry[o].live /\ backend.entry[o].wd = backend.entry[h].wd

ReleaseWatch(h) ==
    /\ Idle /\ backend.entry[h].live /\ ~backend.entry[h].op /\ h \notin ToSet(backend.cancelled)
    /\ FsEvents => kernel.callback.stage = 0 \/ kernel.callback.h # h
    /\ backend' = [backend EXCEPT !.entry[h] = NoWatch, !.ready = SelectSeq(@, LAMBDA x : x # h)]
    /\ kernel' =
          IF FsEvents
          THEN [kernel EXCEPT !.streams[h] = <<>>, !.inbox = SelectSeq(@, LAMBDA x : x # h), !.queued = @ \ {h}]
          ELSE IF backend.entry[h].wd > 0 /\ ~Shared(h) /\ kernel.wds[Watched[h]] = backend.entry[h].wd
          THEN Enqueue([kernel EXCEPT !.wds[Watched[h]] = 0], [kind |-> "ignored", wd |-> backend.entry[h].wd])
          ELSE kernel
    /\ UNCHANGED told

BeginWatches ==
    /\ Idle
    /\ backend' = [backend EXCEPT !.at = "read", !.reads = ReadBound]
    /\ UNCHANGED <<kernel, told>>

\* What one inotify event does to one watch.
Noted(b, h, event) ==
    LET e == b.entry[h] IN
    IF ~e.live THEN b
    ELSE IF event.kind = "overflow" THEN Queue([b EXCEPT !.ring[h].overflow = TRUE], h)
    ELSE IF e.wd # event.wd THEN b
    ELSE IF event.kind = "ignored" THEN [b EXCEPT !.entry[h].wd = 0]
    ELSE IF e.op THEN Queue([b EXCEPT !.ring[h] = Push(@, event.id)], h)
    ELSE b

\* One read: everything queued, or EAGAIN, or another error, which marks every
\* ring as incomplete without queueing its watch.
ReadInotify ==
    /\ backend.at = "read" /\ ~FsEvents /\ backend.readable /\ backend.reads > 0
    /\ LET read == FoldLeft(LAMBDA b, event : FoldSet(LAMBDA h, c : Noted(c, h, event), b, WHandles),
                            backend, kernel.queue)
       IN  \/ /\ kernel.queue # <<>>
              /\ backend' = [read EXCEPT !.reads = @ - 1]
              /\ kernel' = [kernel EXCEPT !.queue = <<>>]
           \/ /\ kernel.queue = <<>>
              /\ backend' = [backend EXCEPT !.reads = @ - 1, !.readable = FALSE]
              /\ UNCHANGED kernel
           \/ /\ backend.errors < MaxErrors
              /\ LET live == {h \in WHandles : backend.entry[h].live} IN
                 backend' = [backend EXCEPT !.reads = @ - 1, !.readable = FALSE, !.errors = @ + 1, !.failed = TRUE,
                                !.silent = {h \in live : backend.entry[h].op /\ ~backend.entry[h].queued},
                                !.ring = [h \in WHandles |-> [@[h] EXCEPT !.overflow = @ \/ h \in live]]]
              /\ UNCHANGED kernel
    /\ UNCHANGED told

\* drain: the inbox is emptied under its lock; each stream is rearmed before its
\* records are looked at.
DrainInbox ==
    /\ backend.at = "read" /\ FsEvents /\ kernel.inbox # <<>>
    /\ backend' = FoldLeft(LAMBDA b, h : IF b.entry[h].op /\ ~b.entry[h].queued
                                          THEN [b EXCEPT !.entry[h].queued = TRUE, !.ready = Append(@, h)] ELSE b,
                            backend, kernel.inbox)
    /\ kernel' = [kernel EXCEPT !.inbox = <<>>, !.queued = @ \ ToSet(kernel.inbox)]
    /\ UNCHANGED told

ReadsDone == IF FsEvents THEN kernel.inbox = <<>> ELSE ~backend.readable \/ backend.reads = 0

\* The end of a cancelled watch takes the one event that fits, or the watches
\* that were ready get their turn.
ReportCancelled ==
    /\ backend.at = "read" /\ ReadsDone
    /\ backend' = IF backend.cancelled = <<>>
                  THEN [backend EXCEPT !.at = "report", !.steps = Len(backend.ready), !.reads = 0]
                  ELSE [backend EXCEPT !.at = "report", !.steps = 0, !.reads = 0, !.room = 0, !.cancelled = Tail(@)]
    /\ UNCHANGED <<kernel, told>>

ReportsMore == backend.steps > 0 /\ backend.room > 0 /\ backend.ready # <<>>

Report ==
    /\ backend.at = "report" /\ ReportsMore
    /\ LET h == Head(backend.ready)
           e == backend.entry[h]
           b == [backend EXCEPT !.ready = Tail(@), !.steps = @ - 1]
           taken == Take(backend.ring[h])
       IN  IF ~e.op \/ IsEmpty(backend.ring[h])
           THEN backend' = [b EXCEPT !.entry[h].queued = FALSE] /\ UNCHANGED told
           ELSE IF backend.free = 0
           THEN backend' = [backend EXCEPT !.steps = 0] /\ UNCHANGED told
           ELSE /\ backend' = [b EXCEPT !.free = @ - 1, !.room = 0, !.silent = @ \ {h},
                                   !.ring[h] = [records |-> taken.rest, overflow |-> FALSE],
                                   !.entry[h].queued = taken.rest # <<>>,
                                   !.ready = IF taken.rest # <<>> THEN Append(@, h) ELSE @]
                /\ told' = [told EXCEPT ![h] = IF taken.lost THEN ToSet(taken.rest) ELSE @ \ ToSet(taken.out)]
    /\ UNCHANGED kernel

WatchesHaveWork ==
    \/ backend.readable \/ kernel.inbox # <<>> \/ backend.cancelled # <<>>
    \/ backend.ready # <<>> /\ backend.free > 0

EndReport ==
    /\ backend.at = "report" /\ ~ReportsMore
    /\ backend' = [backend EXCEPT !.at = IF WatchesHaveWork \/ backend.room = 0 THEN "idle" ELSE "wait",
                                  !.steps = 0, !.room = 1]
    /\ UNCHANGED <<kernel, told>>

WatchesWake ==
    /\ backend.at = "wait"
    /\ backend' = [backend EXCEPT !.at = "idle", !.readable = @ \/ kernel.edge,
                                  !.failed = @ /\ ~kernel.edge]
    /\ kernel' = [kernel EXCEPT !.edge = FALSE, !.notified = FALSE]
    /\ UNCHANGED told

LeaseReturns ==
    /\ Idle /\ backend.free < Leases
    /\ backend' = [backend EXCEPT !.free = @ + 1]
    /\ UNCHANGED <<kernel, told>>

---------------------------------------------------------------------------
\* The file system and the callback queue.

Submitted(f) == {h \in WHandles : Watched[h] = f /\ backend.entry[h].op}

Happens(f) ==
    /\ kernel.happened < Len(Changes) /\ f \notin kernel.gone
    /\ LET id == Changes[kernel.happened + 1]
           k == [kernel EXCEPT !.happened = @ + 1, !.gone = IF id = Gone THEN @ \cup {f} ELSE @]
           wd == kernel.wds[f]
           event == [kind |-> "change", wd |-> wd, id |-> id]
       IN  /\ kernel' =
                 IF FsEvents
                 THEN [k EXCEPT !.streams = [h \in WHandles |-> IF Watched[h] = f /\ backend.entry[h].live
                                                                THEN Append(@[h], id) ELSE @[h]]]
                 ELSE IF wd = 0 THEN k
                 ELSE IF id = Gone
                 THEN [Enqueue(Enqueue(k, event), [kind |-> "ignored", wd |-> wd]) EXCEPT !.wds[f] = 0]
                 ELSE Enqueue(k, event)
           /\ told' = [h \in WHandles |-> IF h \in Submitted(f) THEN told[h] \cup {id} ELSE told[h]]
    /\ UNCHANGED backend

\* receive, on the serial queue of the streams: the records under the ring's
\* lock, the claim of the one credit, the inbox, the notification.
Callback(h) ==
    /\ kernel.callback.stage = 0 /\ kernel.streams[h] # <<>>
    /\ backend' = [backend EXCEPT !.ring[h] = FoldLeft(Push, @, kernel.streams[h])]
    /\ kernel' = [kernel EXCEPT !.streams[h] = <<>>, !.callback = [stage |-> 1, h |-> h]]
    /\ UNCHANGED told

CallbackGoesOn ==
    /\ kernel.callback.stage > 0
    /\ LET h == kernel.callback.h IN
       \/ /\ kernel.callback.stage = 1
          /\ kernel' = [kernel EXCEPT !.queued = @ \cup {h},
                           !.callback = IF h \in kernel.queued THEN NoCallback ELSE [stage |-> 2, h |-> h]]
       \/ /\ kernel.callback.stage = 2
          /\ kernel' = [kernel EXCEPT !.inbox = Append(@, h), !.callback.stage = 3]
       \/ /\ kernel.callback.stage = 3
          /\ kernel' = [kernel EXCEPT !.notified = TRUE, !.callback = NoCallback]
    /\ UNCHANGED <<backend, told>>

WatchesNext ==
    \/ \E h \in WHandles : StartWatch(h) \/ CancelFsWatch(h) \/ ReleaseWatch(h) \/ Callback(h)
    \/ BeginWatches \/ ReadInotify \/ DrainInbox \/ ReportCancelled \/ Report \/ EndReport \/ WatchesWake
    \/ LeaseReturns \/ CallbackGoesOn
    \/ \E f \in WFiles : Happens(f)

---------------------------------------------------------------------------
\* A change to a watched file after its watch was submitted is never lost
\* silently: it is queued in the kernel for that watch, in the hands of the
\* system's callback, in the ring, or one of them says that something was lost.
NoSilentLoss ==
    \A h \in WHandles : \A id \in told[h] :
        \/ id \in ToSet(backend.ring[h].records) \/ backend.ring[h].overflow
        \/ id \in ToSet(kernel.streams[h])
        \/ \E i \in DOMAIN kernel.queue :
               \/ kernel.queue[i].kind = "overflow"
               \/ kernel.queue[i].kind = "change" /\ kernel.queue[i].id = id /\ kernel.queue[i].wd = backend.entry[h].wd

\* The loop never blocks over a record that could be delivered, unless a lease
\* must come back first or a wake-up is on its way.  A failed read
\* of the inotify descriptor is the exception: what it left, and the loss it
\* marked, wait for the next event.
WatchesSleepOverNothing ==
    backend.at = "wait" =>
        /\ backend.cancelled = <<>>
        /\ kernel.queue # <<>> => kernel.edge \/ backend.failed
        /\ \A h \in WHandles : backend.entry[h].op /\ ~IsEmpty(backend.ring[h]) /\ h \notin backend.silent =>
               \/ h \in ToSet(backend.ready) /\ backend.free = 0
               \/ kernel.callback.stage > 0 /\ kernel.callback.h = h
               \/ h \in ToSet(kernel.inbox) /\ kernel.notified

\* A live watch is queued exactly once or not at all, and no queue names a
\* handle that was released, so that the next handle in its slot starts clean;
\* and releasing one watch of an inode leaves the kernel's watch to the others.
WatchCreditsAreExact ==
    /\ \A h \in WHandles :
        backend.entry[h].queued = (h \in ToSet(backend.ready))
    /\ Cardinality(ToSet(backend.ready)) = Len(backend.ready)
    /\ \A h \in ToSet(kernel.inbox) : backend.entry[h].live
    /\ \A h \in WHandles : backend.entry[h].op /\ ~FsEvents /\ Watched[h] \notin kernel.gone =>
           kernel.wds[Watched[h]] = backend.entry[h].wd
=============================================================================
