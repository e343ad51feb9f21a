------------------------------ MODULE Notifier ------------------------------
(***************************************************************************)
(* The parking handshake of crates/turnloop/src/notifier.rs between the    *)
(* loop thread (Driver::turn of driver.rs) and the threads that post to it *)
(* or notify it.  Every atomic instruction on the state word, the post     *)
(* queue and the kernel's wake object is a step.  The post queue is the    *)
(* bounded set that module Queue shows it to be; the kernel's wake object  *)
(* (eventfd, EVFILT_USER, a completion packet) is a readable/not readable  *)
(* flag that a poll drains.                                                *)
(***************************************************************************)
EXTENDS Naturals, FiniteSets, Sequences, TLC

CONSTANTS
    Producers,      \* threads holding a Poster or a Notifier
    Posts,          \* payloads; each is posted at most once
    PostCapacity,   \* slots of the post ring
    EventsPerTurn,  \* Config::events_per_turn, the reserve for buffered posts
    OutCapacity,    \* capacity of the host's Completions buffer
    WakeFails       \* whether the wake system call may fail

ASSUME CapacityAssumption == PostCapacity \in Nat \ {0}
ASSUME EventsAssumption == EventsPerTurn \in Nat \ {0}
ASSUME OutAssumption == OutCapacity \in Nat \ {0}
ASSUME WakeAssumption == WakeFails \in BOOLEAN

\* State bits; RUNNING is the empty set.
PARKED == "PARKED"
NOTIFIED == "NOTIFIED"
CLOSED == "CLOSED"
RUNNING == {}

\* The argument of a bare Notifier::notify, which posts nothing.
Bare == "bare"
ASSUME BareAssumption == Bare \notin Posts

\* The loop thread, when external_park notifies on its own behalf.
Loop == "loop"
ASSUME LoopAssumption == Loop \notin Producers

VARIABLES
    bits,       \* State.bits
    signal,     \* the wake object is readable
    closed,     \* Postbox.closed
    mailbox,    \* posts in the ring
    pc, arg,    \* of each producer
    lpc,        \* of the loop thread
    notified,   \* local of turn: begin() saw NOTIFIED
    work,       \* local of external_park
    taken,      \* posts popped in this turn
    queued,     \* posts popped and not yet handed to the host (Driver.queued)
    external,   \* Driver.external
    delivered,  \* posts handed to the host
    ok,         \* posts whose post() returned Ok
    lost,       \* posts handed back (queue full, or loop closed)
    winners,    \* threads that won the right to wake the current park
    reported    \* a failed wake was returned to a thread since the turn began

vars == <<bits, signal, closed, mailbox, pc, arg, lpc, notified, work, taken,
          queued, external, delivered, ok, lost, winners, reported>>
loopVars == <<lpc, notified, work, taken, queued, external, delivered>>
postVars == <<pc, arg, ok, lost>>

ProducerPC == {"idle", "push", "notify", "wake", "unset"}
LoopPC == {"host", "look", "park", "poll", "blocked", "return", "error", "expire", "collect",
           "rearm", "swap", "notify", "wake", "unset", "outside", "close", "gone"}

TypeOK ==
    /\ bits \subseteq {PARKED, NOTIFIED, CLOSED}
    /\ signal \in BOOLEAN /\ closed \in BOOLEAN
    /\ mailbox \subseteq Posts /\ delivered \subseteq Posts
    /\ ok \subseteq Posts /\ lost \subseteq Posts
    /\ pc \in [Producers -> ProducerPC]
    /\ arg \in [Producers -> Posts \cup {Bare}]
    /\ lpc \in LoopPC
    /\ notified \in BOOLEAN /\ work \in BOOLEAN /\ external \in BOOLEAN
    /\ taken \in 0 .. EventsPerTurn
    /\ queued \in Seq(Posts) /\ Len(queued) <= EventsPerTurn
    /\ winners \subseteq Producers \cup {Loop}
    /\ reported \in BOOLEAN

Init ==
    /\ bits = RUNNING /\ signal = FALSE /\ closed = FALSE
    /\ mailbox = {} /\ delivered = {} /\ ok = {} /\ lost = {}
    /\ pc = [p \in Producers |-> "idle"]
    /\ arg = [p \in Producers |-> Bare]
    /\ lpc = "host"
    /\ notified = FALSE /\ work = FALSE /\ external = FALSE
    /\ taken = 0 /\ queued = << >> /\ winners = {} /\ reported = FALSE

---------------------------------------------------------------------------
\* Poster::post and Notifier::notify on another thread

Goto(p, where) == pc' = [pc EXCEPT ![p] = where]

Fresh(v) ==
    /\ v \notin mailbox \cup delivered \cup lost
    /\ \A i \in 1 .. Len(queued) : queued[i] # v
    /\ \A p \in Producers : pc[p] # "idle" => arg[p] # v

\* post(): a closed loop hands the payload back.
PostClosed(p, v) ==
    /\ pc[p] = "idle" /\ Fresh(v)
    /\ closed
    /\ lost' = lost \cup {v}
    /\ UNCHANGED <<bits, signal, closed, mailbox, pc, arg, loopVars, ok, winners, reported>>

PostOpen(p, v) ==
    /\ pc[p] = "idle" /\ Fresh(v)
    /\ ~closed
    /\ arg' = [arg EXCEPT ![p] = v]
    /\ Goto(p, "push")
    /\ UNCHANGED <<bits, signal, closed, mailbox, loopVars, ok, lost, winners, reported>>

\* Queue::push; a full ring hands the payload back (WouldBlock).
PostPush(p) ==
    /\ pc[p] = "push"
    /\ Cardinality(mailbox) < PostCapacity
    /\ mailbox' = mailbox \cup {arg[p]}
    /\ Goto(p, "notify")
    /\ UNCHANGED <<bits, signal, closed, arg, loopVars, ok, lost, winners, reported>>

PostFull(p) ==
    /\ pc[p] = "push"
    /\ Cardinality(mailbox) >= PostCapacity
    /\ lost' = lost \cup {arg[p]}
    /\ Goto(p, "idle")
    /\ UNCHANGED <<bits, signal, closed, mailbox, arg, loopVars, ok, winners, reported>>

\* notify() called directly.
Ring(p) ==
    /\ pc[p] = "idle"
    /\ arg' = [arg EXCEPT ![p] = Bare]
    /\ Goto(p, "notify")
    /\ UNCHANGED <<bits, signal, closed, mailbox, loopVars, ok, lost, winners, reported>>

Answer(p) == ok' = IF arg[p] \in Posts THEN ok \cup {arg[p]} ELSE ok

\* Fault: a notification in flight does not stop the next thread from waking.
WinsAlways == PARKED \in bits

\* The thread whose fetch_or(NOTIFIED) moves PARKED to PARKED|NOTIFIED wakes.
Wins == PARKED \in bits /\ NOTIFIED \notin bits

\* Fault: the payload of an accepted post is handed back with the error.
NotifyClosedReturns(p) ==
    /\ pc[p] = "notify"
    /\ CLOSED \in bits
    /\ bits' = bits \cup {NOTIFIED}
    /\ lost' = lost \cup ({arg[p]} \ {Bare})
    /\ Goto(p, "idle")
    /\ UNCHANGED <<signal, closed, mailbox, arg, loopVars, ok, winners, reported>>

\* bits.fetch_or(NOTIFIED) on a closed loop: the caller gets NotFound.
NotifyClosed(p) ==
    /\ pc[p] = "notify"
    /\ CLOSED \in bits
    /\ bits' = bits \cup {NOTIFIED}
    /\ Goto(p, "idle")
    /\ UNCHANGED <<signal, closed, mailbox, arg, loopVars, ok, lost, winners, reported>>

NotifyWins(p) ==
    /\ pc[p] = "notify"
    /\ CLOSED \notin bits
    /\ Wins
    /\ bits' = bits \cup {NOTIFIED}
    /\ winners' = winners \cup {p}
    /\ Goto(p, "wake")
    /\ UNCHANGED <<signal, closed, mailbox, arg, loopVars, ok, lost, reported>>

\* Running, or already notified: coalesce without a system call.
NotifyCoalesces(p) ==
    /\ pc[p] = "notify"
    /\ CLOSED \notin bits
    /\ ~Wins
    /\ bits' = bits \cup {NOTIFIED}
    /\ Answer(p)
    /\ Goto(p, "idle")
    /\ UNCHANGED <<signal, closed, mailbox, arg, loopVars, lost, winners, reported>>

Wake(p) ==
    /\ pc[p] = "wake"
    /\ signal' = TRUE
    /\ Answer(p)
    /\ Goto(p, "idle")
    /\ UNCHANGED <<bits, closed, mailbox, arg, loopVars, lost, winners, reported>>

WakeFailure(p) ==
    /\ pc[p] = "wake"
    /\ WakeFails
    /\ Goto(p, "unset")
    /\ UNCHANGED <<bits, signal, closed, mailbox, arg, loopVars, ok, lost, winners, reported>>

\* "Permit another producer to retry the failed wake": fetch_and(!NOTIFIED).
Unset(p) ==
    /\ pc[p] = "unset"
    /\ bits' = bits \ {NOTIFIED}
    /\ winners' = winners \ {p}
    /\ reported' = TRUE
    /\ Goto(p, "idle")
    /\ UNCHANGED <<signal, closed, mailbox, arg, loopVars, ok, lost>>

---------------------------------------------------------------------------
\* Driver::turn on the loop thread

LoopGoto(from, to) == lpc = from /\ lpc' = to
Outside == <<closed, pc, arg, ok, lost>>
AllButLpc == <<Outside, bits, signal, mailbox, notified, work, taken, queued, external,
               delivered, winners, reported>>

\* begin(): bits.swap(RUNNING).
Begin ==
    /\ LoopGoto("host", "look")
    /\ notified' = (NOTIFIED \in bits)
    /\ bits' = RUNNING
    /\ taken' = 0
    /\ winners' = {} /\ reported' = FALSE
    /\ UNCHANGED <<Outside, signal, mailbox, work, queued, external, delivered>>

\* Queued work (a post, or a completion of another kind) and either no native
\* operation pending or its reserve in use: no backend call at all.
LookSkip ==
    /\ LoopGoto("look", "expire")
    /\ UNCHANGED AllButLpc

\* A zero-timeout poll: queued work with native operations pending, a consumed
\* notification, or a deadline that is already due.
LookNow ==
    /\ LoopGoto("look", "poll")
    /\ UNCHANGED AllButLpc

\* Nothing seen: go on to park.
LookIdle ==
    /\ LoopGoto("look", "park")
    /\ queued = << >> /\ mailbox = {} /\ ~notified
    /\ UNCHANGED AllButLpc

\* Fault: park() stores PARKED instead of comparing with RUNNING first.
ParkStores ==
    /\ LoopGoto("park", "blocked")
    /\ bits' = {PARKED}
    /\ winners' = {}
    /\ UNCHANGED <<Outside, signal, mailbox, notified, work, taken, queued, external, delivered, reported>>

\* park(): compare_exchange(RUNNING, PARKED).
Park ==
    /\ LoopGoto("park", "blocked")
    /\ bits = RUNNING
    /\ bits' = {PARKED}
    /\ winners' = {}
    /\ UNCHANGED <<Outside, signal, mailbox, notified, work, taken, queued, external, delivered, reported>>

\* park() fails: a notification arrived since begin().
ParkRefused ==
    /\ LoopGoto("park", "poll")
    /\ bits # RUNNING
    /\ UNCHANGED AllButLpc

\* The backend's poll returns at once; it drains the wake object if it is among
\* the events it returned.
Poll ==
    /\ LoopGoto("poll", "return")
    /\ signal' \in {signal, FALSE}
    /\ UNCHANGED <<Outside, bits, mailbox, notified, work, taken, queued, external, delivered,
                   winners, reported>>

\* The blocked poll returns because the wake object is readable.
Woken ==
    /\ LoopGoto("blocked", "return")
    /\ signal
    /\ signal' = FALSE
    /\ UNCHANGED <<Outside, bits, mailbox, notified, work, taken, queued, external, delivered,
                   winners, reported>>

\* The blocked poll returns for native I/O, a deadline or EINTR.
Interrupted ==
    /\ LoopGoto("blocked", "return")
    /\ UNCHANGED AllButLpc

\* The poll fails; running() is called before the error is returned.
PollError ==
    /\ lpc \in {"poll", "blocked"} /\ lpc' = "error"
    /\ UNCHANGED AllButLpc

\* running(): fetch_and(!PARKED).  A failed turn ends here and the host, which
\* has the error, turns again.
Unpark ==
    /\ \/ LoopGoto("return", "expire")
       \/ LoopGoto("error", "host")
    /\ bits' = bits \ {PARKED}
    /\ UNCHANGED <<Outside, signal, mailbox, notified, work, taken, queued, external, delivered,
                   winners, reported>>

\* The second expire_connects succeeds and the turn goes on to collect.
Expired ==
    /\ LoopGoto("expire", "collect")
    /\ UNCHANGED AllButLpc

\* Either call of expire_connects fails and ends the turn.
ExpireError ==
    /\ lpc \in {"look", "expire"} /\ lpc' = "host"
    /\ UNCHANGED AllButLpc

\* Fault: the post step has no per-turn bound.
CanCollectAll == mailbox # {}

\* The post step of turn: at most events_per_turn pops into the post reserve.
CanCollect == taken < EventsPerTurn /\ Len(queued) < EventsPerTurn /\ mailbox # {}

Collect ==
    /\ lpc = "collect"
    /\ CanCollect
    /\ \E v \in mailbox :
          /\ mailbox' = mailbox \ {v}
          /\ queued' = Append(queued, v)
    /\ taken' = taken + 1
    /\ UNCHANGED <<Outside, bits, signal, lpc, notified, work, external, delivered, winners, reported>>

\* drain(): as many completions as the host's buffer takes.
Drain ==
    /\ lpc = "collect"
    /\ ~CanCollect
    /\ LET n == IF Len(queued) < OutCapacity THEN Len(queued) ELSE OutCapacity
       IN  /\ delivered' = delivered \cup {queued[i] : i \in 1 .. n}
           /\ queued' = SubSeq(queued, n + 1, Len(queued))
    /\ lpc' = IF external THEN "rearm" ELSE "host"
    /\ UNCHANGED <<Outside, bits, signal, mailbox, notified, work, taken, external, winners, reported>>

---------------------------------------------------------------------------
\* External waiting: integration() and the end of an external turn

Integrate ==
    /\ LoopGoto("host", "rearm")
    /\ external' = TRUE
    /\ UNCHANGED <<Outside, bits, signal, mailbox, notified, work, taken, queued, delivered,
                   winners, reported>>

\* Fault: only work other than posts is considered.
RearmForgets ==
    /\ LoopGoto("rearm", "swap")
    /\ work' \in BOOLEAN
    /\ UNCHANGED <<Outside, bits, signal, mailbox, notified, taken, queued, external, delivered,
                   winners, reported>>

\* The argument of external_park, read before the swap; completions, finished
\* work and waiting file requests also make it true.
Rearm ==
    /\ LoopGoto("rearm", "swap")
    /\ work' \in BOOLEAN
    /\ queued # << >> \/ mailbox # {} => work'
    /\ UNCHANGED <<Outside, bits, signal, mailbox, notified, taken, queued, external, delivered,
                   winners, reported>>

\* external_park(): bits.swap(PARKED), then notify() if there is work or the
\* swap took a notification away.
Swap ==
    /\ lpc = "swap"
    /\ bits' = {PARKED}
    /\ winners' = {}
    /\ lpc' = IF work \/ NOTIFIED \in bits THEN "notify" ELSE "outside"
    /\ UNCHANGED <<Outside, signal, mailbox, notified, work, taken, queued, external, delivered, reported>>

SelfNotify ==
    /\ lpc = "notify"
    /\ bits' = bits \cup {NOTIFIED}
    /\ lpc' = IF Wins THEN "wake" ELSE "outside"
    /\ winners' = IF Wins THEN winners \cup {Loop} ELSE winners
    /\ UNCHANGED <<Outside, signal, mailbox, notified, work, taken, queued, external, delivered, reported>>

SelfWake ==
    /\ LoopGoto("wake", "outside")
    /\ signal' = TRUE
    /\ UNCHANGED <<Outside, bits, mailbox, notified, work, taken, queued, external, delivered,
                   winners, reported>>

SelfWakeFailure ==
    /\ LoopGoto("wake", "unset")
    /\ WakeFails
    /\ UNCHANGED AllButLpc

\* The failed turn returns its error; the host turns again.
SelfUnset ==
    /\ LoopGoto("unset", "host")
    /\ bits' = bits \ {NOTIFIED}
    /\ winners' = winners \ {Loop}
    /\ reported' = TRUE
    /\ UNCHANGED <<Outside, signal, mailbox, notified, work, taken, queued, external, delivered>>

\* The host sees the integration primitive readable and turns.
HostWoken ==
    /\ LoopGoto("outside", "host")
    /\ signal
    /\ UNCHANGED AllButLpc

\* The host turns for a reason of its own.
HostTurns ==
    /\ LoopGoto("outside", "host")
    /\ UNCHANGED AllButLpc

\* Drop for Driver: the poster first, then the notifier.
DropPoster ==
    /\ lpc \in {"host", "outside"} /\ lpc' = "close"
    /\ closed' = TRUE
    /\ UNCHANGED <<bits, signal, mailbox, postVars, notified, work, taken, queued, external,
                   delivered, winners, reported>>

DropNotifier ==
    /\ LoopGoto("close", "gone")
    /\ bits' = {CLOSED}
    /\ UNCHANGED <<Outside, signal, mailbox, notified, work, taken, queued, external, delivered,
                   winners, reported>>

---------------------------------------------------------------------------
PostStep(p) ==
    \/ PostPush(p) \/ PostFull(p)
    \/ NotifyClosed(p) \/ NotifyWins(p) \/ NotifyCoalesces(p)
    \/ Wake(p) \/ WakeFailure(p) \/ Unset(p)

Producer(p) ==
    \/ \E v \in Posts : PostClosed(p, v) \/ PostOpen(p, v)
    \/ Ring(p)
    \/ PostStep(p)

Look == LookSkip \/ LookNow \/ LookIdle

\* What the loop thread does once its host has called turn, and the host that
\* waits on the integration primitive.
LoopStep ==
    \/ Begin \/ Look \/ Park \/ ParkRefused
    \/ Poll \/ Woken \/ Unpark \/ Expired \/ Collect \/ Drain
    \/ Rearm \/ Swap \/ SelfNotify \/ SelfWake \/ SelfUnset \/ HostWoken \/ DropNotifier

\* What may happen to the loop thread at any time.
Environment ==
    \/ Interrupted \/ PollError \/ ExpireError \/ Integrate \/ HostTurns \/ DropPoster \/ SelfWakeFailure

Next == LoopStep \/ Environment \/ \E p \in Producers : Producer(p)

\* A thread that entered post or notify finishes it, and the host of a loop
\* keeps turning it; not every turn fails.  A blocked poll returns by itself
\* only if it is woken: nothing is assumed of deadlines or native I/O.
Fairness ==
    /\ WF_vars(LoopStep)
    /\ SF_vars(Begin) /\ SF_vars(Look) /\ SF_vars(Poll) /\ SF_vars(Expired)
    /\ \A p \in Producers : WF_vars(PostStep(p))

Spec == Init /\ [][Next]_vars /\ Fairness

---------------------------------------------------------------------------
\* Properties

Waiting == lpc \in {"blocked", "outside"} /\ ~signal
Quiet == \A p \in Producers : pc[p] = "idle"

\* The parking handshake loses no wake: while the loop is blocked in the OS, or
\* its host waits on the integration primitive, with the wake object not
\* readable, every post in the ring belongs to a thread that has yet to notify,
\* to wake or to report a failed wake; every set NOTIFIED bit, and every post
\* popped but not handed out, to one that has yet to wake or to report.  Only a
\* failed wake that notify() has already returned may leave the loop asleep.
NoLostWake ==
    Waiting /\ ~reported =>
        /\ mailbox # {} => \E p \in Producers : pc[p] \in {"notify", "wake", "unset"}
        /\ NOTIFIED \in bits \/ queued # << >> => \E p \in Producers : pc[p] \in {"wake", "unset"}
        /\ PARKED \in bits

\* Wakes coalesce: at most one thread makes the wake system call per park, but
\* for the retry that notify() permits after a failed one.
WakesCoalesce == ~reported => Cardinality(winners) <= 1

\* Every post is in one place: a payload handed back to its poster is never
\* delivered, and a delivered one is not still queued.
PostedOnce ==
    /\ lost \cap (mailbox \cup delivered \cup ok) = {}
    /\ mailbox \cap delivered = {}
    /\ \A i \in 1 .. Len(queued) : queued[i] \notin mailbox \cup delivered \cup lost
    /\ \A i, j \in 1 .. Len(queued) : queued[i] = queued[j] => i = j

\* A post that was accepted reaches the host unless the loop is dropped.
PostIsDelivered == \A v \in Posts : v \in mailbox ~> v \in delivered \/ closed

\* A notify that starts while a turn is deciding to park, or is parked, makes
\* that turn return, whatever the notifying thread posted.
NotifyUnblocks ==
    \A p \in Producers :
        (pc[p] = "notify" /\ lpc \in {"park", "blocked"}) ~> lpc \in {"return", "error"}

\* post() returned Ok, so the loop will be woken for the post: "A failed wake is
\* returned to the producer" (notifier.rs).
OkMeansWoken == Waiting /\ Quiet => mailbox \cap ok = {}

\* Producers are alike, and so are posts.
Interchangeable == Permutations(Producers) \cup Permutations(Posts)
=============================================================================
