-------------------------------- MODULE Queue ---------------------------------
(***************************************************************************)
(* The bounded lock-free slot queue of crates/turnloop/src/queue.rs, which *)
(* carries posts (Poster) and pool results (WorkPort) to the loop thread, and *)
(* the result ring of one loop on it: WorkPort of blocking.rs together with *)
(* the credits the driver takes before it lets an operation deliver through *)
(* the ring (admit_port, charge_port and retire of driver.rs).             *)
(*                                                                         *)
(* Producers race each other and the one consumer, the owning loop; every  *)
(* atomic instruction of push and pop is a step of its own.  Memory is     *)
(* sequentially consistent here: the acquire/release pairs on a slot's state *)
(* are what the source relies on to make that a fair reading.  In the port *)
(* values are operations; a worker thread delivers each accepted one exactly *)
(* once, through complete().                                               *)
(***************************************************************************)
EXTENDS Naturals, FiniteSets, TLC

CONSTANTS
    Producers,  \* threads calling push
    Values,     \* what is pushed; each value is pushed at most once
    Capacity,   \* slots.len(), a power of two
    NoValue     \* contents of a slot that holds nothing

ASSUME CapacityAssumption == Capacity \in Nat \ {0, 1}
ASSUME NoValueAssumption == NoValue \notin Values

Slot == 0 .. Capacity - 1

\* The four slot states: 0 and 2 are at rest, 1 is a producer's, 3 a consumer's.
EMPTY == 0
WRITING == 1
FULL == 2
READING == 3

VARIABLES
    state,      \* Slot.state
    value,      \* Slot.value
    occupied,   \* the advisory occupancy counter behind is_empty
    enqueue,    \* next starting slot of a push (only its low bits are used)
    dequeue,    \* next starting slot of a pop
    ppc,        \* program counter of each producer
    pval,       \* the argument of each producer's push
    pstart,     \* where its scan starts
    poff,       \* the scan's loop variable
    cpc, cstart, coff, cval,    \* the same for the consumer's pop
    accepted,   \* values whose push returned Ok
    refused,    \* values handed back by a push that returned Err
    popped      \* values returned by pop, with the number of times

vars == <<state, value, occupied, enqueue, dequeue, ppc, pval, pstart, poff,
          cpc, cstart, coff, cval, accepted, refused, popped>>
pvars == <<ppc, pval, pstart, poff>>
cvars == <<cpc, cstart, coff, cval>>
history == <<accepted, refused, popped>>

At(start, off) == (start + off) % Capacity

ProducerPC == {"idle", "scan", "count", "write", "publish"}
ConsumerPC == {"idle", "start", "scan", "read", "count", "release"}

TypeOK ==
    /\ state \in [Slot -> 0 .. 3]
    /\ value \in [Slot -> Values \cup {NoValue}]
    /\ occupied \in Nat
    /\ enqueue \in Slot /\ dequeue \in Slot
    /\ ppc \in [Producers -> ProducerPC]
    /\ pval \in [Producers -> Values \cup {NoValue}]
    /\ pstart \in [Producers -> Slot]
    /\ poff \in [Producers -> Slot]
    /\ cpc \in ConsumerPC
    /\ cstart \in Slot /\ coff \in Slot
    /\ cval \in Values \cup {NoValue}
    /\ accepted \subseteq Values /\ refused \subseteq Values
    /\ popped \in [Values -> Nat]

\* zeroed_slots: the all-zero bit pattern is a ring of EMPTY slots.
Init ==
    /\ state = [s \in Slot |-> EMPTY]
    /\ value = [s \in Slot |-> NoValue]
    /\ occupied = 0
    /\ enqueue = 0 /\ dequeue = 0
    /\ ppc = [p \in Producers |-> "idle"]
    /\ pval = [p \in Producers |-> NoValue]
    /\ pstart = [p \in Producers |-> 0]
    /\ poff = [p \in Producers |-> 0]
    /\ cpc = "idle" /\ cstart = 0 /\ coff = 0 /\ cval = NoValue
    /\ accepted = {} /\ refused = {}
    /\ popped = [v \in Values |-> 0]

---------------------------------------------------------------------------
\* push

\* Values no thread has pushed or is pushing; each value is used once, so that
\* the history variables can tell one push from another.
Fresh(v) ==
    /\ v \notin accepted \cup refused
    /\ \A p \in Producers : ppc[p] # "idle" => pval[p] # v

\* enqueue.fetch_add(1): claim a starting point, not a slot.
PushBegin(p, v) ==
    /\ ppc[p] = "idle"
    /\ Fresh(v)
    /\ ppc' = [ppc EXCEPT ![p] = "scan"]
    /\ pval' = [pval EXCEPT ![p] = v]
    /\ pstart' = [pstart EXCEPT ![p] = enqueue]
    /\ poff' = [poff EXCEPT ![p] = 0]
    /\ enqueue' = (enqueue + 1) % Capacity
    /\ UNCHANGED <<state, value, occupied, dequeue, cvars, history>>

\* The slot a producer is looking at, or owns.
PSlot(p) == At(pstart[p], poff[p])
CSlot == At(cstart, coff)

\* Fault: a slot still being written counts as free.
PushClaimWriting(p) ==
    /\ ppc[p] = "scan"
    /\ state[PSlot(p)] \in {EMPTY, WRITING}
    /\ state' = [state EXCEPT ![PSlot(p)] = WRITING]
    /\ ppc' = [ppc EXCEPT ![p] = "count"]
    /\ UNCHANGED <<value, occupied, enqueue, dequeue, pval, pstart, poff, cvars, history>>

\* compare_exchange(0, 1) succeeds.
PushClaim(p) ==
    /\ ppc[p] = "scan"
    /\ state[PSlot(p)] = EMPTY
    /\ state' = [state EXCEPT ![PSlot(p)] = WRITING]
    /\ ppc' = [ppc EXCEPT ![p] = "count"]
    /\ UNCHANGED <<value, occupied, enqueue, dequeue, pval, pstart, poff, cvars, history>>

\* compare_exchange(0, 1) fails: look at the next slot.
PushNext(p) ==
    /\ ppc[p] = "scan"
    /\ state[PSlot(p)] # EMPTY
    /\ poff[p] + 1 < Capacity
    /\ poff' = [poff EXCEPT ![p] = @ + 1]
    /\ UNCHANGED <<state, value, occupied, enqueue, dequeue, ppc, pval, pstart, cvars, history>>

\* Fault: a value that found no slot is reported as accepted.
PushFullSilent(p) ==
    /\ ppc[p] = "scan"
    /\ state[PSlot(p)] # EMPTY
    /\ poff[p] + 1 = Capacity
    /\ accepted' = accepted \cup {pval[p]}
    /\ ppc' = [ppc EXCEPT ![p] = "idle"]
    /\ UNCHANGED <<state, value, occupied, enqueue, dequeue, pval, pstart, poff, cvars,
                   refused, popped>>

\* Every slot was busy when it was looked at: hand the value back.
PushFull(p) ==
    /\ ppc[p] = "scan"
    /\ state[PSlot(p)] # EMPTY
    /\ poff[p] + 1 = Capacity
    /\ refused' = refused \cup {pval[p]}
    /\ ppc' = [ppc EXCEPT ![p] = "idle"]
    /\ UNCHANGED <<state, value, occupied, enqueue, dequeue, pval, pstart, poff, cvars,
                   accepted, popped>>

\* Fault: the occupancy is not counted.
PushCountMissing(p) ==
    /\ ppc[p] = "count"
    /\ ppc' = [ppc EXCEPT ![p] = "write"]
    /\ UNCHANGED <<state, value, occupied, enqueue, dequeue, pval, pstart, poff, cvars, history>>

\* occupied.fetch_add(1), before the value is published.
PushCount(p) ==
    /\ ppc[p] = "count"
    /\ occupied' = occupied + 1
    /\ ppc' = [ppc EXCEPT ![p] = "write"]
    /\ UNCHANGED <<state, value, enqueue, dequeue, pval, pstart, poff, cvars, history>>

PushWrite(p) ==
    /\ ppc[p] = "write"
    /\ value' = [value EXCEPT ![PSlot(p)] = pval[p]]
    /\ ppc' = [ppc EXCEPT ![p] = "publish"]
    /\ UNCHANGED <<state, occupied, enqueue, dequeue, pval, pstart, poff, cvars, history>>

PushPublish(p) ==
    /\ ppc[p] = "publish"
    /\ state' = [state EXCEPT ![PSlot(p)] = FULL]
    /\ accepted' = accepted \cup {pval[p]}
    /\ ppc' = [ppc EXCEPT ![p] = "idle"]
    /\ UNCHANGED <<value, occupied, enqueue, dequeue, pval, pstart, poff, cvars, refused, popped>>

---------------------------------------------------------------------------
\* pop, called by the owning loop only

\* is_empty() is true: return None without touching the ring.
PopEmpty ==
    /\ cpc = "idle"
    /\ occupied = 0
    /\ UNCHANGED vars

PopNonempty ==
    /\ cpc = "idle"
    /\ occupied # 0
    /\ cpc' = "start"
    /\ UNCHANGED <<state, value, occupied, enqueue, dequeue, pvars, cstart, coff, cval, history>>

\* dequeue.fetch_add(1)
PopBegin ==
    /\ cpc = "start"
    /\ cstart' = dequeue /\ coff' = 0
    /\ dequeue' = (dequeue + 1) % Capacity
    /\ cpc' = "scan"
    /\ UNCHANGED <<state, value, occupied, enqueue, pvars, cval, history>>

\* compare_exchange(2, 3) succeeds.
PopClaim ==
    /\ cpc = "scan"
    /\ state[CSlot] = FULL
    /\ state' = [state EXCEPT ![CSlot] = READING]
    /\ cpc' = "read"
    /\ UNCHANGED <<value, occupied, enqueue, dequeue, pvars, cstart, coff, cval, history>>

PopNext ==
    /\ cpc = "scan"
    /\ state[CSlot] # FULL
    /\ coff + 1 < Capacity
    /\ coff' = coff + 1
    /\ UNCHANGED <<state, value, occupied, enqueue, dequeue, pvars, cpc, cstart, cval, history>>

\* Fault: wait for the last slot of the scan to be published.
PopNoneSpins ==
    /\ cpc = "scan"
    /\ state[CSlot] # FULL
    /\ coff + 1 = Capacity
    /\ UNCHANGED vars

\* No slot was published when it was looked at: return None.
PopNone ==
    /\ cpc = "scan"
    /\ state[CSlot] # FULL
    /\ coff + 1 = Capacity
    /\ cpc' = "idle"
    /\ UNCHANGED <<state, value, occupied, enqueue, dequeue, pvars, cstart, coff, cval, history>>

\* assume_init_read moves the value out; what stays in the slot is dead storage.
PopRead ==
    /\ cpc = "read"
    /\ cval' = value[CSlot]
    /\ value' = [value EXCEPT ![CSlot] = NoValue]
    /\ cpc' = "count"
    /\ UNCHANGED <<state, occupied, enqueue, dequeue, pvars, cstart, coff, history>>

PopCount ==
    /\ cpc = "count"
    /\ occupied' = occupied - 1
    /\ cpc' = "release"
    /\ UNCHANGED <<state, value, enqueue, dequeue, pvars, cstart, coff, cval, history>>

PopRelease ==
    /\ cpc = "release"
    /\ state' = [state EXCEPT ![CSlot] = EMPTY]
    /\ popped' = [popped EXCEPT ![cval] = @ + 1]
    /\ cval' = NoValue
    /\ cpc' = "idle"
    /\ UNCHANGED <<value, occupied, enqueue, dequeue, pvars, cstart, coff, accepted, refused>>

---------------------------------------------------------------------------
Push(p) ==
    \/ \E v \in Values : PushBegin(p, v)
    \/ PushClaim(p) \/ PushNext(p) \/ PushFull(p)
    \/ PushCount(p) \/ PushWrite(p) \/ PushPublish(p)

PopStep ==
    \/ PopNonempty \/ PopBegin \/ PopClaim \/ PopNext \/ PopNone
    \/ PopRead \/ PopCount \/ PopRelease

Pop == PopEmpty \/ PopStep

Next == Pop \/ \E p \in Producers : Push(p)

\* The loop keeps popping.  Nothing is assumed of the producers: a thread may
\* stall for ever between any two instructions of push.
Spec == Init /\ [][Next]_vars /\ WF_vars(PopStep)

---------------------------------------------------------------------------
\* Properties

PushOwns(p) == ppc[p] \in {"count", "write", "publish"}
PopOwns == cpc \in {"read", "count", "release"}

\* A slot in state 1 belongs to exactly one producer and a slot in state 3 to
\* the consumer, for as long as that thread is between its compare_exchange
\* and its final store: the SAFETY comments of queue.rs.
ExclusiveSlots ==
    /\ \A p \in Producers : PushOwns(p) => state[PSlot(p)] = WRITING
    /\ \A p, q \in Producers :
          p # q /\ PushOwns(p) /\ PushOwns(q) => PSlot(p) # PSlot(q)
    /\ PopOwns => state[CSlot] = READING

\* The slots that hold v and have not given it to the consumer.
Holding(v) == {s \in Slot : state[s] \in {FULL, READING} /\ value[s] = v}

\* A value whose push returned Ok is popped at most once, and until then it is
\* in exactly one place; a value handed back by a failed push is never popped.
AcceptedOnce ==
    \A v \in Values :
        /\ popped[v] <= 1
        /\ v \notin accepted => popped[v] = 0 /\ cval # v /\ Holding(v) = {}
        /\ v \in accepted /\ popped[v] = 1 => cval # v /\ Holding(v) = {}
        /\ v \in accepted /\ popped[v] = 0 =>
              \/ cval = v /\ Holding(v) = {}
              \/ cval # v /\ \E s \in Slot : Holding(v) = {s}

\* is_empty() never hides a published value, although the counter and the
\* slots are updated by separate instructions of racing threads.
EmptyIsHonest == occupied = 0 => \A s \in Slot : state[s] # FULL

---------------------------------------------------------------------------
(* WorkPort.                                                               *)

CONSTANT MaxUndelivered     \* PoolConfig::max_undelivered, which sizes the ring

\* WorkPort::new rounds max_undelivered up to a power of two for the ring.
ASSUME RingAssumption == MaxUndelivered \in 1 .. Capacity

VARIABLES
    undelivered,    \* charged operations that have not retired
    submitted,      \* every operation the driver ever accepted
    panicked,       \* workers whose assertion in complete() failed
    closed          \* WorkPort.closed: the driver was dropped

credits == <<undelivered, submitted, panicked>>
portVars == <<vars, credits, closed>>

PortTypeOK ==
    /\ TypeOK
    /\ undelivered \subseteq submitted
    /\ submitted \subseteq Values
    /\ panicked \subseteq Producers
    /\ closed \in BOOLEAN

PortInit == Init /\ undelivered = {} /\ submitted = {} /\ panicked = {} /\ closed = FALSE

\* Fault: the limit is tested against one more than the ring holds.
AdmitOffByOne(op) ==
    /\ cpc = "idle" /\ ~closed
    /\ op \notin submitted
    /\ Cardinality(undelivered) <= MaxUndelivered
    /\ undelivered' = undelivered \cup {op}
    /\ submitted' = submitted \cup {op}
    /\ UNCHANGED <<vars, panicked, closed>>

\* admit_port, new_op and charge_port, on the loop thread: a submission at the
\* limit is refused before the operation exists.
Admit(op) ==
    /\ cpc = "idle" /\ ~closed
    /\ op \notin submitted
    /\ Cardinality(undelivered) < MaxUndelivered
    /\ undelivered' = undelivered \cup {op}
    /\ submitted' = submitted \cup {op}
    /\ UNCHANGED <<vars, panicked, closed>>

\* complete(): the worker that ran op pushes its result, unless the port was
\* closed when it looked; one that looked before pushes into a ring nobody pops.
\* The notify() after the push, whose answer it drops, is a Ring of Notifier.
Complete(p) ==
    /\ p \notin panicked
    /\ \/ ~closed /\ \E op \in undelivered : PushBegin(p, op)
       \/ PushClaim(p) \/ PushNext(p)
       \/ PushCount(p) \/ PushWrite(p) \/ PushPublish(p)
    /\ UNCHANGED <<credits, closed>>

\* complete() found every slot busy: the assertion unwinds the worker thread,
\* the result is gone and its operation keeps its credit.
CompleteFull(p) ==
    /\ PushFull(p)
    /\ panicked' = panicked \cup {p}
    /\ UNCHANGED <<undelivered, submitted, closed>>

\* The loop's work step: pop one result; retire returns its credit only after
\* pop has freed the slot.
Collect ==
    /\ ~closed
    /\ Pop
    /\ undelivered' = IF cpc = "release" THEN undelivered \ {cval} ELSE undelivered
    /\ UNCHANGED <<submitted, panicked, closed>>

\* close(), from the Drop of the driver: the loop thread pops no more, while
\* workers may be anywhere in complete().
ClosePort ==
    /\ cpc = "idle" /\ ~closed
    /\ closed' = TRUE
    /\ UNCHANGED <<vars, credits>>

PortNext ==
    \/ \E op \in Values : Admit(op)
    \/ \E p \in Producers : Complete(p) \/ CompleteFull(p)
    \/ Collect \/ ClosePort

\* The pool's threads run their jobs to completion and the loop keeps turning.
PortSpec ==
    /\ PortInit /\ [][PortNext]_portVars
    /\ WF_portVars(Collect)
    /\ \A p \in Producers : WF_portVars(Complete(p) \/ CompleteFull(p))

---------------------------------------------------------------------------
\* Properties

\* The ring never holds more results than the loop has charged operations
\* ("the ring's occupancy can never exceed this", Driver::undelivered), and
\* admission keeps the charge within the ring.
RingWithinCredits ==
    /\ Cardinality({s \in Slot : state[s] # EMPTY}) <= Cardinality(undelivered)
    /\ Cardinality(undelivered) <= Capacity

\* Every accepted value is eventually popped if the loop keeps popping, even
\* when other producers stall for ever in the middle of push ("A stalled
\* producer owns only its own slot", queue.rs); only the drop of the driver leaves
\* values in the ring.
AcceptedIsPopped == \A v \in Values : v \in accepted ~> popped[v] = 1 \/ closed

\* A charged operation either delivers its result and gives its credit back,
\* or a worker died on the ring's assertion (see RingNeverFull), or the driver
\* was dropped: no credit is kept by a result that was collected, and no result
\* is left in the ring of a live loop.
CreditReturns ==
    \A op \in Values :
        op \in undelivered ~> op \notin undelivered \/ panicked # {} \/ closed

\* complete() asserts that push never fails: "Thus the ring cannot overflow; a
\* full ring is a broken invariant" (blocking.rs).
RingNeverFull == refused = {}

---------------------------------------------------------------------------
(* For TLC: `part' says whether threads push what they like, or only what  *)
(* the driver has charged.                                                 *)

CONSTANT Parts

VARIABLE part

SuiteInit == PortInit /\ part \in Parts
SuiteNext ==
    \/ part = "ring" /\ Next /\ UNCHANGED <<part, credits, closed>>
    \/ part = "port" /\ PortNext /\ UNCHANGED part

\* In the ring nothing is assumed of the producers, which may stall for ever
\* between any two instructions of push; the threads of the pool run on.
Suite ==
    /\ SuiteInit /\ [][SuiteNext]_<<portVars, part>>
    /\ WF_vars(part = "ring" /\ PopStep) /\ WF_portVars(part = "port" /\ Collect)
    /\ \A p \in Producers : WF_portVars(part = "port" /\ (Complete(p) \/ CompleteFull(p)))

\* What the port charged is what its ring may hold.
PortWithinCredits == part = "port" => RingWithinCredits

Interchangeable == Permutations(Producers) \cup Permutations(Values)
===============================================================================
