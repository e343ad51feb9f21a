---------------------------- MODULE ExternalWait ----------------------------
(***************************************************************************)
(* Waits on host conditions with exact deadlines (external_wait.rs).  On   *)
(* native targets one helper thread scans the registered waits; every      *)
(* operation holds its mutex, and the thread sleeps on its condition       *)
(* variable with the earliest deadline as time-out.  On wasm (Threaded is  *)
(* FALSE) there is one agent: a notification completes the waits itself    *)
(* and the turn of the owning loop polls values and deadlines.             *)
(***************************************************************************)
EXTENDS Naturals, FiniteSets

CONSTANTS
    Waits,          \* operations
    Owners,         \* loops
    OwnerOf,        \* the loop of each operation
    Conditions,
    WaitSlots,      \* CAPACITY
    MaxTime,        \* bound: the clock
    MaxGeneration,  \* bound: notifications per condition
    Threaded        \* native, or one wasm agent

VARIABLES
    value, generation,  \* the two atomics of each condition
    owed,               \* conditions stored to whose notify is still to come
    slots,              \* the registered waits
    results,            \* results in the work ports, per operation
    accepted,           \* operations whose result has not been consumed
    closed,             \* loops that were dropped
    thread,             \* "scan" or "parked"
    until,              \* the time-out of the thread's sleep
    now

waitVars == <<value, generation, owed, slots, results, accepted, closed, thread, until, now>>

Never == MaxTime + 1
Free == [condition |-> "free"]
Registered == {o \in Waits : slots[o] # Free}

WaitInit ==
    /\ value = [c \in Conditions |-> 0] /\ generation = [c \in Conditions |-> 0]
    /\ owed = {} /\ slots = [o \in Waits |-> Free]
    /\ results = [o \in Waits |-> 0] /\ accepted = {} /\ closed = {}
    /\ thread = "scan" /\ until = Never /\ now = 0

\* notify_one under the mutex: the one thread is asleep or will scan anyway.
Signal == thread' = IF Threaded THEN "scan" ELSE thread
Deliver(done) == results' = [o \in Waits |-> IF o \in done THEN results[o] + 1 ELSE results[o]]
Release(done) == slots' = [o \in Waits |-> IF o \in done THEN Free ELSE slots[o]]

\* WaitCondition::store changes the value first; a host with storage of its
\* own does so anywhere.
Store(c, v) ==
    /\ value[c] # v /\ c \notin owed
    /\ value' = [value EXCEPT ![c] = v] /\ owed' = owed \cup {c}
    /\ UNCHANGED <<generation, slots, results, accepted, closed, thread, until, now>>

\* Fault: the generation counts for the thread, which is not told.
BumpOnly(c) ==
    /\ generation[c] < MaxGeneration
    /\ generation' = [generation EXCEPT ![c] = @ + 1] /\ owed' = owed \ {c}
    /\ UNCHANGED <<value, slots, results, accepted, closed, thread, until, now>>

\* notify: with or without a change of the value.
Notify(c) ==
    /\ generation[c] < MaxGeneration
    /\ generation' = [generation EXCEPT ![c] = @ + 1] /\ owed' = owed \ {c}
    /\ Signal
    /\ LET done == IF Threaded THEN {} ELSE {o \in Registered : slots[o].condition = c}
       IN Deliver(done) /\ Release(done)
    /\ UNCHANGED <<value, accepted, closed, until, now>>

\* submit, once the driver has admitted the operation.
Submit(o, c, expected, deadline) ==
    /\ o \notin accepted /\ OwnerOf[o] \notin closed
    /\ accepted' = accepted \cup {o}
    /\ \/ /\ value[c] # expected
          /\ Deliver({o}) /\ UNCHANGED <<slots, thread>>
       \/ /\ value[c] = expected /\ Cardinality(Registered) < WaitSlots
          /\ slots' = [slots EXCEPT ![o] = [condition |-> c, generation |-> generation[c],
                                            expected |-> expected, deadline |-> deadline]]
          /\ Signal /\ UNCHANGED results
    /\ UNCHANGED <<value, generation, owed, closed, until, now>>

\* cancel finds the wait, or it has completed and nothing happens.
Cancel(o) ==
    /\ o \in Registered
    /\ Deliver({o}) /\ Release({o}) /\ Signal
    /\ UNCHANGED <<value, generation, owed, accepted, closed, until, now>>

\* close, when the driver of a loop is dropped: its waits vanish unanswered.
Close(w) ==
    /\ w \notin closed
    /\ closed' = closed \cup {w}
    /\ Release({o \in Waits : OwnerOf[o] = w}) /\ Signal
    /\ UNCHANGED <<value, generation, owed, results, accepted, until, now>>

\* The driver pops the result; the operation slot may be used again.
Consume(o) ==
    /\ results[o] > 0 /\ OwnerOf[o] \notin closed
    /\ results' = [results EXCEPT ![o] = @ - 1] /\ accepted' = accepted \ {o}
    /\ UNCHANGED <<value, generation, owed, slots, closed, thread, until, now>>

Changed(o) == value[slots[o].condition] # slots[o].expected \/ generation[slots[o].condition] # slots[o].generation
Due(o) == slots[o].deadline <= now

Earliest(waits) ==
    LET times == {slots[o].deadline : o \in waits} \cup {Never}
    IN CHOOSE t \in times : \A u \in times : t <= u

\* One pass of Service::run under the mutex, and the sleep that ends it.
Scan ==
    /\ Threaded /\ thread = "scan"
    /\ LET done == {o \in Registered : Changed(o) \/ Due(o)} IN
       /\ Deliver(done) /\ Release(done)
       /\ until' = Earliest(Registered \ done)
    /\ thread' = "parked"
    /\ UNCHANGED <<value, generation, owed, accepted, closed, now>>

\* wait_timeout ends: a time-out, or no reason at all.
Wake ==
    /\ thread = "parked" /\ until <= now
    /\ thread' = "scan"
    /\ UNCHANGED <<value, generation, owed, slots, results, accepted, closed, until, now>>

\* poll, twice in each turn of the owning loop of a wasm agent.
Poll(w) ==
    /\ ~Threaded /\ w \notin closed
    /\ LET done == {o \in Registered : OwnerOf[o] = w /\
                        (value[slots[o].condition] # slots[o].expected \/ Due(o))}
       IN done # {} /\ Deliver(done) /\ Release(done)
    /\ UNCHANGED <<value, generation, owed, accepted, closed, thread, until, now>>

Tick == now < MaxTime /\ now' = now + 1
        /\ UNCHANGED <<value, generation, owed, slots, results, accepted, closed, thread, until>>

WaitNext ==
    \/ \E c \in Conditions, v \in 0 .. 1 : Store(c, v)
    \/ \E c \in Conditions : Notify(c)
    \/ \E o \in Waits, c \in Conditions, v \in 0 .. 1, d \in 0 .. Never : Submit(o, c, v, d)
    \/ \E o \in Waits : Cancel(o) \/ Consume(o)
    \/ \E w \in Owners : Close(w) \/ Poll(w)
    \/ Scan \/ Wake \/ Tick

WaitSpec == WaitInit /\ [][WaitNext]_waitVars

---------------------------------------------------------------------------
\* The helper thread never sleeps over a wait that a notification, a time-out
\* or a changed value has ended - a changed value only until its notify comes.
SleepsOverNothing ==
    thread = "parked" =>
        \A o \in Registered :
            /\ generation[slots[o].condition] = slots[o].generation
            /\ value[slots[o].condition] # slots[o].expected => slots[o].condition \in owed
            /\ until <= slots[o].deadline

\* An accepted wait is registered or has one result, never both, whoever ends
\* it; a dropped loop has no wait left that could touch its port.
WaitEndsOnce ==
    \A o \in Waits :
        /\ OwnerOf[o] \in closed => slots[o] = Free
        /\ (IF slots[o] # Free THEN 1 ELSE 0) + results[o]
             <= (IF o \in accepted THEN 1 ELSE 0)
        /\ o \in accepted /\ OwnerOf[o] \notin closed => slots[o] # Free \/ results[o] = 1

\* A registered wait that is due or was notified.
IsOver(o) ==
    /\ slots[o] # Free
    /\ slots[o].deadline <= now \/ generation[slots[o].condition] # slots[o].generation
=============================================================================
