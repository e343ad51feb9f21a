----------------------------- MODULE FsService ------------------------------
(***************************************************************************)
(* The filesystem service of one loop (fs/service.rs) over the process's   *)
(* bounded worker pool (blocking.rs).  The loop thread links requests into *)
(* a FIFO per handle, starts heads, cancels and consumes results; workers  *)
(* take job slots from the pool's queue and publish to the work port.      *)
(* What a thread does up to its next condition variable call is one step:  *)
(* before a slot is in the queue no other thread reaches what the loop     *)
(* thread prepares.  `Boxed' stands for the jobs of other loops.           *)
(*                                                                         *)
(* The last part is the pool's second set of threads, for jobs of          *)
(* Occupancy::Long (LongSet of blocking.rs): no backlog, threads started   *)
(* on demand up to a ceiling and retired after an idle time-out.  What a   *)
(* thread does under the handoff mutex is one step; waiting on the         *)
(* condition variable, the time-out, the notification and the start of a   *)
(* thread are steps of their own.  Submissions come from any loop, so      *)
(* several may be between their locks at once.                             *)
(***************************************************************************)
EXTENDS Naturals, Sequences, FiniteSets

CONSTANTS
    Ops,            \* operation slots
    Files,          \* handle slots
    NoFile,         \* a request on no handle
    Targets,        \* where requests are made: handles, or NoFile
    Boxed,          \* jobs of other loops
    Workers,        \* PoolConfig::threads
    QueueCapacity,  \* PoolConfig::queue_capacity
    Leases,         \* buffers of the loop's BufferPool
    LongJobs,       \* long jobs; one may be submitted again after it ended
    Threads,        \* identities of the threads for long jobs
    LongMax,        \* PoolConfig::long_threads_max
    Loops           \* bound: loop threads, each in at most one submission

VARIABLES
    svc,        \* the loop thread's and the shared state, one field per variable of the code
    worker,     \* [at, task] of each worker
    answers,    \* results of this loop in its work port, per operation
    life,       \* "open", "dropping", "waiting", "dropped"
    left,       \* requests Service::drop has not visited
    withdrawn,  \* the jobs Service::drop has taken back; the code keeps their number
    handed,     \* Long::jobs: handed to parked workers, in order
    threads,    \* Long::threads
    idle,       \* Long::idle
    starting,   \* jobs whose submitter is starting a thread
    nudges,     \* notify_one calls that submitters still owe
    at,         \* what each thread does
    serves      \* the job each thread runs

fsVars == <<svc, worker, answers, life, left, withdrawn>>
longVars == <<handed, threads, idle, starting, nudges, at, serves>>

None == "none"
Idle == [stage |-> "Idle", file |-> None, pooled |-> FALSE, prev |-> None, next |-> None, lease |-> FALSE]
Submitters == {"this", "other"}
Min2(a, b) == IF a < b THEN a ELSE b

FsInit ==
    /\ svc = [active |-> [o \in Ops |-> Idle],
              heads |-> [f \in Files |-> None], tails |-> [f \in Files |-> None],
              waiting |-> << >>, free |-> Leases, lent |-> 0,
              jobs |-> << >>, reserved |-> 0, owed |-> [b \in Submitters |-> 0],
              job |-> {}, cancel |-> {}, running |-> 0]
    /\ worker = [w \in Workers |-> [at |-> "seek", task |-> None]]
    /\ answers = [o \in Ops |-> 0]
    /\ life = "open" /\ left = {} /\ withdrawn = {}

---------------------------------------------------------------------------
(* The pool's side of a submission. *)

Room(s) == Len(s.jobs) + s.reserved < QueueCapacity
Reserve(s) == [s EXCEPT !.reserved = @ + 1]
Unreserve(s) == [s EXCEPT !.reserved = @ - 1]

\* push_reserved; the notification follows when the lock has been released.
PushReserved(s, o) ==
    [s EXCEPT !.reserved = @ - 1, !.jobs = Append(@, o), !.owed["this"] = @ + 1]

(* The service's methods on the loop thread. *)

Run(s, o) ==
    PushReserved([s EXCEPT !.active[o].stage = "Running",
                           !.active[o].lease = s.active[o].pooled,
                           !.free = IF s.active[o].pooled THEN @ - 1 ELSE @,
                           !.cancel = @ \ {o}, !.job = @ \cup {o}, !.running = @ + 1], o)

\* A head that needs a pooled buffer waits until one is free.
Start(s, o) ==
    IF ~s.active[o].pooled \/ s.free > 0 THEN Run(s, o)
    ELSE IF s.active[o].stage = "Waiting" THEN s
    ELSE [s EXCEPT !.active[o].stage = "Waiting", !.waiting = Append(@, o)]

\* retry: as many waiting heads as there are free buffers, in order.
Retry(s) ==
    LET n == Min2(s.free, Len(s.waiting))
        Step[k \in 0 .. n] == IF k = 0 THEN [s EXCEPT !.waiting = SubSeq(@, n + 1, Len(@))]
                              ELSE Start(Step[k - 1], s.waiting[k])
    IN Step[n]

Unlink(s, o) ==
    LET a == s.active[o]
        t == [s EXCEPT !.active[o].prev = None, !.active[o].next = None]
        u == IF a.prev # None THEN [t EXCEPT !.active[a.prev].next = a.next]
             ELSE [t EXCEPT !.heads[a.file] = a.next]
    IN IF a.file = NoFile THEN t
       ELSE IF a.next # None THEN [u EXCEPT !.active[a.next].prev = a.prev]
       ELSE [u EXCEPT !.tails[a.file] = a.prev]

StartNext(s, o) == IF o = None THEN s ELSE Start(s, o)

\* Fault: a request starts although another is before it on its handle.
LinkStarts(s, o, f, pooled) ==
    LET prev == IF f = NoFile THEN None ELSE s.tails[f]
        t == [s EXCEPT !.active[o] = [Idle EXCEPT !.stage = "Queued", !.file = f, !.pooled = pooled, !.prev = prev]]
        u == IF prev # None THEN [t EXCEPT !.active[prev].next = o, !.tails[f] = o]
             ELSE IF f # NoFile THEN [t EXCEPT !.heads[f] = o, !.tails[f] = o]
             ELSE t
    IN Start(u, o)

\* submit: the request goes behind the last one of its handle, or starts.
Link(s, o, f, pooled) ==
    LET prev == IF f = NoFile THEN None ELSE s.tails[f]
        t == [s EXCEPT !.active[o] = [Idle EXCEPT !.stage = "Queued", !.file = f, !.pooled = pooled, !.prev = prev]]
        u == IF prev # None THEN [t EXCEPT !.active[prev].next = o, !.tails[f] = o]
             ELSE IF f # NoFile THEN [t EXCEPT !.heads[f] = o, !.tails[f] = o]
             ELSE t
    IN IF prev = None THEN Start(u, o) ELSE u

\* cancel of a request that was not started; its result is published at once.
Withdrawal(s, o) ==
    LET a == s.active[o]
        t == Unreserve(Unlink([s EXCEPT !.active[o].stage = "Withdrawn",
                                        !.waiting = SelectSeq(@, LAMBDA p : p # o)], o))
    IN IF a.prev = None THEN StartNext(t, a.next) ELSE t

\* Fault: the successor of a request that ran is left in the queue.
CompletedOnly(s, o) ==
    LET a == s.active[o]
        t == IF a.stage = "Running" THEN Unlink(s, o) ELSE s
    IN [t EXCEPT !.active[o] = Idle, !.lent = IF a.lease THEN @ + 1 ELSE @]

\* complete: a request that ran gives way to its successor; the slot and the
\* buffer are taken from it.
Completed(s, o) ==
    LET a == s.active[o]
        t == IF a.stage = "Running" THEN StartNext(Unlink(s, o), a.next) ELSE s
    IN [t EXCEPT !.active[o] = Idle, !.lent = IF a.lease THEN @ + 1 ELSE @]

---------------------------------------------------------------------------
(* Actions of the loop thread.  It is at most in one call at a time. *)

LoopFree == life = "open" /\ svc.owed["this"] = 0

Submit(o, f, pooled) ==
    /\ LoopFree /\ svc.active[o] = Idle /\ Room(svc)
    /\ svc' = Link(Reserve(svc), o, f, pooled)
    /\ UNCHANGED <<worker, answers, life, left, withdrawn>>

Cancel(o) ==
    /\ LoopFree
    /\ \/ /\ svc.active[o].stage = "Running"
          /\ svc' = [svc EXCEPT !.cancel = @ \cup {o}] /\ UNCHANGED answers
       \/ /\ svc.active[o].stage \in {"Queued", "Waiting"}
          /\ svc' = Withdrawal(svc, o)
          /\ answers' = [answers EXCEPT ![o] = @ + 1]
    /\ UNCHANGED <<worker, life, left, withdrawn>>

\* The turn starts waiting heads, and consumes what the port holds.
RetryWaiting ==
    /\ LoopFree /\ svc.waiting # << >> /\ svc.free > 0
    /\ svc' = Retry(svc)
    /\ UNCHANGED <<worker, answers, life, left, withdrawn>>

Collect(o) ==
    /\ LoopFree /\ answers[o] > 0
    /\ svc' = Completed(svc, o)
    /\ answers' = [answers EXCEPT ![o] = @ - 1]
    /\ UNCHANGED <<worker, life, left, withdrawn>>

\* The host drops the lease of a completion it has read.
ReturnLease ==
    /\ LoopFree /\ svc.lent > 0
    /\ svc' = [svc EXCEPT !.lent = @ - 1, !.free = @ + 1]
    /\ UNCHANGED <<worker, answers, life, left, withdrawn>>

---------------------------------------------------------------------------
(* Dropping the loop.  The driver has closed the port, so a result that is *)
(* published from here on is discarded.                                    *)

BeginDrop ==
    /\ LoopFree
    /\ life' = "dropping" /\ left' = {o \in Ops : svc.active[o] # Idle}
    /\ UNCHANGED <<svc, worker, answers, withdrawn>>

DropRequest(o) ==
    /\ life = "dropping" /\ o \in left
    /\ left' = left \ {o}
    /\ LET stage == svc.active[o].stage IN
       /\ svc' = CASE stage = "Running" -> [svc EXCEPT !.cancel = @ \cup {o}, !.job = @ \ {o}]
                   [] stage \in {"Queued", "Waiting"} -> Unreserve(svc)
                   [] stage = "Withdrawn" -> svc
       /\ withdrawn' = withdrawn \cup (svc.job \cap {o})
    /\ UNCHANGED <<worker, answers, life>>

SettleDrop ==
    /\ life = "dropping" /\ left = {}
    /\ life' = "waiting"
    /\ svc' = [svc EXCEPT !.running = @ - Cardinality(withdrawn)]
    /\ UNCHANGED <<worker, answers, left, withdrawn>>

FinishDrop ==
    /\ life = "waiting" /\ svc.running = 0
    /\ life' = "dropped"
    /\ UNCHANGED <<svc, worker, answers, left, withdrawn>>

---------------------------------------------------------------------------
(* The pool's workers, and the jobs of other loops. *)

SubmitBoxed(b) ==
    /\ Room(svc) /\ svc.owed["other"] = 0
    /\ \A i \in DOMAIN svc.jobs : svc.jobs[i] # b
    /\ \A w \in Workers : worker[w].task # b
    /\ svc' = [svc EXCEPT !.jobs = Append(@, b), !.owed["other"] = 1]
    /\ UNCHANGED <<worker, answers, life, left, withdrawn>>

\* notify_one, after the queue's lock has been released.
Notify(b) ==
    /\ svc.owed[b] > 0
    /\ svc' = [svc EXCEPT !.owed[b] = @ - 1]
    /\ LET parked == {w \in Workers : worker[w].at = "parked"} IN
       IF parked = {} THEN UNCHANGED worker
       ELSE \E w \in parked : worker' = [worker EXCEPT ![w].at = "seek"]
    /\ UNCHANGED <<answers, life, left, withdrawn>>

\* With the queue's lock: take the first task, or wait for a notification.
Take(w) ==
    /\ worker[w].at = "seek"
    /\ IF svc.jobs = << >>
       THEN worker' = [worker EXCEPT ![w].at = "parked"] /\ UNCHANGED svc
       ELSE /\ worker' = [worker EXCEPT ![w] = [at |-> "entry", task |-> Head(svc.jobs)]]
            /\ svc' = [svc EXCEPT !.jobs = Tail(@)]
    /\ UNCHANGED <<answers, life, left, withdrawn>>

RunBoxed(w) ==
    /\ worker[w].at = "entry" /\ worker[w].task \in Boxed
    /\ worker' = [worker EXCEPT ![w] = [at |-> "seek", task |-> None]]
    /\ UNCHANGED <<svc, answers, life, left, withdrawn>>

\* Slot::run takes the job, or finds that it was taken back.  It then reads
\* the flag: a request that was cancelled in time is not executed.
TakeJob(w) ==
    /\ worker[w].at = "entry" /\ worker[w].task \in Ops
    /\ LET o == worker[w].task IN
       IF o \in svc.job
       THEN /\ worker' = [worker EXCEPT ![w].at = IF o \in svc.cancel THEN "skip" ELSE "exec"]
            /\ svc' = [svc EXCEPT !.job = @ \ {o}]
       ELSE /\ worker' = [worker EXCEPT ![w] = [at |-> "seek", task |-> None]]
            /\ UNCHANGED svc
    /\ UNCHANGED <<answers, life, left, withdrawn>>

\* The call has returned, or was skipped: its result goes to the port.
Publish(w) ==
    /\ worker[w].at \in {"exec", "skip"}
    /\ worker' = [worker EXCEPT ![w].at = "leave"]
    /\ answers' = IF life = "open" THEN [answers EXCEPT ![worker[w].task] = @ + 1] ELSE answers
    /\ UNCHANGED <<svc, life, left, withdrawn>>

Leave(w) ==
    /\ worker[w].at = "leave"
    /\ worker' = [worker EXCEPT ![w] = [at |-> "seek", task |-> None]]
    /\ svc' = [svc EXCEPT !.running = @ - 1]
    /\ UNCHANGED <<answers, life, left, withdrawn>>

LoopNext ==
    \/ \E o \in Ops, f \in Targets, pooled \in BOOLEAN : Submit(o, f, pooled)
    \/ \E o \in Ops : Cancel(o) \/ Collect(o) \/ DropRequest(o)
    \/ RetryWaiting \/ ReturnLease \/ BeginDrop \/ SettleDrop \/ FinishDrop

PoolNext ==
    \/ \E b \in Boxed : SubmitBoxed(b)
    \/ \E b \in Submitters : Notify(b)
    \/ \E w \in Workers : Take(w) \/ RunBoxed(w) \/ TakeJob(w) \/ Publish(w) \/ Leave(w)

FsNext == LoopNext \/ PoolNext

\* Workers run; system calls return; the loop thread finishes its calls, keeps
\* turning, and its host reads completions and drops their buffers.
WorkerStep(w) == Take(w) \/ RunBoxed(w) \/ TakeJob(w) \/ Publish(w) \/ Leave(w)
FsSpec == FsInit /\ [][FsNext]_fsVars

---------------------------------------------------------------------------
Holding(o, places) == {w \in Workers : worker[w].task = o /\ worker[w].at \in places}
Staged(stages) == {o \in Ops : svc.active[o].stage \in stages}
Entries(o) == {i \in DOMAIN svc.jobs : svc.jobs[i] = o}

\* The fields of the service and of the pool have the shapes of the code's
\* types, and neither counter underflows.
FsTypeOK ==
    /\ svc.active \in [Ops -> [stage : {"Idle", "Queued", "Waiting", "Running", "Withdrawn"},
                               file : Files \cup {NoFile, None}, pooled : BOOLEAN,
                               prev : Ops \cup {None}, next : Ops \cup {None}, lease : BOOLEAN]]
    /\ svc.heads \in [Files -> Ops \cup {None}] /\ svc.tails \in [Files -> Ops \cup {None}]
    /\ svc.waiting \in Seq(Ops) /\ svc.jobs \in Seq(Ops \cup Boxed)
    /\ svc.free \in 0 .. Leases /\ svc.lent \in 0 .. Leases
    /\ svc.reserved \in 0 .. QueueCapacity /\ svc.owed \in [Submitters -> Nat]
    /\ svc.job \subseteq Ops /\ svc.cancel \subseteq Ops /\ svc.running \in Nat
    /\ worker \in [Workers -> [at : {"seek", "parked", "entry", "exec", "skip", "leave"},
                               task : Ops \cup Boxed \cup {None}]]
    /\ answers \in [Ops -> Nat] /\ left \subseteq Ops /\ withdrawn \subseteq Ops
    /\ life \in {"open", "dropping", "waiting", "dropped"}

\* The queue never grows past its capacity, reservations included, and each
\* reservation belongs to a request of this loop that was not started: what
\* push_reserved asserts, through cancellation and drop.
ReservationsHold ==
    /\ Len(svc.jobs) + svc.reserved <= QueueCapacity
    /\ svc.reserved = Cardinality({o \in Staged({"Queued", "Waiting"}) :
                                      life = "open" \/ (life = "dropping" /\ o \in left)})

\* A started request is in exactly one place - the job slot with one queue
\* entry, one worker, or the port - so it is answered once and its slot is not
\* reused while a worker is inside the request.
RequestInOnePlace ==
    life = "open" =>
        \A o \in Ops :
            LET held == Cardinality(Holding(o, {"exec", "skip"})) IN
            /\ (IF o \in svc.job THEN 1 ELSE 0) + held + answers[o]
                 = (IF o \in Staged({"Running", "Withdrawn"}) THEN 1 ELSE 0)
            /\ o \in svc.job <=> Cardinality(Entries(o)) + Cardinality(Holding(o, {"entry"})) = 1

\* The count that Service::drop waits on is that of the jobs which workers
\* hold or may still take, and nothing of this loop runs once drop returned.
RunningIsExact ==
    /\ svc.running = Cardinality(svc.job) + (IF life = "dropping" THEN Cardinality(withdrawn) ELSE 0)
          + Cardinality({w \in Workers : worker[w].at \in {"exec", "skip", "leave"}})
    /\ life = "dropped" => \A w \in Workers : worker[w].at \notin {"exec", "skip", "leave"}

\* The chain of a handle's FIFO, following next from its head.
Chain(f) ==
    LET Walk[n \in 1 .. Cardinality(Ops)] ==
            IF n = 1 THEN IF svc.heads[f] = None THEN << >> ELSE <<svc.heads[f]>>
            ELSE LET w == Walk[n - 1] IN
                 IF w = << >> \/ svc.active[w[Len(w)]].next = None THEN w
                 ELSE Append(w, svc.active[w[Len(w)]].next)
    IN Walk[Cardinality(Ops)]

\* A request on no handle is alone on a handle of its own.
ChainOf(f) ==
    IF life = "dropped" THEN << >>
    ELSE IF f \in Files THEN Chain(f)
    ELSE IF svc.active[f].file = NoFile /\ svc.active[f].stage # "Withdrawn" THEN <<f>>
    ELSE << >>

ExecutingNow == {o \in Ops : Holding(o, {"exec", "skip"}) # {}}
Requests == INSTANCE FileRequests WITH
    Files <- Files \cup Ops,
    order <- [f \in Files \cup Ops |-> ChainOf(f)],
    executing <- ExecutingNow,
    executed <- {o \in Staged({"Running"}) : life # "dropped" /\ o \notin svc.job \cup ExecutingNow \cup withdrawn},
    gone <- (life = "dropped")

\* The linked requests, cancellation, the pool and drop together implement
\* one request at a time per handle in the order of acceptance.
ImplementsFileOrder == Requests!OrderSpec

\* An accepted request that has not been collected.
IsAccepted(o) == life = "open" /\ svc.active[o] # Idle

---------------------------------------------------------------------------
(* The threads for long jobs.                                              *)

Nobody == "none"
Places == {"absent", "run", "lock", "parked", "woken", "expired", "retire"}

\* Threads that are counted in idle: between finishing a job and taking one.
Available == {t \in Threads : at[t] \in {"parked", "woken", "expired"}}
Running == {serves[t] : t \in Threads} \ {Nobody}
Pending(j) == j \in Running \cup starting \cup {handed[i] : i \in DOMAIN handed}

\* A loop thread that is not in the middle of a submission, and a job to submit.
CanSubmit(j) == ~Pending(j) /\ Cardinality(starting) + nudges < Loops

LongTypeOK ==
    /\ handed \in Seq(LongJobs)
    /\ threads \in 0 .. LongMax /\ idle \in 0 .. LongMax
    /\ starting \subseteq LongJobs /\ nudges \in 0 .. Loops
    /\ at \in [Threads -> Places] /\ serves \in [Threads -> LongJobs \cup {Nobody}]

LongInit ==
    /\ handed = << >> /\ threads = 0 /\ idle = 0
    /\ starting = {} /\ nudges = 0
    /\ at = [t \in Threads |-> "absent"]
    /\ serves = [t \in Threads |-> Nobody]

Serve(t, j) == at' = [at EXCEPT ![t] = "run"] /\ serves' = [serves EXCEPT ![t] = j]
Move(t, place) == at' = [at EXCEPT ![t] = place] /\ UNCHANGED serves

\* Fault: a parked worker may be promised to two jobs.
HandOverTwice(j) ==
    /\ CanSubmit(j) /\ Len(handed) <= idle /\ idle > 0
    /\ handed' = Append(handed, j)
    /\ nudges' = nudges + 1
    /\ UNCHANGED <<threads, idle, starting, at, serves>>

\* submit: a parked worker that no other job was promised to takes this one.
HandOver(j) ==
    /\ CanSubmit(j) /\ Len(handed) < idle
    /\ handed' = Append(handed, j)
    /\ nudges' = nudges + 1
    /\ UNCHANGED <<threads, idle, starting, at, serves>>

\* submit: the thread is counted before it exists.  At the ceiling the job is
\* refused and nothing changes.
Decide(j) ==
    /\ CanSubmit(j) /\ Len(handed) >= idle /\ threads < LongMax
    /\ threads' = threads + 1
    /\ starting' = starting \cup {j}
    /\ UNCHANGED <<handed, idle, nudges, at, serves>>

\* The spawn succeeds: the job is the new worker's first ...
Started(j) ==
    /\ j \in starting
    /\ starting' = starting \ {j}
    /\ \E t \in Threads : at[t] = "absent" /\ Serve(t, j)
    /\ UNCHANGED <<handed, threads, idle, nudges>>

\* ... or fails: the submission is refused and the thread uncounted.
StartFailed(j) ==
    /\ j \in starting
    /\ starting' = starting \ {j}
    /\ threads' = threads - 1
    /\ UNCHANGED <<handed, idle, nudges, at, serves>>

\* ready.notify_one(), after the submitter released the lock: one waiting
\* thread is woken, if there is any.
NotifyOne ==
    /\ nudges > 0
    /\ nudges' = nudges - 1
    /\ IF \E t \in Threads : at[t] = "parked"
       THEN \E t \in Threads : at[t] = "parked" /\ Move(t, "woken")
       ELSE UNCHANGED <<at, serves>>
    /\ UNCHANGED <<handed, threads, idle, starting>>

\* run() returns; the worker goes for the lock.
JobEnds(t) ==
    /\ at[t] = "run"
    /\ at' = [at EXCEPT ![t] = "lock"] /\ serves' = [serves EXCEPT ![t] = Nobody]
    /\ UNCHANGED <<handed, threads, idle, starting, nudges>>

\* With the lock: the worker is available; it takes a handed job at once or
\* waits.
Park(t) ==
    /\ at[t] = "lock"
    /\ IF handed # << >>
       THEN Serve(t, Head(handed)) /\ handed' = Tail(handed) /\ UNCHANGED idle
       ELSE Move(t, "parked") /\ idle' = idle + 1 /\ UNCHANGED handed
    /\ UNCHANGED <<threads, starting, nudges>>

\* The wait times out, or ends for no reason, before the lock is taken again.
Expire(t) == at[t] = "parked" /\ Move(t, "expired") /\ UNCHANGED <<handed, threads, idle, starting, nudges>>
Spurious(t) == at[t] = "parked" /\ Move(t, "woken") /\ UNCHANGED <<handed, threads, idle, starting, nudges>>

\* With the lock again: a handed job is taken even after a time-out; without
\* one the worker waits again, or leaves if its wait timed out.
TakeOrLeave(t) ==
    /\ at[t] \in {"woken", "expired"}
    /\ \/ /\ handed # << >>
          /\ Serve(t, Head(handed)) /\ handed' = Tail(handed) /\ idle' = idle - 1
       \/ /\ handed = << >> /\ at[t] = "woken" /\ Move(t, "parked") /\ UNCHANGED <<handed, idle>>
       \/ /\ handed = << >> /\ at[t] = "expired" /\ Move(t, "retire") /\ idle' = idle - 1 /\ UNCHANGED handed
    /\ UNCHANGED <<threads, starting, nudges>>

\* Retire::drop takes the lock once more.
Retire(t) ==
    /\ at[t] = "retire"
    /\ Move(t, "absent")
    /\ threads' = threads - 1
    /\ UNCHANGED <<handed, idle, starting, nudges>>

LongNext ==
    \/ \E j \in LongJobs : HandOver(j) \/ Decide(j) \/ Started(j) \/ StartFailed(j)
    \/ NotifyOne
    \/ \E t \in Threads : JobEnds(t) \/ Park(t) \/ Expire(t) \/ Spurious(t) \/ TakeOrLeave(t) \/ Retire(t)

\* What a thread does on its own, however long the job it ran before.
ThreadStep(t) == Park(t) \/ TakeOrLeave(t) \/ Retire(t)
SubmitterStep(j) == Started(j) \/ StartFailed(j)

LongSpec == LongInit /\ [][LongNext]_longVars

---------------------------------------------------------------------------
\* Each job handed over has a worker of its own that is not promised to
\* another, the worker set respects its ceiling, and its counts are those of
\* the threads there are (the claim of Long::jobs).
NoBacklog ==
    /\ Len(handed) <= idle
    /\ idle = Cardinality(Available)
    /\ threads = Cardinality(starting) + Cardinality({t \in Threads : at[t] # "absent"})
    /\ threads <= LongMax

\* A job handed to a parked worker and not yet taken by one.
IsHanded(j) == \E i \in DOMAIN handed : handed[i] = j
=============================================================================
