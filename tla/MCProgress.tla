----------------------------- MODULE MCProgress -----------------------------
(***************************************************************************)
(* What must eventually happen in the services and the protocol crates,    *)
(* and the refinement of the file service, for TLC.  As in MCServices and  *)
(* MCProtocols a behaviour exercises one component, which `part' names;    *)
(* the instances are smaller.                                              *)
(***************************************************************************)
EXTENDS Naturals, Sequences, FiniteSets, TLC

CONSTANTS
    Parts,
    Files, NoFile, Workers,
    o1, o2, t1, t2, w1, w2, Conditions,
    Task, LoopHandles,
    NoPool

VARIABLES
    part,
    handed, threads, idle, starting, nudges, at, serves,
    svc, worker, answers, life, left, withdrawn,
    value, generation, owed, slots, results, accepted, closed, thread, until, now,
    ex, futures, streams, tasks, ready, waking, notified, phase, todo, polling,
    policy, entries, waiters, callers, driving, unpolled, progressed, woken, timer, failure, ended, clock,
    ends, link, bodies, over,
    redis, up, down, server, replies, next, losses, published

longVars == <<handed, threads, idle, starting, nudges, at, serves>>
fsVars == <<svc, worker, answers, life, left, withdrawn>>
waitVars == <<value, generation, owed, slots, results, accepted, closed, thread, until, now>>
exVars == <<ex, futures, streams, tasks, ready, waking, notified, phase, todo, polling>>
poolVars == <<policy, entries, waiters, callers, driving, unpolled, progressed, woken, timer, failure, ended, clock>>
h2Vars == <<ends, link, bodies, over>>
redisVars == <<redis, up, down, server, replies, next, losses, published>>
vars == <<part, longVars, fsVars, waitVars, exVars, poolVars, h2Vars, redisVars>>

Fs == INSTANCE FsService WITH
    Ops <- {o1, o2}, Targets <- Files, Boxed <- {}, QueueCapacity <- 1, Leases <- 1,
    LongJobs <- {o1, o2}, Threads <- {t1, t2}, LongMax <- 2, Loops <- 2
Wait(threaded) == INSTANCE ExternalWait WITH
    Waits <- {o1, o2}, Owners <- {w1, w2}, OwnerOf <- (o1 :> w1) @@ (o2 :> w2), WaitSlots <- 2, MaxTime <- 1,
    MaxGeneration <- 1, Threaded <- threaded
Exec == INSTANCE Executor WITH
    Slots <- {1}, Futures <- {o1}, MaxGeneration <- 2, Handles <- LoopHandles, TaskOf <- [f \in {o1} |-> Task]

Pools == INSTANCE PoolPolicies WITH
    MySql <- FALSE, MaxConnections <- 1, MinKept <- 0, MaxIdle <- 1, IdleTimeout <- 1, QueueLimit <- 0,
    MaxUses <- 0, MaxLifetime <- 0, WaitForConnections <- TRUE, Never <- 99,
    MinSize <- 0, MaxSize <- 1, MaxConnecting <- 2, WaitTimeout <- 0, IdleTime <- 0, MaxClears <- 0
SqlLeaseId(lease) == lease.connection
MongoLeaseId(lease) == lease
SqlEnding(p) == p.ending
MongoEnding(p) == p.closed
NoUpdates(p, time) == {}
SqlAsync == INSTANCE AsyncPool WITH
    now <- clock, Tokens <- 1 .. 2, Deadlines <- {1}, MaxTime <- 1,
    New <- Pools!SqlNew, Checkout <- Pools!SqlCheckout, CancelCheckout <- Pools!SqlCancel,
    Connected <- Pools!SqlConnected, ConnectFailed <- Pools!SqlConnectFailed, Checkin <- Pools!SqlCheckin,
    Closed <- Pools!SqlClosed, DeadlinesOf <- Pools!SqlDeadlines, Expire <- Pools!SqlExpire, End <- Pools!SqlEnd,
    Updates <- NoUpdates, Given <- Pools!SqlBusy, Ending <- SqlEnding, IdOf <- SqlLeaseId
MongoAsync == INSTANCE AsyncPool WITH
    now <- clock, Tokens <- 1 .. 2, Deadlines <- {1}, MaxTime <- 0,
    New <- Pools!Drive(Pools!MongoNew, 0), Checkout <- Pools!MongoCheckout, CancelCheckout <- Pools!MongoCancel,
    Connected <- Pools!MongoConnected, ConnectFailed <- Pools!MongoConnectFailed, Checkin <- Pools!MongoCheckin,
    Closed <- Pools!MongoClosed, DeadlinesOf <- Pools!MongoDeadlines, Expire <- Pools!MongoExpire,
    End <- Pools!MongoEnd, Updates <- Pools!MongoUpdates, Given <- Pools!MongoOut, Ending <- MongoEnding,
    IdOf <- MongoLeaseId

H2 == INSTANCE Http2 WITH
    conn <- ends, todo <- bodies, MaxStreams <- 2, StreamLimit <- 1, Window <- 1, FrameSize <- 1, Body <- 2,
    Windows <- {}, MaxSettings <- 0, Backlog <- 2, Resets <- {"server"}, Repeats <- {}, Impatient <- {}, Shutdowns <- {}, Trailers <- {}, Lossy <- FALSE

Command(op, names) == [op |-> op, names |-> names, pattern |-> FALSE]
Redis == INSTANCE RedisConnection WITH
    conn <- redis, Tokens <- 1 .. 2, Timed <- {1}, Setup <- {}, Tls <- FALSE, PreferResp3 <- TRUE, OfflineQueue <- TRUE,
    AutoResubscribe <- TRUE, AutoResend <- TRUE, MaxRetries <- 1, ServerResp3 <- TRUE, Refusals <- FALSE,
    MaxLosses <- 1, MaxMessages <- 1,
    Commands <- {Command("Get", <<>>), Command("Quit", <<>>), Command("Subscribe", <<"a">>),
                 Command("Unsubscribe", <<>>)}

Init ==
    /\ part \in Parts
    /\ Fs!LongInit /\ Fs!FsInit /\ Wait(part = "wait")!WaitInit /\ Exec!ExInit /\ H2!Http2Init /\ Redis!RedisInit
    /\ IF part = "mongo" THEN MongoAsync!PoolInit ELSE SqlAsync!PoolInit

\* The other components stay as they are.
Others ==
    /\ UNCHANGED part
    /\ IF part = "long" THEN TRUE ELSE UNCHANGED longVars
    /\ IF part = "fs" THEN TRUE ELSE UNCHANGED fsVars
    /\ IF part \in {"wait", "agent"} THEN TRUE ELSE UNCHANGED waitVars
    /\ IF part = "exec" THEN TRUE ELSE UNCHANGED exVars
    /\ IF part \in {"sql", "mongo"} THEN TRUE ELSE UNCHANGED poolVars
    /\ IF part = "h2" THEN TRUE ELSE UNCHANGED h2Vars
    /\ IF part = "redis" THEN TRUE ELSE UNCHANGED redisVars

Next ==
    \/ part = "long" /\ Fs!LongNext /\ Others
    \/ part = "fs" /\ Fs!FsNext /\ Others
    \/ part = "wait" /\ Wait(TRUE)!WaitNext /\ Others
    \/ part = "agent" /\ Wait(FALSE)!WaitNext /\ Others
    \/ part = "exec" /\ Exec!ExNext /\ Others
    \/ part = "sql" /\ SqlAsync!PoolNext /\ Others
    \/ part = "mongo" /\ MongoAsync!PoolNext /\ Others
    \/ part = "h2" /\ H2!Http2Next /\ Others
    \/ part = "redis" /\ Redis!RedisNext /\ Others

---------------------------------------------------------------------------
(* Fairness, of the part a behaviour exercises; the parts share conjuncts. *)

Job(i) == IF i = 1 THEN o1 ELSE o2
Side(i) == IF i <= 2 THEN "client" ELSE "server"
Stream(i) == IF i <= 2 THEN i ELSE i - 2

\* Threads and tasks go on: the threads of LongSet and their submitters, the
\* workers of the pool and Service::drop, the helper of external waits and the
\* loops of an agent, the host's turns and wakers on other threads, the task of
\* a pool, the two ends of a connection and the Redis server.
GoesOn(i) ==
    \/ /\ part = "long"
       /\ CASE i = 1 -> Fs!NotifyOne
            [] i \in 2 .. 3 -> Fs!ThreadStep(IF i = 2 THEN t1 ELSE t2)
            [] i \in 4 .. 5 -> Fs!SubmitterStep(Job(i - 3))
            [] i = 6 -> FALSE
    \/ /\ part = "fs"
       /\ CASE i = 1 -> Fs!SettleDrop \/ Fs!FinishDrop
            [] i \in 2 .. 3 -> Fs!DropRequest(Job(i - 1))
            [] i = 4 -> \E w \in Workers : Fs!WorkerStep(w)
            [] i = 5 -> Fs!Notify("this")
            [] i = 6 -> Fs!Notify("other")
    \/ part = "wait" /\ i = 1 /\ (Wait(TRUE)!Scan \/ Wait(TRUE)!Wake)
    \/ part = "agent" /\ i <= 2 /\ Wait(FALSE)!Poll(IF i = 1 THEN w1 ELSE w2)
    \/ /\ part = "exec"
       /\ CASE i = 1 -> \E done \in BOOLEAN : Exec!Returns(done)
            [] i = 2 -> Exec!Visit(Task)
            [] i = 3 -> Exec!BeginTurn \/ Exec!Block \/ Exec!Unblock \/ Exec!SecondPass \/ Exec!EndTurn
            [] i = 4 -> Exec!WakeNotify(Task)
            [] i > 4 -> FALSE
    \/ part = "sql" /\ i = 1 /\ SqlAsync!TaskStep
    \/ part = "mongo" /\ i = 1 /\ MongoAsync!TaskStep
    \/ /\ part = "h2"
       /\ IF i <= 4 THEN H2!ReleaseCapacity(Side(i), Stream(i))
          ELSE H2!Receive(IF i = 5 THEN "client" ELSE "server")
    \/ /\ part = "redis"
       /\ CASE i = 1 -> Redis!Receive
            [] i = 2 -> Redis!Serve(FALSE)
            [] i = 3 -> Redis!Connect \/ Redis!TransportConnected \/ Redis!TlsEstablished
            [] i = 4 -> \E again \in BOOLEAN : Redis!Retry(again)
            [] i = 5 -> redis.state = "WaitingRetry" /\ Redis!HandleTimeout({}, TRUE)
            [] i = 6 -> FALSE

WeaklyFair == \A i \in 1 .. 6 : WF_vars(GoesOn(i) /\ Others)

\* Others can disable these again and again, and yet they happen: the loop comes
\* round to waiting file requests, to leases and to answers; a pool's timer
\* fires, its connects and its closes end; a caller takes the connection left
\* for it and gives it back; a stream has its turn to send.
Recurs(i) ==
    \/ /\ part = "fs"
       /\ CASE i = 1 -> Fs!RetryWaiting [] i = 2 -> Fs!ReturnLease [] i = 3 -> Fs!Collect(o1)
            [] i = 4 -> Fs!Collect(o2) [] i = 5 -> FALSE
    \/ /\ part = "sql"
       /\ CASE i = 1 -> SqlAsync!TimerFires [] i = 2 -> SqlAsync!Connects [] i = 3 -> SqlAsync!Closes
            [] i > 3 -> SqlAsync!CallerGoesOn(i - 3)
    \/ /\ part = "mongo"
       /\ CASE i = 1 -> MongoAsync!TimerFires [] i = 2 -> MongoAsync!Connects [] i = 3 -> MongoAsync!Closes
            [] i > 3 -> MongoAsync!CallerGoesOn(i - 3)
    \/ part = "h2" /\ i <= 4 /\ H2!SendData(Side(i), Stream(i))

StronglyFair == \A i \in 1 .. 5 : SF_vars(Recurs(i) /\ Others)

Spec == Init /\ [][Next]_vars /\ WeaklyFair /\ StronglyFair

---------------------------------------------------------------------------
\* The i-th answer that the component owes.
Owed(i) ==
    CASE part = "long" -> i <= 2 /\ Fs!IsHanded(Job(i))
      [] part = "fs" -> i <= 2 /\ Fs!IsAccepted(Job(i))
      [] part = "wait" -> i <= 2 /\ Wait(TRUE)!IsOver(Job(i))
      [] part = "agent" -> i <= 2 /\ Wait(FALSE)!IsOver(Job(i))
      [] part = "exec" -> i = 1 /\ Exec!HasResult(o1)
      [] part = "sql" -> i <= 2 /\ SqlAsync!IsWaiting(i)
      [] part = "mongo" -> i <= 2 /\ MongoAsync!IsWaiting(i)
      [] part = "h2" -> H2!HasBody(Side(i), Stream(i))
      [] part = "redis" -> i <= 2 /\ Redis!IsAccepted(i)

\* What was accepted is answered, although workers, slots and credit are few
\* and others are cancelled, time out or fail: a job handed to a parked thread
\* of LongSet is run while other long jobs never end; a file request is
\* answered; an external wait that is due or notified ends, natively and in an
\* agent; a future with a result is polled; a caller of acquire() is answered
\* by the SQL pool and the MongoDB pool without the help of its deadline; a body
\* gets its credit and is sent; a Redis command has its reply.
AcceptedIsAnswered == \A i \in 1 .. 4 : Owed(i) ~> ~Owed(i)

\* Service::drop returns although workers are inside its requests, and end()
\* closes every connection of a pool and completes.
ShutdownReturns ==
    life \in {"dropping", "waiting"} \/ (part = "sql" /\ SqlAsync!IsEnding) \/ (part = "mongo" /\ MongoAsync!IsEnding)
        ~> life \notin {"dropping", "waiting"} /\ ~(part = "sql" /\ SqlAsync!IsEnding)
             /\ ~(part = "mongo" /\ MongoAsync!IsEnding)

\* The file service implements one request at a time per handle, in the order
\* of acceptance, whatever is cancelled, waits for a worker or is dropped.
ImplementsFileOrder == Fs!ImplementsFileOrder
=============================================================================
