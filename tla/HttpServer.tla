----------------------------- MODULE HttpServer -----------------------------
(***************************************************************************)
(* The HTTP accept loop and its graceful shutdown                          *)
(* (turnloop-http/src/asynchronous/server.rs): Shutdown with its waiter    *)
(* slots, until(), linger(), Server::run, and the http1() service around   *)
(* its requests.  Tasks are polled one at a time, in the order in which    *)
(* they were woken, up to where they wait.                                 *)
(***************************************************************************)
EXTENDS Naturals, Sequences, FiniteSets, SequencesExt

CONSTANTS
    Conns,          \* connections, accepted in any order
    LingerTimeout,
    Deadlines,      \* what stop_by() is called with; once with each at most
    MaxTime,
    Failing         \* connections on which a request may fail

Run == "run"
NoTask == "none"
Never == MaxTime + 10
Users == Conns \cup {Run}

VARIABLES
    conn,       \* per connection: its service, as the task that it is
    up,         \* what has arrived for each: bytes of a request, or the end
    down,       \* connections that wait to be accepted
    server,     \* [at, index, left] of run()
    told,       \* the time, the ready queue, and the stop calls
    truth       \* the Shutdown state: [stopped, deadline, waiters]

hsVars == <<conn, up, down, server, told, truth>>

Min2(a, b) == IF a < b THEN a ELSE b

---------------------------------------------------------------------------
(* Shutdown: an operator takes the waiters and gives them back.            *)

\* register(): the first slot without a waker, or a new one.
Index(waiters) ==
    IF \E i \in DOMAIN waiters : waiters[i] = NoTask
    THEN CHOOSE i \in DOMAIN waiters : waiters[i] = NoTask /\ \A j \in 1 .. i - 1 : waiters[j] # NoTask
    ELSE Len(waiters) + 1
Armed(waiters, t) ==
    LET i == Index(waiters) IN IF i > Len(waiters) THEN Append(waiters, t) ELSE [waiters EXCEPT ![i] = t]
Rearmed(waiters, i, t) == [waiters EXCEPT ![i] = t]
Released(waiters, i) == [waiters EXCEPT ![i] = NoTask]
\* register() and drop without a poll that arms it: until() after stop().
Touched(waiters) == IF Index(waiters) > Len(waiters) THEN Append(waiters, NoTask) ELSE waiters

Wake(ready, tasks) == ready \o SelectSeq(tasks, LAMBDA t : t # NoTask /\ \A i \in DOMAIN ready : ready[i] # t)

\* stop() and stop_by(): every waker is taken and woken.
Stopped(s, by) ==
    [stopped |-> TRUE, deadline |-> Min2(s.deadline, by), waiters |-> [i \in DOMAIN s.waiters |-> NoTask]]

---------------------------------------------------------------------------
Idle == [at |-> "none", index |-> 0, own |-> Never, timer |-> Never]

ServerInit ==
    /\ conn = [c \in Conns |-> Idle]
    /\ up = [c \in Conns |-> {}]
    /\ down = {}
    /\ server = [at |-> "accept", index |-> 1, tasks |-> <<>>]
    /\ told = [now |-> 0, ready |-> <<>>, stops |-> {}]
    /\ truth = [stopped |-> FALSE, deadline |-> Never, waiters |-> <<Run>>]

\* linger() up to its first wait, with the waiters as the task left them.
Linger(c, s) ==
    LET own == told.now + LingerTimeout
    IN /\ conn' = [conn EXCEPT ![c] = [at |-> "linger", index |-> Index(s.waiters), own |-> own, timer |-> Min2(own, s.deadline)]]
       /\ truth' = [s EXCEPT !.waiters = Armed(@, c)]

\* The loop of http1(): the wait for a request, which shutdown cancels.
Await(c, s) ==
    IF s.stopped THEN Linger(c, [s EXCEPT !.waiters = Touched(@)])
    ELSE /\ conn' = [conn EXCEPT ![c] = [Idle EXCEPT !.at = "idle", !.index = Index(s.waiters)]]
         /\ truth' = [s EXCEPT !.waiters = Armed(@, c)]

\* A task ends; run() may be waiting for it.
Over(c, result, s) ==
    /\ conn' = [conn EXCEPT ![c] = [Idle EXCEPT !.at = result]]
    /\ truth' = s

Polled == Head(told.ready)
Rest == Tail(told.ready)

PollSpawned(c) ==
    /\ Polled = c /\ conn[c].at = "spawned"
    /\ Await(c, truth)
    /\ told' = [told EXCEPT !.ready = IF conn'[c].at = "idle" /\ up[c] # {} THEN Append(Rest, c) ELSE Rest]
    /\ UNCHANGED <<up, down, server>>

\* until() returns, with the request's head or without; the registration drops.
PollIdle(c) ==
    LET s == [truth EXCEPT !.waiters = Released(@, conn[c].index)]
    IN /\ Polled = c /\ conn[c].at = "idle"
       /\ CASE truth.stopped -> Linger(c, s) /\ UNCHANGED up
            [] ~truth.stopped /\ "request" \in up[c] ->
                 /\ conn' = [conn EXCEPT ![c] = [Idle EXCEPT !.at = "busy"]] /\ truth' = s
                 /\ up' = [up EXCEPT ![c] = @ \ {"request"}]
            [] ~truth.stopped /\ up[c] = {"eof"} -> Over(c, "failed", s) /\ UNCHANGED up
            [] OTHER -> UNCHANGED <<conn, truth, up>>
       /\ told' = [told EXCEPT !.ready =
                      IF server.at = "join" /\ conn'[c].at = "failed" /\ server.tasks[1] = c THEN Wake(Rest, <<Run>>) ELSE Rest]
       /\ UNCHANGED <<down, server>>

\* The end of the request: the response is complete, and the service may have
\* called stop() or stop_by(), or it fails.
PollBusy(c, by, fails) ==
    LET calls == by # 0
        s == IF calls THEN Stopped(truth, by) ELSE truth
        woken == IF calls THEN Wake(Rest, truth.waiters) ELSE Rest
    IN /\ Polled = c /\ conn[c].at = "busy" /\ "end" \in up[c]
       /\ fails => c \in Failing
       /\ up' = [up EXCEPT ![c] = @ \ {"end"}]
       /\ IF fails THEN Over(c, "failed", s)
          ELSE IF s.stopped THEN Linger(c, s) ELSE Await(c, s)
       /\ told' = [told EXCEPT !.stops = IF calls THEN @ \cup {by} ELSE @,
                               !.ready = LET again == IF conn'[c].at = "idle" /\ up'[c] # {} THEN Append(woken, c) ELSE woken
                                         IN IF fails /\ server.at = "join" /\ server.tasks[1] = c THEN Wake(again, <<Run>>) ELSE again]
       /\ UNCHANGED <<down, server>>

\* A poll of the lingering close: it arms again and takes the deadline anew,
\* and ends at the peer's end or the deadline.
PollLinger(c) ==
    LET timer == Min2(conn[c].own, truth.deadline)
        over == "eof" \in up[c] \/ timer <= told.now
    IN /\ Polled = c /\ conn[c].at = "linger"
       /\ IF over THEN Over(c, "done", [truth EXCEPT !.waiters = Released(@, conn[c].index)])
          ELSE /\ truth' = [truth EXCEPT !.waiters = Rearmed(@, conn[c].index, c)]
               /\ conn' = [conn EXCEPT ![c].timer = timer]
       /\ told' = [told EXCEPT !.ready = IF over /\ server.at = "join" /\ server.tasks[1] = c THEN Wake(Rest, <<Run>>) ELSE Rest]
       /\ UNCHANGED <<up, down, server>>

\* A stale wake of a task that has ended, or whose request is not over.
PollStale(c) ==
    /\ Polled = c
    /\ conn[c].at \in {"done", "failed", "cancelled", "cut"} \/ (conn[c].at = "busy" /\ "end" \notin up[c])
    /\ told' = [told EXCEPT !.ready = Rest]
    /\ UNCHANGED <<conn, up, down, server, truth>>

\* Server::run with what until(accept) gives: the finished are reaped, a new
\* service is spawned; at shutdown the listener closes and the services are joined.
Ended(c) == conn[c].at \in {"done", "failed"}
RECURSIVE Reaped(_, _)
Reaped(tasks, i) ==                                      \* swap_remove()
    IF i > Len(tasks) THEN tasks
    ELSE IF Ended(tasks[i]) THEN Reaped(Front([tasks EXCEPT ![i] = Last(tasks)]), i) ELSE Reaped(tasks, i + 1)

\* for task in drain(..) { task.await?? }: the first that failed ends it and
\* drops, which cancels, those behind it.
RECURSIVE Joined(_)
Joined(tasks) ==
    IF tasks = <<>> THEN [at |-> "ok", tasks |-> <<>>]
    ELSE IF conn[Head(tasks)].at = "failed" THEN [at |-> "error", tasks |-> Tail(tasks)]
    ELSE IF conn[Head(tasks)].at = "done" THEN Joined(Tail(tasks))
    ELSE [at |-> "join", tasks |-> tasks]

Cancelled(tasks) ==
    [c \in Conns |-> IF ~Ended(c) /\ \E i \in DOMAIN tasks : tasks[i] = c 
        THEN [Idle EXCEPT !.at = IF conn[c].at = "busy" THEN "cut" ELSE "cancelled"] ELSE conn[c]]
Dropped(s, tasks) ==
    [s EXCEPT !.waiters = [i \in DOMAIN @ |->
        IF \E k \in DOMAIN tasks : ~Ended(tasks[k]) /\ conn[tasks[k]].index = i THEN NoTask ELSE @[i]]]

Join(s, tasks) ==
    LET j == Joined(tasks)
    IN IF j.at = "error"
       THEN /\ server' = [server EXCEPT !.at = "error", !.tasks = <<>>, !.index = 0]
            /\ conn' = Cancelled(j.tasks) /\ truth' = Dropped(s, j.tasks)
       ELSE /\ server' = [server EXCEPT !.at = j.at, !.tasks = j.tasks, !.index = 0]
            /\ truth' = s /\ UNCHANGED conn

PollRun ==
    /\ Polled = Run
    /\ LET s == [truth EXCEPT !.waiters = Released(@, server.index)]
       IN CASE server.at = "accept" /\ truth.stopped ->
                 Join(s, server.tasks) /\ told' = [told EXCEPT !.ready = Rest] /\ UNCHANGED down
            [] server.at = "accept" /\ ~truth.stopped /\ down # {} ->
                 \E c \in down :
                    /\ server' = [server EXCEPT !.tasks = Reaped(Append(@, c), 1), !.index = Index(s.waiters)]
                    /\ truth' = [s EXCEPT !.waiters = Armed(@, Run)]
                    /\ conn' = [conn EXCEPT ![c].at = "spawned"]
                    /\ down' = down \ {c}
                    /\ told' = [told EXCEPT !.ready = Append(Rest, c) \o (IF down' # {} THEN <<Run>> ELSE <<>>)]
            [] server.at = "join" ->
                 Join(truth, server.tasks) /\ told' = [told EXCEPT !.ready = Rest] /\ UNCHANGED down
            [] OTHER -> told' = [told EXCEPT !.ready = Rest] /\ UNCHANGED <<conn, down, server, truth>>
    /\ UNCHANGED up

---------------------------------------------------------------------------
(* The host and the peers (external).                                      *)

\* stop_by(deadline), or stop() with Never, by another task of the host.
HostStops(by) ==
    /\ by \notin told.stops /\ by >= told.now
    /\ truth' = Stopped(truth, by)
    /\ told' = [told EXCEPT !.stops = @ \cup {by}, !.ready = Wake(@, truth.waiters)]
    /\ UNCHANGED <<conn, up, down, server>>

Connects(c) ==
    /\ conn[c].at = "none" /\ c \notin down /\ server.at = "accept" /\ ~truth.stopped
    /\ down' = down \cup {c}
    /\ told' = [told EXCEPT !.ready = Wake(@, <<Run>>)]
    /\ UNCHANGED <<conn, up, server, truth>>

Live(c) == conn[c].at \in {"spawned", "idle", "busy", "linger"}
Arrives(c, what) ==
    /\ Live(c) /\ what \notin up[c] /\ "eof" \notin up[c]
    /\ CASE what = "request" -> conn[c].at \in {"spawned", "idle"}
         [] what = "end" -> conn[c].at = "busy"
         [] what = "eof" -> conn[c].at \in {"idle", "linger"}
    /\ up' = [up EXCEPT ![c] = @ \cup {what}]
    /\ told' = [told EXCEPT !.ready = Wake(@, <<c>>)]
    /\ UNCHANGED <<conn, down, server, truth>>

\* Time passes while nothing is ready and no timer is due.
Tick ==
    /\ told.ready = <<>> /\ told.now < MaxTime
    /\ \A c \in Conns : conn[c].at = "linger" => conn[c].timer > told.now
    /\ told' = [told EXCEPT !.now = @ + 1]
    /\ UNCHANGED <<conn, up, down, server, truth>>

TimerFires(c) ==
    /\ conn[c].at = "linger" /\ conn[c].timer <= told.now
    /\ \A i \in DOMAIN told.ready : told.ready[i] # c
    /\ told' = [told EXCEPT !.ready = Append(@, c)]
    /\ UNCHANGED <<conn, up, down, server, truth>>

ServerNext ==
    \/ told.ready # <<>> /\
        \/ \E c \in Conns : PollSpawned(c) \/ PollIdle(c) \/ PollLinger(c) \/ PollStale(c)
        \/ \E c \in Conns, by \in (Deadlines \ told.stops) \cup {0}, fails \in BOOLEAN : PollBusy(c, by, fails)
        \/ PollRun
    \/ \E by \in Deadlines : HostStops(by)
    \/ \E c \in Conns : Connects(c) \/ TimerFires(c) \/ \E w \in {"request", "end", "eof"} : Arrives(c, w)
    \/ Tick

---------------------------------------------------------------------------
\* Nobody who waits for a stop misses it: until then, the waker of run() and of
\* every idle connection is in the slot that it registered.
StopIsHeard ==
    ~truth.stopped =>
        /\ server.at = "accept" => truth.waiters[server.index] = Run
        /\ \A c \in Conns : conn[c].at = "idle" => truth.waiters[conn[c].index] = c
StoppedIsWoken ==
    truth.stopped => \A c \in Conns : conn[c].at = "idle" => c \in Range(told.ready)

\* run() returns Ok only when every service has ended.
JoinsAll == server.at = "ok" => \A c \in Conns : ~Live(c)

\* "In-flight requests still finish" (stop_by): one is cut off only where run()
\* returns the error of another service, which drops those it has not joined yet.
InFlightFinishes ==
    \A c \in Conns : conn[c].at = "cut" => server.at = "error" /\ \E d \in Conns \ {c} : conn[d].at = "failed"
=============================================================================
