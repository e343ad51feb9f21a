----------------------------- MODULE AsyncPool ------------------------------
(***************************************************************************)
(* The scheduler that runs a pool policy on the executor:                  *)
(* crates/turnloop-io/src/pool.rs.  A task of its own (drive) calls the    *)
(* policy, carries out its events and polls the futures that connect and   *)
(* close sockets; callers wait in acquire(), hold a Lease, and drop either *)
(* whenever they like.  The task holds the state borrowed while it runs,   *)
(* so no caller steps while driving is not "idle".                         *)
(*                                                                         *)
(* The policy is a value, and its methods are the constant operators below *)
(* (PoolPolicies gives them).  entries is a function from the ids          *)
(* of the entries: the order in which one pass polls them is left open.    *)
(***************************************************************************)
EXTENDS Naturals, Sequences, SequencesExt, FiniteSets

CONSTANTS
  Tokens,        \* the acquire() calls made, by the token each is given
  Deadlines,     \* the deadlines a caller may give
  MaxTime,
  NoPool,        \* what a token's result is before there is one
  New, Checkout(_, _, _, _), CancelCheckout(_, _, _), Connected(_, _, _),
  ConnectFailed(_, _, _), Checkin(_, _, _, _), Closed(_, _, _), DeadlinesOf(_),
  Expire(_, _), End(_), Updates(_, _), Given(_), Ending(_), IdOf(_)

VARIABLES
  policy,
  entries,   \* id -> [connecting, client, handle, closing]
  waiters,   \* token -> NoPool or the result the task has left for it
  callers,   \* token -> where its acquire() stands, and the lease it holds
  driving, unpolled, progressed,   \* the task: where drive() is
  woken,     \* the task's waker has been called
  timer,     \* the sleep the task last polled, if any
  failure, ended, now

poolVars == <<policy, entries, waiters, callers, driving, unpolled, progressed,
              woken, timer, failure, ended, now>>

taskVars == <<driving, unpolled, progressed>>

NewEntry == [connecting |-> "new", client |-> FALSE, handle |-> FALSE, closing |-> "no"]

Left(how) == [at |-> how, lease |-> NoPool, deadline |-> 0]

Holds(lease) == [at |-> "holding", lease |-> lease, deadline |-> 0]

PoolInit ==
  /\ policy = New
  /\ entries = << >>
  /\ waiters = << >>
  /\ callers = [t \in Tokens |-> Left("away")]
  /\ driving = "idle" /\ unpolled = {} /\ progressed = FALSE
  /\ woken = TRUE
  /\ timer = {}
  /\ failure = "none" /\ ended = FALSE
  /\ now = 0

Without(f, x) == [y \in DOMAIN f \ {x} |-> f[y]]

With(f, x, v) == [y \in DOMAIN f \cup {x} |-> IF y = x THEN v ELSE f[y]]

Idle == driving = "idle"

\* The task has returned Ready: it is polled no more.
Over == failure # "none" \/ (ended /\ entries = << >>)

(* ------------------------------- callers ------------------------------- *)

\* acquire() up to its first await: it takes the next token, and its checkout is
\* refused or waits.
Acquire(t) ==
  /\ Idle /\ callers[t].at = "away"
  /\ \A u \in Tokens : u < t => callers[u].at # "away"
  /\ \E at \in Deadlines :
       LET r == Checkout(policy, t, now, at)
       IN  IF failure # "none" \/ ~r.ok
           THEN /\ callers' = [callers EXCEPT ![t].at = "refused"]
                /\ UNCHANGED <<policy, waiters, woken>>
           ELSE /\ policy' = r.pool
                /\ waiters' = With(waiters, t, NoPool)
                /\ callers' = [callers EXCEPT ![t].at = "waiting", ![t].deadline = at]
                /\ woken' = TRUE
  /\ UNCHANGED <<entries, taskVars, timer, failure, ended, now>>

\* acquire() is polled with a result: the client moves from its entry into the
\* Lease.  A result whose connection is gone or taken is an error to the caller.
Take(t) ==
  /\ Idle /\ callers[t].at = "waiting" /\ failure = "none"
  /\ waiters[t] # NoPool
  /\ waiters' = Without(waiters, t)
  /\ LET id == IdOf(waiters[t].lease)
     IN  IF ~waiters[t].ok
         THEN /\ callers' = [callers EXCEPT ![t] = Left("failed")]
              /\ woken' = TRUE
              /\ UNCHANGED entries
         ELSE IF id \in DOMAIN entries /\ entries[id].client
         THEN /\ entries' = [entries EXCEPT ![id].client = FALSE]
              /\ callers' = [callers EXCEPT ![t] = Holds(waiters[t].lease)]
              /\ UNCHANGED woken
         ELSE /\ callers' = [callers EXCEPT ![t] = Left("lost")]
              /\ woken' = TRUE
              /\ UNCHANGED entries
  /\ UNCHANGED <<policy, taskVars, timer, failure, ended, now>>

\* The bug of a Pending that forgets a result it was already given.
AbandonForgets(t) ==
  /\ Idle /\ callers[t].at = "waiting"
  /\ callers' = [callers EXCEPT ![t] = Left("gone")]
  /\ waiters' = Without(waiters, t)
  /\ policy' = CancelCheckout(policy, t, now)
  /\ woken' = TRUE
  /\ UNCHANGED <<entries, taskVars, timer, failure, ended, now>>

\* The acquire() future is dropped: by its caller, by its deadline, or because
\* the pool has failed.  Pending::drop gives back a lease nobody looked at.
Abandon(t) ==
  /\ Idle /\ callers[t].at = "waiting"
  /\ callers' = [callers EXCEPT ![t] = Left("gone")]
  /\ waiters' = Without(waiters, t)
  /\ policy' = IF waiters[t] # NoPool /\ waiters[t].ok
               THEN Checkin(policy, waiters[t].lease, now, TRUE).pool
               ELSE CancelCheckout(policy, t, now)
  /\ woken' = TRUE
  /\ UNCHANGED <<entries, taskVars, timer, failure, ended, now>>

\* The caller's deadline, which timeout_at enforces around the same future.
Deadline(t) == callers[t].deadline <= now /\ Abandon(t)

\* Lease::drop.  The client goes back only while the pool knows its entry.
Release(t, reusable) ==
  /\ Idle /\ callers[t].at = "holding"
  /\ callers' = [callers EXCEPT ![t] = Left("done")]
  /\ LET lease == callers[t].lease
         id == IdOf(lease)
     IN  IF id \in DOMAIN entries
         THEN /\ entries' = [entries EXCEPT ![id].client = TRUE]
              /\ policy' = Checkin(policy, lease, now, ~reusable).pool
         ELSE UNCHANGED <<entries, policy>>
  /\ woken' = TRUE
  /\ UNCHANGED <<waiters, taskVars, timer, failure, ended, now>>

\* end(), up to its await.
EndPool ==
  /\ Idle /\ End(policy).ok
  /\ policy' = End(policy).pool
  /\ woken' = TRUE
  /\ UNCHANGED <<entries, waiters, callers, taskVars, timer, failure, ended, now>>

\* update_policy(): the topology of a MongoDB deployment clears or readies it.
UpdatePolicy ==
  /\ Idle
  /\ policy' \in Updates(policy, now)
  /\ woken' = TRUE
  /\ UNCHANGED <<entries, waiters, callers, taskVars, timer, failure, ended, now>>

CallerStep(t) ==
  \/ Acquire(t) \/ Take(t) \/ Abandon(t)
  \/ \E reusable \in BOOLEAN : Release(t, reusable)

(* ------------------- the futures and the clock of the task ------------------- *)

\* A connection attempt the task has polled finishes, and wakes the task.
ConnectEnds(id, outcome) ==
  /\ Idle /\ id \in DOMAIN entries /\ entries[id].connecting = "polled"
  /\ entries' = [entries EXCEPT ![id].connecting = outcome]
  /\ woken' = TRUE
  /\ UNCHANGED <<policy, waiters, callers, taskVars, timer, failure, ended, now>>

\* The driver has closed the socket.
CloseEnds(id) ==
  /\ Idle /\ id \in DOMAIN entries /\ entries[id].closing = "polled"
  /\ entries' = [entries EXCEPT ![id].closing = "done"]
  /\ woken' = TRUE
  /\ UNCHANGED <<policy, waiters, callers, taskVars, timer, failure, ended, now>>

\* The executor has no slot for the future that closes a socket, or for the sleep
\* that drive() polls last: drive() returns the error and the task ends.
Exhausted ==
  /\ \/ driving = "pollClosing" /\ \E id \in unpolled : entries[id].closing = "new"
     \/ driving \in {"poll", "pollClosing"} /\ unpolled = {} /\ ~progressed /\ DeadlinesOf(policy) # {}
  /\ failure' = "executor" /\ driving' = "idle" /\ entries' = << >>
  /\ UNCHANGED <<policy, waiters, callers, unpolled, progressed, woken, timer, ended, now>>

Tick ==
  /\ Idle /\ now < MaxTime
  /\ now' = now + 1
  /\ UNCHANGED <<policy, entries, waiters, callers, taskVars, woken, timer, failure, ended>>

TimerFires ==
  /\ Idle /\ \E at \in timer : at <= now
  /\ timer' = {}
  /\ woken' = TRUE
  /\ UNCHANGED <<policy, entries, waiters, callers, taskVars, failure, ended, now>>

(* ------------------------------- the task ------------------------------- *)

\* The task is polled: drive() begins by expiring what is over.
DriveBegins ==
  /\ Idle /\ woken /\ ~Over
  /\ woken' = FALSE
  /\ policy' = Expire(policy, now)
  /\ driving' = "events"
  /\ UNCHANGED <<entries, waiters, callers, unpolled, progressed, timer, failure, ended, now>>

\* A call of the policy that may refuse, made with `?`: its error ends the task,
\* and drops every entry.
Report(answer, keep) ==
  IF answer.ok
  THEN /\ policy' = answer.pool /\ entries' = keep
       /\ UNCHANGED <<failure, driving>>
  ELSE /\ failure' = "policy" /\ driving' = "idle" /\ entries' = << >>
       /\ UNCHANGED policy

PopEvent == [policy EXCEPT !.events = Tail(@)]

OnConnect(e) ==
  /\ e.kind = "Connect"
  /\ policy' = PopEvent
  /\ entries' = With(entries, e.id, NewEntry)
  /\ UNCHANGED <<waiters, driving, failure, ended>>

OnClose(e) ==
  /\ e.kind = "Close"
  /\ IF e.id \in DOMAIN entries /\ entries[e.id].handle
     THEN /\ policy' = PopEvent
          /\ entries' = [entries EXCEPT ![e.id].closing = "new",
                                        ![e.id].client = FALSE,
                                        ![e.id].connecting = "no"]
          /\ UNCHANGED <<driving, failure>>
     ELSE Report(Closed(PopEvent, e.id, now), Without(entries, e.id))
  /\ UNCHANGED <<waiters, ended>>

OnRemove(e) ==
  /\ e.kind = "Remove"
  /\ policy' = PopEvent
  /\ entries' = Without(entries, e.id)
  /\ UNCHANGED <<waiters, driving, failure, ended>>

\* A lease for a caller that has left goes straight back, to be destroyed.
OnAcquired(e) ==
  /\ e.kind = "Acquired"
  /\ IF e.token \in DOMAIN waiters
     THEN /\ policy' = PopEvent
          /\ waiters' = [waiters EXCEPT ![e.token] = [ok |-> TRUE, lease |-> e.lease]]
          /\ UNCHANGED <<entries, driving, failure>>
     ELSE /\ Report(Checkin(PopEvent, e.lease, now, TRUE), entries)
          /\ UNCHANGED waiters
  /\ UNCHANGED ended

OnFailed(e) ==
  /\ e.kind = "Failed"
  /\ policy' = PopEvent
  /\ waiters' = IF e.token \in DOMAIN waiters
                THEN [waiters EXCEPT ![e.token] = [ok |-> FALSE]] ELSE waiters
  /\ UNCHANGED <<entries, driving, failure, ended>>

OnEnded(e) ==
  /\ e.kind = "Ended"
  /\ policy' = PopEvent
  /\ ended' = TRUE
  /\ UNCHANGED <<entries, waiters, driving, failure>>

Event ==
  /\ driving = "events" /\ policy.events # <<>>
  /\ LET e == Head(policy.events)
     IN  \/ OnConnect(e) \/ OnClose(e) \/ OnRemove(e)
         \/ OnAcquired(e) \/ OnFailed(e) \/ OnEnded(e)
  /\ UNCHANGED <<callers, unpolled, progressed, woken, timer, now>>

\* The queue is empty: one pass over the entries begins.  It leaves the
\* connection attempts alone when any entry is closing.
PassBegins ==
  /\ driving = "events" /\ policy.events = <<>>
  /\ driving' = IF \E id \in DOMAIN entries : entries[id].closing # "no"
                THEN "pollClosing" ELSE "poll"
  /\ unpolled' = DOMAIN entries
  /\ progressed' = FALSE
  /\ UNCHANGED <<policy, entries, waiters, callers, woken, timer, failure, ended, now>>

PollEntry(id) ==
  /\ driving \in {"poll", "pollClosing"} /\ id \in unpolled
  /\ unpolled' = unpolled \ {id}
  /\ LET e == entries[id]
         drop == Without(entries, id)
         open == [entries EXCEPT ![id].connecting = "no", ![id].client = TRUE,
                                 ![id].handle = TRUE]
         shut == [entries EXCEPT ![id].connecting = "no"]
     IN  \/ /\ e.closing = "done"
            /\ progressed' = TRUE
            /\ Report(Closed(policy, id, now), drop)
         \/ /\ e.closing = "new"
            /\ entries' = [entries EXCEPT ![id].closing = "polled"]
            /\ UNCHANGED <<policy, driving, failure, progressed>>
         \/ /\ driving = "poll" /\ e.connecting = "up"
            /\ progressed' = TRUE
            /\ Report(Connected(policy, id, now), open)
         \/ /\ driving = "poll" /\ e.connecting = "down"
            /\ progressed' = TRUE
            /\ Report(ConnectFailed(policy, id, now), shut)
         \/ /\ driving = "poll" /\ e.connecting = "new"
            /\ entries' = [entries EXCEPT ![id].connecting = "polled"]
            /\ UNCHANGED <<policy, driving, failure, progressed>>
         \/ /\ e.closing \in {"no", "polled"}
            /\ driving = "poll" => e.connecting \in {"no", "polled"}
            /\ UNCHANGED <<policy, entries, driving, failure, progressed>>
  /\ UNCHANGED <<waiters, callers, woken, timer, ended, now>>

\* The pass is over.  When something moved the loop starts again; else drive()
\* sets its sleep to the policy's next deadline and returns.
PassEnds ==
  /\ driving \in {"poll", "pollClosing"} /\ unpolled = {}
  /\ IF progressed
     THEN /\ driving' = "events"
          /\ UNCHANGED <<timer, woken>>
     ELSE LET next == {at \in DeadlinesOf(policy) :
                         \A other \in DeadlinesOf(policy) : at <= other}
          IN  /\ driving' = "idle"
              /\ timer' = {at \in next : at > now}
              /\ woken' = (woken \/ \E at \in next : at <= now)
  /\ UNCHANGED <<policy, entries, waiters, callers, unpolled, progressed,
                 failure, ended, now>>

CallerGoesOn(t) == Take(t) \/ \E reusable \in BOOLEAN : Release(t, reusable)

TaskStep ==
  \/ DriveBegins \/ Event \/ PassBegins \/ PassEnds
  \/ \E id \in unpolled : PollEntry(id)

Connects == \E id \in DOMAIN entries, how \in {"up", "down"} : ConnectEnds(id, how)
Closes == \E id \in DOMAIN entries : CloseEnds(id)

PoolNext ==
  \/ \E t \in Tokens : CallerStep(t) \/ Deadline(t)
  \/ EndPool \/ UpdatePolicy
  \/ Connects \/ Closes
  \/ Exhausted \/ Tick \/ TimerFires
  \/ TaskStep

PoolSpec == PoolInit /\ [][PoolNext]_poolVars

(* ----------------------------- properties ----------------------------- *)

Holding == {t \in Tokens : callers[t].at = "holding"}

\* The leases on their way to a caller: still queued, or left for it.
OnTheWay ==
  {policy.events[i].lease : i \in {j \in 1..Len(policy.events) :
                                     policy.events[j].kind = "Acquired"}}
    \cup {waiters[t].lease : t \in {u \in DOMAIN waiters :
                                      waiters[u] # NoPool /\ waiters[u].ok}}

\* The policy and the scheduler agree about every connection: whatever the
\* policy has given out is on its way to a caller or in one's hands, so no
\* connection is lost to the pool (Pending::drop, the arm of Acquired without a
\* waiter).  No two callers hold one connection, no caller is told that its
\* connection is missing or leased already, and the client of a connection that
\* is in nobody's hands is in its entry.
LeasesAreAccounted ==
  failure = "none" =>
    /\ \A lease \in Given(policy) :
         lease \in OnTheWay \/ \E t \in Holding : callers[t].lease = lease
    /\ \A t, u \in Holding :
         t # u => IdOf(callers[t].lease) # IdOf(callers[u].lease)
    /\ \A t \in Tokens : callers[t].at # "lost"
    /\ \A lease \in OnTheWay :
         lease \in Given(policy) => /\ IdOf(lease) \in DOMAIN entries
                                    /\ entries[IdOf(lease)].client

\* The policy refuses nothing the scheduler reports to it, so the `?` behind
\* each report never ends the task and with it the pool.
ReportsAreAccepted == failure # "policy"

\* A caller is waiting in acquire(), and the pool has neither failed nor ended.
IsWaiting(t) == callers[t].at = "waiting" /\ ~Over

\* end() was called and has not completed.
IsEnding == Ending(policy) /\ failure = "none" /\ ~(ended /\ entries = << >>)
=============================================================================
