---------------------------- MODULE PoolPolicies ----------------------------
(***************************************************************************)
(* The two connection-pool policies: SQL here, MongoDB in the second half. *)
(*                                                                         *)
(* The connection-pool policy the PostgreSQL and the MySQL client share:   *)
(* protocols/turnloop-postgres/src/pool.rs, and the same file under        *)
(* turnloop-mysql with the constant MYSQL turned over.  The policy does no *)
(* I/O: it is a value that a scheduler passes the calls and the outcomes   *)
(* to, and whose event queue tells the scheduler what to do.  So every     *)
(* operation here is an operator from one policy value to the next; the    *)
(* answer of a call that can refuse is [ok, pool].                         *)
(*                                                                         *)
(* An option the configuration may leave out is 0 when it is left out: the *)
(* code treats a zero timeout, a zero lifetime and a zero queue limit as   *)
(* absent, and rejects a zero max_uses.  The events Connected and Released *)
(* are not queued here, since Policy::event skips them unread.             *)
(***************************************************************************)
EXTENDS Naturals, Sequences, SequencesExt, FiniteSets, FiniteSetsExt

CONSTANTS MaxConnections, MinKept, MaxIdle, IdleTimeout, QueueLimit, MaxUses, MaxLifetime,
          WaitForConnections, MySql,
          Never   \* the deadline of a checkout without one; later than any time

\* A slot of the given generation that holds no request and no connection in use.
Bare(generation, state) ==
  [generation |-> generation, state |-> state, token |-> 0, deadline |-> Never,
   since |-> 0, born |-> 0, uses |-> 0]

SqlNew ==
  [slots |-> [i \in 1..MaxConnections |-> Bare(0, "Empty")], idle |-> <<>>, waiting |-> <<>>,
   events |-> <<>>, ending |-> FALSE, ended |-> FALSE]

Id(p, i) == [slot |-> i, generation |-> p.slots[i].generation]

Emit(p, event) == [p EXCEPT !.events = Append(@, event)]

Failed(token) == [kind |-> "Failed", token |-> token]

Acquired(id, token) ==
  [kind |-> "Acquired", token |-> token,
   lease |-> [connection |-> id, token |-> token]]

Refuse(p) == [ok |-> FALSE, pool |-> p]

Accept(p) == [ok |-> TRUE, pool |-> p]

TotalCount(p) == Cardinality({i \in 1..MaxConnections : p.slots[i].state # "Empty"})

LiveCount(p) ==
  Cardinality({i \in 1..MaxConnections : p.slots[i].state \notin {"Empty", "Closing"}})

\* slot(): the id names a connection the pool still counts.
Current(p, id) ==
  /\ p.slots[id.slot].generation = id.generation
  /\ p.slots[id.slot].state # "Empty"

CloseSlot(p, id) ==
  Emit([p EXCEPT !.idle = SelectSeq(@, LAMBDA v : v # id),
                 !.slots[id.slot] = Bare(id.generation, "Closing")],
       [kind |-> "Close", id |-> id])

\* One turn of the loop of schedule(): the oldest request times out, takes the
\* connection idle for the shortest time, or starts a connection of its own.
ScheduleHead(p, now) ==
  LET r == Head(p.waiting)
      q == [p EXCEPT !.waiting = Tail(@)]
  IN  IF p.waiting = <<>> THEN p
      ELSE IF r.deadline <= now THEN Emit(q, Failed(r.token))
      ELSE IF p.idle # <<>>
      THEN LET id == Last(p.idle)
           IN  Emit([q EXCEPT !.idle = Front(@),
                              !.slots[id.slot].state = "Busy",
                              !.slots[id.slot].token = r.token,
                              !.slots[id.slot].uses = @ + 1],
                    Acquired(id, r.token))
      ELSE IF TotalCount(p) >= MaxConnections THEN p
      ELSE LET i == Min({j \in 1..MaxConnections : p.slots[j].state = "Empty"})
               s == [q EXCEPT !.slots[i] =
                       [generation |-> @.generation + 1, state |-> "Connecting",
                        token |-> r.token, deadline |-> r.deadline,
                        since |-> 0, born |-> now, uses |-> 0]]
           IN  Emit(s, [kind |-> "Connect", id |-> Id(s, i)])

Schedule(p, now) ==
  IF p.ending THEN p
  ELSE FoldLeft(LAMBDA q, r : ScheduleHead(q, now), p, p.waiting)

MaybeEnded(p) ==
  IF p.ending /\ ~p.ended /\ TotalCount(p) = 0
  THEN Emit([p EXCEPT !.ended = TRUE], [kind |-> "Ended"])
  ELSE p

SqlCheckout(p, token, now, at) ==
  LET full == p.idle = <<>> /\ TotalCount(p) >= MaxConnections
      used == (\E i \in 1..Len(p.waiting) : p.waiting[i].token = token)
              \/ (\E i \in 1..MaxConnections : /\ p.slots[i].state \in {"Connecting", "Busy"}
                                    /\ p.slots[i].token = token)
      over == QueueLimit # 0 /\ Len(p.waiting) >= QueueLimit
  IN  IF p.ending \/ used \/ (full /\ (~WaitForConnections \/ over))
      THEN Refuse(p)
      ELSE Accept(Schedule([p EXCEPT !.waiting =
                              Append(@, [token |-> token, deadline |-> at])], now))

SqlCancel(p, token, now) ==
  LET q == [p EXCEPT !.waiting = SelectSeq(@, LAMBDA r : r.token # token)]
      mine == {i \in 1..MaxConnections : /\ p.slots[i].state = "Connecting"
                              /\ p.slots[i].token = token}
  IN  Schedule(FoldLeft(LAMBDA s, i : CloseSlot(s, Id(s, i)), q,
                        SetToSortSeq(mine, <)), now)

SqlConnected(p, id, now) ==
  LET s == p.slots[id.slot]
  IN  CASE Current(p, id) /\ s.state = "Closing" -> Accept(p)
        [] Current(p, id) /\ s.state = "Connecting" ->
             IF s.deadline <= now
             THEN Accept(CloseSlot(Emit(p, Failed(s.token)), id))
             ELSE Accept(Emit([p EXCEPT !.slots[id.slot] =
                                 [@ EXCEPT !.state = "Busy", !.deadline = Never,
                                           !.born = now, !.uses = 1]],
                              Acquired(id, s.token)))
        [] OTHER -> Refuse(p)

SqlConnectFailed(p, id, now) ==
  LET s == p.slots[id.slot]
      q == [p EXCEPT !.slots[id.slot] = Bare(id.generation, "Empty")]
      r == IF s.state = "Connecting" THEN Emit(q, Failed(s.token)) ELSE q
  IN  IF Current(p, id) /\ s.state \in {"Connecting", "Closing"}
      THEN Accept(MaybeEnded(Schedule(Emit(r, [kind |-> "Remove", id |-> id]), now)))
      ELSE Refuse(p)

\* A lifetime, an idle time: over once d has passed, never when d is left out.
Over(d, from, now) == d # 0 /\ now >= from + d

SqlCheckin(p, lease, now, destroy) ==
  LET id == lease.connection
      s == p.slots[id.slot]
      retire == \/ destroy \/ p.ending
                \/ MaxUses # 0 /\ s.uses >= MaxUses
                \/ Over(MaxLifetime, s.born, now)
                \/ p.waiting = <<>> /\ Len(p.idle) >= MaxIdle
      kept == [p EXCEPT !.slots[id.slot] = [@ EXCEPT !.state = "Idle", !.token = 0,
                                                     !.since = now],
                        !.idle = Append(@, id)]
  IN  IF Current(p, id) /\ s.state = "Busy" /\ s.token = lease.token
      THEN Accept(Schedule(IF retire THEN CloseSlot(p, id) ELSE kept, now))
      ELSE Refuse(p)

\* The bug of a closed() that neither schedules nor looks for the end.
SqlClosedOnly(p, id, now) ==
  IF Current(p, id) /\ p.slots[id.slot].state = "Closing"
  THEN Accept(Emit([p EXCEPT !.slots[id.slot] = Bare(id.generation, "Empty")],
                   [kind |-> "Remove", id |-> id]))
  ELSE Refuse(p)

SqlClosed(p, id, now) ==
  IF Current(p, id) /\ p.slots[id.slot].state = "Closing"
  THEN Accept(MaybeEnded(Schedule(Emit([p EXCEPT !.slots[id.slot] = Bare(id.generation, "Empty")],
                                       [kind |-> "Remove", id |-> id]), now)))
  ELSE Refuse(p)

\* next_timeout: when the policy wants to be called again.
SqlDeadlines(p) ==
  {p.waiting[i].deadline : i \in 1..Len(p.waiting)}
    \cup {p.slots[i].deadline : i \in {j \in 1..MaxConnections : p.slots[j].state = "Connecting"}}
    \cup {p.slots[i].since + IdleTimeout :
            i \in {j \in 1..MaxConnections : /\ p.slots[j].state = "Idle" /\ IdleTimeout # 0
                                  /\ LiveCount(p) > MinKept}}
    \cup {p.slots[i].born + MaxLifetime :
            i \in {j \in 1..MaxConnections : p.slots[j].state = "Idle" /\ MaxLifetime # 0}}

\* What handle_timeout and end do to slot i, in the order of the slots: each
\* later slot sees the count the earlier ones leave.
ExpireSlot(p, i, now) ==
  LET s == p.slots[i]
  IN  CASE s.state = "Connecting" /\ s.deadline <= now ->
             CloseSlot(Emit(p, Failed(s.token)), Id(p, i))
        [] s.state = "Idle" /\ (\/ LiveCount(p) > MinKept /\ Over(IdleTimeout, s.since, now)
                                \/ Over(MaxLifetime, s.born, now)) ->
             CloseSlot(p, Id(p, i))
        [] OTHER -> p

SqlExpire(p, now) ==
  LET late == SelectSeq(p.waiting, LAMBDA r : r.deadline <= now)
      q == [p EXCEPT !.waiting = SelectSeq(@, LAMBDA r : r.deadline > now),
                     !.events = @ \o [i \in 1..Len(late) |-> Failed(late[i].token)]]
  IN  Schedule(FoldLeft(LAMBDA s, i : ExpireSlot(s, i, now), q,
                        [i \in 1..MaxConnections |-> i]), now)

EndSlot(p, i) ==
  LET s == p.slots[i]
  IN  CASE s.state = "Connecting" -> CloseSlot(Emit(p, Failed(s.token)), Id(p, i))
        [] s.state = "Idle" \/ (s.state = "Busy" /\ MySql) -> CloseSlot(p, Id(p, i))
        [] OTHER -> p

SqlEnd(p) ==
  LET q == [p EXCEPT !.ending = TRUE, !.waiting = <<>>,
                     !.events = @ \o [i \in 1..Len(p.waiting) |->
                                        Failed(p.waiting[i].token)]]
  IN  IF p.ending THEN Refuse(p)
      ELSE Accept(MaybeEnded(FoldLeft(EndSlot, q, [i \in 1..MaxConnections |-> i])))

\* The leases of the connections the policy has given out.
SqlBusy(p) ==
  {[connection |-> Id(p, i), token |-> p.slots[i].token] :
     i \in {j \in 1..MaxConnections : p.slots[j].state = "Busy"}}

---------------------------------------------------------------------------
(***************************************************************************)
(* The MongoDB connection-pool policy,                                     *)
(* protocols/turnloop-mongodb/src/pool.rs, as its implementation of Policy *)
(* (async_pool.rs) exposes it: a value without I/O, like the one above.    *)
(* Connections belong to a generation, which clear() ends: those not       *)
(* checked out are closed at once, the others when they come back.  A      *)
(* connection leaves the policy as soon as it is told to close, so closed  *)
(* reports nothing.  A size or a time that is 0 is absent; the Cleared     *)
(* event is not queued, since Policy::event skips it unread.               *)
(***************************************************************************)
CONSTANTS MinSize, MaxSize, MaxConnecting, WaitTimeout, IdleTime,
          MaxClears   \* bound on the generations checked

MongoNew ==
  [entries |-> <<>>, waiting |-> <<>>, events |-> <<>>, generation |-> 0,
   nextId |-> 0, ready |-> TRUE, closed |-> FALSE]

Put(p, event) == [p EXCEPT !.events = Append(@, event)]

Fails(token) == [kind |-> "Failed", token |-> token]

Yes(p) == [ok |-> TRUE, pool |-> p]

No(p) == [ok |-> FALSE, pool |-> p]

\* Vec::swap_remove: the last entry takes the place of the one removed.
SwapRemove(s, i) ==
  IF i = Len(s) THEN Front(s) ELSE Front([s EXCEPT ![i] = Last(s)])

\* The place of the connection of this lease with this status, if it has one.
Places(p, lease, status) ==
  {i \in 1..Len(p.entries) : /\ p.entries[i].lease = lease
                             /\ p.entries[i].status = status}

\* Removes and closes the entries a test picks, as the code's while loops do:
\* after a removal the same place is looked at again.
CloseThose(p, Test(_)) ==
  LET visit(s, k) ==
        IF s.at > Len(s.pool.entries) THEN s
        ELSE IF Test(s.pool.entries[s.at])
        THEN [s EXCEPT !.pool =
                Put([s.pool EXCEPT !.entries = SwapRemove(@, s.at)],
                    [kind |-> "Close", id |-> s.pool.entries[s.at].lease])]
        ELSE [s EXCEPT !.at = @ + 1]
  IN  FoldLeft(visit, [pool |-> p, at |-> 1], p.entries).pool

Stale(e, now) == e.status = "Idle" /\ IdleTime # 0 /\ now >= e.lastUsed + IdleTime

\* The oldest waiter takes the idle connection that stands last.
HandOut(p) ==
  LET idle == {i \in 1..Len(p.entries) : p.entries[i].status = "Idle"}
      last == CHOOSE i \in idle : \A j \in idle : j <= i
  IN  IF p.waiting = <<>> \/ idle = {} THEN p
      ELSE Put([p EXCEPT !.waiting = Tail(@), !.entries[last].status = "Out"],
               [kind |-> "Acquired", token |-> Head(p.waiting).token,
                lease |-> p.entries[last].lease])

Connecting(p) ==
  Cardinality({i \in 1..Len(p.entries) : p.entries[i].status = "Connecting"})

OpenOne(p, now) ==
  LET lease == [id |-> p.nextId + 1, generation |-> p.generation]
  IN  IF /\ Len(p.entries) < MinSize \/ Connecting(p) < Len(p.waiting)
         /\ Connecting(p) < MaxConnecting
         /\ MaxSize = 0 \/ Len(p.entries) < MaxSize
      THEN Put([p EXCEPT !.nextId = @ + 1,
                         !.entries = Append(@, [lease |-> lease, status |-> "Connecting",
                                                lastUsed |-> now])],
               [kind |-> "Connect", id |-> lease])
      ELSE p

Repeat(Step(_), p, n) == FoldLeft(LAMBDA q, i : Step(q), p, [i \in 1..n |-> i])

Drive(p, now) ==
  IF ~p.ready \/ p.closed THEN p
  ELSE LET fresh == CloseThose(p, LAMBDA e : Stale(e, now))
           served == Repeat(HandOut, fresh, Len(p.waiting))
       IN  Repeat(LAMBDA q : OpenOne(q, now), served, MaxConnecting)

\* Fails every waiter, oldest first.
FailAll(p) ==
  [p EXCEPT !.waiting = <<>>,
            !.events = @ \o [i \in 1..Len(p.waiting) |-> Fails(p.waiting[i].token)]]

Clear(p) ==
  IF p.closed THEN p
  ELSE FailAll(CloseThose([p EXCEPT !.generation = @ + 1, !.ready = FALSE],
                          LAMBDA e : e.status # "Out"))

Ready(p, now) == IF p.closed THEN p ELSE Drive([p EXCEPT !.ready = TRUE], now)

MongoCheckout(p, token, now, at) ==
  IF \E i \in 1..Len(p.waiting) : p.waiting[i].token = token THEN No(p)
  ELSE IF p.closed \/ ~p.ready THEN Yes(Put(p, Fails(token)))
  ELSE Yes(Drive([p EXCEPT !.waiting =
                    Append(@, [token |-> token,
                               deadline |-> IF WaitTimeout = 0 THEN {}
                                            ELSE {now + WaitTimeout}])], now))

MongoConnected(p, lease, now) ==
  LET at == Places(p, lease, "Connecting")
  IN  IF at = {} THEN No(p)
      ELSE Yes(Drive([p EXCEPT !.entries = [i \in DOMAIN @ |->
                        IF i \in at THEN [@[i] EXCEPT !.status = "Idle", !.lastUsed = now]
                        ELSE @[i]]], now))

MongoConnectFailed(p, lease, now) ==
  LET at == Places(p, lease, "Connecting")
      gone == Put([p EXCEPT !.entries = SwapRemove(@, CHOOSE i \in at : TRUE)],
                  [kind |-> "Close", id |-> lease])
      told == IF p.waiting = <<>> THEN gone
              ELSE Put([gone EXCEPT !.waiting = Tail(@)], Fails(Head(p.waiting).token))
  IN  IF at = {} THEN No(p) ELSE Yes(Clear(told))

\* checkin, and discard for a connection that cannot be used again.
MongoCheckin(p, lease, now, destroy) ==
  LET at == Places(p, lease, "Out")
      i == CHOOSE j \in at : TRUE
  IN  IF at = {} THEN No(p)
      ELSE IF destroy \/ p.closed \/ lease.generation # p.generation
      THEN Yes(Drive(Put([p EXCEPT !.entries = SwapRemove(@, i)],
                         [kind |-> "Close", id |-> lease]), now))
      ELSE Yes(Drive([p EXCEPT !.entries[i].status = "Idle",
                               !.entries[i].lastUsed = now], now))

MongoClosed(p, lease, now) == Yes(p)

MongoCancel(p, token, now) ==
  IF \E i \in 1..Len(p.waiting) : p.waiting[i].token = token
  THEN Put([p EXCEPT !.waiting = SelectSeq(@, LAMBDA w : w.token # token)], Fails(token))
  ELSE p

MongoDeadlines(p) ==
  UNION {p.waiting[i].deadline : i \in 1..Len(p.waiting)}
    \cup {p.entries[i].lastUsed + IdleTime :
            i \in {j \in 1..Len(p.entries) : p.entries[j].status = "Idle" /\ IdleTime # 0}}

MongoExpire(p, now) ==
  LET due(w) == \E d \in w.deadline : d <= now
      late == SelectSeq(p.waiting, due)
  IN  Drive([p EXCEPT !.waiting = SelectSeq(@, LAMBDA w : ~due(w)),
                      !.events = @ \o [i \in 1..Len(late) |-> Fails(late[i].token)]], now)

\* close(); a second call changes nothing.
MongoEnd(p) ==
  IF p.closed THEN Yes(p)
  ELSE Yes(Put([Clear(FailAll(p)) EXCEPT !.closed = TRUE], [kind |-> "Ended"]))

MongoUpdates(p, now) ==
  {Ready(p, now)} \cup (IF p.generation < MaxClears THEN {Clear(p)} ELSE {})

MongoOut(p) ==
  {p.entries[i].lease : i \in {j \in 1..Len(p.entries) : p.entries[j].status = "Out"}}
=============================================================================
