------------------------------ MODULE HttpClient ------------------------------
(***************************************************************************)
(* The asynchronous HTTP client (turnloop-http/src/asynchronous/client.rs): *)
(* exchanges on leased connections of the pool, proxy tunnels, uploads, 100 *)
(* (Continue), redirects (client.rs), the request's deadline and dropped   *)
(* futures.  One exchange runs at a time: it borrows the client.  What a   *)
(* connection carries is `owes', the messages or parts of them that its two *)
(* ends still expect; the exchange itself is Http1Exchange's.              *)
(*                                                                         *)
(* Pool and Deadlines of turnloop-http/src/client.rs are operators on a pool *)
(* record, and a host of its own with several requests drives them too.  A *)
(* heap of deadlines is the set of its entries; `live' holds the entries   *)
(* that are not replaced.                                                  *)
(***************************************************************************)
EXTENDS Naturals, Sequences, FiniteSets

CONSTANTS
    Origins, Secure,        \* origins, and those that are https
    Proxied,                \* origins that proxy_for() gives a proxy
    Http2,                  \* origins that negotiate HTTP/2
    Modes,                  \* redirects: Follow, Manual, Error
    MaxRedirects,
    Requests,               \* bound: calls
    MaxPerHost,
    Idle,                   \* the idle time-out
    Slack,                  \* 16 in settle()
    MaxTime, MaxIds, MaxSets,   \* bounds: the clock, connections made, deadlines set
    Keys, Users, MaxStreams     \* the pool's own host: origins, requests, streams of an HTTP/2 connection

VARIABLES
    conn,       \* the pool
    up,         \* `connections': the connection by id, for those not leased
    down,       \* the lease: its id and connection
    server,     \* where the exchange is, and the mode of redirects
    told,       \* what the caller has got: heads, and bodies of which responses
    truth       \* the clock, the request, and what it began as

clientVars == <<conn, up, down, server, told, truth>>

None == MaxTime + 100                   \* no deadline

---------------------------------------------------------------------------
(* Deadlines.                                                              *)

NoDeadlines == [heap |-> {}, live |-> {}, sequence |-> 0]
Before(e, f) == e.at < f.at \/ (e.at = f.at /\ e.sequence <= f.sequence)

\* settle(): rebuilt when the replaced outnumber the live, else the top is made live.
Settle(d) ==
    IF Cardinality(d.heap) > 2 * Cardinality(d.live) + Slack THEN [d EXCEPT !.heap = d.live]
    ELSE [d EXCEPT !.heap = {e \in d.heap : \E l \in d.live : Before(l, e)}]

Of(d, key) == {e \in d.live : e.key = key}
SetDeadline(d, key, at) ==
    LET old == Of(d, key)
        new == IF at = None THEN {} ELSE {[at |-> at, sequence |-> d.sequence + 1, key |-> key]}
    IN IF {e.at : e \in old} = {e.at : e \in new} THEN d
       ELSE Settle([heap |-> d.heap \cup new, live |-> (d.live \ old) \cup new,
                    sequence |-> d.sequence + Cardinality(new)])

NextTimeout(d) ==
    IF d.heap = {} THEN None ELSE (CHOOSE e \in d.heap : \A f \in d.heap : Before(e, f)).at
Expired(d, now) == NextTimeout(d) <= now
Top(d) == CHOOSE e \in d.heap : \A f \in d.heap : Before(e, f)
PopExpired(d) ==
    Settle([d EXCEPT !.heap = @ \ {Top(d)}, !.live = {e \in @ : e.key # Top(d).key}])

---------------------------------------------------------------------------
(* Pool.                                                                   *)

NewPool == [slots |-> <<>>, next |-> 1, idle |-> NoDeadlines, requests |-> NoDeadlines]

\* The first slot with a property, or 0.
FirstSlot(p, Test(_)) ==
    IF \E i \in DOMAIN p.slots : Test(p.slots[i])
    THEN CHOOSE i \in DOMAIN p.slots : Test(p.slots[i]) /\ \A j \in 1 .. i - 1 : ~Test(p.slots[j])
    ELSE 0
SlotOf(p, id) == FirstSlot(p, LAMBDA s : s.id = id /\ ~s.closed)
Contains(p, id) == SlotOf(p, id) # 0

Reusable(p, key, now) ==
    FirstSlot(p, LAMBDA s : ~s.closed /\ s.key = key /\ ~s.connecting /\ s.active < s.capacity /\ s.deadline > now)
Open(p, key) == {i \in DOMAIN p.slots : ~p.slots[i].closed /\ p.slots[i].key = key}

\* acquire(): the pool after it, and what it answers.
Acquire(p, key, now) ==
    LET i == Reusable(p, key, now)
        slot == [id |-> p.next, key |-> key, active |-> 1, capacity |-> 1, connecting |-> TRUE, deadline |-> None, closed |-> FALSE]
        c == FirstSlot(p, LAMBDA s : s.closed)
    IN CASE i # 0 ->
              [pool |-> [p EXCEPT !.slots[i].active = @ + 1, !.slots[i].deadline = None,
                                  !.idle = SetDeadline(@, p.slots[i].id, None)],
               kind |-> "Reuse", id |-> p.slots[i].id]
         [] i = 0 /\ Cardinality(Open(p, key)) >= MaxPerHost -> [pool |-> p, kind |-> "Wait", id |-> 0]
         [] OTHER ->
              [pool |-> [p EXCEPT !.next = @ + 1,
                                  !.slots = IF c = 0 THEN Append(@, slot) ELSE [@ EXCEPT ![c] = slot]],
               kind |-> "Connect", id |-> p.next]

Connected(p, id, capacity) ==
    LET i == SlotOf(p, id)
    IN [p EXCEPT !.slots[i].connecting = FALSE, !.slots[i].capacity = capacity]

Release(p, id, reusable, now) ==
    LET i == SlotOf(p, id)
        s == p.slots[i]
        capacity == IF reusable THEN s.capacity ELSE 0
        deadline == IF s.active > 1 THEN s.deadline ELSE IF capacity = 0 THEN now ELSE now + Idle
    IN IF i = 0 \/ s.active = 0 THEN p
       ELSE [p EXCEPT !.slots[i] = [s EXCEPT !.active = @ - 1, !.capacity = capacity, !.deadline = deadline],
                      !.idle = IF s.active = 1 THEN SetDeadline(@, id, deadline) ELSE @]

\* closed() and forget(), which differ in what they say of an unknown id.
Closed(p, id) ==
    LET i == SlotOf(p, id)
    IN IF i = 0 THEN p ELSE [p EXCEPT !.slots[i].closed = TRUE, !.idle = SetDeadline(@, id, None)]
Forget(p, id) ==
    [Closed(p, id) EXCEPT !.idle = SetDeadline(@, id, None)]

\* handle_timeout(): one connection to close, 0 for none.
PoolTimeout(p, now) ==
    IF ~Expired(p.idle, now) THEN [pool |-> p, id |-> 0]
    ELSE LET id == Top(p.idle).key
             q == [p EXCEPT !.idle = PopExpired(@)]
         IN IF Contains(p, id) THEN [pool |-> [q EXCEPT !.slots[SlotOf(p, id)].closed = TRUE], id |-> id]
            ELSE [pool |-> q, id |-> 0]

PoolNextTimeout(p) ==
    IF NextTimeout(p.idle) < NextTimeout(p.requests) THEN NextTimeout(p.idle) ELSE NextTimeout(p.requests)

---------------------------------------------------------------------------
(* A host: requests that acquire, connect, use and give up connections.    *)

\* In the host of the pool `server' is its sockets, the ids that are connected,
\* `told' per request the connection that it holds as [id, at], `truth' the clock
\* and the id that a time-out just closed.
poolVars == <<conn, server, told, truth>>

Free == [id |-> 0, at |-> "none"]

PoolInit ==
    /\ conn = NewPool /\ server = {}
    /\ told = [u \in Users |-> Free]
    /\ truth = [now |-> 0, closed |-> 0]

UserAcquires(u, key) ==
    LET a == Acquire(conn, key, truth.now)
    IN /\ told[u] = Free /\ conn.next <= MaxIds /\ conn.idle.sequence < MaxSets
       /\ conn' = a.pool
       /\ told' = [told EXCEPT ![u] = CASE a.kind = "Wait" -> Free
                                        [] a.kind = "Reuse" -> [id |-> a.id, at |-> "using"]
                                        [] a.kind = "Connect" -> [id |-> a.id, at |-> "connecting"]]
       /\ UNCHANGED <<server, truth>>

UserConnected(u, capacity) ==
    /\ told[u].at = "connecting" /\ Contains(conn, told[u].id)
    /\ conn' = Connected(conn, told[u].id, capacity)
    /\ server' = server \cup {told[u].id}
    /\ told' = [told EXCEPT ![u].at = "using"]
    /\ UNCHANGED truth

UserReleases(u, reusable) ==
    /\ told[u].at = "using"
    /\ conn' = [Release(conn, told[u].id, reusable, truth.now) EXCEPT !.requests = SetDeadline(@, u, None)]
    /\ told' = [told EXCEPT ![u] = Free]
    /\ UNCHANGED <<server, truth>>

\* The transport fails or never connected: the connection is closed, or the
\* host only finds out that it is gone.
UserLoses(u, forgets) ==
    LET p == IF forgets THEN Forget(conn, told[u].id) ELSE Closed(conn, told[u].id)
    IN /\ told[u] # Free
       /\ conn' = [p EXCEPT !.requests = SetDeadline(@, u, None)]
       /\ server' = server \ {told[u].id}
       /\ told' = [told EXCEPT ![u] = Free]
       /\ UNCHANGED truth

\* set_request_deadline(), of a request in flight.
UserArms(u, at) ==
    /\ told[u].at = "using" /\ conn.requests.sequence < MaxSets /\ at > truth.now
    /\ conn' = [conn EXCEPT !.requests = SetDeadline(@, u, at)]
    /\ UNCHANGED <<server, told, truth>>

\* The host's timer, armed with next_timeout(), and what is due.
HandleTimeout ==
    LET t == PoolTimeout(conn, truth.now)
    IN /\ Expired(conn.idle, truth.now)
       /\ conn' = t.pool
       /\ server' = server \ {t.id}
       /\ truth' = [truth EXCEPT !.closed = t.id]
       /\ UNCHANGED told

\* handle_request_timeout(), on which the host closes the connection.
HandleRequestTimeout ==
    LET u == Top(conn.requests).key
    IN /\ Expired(conn.requests, truth.now)
       /\ conn' = Closed([conn EXCEPT !.requests = PopExpired(@)], told[u].id)
       /\ server' = server \ {told[u].id}
       /\ told' = [told EXCEPT ![u] = Free]
       /\ UNCHANGED truth

PoolTick ==
    /\ truth.now < MaxTime
    /\ truth' = [now |-> truth.now + 1, closed |-> 0]
    /\ UNCHANGED <<conn, server, told>>

PoolNext ==
    \/ \E u \in Users, k \in Keys : UserAcquires(u, k)
    \/ \E u \in Users, n \in {1, MaxStreams} : UserConnected(u, n)
    \/ \E u \in Users, b \in BOOLEAN : UserReleases(u, b) \/ UserLoses(u, b)
    \/ \E u \in Users, at \in 1 .. MaxTime : UserArms(u, at)
    \/ HandleTimeout \/ HandleRequestTimeout \/ PoolTick

---------------------------------------------------------------------------
Live(p) == {i \in DOMAIN p.slots : ~p.slots[i].closed}
Holders(id) == {u \in Users : told[u].id = id}

\* The pool's count of a connection's users is theirs, within its capacity; no
\* origin has more connections than allowed, and no id is given twice.
PoolCounts ==
    /\ \A i \in Live(conn) : conn.slots[i].active = Cardinality(Holders(conn.slots[i].id))
    /\ \A k \in Keys : Cardinality(Open(conn, k)) <= MaxPerHost
    /\ \A i \in Live(conn) : conn.slots[i].capacity # 0 => conn.slots[i].active <= conn.slots[i].capacity
    /\ \A i, j \in DOMAIN conn.slots : conn.slots[i].id = conn.slots[j].id => i = j

\* Idle time-outs close what nobody uses: the live deadlines are those of the
\* idle connections.
IdleIsTimed ==
    /\ {[id |-> e.key, at |-> e.at] : e \in conn.idle.live}
          = {[id |-> conn.slots[i].id, at |-> conn.slots[i].deadline] : i \in {j \in Live(conn) : conn.slots[j].active = 0}}
    /\ truth.closed # 0 => Holders(truth.closed) = {}

\* next_timeout() is the earliest live deadline, whatever was replaced, and the
\* heap stays within its constant factor.
TimeoutIsExact(d) ==
    /\ d.live \subseteq d.heap
    /\ d.heap = {} <=> d.live = {}
    /\ d.heap # {} => Top(d) \in d.live
    /\ Cardinality(d.heap) <= 2 * Cardinality(d.live) + Slack
PoolTimeoutIsExact == TimeoutIsExact(conn.idle) /\ TimeoutIsExact(conn.requests)

---------------------------------------------------------------------------
(* The client.                                                             *)

NoLease == [id |-> 0, connection |-> [kind |-> "none"]]
NoConnection == [kind |-> "none"]
Key(o) == <<o, o \in Proxied>>

Fresh(kind, o) == [kind |-> kind, origin |-> o, owes |-> {}, keep |-> TRUE, draining |-> FALSE, stream |-> TRUE]

ClientInit ==
    /\ conn = NewPool /\ up = {} /\ down = NoLease
    /\ server = [at |-> "idle", mode |-> "Follow", early |-> FALSE, deliver |-> FALSE, location |-> 0]
    /\ told = [calls |-> 0, result |-> "none", heads |-> 0, bodies |-> {}]
    /\ truth = [now |-> 0, request |-> [origin |-> 0], first |-> 0, redirects |-> 0]

Id(c) == c[1]

RECURSIVE ExpiredAll(_, _)
\* expire(): every idle connection that is due, dropped from both tables.
ExpiredAll(p, conns) ==
    LET t == PoolTimeout(p, truth.now)
    IN IF ~Expired(p.idle, truth.now) THEN [pool |-> p, conns |-> conns]
       ELSE ExpiredAll(t.pool, {c \in conns : Id(c) # t.id})

\* request() or stream() is called.
Request(r, mode, streamed) ==
    /\ server.at = "idle" /\ told.calls < Requests
    /\ server' = [at |-> "begin", mode |-> IF streamed THEN "Streamed" ELSE mode, early |-> FALSE, deliver |-> FALSE, location |-> 0]
    /\ truth' = [truth EXCEPT !.request = r, !.first = r.origin, !.redirects = 0]
    /\ told' = [calls |-> told.calls + 1, result |-> "none", heads |-> 0, bodies |-> {}]
    /\ UNCHANGED <<conn, up, down>>

\* The start of an exchange, up to the first wait.
Expire ==
    LET x == ExpiredAll(conn, up)
    IN /\ server.at = "begin"
       /\ conn' = x.pool /\ up' = x.conns
       /\ server' = [server EXCEPT !.at = "acquire"]
       /\ UNCHANGED <<down, told, truth>>

Answer(result) ==
    /\ server' = [server EXCEPT !.at = "idle"]
    /\ told' = [told EXCEPT !.result = result]

AcquireLease ==
    LET a == Acquire(conn, Key(truth.request.origin), truth.now)
    IN /\ server.at = "acquire" /\ conn.next <= MaxIds /\ conn.idle.sequence < MaxSets
       /\ conn' = a.pool
       /\ CASE a.kind = "Wait" -> Answer("WouldBlock") /\ UNCHANGED <<up, down>>
            [] a.kind = "Reuse" /\ (\E c \in up : Id(c) = a.id) ->
                 \E c \in up : /\ Id(c) = a.id
                               /\ up' = up \ {c} /\ down' = [id |-> a.id, connection |-> c[2]]
                               /\ server' = [server EXCEPT !.at = "ready"] /\ UNCHANGED told
            [] a.kind = "Reuse" /\ ~\E c \in up : Id(c) = a.id -> Answer("pool entry missing") /\ UNCHANGED <<up, down>>
            [] a.kind = "Connect" ->
                 /\ down' = [id |-> a.id, connection |-> NoConnection]
                 /\ server' = [server EXCEPT !.at = IF truth.request.origin \in Proxied \cap Secure THEN "tunnel" ELSE "connect"]
                 /\ UNCHANGED <<up, told>>
       /\ UNCHANGED truth

\* A new connection, through the proxy's tunnel or directly, to the point where
\* the lease holds it.
Tunnel ==
    /\ server.at = "tunnel"
    /\ server' = [server EXCEPT !.at = "connect"]
    /\ UNCHANGED <<conn, up, down, told, truth>>

Connect ==
    LET o == truth.request.origin
    IN /\ server.at = "connect"
       /\ conn' = Connected(conn, down.id, 1)
       /\ down' = [down EXCEPT !.connection = Fresh(IF o \in Http2 THEN "H2" ELSE "H1", o)]
       /\ server' = [server EXCEPT !.at = "ready"]
       /\ UNCHANGED <<up, told, truth>>

\* The request's head; with 100-continue and a body the upload waits.
SendHead ==
    LET r == truth.request
        h1 == down.connection.kind = "H1"
    IN /\ server.at = "ready"
       /\ down' = [down EXCEPT !.connection.owes = @ \cup {"upload", "response"}]
       /\ server' = [server EXCEPT !.at = IF h1 /\ r.expect /\ r.body THEN "continue" ELSE "upload", !.early = FALSE]
       /\ UNCHANGED <<conn, up, told, truth>>

\* 100 (Continue) or the time-out for it.
Continue ==
    /\ server.at = "continue"
    /\ server' = [server EXCEPT !.at = "upload"]
    /\ UNCHANGED <<conn, up, down, told, truth>>

Upload ==
    /\ server.at = "upload"
    /\ down' = [down EXCEPT !.connection.owes = @ \ {"upload"}]
    /\ server' = [server EXCEPT !.at = "head"]
    /\ UNCHANGED <<conn, up, told, truth>>

\* A GOAWAY that lets this stream finish.
PeerDrains ==
    /\ server.at \in {"upload", "head", "body"} /\ down.connection.kind = "H2"
    /\ down' = [down EXCEPT !.connection.draining = TRUE]
    /\ UNCHANGED <<conn, up, server, told, truth>>

Redirects(location) == location # 0
\* The response's head: whether it keeps the connection, and where it redirects.
ResponseHead(keep, location) ==
    /\ server.at = "head" \/ server.at = "continue"
    /\ server' = [server EXCEPT !.early = server.at = "continue", !.at = "body", !.location = location,
                                !.deliver = ~(server.mode = "Follow" /\ Redirects(location))]
    /\ down' = [down EXCEPT !.connection.keep = keep]
    /\ UNCHANGED <<conn, up, told, truth>>

Body ==
    /\ server.at = "body"
    /\ told' = IF server.deliver THEN [told EXCEPT !.bodies = @ \cup {truth.redirects}] ELSE told
    /\ UNCHANGED <<conn, up, down, server, truth>>

\* Lease::drop.
Drop(lease, reusable) ==
    /\ up' = IF reusable THEN up \cup {<<lease.id, lease.connection>>} ELSE up
    /\ conn' = IF reusable THEN Release(conn, lease.id, TRUE, truth.now) ELSE Closed(conn, lease.id)
    /\ down' = NoLease

\* Request::redirect(): the next request, or why there is none.
Rewrites(r, status) == r.method = "POST" /\ status \in {302, 303}
Redirected(r, status, to) ==
    [origin |-> to, method |-> IF Rewrites(r, status) THEN "GET" ELSE r.method,
     body |-> r.body /\ ~Rewrites(r, status), expect |-> r.expect,
     credentials |-> r.credentials /\ to = r.origin]

\* The end of the response: the lease is dropped, then request() follows a
\* redirect or answers.
End(status, valid) ==
    LET c == [down.connection EXCEPT !.owes = @ \ {"response"}]
        reusable == IF c.kind = "H1" THEN ~server.early /\ c.keep ELSE ~c.draining
        to == server.location
        r == truth.request
    IN /\ server.at = "body"
       /\ Drop([down EXCEPT !.connection = c], reusable)
       /\ IF ~Redirects(to) \/ server.mode \in {"Manual", "Streamed"}
          THEN Answer("ok") /\ UNCHANGED truth
          ELSE IF server.mode = "Error" \/ truth.redirects >= MaxRedirects \/ ~valid
          THEN Answer("error") /\ UNCHANGED truth
          ELSE /\ truth' = [truth EXCEPT !.request = Redirected(r, status, to), !.redirects = @ + 1]
               /\ server' = [server EXCEPT !.at = "begin"] /\ UNCHANGED told

\* An error of any step, the deadline, or the caller drops the future: the
\* connection goes with the lease.
Exchanging == server.at \notin {"idle", "begin", "acquire"}
Fail ==
    /\ Exchanging
    /\ Drop(down, FALSE) /\ Answer("error")
    /\ UNCHANGED truth

Tick ==
    /\ truth.now < MaxTime
    /\ truth' = [truth EXCEPT !.now = @ + 1]
    /\ UNCHANGED <<conn, up, down, server, told>>

HostExpires ==
    LET x == ExpiredAll(conn, up)
    IN /\ server.at = "idle" /\ Expired(conn.idle, truth.now)
       /\ conn' = x.pool /\ up' = x.conns
       /\ UNCHANGED <<down, server, told, truth>>

RequestKinds ==
    {r \in [origin : Origins, method : {"GET", "POST"}, body : BOOLEAN, expect : BOOLEAN, credentials : {TRUE}] :
        (r.body <=> r.method = "POST") /\ (r.expect => r.body)}

ClientNext ==
    \/ \E r \in RequestKinds, mode \in Modes, s \in BOOLEAN : Request(r, mode, s)
    \/ Expire \/ AcquireLease \/ Tunnel \/ Connect \/ SendHead \/ Continue \/ Upload \/ PeerDrains
    \/ \E keep \in BOOLEAN, to \in Origins \cup {0} : ResponseHead(keep, to)
    \/ Body \/ (\E status \in {303, 307}, valid \in BOOLEAN : End(status, valid)) \/ Fail \/ Tick \/ HostExpires

---------------------------------------------------------------------------
Idles == {conn.slots[i].id : i \in {j \in Live(conn) : conn.slots[j].active = 0}}

\* The pool and the table of connections agree: an idle slot has its
\* connection, which was made for the slot's key.
TablesAgree ==
    /\ {Id(c) : c \in up} = Idles
    /\ \A c \in up : \E i \in Live(conn) :
          conn.slots[i].id = Id(c) /\ conn.slots[i].key = Key(c[2].origin)
    /\ told.result # "pool entry missing"

\* A connection goes back to the pool with both messages complete and not to be
\* closed.
PooledIsClean == \A c \in up : c[2].owes = {} /\ ~c[2].draining /\ (c[2].kind = "H1" => c[2].keep)

\* The caller gets the body of one response, the last, and follows no more
\* redirects than allowed.
OneBody ==
    /\ Cardinality(told.bodies) <= 1 /\ (told.result = "ok" => told.bodies \subseteq {truth.redirects})
    /\ truth.redirects <= MaxRedirects

\* Credentials stay with the origin that the caller gave them for.
CredentialsStay ==
    server.at # "idle" => (truth.request.credentials => truth.request.origin = truth.first)

\* A client that runs one exchange at a time has a place for it.  acquire() finds
\* none only when the places of the origin are held by idle connections that fell
\* due after expire() read the clock; a lease that leaks its place never does it.
NeverWaits ==
    LET key == Key(truth.request.origin)
    IN server.at = "acquire" /\ Acquire(conn, key, truth.now).kind = "Wait" =>
          \A i \in Open(conn, key) : conn.slots[i].active = 0 /\ conn.slots[i].deadline <= truth.now
===============================================================================
