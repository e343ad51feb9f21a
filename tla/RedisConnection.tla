-------------------------- MODULE RedisConnection ---------------------------
(***************************************************************************)
(* The sans-I/O Redis connection (turnloop-redis/src/lib.rs): handshake,   *)
(* pipelined commands, the offline queue, replies matched by their order,  *)
(* subscriptions and their acknowledgements, time-outs, and reconnection   *)
(* with replay.  The host, the transport and the server are external: the  *)
(* host makes the calls its events ask for, the server answers requests in *)
(* order.  A command is [id, op, names, pattern]: its wire form, where id  *)
(* is the token it was first given; a deadline is due or not.              *)
(***************************************************************************)
EXTENDS Naturals, Sequences, FiniteSets, SequencesExt

CONSTANTS
    Tokens,         \* 1 .. n, used in this order
    Commands,       \* [op, names, pattern] of what the host submits
    Timed,          \* tokens submitted with a deadline
    Setup,          \* which of Auth, Select and Name the Config asks for
    Tls, PreferResp3, OfflineQueue, AutoResubscribe, AutoResend,
    MaxRetries,     \* max_retries_per_request
    ServerResp3,    \* the server knows HELLO 3
    Refusals,       \* commands may be refused by the server
    MaxLosses,      \* bound: transports lost
    MaxMessages     \* bound: messages published

VARIABLES
    conn,       \* the Connection
    up, down,   \* requests and frames under way, tx and rx included
    server,     \* [subs, resp3] of the server's session
    replies,    \* per token, the results of its Reply events
    next,       \* the next token
    losses, published

redisVars == <<conn, up, down, server, replies, next, losses, published>>

NoToken == 0
NoName == "none"
Names(c, pattern) == SelectSeq(c.subs, LAMBDA n : n.pattern = pattern)
Subscribes(op) == op = "Subscribe"
Subscription(op) == op \in {"Subscribe", "Unsubscribe"}

RedisInit ==
    /\ conn = [state |-> "Disconnected", handshake |-> "Hello", resp3 |-> FALSE, pending |-> <<>>,
               offline |-> <<>>, subs |-> <<>>, subscriber |-> FALSE, deadline |-> FALSE, attempt |-> 0]
    /\ up = <<>> /\ down = <<>> /\ server = [subs |-> {}, resp3 |-> FALSE]
    /\ replies = [t \in Tokens |-> <<>>] /\ next = 1 /\ losses = 0 /\ published = 0

---------------------------------------------------------------------------
(* Methods of Connection over [c, tx, out]: the connection, what it adds to *)
(* the output, and the Reply events it queues.                              *)

Call == [c |-> conn, tx |-> <<>>, out |-> <<>>]
Sent(m, request) == [m EXCEPT !.tx = Append(@, request)]
Reply(m, p, result) ==
    IF p.token = NoToken THEN m ELSE [m EXCEPT !.out = Append(@, [token |-> p.token, result |-> result])]
Failure == [id |-> NoToken, last |-> FALSE, form |-> "failed"]

RefreshSubscriber(m) ==
    [m EXCEPT !.c.subscriber =
        m.c.subs # <<>> \/ \E p \in ToSet(m.c.pending) \cup ToSet(m.c.offline) : Subscribes(p.wire.op)]

Close(m) ==
    IF m.c.state = "Closed" THEN m
    ELSE [FoldLeft(LAMBDA n, p : Reply(n, p, Failure), m, m.c.pending \o m.c.offline) EXCEPT
             !.tx = <<>>,
             !.c = [@ EXCEPT !.state = "Closed", !.pending = <<>>, !.offline = <<>>, !.deadline = FALSE,
                             !.subs = <<>>, !.subscriber = FALSE]]

GetReady(m) ==
    LET r == RefreshSubscriber([m EXCEPT !.c.state = "Ready", !.c.deadline = FALSE, !.c.attempt = 0])
    IN [r EXCEPT !.tx = @ \o [i \in DOMAIN m.c.offline |-> m.c.offline[i].wire],
                 !.c.pending = @ \o m.c.offline, !.c.offline = <<>>]

Resubscribe(n) ==
    [token |-> NoToken, acks |-> 1, timed |-> FALSE,
     wire |-> [id |-> NoToken, op |-> "Subscribe", names |-> <<n.name>>, pattern |-> n.pattern]]

\* Fault: only channels are subscribed again.
RestoreChannels(m) ==
    LET again == Names(m.c, FALSE)
        r == [m EXCEPT !.c.handshake = "Restore", !.c.subscriber = again # <<>>,
                       !.c.pending = [i \in DOMAIN again |-> Resubscribe(again[i])],
                       !.tx = @ \o [i \in DOMAIN again |-> Resubscribe(again[i]).wire]]
    IN IF again = <<>> THEN GetReady(r) ELSE r

Restore(m) ==
    LET again == IF AutoResubscribe THEN Names(m.c, FALSE) \o Names(m.c, TRUE) ELSE <<>>
        waits == m.c.pending \o [i \in DOMAIN again |-> Resubscribe(again[i])]
        r == [m EXCEPT !.c.handshake = "Restore", !.c.pending = waits,
                       !.tx = @ \o [i \in DOMAIN again |-> Resubscribe(again[i]).wire],
                       !.c.subscriber = IF AutoResubscribe THEN waits # <<>> ELSE @,
                       !.c.subs = IF AutoResubscribe THEN @ ELSE <<>>]
    IN IF waits = <<>> THEN GetReady(r) ELSE r

Ask(m, step) == Sent([m EXCEPT !.c.handshake = step], [id |-> NoToken, op |-> step])
Name(m) == IF "Name" \in Setup THEN Ask(m, "Name") ELSE Restore(m)
Select(m) == IF "Select" \in Setup THEN Ask(m, "Select") ELSE Name(m)
Auth(m) == IF "Auth" \in Setup THEN Ask(m, "Auth") ELSE Select(m)

BeginHandshake(m) ==
    LET h == [m EXCEPT !.c.state = "Handshake", !.c.resp3 = FALSE, !.c.subscriber = FALSE]
    IN IF PreferResp3 THEN Ask(h, "Hello") ELSE Auth(h)

\* What is replied to the first pending command.
Complete(m, f) ==
    IF m.c.pending = <<>> THEN Close(m)
    ELSE LET p == Head(m.c.pending)
             r == RefreshSubscriber([Reply(m, p, [id |-> f.id, last |-> f.last, form |-> f.form])
                                     EXCEPT !.c.pending = Tail(@)])
         IN IF p.wire.op = "Quit" THEN Close(r) ELSE r

\* An acknowledgement, recognised as such.
Acknowledge(m, f) ==
    LET subs == IF f.name = NoName THEN m.c.subs
                ELSE IF Subscribes(f.op)
                     THEN IF Contains(m.c.subs, [name |-> f.name, pattern |-> f.pattern]) THEN m.c.subs
                          ELSE Append(m.c.subs, [name |-> f.name, pattern |-> f.pattern])
                     ELSE SelectSeq(m.c.subs, LAMBDA n : n # [name |-> f.name, pattern |-> f.pattern])
        s == [m EXCEPT !.c.subs = subs, !.c.subscriber = f.count # 0]
        p == Head(m.c.pending)
        all == p.acks = NoToken
        left == IF all \/ p.acks = 1 THEN 0 ELSE p.acks - 1
        done == IF all THEN Names(s.c, f.pattern) = <<>> ELSE left = 0
        r == IF done THEN Complete(s, [f EXCEPT !.form = "count"])
             ELSE [s EXCEPT !.c.pending[1].acks = left]
    IN IF m.c.pending = <<>> \/ p.wire.op # f.op \/ p.wire.pattern # f.pattern THEN Close(s)
       ELSE IF r.c.state = "Handshake" /\ r.c.pending = <<>> THEN GetReady(r) ELSE r

Frame(m, f) ==
    IF m.c.state = "Handshake" /\ m.c.handshake # "Restore"
    THEN CASE f.form = "noproto" /\ m.c.handshake = "Hello" -> Auth(m)
           [] f.form \in {"noproto", "error"} -> Close(m)
           [] OTHER -> CASE m.c.handshake = "Hello" -> Select([m EXCEPT !.c.resp3 = TRUE])
                         [] m.c.handshake = "Auth" -> Select(m)
                         [] m.c.handshake = "Select" -> Name(m)
                         [] m.c.handshake = "Name" -> Restore(m)
    ELSE LET pubsub == f.form = "push" \/ (m.c.subscriber /\ f.form = "array")
         IN CASE pubsub /\ f.op = "message" -> m
              [] pubsub /\ Subscription(f.op) -> Acknowledge(m, f)
              [] OTHER -> Complete(m, f)

\* Fault: what was sent on the lost transport is not replayed.
TransportLostForgets(m) ==
    [m EXCEPT !.c = [@ EXCEPT !.state = "RetryDecision", !.pending = <<>>, !.attempt = @ + 1,
                              !.deadline = FALSE]]

TransportLost(m) ==
    IF m.c.state \in {"Closed", "RetryDecision", "WaitingRetry"} THEN m
    ELSE LET kept == SelectSeq(m.c.pending, LAMBDA p : AutoResend /\ p.token # NoToken)
             lost == SelectSeq(m.c.pending, LAMBDA p : ~(AutoResend /\ p.token # NoToken))
             queue == kept \o m.c.offline
             over == m.c.attempt + 1 > MaxRetries
         IN [FoldLeft(LAMBDA n, p : Reply(n, p, Failure), m, Reverse(lost) \o (IF over THEN queue ELSE <<>>))
               EXCEPT !.tx = <<>>,
                      !.c = [@ EXCEPT !.state = "RetryDecision", !.deadline = FALSE, !.pending = <<>>,
                                      !.offline = IF over THEN <<>> ELSE queue, !.attempt = @ + 1]]

---------------------------------------------------------------------------
(* The calls of the host. *)

Deliver(m) ==
    /\ conn' = m.c
    /\ replies' = [t \in Tokens |->
          replies[t] \o LET mine == SelectSeq(m.out, LAMBDA e : e.token = t)
                        IN [i \in DOMAIN mine |-> mine[i].result]]

\* A connection that closed or lost its transport has no bytes under way.
Gone(m) == m.c.state \in {"Closed", "RetryDecision"}
Settle(m, rest) ==
    /\ Deliver(m)
    /\ up' = IF Gone(m) THEN <<>> ELSE up \o m.tx
    /\ down' = IF Gone(m) THEN <<>> ELSE rest

ToConnect(m) == [m EXCEPT !.c.state = "Connecting", !.c.deadline = TRUE]

Connect ==
    /\ conn.state \in {"Disconnected", "Closed"}
    /\ Settle(ToConnect(Call), down)
    /\ UNCHANGED <<server, next, losses, published>>

TransportConnected ==
    /\ conn.state = "Connecting"
    /\ Settle(IF Tls THEN [Call EXCEPT !.c.state = "Tls"] ELSE BeginHandshake(Call), <<>>)
    /\ server' = [subs |-> {}, resp3 |-> FALSE]
    /\ UNCHANGED <<next, losses, published>>

TlsEstablished ==
    /\ conn.state = "Tls"
    /\ Settle(BeginHandshake(Call), down)
    /\ UNCHANGED <<server, next, losses, published>>

Command(k) ==
    LET acks == IF k.names # <<>> THEN Len(k.names) ELSE IF k.op = "Unsubscribe" THEN NoToken ELSE 1
        p == [token |-> next, acks |-> acks, timed |-> next \in Timed,
              wire |-> [id |-> next, op |-> k.op, names |-> k.names, pattern |-> k.pattern]]
        m == [Call EXCEPT !.c.subscriber = @ \/ Subscribes(k.op)]
    IN  /\ next \in Tokens /\ conn.state # "Closed"
        /\ conn.state = "Ready" \/ OfflineQueue
        /\ conn.subscriber => Subscription(k.op) \/ k.op \in {"Quit", "Ping"}
        /\ Settle(IF conn.state = "Ready" THEN Sent([m EXCEPT !.c.pending = Append(@, p)], p.wire)
                  ELSE [m EXCEPT !.c.offline = Append(@, p)], down)
        /\ next' = next + 1
        /\ UNCHANGED <<server, losses, published>>

Receive ==
    /\ conn.state \in {"Ready", "Handshake"} /\ down # <<>>
    /\ Settle(Frame(Call, Head(down)), Tail(down))
    /\ UNCHANGED <<server, next, losses, published>>

\* Fault: a command that timed out gives up its place in the pipeline.
ForgetsTimedOut(m, due) ==
    [FoldLeft(LAMBDA n, p : IF p.token \in due THEN Reply(n, p, Failure) ELSE n, m, m.c.pending \o m.c.offline)
       EXCEPT !.c.pending = SelectSeq(@, LAMBDA p : p.token \notin due),
              !.c.offline = SelectSeq(@, LAMBDA p : p.token \notin due)]

\* The commands that are due: a sent one leaves its place in the pipeline.
TimedOut(m, due) ==
    [FoldLeft(LAMBDA n, p : IF p.token \in due THEN Reply(n, p, Failure) ELSE n, m, m.c.pending \o m.c.offline)
       EXCEPT !.c.pending = [i \in DOMAIN @ |-> IF @[i].token \in due THEN [@[i] EXCEPT !.token = NoToken] ELSE @[i]],
              !.c.offline = SelectSeq(@, LAMBDA p : p.token \notin due)]

\* The deadline is the connection's own (self) or those of commands.
HandleTimeout(due, self) ==
    LET m == TimedOut(Call, due)
    IN  /\ self => conn.deadline
        /\ due # {} \/ self
        /\ self /\ conn.state # "WaitingRetry" => losses < MaxLosses
        /\ losses' = IF self /\ conn.state # "WaitingRetry" THEN losses + 1 ELSE losses
        /\ Settle(IF ~self THEN m
                  ELSE IF conn.state = "WaitingRetry" THEN ToConnect(m) ELSE TransportLost(m), down)
        /\ UNCHANGED <<server, next, published>>

LoseTransport ==
    /\ conn.state \in {"Connecting", "Tls", "Handshake", "Ready"} /\ losses < MaxLosses
    /\ losses' = losses + 1
    /\ Settle(TransportLost(Call), <<>>)
    /\ UNCHANGED <<server, next, published>>

Retry(again) ==
    /\ conn.state = "RetryDecision"
    /\ Settle(IF again THEN [Call EXCEPT !.c.state = "WaitingRetry", !.c.deadline = TRUE] ELSE Close(Call), <<>>)
    /\ UNCHANGED <<server, next, losses, published>>

HostCloses ==
    /\ conn.state # "Closed"
    /\ Settle(Close(Call), <<>>)
    /\ UNCHANGED <<server, next, losses, published>>

---------------------------------------------------------------------------
(* The server (external): one session per transport, answers in order. *)

Answer(r, form) == [id |-> r.id, op |-> r.op, form |-> form, last |-> TRUE]
Pushed == IF server.resp3 THEN "push" ELSE "array"
AckOf(r, name, subs, last) ==
    [id |-> r.id, op |-> r.op, form |-> Pushed, last |-> last, name |-> name, pattern |-> r.pattern,
     count |-> Cardinality(subs)]

\* One acknowledgement per name; without a name, per subscription, or one that names none.
Acks(r) ==
    LET mine == {n \in server.subs : n.pattern = r.pattern}
        names == IF r.names # <<>> THEN r.names ELSE LET s == SetToSeq(mine) IN [i \in DOMAIN s |-> s[i].name]
        After(i) == LET done == {[name |-> names[j], pattern |-> r.pattern] : j \in 1 .. i}
                    IN IF Subscribes(r.op) THEN server.subs \cup done ELSE server.subs \ done
    IN [subs |-> After(Len(names)),
        frames |-> IF names = <<>> THEN <<AckOf(r, NoName, server.subs, TRUE)>>
                   ELSE [i \in DOMAIN names |-> AckOf(r, names[i], After(i), i = Len(names))]]

Serve(refuse) ==
    /\ up # <<>> /\ conn.state \in {"Handshake", "Ready"}
    /\ LET r == Head(up) IN
       /\ up' = Tail(up)
       /\ refuse => Refusals /\ r.op # "Hello"
       /\ IF Subscription(r.op) /\ ~refuse
          THEN down' = down \o Acks(r).frames /\ server' = [server EXCEPT !.subs = Acks(r).subs]
          ELSE /\ down' = Append(down, Answer(r, IF refuse THEN "error"
                                                 ELSE IF r.op = "Hello" /\ ~ServerResp3 THEN "noproto" ELSE "value"))
               /\ server' = IF r.op = "Hello" /\ ServerResp3 THEN [server EXCEPT !.resp3 = TRUE] ELSE server
    /\ UNCHANGED <<conn, replies, next, losses, published>>

Publish ==
    /\ server.subs # {} /\ conn.state \in {"Handshake", "Ready"} /\ published < MaxMessages
    /\ published' = published + 1
    /\ down' = Append(down, [id |-> NoToken, op |-> "message", form |-> Pushed, last |-> FALSE])
    /\ UNCHANGED <<conn, up, server, replies, next, losses>>

Waiting == ToSet(conn.pending) \cup ToSet(conn.offline)
TimedWaiting == {p.token : p \in {q \in Waiting : q.timed /\ q.token # NoToken}}

RedisNext ==
    \/ Connect \/ TransportConnected \/ TlsEstablished \/ Receive \/ LoseTransport \/ HostCloses \/ Publish
    \/ \E k \in Commands : Command(k)
    \/ \E due \in SUBSET TimedWaiting, self \in BOOLEAN : HandleTimeout(due, self)
    \/ \E again \in BOOLEAN : Retry(again)
    \/ \E refuse \in BOOLEAN : Serve(refuse)

RedisSpec == RedisInit /\ [][RedisNext]_redisVars
---------------------------------------------------------------------------
\* An accepted command has one Reply, or is still waiting for it and has none,
\* whatever timed out, was lost and sent again, or was closed.
OneReplyEach ==
    \A t \in Tokens :
        Len(replies[t]) = IF t >= next \/ \E p \in Waiting : p.token = t THEN 0 ELSE 1

\* A reply is the server's answer to that very command - to all of it - and
\* not one to a command that timed out or to a name it subscribed before.
RepliesMatch ==
    \A t \in Tokens : \A i \in DOMAIN replies[t] :
        LET r == replies[t][i] IN r = Failure \/ (r.id = t /\ r.last)

\* Once ready with nothing under way, the two ends agree on what is subscribed.
SubscriptionsAgree ==
    conn.state = "Ready" /\ up = <<>> /\ down = <<>> =>
        /\ ToSet(conn.subs) = server.subs
        /\ conn.pending = <<>>
        /\ conn.subscriber = (server.subs # {})

\* A command that was accepted and has no reply.
IsAccepted(t) == \E p \in Waiting : p.token = t
=============================================================================
