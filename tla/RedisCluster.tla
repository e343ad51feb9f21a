---------------------------- MODULE RedisCluster ----------------------------
(***************************************************************************)
(* The Redis Cluster client and Sentinel discovery                         *)
(* (turnloop-redis/src/cluster.rs over routing.rs).                        *)
(*                                                                         *)
(* ClusterClient keeps a map of slots and one session per node, routes a   *)
(* command by the slot of its keys and follows MOVED and ASK redirects.    *)
(* The cluster is external: it hands slots over, key by key, while the     *)
(* client works.  A slot stands for its keys; the CRC is not modelled.     *)
(* The second specification is sentinel(): seeds asked in turn, a          *)
(* candidate whose ROLE is verified, rounds with a delay between them.     *)
(***************************************************************************)
EXTENDS Naturals, Sequences, FiniteSets, SequencesExt

CONSTANTS
    Nodes, Seed,        \* endpoints, and the one of ConnectOptions
    NoNode,
    Slots,
    Requests,           \* sequences of the slots of a command's keys
    MaxRedirects,
    MaxReconnects,      \* of the Sentinel options
    Seeds,              \* the Sentinels, in order
    MaxMoves,           \* bound: slots handed over, or failovers
    MaxCommands, MaxFaults

VARIABLES
    conn,       \* the ClusterClient, or the discovery
    server,     \* the cluster
    told,       \* what the caller was told
    truth       \* history: who owned, what ran

clusterVars == <<conn, server, told, truth>>

NoRequest == <<>>
Idle == [at |-> "idle", cmd |-> NoRequest, index |-> 0, left |-> 0]

ClusterInit ==
    /\ \E owner \in [Slots -> Nodes] :
          /\ server = [owner |-> owner, target |-> [s \in Slots |-> NoNode], moved |-> {}, asking |-> {}]
          /\ truth = [owners |-> [s \in Slots |-> {owner[s]}], ran |-> 0, misplaced |-> 0,
                      moves |-> 0, faults |-> 0, commands |-> 0]
          \* connect() has refreshed the map from its seed.
          /\ conn = [slots |-> owner, nodes |-> <<[endpoint |-> Seed, open |-> TRUE]>>, task |-> Idle]
    /\ told = [result |-> "none"]

---------------------------------------------------------------------------
(* The cluster (external). *)

Home(s) == IF s \in server.moved THEN server.target[s] ELSE server.owner[s]

HandOver(s, n) ==
    /\ server.target[s] = NoNode /\ n # server.owner[s] /\ truth.moves < MaxMoves
    /\ server' = [server EXCEPT !.target[s] = n]
    /\ truth' = [truth EXCEPT !.moves = @ + 1]
    /\ UNCHANGED <<conn, told>>

MoveKeys(s) ==
    /\ server.target[s] # NoNode /\ s \notin server.moved
    /\ server' = [server EXCEPT !.moved = @ \cup {s}]
    /\ UNCHANGED <<conn, told, truth>>

HandedOver(s) ==
    /\ s \in server.moved
    /\ server' = [server EXCEPT !.owner[s] = server.target[s], !.target[s] = NoNode, !.moved = @ \ {s}]
    /\ truth' = [truth EXCEPT !.owners[s] = @ \cup {server.target[s]}]
    /\ UNCHANGED <<conn, told>>

\* The answer of node n to a command on slot s.
Answer(n, s) ==
    CASE server.owner[s] = n /\ s \notin server.moved -> [kind |-> "value"]
      [] server.owner[s] = n -> [kind |-> "ask", node |-> server.target[s]]
      [] server.target[s] = n /\ n \in server.asking -> [kind |-> "value"]
      [] OTHER -> [kind |-> "moved", node |-> server.owner[s]]

---------------------------------------------------------------------------
(* ClusterClient. *)

Known(e) == {i \in DOMAIN conn.nodes : conn.nodes[i].endpoint = e}
First(cmd) == cmd[1]
\* route_keys: one slot, or a refusal.
Crosses(cmd) == \E i \in DOMAIN cmd : cmd[i] # First(cmd)

\* node(): the session of an endpoint, or a new one.
Session(nodes, e) ==
    IF \E i \in DOMAIN nodes : nodes[i].endpoint = e THEN nodes
    ELSE Append(nodes, [endpoint |-> e, open |-> TRUE])
IndexOf(nodes, e) == CHOOSE i \in DOMAIN nodes : nodes[i].endpoint = e /\ \A j \in 1 .. i - 1 : nodes[j].endpoint # e

Finish(result) ==
    /\ told' = [result |-> result]

Command(cmd) ==
    /\ conn.task.at = "idle" /\ truth.commands < MaxCommands
    /\ truth' = [truth EXCEPT !.commands = @ + 1, !.ran = 0]
    /\ IF cmd # NoRequest /\ Crosses(cmd)
       THEN told' = [result |-> "refused"] /\ UNCHANGED conn
       ELSE LET e == IF cmd = NoRequest THEN conn.nodes[1].endpoint ELSE conn.slots[First(cmd)]
                nodes == Session(conn.nodes, e)
            IN /\ conn' = [conn EXCEPT !.nodes = nodes,
                              !.task = [at |-> "send", cmd |-> cmd, left |-> MaxRedirects,
                                        index |-> IF cmd = NoRequest THEN 1 ELSE IndexOf(nodes, e)]]
               /\ told' = [result |-> "none"]
    /\ UNCHANGED server

\* A new session cannot be made: command() fails, and nothing was sent.
CommandFails(cmd) ==
    /\ conn.task.at = "idle" /\ truth.commands < MaxCommands /\ truth.faults < MaxFaults
    /\ cmd # NoRequest /\ ~Crosses(cmd) /\ Known(conn.slots[First(cmd)]) = {}
    /\ truth' = [truth EXCEPT !.commands = @ + 1, !.faults = @ + 1, !.ran = 0]
    /\ told' = [result |-> "failed"]
    /\ UNCHANGED <<conn, server>>

Here == conn.nodes[conn.task.index]
Ran(n, s) == [truth EXCEPT !.ran = @ + 1, !.misplaced = IF Home(s) = n THEN @ ELSE @ + 1]

\* nodes[index].command(args) is answered.
Sent ==
    LET t == conn.task
        n == Here.endpoint
        reply == IF t.cmd = NoRequest THEN [kind |-> "value"] ELSE Answer(n, First(t.cmd))
        nodes == IF reply.kind = "value" THEN conn.nodes ELSE Session(conn.nodes, reply.node)
    IN  /\ t.at = "send" /\ Here.open
        /\ server' = [server EXCEPT !.asking = @ \ {n}]
        /\ IF reply.kind = "value"
           THEN /\ conn' = [conn EXCEPT !.task = Idle]
                /\ Finish("value")
                /\ truth' = IF t.cmd = NoRequest THEN truth ELSE Ran(n, First(t.cmd))
           ELSE /\ conn' = [conn EXCEPT
                       !.slots = IF reply.kind = "moved" THEN [@ EXCEPT ![First(t.cmd)] = reply.node] ELSE @,
                       !.nodes = nodes,
                       !.task = [t EXCEPT !.at = IF reply.kind = "ask" THEN "asking" ELSE "again",
                                          !.index = IndexOf(nodes, reply.node)]]
                /\ UNCHANGED <<told, truth>>

Asking ==
    /\ conn.task.at = "asking" /\ Here.open
    /\ server' = [server EXCEPT !.asking = @ \cup {Here.endpoint}]
    /\ conn' = [conn EXCEPT !.task.at = "again"]
    /\ UNCHANGED <<told, truth>>

Again ==
    /\ conn.task.at = "again"
    /\ IF conn.task.left = 0
       THEN Finish("limit") /\ conn' = [conn EXCEPT !.task = Idle]
       ELSE conn' = [conn EXCEPT !.task = [@ EXCEPT !.at = "send", !.left = @ - 1]] /\ UNCHANGED told
    /\ UNCHANGED <<server, truth>>

\* A session fails, or the caller drops the future: its Operation closes the
\* session, before or after the node ran the command.
SessionFails(ran) ==
    LET t == conn.task
        n == Here.endpoint
    IN  /\ t.at \in {"send", "asking"} /\ Here.open /\ truth.faults < MaxFaults
        /\ ran => t.at = "send" /\ t.cmd # NoRequest /\ Answer(n, First(t.cmd)).kind = "value"
        /\ conn' = [conn EXCEPT !.nodes[t.index].open = FALSE, !.task = Idle]
        /\ server' = [server EXCEPT !.asking = @ \ {n}]
        /\ Finish("failed")
        /\ truth' = [(IF ran THEN Ran(n, First(t.cmd)) ELSE truth) EXCEPT !.faults = @ + 1]

\* A closed session answers every command with an error.
SessionIsClosed ==
    /\ conn.task.at \in {"send", "asking"} /\ ~Here.open
    /\ conn' = [conn EXCEPT !.task = Idle]
    /\ Finish("failed")
    /\ UNCHANGED <<server, truth>>

\* refresh(): the whole map is replaced by what the seed answers.
Refresh ==
    /\ conn.task.at = "idle" /\ conn.nodes[1].open
    /\ conn' = [conn EXCEPT !.slots = server.owner]
    /\ server' = [server EXCEPT !.asking = @ \ {Seed}]
    /\ UNCHANGED <<told, truth>>

ClusterNext ==
    \/ \E cmd \in Requests : Command(cmd) \/ CommandFails(cmd)
    \/ Sent \/ Asking \/ Again \/ SessionIsClosed \/ Refresh
    \/ \E ran \in BOOLEAN : SessionFails(ran)
    \/ \E s \in Slots : MoveKeys(s) \/ HandedOver(s) \/ (\E n \in Nodes : HandOver(s, n))

ClusterSpec == ClusterInit /\ [][ClusterNext]_clusterVars

---------------------------------------------------------------------------
(* sentinel(): discovery, its driver and its Sentinels. *)

SentinelInit ==
    /\ conn = [state |-> "Master", index |-> 1, attempt |-> 0, candidate |-> NoNode, action |-> "query",
               deadline |-> FALSE, held |-> NoNode]
    /\ \E n \in Nodes : server = [master |-> n, says |-> [i \in DOMAIN Seeds |-> n]]
    /\ told = [result |-> "none", node |-> NoNode]
    /\ truth = [asked |-> <<>>, masters |-> {server.master}, moves |-> 0]

\* failed(): the next seed, or the end of a round.
Failed(d) ==
    IF d.index = Len(Seeds)
    THEN [d EXCEPT !.candidate = NoNode, !.index = @ + 1, !.state = "Retry", !.attempt = @ + 1, !.action = "retry"]
    ELSE [d EXCEPT !.candidate = NoNode, !.index = @ + 1, !.state = "Master", !.action = "query"]

Queried(reply) ==
    /\ told.result = "none" /\ conn.action = "query"
    /\ truth' = [truth EXCEPT !.asked = Append(@, conn.index)]
    /\ conn' = IF reply = NoNode THEN Failed([conn EXCEPT !.action = "none"])
               ELSE [conn EXCEPT !.candidate = reply, !.state = "Role", !.action = "verify"]
    /\ UNCHANGED <<server, told>>

\* ROLE of the candidate; its session is kept whatever it answered.
Verified(fails) ==
    /\ told.result = "none" /\ conn.action = "verify"
    /\ conn' = IF fails THEN Failed([conn EXCEPT !.action = "none"])
               ELSE IF conn.candidate = server.master
               THEN [conn EXCEPT !.held = conn.candidate, !.state = "Done", !.action = "discovered"]
               ELSE Failed([conn EXCEPT !.held = conn.candidate, !.action = "none"])
    /\ truth' = [truth EXCEPT !.masters = {server.master}]
    /\ UNCHANGED <<server, told>>

Discovered ==
    /\ told.result = "none" /\ conn.action = "discovered"
    /\ told' = [result |-> "client", node |-> conn.held]
    /\ UNCHANGED <<conn, server, truth>>

RetryRound ==
    /\ told.result = "none" /\ conn.action = "retry"
    /\ conn' = IF conn.attempt <= MaxReconnects
               THEN [conn EXCEPT !.state = "Waiting", !.deadline = TRUE, !.action = "none"]
               ELSE [conn EXCEPT !.state = "Done", !.action = "stopped"]
    /\ UNCHANGED <<server, told, truth>>

RoundIsDue ==
    /\ told.result = "none" /\ conn.action = "none" /\ conn.deadline
    /\ conn' = [conn EXCEPT !.deadline = FALSE, !.index = 1, !.state = "Master", !.action = "query"]
    /\ UNCHANGED <<server, told, truth>>

Stopped ==
    /\ told.result = "none" /\ conn.action = "stopped"
    /\ told' = [result |-> "exhausted", node |-> NoNode]
    /\ UNCHANGED <<conn, server, truth>>

\* The caller's deadline, seen between two actions.
CallTimesOut ==
    /\ told.result = "none"
    /\ told' = [result |-> "late", node |-> NoNode]
    /\ UNCHANGED <<conn, server, truth>>

Failover(n) ==
    /\ n # server.master /\ truth.moves < MaxMoves
    /\ server' = [server EXCEPT !.master = n]
    /\ truth' = [truth EXCEPT !.moves = @ + 1, !.masters = @ \cup {n}]
    /\ UNCHANGED <<conn, told>>

SentinelLearns(i) ==
    /\ server.says[i] # server.master
    /\ server' = [server EXCEPT !.says[i] = server.master]
    /\ UNCHANGED <<conn, told, truth>>

SentinelNext ==
    \/ conn.index \in DOMAIN Seeds /\ \E reply \in {NoNode, server.says[conn.index]} : Queried(reply)
    \/ \E fails \in BOOLEAN : Verified(fails)
    \/ Discovered \/ RetryRound \/ RoundIsDue \/ Stopped \/ CallTimesOut
    \/ \E n \in Nodes : Failover(n)
    \/ \E i \in DOMAIN Seeds : SentinelLearns(i)

SentinelSpec == SentinelInit /\ [][SentinelNext]_clusterVars

---------------------------------------------------------------------------
\* An entry of the slot map is a node that was the slot's owner: only MOVED
\* and CLUSTER SLOTS change it, an ASK never does.
MapKnowsOwners == \A s \in Slots : conn.slots[s] \in truth.owners[s]

\* One call of command() runs it at most once, exactly once when it returns a
\* value, and on the node that holds its keys: redirects are followed, other
\* failures are not.
RunsWhereItBelongs ==
    /\ truth.ran <= 1 /\ truth.misplaced = 0
    /\ conn.task.at = "idle" /\ told.result \in {"refused", "limit"} => truth.ran = 0

\* The client that sentinel() returns talks to a node that was the master
\* when, or since, it answered ROLE, and not to an earlier candidate.
DiscoveredIsMaster == told.result = "client" => told.node \in truth.masters

\* The seeds are asked in turn, round after round, and at most
\* max_reconnects + 1 rounds are made.
SeedsInTurn ==
    /\ Len(truth.asked) <= Len(Seeds) * (MaxReconnects + 1)
    /\ told.result = "exhausted" => Len(truth.asked) = Len(Seeds) * (MaxReconnects + 1)
    /\ \A i \in DOMAIN truth.asked : truth.asked[i] = 1 + ((i - 1) % Len(Seeds))
=============================================================================
