---------------------------- MODULE MongoClient -----------------------------
(***************************************************************************)
(* The MongoDB client, protocols/turnloop-mongodb/src/client.rs, over its  *)
(* topology and the retry coordinator of operation.rs: one task checks     *)
(* every known server on a connection of its own and keeps the topology    *)
(* and the pools, while a command selects a server, checks a connection    *)
(* out, is sent, and is retried once.  All of it runs on one thread; what  *)
(* interleaves are the tasks at their awaits and the replica set, whose    *)
(* members are elected, step down, restart and are removed while replies   *)
(* are under way.                                                          *)
(*                                                                         *)
(* conn    the topology; each server's probe; each server's pool: none,    *)
(*         ready or paused; the operation of the current command           *)
(* up      the command on its way to a member, or <<>>                     *)
(* down    the answer on its way back, or <<>>                             *)
(* server  the members and the writes they have applied, by transaction    *)
(* told    the outcomes of the commands                                    *)
(* truth   how often the write of the command was applied; the highest     *)
(*         election the client followed; the faults so far                 *)
(***************************************************************************)
EXTENDS Naturals, Sequences, SequencesExt, FiniteSets, TLC

CONSTANTS
    NoAddress, NoSet, NoVersion,
    Members, Seeds,     \* the replica set; those the client starts from
    Wire,               \* the members' wire version
    Kinds,              \* what commands may be: Read, Write
    Preference, TagSets, RetryEnabled,
    MaxCommands, MaxFaults,
    MaxClears,          \* bound on the times a pool is cleared
    Lossy,              \* connections may break
    Shrinks             \* a reconfiguration may remove a member

VARIABLES conn, up, down, server, told, truth
clientVars == <<conn, up, down, server, told, truth>>

---------------------------------------------------------------------------
(***************************************************************************)
(* The MongoDB topology, protocols/turnloop-mongodb/src/topology.rs: what  *)
(* a client believes of a deployment, as a value that hello replies,       *)
(* errors of operations and timeouts change.  `check' is the next time a   *)
(* server is checked: none while a check is out, due, or later.  An absent *)
(* version, election, name or topologyVersion is 0 or its No value, which  *)
(* sorts below the others as None does.  Of the events, the client reads   *)
(* Check, ServerRemoved and ClearPool; the others only inform and are left *)
(* out, as are round-trip times: the latency window and the choice of two  *)
(* pick one candidate, whichever.                                          *)
(***************************************************************************)
Readable == {"Standalone", "Mongos", "RSPrimary", "RSSecondary"}
InSet == {"RSPrimary", "RSSecondary", "RSArbiter", "RSOther"}
ReplicaSet == {"ReplicaSetNoPrimary", "ReplicaSetWithPrimary"}

Unknown(generation) ==
    [kind |-> "Unknown", set |-> NoSet, hosts |-> {}, me |-> NoAddress, primary |-> NoAddress, version |-> 0,
     election |-> 0, wire |-> 0, sessions |-> FALSE, topologyVersion |-> NoVersion, generation |-> generation,
     lags |-> FALSE, tags |-> {}, check |-> "due", operations |-> 0]

Later(s) == [s EXCEPT !.check = "later"]

Parse(hello, old) ==
    IF ~hello.ok THEN Later(Unknown(old.generation))
    ELSE [f \in DOMAIN old |->
            CASE f = "generation" -> old.generation
              [] f = "operations" -> old.operations
              [] f = "check" -> "later"
              [] OTHER -> hello[f]]

NewTopology(direct, set, seeds) ==
    [kind |-> IF direct THEN "Single" ELSE IF set # NoSet THEN "ReplicaSetNoPrimary" ELSE "Unknown",
     set |-> set, servers |-> [a \in seeds |-> Unknown(0)], version |-> 0, election |-> 0,
     seeds |-> Cardinality(seeds), events |-> <<>>]

Tell(t, kind, a) == [t EXCEPT !.events = Append(@, [kind |-> kind, address |-> a])]

HandleTimeout(t) ==
    LET due == {a \in DOMAIN t.servers : t.servers[a].check = "due"}
    IN  [t EXCEPT !.servers = [a \in DOMAIN @ |-> IF a \in due THEN [@[a] EXCEPT !.check = "none"] ELSE @[a]],
                  !.events = @ \o [i \in 1 .. Cardinality(due) |-> [kind |-> "Check", address |-> SetToSeq(due)[i]]]]

\* Those checked less than half a second ago (recent) wait for the rest of it.
RequestCheck(t, recent) ==
    [t EXCEPT !.servers = [a \in DOMAIN @ |->
        IF @[a].check = "due" THEN @[a] ELSE [@[a] EXCEPT !.check = IF a \in recent THEN "later" ELSE "due"]]]

Older(current, incoming, equal) ==
    /\ current # NoVersion /\ incoming # NoVersion /\ current.process = incoming.process
    /\ IF equal THEN current.counter >= incoming.counter ELSE current.counter > incoming.counter

AddHosts(t, hosts) ==
    [t EXCEPT !.servers = @ @@ [a \in hosts \ DOMAIN @ |-> Unknown(0)]]

Dismiss(t, gone) ==
    LET lost == gone \cap DOMAIN t.servers
    IN  [t EXCEPT !.servers = [a \in DOMAIN @ \ lost |-> @[a]],
                  !.events = @ \o [i \in 1 .. Cardinality(lost) |->
                                      [kind |-> "ServerRemoved", address |-> SetToSeq(lost)[i]]]]

CheckPrimary(t) ==
    [t EXCEPT !.kind = IF \E a \in DOMAIN t.servers : t.servers[a].kind = "RSPrimary"
                       THEN "ReplicaSetWithPrimary" ELSE "ReplicaSetNoPrimary"]

Settled(t) == IF t.kind \in ReplicaSet THEN CheckPrimary(t) ELSE t

Below(a, b, c, d) == a < c \/ (a = c /\ b < d)

\* Servers of wire version 17 are ordered by election first.
StalePrimary(t, s) ==
    IF s.wire >= 17 THEN Below(s.election, s.version, t.election, t.version)
    ELSE /\ 0 \notin {s.version, s.election, t.version, t.election}
         /\ Below(s.version, s.election, t.version, t.election)

RaiseBoth(t, s) ==
    IF s.wire >= 17 THEN [t EXCEPT !.election = s.election, !.version = s.version]
    ELSE [t EXCEPT !.election = IF 0 \notin {s.election, s.version} THEN s.election ELSE @,
                   !.version = IF s.version > @ THEN s.version ELSE @]

Exactly(t, hosts) == Dismiss(t, DOMAIN t.servers \ hosts)

\* A newer primary ends the rule of any other, and says who is a member.
FollowPrimary(t, a, s) ==
    LET raised == RaiseBoth(t, s)
        alone == [raised EXCEPT !.servers = [b \in DOMAIN @ |->
                    IF b # a /\ @[b].kind = "RSPrimary" THEN Unknown(@[b].generation) ELSE @[b]]]
    IN  Exactly(AddHosts(alone, s.hosts), s.hosts)

FromPrimary(t, a, s) ==
    IF StalePrimary(t, s) THEN [t EXCEPT !.servers[a] = Later(Unknown(s.generation))] ELSE FollowPrimary(t, a, s)

Hinted(t, p) ==
    IF p \in DOMAIN t.servers /\ t.servers[p].kind = "Unknown"
    THEN [t EXCEPT !.servers[p].kind = "PossiblePrimary"] ELSE t

\* A member that is not primary adds to what is known while no primary is.
FromMember(t, a, s) ==
    LET heard == IF t.kind # "ReplicaSetWithPrimary" THEN Hinted(AddHosts(t, s.hosts), s.primary) ELSE t
    IN  Dismiss(heard, IF s.me \in {NoAddress, a} THEN {} ELSE {a})

FromReplicaSet(t, a, s) ==
    LET named == [t EXCEPT !.set = IF @ = NoSet THEN s.set ELSE @]
        placed == IF named.set # s.set THEN Dismiss(named, {a})
                  ELSE IF s.kind = "RSPrimary" THEN FromPrimary(named, a, s) ELSE FromMember(named, a, s)
    IN  [placed EXCEPT !.kind = IF @ = "Unknown" THEN "ReplicaSetNoPrimary" ELSE @]

\* What the kinds of the topology and of the server say together.
Discovered(t, a, s) ==
    CASE s.kind = "Standalone" ->
            IF t.kind = "Unknown" /\ t.seeds = 1 THEN [t EXCEPT !.kind = "Single"] ELSE Dismiss(t, {a})
      [] s.kind = "Mongos" -> IF t.kind = "Unknown" THEN [t EXCEPT !.kind = "Sharded"] ELSE Dismiss(t, {a})
      [] s.kind \in InSet -> FromReplicaSet(t, a, s)
      [] OTHER -> t

Update(t, a, hello) ==
    LET parsed == Parse(hello, t.servers[a])
        failed == parsed.kind = "Unknown"
        s == IF failed THEN [parsed EXCEPT !.generation = @ + 1] ELSE parsed
        put == [t EXCEPT !.servers[a] = s]
        kept == IF failed THEN Tell(put, "ClearPool", a) ELSE put
    IN  IF a \notin DOMAIN t.servers THEN t
        ELSE IF Older(t.servers[a].topologyVersion, hello.topologyVersion, FALSE) THEN t
        ELSE IF t.kind = "Single"
        THEN IF t.set \notin {NoSet, s.set} THEN [kept EXCEPT !.servers[a] = Later(Unknown(s.generation))] ELSE kept
        ELSE IF t.kind = "Sharded" THEN IF s.kind \in {"Unknown", "Mongos"} THEN kept ELSE Dismiss(kept, {a})
        ELSE Settled(Discovered(kept, a, s))

\* The answers that say a server changed its state, and those that say it stops.
StateChange == {"NotPrimary", "Shutdown"}

ApplicationError(t, a, e) ==
    LET s == t.servers[a]
        changed == e.code \in StateChange
        clear == e.kind # "Command" \/ e.code = "Shutdown" \/ e.wire < 8
        lost == [t EXCEPT !.servers[a] =
                    [Later(Unknown(s.generation + IF clear THEN 1 ELSE 0)) EXCEPT
                        !.topologyVersion = IF changed THEN e.topologyVersion ELSE NoVersion]]
        news == IF clear THEN Tell(lost, "ClearPool", a) ELSE lost
    IN  IF \/ a \notin DOMAIN t.servers
           \/ e.generation < s.generation \/ Older(s.topologyVersion, e.topologyVersion, TRUE)
           \/ ~changed /\ e.kind # "Network"
        THEN t
        ELSE Settled(news)

---------------------------------------------------------------------------
(* Server selection.                                                       *)

Wanted(t, s, preference, primary) ==
    IF t.kind \in {"Single", "Sharded"} THEN s.kind \notin {"Unknown", "PossiblePrimary", "RSGhost"}
    ELSE /\ s.kind \in CASE preference = "Primary" -> {"RSPrimary"}
                         [] preference = "PrimaryPreferred" /\ primary -> {"RSPrimary"}
                         [] preference = "Nearest" -> {"RSPrimary", "RSSecondary"}
                         [] OTHER -> {"RSSecondary"}
         /\ ~(s.kind = "RSSecondary" /\ s.lags)

\* The first tag set that some candidate has picks those that have it.
Tagged(t, tags, out) ==
    LET having(i) == {a \in out : tags[i] \subseteq t.servers[a].tags}
        some == {i \in DOMAIN tags : having(i) # {}}
    IN  IF tags = <<>> THEN out
        ELSE IF some = {} THEN {} ELSE having(CHOOSE i \in some : \A j \in some : i <= j)

CandidatesInner(t, preference, tags, excluded) ==
    LET open == DOMAIN t.servers \ excluded
        primary == \E a \in open : t.servers[a].kind = "RSPrimary"
        wanted == {a \in open : Wanted(t, t.servers[a], preference, primary)}
        out == IF t.kind \in {"Single", "Sharded"} \/ (preference = "PrimaryPreferred" /\ primary)
               THEN wanted ELSE Tagged(t, tags, wanted)
    IN  IF out = {} /\ preference = "SecondaryPreferred"
        THEN {a \in open : t.servers[a].kind = "RSPrimary"} ELSE out

SelectReusing(t, preference, tags, excluded) ==
    LET out == CandidatesInner(t, preference, tags, excluded)
    IN  IF out = {} /\ excluded # {} THEN CandidatesInner(t, preference, tags, {}) ELSE out

OperationStarted(t, a) == [t EXCEPT !.servers[a].operations = @ + 1]

OperationFinished(t, a) ==
    IF a \in DOMAIN t.servers /\ t.servers[a].operations > 0 THEN [t EXCEPT !.servers[a].operations = @ - 1] ELSE t

---------------------------------------------------------------------------
(* The client. *)

NoProbe == [state |-> "none", hello |-> [ok |-> FALSE]]
NoOperation ==
    [state |-> "Idle", kind |-> "Read", number |-> 0, address |-> NoAddress, failed |-> NoAddress, attempts |-> 0,
     enabled |-> FALSE, active |-> FALSE]

---------------------------------------------------------------------------
(* The replica set (external).                                             *)

Member(a) ==
    [up |-> TRUE, primary |-> FALSE, election |-> 0, version |-> 1, hosts |-> Members,
     leader |-> NoAddress, process |-> 1, counter |-> 1]

VersionOf(m) == [process |-> m.process, counter |-> m.counter]

HelloOf(a, m) ==
    [ok |-> TRUE, kind |-> IF m.primary THEN "RSPrimary" ELSE "RSSecondary", set |-> "rs", hosts |-> m.hosts, me |-> a,
     primary |-> m.leader, version |-> m.version, election |-> m.election, wire |-> Wire, sessions |-> TRUE,
     topologyVersion |-> VersionOf(m), lags |-> FALSE, tags |-> {}]

Changed(m) == [m EXCEPT !.counter = @ + 1]
Spent(a) == a \in DOMAIN conn.topology.servers /\ conn.topology.servers[a].generation >= MaxClears
Faulty == /\ truth.faults < MaxFaults
          /\ truth' = [truth EXCEPT !.faults = @ + 1]
          /\ UNCHANGED <<conn, up, down, told>>
Terms == {server.members[a].election : a \in Members}
Newest == CHOOSE e \in Terms : \A f \in Terms : f <= e

\* A member wins an election; the old primary learns of it later.
Elect(a) ==
    /\ server.members[a].up /\ ~server.members[a].primary /\ Faulty
    /\ server' = [server EXCEPT !.members[a] =
                    [Changed(@) EXCEPT !.primary = TRUE, !.election = Newest + 1, !.leader = a]]

Learn(a, b) ==
    LET mine == server.members[a]
        theirs == server.members[b]
    IN  /\ mine.up /\ theirs.primary /\ theirs.election = Newest /\ a # b
        /\ mine.primary \/ mine.leader # b \/ mine.version # theirs.version
        /\ server' = [server EXCEPT !.members[a] =
                        [Changed(@) EXCEPT !.primary = FALSE, !.leader = b, !.version = theirs.version,
                                           !.hosts = theirs.hosts, !.election = theirs.election]]
        /\ UNCHANGED <<conn, up, down, told, truth>>

Stop(a) ==
    /\ server.members[a].up /\ Faulty
    /\ server' = [server EXCEPT !.members[a] =
                    [@ EXCEPT !.up = FALSE, !.primary = FALSE, !.process = @ + 1, !.counter = 1, !.leader = NoAddress]]

Start(a) ==
    /\ ~server.members[a].up
    /\ server' = [server EXCEPT !.members[a].up = TRUE]
    /\ UNCHANGED <<conn, up, down, told, truth>>

Reconfigure(a, gone) ==
    LET m == server.members[a]
    IN  /\ Shrinks /\ m.primary /\ m.election = Newest /\ gone # a /\ gone \in m.hosts /\ Faulty
        /\ server' = [server EXCEPT !.members[a] =
                        [Changed(@) EXCEPT !.version = @ + 1, !.hosts = @ \ {gone}]]

\* A member answers a probe as it stands, or cannot.
Answers(a) ==
    LET m == server.members[a]
    IN  /\ conn.probes[a].state = "asked" /\ (m.up \/ ~Spent(a))
        /\ conn' = [conn EXCEPT !.probes[a] =
                      IF m.up THEN [state |-> "answered", hello |-> HelloOf(a, m)] ELSE [@ EXCEPT !.state = "failed"]]
        /\ UNCHANGED <<up, down, server, told, truth>>

\* It applies a write once for each transaction number, and a write without
\* one each time.
Serves ==
    LET c == up[1]
        m == server.members[c.to]
        fresh == c.kind = "Write" /\ m.primary /\ (c.txn = 0 \/ c.txn \notin server.applied)
        code == IF ~m.up THEN "Lost" ELSE IF c.kind = "Write" /\ ~m.primary THEN "NotPrimary" ELSE "ok"
    IN  /\ up # <<>> /\ up' = <<>> /\ (m.up \/ ~Spent(c.to))
        /\ \E answer \in {code} \cup (IF Lossy /\ truth.faults < MaxFaults /\ ~Spent(c.to) THEN {"Lost"} ELSE {})
                                \cup (IF m.up /\ ~m.primary /\ ~Spent(c.to) THEN {"Shutdown"} ELSE {}) :
              /\ down' = <<[code |-> answer, version |-> VersionOf(m)]>>
              /\ truth' = [truth EXCEPT !.applied = @ + IF fresh /\ answer # "Shutdown" THEN 1 ELSE 0,
                                        !.faults = @ + IF answer = "Lost" /\ code # "Lost" THEN 1 ELSE 0]
              /\ server' = IF fresh THEN [server EXCEPT !.applied = @ \cup {c.txn}] ELSE server
        /\ UNCHANGED <<conn, told>>

---------------------------------------------------------------------------
(* The monitor task.                                                       *)

\* A finished probe updates the topology; a server that can be read from has
\* a pool, which becomes ready.
NetworkError(s) ==
    [generation |-> s.generation, wire |-> s.wire, kind |-> "Network", code |-> "none", topologyVersion |-> NoVersion]

NetworkFailure(t, a) ==
    IF a \in DOMAIN t.servers THEN ApplicationError(t, a, NetworkError(t.servers[a])) ELSE t

Finished(c, a, answered, t) ==
    LET open == answered /\ a \in DOMAIN t.servers /\ t.servers[a].kind \in Readable
    IN  [c EXCEPT !.topology = t, !.probes[a] = NoProbe, !.pools[a] = IF open THEN "ready" ELSE @]

Finish(c, a) ==
    LET probe == c.probes[a]
        answered == probe.state = "answered"
    IN  Finished(c, a, answered, IF answered THEN Update(c.topology, a, probe.hello) ELSE NetworkFailure(c.topology, a))

React(c, e) ==
    LET a == e.address
    IN  CASE e.kind = "Check" -> IF c.probes[a] = NoProbe THEN [c EXCEPT !.probes[a].state = "asked"] ELSE c
          [] e.kind = "ClearPool" -> IF c.pools[a] = "none" THEN c ELSE [c EXCEPT !.pools[a] = "paused"]
          [] e.kind = "ServerRemoved" -> [c EXCEPT !.pools[a] = "none", !.probes[a] = NoProbe]

Reacted(c, timed) == FoldLeft(React, [c EXCEPT !.topology = [timed EXCEPT !.events = <<>>]], timed.events)
Timed(c) == Reacted(c, HandleTimeout(c.topology))

MonitorPoll ==
    \E finished \in SUBSET {a \in Members : conn.probes[a].state \in {"answered", "failed"}} :
        /\ \/ finished # {}
           \/ \E a \in DOMAIN conn.topology.servers : conn.topology.servers[a].check = "due"
        /\ conn' = Timed(FoldLeft(Finish, conn, SetToSeq(finished)))
        /\ truth' = [truth EXCEPT !.election = IF conn'.topology.election > @ THEN conn'.topology.election ELSE @]
        /\ UNCHANGED <<up, down, server, told>>

\* The time of a later check comes.
Passes(a) ==
    /\ a \in DOMAIN conn.topology.servers /\ conn.topology.servers[a].check = "later"
    /\ conn' = [conn EXCEPT !.topology.servers[a].check = "due"]
    /\ UNCHANGED <<up, down, server, told, truth>>

---------------------------------------------------------------------------
(* A command.                                                              *)

op == conn.operation
Ended == {"Idle", "Complete", "Failed"}

\* `command' begins an operation with the next transaction number.
Command(kind) ==
    /\ op.state \in Ended /\ Len(told) < MaxCommands /\ Len(told) = op.number
    /\ conn' = [conn EXCEPT !.operation =
                  [NoOperation EXCEPT !.state = "Select", !.kind = kind, !.number = op.number + 1,
                                      !.enabled = RetryEnabled]]
    /\ truth' = [truth EXCEPT !.applied = 0]
    /\ UNCHANGED <<up, down, server, told>>

\* The command ends: with its operation, or abandoned (Cancel::drop).
End(c, outcome) ==
    /\ conn' = [c EXCEPT !.operation.state = IF outcome = "ok" THEN "Complete" ELSE "Failed",
                         !.operation.active = FALSE,
                         !.topology = IF op.active THEN OperationFinished(@, op.address) ELSE @]
    /\ told' = Append(told, outcome)
    /\ UNCHANGED <<up, down, server, truth>>

Candidates ==
    SelectReusing(conn.topology, IF op.kind = "Write" THEN "Primary" ELSE Preference, TagSets, {op.failed})

\* `select' picks a candidate and `selected' decorates the command; a write
\* that the server could not recognise twice is not retried.
Selected(a) ==
    LET s == conn.topology.servers[a]
        twice == s.sessions /\ s.kind # "Standalone" /\ s.wire >= 6
    IN  /\ op.state = "Select"
        /\ IF op.attempts > 0 /\ op.kind = "Write" /\ ~twice THEN End(conn, "failed")
           ELSE /\ conn' = [conn EXCEPT !.operation.address = a, !.operation.state = "Checkout",
                                        !.operation.enabled = @ /\ (op.kind = "Read" \/ twice)]
                /\ UNCHANGED <<up, down, server, told, truth>>

Select == \E a \in Candidates : Selected(a)

SelectWaits ==
    /\ op.state = "Select" /\ Candidates = {}
    /\ \E recent \in SUBSET DOMAIN conn.topology.servers :
          conn' = [conn EXCEPT !.topology = RequestCheck(@, recent)]
    /\ UNCHANGED <<up, down, server, told, truth>>

\* The deadline of the selection, of the checkout or of the exchange: the
\* command returns and its operation is cancelled.
TimesOut ==
    /\ op.state \notin Ended
    /\ IF op.state = "Waiting"
       THEN /\ conn' = [conn EXCEPT !.operation.state = "Failed", !.operation.active = FALSE,
                                    !.topology = OperationFinished(@, op.address)]
            /\ told' = Append(told, "timeout") /\ up' = <<>> /\ down' = <<>>
            /\ UNCHANGED <<server, truth>>
       ELSE End(conn, "timeout")

Checkout ==
    /\ op.state = "Checkout" /\ ~op.active
    /\ IF conn.pools[op.address] = "none" \/ op.address \notin DOMAIN conn.topology.servers THEN End(conn, "vanished")
       ELSE /\ conn' = [conn EXCEPT !.operation.active = TRUE, !.topology = OperationStarted(@, op.address)]
            /\ UNCHANGED <<up, down, server, told, truth>>

\* A connection of a ready pool carries the command.
Send ==
    /\ op.state = "Checkout" /\ op.active /\ conn.pools[op.address] = "ready"
    /\ conn' = [conn EXCEPT !.operation.state = "Waiting"]
    /\ up' = <<[to |-> op.address, kind |-> op.kind, txn |-> IF op.kind = "Write" /\ op.enabled THEN op.number ELSE 0]>>
    /\ UNCHANGED <<down, server, told, truth>>

\* What Operation::failed makes of an error: one more round, or the end.
Again(c) ==
    [c EXCEPT !.operation = [@ EXCEPT !.state = "Select", !.attempts = 1, !.failed = op.address, !.active = FALSE],
              !.topology = OperationFinished(@, op.address)]

Fails(c) ==
    IF op.enabled /\ op.attempts = 0
    THEN conn' = Again(c) /\ UNCHANGED <<up, down, server, told, truth>>
    ELSE End(c, "failed")

\* A pool that is paused, gone or cannot connect fails the checkout; a failed
\* connection pauses its pool.
CheckoutFails ==
    /\ op.state = "Checkout" /\ op.active
    /\ conn.pools[op.address] # "ready" \/ ~server.members[op.address].up
    /\ Fails(IF conn.pools[op.address] = "none" THEN conn ELSE [conn EXCEPT !.pools[op.address] = "paused"])

\* The answer: done; or an error, which the topology hears as of now, and all
\* servers are checked.
ErrorOf(s, answer) ==
    [NetworkError(s) EXCEPT !.kind = IF answer.code = "Lost" THEN "Network" ELSE "Command", !.code = answer.code,
                            !.topologyVersion = IF answer.code = "Lost" THEN NoVersion ELSE answer.version]

Response ==
    /\ op.state = "Waiting" /\ down # <<>>
    /\ LET a == op.address
           t == conn.topology
           heard == IF a \in DOMAIN t.servers THEN ApplicationError(t, a, ErrorOf(t.servers[a], down[1])) ELSE t
           finished == [conn EXCEPT !.topology = OperationFinished(@, a),
                                    !.operation.active = FALSE, !.operation.state = "Complete"]
       IN  IF down[1].code = "ok"
           THEN conn' = finished /\ told' = Append(told, "ok")
           ELSE \E recent \in {{}, {a}} :
                  LET c == [conn EXCEPT !.topology = RequestCheck(heard, recent)]
                  IN  IF op.enabled /\ op.attempts = 0
                      THEN conn' = Again(c) /\ told' = told
                      ELSE /\ conn' = [c EXCEPT !.operation.state = "Failed", !.operation.active = FALSE,
                                                !.topology = OperationFinished(@, a)]
                           /\ told' = Append(told, "failed")
    /\ down' = <<>> /\ UNCHANGED <<up, server, truth>>

---------------------------------------------------------------------------
ClientInit ==
    /\ conn = [topology |-> NewTopology(FALSE, NoSet, Seeds), probes |-> [a \in Members |-> NoProbe],
               pools |-> [a \in Members |-> "none"], operation |-> NoOperation]
    /\ up = <<>> /\ down = <<>> /\ told = <<>>
    /\ \E first \in Members :
          server = [members |-> [a \in Members |->
                       [Member(a) EXCEPT !.leader = first, !.primary = (a = first), !.election = 1]], applied |-> {}]
    /\ truth = [applied |-> 0, election |-> 0, faults |-> 0]

ClientNext ==
    \/ \E a \in Members : Elect(a) \/ Stop(a) \/ Start(a) \/ Answers(a) \/ Passes(a)
    \/ \E a, b \in Members : Learn(a, b) \/ Reconfigure(a, b)
    \/ Serves \/ MonitorPoll
    \/ \E k \in Kinds : Command(k)
    \/ Select \/ SelectWaits \/ TimesOut \/ Checkout \/ Send \/ CheckoutFails \/ Response

---------------------------------------------------------------------------
topology == conn.topology
Primaries == {a \in DOMAIN topology.servers : topology.servers[a].kind = "RSPrimary"}

\* The client never holds two primaries, knows whether it has one, and never
\* goes back to an older election, whatever the order in which the members'
\* answers come in (Topology::update).
OnePrimary ==
    /\ Cardinality(Primaries) <= 1
    /\ topology.kind \in ReplicaSet => ((topology.kind = "ReplicaSetWithPrimary") <=> (Primaries # {}))
    /\ topology.election = truth.election
    /\ \A a \in Primaries : topology.servers[a].election = truth.election

\* A server that selection may return has a pool to check out from, and a pool
\* belongs to a known server.
PoolsFollowServers ==
    \A a \in Members :
        /\ (a \in DOMAIN topology.servers /\ topology.servers[a].kind \in Readable) => conn.pools[a] # "none"
        /\ conn.pools[a] # "none" => a \in DOMAIN topology.servers

\* A retried write is applied once, and one that is reported done was.
WrittenOnce ==
    /\ truth.applied <= 1
    /\ (op.state = "Complete" /\ op.kind = "Write") => truth.applied = 1

\* The load that selection compares never counts an operation twice or after
\* its end.
LoadIsBounded ==
    \A a \in DOMAIN topology.servers :
        topology.servers[a].operations <= IF op.active /\ op.address = a THEN 1 ELSE 0

=============================================================================
