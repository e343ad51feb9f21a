------------------------- MODULE PostgresConnection -------------------------
(***************************************************************************)
(* The sans-I/O PostgreSQL connection (turnloop-postgres/src/lib.rs): TLS  *)
(* negotiation and authentication, pipelined simple and extended queries   *)
(* whose answers are matched by order, named statements, COPY IN, time-    *)
(* outs and closing.  The host, the transport and the server are external: *)
(* the host does what an event asks for and sends COPY commands alone, the *)
(* server answers in order.  Messages are records with a `tag'; the        *)
(* messages of one extended query, Sync included, travel as one.           *)
(***************************************************************************)
EXTENDS Naturals, Sequences, FiniteSets, SequencesExt

CONSTANTS
    Tokens,             \* 1 .. n, used in this order
    Commands,           \* [extended, name, copy, begins] of what the host submits
    Timed,              \* tokens submitted with a deadline
    MaxPending,         \* max_pending
    Ssl,                \* "Disable", "Prefer" or "Require"
    BindingRequired,    \* channel_binding_required
    HostBinds,          \* the host can derive channel-binding data
    ServerTls,          \* the server accepts SSLRequest
    Method,             \* "trust", "password" or "sasl"
    Mechanisms,         \* of "plain" and "plus", which the server offers
    MaxData,            \* bound: CopyData messages under way
    Faults              \* transports are lost, deadlines pass, errors are fatal

VARIABLES
    conn,       \* the Connection, its unsent output included
    up, down,   \* messages under way, rx included
    server,     \* the server's session
    told,       \* per token, its Completed events; and the Closed events
    truth       \* per token: new, sent, and how the server ended it

pgVars == <<conn, up, down, server, told, truth>>

NoName == ""
NoToken == 0
Names == {k.name : k \in Commands} \ {NoName}
Msg(tag) == [tag |-> tag]
PgClosed(state) == state \in {"Closing", "Closed"}

PgInit ==
    /\ conn = [state |-> IF Ssl = "Disable" THEN "Auth" ELSE "Ssl",
               out |-> <<Msg(IF Ssl = "Disable" THEN "Startup" ELSE "SSLRequest")>>,
               pending |-> <<>>, statements |-> [n \in Names |-> "none"], scram |-> FALSE, authOk |-> FALSE,
               tls |-> FALSE, binding |-> FALSE, plus |-> FALSE, copyIn |-> FALSE, transaction |-> "I",
               broken |-> FALSE]
    /\ up = <<>> /\ down = <<>>
    /\ server = [mode |-> "start", statements |-> {}, transaction |-> "I", copying |-> <<>>]
    /\ told = [t \in Tokens \cup {NoToken} |-> <<>>]
    /\ truth = [t \in Tokens |-> "new"]

---------------------------------------------------------------------------
(* Calls of the host.                                                      *)

Abort(c) ==
    IF PgClosed(c.state) THEN c ELSE [c EXCEPT !.state = "Closing", !.out = <<>>, !.copyIn = FALSE]

\* An Err of next_event, after which the host aborts.
Protocol(c) == [Abort(c) EXCEPT !.broken = TRUE]

Accept(c, t) ==
    /\ c.state = "Ready" /\ ~c.copyIn
    /\ Len(c.pending) < MaxPending
    /\ \A i \in DOMAIN c.pending : c.pending[i].token # t

\* The host sends a COPY when no command is pending and nothing after it.
Alone(k) ==
    /\ k.copy => conn.pending = <<>>
    /\ \A i \in DOMAIN conn.pending : ~conn.pending[i].copy \/ conn.pending[i].finished

FinishCommand(t, k, parse, message) ==
    /\ conn' = [conn EXCEPT !.out = Append(@, message),
                            !.statements = IF parse = NoName THEN @ ELSE [@ EXCEPT ![parse] = "pending"],
                            !.pending = Append(@, [token |-> t, failed |-> FALSE, extended |-> k.extended,
                                                   parse |-> parse, copy |-> k.copy, finished |-> FALSE])]
    /\ truth' = [truth EXCEPT ![t] = "sent"]
    /\ UNCHANGED <<up, down, server, told>>

NextToken(t) == truth[t] = "new" /\ \A s \in Tokens : s < t => truth[s] # "new"

Query(t, k) ==
    /\ ~k.extended /\ NextToken(t) /\ Accept(conn, t) /\ Alone(k)
    /\ FinishCommand(t, k, NoName, [tag |-> "Query", token |-> t, command |-> k])

Execute(t, k) ==
    /\ k.extended /\ NextToken(t) /\ Accept(conn, t) /\ Alone(k)
    /\ k.name # NoName => conn.statements[k.name] # "pending"
    /\ LET parse == k.name = NoName \/ conn.statements[k.name] = "none"
       IN FinishCommand(t, k, IF parse THEN k.name ELSE NoName,
                        [tag |-> "Execute", token |-> t, command |-> k, parse |-> parse])

CopyData ==
    /\ conn.copyIn /\ Len(conn.out \o up) < MaxData
    /\ conn' = [conn EXCEPT !.out = Append(@, Msg("CopyData"))]
    /\ UNCHANGED <<up, down, server, told, truth>>

CopyFinish(how) ==
    /\ conn.copyIn
    /\ conn' = [conn EXCEPT !.copyIn = FALSE, !.pending[1].finished = TRUE,
                            !.out = Append(@, Msg(how)) \o
                                    (IF conn.pending[1].extended THEN <<Msg("Sync")>> ELSE <<>>)]
    /\ UNCHANGED <<up, down, server, told, truth>>

TlsEstablished ==
    /\ conn.state = "Tls" /\ conn.out = <<>>
    /\ BindingRequired => HostBinds
    /\ conn' = [conn EXCEPT !.tls = TRUE, !.binding = HostBinds, !.state = "Auth", !.out = <<Msg("Startup")>>]
    /\ UNCHANGED <<up, down, server, told, truth>>

StartScram ==
    /\ conn.state = "Scram"
    /\ conn' = [conn EXCEPT !.state = "Auth", !.scram = TRUE, !.out = Append(@, Msg("SASLInitial"))]
    /\ UNCHANGED <<up, down, server, told, truth>>

\* The transport is lost, or the host cancels.
TransportLost ==
    /\ Faults /\ ~PgClosed(conn.state)
    /\ conn' = Abort(conn)
    /\ UNCHANGED <<up, down, server, told, truth>>

\* A deadline has passed: of a pending token, or of connecting.
HandleTimeout ==
    /\ Faults /\ ~PgClosed(conn.state)
    /\ conn.state # "Ready" \/ \E i \in DOMAIN conn.pending : conn.pending[i].token \in Timed
    /\ conn' = Abort(conn)
    /\ UNCHANGED <<up, down, server, told, truth>>

End ==
    /\ conn.state = "Ready" /\ conn.pending = <<>>
    /\ conn' = [conn EXCEPT !.state = "Closing", !.out = Append(@, Msg("Terminate"))]
    /\ UNCHANGED <<up, down, server, told, truth>>

\* The transport takes output.
ConsumeOutput ==
    /\ conn.out # <<>>
    /\ up' = Append(up, Head(conn.out)) /\ conn' = [conn EXCEPT !.out = Tail(@)]
    /\ UNCHANGED <<down, server, told, truth>>

---------------------------------------------------------------------------
(* next_event().                                                           *)

Tell(t, outcome) == told' = [told EXCEPT ![t] = Append(@, outcome)]

DrainClosing ==
    /\ conn.state = "Closing"
    /\ \/ /\ conn.pending # <<>>
          /\ conn' = [conn EXCEPT !.pending = Tail(@)]
          /\ Tell(Head(conn.pending).token, "Aborted")
       \/ /\ conn.pending = <<>> /\ conn.out = <<>>
          /\ conn' = [conn EXCEPT !.state = "Closed"]
          /\ Tell(NoToken, "Closed")
    /\ UNCHANGED <<up, down, server, truth>>

SslReply(c, m) ==
    CASE m.tag = "S" /\ Len(down) = 1 -> [c EXCEPT !.state = "Tls"]
      [] m.tag = "N" /\ Ssl = "Prefer" -> [c EXCEPT !.state = "Auth", !.out = Append(@, Msg("Startup"))]
      [] OTHER -> Protocol(c)

Authentication(c, m) ==
    LET refused == BindingRequired /\ ~c.plus
        plus == c.tls /\ c.binding /\ "plus" \in Mechanisms
    IN CASE m.how = "ok" -> IF c.scram \/ refused THEN Protocol(c) ELSE [c EXCEPT !.authOk = TRUE]
         [] m.how = "password" ->
              IF BindingRequired THEN Protocol(c) ELSE [c EXCEPT !.out = Append(@, Msg("Password"))]
         [] m.how = "sasl" ->
              IF (BindingRequired \/ "plain" \notin Mechanisms) /\ ~plus THEN Protocol(c)
              ELSE [c EXCEPT !.plus = plus, !.state = "Scram"]
         [] m.how = "continue" ->
              IF c.scram THEN [c EXCEPT !.out = Append(@, Msg("SASLResponse"))] ELSE Protocol(c)
         [] m.how = "final" -> IF c.scram THEN [c EXCEPT !.scram = FALSE] ELSE Protocol(c)

\* ReadyForQuery ends the first pending command.
ReadyForQuery(c) ==
    LET n == Head(c.pending).parse
    IN [c EXCEPT !.copyIn = FALSE, !.pending = Tail(@),
                 !.statements = IF n # NoName /\ @[n] # "parsed" THEN [@ EXCEPT ![n] = "none"] ELSE @]

ErrorResponse(c, m) ==
    IF c.pending = <<>> \/ m.fatal
    THEN Abort(IF c.pending = <<>> THEN c ELSE [c EXCEPT !.pending[1].failed = TRUE])
    ELSE [c EXCEPT !.pending[1].failed = TRUE]

CopyInResponse(c) == IF Len(c.pending) # 1 THEN Protocol(c) ELSE [c EXCEPT !.copyIn = TRUE]

ParseComplete(c) ==
    LET n == Head(c.pending).parse
    IN IF n = NoName THEN c ELSE [c EXCEPT !.statements[n] = "parsed"]

\* What a message does, ReadyForQuery after the handshake apart.
Message(c, m) ==
    CASE m.tag = "R" -> IF c.state = "Auth" THEN Authentication(c, m) ELSE Protocol(c)
      [] m.tag = "Z" -> IF c.authOk THEN [c EXCEPT !.state = "Ready"] ELSE Protocol(c)
      [] m.tag = "E" -> ErrorResponse(c, m)
      [] m.tag \in {"C", "1", "G"} /\ c.pending = <<>> -> Protocol(c)
      [] m.tag = "1" -> ParseComplete(c)
      [] m.tag = "G" -> CopyInResponse(c)
      [] OTHER -> c

NextEvent ==
    /\ conn.state \in {"Ssl", "Auth", "Ready"} /\ down # <<>>
    /\ down' = Tail(down)
    /\ LET m == Head(down)
           c == IF m.tag = "Z" THEN [conn EXCEPT !.transaction = m.transaction] ELSE conn
       IN IF conn.state = "Ssl" THEN conn' = SslReply(conn, m) /\ UNCHANGED told
          ELSE IF m.tag = "Z" /\ conn.state = "Ready" /\ conn.pending # <<>>
          THEN /\ conn' = ReadyForQuery(c)
               /\ Tell(Head(conn.pending).token, IF Head(conn.pending).failed THEN "ServerError" ELSE "Success")
          ELSE /\ conn' = IF m.tag = "Z" /\ conn.state = "Ready" THEN Protocol(c) ELSE Message(c, m)
               /\ UNCHANGED told
    /\ UNCHANGED <<up, server, truth>>

---------------------------------------------------------------------------
(* The server.                                                             *)

\* It is in the transaction state that a command which ended so leaves.
Leaves(s, ok, begins) ==
    IF ~ok THEN (IF s.transaction = "I" THEN "I" ELSE "E") ELSE IF begins THEN "T" ELSE "I"

Ends(s, t, k, ok) == [s EXCEPT !.mode = "idle", !.transaction = Leaves(s, ok, k.begins), !.copying = <<>>]
Ready(s) == [tag |-> "Z", transaction |-> s.transaction]
Error(fatal) == [tag |-> "E", fatal |-> fatal]

Greets(m) ==
    LET auth(how) == [tag |-> "R", how |-> how]
        admitted == <<auth("ok"), [tag |-> "Z", transaction |-> "I"]>>
    IN CASE m.tag = "SSLRequest" -> <<Msg(IF ServerTls THEN "S" ELSE "N")>>
         [] m.tag = "Startup" -> IF Method = "trust" THEN admitted ELSE <<auth(Method)>>
         [] m.tag = "Password" -> admitted
         [] m.tag = "SASLInitial" -> <<auth("continue")>>
         [] m.tag = "SASLResponse" -> <<auth("final")>> \o admitted

\* A Query, or the messages of an extended query: `parsed' when its Parse
\* succeeds, `ok' when the rest does.
Runs(m, parsed, ok) ==
    LET k == m.command
        p == m.tag = "Execute" /\ m.parse
        known == IF p /\ parsed /\ k.name # NoName THEN server.statements \cup {k.name} ELSE server.statements
        done == [Ends(server, m.token, k, ok) EXCEPT !.statements = known]
        prefix == IF p /\ parsed THEN <<Msg("1")>> ELSE <<>>
    IN /\ p /\ k.name \in server.statements => ~parsed
       /\ p /\ ~parsed => ~ok
       /\ ~p => parsed
       /\ m.tag = "Execute" /\ ~p /\ k.name \notin server.statements => ~ok
       /\ IF ok /\ k.copy
          THEN /\ server' = [server EXCEPT !.mode = "copy", !.copying = <<m>>, !.statements = known]
               /\ down' = down \o prefix \o <<Msg("G")>> /\ UNCHANGED truth
          ELSE /\ server' = done /\ truth' = [truth EXCEPT ![m.token] = IF ok THEN "ok" ELSE "error"]
               /\ down' = down \o prefix \o <<IF ok THEN Msg("C") ELSE Error(FALSE), Ready(done)>>

\* In COPY IN: data may be refused, its end too; of an extended query the
\* messages up to a Sync are then skipped, and Sync answers.
Copies(m, ok) ==
    LET q == Head(server.copying)
        done == Ends(server, q.token, q.command, ok)
        result == IF ok THEN Msg("C") ELSE Error(FALSE)
    IN /\ m.tag = "CopyFail" => ~ok
       /\ IF m.tag = "CopyData" /\ ok THEN UNCHANGED <<down, server, truth>>
          ELSE /\ truth' = [truth EXCEPT ![q.token] = IF ok THEN "ok" ELSE "error"]
               /\ server' = IF q.command.extended THEN [done EXCEPT !.mode = "skip"] ELSE done
               /\ down' = down \o <<result>> \o (IF q.command.extended THEN <<>> ELSE <<Ready(done)>>)

Serve(parsed, ok) ==
    /\ up # <<>> /\ server.mode # "closed" /\ up' = Tail(up)
    /\ LET m == Head(up)
       IN CASE m.tag \in {"Query", "Execute"} -> Runs(m, parsed, ok)
            [] m.tag \in {"CopyData", "CopyDone", "CopyFail"} ->
                 /\ parsed
                 /\ IF server.mode = "copy" THEN Copies(m, ok) ELSE ok /\ UNCHANGED <<down, server, truth>>
            [] m.tag = "Sync" -> /\ parsed /\ ok
                                 /\ server' = [server EXCEPT !.mode = "idle"]
                                 /\ down' = Append(down, Ready(server)) /\ UNCHANGED truth
            [] m.tag = "Terminate" -> /\ parsed /\ ok
                                      /\ server' = [server EXCEPT !.mode = "closed"] /\ UNCHANGED <<down, truth>>
            [] OTHER -> /\ parsed /\ ok
                        /\ server' = [server EXCEPT !.mode = IF m.tag = "SSLRequest" THEN "start" ELSE "idle"]
                        /\ down' = down \o Greets(m) /\ UNCHANGED truth
    /\ UNCHANGED <<conn, told>>

\* The server ends the session, for instance because it shuts down.
Fatal ==
    /\ Faults /\ server.mode \in {"idle", "copy", "skip"}
    /\ server' = [server EXCEPT !.mode = "closed"] /\ down' = Append(down, Error(TRUE))
    /\ UNCHANGED <<conn, up, told, truth>>

PgNext ==
    \/ \E t \in Tokens, k \in Commands : Query(t, k) \/ Execute(t, k)
    \/ CopyData \/ CopyFinish("CopyDone") \/ CopyFinish("CopyFail")
    \/ TlsEstablished \/ StartScram \/ TransportLost \/ HandleTimeout \/ End
    \/ ConsumeOutput \/ DrainClosing \/ NextEvent
    \/ \E parsed, ok \in BOOLEAN : Serve(parsed, ok)
    \/ Fatal

---------------------------------------------------------------------------
\* Each accepted token has one Completed event: it is pending or was told, and
\* Closed is told once, after all of them (next_event, abort).
PgToldOnce ==
    /\ \A t \in Tokens :
          Len(told[t]) + Cardinality({i \in DOMAIN conn.pending : conn.pending[i].token = t})
              = IF truth[t] = "new" THEN 0 ELSE 1
    /\ Len(told[NoToken]) = IF conn.state = "Closed" THEN 1 ELSE 0
    /\ conn.state = "Closed" => conn.pending = <<>>

\* A command is reported as successful or failed as it was at the server,
\* whatever was pipelined around it.
PgAnswersMatch ==
    \A t \in Tokens : told[t] \in {<<"Success">>, <<"ServerError">>}
                          => truth[t] = IF told[t] = <<"Success">> THEN "ok" ELSE "error"

IsCopying(m) == m.tag \in {"CopyData", "CopyDone", "CopyFail"}

\* A connection that is ready with nothing pending can be given to the next
\* user of a pool: the server is idle in the transaction state the connection
\* reports, and nothing is under way but COPY messages the server ignores.
\* And an extended query names only statements the server has, and parses only
\* names it lacks, when the server comes to it.
PgEndsAgree ==
    /\ conn.state = "Ready" /\ conn.pending = <<>> /\ server.mode # "closed" =>
          /\ server.mode = "idle" /\ server.transaction = conn.transaction
          /\ down = <<>> /\ \A m \in ToSet(conn.out \o up) : IsCopying(m)
    /\ up # <<>> /\ Head(up).tag = "Execute" /\ Head(up).command.name # NoName /\ conn.state = "Ready"
          => Head(up).parse = (Head(up).command.name \notin server.statements)

\* No message of a correct server, in whatever order it meets the host's calls,
\* is taken for a violation of the protocol.
PgTolerates == ~conn.broken \/ (Ssl = "Require" /\ ~ServerTls) \/ BindingRequired

PgPending(t) == truth[t] # "new" /\ told[t] = <<>>
=============================================================================
