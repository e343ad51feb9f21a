-------------------------- MODULE MySqlConnection ---------------------------
(***************************************************************************)
(* The sans-I/O MySQL connection (turnloop-mysql/src/lib.rs): handshake,   *)
(* TLS and caching_sha2 authentication, one command at a time with its     *)
(* result sets, prepared statements, LOCAL INFILE, time-outs and closing,  *)
(* and what client.rs makes of it for the pool.  The host, the transport   *)
(* and the server are external.  A packet is a record with a `tag'; OK and *)
(* EOF carry the status flags `more' and `trans'.                          *)
(***************************************************************************)
EXTENDS Naturals, Sequences, FiniteSets, SequencesExt

CONSTANTS
    Tokens,         \* 1 .. n, used in this order
    Timed,          \* tokens submitted with a deadline
    Kinds,          \* of the commands the host submits
    Tls,            \* Config::tls
    LocalInfile,    \* Config::local_infile
    FullAuth,       \* the server may ask for full authentication
    Faults,         \* transports are lost and deadlines pass
    SilentBegin     \* a command that fails may leave a transaction open

VARIABLES
    conn,       \* the Connection, its unsent output included
    up, down,   \* packets under way, input included
    server,     \* the server's session
    told,       \* per token, its Completed events; and the Closed events
    truth       \* per token: new, sent, and how the server ended it

myVars == <<conn, up, down, server, told, truth>>

NoToken == 0
NoCommand == [token |-> NoToken, kind |-> "none", id |-> 0]
Packet(tag) == [tag |-> tag]
MyClosed(state) == state \in {"Closing", "Closed"}

MyInit ==
    /\ conn = [state |-> "Handshake", out |-> <<>>, pending |-> NoCommand, completion |-> "none",
               statement |-> [id |-> 0, columns |-> 0], statements |-> {}, left |-> 0, trans |-> FALSE,
               tls |-> FALSE, broken |-> FALSE]
    /\ up = <<>> /\ down = <<Packet("greeting")>>
    /\ server = [mode |-> "auth", statements |-> {}, next |-> 1, trans |-> FALSE, said |-> FALSE, serves |-> NoToken]
    /\ told = [t \in Tokens \cup {NoToken} |-> <<>>]
    /\ truth = [t \in Tokens |-> "new"]

---------------------------------------------------------------------------
(* Calls of the host.                                                      *)

Complete(c, outcome) == [c EXCEPT !.completion = outcome, !.state = "Ready"]

Abort(c) ==
    IF MyClosed(c.state) THEN c
    ELSE [c EXCEPT !.state = "Closing", !.out = <<>>,
                   !.completion = IF c.pending = NoCommand THEN @ ELSE "Aborted"]

\* An Err of next_event, after which the host aborts.
Protocol(c) == [Abort(c) EXCEPT !.broken = TRUE]

CanAccept(c) == c.state = "Ready" /\ c.pending = NoCommand /\ c.out = <<>>

Send(c, tag) == [c EXCEPT !.out = Append(@, Packet(tag))]

Command(t, kind, id, state) ==
    /\ kind \in Kinds /\ CanAccept(conn)
    /\ truth[t] = "new" /\ \A s \in Tokens : s < t => truth[s] # "new"
    /\ conn' = [conn EXCEPT !.out = <<[tag |-> kind, token |-> t, id |-> id]>>, !.state = state,
                            !.pending = [token |-> t, kind |-> kind, id |-> id]]
    /\ truth' = [truth EXCEPT ![t] = "sent"]
    /\ UNCHANGED <<up, down, server, told>>

Query(t, begins) == Command(t, IF begins THEN "begin" ELSE "query", 0, "Header")
Prepare(t) == Command(t, "prepare", 0, "Prepare")
Execute(t, id) == id \in conn.statements /\ Command(t, "execute", id, "Header")
Simple(t, kind) == Command(t, kind, 0, "Header")
ResetStatement(t, id) == id \in conn.statements /\ Command(t, "reset_statement", id, "Header")
CloseStatement(t, id) == id \in conn.statements /\ Command(t, "close", id, "NoResponse")
ChangeUser(t) == Command(t, "change_user", 0, "Auth")

LocalInfileData ==
    /\ conn.state = "Infile" /\ conn.out \o up = <<>>
    /\ conn' = Send(conn, "data")
    /\ UNCHANGED <<up, down, server, told, truth>>

LocalInfileFinish ==
    /\ conn.state = "Infile"
    /\ conn' = [Send(conn, "empty") EXCEPT !.state = "Header"]
    /\ UNCHANGED <<up, down, server, told, truth>>

\* The transport takes the first packet of the output; the last one ends a
\* command that the server does not answer.
ConsumeOutput ==
    /\ conn.out # <<>>
    /\ up' = Append(up, Head(conn.out))
    /\ LET c == [conn EXCEPT !.out = Tail(@)]
       IN conn' = IF c.out = <<>> /\ c.state = "NoResponse"
                  THEN Complete([c EXCEPT !.statements = @ \ {c.pending.id}], "Success") ELSE c
    /\ truth' = IF conn'.completion = "Success" /\ conn.state = "NoResponse"
                THEN [truth EXCEPT ![conn.pending.token] = "ok"] ELSE truth
    /\ UNCHANGED <<down, server, told>>

TlsEstablished ==
    /\ conn.state = "Tls" /\ conn.out = <<>>
    /\ conn' = [Send(conn, "response") EXCEPT !.tls = TRUE, !.state = "Auth"]
    /\ UNCHANGED <<up, down, server, told, truth>>

RsaSeed ==
    /\ conn.state = "Seed"
    /\ conn' = [Send(conn, "rsa") EXCEPT !.state = "Auth"]
    /\ UNCHANGED <<up, down, server, told, truth>>

\* The transport is lost or the host gives up; or a deadline has passed, of the
\* command or, before the first, of connecting.
Lost ==
    /\ Faults /\ ~MyClosed(conn.state)
    /\ conn' = Abort(conn)
    /\ UNCHANGED <<up, down, server, told, truth>>

HandleTimeout ==
    /\ Faults /\ ~MyClosed(conn.state)
    /\ IF conn.pending # NoCommand THEN conn.pending.token \in Timed ELSE conn.state # "Ready"
    /\ conn' = Abort(conn)
    /\ UNCHANGED <<up, down, server, told, truth>>

Quit ==
    /\ CanAccept(conn)
    /\ conn' = [Send(conn, "quit") EXCEPT !.state = "Closing"]
    /\ UNCHANGED <<up, down, server, told, truth>>

---------------------------------------------------------------------------
(* next_event().                                                           *)

Handshake(c) == IF Tls THEN [Send(c, "ssl") EXCEPT !.state = "Tls"] ELSE [Send(c, "response") EXCEPT !.state = "Auth"]

Authenticate(c, m) ==
    CASE m.tag = "ok" ->
           IF c.pending.kind = "change_user"
           THEN Complete([c EXCEPT !.trans = m.trans, !.statements = {}], "Success")
           ELSE [c EXCEPT !.trans = m.trans, !.state = "Ready"]
      [] m.tag = "switch" -> [Send(c, "scramble") EXCEPT !.state = "Auth"]
      [] m.tag = "key" /\ c.state = "Key" -> [c EXCEPT !.state = "Seed"]
      [] m.tag = "fast" /\ c.state = "Auth" -> c
      [] m.tag = "full" /\ c.state = "Auth" ->
           IF c.tls THEN Send(c, "password") ELSE [Send(c, "wantkey") EXCEPT !.state = "Key"]
      [] OTHER -> Protocol(c)

Header(c, m) ==
    CASE m.tag = "ok" ->
           LET s == [c EXCEPT !.trans = m.trans]
           IN IF m.more THEN s
              ELSE Complete(IF c.pending.kind = "reset" THEN [s EXCEPT !.statements = {}] ELSE s, "Success")
      [] m.tag = "infile" -> IF LocalInfile THEN [c EXCEPT !.state = "Infile"] ELSE Abort(c)
      [] m.tag = "columns" -> [c EXCEPT !.left = m.count, !.state = "Columns"]
      [] OTHER -> Protocol(c)

Prepared(c) == Complete([c EXCEPT !.statements = @ \cup {c.statement.id}], "Success")
PrepareColumns(c) ==
    IF c.statement.columns = 0 THEN Prepared(c)
    ELSE [c EXCEPT !.left = c.statement.columns, !.state = "PrepareColumns"]

Column(c) ==
    IF c.left > 1 THEN [c EXCEPT !.left = @ - 1]
    ELSE [c EXCEPT !.left = 0,
                   !.state = CASE @ = "Columns" -> "ColumnsEnd"
                               [] @ = "Parameters" -> "ParametersEnd"
                               [] @ = "PrepareColumns" -> "PrepareEnd"]

Rows(c, m) ==
    IF m.tag = "row" THEN c
    ELSE LET s == [c EXCEPT !.trans = m.trans]
         IN IF m.more THEN [s EXCEPT !.state = "Header"] ELSE Complete(s, "Success")

Receive(c, m) ==
    CASE m.tag = "err" -> IF c.pending # NoCommand THEN Complete(c, "ServerError") ELSE [c EXCEPT !.state = "Closing"]
      [] m.tag = "greeting" /\ c.state = "Handshake" -> Handshake(c)
      [] c.state \in {"Auth", "Key"} -> Authenticate(c, m)
      [] c.state = "Header" -> Header(c, m)
      [] m.tag = "column" /\ c.state \in {"Columns", "Parameters", "PrepareColumns"} -> Column(c)
      [] m.tag = "eof" /\ c.state = "ColumnsEnd" -> [c EXCEPT !.trans = m.trans, !.state = "Rows"]
      [] m.tag \in {"row", "eof"} /\ c.state = "Rows" -> Rows(c, m)
      [] m.tag = "prepared" /\ c.state = "Prepare" ->
           LET s == [c EXCEPT !.statement = [id |-> m.id, columns |-> m.columns]]
           IN IF m.parameters > 0 THEN [s EXCEPT !.left = m.parameters, !.state = "Parameters"] ELSE PrepareColumns(s)
      [] m.tag = "eof" /\ c.state = "ParametersEnd" -> PrepareColumns(c)
      [] m.tag = "eof" /\ c.state = "PrepareEnd" -> Prepared(c)
      [] OTHER -> Protocol(c)

Tell(t, outcome) == told' = [told EXCEPT ![t] = Append(@, outcome)]

TakeCompletion ==
    /\ conn.completion # "none"
    /\ Tell(conn.pending.token, conn.completion)
    /\ conn' = [conn EXCEPT !.completion = "none", !.pending = NoCommand]
    /\ UNCHANGED <<up, down, server, truth>>

TakeClosed ==
    /\ conn.completion = "none" /\ conn.state = "Closing" /\ conn.out = <<>>
    /\ Tell(NoToken, "Closed")
    /\ conn' = [conn EXCEPT !.state = "Closed"]
    /\ UNCHANGED <<up, down, server, truth>>

NextEvent ==
    /\ conn.completion = "none" /\ down # <<>>
    /\ ~MyClosed(conn.state) /\ conn.state \notin {"Tls", "Seed", "Infile", "NoResponse"}
    /\ conn' = Receive(conn, Head(down)) /\ down' = Tail(down)
    /\ UNCHANGED <<up, server, told, truth>>

---------------------------------------------------------------------------
(* The server: an answer is a sequence of packets.                         *)

Ok(trans, more) == [tag |-> "ok", trans |-> trans, more |-> more]
Eof(trans, more) == [tag |-> "eof", trans |-> trans, more |-> more]
Err == Packet("err")
OfStatement(id, parameters, columns) ==
    LET block(n) == IF n = 0 THEN <<>> ELSE [i \in 1 .. n |-> Packet("column")] \o <<Eof(FALSE, FALSE)>>
    IN <<[tag |-> "prepared", id |-> id, parameters |-> parameters, columns |-> columns]>>
           \o block(parameters) \o block(columns)
ResultSet(trans, more) ==
    <<[tag |-> "columns", count |-> 2], Packet("column"), Packet("column"), Eof(trans, FALSE), Packet("row"),
      Eof(trans, more)>>

\* What a statement may be answered with; the last packet says how it ended.  An
\* ERR packet has no status flags: `said' is what those before it told.
Answers(trans) ==
    {<<Ok(trans, FALSE)>>, ResultSet(trans, FALSE), ResultSet(trans, TRUE) \o <<Ok(trans, FALSE)>>,
     <<Ok(trans, TRUE), Err>>, SubSeq(ResultSet(trans, FALSE), 1, 5) \o <<Err>>, <<Err>>}

Answer(m, packets, s) ==
    /\ server' = s
    /\ down' = down \o packets
    /\ truth' = [truth EXCEPT ![m.token] = IF Last(packets).tag = "err" THEN "error" ELSE "ok"]

ServeStatement(m) ==
    \E says, opens \in BOOLEAN : \E packets \in Answers(says) :
        /\ Last(packets) # Err \/ ~SilentBegin => says = opens
        /\ m.tag = "begin" /\ Last(packets) # Err => opens
        /\ m.tag # "begin" \/ packets = <<Err>> => opens = server.trans \/ SilentBegin
        /\ Answer(m, packets, [server EXCEPT !.trans = opens, !.said = IF packets = <<Err>> THEN @ ELSE says])

\* One packet: OK, with the status flags, or ERR.
ServeSimply(m, s) ==
    \/ Answer(m, <<Ok(s.trans, FALSE)>>, [s EXCEPT !.said = s.trans])
    \/ Answer(m, <<Err>>, s)

\* An authentication packet, of the handshake or of a change of the user.
ServeAuthentication(m) ==
    LET asks == IF FullAuth /\ m.tag \notin {"rsa", "password"} THEN {<<Packet("full")>>} ELSE {}
        turns == IF m.tag \in {"response", "change_user"} THEN {<<Packet("switch")>>} ELSE {}
        t == IF m.tag = "change_user" THEN m.token ELSE server.serves
    IN \E a \in asks \cup turns \cup {<<Ok(FALSE, FALSE)>>, <<Packet("fast"), Ok(FALSE, FALSE)>>, <<Err>>} :
          /\ down' = down \o a
          /\ server' = CASE Last(a).tag = "ok" ->
                             [server EXCEPT !.mode = "idle", !.statements = {}, !.trans = FALSE, !.said = FALSE,
                                            !.serves = NoToken]
                        [] Last(a) = Err -> [server EXCEPT !.mode = "closed"]
                        [] OTHER -> [server EXCEPT !.serves = t]
          /\ truth' = IF t = NoToken \/ Last(a).tag \notin {"ok", "err"} THEN truth
                      ELSE [truth EXCEPT ![t] = IF Last(a) = Err THEN "error" ELSE "ok"]

Serve ==
    /\ up # <<>> /\ server.mode # "closed" /\ up' = Tail(up)
    /\ LET m == Head(up)
       IN CASE m.tag \in {"query", "begin", "execute"} ->
                 \/ ServeStatement(m)
                 \/ /\ m.tag = "query" /\ server' = [server EXCEPT !.serves = m.token]
                    /\ down' = Append(down, Packet("infile")) /\ UNCHANGED truth
            [] m.tag = "prepare" ->
                 \/ \E p, c \in 0 .. 2 :
                       Answer(m, OfStatement(server.next, p, c),
                              [server EXCEPT !.statements = @ \cup {server.next}, !.next = @ + 1])
                 \/ Answer(m, <<Err>>, server)
            [] m.tag \in {"ping", "reset_statement"} -> ServeSimply(m, server)
            [] m.tag = "reset" ->
                 Answer(m, <<Ok(FALSE, FALSE)>>, [server EXCEPT !.statements = {}, !.trans = FALSE, !.said = FALSE])
            [] m.tag = "close" -> /\ server' = [server EXCEPT !.statements = @ \ {m.id}] /\ UNCHANGED <<down, truth>>
            [] m.tag \in {"data", "ssl"} -> UNCHANGED <<down, server, truth>>
            [] m.tag = "quit" -> server' = [server EXCEPT !.mode = "closed"] /\ UNCHANGED <<down, truth>>
            [] m.tag = "empty" -> ServeSimply([token |-> server.serves], [server EXCEPT !.serves = NoToken])
            [] m.tag = "wantkey" -> down' = Append(down, Packet("key")) /\ UNCHANGED <<server, truth>>
            [] OTHER -> ServeAuthentication(m)
    /\ UNCHANGED <<conn, told>>

MyNext ==
    \/ \E t \in Tokens :
          \/ \E begins \in BOOLEAN : Query(t, begins)
          \/ Prepare(t) \/ ChangeUser(t)
          \/ \E kind \in {"ping", "reset"} : Simple(t, kind)
          \/ \E id \in conn.statements : Execute(t, id) \/ ResetStatement(t, id) \/ CloseStatement(t, id)
    \/ LocalInfileData \/ LocalInfileFinish \/ ConsumeOutput \/ TlsEstablished \/ RsaSeed
    \/ Lost \/ HandleTimeout \/ Quit
    \/ TakeCompletion \/ TakeClosed \/ NextEvent
    \/ Serve

---------------------------------------------------------------------------
\* Each accepted token has one Completed event, and Closed is told once, after
\* all of them (next_event, abort, consume_output).
MyToldOnce ==
    /\ \A t \in Tokens : Len(told[t]) + (IF conn.pending.token = t THEN 1 ELSE 0) = IF truth[t] = "new" THEN 0 ELSE 1
    /\ conn.completion # "none" => conn.pending # NoCommand
    /\ Len(told[NoToken]) = IF conn.state = "Closed" THEN 1 ELSE 0
    /\ conn.state = "Closed" => conn.pending = NoCommand

\* A command is reported as it ended at the server.
MyAnswersMatch ==
    \A t \in Tokens : told[t] \in {<<"Success">>, <<"ServerError">>}
                          => truth[t] = IF told[t] = <<"Success">> THEN "ok" ELSE "error"

Idle == conn.state = "Ready" /\ conn.pending = NoCommand /\ server.mode # "closed"

\* Between commands nothing is under way but a COM_STMT_CLOSE, and
\* statements() lists exactly the statements that the server holds and is not
\* about to close.
MyStatementsAgree ==
    Idle => /\ down = <<>> /\ conn.out = <<>> /\ \A m \in ToSet(up) : m.tag = "close"
            /\ conn.statements = server.statements \ {m.id : m \in ToSet(up)}

\* is_reusable() decides on the status flags that the server sent last, so the
\* pool gets a connection in no transaction, unless a command that failed has
\* opened one: its ERR packet does not tell, and the flags stay as they were.
MyReusableIsClean ==
    Idle => conn.trans = server.said /\ (~SilentBegin => server.said = server.trans)

\* No packet of a correct server is taken for a violation of the protocol.
MyTolerates == ~conn.broken

MyPending(t) == truth[t] # "new" /\ told[t] = <<>>
=============================================================================
