--------------------------- MODULE SmtpConnection ---------------------------
(***************************************************************************)
(* The sans-I/O SMTP client (turnloop-smtp/src/lib.rs): greeting, EHLO or  *)
(* HELO, STARTTLS, AUTH, and mail transactions with pipelined recipients,  *)
(* whole or streamed bodies, RSET and QUIT.  The host, the transport and   *)
(* the server are external.  A command line is a record with a `verb', a   *)
(* reply its code; EHLO's reply carries the extensions it lists.           *)
(***************************************************************************)
EXTENDS Naturals, Sequences, FiniteSets, SequencesExt

CONSTANTS
    Tokens,         \* 1 .. n, used in this order
    Recipients,     \* of every envelope: 1 .. Recipients
    TlsPolicy,      \* "None", "Opportunistic", "Required" or "Implicit"
    AuthMethod,     \* "none", "plain", "login" or "xoauth2"
    Offers,         \* extensions the server lists: starttls, pipelining, plain, login, xoauth2
    OldServer,      \* the server does not know EHLO
    Streams,        \* of BOOLEAN: bodies sent whole, streamed
    Refusals,       \* the server may refuse what it is asked
    Faults          \* transports are lost, time passes, the server shuts down

VARIABLES
    conn,       \* the Connection, its unsent output included
    up, down,   \* command lines and replies under way
    server,     \* the server's session
    told,       \* per token, how its Sent or Failed event says it ended; and the Closed events
    truth       \* per token: new, sent, delivered or refused, and to whom

smtpVars == <<conn, up, down, server, told, truth>>

NoToken == 0
All == 1 .. Recipients
Line(verb) == [verb |-> verb, token |-> NoToken, to |-> 0]
Code(n) == [code |-> n, lists |-> {}]

SmtpInit ==
    /\ conn = [state |-> "Disconnected", out |-> <<>>, secure |-> FALSE, implicit |-> FALSE, caps |-> {},
               token |-> NoToken, accepted |-> {}, index |-> 1, mailError |-> FALSE, streaming |-> FALSE,
               bodyOpen |-> FALSE, automaticReset |-> FALSE, timed |-> FALSE]
    /\ up = <<>> /\ down = <<>>
    /\ server = [mode |-> "idle", secure |-> FALSE, mail |-> NoToken, to |-> {}]
    /\ told = [t \in Tokens \cup {NoToken} |-> <<>>]
    /\ truth = [t \in Tokens |-> [state |-> "new", to |-> {}]]

---------------------------------------------------------------------------
(* Methods over [c, out]: the connection and the events it queues.         *)

Call == [c |-> conn, out |-> <<>>]
Write(m, lines) == [m EXCEPT !.c.out = @ \o lines]
To(m, state) == [m EXCEPT !.c.state = state]
Event(m, token, how, to) == [m EXCEPT !.out = Append(@, [token |-> token, how |-> how, to |-> to])]

CloseTransport(m) ==
    IF m.c.state = "Closed" THEN m
    ELSE Event([m EXCEPT !.c.state = "Closed", !.c.bodyOpen = FALSE, !.c.timed = FALSE, !.c.out = <<>>],
               NoToken, "Closed", {})

Fail(m, how) ==
    LET failed == [m EXCEPT !.c.token = NoToken, !.c.accepted = {}]
    IN IF m.c.token = NoToken THEN failed ELSE Event(failed, m.c.token, how, {})

FailAndClose(m) == CloseTransport(Fail(m, "Failed"))
FailAndReset(m) ==
    [Write(Fail(m, "Refused"), <<Line("RSET")>>) EXCEPT !.c.state = "Reset", !.c.automaticReset = TRUE]

Unexpected(m) ==
    IF m.c.state \in {"Data", "Body"} /\ ~m.c.bodyOpen THEN FailAndReset(m) ELSE FailAndClose(m)

Ehlo(m) == To(Write(m, <<Line("EHLO")>>), "Ehlo")

Ready(m) ==
    IF TlsPolicy \in {"Required", "Implicit"} /\ ~m.c.secure THEN FailAndClose(m) ELSE To(m, "Ready")

Authenticate(m) ==
    CASE AuthMethod = "none" -> Ready(m)
      [] AuthMethod \in m.c.caps -> To(Write(m, <<Line("AUTH")>>), "Auth")
      [] OTHER -> FailAndClose(m)

AfterEhlo(m) ==
    IF ~m.c.secure /\ TlsPolicy # "None" /\ "starttls" \in m.c.caps
    THEN To(Write(m, <<Line("STARTTLS")>>), "StartTls")
    ELSE IF ~m.c.secure /\ TlsPolicy = "Required" THEN FailAndClose(m) ELSE Authenticate(m)

AuthReply(m, code) ==
    CASE m.c.state \in {"Auth", "LoginPassword"} /\ code = 235 -> Ready(m)
      [] m.c.state = "Auth" /\ code = 334 ->
           To(Write(m, <<Line("line")>>),
              CASE AuthMethod = "login" -> "LoginUser"
                [] AuthMethod = "plain" -> "LoginPassword"
                [] AuthMethod = "xoauth2" -> "OAuthFailure")
      [] m.c.state = "LoginUser" /\ code = 334 -> To(Write(m, <<Line("line")>>), "LoginPassword")
      [] OTHER -> Unexpected(m)

Rcpt(c, i) == [verb |-> "RCPT", token |-> c.token, to |-> i]

MailReply(m, code) ==
    LET r == To([m EXCEPT !.c.mailError = code # 250], "Recipients")
    IN IF "pipelining" \in m.c.caps THEN r
       ELSE IF r.c.mailError THEN FailAndReset([r EXCEPT !.c.mailError = FALSE])
       ELSE Write(r, <<Rcpt(m.c, 1)>>)

RcptReply(m, code) ==
    LET ok == code \in 250 .. 252 /\ ~m.c.mailError
        r == [m EXCEPT !.c.accepted = IF ok THEN @ \cup {m.c.index} ELSE @, !.c.index = @ + 1]
    IN IF m.c.index = Recipients
       THEN IF m.c.mailError \/ r.c.accepted = {} THEN FailAndReset([r EXCEPT !.c.mailError = FALSE])
            ELSE To(Write(r, <<Line("DATA")>>), "Data")
       ELSE IF "pipelining" \in m.c.caps THEN r ELSE Write(r, <<Rcpt(m.c, r.c.index)>>)

DataReply(m) ==
    IF m.c.streaming THEN [To(m, "Body") EXCEPT !.c.bodyOpen = TRUE]
    ELSE Write(To(m, "Body"), <<Line("chunk"), Line(".")>>)

BodyReply(m) ==
    [Event(m, m.c.token, "Sent", m.c.accepted) EXCEPT !.c.token = NoToken, !.c.accepted = {}, !.c.state = "Ready"]

Reply(m, r) ==
    LET s == m.c.state
        code == r.code
    IN CASE code = 421 -> FailAndClose(m)
         [] s = "Greeting" /\ code = 220 -> Ehlo(m)
         [] s = "Ehlo" /\ code = 250 -> AfterEhlo([m EXCEPT !.c.caps = r.lists])
         [] s = "Ehlo" /\ code \in {500, 502, 504} -> To(Write(m, <<Line("HELO")>>), "Helo")
         [] s = "Helo" /\ code = 250 -> AfterEhlo([m EXCEPT !.c.caps = {}])
         [] s = "StartTls" /\ code = 220 -> To(m, "Tls")
         [] s \in {"Auth", "LoginUser", "LoginPassword", "OAuthFailure"} -> AuthReply(m, code)
         [] s = "Mail" -> MailReply(m, code)
         [] s = "Recipients" -> RcptReply(m, code)
         [] s = "Data" /\ code = 354 -> DataReply(m)
         [] s = "Body" /\ code = 250 /\ ~m.c.bodyOpen -> BodyReply(m)
         [] s = "Reset" /\ code = 250 -> [To(m, "Ready") EXCEPT !.c.automaticReset = FALSE]
         [] s = "Quit" /\ code = 221 -> CloseTransport(m)
         [] OTHER -> Unexpected(m)

---------------------------------------------------------------------------
(* Calls of the host.                                                      *)

Return(m) ==
    /\ conn' = m.c
    /\ told' = [t \in DOMAIN told |-> told[t] \o SelectSeq(m.out, LAMBDA e : e.token = t)]

Connected ==
    /\ conn.state = "Disconnected"
    /\ LET implicit == TlsPolicy = "Implicit"
       IN /\ conn' = [conn EXCEPT !.timed = TRUE, !.implicit = implicit,
                                  !.state = IF implicit THEN "Tls" ELSE "Greeting"]
          /\ down' = IF implicit THEN <<>> ELSE <<Code(220)>>
    /\ UNCHANGED <<up, server, told, truth>>

\* The host flushes the output before it starts TLS.
TlsEstablished ==
    /\ conn.state = "Tls" /\ conn.out = <<>> /\ up = <<>>
    /\ LET c == [conn EXCEPT !.secure = TRUE, !.caps = {}, !.implicit = FALSE]
       IN IF conn.implicit THEN conn' = [c EXCEPT !.state = "Greeting"] /\ down' = <<Code(220)>>
          ELSE conn' = Ehlo([c |-> c, out |-> <<>>]).c /\ UNCHANGED down
    /\ server' = [server EXCEPT !.secure = TRUE]
    /\ UNCHANGED <<up, told, truth>>

Receive ==
    /\ conn.state \notin {"Disconnected", "Tls", "Closed"} /\ down # <<>>
    /\ down' = Tail(down)
    /\ LET r == Reply(Call, Head(down))
       IN Return(IF r.c.state = "Tls" /\ Tail(down) # <<>> THEN FailAndClose(r) ELSE r)
    /\ UNCHANGED <<up, server, truth>>

\* send() and start_send().
Send(t, streamed) ==
    /\ conn.state = "Ready"
    /\ truth[t].state = "new" /\ \A s \in Tokens : s < t => truth[s].state # "new"
    /\ LET c == [conn EXCEPT !.accepted = {}, !.mailError = FALSE, !.index = 1, !.bodyOpen = FALSE, !.token = t,
                             !.streaming = streamed, !.state = "Mail"]
       IN conn' = [c EXCEPT !.out = @ \o <<[verb |-> "MAIL", token |-> t, to |-> 0]>>
                                      \o (IF "pipelining" \in c.caps THEN [i \in All |-> Rcpt(c, i)] ELSE <<>>)]
    /\ truth' = [truth EXCEPT ![t].state = "sent"]
    /\ UNCHANGED <<up, down, server, told>>

CanSendBody == conn.bodyOpen /\ conn.state = "Body"

\* A chunk that the body's declaration forbids fails the transaction.
SendChunk(allowed) ==
    /\ CanSendBody
    /\ IF allowed THEN Len(conn.out \o up) = 0 /\ Return(Write(Call, <<Line("chunk")>>)) ELSE Return(FailAndClose(Call))
    /\ UNCHANGED <<up, down, server, truth>>

FinishBody ==
    /\ CanSendBody
    /\ Return(Write([Call EXCEPT !.c.bodyOpen = FALSE], <<Line(".")>>))
    /\ UNCHANGED <<up, down, server, truth>>

Reset ==
    /\ conn.state = "Ready"
    /\ Return(To(Write([Call EXCEPT !.c.automaticReset = FALSE], <<Line("RSET")>>), "Reset"))
    /\ UNCHANGED <<up, down, server, truth>>

Quit ==
    /\ conn.state = "Ready"
    /\ Return(To(Write(Call, <<Line("QUIT")>>), "Quit"))
    /\ UNCHANGED <<up, down, server, truth>>

\* handle_timeout() when the deadline has passed.
HandleTimeout ==
    /\ Faults /\ conn.timed /\ Return(FailAndClose(Call))
    /\ UNCHANGED <<up, down, server, truth>>

TransportLost ==
    /\ Faults /\ conn.state # "Closed" /\ Return(FailAndClose(Call))
    /\ UNCHANGED <<up, down, server, truth>>

Close ==
    /\ Faults /\ conn.state # "Closed"
    /\ Return(CloseTransport(IF conn.token # NoToken THEN Fail(Call, "Failed") ELSE Call))
    /\ UNCHANGED <<up, down, server, truth>>

ConsumeOutput ==
    /\ conn.out # <<>>
    /\ up' = Append(up, Head(conn.out)) /\ conn' = [conn EXCEPT !.out = Tail(@)]
    /\ UNCHANGED <<down, server, told, truth>>

---------------------------------------------------------------------------
(* The server.  It answers one line with one reply, bodies at their end.   *)

Says(n, s) == down' = Append(down, Code(n)) /\ server' = s /\ UNCHANGED truth
OneOf(yes, no) == {yes} \cup (IF Refusals THEN {no} ELSE {})

\* The codes that answer an AUTH line or one of its continuations.
AuthCodes(m) ==
    IF m.verb = "AUTH" /\ AuthMethod = "login" THEN {334}
    ELSE IF AuthMethod = "login" /\ server.mode = "idle" THEN {334, 535}
    ELSE OneOf(235, 535) \cup (IF m.verb = "AUTH" THEN {334} ELSE {})

Serve ==
    /\ up # <<>> /\ server.mode # "closed" /\ up' = Tail(up)
    /\ LET m == Head(up)
           quiet == [server EXCEPT !.mode = "idle", !.mail = NoToken, !.to = {}]
       IN CASE m.verb = "EHLO" ->
                 /\ down' = Append(down, IF OldServer THEN Code(500)
                                         ELSE [code |-> 250, lists |-> IF server.secure THEN Offers \ {"starttls"} ELSE Offers])
                 /\ UNCHANGED <<server, truth>>
            [] m.verb = "HELO" -> Says(250, server)
            [] m.verb = "STARTTLS" -> \E n \in OneOf(220, 454) : Says(n, server)
            [] m.verb \in {"AUTH", "line"} ->
                 \E n \in AuthCodes(m) : Says(n, [server EXCEPT !.mode = IF m.verb = "line" THEN "named" ELSE "idle"])
            [] m.verb = "MAIL" -> \E n \in OneOf(250, 550) : Says(n, IF n = 250 THEN [quiet EXCEPT !.mail = m.token] ELSE quiet)
            [] m.verb = "RCPT" ->
                 \E n \in (IF server.mail = NoToken THEN {503} ELSE OneOf(250, 550)) :
                     Says(n, IF n = 250 THEN [server EXCEPT !.to = @ \cup {m.to}] ELSE server)
            [] m.verb = "DATA" -> \E n \in OneOf(354, 550) : Says(n, IF n = 354 THEN [server EXCEPT !.mode = "data"] ELSE server)
            [] m.verb = "chunk" -> UNCHANGED <<down, server, truth>>
            [] m.verb = "." -> \E n \in OneOf(250, 550) :
                                   /\ down' = Append(down, Code(n)) /\ server' = quiet
                                   /\ truth' = [truth EXCEPT ![server.mail] =
                                                   [state |-> IF n = 250 THEN "delivered" ELSE "refused", to |-> server.to]]
            [] m.verb = "RSET" -> Says(250, quiet)
            [] m.verb = "QUIT" -> Says(221, [server EXCEPT !.mode = "closed"])
    /\ UNCHANGED <<conn, told>>

\* The server shuts down with 421, at any time; or refuses a body before its end.
ShutDown(n) ==
    /\ Faults /\ server.mode # "closed" /\ conn.state \notin {"Disconnected", "Tls", "StartTls"}
    /\ n = 451 => server.mode = "data"
    /\ Says(n, [server EXCEPT !.mode = "closed"])
    /\ UNCHANGED <<conn, up, told>>

SmtpNext ==
    \/ Connected \/ TlsEstablished \/ Receive
    \/ \E t \in Tokens, streamed \in Streams : Send(t, streamed)
    \/ \E allowed \in BOOLEAN : SendChunk(allowed)
    \/ FinishBody \/ Reset \/ Quit \/ HandleTimeout \/ TransportLost \/ Close \/ ConsumeOutput
    \/ Serve \/ ShutDown(421) \/ ShutDown(451)

---------------------------------------------------------------------------
\* Each message has one Sent or Failed event, and Closed is told once, after
\* all of them, whichever of replies, time-outs and losses comes first.
SmtpToldOnce ==
    /\ \A t \in Tokens : Len(told[t]) + (IF conn.token = t THEN 1 ELSE 0) = IF truth[t].state = "new" THEN 0 ELSE 1
    /\ Len(told[NoToken]) = IF conn.state = "Closed" THEN 1 ELSE 0
    /\ conn.state = "Closed" => conn.token = NoToken

\* A message that is Sent was delivered to exactly the recipients it names; one
\* that failed and left the connection in use was not delivered.
SmtpAnswersMatch ==
    \A t \in Tokens : told[t] # <<>> =>
        /\ told[t][1].how = "Sent" => truth[t] = [state |-> "delivered", to |-> told[t][1].to]
        /\ told[t][1].how = "Refused" => truth[t].state # "delivered"

\* A connection that is Ready can take the next message: the server has no
\* transaction open and nothing is under way; and it is encrypted, at both
\* ends, if the policy demands it.
SmtpEndsAgree ==
    conn.state = "Ready" /\ server.mode # "closed" =>
        /\ server.mail = NoToken /\ server.mode # "data"
        /\ down = <<>> /\ conn.out \o up = <<>>
        /\ conn.secure = server.secure /\ (TlsPolicy \in {"Required", "Implicit"} => server.secure)

SmtpPending(t) == truth[t].state # "new" /\ told[t] = <<>>
=============================================================================
