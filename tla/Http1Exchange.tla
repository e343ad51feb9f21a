--------------------------- MODULE Http1Exchange ----------------------------
(***************************************************************************)
(* HTTP/1 requests one after the other on a connection: the client is      *)
(* Http1Connection (turnloop-http/src/client.rs), the server the http1()   *)
(* service (asynchronous/server.rs) over Http1 (asynchronous/mod.rs), both *)
(* on the codec that comes first.  The two hosts, the transport and 100    *)
(* (Continue), which only other servers send, are external.                *)
(***************************************************************************)
EXTENDS Naturals, Integers, Sequences, FiniteSets, SequencesExt

CONSTANTS
    Tokens,         \* requests 1 .. n, started in this order
    Requests,       \* [method, body, expect, close, upgrade, trailers] of what the client sends
    Responses,      \* [status, body, keep, when, trailers] of what the service answers
    Continues,      \* the server sends 100 (Continue)
    Timed,          \* requests with deadlines
    Stops,          \* the server is shut down
    Faults          \* requests are aborted, deadlines pass

VARIABLES
    conn,       \* the Http1Connection, and whether its transport is open
    up, down,   \* units under way
    server,     \* the service of this connection
    told,       \* per request: its completions, and what was received for it
    truth       \* per request: the request, and the response that the service chose

h1Vars == <<conn, up, down, server, told, truth>>

---------------------------------------------------------------------------
(***************************************************************************)
(* The HTTP/1 encoder and decoder (turnloop-http/src/http1.rs) as          *)
(* operators.  A message is a sequence of units: a head, the bytes of a    *)
(* body, chunk-size lines, the CRLF after a chunk or an empty trailer      *)
(* block, and a block of trailers.  A head says what its fields say of     *)
(* framing (`cl', `te') and persistence; both ends speak HTTP/1.1.         *)
(***************************************************************************)
Absent == -1                        \* no content-length field
Unit(kind, n) == [kind |-> kind, n |-> n]
Byte == Unit("byte", 0)
Size(n) == Unit("size", n)
Crlf == Unit("crlf", 0)
Trailers == Unit("trailers", 0)
HeadUnit(h) == [kind |-> "head", n |-> 0, h |-> h]

IsRequest(h) == h.status = 0
Succeeded(status) == status \in 200 .. 299

---------------------------------------------------------------------------
(* Encoder.  A body length is [kind, n].                                   *)

\* lengths(): what a head may not say.
Ambiguous(h) == h.cl # Absent /\ h.te

Conflict(h, body) ==
    CASE body.kind = "Known" -> h.te \/ h.cl \notin {Absent, body.n}
      [] body.kind = "Empty" -> h.te \/ h.cl \notin {Absent, 0}
      [] body.kind = "Chunked" -> h.cl # Absent
      [] body.kind = "CloseDelimited" -> h.te \/ h.cl # Absent
      [] body.kind = "Omitted" -> (h.cl # Absent \/ h.te) /\ (h.status < 200 \/ h.status = 204)

CanStart(h, body) ==
    /\ ~Ambiguous(h) /\ ~Conflict(h, body)
    /\ body.kind \in {"CloseDelimited", "Omitted"} => ~IsRequest(h)
    /\ body.kind = "CloseDelimited" => h.status >= 200 /\ h.status \notin {204, 304}

\* The head on the wire, with the framing field that the caller left out.
Framed(h, body) ==
    IF h.cl # Absent \/ h.te THEN h
    ELSE [h EXCEPT !.cl = IF body.kind = "Known" THEN body.n ELSE @, !.te = body.kind = "Chunked"]

NoEncoder == [kind |-> "none", n |-> 0, finished |-> FALSE]
Encoder(body) == [kind |-> body.kind, n |-> body.n, finished |-> FALSE]

CanBody(e, n) ==
    /\ ~e.finished /\ e.kind # "none"
    /\ e.kind \in {"Empty", "Omitted"} => n = 0
    /\ e.kind = "Known" => n <= e.n
Bytes(n) == [i \in 1 .. n |-> Byte]
BodyUnits(e, n) == IF e.kind = "Chunked" /\ n > 0 THEN <<Size(n)>> \o Bytes(n) \o <<Crlf>> ELSE Bytes(n)
AfterBody(e, n) == IF e.kind = "Known" THEN [e EXCEPT !.n = @ - n] ELSE e

CanFinish(e, trailers) ==
    /\ ~e.finished /\ e.kind # "none" /\ ~(e.kind = "Known" /\ e.n > 0)
    /\ trailers => e.kind = "Chunked"
FinishUnits(e, trailers) ==
    IF e.kind = "Chunked" THEN <<Size(0), IF trailers THEN Trailers ELSE Crlf>> ELSE <<>>
AfterFinish(e) == [e EXCEPT !.finished = TRUE]

---------------------------------------------------------------------------
(* Decoder.                                                                *)

NewDecoder(mode) ==
    [mode |-> mode, state |-> "Head", left |-> 0, headRequest |-> FALSE, connectRequest |-> FALSE,
     keepAlive |-> FALSE, upgradeRequest |-> FALSE]

ResponseTo(d, method) == [d EXCEPT !.headRequest = method = "HEAD", !.connectRequest = method = "CONNECT"]
Reusable(d) == d.state = "Done" /\ d.keepAlive
EofIsClean(d) == d.state \in {"Eof", "End", "Done"}
Eof(d) == IF ~EofIsClean(d) THEN [d EXCEPT !.state = "Failed"] ELSE IF d.state = "Eof" THEN [d EXCEPT !.state = "End"] ELSE d
Reset(d) == [d EXCEPT !.state = "Head"]

\* A step: the decoder after it, the units consumed, and the event, if any.
Step(d, consumed, event) == [d |-> d, consumed |-> consumed, event |-> event]
NoEvent == [kind |-> "none"]
Event(kind) == [kind |-> kind]
Failed(d) == Step([d EXCEPT !.state = "Failed"], 0, Event("Error"))

\* How a message with this head goes on.
AfterHead(d, h, cl, te) ==
    CASE d.mode = "Response" /\ (h.status = 101 \/ (d.connectRequest /\ Succeeded(h.status))) ->
           [d EXCEPT !.state = "Upgrade", !.keepAlive = FALSE]
      [] d.mode = "Response" /\ (d.headRequest \/ h.status \in {204, 304}) -> [d EXCEPT !.state = "End"]
      [] te -> [d EXCEPT !.state = "ChunkSize"]
      [] cl # Absent -> IF cl = 0 THEN [d EXCEPT !.state = "End"] ELSE [d EXCEPT !.state = "Fixed", !.left = cl]
      [] d.mode = "Request" -> [d EXCEPT !.state = "End"]
      [] OTHER -> [d EXCEPT !.state = "Eof", !.keepAlive = FALSE]

ReadHead(d, h) ==
    LET tunnel == d.mode = "Response" /\ d.connectRequest /\ Succeeded(h.status)
        cl == IF tunnel THEN Absent ELSE h.cl
        te == ~tunnel /\ h.te
        framed == cl # Absent \/ te
        s == [d EXCEPT !.keepAlive = ~h.close,
                       !.upgradeRequest = d.mode = "Request" /\ (h.method = "CONNECT" \/ h.upgrade)]
    IN IF cl # Absent /\ te THEN Failed(d)
       ELSE IF d.mode = "Response" /\ h.status \in 100 .. 199 \ {101}
       THEN IF framed THEN Failed(d) ELSE Step(s, 1, [kind |-> "Informational", h |-> h])
       ELSE IF d.mode = "Response" /\ h.status = 204 /\ framed THEN Failed(d)
       ELSE Step(AfterHead(s, h, cl, te), 1, [kind |-> "Head", h |-> h])

\* Bytes of a body of known length: as many as there are, up to its end.
ReadBytes(d, input) ==
    LET n == IF Len(input) < d.left THEN Len(input) ELSE d.left
        after == IF n < d.left THEN d.state ELSE IF d.state = "Fixed" THEN "End" ELSE "ChunkEnd"
    IN IF n = 0 THEN Step(d, 0, NoEvent)
       ELSE Step([d EXCEPT !.left = @ - n, !.state = after], n, [kind |-> "Body", units |-> SubSeq(input, 1, n)])

Receive(d, input) ==
    LET first == input[1]
        goes(state, event) == Step([d EXCEPT !.state = state], 1, event)
    IN CASE d.state = "End" ->
              Step([d EXCEPT !.state = "Done"], 0, Event(IF d.upgradeRequest THEN "Upgrade" ELSE "End"))
         [] d.state = "Upgrade" -> Step([d EXCEPT !.state = "Done"], 0, Event("Upgrade"))
         [] d.state = "Failed" -> Failed(d)
         [] d.state = "Done" \/ (d.state \notin {"End", "Upgrade", "Failed"} /\ input = <<>>) -> Step(d, 0, NoEvent)
         [] d.state = "Head" /\ input # <<>> -> IF first.kind = "head" THEN ReadHead(d, first.h) ELSE Failed(d)
         [] d.state \in {"Fixed", "Chunk"} /\ input # <<>> -> ReadBytes(d, input)
         [] d.state = "ChunkSize" /\ input # <<>> ->
              IF first.kind # "size" THEN Failed(d)
              ELSE IF first.n = 0 THEN goes("Trailers", NoEvent)
              ELSE Step([d EXCEPT !.state = "Chunk", !.left = first.n], 1, NoEvent)
         [] d.state = "ChunkEnd" /\ input # <<>> -> IF first = Crlf THEN goes("ChunkSize", NoEvent) ELSE Failed(d)
         [] d.state = "Trailers" /\ input # <<>> ->
              IF first = Crlf THEN goes("End", NoEvent)
              ELSE IF first = Trailers THEN goes("End", Event("Trailers")) ELSE Failed(d)
         [] d.state = "Eof" /\ input # <<>> -> Step(d, Len(input), [kind |-> "Body", units |-> input])

---------------------------------------------------------------------------
(* The exchange. *)

NoToken == 0
NoResponse == [status |-> 0]
NoRequest == [method |-> "none"]

Life == [deadline |-> FALSE, terminal |-> "none", delivered |-> FALSE]

Http1Init ==
    /\ conn = [dec |-> NewDecoder("Response"), enc |-> NoEncoder, out |-> <<>>, life |-> Life,
               active |-> FALSE, used |-> FALSE, uploaded |-> FALSE, close |-> FALSE, expects |-> FALSE,
               waiting |-> FALSE, token |-> NoToken, open |-> TRUE]
    /\ up = <<>> /\ down = <<>>
    /\ server = [dec |-> NewDecoder("Request"), phase |-> "head", enc |-> NoEncoder, plan |-> NoResponse,
                 request |-> NoRequest, token |-> NoToken, upgrade |-> FALSE, stopped |-> FALSE]
    /\ told = [t \in Tokens |-> [ends |-> <<>>, from |-> NoToken, bytes |-> 0, trailers |-> FALSE, wrong |-> FALSE]]
    /\ truth = [t \in Tokens |-> [request |-> NoRequest, response |-> NoResponse]]

---------------------------------------------------------------------------
(* The client.                                                             *)

ClientReusable(c) == ~c.active /\ ~c.close /\ c.life.delivered /\ Reusable(c.dec)

Finish(c, result) ==
    IF c.life.terminal # "none" THEN c ELSE [c EXCEPT !.life.terminal = result, !.life.deadline = FALSE]

\* fail(), abort() and an expired deadline.
Fail(c, result) ==
    [Finish(c, result) EXCEPT !.active = FALSE, !.close = TRUE, !.expects = FALSE]

RequestHead(t, r) ==
    [id |-> t, status |-> 0, method |-> r.method, cl |-> Absent, te |-> FALSE, close |-> r.close,
     upgrade |-> r.upgrade, expect |-> r.expect]

Start(t, r) ==
    LET h == RequestHead(t, r)
        c == conn
        waits == r.expect /\ r.body \notin {[kind |-> "Empty", n |-> 0], [kind |-> "Known", n |-> 0]}
    IN /\ truth[t].request = NoRequest /\ \A s \in Tokens : s < t => truth[s].request # NoRequest
       /\ c.open /\ ~c.active /\ c.out = <<>> /\ (c.used => ClientReusable(c))
       /\ CanStart(h, r.body)
       /\ conn' = [c EXCEPT !.out = <<HeadUnit(Framed(h, r.body))>>, !.enc = Encoder(r.body),
                            !.dec = ResponseTo(IF c.used THEN Reset(@) ELSE @, r.method),
                            !.active = TRUE, !.used = TRUE, !.uploaded = FALSE, !.close = r.close,
                            !.life = [Life EXCEPT !.deadline = t \in Timed],
                            !.waiting = waits, !.expects = waits, !.token = t]
       /\ truth' = [truth EXCEPT ![t].request = r]
       /\ UNCHANGED <<up, down, server, told>>

CanSendBody == conn.active /\ ~conn.waiting /\ ~conn.uploaded /\ conn.life.terminal = "none"

SendBody ==
    /\ CanSendBody /\ CanBody(conn.enc, 1) /\ (conn.enc.kind = "Chunked" => conn.out \o up = <<>>)
    /\ conn' = [conn EXCEPT !.out = @ \o BodyUnits(conn.enc, 1), !.enc = AfterBody(@, 1)]
    /\ UNCHANGED <<up, down, server, told, truth>>

FinishBody ==
    LET trailers == truth[conn.token].request.trailers
    IN /\ CanSendBody /\ CanFinish(conn.enc, trailers)
       /\ conn' = [conn EXCEPT !.out = @ \o FinishUnits(conn.enc, trailers), !.enc = AfterFinish(@),
                               !.uploaded = TRUE]
       /\ UNCHANGED <<up, down, server, told, truth>>

ConsumeOutput ==
    /\ conn.open /\ conn.out # <<>>
    /\ up' = Append(up, Head(conn.out)) /\ conn' = [conn EXCEPT !.out = Tail(@)]
    /\ UNCHANGED <<down, server, told, truth>>

\* What receive() makes of the decoder's event.
Notice(c, event) ==
    CASE event.kind = "Error" -> Fail(c, "Error")
      [] event.kind = "Informational" /\ event.h.status = 100 -> [c EXCEPT !.waiting = FALSE, !.expects = FALSE]
      [] event.kind = "Head" -> [c EXCEPT !.expects = FALSE, !.waiting = FALSE, !.close = @ \/ ~c.uploaded,
                                          !.uploaded = TRUE, !.life.deadline = FALSE]
      [] event.kind \in {"End", "Upgrade"} -> [Finish(c, "Success") EXCEPT !.active = FALSE]
      [] OTHER -> c

Record(t, event) ==
    CASE event.kind = "Head" -> [told EXCEPT ![t].from = event.h.id]
      [] event.kind = "Body" ->
           [told EXCEPT ![t].bytes = @ + Len(event.units),
                        ![t].wrong = @ \/ \E i \in DOMAIN event.units : event.units[i] # Byte]
      [] event.kind = "Trailers" -> [told EXCEPT ![t].trailers = TRUE]
      [] OTHER -> told

\* receive() with the first n units that have arrived; the host repeats it
\* while there is progress.
ClientReceives(n) ==
    /\ conn.open /\ conn.active /\ conn.life.terminal = "none" /\ n <= Len(down)
    /\ LET s == Receive(conn.dec, SubSeq(down, 1, n))
       IN /\ s.consumed > 0 \/ s.event # NoEvent
          /\ conn' = Notice([conn EXCEPT !.dec = s.d], s.event)
          /\ down' = SubSeq(down, s.consumed + 1, Len(down))
          /\ told' = Record(conn.token, s.event)
    /\ UNCHANGED <<up, server, truth>>

\* The transport ends: eof(), of a body that it delimits or too early.
ClientEof ==
    /\ conn.open /\ conn.active /\ server.phase \in {"linger", "closed"} /\ down = <<>>
    /\ conn.dec.state \notin {"End", "Upgrade"}
    /\ LET d == Eof(conn.dec)
       IN conn' = IF d.state = "Failed" THEN Fail([conn EXCEPT !.dec = d], "Error") ELSE [conn EXCEPT !.dec = d]
    /\ UNCHANGED <<up, down, server, told, truth>>

\* set_body_deadline().
SetBodyDeadline ==
    /\ conn.token \in Timed /\ conn.active /\ conn.life.terminal = "none" /\ ~conn.life.deadline
    /\ conn' = [conn EXCEPT !.life.deadline = TRUE]
    /\ UNCHANGED <<up, down, server, told, truth>>

\* handle_timeout(): of the headers or the body, or of waiting for 100 (Continue).
HandleTimeout ==
    /\ conn.open
    /\ \/ Faults /\ conn.life.deadline /\ conn' = Fail(conn, "Error")
       \/ conn.expects /\ conn' = [conn EXCEPT !.waiting = FALSE, !.expects = FALSE]
    /\ UNCHANGED <<up, down, server, told, truth>>

Abort ==
    /\ Faults /\ conn.active
    /\ conn' = Fail(conn, "Error")
    /\ UNCHANGED <<up, down, server, told, truth>>

PollCompletion ==
    /\ conn.life.terminal # "none" /\ ~conn.life.delivered
    /\ conn' = [conn EXCEPT !.life.delivered = TRUE]
    /\ told' = [told EXCEPT ![conn.token].ends = Append(@, conn.life.terminal)]
    /\ UNCHANGED <<up, down, server, truth>>

\* The host closes a connection that it cannot use again, or, idle, that the
\* server has closed; what is under way to it is lost.
ClientCloses ==
    /\ conn.open /\ conn.life.delivered
    /\ ~ClientReusable(conn) \/ server.phase \in {"linger", "closed"}
    /\ conn' = [conn EXCEPT !.open = FALSE, !.out = <<>>] /\ down' = <<>>
    /\ UNCHANGED <<up, server, told, truth>>

---------------------------------------------------------------------------
(* The server.                                                             *)

ResponseHead(t, p) ==
    [id |-> t, status |-> p.status, method |-> "", cl |-> Absent, te |-> FALSE, close |-> ~p.keep,
     upgrade |-> FALSE, expect |-> FALSE]

\* response_length(): an empty response says so.
ResponseLength(p) ==
    IF p.body.kind = "Empty" /\ p.status >= 200 /\ p.status \notin {204, 304} THEN [kind |-> "Known", n |-> 0] ELSE p.body

StartUnits(t, p) == <<HeadUnit(Framed(ResponseHead(t, p), ResponseLength(p)))>>
RestUnits(p) ==
    LET e == Encoder(ResponseLength(p))
        n == IF p.body.kind = "Empty" THEN 0 ELSE p.bytes
    IN BodyUnits(e, n) \o FinishUnits(e, p.trailers)

\* What a service can answer: HEAD has no body; CONNECT and upgrades are
\* accepted with 2xx and 101, which others are not given; a body that the close
\* delimits goes with a response that closes.
Suits(r, p) ==
    /\ r.method = "HEAD" <=> p.body.kind = "Omitted"
    /\ p.status = 101 => r.upgrade
    /\ p.status = 200 /\ r.method = "CONNECT" => p.body.kind = "Empty"
    /\ p.body.kind = "CloseDelimited" => ~p.keep

LingersAfter(s, p) ==
    LET switched == s.upgrade /\ (p.status = 101 \/ (s.request.method = "CONNECT" /\ Succeeded(p.status)))
    IN s.stopped \/ switched \/ ~Reusable(s.dec) \/ ~p.keep

\* The service at a request's head: it may answer at once, begin to, or wait
\* for the end of the request.
ServeHead(s, h, p) ==
    /\ server' = [s EXCEPT !.phase = "body", !.plan = p, !.request = truth[h.id].request, !.token = h.id, !.upgrade = FALSE]
    /\ truth' = [truth EXCEPT ![h.id].response = p]
    /\ down' = down \o (IF h.expect /\ Continues
                        THEN <<HeadUnit([ResponseHead(h.id, p) EXCEPT !.status = 100, !.close = FALSE])>> ELSE <<>>)
                    \o (IF p.when \in {"head", "split"} THEN StartUnits(h.id, p) ELSE <<>>)
                    \o (IF p.when = "head" THEN RestUnits(p) ELSE <<>>)

\* At its end: the rest of the answer, and on to the next request or to the
\* lingering close.
ServeEnd(s) ==
    LET p == s.plan
    IN /\ down' = down \o (IF p.when = "end" THEN StartUnits(s.token, p) ELSE <<>>)
                       \o (IF p.when # "head" THEN RestUnits(p) ELSE <<>>)
       /\ server' = IF LingersAfter(s, p) THEN [s EXCEPT !.phase = "linger"]
                    ELSE [s EXCEPT !.phase = "head", !.dec = Reset(@), !.plan = NoResponse, !.token = NoToken]
       /\ UNCHANGED truth

ServerReceives(n) ==
    /\ server.phase \in {"head", "body"} /\ n <= Len(up)
    /\ server.phase = "head" => ~server.stopped
    /\ LET s == Receive(server.dec, SubSeq(up, 1, n))
           next == [server EXCEPT !.dec = s.d]
       IN /\ s.consumed > 0 \/ s.event # NoEvent
          /\ up' = SubSeq(up, s.consumed + 1, Len(up))
          /\ CASE s.event.kind = "Head" -> \E p \in Responses : Suits(truth[s.event.h.id].request, p) /\ ServeHead(next, s.event.h, p)
               [] s.event.kind = "Error" -> server' = [next EXCEPT !.phase = "closed"] /\ UNCHANGED <<down, truth>>
               [] s.event.kind \in {"End", "Upgrade"} -> ServeEnd([next EXCEPT !.upgrade = s.event.kind = "Upgrade"])
               [] OTHER -> server' = next /\ UNCHANGED <<down, truth>>
    /\ UNCHANGED <<conn, told>>

\* The client's end of the transport: the service fails or ends; a lingering
\* close is over.
ServerEof ==
    /\ ~conn.open /\ server.phase # "closed"
    /\ server.phase = "linger" \/ (up = <<>> /\ server.dec.state # "End")
    /\ server' = [server EXCEPT !.phase = "closed"] /\ up' = <<>>
    /\ UNCHANGED <<conn, down, told, truth>>

\* Shutdown: the wait for a request is cancelled.
Stop ==
    /\ Stops /\ ~server.stopped
    /\ server' = [server EXCEPT !.stopped = TRUE]
    /\ UNCHANGED <<conn, up, down, told, truth>>

StoppedIdle ==
    /\ server.stopped /\ server.phase = "head"
    /\ server' = [server EXCEPT !.phase = "linger"]
    /\ UNCHANGED <<conn, up, down, told, truth>>

\* Peer input is discarded.
Linger ==
    /\ server.phase = "linger" /\ up # <<>>
    /\ up' = <<>>
    /\ UNCHANGED <<conn, down, server, told, truth>>

Http1Next ==
    \/ \E t \in Tokens, r \in Requests : Start(t, r)
    \/ SendBody \/ FinishBody \/ ConsumeOutput
    \/ \E n \in 0 .. Len(down) : ClientReceives(n)
    \/ ClientEof \/ SetBodyDeadline \/ HandleTimeout \/ Abort \/ PollCompletion \/ ClientCloses
    \/ \E n \in 0 .. Len(up) : ServerReceives(n)
    \/ ServerEof \/ Stop \/ StoppedIdle \/ Linger

---------------------------------------------------------------------------
Ended(t) == told[t].ends # <<>>

\* A request has one completion, none before it is started (Lifecycle).
Http1ToldOnce ==
    \A t \in Tokens : Len(told[t].ends) + (IF conn.token = t /\ ~conn.life.delivered THEN 1 ELSE 0)
                          = IF truth[t].request = NoRequest THEN 0 ELSE 1

\* A request that succeeded has the head, the whole body and the trailers of
\* the response that the service gave to it, no byte of another message.
Http1AnswersMatch ==
    \A t \in Tokens : told[t].ends = <<"Success">> =>
        LET p == truth[t].response
            bodied == p.body.kind \notin {"Empty", "Omitted"} /\ p.status \notin {204, 304, 101}
        IN /\ told[t].from = t /\ ~told[t].wrong
           /\ told[t].bytes = IF bodied THEN p.bytes ELSE 0
           /\ told[t].trailers = p.trailers

\* The server's decoder after all that is under way to it.
Drained ==
    LET take(d, unit) ==
            LET s == Receive(d, <<unit>>)
            IN IF s.consumed = 1 THEN s.d ELSE [d EXCEPT !.state = "Failed"]
    IN FoldLeft(take, server.dec, up \o conn.out)

\* A connection that may be used again is at a message boundary at both ends:
\* nothing of an earlier response is under way, and the server, unless it is
\* closing, has or will have read exactly one whole request.
Http1EndsAgree ==
    ClientReusable(conn) /\ conn.open =>
        /\ down = <<>>
        /\ server.phase \in {"head", "body"} =>
              \/ Drained.state \in {"End", "Done"}
              \/ server.phase = "head" /\ server.dec.state = "Head" /\ up \o conn.out = <<>>

\* Neither decoder fails, whenever a response comes, but at the end of a
\* transport that cuts a message off.
Http1Tolerates ==
    /\ server.dec.state # "Failed"
    /\ conn.dec.state = "Failed" => down = <<>> /\ server.phase \in {"linger", "closed"}

Http1Pending(t) == truth[t].request # NoRequest /\ ~Ended(t)
=============================================================================
