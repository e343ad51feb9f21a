---------------------------- MODULE StreamLayers ----------------------------
(***************************************************************************)
(* Layers over a byte stream: WebSocket here, TLS in the second half.      *)
(*                                                                         *)
(* Two ends of a WebSocket, protocols/turnloop-websocket: the upgrade      *)
(* (ClientHandshake, accept), the sans-I/O Connection of lib.rs over the   *)
(* library's WebSocketContext, and the WebSocketStream of asynchronous.rs, *)
(* whose operations write and read a stream, close it when they are        *)
(* dropped half way, and end it with the closing handshake and a linger.   *)
(*                                                                         *)
(* conn    for each end, its WebSocketStream: context (state, the reply it *)
(*         owes, frames parsed from), core, input, output, and where the   *)
(*         operation that is running stands                                *)
(* up      frames from the client; down, from the server; one "eof" ends   *)
(*         them                                                            *)
(* server  the subprotocols offered, supported, and agreed by each end     *)
(* told    for each end, the messages its receive returned                 *)
(* truth   for each end, the messages sent and how its operations ended    *)
(***************************************************************************)
EXTENDS Naturals, Sequences, SequencesExt, FiniteSets

CONSTANTS
    Offers, Supports,   \* subprotocols: sets the client offers, lists the server supports
    NoProtocol,
    Sends,              \* for each end, the messages it may send, in order
    Faults              \* whether operations are dropped and deadlines pass

VARIABLES conn, up, down, server, told, truth
socketVars == <<conn, up, down, server, told, truth>>

Ends == {"client", "server"}
Peer(e) == IF e = "client" THEN "server" ELSE "client"

---------------------------------------------------------------------------
(* The upgrade.                                                            *)

\* accept: the first supported one that is offered.
Selected ==
    LET common == SelectSeq(server.supports, LAMBDA p : p \in server.offers)
    IN  IF common = <<>> THEN NoProtocol ELSE common[1]

\* verify: an offer must be taken up.
Verifies(p) == IF p = NoProtocol THEN server.offers = {} ELSE p \in server.offers

NewStream ==
    [open |-> FALSE, state |-> "Active", owes |-> "none", buffer |-> <<>>, terminal |-> FALSE, peerClose |-> FALSE,
     input |-> <<>>, output |-> <<>>, closed |-> FALSE, at |-> "idle", op |-> "none", message |-> "none"]

SocketInit ==
    /\ conn = [e \in Ends |-> NewStream]
    /\ up = <<>> /\ down = <<>> /\ told = [e \in Ends |-> <<>>]
    /\ truth = [sent |-> [e \in Ends |-> <<>>], ended |-> [e \in Ends |-> "none"], pongs |-> [e \in Ends |-> 0]]
    /\ \E o \in Offers, s \in Supports :
         server = [offers |-> o, supports |-> s, agreed |-> [e \in Ends |-> NoProtocol], upgraded |-> FALSE]

Upgrade ==
    /\ ~server.upgraded
    /\ server' = [server EXCEPT !.upgraded = TRUE,
                                !.agreed = [e \in Ends |-> IF Verifies(Selected) THEN Selected ELSE NoProtocol]]
    /\ conn' = [e \in Ends |-> [NewStream EXCEPT !.open = (e = "server" \/ Verifies(Selected))]]
    /\ up' = IF Verifies(Selected) THEN up ELSE <<"eof">>
    /\ UNCHANGED <<down, told, truth>>

---------------------------------------------------------------------------
(* The library's context (external): its states, the reply it owes, and    *)
(* that a server is terminated once both close frames have passed.         *)

CanRead(c) == c.state \in {"Active", "ClosedByUs"}

\* flush: the owed reply, and the end of a server's connection.
ContextFlush(c, e) ==
    LET d == [c EXCEPT !.output = @ \o (IF c.owes = "none" THEN <<>> ELSE <<c.owes>>), !.owes = "none"]
    IN  IF e = "server" /\ ~CanRead(d) THEN [ok |-> FALSE, then |-> [d EXCEPT !.state = "Terminated"]]
        ELSE [ok |-> c.state # "Terminated", then |-> d]

ContextTakes(c, f) ==
    CASE f = "ping" -> [c EXCEPT !.owes = IF c.state = "Active" THEN "pong" ELSE @]
      [] f = "close" -> [c EXCEPT !.state = IF @ = "Active" THEN "ClosedByPeer" ELSE "CloseAcknowledged",
                                  !.owes = IF c.state = "Active" THEN "close" ELSE @]
      [] OTHER -> c

---------------------------------------------------------------------------
(* Connection.                                                             *)

\* send: nothing after a close frame.
CoreSend(c, m) ==
    IF c.terminal \/ c.state # "Active" THEN [ok |-> FALSE, then |-> c]
    ELSE [ok |-> TRUE, then |-> [c EXCEPT !.output = @ \o (IF c.owes = "none" THEN <<m>> ELSE <<m, c.owes>>), !.owes = "none",
                                          !.state = IF m = "close" THEN "ClosedByUs" ELSE @]]

\* receive: a frame already taken in, else one of the input, all of which is
\* taken in.
CoreReceive(c) ==
    LET frames == IF c.buffer # <<>> THEN c.buffer ELSE c.input
        left == [c EXCEPT !.input = IF c.buffer # <<>> THEN @ ELSE <<>>, !.buffer = IF frames = <<>> THEN <<>> ELSE Tail(frames)]
        taken == ContextTakes(left, frames[1])
    IN  IF c.terminal \/ c.state = "Terminated" THEN [ok |-> FALSE, then |-> c]
        ELSE IF frames = <<>> THEN [ok |-> TRUE, then |-> [left EXCEPT !.message = "none"]]
        ELSE IF ~CanRead(c) THEN [ok |-> FALSE, then |-> [left EXCEPT !.terminal = TRUE]]
        ELSE [ok |-> TRUE, then |-> [taken EXCEPT !.message = frames[1], !.peerClose = @ \/ frames[1] = "close"]]

CoreFlush(c, e) ==
    LET r == ContextFlush(c, e)
    IN  IF c.terminal THEN [ok |-> FALSE, then |-> c]
        ELSE [ok |-> r.ok, then |-> [r.then EXCEPT !.terminal = ~r.ok]]

---------------------------------------------------------------------------
(* WebSocketStream.                                                        *)

Outgoing(e) == IF e = "client" THEN up ELSE down
Incoming(e) == IF e = "client" THEN down ELSE up
Puts(e, frames) == IF e = "client" THEN up' = up \o frames /\ UNCHANGED down ELSE down' = down \o frames /\ UNCHANGED up
Takes(e, n) == IF e = "client" THEN down' = SubSeq(down, n + 1, Len(down)) /\ UNCHANGED up
               ELSE up' = SubSeq(up, n + 1, Len(up)) /\ UNCHANGED down

Ended(e, how) == truth' = [truth EXCEPT !.ended[e] = how]

\* The guard of an operation that fails or is dropped closes the stream; so
\* does a close that fails.
Drops(e, c, how) ==
    /\ conn' = [conn EXCEPT ![e] = [c EXCEPT !.open = FALSE, !.at = "idle", !.op = "none"]]
    /\ IF Outgoing(e) # <<>> /\ Last(Outgoing(e)) = "eof" THEN UNCHANGED <<up, down>> ELSE Puts(e, <<"eof">>)
    /\ Ended(e, how) /\ UNCHANGED <<server, told>>

Begin(e, m, op) ==
    /\ conn[e].at = "idle" /\ server.upgraded /\ conn[e].open
    /\ LET r == CoreSend(conn[e], m)
       IN  IF r.ok THEN /\ conn' = [conn EXCEPT ![e] = [r.then EXCEPT !.at = "writes", !.op = op, !.message = m]]
                        /\ UNCHANGED <<up, down, server, told, truth>>
           ELSE Drops(e, conn[e], "failed")

Send(e) ==
    /\ Len(truth.sent[e]) < Len(Sends[e])
    /\ Begin(e, Sends[e][Len(truth.sent[e]) + 1], "send")

\* close begins with a send of the close frame.
Close(e) == Begin(e, "close", "close")

Sent(e) ==
    /\ conn[e].at = "writes"
    /\ Puts(e, conn[e].output)
    /\ conn' = [conn EXCEPT ![e].output = <<>>, ![e].message = "none",
                            ![e].at = IF conn[e].op = "close" THEN "decodes" ELSE "idle",
                            ![e].op = IF conn[e].op = "close" THEN "close" ELSE "none"]
    /\ truth' = IF conn[e].op = "send" THEN [truth EXCEPT !.sent[e] = Append(@, conn[e].message)] ELSE truth
    /\ UNCHANGED <<server, told>>

Receive(e) ==
    /\ conn[e].at = "idle" /\ conn[e].open /\ server.upgraded /\ ~conn[e].closed
    /\ conn' = [conn EXCEPT ![e].at = "decodes", ![e].op = "receive"]
    /\ UNCHANGED <<up, down, server, told, truth>>

\* One step of the core, and the replies it owes.
Decodes(e) ==
    /\ conn[e].at = "decodes"
    /\ LET r == CoreReceive(conn[e])
           f == CoreFlush(r.then, e)
       IN  IF ~r.ok THEN Drops(e, r.then, "failed")
           ELSE /\ conn' = [conn EXCEPT ![e] = [f.then EXCEPT !.closed = @ \/ ~f.ok, !.at = "replies"]]
                /\ UNCHANGED <<up, down, server, told, truth>>

\* The lingering close: half-close, and discard until the peer's end.
Lingers(c) == [c EXCEPT !.closed = TRUE, !.at = "lingers", !.input = <<>>]

Returns(e, c) ==
    IF c.op = "close" /\ (c.closed \/ c.message = "close") THEN Lingers(c)
    ELSE IF c.op = "close" THEN [c EXCEPT !.at = "decodes"]
    ELSE [c EXCEPT !.at = "idle", !.op = "none"]

Replied(e) ==
    /\ conn[e].at = "replies"
    /\ LET c == [conn[e] EXCEPT !.output = <<>>]
           answers == Cardinality({i \in DOMAIN conn[e].output : conn[e].output[i] = "pong"})
           then == IF c.message # "none" \/ c.closed THEN Returns(e, c) ELSE [c EXCEPT !.at = "reads"]
       IN  /\ conn' = [conn EXCEPT ![e] = then]
           /\ Puts(e, conn[e].output \o (IF then.at = "lingers" THEN <<"eof">> ELSE <<>>))
           /\ told' = IF c.message # "none" THEN [told EXCEPT ![e] = Append(@, c.message)] ELSE told
           /\ truth' = [truth EXCEPT !.pongs[e] = @ + answers]
    /\ UNCHANGED server

Read(e, n) ==
    /\ conn[e].at = "reads" /\ n <= Len(Incoming(e)) /\ \A i \in 1 .. n : Incoming(e)[i] # "eof"
    /\ conn' = [conn EXCEPT ![e].input = @ \o SubSeq(Incoming(e), 1, n), ![e].at = "decodes"]
    /\ Takes(e, n) /\ UNCHANGED <<server, told, truth>>

\* eof: the end of the stream is clean only behind the peer's close frame.
ReadEnds(e) ==
    /\ conn[e].at = "reads" /\ Incoming(e) # <<>> /\ Incoming(e)[1] = "eof"
    /\ LET c == [conn[e] EXCEPT !.closed = TRUE, !.terminal = TRUE]
       IN  IF ~c.peerClose THEN Drops(e, c, "failed")
           ELSE /\ conn' = [conn EXCEPT ![e] = Returns(e, c)]
                /\ IF c.op = "close" THEN Puts(e, <<"eof">>) /\ UNCHANGED truth
                   ELSE Ended(e, "clean") /\ UNCHANGED <<up, down>>
                /\ UNCHANGED <<server, told>>

LingerEnds(e) ==
    /\ conn[e].at = "lingers" /\ (Faults \/ (Incoming(e) # <<>> /\ Last(Incoming(e)) = "eof"))
    /\ conn' = [conn EXCEPT ![e].at = "idle", ![e].op = "none", ![e].open = FALSE]
    /\ Ended(e, "closed") /\ UNCHANGED <<up, down, server, told>>

\* An operation is dropped, or its deadline passes, at one of its awaits.
Cancelled(e) ==
    /\ Faults /\ conn[e].at \in {"writes", "replies", "reads"} /\ truth.ended[e] = "none"
    /\ Drops(e, conn[e], "dropped")

SocketNext ==
    \/ Upgrade
    \/ \E e \in Ends :
         \/ Send(e) \/ Close(e) \/ Sent(e) \/ Receive(e) \/ Decodes(e) \/ Replied(e)
         \/ ReadEnds(e) \/ LingerEnds(e) \/ Cancelled(e)
         \/ \E n \in 1 .. Len(Incoming(e)) : Read(e, n)

---------------------------------------------------------------------------
\* Each end receives what the other sent, once and in order, and gets its
\* pings answered before it sees them.
MessagesMatch ==
    \A e \in Ends :
        /\ IsPrefix(SelectSeq(told[e], LAMBDA m : m \notin {"pong", "close"}), truth.sent[Peer(e)])
        /\ conn[e].state = "Active" => Cardinality({i \in DOMAIN told[e] : told[e][i] = "ping"}) = truth.pongs[e]

\* The ends agree on the subprotocol, and only on one the client offered.
ProtocolsAgree ==
    /\ server.agreed["client"] = server.agreed["server"]
    /\ server.agreed["client"] # NoProtocol => server.agreed["client"] \in server.offers

\* Nothing follows a close frame on the wire, and an end that was told of a
\* clean end has had the peer's close frame; whose close returned has had both.
CloseIsMutual ==
    /\ \A s \in {up, down} : \A i \in DOMAIN s : s[i] = "close" => \A j \in i + 1 .. Len(s) : s[j] = "eof"
    /\ \A e \in Ends :
          /\ truth.ended[e] \in {"clean", "closed"} => conn[e].peerClose
          /\ truth.ended[e] = "closed" => conn[Peer(e)].state # "Active"

---------------------------------------------------------------------------
(***************************************************************************)
(* An end of a TLS connection, protocols/turnloop-tls/src/asynchronous.rs: *)
(* the library's state machine (external) is driven by polls for one of    *)
(* four intents, over buffers that outlive a poll.  Reads, writes and a    *)
(* half-close of one task interleave at every Pending, also while records  *)
(* wait to be written.  Records are the unit of data; one is read in two.  *)
(*                                                                         *)
(* conn    Transport and Buffers, the library's session, and the poll that *)
(*         is running (none between polls)                                 *)
(* up      records written to the transport, and "fin" behind the last     *)
(* down    records the peer sent that were not read yet                    *)
(* server  what the peer has still to send                                 *)
(* told    the plaintext the application read, and "eof"                   *)
(* truth   the records the library produced, in order, the data the peer   *)
(*         sent, and whether a record was acknowledged before it was sent  *)
(***************************************************************************)
CONSTANTS
    Server,             \* whether this end accepts
    Writes,             \* the records the application writes
    Script,             \* what the peer sends after its handshake
    PlainRoom           \* parts of plaintext kept unread

tlsVars == <<conn, up, down, server, told, truth>>

---------------------------------------------------------------------------
(* The library: flights of the handshake, and the state it reports.        *)

NewSession == [handshaking |-> TRUE, queue |-> IF Server THEN <<>> ELSE <<"ch">>, unacked |-> FALSE, peerClosed |-> FALSE,
               awaits |-> IF Server THEN <<"ch", "cf">> ELSE <<"sh">>]

\* What a handshake record makes the library send.
Answer(r) == CASE r = "ch" -> <<"sh", "se">> [] r = "cf" -> <<"tickets">> [] r = "sh" -> <<"cf">>

NewBuffers ==
    [input |-> <<>>, output |-> <<>>, transmitted |-> FALSE, plain |-> <<>>, peerClosed |-> FALSE, closeSent |-> FALSE,
     session |-> NewSession, intent |-> "none", phase |-> "none", life |-> "handshake"]

TlsInit ==
    /\ conn = NewBuffers /\ up = <<>> /\ down = <<>> /\ told = <<>>
    /\ server = IF Server THEN <<"ch", "cf">> \o Script ELSE <<"sh", "tickets">> \o Script
    /\ truth = [made |-> <<>>, peer |-> <<>>, written |-> 0, early |-> FALSE, fins |-> 0]

---------------------------------------------------------------------------
(* step: one state of the library.                                         *)

b == conn
s == conn.session
Running == conn.intent # "none"
Goes(c) == conn' = c

Return(c) == [c EXCEPT !.intent = "none", !.phase = "none"]
Failed(c) == [Return(c) EXCEPT !.life = "failed"]

\* EncodeTlsData behind what is buffered, and its TransmitTlsData, which is
\* acknowledged once poll_output has ended.
Encode ==
    /\ s.queue # <<>>
    /\ Goes([b EXCEPT !.output = Append(@, s.queue[1]), !.session.queue = Tail(@), !.session.unacked = TRUE])
    /\ truth' = [truth EXCEPT !.made = Append(@, s.queue[1])]
    /\ UNCHANGED <<up, down, server, told>>

Transmit ==
    /\ s.queue = <<>> /\ s.unacked
    /\ IF b.transmitted
       THEN /\ Goes([b EXCEPT !.transmitted = FALSE, !.session.unacked = FALSE])
            /\ truth' = [truth EXCEPT !.early = @ \/ b.output # <<>>]
       ELSE Goes([b EXCEPT !.transmitted = TRUE, !.phase = "output"]) /\ UNCHANGED truth
    /\ UNCHANGED <<up, down, server, told>>

Quiet == s.queue = <<>> /\ ~s.unacked

\* The library takes a handshake record or tickets on its own.
TakeHandshake ==
    /\ Quiet /\ b.input # <<>> /\ b.input[1] \in {"ch", "sh", "cf", "tickets"}
    /\ LET r == b.input[1]
       IN  Goes([b EXCEPT !.input = Tail(@), !.session.queue = IF r = "tickets" THEN <<>> ELSE Answer(r),
                          !.session.awaits = IF r = "tickets" THEN @ ELSE Tail(@),
                          !.session.handshaking = IF r = "tickets" THEN @ ELSE Len(s.awaits) > 1])
    /\ UNCHANGED <<up, down, server, told, truth>>

\* A record is read in two parts.
Payload(r) == <<r, r>>

\* ReadTraffic keeps the plaintext, or fails at the limit.
ReadTraffic ==
    /\ Quiet /\ b.input # <<>> /\ b.input[1] \notin {"ch", "sh", "cf", "tickets", "notify"}
    /\ Goes(IF Len(b.plain) + 2 > PlainRoom THEN Failed(b)
            ELSE [b EXCEPT !.plain = @ \o Payload(b.input[1]), !.input = Tail(@)])
    /\ UNCHANGED <<up, down, server, told, truth>>

PeerClosed ==
    /\ Quiet /\ b.input # <<>> /\ b.input[1] = "notify"
    /\ Goes([b EXCEPT !.peerClosed = TRUE, !.session.peerClosed = TRUE, !.input = <<>>])
    /\ UNCHANGED <<up, down, server, told, truth>>

Idle == Quiet /\ b.input = <<>>
Closed == s.peerClosed /\ b.closeSent

\* WriteTraffic and Closed, for each intent.
HandshakeDone == Idle /\ ~s.handshaking /\ b.intent = "handshake" /\ Goes([Return(b) EXCEPT !.life = "open"])
                 /\ UNCHANGED <<up, down, server, told, truth>>

Encrypts ==
    /\ Idle /\ ~s.handshaking /\ b.intent = "write" /\ ~Closed
    /\ Goes([Return(b) EXCEPT !.output = <<Writes[truth.written + 1]>>])
    /\ truth' = [truth EXCEPT !.made = Append(@, Writes[truth.written + 1]), !.written = @ + 1]
    /\ UNCHANGED <<up, down, server, told>>

QueuesNotify ==
    /\ Idle /\ ~s.handshaking /\ b.intent = "close" /\ ~b.closeSent
    /\ Goes([b EXCEPT !.output = <<"notify">>, !.closeSent = TRUE, !.transmitted = TRUE, !.phase = "output"])
    /\ truth' = [truth EXCEPT !.made = Append(@, "notify")]
    /\ UNCHANGED <<up, down, server, told>>

\* The transport is read when the library has nothing else to do: pending,
\* an end, or some records.
Reads == Idle /\ (s.handshaking \/ (b.intent = "read" /\ ~Closed))

ReadPends == Reads /\ down = <<>> /\ Goes(Return(b)) /\ UNCHANGED <<up, down, server, told, truth>>

ReadSome(n) ==
    /\ Reads /\ n <= Len(down) /\ down[1] # "fin"
    /\ \A i \in 1 .. n : down[i] # "fin"
    /\ Goes([b EXCEPT !.input = @ \o SubSeq(down, 1, n)]) /\ down' = SubSeq(down, n + 1, Len(down))
    /\ UNCHANGED <<up, server, told, truth>>

TlsReadEnds ==
    /\ Reads /\ down # <<>> /\ down[1] = "fin"
    /\ Goes(Failed(b)) /\ UNCHANGED <<up, down, server, told, truth>>

---------------------------------------------------------------------------
(* poll_drive and poll_output.                                             *)

\* A poll first completes the output phase that an earlier one left.
Poll(intent) ==
    /\ ~Running /\ b.life = (IF intent = "handshake" THEN "handshake" ELSE "open")
    /\ intent = "write" => truth.written < Len(Writes) /\ ~b.closeSent
    /\ intent = "read" => "eof" \notin ToSet(told)
    /\ intent = "close" => truth.fins = 0
    /\ Goes([b EXCEPT !.intent = intent, !.phase = "output"])
    /\ UNCHANGED <<up, down, server, told, truth>>

WriteOne ==
    /\ b.phase = "output" /\ b.output # <<>>
    /\ up' = Append(up, b.output[1]) /\ Goes([b EXCEPT !.output = Tail(@)])
    /\ UNCHANGED <<down, server, told, truth>>

WritePends ==
    /\ b.phase = "output" /\ b.output # <<>> /\ Goes(Return(b))
    /\ UNCHANGED <<up, down, server, told, truth>>

WriteFails ==
    /\ Faults /\ b.phase = "output" /\ b.output # <<>> /\ Goes(Failed(b))
    /\ UNCHANGED <<up, down, server, told, truth>>

\* What an intent has already is returned before the library is entered;
\* a half-close shuts the transport down behind its close_notify.
Flushed ==
    /\ b.phase = "output" /\ b.output = <<>>
    /\ IF b.intent = "read" /\ (b.plain # <<>> \/ b.peerClosed)
       THEN /\ told' = Append(told, IF b.plain # <<>> THEN b.plain[1] ELSE "eof")
            /\ Goes([Return(b) EXCEPT !.plain = IF @ = <<>> THEN <<>> ELSE Tail(@)])
            /\ UNCHANGED <<up, truth>>
       ELSE IF b.intent = "close" /\ b.closeSent
       THEN /\ up' = Append(up, "fin") /\ truth' = [truth EXCEPT !.fins = @ + 1]
            /\ Goes(Return(b)) /\ UNCHANGED told
       ELSE Goes([b EXCEPT !.phase = "loop"]) /\ UNCHANGED <<up, told, truth>>
    /\ UNCHANGED <<down, server>>

\* The loop looks at its intent again before every step.
Has == b.intent = "read" /\ (b.plain # <<>> \/ b.peerClosed)

HasRead == b.phase = "loop" /\ Has /\ Goes([b EXCEPT !.phase = "output"]) /\ UNCHANGED <<up, down, server, told, truth>>

Step ==
    /\ b.phase = "loop" /\ ~Has
    /\ \/ Encode \/ Transmit \/ TakeHandshake \/ ReadTraffic \/ PeerClosed \/ HandshakeDone \/ Encrypts \/ QueuesNotify
       \/ ReadPends \/ TlsReadEnds \/ \E n \in 1 .. Len(down) : ReadSome(n)

---------------------------------------------------------------------------
(* The deadline of connect and accept, and the peer (external).            *)

HandshakeTimesOut ==
    /\ Faults /\ ~Running /\ b.life = "handshake" /\ Goes([b EXCEPT !.life = "failed"])
    /\ UNCHANGED <<up, down, server, told, truth>>

\* The peer answers the handshake in turn, then sends its script.
Due(r) ==
    CASE r = "ch" -> TRUE
      [] r = "sh" -> "ch" \in ToSet(up)
      [] r = "cf" -> "sh" \in ToSet(up)
      [] r = "tickets" -> "cf" \in ToSet(up)
      [] OTHER -> IF Server THEN "sh" \in ToSet(up) ELSE "cf" \in ToSet(up)

PeerSends ==
    /\ server # <<>> /\ Due(server[1])
    /\ down' = Append(down, server[1]) /\ server' = Tail(server)
    /\ truth' = IF server[1] \in {"ch", "sh", "cf", "tickets"} THEN truth ELSE [truth EXCEPT !.peer = Append(@, server[1])]
    /\ UNCHANGED <<conn, up, told>>

PeerEnds ==
    /\ "fin" \notin ToSet(down)
    /\ Faults \/ server = <<>>
    /\ down' = Append(down, "fin") /\ server' = <<>>
    /\ UNCHANGED <<conn, up, told, truth>>

TlsNext ==
    \/ \E i \in {"handshake", "read", "write", "close"} : Poll(i)
    \/ WriteOne \/ WritePends \/ WriteFails \/ Flushed \/ HasRead \/ Step
    \/ HandshakeTimesOut \/ PeerSends \/ PeerEnds

---------------------------------------------------------------------------
\* The records the library makes reach the transport once and in order, none
\* is overwritten or acknowledged before it is written, whatever polls
\* interleave, and nothing follows close_notify.
RecordsInOrder ==
    /\ SelectSeq(up, LAMBDA r : r # "fin") \o b.output = truth.made
    /\ ~truth.early
    /\ \A i \in DOMAIN up : up[i] = "notify" => \A j \in i + 1 .. Len(up) : up[j] = "fin"

\* The application reads what the peer sent, once and in order, and is told of
\* an end only behind the peer's close_notify.
PlaintextInOrder ==
    LET data == FlattenSeq([i \in DOMAIN truth.peer |-> IF truth.peer[i] = "notify" THEN <<"eof">> ELSE Payload(truth.peer[i])])
    IN  IsPrefix(told, data)
=============================================================================
