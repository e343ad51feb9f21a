-------------------------- MODULE MongoConnection ---------------------------
(***************************************************************************)
(* One MongoDB connection: the protocol core of                            *)
(* protocols/turnloop-mongodb/src/connection.rs with the SCRAM exchange of *)
(* auth.rs, under the driver of turnloop-io (lib.rs), as the adapter       *)
(* async_connection.rs uses them.  A frame is two halves on the wire, so   *)
(* that it can arrive in parts.                                            *)
(*                                                                         *)
(* conn    core, the protocol; open, whether the driver has its transport; *)
(*         input, what it read and has not fed; at, where Driver::next     *)
(*         stands: idle, run, flush, read or tls; job, the call it serves, *)
(*         and its command                                                 *)
(* up      requests on their way                                           *)
(* down    halves of replies on their way                                  *)
(* server  what of the handshake the server will do, and whether it is up  *)
(* told    how each command ended                                          *)
(* truth   how often each accepted token was settled                       *)
(***************************************************************************)
EXTENDS Naturals, Sequences, FiniteSets

CONSTANTS
    Tokens,          \* the commands, 1 .. n, in order
    Unacknowledged,  \* those with write concern 0
    Encoded,         \* those an Operation sends (command_encoded)
    Tls, Credential, \* the options
    LastId,          \* the largest request id, after which they start again
    Faults           \* the server may fail, and deadlines may pass

VARIABLES conn, up, down, server, told, truth
mongoVars == <<conn, up, down, server, told, truth>>

NoToken == 0
NoFrame == [to |-> 0, body |-> "none", token |-> 0, halves |-> 0]
Event(kind, token) == [kind |-> kind, token |-> token]

core == conn.core
Queue(c, e) == [c EXCEPT !.events = Append(@, e)]

---------------------------------------------------------------------------
(* The protocol core.                                                      *)

NewCore ==
    [state |-> "New", tx |-> <<>>, frame |-> NoFrame, events |-> <<>>, id |-> 0, token |-> NoToken, scram |-> 0,
     timed |-> FALSE]

NextId(c) == IF c.id = LastId THEN 1 ELSE c.id + 1

Emit(c, kind, t) == [c EXCEPT !.id = NextId(c), !.tx = <<[id |-> NextId(c), kind |-> kind, token |-> t]>>]

\* The first message carries the start of SCRAM along.
Handshake(c) ==
    [Emit(c, "hello", NoToken) EXCEPT !.state = "Handshake", !.scram = IF Credential THEN 1 ELSE 0]

CoreConnected(c) ==
    IF Tls THEN Queue([c EXCEPT !.state = "Tls", !.timed = TRUE], Event("UpgradeTls", NoToken))
    ELSE Handshake([c EXCEPT !.timed = TRUE])

Fail(c) ==
    IF c.state = "Closed" THEN c
    ELSE LET kept == IF c.state = "Reply"
                     THEN SelectSeq(c.events, LAMBDA e : e # Event("Reply", c.token)) ELSE c.events
         IN  [c EXCEPT !.state = "Closed", !.token = NoToken, !.tx = <<>>, !.timed = FALSE,
                       !.frame = IF c.state = "Reply" THEN NoFrame ELSE @,
                       !.events = kept \o <<Event("Failed", c.token), Event("Closed", NoToken)>>]

\* A reply that was received stays readable until it is released.
Close(c) ==
    IF c.state = "Closed" THEN c
    ELSE LET lost == c.token # NoToken /\ c.state # "Reply"
         IN  [c EXCEPT !.state = "Closed", !.tx = <<>>, !.timed = FALSE,
                       !.token = IF lost THEN NoToken ELSE @,
                       !.events = @ \o (IF lost THEN <<Event("Failed", c.token)>> ELSE <<>>)
                                    \o <<Event("Closed", NoToken)>>]

ConsumeTransmit(c) ==
    IF c.state = "UnackSending"
    THEN Queue([c EXCEPT !.tx = <<>>, !.state = "Ready", !.timed = FALSE, !.token = NoToken],
               Event("Unacknowledged", c.token))
    ELSE [c EXCEPT !.tx = <<>>]

Accepts(c) == c.state \in {"Handshake", "Auth", "Command"}

\* Scram::receive: the server's first message, its proof, and an empty round
\* that a server may leave out.  A round that ends early is an error.
ScramStep(c, body) ==
    CASE body = "first" /\ c.scram = 1 -> [Emit(c, "proof", NoToken) EXCEPT !.scram = 2]
      [] body = "proof" /\ c.scram = 2 -> [Emit(c, "empty", NoToken) EXCEPT !.scram = 3]
      [] body = "proof_done" /\ c.scram = 2 -> [c EXCEPT !.scram = 4]
      [] body = "done" /\ c.scram = 3 -> [c EXCEPT !.scram = 4]
      [] OTHER -> Fail(c)

Authenticated(c) ==
    IF c.scram = 4 \/ ~Credential
    THEN Queue([c EXCEPT !.state = "Ready", !.scram = 0, !.timed = FALSE], Event("Ready", NoToken)) ELSE c

\* A complete frame: the reply of the command, or a step of the handshake.
ReceiveFrame(c) ==
    LET f == c.frame
        clear == [c EXCEPT !.frame = NoFrame]
    IN  IF f.to # c.id THEN Fail(c)
        ELSE IF c.state = "Command"
        THEN Queue([c EXCEPT !.state = "Reply", !.timed = FALSE], Event("Reply", c.token))
        ELSE IF f.body = "error" THEN Fail(c)
        ELSE IF c.state = "Auth" THEN Authenticated(ScramStep(clear, f.body))
        ELSE IF ~Credential THEN Authenticated(clear)
        ELSE IF f.body = "hello_first" THEN ScramStep([clear EXCEPT !.state = "Auth"], "first")
        ELSE [Emit(clear, "start", NoToken) EXCEPT !.state = "Auth", !.scram = 1]

\* Decoder::feed takes at most the rest of one frame.
Taken(c, input) == IF c.frame.halves = 0 /\ Len(input) > 1 THEN 2 ELSE 1

Receive(c, input) ==
    LET n == Taken(c, input)
        fed == [c EXCEPT !.frame =
                  [to |-> input[n].to, body |-> input[n].body, token |-> input[n].token, halves |-> @.halves + n]]
    IN  IF ~Accepts(c) THEN c ELSE IF fed.frame.halves < 2 THEN fed ELSE ReceiveFrame(fed)

Releasable(c) ==
    c.state = "Reply" \/ (c.state = "Closed" /\ c.token # NoToken /\ c.frame.halves = 2)

ReleaseReply(c) ==
    [c EXCEPT !.token = NoToken, !.frame = NoFrame, !.state = IF @ = "Closed" THEN @ ELSE "Ready"]

Idle(c) == c.state = "Ready" /\ c.tx = <<>>

CoreCommand(c, t) ==
    [Emit(c, IF t \in Unacknowledged THEN "quiet" ELSE "command", t) EXCEPT
        !.token = t, !.timed = TRUE, !.state = IF t \in Unacknowledged THEN "UnackSending" ELSE "Command"]

---------------------------------------------------------------------------
(* The driver.                                                             *)

\* CoreGuard, CloseOnDrop and Exchange: what is not finished is aborted.
Abort(c) == [c EXCEPT !.open = FALSE, !.core = Close(@), !.at = "idle", !.job = "none"]

Settle(t) == IF t = NoToken THEN truth ELSE [truth EXCEPT !.settled[t] = @ + 1]

Finish(c, outcome) ==
    /\ conn' = c
    /\ told' = IF conn.job = "command" THEN [told EXCEPT ![conn.command] = outcome] ELSE told

\* Without an event to deliver, output is flushed, input fed, and then read.
RunFlush ==
    /\ conn.at = "run" /\ core.events = <<>> /\ core.tx # <<>> /\ conn.open
    /\ conn' = [conn EXCEPT !.at = "flush"]
    /\ UNCHANGED <<up, down, server, told, truth>>

Flushed ==
    /\ conn.at = "flush" /\ conn.open
    /\ conn' = [conn EXCEPT !.core = ConsumeTransmit(@), !.at = "run"]
    /\ up' = up \o core.tx
    /\ UNCHANGED <<down, server, told, truth>>

\* Input that the core refuses ends the call.
Feed ==
    /\ conn.at = "run" /\ core.events = <<>> /\ core.tx = <<>> /\ conn.input # <<>>
    /\ IF Accepts(core)
       THEN /\ conn' = [conn EXCEPT !.core = Receive(@, conn.input),
                                    !.input = SubSeq(@, Taken(core, conn.input) + 1, Len(@))]
            /\ told' = told
       ELSE Finish(Abort(conn), "error")
    /\ UNCHANGED <<up, down, server, truth>>

RunRead ==
    /\ conn.at = "run" /\ core.events = <<>> /\ core.tx = <<>> /\ conn.input = <<>>
    /\ conn' = [conn EXCEPT !.at = "read"]
    /\ UNCHANGED <<up, down, server, told, truth>>

DoRead ==
    /\ conn.at = "read" /\ down # <<>>
    /\ \E n \in 1 .. Len(down) :
          /\ conn' = [conn EXCEPT !.input = SubSeq(down, 1, n), !.at = "run"]
          /\ down' = SubSeq(down, n + 1, Len(down))
    /\ UNCHANGED <<up, server, told, truth>>

ReadEnds ==
    /\ conn.at = "read" /\ down = <<>> /\ ~server.up
    /\ Finish(Abort(conn), "error")
    /\ UNCHANGED <<up, down, server, truth>>

\* A deadline passes, the caller drops the future, or closes the connection.
Cancelled ==
    /\ Faults /\ conn.at # "idle"
    /\ Finish(Abort(conn), "cancelled")
    /\ UNCHANGED <<up, down, server, truth>>

---------------------------------------------------------------------------
(* The adapter.                                                            *)

Connect ==
    /\ conn.job = "none" /\ core.state = "New" /\ conn.open
    /\ conn' = [conn EXCEPT !.job = "connect", !.at = "run", !.core = CoreConnected(@)]
    /\ UNCHANGED <<up, down, server, told, truth>>

\* An event of the handshake.  TLS begins where nothing is left undrained.
Connecting ==
    LET e == core.events[1]
        polled == [conn EXCEPT !.core.events = Tail(@)]
    IN  /\ conn.job = "connect" /\ conn.at = "run" /\ core.events # <<>>
        /\ CASE e.kind = "Ready" -> conn' = [polled EXCEPT !.job = "none", !.at = "idle"]
             [] e.kind = "UpgradeTls" /\ conn.input = <<>> /\ core.tx = <<>> -> conn' = [polled EXCEPT !.at = "tls"]
             [] OTHER -> conn' = Abort(polled)
        /\ UNCHANGED <<up, down, server, told, truth>>

TlsEstablished ==
    /\ conn.at = "tls" /\ server.up
    /\ conn' = [conn EXCEPT !.at = "run", !.core = Handshake(@)]
    /\ UNCHANGED <<up, down, server, told, truth>>

Reusable == conn.open /\ core.state = "Ready"

\* A lease of the pool runs a command on it; a busy core refuses.
Command(t) ==
    /\ conn.job = "none" /\ Reusable /\ told[t] = "none" /\ (t > 1 => told[t - 1] # "none")
    /\ IF Idle(core)
       THEN /\ conn' = [conn EXCEPT !.job = "command", !.command = t, !.at = "run", !.core = CoreCommand(@, t)]
            /\ truth' = [truth EXCEPT !.accepted = @ \cup {t}]
            /\ told' = told
       ELSE /\ conn' = IF t \in Encoded THEN Abort(conn) ELSE conn
            /\ told' = [told EXCEPT ![t] = "refused"]
            /\ truth' = truth
    /\ UNCHANGED <<up, down, server>>

\* An event of a command.  An error reply ends a plain command with its
\* connection; an operation keeps the connection if it is ready.
Delivers ==
    LET t == conn.command
        e == core.events[1]
        polled == [conn EXCEPT !.core.events = Tail(@)]
        done == [polled EXCEPT !.job = "none", !.at = "idle"]
        body == core.frame.body
        after == [done EXCEPT !.core = ReleaseReply(@)]
    IN  /\ conn.job = "command" /\ conn.at = "run" /\ core.events # <<>>
        /\ CASE e.kind = "Reply" ->
                  /\ conn' = IF body = "error" /\ t \notin Encoded THEN Abort(after) ELSE after
                  /\ told' = [told EXCEPT ![t] = IF core.frame.token # t THEN "wrong" ELSE IF body = "error" THEN "error" ELSE "reply"]
                  /\ truth' = Settle(t)
             [] e.kind = "Unacknowledged" ->
                  conn' = done /\ told' = [told EXCEPT ![t] = "sent"] /\ truth' = Settle(e.token)
             [] OTHER ->
                  conn' = Abort(polled) /\ told' = [told EXCEPT ![t] = "error"] /\ truth' = Settle(e.token)
        /\ UNCHANGED <<up, down, server>>

\* The host of a closed connection polls what is left of its events, and
\* releases a reply that it had.
Drains ==
    /\ conn.job = "none" /\ core.events # <<>>
    /\ conn' = [conn EXCEPT !.core.events = Tail(@)]
    /\ truth' = IF core.events[1].kind \in {"Failed", "Unacknowledged"} THEN Settle(core.events[1].token) ELSE truth
    /\ UNCHANGED <<up, down, server, told>>

Releases ==
    /\ conn.job = "none" /\ Releasable(core)
    /\ conn' = [conn EXCEPT !.core = ReleaseReply(@)]
    /\ truth' = Settle(core.token)
    /\ UNCHANGED <<up, down, server, told>>

\* A host that drives the core itself reports its deadline (handle_timeout) or
\* a transport error (fail).
Expires ==
    /\ Faults /\ core.state \notin {"New", "Closed"} /\ conn.at = "run"
    /\ conn' = [conn EXCEPT !.core = Fail(@)]
    /\ UNCHANGED <<up, down, server, told, truth>>

---------------------------------------------------------------------------
(* The server (external).                                                  *)

Halves(r, body) == [i \in 1 .. 2 |-> [to |-> r.id, body |-> body, token |-> r.token]]

Bodies(kind) ==
    CASE kind = "hello" -> IF Credential THEN {"hello", "hello_first"} ELSE {"hello"}
      [] kind = "start" -> {"first"}
      [] kind = "proof" -> {"proof", "proof_done"}
      [] kind = "empty" -> {"done"}
      [] OTHER -> {"answer"}

Serves ==
    /\ server.up /\ up # <<>> /\ up' = Tail(up)
    /\ IF up[1].kind = "quiet" THEN down' = down
       ELSE \E body \in Bodies(up[1].kind) \cup (IF Faults THEN {"error"} ELSE {}) :
               down' = down \o Halves(up[1], body)
    /\ UNCHANGED <<conn, server, told, truth>>

ServerLeaves ==
    /\ Faults /\ server.up /\ server' = [server EXCEPT !.up = FALSE]
    /\ UNCHANGED <<conn, up, down, told, truth>>

---------------------------------------------------------------------------
MongoInit ==
    /\ conn = [core |-> NewCore, open |-> TRUE, input |-> <<>>, at |-> "idle", job |-> "none", command |-> NoToken]
    /\ up = <<>> /\ down = <<>> /\ server = [up |-> TRUE]
    /\ told = [t \in Tokens |-> "none"]
    /\ truth = [settled |-> [t \in Tokens |-> 0], accepted |-> {}]

MongoNext ==
    \/ RunFlush \/ Flushed \/ Feed \/ RunRead \/ DoRead \/ ReadEnds \/ Cancelled
    \/ Connect \/ Connecting \/ TlsEstablished \/ Delivers \/ Drains \/ Releases \/ Expires
    \/ \E t \in Tokens : Command(t)
    \/ Serves \/ ServerLeaves

---------------------------------------------------------------------------
Owing(t) ==
    (IF core.token = t THEN 1 ELSE 0)
        + Cardinality({i \in DOMAIN core.events : core.events[i] \in {Event("Failed", t), Event("Unacknowledged", t)}})

\* A token is settled once: by Failed or Unacknowledged, or by the release of
\* its reply, and a reply that is revoked by a failure is not settled twice
\* (the contract at the head of connection.rs).
SettledOnce == \A t \in Tokens : truth.settled[t] + Owing(t) = IF t \in truth.accepted THEN 1 ELSE 0

\* A command is answered with the reply to its own request.
RepliesMatch == \A t \in Tokens : told[t] # "wrong"

\* What the pool may hand out again carries nothing of an earlier command:
\* neither input, nor output, nor a request or a reply under way.
ReusableIsClean ==
    (conn.job = "none" /\ Reusable) =>
        /\ Idle(core) /\ core.token = NoToken /\ core.events = <<>> /\ core.frame = NoFrame
        /\ conn.input = <<>> /\ down = <<>> /\ \A i \in DOMAIN up : up[i].kind = "quiet"
=============================================================================
