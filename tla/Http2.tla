------------------------------- MODULE Http2 --------------------------------
(***************************************************************************)
(* Two HTTP/2 connections of protocols/turnloop-http/src/http2.rs, a       *)
(* client and a server, and the two byte streams between them.  A stream   *)
(* of bytes keeps its order, so what can cross are the two directions: a   *)
(* reset, a release of credit, a change of SETTINGS or a GOAWAY of one     *)
(* side meets frames the other side had already sent.  Every public method *)
(* that changes more of a connection than its output is an action of the   *)
(* host (ping() queues a frame that its peer answers and neither keeps),   *)
(* and receive() is one action per kind of frame.                          *)
(*                                                                         *)
(* Header blocks are whole (HPACK, CONTINUATION and content-length are     *)
(* left out), DATA is a number of bytes without padding, and stream n is   *)
(* the client's n-th stream.  Both sides are this code, so a frame is      *)
(* well-formed, and the errors left are those about the state of a stream  *)
(* or of a window.                                                         *)
(***************************************************************************)
EXTENDS Integers, Sequences, SequencesExt, FiniteSetsExt

CONSTANTS
  MaxStreams,        \* bound: the streams the client opens
  StreamLimit,       \* Limits::streams of either side, which its SETTINGS name
  Window,            \* the initial window of a connection and of a stream
  FrameSize,         \* the most DATA one frame carries
  Body,              \* the bytes each side wants to send on a stream
  Windows,           \* INITIAL_WINDOW_SIZE values a host may set later
  MaxSettings,       \* bound: the SETTINGS frames a host sends
  Backlog,           \* bound: the frames of one direction when a host sends
  Resets, Shutdowns, \* the sides whose host resets streams, or shuts down
  Repeats,           \* the sides whose host also resets streams that are gone
  Impatient,         \* the sides whose host sets a deadline for its SETTINGS
  Trailers,          \* the sides whose host ends a body with trailers
  Lossy              \* the transport may be lost

VARIABLES
  conn,    \* side -> its Connection
  link,    \* side -> the frames it has sent and the peer has not received
  todo,    \* side -> stream -> bytes of the body not sent yet
  over     \* side -> streams whose end its host has been told, or made itself

h2Vars == <<conn, link, todo, over>>

Sides == {"client", "server"}

Peer(side) == IF side = "client" THEN "server" ELSE "client"

Streams == 1..MaxStreams

NewStream(c) ==
  [sendWindow |-> c.initialSend, recvWindow |-> c.recvInitial, unreleased |-> 0,
   credited |-> FALSE, localEnd |-> FALSE, remoteEnd |-> FALSE,
   receivedHead |-> FALSE, sentHead |-> FALSE]

\* with_settings(): the constructor queues the first SETTINGS frame.
NewConnection ==
  [streams |-> << >>, nextId |-> 1, lastRemote |-> 0, highestRemote |-> 0,
   sendWindow |-> Window, recvWindow |-> Window, initialSend |-> Window,
   peerStreams |-> MaxStreams, settingsReceived |-> FALSE, pending |-> <<{}>>,
   ackedInitial |-> Window, recvInitial |-> Window, sent |-> 0,
   draining |-> FALSE, failed |-> FALSE, error |-> "none"]

\* The values of a SETTINGS frame: the initial window, when the frame names it.
Settings(window) == [kind |-> "SETTINGS", window |-> window]

Http2Init ==
  /\ conn = [s \in Sides |-> NewConnection]
  /\ link = [s \in Sides |-> <<Settings({})>>]
  /\ todo = [s \in Sides |-> [id \in Streams |-> Body]]
  /\ over = [s \in Sides |-> {}]

(* ------------------------------- helpers ------------------------------- *)

IsClosed(s) == s.localEnd /\ s.remoteEnd

Active(c) == Cardinality({id \in DOMAIN c.streams : ~IsClosed(c.streams[id])})

\* seen(): an id this connection has opened, refused or finished with.
Seen(side, c, id) ==
  IF side = "client" THEN id < c.nextId ELSE id <= c.highestRemote

Known(c, id) == id \in DOMAIN c.streams

Forget(c, id) ==
  [c EXCEPT !.streams = [i \in DOMAIN c.streams \ {id} |-> c.streams[i]]]

Hold(c, id, s) ==
  [c EXCEPT !.streams = [i \in DOMAIN c.streams \cup {id} |->
                           IF i = id THEN s ELSE c.streams[i]]]

\* Closed records whose credit is all returned may be used again.
Recyclable(c) ==
  {id \in DOMAIN c.streams : IsClosed(c.streams[id]) /\ c.streams[id].unreleased = 0}

CanAdd(c) ==
  /\ Active(c) < StreamLimit
  /\ Recyclable(c) # {} \/ Cardinality(DOMAIN c.streams) < StreamLimit

AddStream(c, id) ==
  LET room == IF Recyclable(c) = {} THEN c ELSE Forget(c, Min(Recyclable(c)))
  IN  Hold(room, id, NewStream(c))

Credit(id, n) == IF n = 0 THEN <<>> ELSE <<[kind |-> "WINDOW_UPDATE", id |-> id, n |-> n]>>

\* return_credit(): a stream that is over gives back what it holds of the
\* connection's window.
ReturnCredit(c, id) ==
  [c EXCEPT !.recvWindow = @ + c.streams[id].unreleased,
            !.streams[id].unreleased = 0]

Rst(id) == <<[kind |-> "RST_STREAM", id |-> id]>>

\* The bug of enforcing a smaller window before the peer knows of it.
EnforceAtOnce(c) ==
  LET initial == IF c.pending = <<>> \/ Last(c.pending) = {} THEN c.ackedInitial
                 ELSE Max(Last(c.pending))
      delta == initial - c.recvInitial
  IN  [c EXCEPT !.recvInitial = initial,
                !.streams = [i \in DOMAIN @ |->
                               [@[i] EXCEPT !.recvWindow = @ + delta]]]

\* enforce_settings(): what is acknowledged, loosened by what is outstanding.
EnforceSettings(c) ==
  LET initial == Max({c.ackedInitial} \cup UNION Range(c.pending))
      delta == initial - c.recvInitial
  IN  [c EXCEPT !.recvInitial = initial,
                !.streams = [i \in DOMAIN @ |->
                               [@[i] EXCEPT !.recvWindow = @ + delta]]]

(* ------------------------- what the hosts call ------------------------- *)

\* A method of the host leaves the connection c and queues frames.
Send(side, c, frames) ==
  /\ conn' = [conn EXCEPT ![side] = c]
  /\ link' = [link EXCEPT ![side] = @ \o frames]

Roomy(side) == Len(link[side]) < Backlog

\* open().  When the client itself has no room the call fails, and the id is spent.
Open ==
  LET c == conn["client"]
      id == c.nextId
      next == [c EXCEPT !.nextId = @ + 1]
      ends == Body = 0
      s == [NewStream(c) EXCEPT !.sentHead = TRUE, !.localEnd = ends]
  IN  /\ id \in Streams /\ Roomy("client")
      /\ ~c.draining /\ ~c.failed /\ Active(c) < c.peerStreams
      /\ IF CanAdd(c)
         THEN /\ Send("client", Hold(AddStream(next, id), id, s),
                      <<[kind |-> "HEADERS", id |-> id, end |-> ends]>>)
              /\ UNCHANGED over
         ELSE /\ conn' = [conn EXCEPT !["client"] = next]
              /\ over' = [over EXCEPT !["client"] = @ \cup {id}]
              /\ UNCHANGED link
      /\ UNCHANGED todo

\* send_headers() on a stream the peer opened: the response head.
Respond(id) ==
  LET c == conn["server"]
      ends == todo["server"][id] = 0
  IN  /\ Roomy("server") /\ ~c.failed /\ Known(c, id)
      /\ ~c.streams[id].localEnd /\ ~c.streams[id].sentHead
      /\ Send("server", [c EXCEPT !.streams[id].sentHead = TRUE,
                                  !.streams[id].localEnd = ends],
              <<[kind |-> "HEADERS", id |-> id, end |-> ends]>>)
      /\ UNCHANGED <<todo, over>>

SendTrailers(side, id) ==
  LET c == conn[side]
  IN  /\ side \in Trailers /\ Roomy(side) /\ ~c.failed /\ Known(c, id)
      /\ ~c.streams[id].localEnd /\ c.streams[id].sentHead /\ todo[side][id] = 0
      /\ Send(side, [c EXCEPT !.streams[id].localEnd = TRUE],
              <<[kind |-> "HEADERS", id |-> id, end |-> TRUE]>>)
      /\ UNCHANGED <<todo, over>>

\* send_data() with all the bytes left: it takes what the windows and the frame
\* size allow, and END_STREAM once that is everything.
SendData(side, id) ==
  LET c == conn[side]
      s == c.streams[id]
      left == todo[side][id]
      n == Min({left, FrameSize, Max({0, c.sendWindow}), Max({0, s.sendWindow})})
      end == n = left /\ side \notin Trailers
  IN  /\ Roomy(side) /\ Known(c, id) /\ ~c.failed
      /\ ~s.localEnd /\ s.sentHead /\ n > 0
      /\ Send(side, [c EXCEPT !.sendWindow = @ - n,
                              !.streams[id].sendWindow = @ - n,
                              !.streams[id].localEnd = end],
              <<[kind |-> "DATA", id |-> id, n |-> n, end |-> end]>>)
      /\ todo' = [todo EXCEPT ![side][id] = left - n]
      /\ UNCHANGED over

\* release_capacity() for all a stream holds.  For a stream that is gone, or
\* whose credit went back in bulk, the call changes nothing.
ReleaseCapacity(side, id) ==
  LET c == conn[side]
      n == c.streams[id].unreleased
  IN  /\ Known(c, id) /\ n > 0 /\ ~c.streams[id].credited
      /\ Send(side, [ReturnCredit(c, id) EXCEPT !.streams[id].recvWindow = @ + n],
              Credit(0, n) \o (IF c.streams[id].remoteEnd THEN <<>> ELSE Credit(id, n)))
      /\ UNCHANGED <<todo, over>>

\* reset(): the record goes at once, its credit goes back.
Reset(side, id) ==
  LET c == conn[side]
  IN  /\ side \in Resets /\ Roomy(side) /\ Known(c, id)
      /\ IsClosed(c.streams[id]) => side \in Repeats
      /\ Send(side, Forget(ReturnCredit(c, id), id),
              Credit(0, c.streams[id].unreleased) \o Rst(id))
      /\ over' = [over EXCEPT ![side] = @ \cup {id}]
      /\ UNCHANGED todo

\* A stream whose id open() returned, or that an event has named.
Named(side, id) ==
  \/ id <= conn["server"].highestRemote
  \/ side = "client" /\ \E i \in DOMAIN link["client"] :
       link["client"][i].kind = "HEADERS" /\ link["client"][i].id = id

\* reset() without a record: "The frame is sent even when the stream has no record
\* left".
ResetGone(side, id) ==
  /\ side \in Resets \cap Repeats /\ Roomy(side)
  /\ ~Known(conn[side], id) /\ Seen(side, conn[side], id) /\ Named(side, id)
  /\ Send(side, conn[side], Rst(id))
  /\ UNCHANGED <<todo, over>>

SendSettings(side, window) ==
  LET c == conn[side]
  IN  /\ Roomy(side) /\ ~c.failed /\ c.sent < MaxSettings
      /\ Send(side, EnforceSettings([c EXCEPT !.pending = Append(@, {window}),
                                              !.sent = @ + 1]),
              <<Settings({window})>>)
      /\ UNCHANGED <<todo, over>>

\* shutdown() and goaway(): GOAWAY, whose code, last stream and opaque data are
\* for the peer's host alone, then drain.
Shutdown(side) ==
  LET c == conn[side]
  IN  /\ side \in Shutdowns /\ Roomy(side) /\ ~c.draining
      /\ Send(side, [c EXCEPT !.draining = TRUE], <<[kind |-> "GOAWAY"]>>)
      /\ UNCHANGED <<todo, over>>

\* handle_timeout(), at the deadline of the oldest SETTINGS without an answer.
HandleTimeout(side) ==
  LET c == conn[side]
  IN  /\ side \in Impatient /\ c.pending # <<>> /\ ~c.failed
      /\ Send(side, [c EXCEPT !.failed = TRUE, !.error = "SETTINGS timeout"], <<[kind |-> "GOAWAY"]>>)
      /\ UNCHANGED <<todo, over>>

\* eof(): the transport is lost, with what it carried.
Eof ==
  /\ Lossy /\ \E s \in Sides : ~conn[s].failed
  /\ conn' = [s \in Sides |-> [conn[s] EXCEPT !.failed = TRUE,
                                            !.error = IF conn[s].failed THEN @ ELSE "transport lost"]]
  /\ link' = [s \in Sides |-> <<>>]
  /\ UNCHANGED <<todo, over>>

\* poll_failed_stream(): one end for each stream that had none.
PollFailed(side) ==
  LET c == conn[side]
      open == {id \in DOMAIN c.streams : ~c.streams[id].remoteEnd}
  IN  /\ c.failed /\ open # {}
      /\ conn' = [conn EXCEPT ![side].streams[Min(open)] =
                    [@ EXCEPT !.localEnd = TRUE, !.remoteEnd = TRUE]]
      /\ over' = [over EXCEPT ![side] = @ \cup {Min(open)}]
      /\ UNCHANGED <<link, todo>>

(* ------------------------------- receive ------------------------------- *)

\* receive() takes the next frame of the peer: the connection becomes c, frames
\* go out in answer, and the host is told that the streams in ends are over.
Took(side, c, frames, ends) ==
  /\ conn' = [conn EXCEPT ![side] = c]
  /\ link' = [link EXCEPT ![side] = @ \o frames, ![Peer(side)] = Tail(@)]
  /\ over' = [over EXCEPT ![side] = @ \cup ends]
  /\ UNCHANGED todo

\* An error of receive_inner(): the connection fails with a GOAWAY.
Fails(side, error) ==
  Took(side, [conn[side] EXCEPT !.failed = TRUE, !.error = error], <<[kind |-> "GOAWAY"]>>, {})

Incoming(side) == Head(link[Peer(side)])

Receives(side, kind) ==
  /\ ~conn[side].failed /\ link[Peer(side)] # <<>>
  /\ Incoming(side).kind = kind
  /\ kind = "SETTINGS" \/ conn[side].settingsReceived

\* DATA of a stream that is gone counts against the connection's window, and
\* goes back at once.
ReceiveData(side) ==
  LET c == conn[side]
      f == Incoming(side)
      s == c.streams[f.id]
  IN  /\ Receives(side, "DATA")
      /\ IF ~Known(c, f.id)
         THEN IF Seen(side, c, f.id) /\ f.n <= c.recvWindow
              THEN Took(side, c, Credit(0, f.n), {})
              ELSE Fails(side, "DATA of no stream")
         ELSE IF s.remoteEnd \/ ~s.receivedHead
                 \/ f.n > c.recvWindow \/ f.n > s.recvWindow
         THEN Fails(side, "DATA out of place")
         ELSE Took(side, [c EXCEPT !.recvWindow = @ - f.n,
                                   !.streams[f.id].recvWindow = @ - f.n,
                                   !.streams[f.id].unreleased = @ + f.n,
                                   !.streams[f.id].remoteEnd = f.end],
                   <<>>, IF f.end THEN {f.id} ELSE {})

\* finish_headers() on a live stream: a head, or trailers, which end it.
FinishHeaders(side, c, f) ==
  LET s == c.streams[f.id]
  IN  IF s.remoteEnd \/ (s.receivedHead /\ ~f.end)
      THEN Fails(side, "HEADERS out of place")
      ELSE Took(side, [c EXCEPT !.streams[f.id].receivedHead = TRUE,
                                !.streams[f.id].remoteEnd = f.end],
                <<>>, IF f.end THEN {f.id} ELSE {})

ReceiveHeaders(side) ==
  LET c == conn[side]
      f == Incoming(side)
      d == [c EXCEPT !.highestRemote = f.id]
  IN  /\ Receives(side, "HEADERS")
      /\ IF Known(c, f.id) THEN FinishHeaders(side, c, f)
         ELSE IF side = "client"
         THEN IF Seen(side, c, f.id) THEN Took(side, c, <<>>, {}) ELSE Fails(side, "HEADERS of no stream")
         ELSE IF f.id <= c.highestRemote THEN Fails(side, "invalid new stream")
         ELSE IF c.draining THEN Took(side, d, <<>>, {})
         ELSE IF CanAdd(c)
         THEN FinishHeaders(side, [AddStream(d, f.id) EXCEPT !.lastRemote = f.id], f)
         ELSE Took(side, d, Rst(f.id), {f.id})

\* RST_STREAM: the credit goes back, the record stays, closed and credited.
ReceiveReset(side) ==
  LET c == conn[side]
      f == Incoming(side)
  IN  /\ Receives(side, "RST_STREAM")
      /\ IF ~Known(c, f.id)
         THEN IF Seen(side, c, f.id) THEN Took(side, c, <<>>, {}) ELSE Fails(side, "RST_STREAM of no stream")
         ELSE Took(side, [ReturnCredit(c, f.id) EXCEPT
                            !.streams[f.id] = [@ EXCEPT !.credited = TRUE,
                                                        !.localEnd = TRUE,
                                                        !.remoteEnd = TRUE]],
                   Credit(0, c.streams[f.id].unreleased), {f.id})

\* The peer's SETTINGS apply to every stream and are acknowledged.  The first
\* frame names the limit on streams.
ReceiveSettings(side) ==
  LET c == conn[side]
      f == Incoming(side)
      initial == Max({0} \cup f.window)
      delta == IF f.window = {} THEN 0 ELSE initial - c.initialSend
  IN  /\ Receives(side, "SETTINGS")
      /\ Took(side,
              [c EXCEPT !.settingsReceived = TRUE, !.peerStreams = StreamLimit,
                        !.initialSend = @ + delta,
                        !.streams = [i \in DOMAIN @ |->
                                       [@[i] EXCEPT !.sendWindow = @ + delta]]],
              <<[kind |-> "ACK"]>>, {})

ReceiveAck(side) ==
  LET c == conn[side]
      acked == Head(c.pending)
  IN  /\ Receives(side, "ACK")
      /\ IF c.pending = <<>> THEN Fails(side, "unexpected ACK")
         ELSE Took(side,
                   EnforceSettings([c EXCEPT !.pending = Tail(@),
                                             !.ackedInitial = IF acked = {} THEN @
                                                              ELSE Max(acked)]),
                   <<>>, {})

ReceiveGoaway(side) ==
  /\ Receives(side, "GOAWAY")
  /\ Took(side, [conn[side] EXCEPT !.draining = TRUE], <<>>, {})

ReceiveWindowUpdate(side) ==
  LET c == conn[side]
      f == Incoming(side)
  IN  /\ Receives(side, "WINDOW_UPDATE")
      /\ IF f.id = 0 THEN Took(side, [c EXCEPT !.sendWindow = @ + f.n], <<>>, {})
         ELSE IF Known(c, f.id)
         THEN Took(side, [c EXCEPT !.streams[f.id].sendWindow = @ + f.n], <<>>, {})
         ELSE IF Seen(side, c, f.id) THEN Took(side, c, <<>>, {})
         ELSE Fails(side, "WINDOW_UPDATE of no stream")

\* Any other first frame is an error; SETTINGS always come first.
Receive(side) ==
  \/ ReceiveData(side) \/ ReceiveHeaders(side) \/ ReceiveReset(side)
  \/ ReceiveSettings(side) \/ ReceiveAck(side) \/ ReceiveGoaway(side)
  \/ ReceiveWindowUpdate(side)

HostStep(side, id) ==
  \/ SendData(side, id) \/ SendTrailers(side, id)
  \/ ReleaseCapacity(side, id) \/ Reset(side, id) \/ ResetGone(side, id)

Http2Next ==
  \/ Open
  \/ \E id \in Streams : Respond(id)
  \/ \E side \in Sides, id \in Streams : HostStep(side, id)
  \/ \E side \in Sides, window \in Windows : SendSettings(side, window)
  \/ \E side \in Sides : Shutdown(side) \/ HandleTimeout(side) \/ PollFailed(side) \/ Receive(side)
  \/ Eof

Http2Spec == Http2Init /\ [][Http2Next]_h2Vars

(* ------------------------------ properties ------------------------------ *)

\* DATA and credit of the connection on their way from a side.
Flying(side) ==
  MapThenSumSet(LAMBDA i : IF link[side][i].kind = "DATA" THEN link[side][i].n ELSE 0,
                1..Len(link[side]))

Returning(side) ==
  MapThenSumSet(LAMBDA i : IF link[side][i].kind = "WINDOW_UPDATE" /\ link[side][i].id = 0
                           THEN link[side][i].n ELSE 0,
                1..Len(link[side]))

\* No credit of the connection's window is lost or made: what a side may still
\* send, what is under way, what the peer's host has not released and what is
\* being returned add up to the window, across resets, refusals and late DATA
\* (return_credit, discard_data, release_capacity).
CreditIsConserved ==
  \A side \in Sides :
    LET peer == conn[Peer(side)]
    IN  conn[side].failed \/ peer.failed \/
        conn[side].sendWindow + Flying(side) + Returning(Peer(side))
          + MapThenSumSet(LAMBDA id : peer.streams[id].unreleased, DOMAIN peer.streams)
        = Window

\* The one frame in flight that fails a connection: trailers of a stream whose
\* record the server has dropped, which it takes for the head of an old stream.
LateTrailers(side) ==
  /\ side = "server" /\ "client" \in Trailers
  /\ conn[side].error = "invalid new stream"

\* Frames in flight do not fail a connection: whatever crosses a reset, a
\* refusal, a GOAWAY or a change of the windows is taken or ignored, as the
\* documentation of reset() and settings() says of every frame and the code does
\* of all but a client's late trailers.  What else fails it is its host's own
\* deadline or the loss of the transport.
InFlightIsTolerated ==
  \A side \in Sides :
    conn[side].failed => conn[side].error \in {"transport lost", "SETTINGS timeout"} \/ LateTrailers(side)

\* A host hears of the end of each stream once: a record is open to the peer
\* exactly while its host has not been told of the end, so the streams
\* poll_failed_stream() goes on to name are those without an end.
EndsAreToldOnce ==
  \A side \in Sides :
    /\ \A id \in DOMAIN conn[side].streams :
         conn[side].streams[id].remoteEnd <=> id \in over[side]
    /\ \A id \in Streams :
         side = "client" /\ id < conn[side].nextId =>
           Known(conn[side], id) \/ id \in over[side]

\* A stream whose host has part of a body left to send.
HasBody(side, id) ==
  /\ Known(conn[side], id) /\ ~conn[side].failed
  /\ conn[side].streams[id].sentHead /\ ~conn[side].streams[id].localEnd
  /\ todo[side][id] > 0
=============================================================================
