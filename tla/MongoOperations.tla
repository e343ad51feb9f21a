-------------------------- MODULE MongoOperations ---------------------------
(***************************************************************************)
(* What spans several commands of the MongoDB crate: sessions with their   *)
(* transactions, and, in the second half, cursors, change streams and      *)
(* bulk writes.                                                            *)
(*                                                                         *)
(* Sessions and transactions, protocols/turnloop-mongodb/src/session.rs:   *)
(* a session is checked out of the pool of server sessions, numbers its    *)
(* transactions and retryable writes, decorates their commands, ends a     *)
(* transaction with one automatic retry, and goes back.  The deployment    *)
(* has two routers; a transaction is pinned to one until an error unpins   *)
(* it, and another can end it only from the recovery token.  Messages may  *)
(* be lost, and may reach the deployment after the client gave them up.    *)
(*                                                                         *)
(* conn    the session, or NoSession; the idle ones, oldest first; the     *)
(*         TransactionEnd under way; the command awaited                   *)
(* up      commands under way                                              *)
(* down    the answer to the awaited command, or <<>>                      *)
(* server  for each session: the last number, what became of it, and the   *)
(*         router that took part                                           *)
(* told    what the application was told of each transaction               *)
(* truth   the numbers begun, whether one was begun twice, and whether a   *)
(*         repeated commit was acknowledged without majority               *)
(***************************************************************************)
EXTENDS Naturals, Sequences, SequencesExt, FiniteSets, FiniteSetsExt

CONSTANTS
    Ids, NoSession,     \* what the host supplies as identities
    Routers, NoRouter,
    MaxNumber,          \* bound on the numbers of one session
    MaxLost             \* bound on the messages lost

VARIABLES conn, up, down, server, told, truth
sessionVars == <<conn, up, down, server, told, truth>>

Open == {"Starting", "InProgress"}
Over == {"Committed", "Aborted"}

NewSession(id) ==
    [id |-> id, number |-> 0, state |-> "None", dirty |-> FALSE, used |-> FALSE, pinned |-> NoRouter, token |-> 0, time |-> 0]

NoEnd == [kind |-> "none", retried |-> FALSE]
NoCommand == [kind |-> "none", id |-> NoSession, number |-> 0, start |-> FALSE, majority |-> FALSE, token |-> 0, to |-> NoRouter]

s == conn.session
Held == s.id # NoSession
Waits == conn.awaited # NoCommand
Begin(n) == truth' = [truth EXCEPT !.begun = @ \cup {<<s.id, n>>}, !.reused = @ \/ <<s.id, n>> \in truth.begun]

Issue(session, command) ==
    /\ conn' = [conn EXCEPT !.session = session, !.awaited = command]
    /\ up' = up \cup {command}

---------------------------------------------------------------------------
(* The pool of server sessions.                                            *)

Checkout ==
    /\ ~Held
    /\ \/ conn.idle # <<>> /\ conn' = [conn EXCEPT !.session = Last(conn.idle), !.idle = Front(@)]
       \/ /\ conn.idle = <<>>
          /\ \E id \in Ids \ truth.supplied : conn' = [conn EXCEPT !.session = NewSession(id)]
    /\ truth' = [truth EXCEPT !.supplied = @ \cup {conn'.session.id}]
    /\ UNCHANGED <<up, down, server, told>>

\* Nothing of the session but its identity and number is kept.
Checkin ==
    /\ Held /\ ~Waits /\ conn.end = NoEnd
    /\ conn' = [conn EXCEPT !.session = NewSession(NoSession),
                            !.idle = IF s.dirty \/ s.state \in Open THEN @
                                     ELSE Append(@, [NewSession(s.id) EXCEPT !.number = s.number])]
    /\ UNCHANGED <<up, down, server, told, truth>>

\* An idle session times out.
Expire ==
    /\ conn.idle # <<>>
    /\ conn' = [conn EXCEPT !.idle = Tail(@)]
    /\ UNCHANGED <<up, down, server, told, truth>>

---------------------------------------------------------------------------
(* Commands.                                                               *)

StartTransaction ==
    /\ Held /\ ~Waits /\ conn.end = NoEnd /\ s.state \notin Open /\ s.number < MaxNumber
    /\ conn' = [conn EXCEPT !.session =
                  [@ EXCEPT !.number = @ + 1, !.state = "Starting", !.token = 0, !.used = FALSE, !.pinned = NoRouter]]
    /\ Begin(s.number + 1)
    /\ UNCHANGED <<up, down, server, told>>

\* decorate: a finished transaction is forgotten by the next command.
Decorated ==
    IF s.state \in Over THEN [s EXCEPT !.state = "None", !.token = 0, !.pinned = NoRouter]
    ELSE IF s.state = "Starting" THEN [s EXCEPT !.state = "InProgress", !.used = TRUE] ELSE s

Operate(router) ==
    /\ Held /\ ~Waits /\ conn.end = NoEnd /\ s.state \in Open /\ s.pinned \in {NoRouter, router}
    /\ Issue([Decorated EXCEPT !.pinned = router],
             [NoCommand EXCEPT !.kind = "op", !.id = s.id, !.number = s.number, !.start = (s.state = "Starting"),
                               !.to = router])
    /\ UNCHANGED <<down, server, told, truth>>

\* next_retryable_write takes a number, which the write carries.
RetryableWrite(router) ==
    /\ Held /\ ~Waits /\ conn.end = NoEnd /\ s.state \notin Open /\ s.number < MaxNumber
    /\ Issue([Decorated EXCEPT !.number = @ + 1],
             [NoCommand EXCEPT !.kind = "write", !.id = s.id, !.number = s.number + 1, !.to = router])
    /\ Begin(s.number + 1)
    /\ UNCHANGED <<down, server, told>>

\* end_command, sent to the pinned router or, once unpinned, to any.
EndCommand(kind, majority, routers, end) ==
    \E router \in routers :
        LET m == [NoCommand EXCEPT !.kind = kind, !.id = s.id, !.number = s.number, !.majority = majority,
                                   !.token = s.token, !.to = router]
        IN  /\ conn' = [conn EXCEPT !.session = end.session, !.awaited = m,
                                    !.end = [kind |-> kind, retried |-> end.retried]]
            /\ up' = up \cup {m}

Pinned == IF s.pinned = NoRouter THEN Routers ELSE {s.pinned}
First(state) == [session |-> [s EXCEPT !.state = state], retried |-> FALSE]
Second == [session |-> [s EXCEPT !.pinned = NoRouter, !.dirty = TRUE], retried |-> TRUE]

Tell(outcome) == told' = [told EXCEPT ![s.id][s.number] = outcome]

\* An empty transaction completes locally.
Commit ==
    /\ Held /\ ~Waits /\ conn.end = NoEnd
    /\ IF s.state = "Starting" \/ (s.state = "Committed" /\ ~s.used)
       THEN /\ conn' = [conn EXCEPT !.session.state = "Committed"]
            /\ Tell("empty") /\ UNCHANGED <<up, down, server, truth>>
       ELSE /\ s.state \in {"InProgress", "Committed"}
            /\ EndCommand("commit", s.state = "Committed", Pinned, First("Committed"))
            /\ UNCHANGED <<down, server, told, truth>>

AbortTransaction ==
    /\ Held /\ ~Waits /\ conn.end = NoEnd
    /\ \/ /\ s.state = "Starting" /\ conn' = [conn EXCEPT !.session.state = "Aborted"]
          /\ Tell("aborted") /\ UNCHANGED <<up, down, server, truth>>
       \/ /\ s.state = "InProgress"
          /\ EndCommand("abort", FALSE, Pinned, First("Aborted"))
          /\ UNCHANGED <<down, server, told, truth>>

---------------------------------------------------------------------------
(* Answers.                                                                *)

Answered(session, end) ==
    conn' = [conn EXCEPT !.session = session, !.awaited = NoCommand, !.end = end]

\* observe: the recovery token of an open or committed transaction, and the
\* latest operation time.
Observed(a) ==
    [s EXCEPT !.token = IF s.state \in Open \cup {"Committed"} /\ a.token > 0 THEN a.token ELSE @,
              !.time = IF a.time > @ THEN a.time ELSE @]

Succeeds ==
    /\ Waits /\ down # <<>> /\ down[1].ok
    /\ Answered(Observed(down[1]), NoEnd) /\ down' = <<>>
    /\ IF conn.end.kind = "commit" THEN Tell("committed")
       ELSE IF conn.end.kind = "abort" THEN Tell("aborted") ELSE told' = told
    /\ UNCHANGED <<up, server, truth>>

\* A failed operation leaves the transaction to the application; an error of
\* the network makes the session dirty, and unpins it.
OperationFails ==
    /\ Waits /\ conn.end = NoEnd
    /\ \/ down # <<>> /\ ~down[1].ok /\ down' = <<>> /\ Answered(s, NoEnd) /\ UNCHANGED truth
       \/ /\ down = <<>> /\ truth.lost < MaxLost /\ truth' = [truth EXCEPT !.lost = @ + 1]
          /\ Answered([s EXCEPT !.dirty = TRUE, !.pinned = NoRouter], NoEnd) /\ down' = down
    /\ UNCHANGED <<up, server, told>>

\* TransactionEnd::failed: one retry of what the network lost, unpinned and
\* with majority; after it an abort is complete and a commit is unknown.
EndRetries ==
    /\ Waits /\ conn.end.kind # "none" /\ ~conn.end.retried /\ down = <<>> /\ truth.lost < MaxLost
    /\ EndCommand(conn.end.kind, conn.end.kind = "commit", Routers, Second)
    /\ truth' = [truth EXCEPT !.lost = @ + 1]
    /\ UNCHANGED <<down, server, told>>

EndFails ==
    /\ Waits /\ conn.end.kind # "none"
    /\ \/ down # <<>> /\ ~down[1].ok /\ truth' = truth
       \/ down = <<>> /\ conn.end.retried /\ truth.lost < MaxLost /\ truth' = [truth EXCEPT !.lost = @ + 1]
    /\ Answered([s EXCEPT !.pinned = IF conn.end.kind = "abort" \/ down = <<>> THEN NoRouter ELSE @,
                          !.dirty = @ \/ down = <<>>], NoEnd)
    /\ down' = <<>>
    /\ IF conn.end.kind = "abort" THEN Tell("aborted") ELSE told' = told
    /\ UNCHANGED <<up, server>>

---------------------------------------------------------------------------
(* The deployment (external).  A higher number ends what came before; a    *)
(* router that took no part in a transaction ends it from its token.       *)

Applied(m) ==
    LET v == server[m.id]
        fresh == m.number > v.last
        mine == m.number = v.last
        knows == v.router = m.to \/ m.token = m.number
    IN  CASE m.kind = "op" /\ m.start /\ fresh ->
                [ok |-> TRUE, then |-> [last |-> m.number, status |-> "open", router |-> m.to, majority |-> FALSE]]
          [] m.kind = "op" /\ ~m.start /\ mine /\ v.status = "open" -> [ok |-> TRUE, then |-> v]
          [] m.kind = "write" /\ (fresh \/ (mine /\ v.status = "written")) ->
                [ok |-> TRUE, then |-> [v EXCEPT !.last = m.number, !.status = "written"]]
          [] m.kind = "commit" /\ mine /\ v.status \in {"open", "committed"} /\ knows ->
                [ok |-> TRUE, then |-> [v EXCEPT !.status = "committed", !.majority = @ \/ m.majority]]
          [] m.kind = "abort" /\ mine /\ v.status = "open" /\ knows -> [ok |-> TRUE, then |-> [v EXCEPT !.status = "aborted"]]
          [] OTHER -> [ok |-> FALSE, then |-> v]

Serves(m) ==
    LET r == Applied(m)
    IN  /\ up' = up \ {m}
        /\ server' = [server EXCEPT ![m.id] = r.then]
        /\ down' = IF conn.awaited = m
                   THEN <<[ok |-> r.ok, token |-> IF m.kind = "write" THEN 0 ELSE m.number, time |-> 1]>> ELSE down
        /\ truth' = [truth EXCEPT
              !.weak = @ \/ (m.kind = "commit" /\ server[m.id].status = "committed" /\ r.ok /\ ~r.then.majority)]
        /\ UNCHANGED <<conn, told>>

---------------------------------------------------------------------------
SessionInit ==
    /\ conn = [session |-> NewSession(NoSession), idle |-> <<>>, end |-> NoEnd, awaited |-> NoCommand]
    /\ up = {} /\ down = <<>>
    /\ server = [id \in Ids |-> [last |-> 0, status |-> "none", router |-> NoRouter, majority |-> FALSE]]
    /\ told = [id \in Ids |-> [n \in 1 .. MaxNumber |-> "none"]]
    /\ truth = [begun |-> {}, supplied |-> {}, reused |-> FALSE, weak |-> FALSE, lost |-> 0]

SessionNext ==
    \/ Checkout \/ Checkin \/ Expire \/ StartTransaction \/ Commit \/ AbortTransaction
    \/ \E r \in Routers : Operate(r) \/ RetryableWrite(r)
    \/ Succeeds \/ OperationFails \/ EndRetries \/ EndFails
    \/ \E m \in up : Serves(m)

---------------------------------------------------------------------------
\* A session is in one place, an idle one is in no transaction, and no number
\* of an identity is used for two transactions or writes, across checkins.
NumbersAreSpent ==
    /\ ~truth.reused
    /\ LET all == conn.idle \o (IF Held THEN <<s>> ELSE <<>>)
       IN  \A i, j \in DOMAIN all : all[i].id = all[j].id => i = j
    /\ \A i \in DOMAIN conn.idle : conn.idle[i].state = "None" /\ ~conn.idle[i].dirty

\* What the application is told of a transaction is so: a committed one is
\* committed, and one it was told is aborted never becomes committed, whatever
\* arrives late.
OutcomesHold ==
    \A id \in Ids : \A n \in 1 .. MaxNumber :
        server[id].last = n =>
            /\ told[id][n] = "committed" => server[id].status = "committed"
            /\ told[id][n] \in {"aborted", "empty"} => server[id].status # "committed"

\* A commit that is sent again has majority write concern, so that it cannot
\* acknowledge what a failover then rolls back.
RetriedCommitIsMajority == ~truth.weak

---------------------------------------------------------------------------
(***************************************************************************)
(* Streams: a cursor with its getMore and killCursors (command.rs,         *)
(* client.rs), a change stream with                                        *)
(* its resumes (session.rs), and a bulk write split into batches           *)
(* (command.rs).  Rows, events and documents are numbered.  A command may  *)
(* fail, or be abandoned by its caller, before or after it took effect.    *)
(*                                                                         *)
(* conn    the Cursor, the ChangeStream, or the batcher and its result     *)
(* up      the command under way, or <<>>                                  *)
(* down    the batch it is answered with, or <<>>                          *)
(* server  the cursor or the events or the documents of the deployment     *)
(* told    what reached the application, in order                          *)
(* truth   what the deployment knows and the client does not               *)
(***************************************************************************)
CONSTANTS
    Rows,               \* how many rows, or events, there are
    Batch,              \* at most so many in one reply
    Limit,              \* of the cursor, 0 for none
    Tokens,             \* whether replies have a postBatchResumeToken
    MaxFaults,          \* bound on failures
    Sizes, MaxDocuments, MaxMessage, MaxCount

streamVars == <<conn, up, down, server, told, truth>>

Faulty == truth.faults < MaxFaults
Fault == truth' = [truth EXCEPT !.faults = @ + 1]

---------------------------------------------------------------------------
(* A cursor.  An idle client asks only once it has delivered its rows.     *)

CursorInit ==
    /\ conn = [id |-> 0, rows |-> <<>>, remaining |-> Limit, closed |-> FALSE, at |-> "asks", cleanup |-> FALSE]
    /\ up = <<"find">> /\ down = <<>> /\ told = <<>>
    /\ server = [live |-> FALSE, sent |-> 0]
    /\ truth = [faults |-> 0, missed |-> FALSE, lost |-> FALSE, pool |-> TRUE]

\* Cursor::accept.
Accept(c, batch) ==
    LET take == IF Limit = 0 THEN Len(batch.rows) ELSE Min({Len(batch.rows), c.remaining})
    IN  [c EXCEPT !.id = batch.id, !.rows = @ \o SubSeq(batch.rows, 1, take),
                  !.remaining = IF Limit = 0 THEN 0 ELSE @ - take]

NeedsKill(c) == c.id # 0 /\ Limit # 0 /\ c.remaining = 0

\* next: a row of the batch, else getMore on a live cursor.
NextRow ==
    /\ conn.at = "idle" /\ conn.rows # <<>>
    /\ told' = Append(told, conn.rows[1]) /\ conn' = [conn EXCEPT !.rows = Tail(@)]
    /\ UNCHANGED <<up, down, server, truth>>

GetMore ==
    /\ conn.at = "idle" /\ conn.rows = <<>> /\ ~conn.closed /\ conn.id # 0 /\ ~NeedsKill(conn) /\ truth.pool
    /\ conn' = [conn EXCEPT !.at = "asks"] /\ up' = <<"getMore">>
    /\ UNCHANGED <<down, server, told, truth>>

Replied ==
    /\ conn.at = "asks" /\ down # <<>>
    /\ conn' = [Accept(conn, down[1]) EXCEPT !.at = "idle"] /\ down' = <<>>
    /\ UNCHANGED <<up, server, told, truth>>

\* The reply is lost, or its future is dropped: the cursor is unchanged.  If
\* the deployment had advanced, the next getMore goes on behind the gap.
AskFails ==
    /\ conn.at = "asks" /\ Faulty
    /\ conn' = [conn EXCEPT !.at = IF conn.id = 0 THEN "gone" ELSE "idle"]
    /\ up' = <<>> /\ down' = <<>>
    /\ truth' = [truth EXCEPT !.faults = @ + 1, !.missed = @ \/ down # <<>>, !.lost = @ \/ conn.id = 0]
    /\ UNCHANGED <<server, told>>

\* close: killCursors for a live one; only its success forgets the cursor.
CloseCursor ==
    /\ conn.at = "idle" /\ ~conn.closed
    /\ IF conn.id # 0
       THEN truth.pool /\ conn' = [conn EXCEPT !.at = "kills"] /\ up' = <<"kill">>
       ELSE conn' = [conn EXCEPT !.closed = TRUE, !.rows = <<>>] /\ UNCHANGED up
    /\ UNCHANGED <<down, server, told, truth>>

Killed ==
    /\ conn.at = "kills"
    /\ \/ down # <<>> /\ conn' = [conn EXCEPT !.at = "idle", !.closed = TRUE, !.id = 0, !.rows = <<>>] /\ UNCHANGED truth
       \/ Faulty /\ conn' = [conn EXCEPT !.at = "idle"] /\ Fault
    /\ up' = <<>> /\ down' = <<>>
    /\ UNCHANGED <<server, told>>

\* drop: the kill of a live cursor is left to the monitor's task.
DropCursor ==
    /\ conn.at = "idle"
    /\ conn' = [conn EXCEPT !.at = "gone", !.cleanup = ~conn.closed /\ conn.id # 0 /\ truth.pool]
    /\ UNCHANGED <<up, down, server, told, truth>>

Cleanup ==
    /\ conn.at = "gone" /\ conn.cleanup /\ up = <<>>
    /\ up' = <<"kill">> /\ UNCHANGED <<conn, down, server, told, truth>>

CleanupEnds ==
    /\ conn.at = "gone" /\ conn.cleanup
    /\ \/ down # <<>> /\ UNCHANGED truth
       \/ Faulty /\ up # <<>> /\ truth' = [truth EXCEPT !.faults = @ + 1, !.lost = TRUE]
    /\ conn' = [conn EXCEPT !.cleanup = FALSE] /\ up' = <<>> /\ down' = <<>>
    /\ UNCHANGED <<server, told>>

\* The deployment (external); its server, and so its pool, may be removed.
ServesCursor ==
    /\ up # <<>> /\ up' = <<>>
    /\ LET n == Min({Rows - server.sent, Batch})
           live == server.sent + n < Rows
       IN  IF up[1] = "kill"
           THEN server' = [server EXCEPT !.live = FALSE] /\ down' = <<[id |-> 0, rows |-> <<>>]>>
           ELSE \E k \in {n} \cup (IF up[1] = "getMore" THEN {0} ELSE {}) :
                  /\ server' = [live |-> server.sent + k < Rows, sent |-> server.sent + k]
                  /\ down' = <<[id |-> IF server.sent + k < Rows THEN 1 ELSE 0,
                                rows |-> [i \in 1 .. k |-> server.sent + i]]>>
    /\ UNCHANGED <<conn, told, truth>>

ServerRemoved ==
    /\ Faulty /\ truth.pool /\ truth' = [truth EXCEPT !.faults = @ + 1, !.pool = FALSE, !.lost = TRUE]
    /\ UNCHANGED <<conn, up, down, server, told>>

CursorNext ==
    \/ NextRow \/ GetMore \/ Replied \/ AskFails \/ CloseCursor \/ Killed \/ DropCursor \/ Cleanup \/ CleanupEnds
    \/ ServesCursor \/ ServerRemoved

---------------------------------------------------------------------------
(* A change stream.  Event n is in the deployment's log once server.last   *)
(* is at least n; a position stands for the token of the event it follows. *)

NoPosition == Rows + 1

WatchInit ==
    /\ conn = [token |-> NoPosition, operation |-> NoPosition, received |-> FALSE, resumed |-> FALSE, batch |-> <<>>,
               post |-> NoPosition, at |-> "opens"]
    /\ up = <<>> /\ down = <<>> /\ told = <<>>
    /\ server = [last |-> 0, next |-> 0, open |-> FALSE]
    /\ truth = [faults |-> 0, start |-> NoPosition]

Happens ==
    /\ server.last < Rows /\ server' = [server EXCEPT !.last = @ + 1]
    /\ UNCHANGED <<conn, up, down, told, truth>>

\* stage: resumeAfter the token, else startAtOperationTime.
Stage == IF conn.token # NoPosition THEN conn.token ELSE conn.operation

OpenStream ==
    /\ conn.at = "opens"
    /\ LET from == IF Stage = NoPosition THEN server.last ELSE Stage
       IN  /\ server' = [server EXCEPT !.next = from, !.open = TRUE]
           /\ truth' = [truth EXCEPT !.start = IF @ = NoPosition THEN from ELSE @]
           /\ conn' = [conn EXCEPT !.at = "asks", !.operation = IF Stage = NoPosition /\ ~Tokens THEN from ELSE @,
                                   !.token = IF Stage = NoPosition /\ Tokens THEN from ELSE @]
    /\ UNCHANGED <<up, down, told>>

\* A getMore and its batch; the token after the batch covers what was
\* filtered away behind its last event.
Fetch ==
    /\ conn.at = "asks" /\ server.open
    /\ LET n == Min({server.last - server.next, Batch})
       IN  /\ conn' = [conn EXCEPT !.at = "has", !.batch = [i \in 1 .. n |-> server.next + i],
                                   !.post = IF Tokens THEN server.next + n ELSE NoPosition]
           /\ server' = [server EXCEPT !.next = @ + n]
    /\ UNCHANGED <<up, down, told, truth>>

ObserveDocument ==
    /\ conn.at = "has" /\ conn.batch # <<>>
    /\ told' = Append(told, conn.batch[1])
    /\ conn' = [conn EXCEPT !.batch = Tail(@), !.token = conn.batch[1], !.received = TRUE, !.resumed = FALSE]
    /\ UNCHANGED <<up, down, server, truth>>

FinishBatch ==
    /\ conn.at = "has" /\ conn.batch = <<>>
    /\ conn' = [conn EXCEPT !.at = "asks", !.resumed = FALSE, !.post = NoPosition,
                            !.token = IF conn.post # NoPosition THEN conn.post ELSE @]
    /\ UNCHANGED <<up, down, server, told, truth>>

\* should_resume: once, until there was progress.  A failure may come after
\* the deployment took the getMore, or between the rows of a batch.
WatchFails ==
    /\ conn.at \in {"asks", "has"} /\ Faulty /\ Fault
    /\ \E n \in 0 .. Min({server.last - server.next, Batch}) : server' = [server EXCEPT !.next = @ + n, !.open = FALSE]
    /\ conn' = [conn EXCEPT !.at = IF conn.resumed THEN "failed" ELSE "opens", !.resumed = TRUE, !.batch = <<>>,
                            !.post = NoPosition]
    /\ UNCHANGED <<up, down, told>>

WatchNext == Happens \/ OpenStream \/ Fetch \/ ObserveDocument \/ FinishBatch \/ WatchFails

---------------------------------------------------------------------------
(* A bulk write.  The overhead of a message is one unit.                   *)

Fits(sizes) == sizes # <<>> /\ \A i \in DOMAIN sizes : sizes[i] <= MaxMessage - 1

BulkInit ==
    /\ \E n \in 1 .. MaxDocuments : \E sizes \in [1 .. n -> Sizes], bad \in SUBSET (1 .. n), ordered \in BOOLEAN :
         /\ Fits(sizes)
         /\ server = [sizes |-> sizes, bad |-> bad, ordered |-> ordered]
    /\ conn = [at |-> 0, count |-> 0, errors |-> <<>>, goes |-> TRUE]
    /\ up = <<>> /\ down = <<>> /\ told = <<>> /\ truth = [tried |-> <<>>]

\* next_batch: how many documents from the position on fit one message.
Full(from, n) ==
    \/ n = MaxCount \/ from + n = Len(server.sizes)
    \/ 1 + FoldFunction(+, 0, [i \in 1 .. n + 1 |-> server.sizes[from + i]]) > MaxMessage

NextBatch ==
    /\ conn.goes /\ up = <<>> /\ down = <<>> /\ conn.at < Len(server.sizes)
    /\ LET n == CHOOSE k \in 0 .. MaxCount : Full(conn.at, k) /\ \A j \in 0 .. k - 1 : ~Full(conn.at, j)
       IN  up' = <<[offset |-> conn.at, count |-> n]>> /\ conn' = [conn EXCEPT !.at = @ + n]
    /\ UNCHANGED <<down, server, told, truth>>

\* The deployment (external) tries the documents of a batch in turn, and
\* stops an ordered one at its first error.
ServesBatch ==
    /\ up # <<>> /\ up' = <<>>
    /\ LET b == up[1]
           wrong == {i \in 1 .. b.count : b.offset + i \in server.bad}
           last == IF server.ordered /\ wrong # {} THEN Min(wrong) ELSE b.count
       IN  /\ truth' = [truth EXCEPT !.tried = @ \o [i \in 1 .. last |-> b.offset + i]]
           /\ down' = <<[offset |-> b.offset, count |-> last - Cardinality({i \in wrong : i <= last}),
                         errors |-> SetToSortSeq({i - 1 : i \in {j \in wrong : j <= last}}, <)]>>
    /\ UNCHANGED <<conn, server, told>>

\* BulkResult::accept: indices of the whole write; an ordered one stops.
AcceptResult ==
    /\ down # <<>> /\ down' = <<>>
    /\ LET r == down[1]
       IN  conn' = [conn EXCEPT !.count = @ + r.count,
                                !.errors = @ \o [i \in DOMAIN r.errors |-> r.errors[i] + r.offset],
                                !.goes = ~(server.ordered /\ r.errors # <<>>)]
    /\ UNCHANGED <<up, server, told, truth>>

BulkNext == NextBatch \/ ServesBatch \/ AcceptResult

---------------------------------------------------------------------------
\* The rows of a cursor arrive once and in order, as many as its limit
\* allows, unless a getMore that the deployment answered was lost.
RowsInOrder ==
    /\ \A i \in DOMAIN told : IF truth.missed THEN told[i] >= i ELSE told[i] = i
    /\ Limit # 0 => Len(told) <= Limit

\* No cursor is left open in the deployment: it is held, or being killed,
\* once the first reply named it, unless the connection or server was lost.
CursorsAreKilled ==
    (server.live /\ ~truth.lost) =>
        \/ conn.at # "gone" \/ conn.cleanup

\* A change stream delivers every event after its start once and in order,
\* across resumes.
EventsInOrder == \A i \in DOMAIN told : told[i] = truth.start + i

\* The batches are a partition in order: each document is tried once, an
\* ordered write tries none after a failure, and the errors reported are the
\* documents that failed, by their index in the whole write.
BatchesAreExact ==
    /\ \A i \in DOMAIN truth.tried : truth.tried[i] = i
    /\ (up = <<>> /\ down = <<>>) =>
          /\ conn.errors = SetToSortSeq({i - 1 : i \in server.bad \cap ToSet(truth.tried)}, <)
          /\ conn.count = Len(truth.tried) - Len(conn.errors)
          /\ conn.goes /\ conn.at = Len(server.sizes) => Len(truth.tried) = Len(server.sizes)
    /\ server.ordered => \A i \in DOMAIN truth.tried : truth.tried[i] \in server.bad => i = Len(truth.tried)
    /\ up # <<>> => up[1].count \in 1 .. MaxCount
=============================================================================
