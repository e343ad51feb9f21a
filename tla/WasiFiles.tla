----------------------------- MODULE WasiFiles ------------------------------
(***************************************************************************)
(* Requests on files in a WASI component (backend/wasi_fs.rs).  There is   *)
(* no pool of threads: a poll runs ready requests itself, as many as it    *)
(* has room for.  Requests on one handle run in order; one whose turn has  *)
(* come but which finds no buffer waits aside for the pool.                *)
(***************************************************************************)
EXTENDS Naturals, Sequences, FiniteSets, SequencesExt

CONSTANTS
    Program,             \* the requests in the order in which the driver submits them
    Room,                \* events of one poll
    Leases,              \* buffers of the pool
    Entries,             \* the names in the directory, in the host's order
    Dots,                \* which of them are `.' or `..'
    Page,                \* names that fit one buffer
    Large,               \* the names that fit no buffer
    Length,              \* bytes in the file
    NoHandle             \* the handle of a request on a path

VARIABLES
    backend,             \* Files: lists, queues, objects and the run under way
    kernel,              \* per handle, the names its pages brought and the requests that ran
    told                 \* per request: how it ended

filesVars == <<backend, kernel, told>>

Requests == DOMAIN Program
HandleOf(r) == Program[r].handle
KindOf(r) == Program[r].kind
Handles == {HandleOf(r) : r \in Requests} \ {NoHandle}
Opens(r) == KindOf(r) \in {"open", "open_dir"}
Pooled(r) == KindOf(r) \in {"read", "read_dir"}

NoObject == [kind |-> "none", cursor |-> 0, taken |-> 0, pending |-> FALSE, done |-> FALSE]
Object(kind) == [NoObject EXCEPT !.kind = kind]

WasiFilesInit ==
    /\ backend = [submitted |-> 0, list |-> [h \in Handles |-> <<>>], objects |-> [h \in Handles |-> NoObject],
                  ready |-> <<>>, waiting |-> <<>>, cancelled |-> <<>>, leases |-> Leases, room |-> 0, phase |-> "idle"]
    /\ kernel = [h \in Handles |-> [names |-> <<>>, ran |-> <<>>]]
    /\ told = [r \in Requests |-> "open"]

Idle == backend.phase = "idle"
Pending(r) == r <= backend.submitted /\ told[r] = "open"

Queued(b, r) ==
    IF HandleOf(r) = NoHandle THEN [b EXCEPT !.ready = Append(@, r)]
    ELSE [b EXCEPT !.list[HandleOf(r)] = Append(@, r),
                   !.ready = IF b.list[HandleOf(r)] = <<>> THEN Append(@, r) ELSE @]

\* Opening is for a handle without an object, everything else for one with.
Submit(r) ==
    /\ Idle /\ r = backend.submitted + 1
    /\ HandleOf(r) # NoHandle => (Opens(r) <=> backend.objects[HandleOf(r)].kind = "none")
    /\ backend' = [Queued(backend, r) EXCEPT !.submitted = r]
    /\ UNCHANGED <<kernel, told>>

\* unlink: the successor of a first request is ready in its place.
Unlink(b, r) ==
    IF HandleOf(r) = NoHandle THEN b
    ELSE LET list == b.list[HandleOf(r)] IN
         [b EXCEPT !.list[HandleOf(r)] = SelectSeq(@, LAMBDA x : x # r),
                   !.ready = IF list[1] = r /\ Len(list) > 1 THEN Append(@, list[2]) ELSE @]

Cancel(r) ==
    /\ Idle /\ Pending(r) /\ r \notin ToSet(backend.cancelled)
    /\ backend' = Unlink([backend EXCEPT !.ready = SelectSeq(@, LAMBDA x : x # r),
                                         !.waiting = SelectSeq(@, LAMBDA x : x # r),
                                         !.cancelled = Append(@, r)], r)
    /\ UNCHANGED <<kernel, told>>

\* The driver releases a handle whose requests have ended.
Release(h) ==
    /\ Idle /\ backend.objects[h].kind # "none"
    /\ \A r \in Requests : HandleOf(r) = h => r <= backend.submitted /\ ~Pending(r)
    /\ backend' = [backend EXCEPT !.objects[h] = NoObject]
    /\ UNCHANGED <<kernel, told>>

ReturnLease ==
    /\ Idle /\ backend.leases < Leases
    /\ backend' = [backend EXCEPT !.leases = @ + 1]
    /\ UNCHANGED <<kernel, told>>

---------------------------------------------------------------------------
\* execute: the object afterwards, how the request ends, and the names it
\* brings.

Done(o) == [o |-> o, result |-> "done", names |-> <<>>]
Fails(o) == [Done(o) EXCEPT !.result = "error"]

\* The entry stream, from the name it holds back or the next one: names are put
\* into the page until one does not fit, which is held back for the next page;
\* the end is the end of the listing.
ReadDir(o) ==
    LET real == SelectSeq(SubSeq(Entries, o.taken + 1, Len(Entries)), LAMBDA e : e \notin Dots)
        rest == IF o.pending THEN <<Entries[o.taken]>> \o real ELSE real
        fits == CHOOSE n \in 0 .. Len(rest) :
                    /\ n <= Page /\ \A i \in 1 .. n : rest[i] \notin Large
                    /\ n = Len(rest) \/ n = Page \/ rest[n + 1] \in Large
        at(e) == CHOOSE i \in DOMAIN Entries : Entries[i] = e
    IN  IF fits = Len(rest)
        THEN [Done([o EXCEPT !.taken = Len(Entries), !.pending = FALSE, !.done = TRUE]) EXCEPT !.names = rest]
        ELSE LET stopped == [o EXCEPT !.taken = at(rest[fits + 1]), !.pending = TRUE] IN
             IF fits = 0 THEN Fails(stopped)
             ELSE [Done(stopped) EXCEPT !.names = SubSeq(rest, 1, fits)]

Execute(r, o) ==
    CASE KindOf(r) = "open" -> {Done(Object("file")), Fails(o)}
      [] KindOf(r) = "open_dir" -> {Done(Object("dir")), Fails(o)}
      [] KindOf(r) = "stat" -> {Done(o), Fails(o)}
      [] KindOf(r) = "close" -> {IF o.kind \in {"file", "dir"} THEN Done(Object("closed")) ELSE Fails(o)}
      [] KindOf(r) = "read" ->
            IF o.kind # "file" THEN {Fails(o)}
            ELSE {Fails(o), Done([o EXCEPT !.cursor = IF @ < Length THEN @ + 1 ELSE @])}
      [] KindOf(r) = "write" ->
            IF o.kind # "file" THEN {Fails(o)} ELSE {Fails(o), Done([o EXCEPT !.cursor = @ + 1])}
      [] KindOf(r) = "read_dir" -> IF o.kind # "dir" THEN {Fails(o)} ELSE {ReadDir(o)}

---------------------------------------------------------------------------
\* run: cancellations, then what waited for a buffer, then ready requests.

Min2(a, b) == IF a < b THEN a ELSE b

Begin ==
    /\ Idle
    /\ LET n == Min2(Len(backend.cancelled), Room)
           back == IF backend.leases > 0 THEN backend.waiting ELSE <<>>
       IN  /\ backend' = [backend EXCEPT !.phase = "run", !.room = Room - n,
                                         !.cancelled = SubSeq(@, n + 1, Len(@)),
                                         !.ready = @ \o back,
                                         !.waiting = IF back = <<>> THEN @ ELSE <<>>]
           /\ told' = [r \in Requests |->
                         IF r \in {backend.cancelled[i] : i \in 1 .. n}
                         THEN IF told[r] = "open" THEN "cancelled" ELSE "twice" ELSE told[r]]
    /\ UNCHANGED kernel

RunsMore == backend.room > 0 /\ backend.ready # <<>>

RunOne ==
    LET r == Head(backend.ready)
        h == HandleOf(r)
        popped == [backend EXCEPT !.ready = Tail(@)]
    IN  /\ backend.phase = "run" /\ RunsMore
        /\ IF Pooled(r) /\ backend.leases = 0
           THEN backend' = [popped EXCEPT !.waiting = Append(@, r)] /\ UNCHANGED <<kernel, told>>
           ELSE \E x \in Execute(r, IF h = NoHandle THEN NoObject ELSE backend.objects[h]) :
                  /\ backend' = LET b == Unlink(popped, r) IN
                         [b EXCEPT !.room = @ - 1,
                                   !.leases = IF Pooled(r) /\ x.result = "done" THEN @ - 1 ELSE @,
                                   !.objects = IF h = NoHandle THEN @ ELSE [@ EXCEPT ![h] = x.o]]
                  /\ kernel' = IF h = NoHandle THEN kernel
                               ELSE [kernel EXCEPT ![h].names = @ \o x.names, ![h].ran = Append(@, r)]
                  /\ told' = [told EXCEPT ![r] = IF @ = "open" THEN x.result ELSE "twice"]

HasWork == backend.ready # <<>> \/ backend.cancelled # <<>> \/ (backend.waiting # <<>> /\ backend.leases > 0)

\* The rest of the poll blocks only if nothing is left to run.
EndRun ==
    /\ backend.phase = "run" /\ ~RunsMore
    /\ backend' = [backend EXCEPT !.phase = IF HasWork \/ backend.room < Room THEN "idle" ELSE "wait"]
    /\ UNCHANGED <<kernel, told>>

EndPoll ==
    /\ backend.phase = "wait"
    /\ backend' = [backend EXCEPT !.phase = "idle"]
    /\ UNCHANGED <<kernel, told>>

WasiFilesNext ==
    \/ \E r \in Requests : Submit(r) \/ Cancel(r)
    \/ \E h \in Handles : Release(h)
    \/ ReturnLease \/ Begin \/ RunOne \/ EndRun \/ EndPoll

---------------------------------------------------------------------------
\* The component blocks only if every request it accepted and has not ended
\* stands behind another one of its handle, or waits for a buffer of a pool
\* that has none; and a request is in one of these places only.
WasiFilesSleep ==
    /\ backend.phase = "wait" =>
        \A r \in Requests : Pending(r) =>
            \/ r \in ToSet(backend.waiting) /\ backend.leases = 0
            \/ HandleOf(r) # NoHandle /\ r \in ToSet(backend.list[HandleOf(r)]) /\ backend.list[HandleOf(r)][1] # r
    /\ LET heads == {r \in Requests :
                        /\ Pending(r) /\ r \notin ToSet(backend.cancelled)
                        /\ HandleOf(r) # NoHandle => backend.list[HandleOf(r)][1] = r}
           all == backend.ready \o backend.waiting
       IN  ToSet(all) = heads /\ Len(all) = Cardinality(heads)

\* Requests on one handle run in the order of their submission, whatever is
\* cancelled around them; each ends once.
WasiFilesInOrder ==
    /\ \A r \in Requests : told[r] # "twice"
    /\ \A h \in Handles : \A i, j \in DOMAIN kernel[h].ran : i < j => kernel[h].ran[i] < kernel[h].ran[j]

\* The pages of a directory are its names without the dots, in the host's
\* order, none skipped and none twice, though a page ends where the next name
\* does not fit and some pages fail.
PagesAreExact ==
    \A h \in Handles :
        LET real == SelectSeq(Entries, LAMBDA e : e \notin Dots) IN
        /\ IsPrefix(kernel[h].names, real)
        /\ backend.objects[h].kind = "dir" /\ backend.objects[h].done => kernel[h].names = real
=============================================================================
