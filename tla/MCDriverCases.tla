--------------------------- MODULE MCDriverCases ----------------------------
(***************************************************************************)
(* Instances of Driver for TLC: `part' names the case a behaviour          *)
(* exercises, which fixes the calls the host makes and the backend.  The   *)
(* handles and operations of these cases are interchangeable.  The accepts *)
(* have a loop of their own, with larger tables.                           *)
(***************************************************************************)
EXTENDS Driver, TLC

CONSTANTS ManyHandles, ManyOps

VARIABLES
    part,
    many, manyInflight, manyPhase, manyLeft, manyAccepts, manyDropped    \* the loop of the accepts

manyVars == <<many, manyInflight, manyPhase, manyLeft, manyAccepts, manyDropped>>

\* Sockets, files, jobs and children on the pool of a backend that may refuse to
\* cancel; timers, with the backend's own files and name lookups, and a host that
\* rebuilds its loop; timers whose hold on the loop the host changes.
Cases == [
    sockets |-> [posts |-> 0, fails |-> TRUE, pool |-> TRUE,
                 calls |-> {"open", "connect", "io", "read_start", "fs", "job", "watch", "spawn", "cancel", "close",
                            "detach", "set_ref"}],
    timers |-> [posts |-> 1, fails |-> FALSE, pool |-> FALSE,
                calls |-> {"timer", "interval", "timer_reset", "fs", "lookup", "cancel", "close", "rebuild"}],
    refs |-> [posts |-> 0, fails |-> FALSE, pool |-> FALSE,
              calls |-> {"timer", "interval", "timer_reset", "cancel", "close", "set_ref"}]]

Loop(k) == INSTANCE Driver WITH
    MaxPosts <- Cases[k].posts, Calls <- Cases[k].calls, CancelFails <- Cases[k].fails, FilesOnPool <- Cases[k].pool

\* TLC evaluates a constant definition once, except those of modules that have
\* instances: this one makes it evaluate those of DriverState for each case.
State == INSTANCE DriverState

\* Accepts compete for few handle slots.
Many == INSTANCE Driver WITH
    Handles <- ManyHandles, Ops <- ManyOps, EventsPerTurn <- 2, MaxPosts <- 0, OutCapacity <- 2, CancelFails <- TRUE,
    Calls <- {"open", "accept", "accept_start", "cancel", "close", "detach"},
    d <- many, inflight <- manyInflight, jobs <- {}, ring <- {}, posts <- 0,
    phase <- manyPhase, left <- manyLeft, accepts <- manyAccepts, dropped <- manyDropped

CasesInit == part \in {"accept"} \cup DOMAIN Cases /\ Init /\ Many!Init
CasesNext ==
    \/ \E k \in DOMAIN Cases : part = k /\ Loop(k)!Next /\ UNCHANGED <<part, manyVars>>
    \/ part = "accept" /\ Many!Next /\ UNCHANGED <<part, vars>>
CasesSpec == CasesInit /\ [][CasesNext]_<<part, vars, manyVars>>

\* The driver of the configuration itself, with its fairness.
LiveInit == part = "live" /\ Init /\ Many!Init
LiveNext == Next /\ UNCHANGED <<part, manyVars>>
LiveSpec == LiveInit /\ [][LiveNext]_<<part, vars, manyVars>> /\ Fairness

Interchangeable == Permutations(Handles) \cup Permutations(Ops)

---------------------------------------------------------------------------
\* Promised handle slots are free and are exactly those of the accepts, so a
\* connection the kernel handed over always finds a handle slot; and the books
\* stay exact while accepts, the connections they bring and the host's own
\* handles compete for the table.
AcceptsAreHoused ==
    /\ Many!ReservedIsFree /\ Many!AcceptIsHoused /\ Many!BooksAreExact
    /\ Many!QueueFits /\ Many!EveryOpHasOwner /\ Many!ClosedIsLast
==========================================================================
