----------------------------- MODULE MCServices -----------------------------
(***************************************************************************)
(* What the driver rests on, for TLC.  The services around it: the long    *)
(* workers; the file service over its pool, once with requests on no       *)
(* handle and once with the jobs of another loop; external waits, native   *)
(* and in a wasm agent; the executor, once with two slots and once with    *)
(* one that is used again; the table with its timer heap, once with room   *)
(* to sift and once with generations that run out.  And the backends: the  *)
(* engine, files, services and watches of Unix; the engine, waiting,       *)
(* threads, services and watches of Windows; the two WASI backends and     *)
(* their files, each run by a small host program against its kernel.  A    *)
(* behaviour exercises one of them, which `part' names, in the variables   *)
(* that it needs.                                                          *)
(***************************************************************************)
EXTENDS Naturals, Sequences, FiniteSets, TLC

CONSTANTS
    Parts,                              \* which of them this run exercises
    LongJobs, Threads, LongMax, Loops,
    FsOps, OpenFiles, NoFile, Boxed, Workers, QueueCapacity,
    Waits, Owners, wait1, wait2, owner1, owner2, Conditions, WaitSlots, MaxTime, MaxNotifies,
    Futures, Task, LoopHandles

VARIABLES part, s1, s2, s3, s4, s5, s6, s7, s8, s9, s10

vars == <<part, s1, s2, s3, s4, s5, s6, s7, s8, s9, s10>>

\* The variables behind the first n are not used.
RestAre(n, i, variable) == i > n => variable = 0
Rest(n) ==
    /\ RestAre(n, 4, s4) /\ RestAre(n, 5, s5) /\ RestAre(n, 6, s6) /\ RestAre(n, 7, s7)
    /\ RestAre(n, 8, s8) /\ RestAre(n, 9, s9) /\ RestAre(n, 10, s10)
StillRest(n) ==
    /\ (n < 4 => UNCHANGED <<s4, s5, s6>>) /\ (n < 7 => UNCHANGED s7) /\ (n < 10 => UNCHANGED <<s8, s9, s10>>)

---------------------------------------------------------------------------
(* Services.                                                               *)

Fs == INSTANCE FsService WITH Ops <- FsOps, Targets <- OpenFiles \cup {NoFile}, Boxed <- {}, Files <- OpenFiles, Leases <- 1,
    QueueCapacity <- 1,
    svc <- s1, worker <- s2, answers <- s3, life <- s4, left <- s5, withdrawn <- s6,
    handed <- s1, threads <- s2, idle <- s3, starting <- s4, nudges <- s5, at <- s6, serves <- s7
Pool == INSTANCE FsService WITH Ops <- FsOps, Targets <- OpenFiles, Files <- OpenFiles, Leases <- 1,
    svc <- s1, worker <- s2, answers <- s3, life <- s4, left <- s5, withdrawn <- s6,
    handed <- s1, threads <- s2, idle <- s3, starting <- s4, nudges <- s5, at <- s6, serves <- s7
Wait(threaded) == INSTANCE ExternalWait WITH
    OwnerOf <- (wait1 :> owner1) @@ (wait2 :> owner2), MaxGeneration <- MaxNotifies, Threaded <- threaded,
    value <- s1, generation <- s2, owed <- s3, slots <- s4, results <- s5, accepted <- s6, closed <- s7,
    thread <- s8, until <- s9, now <- s10
Exec(ids, last) == INSTANCE Executor WITH
    Slots <- ids, MaxGeneration <- last, Handles <- LoopHandles, TaskOf <- [f \in Futures |-> Task],
    ex <- s1, futures <- s2, streams <- s3, tasks <- s4, ready <- s5, waking <- s6, notified <- s7,
    phase <- s8, todo <- s9, polling <- s10
Table(page, ceiling, last) == INSTANCE TimerTable WITH
    Page <- page, Ceiling <- ceiling, LastGeneration <- last, Arity <- 2, Times <- {0, 1},
    pages <- s1, slot <- s2, free <- s3, live <- s4, heap <- s5, positions <- s6, spent <- s7

---------------------------------------------------------------------------
(* Backends.                                                               *)

Op(handle, kind) == [handle |-> handle, kind |-> kind]

\* What the settings below have in common, for constants of the same name.
Capacity == 2
NoOp == 0
Room == 1
Leases == 1
Length == 1

---------------------------------------------------------------------------
(* Engines: a stream; a connection that breaks; listeners that compete for *)
(* the budget of the driver; reads in order; and for Windows pipes, dialed *)
(* pipes and sent handles.                                                 *)

Host(program, arrivals, budgets, units, breaks) ==
    [program |-> program, arrivals |-> arrivals, budgets |-> budgets, units |-> units, breaks |-> breaks, attaches |-> 0,
     backlog |-> 1, routings |-> {FALSE}]
Stream == Host(<<Op("a", "reads"), Op("a", "write"), Op("a", "shutdown")>>, 1, {1}, 2, FALSE)
Dialed == Host(<<Op("a", "connect"), Op("a", "write"), Op("a", "read")>>, 1, {1}, 1, TRUE)
Listening(kinds, arrivals) == Host(kinds, arrivals, {0, 1}, 1, FALSE)

UnixCases ==
    [unix |-> Stream, unix_dialed |-> Dialed,
     unix_listen |-> Listening(<<Op("l", "accepts"), Op("k", "accepts")>>, 1),
     unix_order |-> [Host(<<Op("a", "read"), Op("a", "read"), Op("a", "read")>>, 2, {1}, 1, FALSE) EXCEPT !.attaches = 1]]
Unix(k) == INSTANCE UnixEngine WITH
    backend <- s1, kernel <- s2, told <- s3,
    Program <- UnixCases[k].program, Budgets <- UnixCases[k].budgets, Units <- UnixCases[k].units,
    MaxArrivals <- UnixCases[k].arrivals, Breaks <- UnixCases[k].breaks, MaxAttaches <- UnixCases[k].attaches,
    FileOps <- <<>>

IocpCases ==
    [iocp |-> [Host(<<Op("a", "reads"), Op("a", "write")>>, 1, {1}, 2, FALSE) EXCEPT !.routings = BOOLEAN],
     iocp_leases |-> Host(<<Op("a", "leased"), Op("b", "reads")>>, 1, {1}, 1, FALSE),
     iocp_dialed |-> [Dialed EXCEPT !.routings = {TRUE}],
     iocp_listen |-> Listening(<<Op("l", "accepts"), Op("l", "accept"), Op("l", "accepts")>>, 2),
     iocp_pipes |-> [Host(<<Op("p", "pipes"), Op("p", "pipes")>>, 2, {0, 1}, 1, TRUE) EXCEPT !.backlog = 2],
     iocp_dial |-> Host(<<Op("d", "dial")>>, 2, {1}, 1, TRUE),
     iocp_send |-> [Host(<<Op("a", "send_handle"), Op("a", "write"), Op("a", "shutdown")>>, 0, {1}, 2, FALSE)
                      EXCEPT !.routings = BOOLEAN]]
Iocp(k) == INSTANCE IocpEngine WITH
    backend <- s1, kernel <- s2, told <- s3,
    Program <- IocpCases[k].program, Budgets <- IocpCases[k].budgets, Units <- IocpCases[k].units,
    Backlog <- IocpCases[k].backlog, MaxArrivals <- IocpCases[k].arrivals, Routings <- IocpCases[k].routings,
    Faults <- IocpCases[k].breaks

P2Cases ==
    [p2 |-> Stream, p2_dialed |-> Dialed,
     p2_listen |-> Listening(<<Op("l", "accepts"), Op("k", "accepts"), Op("l", "accepts")>>, 1),
     p2_lookup |-> Host(<<Op("r", "lookup"), Op("s", "lookup")>>, 1, {1}, 1, TRUE)]
P2(k) == INSTANCE WasiP2 WITH
    backend <- s1, kernel <- s2, told <- s3,
    Program <- P2Cases[k].program, Budgets <- P2Cases[k].budgets, Units <- P2Cases[k].units,
    MaxArrivals <- P2Cases[k].arrivals, Breaks <- P2Cases[k].breaks, Burst <- 1

P3Cases ==
    [p3 |-> [Stream EXCEPT !.breaks = TRUE], p3_dialed |-> Dialed,
     p3_listen |-> Listening(<<Op("l", "accepts"), Op("l", "accept"), Op("l", "accepts")>>, 2),
     p3_end |-> Host(<<Op("a", "read"), Op("a", "read")>>, 1, {1}, 1, TRUE),
     p3_datagrams |-> Host(<<Op("u", "recv"), Op("v", "recv"), Op("u", "recv")>>, 1, {1}, 1, TRUE)]
P3(k) == INSTANCE WasiP3 WITH
    backend <- s1, kernel <- s2, told <- s3,
    Program <- P3Cases[k].program, Budgets <- P3Cases[k].budgets, Units <- P3Cases[k].units,
    MaxArrivals <- P3Cases[k].arrivals, Breaks <- P3Cases[k].breaks, Leases <- (IF k = "p3_datagrams" THEN 2 ELSE 1)

---------------------------------------------------------------------------
(* Files, services and watches.                                            *)

FileCases ==
    [files |-> <<Op("a", "multishot"), Op("b", "pooled")>>,
     files_order |-> <<Op("a", "write"), Op("a", "pooled"), Op("a", "read")>>]
Files(k) == INSTANCE UnixEngine WITH
    backend <- s1, kernel <- s2, told <- s3,
    FileOps <- FileCases[k], Program <- <<>>, Budgets <- {}, Units <- 0, MaxArrivals <- 0, Breaks <- FALSE, MaxAttaches <- 0

P2FileCases ==
    [p2_file |-> <<Op("a", "open"), Op("a", "read"), Op("a", "write"), Op("-", "stat"), Op("a", "close"), Op("a", "read")>>,
     p2_files |-> <<Op("a", "open"), Op("b", "open"), Op("a", "read"), Op("b", "read"), Op("a", "read")>>,
     p2_directory |-> <<Op("a", "open_dir"), Op("a", "read_dir"), Op("a", "read_dir"), Op("a", "read_dir"), Op("a", "close")>>,
     p2_long_name |-> <<Op("a", "open_dir"), Op("a", "read_dir"), Op("a", "read_dir")>>]
P2Files(k) == INSTANCE WasiFiles WITH
    backend <- s1, kernel <- s2, told <- s3,
    Program <- P2FileCases[k], Room <- 2, Entries <- <<1, 2, 3, 4>>, Dots <- {1, 3}, Page <- 1,
    Large <- (IF k = "p2_long_name" THEN {4} ELSE {}), NoHandle <- "-"

ServiceCases ==
    [signals |-> [watchers |-> {"owner1", "owner2"}, children |-> {}, raises |-> 1, opens |-> 1],
     signals_again |-> [watchers |-> {"owner1"}, children |-> {}, raises |-> 2, opens |-> 2],
     children |-> [watchers |-> {}, children |-> {"c1"}, raises |-> 0, opens |-> 2]]
WatchCases ==
    [inotify |-> [watched |-> [h1 |-> "f", h2 |-> "f"], fsevents |-> FALSE, changes |-> <<1, 2, 3>>, gone |-> 3, errors |-> 0],
     inotify_errors |-> [watched |-> [h1 |-> "f", h2 |-> "g"], fsevents |-> FALSE, changes |-> <<1, 2>>, gone |-> 0, errors |-> 1],
     fsevents |-> [watched |-> [h1 |-> "f", h2 |-> "g"], fsevents |-> TRUE, changes |-> <<1, 2>>, gone |-> 0, errors |-> 0]]
Services(k) == INSTANCE UnixServices WITH
    backend <- s1, kernel <- s2, told <- s3,
    Watchers <- ServiceCases[k].watchers, Children <- ServiceCases[k].children, MaxRaises <- ServiceCases[k].raises,
    MaxOpens <- ServiceCases[k].opens, MaxSubmits <- ServiceCases[k].opens, Watched <- <<>>, FsEvents <- FALSE,
    Changes <- <<>>, Large <- {}, Gone <- 0, QueueRoom <- 0, RingRoom <- 0, LeaseRoom <- 0, ReadBound <- 0, MaxErrors <- 0
Watches(k) == INSTANCE UnixServices WITH
    backend <- s1, kernel <- s2, told <- s3,
    Watched <- WatchCases[k].watched, FsEvents <- WatchCases[k].fsevents, Changes <- WatchCases[k].changes, Large <- {2},
    Gone <- WatchCases[k].gone, QueueRoom <- 2, RingRoom <- 2, LeaseRoom <- 1, ReadBound <- 2,
    MaxErrors <- WatchCases[k].errors, Watchers <- {}, Children <- {}, MaxRaises <- 0, MaxOpens <- 0, MaxSubmits <- 0

ControlCases ==
    [controls |-> [watchers |-> {1, 2}, children |-> {}, opens |-> 1], exits |-> [watchers |-> {1}, children |-> {2}, opens |-> 1],
     exits_again |-> [watchers |-> {}, children |-> {1}, opens |-> 2]]
DirectoryCases ==
    [directory |-> [opens |-> 2, changes |-> 3, faults |-> FALSE], directory_errors |-> [opens |-> 1, changes |-> 2, faults |-> TRUE]]
Controls(k) == INSTANCE IocpServices WITH
    backend <- s1, kernel <- s2, told <- s3,
    Watchers <- ControlCases[k].watchers, Children <- ControlCases[k].children, MaxRaises <- 1,
    MaxOpens <- ControlCases[k].opens, MaxSubmits <- ControlCases[k].opens,
    Watched <- {}, Changes <- 0, Mine <- {}, BufferRoom <- 0, RingRoom <- 0, Faults <- FALSE
Directories(k) == INSTANCE IocpServices WITH
    backend <- s1, kernel <- s2, told <- s3,
    Watched <- {1}, MaxOpens <- DirectoryCases[k].opens, Changes <- DirectoryCases[k].changes, Mine <- {1, 3},
    BufferRoom <- 1, RingRoom <- 1, Faults <- DirectoryCases[k].faults,
    Watchers <- {}, Children <- {}, MaxRaises <- 0, MaxSubmits <- 0

PortCases == [port |-> [posts |-> 3, time |-> 1], port_timer |-> [posts |-> 1, time |-> 2]]
SyncCases == [sync |-> FALSE, sync_pipe |-> TRUE]
Port(k) == INSTANCE IocpThreads WITH
    backend <- s1, kernel <- s2, told <- s3,
    Batch <- 1, MaxPosts <- PortCases[k].posts, MaxTime <- PortCases[k].time, MaxTurns <- 2, NoTime <- 9,
    Preemptible <- FALSE, MaxBytes <- 0, MaxStarts <- 0
Sync(k) == INSTANCE IocpThreads WITH
    backend <- s1, kernel <- s2, told <- s3,
    Preemptible <- SyncCases[k], MaxBytes <- 1, MaxStarts <- 2,
    Batch <- 0, MaxPosts <- 0, MaxTime <- 0, MaxTurns <- 0, NoTime <- 9

---------------------------------------------------------------------------
UnixParts == Parts \cap DOMAIN UnixCases
FilesParts == Parts \cap DOMAIN FileCases
ServicesParts == Parts \cap DOMAIN ServiceCases
WatchesParts == Parts \cap DOMAIN WatchCases
IocpParts == Parts \cap DOMAIN IocpCases
PortParts == Parts \cap DOMAIN PortCases
SyncParts == Parts \cap DOMAIN SyncCases
ControlsParts == Parts \cap DOMAIN ControlCases
DirectoriesParts == Parts \cap DOMAIN DirectoryCases
P2Parts == Parts \cap DOMAIN P2Cases
P2FilesParts == Parts \cap DOMAIN P2FileCases
P3Parts == Parts \cap DOMAIN P3Cases

ServiceInit ==
    \/ part = "long" /\ Pool!LongInit /\ Rest(7)
    \/ part = "fs" /\ Fs!FsInit /\ Rest(6)
    \/ part = "pool" /\ Pool!FsInit /\ Rest(6)
    \/ part = "wait" /\ Wait(TRUE)!WaitInit
    \/ part = "agent" /\ Wait(FALSE)!WaitInit
    \/ part = "exec" /\ Exec({1, 2}, 1)!ExInit
    \/ part = "exec_again" /\ Exec({1}, 3)!ExInit
    \/ part = "heap" /\ Table(4, 6, 1)!TableInit /\ Rest(7)
    \/ part = "keys" /\ Table(2, 3, 3)!TableInit /\ Rest(7)

BackendInit ==
    /\ Rest(3)
    /\ \/ \E k \in UnixParts : part = k /\ Unix(k)!EngineInit
       \/ \E k \in FilesParts : part = k /\ Files(k)!FilesInit
       \/ \E k \in ServicesParts : part = k /\ Services(k)!ServicesInit
       \/ \E k \in WatchesParts : part = k /\ Watches(k)!WatchesInit
       \/ \E k \in IocpParts : part = k /\ Iocp(k)!IocpInit
       \/ \E k \in PortParts : part = k /\ Port(k)!EventsInit
       \/ \E k \in SyncParts : part = k /\ Sync(k)!SyncInit
       \/ \E k \in ControlsParts : part = k /\ Controls(k)!IocpServicesInit
       \/ \E k \in DirectoriesParts : part = k /\ Directories(k)!IocpWatchesInit
       \/ \E k \in P2Parts : part = k /\ P2(k)!WasiInit
       \/ \E k \in P2FilesParts : part = k /\ P2Files(k)!WasiFilesInit
       \/ \E k \in P3Parts : part = k /\ P3(k)!P3Init

Init == part \in Parts /\ (ServiceInit \/ BackendInit)

ServiceNext ==
    \/ part = "long" /\ Pool!LongNext /\ StillRest(7)
    \/ part = "fs" /\ Fs!FsNext /\ StillRest(6)
    \/ part = "pool" /\ Pool!FsNext /\ StillRest(6)
    \/ part = "wait" /\ Wait(TRUE)!WaitNext
    \/ part = "agent" /\ Wait(FALSE)!WaitNext
    \/ part = "exec" /\ Exec({1, 2}, 1)!ExNext
    \/ part = "exec_again" /\ Exec({1}, 3)!ExNext
    \/ part = "heap" /\ Table(4, 6, 1)!TableNext /\ StillRest(7)
    \/ part = "keys" /\ Table(2, 3, 3)!TableNext /\ StillRest(7)

BackendNext ==
    /\ StillRest(3)
    /\ \/ \E k \in UnixParts : part = k /\ Unix(k)!EngineNext
       \/ \E k \in FilesParts : part = k /\ Files(k)!FilesNext
       \/ \E k \in ServicesParts : part = k /\ Services(k)!ServicesNext
       \/ \E k \in WatchesParts : part = k /\ Watches(k)!WatchesNext
       \/ \E k \in IocpParts : part = k /\ Iocp(k)!IocpNext
       \/ \E k \in PortParts : part = k /\ Port(k)!EventsNext
       \/ \E k \in SyncParts : part = k /\ Sync(k)!SyncNext
       \/ \E k \in ControlsParts : part = k /\ Controls(k)!IocpServicesNext
       \/ \E k \in DirectoriesParts : part = k /\ Directories(k)!IocpWatchesNext
       \/ \E k \in P2Parts : part = k /\ P2(k)!WasiNext
       \/ \E k \in P2FilesParts : part = k /\ P2Files(k)!WasiFilesNext
       \/ \E k \in P3Parts : part = k /\ P3(k)!P3Next

Next == UNCHANGED part /\ (ServiceNext \/ BackendNext)

Spec == Init /\ [][Next]_vars

---------------------------------------------------------------------------
\* Handed work is in one place.  The worker set of LongSet keeps its counts and
\* never makes a job it handed over wait behind another; the file service keeps
\* the reservations of the bounded queue, a request is waiting, queued, running
\* or answered, and the count that Service::drop waits on is exact.
WorkersAreSafe ==
    /\ part = "long" => Pool!LongTypeOK /\ Pool!NoBacklog
    /\ part = "fs" => Fs!FsTypeOK /\ Fs!ReservationsHold /\ Fs!RequestInOnePlace /\ Fs!RunningIsExact
    /\ part = "pool" => Pool!FsTypeOK /\ Pool!ReservationsHold /\ Pool!RequestInOnePlace /\ Pool!RunningIsExact

\* Nobody sleeps over work: the helper thread of external waits over one that
\* is over, the host thread over a task that was woken.  And a backend never blocks
\* in its kernel while it holds an operation that could go on, an end it has not
\* reported, or a request of another thread that no wake will follow: what is
\* ready is run or reported first, whichever step of the kernel, of a worker, of
\* a signal or of a timer came in between.  The engine of epoll and kqueue does not
\* spin over what it cannot run either.
NobodySleeps ==
    /\ part = "wait" => Wait(TRUE)!SleepsOverNothing
    /\ part = "exec" => Exec({1, 2}, 1)!NoTaskSleeps
    /\ part = "exec_again" => Exec({1}, 3)!NoTaskSleeps
    /\ \A k \in UnixParts : part = k => Unix(k)!EngineSleepsOverNothing /\ Unix(k)!NeverSpins
    /\ \A k \in FilesParts : part = k => Files(k)!FilesSleepOverNothing
    /\ \A k \in ServicesParts : part = k => Services(k)!ServicesSleepOverNothing
    /\ \A k \in WatchesParts : part = k => Watches(k)!WatchesSleepOverNothing
    /\ \A k \in IocpParts : part = k => Iocp(k)!IocpSleepsOverNothing
    /\ \A k \in PortParts : part = k => Port(k)!SleepIsOver
    /\ \A k \in SyncParts : part = k => Sync(k)!SyncSleepsOverNothing
    /\ \A k \in ControlsParts : part = k => Controls(k)!IocpServicesSleep
    /\ \A k \in DirectoriesParts : part = k => Directories(k)!IocpWatchesSleep
    /\ \A k \in P2Parts : part = k => P2(k)!WasiSleepsOverNothing
    /\ \A k \in P2FilesParts : part = k => P2Files(k)!WasiFilesSleep
    /\ \A k \in P3Parts : part = k => P3(k)!P3SleepsOverNothing

\* A slot of the executor has one owner until its operation has ended, and a
\* connection it made has one, or is being closed.  In the backends, memory that
\* a kernel, a worker or a callback may still use has an owner and is not given
\* back: leases of the pool, requests and their buffers, tickets of signals,
\* children, rings of watches; and a packet finds room in its queue.
ResourcesAreOwned ==
    /\ part = "exec" => Exec({1, 2}, 1)!SlotsAreOwned /\ Exec({1, 2}, 1)!ConnectionsAreOwned
    /\ part = "exec_again" => Exec({1}, 3)!SlotsAreOwned /\ Exec({1}, 3)!ConnectionsAreOwned
    /\ \A k \in FilesParts : part = k => Files(k)!FileLeasesCover
    /\ \A k \in ServicesParts : part = k => Services(k)!ChildrenAreOwned
    /\ \A k \in WatchesParts : part = k => Watches(k)!WatchCreditsAreExact
    /\ \A k \in IocpParts : part = k => Iocp(k)!KernelOwnsWaiting /\ Iocp(k)!IocpLeasesCover
    /\ \A k \in PortParts : part = k => Port(k)!QueueHasRoom
    /\ \A k \in ControlsParts : part = k => Controls(k)!TicketsOutliveUse
    /\ \A k \in DirectoriesParts : part = k => Directories(k)!WatchStorageIsOwned
    /\ \A k \in P3Parts : part = k => P3(k)!P3OwnsRequests

\* An external wait ends once, whoever ends it, natively and in an agent; and a
\* completion reaches the future that asked for it.  In the backends, operations
\* of one direction of a handle run and write in the order of their submission,
\* and each is reported to the driver as ended once; packets reach the loop in
\* the order of the port, and a request is in one place at a time.
ResultsMatch ==
    /\ part = "wait" => Wait(TRUE)!WaitEndsOnce
    /\ part = "agent" => Wait(FALSE)!WaitEndsOnce
    /\ part = "exec" => Exec({1, 2}, 1)!ResultsMatch
    /\ part = "exec_again" => Exec({1}, 3)!ResultsMatch
    /\ \A k \in UnixParts : part = k => Unix(k)!ListsAreFifo /\ Unix(k)!EngineTellsOnce /\ Unix(k)!WritesInOrder
    /\ \A k \in FilesParts : part = k => Files(k)!FileJobsInOrder /\ Files(k)!FileEndsOnce
    /\ \A k \in IocpParts : part = k => Iocp(k)!IocpInOrder
    /\ \A k \in PortParts : part = k => Port(k)!PacketsInOrder
    /\ \A k \in SyncParts : part = k => Sync(k)!RequestIsOnePlace
    /\ \A k \in P2Parts : part = k => P2(k)!WasiTellsOnce /\ P2(k)!WasiWritesInOrder
    /\ \A k \in P2FilesParts : part = k => P2Files(k)!WasiFilesInOrder
    /\ \A k \in P3Parts : part = k => P3(k)!P3TellsOnce

\* Removed keys of the table stay spent, up to the last generation; the timer
\* heap over it is ordered, and its index exact.
TableIsSound ==
    /\ part = "keys" => Table(2, 3, 3)!KeysStaySpent /\ Table(2, 3, 3)!HeapIsIndexed
    /\ part = "heap" => Table(4, 6, 1)!KeysStaySpent /\ Table(4, 6, 1)!HeapIsIndexed

\* What the kernel gave a backend reaches the host, or the host is told that
\* something was lost: a signal, a console control, a change of a watched file, the
\* entries of a directory.  A connection or a datagram that a WASI 0.3 task took is
\* delivered, dropped with a cancelled operation, or kept for the one operation that
\* waits for it; and an abort of a synchronous call is asked for until it is heard.
NothingIsLost ==
    /\ \A k \in ServicesParts : part = k => Services(k)!NoSignalIsLost
    /\ \A k \in WatchesParts : part = k => Watches(k)!NoSilentLoss
    /\ \A k \in SyncParts : part = k => Sync(k)!AbortIsAsked
    /\ \A k \in ControlsParts : part = k => Controls(k)!ControlsAreSeen
    /\ \A k \in DirectoriesParts : part = k => Directories(k)!IocpNoSilentLoss
    /\ \A k \in P2FilesParts : part = k => P2Files(k)!PagesAreExact
    /\ \A k \in P3Parts : part = k => P3(k)!P3LosesNothing
=============================================================================
