----------------------------- MODULE DriverLedger -----------------------------
(***************************************************************************)
(* What the private methods of Driver do to the completions it has queued  *)
(* and to the counters that say how much is still owed: operations and     *)
(* results, buffered events, native and pool operations, the operations of *)
(* a handle, references, armed timers.  Each section has one part of the   *)
(* ledger; DriverAdmissions and DriverEndings put the parts together,      *)
(* method by method.                                                       *)
(***************************************************************************)
EXTENDS DriverAccounts, TLAPS

\* The queue

\* The places of the queue that hold a completion of M are finitely many.
LEMMA AtFinite ==
  ASSUME Counting, NEW q \in Seq(Completions), NEW M
  PROVE  IsFiniteSet(At(q, M)) /\ Cardinality(At(q, M)) \in Nat /\ At(q, M) \subseteq 1 .. Len(q)
<1>1. At(q, M) \subseteq 1 .. Len(q) /\ Len(q) \in Int /\ 1 \in Int
  BY DEF At
<1> QED
  BY Zenon, <1>1 DEF Counting

\* enqueue() adds a place.
LEMMA AtAppend ==
  ASSUME Counting, NEW q \in Seq(Completions), NEW e \in Completions, NEW M
  PROVE  Cardinality(At(Append(q, e), M)) = Cardinality(At(q, M)) + One(e \in M)
<1> DEFINE n == Len(q) + 1
           a == Append(q, e)
<1>1. n \notin At(q, M) /\ IsFiniteSet(At(q, M)) /\ Cardinality(At(q, M)) \in Nat
  BY AtFinite DEF At
<1>2. DOMAIN a = 1 .. n /\ a[n] = e /\ \A i \in 1 .. Len(q) : a[i] = q[i]
  OBVIOUS
<1>3. DOMAIN q = 1 .. Len(q) /\ Len(q) \in Nat
  OBVIOUS
<1> HIDE DEF a
<1>4. CASE e \in M
  <2>1. At(a, M) = At(q, M) \cup {n}
    BY <1>2, <1>3, <1>4 DEF At
  <2>2. Cardinality(At(a, M)) = Cardinality(At(q, M)) + 1
    BY ZenonT(60), <1>1, <2>1 DEF Counting
  <2> QED
    BY <1>4, <2>2 DEF One, a
<1>5. CASE e \notin M
  <2>1. At(a, M) = At(q, M)
    BY <1>2, <1>3, <1>5 DEF At
  <2> QED
    BY <1>1, <1>5, <2>1 DEF One, a
<1> QED
  BY <1>4, <1>5

---------------------------------------------------------------------------
\* The methods, field by field

\* A count that may grow or shrink by one.
LEMMA CountMore ==
  ASSUME Counting, NEW T, IsFiniteSet(T), NEW x, x \notin T, NEW b \in BOOLEAN, NEW U,
         U = IF b THEN T \cup {x} ELSE T
  PROVE  Cardinality(U) = Cardinality(T) + One(b) /\ IsFiniteSet(U)
<1>1. Cardinality(T) \in Nat
  BY Zenon DEF Counting
<1>2. CASE b
  <2>1. Cardinality(T \cup {x}) = Cardinality(T) + 1 /\ IsFiniteSet(T \cup {x})
    BY Zenon DEF Counting
  <2> QED
    BY Zenon, <1>2, <2>1 DEF One
<1>3. CASE ~b
  BY <1>1, <1>3 DEF One
<1> QED
  BY <1>2, <1>3

\* Taking x from a finite set takes one from its size, if it was in it.
LEMMA CountLess ==
  ASSUME Counting, NEW T, IsFiniteSet(T), NEW x
  PROVE  Cardinality(T \ {x}) = Cardinality(T) - One(x \in T) /\ IsFiniteSet(T \ {x})
<1>1. Cardinality(T) \in Nat
  BY Zenon DEF Counting
<1>2. CASE x \in T
  <2>1. Cardinality(T \ {x}) = Cardinality(T) - 1 /\ IsFiniteSet(T \ {x})
    BY Zenon, <1>2 DEF Counting
  <2> QED
    BY Zenon, <1>2, <2>1 DEF One
<1>3. CASE x \notin T
  <2>1. T \ {x} = T
    BY <1>3
  <2> QED
    BY <1>1, <1>3, <2>1 DEF One
<1> QED
  BY <1>2, <1>3

\* Only the empty set has size 0.
LEMMA CountNone ==
  ASSUME Counting, NEW T, IsFiniteSet(T)
  PROVE  Cardinality(T) = 0 <=> T = {}
  BY Zenon DEF Counting

\* A set of one has size 1.
LEMMA OneCounts ==
  ASSUME Counting, NEW x
  PROVE  Cardinality({x}) = 1 /\ IsFiniteSet({x})
<1>1. {x} = {} \cup {x} /\ x \notin {}
  OBVIOUS
<1>2. Cardinality({x}) = Cardinality({}) + 1 /\ IsFiniteSet({x}) /\ Cardinality({}) = 0
  BY Zenon, <1>1 DEF Counting
<1> QED
  BY <1>2

\* A set of operations is finite: the table is bounded.
LEMMA OpsFinite ==
  ASSUME Counting, NEW T \in SUBSET Ops
  PROVE  IsFiniteSet(T) /\ Cardinality(T) \in Nat
<1>1. T \subseteq Ops
  OBVIOUS
<1> QED
  BY Zenon, <1>1, SlotsAssumption DEF Counting

\* A set of handles is finite: the table is bounded.
LEMMA HandlesFinite ==
  ASSUME Counting, NEW T \in SUBSET Handles
  PROVE  IsFiniteSet(T) /\ Cardinality(T) \in Nat
<1>1. T \subseteq Handles
  OBVIOUS
<1> QED
  BY Zenon, <1>1, SlotsAssumption DEF Counting

\* Two resources that differ at most in the operations they count.
Alike(q, r) ==
    /\ q.kind = r.kind /\ q.hidden = r.hidden /\ q.referenced = r.referenced
    /\ q.closing = r.closing /\ q.closed_queued = r.closed_queued

\* The slot of a live operation holds an operation.
LEMMA OpShape ==
  ASSUME NEW s, Shaped(s), NEW o \in LiveOps(s)
  PROVE  /\ o \in Ops /\ s.ops[o] \in Operations /\ s.ops[o] # None
         /\ s.ops[o].handle \in Handles \cup {None} /\ s.ops[o].kind \in OpKinds
<1>1. o \in Ops /\ s.ops[o] \in Operations /\ s.ops[o] # None
  BY VacantAssumption DEF LiveOps, Shaped, Free
<1> QED
  BY <1>1 DEF Operations

\* What t's handles are when h counts n operations more than in s.
Pended(s, h, n, t) ==
    /\ t.handles \in [Handles -> Resources \cup {None}] /\ Live(t) = Live(s)
    /\ \A x \in Live(s) :
          /\ Alike(t.handles[x], s.handles[x])
          /\ t.handles[x].pending = s.handles[x].pending + (IF x = h THEN n ELSE 0)

\* Counting an operation on its handle changes nothing else.
LEMMA PendFields ==
  ASSUME NEW s, Shaped(s), NEW h \in Handles \cup {None}, NEW n \in Int, NEW t, t.handles = Pend(s, h, n)
  PROVE  Pended(s, h, n, t)
<1>1. t.handles \in [Handles -> Resources \cup {None}] /\ Live(t) = Live(s)
  <2>1. CASE ~Present(s, h)
    BY <2>1 DEF Pend, Shaped, Live
  <2>2. CASE Present(s, h)
    <3> DEFINE r == [s.handles[h] EXCEPT !.pending = s.handles[h].pending + n]
    <3>1. h \in Handles /\ s.handles[h] \in Resources /\ s.handles[h] # None
      BY <2>2 DEF Present, Shaped, Free
    <3>2. r \in Resources
      BY <3>1 DEF Resources
    <3>3. t.handles = [s.handles EXCEPT ![h] = r]
      BY <2>2 DEF Pend
    <3> HIDE DEF r
    <3> QED
      BY <3>1, <3>2, <3>3, VacantAssumption DEF Shaped, Live, Free
  <2> QED
    BY <2>1, <2>2
<1>2. ASSUME NEW x \in Live(s)
      PROVE  /\ Alike(t.handles[x], s.handles[x])
             /\ t.handles[x].pending = s.handles[x].pending + (IF x = h THEN n ELSE 0)
  <2>1. x \in Handles /\ s.handles[x] \in Resources /\ s.handles[x] # Free
    BY DEF Live, Shaped, Free
  <2>2. s.handles[x].pending \in Int
    BY <2>1 DEF Resources
  <2>3. CASE x = h
    <3> DEFINE r == [s.handles[h] EXCEPT !.pending = s.handles[h].pending + n]
    <3>1. Present(s, h)
      BY <2>1, <2>3, NoneAssumption DEF Present
    <3>2. t.handles = [s.handles EXCEPT ![h] = r]
      BY <3>1 DEF Pend
    <3>3. t.handles[x] = r
      BY <2>1, <2>3, <3>2 DEF Shaped
    <3>4. Alike(r, s.handles[h]) /\ r.pending = s.handles[h].pending + n
      BY Zenon, <2>1, <2>3 DEF Alike, Resources
    <3> HIDE DEF r
    <3> QED
      BY <2>3, <3>3, <3>4
  <2>4. CASE x # h
    <3>1. t.handles[x] = s.handles[x]
      BY <2>1, <2>4 DEF Pend, Shaped
    <3> QED
      BY <2>2, <2>4, <3>1 DEF Alike
  <2> QED
    BY <2>3, <2>4
<1> QED
  BY <1>1, <1>2 DEF Pended

---------------------------------------------------------------------------
\* The methods, slot by slot

\* enqueue() touches neither table.
LEMMA EnqueueShape ==
  ASSUME NEW s, Shaped(s), NEW e, NEW t, t = Enqueue(s, e)
  PROVE  Shaped(t) /\ SameTables(s, t)
<1>1. IsDriver(s)
  BY DEF Shaped
<1>2. IsDriver(t) /\ t.handles = s.handles /\ t.ops = s.ops /\ t.deadlines = s.deadlines
  BY Zenon, <1>1 DEF Enqueue, IsDriver, Fields
<1> QED
  BY <1>2 DEF Shaped, SameTables, Live, LiveOps, OpsOf

---------------------------------------------------------------------------
\* Counters of the operations

\* s and t have the same operations, as far as they are counted.
SameTallies(s, t) ==
    /\ t.native_pending = s.native_pending /\ t.undelivered = s.undelivered
    /\ LiveOps(t) = LiveOps(s)
    /\ \A o \in LiveOps(s) :
          /\ t.ops[o].handle = s.ops[o].handle /\ t.ops[o].native = s.ops[o].native
          /\ t.ops[o].port = s.ops[o].port

\* Handles without operations may come and go.
SamePending(s, t) ==
    /\ \A h \in Live(t) : t.handles[h].pending = IF h \in Live(s) THEN s.handles[h].pending ELSE 0
    /\ \A h \in Live(s) \ Live(t) : OpsOf(s, h) = {}

\* The native, pool and pending counts stay exact when the slots they count
\* stay.
LEMMA TalliesKept ==
  ASSUME Counting, NEW s, Tallies(s), NEW t, SameTallies(s, t), SamePending(s, t)
  PROVE  Tallies(t)
<1>1. Natives(t) = Natives(s) /\ Ports(t) = Ports(s) /\ \A h : OpsOf(t, h) = OpsOf(s, h)
  BY DEF SameTallies, Natives, Ports, OpsOf
<1>2. ASSUME NEW h \in Live(t), h \notin Live(s) PROVE OpsOf(s, h) = {}
  BY <1>2, NoneAssumption DEF Tallies, OpsOf, Live
<1>3. ASSUME NEW h \in Live(t) PROVE t.handles[h].pending = Cardinality(OpsOf(t, h))
  <2>1. CASE h \in Live(s)
    BY <1>1, <2>1 DEF Tallies, SamePending
  <2>2. CASE h \notin Live(s)
    <3>1. OpsOf(t, h) = {} /\ t.handles[h].pending = 0
      BY <1>1, <1>2, <2>2 DEF SamePending
    <3> QED
      BY Zenon, <3>1 DEF Counting
  <2> QED
    BY <2>1, <2>2
<1>4. \A o \in LiveOps(t) : t.ops[o].handle # None => t.ops[o].handle \in Live(t)
  BY DEF SameTallies, SamePending, Tallies, OpsOf
<1> QED
  BY <1>1, <1>3, <1>4 DEF Tallies, SameTallies

---------------------------------------------------------------------------
\* Completions: what buffered counts, and which handles they name

\* The handles that completions of s name are in t as they were.
KeepsNamed(s, t) ==
    \A i \in DOMAIN s.queued : \A h \in Live(s) :
        s.queued[i].handle = h => h \in Live(t) /\ (Parted(s, h) => Parted(t, h))

\* What leaves the queue and the handles it names alone.
LEMMA LinesKept ==
  ASSUME NEW s, Lines(s), NEW t, t.queued = s.queued, t.buffered = s.buffered, KeepsNamed(s, t)
  PROVE  Lines(t)
<1>1. Named(s) /\ Buffers(s) /\ s.queued \in Seq(Completions) /\ \A i \in DOMAIN s.queued : Proper(s.queued[i])
  BY DEF Lines
<1>2. ASSUME NEW i \in DOMAIN s.queued
      PROVE  /\ s.queued[i].handle \in Live(t) \cup {None}
             /\ s.queued[i].closed => Parted(t, s.queued[i].handle)
  <2>1. s.queued[i].closed => s.queued[i].handle # None
    BY <1>1 DEF Proper, Event, Result, Goodbye
  <2> QED
    BY <1>1, <2>1 DEF Named, KeepsNamed
<1>3. Named(t)
  BY <1>1, <1>2 DEF Named
<1>4. Buffers(t)
  BY <1>1 DEF Buffers
<1> QED
  BY <1>1, <1>3, <1>4 DEF Lines

\* enqueue() appends one completion, counts it and weighs it, and changes no
\* table.
LEMMA EnqueueQueues ==
  ASSUME NEW s, IsDriver(s), NEW e, NEW t, t = Enqueue(s, e)
  PROVE  Queues(s, e, t)
  BY Zenon DEF Enqueue, IsDriver, Fields, Queues

\* The queue with one completion more.
LEMMA AppendPlaces ==
  ASSUME NEW q \in Seq(Completions), NEW e \in Completions, NEW u, u = Append(q, e)
  PROVE  /\ u \in Seq(Completions) /\ Len(q) \in Nat /\ DOMAIN q = 1 .. Len(q)
         /\ DOMAIN u = 1 .. Len(q) + 1 /\ u[Len(q) + 1] = e
         /\ \A i \in 1 .. Len(q) : u[i] = q[i]
  OBVIOUS

\* The counts of buffered events stay exact when enqueue() appends one.
LEMMA BufferedMore ==
  ASSUME Counting, NEW s, s.queued \in Seq(Completions), Buffers(s), NEW e \in Completions, NEW t,
         t.queued = Append(s.queued, e), t.buffered = Buffer(s, e.class, 1)
  PROVE  Buffers(t)
<1>1. s.buffered \in [Classes -> Int] /\ e.class \in Classes \cup {"NONE"} /\ "NONE" \notin Classes
  BY DEF Buffers, Completions, Classes
<1>2. t.buffered \in [Classes -> Int] /\ \A c \in Classes : t.buffered[c] = s.buffered[c] + One(e.class = c)
  <2>1. CASE e.class = "NONE"
    BY <1>1, <2>1 DEF Buffer, One
  <2>2. CASE e.class # "NONE"
    BY <1>1, <2>2 DEF Buffer, One
  <2> QED
    BY <2>1, <2>2
<1>3. ASSUME NEW c \in Classes PROVE t.buffered[c] = Cardinality(At(t.queued, OfClass(c)))
  <2>1. Cardinality(At(t.queued, OfClass(c))) = Cardinality(At(s.queued, OfClass(c))) + One(e \in OfClass(c))
    BY AtAppend
  <2>2. e \in OfClass(c) <=> e.class = c
    BY DEF OfClass
  <2>3. s.buffered[c] = Cardinality(At(s.queued, OfClass(c)))
    BY DEF Buffers
  <2> QED
    BY <1>2, <2>1, <2>2, <2>3 DEF One
<1> QED
  BY <1>2, <1>3 DEF Buffers

\* A completion may follow those of s: its handle is live and has not said Closed,
\* unless it says so itself.
MayFollow(s, e) ==
    /\ e \in Completions /\ Proper(e) /\ e.handle \in Live(s) \cup {None}
    /\ \A i \in DOMAIN s.queued : s.queued[i].closed => s.queued[i].handle # e.handle
    /\ e.closed => Parted(s, e.handle)

\* The queue stays in order when enqueue() appends a completion that may
\* follow.
LEMMA QueuesLines ==
  ASSUME Counting, NEW s, Lines(s), NEW e, MayFollow(s, e), NEW t, Queues(s, e, t)
  PROVE  Lines(t)
<1> DEFINE q == s.queued
           u == t.queued
           n == Len(s.queued) + 1
<1>1. q \in Seq(Completions) /\ e \in Completions /\ u = Append(q, e) /\ Buffers(s) /\ Named(s)
  BY DEF Lines, Queues, MayFollow
<1>2. Live(t) = Live(s) /\ \A h : Parted(t, h) <=> Parted(s, h)
  BY DEF Queues, Live, Parted, OpsOf, LiveOps
<1>3. Buffers(t)
  BY <1>1, BufferedMore DEF Queues
<1>4. /\ u \in Seq(Completions) /\ Len(q) \in Nat /\ DOMAIN q = 1 .. Len(q) /\ DOMAIN u = 1 .. n
      /\ u[n] = e /\ \A i \in 1 .. Len(q) : u[i] = q[i]
  BY <1>1, AppendPlaces
<1> HIDE DEF u, q
<1>5. \A i \in DOMAIN u : (i = n /\ u[i] = e) \/ (i \in DOMAIN q /\ u[i] = q[i])
  BY <1>4 DEF q
<1>6. \A i \in DOMAIN q : Proper(q[i]) /\ q[i].handle \in Live(s) \cup {None} /\ (q[i].closed => Parted(s, q[i].handle))
  BY DEF Lines, Named, q
<1>7. \A i \in DOMAIN u :
         Proper(u[i]) /\ u[i].handle \in Live(t) \cup {None} /\ (u[i].closed => Parted(t, u[i].handle))
  BY <1>2, <1>5, <1>6 DEF MayFollow
<1>8. ASSUME NEW i \in DOMAIN u, NEW j \in DOMAIN u, u[i].closed, j > i PROVE u[j].handle # u[i].handle
  <2>1. i \in DOMAIN q /\ u[i] = q[i]
    BY <1>4, <1>5, <1>8 DEF q
  <2>2. CASE u[j] = e
    BY <1>8, <2>1, <2>2 DEF MayFollow, q
  <2>3. CASE u[j] # e
    <3>1. j \in DOMAIN q /\ u[j] = q[j]
      BY <1>5, <2>3
    <3> QED
      BY <1>1, <1>8, <2>1, <3>1 DEF Named, q
  <2> QED
    BY <2>2, <2>3
<1>9. Named(t)
  BY <1>7, <1>8 DEF Named, u
<1> QED
  BY <1>3, <1>4, <1>7, <1>9 DEF Lines, u

---------------------------------------------------------------------------
\* References: what refs and outstanding count

\* What the counters count are finite sets.
LEMMA NumbersHold ==
  ASSUME Counting, NEW s, s.queued \in Seq(Completions)
  PROVE  Numbers(s)
<1>1. IsFiniteSet(LiveOps(s)) /\ Cardinality(LiveOps(s)) \in Nat
  BY OpsFinite DEF LiveOps
<1>2. IsFiniteSet(Weighing(s)) /\ Cardinality(Weighing(s)) \in Nat
  BY OpsFinite DEF Weighing, LiveOps
<1>3. IsFiniteSet(Weighty(s)) /\ Cardinality(Weighty(s)) \in Nat
  BY HandlesFinite DEF Weighty, Live
<1>4. Cardinality(At(s.queued, Results)) \in Nat /\ Cardinality(At(s.queued, Counted)) \in Nat
  BY AtFinite
<1> QED
  BY <1>1, <1>2, <1>3, <1>4 DEF Numbers

\* The flags of t's handles are those of s.
SameFlags(s, t) == Live(t) = Live(s) /\ \A x \in Live(s) : Alike(t.handles[x], s.handles[x])

\* What weighs depends on the handles' flags only.
LEMMA AlikeWeigh ==
  ASSUME NEW s, NEW t, SameFlags(s, t)
  PROVE  /\ Weighty(t) = Weighty(s)
         /\ \A h \in Handles \cup {None} : Referenced(t, h) <=> Referenced(s, h)
<1>1. \A h \in Handles : (t.handles[h] # Free) <=> (s.handles[h] # Free)
  BY DEF Live, SameFlags
<1>2. \A h \in Handles \cup {None} : Referenced(t, h) <=> Referenced(s, h)
  BY <1>1 DEF Referenced, Present, Live, Alike, SameFlags
<1> QED
  BY <1>2 DEF Weighty, Alike, SameFlags

\* The flags of queued results stay right when the flags of their handles stay.
LEMMA CarriedKept ==
  ASSUME NEW s, Carried(s), Named(s), NEW t, SameFlags(s, t), t.queued = s.queued
  PROVE  Carried(t)
  BY DEF Carried, Named, SameFlags, Alike

\* is_referenced() of a live handle is its flag.
LEMMA IsReferenced ==
  ASSUME NEW s, Shaped(s), NEW h \in Handles \cup {None}
  PROVE  /\ Referenced(s, h) \in BOOLEAN
         /\ h \in Live(s) => Referenced(s, h) = s.handles[h].referenced
<1>1. ASSUME h \in Live(s) PROVE s.handles[h] \in Resources /\ h # None /\ s.handles[h] # Free
  BY <1>1, NoneAssumption DEF Live, Shaped, Free
<1>2. ASSUME h \in Live(s) PROVE s.handles[h].referenced \in BOOLEAN
  BY <1>1, <1>2 DEF Resources
<1>3. Present(s, h) <=> h \in Live(s)
  BY NoneAssumption DEF Present, Live
<1> QED
  BY <1>1, <1>2, <1>3 DEF Referenced

---------------------------------------------------------------------------
\* Methods that change flags of operations

\* t differs from s in what the ledger does not hold: promises, ports,
\* cancellations of anything but timers, and deadlines.
Parallel(s, t) ==
    /\ t.handles = s.handles /\ t.queued = s.queued /\ t.buffered = s.buffered
    /\ t.refs = s.refs /\ t.outstanding = s.outstanding /\ t.timers = s.timers
    /\ LiveOps(t) = LiveOps(s)
    /\ \A o \in LiveOps(s) :
          /\ t.ops[o].kind = s.ops[o].kind /\ t.ops[o].handle = s.ops[o].handle
          /\ IsTimer(s.ops[o].kind) => t.ops[o].cancel = s.ops[o].cancel
    /\ \A o \in t.deadlines : ~t.ops[o].cancel /\ ~IsTimer(t.ops[o].kind)

\* The books depend on what Parallel keeps, and on the tallies.
LEMMA ParallelKeeps ==
  ASSUME NEW s, NEW t, Parallel(s, t), Tallies(t), Ledger(s)
  PROVE  Ledger(t)
<1>1. Live(t) = Live(s) /\ \A h : OpsOf(t, h) = OpsOf(s, h)
  BY DEF Parallel, Live, OpsOf
<1>2. Lines(t)
  <2>1. KeepsNamed(s, t)
    BY <1>1 DEF KeepsNamed, Parted, Parallel
  <2>2. t.queued = s.queued /\ t.buffered = s.buffered /\ Lines(s)
    BY DEF Parallel, Ledger, Sums
  <2> QED
    BY Zenon, <2>1, <2>2, LinesKept
<1>3. Owed(t)
  BY DEF Owed, Parallel, Ledger, Sums
<1>4. Weights(t)
  <2>1. SameFlags(s, t)
    BY <1>1 DEF SameFlags, Alike, Parallel
  <2>2. Weighty(t) = Weighty(s) /\ \A h : Referenced(t, h) <=> Referenced(s, h)
    BY <1>1 DEF Weighty, Referenced, Present, Parallel
  <2>3. Weighing(t) = Weighing(s)
    BY <2>2 DEF Weighing, Parallel
  <2>4. Carried(t)
    BY <2>1, CarriedKept DEF Weights, Parallel, Ledger, Sums, Lines
  <2> QED
    BY <2>2, <2>3, <2>4 DEF Weights, Refs, Parallel, Ledger, Sums
<1>5. Clocks(t)
  <2>1. ASSUME NEW o \in LiveOps(t) \ {None} PROVE TimerOp(t, o)
    <3>1. o \in LiveOps(s) /\ TimerOp(s, o)
      BY DEF Parallel, Ledger, Clocks, ClocksBut
    <3> QED
      BY <1>1, <3>1 DEF TimerOp, Parallel
  <2>2. \A h \in t.timers : Armed(t, h, None)
    BY <1>1 DEF Parallel, Ledger, Clocks, ClocksBut, Armed
  <2> QED
    BY <2>1, <2>2 DEF Clocks, ClocksBut
<1>6. HiddenBut(t, {})
  BY <1>1 DEF HiddenBut, Hiding, Parallel, Ledger
<1> QED
  BY <1>2, <1>3, <1>4, <1>5, <1>6 DEF Ledger, Sums

\* Where the counted flags are the same, so is the whole ledger.
LEMMA ParallelLedger ==
  ASSUME Counting, NEW s, Ledger(s), NEW t, Parallel(s, t), SameTallies(s, t)
  PROVE  Ledger(t)
<1>1. SamePending(s, t)
  BY DEF SamePending, Parallel, Live
<1>2. Tallies(s)
  BY DEF Ledger, Sums
<1>3. Tallies(t)
  BY Zenon, <1>1, <1>2, TalliesKept
<1> QED
  BY Zenon, <1>3, ParallelKeeps

---------------------------------------------------------------------------
\* Handles change

\* The handles that have operations or are armed are in t what they are in s.
SameClocks(s, t) ==
    /\ t.timers = s.timers
    /\ \A o \in LiveOps(s) : s.ops[o].handle \in Live(t) <=> s.ops[o].handle \in Live(s)
    /\ \A x \in Live(s) \cap Live(t) : t.handles[x].kind = s.handles[x].kind
    /\ \A x \in s.timers : x \in Live(t) /\ t.handles[x].closing = s.handles[x].closing

\* The operations of a handle depend on the table of operations only.
LEMMA SameOpsOf ==
  ASSUME NEW s, NEW t, SameOpsAndQueue(s, t)
  PROVE  LiveOps(t) = LiveOps(s) /\ \A x : OpsOf(t, x) = OpsOf(s, x)
  BY DEF SameOpsAndQueue, LiveOps, OpsOf

\* A change of handles that no completion names leaves the counts of operations
\* and of the queue exact.
LEMMA HandlesKeep ==
  ASSUME Counting, NEW s, Tallies(s), Lines(s), Owed(s), NEW t, SameOpsAndQueue(s, t), SamePending(s, t), KeepsNamed(s, t)
  PROVE  Tallies(t) /\ Lines(t) /\ Owed(t)
<1>1. LiveOps(t) = LiveOps(s)
  BY Zenon, SameOpsOf
<1>2. SameTallies(s, t)
  BY <1>1 DEF SameTallies, SameOpsAndQueue
<1>3. Tallies(t)
  BY Zenon, <1>2, TalliesKept
<1>4. t.queued = s.queued /\ t.buffered = s.buffered
  BY DEF SameOpsAndQueue
<1>5. Lines(t)
  BY Zenon, <1>4, LinesKept
<1>6. Owed(t)
  BY <1>1 DEF Owed, SameOpsAndQueue
<1> QED
  BY <1>3, <1>5, <1>6

\* The timers and deadlines stay in order when the tables they name stay.
LEMMA ClocksKept ==
  ASSUME NEW s, Clocks(s), NEW t, SameOpsAndQueue(s, t), SameClocks(s, t)
  PROVE  Clocks(t)
<1>1. LiveOps(t) = LiveOps(s) /\ \A x : OpsOf(t, x) = OpsOf(s, x)
  BY Zenon, SameOpsOf
<1>2. ASSUME NEW o \in LiveOps(t) \ {None} PROVE TimerOp(t, o)
  <2>1. o \in LiveOps(s) /\ TimerOp(s, o) /\ t.ops = s.ops /\ t.deadlines = s.deadlines
    BY <1>1 DEF Clocks, ClocksBut, SameOpsAndQueue
  <2> QED
    BY <1>1, <2>1 DEF TimerOp, SameClocks
<1>3. ASSUME NEW x \in t.timers PROVE Armed(t, x, None)
  <2>1. x \in s.timers /\ Armed(s, x, None)
    BY DEF Clocks, ClocksBut, SameClocks
  <2> QED
    BY <1>1, <2>1 DEF Armed, SameClocks
<1> QED
  BY <1>2, <1>3 DEF Clocks, ClocksBut

\* A handle in hiding stays so while its own record and the queue do.
LEMMA HidingKept ==
  ASSUME NEW s, NEW t, SameOpsAndQueue(s, t), NEW x, Hiding(s, x), t.handles[x] = s.handles[x]
  PROVE  Hiding(t, x)
<1>1. LiveOps(t) = LiveOps(s) /\ \A y : OpsOf(t, y) = OpsOf(s, y)
  BY Zenon, SameOpsOf
<1> QED
  BY <1>1 DEF Hiding, SameOpsAndQueue

\* A slot of the handle table is written.
LEMMA SlotWritten ==
  ASSUME NEW f \in [Handles -> Resources \cup {None}], NEW h \in Handles, NEW r \in Resources \cup {None}
  PROVE  [f EXCEPT ![h] = r] \in [Handles -> Resources \cup {None}]
  OBVIOUS

\* t is s where the live handle h has the record r.
Rewritten(s, h, r, t) ==
    /\ Shaped(t) /\ Live(t) = Live(s)
    /\ t.handles[h] = r /\ \A x \in Live(s) \ {h} : t.handles[x] = s.handles[x]

\* Writing one slot of the handle table changes that handle only.
LEMMA Rewrite ==
  ASSUME NEW s, Shaped(s), NEW h \in Live(s), NEW r \in Resources,
         NEW t, IsDriver(t), t.handles = [s.handles EXCEPT ![h] = r], SameOpsAndQueue(s, t)
  PROVE  Rewritten(s, h, r, t)
<1>1. h \in Handles /\ r \in Resources \cup {None} /\ s.handles \in [Handles -> Resources \cup {None}]
  BY DEF Live, Shaped
<1>2. t.handles \in [Handles -> Resources \cup {None}]
  BY Zenon, <1>1, SlotWritten
<1>3. t.handles[h] = r /\ \A x \in Handles \ {h} : t.handles[x] = s.handles[x]
  BY <1>1
<1>4. r # None /\ s.handles[h] # None
  BY VacantAssumption DEF Live, Free
<1>5. Live(t) = Live(s)
  BY <1>1, <1>3, <1>4 DEF Live, Free
<1>6. LiveOps(t) = LiveOps(s)
  BY Zenon, SameOpsOf
<1>7. t.ops = s.ops /\ t.deadlines = s.deadlines
  BY DEF SameOpsAndQueue
<1>8. Shaped(t)
  BY <1>2, <1>6, <1>7 DEF Shaped
<1>9. \A x \in Live(s) \ {h} : t.handles[x] = s.handles[x]
  BY <1>3 DEF Live
<1> QED
  BY Zenon, <1>3, <1>5, <1>8, <1>9 DEF Rewritten

\* A handle may go when it has no operation and no completion names it.
Forgotten(s, h) ==
    /\ OpsOf(s, h) = {} /\ \A i \in DOMAIN s.queued : s.queued[i].handle # h
    /\ s.handles[h].kind # "Timer" \/ s.handles[h].closing

\* Removing a handle that nothing names any more keeps the books: its reference
\* goes with it.
LEMMA LosesLedger ==
  ASSUME Counting, NEW s, Shaped(s), Sums(s), Clocks(s), NEW h \in Live(s), HiddenBut(s, {h}), Forgotten(s, h),
         NEW t, Loses(s, t, h), IsDriver(t)
  PROVE  Shaped(t) /\ Ledger(t) /\ Live(t) = Live(s) \ {h}
<1>1. Live(t) = Live(s) \ {h}
  BY DEF Live, Free, Loses, Shaped
<1>2. \A x \in Live(t) : t.handles[x] = s.handles[x]
  BY <1>1 DEF Loses, Live, Shaped
<1>3. SameOpsAndQueue(s, t) /\ LiveOps(t) = LiveOps(s) /\ \A x : OpsOf(t, x) = OpsOf(s, x)
  BY SameOpsOf DEF Loses
<1>4. Tallies(s) /\ Lines(s) /\ Owed(s) /\ Weights(s)
  BY DEF Sums
<1>5. \A o \in LiveOps(s) : s.ops[o].handle # h
  BY DEF OpsOf, Forgotten
<1>6. Shaped(t)
  <2>1. s.handles \in [Handles -> Resources \cup {None}] /\ t.handles = [s.handles EXCEPT ![h] = None]
    BY DEF Shaped, Loses
  <2>2. t.handles \in [Handles -> Resources \cup {None}]
    BY Zenon, <2>1, SlotWritten DEF Live
  <2> QED
    BY <1>3, <2>2 DEF Shaped, SameOpsAndQueue
<1>7. Tallies(t) /\ Lines(t) /\ Owed(t)
  <2>1. SamePending(s, t)
    BY <1>1, <1>2 DEF SamePending, Forgotten
  <2>2. KeepsNamed(s, t)
    BY <1>1, <1>2, <1>3 DEF KeepsNamed, Parted, Forgotten
  <2> QED
    BY Zenon, <1>3, <1>4, <2>1, <2>2, HandlesKeep
<1>8. Weights(t)
  <2>1. Weighing(t) = Weighing(s)
    <3>1. \A o \in LiveOps(s) : t.ops[o] = s.ops[o] /\ s.ops[o].handle \in (Live(s) \ {h}) \cup {None}
      BY <1>3, <1>4, <1>5 DEF SameOpsAndQueue, Tallies
    <3>2. \A x \in (Live(s) \ {h}) \cup {None} : Referenced(t, x) <=> Referenced(s, x)
      BY <1>1, <1>2 DEF Referenced, Present, Live
    <3> QED
      BY <1>3, <3>1, <3>2 DEF Weighing
  <2>2. Weighty(t) = Weighty(s) \ {h} /\ (h \in Weighty(s) <=> s.handles[h].referenced)
    BY <1>1, <1>2 DEF Weighty, Forgotten
  <2>3. Numbers(s)
    BY <1>4, NumbersHold DEF Lines
  <2>4. IsFiniteSet(Weighty(s))
    BY <2>3 DEF Numbers
  <2>5. Cardinality(Weighty(t)) = Cardinality(Weighty(s)) - One(h \in Weighty(s))
    BY Zenon, <2>2, <2>4, CountLess
  <2>6. Carried(t)
    <3>1. \A i \in DOMAIN s.queued : s.queued[i].handle # None => s.queued[i].handle \in Live(t)
      BY <1>1, <1>4 DEF Lines, Named, Forgotten
    <3> QED
      BY SMTT(60), <1>2, <1>3, <1>4, <3>1 DEF Carried, Weights, SameOpsAndQueue
  <2>7. Refs(t)
    <3>1. s.refs = Cardinality(Weighty(s)) + Cardinality(Weighing(s)) + Cardinality(At(s.queued, Counted))
          /\ t.refs = s.refs - One(s.handles[h].referenced) /\ t.queued = s.queued
      BY <1>3, <1>4 DEF Weights, Refs, Loses, SameOpsAndQueue
    <3>2. /\ Cardinality(Weighty(s)) \in Nat /\ Cardinality(Weighing(s)) \in Nat
          /\ Cardinality(At(s.queued, Counted)) \in Nat
      BY <2>3 DEF Numbers
    <3>3. One(s.handles[h].referenced) = One(h \in Weighty(s)) /\ One(h \in Weighty(s)) \in {0, 1}
      BY <2>2 DEF One
    <3> QED
      BY <2>1, <2>5, <3>1, <3>2, <3>3 DEF Refs
  <2> QED
    BY <2>6, <2>7 DEF Weights
<1>9. Clocks(t)
  <2>1. SameClocks(s, t)
    <3>1. t.timers = s.timers /\ \A x \in s.timers : x \in Live(t)
      BY <1>1 DEF Loses, Clocks, ClocksBut, Armed, Forgotten
    <3> QED
      BY <1>1, <1>2, <1>5, <3>1 DEF SameClocks
  <2> QED
    BY Zenon, <1>3, <2>1, ClocksKept
<1>10. HiddenBut(t, {})
  BY <1>1, <1>2, <1>3, HidingKept DEF HiddenBut
<1> QED
  BY <1>1, <1>6, <1>7, <1>8, <1>9, <1>10 DEF Ledger, Sums

---------------------------------------------------------------------------
\* Completions are queued

\* t's queue is that of s and e.
Grown(s, e, t) ==
    /\ Cardinality(At(t.queued, Results)) = Cardinality(At(s.queued, Results)) + One(e \in Results)
    /\ Cardinality(At(t.queued, Counted)) = Cardinality(At(s.queued, Counted)) + One(e \in Counted)
    /\ \A i \in DOMAIN t.queued : t.queued[i] = e \/ (i \in DOMAIN s.queued /\ t.queued[i] = s.queued[i])

\* One completion more in the queue is one more result, and one more reference
\* if it is referenced.
LEMMA QueuedMore ==
  ASSUME Counting, NEW s, s.queued \in Seq(Completions), NEW e \in Completions,
         NEW t, t.queued = Append(s.queued, e)
  PROVE  Grown(s, e, t)
<1>1. /\ Cardinality(At(t.queued, Results)) = Cardinality(At(s.queued, Results)) + One(e \in Results)
      /\ Cardinality(At(t.queued, Counted)) = Cardinality(At(s.queued, Counted)) + One(e \in Counted)
  BY Zenon, AtAppend
<1>2. \A i \in DOMAIN t.queued : t.queued[i] = e \/ (i \in DOMAIN s.queued /\ t.queued[i] = s.queued[i])
  OBVIOUS
<1> QED
  BY Zenon, <1>1, <1>2 DEF Grown

\* enqueue() of what is no result: an event, or Closed.
Quiet(s, e) ==
    /\ e \notin Results /\ ~e.referenced
    /\ e.handle \in Live(s) => ~s.handles[e.handle].hidden

\* References and operations owed stay exact when a completion that stands for
\* neither is queued.
LEMMA QuietWeights ==
  ASSUME Counting, NEW s, Lines(s), Weights(s), Owed(s), NEW e \in Completions, Quiet(s, e),
         NEW t, Queues(s, e, t), Grown(s, e, t), SameTables(s, t)
  PROVE  Weights(t) /\ Owed(t)
<1>1. Numbers(s)
  BY NumbersHold DEF Lines
<1>2. Weighty(t) = Weighty(s) /\ Weighing(t) = Weighing(s)
  BY DEF SameTables, Weighty, Weighing, Referenced, Present
<1>3. Carried(t)
  <2>1. Carried(s) /\ t.handles = s.handles
    BY DEF Weights, SameTables
  <2>2. ~(e.terminal /\ e.op)
    BY DEF Quiet, Results
  <2> QED
    BY <2>1, <2>2 DEF Carried, Grown
<1>4. One(e \in Results) = 0 /\ One(e \in Counted) = 0 /\ One(e.referenced) = 0
  BY DEF Quiet, Counted, One
<1>5. /\ Cardinality(At(t.queued, Results)) = Cardinality(At(s.queued, Results))
      /\ Cardinality(At(t.queued, Counted)) = Cardinality(At(s.queued, Counted))
  BY <1>1, <1>4 DEF Grown, Numbers
<1>6. s.refs \in Int /\ t.refs = s.refs + One(e.referenced)
  BY SMTT(60), <1>1 DEF Weights, Refs, Numbers, Queues
<1>7. t.refs = s.refs /\ t.outstanding = s.outstanding /\ LiveOps(t) = LiveOps(s)
  BY <1>4, <1>6 DEF Queues, SameTables
<1> QED
  BY <1>2, <1>3, <1>5, <1>7 DEF Weights, Refs, Owed

\* enqueue() leaves the native, pool and pending counts exact.
LEMMA QueuesTallies ==
  ASSUME Counting, NEW s, Tallies(s), NEW e, NEW t, Queues(s, e, t), SameTables(s, t)
  PROVE  Tallies(t)
<1>1. SameTallies(s, t) /\ SamePending(s, t)
  BY DEF SameTallies, SamePending, Queues, SameTables
<1> QED
  BY Zenon, <1>1, TalliesKept

\* Neither table changes, nor a clock.
LEMMA QueuesClocks ==
  ASSUME NEW s, NEW x, ClocksBut(s, x), NEW e, NEW t, Queues(s, e, t), SameTables(s, t)
  PROVE  ClocksBut(t, x)
<1>1. /\ t.ops = s.ops /\ t.timers = s.timers /\ t.deadlines = s.deadlines /\ t.handles = s.handles
      /\ LiveOps(t) = LiveOps(s) /\ Live(t) = Live(s) /\ \A y : OpsOf(t, y) = OpsOf(s, y)
  BY DEF Queues, SameTables
<1>2. ASSUME NEW o \in LiveOps(t) \ {x} PROVE TimerOp(t, o)
  BY <1>1 DEF ClocksBut, TimerOp
<1>3. ASSUME NEW h \in t.timers PROVE Armed(t, h, x)
  BY <1>1 DEF ClocksBut, Armed
<1> QED
  BY <1>2, <1>3 DEF ClocksBut

\* enqueue() of a buffered event or of a Closed keeps the books.
LEMMA QuietLedger ==
  ASSUME Counting, NEW s, Shaped(s), Ledger(s), NEW e, MayFollow(s, e), Quiet(s, e), NEW t, t = Enqueue(s, e)
  PROVE  Shaped(t) /\ Ledger(t) /\ SameTables(s, t) /\ Queues(s, e, t)
<1>1. /\ IsDriver(s) /\ e \in Completions /\ Tallies(s) /\ Lines(s) /\ Owed(s) /\ Weights(s)
      /\ ClocksBut(s, None) /\ HiddenBut(s, {}) /\ s.queued \in Seq(Completions)
  BY DEF Shaped, MayFollow, Ledger, Sums, Lines, Clocks
<1>2. Shaped(t) /\ SameTables(s, t)
  BY Zenon, EnqueueShape
<1>3. Queues(s, e, t)
  BY Zenon, <1>1, EnqueueQueues
<1>4. Grown(s, e, t)
  BY Zenon, <1>1, <1>3, QueuedMore DEF Queues
<1>5. Tallies(t)
  BY Zenon, <1>1, <1>2, <1>3, QueuesTallies
<1>6. Lines(t)
  BY Zenon, <1>1, <1>3, QueuesLines
<1>7. Weights(t) /\ Owed(t)
  BY Zenon, <1>1, <1>2, <1>3, <1>4, QuietWeights
<1>8. Clocks(t)
  BY Zenon, <1>1, <1>2, <1>3, QueuesClocks DEF Clocks
<1>9. HiddenBut(t, {})
  <2> SUFFICES ASSUME NEW x \in Live(t), t.handles[x].hidden PROVE Hiding(t, x)
    BY DEF HiddenBut
  <2>1. /\ t.ops = s.ops /\ t.handles = s.handles /\ LiveOps(t) = LiveOps(s)
        /\ x \in Live(s) /\ \A y : OpsOf(t, y) = OpsOf(s, y)
    BY <1>2 DEF SameTables
  <2>2. Hiding(s, x) /\ e.handle # x
    BY <1>1, <2>1 DEF HiddenBut, Quiet
  <2>3. \A i \in DOMAIN t.queued : t.queued[i].handle # x
    BY <1>4, <2>2 DEF Grown, Hiding
  <2> QED
    BY <2>1, <2>2, <2>3 DEF Hiding
<1> QED
  BY <1>2, <1>3, <1>5, <1>6, <1>7, <1>8, <1>9 DEF Ledger, Sums

\* An event of an operation that goes on, or a post.
LEMMA EventLedger ==
  ASSUME Counting, NEW s, Shaped(s), Ledger(s), NEW e \in Completions, Event(e), ~e.referenced,
         e.handle # None => /\ e.handle \in Live(s) /\ OpsOf(s, e.handle) # {}
                            /\ ~s.handles[e.handle].hidden,
         NEW t, t = Enqueue(s, e)
  PROVE  Shaped(t) /\ Ledger(t) /\ SameTables(s, t) /\ Queues(s, e, t)
<1>1. \A i \in DOMAIN s.queued : s.queued[i].closed => s.queued[i].handle # e.handle
  <2> SUFFICES ASSUME NEW i \in DOMAIN s.queued, s.queued[i].closed PROVE s.queued[i].handle # e.handle
    OBVIOUS
  <2>1. Proper(s.queued[i]) /\ Parted(s, s.queued[i].handle)
    BY DEF Ledger, Sums, Lines, Named
  <2>2. s.queued[i].handle # None /\ OpsOf(s, s.queued[i].handle) = {}
    BY <2>1 DEF Proper, Event, Result, Goodbye, Parted
  <2> QED
    BY <2>2
<1>2. MayFollow(s, e)
  BY <1>1 DEF MayFollow, Proper, Event
<1>3. Quiet(s, e)
  BY NoneAssumption DEF Quiet, Event, Results, Live
<1> QED
  BY Zenon, <1>2, <1>3, QuietLedger

---------------------------------------------------------------------------
\* Promises, charges and cancellations

\* The operations of X, no timers, are being cancelled in t, and have no deadline.
CancelsIn(s, X, t) ==
    /\ t.ops = [o \in Ops |-> IF o \in X THEN [s.ops[o] EXCEPT !.cancel = TRUE] ELSE s.ops[o]]
    /\ t.deadlines = s.deadlines \ X

\* Marking operations as cancelled and dropping their deadlines keeps the
\* books.
LEMMA CancelsLedger ==
  ASSUME Counting, NEW s, Shaped(s), Ledger(s), NEW X \in SUBSET LiveOps(s), \A o \in X : ~IsTimer(s.ops[o].kind),
         NEW t, IsDriver(t), CancelsIn(s, X, t), SameRest(s, t), SameCounts(s, t)
  PROVE  Shaped(t) /\ Ledger(t) /\ SameKinds(s, t)
<1>1. ASSUME NEW o \in LiveOps(s)
      PROVE  /\ t.ops[o] \in Operations
             /\ t.ops[o].kind = s.ops[o].kind /\ t.ops[o].handle = s.ops[o].handle
             /\ t.ops[o].native = s.ops[o].native /\ t.ops[o].port = s.ops[o].port
             /\ o \notin X => t.ops[o].cancel = s.ops[o].cancel
  <2> DEFINE q == [s.ops[o] EXCEPT !.cancel = TRUE]
  <2>1. o \in Ops /\ s.ops[o] \in Operations
    BY OpShape
  <2>2. /\ q \in Operations /\ q.kind = s.ops[o].kind /\ q.handle = s.ops[o].handle
        /\ q.native = s.ops[o].native /\ q.port = s.ops[o].port
    BY Zenon, <2>1 DEF Operations
  <2>3. t.ops[o] = IF o \in X THEN q ELSE s.ops[o]
    BY Zenon, <2>1 DEF CancelsIn
  <2> HIDE DEF q
  <2> QED
    BY <2>1, <2>2, <2>3
<1>2. \A o \in Ops \ LiveOps(s) : t.ops[o] = s.ops[o] /\ s.ops[o] = None
  BY DEF CancelsIn, LiveOps, Free
<1>3. LiveOps(t) = LiveOps(s)
  BY <1>1, <1>2, VacantAssumption DEF LiveOps, Free
<1>4. t.ops \in [Ops -> Operations \cup {None}]
  <2>1. \A o \in Ops : t.ops[o] \in Operations \cup {None}
    BY <1>1, <1>2
  <2>2. t.ops = [o \in Ops |-> t.ops[o]]
    BY DEF CancelsIn
  <2> QED
    BY Zenon, <2>1, <2>2
<1>5. Shaped(t)
  BY <1>3, <1>4 DEF Shaped, SameRest, CancelsIn
<1>6. \A x \in t.deadlines : x \in LiveOps(s) /\ x \notin X /\ ~s.ops[x].cancel /\ ~IsTimer(s.ops[x].kind)
  BY NoneAssumption DEF Shaped, Ledger, Clocks, ClocksBut, TimerOp, LiveOps, CancelsIn
<1>7. Parallel(s, t)
  BY <1>1, <1>3, <1>6 DEF Parallel, SameRest
<1>8. SameTallies(s, t)
  BY <1>1, <1>3 DEF SameTallies, SameCounts
<1>9. Ledger(t)
  BY Zenon, <1>7, <1>8, ParallelLedger
<1> QED
  BY <1>1, <1>3, <1>5, <1>9 DEF SameKinds

---------------------------------------------------------------------------
\* Timers

\* t is s with other timers armed.
Rearmed(s, t) == SameOpsAndQueue(s, t) /\ t.handles = s.handles /\ t.refs = s.refs

\* Arming and disarming timers changes none of the counts.
LEMMA RearmedKeeps ==
  ASSUME Counting, NEW s, Shaped(s), Sums(s), NEW t, IsDriver(t), Rearmed(s, t)
  PROVE  Shaped(t) /\ Sums(t) /\ SameTables(s, t) /\ \A X : HiddenBut(s, X) => HiddenBut(t, X)
<1>1. LiveOps(t) = LiveOps(s) /\ \A x : OpsOf(t, x) = OpsOf(s, x)
  BY Zenon, SameOpsOf DEF Rearmed
<1>2. Live(t) = Live(s) /\ t.handles = s.handles /\ t.ops = s.ops
  BY Zenon DEF Rearmed, Live, SameOpsAndQueue
<1>3. Shaped(t) /\ SameTables(s, t)
  BY Zenon, <1>1, <1>2 DEF Shaped, SameTables, Rearmed, SameOpsAndQueue
<1>4. SamePending(s, t) /\ KeepsNamed(s, t)
  BY <1>1, <1>2 DEF SamePending, KeepsNamed, Parted
<1>5. Tallies(t) /\ Lines(t) /\ Owed(t)
  BY Zenon, <1>4, HandlesKeep DEF Sums, Rearmed
<1>6. SameFlags(s, t)
  BY Zenon, <1>2 DEF SameFlags, Alike
<1>7. Weights(t)
  <2>1. Weighty(t) = Weighty(s) /\ Weighing(t) = Weighing(s)
    BY <1>1, <1>2 DEF Weighty, Weighing, Referenced, Present
  <2>2. Refs(t)
    BY Zenon, <2>1 DEF Sums, Weights, Refs, Rearmed, SameOpsAndQueue
  <2>3. Carried(t)
    BY ZenonT(60), <1>2 DEF Sums, Weights, Carried, Rearmed, SameOpsAndQueue
  <2> QED
    BY <2>2, <2>3 DEF Weights
<1>8. ASSUME NEW X, HiddenBut(s, X)
      PROVE  HiddenBut(t, X)
  <2>1. ASSUME NEW h \in Live(s), Hiding(s, h)
        PROVE  Hiding(t, h)
    BY Zenon, <2>1, <1>2, HidingKept DEF Rearmed
  <2> QED
    BY Zenon, <1>2, <1>8, <2>1 DEF HiddenBut
<1> QED
  BY Zenon, <1>3, <1>5, <1>7, <1>8 DEF Sums

---------------------------------------------------------------------------
\* Cancellation

\* The operations that no timer ends depend on their kinds only.
LEMMA OthersSame ==
  ASSUME NEW s, NEW t, SameKinds(s, t)
  PROVE  Others(t) = Others(s)
  BY Zenon DEF Others, SameKinds

\* Anything but timers is flagged, some or all operations of a handle at once.
LEMMA FlagLedger ==
  ASSUME Counting, NEW s, Shaped(s), Ledger(s), NEW X \in SUBSET LiveOps(s), \A o \in X : ~IsTimer(s.ops[o].kind),
         NEW t, t = [s EXCEPT !.ops = [o \in Ops |-> IF o \in X THEN [@[o] EXCEPT !.cancel = TRUE] ELSE @[o]],
                              !.deadlines = @ \ X]
  PROVE  Shaped(t) /\ Ledger(t) /\ SameOthers(s, t) /\ t.queued = s.queued
<1>1. IsDriver(s)
  BY DEF Shaped
<1>2. IsDriver(t)
  BY Zenon, <1>1 DEF IsDriver, Fields
<1>3. SameRest(s, t) /\ SameCounts(s, t) /\ CancelsIn(s, X, t)
  BY Zenon, <1>1 DEF IsDriver, Fields, SameRest, SameCounts, CancelsIn
<1>4. Shaped(t) /\ Ledger(t) /\ SameKinds(s, t)
  BY Zenon, <1>2, <1>3, CancelsLedger
<1>5. Live(t) = Live(s) /\ t.queued = s.queued
  BY Zenon, <1>3 DEF SameRest, Live
<1> QED
  BY Zenon, <1>4, <1>5, OthersSame DEF SameOthers

\* The loop over the operations of a socket or a file.
LEMMA CancelAllFlags ==
  ASSUME Counting, NEW s, Shaped(s), Ledger(s), NEW h \in Live(s), s.handles[h].kind # "Timer", NEW kept,
         NEW t, t = CancelAll(s, h, kept)
  PROVE  Shaped(t) /\ Ledger(t) /\ SameOthers(s, t) /\ t.queued = s.queued
<1> DEFINE X == OpsOf(s, h) \ kept
<1>1. X \in SUBSET LiveOps(s)
  BY DEF OpsOf
<1>2. ASSUME NEW o \in X
      PROVE  ~IsTimer(s.ops[o].kind)
  BY <1>2, NoneAssumption DEF Ledger, Clocks, ClocksBut, TimerOp, OpsOf, LiveOps
<1>3. t = [s EXCEPT !.ops = [o \in Ops |-> IF o \in X THEN [@[o] EXCEPT !.cancel = TRUE] ELSE @[o]],
                    !.deadlines = @ \ X]
  BY Zenon DEF CancelAll
<1> HIDE DEF X
<1> QED
  BY Zenon, <1>1, <1>2, <1>3, FlagLedger

---------------------------------------------------------------------------
\* close and detach

\* The operations that no timer ends are the same in the same table.
LEMMA SameOpsOthers ==
  ASSUME NEW s, NEW t, t.ops = s.ops, Live(t) = Live(s)
  PROVE  SameOthers(s, t)
  BY Zenon DEF SameOthers, Others, LiveOps

\* Removing a handle takes it out of the table and off refs.
LEMMA RemoveLoses ==
  ASSUME NEW s, IsDriver(s), NEW h, NEW t, t = RemoveHandle(s, h)
  PROVE  IsDriver(t) /\ Loses(s, t, h)
<1>1. IsDriver(t)
  BY Zenon DEF RemoveHandle, IsDriver, Fields
<1>2. Loses(s, t, h)
  BY Zenon DEF RemoveHandle, IsDriver, Fields, Loses, SameOpsAndQueue, Free
<1> QED
  BY <1>1, <1>2

===============================================================================
