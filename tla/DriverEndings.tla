----------------------------- MODULE DriverEndings ----------------------------
(***************************************************************************)
(* The methods of Driver that let something go keep the ledger: an         *)
(* operation that completes, is cancelled or expires, a handle that closes *)
(* or is detached, a completion that is drained.                           *)
(***************************************************************************)
EXTENDS DriverLedger

\* drain() takes the first place away.
LEMMA AtTail ==
  ASSUME Counting, NEW q \in Seq(Completions), q # << >>, NEW M
  PROVE  Cardinality(At(Tail(q), M)) = Cardinality(At(q, M)) - One(Head(q) \in M)
<1> DEFINE u == Tail(q)
           f == [i \in At(u, M) |-> i + 1]
           T == At(q, M) \ {1}
           g == [i \in T |-> i - 1]
<1>1. /\ u \in Seq(Completions) /\ DOMAIN u = 1 .. Len(q) - 1 /\ DOMAIN q = 1 .. Len(q)
      /\ Len(q) \in Nat /\ Len(q) >= 1 /\ Head(q) = q[1]
      /\ \A i \in 1 .. Len(q) - 1 : u[i] = q[i + 1]
  OBVIOUS
<1> HIDE DEF u
<1>2. /\ IsFiniteSet(At(u, M)) /\ Cardinality(At(u, M)) \in Nat
      /\ IsFiniteSet(At(q, M)) /\ Cardinality(At(q, M)) \in Nat
  BY Zenon, <1>1, AtFinite
<1>3. IsFiniteSet(T) /\ Cardinality(T) = IF 1 \in At(q, M) THEN Cardinality(At(q, M)) - 1 ELSE Cardinality(At(q, M))
  <2>1. CASE 1 \in At(q, M)
    BY Zenon, <1>2, <2>1 DEF Counting
  <2>2. CASE 1 \notin At(q, M)
    <3>1. T = At(q, M)
      BY <2>2
    <3> QED
      BY Zenon, <1>2, <2>2, <3>1
  <2> QED
    BY <2>1, <2>2
<1>4. OneToOne(f, At(u, M), T)
  <2>1. \A i \in At(u, M) : i \in 1 .. Len(q) - 1 /\ q[i + 1] \in M
    BY <1>1 DEF At
  <2>2. f \in [At(u, M) -> T]
    BY <1>1, <2>1 DEF At
  <2>3. \A x, y \in At(u, M) : f[x] = f[y] => x = y
    BY <1>1, <2>1
  <2> QED
    BY Zenon, <2>2, <2>3 DEF OneToOne
<1>5. OneToOne(g, T, At(u, M))
  <2>1. \A j \in T : j - 1 \in 1 .. Len(q) - 1 /\ u[j - 1] = q[j] /\ q[j] \in M
    BY <1>1 DEF At
  <2>2. g \in [T -> At(u, M)]
    BY <1>1, <2>1 DEF At
  <2>3. \A x, y \in T : g[x] = g[y] => x = y
    <3>1. \A x \in T : x \in Int /\ g[x] = x - 1
      BY <1>1 DEF At
    <3> HIDE DEF g, T
    <3> QED
      BY <3>1
  <2> QED
    BY Zenon, <2>2, <2>3 DEF OneToOne
<1> HIDE DEF f, g, T
<1>7. Cardinality(T) <= Cardinality(At(u, M)) /\ Cardinality(At(u, M)) <= Cardinality(T) /\ Cardinality(T) \in Nat
  BY Zenon, <1>2, <1>3, <1>4, <1>5 DEF Counting
<1>6. 1 \in At(q, M) <=> Head(q) \in M
  BY <1>1 DEF At
<1> QED
  BY <1>2, <1>3, <1>6, <1>7 DEF One, u

---------------------------------------------------------------------------
\* The methods, slot by slot

\* t has every operation of s but o, which its handle no longer counts.
OpDropped(s, o, t) ==
    /\ LiveOps(t) = LiveOps(s) \ {o}
    /\ \A x \in LiveOps(t) : t.ops[x] = s.ops[x]
    /\ Pended(s, s.ops[o].handle, -1, t)
    /\ \A x : OpsOf(t, x) = OpsOf(s, x) \ {o}

\* retire() takes an operation away.
LEMMA RetireShape ==
  ASSUME NEW s, Shaped(s), NEW o \in LiveOps(s), NEW t, t = Retire(s, o)
  PROVE  Shaped(t) /\ OpDropped(s, o, t)
<1> DEFINE h == s.ops[o].handle
<1>1. IsDriver(s) /\ h \in Handles \cup {None} /\ -1 \in Int /\ o \in Ops
  BY OpShape DEF Shaped
<1>2. IsDriver(t) /\ t.ops = [s.ops EXCEPT ![o] = None] /\ t.handles = Pend(s, h, -1)
      /\ t.deadlines = s.deadlines \ {o}
  BY Zenon, <1>1 DEF Retire, IsDriver, Fields, Free
<1>3. t.ops \in [Ops -> Operations \cup {None}] /\ t.ops[o] = None /\ \A x \in Ops \ {o} : t.ops[x] = s.ops[x]
  BY <1>1, <1>2 DEF Shaped
<1>4. LiveOps(t) = LiveOps(s) \ {o} /\ \A x \in LiveOps(t) : t.ops[x] = s.ops[x]
  BY <1>3 DEF LiveOps, Free
<1> HIDE DEF h
<1>5. Pended(s, h, -1, t)
  BY Zenon, <1>1, <1>2, PendFields
<1>6. \A x : OpsOf(t, x) = OpsOf(s, x) \ {o}
  BY <1>4 DEF OpsOf
<1>7. Shaped(t)
  BY <1>2, <1>3, <1>4, <1>5 DEF Shaped, Pended
<1> QED
  BY <1>4, <1>5, <1>6, <1>7 DEF h, OpDropped

---------------------------------------------------------------------------
\* Counters of the operations

\* retire() is counted out once.
LEMMA RetireTallies ==
  ASSUME Counting, NEW s, Shaped(s), Tallies(s), NEW o \in LiveOps(s), NEW t, t = Retire(s, o)
  PROVE  Tallies(t)
<1> DEFINE op == s.ops[o]
           h == s.ops[o].handle
<1>1. IsDriver(s)
  BY DEF Shaped
<1>2. /\ t.native_pending = s.native_pending - One(op.native)
      /\ t.undelivered = s.undelivered - One(op.port)
  BY Zenon, <1>1 DEF Retire, IsDriver, Fields
<1>3. OpDropped(s, o, t)
  BY Zenon, RetireShape
<1>4. LiveOps(t) = LiveOps(s) \ {o} /\ Live(t) = Live(s) /\ \A x \in LiveOps(t) : t.ops[x] = s.ops[x]
  BY <1>3 DEF OpDropped, Pended
<1>5. t.native_pending = Cardinality(Natives(t))
  <2>1. Natives(t) = Natives(s) \ {o} /\ (o \in Natives(s) <=> op.native)
    BY <1>4 DEF Natives
  <2>2. IsFiniteSet(Natives(s)) /\ Cardinality(Natives(s)) \in Nat
    BY OpsFinite DEF Natives, LiveOps
  <2>3. Cardinality(Natives(t)) = Cardinality(Natives(s)) - One(o \in Natives(s))
    BY Zenon, <2>1, <2>2, CountLess
  <2> QED
    BY <1>2, <2>1, <2>2, <2>3 DEF Tallies, One
<1>6. t.undelivered = Cardinality(Ports(t))
  <2>1. Ports(t) = Ports(s) \ {o} /\ (o \in Ports(s) <=> op.port)
    BY <1>4 DEF Ports
  <2>2. IsFiniteSet(Ports(s)) /\ Cardinality(Ports(s)) \in Nat
    BY OpsFinite DEF Ports, LiveOps
  <2>3. Cardinality(Ports(t)) = Cardinality(Ports(s)) - One(o \in Ports(s))
    BY Zenon, <2>1, <2>2, CountLess
  <2> QED
    BY <1>2, <2>1, <2>2, <2>3 DEF Tallies, One
<1>7. \A x \in LiveOps(t) : t.ops[x].handle # None => t.ops[x].handle \in Live(t)
  BY <1>4 DEF Tallies
<1>8. ASSUME NEW x \in Live(t) PROVE t.handles[x].pending = Cardinality(OpsOf(t, x))
  <2>1. OpsOf(t, x) = OpsOf(s, x) \ {o} /\ (o \in OpsOf(s, x) <=> x = h)
    BY <1>3 DEF OpDropped, OpsOf
  <2>2. IsFiniteSet(OpsOf(s, x)) /\ Cardinality(OpsOf(s, x)) \in Nat
    BY OpsFinite DEF OpsOf, LiveOps
  <2>3. Cardinality(OpsOf(t, x)) = Cardinality(OpsOf(s, x)) - One(o \in OpsOf(s, x))
    BY Zenon, <2>1, <2>2, CountLess
  <2>4. s.handles[x].pending = Cardinality(OpsOf(s, x))
        /\ t.handles[x].pending = s.handles[x].pending + (IF x = h THEN -1 ELSE 0)
    BY <1>3, <1>4 DEF Tallies, OpDropped, Pended
  <2> QED
    BY <2>1, <2>2, <2>3, <2>4 DEF One
<1> QED
  BY <1>5, <1>6, <1>7, <1>8 DEF Tallies

---------------------------------------------------------------------------
\* Completions: what buffered counts, and which handles they name

\* ... and with the oldest one less.
LEMMA TailPlaces ==
  ASSUME NEW q \in Seq(Completions), q # << >>, NEW u, u = Tail(q)
  PROVE  /\ u \in Seq(Completions) /\ Len(q) \in Nat /\ Len(q) >= 1 /\ DOMAIN q = 1 .. Len(q)
         /\ DOMAIN u = 1 .. Len(q) - 1 /\ Head(q) = q[1] /\ Head(q) \in Completions
         /\ \A i \in 1 .. Len(q) - 1 : u[i] = q[i + 1]
  OBVIOUS

\* The counts of buffered events stay exact when the first completion is
\* popped.
LEMMA BufferedLess ==
  ASSUME Counting, NEW s, s.queued \in Seq(Completions), s.queued # << >>, Buffers(s), NEW t,
         t.queued = Tail(s.queued), t.buffered = Buffer(s, Head(s.queued).class, -1)
  PROVE  Buffers(t)
<1> DEFINE e == Head(s.queued)
<1>1. e \in Completions
  OBVIOUS
<1> HIDE DEF e
<1>2. s.buffered \in [Classes -> Int] /\ e.class \in Classes \cup {"NONE"} /\ "NONE" \notin Classes
      /\ t.buffered = Buffer(s, e.class, -1)
  BY <1>1 DEF Buffers, Completions, Classes, e
<1>3. t.buffered \in [Classes -> Int] /\ \A c \in Classes : t.buffered[c] = s.buffered[c] - One(e.class = c)
  <2>1. CASE e.class = "NONE"
    <3>1. t.buffered = s.buffered
      BY <1>2, <2>1 DEF Buffer
    <3>2. \A c \in Classes : One(e.class = c) = 0 /\ s.buffered[c] \in Int
      BY <1>2, <2>1 DEF One
    <3> QED
      BY <1>2, <3>1, <3>2
  <2>2. CASE e.class # "NONE"
    <3>1. e.class \in Classes /\ t.buffered = [s.buffered EXCEPT ![e.class] = @ + (-1)]
      BY <1>2, <2>2 DEF Buffer
    <3> QED
      BY <1>2, <3>1 DEF One
  <2> QED
    BY <2>1, <2>2
<1>4. ASSUME NEW c \in Classes PROVE t.buffered[c] = Cardinality(At(t.queued, OfClass(c)))
  <2>1. Cardinality(At(t.queued, OfClass(c))) = Cardinality(At(s.queued, OfClass(c))) - One(e \in OfClass(c))
    BY AtTail DEF e
  <2>2. e \in OfClass(c) <=> e.class = c
    BY <1>1 DEF OfClass
  <2>3. s.buffered[c] = Cardinality(At(s.queued, OfClass(c)))
    BY DEF Buffers
  <2> QED
    BY <1>3, <2>1, <2>2, <2>3 DEF One
<1> QED
  BY <1>3, <1>4 DEF Buffers

\* drain() takes the oldest completion; if it is Closed, none is left that names
\* the handle.
LEMMA PopLines ==
  ASSUME Counting, NEW s, Lines(s), s.queued # << >>, NEW t, t.queued = Tail(s.queued),
         t.buffered = Buffer(s, Head(s.queued).class, -1), t.handles = s.handles, t.ops = s.ops
  PROVE  /\ Lines(t) /\ Head(s.queued) \in Completions /\ Proper(Head(s.queued))
         /\ Head(s.queued).handle \in Live(s) \cup {None}
         /\ Head(s.queued).closed => Parted(s, Head(s.queued).handle)
         /\ Head(s.queued).closed =>
               \A i \in DOMAIN t.queued : t.queued[i].handle # Head(s.queued).handle
<1> DEFINE q == s.queued
           u == t.queued
           e == Head(s.queued)
<1>1. q \in Seq(Completions) /\ q # << >> /\ u = Tail(q) /\ Buffers(s) /\ Named(s)
  BY DEF Lines
<1>2. Live(t) = Live(s) /\ \A h : Parted(t, h) <=> Parted(s, h)
  BY DEF Live, Parted, OpsOf, LiveOps
<1>3. Buffers(t)
  BY <1>1, BufferedLess
<1>4. /\ u \in Seq(Completions) /\ Len(q) \in Nat /\ Len(q) >= 1 /\ DOMAIN q = 1 .. Len(q)
      /\ DOMAIN u = 1 .. Len(q) - 1 /\ e = q[1] /\ e \in Completions
      /\ \A i \in 1 .. Len(q) - 1 : u[i] = q[i + 1]
  BY <1>1, TailPlaces
<1> HIDE DEF u, q, e
<1>5. /\ \A i \in DOMAIN u : i + 1 \in DOMAIN q /\ u[i] = q[i + 1] /\ i + 1 > 1
      /\ \A i, j \in DOMAIN u : j > i => j + 1 > i + 1
      /\ 1 \in DOMAIN q
  BY <1>4
<1>6. \A i \in DOMAIN q : Proper(q[i]) /\ q[i].handle \in Live(s) \cup {None} /\ (q[i].closed => Parted(s, q[i].handle))
  BY DEF Lines, Named, q
<1>7. \A i, j \in DOMAIN q : q[i].closed /\ j > i => q[j].handle # q[i].handle
  BY <1>1 DEF Named, q
<1>8. \A i \in DOMAIN u :
         Proper(u[i]) /\ u[i].handle \in Live(t) \cup {None} /\ (u[i].closed => Parted(t, u[i].handle))
  BY <1>2, <1>5, <1>6
<1>9. \A i, j \in DOMAIN u : u[i].closed /\ j > i => u[j].handle # u[i].handle
  BY <1>5, <1>7
<1>10. e.closed => \A i \in DOMAIN u : u[i].handle # e.handle
  BY <1>4, <1>5, <1>7
<1>11. Named(t)
  BY <1>8, <1>9 DEF Named, u
<1>12. Lines(t)
  BY <1>3, <1>4, <1>8, <1>11 DEF Lines, u
<1> QED
  BY <1>4, <1>5, <1>6, <1>10, <1>12 DEF u, e

---------------------------------------------------------------------------
\* Completions are queued

\* t is s where h has said Closed.
Marked(s, h, t) ==
    /\ SameOpsAndQueue(s, t) /\ t.timers = s.timers /\ t.refs = s.refs
    /\ Live(t) = Live(s) /\ t.handles[h].closed_queued
    /\ \A x \in Live(s) :
          /\ t.handles[x].kind = s.handles[x].kind /\ t.handles[x].hidden = s.handles[x].hidden
          /\ t.handles[x].referenced = s.handles[x].referenced
          /\ t.handles[x].pending = s.handles[x].pending /\ t.handles[x].closing = s.handles[x].closing
          /\ x # h => t.handles[x] = s.handles[x]

\* Marking that Closed is queued changes this flag of this handle only.
LEMMA MarkShape ==
  ASSUME NEW s, Shaped(s), NEW h \in Live(s), NEW t, t = [s EXCEPT !.handles[h].closed_queued = TRUE]
  PROVE  Shaped(t) /\ Marked(s, h, t)
<1> DEFINE r == [s.handles[h] EXCEPT !.closed_queued = TRUE]
<1>1. /\ IsDriver(s) /\ h \in Handles /\ s.handles[h] \in Resources
      /\ s.handles \in [Handles -> Resources \cup {None}]
  BY DEF Shaped, Live, Free
<1>2. /\ r \in Resources /\ r.kind = s.handles[h].kind /\ r.hidden = s.handles[h].hidden
      /\ r.referenced = s.handles[h].referenced /\ r.pending = s.handles[h].pending
      /\ r.closing = s.handles[h].closing /\ r.closed_queued
  BY Zenon, <1>1 DEF Resources
<1>3. IsDriver(t) /\ t.handles = [s.handles EXCEPT ![h] = r] /\ SameOpsAndQueue(s, t)
      /\ t.timers = s.timers /\ t.refs = s.refs
  BY Zenon, <1>1 DEF IsDriver, Fields, SameOpsAndQueue
<1> HIDE DEF r
<1>4. Rewritten(s, h, r, t)
  BY Zenon, <1>2, <1>3, Rewrite
<1>5. Marked(s, h, t)
  BY <1>2, <1>3, <1>4 DEF Marked, Rewritten
<1> QED
  BY <1>4, <1>5 DEF Rewritten

\* Marking that Closed is queued keeps the books.
LEMMA MarkedLedger ==
  ASSUME Counting, NEW s, Ledger(s), NEW h, NEW t, Marked(s, h, t)
  PROVE  Ledger(t)
<1>1. /\ SameOpsAndQueue(s, t) /\ Tallies(s) /\ Lines(s) /\ Owed(s) /\ Weights(s) /\ Clocks(s)
      /\ HiddenBut(s, {}) /\ Live(t) = Live(s) /\ t.timers = s.timers /\ t.refs = s.refs
  BY DEF Marked, Ledger, Sums
<1>2. LiveOps(t) = LiveOps(s) /\ \A x : OpsOf(t, x) = OpsOf(s, x)
  BY Zenon, <1>1, SameOpsOf
<1>3. SamePending(s, t)
  BY DEF SamePending, Marked
<1>4. KeepsNamed(s, t)
  BY <1>2 DEF KeepsNamed, Parted, Marked
<1>5. Tallies(t) /\ Lines(t) /\ Owed(t)
  BY Zenon, <1>1, <1>3, <1>4, HandlesKeep
<1>6. Weights(t)
  <2>1. Weighty(t) = Weighty(s)
    BY DEF Weighty, Marked
  <2>2. \A x \in Live(s) \cup {None} : Referenced(t, x) <=> Referenced(s, x)
    BY DEF Referenced, Present, Live, Marked
  <2>3. \A o \in LiveOps(s) : t.ops[o] = s.ops[o] /\ s.ops[o].handle \in Live(s) \cup {None}
    BY <1>1 DEF Tallies, SameOpsAndQueue
  <2>4. Weighing(t) = Weighing(s)
    BY <1>2, <2>2, <2>3 DEF Weighing
  <2>5. t.queued = s.queued
    BY <1>1 DEF SameOpsAndQueue
  <2>6. Carried(t)
    BY SMTT(60), <1>1, <2>5 DEF Carried, Weights, Lines, Named, Marked
  <2> QED
    BY <1>1, <2>1, <2>4, <2>5, <2>6 DEF Weights, Refs
<1>7. Clocks(t)
  <2>1. \A x \in s.timers : x \in Live(s)
    BY <1>1 DEF Clocks, ClocksBut, Armed
  <2>2. SameClocks(s, t)
    BY <1>1, <2>1 DEF SameClocks, Marked
  <2> QED
    BY Zenon, <1>1, <2>2, ClocksKept
<1>8. HiddenBut(t, {})
  <2> SUFFICES ASSUME NEW x \in Live(t), t.handles[x].hidden PROVE Hiding(t, x)
    BY DEF HiddenBut
  <2>1. x \in Live(s) /\ Hiding(s, x) /\ t.handles[x].closing = s.handles[x].closing
        /\ t.handles[x].kind = s.handles[x].kind
    BY <1>1 DEF HiddenBut, Marked
  <2> QED
    BY <1>1, <1>2, <2>1 DEF Hiding, SameOpsAndQueue
<1> QED
  BY <1>5, <1>6, <1>7, <1>8 DEF Ledger, Sums

\* maybe_closed(): a closing handle without operations says Closed, once.
LEMMA MaybeClosedLedger ==
  ASSUME Counting, NEW s, Shaped(s), Ledger(s), NEW h \in Handles \cup {None}, NEW t, t = MaybeClosed(s, h)
  PROVE  Shaped(t) /\ Ledger(t) /\ t.ops = s.ops /\ Live(t) = Live(s) /\ t.timers = s.timers
<1> DEFINE u == [s EXCEPT !.handles[h].closed_queued = TRUE]
           e == [Entry(h, FALSE, TRUE, "NONE") EXCEPT !.closed = TRUE]
<1>1. CASE t = s
  BY <1>1
<1>2. CASE t # s
  <2>1. /\ t = Enqueue(u, e) /\ Present(s, h) /\ s.handles[h].pending = 0
        /\ s.handles[h].closing /\ ~s.handles[h].closed_queued
    BY Zenon, <1>2 DEF MaybeClosed
  <2>2. h \in Live(s) /\ h # None
    BY <2>1 DEF Present, Live
  <2>3. /\ e \in Completions /\ Goodbye(e) /\ e.handle = h /\ e.closed /\ ~e.referenced /\ e \notin Results
    <3>1. h \in Handles
      BY <2>2 DEF Live
    <3>2. /\ e.handle = h /\ e.op = FALSE /\ e.terminal = TRUE /\ e.class = "NONE" /\ e.closed = TRUE
          /\ e.referenced = FALSE
      BY Zenon DEF Entry
    <3>3. e \in Completions
      <4>1. Entry(h, FALSE, TRUE, "NONE") \in Completions
        BY <3>1 DEF Completions, Entry
      <4> QED
        BY Zenon, <4>1 DEF Completions
    <3> HIDE DEF e
    <3> QED
      BY <2>2, <3>2, <3>3 DEF Goodbye, Results
  <2>4. Shaped(u) /\ Marked(s, h, u)
    BY Zenon, <2>2, MarkShape
  <2> HIDE DEF u, e
  <2>5. Ledger(u)
    BY Zenon, <2>4, MarkedLedger
  <2>6. OpsOf(s, h) = {}
    <3>1. Cardinality(OpsOf(s, h)) = 0
      BY <2>1, <2>2 DEF Ledger, Sums, Tallies
    <3>2. IsFiniteSet(OpsOf(s, h))
      BY OpsFinite DEF OpsOf, LiveOps
    <3> QED
      BY Zenon, <3>1, <3>2, CountNone
  <2>7. SameOpsAndQueue(s, u) /\ OpsOf(u, h) = {} /\ Live(u) = Live(s)
    BY <2>4, <2>6, SameOpsOf DEF Marked
  <2>8. Parted(u, h)
    BY <2>1, <2>2, <2>4, <2>7 DEF Parted, Marked
  <2>9. \A i \in DOMAIN u.queued : u.queued[i].closed => u.queued[i].handle # h
    BY <2>1, <2>7 DEF SameOpsAndQueue, Ledger, Sums, Lines, Named, Parted
  <2>10. MayFollow(u, e)
    BY <2>2, <2>3, <2>7, <2>8, <2>9 DEF MayFollow, Proper
  <2>11. ~u.handles[h].hidden
    BY <2>2, <2>5, <2>7, <2>8 DEF Ledger, HiddenBut, Hiding, Parted
  <2>12. Quiet(u, e)
    BY <2>3, <2>11 DEF Quiet
  <2>13. Shaped(t) /\ Ledger(t) /\ SameTables(u, t) /\ Queues(u, e, t)
    BY Zenon, <2>1, <2>4, <2>5, <2>10, <2>12, QuietLedger
  <2> QED
    BY <2>4, <2>7, <2>13 DEF SameTables, Queues, SameOpsAndQueue, Marked
<1> QED
  BY <1>1, <1>2

---------------------------------------------------------------------------
\* Operations end

\* t is s without the operation o: what retire() leaves of the counters.
Released(s, o, t) ==
    /\ t.refs = s.refs - One(Referenced(s, s.ops[o].handle)) /\ t.outstanding = s.outstanding
    /\ t.queued = s.queued /\ t.buffered = s.buffered /\ t.timers = s.timers
    /\ t.deadlines = s.deadlines \ {o}

\* retire() gives back what its operation was counted as.
LEMMA RetireReleases ==
  ASSUME NEW s, IsDriver(s), NEW o, NEW t, t = Retire(s, o)
  PROVE  Released(s, o, t)
  BY Zenon DEF Retire, IsDriver, Fields, Released

\* t is s with the result e in the place of the operation o.
Ended(s, o, e, t) ==
    /\ SameFlags(s, t) /\ LiveOps(t) = LiveOps(s) \ {o}
    /\ \A x \in LiveOps(t) : t.ops[x] = s.ops[x]
    /\ \A x : OpsOf(t, x) = OpsOf(s, x) \ {o}
    /\ t.queued = Append(s.queued, e) /\ t.timers = s.timers /\ t.deadlines = s.deadlines \ {o}
    /\ t.outstanding = s.outstanding
    /\ s.refs \in Int => t.refs = s.refs

\* The result of a live operation may be queued: its handle has not said
\* Closed.
LEMMA EndFollows ==
  ASSUME NEW s, Tallies(s), Lines(s), NEW o \in LiveOps(s), NEW e, Ending(s, o, e)
  PROVE  MayFollow(s, e)
<1>1. s.ops[o].handle # None => s.ops[o].handle \in Live(s)
  BY DEF Tallies
<1>2. ASSUME NEW i \in DOMAIN s.queued, s.queued[i].closed PROVE s.queued[i].handle # e.handle
  <2>1. Proper(s.queued[i]) /\ Parted(s, s.queued[i].handle)
    BY <1>2 DEF Lines, Named
  <2>2. s.queued[i].handle # None /\ OpsOf(s, s.queued[i].handle) = {}
    BY <1>2, <2>1 DEF Proper, Event, Result, Goodbye, Parted
  <2>3. o \in OpsOf(s, s.ops[o].handle)
    BY DEF OpsOf
  <2> QED
    BY <2>2, <2>3 DEF Ending
<1>3. ~e.closed
  BY DEF Ending, Result
<1> QED
  BY <1>1, <1>2, <1>3 DEF MayFollow, Ending, Proper

\* Queueing the result of an operation and retiring it keeps tables, tallies
\* and queue exact.
LEMMA EndShape ==
  ASSUME Counting, NEW s, Shaped(s), Tallies(s), Lines(s), NEW o \in LiveOps(s), NEW e, Ending(s, o, e),
         NEW u, u = Enqueue(s, e), NEW t, t = Retire(u, o)
  PROVE  Shaped(t) /\ Tallies(t) /\ Lines(t) /\ Ended(s, o, e, t)
<1>1. IsDriver(s) /\ MayFollow(s, e)
  BY Zenon, EndFollows DEF Shaped
<1>2. Shaped(u) /\ SameTables(s, u)
  BY Zenon, EnqueueShape
<1>3. Queues(s, e, u)
  BY Zenon, <1>1, EnqueueQueues
<1>4. Lines(u)
  BY Zenon, <1>1, <1>3, QueuesLines
<1>5. Tallies(u)
  BY Zenon, <1>2, <1>3, QueuesTallies
<1>6. o \in LiveOps(u) /\ IsDriver(u) /\ u.ops[o] = s.ops[o]
  BY <1>2 DEF SameTables, Shaped
<1>7. Shaped(t) /\ OpDropped(u, o, t)
  BY Zenon, <1>2, <1>6, RetireShape
<1>8. Tallies(t)
  BY Zenon, <1>2, <1>5, <1>6, RetireTallies
<1>9. Released(u, o, t)
  BY Zenon, <1>6, RetireReleases
<1>10. SameFlags(s, t)
  BY <1>2, <1>7 DEF SameTables, OpDropped, Pended, SameFlags
<1>11. Lines(t)
  <2>1. KeepsNamed(u, t)
    BY <1>7 DEF KeepsNamed, Parted, OpDropped, Pended, Alike
  <2>2. t.queued = u.queued /\ t.buffered = u.buffered
    BY <1>9 DEF Released
  <2> QED
    BY Zenon, <1>4, <2>1, <2>2, LinesKept
<1>12. s.refs \in Int => t.refs = s.refs
  <2>1. Referenced(u, s.ops[o].handle) <=> Referenced(s, s.ops[o].handle)
    BY <1>2 DEF SameTables, Referenced, Present
  <2>2. One(Referenced(u, s.ops[o].handle)) = One(e.referenced)
    BY <2>1 DEF Ending, One
  <2>3. u.refs = s.refs + One(e.referenced) /\ t.refs = u.refs - One(e.referenced)
    BY Zenon, <1>3, <1>6, <1>9, <2>2 DEF Queues, Released
  <2>4. One(e.referenced) \in Int
    BY DEF One
  <2> QED
    BY <2>3, <2>4
<1>13. Ended(s, o, e, t)
  BY <1>2, <1>3, <1>7, <1>9, <1>10, <1>12 DEF Ended, SameTables, OpDropped, Queues, Released
<1> QED
  BY <1>7, <1>8, <1>11, <1>13

\* The operation that ends and the result that is queued cancel out in what is
\* owed.
LEMMA EndOwed ==
  ASSUME Counting, NEW s, Lines(s), Owed(s), NEW o \in LiveOps(s), NEW e, Ending(s, o, e),
         NEW t, Ended(s, o, e, t), Grown(s, e, t)
  PROVE  Owed(t)
<1>1. Numbers(s)
  BY NumbersHold DEF Lines
<1>2. One(e \in Results) = 1 /\ One(o \in LiveOps(s)) = 1
  BY DEF Ending, Results, Result, One
<1>3. Cardinality(LiveOps(t)) = Cardinality(LiveOps(s)) - One(o \in LiveOps(s))
  BY Zenon, <1>1, CountLess DEF Numbers, Ended
<1>4. Cardinality(At(t.queued, Results)) = Cardinality(At(s.queued, Results)) + One(e \in Results)
  BY DEF Grown
<1>5. t.outstanding = s.outstanding /\ s.outstanding = Cardinality(LiveOps(s)) + Cardinality(At(s.queued, Results))
  BY DEF Ended, Owed
<1>6. Cardinality(LiveOps(s)) \in Nat /\ Cardinality(At(s.queued, Results)) \in Nat
  BY <1>1 DEF Numbers
<1> QED
  BY <1>2, <1>3, <1>4, <1>5, <1>6 DEF Owed

\* So do their references: the result takes over the reference of its
\* operation.
LEMMA EndWeights ==
  ASSUME Counting, NEW s, Shaped(s), Tallies(s), Lines(s), Weights(s), NEW o \in LiveOps(s), NEW e, Ending(s, o, e),
         NEW t, Ended(s, o, e, t), Grown(s, e, t)
  PROVE  Weights(t)
<1> DEFINE h == s.ops[o].handle
           refd == Referenced(s, h)
<1>1. Numbers(s) /\ SameFlags(s, t)
  BY NumbersHold DEF Lines, Ended
<1>2. Weighty(t) = Weighty(s) /\ \A x \in Handles \cup {None} : Referenced(t, x) <=> Referenced(s, x)
  BY Zenon, <1>1, AlikeWeigh
<1>3. \A x \in LiveOps(s) : s.ops[x].handle \in Handles \cup {None}
  BY OpShape
<1>4. h \in Handles \cup {None} /\ refd \in BOOLEAN /\ (h # None => h \in Live(s))
  BY <1>3, IsReferenced DEF Tallies
<1>5. Weighing(t) = Weighing(s) \ {o} /\ (o \in Weighing(s) <=> refd)
  BY <1>2, <1>3 DEF Weighing, Ended
<1>6. e \in Counted <=> refd
  BY DEF Counted, Ending
<1>7. e.handle # None => e.handle = h /\ h \in Live(s) /\ e.referenced = s.handles[h].referenced
  <2>1. e.handle # None => e.handle = h /\ h \in Live(s) /\ refd = s.handles[h].referenced
    BY <1>4, IsReferenced DEF Ending
  <2>2. (e.referenced <=> refd) /\ e.referenced \in BOOLEAN
    BY DEF Ending, Completions
  <2> HIDE DEF refd
  <2> QED
    BY <1>4, <2>1, <2>2
<1> HIDE DEF refd, h
<1>8. Cardinality(Weighing(t)) = Cardinality(Weighing(s)) - One(o \in Weighing(s))
  BY Zenon, <1>1, <1>5, CountLess DEF Numbers
<1>9. One(o \in Weighing(s)) = One(refd) /\ One(e \in Counted) = One(refd) /\ One(refd) \in {0, 1}
  BY <1>5, <1>6 DEF One
<1>10. /\ Cardinality(Weighty(s)) \in Nat /\ Cardinality(At(s.queued, Counted)) \in Nat
       /\ Cardinality(Weighing(s)) \in Nat
  BY <1>1 DEF Numbers
<1>11. s.refs = Cardinality(Weighty(s)) + Cardinality(Weighing(s)) + Cardinality(At(s.queued, Counted))
  BY DEF Weights, Refs
<1>12. t.refs = s.refs
  BY <1>10, <1>11 DEF Ended
<1>13. Refs(t)
  BY <1>2, <1>8, <1>9, <1>10, <1>11, <1>12 DEF Refs, Grown
<1>14. Carried(t)
  <2> SUFFICES ASSUME NEW i \in DOMAIN t.queued, t.queued[i].terminal, t.queued[i].op, t.queued[i].handle # None
               PROVE  t.queued[i].referenced = t.handles[t.queued[i].handle].referenced
    BY DEF Carried
  <2>1. \A x \in Live(s) : t.handles[x].referenced = s.handles[x].referenced
    BY <1>1 DEF SameFlags, Alike
  <2>2. CASE t.queued[i] = e
    BY <1>7, <2>1, <2>2
  <2>3. CASE t.queued[i] # e
    <3>1. i \in DOMAIN s.queued /\ t.queued[i] = s.queued[i]
      BY <2>3 DEF Grown
    <3>2. s.queued[i].handle \in Live(s)
      BY <3>1 DEF Lines, Named
    <3> QED
      BY <2>1, <3>1, <3>2 DEF Carried, Weights
  <2> QED
    BY <2>2, <2>3
<1> QED
  BY <1>13, <1>14 DEF Weights

\* An operation that was disarmed before it ends leaves timers and deadlines in
\* order.
LEMMA EndClocks ==
  ASSUME NEW s, NEW o \in LiveOps(s), ClocksBut(s, o), NEW e, NEW t, Ended(s, o, e, t)
  PROVE  Clocks(t)
<1>1. ASSUME NEW x \in LiveOps(t) \ {None} PROVE TimerOp(t, x)
  <2>1. x \in LiveOps(s) /\ x # o /\ t.ops[x] = s.ops[x]
    BY DEF Ended
  <2>2. TimerOp(s, x)
    BY <2>1 DEF ClocksBut
  <2>3. /\ t.timers = s.timers /\ t.deadlines = s.deadlines \ {o} /\ Live(t) = Live(s)
        /\ \A y \in Live(s) : t.handles[y].kind = s.handles[y].kind
    BY DEF Ended, SameFlags, Alike
  <2>4. \A y : OpsOf(t, y) = OpsOf(s, y) \ {o}
    BY DEF Ended
  <2> QED
    BY <2>1, <2>2, <2>3, <2>4 DEF TimerOp
<1>2. ASSUME NEW x \in t.timers PROVE Armed(t, x, None)
  <2>1. Armed(s, x, o) /\ OpsOf(t, x) = OpsOf(s, x) \ {o}
    BY DEF ClocksBut, Ended
  <2>2. None \notin OpsOf(t, x)
    BY NoneAssumption DEF OpsOf, LiveOps
  <2> QED
    BY <2>1, <2>2 DEF Armed, Alike, Ended, SameFlags
<1> QED
  BY <1>1, <1>2 DEF Clocks, ClocksBut

\* The other files that are being opened stay known to their operations only.
LEMMA EndHidden ==
  ASSUME NEW s, NEW o \in LiveOps(s), HiddenBut(s, {s.ops[o].handle}), NEW e, Ending(s, o, e),
         NEW t, Ended(s, o, e, t), Grown(s, e, t)
  PROVE  HiddenBut(t, {s.ops[o].handle})
<1> SUFFICES ASSUME NEW x \in Live(t) \ {s.ops[o].handle}, t.handles[x].hidden PROVE Hiding(t, x)
  BY DEF HiddenBut
<1>1. x \in Live(s) /\ x # s.ops[o].handle /\ Alike(t.handles[x], s.handles[x])
  BY DEF Ended, SameFlags
<1>2. Hiding(s, x) /\ x # None
  BY <1>1, NoneAssumption DEF HiddenBut, Live, Alike
<1>3. \A i \in DOMAIN t.queued : t.queued[i].handle # x
  BY <1>1, <1>2 DEF Hiding, Grown, Ending
<1>4. PICK p \in LiveOps(s) : OpsOf(s, x) = {p} /\ s.ops[p].kind = "fs"
  BY <1>2 DEF Hiding
<1>5. p # o
  BY <1>1, <1>4 DEF OpsOf
<1>6. p \in LiveOps(t) /\ OpsOf(t, x) = {p} /\ t.ops[p].kind = "fs"
  BY <1>4, <1>5 DEF Ended
<1> QED
  BY <1>1, <1>2, <1>3, <1>6 DEF Hiding, Alike

\* A result takes the place of its operation: enqueue() and retire().
LEMMA EndKeeps ==
  ASSUME Counting, NEW s, Shaped(s), Sums(s), NEW o \in LiveOps(s), ClocksBut(s, o),
         HiddenBut(s, {s.ops[o].handle}), NEW e, Ending(s, o, e), NEW t, t = Retire(Enqueue(s, e), o)
  PROVE  /\ Shaped(t) /\ Sums(t) /\ Clocks(t) /\ HiddenBut(t, {s.ops[o].handle}) /\ Ended(s, o, e, t)
<1>1. Tallies(s) /\ Lines(s) /\ Owed(s) /\ Weights(s) /\ s.queued \in Seq(Completions) /\ e \in Completions
  BY DEF Sums, Lines, Ending
<1>2. Shaped(t) /\ Tallies(t) /\ Lines(t) /\ Ended(s, o, e, t)
  BY Zenon, <1>1, EndShape
<1>3. Grown(s, e, t)
  BY Zenon, <1>1, <1>2, QueuedMore DEF Ended
<1>4. Owed(t)
  BY Zenon, <1>1, <1>2, <1>3, EndOwed
<1>5. Weights(t)
  BY Zenon, <1>1, <1>2, <1>3, EndWeights
<1>6. Clocks(t)
  BY Zenon, <1>2, EndClocks
<1>7. HiddenBut(t, {s.ops[o].handle})
  BY Zenon, <1>2, <1>3, EndHidden
<1> QED
  BY <1>2, <1>4, <1>5, <1>6, <1>7 DEF Sums

\* It is a completion of its operation, and of its handle.
OutcomeOf(s, o, terminal, e) ==
    /\ e \in Completions /\ e.handle = s.ops[o].handle /\ e.op /\ e.terminal = terminal /\ ~e.closed
    /\ e.referenced <=> (terminal /\ Referenced(s, s.ops[o].handle))
    /\ e.class = IF terminal THEN "NONE" ELSE IF IsTimer(s.ops[o].kind) THEN "TIMER" ELSE "NATIVE"

\* The completion that finish() makes is a result, or a buffered event of a
\* multishot operation.
LEMMA OutcomeFields ==
  ASSUME NEW s, Shaped(s), NEW o \in LiveOps(s), NEW terminal \in BOOLEAN, NEW brings \in Handles \cup {None},
         NEW e, e = Outcome(s, o, terminal, brings)
  PROVE  OutcomeOf(s, o, terminal, e)
<1> DEFINE h == s.ops[o].handle
           class == IF terminal THEN "NONE" ELSE IF IsTimer(s.ops[o].kind) THEN "TIMER" ELSE "NATIVE"
           refd == terminal /\ Referenced(s, h)
           b == Entry(h, TRUE, terminal, class)
<1>1. h \in Handles \cup {None}
  BY OpShape
<1>2. refd \in BOOLEAN
  BY <1>1, IsReferenced
<1>3. class \in Classes \cup {"NONE"}
  BY DEF Classes
<1>4. e = [b EXCEPT !.referenced = refd, !.brings = brings]
  BY Zenon DEF Outcome
<1> HIDE DEF h, class, refd
<1>5. /\ b \in Completions /\ b.handle = h /\ b.op = TRUE /\ b.terminal = terminal /\ b.closed = FALSE
      /\ b.class = class
  BY <1>1, <1>3 DEF Completions, Entry
<1> HIDE DEF b
<1>6. /\ e \in Completions /\ e.handle = b.handle /\ e.op = b.op /\ e.terminal = b.terminal
      /\ e.closed = b.closed /\ e.class = b.class /\ e.referenced = refd
  BY Zenon, <1>2, <1>4, <1>5 DEF Completions
<1> QED
  BY Zenon, <1>5, <1>6 DEF OutcomeOf, h, class, refd

\* finish() of a last event queues it, retires the operation and looks whether
\* the handle may say Closed.
LEMMA FinishIs ==
  ASSUME NEW s, NEW o, NEW brings
  PROVE  /\ Finish(s, o, TRUE, brings)
              = MaybeClosed(Retire(Enqueue(s, Outcome(s, o, TRUE, brings)), o), s.ops[o].handle)
         /\ Finish(s, o, FALSE, brings) = Enqueue(s, Outcome(s, o, FALSE, brings))
  BY DEF Finish, Outcome

\* t is s without the operation o; it has every handle of s.
Without(s, o, t) ==
    /\ Live(t) = Live(s) /\ LiveOps(t) = LiveOps(s) \ {o} /\ t.timers = s.timers
    /\ \A x \in LiveOps(t) : t.ops[x] = s.ops[x]

\* finish() with a last completion.
LEMMA FinishLedger ==
  ASSUME Counting, NEW s, Shaped(s), Sums(s), NEW o \in LiveOps(s),
         ClocksBut(s, o), HiddenBut(s, {}), NEW brings \in Handles \cup {None},
         s.ops[o].handle # None => ~s.handles[s.ops[o].handle].hidden,
         NEW t, t = Finish(s, o, TRUE, brings)
  PROVE  Shaped(t) /\ Ledger(t) /\ Without(s, o, t)
<1> DEFINE h == s.ops[o].handle
           e == Outcome(s, o, TRUE, brings)
           u == Retire(Enqueue(s, e), o)
<1>1. Ending(s, o, e)
  <2>1. OutcomeOf(s, o, TRUE, e)
    BY Zenon, OutcomeFields
  <2> HIDE DEF e
  <2> QED
    BY Zenon, <2>1 DEF Ending, Result, OutcomeOf
<1>2. HiddenBut(s, {h}) /\ h \in Handles \cup {None}
  BY OpShape DEF HiddenBut
<1> HIDE DEF e
<1>3. Shaped(u) /\ Sums(u) /\ Clocks(u) /\ HiddenBut(u, {h}) /\ Ended(s, o, e, u)
  BY Zenon, <1>1, <1>2, EndKeeps
<1>4. t = MaybeClosed(u, h)
  BY Zenon, FinishIs DEF e
<1> HIDE DEF u
<1>5. HiddenBut(u, {})
  <2>1. \A x \in Live(u) : u.handles[x].hidden = s.handles[x].hidden /\ x # None
    BY <1>3, NoneAssumption DEF Ended, SameFlags, Alike, Live
  <2> QED
    BY <1>3, <2>1 DEF HiddenBut
<1>6. Ledger(u)
  BY <1>3, <1>5 DEF Ledger
<1>7. Shaped(t) /\ Ledger(t) /\ t.ops = u.ops /\ Live(t) = Live(u) /\ t.timers = u.timers
  BY Zenon, <1>2, <1>3, <1>4, <1>6, MaybeClosedLedger
<1>8. LiveOps(t) = LiveOps(u)
  BY Zenon, <1>7 DEF LiveOps
<1> QED
  BY Zenon, <1>3, <1>7, <1>8 DEF Ended, SameFlags, Without

\* An operation that is no timer ends.
LEMMA OthersClocks ==
  ASSUME NEW s, Clocks(s), NEW o \in LiveOps(s), ~IsTimer(s.ops[o].kind)
  PROVE  ClocksBut(s, o)
<1>1. None \notin LiveOps(s) /\ \A x \in LiveOps(s) : TimerOp(s, x)
  BY NoneAssumption DEF Clocks, ClocksBut, LiveOps
<1>2. ASSUME NEW h \in s.timers PROVE Armed(s, h, o)
  <2>1. Armed(s, h, None)
    BY DEF Clocks, ClocksBut
  <2>2. PICK x \in OpsOf(s, h) : TRUE
    BY <2>1 DEF Armed
  <2>3. x \in LiveOps(s) /\ s.ops[x].handle = h /\ h \in Live(s) /\ s.handles[h].kind = "Timer"
    BY <2>1, <2>2 DEF Armed, OpsOf
  <2>4. IsTimer(s.ops[x].kind)
    BY <1>1, <2>3 DEF TimerOp
  <2> QED
    BY <2>1, <2>2, <2>4 DEF Armed
<1> QED
  BY <1>1, <1>2 DEF ClocksBut

\* t is s, where the timer of the operation o left the heap; its handle may be closing.
Disarmed(s, o, t) ==
    /\ t.timers = s.timers \ {s.ops[o].handle} /\ t.ops = s.ops /\ t.deadlines = s.deadlines
    /\ Live(t) = Live(s)
    /\ \A x \in Live(s) :
          /\ t.handles[x].kind = s.handles[x].kind
          /\ x # s.ops[o].handle => t.handles[x].closing = s.handles[x].closing

\* A timer taken from the timer queue leaves the others in order.
LEMMA TimerClocks ==
  ASSUME NEW s, Clocks(s), NEW o \in LiveOps(s), NEW t, Disarmed(s, o, t)
  PROVE  ClocksBut(t, o)
<1> DEFINE h == s.ops[o].handle
<1>1. LiveOps(t) = LiveOps(s) /\ \A x : OpsOf(t, x) = OpsOf(s, x)
  BY DEF LiveOps, OpsOf, Disarmed
<1>2. None \notin LiveOps(s)
  BY NoneAssumption DEF LiveOps
<1>3. ASSUME NEW x \in t.timers PROVE Armed(t, x, o)
  <2>1. Armed(s, x, None) /\ x # h /\ x \in Live(s)
    BY DEF Clocks, ClocksBut, Armed, Disarmed
  <2>2. o \notin OpsOf(s, x)
    BY <2>1 DEF OpsOf
  <2> QED
    BY <1>1, <2>1, <2>2 DEF Armed, Disarmed
<1>4. ASSUME NEW x \in LiveOps(t) \ {o} PROVE TimerOp(t, x)
  <2>1. x \in LiveOps(s) /\ TimerOp(s, x) /\ t.ops[x] = s.ops[x]
    BY <1>1, <1>2 DEF Clocks, ClocksBut, Disarmed
  <2>2. ASSUME IsTimer(s.ops[x].kind) PROVE s.ops[x].handle # h
    <3>1. OpsOf(s, s.ops[x].handle) = {x}
      BY <2>1, <2>2 DEF TimerOp
    <3> QED
      BY <2>1, <3>1 DEF OpsOf
  <2> QED
    <3>1. /\ t.timers = s.timers \ {h} /\ t.ops = s.ops /\ t.deadlines = s.deadlines /\ Live(t) = Live(s)
          /\ \A y \in Live(s) : t.handles[y].kind = s.handles[y].kind
      BY Zenon DEF Disarmed
    <3> DEFINE y == s.ops[x].handle
    <3>2. IsTimer(s.ops[x].kind) => /\ y \in Live(t) /\ t.handles[y].kind = "Timer" /\ y \in t.timers
                                    /\ ~s.ops[x].cancel
      BY Zenon, <2>1, <2>2, <3>1 DEF TimerOp
    <3>3. y \in Live(t) /\ t.handles[y].kind = "Timer" => IsTimer(s.ops[x].kind) /\ OpsOf(t, y) = {x}
      BY Zenon, <1>1, <2>1, <3>1 DEF TimerOp
    <3>4. x \in t.deadlines => ~s.ops[x].cancel /\ ~IsTimer(s.ops[x].kind)
      BY Zenon, <2>1, <3>1 DEF TimerOp
    <3> QED
      BY Zenon, <2>1, <3>2, <3>3, <3>4 DEF TimerOp
<1> QED
  BY <1>3, <1>4 DEF ClocksBut

---------------------------------------------------------------------------
\* Cancellation

\* Without o, the operations that no timer ends are the others.
LEMMA OthersWithout ==
  ASSUME NEW s, NEW o, NEW t, Without(s, o, t)
  PROVE  Others(t) = Others(s) \ {o}
  BY Zenon DEF Others, Without

\* The timer's operation ends at once.
LEMMA StopTimer ==
  ASSUME Counting, NEW s, Shaped(s), Sums(s), HiddenBut(s, {}), NEW o \in LiveOps(s), IsTimer(s.ops[o].kind),
         s.ops[o].handle # None => ~s.handles[s.ops[o].handle].hidden,
         NEW u, u = Disarm(s, o), ClocksBut(u, o),
         NEW t, t = Finish(u, o, TRUE, None)
  PROVE  Shaped(t) /\ Ledger(t) /\ SameOthers(s, t)
<1>1. IsDriver(u) /\ Rearmed(s, u)
  <2>1. IsDriver(s)
    BY DEF Shaped
  <2>2. IsDriver(u)
    BY Zenon, <2>1 DEF Disarm, IsDriver, Fields
  <2>3. Rearmed(s, u)
    BY Zenon, <2>1 DEF Disarm, IsDriver, Fields, Rearmed, SameOpsAndQueue
  <2> QED
    BY <2>2, <2>3
<1>2. Shaped(u) /\ Sums(u) /\ SameTables(s, u) /\ HiddenBut(u, {})
  BY Zenon, <1>1, RearmedKeeps
<1>3. u.ops = s.ops /\ u.handles = s.handles /\ Live(u) = Live(s) /\ LiveOps(u) = LiveOps(s)
  BY Zenon, <1>2 DEF SameTables
<1>4. Shaped(t) /\ Ledger(t) /\ Without(u, o, t)
  <2>1. None \in Handles \cup {None} /\ o \in LiveOps(u)
        /\ (u.ops[o].handle # None => ~u.handles[u.ops[o].handle].hidden)
    BY Zenon, <1>3
  <2> QED
    BY Zenon, <1>2, <2>1, FinishLedger
<1>5. Live(t) = Live(s)
  BY Zenon, <1>3, <1>4 DEF Without
<1>6. Others(t) = Others(s)
  <2>1. Others(t) = Others(u) \ {o}
    BY Zenon, <1>4, OthersWithout
  <2>2. Others(u) = Others(s) /\ o \notin Others(s)
    BY Zenon, <1>3 DEF Others
  <2> QED
    BY Zenon, <2>1, <2>2
<1> QED
  BY Zenon, <1>4, <1>5, <1>6 DEF SameOthers

\* cancel_inner() of a timer.
LEMMA CancelTimerLedger ==
  ASSUME Counting, NEW s, Shaped(s), Ledger(s), NEW o \in LiveOps(s), IsTimer(s.ops[o].kind),
         NEW u, u = Disarm(s, o), NEW t, t = Finish(u, o, TRUE, None)
  PROVE  Shaped(t) /\ Ledger(t) /\ SameOthers(s, t)
<1>1. Sums(s) /\ Clocks(s) /\ HiddenBut(s, {})
  BY DEF Ledger
<1>2. s.ops[o].handle \in Live(s) /\ s.handles[s.ops[o].handle].kind = "Timer"
  BY <1>1, NoneAssumption DEF Clocks, ClocksBut, TimerOp, LiveOps
<1>3. s.ops[o].handle # None => ~s.handles[s.ops[o].handle].hidden
  BY <1>1, <1>2 DEF HiddenBut, Hiding
<1>4. Disarmed(s, o, u)
  <2>1. IsDriver(s)
    BY DEF Shaped
  <2>2. u.timers = s.timers \ {s.ops[o].handle} /\ u.ops = s.ops /\ u.deadlines = s.deadlines
        /\ u.handles = s.handles
    BY Zenon, <2>1 DEF Disarm, IsDriver, Fields
  <2> QED
    BY Zenon, <2>2 DEF Disarmed, Live
<1>5. ClocksBut(u, o)
  BY Zenon, <1>1, <1>4, TimerClocks
<1>6. Sums(s) /\ HiddenBut(s, {})
  BY Zenon, <1>1
<1> QED
  BY Zenon, <1>3, <1>5, <1>6, StopTimer

\* Cancelling one operation is cancelling a set of one.
LEMMA FlagOne ==
  ASSUME NEW s, Shaped(s), NEW o \in LiveOps(s)
  PROVE  [s EXCEPT !.ops[o].cancel = TRUE, !.deadlines = @ \ {o}]
         = [s EXCEPT !.ops = [x \in Ops |-> IF x \in {o} THEN [@[x] EXCEPT !.cancel = TRUE] ELSE @[x]],
                     !.deadlines = @ \ {o}]
<1>1. s.ops \in [Ops -> Operations \cup {None}] /\ o \in Ops
  BY DEF Shaped, LiveOps
<1> DEFINE f == s.ops  q == [s.ops[o] EXCEPT !.cancel = TRUE]
<1>2. [f EXCEPT ![o] = q] = [x \in Ops |-> IF x \in {o} THEN [f[x] EXCEPT !.cancel = TRUE] ELSE f[x]]
  <2>1. q = [f[o] EXCEPT !.cancel = TRUE]
    BY Zenon
  <2> HIDE DEF q, f
  <2>2. f \in [Ops -> Operations \cup {None}]
    BY <1>1 DEF f
  <2>3. DOMAIN f = Ops
    BY Zenon, <2>2
  <2>4. [f EXCEPT ![o] = q] = [x \in Ops |-> IF x = o THEN q ELSE f[x]]
    BY Zenon, <1>1, <2>3
  <2> QED
    BY Zenon, <2>1, <2>4
<1> QED
  BY Zenon, <1>2

\* cancel_inner().
LEMMA CancelInnerLedger ==
  ASSUME Counting, NEW s, Shaped(s), Ledger(s), NEW o \in LiveOps(s), NEW t, t = CancelInner(s, o)
  PROVE  Shaped(t) /\ Ledger(t) /\ SameOthers(s, t)
<1>1. CASE s.ops[o].cancel
  BY Zenon, <1>1 DEF CancelInner, SameOthers
<1>2. CASE ~s.ops[o].cancel /\ IsTimer(s.ops[o].kind)
  <2>1. t = Finish(Disarm(s, o), o, TRUE, None)
    BY Zenon, <1>2 DEF CancelInner, Disarm
  <2> QED
    BY Zenon, <1>2, <2>1, CancelTimerLedger
<1>3. CASE ~s.ops[o].cancel /\ ~IsTimer(s.ops[o].kind)
  <2>1. t = [s EXCEPT !.ops[o].cancel = TRUE, !.deadlines = @ \ {o}]
    BY Zenon, <1>3 DEF CancelInner
  <2>2. {o} \in SUBSET LiveOps(s) /\ \A x \in {o} : ~IsTimer(s.ops[x].kind)
    BY <1>3
  <2> QED
    BY Zenon, <2>1, <2>2, FlagOne, FlagLedger
<1> QED
  BY <1>1, <1>2, <1>3

---------------------------------------------------------------------------
\* close and detach

\* t is s with h marked.
Shut(s, h, t) ==
    /\ SameOpsAndQueue(s, t) /\ t.timers = s.timers /\ Live(t) = Live(s)
    /\ t.refs = s.refs + One(s.handles[h].kind = "Timer" /\ s.handles[h].referenced)
    /\ t.handles[h].closing /\ \A x \in Live(s) \ {h} : t.handles[x] = s.handles[x]
    /\ \A x \in Live(s) :
          /\ t.handles[x].kind = s.handles[x].kind /\ t.handles[x].hidden = s.handles[x].hidden
          /\ t.handles[x].referenced = s.handles[x].referenced /\ t.handles[x].referenced \in BOOLEAN
          /\ t.handles[x].pending = s.handles[x].pending
          /\ t.handles[x].closed_queued = s.handles[x].closed_queued

\* close() marks its handle and changes no other.
LEMMA ClosingShape ==
  ASSUME NEW s, Shaped(s), NEW h \in Live(s), NEW t, t = Closing(s, h)
  PROVE  Shaped(t) /\ Shut(s, h, t)
<1> DEFINE r == [s.handles[h] EXCEPT !.closing = TRUE]
<1>1. /\ IsDriver(s) /\ h \in Handles /\ s.handles[h] \in Resources
      /\ s.handles \in [Handles -> Resources \cup {None}] /\ \A x \in Live(s) : s.handles[x] \in Resources
  BY DEF Shaped, Live, Free
<1>2. /\ r \in Resources /\ r.kind = s.handles[h].kind /\ r.hidden = s.handles[h].hidden
      /\ r.referenced = s.handles[h].referenced /\ r.pending = s.handles[h].pending
      /\ r.closing /\ r.closed_queued = s.handles[h].closed_queued
  BY Zenon, <1>1 DEF Resources
<1>3. IsDriver(t) /\ t.handles = [s.handles EXCEPT ![h] = r] /\ SameOpsAndQueue(s, t)
      /\ t.timers = s.timers
      /\ t.refs = s.refs + One(s.handles[h].kind = "Timer" /\ s.handles[h].referenced)
  BY Zenon, <1>1 DEF Closing, IsDriver, Fields, SameOpsAndQueue
<1> HIDE DEF r
<1>4. Rewritten(s, h, r, t)
  BY Zenon, <1>2, <1>3, Rewrite
<1>5. \A x \in Live(s) : s.handles[x].referenced \in BOOLEAN
  BY <1>1 DEF Resources
<1>6. Shut(s, h, t)
  BY Zenon, <1>2, <1>3, <1>4, <1>5 DEF Shut, Rewritten
<1> QED
  BY Zenon, <1>4, <1>6 DEF Rewritten

\* A timer begins to weigh when it closes; refs stays exact.
LEMMA ShutWeights ==
  ASSUME Counting, NEW s, Tallies(s), Lines(s), Weights(s), NEW h \in Live(s), ~s.handles[h].closing,
         NEW t, Shut(s, h, t)
  PROVE  Weights(t)
<1>1. t.queued = s.queued /\ LiveOps(t) = LiveOps(s) /\ t.ops = s.ops /\ Live(t) = Live(s)
  BY Zenon, SameOpsOf DEF Shut, SameOpsAndQueue
<1>2. Weighing(t) = Weighing(s)
  <2>1. \A x \in Live(s) \cup {None} : Referenced(t, x) <=> Referenced(s, x)
    BY DEF Referenced, Present, Live, Shut
  <2>2. \A o \in LiveOps(s) : s.ops[o].handle \in Live(s) \cup {None}
    BY DEF Tallies
  <2> QED
    BY Zenon, <1>1, <2>1, <2>2 DEF Weighing
<1> DEFINE b == s.handles[h].kind = "Timer" /\ s.handles[h].referenced
<1>3. b \in BOOLEAN
  OBVIOUS
<1>4. Weighty(t) = IF b THEN Weighty(s) \cup {h} ELSE Weighty(s)
  BY DEF Weighty, Shut
<1>5. b => h \notin Weighty(s)
  BY DEF Weighty
<1>6. Carried(t)
  <2>1. Carried(s) /\ \A i \in DOMAIN s.queued : s.queued[i].handle \in Live(s) \cup {None}
    BY Zenon DEF Weights, Lines, Named
  <2>2. \A x \in Live(s) : t.handles[x].referenced = s.handles[x].referenced
    BY Zenon DEF Shut
  <2> QED
    BY <1>1, <2>1, <2>2 DEF Carried
<1>7. Numbers(s)
  BY Zenon, NumbersHold DEF Lines
<1> HIDE DEF b
<1>8. Cardinality(Weighty(t)) = Cardinality(Weighty(s)) + One(b)
  <2>1. IsFiniteSet(Weighty(s)) /\ Cardinality(Weighty(s)) \in Nat
    BY <1>7 DEF Numbers
  <2>2. CASE b
    BY Zenon, <1>3, <1>4, <1>5, <2>1, <2>2, CountMore
  <2>3. CASE ~b
    BY <1>4, <2>1, <2>3 DEF One
  <2> QED
    BY <2>2, <2>3
<1>9. Refs(t)
  <2>1. s.refs = Cardinality(Weighty(s)) + Cardinality(Weighing(s)) + Cardinality(At(s.queued, Counted))
        /\ t.refs = s.refs + One(b)
    BY DEF Weights, Refs, Shut, b
  <2>2. /\ Cardinality(Weighty(s)) \in Nat /\ Cardinality(Weighing(s)) \in Nat
        /\ Cardinality(At(s.queued, Counted)) \in Nat /\ One(b) \in {0, 1}
    BY <1>7 DEF Numbers, One
  <2> QED
    BY <1>1, <1>2, <1>8, <2>1, <2>2 DEF Refs
<1> QED
  BY <1>6, <1>9 DEF Weights

\* Marking a handle as closing keeps the counts, and the timers if it is none
\* of those armed.
LEMMA ClosingKeeps ==
  ASSUME Counting, NEW s, Shaped(s), Ledger(s), NEW h \in Live(s), ~s.handles[h].closing, ~s.handles[h].hidden,
         NEW t, Shut(s, h, t)
  PROVE  Sums(t) /\ HiddenBut(t, {}) /\ (h \notin s.timers => Clocks(t))
<1>1. /\ SameOpsAndQueue(s, t) /\ Tallies(s) /\ Lines(s) /\ Owed(s) /\ Weights(s) /\ Clocks(s)
      /\ HiddenBut(s, {}) /\ Live(t) = Live(s) /\ t.timers = s.timers
  BY DEF Shut, Ledger, Sums
<1>2. LiveOps(t) = LiveOps(s) /\ \A x : OpsOf(t, x) = OpsOf(s, x)
  BY Zenon, <1>1, SameOpsOf
<1>3. SamePending(s, t)
  BY DEF SamePending, Shut
<1>4. KeepsNamed(s, t)
  BY <1>2 DEF KeepsNamed, Parted, Shut
<1>5. Tallies(t) /\ Lines(t) /\ Owed(t)
  BY Zenon, <1>1, <1>3, <1>4, HandlesKeep
<1>6. Weights(t)
  BY Zenon, <1>1, ShutWeights
<1>7. h \notin s.timers => Clocks(t)
  <2>1. \A x \in s.timers : x \in Live(s)
    BY <1>1 DEF Clocks, ClocksBut, Armed
  <2>2. h \notin s.timers => SameClocks(s, t)
    BY <1>1, <2>1 DEF SameClocks, Shut
  <2> QED
    BY Zenon, <1>1, <2>2, ClocksKept
<1>8. HiddenBut(t, {})
  <2> SUFFICES ASSUME NEW x \in Live(t), t.handles[x].hidden PROVE Hiding(t, x)
    BY DEF HiddenBut
  <2>1. x \in Live(s) /\ Hiding(s, x) /\ t.handles[x] = s.handles[x]
    BY <1>1 DEF HiddenBut, Shut
  <2> QED
    BY Zenon, <1>1, <2>1, HidingKept
<1> QED
  BY Zenon, <1>5, <1>6, <1>7, <1>8 DEF Sums

\* SameOthers is transitive.
LEMMA OthersTransitive ==
  ASSUME NEW s, NEW u, SameOthers(s, u), NEW t, SameOthers(u, t)
  PROVE  SameOthers(s, t)
  BY Zenon DEF SameOthers

\* A timer's handle has one operation at most.
LEMMA TimersOwn ==
  ASSUME NEW s, Clocks(s), NEW h \in Live(s), s.handles[h].kind = "Timer", NEW o \in OpsOf(s, h)
  PROVE  o \in LiveOps(s) /\ s.ops[o].handle = h /\ IsTimer(s.ops[o].kind) /\ ~s.ops[o].cancel
<1>1. o \in LiveOps(s) /\ s.ops[o].handle = h
  BY DEF OpsOf
<1>2. TimerOp(s, o)
  BY <1>1, NoneAssumption DEF Clocks, ClocksBut, LiveOps
<1>3. IsTimer(s.ops[o].kind)
  BY Zenon, <1>1, <1>2 DEF TimerOp
<1>4. ~s.ops[o].cancel
  BY Zenon, <1>2, <1>3 DEF TimerOp
<1> QED
  BY Zenon, <1>1, <1>3, <1>4

\* A handle that is no timer, or has no operation, is not armed.
LEMMA UnarmedTimer ==
  ASSUME NEW s, Clocks(s), NEW h, s.handles[h].kind # "Timer" \/ OpsOf(s, h) = {}
  PROVE  h \notin s.timers
  BY DEF Clocks, ClocksBut, Armed

\* The operation of a timer whose handle is marked ends at once.
LEMMA CloseTimer ==
  ASSUME Counting, NEW s, Shaped(s), Ledger(s), NEW h \in Live(s), ~s.handles[h].closing, ~s.handles[h].hidden,
         s.handles[h].kind = "Timer", NEW o \in OpsOf(s, h),
         NEW u, Shaped(u), Shut(s, h, u), NEW t, t = CancelInner(u, o)
  PROVE  Shaped(t) /\ Ledger(t) /\ SameOthers(s, t)
<1>1. Sums(u) /\ HiddenBut(u, {})
  BY Zenon, ClosingKeeps
<1>2. o \in LiveOps(s) /\ s.ops[o].handle = h /\ IsTimer(s.ops[o].kind) /\ ~s.ops[o].cancel
  BY Zenon, TimersOwn DEF Ledger
<1>3. u.ops = s.ops /\ LiveOps(u) = LiveOps(s) /\ Live(u) = Live(s) /\ u.timers = s.timers
      /\ u.deadlines = s.deadlines
  BY Zenon, SameOpsOf DEF Shut, SameOpsAndQueue
<1>4. t = Finish(Disarm(u, o), o, TRUE, None)
  BY Zenon, <1>2, <1>3 DEF CancelInner, Disarm
<1>5. Disarmed(s, o, Disarm(u, o))
  <2> DEFINE v == Disarm(u, o)
  <2>1. IsDriver(u)
    BY DEF Shaped
  <2>2. v.timers = u.timers \ {u.ops[o].handle} /\ v.ops = u.ops /\ v.deadlines = u.deadlines
        /\ v.handles = u.handles
    BY Zenon, <2>1 DEF IsDriver, Fields, Disarm
  <2> HIDE DEF v
  <2>3. Live(v) = Live(s)
    BY Zenon, <1>3, <2>2 DEF Live
  <2>4. \A x \in Live(s) : v.handles[x].kind = s.handles[x].kind
                           /\ (x # h => v.handles[x].closing = s.handles[x].closing)
    BY <2>2 DEF Shut
  <2>5. Disarmed(s, o, v)
    BY Zenon, <1>2, <1>3, <2>2, <2>3, <2>4 DEF Disarmed
  <2> QED
    BY <2>5 DEF v
<1>6. ClocksBut(Disarm(u, o), o)
  BY Zenon, <1>2, <1>5, TimerClocks DEF Ledger
<1>7. u.ops[o].handle # None => ~u.handles[u.ops[o].handle].hidden
  BY <1>2, <1>3 DEF Shut
<1>8. Shaped(t) /\ Ledger(t) /\ SameOthers(u, t)
  <2>1. o \in LiveOps(u) /\ IsTimer(u.ops[o].kind)
    BY Zenon, <1>2, <1>3
  <2> QED
    BY Zenon, <1>1, <1>4, <1>6, <1>7, <2>1, StopTimer
<1>9. SameOthers(s, u)
  BY Zenon, <1>3, SameOpsOthers
<1> QED
  BY Zenon, <1>8, <1>9, OthersTransitive

\* close(), before the handle may say Closed.
LEMMA CloseCancels ==
  ASSUME Counting, NEW s, Shaped(s), Ledger(s), NEW h \in Live(s), ~s.handles[h].closing, ~s.handles[h].hidden,
         NEW kept, NEW u, u = Closing(s, h), NEW t, t = CancelAll(u, h, kept)
  PROVE  Shaped(t) /\ Ledger(t) /\ SameOthers(s, t)
<1>1. Shaped(u) /\ Shut(s, h, u)
  BY Zenon, ClosingShape
<1>2. Sums(u) /\ HiddenBut(u, {}) /\ (h \notin s.timers => Clocks(u))
  BY Zenon, <1>1, ClosingKeeps
<1>3. u.ops = s.ops /\ Live(u) = Live(s) /\ OpsOf(u, h) = OpsOf(s, h) /\ u.handles[h].kind = s.handles[h].kind
  <2>1. SameOpsAndQueue(s, u) /\ Live(u) = Live(s) /\ u.handles[h].kind = s.handles[h].kind
    BY Zenon, <1>1 DEF Shut
  <2>2. u.ops = s.ops
    BY Zenon, <2>1 DEF SameOpsAndQueue
  <2>3. OpsOf(u, h) = OpsOf(s, h)
    BY Zenon, <2>1, SameOpsOf
  <2> QED
    BY Zenon, <2>1, <2>2, <2>3
<1>4. SameOthers(s, u)
  BY Zenon, <1>3, SameOpsOthers
<1>5. Clocks(s)
  BY DEF Ledger
<1>6. CASE s.handles[h].kind # "Timer"
  <2>1. Ledger(u)
    BY Zenon, <1>2, <1>5, <1>6, UnarmedTimer DEF Ledger
  <2>2. Shaped(t) /\ Ledger(t) /\ SameOthers(u, t)
    BY Zenon, <1>1, <1>3, <1>6, <2>1, CancelAllFlags
  <2> QED
    BY Zenon, <1>4, <2>2, OthersTransitive
<1>7. CASE s.handles[h].kind = "Timer" /\ OpsOf(s, h) = {}
  <2>1. Ledger(u)
    BY Zenon, <1>2, <1>5, <1>7, UnarmedTimer DEF Ledger
  <2>2. t = u
    BY Zenon, <1>3, <1>7 DEF CancelAll
  <2> QED
    BY Zenon, <1>1, <1>4, <2>1, <2>2
<1>8. CASE s.handles[h].kind = "Timer" /\ OpsOf(s, h) # {}
  <2> DEFINE o == CHOOSE x \in OpsOf(s, h) : TRUE
  <2>1. o \in OpsOf(s, h)
    BY <1>8
  <2>2. t = CancelInner(u, o)
    BY Zenon, <1>3, <1>8 DEF CancelAll
  <2> HIDE DEF o
  <2> QED
    BY Zenon, <1>1, <1>8, <2>1, <2>2, CloseTimer
<1> QED
  BY Zenon, <1>6, <1>7, <1>8

\* close().
LEMMA CloseLedger ==
  ASSUME Counting, NEW s, Shaped(s), Ledger(s), NEW h \in Live(s), ~s.handles[h].closing, ~s.handles[h].hidden,
         NEW kept, NEW u, u = CancelAll(Closing(s, h), h, kept), NEW t, t = MaybeClosed(u, h)
  PROVE  Shaped(t) /\ Ledger(t) /\ SameOthers(s, t)
<1>1. Shaped(u) /\ Ledger(u) /\ SameOthers(s, u)
  BY Zenon, CloseCancels
<1>2. h \in Handles \cup {None}
  BY DEF Live
<1>3. Shaped(t) /\ Ledger(t) /\ t.ops = u.ops /\ Live(t) = Live(u)
  BY Zenon, <1>1, <1>2, MaybeClosedLedger
<1>4. SameOthers(u, t)
  BY Zenon, <1>3, SameOpsOthers
<1> QED
  BY Zenon, <1>1, <1>3, <1>4, OthersTransitive

---------------------------------------------------------------------------
\* Events of the backend

\* expire_connects() cancels a connect whose deadline has passed.
LEMMA ExpireLedger ==
  ASSUME Counting, NEW s, Shaped(s), Ledger(s), NEW o \in s.deadlines,
         NEW t, t = [s EXCEPT !.deadlines = @ \ {o}, !.ops[o].cancel = TRUE]
  PROVE  Shaped(t) /\ Ledger(t) /\ SameOthers(s, t)
<1>1. IsDriver(s) /\ o \in LiveOps(s)
  BY DEF Shaped
<1>2. ~IsTimer(s.ops[o].kind)
  BY <1>1, NoneAssumption DEF Ledger, Clocks, ClocksBut, TimerOp, LiveOps
<1>3. t = [s EXCEPT !.ops[o].cancel = TRUE, !.deadlines = @ \ {o}]
  BY Zenon, <1>1 DEF IsDriver, Fields
<1>4. {o} \in SUBSET LiveOps(s) /\ \A x \in {o} : ~IsTimer(s.ops[x].kind)
  BY <1>1, <1>2
<1> QED
  BY Zenon, <1>1, <1>3, <1>4, FlagOne, FlagLedger

\* Only the request that opens a file has a hidden handle.
LEMMA NotHidden ==
  ASSUME NEW s, Shaped(s), Ledger(s), NEW o \in LiveOps(s), s.ops[o].kind # "fs"
  PROVE  s.ops[o].handle # None => s.ops[o].handle \in Live(s) /\ ~s.handles[s.ops[o].handle].hidden
<1> DEFINE h == s.ops[o].handle
<1> SUFFICES ASSUME h # None
             PROVE  h \in Live(s) /\ ~s.handles[h].hidden
  OBVIOUS
<1>1. h \in Live(s)
  BY DEF Ledger, Sums, Tallies
<1>2. o \in OpsOf(s, h)
  BY DEF OpsOf
<1>3. ASSUME s.handles[h].hidden
      PROVE  FALSE
  <2>1. Hiding(s, h)
    BY Zenon, <1>1, <1>3 DEF Ledger, HiddenBut
  <2> QED
    BY Zenon, <1>2, <2>1 DEF Hiding
<1> QED
  BY <1>1, <1>3

\* finish() with the last completion of an operation that no timer ends.
LEMMA FinishOther ==
  ASSUME Counting, NEW s, Shaped(s), Ledger(s), NEW o \in LiveOps(s), ~IsTimer(s.ops[o].kind),
         NEW brings \in Handles \cup {None},
         s.ops[o].handle # None => ~s.handles[s.ops[o].handle].hidden, NEW t, t = Finish(s, o, TRUE, brings)
  PROVE  Shaped(t) /\ Ledger(t) /\ Others(t) = Others(s) \ {o}
<1>1. Sums(s) /\ Clocks(s) /\ HiddenBut(s, {})
  BY DEF Ledger
<1>2. ClocksBut(s, o)
  BY Zenon, <1>1, OthersClocks
<1>3. Shaped(t) /\ Ledger(t) /\ Without(s, o, t)
  BY Zenon, <1>1, <1>2, FinishLedger
<1> QED
  BY Zenon, <1>3, OthersWithout

\* finish() with a completion that is not the last.
LEMMA FinishMoreLedger ==
  ASSUME Counting, NEW s, Shaped(s), Ledger(s), NEW o \in LiveOps(s), s.ops[o].kind # "fs",
         NEW brings \in Handles \cup {None}, NEW t, t = Finish(s, o, FALSE, brings)
  PROVE  /\ Shaped(t) /\ Ledger(t) /\ SameOthers(s, t)
         /\ t.buffered = Buffer(s, IF IsTimer(s.ops[o].kind) THEN "TIMER" ELSE "NATIVE", 1)
<1> DEFINE e == Outcome(s, o, FALSE, brings)
<1>1. OutcomeOf(s, o, FALSE, e)
  <2>1. FALSE \in BOOLEAN
    OBVIOUS
  <2> QED
    BY Zenon, <2>1, OutcomeFields
<1>2. t = Enqueue(s, e)
  BY Zenon, FinishIs
<1> HIDE DEF e
<1>3. /\ e \in Completions /\ e.handle = s.ops[o].handle /\ ~e.terminal /\ ~e.closed /\ ~e.referenced
      /\ e.class = IF IsTimer(s.ops[o].kind) THEN "TIMER" ELSE "NATIVE"
  BY Zenon, <1>1 DEF OutcomeOf
<1>4. Event(e)
  BY <1>3 DEF Event, Classes
<1>5. e.handle # None => /\ e.handle \in Live(s) /\ OpsOf(s, e.handle) # {}
                         /\ ~s.handles[e.handle].hidden
  <2>1. s.ops[o].handle # None => s.ops[o].handle \in Live(s) /\ ~s.handles[s.ops[o].handle].hidden
    BY Zenon, NotHidden
  <2>2. o \in OpsOf(s, s.ops[o].handle)
    BY Zenon DEF OpsOf
  <2> QED
    BY Zenon, <1>3, <2>1, <2>2
<1>6. Shaped(t) /\ Ledger(t) /\ SameTables(s, t) /\ Queues(s, e, t)
  BY Zenon, <1>2, <1>3, <1>4, <1>5, EventLedger
<1>7. SameOthers(s, t)
  BY Zenon, <1>6, SameOpsOthers DEF SameTables
<1>8. t.buffered = Buffer(s, IF IsTimer(s.ops[o].kind) THEN "TIMER" ELSE "NATIVE", 1)
  BY Zenon, <1>3, <1>6 DEF Queues
<1> QED
  BY Zenon, <1>6, <1>7, <1>8

\* The handle of a file that has been opened may be known from then on.
LEMMA RevealLedger ==
  ASSUME Counting, NEW s, Shaped(s), Ledger(s), NEW h \in Live(s), NEW t, t = Reveal(s, h)
  PROVE  Shaped(t) /\ Ledger(t) /\ t.ops = s.ops /\ Live(t) = Live(s) /\ ~t.handles[h].hidden
<1> DEFINE r == [s.handles[h] EXCEPT !.hidden = FALSE]
<1>1. /\ IsDriver(s) /\ h \in Handles /\ s.handles[h] \in Resources
      /\ s.handles \in [Handles -> Resources \cup {None}]
  BY DEF Shaped, Live, Free
<1>2. /\ r \in Resources /\ r.kind = s.handles[h].kind /\ ~r.hidden
      /\ r.referenced = s.handles[h].referenced /\ r.pending = s.handles[h].pending
      /\ r.closing = s.handles[h].closing /\ r.closed_queued = s.handles[h].closed_queued
  BY Zenon, <1>1 DEF Resources
<1>3. IsDriver(t) /\ t.handles = [s.handles EXCEPT ![h] = r] /\ SameOpsAndQueue(s, t)
      /\ t.timers = s.timers /\ t.refs = s.refs
  BY Zenon, <1>1 DEF Reveal, IsDriver, Fields, SameOpsAndQueue
<1> HIDE DEF r
<1>4. Rewritten(s, h, r, t)
  BY Zenon, <1>2, <1>3, Rewrite
<1>5. /\ Live(t) = Live(s) /\ ~t.handles[h].hidden /\ \A x \in Live(s) \ {h} : t.handles[x] = s.handles[x]
      /\ \A x \in Live(s) :
            /\ t.handles[x].kind = s.handles[x].kind /\ t.handles[x].pending = s.handles[x].pending
            /\ t.handles[x].referenced = s.handles[x].referenced /\ t.handles[x].closing = s.handles[x].closing
            /\ t.handles[x].closed_queued = s.handles[x].closed_queued
  BY Zenon, <1>2, <1>4 DEF Rewritten
<1>6. Tallies(s) /\ Lines(s) /\ Owed(s) /\ Weights(s) /\ Clocks(s) /\ HiddenBut(s, {})
  BY DEF Ledger, Sums
<1>7. LiveOps(t) = LiveOps(s) /\ t.ops = s.ops /\ t.queued = s.queued /\ \A x : OpsOf(t, x) = OpsOf(s, x)
  BY Zenon, <1>3, SameOpsOf DEF SameOpsAndQueue
<1>8. Tallies(t) /\ Lines(t) /\ Owed(t)
  <2>1. SamePending(s, t) /\ KeepsNamed(s, t)
    BY <1>5, <1>7 DEF SamePending, KeepsNamed, Parted
  <2> QED
    BY Zenon, <1>3, <1>6, <2>1, HandlesKeep
<1>9. Weights(t)
  <2>1. Weighty(t) = Weighty(s)
    BY <1>5 DEF Weighty
  <2>2. \A x \in Live(s) \cup {None} : Referenced(t, x) <=> Referenced(s, x)
    BY <1>5 DEF Referenced, Present, Live
  <2>3. Weighing(t) = Weighing(s)
    BY <1>6, <1>7, <2>2 DEF Weighing, Tallies
  <2>4. Carried(t)
    <3>1. Carried(s) /\ \A i \in DOMAIN s.queued : s.queued[i].handle \in Live(s) \cup {None}
      BY Zenon, <1>6 DEF Weights, Lines, Named
    <3>2. ASSUME NEW i \in DOMAIN s.queued, s.queued[i].terminal, s.queued[i].op, s.queued[i].handle # None
          PROVE  s.queued[i].referenced = t.handles[s.queued[i].handle].referenced
      <4>1. s.queued[i].handle \in Live(s) /\ s.queued[i].referenced = s.handles[s.queued[i].handle].referenced
        BY Zenon, <3>1, <3>2 DEF Carried
      <4> QED
        BY Zenon, <1>5, <4>1
    <3> QED
      BY Zenon, <1>7, <3>2 DEF Carried
  <2> QED
    BY Zenon, <1>3, <1>6, <1>7, <2>1, <2>3, <2>4 DEF Weights, Refs
<1>10. Clocks(t)
  <2>1. SameClocks(s, t)
    BY <1>3, <1>5, <1>6 DEF SameClocks, Clocks, ClocksBut, Armed
  <2> QED
    BY Zenon, <1>3, <1>6, <2>1, ClocksKept
<1>11. HiddenBut(t, {})
  <2> SUFFICES ASSUME NEW x \in Live(t), t.handles[x].hidden PROVE Hiding(t, x)
    BY DEF HiddenBut
  <2>1. x \in Live(s) /\ Hiding(s, x) /\ t.handles[x] = s.handles[x]
    BY <1>5, <1>6 DEF HiddenBut
  <2> QED
    BY Zenon, <1>3, <2>1, HidingKept
<1> QED
  BY Zenon, <1>4, <1>5, <1>7, <1>8, <1>9, <1>10, <1>11 DEF Ledger, Sums, Rewritten

\* A driver is what its fields are.
LEMMA DriverEqual ==
  ASSUME NEW a, IsDriver(a), NEW b, IsDriver(b), SameButQueue(a, b), a.queued = b.queued
  PROVE  a = b
<1>1. \A x \in Fields : a[x] = b[x]
  BY Zenon DEF Fields, SameButQueue
<1>2. a = [x \in Fields |-> a[x]] /\ b = [x \in Fields |-> b[x]]
  BY Zenon DEF IsDriver
<1>3. [x \in Fields |-> a[x]] = [x \in Fields |-> b[x]]
  BY Zenon, <1>1
<1> QED
  BY Zenon, <1>2, <1>3

\* enqueue() moves no promise.
LEMMA EnqueueDriver ==
  ASSUME NEW s, IsDriver(s), NEW e, NEW t, t = Enqueue(s, e)
  PROVE  IsDriver(t) /\ SamePledges(s, t)
<1>1. IsDriver(t)
  BY Zenon DEF Enqueue, IsDriver, Fields
<1>2. SamePledges(s, t)
  BY Zenon DEF Enqueue, IsDriver, Fields, SamePledges
<1> QED
  BY Zenon, <1>1, <1>2

\* Completions that are queued the same way.
LEMMA EnqueueBeside ==
  ASSUME NEW s, IsDriver(s), NEW e, NEW f, f.class = e.class, f.referenced = e.referenced,
         NEW a, a = Enqueue(s, e), NEW b, b = Enqueue(s, f)
  PROVE  SameButQueue(a, b)
<1>1. Queues(s, e, a) /\ Queues(s, f, b)
  BY Zenon, EnqueueQueues
<1>2. SamePledges(s, a) /\ SamePledges(s, b)
  BY Zenon, EnqueueDriver
<1>3. a.buffered = b.buffered /\ a.refs = b.refs
  BY Zenon, <1>1 DEF Queues
<1> QED
  BY Zenon, <1>1, <1>2, <1>3 DEF Queues, SamePledges, SameButQueue

\* u and v are a and b after the same change to all but the queue.
Beside(a, b, u, v) ==
    IsDriver(u) /\ IsDriver(v) /\ SameButQueue(u, v) /\ u.queued = a.queued /\ v.queued = b.queued

\* retire() does not look at the queue.
LEMMA RetireBeside ==
  ASSUME NEW a, IsDriver(a), NEW b, IsDriver(b), SameButQueue(a, b), NEW o,
         NEW u, u = Retire(a, o), NEW v, v = Retire(b, o)
  PROVE  Beside(a, b, u, v)
<1>1. IsDriver(u) /\ u.queued = a.queued /\ u.timers = a.timers /\ u.buffered = a.buffered
      /\ u.outstanding = a.outstanding /\ u.deadlines = a.deadlines \ {o} /\ u.ops = [a.ops EXCEPT ![o] = Free]
  BY Zenon DEF Retire, IsDriver, Fields
<1>2. IsDriver(v) /\ v.queued = b.queued /\ v.timers = b.timers /\ v.buffered = b.buffered
      /\ v.outstanding = b.outstanding /\ v.deadlines = b.deadlines \ {o} /\ v.ops = [b.ops EXCEPT ![o] = Free]
  BY Zenon DEF Retire, IsDriver, Fields
<1>3. /\ u.handles = Pend(a, a.ops[o].handle, -1) /\ u.refs = a.refs - One(Referenced(a, a.ops[o].handle))
      /\ u.native_pending = a.native_pending - One(a.ops[o].native)
      /\ u.undelivered = a.undelivered - One(a.ops[o].port)
  BY Zenon DEF Retire, IsDriver, Fields
<1>4. /\ v.handles = Pend(b, b.ops[o].handle, -1) /\ v.refs = b.refs - One(Referenced(b, b.ops[o].handle))
      /\ v.native_pending = b.native_pending - One(b.ops[o].native)
      /\ v.undelivered = b.undelivered - One(b.ops[o].port)
  BY Zenon DEF Retire, IsDriver, Fields
<1>5. \A x, n : Pend(a, x, n) = Pend(b, x, n) /\ (Referenced(a, x) <=> Referenced(b, x))
  BY Zenon DEF SameButQueue, Pend, Referenced, Present
<1>6. One(Referenced(a, a.ops[o].handle)) = One(Referenced(b, b.ops[o].handle))
  BY Zenon, <1>5 DEF One, SameButQueue
<1>7. u.handles = v.handles /\ u.refs = v.refs /\ u.native_pending = v.native_pending /\ u.undelivered = v.undelivered
  BY ZenonT(60), <1>3, <1>4, <1>5, <1>6 DEF SameButQueue
<1>8. /\ u.timers = v.timers /\ u.buffered = v.buffered /\ u.outstanding = v.outstanding
      /\ u.deadlines = v.deadlines /\ u.ops = v.ops
  BY Zenon, <1>1, <1>2 DEF SameButQueue
<1> DEFINE armed(x) == x.multishot_armed - One(x.ops[o].multishot)
           surplus(x) == One(x.ops[o].multishot /\ x.multishot_reserved > armed(x))
<1>9. /\ u.multishot_armed = armed(a) /\ u.multishot_reserved = a.multishot_reserved - surplus(a)
      /\ u.reserved_handles = a.reserved_handles - a.ops[o].reserved_handles - surplus(a)
      /\ v.multishot_armed = armed(b) /\ v.multishot_reserved = b.multishot_reserved - surplus(b)
      /\ v.reserved_handles = b.reserved_handles - b.ops[o].reserved_handles - surplus(b)
  BY Zenon DEF Retire, IsDriver, Fields
<1>10. armed(a) = armed(b) /\ surplus(a) = surplus(b)
  BY Zenon DEF SameButQueue
<1> HIDE DEF armed, surplus
<1>11. u.multishot_armed = v.multishot_armed /\ u.multishot_reserved = v.multishot_reserved
       /\ u.reserved_handles = v.reserved_handles
  BY Zenon, <1>9, <1>10 DEF SameButQueue
<1>12. SameButQueue(u, v)
  BY Zenon, <1>7, <1>8, <1>11 DEF SameButQueue
<1> QED
  BY Zenon, <1>1, <1>2, <1>12 DEF Beside

\* A sequence is a function on its places.
LEMMA SeqIsFunction ==
  ASSUME NEW q \in Seq(Completions)
  PROVE  q \in [1 .. Len(q) -> Completions]
  OBVIOUS

Swap(q, f) == [q EXCEPT ![Len(q)] = f]

Swaps(q, f, v) == Swap(q, f) = v

\* Two sequences that differ in the entry just appended.
LEMMA LastReplaced ==
  ASSUME NEW q \in Seq(Completions), NEW e \in Completions, NEW f \in Completions,
         NEW u, u = Append(q, e), NEW v, v = Append(q, f)
  PROVE  Swaps(u, f, v)
<1> DEFINE n == Len(q) + 1
<1>1. /\ Len(q) \in Nat /\ DOMAIN u = 1 .. n /\ u[n] = e /\ u \in Seq(Completions)
      /\ \A i \in 1 .. Len(q) : u[i] = q[i]
  OBVIOUS
<1>2. DOMAIN v = 1 .. n /\ v[n] = f /\ v \in Seq(Completions) /\ \A i \in 1 .. Len(q) : v[i] = q[i]
  OBVIOUS
<1>3. Len(u) = n /\ Len(v) = n
  OBVIOUS
<1>4. v = [i \in 1 .. n |-> v[i]]
  <2>1. v \in [1 .. Len(v) -> Completions]
    BY Zenon, <1>2, SeqIsFunction
  <2>2. v \in [1 .. n -> Completions]
    BY Zenon, <1>3, <2>1
  <2> QED
    BY Zenon, <2>2
<1>5. [u EXCEPT ![n] = f] = [i \in 1 .. n |-> IF i = n THEN f ELSE u[i]]
  BY Zenon, <1>1
<1>6. \A i \in 1 .. n : v[i] = IF i = n THEN f ELSE u[i]
  BY <1>1, <1>2
<1> HIDE DEF n
<1>7. [u EXCEPT ![n] = f] = v
  BY Zenon, <1>4, <1>5, <1>6
<1> QED
  BY Zenon, <1>3, <1>7 DEF Swap, Swaps

\* Removing the name from the entry just queued is queueing it without the
\* name.
LEMMA UnopenedIs ==
  ASSUME NEW s, IsDriver(s), s.queued \in Seq(Completions), NEW o, NEW e \in Completions,
         NEW v, v = Retire(Enqueue(s, e), o), NEW f, f = Unname(e)
  PROVE  UnnameLast(v) = Retire(Enqueue(s, f), o)
<1> DEFINE a == Enqueue(s, e)
           b == Enqueue(s, f)
           w == Retire(b, o)
           x == UnnameLast(v)
<1>1. f \in Completions /\ f.class = e.class /\ f.referenced = e.referenced
  BY Zenon DEF Completions, Unname
<1>2. IsDriver(a) /\ IsDriver(b)
  BY Zenon, EnqueueDriver
<1>3. SameButQueue(a, b)
  BY Zenon, <1>1, EnqueueBeside
<1>4. a.queued = Append(s.queued, e) /\ b.queued = Append(s.queued, f)
  <2>1. Queues(s, e, a) /\ Queues(s, f, b)
    BY Zenon, EnqueueQueues
  <2> QED
    BY Zenon, <2>1 DEF Queues
<1>5. IsDriver(v) /\ IsDriver(w) /\ SameButQueue(v, w) /\ v.queued = a.queued /\ w.queued = b.queued
  <2> HIDE DEF a, b
  <2>1. v = Retire(a, o)
    BY DEF a
  <2>2. Beside(a, b, v, w)
    BY Zenon, <1>2, <1>3, <2>1, RetireBeside
  <2> QED
    BY Zenon, <2>2 DEF Beside
<1> HIDE DEF a, b, w
<1>6. /\ v.queued[Len(v.queued)] = e
      /\ [v.queued EXCEPT ![Len(v.queued)] = f] = Append(s.queued, f)
  <2>1. v.queued = Append(s.queued, e)
    BY Zenon, <1>4, <1>5
  <2>2. v.queued[Len(v.queued)] = e
    BY <2>1
  <2>3. PICK b1 : b1 = Append(s.queued, f)
    BY Zenon
  <2>4. Swaps(v.queued, f, b1)
    BY Zenon, <1>1, <2>1, <2>3, LastReplaced
  <2> QED
    BY Zenon, <2>2, <2>3, <2>4 DEF Swap, Swaps
<1>7. x = [v EXCEPT !.queued = Append(s.queued, f)]
  BY Zenon, <1>6 DEF UnnameLast, Unname
<1> HIDE DEF x
<1>8. IsDriver(x) /\ SameButQueue(x, v) /\ x.queued = Append(s.queued, f)
  BY Zenon, <1>5, <1>7 DEF IsDriver, Fields, SameButQueue
<1>9. SameButQueue(x, w) /\ x.queued = w.queued
  BY Zenon, <1>4, <1>5, <1>8 DEF SameButQueue
<1>10. x = w
  BY Zenon, <1>5, <1>8, <1>9, DriverEqual
<1> QED
  BY Zenon, <1>10 DEF x, w, b

---------------------------------------------------------------------------
\* finish_fs

\* The request that opens a file is all that knows its handle.
Opening(s, o, h) ==
    /\ OpsOf(s, h) = {o} /\ s.ops[o].kind = "fs"
    /\ ~s.handles[h].closing /\ s.handles[h].kind # "Timer"
    /\ \A i \in DOMAIN s.queued : s.queued[i].handle # h

\* The operation of a hidden handle is the one that opens it.
LEMMA HiddenOp ==
  ASSUME NEW s, Ledger(s), NEW o \in LiveOps(s), NEW h \in Live(s), Awaits(s, o, h)
  PROVE  Opening(s, o, h)
<1>1. Hiding(s, h)
  BY Zenon DEF Ledger, HiddenBut, Awaits
<1>2. o \in OpsOf(s, h)
  BY Zenon DEF OpsOf, Awaits
<1>3. PICK x \in LiveOps(s) : OpsOf(s, h) = {x} /\ s.ops[x].kind = "fs"
  BY Zenon, <1>1 DEF Hiding
<1>4. x = o
  BY Zenon, <1>2, <1>3
<1> QED
  BY Zenon, <1>1, <1>3, <1>4 DEF Hiding, Opening

\* The result without a name is a result of its operation.
LEMMA NamelessEnds ==
  ASSUME NEW s, Shaped(s), NEW o \in LiveOps(s), NEW e, e = Nameless(s, o)
  PROVE  Ending(s, o, e) /\ e.handle = None
<1> DEFINE a == Outcome(s, o, TRUE, None)
<1>1. OutcomeOf(s, o, TRUE, a)
  BY Zenon, OutcomeFields
<1>2. e = Unname(a)
  BY Zenon DEF Nameless
<1> HIDE DEF a
<1>3. a \in Completions /\ a.op /\ a.terminal = TRUE /\ ~a.closed /\ a.class = "NONE"
      /\ (a.referenced <=> Referenced(s, s.ops[o].handle))
  BY Zenon, <1>1 DEF OutcomeOf
<1>4. /\ e \in Completions /\ e.handle = None /\ e.op = a.op /\ e.terminal = a.terminal /\ e.closed = a.closed
      /\ e.class = a.class /\ e.referenced = a.referenced
  BY Zenon, <1>2, <1>3 DEF Completions, Unname
<1> QED
  BY Zenon, <1>3, <1>4 DEF Ending, Result

\* finish() of a last event on a handle that the host knows ends its operation
\* and keeps the books.
LEMMA FinishEnds ==
  ASSUME Counting, NEW s, Shaped(s), Ledger(s), NEW o \in LiveOps(s), ~IsTimer(s.ops[o].kind), Shown(s, o),
         NEW brings \in Handles \cup {None}, NEW t, t = Finish(s, o, TRUE, brings)
  PROVE  Ends(s, o, t)
  BY Zenon, FinishOther DEF Shown, Ends

\* An open that failed: its handle goes with its operation.
LEMMA UnopenedLedger ==
  ASSUME Counting, NEW s, Shaped(s), Ledger(s), NEW o \in LiveOps(s), NEW h \in Live(s), Awaits(s, o, h),
         NEW e, e = Nameless(s, o), NEW w, w = Retire(Enqueue(s, e), o), NEW t, t = RemoveHandle(w, h)
  PROVE  Ends(s, o, t)
<1>0. s.ops[o].handle = h
  BY Zenon DEF Awaits
<1>1. Ending(s, o, e) /\ e.handle = None
  BY Zenon, NamelessEnds
<1>2. /\ OpsOf(s, h) = {o} /\ s.ops[o].kind = "fs" /\ ~s.handles[h].closing /\ s.handles[h].kind # "Timer"
      /\ \A i \in DOMAIN s.queued : s.queued[i].handle # h
  <2>1. Opening(s, o, h)
    BY Zenon, HiddenOp
  <2> QED
    BY Zenon, <2>1 DEF Opening
<1>3. Sums(s) /\ Clocks(s) /\ HiddenBut(s, {})
  BY Zenon DEF Ledger
<1>4. ~IsTimer(s.ops[o].kind)
  BY <1>2 DEF IsTimer
<1>5. ClocksBut(s, o)
  BY Zenon, <1>3, <1>4, OthersClocks
<1>6. HiddenBut(s, {s.ops[o].handle})
  BY Zenon, <1>3 DEF HiddenBut
<1>7. Shaped(w) /\ Sums(w) /\ Clocks(w) /\ HiddenBut(w, {s.ops[o].handle}) /\ Ended(s, o, e, w)
  BY Zenon, <1>1, <1>3, <1>5, <1>6, EndKeeps
<1>8. /\ Live(w) = Live(s) /\ \A x \in Live(s) : Alike(w.handles[x], s.handles[x])
      /\ w.queued = Append(s.queued, e) /\ OpsOf(w, h) = OpsOf(s, h) \ {o}
      /\ LiveOps(w) = LiveOps(s) \ {o} /\ \A x \in LiveOps(w) : w.ops[x] = s.ops[x]
  BY Zenon, <1>0, <1>7 DEF Ended, SameFlags
<1>9. \A i \in DOMAIN w.queued : w.queued[i].handle # h
  <2>1. s.queued \in Seq(Completions) /\ e \in Completions /\ h # None
    BY <1>1, <1>3, NoneAssumption DEF Sums, Lines, Ending, Live
  <2>2. Grown(s, e, w)
    BY Zenon, <1>8, <2>1, QueuedMore
  <2> QED
    BY Zenon, <1>1, <1>2, <2>1, <2>2 DEF Grown
<1>10. Forgotten(w, h)
  <2>1. OpsOf(w, h) = {}
    BY Zenon, <1>2, <1>8
  <2>2. w.handles[h].kind # "Timer"
    BY Zenon, <1>2, <1>8 DEF Alike
  <2> QED
    BY Zenon, <1>9, <2>1, <2>2 DEF Forgotten
<1>11. IsDriver(t) /\ Loses(w, t, h)
  BY Zenon, <1>7, RemoveLoses DEF Shaped
<1>12. Shaped(t) /\ Ledger(t)
  <2>1. h \in Live(w) /\ HiddenBut(w, {h})
    BY Zenon, <1>0, <1>7, <1>8
  <2> QED
    BY Zenon, <1>7, <1>10, <1>11, <2>1, LosesLedger
<1>13. Others(t) = Others(s) \ {o}
  <2>1. t.ops = w.ops
    BY Zenon, <1>11 DEF Loses, SameOpsAndQueue
  <2>2. LiveOps(t) = LiveOps(s) \ {o} /\ \A x \in LiveOps(t) : t.ops[x] = s.ops[x]
    BY Zenon, <1>8, <2>1 DEF LiveOps
  <2> QED
    BY <2>2 DEF Others
<1> QED
  BY Zenon, <1>12, <1>13 DEF Ends

\* What finish_fs() makes of an open that failed.
LEMMA UnopenedFinish ==
  ASSUME Counting, NEW s, Shaped(s), Ledger(s), NEW o \in LiveOps(s), NEW h \in Live(s), Awaits(s, o, h),
         NEW e, e = Nameless(s, o), NEW w, w = Retire(Enqueue(s, e), o)
  PROVE  FinishFs(s, o, FALSE) = RemoveHandle(w, h)
<1>0. s.ops[o].handle = h /\ s.handles[h].hidden
  BY Zenon DEF Awaits
<1> DEFINE a == Outcome(s, o, TRUE, None)
           v == Retire(Enqueue(s, a), o)
           f == Finish(s, o, TRUE, None)
<1>1. OutcomeOf(s, o, TRUE, a)
  BY Zenon, OutcomeFields
<1>2. e = Unname(a)
  BY Zenon DEF Nameless
<1>3. f = MaybeClosed(v, h)
  BY Zenon, <1>0, FinishIs
<1>4. Present(s, h)
  BY NoneAssumption DEF Present, Live
<1>5. FinishFs(s, o, FALSE) = RemoveHandle(UnnameLast(f), h)
  BY Zenon, <1>0, <1>4 DEF FinishFs, UnnameLast
<1> HIDE DEF f
<1>6. IsDriver(s) /\ Tallies(s) /\ Lines(s) /\ s.queued \in Seq(Completions)
  BY DEF Shaped, Ledger, Sums, Lines
<1>7. v.handles[h].closing = s.handles[h].closing
  <2> HIDE DEF a
  <2>1. Ending(s, o, a) /\ a \in Completions
    BY Zenon, <1>1 DEF OutcomeOf, Ending, Result
  <2>2. Ended(s, o, a, v)
    BY Zenon, <1>6, <2>1, EndShape
  <2> QED
    BY Zenon, <2>2 DEF Ended, SameFlags, Alike
<1>8. ~v.handles[h].closing
  BY Zenon, <1>7, HiddenOp DEF Opening
<1>9. a \in Completions
  BY Zenon, <1>1 DEF OutcomeOf
<1> HIDE DEF a
<1>10. UnnameLast(v) = Retire(Enqueue(s, e), o)
  BY ZenonT(60), <1>2, <1>6, <1>9, UnopenedIs
<1> HIDE DEF v
<1>11. f = v
  BY Zenon, <1>3, <1>8 DEF MaybeClosed
<1> QED
  BY Zenon, <1>5, <1>10, <1>11

\* An open that succeeded.
LEMMA OpenedLedger ==
  ASSUME Counting, NEW s, Shaped(s), Ledger(s), NEW o \in LiveOps(s), ~IsTimer(s.ops[o].kind),
         NEW h \in Live(s), Awaits(s, o, h), NEW u, u = Reveal(s, h), NEW t, t = Finish(u, o, TRUE, h)
  PROVE  Ends(s, o, t)
<1>1. h \in Handles \cup {None}
  BY Zenon DEF Live
<1>2. Shaped(u) /\ Ledger(u) /\ u.ops = s.ops /\ ~u.handles[h].hidden
  BY SMT, RevealLedger
<1>3. o \in LiveOps(u) /\ ~IsTimer(u.ops[o].kind) /\ Others(u) = Others(s)
  BY Zenon, <1>2 DEF LiveOps, Others
<1>4. Shown(u, o)
  BY Zenon, <1>2 DEF Shown, Awaits
<1>5. Ends(u, o, t)
  BY Zenon, <1>1, <1>2, <1>3, <1>4, FinishEnds
<1> QED
  BY Zenon, <1>3, <1>5 DEF Ends

\* finish_fs().
LEMMA FinishFsLedger ==
  ASSUME Counting, NEW s, Shaped(s), Ledger(s), NEW o \in LiveOps(s), ~IsTimer(s.ops[o].kind),
         NEW opened \in BOOLEAN, NEW t, t = FinishFs(s, o, opened)
  PROVE  Ends(s, o, t)
<1>0. PICK h : s.ops[o].handle = h
  OBVIOUS
<1>1. h # None => h \in Live(s)
  BY <1>0 DEF Ledger, Sums, Tallies
<1>2. h # None => Present(s, h)
  BY Zenon, <1>1 DEF Present, Live
<1>3. CASE ~(Present(s, h) /\ s.handles[h].hidden)
  <2>1. t = Finish(s, o, TRUE, None)
    BY Zenon, <1>0, <1>3 DEF FinishFs
  <2>2. Shown(s, o)
    BY Zenon, <1>0, <1>2, <1>3 DEF Shown
  <2> QED
    BY Zenon, <2>1, <2>2, FinishEnds
<1>4. CASE Present(s, h) /\ s.handles[h].hidden /\ opened
  <2>1. h \in Live(s) /\ Awaits(s, o, h)
    BY Zenon, <1>0, <1>1, <1>4 DEF Present, Awaits
  <2>2. t = Finish(Reveal(s, h), o, TRUE, h)
    BY Zenon, <1>0, <1>4 DEF FinishFs, Reveal
  <2> QED
    BY Zenon, <2>1, <2>2, OpenedLedger
<1>5. CASE Present(s, h) /\ s.handles[h].hidden /\ ~opened
  <2>1. h \in Live(s) /\ Awaits(s, o, h) /\ t = FinishFs(s, o, FALSE)
    BY Zenon, <1>0, <1>1, <1>5 DEF Present, Awaits
  <2>2. PICK e : e = Nameless(s, o)
    BY Zenon
  <2>3. PICK w : w = Retire(Enqueue(s, e), o)
    BY Zenon
  <2>4. FinishFs(s, o, FALSE) = RemoveHandle(w, h)
    BY Zenon, <2>1, <2>2, <2>3, UnopenedFinish
  <2>5. t = RemoveHandle(w, h)
    BY Zenon, <2>1, <2>4
  <2> QED
    BY Zenon, <2>1, <2>2, <2>3, <2>5, UnopenedLedger
<1> QED
  BY Zenon, <1>3, <1>4, <1>5

---------------------------------------------------------------------------
\* Posts, delivery, and the driver at rest

\* The oldest completion is taken off the queue and out of the counts.
Pop(s) ==
    [s EXCEPT !.queued = Tail(@),
              !.refs = @ - One(Head(s.queued).referenced),
              !.buffered = Buffer(s, Head(s.queued).class, -1),
              !.outstanding = @ - One(Head(s.queued).terminal /\ Head(s.queued).op)]

Popped(s, e, t) ==
    /\ t.queued = Tail(s.queued) /\ t.buffered = Buffer(s, e.class, -1)
    /\ t.refs = s.refs - One(e.referenced) /\ t.outstanding = s.outstanding - One(e.terminal /\ e.op)
    /\ t.handles = s.handles /\ t.ops = s.ops /\ t.timers = s.timers /\ t.deadlines = s.deadlines
    /\ t.native_pending = s.native_pending /\ t.undelivered = s.undelivered
    /\ Live(t) = Live(s) /\ LiveOps(t) = LiveOps(s) /\ \A x : OpsOf(t, x) = OpsOf(s, x)

\* Popping the first completion changes the queue and the counts it is in.
LEMMA PopShape ==
  ASSUME NEW s, Shaped(s), NEW t, t = Pop(s)
  PROVE  Shaped(t) /\ Popped(s, Head(s.queued), t)
<1>1. IsDriver(s)
  BY Zenon DEF Shaped
<1>2. /\ IsDriver(t) /\ t.queued = Tail(s.queued) /\ t.buffered = Buffer(s, Head(s.queued).class, -1)
      /\ t.refs = s.refs - One(Head(s.queued).referenced)
      /\ t.outstanding = s.outstanding - One(Head(s.queued).terminal /\ Head(s.queued).op)
      /\ t.handles = s.handles /\ t.ops = s.ops /\ t.timers = s.timers /\ t.deadlines = s.deadlines
      /\ t.native_pending = s.native_pending /\ t.undelivered = s.undelivered
  BY Zenon, <1>1 DEF Pop, IsDriver, Fields
<1>3. Live(t) = Live(s) /\ LiveOps(t) = LiveOps(s) /\ \A x : OpsOf(t, x) = OpsOf(s, x)
  BY Zenon, <1>2 DEF Live, LiveOps, OpsOf
<1> QED
  BY Zenon, <1>2, <1>3 DEF Shaped, Popped

\* Whatever is in u is in q.
Behind(q, u) == \A i \in DOMAIN u : \E j \in DOMAIN q : u[i] = q[j]

\* The rest of the queue is in its order.
LEMMA TailBehind ==
  ASSUME NEW q \in Seq(Completions), q # << >>, NEW u, u = Tail(q)
  PROVE  Behind(q, u)
<1> SUFFICES ASSUME NEW i \in DOMAIN u PROVE \E j \in DOMAIN q : u[i] = q[j]
  BY DEF Behind
<1>1. i + 1 \in DOMAIN q /\ u[i] = q[i + 1]
  OBVIOUS
<1> QED
  BY Zenon, <1>1

\* Popping keeps the counts exact; when a Closed is popped, no operation and no
\* completion of its handle is left.
LEMMA PopSums ==
  ASSUME Counting, NEW s, Shaped(s), Sums(s), s.queued # << >>, NEW e, e = Head(s.queued),
         NEW t, Popped(s, e, t)
  PROVE  /\ Sums(t) /\ e.handle \in Live(s) \cup {None}
         /\ e.closed => /\ e.handle # None /\ Parted(s, e.handle)
                        /\ \A i \in DOMAIN t.queued : t.queued[i].handle # e.handle
<1>1. /\ t.queued = Tail(s.queued) /\ t.buffered = Buffer(s, Head(s.queued).class, -1)
      /\ t.handles = s.handles /\ t.ops = s.ops
  BY Zenon DEF Popped
<1>2. Tallies(s) /\ Lines(s) /\ Owed(s) /\ Refs(s) /\ Carried(s) /\ s.queued \in Seq(Completions)
  BY DEF Sums, Lines, Weights
<1>3. /\ Lines(t) /\ e \in Completions /\ Proper(e) /\ e.handle \in Live(s) \cup {None}
      /\ e.closed => Parted(s, e.handle)
      /\ e.closed => \A i \in DOMAIN t.queued : t.queued[i].handle # e.handle
  BY Zenon, <1>1, <1>2, PopLines
<1>4. e.closed => e.handle # None
  BY <1>3 DEF Proper, Event, Result, Goodbye
<1>5. Tallies(t)
  <2>1. SameTallies(s, t) /\ SamePending(s, t)
    BY DEF Popped, SameTallies, SamePending
  <2> QED
    BY Zenon, <1>2, <2>1, TalliesKept
<1>6. Numbers(s)
  BY Zenon, <1>2, NumbersHold
<1>7. /\ Cardinality(At(t.queued, Results)) = Cardinality(At(s.queued, Results)) - One(e \in Results)
      /\ Cardinality(At(t.queued, Counted)) = Cardinality(At(s.queued, Counted)) - One(e \in Counted)
  BY Zenon, <1>1, <1>2, AtTail
<1>8. (e \in Results <=> e.terminal /\ e.op) /\ (e \in Counted <=> e.referenced)
  BY <1>3 DEF Results, Counted
<1>9. Owed(t)
  <2>1. t.outstanding = s.outstanding - One(e \in Results) /\ LiveOps(t) = LiveOps(s)
    BY <1>8 DEF Popped, One
  <2> QED
    <3> DEFINE a == Cardinality(LiveOps(s))  b == Cardinality(At(s.queued, Results))  p == One(e \in Results)
    <3>1. s.outstanding = a + b /\ a \in Nat /\ b \in Nat
      BY Zenon, <1>2, <1>6 DEF Owed, Numbers
    <3>2. Cardinality(LiveOps(t)) = a /\ Cardinality(At(t.queued, Results)) = b - p /\ t.outstanding = s.outstanding - p
      BY Zenon, <1>7, <2>1
    <3>3. p \in Nat
      BY DEF One
    <3> HIDE DEF a, b, p
    <3>4. t.outstanding = Cardinality(LiveOps(t)) + Cardinality(At(t.queued, Results))
      BY <3>1, <3>2, <3>3
    <3> QED
      BY Zenon, <3>4 DEF Owed
<1>10. Refs(t)
  <2>1. t.refs = s.refs - One(e \in Counted)
    BY <1>8 DEF Popped, One
  <2>2. Weighty(t) = Weighty(s) /\ Weighing(t) = Weighing(s)
    BY Zenon DEF Popped, Weighty, Weighing, Referenced, Present
  <2>3. /\ s.refs = Cardinality(Weighty(s)) + Cardinality(Weighing(s)) + Cardinality(At(s.queued, Counted))
        /\ Cardinality(Weighty(s)) \in Nat /\ Cardinality(Weighing(s)) \in Nat
        /\ Cardinality(At(s.queued, Counted)) \in Nat
    BY Zenon, <1>2, <1>6 DEF Refs, Numbers
  <2>4. One(e \in Counted) \in Nat
    BY DEF One
  <2>5. t.refs = Cardinality(Weighty(t)) + Cardinality(Weighing(t)) + Cardinality(At(t.queued, Counted))
    BY <1>7, <2>1, <2>2, <2>3, <2>4
  <2> QED
    BY Zenon, <2>5 DEF Refs
<1>11. Carried(t)
  <2>1. Behind(s.queued, t.queued)
    BY Zenon, <1>1, <1>2, TailBehind
  <2> QED
    BY Zenon, <1>1, <1>2, <2>1 DEF Carried, Behind
<1> QED
  BY Zenon, <1>3, <1>4, <1>5, <1>9, <1>10, <1>11 DEF Sums, Weights

\* Popping the first completion keeps the books.
LEMMA PopLedger ==
  ASSUME Counting, NEW s, Shaped(s), Ledger(s), s.queued # << >>, NEW e, e = Head(s.queued),
         NEW t, Popped(s, e, t)
  PROVE  Ledger(t)
<1>1. Sums(s) /\ Clocks(s) /\ HiddenBut(s, {}) /\ s.queued \in Seq(Completions)
  BY DEF Ledger, Sums, Lines
<1>2. Sums(t)
  BY Zenon, <1>1, PopSums
<1>3. /\ t.ops = s.ops /\ t.timers = s.timers /\ t.deadlines = s.deadlines /\ t.handles = s.handles
      /\ LiveOps(t) = LiveOps(s) /\ Live(t) = Live(s) /\ \A y : OpsOf(t, y) = OpsOf(s, y)
  BY Zenon DEF Popped
<1>4. Clocks(t)
  <2>1. ASSUME NEW o \in LiveOps(t) \ {None} PROVE TimerOp(t, o)
    <3>1. TimerOp(s, o)
      BY Zenon, <1>1, <1>3 DEF Clocks, ClocksBut
    <3> QED
      BY Zenon, <1>3, <3>1 DEF TimerOp
  <2>2. ASSUME NEW h \in t.timers PROVE Armed(t, h, None)
    BY <1>1, <1>3 DEF Clocks, ClocksBut, Armed
  <2> QED
    BY Zenon, <2>1, <2>2 DEF Clocks, ClocksBut
<1>5. HiddenBut(t, {})
  <2>1. Behind(s.queued, t.queued)
    BY Zenon, <1>1, TailBehind DEF Popped
  <2>2. ASSUME NEW h \in Live(t) \ {}, t.handles[h].hidden PROVE Hiding(t, h)
    <3>1. Hiding(s, h)
      BY Zenon, <1>1, <1>3, <2>2 DEF HiddenBut
    <3>2. \A i \in DOMAIN t.queued : t.queued[i].handle # h
      BY Zenon, <2>1, <3>1 DEF Hiding, Behind
    <3>3. ~t.handles[h].closing /\ t.handles[h].kind # "Timer"
      BY Zenon, <1>3, <3>1 DEF Hiding
    <3>4. \E o \in LiveOps(t) : OpsOf(t, h) = {o} /\ t.ops[o].kind = "fs"
      BY Zenon, <1>3, <3>1 DEF Hiding
    <3> QED
      BY Zenon, <3>2, <3>3, <3>4 DEF Hiding
  <2> QED
    BY Zenon, <2>2 DEF HiddenBut
<1> QED
  BY Zenon, <1>2, <1>4, <1>5 DEF Ledger

\* drain() hands over a completion; with Closed goes the handle.
LEMMA DrainLedger ==
  ASSUME Counting, NEW s, Shaped(s), Ledger(s), s.queued # << >>, NEW t, t = DrainOne(s)
  PROVE  Shaped(t) /\ Ledger(t) /\ t.ops = s.ops /\ Handed(s, Head(s.queued), t)
<1> DEFINE e == Head(s.queued)
           u == Pop(s)
<1>1. t = IF e.closed /\ Present(s, e.handle) THEN RemoveHandle(u, e.handle) ELSE u
  BY Zenon DEF DrainOne, Pop
<1>2. Shaped(u) /\ Popped(s, e, u)
  BY Zenon, PopShape
<1> HIDE DEF u
<1>3. Ledger(u)
  BY Zenon, <1>2, PopLedger
<1>4. Sums(s)
  BY Zenon DEF Ledger
<1>5. /\ e.handle \in Live(s) \cup {None}
      /\ e.closed => /\ e.handle # None /\ Parted(s, e.handle)
                     /\ \A i \in DOMAIN u.queued : u.queued[i].handle # e.handle
  BY Zenon, <1>2, <1>4, PopSums
<1>6. u.ops = s.ops /\ Handed(s, e, u) /\ Live(u) = Live(s) /\ u.handles = s.handles /\ \A x : OpsOf(u, x) = OpsOf(s, x)
  BY Zenon, <1>2 DEF Popped, Handed
<1> HIDE DEF e
<1>7. CASE e.closed /\ Present(s, e.handle)
  <2>1. t = RemoveHandle(u, e.handle) /\ e.handle \in Live(u)
    BY Zenon, <1>1, <1>5, <1>6, <1>7
  <2>2. Forgotten(u, e.handle)
    BY Zenon, <1>5, <1>6, <1>7 DEF Forgotten, Parted
  <2>3. IsDriver(t) /\ Loses(u, t, e.handle)
    BY Zenon, <1>2, <2>1, RemoveLoses DEF Shaped
  <2>4. Sums(u) /\ Clocks(u) /\ HiddenBut(u, {e.handle})
    BY Zenon, <1>3 DEF Ledger, HiddenBut
  <2>5. Shaped(t) /\ Ledger(t)
    BY Zenon, <1>2, <2>1, <2>2, <2>3, <2>4, LosesLedger
  <2>6. t.ops = s.ops /\ Handed(s, e, t)
    BY Zenon, <1>6, <2>3 DEF Loses, SameOpsAndQueue, Handed
  <2> QED
    BY Zenon, <2>5, <2>6 DEF e
<1>8. CASE ~(e.closed /\ Present(s, e.handle))
  <2>1. t = u
    BY Zenon, <1>1, <1>8
  <2> QED
    BY Zenon, <1>2, <1>3, <1>6, <2>1 DEF e
<1> QED
  BY Zenon, <1>7, <1>8

===============================================================================
