---------------------------- MODULE DriverProofs ----------------------------
(***************************************************************************)
(* The handle slots that armed accepts were promised are always free, and  *)
(* no accepted connection is destroyed for want of a slot.  The first part *)
(* says what each private method of Driver does to the promises, the       *)
(* second puts the methods together into the calls and the steps of turn.  *)
(* DriverTheorems closes the argument: rebuild() finds nobody owing        *)
(* anything because the ledger of DriverCalls balances.                    *)
(***************************************************************************)
EXTENDS Driver, TLAPS

\* What the counting below needs to know of finite sets; DriverTheorems takes
\* it from the library's theorems.
SetsCount ==
    /\ IsFiniteSet({}) /\ Cardinality({}) = 0
    /\ \A T : IsFiniteSet(T) => Cardinality(T) \in Nat
    /\ \A T, U : IsFiniteSet(U) /\ T \subseteq U => IsFiniteSet(T) /\ Cardinality(T) <= Cardinality(U)
    /\ \A T, x : IsFiniteSet(T) /\ x \notin T => Cardinality(T \cup {x}) = Cardinality(T) + 1
    /\ \A T, x : IsFiniteSet(T) /\ x \in T => Cardinality(T \ {x}) = Cardinality(T) - 1
    /\ \A T, U : IsFiniteSet(T) /\ IsFiniteSet(U) /\ T \cap U = {} =>
          Cardinality(T \cup U) = Cardinality(T) + Cardinality(U)

Held(s) == {o \in LiveOps(s) : s.ops[o].reserved_handles = 1}
Multi(s) == {o \in LiveOps(s) : s.ops[o].multishot}

Typed(s) ==
    /\ IsDriver(s)
    /\ s.handles \in [Handles -> Resources \cup {None}]
    /\ s.ops \in [Ops -> Operations \cup {None}]
    /\ s.reserved_handles \in Int /\ s.multishot_armed \in Int /\ s.multishot_reserved \in Int
    /\ s.deadlines \subseteq LiveOps(s)

Promises(s) ==
    /\ s.reserved_handles = s.multishot_reserved + Cardinality(Held(s))
    /\ s.multishot_armed = Cardinality(Multi(s))
    /\ s.multishot_reserved \in 0 .. s.multishot_armed
    /\ s.reserved_handles <= Remaining(s)

Good(s) == Typed(s) /\ Promises(s)

\* The promises of s are those of t, and no deadline is new.
SamePromises(s, t) ==
    /\ t.reserved_handles = s.reserved_handles
    /\ t.multishot_armed = s.multishot_armed
    /\ t.multishot_reserved = s.multishot_reserved
    /\ t.deadlines \subseteq s.deadlines

\* t differs from s in neither slots, operations nor promises.
SameBooks(s, t) == t.ops = s.ops /\ Live(t) = Live(s) /\ SamePromises(s, t)

\* The kinds of operations that carry promises.
Kinds(s) ==
    \A o \in LiveOps(s) :
        /\ s.ops[o].kind = "accept" => s.ops[o].reserved_handles = 1 /\ ~s.ops[o].multishot
        /\ s.ops[o].kind = "accept_start" => s.ops[o].multishot

---------------------------------------------------------------------------
\* Counting

\* The sets that are counted are finite, so their cardinalities are naturals.
LEMMA Counts ==
  ASSUME SetsCount, NEW s
  PROVE  /\ IsFiniteSet(Live(s)) /\ IsFiniteSet(Handles \ Live(s)) /\ Remaining(s) \in Nat
         /\ IsFiniteSet(LiveOps(s))
         /\ IsFiniteSet(Held(s)) /\ Cardinality(Held(s)) \in Nat
         /\ IsFiniteSet(Multi(s)) /\ Cardinality(Multi(s)) \in Nat
<1>1. Live(s) \subseteq Handles /\ Handles \ Live(s) \subseteq Handles /\ LiveOps(s) \subseteq Ops
      /\ Held(s) \subseteq Ops /\ Multi(s) \subseteq Ops
  BY DEF Live, LiveOps, Held, Multi
<1>2. IsFiniteSet(Live(s)) /\ IsFiniteSet(Handles \ Live(s)) /\ IsFiniteSet(LiveOps(s))
      /\ IsFiniteSet(Held(s)) /\ IsFiniteSet(Multi(s))
  BY <1>1, SlotsAssumption DEF SetsCount
<1> QED
  BY <1>2 DEF Remaining, SetsCount

\* What is counted depends on the operations only.
LEMMA SameOps ==
  ASSUME NEW s, NEW t, t.ops = s.ops
  PROVE  LiveOps(t) = LiveOps(s) /\ Held(t) = Held(s) /\ Multi(t) = Multi(s)
  BY DEF LiveOps, Held, Multi

\* Promises that did not change hold as long as the slots for them are free.
LEMMA PromisesKept ==
  ASSUME NEW s, Promises(s), NEW t, SamePromises(s, t), Held(t) = Held(s), Multi(t) = Multi(s),
         s.reserved_handles <= Remaining(t)
  PROVE  Promises(t)
  BY DEF Promises, SamePromises

\* Books that agree are equally good.
LEMMA SameBooksGood ==
  ASSUME NEW s, NEW t, Good(s), Typed(t), SameBooks(s, t)
  PROVE  Good(t)
  BY DEF Good, Promises, SameBooks, SamePromises, Held, Multi, LiveOps, Remaining

\* enqueue() changes no slot, operation or promise.
LEMMA EnqueueGood ==
  ASSUME NEW s, Good(s), NEW e
  PROVE  Good(Enqueue(s, e)) /\ SameBooks(s, Enqueue(s, e))
<1> DEFINE t == Enqueue(s, e)
<1>1. IsDriver(t) /\ t.handles = s.handles /\ t.ops = s.ops /\ SamePromises(s, t)
  BY Zenon DEF Good, Typed, IsDriver, Fields, Enqueue, SamePromises
<1>2. Typed(t) /\ SameBooks(s, t)
  BY <1>1 DEF Good, Typed, SameBooks, SamePromises, Live, LiveOps
<1> QED
  BY <1>2, SameBooksGood

\* Changing a resource in place keeps the books.
LEMMA UpdateResource ==
  ASSUME NEW s, Good(s), NEW t, IsDriver(t), NEW h \in Handles, s.handles[h] # None,
         NEW r \in Resources,
         t.handles = [s.handles EXCEPT ![h] = r], t.ops = s.ops, SamePromises(s, t)
  PROVE  Good(t) /\ SameBooks(s, t)
<1>1. Typed(t)
  BY SameOps DEF Good, Typed, SamePromises
<1>2. \A x \in Handles : t.handles[x] = None <=> s.handles[x] = None
  BY VacantAssumption DEF Good, Typed
<1>3. Live(t) = Live(s)
  BY <1>2 DEF Live, Free
<1> QED
  BY <1>1, <1>3, SameBooksGood DEF SameBooks

\* maybe_closed() changes no slot, operation or promise.
LEMMA MaybeClosedGood ==
  ASSUME NEW s, Good(s), NEW h \in Handles \cup {None}
  PROVE  Good(MaybeClosed(s, h)) /\ SameBooks(s, MaybeClosed(s, h))
<1>1. CASE MaybeClosed(s, h) = s
  BY <1>1 DEF SameBooks, SamePromises
<1>2. CASE Present(s, h) /\ MaybeClosed(s, h) # s
  <2> DEFINE u == [s EXCEPT !.handles[h].closed_queued = TRUE]
             e == [Entry(h, FALSE, TRUE, "NONE") EXCEPT !.closed = TRUE]
             r == [s.handles[h] EXCEPT !.closed_queued = TRUE]
  <2>1. h \in Handles /\ s.handles[h] \in Resources /\ s.handles[h] # None
    BY <1>2 DEF Present, Good, Typed, Free
  <2>2. r \in Resources
    BY Zenon, <2>1 DEF Resources
  <2>3. u = [s EXCEPT !.handles = [s.handles EXCEPT ![h] = r]]
    BY <2>1 DEF Good, Typed, IsDriver, Fields
  <2>4. MaybeClosed(s, h) = Enqueue(u, e)
    BY <1>2 DEF MaybeClosed
  <2> HIDE DEF u, r, e
  <2>5. IsDriver(u) /\ u.handles = [s.handles EXCEPT ![h] = r] /\ u.ops = s.ops
        /\ SamePromises(s, u)
    BY <2>3 DEF Good, Typed, IsDriver, Fields, SamePromises
  <2>6. Good(u) /\ SameBooks(s, u)
    BY <2>1, <2>2, <2>5, UpdateResource
  <2>7. Good(Enqueue(u, e)) /\ SameBooks(u, Enqueue(u, e))
    BY <2>6, EnqueueGood
  <2> QED
    BY <2>4, <2>6, <2>7 DEF SameBooks, SamePromises
<1> QED
  BY <1>1, <1>2 DEF MaybeClosed

\* new_handle() takes a slot that is not promised.
LEMMA NewHandleGood ==
  ASSUME SetsCount, NEW s, Good(s), NEW h \in Room(s), NEW kind \in {"Socket", "File", "Timer"}
  PROVE  LET t == NewHandle(s, h, kind)
         IN  /\ Good(t) /\ t.ops = s.ops /\ SamePromises(s, t)
             /\ Live(t) = Live(s) \cup {h} /\ Remaining(t) = Remaining(s) - 1
             /\ h \in Handles \ Live(s)
<1> DEFINE t == NewHandle(s, h, kind)
<1>1. h \in Handles \ Live(s) /\ Remaining(s) > s.reserved_handles
  BY DEF Room
<1>2. Resource(kind) \in Resources /\ Resource(kind) # None
  <2>1. Resource(kind) \in Resources
    BY DEF Resource, Resources
  <2> QED
    BY <2>1, VacantAssumption
<1>3. IsDriver(t) /\ t.handles = [s.handles EXCEPT ![h] = Resource(kind)] /\ t.ops = s.ops
      /\ SamePromises(s, t)
  BY Zenon DEF NewHandle, Good, Typed, IsDriver, Fields, SamePromises
<1> HIDE DEF t
<1>4. Typed(t)
  BY <1>1, <1>2, <1>3, SameOps DEF Good, Typed, SamePromises
<1>5. Live(t) = Live(s) \cup {h}
  BY <1>1, <1>2, <1>3 DEF Good, Typed, Live, Free
<1>6. Handles \ Live(t) = (Handles \ Live(s)) \ {h}
  BY <1>5
<1>7. Remaining(t) = Remaining(s) - 1
  BY Zenon, <1>1, <1>6, Counts DEF Remaining, SetsCount
<1>8. Promises(t)
  <2>1. Held(t) = Held(s) /\ Multi(t) = Multi(s)
    BY <1>3, SameOps
  <2>2. Remaining(s) \in Nat /\ s.reserved_handles \in Int
    BY Zenon, Counts DEF Good, Typed
  <2>3. s.reserved_handles <= Remaining(t)
    BY <1>1, <1>7, <2>2
  <2> QED
    BY <1>3, <2>1, <2>3, PromisesKept DEF Good
<1> QED
  BY <1>1, <1>3, <1>4, <1>5, <1>7, <1>8 DEF Good, t

\* Removing a handle frees a slot, or none if the slot was free.
LEMMA RemoveHandleGood ==
  ASSUME SetsCount, NEW s, Good(s), NEW h
  PROVE  LET t == RemoveHandle(s, h)
         IN  /\ Good(t) /\ t.ops = s.ops /\ SamePromises(s, t)
             /\ Live(t) = Live(s) \ {h} /\ Remaining(t) >= Remaining(s)
<1> DEFINE t == RemoveHandle(s, h)
<1>1. IsDriver(t) /\ t.handles = [s.handles EXCEPT ![h] = None] /\ t.ops = s.ops
      /\ SamePromises(s, t)
  BY Zenon DEF RemoveHandle, Good, Typed, IsDriver, Fields, SamePromises, Free
<1> HIDE DEF t
<1>2. Typed(t)
  BY Zenon, <1>1, SameOps DEF Good, Typed, SamePromises
<1>3. Live(t) = Live(s) \ {h}
  BY <1>1 DEF Good, Typed, Live, Free
<1>4. Remaining(t) >= Remaining(s)
  <2>1. Handles \ Live(s) \subseteq Handles \ Live(t)
    BY <1>3
  <2> QED
    BY <2>1, Counts DEF Remaining, SetsCount
<1>5. Promises(t)
  <2>1. Held(t) = Held(s) /\ Multi(t) = Multi(s)
    BY <1>1, SameOps
  <2>2. Remaining(s) \in Nat /\ Remaining(t) \in Nat /\ s.reserved_handles \in Int
        /\ s.reserved_handles <= Remaining(s)
    BY Zenon, Counts DEF Good, Typed, Promises
  <2>3. s.reserved_handles <= Remaining(t)
    BY <1>4, <2>2
  <2> QED
    BY <1>1, <2>1, <2>3, PromisesKept DEF Good
<1> QED
  BY <1>1, <1>2, <1>3, <1>4, <1>5 DEF Good, t

---------------------------------------------------------------------------
\* Operations

\* Counting an operation on its handle keeps the handle's slot.
LEMMA PendSlots ==
  ASSUME NEW s, Typed(s), NEW h \in Handles \cup {None}, NEW n \in Int
  PROVE  /\ Pend(s, h, n) \in [Handles -> Resources \cup {None}]
         /\ \A x \in Handles : Pend(s, h, n)[x] = None <=> s.handles[x] = None
<1>1. CASE ~Present(s, h)
  BY <1>1 DEF Pend, Typed
<1>2. CASE Present(s, h)
  <2> DEFINE r == [s.handles[h] EXCEPT !.pending = s.handles[h].pending + n]
  <2>1. h \in Handles /\ s.handles[h] \in Resources
    BY <1>2 DEF Present, Typed, Free
  <2>2. r \in Resources
    BY <2>1 DEF Resources
  <2>3. Pend(s, h, n) = [s.handles EXCEPT ![h] = r]
    BY <1>2 DEF Pend
  <2>4. r # None /\ s.handles[h] # None
    BY <2>1, <2>2, VacantAssumption
  <2> HIDE DEF r
  <2> QED
    BY <2>1, <2>2, <2>3, <2>4 DEF Typed
<1> QED
  BY <1>1, <1>2

\* An operation and its fields.
LEMMA OpFields ==
  ASSUME NEW s, Typed(s), NEW o \in LiveOps(s)
  PROVE  /\ o \in Ops /\ s.ops[o] \in Operations /\ s.ops[o].handle \in Handles \cup {None}
         /\ s.ops[o].reserved_handles \in {0, 1} /\ s.ops[o].multishot \in BOOLEAN
<1>1. o \in Ops /\ s.ops[o] \in Operations
  BY DEF LiveOps, Typed, Free
<1> QED
  BY <1>1 DEF Operations

\* retire() gives the operation's promises back.
LEMMA RetireGood ==
  ASSUME SetsCount, NEW s, Good(s), NEW o \in LiveOps(s)
  PROVE  LET t == Retire(s, o)
         IN  /\ Good(t) /\ t.ops = [s.ops EXCEPT ![o] = None]
             /\ Live(t) = Live(s) /\ LiveOps(t) = LiveOps(s) \ {o} /\ Budget(t) >= Budget(s)
<1> DEFINE op == s.ops[o]
           armed == s.multishot_armed - One(op.multishot)
           surplus == One(op.multishot /\ s.multishot_reserved > armed)
           t == Retire(s, o)
<1>1. /\ IsDriver(t) /\ t.ops = [s.ops EXCEPT ![o] = None]
      /\ t.handles = Pend(s, op.handle, -1)
      /\ t.multishot_armed = armed /\ t.deadlines = s.deadlines \ {o}
      /\ t.multishot_reserved = s.multishot_reserved - surplus
      /\ t.reserved_handles = s.reserved_handles - op.reserved_handles - surplus
  BY ZenonT(60) DEF Retire, Good, Typed, IsDriver, Fields, Free
<1>2. o \in Ops /\ op.handle \in Handles \cup {None} /\ op.reserved_handles \in {0, 1}
      /\ op.multishot \in BOOLEAN
  BY OpFields DEF Good
<1> HIDE DEF t, op
<1>3. Typed(s)
  BY DEF Good
<1>4. t.handles \in [Handles -> Resources \cup {None}]
      /\ \A x \in Handles : t.handles[x] = None <=> s.handles[x] = None
  <2>1. -1 \in Int
    OBVIOUS
  <2>2. /\ Pend(s, op.handle, -1) \in [Handles -> Resources \cup {None}]
        /\ \A x \in Handles : Pend(s, op.handle, -1)[x] = None <=> s.handles[x] = None
    BY <2>1, <1>2, <1>3, PendSlots, Zenon
  <2> QED
    BY <2>2, <1>1
<1>5. armed \in Int /\ surplus \in {0, 1}
  BY <1>2, <1>3 DEF One, Typed
<1>6. LiveOps(t) = LiveOps(s) \ {o} /\ Held(t) = Held(s) \ {o} /\ Multi(t) = Multi(s) \ {o}
  BY <1>1, <1>2, <1>3 DEF LiveOps, Held, Multi, Free, Typed
<1>7. Live(t) = Live(s)
  BY <1>4 DEF Live, Free
<1>8. Typed(t)
  BY <1>1, <1>2, <1>3, <1>4, <1>5, <1>6 DEF Typed
<1>9. Cardinality(Held(s)) \in Nat /\ Cardinality(Multi(s)) \in Nat /\ Remaining(s) \in Nat
       /\ Cardinality(Held(t)) \in Nat /\ Cardinality(Multi(t)) \in Nat
  BY Zenon, Counts
<1>10. Cardinality(Held(t)) = Cardinality(Held(s)) - op.reserved_handles
  <2>1. CASE op.reserved_handles = 1
    <3>1. o \in Held(s)
      BY <2>1 DEF Held, op
    <3> QED
      BY Zenon, <3>1, <2>1, <1>6, Counts DEF SetsCount
  <2>2. CASE op.reserved_handles = 0
    <3>1. o \notin Held(s)
      BY <2>2 DEF Held, op
    <3>2. Held(t) = Held(s)
      BY <3>1, <1>6
    <3> QED
      BY <3>2, <2>2, <1>9
  <2> QED
    BY <1>2, <2>1, <2>2
<1>11. Cardinality(Multi(t)) = Cardinality(Multi(s)) - One(op.multishot)
  <2>1. CASE op.multishot
    <3>1. o \in Multi(s)
      BY <2>1 DEF Multi, op
    <3> QED
      BY Zenon, <3>1, <2>1, <1>6, Counts DEF One, SetsCount
  <2>2. CASE ~op.multishot
    <3>1. o \notin Multi(s)
      BY <2>2 DEF Multi, op
    <3>2. Multi(t) = Multi(s)
      BY <3>1, <1>6
    <3> QED
      BY <3>2, <2>2, <1>9 DEF One
  <2> QED
    BY <2>1, <2>2
<1>12. Remaining(t) = Remaining(s)
  BY <1>7 DEF Remaining
<1>13. Promises(s)
  BY DEF Good
<1>14. Promises(t) /\ Budget(t) >= Budget(s)
  <2>1. CASE ~op.multishot
    <3>1. surplus = 0 /\ One(op.multishot) = 0
      BY <2>1 DEF One
    <3> QED
      BY <3>1, <1>1, <1>2, <1>3, <1>10, <1>11, <1>12, <1>9, <1>13 DEF Promises, Budget, Typed
  <2>2. CASE op.multishot /\ s.multishot_reserved > armed
    <3>1. surplus = 1 /\ One(op.multishot) = 1 /\ armed = s.multishot_armed - 1
          /\ s.multishot_reserved > armed
      BY <2>2 DEF One
    <3> HIDE DEF armed, surplus
    <3> QED
      BY <3>1, <1>1, <1>2, <1>3, <1>10, <1>11, <1>12, <1>9, <1>13 DEF Promises, Budget, Typed
  <2>3. CASE op.multishot /\ ~(s.multishot_reserved > armed)
    <3>1. surplus = 0 /\ One(op.multishot) = 1 /\ armed = s.multishot_armed - 1
          /\ ~(s.multishot_reserved > armed)
      BY <2>3 DEF One
    <3> HIDE DEF armed, surplus
    <3> QED
      BY <3>1, <1>1, <1>2, <1>3, <1>10, <1>11, <1>12, <1>9, <1>13 DEF Promises, Budget, Typed
  <2> QED
    BY <1>2, <2>1, <2>2, <2>3
<1> QED
  BY <1>1, <1>6, <1>7, <1>8, <1>14 DEF Good, t

\* finish() of a terminal result retires the operation and nothing else that
\* is promised; a further result of a multishot operation changes no book.
LEMMA FinishGood ==
  ASSUME SetsCount, NEW s, Good(s), NEW o \in LiveOps(s), NEW brings
  PROVE  /\ LET t == Finish(s, o, TRUE, brings)
            IN  /\ Good(t) /\ t.ops = [s.ops EXCEPT ![o] = None]
                /\ Live(t) = Live(s) /\ LiveOps(t) = LiveOps(s) \ {o} /\ Budget(t) >= Budget(s)
         /\ LET t == Finish(s, o, FALSE, brings) IN Good(t) /\ SameBooks(s, t)
<1> DEFINE op == s.ops[o]
           class(terminal) ==
               IF terminal THEN "NONE" ELSE IF IsTimer(op.kind) THEN "TIMER" ELSE "NATIVE"
           e(terminal) == [Entry(op.handle, TRUE, terminal, class(terminal)) EXCEPT
                 !.referenced = terminal /\ Referenced(s, op.handle), !.brings = brings]
           u == Enqueue(s, e(TRUE))
           v == Retire(u, o)
           w == MaybeClosed(v, op.handle)
<1>1. Finish(s, o, TRUE, brings) = w /\ Finish(s, o, FALSE, brings) = Enqueue(s, e(FALSE))
  BY DEF Finish
<1>2. op.handle \in Handles \cup {None}
  BY OpFields DEF Good
<1> HIDE DEF e, op
<1>3. Good(u) /\ SameBooks(s, u) /\ Good(Enqueue(s, e(FALSE))) /\ SameBooks(s, Enqueue(s, e(FALSE)))
  BY Zenon, EnqueueGood
<1> HIDE DEF u
<1>4. o \in LiveOps(u) /\ LiveOps(u) = LiveOps(s)
  BY <1>3, SameOps DEF SameBooks
<1>5. Good(v) /\ v.ops = [u.ops EXCEPT ![o] = None] /\ Live(v) = Live(u)
      /\ LiveOps(v) = LiveOps(u) \ {o} /\ Budget(v) >= Budget(u)
  BY <1>3, <1>4, RetireGood
<1> HIDE DEF v
<1>6. Good(w) /\ SameBooks(v, w)
  BY <1>2, <1>5, MaybeClosedGood
<1> HIDE DEF w
<1>7. Budget(u) = Budget(s) /\ Budget(w) = Budget(v)
  BY <1>3, <1>6 DEF SameBooks, SamePromises, Budget, Remaining
<1>8. LiveOps(w) = LiveOps(v)
  BY <1>6, SameOps DEF SameBooks
<1> QED
  BY Zenon, <1>1, <1>3, <1>4, <1>5, <1>6, <1>7, <1>8 DEF SameBooks

---------------------------------------------------------------------------
\* Steps that change no promise

Sound(s) == Good(s) /\ Kinds(s)

\* The operations of s other than those in gone are still there in t.
Keeps(s, t, gone) ==
    \A o \in LiveOps(s) \ gone : o \in LiveOps(t) /\ t.ops[o].kind = s.ops[o].kind

\* t differs from s in nothing that a promise depends on.
Similar(s, t) ==
    /\ Live(t) = Live(s) /\ LiveOps(t) = LiveOps(s) /\ SamePromises(s, t)
    /\ \A o \in LiveOps(s) :
          /\ t.ops[o].kind = s.ops[o].kind
          /\ t.ops[o].reserved_handles = s.ops[o].reserved_handles
          /\ t.ops[o].multishot = s.ops[o].multishot

\* States that are similar are equally sound.
LEMMA SimilarGood ==
  ASSUME NEW s, Good(s), NEW t, Typed(t), Similar(s, t)
  PROVE  Good(t) /\ Budget(t) = Budget(s) /\ Keeps(s, t, {}) /\ (Kinds(s) => Kinds(t))
<1>1. Held(t) = Held(s) /\ Multi(t) = Multi(s) /\ Remaining(t) = Remaining(s)
  BY DEF Similar, Held, Multi, Remaining
<1>2. Good(t) /\ Budget(t) = Budget(s)
  BY <1>1 DEF Good, Promises, Similar, SamePromises, Budget
<1>3. Keeps(s, t, {})
  BY DEF Similar, Keeps
<1>4. ASSUME Kinds(s) PROVE Kinds(t)
  BY <1>4 DEF Similar, Kinds
<1> QED
  BY <1>2, <1>3, <1>4

\* Books that agree are similar.
LEMMA SameBooksSimilar ==
  ASSUME NEW s, NEW t, SameBooks(s, t)
  PROVE  Similar(s, t)
  BY DEF SameBooks, Similar, SamePromises, LiveOps

\* Similar is transitive.
LEMMA SimilarTransitive ==
  ASSUME NEW s, NEW t, NEW u, Similar(s, t), Similar(t, u)
  PROVE  Similar(s, u)
  BY DEF Similar, SamePromises

\* Changing an operation in place, in what is not promised.
LEMMA UpdateOp ==
  ASSUME NEW s, Good(s), NEW t, IsDriver(t), NEW o \in LiveOps(s), NEW q \in Operations,
         q.kind = s.ops[o].kind, q.reserved_handles = s.ops[o].reserved_handles,
         q.multishot = s.ops[o].multishot,
         t.handles = s.handles, t.ops = [s.ops EXCEPT ![o] = q], SamePromises(s, t)
  PROVE  Good(t) /\ Similar(s, t)
<1>1. o \in Ops /\ q # None
  BY VacantAssumption DEF LiveOps
<1>2. LiveOps(t) = LiveOps(s)
  BY <1>1 DEF Good, Typed, LiveOps, Free
<1>3. Typed(t)
  BY <1>1, <1>2 DEF Good, Typed, SamePromises
<1>4. Live(t) = Live(s)
  BY DEF Live
<1>5. Similar(s, t)
  BY <1>1, <1>2, <1>4 DEF Similar, LiveOps, Good, Typed
<1> QED
  BY <1>3, <1>5, SimilarGood

\* charge_port(), and the backend taking a request as native.
LEMMA ChargeGood ==
  ASSUME NEW s, Good(s), NEW o \in LiveOps(s)
  PROVE  /\ Good(ChargePort(s, o)) /\ Similar(s, ChargePort(s, o))
         /\ Good(MakeNative(s, o)) /\ Similar(s, MakeNative(s, o))
<1> DEFINE p == [s.ops[o] EXCEPT !.port = TRUE]
           n == [s.ops[o] EXCEPT !.native = TRUE]
           t == ChargePort(s, o)
           u == MakeNative(s, o)
<1>1. o \in Ops /\ s.ops[o] \in Operations
  BY OpFields DEF Good
<1>2. /\ p \in Operations /\ p.kind = s.ops[o].kind /\ p.multishot = s.ops[o].multishot
      /\ p.reserved_handles = s.ops[o].reserved_handles
      /\ n \in Operations /\ n.kind = s.ops[o].kind /\ n.multishot = s.ops[o].multishot
      /\ n.reserved_handles = s.ops[o].reserved_handles
  BY Zenon, <1>1 DEF Operations
<1>3. IsDriver(t) /\ t.handles = s.handles /\ t.ops = [s.ops EXCEPT ![o] = p]
      /\ SamePromises(s, t)
  BY Zenon DEF ChargePort, Good, Typed, IsDriver, Fields, SamePromises
<1>4. IsDriver(u) /\ u.handles = s.handles /\ u.ops = [s.ops EXCEPT ![o] = n]
      /\ SamePromises(s, u)
  BY Zenon DEF MakeNative, Good, Typed, IsDriver, Fields, SamePromises
<1> HIDE DEF p, n, t, u
<1>5. Good(t) /\ Similar(s, t)
  BY <1>2, <1>3, UpdateOp
<1>6. Good(u) /\ Similar(s, u)
  BY <1>2, <1>4, UpdateOp
<1> QED
  BY <1>5, <1>6 DEF t, u

---------------------------------------------------------------------------
\* Admission and its undoing

\* new_op() takes a free slot of the operation table and promises nothing.
LEMMA NewOpGood ==
  ASSUME NEW s, Good(s), NEW o \in OpRoom(s), NEW kind \in OpKinds, NEW h \in Handles \cup {None}
  PROVE  LET t == NewOp(s, o, kind, h)
         IN  /\ Good(t) /\ Live(t) = Live(s) /\ SamePromises(s, t)
             /\ o \in Ops \ LiveOps(s) /\ LiveOps(t) = LiveOps(s) \cup {o}
             /\ t.ops[o].kind = kind /\ t.ops[o].reserved_handles = 0 /\ ~t.ops[o].multishot
             /\ \A x \in LiveOps(s) : t.ops[x] = s.ops[x]
<1> DEFINE native == Present(s, h) /\ s.handles[h].kind = "Socket"
           q == Op(kind, h, native)
           t == NewOp(s, o, kind, h)
<1>1. o \in Ops \ LiveOps(s)
  BY DEF OpRoom
<1>2. native \in BOOLEAN
  OBVIOUS
<1>3. /\ IsDriver(t) /\ t.ops = [s.ops EXCEPT ![o] = q] /\ t.handles = Pend(s, h, 1)
      /\ SamePromises(s, t)
  BY Zenon DEF NewOp, Good, Typed, IsDriver, Fields, SamePromises
<1> HIDE DEF native, t
<1>4. q \in Operations /\ q.kind = kind /\ q.reserved_handles = 0 /\ ~q.multishot
  BY <1>2 DEF Op, Operations
<1> HIDE DEF q
<1>5. q # None
  BY <1>4, VacantAssumption
<1>6. Typed(s)
  BY DEF Good
<1>7. /\ Pend(s, h, 1) \in [Handles -> Resources \cup {None}]
      /\ \A x \in Handles : Pend(s, h, 1)[x] = None <=> s.handles[x] = None
  <2>1. 1 \in Int
    OBVIOUS
  <2> QED
    BY <2>1, <1>6, PendSlots, Zenon
<1>8. Live(t) = Live(s)
  BY <1>3, <1>7 DEF Live, Free
<1>9. LiveOps(t) = LiveOps(s) \cup {o} /\ t.ops[o] = q /\ \A x \in LiveOps(s) : t.ops[x] = s.ops[x]
  BY <1>1, <1>3, <1>5, <1>6 DEF LiveOps, Free, Typed
<1>10. Typed(t)
  BY <1>1, <1>3, <1>4, <1>6, <1>7, <1>9 DEF Typed, SamePromises
<1>11. Held(t) = Held(s) /\ Multi(t) = Multi(s)
  BY <1>1, <1>4, <1>9 DEF Held, Multi
<1>12. Promises(t)
  BY <1>3, <1>8, <1>11 DEF Good, Promises, Remaining, SamePromises
<1> QED
  BY <1>1, <1>3, <1>4, <1>8, <1>9, <1>10, <1>12 DEF Good, t

\* submit() promises a slot that is free and not promised yet.
LEMMA ReserveGood ==
  ASSUME SetsCount, NEW s, Good(s), NEW o \in LiveOps(s), NEW kind, MayReserve(s, kind),
         s.ops[o].reserved_handles = 0, ~s.ops[o].multishot
  PROVE  LET t == Reserve(s, o, kind)
         IN  /\ Good(t) /\ Live(t) = Live(s) /\ LiveOps(t) = LiveOps(s)
             /\ t.ops[o].kind = s.ops[o].kind
             /\ kind = "accept" => t.ops[o].reserved_handles = 1 /\ ~t.ops[o].multishot
             /\ kind = "accept_start" => t.ops[o].multishot
             /\ \A x \in LiveOps(s) \ {o} : t.ops[x] = s.ops[x]
<1> DEFINE t == Reserve(s, o, kind)
           p == [s.ops[o] EXCEPT !.multishot = TRUE]
           q == [s.ops[o] EXCEPT !.reserved_handles = 1]
<1>1. o \in Ops /\ s.ops[o] \in Operations /\ Typed(s) /\ Promises(s)
  BY OpFields DEF Good
<1>2. /\ p \in Operations /\ p.kind = s.ops[o].kind /\ p.multishot
      /\ p.reserved_handles = 0
      /\ q \in Operations /\ q.kind = s.ops[o].kind /\ ~q.multishot
      /\ q.reserved_handles = 1
  BY Zenon, <1>1 DEF Operations
<1>3. p # None /\ q # None
  BY Zenon, <1>2, VacantAssumption
<1>4. Cardinality(Held(s)) \in Nat /\ Cardinality(Multi(s)) \in Nat /\ Remaining(s) \in Nat
  BY Zenon, Counts
<1>5. o \notin Held(s) /\ o \notin Multi(s)
  BY DEF Held, Multi
<1>6. CASE kind = "accept_start"
  <2>1. /\ IsDriver(t) /\ t.handles = s.handles /\ t.ops = [s.ops EXCEPT ![o] = p]
        /\ t.multishot_armed = s.multishot_armed + 1 /\ t.deadlines = s.deadlines
        /\ t.multishot_reserved = s.multishot_reserved + 1
        /\ t.reserved_handles = s.reserved_handles + 1
    BY Zenon, <1>1, <1>6 DEF Reserve, Typed, IsDriver, Fields
  <2> HIDE DEF t, p
  <2>2. LiveOps(t) = LiveOps(s) /\ t.ops[o] = p /\ \A x \in LiveOps(s) \ {o} : t.ops[x] = s.ops[x]
    BY <1>1, <1>3, <2>1 DEF LiveOps, Free, Typed
  <2>3. Held(t) = Held(s) /\ Multi(t) = Multi(s) \cup {o}
    BY <1>2, <1>5, <2>2 DEF Held, Multi
  <2>4. Cardinality(Multi(t)) = Cardinality(Multi(s)) + 1
    <3>1. IsFiniteSet(Multi(s))
      BY Zenon, Counts
    <3> QED
      BY Zenon, <1>5, <2>3, <3>1 DEF SetsCount
  <2>5. Live(t) = Live(s) /\ Remaining(t) = Remaining(s)
    BY <2>1 DEF Live, Remaining
  <2>6. Remaining(s) >= s.reserved_handles + 1
    BY <1>6 DEF MayReserve, Reserves
  <2>7. Promises(t)
    BY <1>1, <1>4, <2>1, <2>3, <2>4, <2>5, <2>6 DEF Promises, Typed
  <2>8. Typed(t)
    BY <1>1, <1>2, <2>1, <2>2 DEF Typed
  <2> QED
    BY <1>2, <1>6, <2>2, <2>5, <2>7, <2>8 DEF Good, t
<1>7. CASE kind = "accept"
  <2>1. /\ IsDriver(t) /\ t.handles = s.handles /\ t.ops = [s.ops EXCEPT ![o] = q]
        /\ t.multishot_armed = s.multishot_armed /\ t.deadlines = s.deadlines
        /\ t.multishot_reserved = s.multishot_reserved
        /\ t.reserved_handles = s.reserved_handles + 1
    BY Zenon, <1>1, <1>7 DEF Reserve, Typed, IsDriver, Fields
  <2> HIDE DEF t, q
  <2>2. LiveOps(t) = LiveOps(s) /\ t.ops[o] = q /\ \A x \in LiveOps(s) \ {o} : t.ops[x] = s.ops[x]
    BY <1>1, <1>3, <2>1 DEF LiveOps, Free, Typed
  <2>3. Multi(t) = Multi(s) /\ Held(t) = Held(s) \cup {o}
    BY <1>2, <1>5, <2>2 DEF Held, Multi
  <2>4. Cardinality(Held(t)) = Cardinality(Held(s)) + 1
    <3>1. IsFiniteSet(Held(s))
      BY Zenon, Counts
    <3> QED
      BY Zenon, <1>5, <2>3, <3>1 DEF SetsCount
  <2>5. Live(t) = Live(s) /\ Remaining(t) = Remaining(s)
    BY <2>1 DEF Live, Remaining
  <2>6. Remaining(s) >= s.reserved_handles + 1
    BY <1>7 DEF MayReserve, Reserves
  <2>7. Promises(t)
    BY <1>1, <1>4, <2>1, <2>3, <2>4, <2>5, <2>6 DEF Promises, Typed
  <2>8. Typed(t)
    BY <1>1, <1>2, <2>1, <2>2 DEF Typed
  <2> QED
    BY <1>2, <1>7, <2>2, <2>5, <2>7, <2>8 DEF Good, t
<1>8. CASE kind \notin {"accept", "accept_start"}
  BY <1>8 DEF Reserve
<1> QED
  BY Zenon, <1>6, <1>7, <1>8

\* t is s with one operation more.
Adds(s, t, o, kind) ==
    /\ Sound(t) /\ Live(t) = Live(s) /\ Keeps(s, t, {})
    /\ o \notin LiveOps(s) /\ LiveOps(t) = LiveOps(s) \cup {o} /\ t.ops[o].kind = kind

\* submit() keeps the books sound.
LEMMA SubmitSound ==
  ASSUME SetsCount, NEW s, Sound(s), NEW o \in OpRoom(s), NEW h \in Handles \cup {None},
         NEW kind \in OpKinds, MayReserve(s, kind)
  PROVE  Adds(s, SubmitOp(s, o, h, kind), o, kind)
<1> DEFINE u == NewOp(s, o, kind, h)
           t == Reserve(u, o, kind)
<1>1. Good(s) /\ Kinds(s)
  BY DEF Sound
<1>2. /\ Good(u) /\ Live(u) = Live(s) /\ SamePromises(s, u)
      /\ o \in Ops \ LiveOps(s) /\ LiveOps(u) = LiveOps(s) \cup {o}
      /\ u.ops[o].kind = kind /\ u.ops[o].reserved_handles = 0 /\ ~u.ops[o].multishot
      /\ \A x \in LiveOps(s) : u.ops[x] = s.ops[x]
  BY SMTT(60), <1>1, NewOpGood
<1> HIDE DEF u
<1>3. MayReserve(u, kind) /\ o \in LiveOps(u)
  BY <1>2 DEF MayReserve, Remaining, SamePromises
<1>4. /\ Good(t) /\ Live(t) = Live(u) /\ LiveOps(t) = LiveOps(u)
      /\ t.ops[o].kind = u.ops[o].kind
      /\ kind = "accept" => t.ops[o].reserved_handles = 1 /\ ~t.ops[o].multishot
      /\ kind = "accept_start" => t.ops[o].multishot
      /\ \A x \in LiveOps(u) \ {o} : t.ops[x] = u.ops[x]
  BY SMTT(60), <1>2, <1>3, ReserveGood
<1> HIDE DEF t
<1>5. \A x \in LiveOps(s) : x # o /\ x \in LiveOps(t) /\ t.ops[x] = s.ops[x]
  BY <1>2, <1>4
<1>6. Keeps(s, t, {})
  BY <1>5 DEF Keeps
<1>7. Kinds(t)
  BY <1>1, <1>2, <1>4, <1>5 DEF Kinds
<1>8. SubmitOp(s, o, h, kind) = t
  BY DEF SubmitOp, t, u
<1> QED
  BY <1>2, <1>4, <1>6, <1>7, <1>8 DEF Sound, Adds

\* new_op() of an operation that promises nothing.
LEMMA NewOpSound ==
  ASSUME SetsCount, NEW s, Sound(s), NEW o \in OpRoom(s), NEW h \in Handles \cup {None},
         NEW kind \in OpKinds \ {"accept", "accept_start"}
  PROVE  Adds(s, NewOp(s, o, kind, h), o, kind)
<1>1. SubmitOp(s, o, h, kind) = NewOp(s, o, kind, h) /\ MayReserve(s, kind)
  BY DEF SubmitOp, Reserve, MayReserve, Reserves
<1> QED
  BY <1>1, SubmitSound

KindsBut(s, o) ==
    \A x \in LiveOps(s) \ {o} :
        /\ s.ops[x].kind = "accept" => s.ops[x].reserved_handles = 1 /\ ~s.ops[x].multishot
        /\ s.ops[x].kind = "accept_start" => s.ops[x].multishot

\* What is left when an operation is taken from the table.
LEMMA WithoutOp ==
  ASSUME NEW s, Typed(s), NEW o \in LiveOps(s), KindsBut(s, o), NEW t,
         t.ops = [s.ops EXCEPT ![o] = None], LiveOps(t) = LiveOps(s) \ {o}
  PROVE  Kinds(t) /\ Keeps(s, t, {o})
<1>1. \A x \in LiveOps(s) \ {o} : t.ops[x] = s.ops[x]
  BY DEF LiveOps, Typed
<1> QED
  BY <1>1 DEF Kinds, KindsBut, Keeps

\* A submission that was not accepted is undone.
LEMMA UnsubmitSound ==
  ASSUME SetsCount, NEW s, Sound(s), NEW o \in LiveOps(s)
  PROVE  LET t == Unsubmit(s, o)
         IN  /\ Sound(t) /\ Live(t) = Live(s) /\ LiveOps(t) = LiveOps(s) \ {o}
             /\ Keeps(s, t, {o})
<1> DEFINE u == Retire(s, o)
           t == Unsubmit(s, o)
<1>1. Good(s) /\ Typed(s) /\ KindsBut(s, o)
  BY DEF Sound, Good, Kinds, KindsBut
<1>2. Good(u) /\ u.ops = [s.ops EXCEPT ![o] = None] /\ Live(u) = Live(s)
      /\ LiveOps(u) = LiveOps(s) \ {o}
  BY <1>1, RetireGood
<1>3. t = [u EXCEPT !.outstanding = u.outstanding - 1]
  BY DEF Unsubmit
<1> HIDE DEF u, t
<1>4. IsDriver(t) /\ t.handles = u.handles /\ t.ops = u.ops /\ SamePromises(u, t)
  BY <1>2, <1>3 DEF Good, Typed, IsDriver, Fields, SamePromises
<1>5. Live(t) = Live(u) /\ LiveOps(t) = LiveOps(u)
  BY <1>4 DEF Live, LiveOps
<1>6. Typed(t) /\ SameBooks(u, t)
  BY <1>2, <1>4, <1>5 DEF Good, Typed, SamePromises, SameBooks
<1>7. Good(t)
  BY <1>2, <1>6, SameBooksGood
<1>8. Kinds(t) /\ Keeps(s, t, {o})
  BY <1>1, <1>2, <1>4, <1>5, WithoutOp
<1> QED
  BY <1>2, <1>5, <1>7, <1>8 DEF Sound, t

\* finish() of a terminal result.
LEMMA FinishSound ==
  ASSUME SetsCount, NEW s, Good(s), NEW o \in LiveOps(s), KindsBut(s, o), NEW brings
  PROVE  LET t == Finish(s, o, TRUE, brings)
         IN  /\ Sound(t) /\ Live(t) = Live(s) /\ LiveOps(t) = LiveOps(s) \ {o}
             /\ Keeps(s, t, {o}) /\ Budget(t) >= Budget(s)
<1> DEFINE t == Finish(s, o, TRUE, brings)
<1>1. /\ Good(t) /\ t.ops = [s.ops EXCEPT ![o] = None] /\ Live(t) = Live(s)
      /\ LiveOps(t) = LiveOps(s) \ {o} /\ Budget(t) >= Budget(s)
  BY Zenon, FinishGood
<1>2. Typed(s)
  BY DEF Good
<1> HIDE DEF t
<1>3. Kinds(t) /\ Keeps(s, t, {o})
  BY <1>1, <1>2, WithoutOp
<1> QED
  BY Zenon, <1>1, <1>3 DEF Sound, t

\* finish() of a further result of a multishot operation.
LEMMA FinishMoreSound ==
  ASSUME SetsCount, NEW s, Sound(s), NEW o \in LiveOps(s), NEW brings
  PROVE  LET t == Finish(s, o, FALSE, brings)
         IN  Sound(t) /\ Keeps(s, t, {}) /\ Budget(t) = Budget(s)
<1> DEFINE t == Finish(s, o, FALSE, brings)
<1>1. Good(s) /\ Kinds(s)
  BY DEF Sound
<1>2. Good(t) /\ SameBooks(s, t)
  BY Zenon, <1>1, FinishGood
<1> HIDE DEF t
<1>3. Similar(s, t) /\ Typed(t)
  BY <1>2, SameBooksSimilar DEF Good
<1>4. Sound(t) /\ Keeps(s, t, {}) /\ Budget(t) = Budget(s)
  BY <1>1, <1>3, SimilarGood DEF Sound
<1> QED
  BY Zenon, <1>4 DEF t

---------------------------------------------------------------------------
\* Accepted connections

\* attach_reserved() first gives the promise of its operation back.
LEMMA SpendGood ==
  ASSUME SetsCount, NEW s, Good(s), NEW o \in LiveOps(s)
  PROVE  LET t == Spend(s, o)
         IN  /\ Good(t) /\ Live(t) = Live(s) /\ LiveOps(t) = LiveOps(s)
             /\ \A x \in LiveOps(s) : t.ops[x].kind = s.ops[x].kind
             /\ \A x \in LiveOps(s) \ {o} : t.ops[x] = s.ops[x]
             /\ s.ops[o].multishot =>
                   /\ t.ops = s.ops /\ Budget(t) = Budget(s)
                   /\ t.reserved_handles < Remaining(t) \/ Budget(s) <= 0
             /\ ~s.ops[o].multishot /\ s.ops[o].reserved_handles = 1 =>
                   /\ Budget(t) = Budget(s) + 1 /\ t.reserved_handles < Remaining(t)
<1> DEFINE t == Spend(s, o)
           q == [s.ops[o] EXCEPT !.reserved_handles = 0]
           r == s.ops[o].reserved_handles
           m == One(s.multishot_reserved # 0)
<1>1. o \in Ops /\ s.ops[o] \in Operations /\ Typed(s) /\ Promises(s) /\ r \in {0, 1}
      /\ s.ops[o].multishot \in BOOLEAN
  BY OpFields DEF Good
<1>2. q \in Operations /\ q.kind = s.ops[o].kind /\ (q.multishot <=> s.ops[o].multishot)
      /\ q.reserved_handles = 0
  BY <1>1 DEF Operations
<1>3. q # None
  BY <1>2, VacantAssumption
<1>4. Cardinality(Held(s)) \in Nat /\ Cardinality(Multi(s)) \in Nat /\ Remaining(s) \in Nat
  BY Zenon, Counts
<1>5. CASE s.ops[o].multishot
  <2>1. /\ IsDriver(t) /\ t.handles = s.handles /\ t.ops = s.ops
        /\ t.multishot_armed = s.multishot_armed /\ t.deadlines = s.deadlines
        /\ t.multishot_reserved = s.multishot_reserved - m
        /\ t.reserved_handles = s.reserved_handles - m
    BY Zenon, <1>1, <1>5 DEF Spend, Typed, IsDriver, Fields
  <2>2. m \in {0, 1} /\ (m = 0 <=> s.multishot_reserved = 0)
    BY DEF One
  <2> HIDE DEF t, m
  <2>3. LiveOps(t) = LiveOps(s) /\ Held(t) = Held(s) /\ Multi(t) = Multi(s)
    BY <2>1, SameOps
  <2>4. Live(t) = Live(s) /\ Remaining(t) = Remaining(s)
    BY <2>1 DEF Live, Remaining
  <2>5. Promises(t) /\ Budget(t) = Budget(s) /\ (t.reserved_handles < Remaining(t) \/ Budget(s) <= 0)
    <3>1. /\ s.reserved_handles = s.multishot_reserved + Cardinality(Held(s))
          /\ s.multishot_armed = Cardinality(Multi(s)) /\ s.multishot_reserved \in 0 .. s.multishot_armed
          /\ s.reserved_handles <= Remaining(s) /\ s.reserved_handles \in Int
      BY Zenon, <1>1 DEF Promises, Typed
    <3>2. Promises(t)
      BY <1>4, <2>1, <2>2, <2>3, <2>4, <3>1 DEF Promises
    <3>3. Budget(t) = Budget(s)
      BY <1>4, <2>1, <2>2, <2>4, <3>1 DEF Budget
    <3>4. t.reserved_handles < Remaining(t) \/ Budget(s) <= 0
      BY <1>4, <2>1, <2>2, <2>4, <3>1 DEF Budget
    <3> QED
      BY Zenon, <3>2, <3>3, <3>4
  <2>6. Typed(t)
    BY SMTT(60), <1>1, <2>1, <2>2, <2>3 DEF Typed
  <2> QED
    BY <1>5, <2>1, <2>3, <2>4, <2>5, <2>6 DEF Good, t
<1>6. CASE ~s.ops[o].multishot
  <2>1. /\ IsDriver(t) /\ t.handles = s.handles /\ t.ops = [s.ops EXCEPT ![o] = q]
        /\ t.multishot_armed = s.multishot_armed /\ t.deadlines = s.deadlines
        /\ t.multishot_reserved = s.multishot_reserved
        /\ t.reserved_handles = s.reserved_handles - r
    BY Zenon, <1>1, <1>6 DEF Spend, Typed, IsDriver, Fields
  <2> HIDE DEF t, q
  <2>2. LiveOps(t) = LiveOps(s) /\ t.ops[o] = q /\ \A x \in LiveOps(s) \ {o} : t.ops[x] = s.ops[x]
    BY <1>1, <1>3, <2>1 DEF LiveOps, Free, Typed
  <2>3. Multi(t) = Multi(s) /\ Held(t) = Held(s) \ {o}
    BY <1>2, <1>6, <2>2 DEF Held, Multi
  <2>4. Cardinality(Held(t)) = Cardinality(Held(s)) - r
    <3>1. CASE r = 1
      <4>1. o \in Held(s) /\ IsFiniteSet(Held(s))
        BY Zenon, <3>1, Counts DEF Held
      <4> QED
        BY Zenon, <4>1, <3>1, <2>3 DEF SetsCount
    <3>2. CASE r = 0
      <4>1. Held(t) = Held(s)
        BY <3>2, <2>3 DEF Held
      <4> QED
        BY <4>1, <3>2, <1>4
    <3> QED
      BY <1>1, <3>1, <3>2
  <2>5. Live(t) = Live(s) /\ Remaining(t) = Remaining(s)
    BY <2>1 DEF Live, Remaining
  <2>6. Promises(t) /\ (r = 1 => Budget(t) = Budget(s) + 1 /\ t.reserved_handles < Remaining(t))
    BY SMTT(60), <1>1, <1>4, <2>1, <2>3, <2>4, <2>5 DEF Promises, Typed, Budget
  <2>7. Typed(t)
    BY SMTT(60), <1>1, <1>2, <2>1, <2>2 DEF Typed
  <2>8. \A x \in LiveOps(s) : t.ops[x].kind = s.ops[x].kind
    BY <1>2, <2>2
  <2> QED
    BY <1>6, <2>2, <2>5, <2>6, <2>7, <2>8 DEF Good, t
<1> QED
  BY <1>1, <1>5, <1>6

\* ... and at its end refills the pool of multishot promises with free slots.
LEMMA RefillGood ==
  ASSUME SetsCount, NEW s, Good(s), NEW o \in LiveOps(s)
  PROVE  LET t == Refill(s, o)
         IN  Good(t) /\ t.ops = s.ops /\ Live(t) = Live(s) /\ Budget(t) = Budget(s)
<1> DEFINE t == Refill(s, o)
           wanted == s.multishot_armed - s.multishot_reserved
           free == Remaining(s) - s.reserved_handles
           n == IF ~s.ops[o].multishot \/ free < 0 THEN 0 ELSE (IF wanted < free THEN wanted ELSE free)
<1>1. Typed(s) /\ Promises(s)
  BY DEF Good
<1>2. Cardinality(Held(s)) \in Nat /\ Cardinality(Multi(s)) \in Nat /\ Remaining(s) \in Nat
  BY Zenon, Counts
<1>3. wanted \in Int /\ free \in Int /\ wanted >= 0 /\ free >= 0
  BY SMTT(60), <1>1, <1>2 DEF Typed, Promises
<1>4. /\ IsDriver(t) /\ t.handles = s.handles /\ t.ops = s.ops
      /\ t.multishot_armed = s.multishot_armed /\ t.deadlines = s.deadlines
      /\ t.multishot_reserved = s.multishot_reserved + n
      /\ t.reserved_handles = s.reserved_handles + n
  BY Zenon, <1>1 DEF Refill, Typed, IsDriver, Fields
<1>5. n \in Int /\ n >= 0 /\ n <= wanted /\ n <= free
  <2> HIDE DEF wanted, free
  <2> QED
    BY <1>3
<1> HIDE DEF t, n
<1>6. LiveOps(t) = LiveOps(s) /\ Held(t) = Held(s) /\ Multi(t) = Multi(s)
  BY <1>4, SameOps
<1>7. Live(t) = Live(s) /\ Remaining(t) = Remaining(s)
  BY <1>4 DEF Live, Remaining
<1>8. Promises(t) /\ Budget(t) = Budget(s)
  BY SMTT(60), <1>1, <1>2, <1>4, <1>5, <1>6, <1>7 DEF Promises, Typed, Budget
<1>9. Typed(t)
  <2>1. s.reserved_handles \in Int /\ s.multishot_reserved \in Int
    BY Zenon, <1>1 DEF Typed
  <2>2. t.reserved_handles \in Int /\ t.multishot_reserved \in Int
    BY <1>4, <1>5, <2>1
  <2> QED
    BY Zenon, <1>1, <1>4, <1>6, <2>2 DEF Typed
<1> QED
  BY <1>4, <1>7, <1>8, <1>9 DEF Good, t

\* A slot that is not promised is one new_handle() may use.
LEMMA RoomFound ==
  ASSUME SetsCount, NEW s, s.reserved_handles < Remaining(s), s.reserved_handles \in Nat
  PROVE  Room(s) # {}
<1>1. Remaining(s) \in Nat /\ Remaining(s) # 0 /\ Remaining(s) > s.reserved_handles
  <2>1. Remaining(s) \in Nat
    BY Zenon, Counts
  <2> QED
    BY <2>1
<1>2. Handles \ Live(s) # {}
  BY <1>1 DEF Remaining, SetsCount
<1> QED
  BY <1>1, <1>2 DEF Room

\* A connection of an armed accept finds a slot: a single-shot accept's own, a
\* multishot accept's within the budget of the poll.
LEMMA SpendFindsRoom ==
  ASSUME SetsCount, NEW s, Sound(s), NEW o \in LiveOps(s),
         s.ops[o].kind = "accept" \/ (s.ops[o].kind = "accept_start" /\ Budget(s) >= 1)
  PROVE  LET t == Spend(s, o)
         IN  /\ Good(t) /\ KindsBut(t, o) /\ Room(t) # {} /\ Keeps(s, t, {})
             /\ LiveOps(t) = LiveOps(s)
             /\ s.ops[o].kind = "accept" => Budget(t) = Budget(s) + 1
             /\ s.ops[o].kind = "accept_start" => Kinds(t) /\ Budget(t) = Budget(s)
<1> DEFINE t == Spend(s, o)
<1>1. Good(s) /\ Kinds(s) /\ Budget(s) \in Int
  <2>1. Remaining(s) \in Nat
    BY Zenon, Counts
  <2> QED
    BY <2>1 DEF Sound, Good, Typed, Budget
<1>2. /\ Good(t) /\ Live(t) = Live(s) /\ LiveOps(t) = LiveOps(s)
      /\ \A x \in LiveOps(s) : t.ops[x].kind = s.ops[x].kind
      /\ \A x \in LiveOps(s) \ {o} : t.ops[x] = s.ops[x]
      /\ s.ops[o].multishot =>
            /\ t.ops = s.ops /\ Budget(t) = Budget(s)
            /\ t.reserved_handles < Remaining(t) \/ Budget(s) <= 0
      /\ ~s.ops[o].multishot /\ s.ops[o].reserved_handles = 1 =>
            /\ Budget(t) = Budget(s) + 1 /\ t.reserved_handles < Remaining(t)
  BY <1>1, SpendGood
<1> HIDE DEF t
<1>3. KindsBut(t, o) /\ Keeps(s, t, {})
  BY <1>1, <1>2 DEF Kinds, KindsBut, Keeps
<1>4. t.reserved_handles \in Nat
  <2>1. Cardinality(Held(t)) \in Nat
    BY Zenon, Counts
  <2>2. t.reserved_handles = t.multishot_reserved + Cardinality(Held(t)) /\ t.multishot_reserved \in 0 .. t.multishot_armed
        /\ t.multishot_armed \in Int
    BY Zenon, <1>2 DEF Good, Typed, Promises
  <2> QED
    BY <2>1, <2>2
<1>5. CASE s.ops[o].kind = "accept"
  <2>1. ~s.ops[o].multishot /\ s.ops[o].reserved_handles = 1
    BY <1>1, <1>5 DEF Kinds
  <2>2. Room(t) # {}
    BY <1>2, <1>4, <2>1, RoomFound
  <2> QED
    BY <1>2, <1>3, <1>5, <2>1, <2>2 DEF t
<1>6. CASE s.ops[o].kind = "accept_start" /\ Budget(s) >= 1
  <2>1. s.ops[o].multishot
    BY <1>1, <1>6 DEF Kinds
  <2>2. ~(Budget(s) <= 0)
    BY <1>1, <1>6
  <2>3. Room(t) # {}
    BY <1>2, <1>4, <2>1, <2>2, RoomFound
  <2>4. Kinds(t)
    BY SMTT(60), <1>1, <1>2, <2>1 DEF Kinds
  <2> QED
    BY <1>2, <1>3, <1>6, <2>1, <2>3, <2>4 DEF t
<1> QED
  BY <1>5, <1>6

\* new_handle() and the refill after Spend, or the refill alone when the
\* backend's attach fails.
LEMMA Housed ==
  ASSUME SetsCount, NEW s, Good(s), NEW o \in LiveOps(s), NEW h \in Room(s)
  PROVE  LET t == Refill(NewHandle(s, h, "Socket"), o)
             u == Refill(s, o)
         IN  /\ Good(t) /\ t.ops = s.ops /\ Budget(t) = Budget(s) - 1
             /\ Good(u) /\ u.ops = s.ops /\ Budget(u) = Budget(s)
<1> DEFINE n == NewHandle(s, h, "Socket")
<1>1. /\ Good(n) /\ n.ops = s.ops /\ SamePromises(s, n) /\ Remaining(n) = Remaining(s) - 1
  BY NewHandleGood
<1> HIDE DEF n
<1>2. Budget(n) = Budget(s) - 1
  <2>1. Remaining(s) \in Nat
    BY Zenon, Counts
  <2> QED
    BY SMTT(60), <2>1, <1>1 DEF Budget, SamePromises, Good, Typed
<1>3. o \in LiveOps(n)
  BY <1>1, SameOps
<1>4. Good(Refill(n, o)) /\ Refill(n, o).ops = n.ops /\ Budget(Refill(n, o)) = Budget(n)
  BY <1>1, <1>3, RefillGood
<1>5. Good(Refill(s, o)) /\ Refill(s, o).ops = s.ops /\ Budget(Refill(s, o)) = Budget(s)
  BY RefillGood
<1> QED
  BY <1>1, <1>2, <1>4, <1>5 DEF n

\* What only depends on the operations.
LEMMA OpsDecide ==
  ASSUME NEW s, NEW t, t.ops = s.ops, NEW o
  PROVE  /\ LiveOps(t) = LiveOps(s) /\ (Kinds(s) => Kinds(t)) /\ (KindsBut(s, o) => KindsBut(t, o))
         /\ Keeps(s, t, {})
<1>1. LiveOps(t) = LiveOps(s)
  BY DEF LiveOps
<1> QED
  BY <1>1 DEF Kinds, KindsBut, Keeps

\* What two steps keep, both together keep.
LEMMA KeepsTransitive ==
  ASSUME NEW s, NEW t, NEW u, NEW gone, Keeps(s, t, {}), Keeps(t, u, gone)
  PROVE  Keeps(s, u, gone)
  BY DEF Keeps

\* attach_reserved() and finish(), for either kind of accept.
LEMMA AttachSound ==
  ASSUME SetsCount, NEW s, Sound(s), NEW o \in LiveOps(s),
         s.ops[o].kind = "accept" \/ (s.ops[o].kind = "accept_start" /\ Budget(s) >= 1)
  PROVE  LET sp == Spend(s, o)
             housed(h) == Refill(NewHandle(sp, h, "Socket"), o)
         IN  /\ Room(sp) # {}
             /\ s.ops[o].kind = "accept" =>
                   /\ \A h \in Room(sp) :
                         LET t == Finish(housed(h), o, TRUE, h)
                         IN  Sound(t) /\ Keeps(s, t, {o}) /\ Budget(t) >= Budget(s)
                   /\ LET t == Finish(Refill(sp, o), o, TRUE, None)
                      IN  Sound(t) /\ Keeps(s, t, {o}) /\ Budget(t) >= Budget(s)
             /\ s.ops[o].kind = "accept_start" =>
                   /\ \A h \in Room(sp) :
                         LET t == Finish(housed(h), o, FALSE, h)
                         IN  Sound(t) /\ Keeps(s, t, {}) /\ Budget(t) >= Budget(s) - 1
                   /\ LET t == Finish(Refill(sp, o), o, FALSE, None)
                      IN  Sound(t) /\ Keeps(s, t, {}) /\ Budget(t) >= Budget(s) - 1
<1> DEFINE sp == Spend(s, o)
           housed(h) == Refill(NewHandle(sp, h, "Socket"), o)
           failed == Refill(sp, o)
<1>1. /\ Good(sp) /\ KindsBut(sp, o) /\ Room(sp) # {} /\ Keeps(s, sp, {})
      /\ LiveOps(sp) = LiveOps(s)
      /\ s.ops[o].kind = "accept" => Budget(sp) = Budget(s) + 1
      /\ s.ops[o].kind = "accept_start" => Kinds(sp) /\ Budget(sp) = Budget(s)
  BY SpendFindsRoom
<1> HIDE DEF sp
<1>2. PICK h0 \in Room(sp) : TRUE
  BY <1>1
<1>3. o \in LiveOps(sp)
  BY <1>1
<1>4. Good(failed) /\ failed.ops = sp.ops /\ Budget(failed) = Budget(sp)
  BY <1>1, <1>2, <1>3, Housed
<1>5. \A h \in Room(sp) : Good(housed(h)) /\ housed(h).ops = sp.ops /\ Budget(housed(h)) = Budget(sp) - 1
  BY <1>1, <1>3, Housed
<1> HIDE DEF housed, failed
<1>6. Budget(s) \in Int /\ Budget(sp) \in Int
  <2>1. Remaining(s) \in Nat /\ Remaining(sp) \in Nat
    BY Zenon, Counts
  <2>2. /\ s.reserved_handles \in Int /\ s.multishot_reserved \in Int
        /\ sp.reserved_handles \in Int /\ sp.multishot_reserved \in Int
    BY Zenon, <1>1 DEF Sound, Good, Typed
  <2> QED
    BY <2>1, <2>2 DEF Budget
<1>7. ASSUME NEW u, Good(u), u.ops = sp.ops, Budget(u) >= Budget(sp) - 1, Budget(u) <= Budget(sp), NEW b
      PROVE  /\ s.ops[o].kind = "accept" =>
                   LET t == Finish(u, o, TRUE, b)
                   IN  Sound(t) /\ Keeps(s, t, {o}) /\ Budget(t) >= Budget(s)
             /\ s.ops[o].kind = "accept_start" =>
                   LET t == Finish(u, o, FALSE, b)
                   IN  Sound(t) /\ Keeps(s, t, {}) /\ Budget(t) >= Budget(s) - 1
  <2>1. LiveOps(u) = LiveOps(sp) /\ (Kinds(sp) => Kinds(u)) /\ KindsBut(u, o) /\ Keeps(sp, u, {})
    BY <1>1, <1>7, OpsDecide
  <2>2. Keeps(s, u, {}) /\ o \in LiveOps(u)
    BY <1>1, <1>3, <2>1, KeepsTransitive
  <2>3. Budget(u) \in Int
    <3>1. Remaining(u) \in Nat
      BY Zenon, Counts
    <3>2. u.reserved_handles \in Int /\ u.multishot_reserved \in Int
      BY Zenon, <1>7 DEF Good, Typed
    <3> QED
      BY <3>1, <3>2 DEF Budget
  <2>4. CASE s.ops[o].kind = "accept"
    <3> DEFINE t == Finish(u, o, TRUE, b)
    <3>1. Sound(t) /\ Keeps(u, t, {o}) /\ Budget(t) >= Budget(u)
      BY Zenon, <1>7, <2>1, <2>2, FinishSound
    <3> HIDE DEF t
    <3>2. Budget(t) \in Int
      <4>1. Remaining(t) \in Nat
        BY Zenon, Counts
      <4> QED
        BY <3>1, <4>1 DEF Sound, Good, Typed, Budget
    <3>3. Keeps(s, t, {o})
      BY <2>2, <3>1, KeepsTransitive
    <3>4. Budget(t) >= Budget(s)
      BY <1>1, <1>6, <1>7, <2>3, <2>4, <3>1, <3>2
    <3> QED
      BY Zenon, <2>4, <3>1, <3>3, <3>4 DEF t
  <2>5. CASE s.ops[o].kind = "accept_start"
    <3> DEFINE t == Finish(u, o, FALSE, b)
    <3>1. Sound(u)
      BY <1>1, <1>7, <2>1, <2>5 DEF Sound
    <3>2. Sound(t) /\ Keeps(u, t, {}) /\ Budget(t) = Budget(u)
      BY Zenon, <2>2, <3>1, FinishMoreSound
    <3> HIDE DEF t
    <3>3. Keeps(s, t, {})
      BY <2>2, <3>2, KeepsTransitive
    <3>4. Budget(t) >= Budget(s) - 1
      BY <1>1, <1>6, <1>7, <2>3, <2>5, <3>2
    <3> QED
      BY Zenon, <2>5, <3>2, <3>3, <3>4 DEF t
  <2>6. CASE s.ops[o].kind \notin {"accept", "accept_start"}
    BY <2>6
  <2> QED
    BY Zenon, <2>4, <2>5, <2>6
<1>8. Budget(failed) >= Budget(sp) - 1 /\ Budget(failed) <= Budget(sp)
      /\ \A h \in Room(sp) : Budget(housed(h)) >= Budget(sp) - 1 /\ Budget(housed(h)) <= Budget(sp)
  BY <1>4, <1>5, <1>6
<1> QED
  BY Zenon, <1>1, <1>4, <1>5, <1>7, <1>8 DEF sp, housed, failed

---------------------------------------------------------------------------
\* The remaining methods

\* Operations that end without a backend, worker or service.
Timers(s) == {o \in LiveOps(s) : IsTimer(s.ops[o].kind)}

\* t is sound, has the slots of s, and no operation but timers has gone.
Follows(s, t) == Sound(t) /\ Live(t) = Live(s) /\ Keeps(s, t, Timers(s)) /\ Budget(t) >= Budget(s)

\* The slots that multishot accepts may reserve are a number.
LEMMA BudgetIsInt ==
  ASSUME SetsCount, NEW s, Good(s)
  PROVE  Budget(s) \in Int
<1>1. Remaining(s) \in Nat
  BY Zenon, Counts
<1> QED
  BY <1>1 DEF Good, Typed, Budget

\* Similar states follow each other.
LEMMA SimilarFollows ==
  ASSUME SetsCount, NEW s, Sound(s), NEW t, Typed(t), Similar(s, t)
  PROVE  Sound(t) /\ Live(t) = Live(s) /\ LiveOps(t) = LiveOps(s) /\ Keeps(s, t, {})
         /\ Budget(t) = Budget(s) /\ Follows(s, t)
<1>1. Good(t) /\ Budget(t) = Budget(s) /\ Keeps(s, t, {}) /\ Kinds(t)
  BY SimilarGood DEF Sound
<1>2. Budget(t) >= Budget(s) /\ Keeps(s, t, Timers(s))
  BY <1>1, BudgetIsInt DEF Keeps
<1> QED
  BY <1>1, <1>2 DEF Follows, Sound, Similar

\* A change of the timer queue, the deadlines, the completions or a counter
\* that no promise depends on.
LEMMA OtherFields ==
  ASSUME NEW s, Sound(s), NEW t, IsDriver(t), t.handles = s.handles, t.ops = s.ops,
         SamePromises(s, t)
  PROVE  Typed(t) /\ Similar(s, t)
<1>1. Typed(t)
  BY SameOps DEF Sound, Good, Typed, SamePromises
<1>2. Similar(s, t)
  BY DEF Similar, Live, LiveOps
<1> QED
  BY <1>1, <1>2

\* Changing a resource in place.
LEMMA UpdateSimilar ==
  ASSUME NEW s, Sound(s), NEW t, IsDriver(t), NEW h \in Live(s), NEW r \in Resources,
         t.handles = [s.handles EXCEPT ![h] = r], t.ops = s.ops, SamePromises(s, t)
  PROVE  Typed(t) /\ Similar(s, t)
<1>1. h \in Handles /\ s.handles[h] # None /\ Good(s)
  BY DEF Live, Free, Sound
<1>2. Good(t) /\ SameBooks(s, t)
  BY <1>1, UpdateResource
<1> QED
  BY <1>2, SameBooksSimilar DEF Good

\* Handles come and go without their operations.
LEMMA HandleSound ==
  ASSUME SetsCount, NEW s, Sound(s)
  PROVE  /\ \A h \in Room(s), kind \in {"Socket", "File", "Timer"} :
              LET t == NewHandle(s, h, kind)
              IN  /\ Sound(t) /\ Keeps(s, t, {}) /\ t.ops = s.ops /\ SamePromises(s, t)
                  /\ Live(t) = Live(s) \cup {h} /\ h \in Handles
         /\ \A h : LET t == RemoveHandle(s, h)
                   IN  Sound(t) /\ Keeps(s, t, {}) /\ t.ops = s.ops /\ Budget(t) >= Budget(s)
<1>1. Good(s) /\ Kinds(s)
  BY DEF Sound
<1>2. ASSUME NEW h \in Room(s), NEW kind \in {"Socket", "File", "Timer"}
      PROVE  LET t == NewHandle(s, h, kind)
             IN  /\ Sound(t) /\ Keeps(s, t, {}) /\ t.ops = s.ops /\ SamePromises(s, t)
                 /\ Live(t) = Live(s) \cup {h} /\ h \in Handles
  <2> DEFINE t == NewHandle(s, h, kind)
  <2>1. Good(t) /\ t.ops = s.ops /\ SamePromises(s, t) /\ Live(t) = Live(s) \cup {h}
        /\ h \in Handles
    BY <1>1, NewHandleGood
  <2> HIDE DEF t
  <2>2. Kinds(t) /\ Keeps(s, t, {})
    BY <1>1, <2>1, OpsDecide
  <2> QED
    BY <2>1, <2>2 DEF Sound, t
<1>3. ASSUME NEW h
      PROVE  LET t == RemoveHandle(s, h)
             IN  Sound(t) /\ Keeps(s, t, {}) /\ t.ops = s.ops /\ Budget(t) >= Budget(s)
  <2> DEFINE t == RemoveHandle(s, h)
  <2>1. Good(t) /\ t.ops = s.ops /\ SamePromises(s, t) /\ Remaining(t) >= Remaining(s)
    BY <1>1, RemoveHandleGood
  <2> HIDE DEF t
  <2>2. Kinds(t) /\ Keeps(s, t, {})
    BY <1>1, <2>1, OpsDecide
  <2>3. Remaining(s) \in Nat /\ Remaining(t) \in Nat
    BY Zenon, Counts
  <2>4. Budget(t) >= Budget(s)
    BY SMTT(60), <1>1, <2>1, <2>3 DEF Budget, SamePromises, Good, Typed
  <2> QED
    BY <2>1, <2>2, <2>4 DEF Sound, t
<1> QED
  BY <1>2, <1>3

\* cancel_inner() ends no operation but a timer.
LEMMA CancelInnerSound ==
  ASSUME SetsCount, NEW s, Sound(s), NEW o \in LiveOps(s)
  PROVE  Follows(s, CancelInner(s, o))
<1> DEFINE t == CancelInner(s, o)
<1>1. Good(s) /\ Kinds(s) /\ Typed(s) /\ Budget(s) \in Int /\ o \in Ops /\ s.ops[o] \in Operations
  BY OpFields, BudgetIsInt DEF Sound, Good
<1>2. CASE s.ops[o].cancel
  <2>1. t = s
    BY <1>2 DEF CancelInner
  <2> QED
    BY <1>1, <2>1 DEF Follows, Keeps
<1>3. CASE ~s.ops[o].cancel /\ IsTimer(s.ops[o].kind)
  <2> DEFINE u == [s EXCEPT !.timers = s.timers \ {s.ops[o].handle}]
  <2>1. t = Finish(u, o, TRUE, None)
    BY <1>3 DEF CancelInner
  <2>2. IsDriver(u) /\ u.handles = s.handles /\ u.ops = s.ops /\ SamePromises(s, u)
    BY <1>1 DEF Typed, IsDriver, Fields, SamePromises
  <2> HIDE DEF u, t
  <2>3. Sound(u) /\ Live(u) = Live(s) /\ LiveOps(u) = LiveOps(s) /\ Keeps(s, u, {})
        /\ Budget(u) = Budget(s)
    BY <2>2, OtherFields, SimilarFollows
  <2>4. Good(u) /\ KindsBut(u, o) /\ o \in LiveOps(u)
    BY <2>3 DEF Sound, Kinds, KindsBut
  <2>5. Sound(t) /\ Live(t) = Live(u) /\ Keeps(u, t, {o}) /\ Budget(t) >= Budget(u)
    BY Zenon, <2>1, <2>4, FinishSound
  <2>6. Keeps(s, t, Timers(s))
    BY <1>3, <2>3, <2>5 DEF Keeps, Timers
  <2> QED
    BY <2>3, <2>5, <2>6 DEF Follows, t
<1>4. CASE ~s.ops[o].cancel /\ ~IsTimer(s.ops[o].kind)
  <2> DEFINE q == [s.ops[o] EXCEPT !.cancel = TRUE]
  <2>1. /\ IsDriver(t) /\ t.handles = s.handles /\ t.ops = [s.ops EXCEPT ![o] = q]
        /\ SamePromises(s, t)
    BY Zenon, <1>1, <1>4 DEF CancelInner, Typed, IsDriver, Fields, SamePromises
  <2>2. q \in Operations /\ q.kind = s.ops[o].kind /\ q.multishot = s.ops[o].multishot
        /\ q.reserved_handles = s.ops[o].reserved_handles
    BY Zenon, <1>1 DEF Operations
  <2> HIDE DEF q, t
  <2>3. Good(t) /\ Similar(s, t)
    BY <1>1, <2>1, <2>2, UpdateOp
  <2>4. Follows(s, t)
    BY <2>3, SimilarFollows DEF Good
  <2> QED
    BY <2>4 DEF t
<1> QED
  BY <1>2, <1>3, <1>4

\* The loop over a handle's operations in close(), detach() and signal_stop().
LEMMA CancelAllSound ==
  ASSUME SetsCount, NEW s, Sound(s), NEW h \in Live(s), NEW kept
  PROVE  Follows(s, CancelAll(s, h, kept))
<1> DEFINE t == CancelAll(s, h, kept)
<1>1. Good(s) /\ Kinds(s) /\ Typed(s) /\ Budget(s) \in Int
  BY BudgetIsInt DEF Sound, Good
<1>2. CASE s.handles[h].kind = "Timer" /\ OpsOf(s, h) = {}
  <2>1. t = s
    BY <1>2 DEF CancelAll
  <2> QED
    BY <1>1, <2>1 DEF Follows, Keeps
<1>3. CASE s.handles[h].kind = "Timer" /\ OpsOf(s, h) # {}
  <2> DEFINE o == CHOOSE x \in OpsOf(s, h) : TRUE
  <2>1. o \in LiveOps(s)
    BY <1>3 DEF OpsOf
  <2>2. t = CancelInner(s, o)
    BY <1>3 DEF CancelAll
  <2> HIDE DEF o
  <2> QED
    BY <2>1, <2>2, CancelInnerSound
<1>4. CASE s.handles[h].kind # "Timer"
  <2> DEFINE gone == OpsOf(s, h) \ kept
             ops == [o \in Ops |-> IF o \in gone THEN [s.ops[o] EXCEPT !.cancel = TRUE] ELSE s.ops[o]]
  <2>1. gone \subseteq LiveOps(s)
    BY DEF OpsOf
  <2>2. IsDriver(t) /\ t.handles = s.handles /\ t.ops = ops /\ SamePromises(s, t)
    BY Zenon, <1>1, <1>4 DEF CancelAll, Typed, IsDriver, Fields, SamePromises
  <2> HIDE DEF gone, t
  <2>3. ASSUME NEW o \in Ops
        PROVE  /\ ops[o] \in Operations \cup {None} /\ (ops[o] # None <=> s.ops[o] # None)
               /\ s.ops[o] # None =>
                     /\ ops[o].kind = s.ops[o].kind
                     /\ ops[o].reserved_handles = s.ops[o].reserved_handles
                     /\ ops[o].multishot = s.ops[o].multishot
    <3>1. CASE o \notin gone
      BY <1>1, <3>1 DEF Typed
    <3>2. CASE o \in gone
      <4> DEFINE q == [s.ops[o] EXCEPT !.cancel = TRUE]
      <4>1. s.ops[o] \in Operations /\ s.ops[o] # None
        BY <1>1, <2>1, <3>2 DEF LiveOps, Free, Typed
      <4>2. q \in Operations /\ q.kind = s.ops[o].kind /\ q.multishot = s.ops[o].multishot
            /\ q.reserved_handles = s.ops[o].reserved_handles
        BY Zenon, <4>1 DEF Operations
      <4>3. q # None
        BY Zenon, <4>2, VacantAssumption
      <4>4. ops[o] = q
        BY <3>2
      <4> HIDE DEF q, ops
      <4> QED
        BY <4>1, <4>2, <4>3, <4>4
    <3> QED
      BY <3>1, <3>2
  <2>4. ops \in [Ops -> Operations \cup {None}]
    BY <2>3
  <2> HIDE DEF ops
  <2>5. LiveOps(t) = LiveOps(s)
    BY <2>2, <2>3 DEF LiveOps, Free
  <2>6. Typed(t)
    BY <1>1, <2>2, <2>4, <2>5 DEF Typed, SamePromises
  <2>7. Similar(s, t)
    BY <2>2, <2>3, <2>5 DEF Similar, Live, LiveOps, Free
  <2>8. Follows(s, t)
    BY <2>6, <2>7, SimilarFollows
  <2> QED
    BY <2>8 DEF t
<1> QED
  BY <1>2, <1>3, <1>4

\* maybe_closed() after any of these.
LEMMA MaybeClosedFollows ==
  ASSUME SetsCount, NEW s, NEW t, Follows(s, t), Sound(s), NEW h \in Handles \cup {None}
  PROVE  Follows(s, MaybeClosed(t, h))
<1> DEFINE u == MaybeClosed(t, h)
<1>1. Good(t) /\ Kinds(t) /\ Sound(t)
  BY DEF Follows, Sound
<1>2. Good(u) /\ SameBooks(t, u)
  BY <1>1, MaybeClosedGood
<1> HIDE DEF u
<1>3. Typed(u) /\ Similar(t, u)
  BY <1>2, SameBooksSimilar DEF Good
<1>4. Sound(u) /\ Live(u) = Live(t) /\ Budget(u) = Budget(t) /\ LiveOps(u) = LiveOps(t)
      /\ \A o \in LiveOps(t) : u.ops[o].kind = t.ops[o].kind
  BY <1>1, <1>3, SimilarFollows DEF Similar
<1>5. Follows(s, u)
  BY <1>4 DEF Follows, Keeps
<1> QED
  BY <1>5 DEF u

\* finish_fs(), whatever the outcome of the request.
LEMMA FinishFsSound ==
  ASSUME SetsCount, NEW s, Sound(s), NEW o \in LiveOps(s), NEW opened \in BOOLEAN
  PROVE  LET t == FinishFs(s, o, opened)
         IN  Sound(t) /\ Keeps(s, t, {o}) /\ Budget(t) >= Budget(s)
<1> DEFINE t == FinishFs(s, o, opened)
           h == s.ops[o].handle
           hidden == Present(s, h) /\ s.handles[h].hidden
           f == Finish(s, o, TRUE, None)
<1>1. Good(s) /\ KindsBut(s, o) /\ Typed(s) /\ h \in Handles \cup {None}
  BY OpFields DEF Sound, Good, Kinds, KindsBut
<1>2. Sound(f) /\ Keeps(s, f, {o}) /\ Budget(f) >= Budget(s)
  BY Zenon, <1>1, FinishSound
<1>3. CASE ~hidden
  <2>1. t = f
    BY <1>3 DEF FinishFs
  <2> QED
    BY Zenon, <1>2, <2>1
<1>4. CASE hidden /\ opened
  <2> DEFINE r == [s.handles[h] EXCEPT !.hidden = FALSE]
             u == [s EXCEPT !.handles[h].hidden = FALSE]
  <2>1. h \in Live(s) /\ s.handles[h] \in Resources
    BY <1>1, <1>4 DEF Present, Live, Typed, Free
  <2>2. r \in Resources
    BY Zenon, <2>1 DEF Resources
  <2>3. IsDriver(u) /\ u.handles = [s.handles EXCEPT ![h] = r] /\ u.ops = s.ops /\ SamePromises(s, u)
    BY <1>1 DEF Typed, IsDriver, Fields, SamePromises
  <2>4. t = Finish(u, o, TRUE, h)
    BY <1>4 DEF FinishFs
  <2> HIDE DEF r, u, t, h
  <2>5. Typed(u) /\ Similar(s, u)
    BY <2>1, <2>2, <2>3, UpdateSimilar
  <2>6. Sound(u) /\ LiveOps(u) = LiveOps(s) /\ Keeps(s, u, {}) /\ Budget(u) = Budget(s)
    BY <2>5, SimilarFollows
  <2>7. Good(u) /\ KindsBut(u, o) /\ o \in LiveOps(u)
    BY <2>6 DEF Sound, Kinds, KindsBut
  <2>8. Sound(t) /\ Keeps(u, t, {o}) /\ Budget(t) >= Budget(u)
    BY Zenon, <2>4, <2>7, FinishSound
  <2>9. Keeps(s, t, {o})
    BY <2>6, <2>8, KeepsTransitive
  <2> QED
    BY <2>6, <2>8, <2>9 DEF t
<1>5. CASE hidden /\ ~opened
  <2> DEFINE g == [f EXCEPT !.queued[Len(f.queued)].handle = None]
  <2>1. t = RemoveHandle(g, h)
    BY <1>5 DEF FinishFs
  <2> HIDE DEF f, h, t
  <2>2. IsDriver(g) /\ g.handles = f.handles /\ g.ops = f.ops /\ SamePromises(f, g)
    BY Zenon, <1>2 DEF Sound, Good, Typed, IsDriver, Fields, SamePromises
  <2> HIDE DEF g
  <2>3. Sound(g) /\ Keeps(f, g, {}) /\ Budget(g) = Budget(f) /\ LiveOps(g) = LiveOps(f)
    BY <1>2, <2>2, OtherFields, SimilarFollows
  <2>4. Sound(t) /\ Keeps(g, t, {}) /\ Budget(t) >= Budget(g)
    BY <2>1, <2>3, HandleSound
  <2>5. Keeps(s, t, {o})
    BY <1>2, <2>3, <2>4 DEF Keeps
  <2>6. Budget(s) \in Int /\ Budget(f) \in Int /\ Budget(t) \in Int
    BY <1>1, <1>2, <2>4, BudgetIsInt DEF Sound
  <2>7. Budget(t) >= Budget(s)
    BY <1>2, <2>3, <2>4, <2>6
  <2> QED
    BY <2>4, <2>5, <2>7 DEF t
<1> QED
  BY Zenon, <1>3, <1>4, <1>5

\* drain() frees the handle whose Closed it hands over, and nothing else.
LEMMA DrainOneSound ==
  ASSUME SetsCount, NEW s, Sound(s)
  PROVE  Sound(DrainOne(s)) /\ Keeps(s, DrainOne(s), {})
<1> DEFINE e == Head(s.queued)
           p == [s EXCEPT
               !.queued = Tail(s.queued),
               !.refs = s.refs - One(e.referenced),
               !.buffered = Buffer(s, e.class, -1),
               !.outstanding = s.outstanding - One(e.terminal /\ e.op)]
<1>1. DrainOne(s) = IF e.closed /\ Present(s, e.handle) THEN RemoveHandle(p, e.handle) ELSE p
  BY DEF DrainOne
<1>2. IsDriver(p) /\ p.handles = s.handles /\ p.ops = s.ops /\ SamePromises(s, p)
  BY Zenon DEF Sound, Good, Typed, IsDriver, Fields, SamePromises
<1> HIDE DEF p
<1>3. Sound(p) /\ Keeps(s, p, {}) /\ LiveOps(p) = LiveOps(s)
  BY <1>2, OtherFields, SimilarFollows
<1>4. Sound(RemoveHandle(p, e.handle)) /\ Keeps(p, RemoveHandle(p, e.handle), {})
  BY <1>3, HandleSound
<1>5. Keeps(s, RemoveHandle(p, e.handle), {})
  BY <1>3, <1>4, KeepsTransitive
<1> QED
  BY <1>1, <1>3, <1>4, <1>5

\* spawn_extra() takes slots that are not promised.
LEMMA AddHandlesSound ==
  ASSUME SetsCount, NEW s, Sound(s), NEW H \in SUBSET (Handles \ Live(s)),
         Cardinality(H) + s.reserved_handles <= Remaining(s)
  PROVE  LET t == AddHandles(s, H) IN Sound(t) /\ t.ops = s.ops /\ t.outstanding = s.outstanding
<1> DEFINE t == AddHandles(s, H)
<1>1. Good(s) /\ Kinds(s) /\ Typed(s) /\ Promises(s)
  BY DEF Sound, Good
<1>2. Resource("Socket") \in Resources
  BY DEF Resource, Resources
<1>3. Resource("Socket") # None
  BY <1>2, VacantAssumption
<1>4. /\ IsDriver(t) /\ t.ops = s.ops /\ SamePromises(s, t) /\ t.outstanding = s.outstanding
      /\ t.handles = [h \in Handles |-> IF h \in H THEN Resource("Socket") ELSE s.handles[h]]
  BY Zenon, <1>1 DEF AddHandles, Typed, IsDriver, Fields, SamePromises
<1> HIDE DEF t
<1>5. Typed(t)
  BY <1>1, <1>2, <1>4, SameOps DEF Typed, SamePromises
<1>6. Live(t) = Live(s) \cup H
  BY <1>3, <1>4 DEF Live, Free
<1>7. Remaining(t) = Remaining(s) - Cardinality(H)
  <2>1. Handles \ Live(s) = (Handles \ Live(t)) \cup H /\ (Handles \ Live(t)) \cap H = {}
    BY <1>6
  <2>2. IsFiniteSet(Handles \ Live(s)) /\ IsFiniteSet(Handles \ Live(t)) /\ Remaining(t) \in Nat
    BY Zenon, Counts
  <2>3. IsFiniteSet(H) /\ Cardinality(H) \in Nat
    BY Zenon, <2>2 DEF SetsCount
  <2>4. Remaining(s) = Remaining(t) + Cardinality(H)
    BY Zenon, <2>1, <2>2, <2>3 DEF Remaining, SetsCount
  <2> QED
    BY <2>2, <2>3, <2>4
<1>8. Held(t) = Held(s) /\ Multi(t) = Multi(s) /\ Kinds(t)
  BY <1>1, <1>4, SameOps, OpsDecide
<1>9. Promises(t)
  <2>1. IsFiniteSet(Handles \ Live(s))
    BY Counts
  <2>2. Cardinality(H) \in Nat
    BY <2>1 DEF SetsCount
  <2>3. Remaining(s) \in Nat /\ s.reserved_handles \in Int
    BY Zenon, <1>1, Counts DEF Typed
  <2>4. s.reserved_handles <= Remaining(t)
    BY <1>7, <2>2, <2>3
  <2> QED
    BY <1>1, <1>4, <1>8, <2>4, PromisesKept
<1> QED
  BY <1>4, <1>5, <1>8, <1>9 DEF Sound, Good, t

\* ... and gives them back when a later step fails.
LEMMA RemoveHandlesSound ==
  ASSUME SetsCount, NEW s, Sound(s), NEW H
  PROVE  LET t == RemoveHandles(s, H) IN Sound(t) /\ t.ops = s.ops
<1> DEFINE t == RemoveHandles(s, H)
<1>1. Good(s) /\ Kinds(s) /\ Typed(s) /\ Promises(s)
  BY DEF Sound, Good
<1>2. /\ IsDriver(t) /\ t.ops = s.ops /\ SamePromises(s, t)
      /\ t.handles = [h \in Handles |-> IF h \in H THEN None ELSE s.handles[h]]
  BY Zenon, <1>1 DEF RemoveHandles, Typed, IsDriver, Fields, SamePromises, Free
<1> HIDE DEF t
<1>3. Typed(t)
  BY <1>1, <1>2, SameOps DEF Typed, SamePromises
<1>4. Handles \ Live(s) \subseteq Handles \ Live(t)
  BY <1>2 DEF Live, Free
<1>5. Remaining(t) >= Remaining(s)
  BY <1>4, Counts DEF Remaining, SetsCount
<1>6. Held(t) = Held(s) /\ Multi(t) = Multi(s) /\ Kinds(t)
  BY <1>1, <1>2, SameOps, OpsDecide
<1>7. Promises(t)
  <2>1. Remaining(s) \in Nat /\ Remaining(t) \in Nat /\ s.reserved_handles \in Int
        /\ s.reserved_handles <= Remaining(s)
    BY Zenon, <1>1, Counts DEF Typed, Promises
  <2>2. s.reserved_handles <= Remaining(t)
    BY <1>5, <2>1
  <2> QED
    BY <1>1, <1>2, <1>6, <2>2, PromisesKept
<1> QED
  BY <1>2, <1>3, <1>6, <1>7 DEF Sound, Good, t

\* An admitted operation that changes in place, and one that is undone.
LEMMA AddsSimilar ==
  ASSUME SetsCount, NEW s, NEW t, NEW o, NEW kind, Adds(s, t, o, kind), NEW u, Typed(u), Similar(t, u)
  PROVE  Adds(s, u, o, kind)
<1>1. Sound(u) /\ Live(u) = Live(t) /\ LiveOps(u) = LiveOps(t) /\ Keeps(t, u, {})
  BY SimilarFollows DEF Adds
<1>2. u.ops[o].kind = t.ops[o].kind
  BY DEF Adds, Similar
<1>3. Keeps(s, u, {})
  BY <1>1, KeepsTransitive DEF Adds
<1> QED
  BY <1>1, <1>2, <1>3 DEF Adds

\* unsubmit() of an operation just added gives back every operation there was
\* before.
LEMMA AddsUndone ==
  ASSUME SetsCount, NEW s, NEW t, NEW o, NEW kind, Adds(s, t, o, kind)
  PROVE  LET u == Unsubmit(t, o)
         IN  Sound(u) /\ Keeps(s, u, {}) /\ Live(u) = Live(s)
<1> DEFINE u == Unsubmit(t, o)
<1>1. o \in LiveOps(t) /\ Sound(t)
  BY DEF Adds
<1>2. Sound(u) /\ Live(u) = Live(t) /\ LiveOps(u) = LiveOps(t) \ {o} /\ Keeps(t, u, {o})
  BY <1>1, UnsubmitSound
<1> HIDE DEF u
<1>3. Keeps(s, u, {})
  BY <1>2 DEF Adds, Keeps
<1> QED
  BY <1>2, <1>3 DEF Adds, u

\* Requests for the pool, the file service or the backend's file system.
LEMMA RequestAdds ==
  ASSUME SetsCount, NEW s, Sound(s), NEW o \in OpRoom(s)
  PROVE  /\ Adds(s, JobOp(s, o), o, "job")
         /\ Adds(s, NewOp(s, o, "lookup", None), o, "lookup")
         /\ Adds(s, MakeNative(NewOp(s, o, "lookup", None), o), o, "lookup")
         /\ \A h \in Handles \cup {None} :
               Adds(s, FsOp(s, o, h), o, "fs") /\ Adds(s, MakeNative(FsOp(s, o, h), o), o, "fs")
<1>1. ASSUME NEW t, NEW kind, Adds(s, t, o, kind)
      PROVE  Adds(s, ChargePort(t, o), o, kind) /\ Adds(s, MakeNative(t, o), o, kind)
  <2>1. o \in LiveOps(t) /\ Good(t)
    BY <1>1 DEF Adds, Sound
  <2>2. Typed(ChargePort(t, o)) /\ Similar(t, ChargePort(t, o))
        /\ Typed(MakeNative(t, o)) /\ Similar(t, MakeNative(t, o))
    BY <2>1, ChargeGood DEF Good
  <2> QED
    BY <1>1, <2>2, AddsSimilar
<1>2. \A h \in Handles \cup {None} : Adds(s, NewOp(s, o, "fs", h), o, "fs")
  BY NewOpSound DEF OpKinds
<1>3. Adds(s, NewOp(s, o, "job", None), o, "job") /\ Adds(s, NewOp(s, o, "lookup", None), o, "lookup")
  BY NewOpSound DEF OpKinds
<1>4. \A h \in Handles \cup {None} : Adds(s, FsOp(s, o, h), o, "fs")
  BY <1>1, <1>2 DEF FsOp
<1> QED
  BY <1>1, <1>3, <1>4 DEF JobOp

---------------------------------------------------------------------------
\* The inductive invariant

\* The backend, the workers and the ring own operations that are in the table,
\* are no timers, and have one owner each.
Owned(I, J, R, s) ==
    /\ I \cup J \cup R \subseteq LiveOps(s) \ Timers(s)
    /\ I \cap J = {} /\ I \cap R = {} /\ J \cap R = {}

DriverInv ==
    /\ Sound(d) /\ Owned(inflight, jobs, ring, d)
    /\ accepts \in Nat /\ (phase = "events" => accepts <= Budget(d))
    /\ dropped = FALSE

\* Every operation keeps its owner when operations stay, and when one ends and
\* leaves its owner.
LEMMA OwnedKept ==
  ASSUME NEW I, NEW J, NEW R, NEW s, Owned(I, J, R, s), NEW t
  PROVE  /\ Keeps(s, t, {}) => Owned(I, J, R, t)
         /\ Keeps(s, t, Timers(s)) => Owned(I, J, R, t)
         /\ \A o : Keeps(s, t, {o}) =>
               /\ o \in I => Owned(I \ {o}, J, R, t)
               /\ o \in R => Owned(I, J, R \ {o}, t)
  BY DEF Owned, Keeps, Timers

\* A new operation is owned by the backend or by the pool that took it.
LEMMA OwnedAdded ==
  ASSUME NEW I, NEW J, NEW R, NEW s, Owned(I, J, R, s), NEW t, NEW o, NEW kind,
         Adds(s, t, o, kind), ~IsTimer(kind)
  PROVE  Sound(t) /\ Owned(I \cup {o}, J, R, t) /\ Owned(I, J \cup {o}, R, t)
<1>1. Owned(I, J, R, t)
  BY OwnedKept DEF Adds
<1>2. o \notin I \cup J \cup R /\ o \in LiveOps(t) \ Timers(t)
  BY DEF Owned, Adds, Timers
<1> QED
  BY <1>1, <1>2 DEF Owned, Adds

\* What a public call has to establish.
LEMMA CallInv ==
  ASSUME DriverInv, phase = "host", UNCHANGED <<turnVars, posts, dropped>>,
         Sound(d'), Owned(inflight', jobs', ring', d')
  PROVE  DriverInv'
  BY DEF DriverInv, turnVars

\* Operations admitted on a handle just made.
LEMMA RoomForOp ==
  ASSUME SetsCount, NEW s, Sound(s), NEW h \in Room(s), NEW kind \in {"Socket", "File", "Timer"}
  PROVE  LET t == NewHandle(s, h, kind)
         IN  Sound(t) /\ OpRoom(t) = OpRoom(s) /\ Keeps(s, t, {}) /\ h \in Handles
             /\ t.ops = s.ops /\ h \in Live(t)
<1> DEFINE t == NewHandle(s, h, kind)
<1>1. Sound(t) /\ Keeps(s, t, {}) /\ t.ops = s.ops /\ h \in Live(t) /\ h \in Handles
  BY HandleSound
<1>2. t.outstanding = s.outstanding
  BY DEF NewHandle, Sound, Good, Typed, IsDriver, Fields
<1>3. OpRoom(t) = OpRoom(s)
  BY <1>1, <1>2 DEF OpRoom, LiveOps
<1> QED
  BY <1>1, <1>3

\* An operation on a new handle is an operation more.
LEMMA AddsOnNew ==
  ASSUME NEW s, NEW t, t.ops = s.ops, NEW u, NEW o, NEW kind, Adds(t, u, o, kind)
  PROVE  Keeps(s, u, {}) /\ o \notin LiveOps(s) /\ o \in LiveOps(u) /\ u.ops[o].kind = kind /\ Sound(u)
<1>1. LiveOps(t) = LiveOps(s)
  BY DEF LiveOps
<1> QED
  BY <1>1 DEF Adds, Keeps

\* The same, when promises moved meanwhile.
LEMMA OwnedFresh ==
  ASSUME NEW I, NEW J, NEW R, NEW s, Owned(I, J, R, s), NEW u, NEW o, Keeps(s, u, {}),
         o \notin LiveOps(s), o \in LiveOps(u), ~IsTimer(u.ops[o].kind)
  PROVE  Owned(I \cup {o}, J, R, u) /\ Owned(I, J \cup {o}, R, u)
<1>1. Owned(I, J, R, u)
  BY OwnedKept
<1> QED
  BY <1>1 DEF Owned, Timers

---------------------------------------------------------------------------
\* Public calls

\* Handles the host can name are in the table.
LEMMA KnownLive == Known \subseteq Live(d) /\ \A kind : Usable(kind) \subseteq Live(d)
  BY DEF Known, Usable

\* Submissions, accepted or refused, keep the inductive invariant.
LEMMA SubmitInv ==
  ASSUME SetsCount, DriverInv, NEW k \in SubmitKinds, Submit(k) \/ SubmitRefused(k)
  PROVE  DriverInv'
<1>1. Sound(d) /\ Owned(inflight, jobs, ring, d) /\ phase = "host"
      /\ UNCHANGED <<turnVars, posts, dropped>> /\ MayReserve(d, k) /\ k \in OpKinds /\ ~IsTimer(k)
  BY DEF DriverInv, Submit, SubmitRefused, HostCalls, SubmitKinds, OpKinds, IsTimer
<1>2. PICK h \in Usable("Socket"), o \in OpRoom(d) :
         \/ /\ d' = SubmitOp(d, o, h, k) /\ inflight' = inflight \cup {o}
            /\ UNCHANGED <<jobs, ring>>
         \/ d' = Unsubmit(SubmitOp(d, o, h, k), o) /\ UNCHANGED <<inflight, jobs, ring>>
  BY DEF Submit, SubmitRefused
<1>3. h \in Handles \cup {None}
  BY KnownLive DEF Live
<1>4. Adds(d, SubmitOp(d, o, h, k), o, k)
  BY <1>1, <1>3, SubmitSound
<1>5. Sound(d') /\ Owned(inflight', jobs', ring', d')
  <2>1. CASE d' = SubmitOp(d, o, h, k) /\ inflight' = inflight \cup {o} /\ UNCHANGED <<jobs, ring>>
    BY Zenon, <1>1, <1>4, <2>1, OwnedAdded
  <2>2. CASE d' = Unsubmit(SubmitOp(d, o, h, k), o) /\ UNCHANGED <<inflight, jobs, ring>>
    <3>1. Sound(d') /\ Keeps(d, d', {})
      BY <1>4, <2>2, AddsUndone
    <3> QED
      BY <1>1, <2>2, <3>1, OwnedKept
  <2> QED
    BY <1>2, <2>1, <2>2
<1> QED
  BY <1>1, <1>5, CallInv

\* tcp_listen and the other calls that only make a handle.
LEMMA OpenInv ==
  ASSUME SetsCount, DriverInv, Open
  PROVE  DriverInv'
<1>1. Sound(d) /\ Owned(inflight, jobs, ring, d) /\ phase = "host"
      /\ UNCHANGED <<turnVars, posts, dropped>> /\ UNCHANGED <<inflight, jobs, ring>>
  BY DEF DriverInv, Open, HostCalls
<1>2. PICK h \in Room(d) : d' = NewHandle(d, h, "Socket")
  BY DEF Open
<1>3. Sound(d') /\ Keeps(d, d', {})
  BY <1>1, <1>2, HandleSound
<1>4. Owned(inflight', jobs', ring', d')
  BY <1>1, <1>3, OwnedKept
<1> QED
  BY <1>1, <1>3, <1>4, CallInv

\* A handle and its first operation.
LEMMA OpenSubmitInv ==
  ASSUME SetsCount, DriverInv, NEW k \in OpenKinds, OpenSubmit(k)
  PROVE  DriverInv'
<1>1. Sound(d) /\ Owned(inflight, jobs, ring, d) /\ phase = "host"
      /\ UNCHANGED <<turnVars, posts, dropped>> /\ UNCHANGED <<jobs, ring>>
      /\ k \in OpKinds /\ ~IsTimer(k) /\ ~Reserves(k)
  BY DEF DriverInv, OpenSubmit, HostCalls, OpenKinds, OpKinds, IsTimer, Reserves
<1>2. PICK h \in Room(d), o \in OpRoom(d), timed \in BOOLEAN :
         /\ LET s == SubmitOp(NewHandle(d, h, "Socket"), o, h, k)
            IN  d' = IF timed THEN [s EXCEPT !.deadlines = @ \cup {o}] ELSE s
         /\ inflight' = inflight \cup {o}
  BY Zenon DEF OpenSubmit
<1> DEFINE n == NewHandle(d, h, "Socket")
           s == SubmitOp(n, o, h, k)
<1>3. Sound(n) /\ OpRoom(n) = OpRoom(d) /\ h \in Handles /\ n.ops = d.ops
  BY <1>1, RoomForOp
<1> HIDE DEF n
<1>4. MayReserve(n, k)
  BY <1>1 DEF MayReserve
<1>5. Adds(n, s, o, k)
  BY <1>1, <1>3, <1>4, SubmitSound
<1>6. d' = [s EXCEPT !.deadlines = s.deadlines \cup {o}] \/ d' = s
  BY <1>2 DEF n
<1> HIDE DEF s
<1>7. Adds(n, d', o, k)
  <2>1. CASE d' = s
    BY <1>5, <2>1
  <2>2. CASE d' = [s EXCEPT !.deadlines = s.deadlines \cup {o}]
    <3>1. Sound(s)
      BY <1>5 DEF Adds
    <3>2. /\ IsDriver(d') /\ d'.handles = s.handles /\ d'.ops = s.ops
          /\ d'.deadlines = s.deadlines \cup {o} /\ d'.reserved_handles = s.reserved_handles
          /\ d'.multishot_armed = s.multishot_armed /\ d'.multishot_reserved = s.multishot_reserved
      BY <2>2, <3>1 DEF Sound, Good, Typed, IsDriver, Fields
    <3>3. LiveOps(d') = LiveOps(s) /\ Live(d') = Live(s) /\ o \in LiveOps(s) /\ Keeps(s, d', {})
          /\ Kinds(d') /\ Held(d') = Held(s) /\ Multi(d') = Multi(s)
      BY <1>5, <3>1, <3>2, SameOps, OpsDecide DEF Adds, Live, Sound
    <3>4. Typed(d')
      BY <3>1, <3>2, <3>3 DEF Sound, Good, Typed
    <3>5. Promises(d')
      BY <3>1, <3>2, <3>3 DEF Sound, Good, Promises, Remaining
    <3>6. Keeps(n, d', {})
      BY <1>5, <3>3, KeepsTransitive DEF Adds
    <3> QED
      BY <1>5, <3>2, <3>3, <3>4, <3>5, <3>6 DEF Adds, Sound, Good
  <2> QED
    BY <1>6, <2>1, <2>2
<1>8. Keeps(d, d', {}) /\ o \notin LiveOps(d) /\ o \in LiveOps(d') /\ d'.ops[o].kind = k /\ Sound(d')
  BY <1>3, <1>7, AddsOnNew
<1>9. Owned(inflight', jobs', ring', d')
  BY Zenon, <1>1, <1>2, <1>8, OwnedFresh
<1> QED
  BY <1>1, <1>8, <1>9, CallInv

\* ... is taken back whole.
LEMMA OpenSubmitRefusedInv ==
  ASSUME SetsCount, DriverInv, NEW k \in OpenKinds, OpenSubmitRefused(k)
  PROVE  DriverInv'
<1>1. Sound(d) /\ Owned(inflight, jobs, ring, d) /\ phase = "host"
      /\ UNCHANGED <<turnVars, posts, dropped>> /\ UNCHANGED <<inflight, jobs, ring>>
      /\ k \in OpKinds /\ ~Reserves(k)
  BY DEF DriverInv, OpenSubmitRefused, HostCalls, OpenKinds, OpKinds, Reserves
<1>2. PICK h \in Room(d) :
         LET opened == NewHandle(d, h, "Socket") IN
         IF OpRoom(d) = {} THEN d' = RemoveHandle(opened, h)
         ELSE \E o \in OpRoom(d) :
                 d' = RemoveHandle(Unsubmit(SubmitOp(opened, o, h, k), o), h)
  BY DEF OpenSubmitRefused
<1> DEFINE n == NewHandle(d, h, "Socket")
<1>3. Sound(n) /\ OpRoom(n) = OpRoom(d) /\ h \in Handles /\ n.ops = d.ops /\ Keeps(d, n, {})
  BY <1>1, RoomForOp
<1>4. \/ d' = RemoveHandle(n, h)
      \/ \E o \in OpRoom(d) : d' = RemoveHandle(Unsubmit(SubmitOp(n, o, h, k), o), h)
  BY <1>2
<1> HIDE DEF n
<1>5. Sound(d') /\ Keeps(d, d', {})
  <2>1. CASE d' = RemoveHandle(n, h)
    <3>1. Sound(d') /\ Keeps(n, d', {})
      BY <1>3, <2>1, HandleSound
    <3> QED
      BY <1>3, <3>1, KeepsTransitive
  <2>2. ASSUME NEW o \in OpRoom(d), d' = RemoveHandle(Unsubmit(SubmitOp(n, o, h, k), o), h)
        PROVE  Sound(d') /\ Keeps(d, d', {})
    <3> DEFINE u == Unsubmit(SubmitOp(n, o, h, k), o)
    <3>1. MayReserve(n, k)
      BY <1>1 DEF MayReserve
    <3>2. Adds(n, SubmitOp(n, o, h, k), o, k)
      BY <1>1, <1>3, <3>1, SubmitSound
    <3>3. Sound(u) /\ Keeps(n, u, {})
      BY <3>2, AddsUndone
    <3> HIDE DEF u
    <3>4. Sound(d') /\ Keeps(u, d', {})
      BY <2>2, <3>3, HandleSound DEF u
    <3> QED
      BY <1>3, <3>3, <3>4, KeepsTransitive
  <2> QED
    BY <1>4, <2>1, <2>2
<1>6. Owned(inflight', jobs', ring', d')
  BY <1>1, <1>5, OwnedKept
<1> QED
  BY <1>1, <1>5, <1>6, CallInv

\* spawn_extra, and its undoing.
LEMMA SpawnInv ==
  ASSUME SetsCount, DriverInv, Spawn \/ SpawnRefused
  PROVE  DriverInv'
<1>1. Sound(d) /\ Owned(inflight, jobs, ring, d) /\ phase = "host"
      /\ UNCHANGED <<turnVars, posts, dropped>>
  BY DEF DriverInv, Spawn, SpawnRefused, HostCalls
<1>2. PICK h \in Room(d), P \in SUBSET Room(d) :
         /\ h \notin P
         /\ \/ /\ Cardinality(P) + 1 + d.reserved_handles <= Remaining(d)
               /\ \E o \in OpRoom(d) :
                     /\ d' = NewOp(AddHandles(d, {h} \cup P), o, "io", h)
                     /\ inflight' = inflight \cup {o} /\ UNCHANGED <<jobs, ring>>
            \/ /\ Cardinality({h} \cup P) + d.reserved_handles <= Remaining(d)
               /\ UNCHANGED <<inflight, jobs, ring>>
               /\ \/ d' = RemoveHandles(AddHandles(d, {h} \cup P), {h} \cup P)
                  \/ \E o \in OpRoom(d) :
                        d' = RemoveHandles(Unsubmit(NewOp(AddHandles(d, {h} \cup P), o, "io", h), o),
                                           {h} \cup P)
  BY Zenon DEF Spawn, SpawnRefused
<1> DEFINE H == {h} \cup P
           a == AddHandles(d, H)
<1>3. H \in SUBSET (Handles \ Live(d)) /\ h \in Handles /\ h \notin P
  BY <1>2 DEF Room
<1>4. Cardinality(H) = Cardinality(P) + 1
  <2>1. IsFiniteSet(Handles \ Live(d))
    BY Counts
  <2>2. IsFiniteSet(P)
    BY <1>3, <2>1 DEF SetsCount
  <2>3. Cardinality(P \cup {h}) = Cardinality(P) + 1
    BY Zenon, <1>3, <2>2 DEF SetsCount
  <2>4. H = P \cup {h}
    OBVIOUS
  <2> QED
    BY <2>3, <2>4
<1> HIDE DEF H
<1>5. Cardinality(H) + d.reserved_handles <= Remaining(d)
  BY <1>2, <1>4 DEF H
<1>6. Sound(a) /\ a.ops = d.ops /\ a.outstanding = d.outstanding
  BY <1>1, <1>3, <1>5, AddHandlesSound
<1> HIDE DEF a
<1>7. OpRoom(a) = OpRoom(d) /\ LiveOps(a) = LiveOps(d) /\ Keeps(d, a, {})
  BY <1>6 DEF OpRoom, LiveOps, Keeps
<1>8. \A o \in OpRoom(d) : Adds(a, NewOp(a, o, "io", h), o, "io")
  BY <1>3, <1>6, <1>7, NewOpSound DEF OpKinds
<1>9. \/ \E o \in OpRoom(d) :
            d' = NewOp(a, o, "io", h) /\ inflight' = inflight \cup {o} /\ UNCHANGED <<jobs, ring>>
      \/ d' = RemoveHandles(a, H) /\ UNCHANGED <<inflight, jobs, ring>>
      \/ \E o \in OpRoom(d) :
            d' = RemoveHandles(Unsubmit(NewOp(a, o, "io", h), o), H)
            /\ UNCHANGED <<inflight, jobs, ring>>
  BY <1>2 DEF a, H
<1>10. Sound(d') /\ Owned(inflight', jobs', ring', d')
  <2>1. ASSUME NEW o \in OpRoom(d), d' = NewOp(a, o, "io", h), inflight' = inflight \cup {o},
               UNCHANGED <<jobs, ring>>
        PROVE  Sound(d') /\ Owned(inflight', jobs', ring', d')
    <3>0. Adds(a, d', o, "io")
      BY Zenon, <1>8, <2>1
    <3>1. Keeps(d, d', {}) /\ o \notin LiveOps(d) /\ o \in LiveOps(d') /\ d'.ops[o].kind = "io"
          /\ Sound(d')
      BY Zenon, <1>6, <3>0, AddsOnNew
    <3>2. ~IsTimer(d'.ops[o].kind)
      BY <3>1 DEF IsTimer
    <3> QED
      BY Zenon, <1>1, <2>1, <3>1, <3>2, OwnedFresh
  <2>2. ASSUME NEW u, Sound(u), Keeps(d, u, {}), d' = RemoveHandles(u, H),
               UNCHANGED <<inflight, jobs, ring>>
        PROVE  Sound(d') /\ Owned(inflight', jobs', ring', d')
    <3>1. Sound(d') /\ d'.ops = u.ops
      BY <2>2, RemoveHandlesSound
    <3>2. Keeps(u, d', {})
      BY <3>1, OpsDecide
    <3>3. Keeps(d, d', {})
      BY <2>2, <3>2, KeepsTransitive
    <3> QED
      BY <1>1, <2>2, <3>1, <3>3, OwnedKept
  <2>3. \A o \in OpRoom(d) :
           Sound(Unsubmit(NewOp(a, o, "io", h), o)) /\ Keeps(d, Unsubmit(NewOp(a, o, "io", h), o), {})
    BY <1>7, <1>8, AddsUndone, KeepsTransitive
  <2> QED
    BY <1>6, <1>7, <1>9, <2>1, <2>2, <2>3
<1> QED
  BY <1>1, <1>10, CallInv

\* timer and interval, and arming one again.
LEMMA TimerInv ==
  ASSUME SetsCount, DriverInv, NEW k \in {"timer", "interval"}, Timer(k) \/ TimerReset
  PROVE  DriverInv'
<1>1. Sound(d) /\ Owned(inflight, jobs, ring, d) /\ phase = "host"
      /\ UNCHANGED <<turnVars, posts, dropped>> /\ UNCHANGED <<inflight, jobs, ring>>
  BY DEF DriverInv, Timer, TimerReset, HostCalls
<1>2. ASSUME NEW s, Sound(s), Keeps(d, s, {}), NEW T, d' = [s EXCEPT !.timers = T]
      PROVE  DriverInv'
  <2>1. IsDriver(d') /\ d'.handles = s.handles /\ d'.ops = s.ops /\ SamePromises(s, d')
    BY <1>2 DEF Sound, Good, Typed, IsDriver, Fields, SamePromises
  <2>2. Sound(d') /\ Keeps(s, d', {})
    BY Zenon, <1>2, <2>1, OtherFields, SimilarFollows
  <2>3. Keeps(d, d', {})
    BY <1>2, <2>2, KeepsTransitive
  <2>4. Owned(inflight', jobs', ring', d')
    BY <1>1, <2>3, OwnedKept
  <2> QED
    BY <1>1, <2>2, <2>4, CallInv
<1>3. CASE Timer(k)
  <2>1. PICK h \in Room(d), o \in OpRoom(d) :
           d' = [NewOp(NewHandle(d, h, "Timer"), o, k, h) EXCEPT !.timers = @ \cup {h}]
    BY Zenon, <1>3 DEF Timer
  <2> DEFINE n == NewHandle(d, h, "Timer")
             s == NewOp(n, o, k, h)
  <2>2. Sound(n) /\ OpRoom(n) = OpRoom(d) /\ h \in Handles /\ n.ops = d.ops
    BY <1>1, RoomForOp
  <2> HIDE DEF n
  <2>3. Adds(n, s, o, k)
    BY <2>2, NewOpSound DEF OpKinds
  <2>4. d' = [s EXCEPT !.timers = s.timers \cup {h}]
    BY <2>1 DEF n
  <2> HIDE DEF s
  <2>5. Sound(s) /\ Keeps(d, s, {})
    BY <2>2, <2>3, AddsOnNew
  <2> QED
    BY <1>2, <2>4, <2>5
<1>4. CASE TimerReset
  <2>1. PICK h : d' = [d EXCEPT !.timers = d.timers \cup {h}]
    BY Zenon, <1>4 DEF TimerReset
  <2>2. Keeps(d, d, {})
    BY DEF Keeps
  <2> QED
    BY <1>1, <1>2, <2>1, <2>2
<1> QED
  BY <1>3, <1>4

\* Work for the pool or a service, and lookups.
LEMMA JobInv ==
  ASSUME SetsCount, DriverInv, Blocking \/ BlockingRefused \/ Resolve \/ ResolveOnPool \/ ResolveRefused
  PROVE  DriverInv'
<1>1. Sound(d) /\ Owned(inflight, jobs, ring, d) /\ phase = "host"
      /\ UNCHANGED <<turnVars, posts, dropped>>
  BY DEF DriverInv, Blocking, BlockingRefused, Resolve, ResolveOnPool, ResolveRefused, HostCalls
<1>2. ~IsTimer("job") /\ ~IsTimer("lookup")
  BY DEF IsTimer
<1>3. Sound(d') /\ Owned(inflight', jobs', ring', d')
  <2>1. CASE Blocking
    <3>1. PICK o \in OpRoom(d) : d' = JobOp(d, o) /\ jobs' = jobs \cup {o}
      BY <2>1 DEF Blocking
    <3>2. Adds(d, d', o, "job")
      BY <1>1, <3>1, RequestAdds
    <3>3. UNCHANGED <<inflight, ring>>
      BY <2>1 DEF Blocking
    <3> QED
      BY Zenon, <1>1, <1>2, <3>1, <3>2, <3>3, OwnedAdded
  <2>2. CASE BlockingRefused
    <3>1. PICK o \in OpRoom(d) : d' = Unsubmit(JobOp(d, o), o)
      BY <2>2 DEF BlockingRefused
    <3>2. Adds(d, JobOp(d, o), o, "job")
      BY <1>1, <3>1, RequestAdds
    <3>3. Sound(d') /\ Keeps(d, d', {})
      BY <3>1, <3>2, AddsUndone
    <3>4. UNCHANGED <<inflight, jobs, ring>>
      BY <2>2 DEF BlockingRefused
    <3> QED
      BY <1>1, <3>3, <3>4, OwnedKept
  <2>3. CASE Resolve
    <3>1. PICK o \in OpRoom(d) :
             d' = MakeNative(NewOp(d, o, "lookup", None), o) /\ inflight' = inflight \cup {o}
      BY <2>3 DEF Resolve
    <3>2. Adds(d, d', o, "lookup")
      BY <1>1, <3>1, RequestAdds
    <3>3. UNCHANGED <<jobs, ring>>
      BY <2>3 DEF Resolve
    <3> QED
      BY Zenon, <1>1, <1>2, <3>1, <3>2, <3>3, OwnedAdded
  <2>4. CASE ResolveOnPool
    <3>1. PICK o \in OpRoom(d) :
             LET s == Unsubmit(NewOp(d, o, "lookup", None), o)
             IN  \E p \in OpRoom(s) : d' = JobOp(s, p) /\ jobs' = jobs \cup {p}
      BY <2>4 DEF ResolveOnPool
    <3> DEFINE s == Unsubmit(NewOp(d, o, "lookup", None), o)
    <3>2. PICK p \in OpRoom(s) : d' = JobOp(s, p) /\ jobs' = jobs \cup {p}
      BY <3>1
    <3>3. Adds(d, NewOp(d, o, "lookup", None), o, "lookup")
      BY <1>1, RequestAdds
    <3>4. Sound(s) /\ Keeps(d, s, {})
      BY <3>3, AddsUndone
    <3> HIDE DEF s
    <3>5. Owned(inflight, jobs, ring, s)
      BY <1>1, <3>4, OwnedKept
    <3>6. Adds(s, d', p, "job")
      BY <3>2, <3>4, RequestAdds
    <3>7. UNCHANGED <<inflight, ring>>
      BY <2>4 DEF ResolveOnPool
    <3> QED
      BY Zenon, <1>2, <3>2, <3>5, <3>6, <3>7, OwnedAdded
  <2>5. CASE ResolveRefused
    <3>1. PICK o \in OpRoom(d) : d' = Unsubmit(NewOp(d, o, "lookup", None), o)
      BY <2>5 DEF ResolveRefused
    <3>2. Adds(d, NewOp(d, o, "lookup", None), o, "lookup")
      BY <1>1, <3>1, RequestAdds
    <3>3. Sound(d') /\ Keeps(d, d', {})
      BY <3>1, <3>2, AddsUndone
    <3>4. UNCHANGED <<inflight, jobs, ring>>
      BY <2>5 DEF ResolveRefused
    <3> QED
      BY <1>1, <3>3, <3>4, OwnedKept
  <2> QED
    BY <2>1, <2>2, <2>3, <2>4, <2>5
<1> QED
  BY <1>1, <1>3, CallInv

\* A file's handle, hidden until it is opened.
LEMMA HiddenSound ==
  ASSUME SetsCount, NEW s, Sound(s), NEW h \in Room(s)
  PROVE  LET t == Hide(NewHandle(s, h, FileKind), h)
         IN  Sound(t) /\ t.ops = s.ops /\ OpRoom(t) = OpRoom(s) /\ Keeps(s, t, {}) /\ h \in Handles
<1> DEFINE n == NewHandle(s, h, FileKind)
           t == Hide(n, h)
           r == [n.handles[h] EXCEPT !.hidden = TRUE]
<1>1. FileKind \in {"Socket", "File", "Timer"}
  BY DEF FileKind
<1>2. Sound(n) /\ OpRoom(n) = OpRoom(s) /\ Keeps(s, n, {}) /\ h \in Handles /\ n.ops = s.ops
      /\ h \in Live(n)
  BY <1>1, RoomForOp
<1> HIDE DEF n
<1>3. n.handles[h] \in Resources
  BY <1>2 DEF Sound, Good, Typed, Live, Free
<1>4. r \in Resources
  BY Zenon, <1>3 DEF Resources
<1>5. /\ IsDriver(t) /\ t.handles = [n.handles EXCEPT ![h] = r] /\ t.ops = n.ops
      /\ SamePromises(n, t) /\ t.outstanding = n.outstanding
  BY Zenon, <1>2 DEF Hide, Sound, Good, Typed, IsDriver, Fields, SamePromises
<1> HIDE DEF t, r
<1>6. Typed(t) /\ Similar(n, t)
  BY <1>2, <1>4, <1>5, UpdateSimilar
<1>7. Sound(t) /\ LiveOps(t) = LiveOps(n) /\ Keeps(n, t, {})
  BY <1>2, <1>6, SimilarFollows
<1>8. OpRoom(t) = OpRoom(n)
  BY <1>5, <1>7 DEF OpRoom
<1>9. Keeps(s, t, {})
  BY <1>2, <1>7, KeepsTransitive
<1> QED
  BY Zenon, <1>2, <1>5, <1>7, <1>8, <1>9 DEF t, n

\* File requests, whichever party executes them.
LEMMA FsInv ==
  ASSUME SetsCount, DriverInv, Fs \/ FsOpen \/ FsRefused
  PROVE  DriverInv'
<1>1. Sound(d) /\ Owned(inflight, jobs, ring, d) /\ phase = "host"
      /\ UNCHANGED <<turnVars, posts, dropped>>
  BY DEF DriverInv, Fs, FsOpen, FsRefused, HostCalls
<1>2. ASSUME NEW s, Sound(s), s.ops = d.ops, OpRoom(s) = OpRoom(d), NEW h \in Handles \cup {None},
             NEW o \in OpRoom(d), Accepted(FsOp(s, o, h), o)
      PROVE  DriverInv'
  <2>1. Adds(s, FsOp(s, o, h), o, "fs") /\ Adds(s, MakeNative(FsOp(s, o, h), o), o, "fs")
    BY <1>2, RequestAdds
  <2>2. \/ d' = FsOp(s, o, h) /\ jobs' = jobs \cup {o} /\ UNCHANGED <<inflight, ring>>
        \/ /\ d' = MakeNative(FsOp(s, o, h), o) /\ inflight' = inflight \cup {o}
           /\ UNCHANGED <<jobs, ring>>
    BY <1>2 DEF Accepted
  <2>3. Adds(s, d', o, "fs")
    BY <2>1, <2>2
  <2>4. Keeps(d, d', {}) /\ o \notin LiveOps(d) /\ o \in LiveOps(d') /\ d'.ops[o].kind = "fs"
        /\ Sound(d')
    BY <1>2, <2>3, AddsOnNew
  <2>5. ~IsTimer(d'.ops[o].kind)
    BY <2>4 DEF IsTimer
  <2>6. Owned(inflight \cup {o}, jobs, ring, d') /\ Owned(inflight, jobs \cup {o}, ring, d')
    BY <1>1, <2>4, <2>5, OwnedFresh
  <2>7. Owned(inflight', jobs', ring', d')
    BY Zenon, <2>2, <2>6
  <2> QED
    BY <1>1, <2>4, <2>7, CallInv
<1>3. ASSUME Sound(d'), Keeps(d, d', {}), UNCHANGED <<inflight, jobs, ring>>
      PROVE  DriverInv'
  <2>1. Owned(inflight', jobs', ring', d')
    BY <1>1, <1>3, OwnedKept
  <2> QED
    BY <1>1, <1>3, <2>1, CallInv
<1>4. Usable(FileKind) \cup {None} \subseteq Handles \cup {None}
  BY KnownLive DEF Live
<1>5. CASE Fs
  <2>1. PICK h \in Usable(FileKind) \cup {None}, o \in OpRoom(d) : Accepted(FsOp(d, o, h), o)
    BY <1>5 DEF Fs
  <2> QED
    BY <1>1, <1>2, <1>4, <2>1
<1>6. CASE FsOpen
  <2>1. PICK h \in Room(d), o \in OpRoom(d) :
           Accepted(FsOp(Hide(NewHandle(d, h, FileKind), h), o, h), o)
    BY <1>6 DEF FsOpen
  <2> DEFINE s == Hide(NewHandle(d, h, FileKind), h)
  <2>2. Sound(s) /\ s.ops = d.ops /\ OpRoom(s) = OpRoom(d) /\ h \in Handles
    BY <1>1, HiddenSound
  <2>3. Accepted(FsOp(s, o, h), o)
    BY <2>1
  <2> HIDE DEF s
  <2> QED
    BY <1>2, <2>2, <2>3
<1>7. CASE FsRefused
  <2>1. UNCHANGED <<inflight, jobs, ring>>
    BY <1>7 DEF FsRefused
  <2>2. ASSUME NEW h \in Usable(FileKind) \cup {None}, NEW o \in OpRoom(d),
               d' = Unsubmit(FsOp(d, o, h), o)
        PROVE  DriverInv'
    <3>1. Adds(d, FsOp(d, o, h), o, "fs")
      BY <1>1, <1>4, RequestAdds
    <3>2. Sound(d') /\ Keeps(d, d', {})
      BY <2>2, <3>1, AddsUndone
    <3> QED
      BY <1>3, <2>1, <3>2
  <2>3. ASSUME NEW h \in Room(d),
               LET s == Hide(NewHandle(d, h, FileKind), h) IN
               IF OpRoom(d) = {} THEN d' = RemoveHandle(s, h)
               ELSE \E o \in OpRoom(d) : d' = RemoveHandle(Unsubmit(FsOp(s, o, h), o), h)
        PROVE  DriverInv'
    <3> DEFINE s == Hide(NewHandle(d, h, FileKind), h)
    <3>1. Sound(s) /\ s.ops = d.ops /\ OpRoom(s) = OpRoom(d) /\ Keeps(d, s, {}) /\ h \in Handles
      BY <1>1, HiddenSound
    <3>2. d' = RemoveHandle(s, h) \/ \E o \in OpRoom(d) : d' = RemoveHandle(Unsubmit(FsOp(s, o, h), o), h)
      BY <2>3
    <3> HIDE DEF s
    <3>3. \A o \in OpRoom(d) :
             Sound(Unsubmit(FsOp(s, o, h), o)) /\ Keeps(s, Unsubmit(FsOp(s, o, h), o), {})
      <4>1. \A o \in OpRoom(d) : Adds(s, FsOp(s, o, h), o, "fs")
        BY <3>1, RequestAdds
      <4> QED
        BY <4>1, AddsUndone
    <3>4. PICK u : Sound(u) /\ Keeps(d, u, {}) /\ d' = RemoveHandle(u, h)
      <4>1. CASE d' = RemoveHandle(s, h)
        BY <3>1, <4>1
      <4>2. ASSUME NEW o \in OpRoom(d), d' = RemoveHandle(Unsubmit(FsOp(s, o, h), o), h)
            PROVE  \E u : Sound(u) /\ Keeps(d, u, {}) /\ d' = RemoveHandle(u, h)
        BY <3>1, <3>3, <4>2, KeepsTransitive
      <4> QED
        BY <3>2, <4>1, <4>2
    <3>5. Sound(d') /\ Keeps(u, d', {})
      BY <3>4, HandleSound
    <3>6. Keeps(d, d', {})
      BY <3>4, <3>5, KeepsTransitive
    <3> QED
      BY <1>3, <2>1, <3>5, <3>6
  <2> QED
    BY <1>7, <2>2, <2>3 DEF FsRefused
<1> QED
  BY <1>5, <1>6, <1>7

\* What may follow a state may follow one with the same promises.
LEMMA FollowsSimilar ==
  ASSUME SetsCount, NEW s, Sound(s), NEW t, Typed(t), Similar(s, t), NEW u, Follows(t, u)
  PROVE  Follows(s, u)
<1>1. Sound(t) /\ Live(t) = Live(s) /\ LiveOps(t) = LiveOps(s) /\ Budget(t) = Budget(s)
  BY SimilarFollows
<1>2. Timers(t) = Timers(s)
  BY <1>1 DEF Timers, Similar
<1>3. Keeps(s, u, Timers(s))
  BY <1>1, <1>2 DEF Keeps, Follows, Similar
<1> QED
  BY <1>1, <1>3 DEF Follows

\* cancel, close, detach and set_ref end nothing but timers.
LEMMA CancelInv ==
  ASSUME SetsCount, DriverInv, Cancel \/ Close \/ Detach \/ SetRef
  PROVE  DriverInv'
<1>1. Sound(d) /\ Owned(inflight, jobs, ring, d) /\ phase = "host"
      /\ UNCHANGED <<turnVars, posts, dropped>> /\ UNCHANGED <<inflight, jobs, ring>>
  BY Zenon DEF DriverInv, Cancel, Close, Detach, SetRef, HostCalls
<1>2. ASSUME Sound(d'), Keeps(d, d', Timers(d))
      PROVE  DriverInv'
  <2>1. Owned(inflight', jobs', ring', d')
    BY <1>1, <1>2, OwnedKept
  <2> QED
    BY <1>1, <1>2, <2>1, CallInv
<1>3. CASE Cancel
  <2>1. PICK o \in LiveOps(d) : d' = CancelInner(d, o)
    BY <1>3 DEF Cancel
  <2>2. Follows(d, d')
    BY <1>1, <2>1, CancelInnerSound
  <2> QED
    BY <1>2, <2>2 DEF Follows
<1>4. CASE Close
  <2>0. PICK h \in Known : \E kept \in Refusable(d, h) :
           LET r == d.handles[h]
               s == [d EXCEPT !.handles[h].closing = TRUE,
                              !.refs = @ + One(r.kind = "Timer" /\ r.referenced)]
           IN  d' = MaybeClosed(CancelAll(s, h, kept), h)
    BY Zenon, <1>4 DEF Close
  <2>1. PICK kept \in Refusable(d, h) :
           LET r == d.handles[h]
               s == [d EXCEPT !.handles[h].closing = TRUE,
                              !.refs = @ + One(r.kind = "Timer" /\ r.referenced)]
           IN  d' = MaybeClosed(CancelAll(s, h, kept), h)
    BY Zenon, <2>0
  <2> DEFINE n == One(d.handles[h].kind = "Timer" /\ d.handles[h].referenced)
             q == [d.handles[h] EXCEPT !.closing = TRUE]
             s == [d EXCEPT !.handles[h].closing = TRUE, !.refs = d.refs + n]
  <2>2. d' = MaybeClosed(CancelAll(s, h, kept), h)
    BY <2>1
  <2>3. h \in Live(d) /\ h \in Handles
    BY KnownLive DEF Live
  <2>4. d.handles[h] \in Resources
    BY <1>1, <2>3 DEF Sound, Good, Typed, Live, Free
  <2>5. q \in Resources
    BY Zenon, <2>4 DEF Resources
  <2> HIDE DEF n
  <2>6. IsDriver(s) /\ s.handles = [d.handles EXCEPT ![h] = q] /\ s.ops = d.ops /\ SamePromises(d, s)
    BY Zenon, <1>1 DEF Sound, Good, Typed, IsDriver, Fields, SamePromises
  <2> HIDE DEF s, q
  <2>7. Typed(s) /\ Similar(d, s)
    BY Zenon, <1>1, <2>3, <2>5, <2>6, UpdateSimilar
  <2>8. Sound(s) /\ h \in Live(s)
    BY <1>1, <2>3, <2>7, SimilarFollows
  <2>9. Follows(s, CancelAll(s, h, kept))
    BY <2>8, CancelAllSound
  <2>10. Follows(s, d')
    BY <2>2, <2>3, <2>8, <2>9, MaybeClosedFollows
  <2>11. Follows(d, d')
    BY <1>1, <2>7, <2>10, FollowsSimilar
  <2> QED
    BY <1>2, <2>11 DEF Follows
<1>5. CASE Detach
  <2>0. PICK h \in Usable("Socket") : \E kept \in Refusable(d, h) :
           LET s == CancelAll(d, h, kept)
           IN  d' = IF Detachable(s, h) THEN RemoveHandle(s, h) ELSE s
    BY <1>5 DEF Detach
  <2>1. PICK kept \in Refusable(d, h) :
           LET s == CancelAll(d, h, kept)
           IN  d' = IF Detachable(s, h) THEN RemoveHandle(s, h) ELSE s
    BY Zenon, <2>0
  <2> DEFINE s == CancelAll(d, h, kept)
  <2>2. h \in Live(d)
    BY KnownLive
  <2>3. Follows(d, s)
    BY <1>1, <2>2, CancelAllSound
  <2>4. d' = RemoveHandle(s, h) \/ d' = s
    BY <2>1
  <2> HIDE DEF s
  <2>5. Sound(s) /\ Keeps(d, s, Timers(d))
    BY <2>3 DEF Follows
  <2>6. CASE d' = s
    BY <1>2, <2>5, <2>6
  <2>7. CASE d' = RemoveHandle(s, h)
    <3>1. Sound(d') /\ d'.ops = s.ops
      BY <2>5, <2>7, HandleSound
    <3>2. Keeps(d, d', Timers(d))
      BY <2>5, <3>1 DEF Keeps, LiveOps
    <3> QED
      BY <1>2, <3>1, <3>2
  <2> QED
    BY <2>4, <2>6, <2>7
<1>6. CASE SetRef
  <2>1. PICK h \in Known : d' = FlipRef(d, h)
    BY <1>6 DEF SetRef
  <2> DEFINE q == [d.handles[h] EXCEPT !.referenced = ~d.handles[h].referenced]
  <2>2. h \in Live(d) /\ h \in Handles
    BY KnownLive DEF Live
  <2>3. d.handles[h] \in Resources
    BY <1>1, <2>2 DEF Sound, Good, Typed, Live, Free
  <2>4. q \in Resources
    BY Zenon, <2>3 DEF Resources
  <2>5. IsDriver(d') /\ d'.handles = [d.handles EXCEPT ![h] = q] /\ d'.ops = d.ops /\ SamePromises(d, d')
    BY Zenon, <1>1, <2>1 DEF FlipRef, Sound, Good, Typed, IsDriver, Fields, SamePromises
  <2> HIDE DEF q
  <2>6. Typed(d') /\ Similar(d, d')
    BY <1>1, <2>2, <2>4, <2>5, UpdateSimilar
  <2>7. Follows(d, d')
    BY <1>1, <2>6, SimilarFollows
  <2> QED
    BY <1>2, <2>7 DEF Follows
<1> QED
  BY <1>3, <1>4, <1>5, <1>6

---------------------------------------------------------------------------
\* Other threads and the steps of turn

\* The promises are counted in numbers, and what they leave is no less than
\* nothing.
LEMMA SoundPledges ==
  ASSUME SetsCount, NEW s, Sound(s)
  PROVE  /\ s.reserved_handles \in Nat /\ s.multishot_armed \in Nat /\ s.multishot_reserved \in Nat
         /\ Budget(s) \in Nat
<1>1. Promises(s)
  BY DEF Sound, Good
<1>2. Cardinality(Held(s)) \in Nat /\ Cardinality(Multi(s)) \in Nat /\ Remaining(s) \in Nat
  BY Zenon, Counts
<1> QED
  BY <1>1, <1>2 DEF Promises, Budget

\* What a step outside the native phase has to establish.
LEMMA TurnInv ==
  ASSUME DriverInv, phase' # "events", accepts' = accepts, dropped' = dropped,
         Sound(d'), Owned(inflight', jobs', ring', d')
  PROVE  DriverInv'
  BY DEF DriverInv

\* Producers and pool threads, which work beside the loop, keep the inductive
\* invariant.
LEMMA OthersInv ==
  ASSUME DriverInv, Post \/ \E o \in Ops : JobDone(o)
  PROVE  DriverInv'
  BY DEF DriverInv, Post, JobDone, turnVars, Owned

\* expire_connects() keeps the inductive invariant.
LEMMA ExpireInv ==
  ASSUME SetsCount, DriverInv, ExpireConnect \/ ExpireFails \/ ExpireDone
  PROVE  DriverInv'
<1>1. Sound(d) /\ Owned(inflight, jobs, ring, d) /\ UNCHANGED others
  BY Zenon DEF DriverInv, ExpireConnect, ExpireFails, ExpireDone
<1>2. accepts' = accepts /\ dropped' = dropped /\ UNCHANGED <<inflight, jobs, ring>>
  BY Zenon DEF ExpireConnect, ExpireFails, ExpireDone, turnVars, others
<1>3. phase' # "events"
  BY Zenon DEF ExpireConnect, ExpireFails, ExpireDone, turnVars, Goto
<1>4. Sound(d') /\ Keeps(d, d', {})
  <2>1. CASE d' = d
    BY <1>1, <2>1 DEF Keeps
  <2>2. ASSUME NEW o \in d.deadlines,
               d' = [d EXCEPT !.deadlines = @ \ {o}, !.ops[o].cancel = TRUE]
        PROVE  Sound(d') /\ Keeps(d, d', {})
    <3>1. CASE o \in LiveOps(d)
      <4> DEFINE q == [d.ops[o] EXCEPT !.cancel = TRUE]
      <4>1. d.ops[o] \in Operations /\ Good(d)
        BY <1>1, <3>1, OpFields DEF Sound, Good
      <4>2. q \in Operations /\ q.kind = d.ops[o].kind /\ q.multishot = d.ops[o].multishot
            /\ q.reserved_handles = d.ops[o].reserved_handles
        BY Zenon, <4>1 DEF Operations
      <4>3. IsDriver(d') /\ d'.handles = d.handles /\ d'.ops = [d.ops EXCEPT ![o] = q]
            /\ SamePromises(d, d')
        BY Zenon, <1>1, <2>2 DEF Sound, Good, Typed, IsDriver, Fields, SamePromises
      <4> HIDE DEF q
      <4>4. Typed(d') /\ Similar(d, d')
        BY <3>1, <4>1, <4>2, <4>3, UpdateOp DEF Good
      <4> QED
        BY <1>1, <4>4, SimilarFollows
    <3>2. CASE o \notin LiveOps(d)
      BY <1>1, <3>2 DEF Sound, Good, Typed
    <3> QED
      BY <3>1, <3>2
  <2> QED
    BY Zenon, <2>1, <2>2 DEF ExpireConnect, ExpireFails, ExpireDone
<1>5. Owned(inflight', jobs', ring', d')
  BY <1>1, <1>2, <1>4, OwnedKept
<1> QED
  BY <1>2, <1>3, <1>4, <1>5, TurnInv

\* The accept budget of a poll is what single-shot accepts were not promised.
LEMMA PollInv ==
  ASSUME SetsCount, DriverInv, TurnBegin \/ Poll \/ PollFails \/ EventsDone
  PROVE  DriverInv'
<1>1. Sound(d) /\ Owned(inflight, jobs, ring, d) /\ accepts \in Nat /\ dropped = FALSE
  BY DEF DriverInv
<1>2. UNCHANGED <<d, inflight, jobs, ring, dropped>>
  BY Zenon DEF TurnBegin, Poll, PollFails, EventsDone, others
<1>3. Budget(d) \in Nat
  BY <1>1, SoundPledges
<1>4. \/ accepts' = Budget(d)
      \/ accepts' = accepts /\ phase' # "events"
  BY Zenon DEF TurnBegin, Poll, PollFails, EventsDone, Goto
<1> QED
  BY <1>1, <1>2, <1>3, <1>4 DEF DriverInv

\* accept_event for the last event of an operation.
LEMMA EventLastInv ==
  ASSUME SetsCount, DriverInv, NEW o \in Ops, EventLast(o)
  PROVE  DriverInv'
<1>1. /\ Sound(d) /\ Owned(inflight, jobs, ring, d) /\ accepts \in Nat /\ dropped = FALSE
      /\ phase = "events" /\ phase' = "events" /\ accepts <= Budget(d) /\ accepts' = accepts
      /\ o \in inflight /\ inflight' = inflight \ {o} /\ jobs' = jobs /\ ring' = ring
  BY Zenon DEF DriverInv, EventLast, Iterate
<1>2. o \in LiveOps(d)
  BY <1>1 DEF Owned
<1>3. Sound(d') /\ Keeps(d, d', {o}) /\ Budget(d') >= Budget(d) /\ dropped' = dropped
  <2>1. CASE d.ops[o].kind = "accept" /\ Attach(o, TRUE)
    <3> DEFINE sp == Spend(d, o)
    <3>1. Room(sp) # {}
          /\ (\A h \in Room(sp) :
                LET t == Finish(Refill(NewHandle(sp, h, "Socket"), o), o, TRUE, h)
                IN  Sound(t) /\ Keeps(d, t, {o}) /\ Budget(t) >= Budget(d))
          /\ LET t == Finish(Refill(sp, o), o, TRUE, None)
             IN  Sound(t) /\ Keeps(d, t, {o}) /\ Budget(t) >= Budget(d)
      BY Zenon, <1>1, <1>2, <2>1, AttachSound
    <3>2. /\ dropped' = (dropped \/ Room(sp) = {})
          /\ \/ \E h \in Room(sp) : d' = Finish(Refill(NewHandle(sp, h, "Socket"), o), o, TRUE, h)
             \/ d' = Finish(Refill(sp, o), o, TRUE, None)
      BY Zenon, <2>1 DEF Attach
    <3> HIDE DEF sp
    <3> QED
      BY Zenon, <1>1, <3>1, <3>2
  <2>2. CASE d' = Finish(d, o, TRUE, None) /\ UNCHANGED dropped
    <3>1. Good(d) /\ KindsBut(d, o)
      BY <1>1 DEF Sound, Kinds, KindsBut
    <3> QED
      BY Zenon, <1>2, <2>2, <3>1, FinishSound
  <2>3. ASSUME NEW opened \in BOOLEAN, d' = FinishFs(d, o, opened), UNCHANGED dropped
        PROVE  Sound(d') /\ Keeps(d, d', {o}) /\ Budget(d') >= Budget(d) /\ dropped' = dropped
    BY <1>1, <1>2, <2>3, FinishFsSound
  <2> QED
    BY Zenon, <2>1, <2>2, <2>3 DEF EventLast
<1>4. Owned(inflight', jobs', ring', d')
  BY Zenon, <1>1, <1>3, OwnedKept
<1>5. Budget(d) \in Int /\ Budget(d') \in Int
  BY <1>1, <1>3, BudgetIsInt DEF Sound
<1>6. accepts' <= Budget(d')
  BY <1>1, <1>3, <1>5
<1> QED
  BY <1>1, <1>3, <1>4, <1>6 DEF DriverInv

\* accept_event for a further event of a multishot operation.
LEMMA EventMoreInv ==
  ASSUME SetsCount, DriverInv, NEW o \in Ops, EventMore(o)
  PROVE  DriverInv'
<1>1. /\ Sound(d) /\ Owned(inflight, jobs, ring, d) /\ accepts \in Nat /\ dropped = FALSE
      /\ phase = "events" /\ phase' = "events" /\ accepts <= Budget(d)
      /\ o \in inflight /\ inflight' = inflight /\ jobs' = jobs /\ ring' = ring
  BY DEF DriverInv, EventMore, Iterate, others
<1>2. o \in LiveOps(d) /\ Budget(d) \in Int
  BY <1>1, BudgetIsInt DEF Owned, Sound
<1>3. /\ Sound(d') /\ Keeps(d, d', {}) /\ dropped' = dropped
      /\ \/ accepts' = accepts /\ Budget(d') = Budget(d)
         \/ accepts > 0 /\ accepts' = accepts - 1 /\ Budget(d') >= Budget(d) - 1
  <2>1. CASE d' = d /\ UNCHANGED dropped /\ (accepts' = accepts \/ (accepts > 0 /\ accepts' = accepts - 1))
    BY <1>1, <1>2, <2>1 DEF Keeps
  <2>2. CASE d' = Finish(d, o, FALSE, None) /\ UNCHANGED <<accepts, dropped>>
    BY Zenon, <1>1, <1>2, <2>2, FinishMoreSound
  <2>3. CASE d.ops[o].kind = "accept_start" /\ accepts > 0 /\ accepts' = accepts - 1 /\ Attach(o, FALSE)
    <3> DEFINE sp == Spend(d, o)
    <3>1. Budget(d) >= 1
      <4>1. accepts \in Nat /\ accepts > 0 /\ accepts <= Budget(d) /\ Budget(d) \in Int
        BY Zenon, <1>1, <1>2, <2>3
      <4> QED
        BY <4>1
    <3>2. Room(sp) # {}
          /\ (\A h \in Room(sp) :
                LET t == Finish(Refill(NewHandle(sp, h, "Socket"), o), o, FALSE, h)
                IN  Sound(t) /\ Keeps(d, t, {}) /\ Budget(t) >= Budget(d) - 1)
          /\ LET t == Finish(Refill(sp, o), o, FALSE, None)
             IN  Sound(t) /\ Keeps(d, t, {}) /\ Budget(t) >= Budget(d) - 1
      BY Zenon, <1>1, <1>2, <2>3, <3>1, AttachSound
    <3>3. /\ dropped' = (dropped \/ Room(sp) = {})
          /\ \/ \E h \in Room(sp) : d' = Finish(Refill(NewHandle(sp, h, "Socket"), o), o, FALSE, h)
             \/ d' = Finish(Refill(sp, o), o, FALSE, None)
      BY Zenon, <2>3 DEF Attach
    <3> HIDE DEF sp
    <3> QED
      BY Zenon, <1>1, <2>3, <3>2, <3>3
  <2> QED
    BY Zenon, <2>1, <2>2, <2>3 DEF EventMore
<1>4. Owned(inflight', jobs', ring', d')
  BY <1>1, <1>3, OwnedKept
<1>5. Budget(d') \in Int
  BY <1>3, BudgetIsInt DEF Sound
<1>6. accepts' <= Budget(d') /\ accepts' \in Nat
  BY <1>1, <1>2, <1>3, <1>5
<1> QED
  BY <1>1, <1>3, <1>4, <1>6 DEF DriverInv

\* The later phases of turn: timers, work results, posts and the drain.
LEMMA LaterInv ==
  ASSUME SetsCount, DriverInv,
         FireTimer \/ TimersDone \/ PopWork \/ WorkDone \/ PopPost \/ PostsDone \/ Drain \/ DrainDone
  PROVE  DriverInv'
<1>1. Sound(d) /\ Owned(inflight, jobs, ring, d) /\ accepts' = accepts /\ dropped' = dropped
  BY Zenon DEF DriverInv, FireTimer, TimersDone, PopWork, WorkDone, PopPost, PostsDone, Drain, DrainDone
<1>2. phase' # "events"
  BY Zenon DEF FireTimer, TimersDone, PopWork, WorkDone, PopPost, PostsDone, Drain, DrainDone, Goto, Iterate
<1>3. inflight' = inflight /\ jobs' = jobs /\ (ring' = ring \/ PopWork)
  BY Zenon DEF FireTimer, TimersDone, PopWork, WorkDone, PopPost, PostsDone, Drain, DrainDone, others
<1>4. Good(d) /\ \A o : KindsBut(d, o)
  BY <1>1 DEF Sound, Kinds, KindsBut
<1>5. CASE TimersDone \/ WorkDone \/ PostsDone \/ DrainDone
  <2>1. d' = d /\ ring' = ring
    BY <1>5 DEF TimersDone, WorkDone, PostsDone, DrainDone, others
  <2> QED
    BY <1>1, <1>2, <1>3, <2>1, TurnInv
<1>6. CASE FireTimer
  <2>1. PICK h \in d.timers : \E o \in OpsOf(d, h) :
           \/ d' = Finish(d, o, FALSE, None)
           \/ IsTimer(d.ops[o].kind) /\ d' = Finish([d EXCEPT !.timers = @ \ {h}], o, TRUE, None)
    BY Zenon, <1>6 DEF FireTimer
  <2>2. PICK o \in OpsOf(d, h) :
           \/ d' = Finish(d, o, FALSE, None)
           \/ IsTimer(d.ops[o].kind) /\ d' = Finish([d EXCEPT !.timers = @ \ {h}], o, TRUE, None)
    BY Zenon, <2>1
  <2> DEFINE s == [d EXCEPT !.timers = d.timers \ {h}]
  <2>3. o \in LiveOps(d)
    BY DEF OpsOf
  <2>4. IsDriver(s) /\ s.handles = d.handles /\ s.ops = d.ops /\ SamePromises(d, s)
    BY <1>4 DEF Good, Typed, IsDriver, Fields, SamePromises
  <2>5. \/ d' = Finish(d, o, FALSE, None)
        \/ IsTimer(d.ops[o].kind) /\ d' = Finish(s, o, TRUE, None)
    BY Zenon, <2>2
  <2> HIDE DEF s
  <2>6. Sound(s) /\ LiveOps(s) = LiveOps(d) /\ Keeps(d, s, {})
    BY Zenon, <1>1, <2>4, OtherFields, SimilarFollows
  <2>7. Sound(d') /\ Keeps(d, d', Timers(d))
    <3>1. CASE d' = Finish(d, o, FALSE, None)
      <4>1. Sound(d') /\ Keeps(d, d', {})
        BY Zenon, <1>1, <2>3, <3>1, FinishMoreSound
      <4> QED
        BY <4>1 DEF Keeps
    <3>2. CASE IsTimer(d.ops[o].kind) /\ d' = Finish(s, o, TRUE, None)
      <4>1. Good(s) /\ KindsBut(s, o) /\ o \in LiveOps(s)
        BY <2>3, <2>6 DEF Sound, Kinds, KindsBut
      <4>2. Sound(d') /\ Keeps(s, d', {o})
        BY Zenon, <3>2, <4>1, FinishSound
      <4>3. Keeps(d, d', {o})
        BY <2>6, <4>2, KeepsTransitive
      <4>4. o \in Timers(d)
        BY <2>3, <3>2 DEF Timers
      <4> QED
        BY <4>2, <4>3, <4>4 DEF Keeps
    <3> QED
      BY Zenon, <2>5, <3>1, <3>2
  <2>8. ring' = ring
    BY <1>6 DEF FireTimer, others
  <2>9. Owned(inflight', jobs', ring', d')
    BY Zenon, <1>1, <1>3, <2>7, <2>8, OwnedKept
  <2> QED
    BY Zenon, <1>1, <1>2, <2>7, <2>9, TurnInv
<1>7. CASE PopWork
  <2>1. PICK o \in ring :
           /\ ring' = ring \ {o}
           /\ \/ d' = Finish(d, o, TRUE, None)
              \/ \E opened \in BOOLEAN : d' = FinishFs(d, o, opened)
    BY Zenon, <1>7 DEF PopWork
  <2>2. o \in LiveOps(d)
    BY <1>1 DEF Owned
  <2>3. Sound(d') /\ Keeps(d, d', {o})
    <3>1. CASE d' = Finish(d, o, TRUE, None)
      BY Zenon, <1>4, <2>2, <3>1, FinishSound
    <3>2. ASSUME NEW opened \in BOOLEAN, d' = FinishFs(d, o, opened)
          PROVE  Sound(d') /\ Keeps(d, d', {o})
      BY <1>1, <2>2, <3>2, FinishFsSound
    <3> QED
      BY Zenon, <2>1, <3>1, <3>2
  <2>4. Owned(inflight', jobs', ring', d')
    BY Zenon, <1>1, <1>3, <2>1, <2>3, OwnedKept
  <2> QED
    BY <1>1, <1>2, <2>3, <2>4, TurnInv
<1>8. CASE PopPost \/ Drain
  <2>1. ring' = ring /\ (d' = Enqueue(d, Entry(None, FALSE, TRUE, "POST")) \/ d' = DrainOne(d))
    BY Zenon, <1>8 DEF PopPost, Drain, others
  <2>2. Sound(d') /\ Keeps(d, d', {})
    <3>1. CASE d' = DrainOne(d)
      BY <1>1, <3>1, DrainOneSound
    <3>2. CASE d' = Enqueue(d, Entry(None, FALSE, TRUE, "POST"))
      <4>1. Good(d') /\ SameBooks(d, d')
        BY Zenon, <1>4, <3>2, EnqueueGood
      <4>2. Typed(d') /\ Similar(d, d')
        BY <4>1, SameBooksSimilar DEF Good
      <4> QED
        BY <1>1, <4>2, SimilarFollows
    <3> QED
      BY Zenon, <2>1, <3>1, <3>2
  <2>3. Owned(inflight', jobs', ring', d')
    BY <1>1, <1>3, <2>1, <2>2, OwnedKept
  <2> QED
    BY <1>1, <1>2, <2>2, <2>3, TurnInv
<1> QED
  BY <1>5, <1>6, <1>7, <1>8

---------------------------------------------------------------------------
\* The theorem

\* A new driver has promised nothing.
LEMMA FreshSound ==
  ASSUME SetsCount
  PROVE  Sound(InitDriver)
<1>0. PICK s : s = InitDriver
  BY Zenon
<1>1. /\ IsDriver(s) /\ s.handles = [h \in Handles |-> None] /\ s.ops = [o \in Ops |-> None]
      /\ s.reserved_handles = 0 /\ s.multishot_armed = 0 /\ s.multishot_reserved = 0
      /\ s.deadlines = {}
  BY Zenon, <1>0 DEF InitDriver, IsDriver, Fields, Free
<1>2. LiveOps(s) = {}
  BY <1>1 DEF LiveOps, Free
<1>3. Held(s) = {} /\ Multi(s) = {}
  BY <1>2 DEF Held, Multi
<1>4. Cardinality(Held(s)) = 0 /\ Cardinality(Multi(s)) = 0 /\ Remaining(s) \in Nat
  BY Zenon, <1>3, Counts DEF SetsCount
<1>5. Typed(s)
  BY SMTT(60), <1>1, <1>2 DEF Typed
<1>6. Promises(s)
  BY SMTT(60), <1>1, <1>4 DEF Promises
<1>7. Kinds(s)
  BY <1>2 DEF Kinds
<1> QED
  BY Zenon, <1>0, <1>5, <1>6, <1>7 DEF Sound, Good

\* A new driver meets the inductive invariant.
LEMMA InitInv ==
  ASSUME SetsCount, Init
  PROVE  DriverInv
<1>1. Sound(d)
  BY Zenon, FreshSound DEF Init
<1>2. Owned(inflight, jobs, ring, d)
  BY DEF Init, Owned
<1> QED
  BY <1>1, <1>2 DEF Init, DriverInv

\* rebuild() makes a new driver, which is sound if nobody owns an operation.
LEMMA RebuildInv ==
  ASSUME SetsCount, DriverInv, Rebuild, inflight = {}, jobs = {}, ring = {}
  PROVE  DriverInv'
<1>1. Sound(d')
  BY Zenon, FreshSound DEF Rebuild
<1>2. inflight' = {} /\ jobs' = {} /\ ring' = {} /\ phase = "host" /\ UNCHANGED <<turnVars, posts, dropped>>
  BY Zenon DEF Rebuild, HostCalls
<1>3. Owned(inflight', jobs', ring', d')
  BY <1>2 DEF Owned
<1> QED
  BY Zenon, <1>1, <1>2, <1>3, CallInv

\* Every step of the driver keeps its books.
LEMMA NextInv ==
  ASSUME SetsCount, DriverInv, [Next]_vars, ~Rebuild
  PROVE  DriverInv'
<1>1. CASE UNCHANGED vars
  BY Zenon, <1>1 DEF DriverInv, vars, Owned, Sound, Good, Kinds, Typed, Promises, Timers, Held, Multi,
              LiveOps, Live, Remaining, Budget, IsDriver
<1>2. CASE Call
  <2>1. "timer" \in {"timer", "interval"}
    OBVIOUS
  <2> QED
    BY <1>2, <2>1, OpenInv, SpawnInv, TimerInv, JobInv, FsInv, SubmitInv, OpenSubmitInv, CancelInv
       DEF Call
<1>3. CASE Refusal
  BY <1>3, SubmitInv, OpenSubmitRefusedInv, SpawnInv, JobInv, FsInv DEF Refusal
<1>4. CASE TurnBegin \/ TurnStep \/ TurnFails
  BY <1>4, ExpireInv, PollInv, LaterInv DEF TurnStep, TurnFails
<1>5. CASE Post \/ \E o \in Ops : EventLast(o) \/ EventMore(o) \/ JobDone(o)
  BY <1>5, OthersInv, EventLastInv, EventMoreInv
<1> QED
  BY <1>1, <1>2, <1>3, <1>4, <1>5 DEF Next

\* Slots promised to armed accepts are free, the promises are exactly those of
\* the armed accepts, and attach_reserved never found the handle table full.
LEMMA AcceptsFollow ==
  ASSUME DriverInv
  PROVE  ReservedIsFree /\ AcceptIsHoused
<1>1. AcceptIsHoused
  BY DEF DriverInv, AcceptIsHoused
<1>2. Promises(d)
  BY DEF DriverInv, Sound, Good
<1>3. /\ d.reserved_handles = d.multishot_reserved + Cardinality({o \in LiveOps(d) : d.ops[o].reserved_handles = 1})
      /\ d.multishot_armed = Cardinality({o \in LiveOps(d) : d.ops[o].multishot})
      /\ d.reserved_handles <= Remaining(d)
  BY Zenon, <1>2 DEF Promises, Held, Multi
<1>4. d.multishot_reserved <= d.multishot_armed
  BY <1>2 DEF Promises
<1>5. ReservedIsFree
  BY Zenon, <1>3, <1>4 DEF ReservedIsFree
<1> QED
  BY Zenon, <1>1, <1>5

===============================================================================
