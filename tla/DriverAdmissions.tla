--------------------------- MODULE DriverAdmissions ---------------------------
(***************************************************************************)
(* The methods of Driver that take something on keep the ledger: a new     *)
(* operation, handle, timer, promise or message, and a change of what is   *)
(* referenced.                                                             *)
(***************************************************************************)
EXTENDS DriverLedger

---------------------------------------------------------------------------
\* The methods, field by field

\* Sets without a common element.
LEMMA CountBoth ==
  ASSUME Counting, NEW T, IsFiniteSet(T), NEW U, IsFiniteSet(U), T \cap U = {}
  PROVE  Cardinality(T \cup U) = Cardinality(T) + Cardinality(U) /\ IsFiniteSet(T \cup U)
  BY Zenon DEF Counting

---------------------------------------------------------------------------
\* The methods, slot by slot

\* t has one operation more than s, o of h, and its handle counts it.
OpAdded(s, o, kind, h, t) ==
    /\ o \in Ops \ LiveOps(s) /\ LiveOps(t) = LiveOps(s) \cup {o}
    /\ \A x \in LiveOps(s) : t.ops[x] = s.ops[x]
    /\ t.ops[o].kind = kind /\ t.ops[o].handle = h /\ t.ops[o].cancel = FALSE /\ t.ops[o].port = FALSE
    /\ t.ops[o].native = (Present(s, h) /\ s.handles[h].kind = "Socket")
    /\ Pended(s, h, 1, t)
    /\ \A x : OpsOf(t, x) = IF x = h THEN OpsOf(s, x) \cup {o} ELSE OpsOf(s, x)

\* new_op() makes one operation, which its handle counts.
LEMMA NewOpShape ==
  ASSUME NEW s, Shaped(s), NEW o \in OpRoom(s), NEW kind \in OpKinds, NEW h \in Handles \cup {None},
         NEW t, t = NewOp(s, o, kind, h)
  PROVE  Shaped(t) /\ OpAdded(s, o, kind, h, t)
<1> DEFINE native == Present(s, h) /\ s.handles[h].kind = "Socket"
           q == Op(kind, h, native)
<1>1. IsDriver(s) /\ native \in BOOLEAN /\ 1 \in Int /\ o \in Ops \ LiveOps(s)
  BY DEF Shaped, OpRoom
<1>2. IsDriver(t) /\ t.ops = [s.ops EXCEPT ![o] = q] /\ t.handles = Pend(s, h, 1)
      /\ t.deadlines = s.deadlines
  BY Zenon, <1>1 DEF NewOp, IsDriver, Fields
<1> HIDE DEF native
<1>3. /\ q \in Operations /\ q.handle = h /\ q.kind = kind /\ q.cancel = FALSE /\ q.port = FALSE
      /\ q.native = native
  BY <1>1 DEF Op, Operations
<1> HIDE DEF q
<1>4. t.ops \in [Ops -> Operations \cup {None}] /\ t.ops[o] = q /\ \A x \in Ops \ {o} : t.ops[x] = s.ops[x]
  BY <1>1, <1>2, <1>3 DEF Shaped
<1>5. LiveOps(t) = LiveOps(s) \cup {o} /\ \A x \in LiveOps(s) : t.ops[x] = s.ops[x]
  BY <1>1, <1>3, <1>4, VacantAssumption DEF LiveOps, Free
<1>6. Pended(s, h, 1, t)
  BY Zenon, <1>1, <1>2, PendFields
<1>7. \A x : OpsOf(t, x) = IF x = h THEN OpsOf(s, x) \cup {o} ELSE OpsOf(s, x)
  BY <1>3, <1>4, <1>5 DEF OpsOf
<1>8. Shaped(t)
  BY <1>2, <1>4, <1>5, <1>6 DEF Shaped, Pended
<1> QED
  BY <1>1, <1>3, <1>4, <1>5, <1>6, <1>7, <1>8 DEF native, OpAdded

---------------------------------------------------------------------------
\* Counters of the operations

\* new_op() is counted once, on its handle.
LEMMA NewOpTallies ==
  ASSUME Counting, NEW s, Shaped(s), Tallies(s), NEW o \in OpRoom(s), NEW kind \in OpKinds,
         NEW h \in Live(s) \cup {None}, NEW t, t = NewOp(s, o, kind, h)
  PROVE  Tallies(t)
<1> DEFINE native == Present(s, h) /\ s.handles[h].kind = "Socket"
<1>1. IsDriver(s) /\ h \in Handles \cup {None} /\ native \in BOOLEAN
  BY DEF Shaped, Live
<1>2. t.native_pending = s.native_pending + One(native) /\ t.undelivered = s.undelivered
  BY Zenon, <1>1 DEF NewOp, IsDriver, Fields
<1>3. OpAdded(s, o, kind, h, t)
  BY Zenon, <1>1, NewOpShape
<1>4. /\ o \in Ops \ LiveOps(s) /\ LiveOps(t) = LiveOps(s) \cup {o} /\ Live(t) = Live(s)
      /\ \A x \in LiveOps(s) : t.ops[x] = s.ops[x]
      /\ t.ops[o].handle = h /\ t.ops[o].native = native /\ t.ops[o].port = FALSE
  BY <1>3 DEF OpAdded, Pended
<1> HIDE DEF native
<1>5. t.native_pending = Cardinality(Natives(t))
  <2>1. Natives(t) = IF native THEN Natives(s) \cup {o} ELSE Natives(s)
    BY <1>4 DEF Natives
  <2>2. IsFiniteSet(Natives(s)) /\ o \notin Natives(s)
    BY <1>4, OpsFinite DEF Natives, LiveOps
  <2>3. Cardinality(Natives(t)) = Cardinality(Natives(s)) + One(native)
    BY ZenonT(60), <1>1, <2>1, <2>2, CountMore
  <2> QED
    BY <1>2, <2>3 DEF Tallies
<1>6. t.undelivered = Cardinality(Ports(t))
  <2>1. Ports(t) = Ports(s)
    BY <1>4 DEF Ports
  <2> QED
    BY <1>2, <2>1 DEF Tallies
<1>7. \A x \in LiveOps(t) : t.ops[x].handle # None => t.ops[x].handle \in Live(t)
  BY <1>4 DEF Tallies
<1>8. ASSUME NEW x \in Live(t) PROVE t.handles[x].pending = Cardinality(OpsOf(t, x))
  <2> DEFINE here == x = h
  <2>1. OpsOf(t, x) = IF here THEN OpsOf(s, x) \cup {o} ELSE OpsOf(s, x)
    BY <1>3 DEF OpAdded
  <2>2. IsFiniteSet(OpsOf(s, x)) /\ o \notin OpsOf(s, x) /\ here \in BOOLEAN
    BY <1>4, OpsFinite DEF OpsOf, LiveOps
  <2> HIDE DEF here
  <2>3. Cardinality(OpsOf(t, x)) = Cardinality(OpsOf(s, x)) + One(here)
    BY Zenon, <2>1, <2>2, CountMore
  <2>4. s.handles[x].pending = Cardinality(OpsOf(s, x))
        /\ t.handles[x].pending = s.handles[x].pending + (IF x = h THEN 1 ELSE 0)
    BY <1>3, <1>4 DEF Tallies, OpAdded, Pended
  <2> QED
    BY <2>3, <2>4 DEF One, here
<1> QED
  BY <1>5, <1>6, <1>7, <1>8 DEF Tallies

\* t is s but for the operation o, which is q.
OpSet(s, o, q, t) ==
    /\ t.handles = s.handles /\ t.ops = [s.ops EXCEPT ![o] = q] /\ Live(t) = Live(s)
    /\ LiveOps(t) = LiveOps(s) /\ t.ops[o] = q
    /\ \A x \in LiveOps(s) \ {o} : t.ops[x] = s.ops[x]
    /\ q.handle = s.ops[o].handle => \A h : OpsOf(t, h) = OpsOf(s, h)

\* Writing the slot of a live operation changes that operation only.
LEMMA OpSetShape ==
  ASSUME NEW s, Shaped(s), NEW o \in LiveOps(s), NEW q \in Operations, NEW t, IsDriver(t),
         t.handles = s.handles, t.ops = [s.ops EXCEPT ![o] = q], t.deadlines \subseteq LiveOps(s)
  PROVE  Shaped(t) /\ OpSet(s, o, q, t)
<1>1. o \in Ops /\ s.ops \in [Ops -> Operations \cup {None}]
  BY DEF Shaped, LiveOps
<1>2. t.ops[o] = q /\ \A x \in Ops \ {o} : t.ops[x] = s.ops[x]
  BY <1>1
<1>3. LiveOps(t) = LiveOps(s) /\ Live(t) = Live(s)
  BY <1>1, <1>2, VacantAssumption DEF LiveOps, Live, Free
<1>4. Shaped(t)
  BY <1>1, <1>3 DEF Shaped
<1>5. q.handle = s.ops[o].handle => \A h : OpsOf(t, h) = OpsOf(s, h)
  BY <1>2, <1>3 DEF OpsOf, LiveOps
<1> QED
  BY <1>1, <1>2, <1>3, <1>4, <1>5 DEF OpSet, LiveOps

\* charge_port() of an operation not charged yet.
LEMMA ChargeTallies ==
  ASSUME Counting, NEW s, Shaped(s), Tallies(s), NEW o \in LiveOps(s), ~s.ops[o].port,
         NEW t, t = ChargePort(s, o)
  PROVE  /\ Shaped(t) /\ Tallies(t) /\ OpSet(s, o, [s.ops[o] EXCEPT !.port = TRUE], t)
<1> DEFINE q == [s.ops[o] EXCEPT !.port = TRUE]
<1>1. o \in Ops /\ s.ops[o] \in Operations /\ IsDriver(s) /\ s.deadlines \subseteq LiveOps(s)
  BY OpShape DEF Shaped
<1>2. q \in Operations
  BY Zenon, <1>1 DEF Operations
<1>3. q.handle = s.ops[o].handle /\ q.native = s.ops[o].native /\ q.port
  BY Zenon, <1>1 DEF Operations
<1>4. /\ IsDriver(t) /\ t.handles = s.handles /\ t.ops = [s.ops EXCEPT ![o] = q] /\ t.deadlines = s.deadlines
      /\ t.native_pending = s.native_pending /\ t.undelivered = s.undelivered + 1
  BY Zenon, <1>1 DEF ChargePort, IsDriver, Fields
<1> HIDE DEF q
<1>5. Shaped(t) /\ OpSet(s, o, q, t)
  BY <1>1, <1>2, <1>4, OpSetShape
<1>6. Natives(t) = Natives(s) /\ Ports(t) = Ports(s) \cup {o} /\ o \notin Ports(s)
      /\ \A h : OpsOf(t, h) = OpsOf(s, h)
  BY <1>3, <1>5 DEF Natives, Ports, OpSet
<1>7. t.undelivered = Cardinality(Ports(t))
  <2>1. IsFiniteSet(Ports(s))
    BY OpsFinite DEF Ports, LiveOps
  <2>2. Cardinality(Ports(t)) = Cardinality(Ports(s)) + 1
    BY Zenon, <1>6, <2>1 DEF Counting
  <2> QED
    BY <1>4, <2>2 DEF Tallies
<1>8. \A x \in LiveOps(s) : t.ops[x].handle = s.ops[x].handle
  BY <1>3, <1>5 DEF OpSet
<1>9. Tallies(t)
  BY <1>4, <1>5, <1>6, <1>7, <1>8 DEF Tallies, OpSet
<1> QED
  BY <1>5, <1>9 DEF q

\* A request made native.
LEMMA NativeTallies ==
  ASSUME Counting, NEW s, Shaped(s), Tallies(s), NEW o \in LiveOps(s), NEW t, t = MakeNative(s, o)
  PROVE  /\ Shaped(t) /\ Tallies(t) /\ OpSet(s, o, [s.ops[o] EXCEPT !.native = TRUE], t)
<1> DEFINE q == [s.ops[o] EXCEPT !.native = TRUE]
<1>1. o \in Ops /\ s.ops[o] \in Operations /\ IsDriver(s) /\ s.deadlines \subseteq LiveOps(s)
  BY OpShape DEF Shaped
<1>2. q \in Operations
  BY Zenon, <1>1 DEF Operations
<1>3. q.handle = s.ops[o].handle /\ q.port = s.ops[o].port /\ q.native
  BY Zenon, <1>1 DEF Operations
<1>4. /\ IsDriver(t) /\ t.handles = s.handles /\ t.ops = [s.ops EXCEPT ![o] = q] /\ t.deadlines = s.deadlines
      /\ t.native_pending = s.native_pending + One(~s.ops[o].native) /\ t.undelivered = s.undelivered
  BY Zenon, <1>1 DEF MakeNative, IsDriver, Fields
<1> HIDE DEF q
<1>5. Shaped(t) /\ OpSet(s, o, q, t)
  BY <1>1, <1>2, <1>4, OpSetShape
<1>6. Natives(t) = Natives(s) \cup {o} /\ (o \in Natives(s) <=> s.ops[o].native) /\ Ports(t) = Ports(s)
      /\ \A h : OpsOf(t, h) = OpsOf(s, h)
  BY <1>3, <1>5 DEF Natives, Ports, OpSet
<1>7. t.native_pending = Cardinality(Natives(t))
  <2>1. IsFiniteSet(Natives(s)) /\ Cardinality(Natives(s)) \in Nat
    BY OpsFinite DEF Natives, LiveOps
  <2>2. CASE o \in Natives(s)
    <3>1. Natives(t) = Natives(s)
      BY <1>6, <2>2
    <3>2. One(~s.ops[o].native) = 0
      BY Zenon, <1>6, <2>2 DEF One
    <3>3. s.native_pending = Cardinality(Natives(s))
      BY DEF Tallies
    <3> QED
      BY <1>4, <2>1, <3>1, <3>2, <3>3
  <2>3. CASE o \notin Natives(s)
    <3>1. Cardinality(Natives(t)) = Cardinality(Natives(s)) + 1
      BY Zenon, <1>6, <2>1, <2>3 DEF Counting
    <3> QED
      BY <1>4, <1>6, <2>1, <2>3, <3>1 DEF Tallies, One
  <2> QED
    BY <2>2, <2>3
<1>8. \A x \in LiveOps(s) : t.ops[x].handle = s.ops[x].handle
  BY <1>3, <1>5 DEF OpSet
<1>9. Tallies(t)
  BY <1>4, <1>5, <1>6, <1>7, <1>8 DEF Tallies, OpSet
<1> QED
  BY <1>5, <1>9 DEF q

---------------------------------------------------------------------------
\* Handles change

\* t is s with the handles H, which are r, and nothing else.
Gains(s, t, H, r) ==
    /\ SameOpsAndQueue(s, t) /\ t.timers = s.timers
    /\ t.handles = [x \in Handles |-> IF x \in H THEN r ELSE s.handles[x]]
    /\ t.refs = s.refs + (IF r.kind = "Timer" THEN 0 ELSE Cardinality(H))

\* A resource as new_handle() makes it, or one that is hidden.
Fresh(r) ==
    r \in Resources /\ r.pending = 0 /\ r.referenced /\ ~r.closing /\ ~r.closed_queued

\* New handles, of which nothing is known yet, keep the books.
LEMMA GainsKeeps ==
  ASSUME Counting, NEW s, Shaped(s), Ledger(s), NEW H \in SUBSET (Handles \ Live(s)), NEW r, Fresh(r),
         NEW t, Gains(s, t, H, r), IsDriver(t)
  PROVE  /\ Shaped(t) /\ HandlesAdded(s, t, H, r) /\ Sums(t) /\ Clocks(t)
         /\ HiddenBut(t, H) /\ (~r.hidden => HiddenBut(t, {}))
<1>1. Live(t) = Live(s) \cup H
  BY VacantAssumption DEF Live, Free, Gains, Fresh
<1>2. /\ \A x \in Live(s) : t.handles[x] = s.handles[x]
      /\ \A x \in H : x \in Handles /\ t.handles[x] = r
  BY DEF Gains, Live
<1>3. SameOpsAndQueue(s, t) /\ LiveOps(t) = LiveOps(s) /\ \A x : OpsOf(t, x) = OpsOf(s, x)
  BY SameOpsOf DEF Gains
<1>4. /\ Tallies(s) /\ Lines(s) /\ Owed(s) /\ Weights(s) /\ Clocks(s) /\ HiddenBut(s, {})
  BY DEF Ledger, Sums
<1>5. \A h \in H : OpsOf(s, h) = {}
  BY <1>4, NoneAssumption DEF OpsOf, Tallies
<1>6. Shaped(t)
  BY <1>3 DEF Shaped, Gains, Fresh, SameOpsAndQueue
<1>7. Tallies(t) /\ Lines(t) /\ Owed(t)
  <2>1. SamePending(s, t)
    BY <1>1, <1>2 DEF SamePending, Fresh
  <2>2. KeepsNamed(s, t)
    BY <1>1, <1>2, <1>3 DEF KeepsNamed, Parted
  <2> QED
    BY Zenon, <1>3, <1>4, <2>1, <2>2, HandlesKeep
<1>8. Weights(t)
  <2>1. Weighing(t) = Weighing(s)
    <3>1. \A o \in LiveOps(s) : t.ops[o] = s.ops[o] /\ s.ops[o].handle \in Live(s) \cup {None}
      BY <1>3, <1>4 DEF SameOpsAndQueue, Tallies
    <3>2. \A h \in Live(s) \cup {None} : Referenced(t, h) <=> Referenced(s, h)
      BY <1>1, <1>2 DEF Referenced, Present, Live
    <3> QED
      BY <1>3, <3>1, <3>2 DEF Weighing
  <2>2. Weighty(t) = IF r.kind = "Timer" THEN Weighty(s) ELSE Weighty(s) \cup H
    BY <1>1, <1>2 DEF Weighty, Fresh
  <2>3. Numbers(s)
    BY <1>4, NumbersHold DEF Lines
  <2>4. IsFiniteSet(Weighty(s)) /\ IsFiniteSet(H) /\ Weighty(s) \cap H = {} /\ Cardinality(H) \in Nat
    BY <2>3, HandlesFinite DEF Numbers, Weighty, Live
  <2>5. Cardinality(Weighty(s) \cup H) = Cardinality(Weighty(s)) + Cardinality(H)
    BY Zenon, <2>4, CountBoth
  <2>6. Cardinality(Weighty(t)) = Cardinality(Weighty(s)) + (IF r.kind = "Timer" THEN 0 ELSE Cardinality(H))
    <3>1. Cardinality(Weighty(s)) \in Nat
      BY <2>3 DEF Numbers
    <3> QED
      BY <2>2, <2>5, <3>1
  <2>7. Carried(t)
    BY SMTT(60), <1>2, <1>3, <1>4 DEF Carried, Lines, Named, Weights, SameOpsAndQueue
  <2>8. Refs(t)
    <3>1. s.refs = Cardinality(Weighty(s)) + Cardinality(Weighing(s)) + Cardinality(At(s.queued, Counted))
          /\ t.refs = s.refs + (IF r.kind = "Timer" THEN 0 ELSE Cardinality(H)) /\ t.queued = s.queued
      BY <1>3, <1>4 DEF Weights, Refs, Gains, SameOpsAndQueue
    <3>2. /\ Cardinality(Weighty(s)) \in Nat /\ Cardinality(Weighing(s)) \in Nat
          /\ Cardinality(At(s.queued, Counted)) \in Nat
          /\ (IF r.kind = "Timer" THEN 0 ELSE Cardinality(H)) \in Nat
      BY <2>3, <2>4 DEF Numbers
    <3> QED
      BY <2>1, <2>6, <3>1, <3>2 DEF Refs
  <2> QED
    BY <2>7, <2>8 DEF Weights
<1>9. Clocks(t)
  <2>1. SameClocks(s, t)
    <3>1. \A o \in LiveOps(s) : s.ops[o].handle \notin H
      BY <1>4, NoneAssumption DEF Tallies
    <3>2. t.timers = s.timers /\ \A x \in s.timers : x \in Live(s)
      BY <1>4 DEF Gains, Clocks, ClocksBut, Armed
    <3> QED
      BY <1>1, <1>2, <3>1, <3>2 DEF SameClocks
  <2> QED
    BY Zenon, <1>3, <1>4, <2>1, ClocksKept
<1>10. HiddenBut(t, H)
  BY <1>1, <1>2, <1>3, <1>4, HidingKept DEF HiddenBut
<1>11. ASSUME ~r.hidden PROVE HiddenBut(t, {})
  BY <1>2, <1>10, <1>11 DEF HiddenBut
<1>12. HandlesAdded(s, t, H, r)
  BY <1>1, <1>2, <1>3, <1>5 DEF HandlesAdded
<1> QED
  BY <1>6, <1>7, <1>8, <1>9, <1>10, <1>11, <1>12 DEF Sums

---------------------------------------------------------------------------
\* Operations are admitted

\* t is s with an operation of h more, counted and weighed.
Admitted(s, h, t) ==
    /\ t.refs = s.refs + One(Referenced(s, h)) /\ t.outstanding = s.outstanding + 1
    /\ t.queued = s.queued /\ t.buffered = s.buffered
    /\ t.timers = s.timers /\ t.deadlines = s.deadlines

\* new_op() counts one operation owed, and its reference.
LEMMA NewOpAdmits ==
  ASSUME NEW s, IsDriver(s), NEW o, NEW kind, NEW h, NEW t, t = NewOp(s, o, kind, h)
  PROVE  Admitted(s, h, t)
  BY Zenon DEF NewOp, IsDriver, Fields, Admitted

\* The references stay exact when new_op() adds an operation and counts its
\* reference.
LEMMA AdmittedWeights ==
  ASSUME Counting, NEW s, Shaped(s), Lines(s), Weights(s), NEW o, NEW kind, NEW h \in Handles \cup {None},
         NEW t, OpAdded(s, o, kind, h, t), Admitted(s, h, t)
  PROVE  Weights(t)
<1>1. SameFlags(s, t)
  BY DEF SameFlags, OpAdded, Pended
<1>2. Weighty(t) = Weighty(s) /\ \A x \in Handles \cup {None} : Referenced(t, x) <=> Referenced(s, x)
  BY Zenon, <1>1, AlikeWeigh
<1>3. \A x \in LiveOps(s) : s.ops[x].handle \in Handles \cup {None}
  BY OpShape
<1> DEFINE refd == Referenced(s, h)
<1>4. refd \in BOOLEAN
  BY Zenon, IsReferenced
<1>5. Weighing(t) = IF refd THEN Weighing(s) \cup {o} ELSE Weighing(s)
  BY <1>2, <1>3 DEF Weighing, OpAdded
<1> HIDE DEF refd
<1>6. Numbers(s)
  BY NumbersHold DEF Lines
<1>7. IsFiniteSet(Weighing(s)) /\ o \notin Weighing(s)
  BY <1>6 DEF Weighing, OpAdded, Numbers
<1>8. Cardinality(Weighing(t)) = Cardinality(Weighing(s)) + One(refd)
  BY Zenon, <1>4, <1>5, <1>7, CountMore
<1>9. Carried(t)
  <2>1. Carried(s) /\ Named(s) /\ t.queued = s.queued
    BY DEF Weights, Lines, Admitted
  <2> QED
    BY Zenon, <1>1, <2>1, CarriedKept
<1>10. /\ Cardinality(Weighty(s)) \in Nat /\ Cardinality(At(s.queued, Counted)) \in Nat
       /\ Cardinality(Weighing(s)) \in Nat /\ One(refd) \in Nat
  BY <1>6 DEF Numbers, One
<1>11. s.refs = Cardinality(Weighty(s)) + Cardinality(Weighing(s)) + Cardinality(At(s.queued, Counted))
       /\ t.refs = s.refs + One(refd) /\ t.queued = s.queued
  BY DEF Weights, Refs, Admitted, refd
<1>12. Refs(t)
  BY <1>2, <1>8, <1>10, <1>11 DEF Refs
<1> QED
  BY <1>9, <1>12 DEF Weights

\* new_op(), on a handle that is not closing.
LEMMA NewOpSums ==
  ASSUME Counting, NEW s, Shaped(s), Sums(s), NEW o \in OpRoom(s), NEW kind \in OpKinds,
         NEW h \in Live(s) \cup {None}, h # None => ~s.handles[h].closing,
         NEW t, t = NewOp(s, o, kind, h)
  PROVE  Shaped(t) /\ OpAdded(s, o, kind, h, t) /\ Admitted(s, h, t) /\ Sums(t)
<1>1. IsDriver(s) /\ h \in Handles \cup {None} /\ Tallies(s) /\ Lines(s) /\ Owed(s) /\ Weights(s)
  BY DEF Shaped, Live, Sums
<1>2. Shaped(t) /\ OpAdded(s, o, kind, h, t)
  BY Zenon, <1>1, NewOpShape
<1>3. Admitted(s, h, t)
  BY Zenon, <1>1, NewOpAdmits
<1>4. Tallies(t)
  BY Zenon, <1>1, NewOpTallies
<1>5. Lines(t)
  <2>1. KeepsNamed(s, t)
    <3>1. ASSUME NEW x \in Live(s), Parted(s, x) PROVE Parted(t, x)
      <4>1. x # h
        BY <3>1, NoneAssumption DEF Parted, Live
      <4>2. OpsOf(t, x) = OpsOf(s, x) /\ Alike(t.handles[x], s.handles[x])
        BY Zenon, <1>2, <4>1 DEF OpAdded, Pended
      <4> QED
        BY Zenon, <3>1, <4>2 DEF Parted, Alike
    <3>2. Live(t) = Live(s)
      BY Zenon, <1>2 DEF OpAdded, Pended
    <3> QED
      BY Zenon, <3>1, <3>2 DEF KeepsNamed
  <2>2. t.queued = s.queued /\ t.buffered = s.buffered
    BY <1>3 DEF Admitted
  <2> QED
    BY Zenon, <1>1, <2>1, <2>2, LinesKept
<1>6. Owed(t)
  <2>1. Numbers(s)
    BY <1>1, NumbersHold DEF Lines
  <2>2. IsFiniteSet(LiveOps(s)) /\ o \notin LiveOps(s) /\ LiveOps(t) = LiveOps(s) \cup {o}
    BY <1>2, <2>1 DEF OpAdded, Numbers
  <2>3. Cardinality(LiveOps(t)) = Cardinality(LiveOps(s)) + 1
    BY Zenon, <2>2 DEF Counting
  <2> QED
    BY <1>1, <1>3, <2>1, <2>3 DEF Owed, Admitted, Numbers
<1>7. Weights(t)
  BY Zenon, <1>1, <1>2, <1>3, AdmittedWeights
<1> QED
  BY <1>2, <1>3, <1>4, <1>5, <1>6, <1>7 DEF Sums

\* An operation may be admitted on a handle that is not closing and no timer; on a
\* hidden one only the request that opens it.
Accepting(s, kind, h) ==
    h # None => /\ ~s.handles[h].closing /\ s.handles[h].kind # "Timer"
                /\ s.handles[h].hidden => /\ OpsOf(s, h) = {} /\ kind = "fs"
                                          /\ \A i \in DOMAIN s.queued : s.queued[i].handle # h

\* new_op() on a handle that accepts, or on none, keeps the books.
LEMMA NewOpLedger ==
  ASSUME Counting, NEW s, Shaped(s), Sums(s), Clocks(s), NEW o \in OpRoom(s), NEW kind \in OpKinds, ~IsTimer(kind),
         NEW h \in Live(s) \cup {None}, HiddenBut(s, {h}), Accepting(s, kind, h),
         NEW t, t = NewOp(s, o, kind, h)
  PROVE  Shaped(t) /\ OpAdded(s, o, kind, h, t) /\ Admitted(s, h, t) /\ Ledger(t)
<1>1. Shaped(t) /\ OpAdded(s, o, kind, h, t) /\ Admitted(s, h, t) /\ Sums(t)
  BY NewOpSums DEF Accepting
<1>2. /\ o \in Ops \ LiveOps(s) /\ LiveOps(t) = LiveOps(s) \cup {o}
      /\ \A x \in LiveOps(s) : t.ops[x] = s.ops[x]
      /\ t.ops[o].kind = kind /\ t.ops[o].handle = h
      /\ Live(t) = Live(s) /\ \A x \in Live(s) : Alike(t.handles[x], s.handles[x])
  BY <1>1 DEF OpAdded, Pended
<1>3. \A x : OpsOf(t, x) = IF x = h THEN OpsOf(s, x) \cup {o} ELSE OpsOf(s, x)
  BY <1>1 DEF OpAdded
<1>4. t.timers = s.timers /\ t.deadlines = s.deadlines /\ t.queued = s.queued
      /\ s.deadlines \subseteq LiveOps(s)
  BY <1>1 DEF Admitted, Shaped
<1>5. \A x \in Live(s) : s.handles[x].kind = "Timer" => OpsOf(t, x) = OpsOf(s, x)
  BY <1>3, NoneAssumption DEF Live, Accepting
<1>6. Clocks(t)
  <2>1. ASSUME NEW x \in LiveOps(t) \ {None} PROVE TimerOp(t, x)
    <3>1. CASE x = o
      <4>1. ~IsTimer(t.ops[x].kind) /\ t.ops[x].handle = h
        BY Zenon, <1>2, <3>1
      <4>2. x \notin t.deadlines
        BY <1>2, <1>4, <3>1
      <4>3. h \in Live(t) => t.handles[h].kind # "Timer"
        <5>1. h \in Live(s) => h # None
          BY NoneAssumption DEF Live
        <5> QED
          BY Zenon, <1>2, <5>1 DEF Accepting, Alike
      <4> QED
        BY Zenon, <4>1, <4>2, <4>3 DEF TimerOp
    <3>2. CASE x # o
      <4>1. x \in LiveOps(s) /\ TimerOp(s, x) /\ t.ops[x] = s.ops[x]
        BY <1>2, <3>2 DEF Clocks, ClocksBut
      <4> QED
        BY ZenonT(60), <1>2, <1>4, <1>5, <4>1 DEF TimerOp, Alike
    <3> QED
      BY <3>1, <3>2
  <2>2. \A x \in t.timers : Armed(t, x, None)
    BY <1>2, <1>4, <1>5 DEF Clocks, ClocksBut, Armed, Alike
  <2> QED
    BY <2>1, <2>2 DEF Clocks, ClocksBut
<1>7. HiddenBut(t, {})
  <2> SUFFICES ASSUME NEW x \in Live(t), t.handles[x].hidden PROVE Hiding(t, x)
    BY DEF HiddenBut
  <2>1. x \in Live(s) /\ Alike(t.handles[x], s.handles[x]) /\ s.handles[x].hidden /\ x # None
    <3>1. x \in Live(s) /\ Alike(t.handles[x], s.handles[x])
      BY <1>2
    <3>2. x # None
      BY <3>1, NoneAssumption DEF Live
    <3> QED
      BY Zenon, <3>1, <3>2 DEF Alike
  <2>2. CASE x = h
    <3>1. OpsOf(t, x) = {o} /\ t.ops[o].kind = "fs" /\ o \in LiveOps(t)
      BY <1>2, <1>3, <2>1, <2>2 DEF Accepting
    <3> QED
      BY <1>4, <2>1, <2>2, <3>1 DEF Hiding, Alike, Accepting
  <2>3. CASE x # h
    <3>1. Hiding(s, x) /\ OpsOf(t, x) = OpsOf(s, x)
      BY <1>3, <2>1, <2>3 DEF HiddenBut
    <3>2. ~t.handles[x].closing /\ t.handles[x].kind # "Timer"
      BY Zenon, <2>1, <3>1 DEF Hiding, Alike
    <3>3. \A i \in DOMAIN t.queued : t.queued[i].handle # x
      BY Zenon, <1>4, <3>1 DEF Hiding
    <3>4. PICK y \in LiveOps(s) : OpsOf(s, x) = {y} /\ s.ops[y].kind = "fs"
      BY Zenon, <3>1 DEF Hiding
    <3>5. y \in LiveOps(t) /\ OpsOf(t, x) = {y} /\ t.ops[y].kind = "fs"
      BY <1>2, <3>1, <3>4
    <3> QED
      BY Zenon, <3>2, <3>3, <3>5 DEF Hiding
  <2> QED
    BY <2>2, <2>3
<1> QED
  BY <1>1, <1>6, <1>7 DEF Ledger

---------------------------------------------------------------------------
\* Handles come

\* new_handle().
LEMMA NewHandleLedger ==
  ASSUME Counting, NEW s, Shaped(s), Ledger(s), NEW h \in Handles \ Live(s), NEW kind \in {"Socket", "File", "Timer"},
         NEW t, t = NewHandle(s, h, kind)
  PROVE  /\ Shaped(t) /\ Ledger(t) /\ HandlesAdded(s, t, {h}, Resource(kind)) /\ SameOpsAndQueue(s, t)
         /\ t.timers = s.timers
<1> DEFINE r == Resource(kind)
<1>1. Fresh(r) /\ r.kind = kind /\ r.hidden = FALSE
  BY DEF Fresh, Resource, Resources
<1>2. IsDriver(s) /\ s.handles \in [Handles -> Resources \cup {None}] /\ {h} \in SUBSET (Handles \ Live(s))
  BY DEF Shaped
<1>3. /\ IsDriver(t) /\ t.handles = [s.handles EXCEPT ![h] = r] /\ t.refs = s.refs + One(kind # "Timer")
      /\ SameOpsAndQueue(s, t) /\ t.timers = s.timers
  BY Zenon, <1>2 DEF NewHandle, IsDriver, Fields, SameOpsAndQueue
<1>4. t.handles = [x \in Handles |-> IF x \in {h} THEN r ELSE s.handles[x]]
  BY <1>2, <1>3
<1>5. Cardinality({h}) = 1
  BY OneCounts
<1>6. One(kind # "Timer") = IF r.kind = "Timer" THEN 0 ELSE Cardinality({h})
  BY <1>1, <1>5 DEF One
<1> HIDE DEF r
<1>7. Gains(s, t, {h}, r)
  BY Zenon, <1>3, <1>4, <1>6 DEF Gains
<1>8. /\ Shaped(t) /\ HandlesAdded(s, t, {h}, r) /\ Sums(t) /\ Clocks(t)
      /\ HiddenBut(t, {h}) /\ (~r.hidden => HiddenBut(t, {}))
  BY Zenon, <1>1, <1>2, <1>3, <1>7, GainsKeeps
<1> QED
  BY Zenon, <1>1, <1>3, <1>8 DEF Ledger, r

\* The handle of a file that is yet to be opened.
LEMMA HiddenLedger ==
  ASSUME Counting, NEW s, Shaped(s), Ledger(s), NEW h \in Handles \ Live(s), NEW kind \in {"Socket", "File"},
         NEW t, t = Hide(NewHandle(s, h, kind), h)
  PROVE  /\ Shaped(t) /\ Sums(t) /\ Clocks(t) /\ HiddenBut(t, {h}) /\ SameOpsAndQueue(s, t) /\ t.timers = s.timers
         /\ HandlesAdded(s, t, {h}, [Resource(kind) EXCEPT !.hidden = TRUE])
<1> DEFINE r == [Resource(kind) EXCEPT !.hidden = TRUE]
<1>1. Fresh(r) /\ r.kind = kind
  <2> DEFINE b == Resource(kind)
  <2>1. Fresh(b) /\ b.kind = kind /\ b \in Resources
    BY DEF Fresh, Resource, Resources
  <2> HIDE DEF b
  <2>2. /\ r \in Resources /\ r.kind = b.kind /\ r.pending = b.pending /\ r.referenced = b.referenced
        /\ r.closing = b.closing /\ r.closed_queued = b.closed_queued
    BY Zenon, <2>1 DEF Resources, b
  <2> QED
    BY Zenon, <2>1, <2>2 DEF Fresh
<1>2. IsDriver(s) /\ s.handles \in [Handles -> Resources \cup {None}] /\ {h} \in SUBSET (Handles \ Live(s))
  BY DEF Shaped
<1>3. /\ IsDriver(t) /\ t.handles = [[s.handles EXCEPT ![h] = Resource(kind)] EXCEPT ![h].hidden = TRUE]
      /\ t.refs = s.refs + One(kind # "Timer") /\ SameOpsAndQueue(s, t) /\ t.timers = s.timers
  BY Zenon, <1>2 DEF Hide, NewHandle, IsDriver, Fields, SameOpsAndQueue
<1>4. t.handles = [x \in Handles |-> IF x \in {h} THEN r ELSE s.handles[x]]
  <2> DEFINE f == [s.handles EXCEPT ![h] = Resource(kind)]
  <2>1. f = [x \in Handles |-> IF x = h THEN Resource(kind) ELSE s.handles[x]]
    BY <1>2
  <2>2. f[h] = Resource(kind) /\ t.handles = [f EXCEPT ![h] = r]
    BY <1>3, <2>1
  <2>3. f = [x \in Handles |-> f[x]] /\ \A x \in Handles \ {h} : f[x] = s.handles[x]
    BY <2>1
  <2> HIDE DEF f, r
  <2>4. t.handles = [x \in Handles |-> IF x = h THEN r ELSE f[x]]
    BY Zenon, <2>2, <2>3
  <2> QED
    BY <2>3, <2>4
<1>5. Cardinality({h}) = 1
  BY OneCounts
<1>6. One(kind # "Timer") = IF r.kind = "Timer" THEN 0 ELSE Cardinality({h})
  BY <1>1, <1>5 DEF One
<1> HIDE DEF r
<1>7. Gains(s, t, {h}, r)
  BY Zenon, <1>3, <1>4, <1>6 DEF Gains
<1>8. /\ Shaped(t) /\ HandlesAdded(s, t, {h}, r) /\ Sums(t) /\ Clocks(t)
      /\ HiddenBut(t, {h}) /\ (~r.hidden => HiddenBut(t, {}))
  BY Zenon, <1>1, <1>2, <1>3, <1>7, GainsKeeps
<1> QED
  BY Zenon, <1>3, <1>8 DEF r

\* The handles of a process and its pipes.
LEMMA AddHandlesLedger ==
  ASSUME Counting, NEW s, Shaped(s), Ledger(s), NEW H \in SUBSET (Handles \ Live(s)),
         NEW t, t = AddHandles(s, H)
  PROVE  /\ Shaped(t) /\ Ledger(t) /\ HandlesAdded(s, t, H, Resource("Socket")) /\ SameOpsAndQueue(s, t)
         /\ t.timers = s.timers
<1> DEFINE r == Resource("Socket")
<1>1. Fresh(r) /\ r.kind = "Socket" /\ r.hidden = FALSE
  BY DEF Fresh, Resource, Resources
<1>2. IsDriver(s)
  BY DEF Shaped
<1>3. /\ IsDriver(t) /\ t.handles = [x \in Handles |-> IF x \in H THEN r ELSE s.handles[x]]
      /\ t.refs = s.refs + Cardinality(H)
      /\ SameOpsAndQueue(s, t) /\ t.timers = s.timers
  BY Zenon, <1>2 DEF AddHandles, IsDriver, Fields, SameOpsAndQueue
<1> HIDE DEF r
<1>4. Gains(s, t, H, r)
  BY <1>1, <1>3 DEF Gains
<1>5. /\ Shaped(t) /\ HandlesAdded(s, t, H, r) /\ Sums(t) /\ Clocks(t)
      /\ HiddenBut(t, H) /\ (~r.hidden => HiddenBut(t, {}))
  BY Zenon, <1>1, <1>3, <1>4, GainsKeeps
<1> QED
  BY Zenon, <1>1, <1>3, <1>5 DEF Ledger, r

---------------------------------------------------------------------------
\* Promises, charges and cancellations

\* An operation changes in its promise.
LEMMA PromiseLedger ==
  ASSUME Counting, NEW s, Shaped(s), Ledger(s), NEW o \in LiveOps(s), NEW q \in Operations,
         q.kind = s.ops[o].kind, q.handle = s.ops[o].handle, q.cancel = s.ops[o].cancel,
         q.native = s.ops[o].native, q.port = s.ops[o].port,
         NEW t, IsDriver(t), t.ops = [s.ops EXCEPT ![o] = q], t.deadlines = s.deadlines,
         SameRest(s, t), SameCounts(s, t)
  PROVE  Shaped(t) /\ Ledger(t) /\ SameKinds(s, t)
<1>1. t.handles = s.handles /\ t.deadlines \subseteq LiveOps(s)
  BY DEF SameRest, Shaped
<1>2. Shaped(t) /\ OpSet(s, o, q, t)
  BY Zenon, <1>1, OpSetShape
<1>3. /\ LiveOps(t) = LiveOps(s)
      /\ \A x \in LiveOps(s) :
            /\ t.ops[x].kind = s.ops[x].kind /\ t.ops[x].handle = s.ops[x].handle
            /\ t.ops[x].cancel = s.ops[x].cancel /\ t.ops[x].native = s.ops[x].native
            /\ t.ops[x].port = s.ops[x].port
  BY <1>2 DEF OpSet
<1>4. \A x \in s.deadlines : x \in LiveOps(s) /\ ~s.ops[x].cancel /\ ~IsTimer(s.ops[x].kind)
  BY NoneAssumption DEF Shaped, Ledger, Clocks, ClocksBut, TimerOp, LiveOps
<1>5. Parallel(s, t)
  BY <1>3, <1>4 DEF Parallel, SameRest
<1>6. SameTallies(s, t)
  BY <1>3 DEF SameTallies, SameCounts
<1>7. Ledger(t)
  BY Zenon, <1>5, <1>6, ParallelLedger
<1> QED
  BY <1>2, <1>3, <1>7 DEF SameKinds

\* Only the pool of promises and the deadlines change.
LEMMA PoolLedger ==
  ASSUME Counting, NEW s, Shaped(s), Ledger(s), NEW t, IsDriver(t), t.ops = s.ops,
         SameRest(s, t), SameCounts(s, t), t.deadlines \subseteq LiveOps(s),
         \A x \in t.deadlines : ~s.ops[x].cancel /\ ~IsTimer(s.ops[x].kind)
  PROVE  Shaped(t) /\ Ledger(t) /\ SameKinds(s, t)
<1>1. LiveOps(t) = LiveOps(s)
  BY DEF LiveOps
<1>2. Parallel(s, t)
  BY <1>1 DEF Parallel, SameRest
<1>3. SameTallies(s, t)
  BY <1>1 DEF SameTallies, SameCounts
<1>4. Ledger(t)
  BY Zenon, <1>2, <1>3, ParallelLedger
<1>5. Shaped(t)
  BY <1>1 DEF Shaped, SameRest
<1> QED
  BY <1>1, <1>4, <1>5 DEF SameKinds

\* charge_port() and the requests that the backend takes.
LEMMA ChargeLedger ==
  ASSUME Counting, NEW s, Shaped(s), Ledger(s), NEW o \in LiveOps(s), ~s.ops[o].port, NEW t, t = ChargePort(s, o)
  PROVE  Shaped(t) /\ Ledger(t) /\ SameKinds(s, t)
<1> DEFINE q == [s.ops[o] EXCEPT !.port = TRUE]
<1>1. Tallies(s) /\ IsDriver(s) /\ s.ops[o] \in Operations
  BY OpShape DEF Shaped, Ledger, Sums
<1>2. Shaped(t) /\ Tallies(t) /\ OpSet(s, o, q, t)
  BY Zenon, <1>1, ChargeTallies
<1>3. q.handle = s.ops[o].handle /\ q.kind = s.ops[o].kind /\ q.cancel = s.ops[o].cancel
  BY Zenon, <1>1 DEF Operations
<1>4. SameRest(s, t) /\ t.deadlines = s.deadlines
  BY Zenon, <1>1 DEF ChargePort, IsDriver, Fields, SameRest
<1> HIDE DEF q
<1>5. /\ LiveOps(t) = LiveOps(s)
      /\ \A x \in LiveOps(s) :
            /\ t.ops[x].kind = s.ops[x].kind /\ t.ops[x].handle = s.ops[x].handle
            /\ t.ops[x].cancel = s.ops[x].cancel
  BY <1>2, <1>3 DEF OpSet
<1>6. \A x \in s.deadlines : x \in LiveOps(s) /\ ~s.ops[x].cancel /\ ~IsTimer(s.ops[x].kind)
  BY NoneAssumption DEF Shaped, Ledger, Clocks, ClocksBut, TimerOp, LiveOps
<1>7. Parallel(s, t)
  BY <1>4, <1>5, <1>6 DEF Parallel, SameRest
<1>8. Ledger(t)
  BY Zenon, <1>2, <1>7, ParallelKeeps
<1> QED
  BY <1>2, <1>5, <1>8 DEF SameKinds

\* Giving an operation to the backend counts it there and keeps the books.
LEMMA NativeLedger ==
  ASSUME Counting, NEW s, Shaped(s), Ledger(s), NEW o \in LiveOps(s), NEW t, t = MakeNative(s, o)
  PROVE  Shaped(t) /\ Ledger(t) /\ SameKinds(s, t)
<1> DEFINE q == [s.ops[o] EXCEPT !.native = TRUE]
<1>1. Tallies(s) /\ IsDriver(s) /\ s.ops[o] \in Operations
  BY OpShape DEF Shaped, Ledger, Sums
<1>2. Shaped(t) /\ Tallies(t) /\ OpSet(s, o, q, t)
  BY Zenon, <1>1, NativeTallies
<1>3. q.handle = s.ops[o].handle /\ q.kind = s.ops[o].kind /\ q.cancel = s.ops[o].cancel
  BY Zenon, <1>1 DEF Operations
<1>4. SameRest(s, t) /\ t.deadlines = s.deadlines
  BY Zenon, <1>1 DEF MakeNative, IsDriver, Fields, SameRest
<1> HIDE DEF q
<1>5. /\ LiveOps(t) = LiveOps(s)
      /\ \A x \in LiveOps(s) :
            /\ t.ops[x].kind = s.ops[x].kind /\ t.ops[x].handle = s.ops[x].handle
            /\ t.ops[x].cancel = s.ops[x].cancel
  BY <1>2, <1>3 DEF OpSet
<1>6. \A x \in s.deadlines : x \in LiveOps(s) /\ ~s.ops[x].cancel /\ ~IsTimer(s.ops[x].kind)
  BY NoneAssumption DEF Shaped, Ledger, Clocks, ClocksBut, TimerOp, LiveOps
<1>7. Parallel(s, t)
  BY <1>4, <1>5, <1>6 DEF Parallel, SameRest
<1>8. Ledger(t)
  BY Zenon, <1>2, <1>7, ParallelKeeps
<1> QED
  BY <1>2, <1>5, <1>8 DEF SameKinds

---------------------------------------------------------------------------
\* Submissions

\* An operation stays the one that was issued while kinds stay.
LEMMA IssuedKept ==
  ASSUME NEW s, NEW o, NEW kind, NEW u, Issued(s, o, kind, u), NEW t, SameKinds(u, t)
  PROVE  Issued(s, o, kind, t)
  BY DEF Issued, SameKinds

\* new_op() on a usable handle keeps the books and adds this operation, neither
\* charged nor cancelled.
LEMMA NewOpIssued ==
  ASSUME Counting, NEW s, Shaped(s), Ledger(s), NEW o \in OpRoom(s), NEW kind \in OpKinds, ~IsTimer(kind),
         NEW h, Ready(s, h), NEW t, t = NewOp(s, o, kind, h)
  PROVE  Shaped(t) /\ Ledger(t) /\ Issued(s, o, kind, t) /\ ~t.ops[o].port /\ ~t.ops[o].cancel
<1>1. Accepting(s, kind, h) /\ h \in Live(s) \cup {None}
  BY DEF Accepting, Ready
<1>2. Sums(s) /\ Clocks(s) /\ HiddenBut(s, {h})
  BY DEF Ledger, HiddenBut
<1>3. Shaped(t) /\ OpAdded(s, o, kind, h, t) /\ Admitted(s, h, t) /\ Ledger(t)
  BY Zenon, <1>1, <1>2, NewOpLedger
<1> QED
  BY <1>3 DEF OpAdded, Issued

\* submit(): what reserve adds is a promise.
Promised(s, o, t) ==
    /\ SameKinds(s, t) /\ SameRest(s, t) /\ t.deadlines = s.deadlines
    /\ t.undelivered = s.undelivered /\ t.ops[o].cancel = s.ops[o].cancel

\* Reserving handle slots for an accept keeps the books: no count depends on
\* the promises.
LEMMA ReserveLedger ==
  ASSUME Counting, NEW s, Shaped(s), Ledger(s), NEW o \in LiveOps(s), NEW kind, NEW t, t = Reserve(s, o, kind)
  PROVE  Shaped(t) /\ Ledger(t) /\ Promised(s, o, t)
<1>1. IsDriver(s) /\ o \in Ops /\ s.ops[o] \in Operations /\ s.ops \in [Ops -> Operations \cup {None}]
  BY OpShape DEF Shaped
<1>2. ASSUME NEW q \in Operations, q.kind = s.ops[o].kind, q.handle = s.ops[o].handle, q.cancel = s.ops[o].cancel,
             q.native = s.ops[o].native, q.port = s.ops[o].port, t.ops = [s.ops EXCEPT ![o] = q],
             IsDriver(t), t.deadlines = s.deadlines, SameRest(s, t), SameCounts(s, t)
      PROVE  Shaped(t) /\ Ledger(t) /\ Promised(s, o, t)
  <2>1. Shaped(t) /\ Ledger(t) /\ SameKinds(s, t)
    BY Zenon, <1>2, PromiseLedger
  <2>2. t.ops[o] = q
    BY Zenon, <1>1, <1>2
  <2> QED
    BY Zenon, <1>2, <2>1, <2>2 DEF Promised, SameCounts
<1>3. CASE kind = "accept_start"
  <2> DEFINE q == [s.ops[o] EXCEPT !.multishot = TRUE]
  <2>1. t = [s EXCEPT !.ops[o].multishot = TRUE, !.multishot_armed = @ + 1,
                      !.multishot_reserved = @ + 1, !.reserved_handles = @ + 1]
    BY <1>3 DEF Reserve
  <2>2. /\ IsDriver(t) /\ t.ops = [s.ops EXCEPT ![o] = q] /\ t.deadlines = s.deadlines
        /\ SameRest(s, t) /\ SameCounts(s, t)
    BY Zenon, <1>1, <2>1 DEF IsDriver, Fields, SameRest, SameCounts
  <2>3. /\ q \in Operations /\ q.kind = s.ops[o].kind /\ q.handle = s.ops[o].handle
        /\ q.cancel = s.ops[o].cancel /\ q.native = s.ops[o].native /\ q.port = s.ops[o].port
    BY Zenon, <1>1 DEF Operations
  <2> HIDE DEF q
  <2> QED
    BY Zenon, <1>2, <2>2, <2>3
<1>4. CASE kind = "accept"
  <2> DEFINE q == [s.ops[o] EXCEPT !.reserved_handles = 1]
  <2>1. t = [s EXCEPT !.ops[o].reserved_handles = 1, !.reserved_handles = @ + 1]
    BY <1>4 DEF Reserve
  <2>2. /\ IsDriver(t) /\ t.ops = [s.ops EXCEPT ![o] = q] /\ t.deadlines = s.deadlines
        /\ SameRest(s, t) /\ SameCounts(s, t)
    BY Zenon, <1>1, <2>1 DEF IsDriver, Fields, SameRest, SameCounts
  <2>3. /\ q \in Operations /\ q.kind = s.ops[o].kind /\ q.handle = s.ops[o].handle
        /\ q.cancel = s.ops[o].cancel /\ q.native = s.ops[o].native /\ q.port = s.ops[o].port
    BY Zenon, <1>1 DEF Operations
  <2> HIDE DEF q
  <2> QED
    BY Zenon, <1>2, <2>2, <2>3
<1>5. CASE kind \notin {"accept", "accept_start"}
  <2>1. t = s
    BY <1>5 DEF Reserve
  <2> QED
    BY Zenon, <2>1 DEF SameKinds, SameRest, Promised
<1> QED
  BY <1>3, <1>4, <1>5

\* submit() on an open handle.
LEMMA SubmitLedger ==
  ASSUME Counting, NEW s, Shaped(s), Ledger(s), NEW o \in OpRoom(s), NEW kind \in OpKinds, ~IsTimer(kind),
         NEW h, Ready(s, h), NEW t, t = SubmitOp(s, o, h, kind)
  PROVE  Shaped(t) /\ Ledger(t) /\ Issued(s, o, kind, t) /\ ~t.ops[o].cancel
<1> DEFINE u == NewOp(s, o, kind, h)
<1>1. Shaped(u) /\ Ledger(u) /\ Issued(s, o, kind, u) /\ ~u.ops[o].cancel
  BY Zenon, NewOpIssued
<1>2. t = Reserve(u, o, kind)
  BY Zenon DEF SubmitOp
<1> HIDE DEF u
<1>3. o \in LiveOps(u)
  BY <1>1 DEF Issued
<1>4. Shaped(t) /\ Ledger(t) /\ Promised(u, o, t)
  BY Zenon, <1>1, <1>2, <1>3, ReserveLedger
<1>5. Issued(s, o, kind, t)
  BY Zenon, <1>1, <1>4, IssuedKept DEF Promised
<1> QED
  BY Zenon, <1>1, <1>4, <1>5 DEF Promised

\* A connect with a deadline.
LEMMA DeadlineLedger ==
  ASSUME Counting, NEW s, Shaped(s), Ledger(s), NEW o \in LiveOps(s), ~s.ops[o].cancel, ~IsTimer(s.ops[o].kind),
         NEW t, t = [s EXCEPT !.deadlines = @ \cup {o}]
  PROVE  Shaped(t) /\ Ledger(t) /\ SameKinds(s, t)
<1>1. IsDriver(s)
  BY DEF Shaped
<1>2. IsDriver(t) /\ t.ops = s.ops /\ SameRest(s, t) /\ SameCounts(s, t) /\ t.deadlines = s.deadlines \cup {o}
  BY Zenon, <1>1 DEF IsDriver, Fields, SameRest, SameCounts
<1>3. \A x \in s.deadlines : x \in LiveOps(s) /\ ~s.ops[x].cancel /\ ~IsTimer(s.ops[x].kind)
  BY NoneAssumption DEF Shaped, Ledger, Clocks, ClocksBut, TimerOp, LiveOps
<1>4. t.deadlines \subseteq LiveOps(s) /\ \A x \in t.deadlines : ~s.ops[x].cancel /\ ~IsTimer(s.ops[x].kind)
  BY <1>2, <1>3
<1> QED
  BY Zenon, <1>2, <1>4, PoolLedger

\* blocking() and external_wait().
LEMMA JobLedger ==
  ASSUME Counting, NEW s, Shaped(s), Ledger(s), NEW o \in OpRoom(s), NEW t, t = JobOp(s, o)
  PROVE  Shaped(t) /\ Ledger(t) /\ Issued(s, o, "job", t)
<1> DEFINE u == NewOp(s, o, "job", None)
<1>1. "job" \in OpKinds /\ ~IsTimer("job") /\ Ready(s, None)
  BY DEF OpKinds, IsTimer, Ready
<1>2. Shaped(u) /\ Ledger(u) /\ Issued(s, o, "job", u) /\ ~u.ops[o].port
  BY Zenon, <1>1, NewOpIssued
<1>3. t = ChargePort(u, o)
  BY Zenon DEF JobOp
<1> HIDE DEF u
<1>4. o \in LiveOps(u)
  BY <1>2 DEF Issued
<1>5. Shaped(t) /\ Ledger(t) /\ SameKinds(u, t)
  BY Zenon, <1>2, <1>3, <1>4, ChargeLedger
<1> QED
  BY Zenon, <1>2, <1>5, IssuedKept

\* fs() on a path, an open file, or the hidden handle of a file to open.
LEMMA FsLedger ==
  ASSUME Counting, NEW s, Shaped(s), Sums(s), Clocks(s), NEW o \in OpRoom(s), NEW h \in Live(s) \cup {None},
         HiddenBut(s, {h}), Accepting(s, "fs", h), NEW t, t = FsOp(s, o, h)
  PROVE  Shaped(t) /\ Ledger(t) /\ Issued(s, o, "fs", t)
<1> DEFINE u == NewOp(s, o, "fs", h)
<1>1. "fs" \in OpKinds /\ ~IsTimer("fs")
  BY DEF OpKinds, IsTimer
<1>2. Shaped(u) /\ OpAdded(s, o, "fs", h, u) /\ Admitted(s, h, u) /\ Ledger(u)
  BY Zenon, <1>1, NewOpLedger
<1>3. t = IF FilesOnPool THEN ChargePort(u, o) ELSE u
  BY Zenon DEF FsOp
<1> HIDE DEF u
<1>4. Issued(s, o, "fs", u) /\ ~u.ops[o].port /\ o \in LiveOps(u)
  BY <1>2 DEF OpAdded, Issued
<1>5. CASE FilesOnPool
  <2>1. Shaped(t) /\ Ledger(t) /\ SameKinds(u, t)
    BY Zenon, <1>2, <1>3, <1>4, <1>5, ChargeLedger
  <2> QED
    BY Zenon, <1>4, <2>1, IssuedKept
<1>6. CASE ~FilesOnPool
  BY Zenon, <1>2, <1>3, <1>4, <1>6
<1> QED
  BY <1>5, <1>6

\* A file request on a usable handle keeps the books and adds one operation.
LEMMA FsOnReady ==
  ASSUME Counting, NEW s, Shaped(s), Ledger(s), NEW o \in OpRoom(s), NEW h, Ready(s, h), NEW t, t = FsOp(s, o, h)
  PROVE  Shaped(t) /\ Ledger(t) /\ Issued(s, o, "fs", t)
<1>1. Accepting(s, "fs", h) /\ h \in Live(s) \cup {None}
  BY DEF Accepting, Ready
<1>2. Sums(s) /\ Clocks(s) /\ HiddenBut(s, {h})
  BY DEF Ledger, HiddenBut
<1> QED
  BY Zenon, <1>1, <1>2, FsLedger

\* No completion names a vacant slot.
LEMMA VacantUnnamed ==
  ASSUME NEW s, Ledger(s), NEW h \in Handles \ Live(s)
  PROVE  \A i \in DOMAIN s.queued : s.queued[i].handle # h
  BY NoneAssumption DEF Ledger, Sums, Lines, Named

\* A file is a handle of kind File where its requests go to the pool, and one
\* like a socket elsewhere.
LEMMA FileKinds ==
  FileKind \in {"Socket", "File"}
  BY DEF FileKind

\* The operations of s with more handles.
LEMMA IssuedBeside ==
  ASSUME NEW s, NEW u, SameOpsAndQueue(s, u), NEW o, NEW kind, NEW t, Issued(u, o, kind, t)
  PROVE  Issued(s, o, kind, t)
<1>1. LiveOps(u) = LiveOps(s) /\ u.ops = s.ops
  BY Zenon, SameOpsOf DEF SameOpsAndQueue
<1> QED
  BY <1>1 DEF Issued

\* The free slots for operations depend on the table of operations only.
LEMMA SameOpRoom ==
  ASSUME NEW s, NEW u, SameOpsAndQueue(s, u)
  PROVE  OpRoom(u) = OpRoom(s)
<1>1. LiveOps(u) = LiveOps(s) /\ u.outstanding = s.outstanding
  BY Zenon, SameOpsOf DEF SameOpsAndQueue
<1> QED
  BY Zenon, <1>1 DEF OpRoom

\* A file is opened under a handle that nobody knows yet.
LEMMA FsOpenLedger ==
  ASSUME Counting, NEW s, Shaped(s), Ledger(s), NEW h \in Handles \ Live(s), NEW o \in OpRoom(s),
         NEW u, u = Hide(NewHandle(s, h, FileKind), h), NEW t, t = FsOp(u, o, h)
  PROVE  Shaped(t) /\ Ledger(t) /\ Issued(s, o, "fs", t)
<1> DEFINE r == [Resource(FileKind) EXCEPT !.hidden = TRUE]
<1>1. /\ Shaped(u) /\ Sums(u) /\ Clocks(u) /\ HiddenBut(u, {h}) /\ SameOpsAndQueue(s, u) /\ u.timers = s.timers
      /\ HandlesAdded(s, u, {h}, r)
  BY Zenon, FileKinds, HiddenLedger
<1>2. r.closing = FALSE /\ r.kind # "Timer"
  <2>1. r.closing = FALSE /\ r.kind = FileKind
    BY Zenon DEF Resource
  <2> HIDE DEF r
  <2> QED
    BY <2>1, FileKinds
<1> HIDE DEF r
<1>3. h \in Live(u) /\ u.handles[h] = r /\ OpsOf(u, h) = {}
  BY <1>1 DEF HandlesAdded
<1>4. \A i \in DOMAIN u.queued : u.queued[i].handle # h
  BY <1>1, VacantUnnamed DEF SameOpsAndQueue
<1>5. Accepting(u, "fs", h)
  BY <1>2, <1>3, <1>4 DEF Accepting
<1>6. o \in OpRoom(u)
  BY Zenon, <1>1, SameOpRoom
<1>7. Shaped(t) /\ Ledger(t) /\ Issued(u, o, "fs", t)
  BY Zenon, <1>1, <1>3, <1>5, <1>6, FsLedger
<1> QED
  BY Zenon, <1>1, <1>7, IssuedBeside

\* tcp_connect and the like: a handle and its first operation.
LEMMA FreshReady ==
  ASSUME NEW s, NEW H, NEW u, HandlesAdded(s, u, H, Resource("Socket")), NEW h \in H
  PROVE  Ready(u, h)
<1>1. h \in Live(u) /\ u.handles[h] = Resource("Socket")
  BY DEF HandlesAdded
<1> QED
  BY <1>1 DEF Ready, Resource

\* An operation submitted on a handle opened for it keeps the books.
LEMMA OpenSubmitLedger ==
  ASSUME Counting, NEW s, Shaped(s), Ledger(s), NEW h \in Handles \ Live(s), NEW o \in OpRoom(s),
         NEW kind \in OpKinds, ~IsTimer(kind),
         NEW u, u = NewHandle(s, h, "Socket"), NEW t, t = SubmitOp(u, o, h, kind)
  PROVE  Shaped(t) /\ Ledger(t) /\ Issued(s, o, kind, t) /\ ~t.ops[o].cancel
<1>1. "Socket" \in {"Socket", "File", "Timer"} /\ h \in {h}
  OBVIOUS
<1>2. /\ Shaped(u) /\ Ledger(u) /\ HandlesAdded(s, u, {h}, Resource("Socket")) /\ SameOpsAndQueue(s, u)
      /\ u.timers = s.timers
  BY Zenon, <1>1, NewHandleLedger
<1>3. Ready(u, h) /\ o \in OpRoom(u)
  BY Zenon, <1>1, <1>2, FreshReady, SameOpRoom
<1>4. Shaped(t) /\ Ledger(t) /\ Issued(u, o, kind, t) /\ ~t.ops[o].cancel
  BY Zenon, <1>2, <1>3, SubmitLedger
<1> QED
  BY Zenon, <1>2, <1>4, IssuedBeside

\* spawn_extra(): a process, its pipes, and the operation that reports its exit.
LEMMA SpawnLedger ==
  ASSUME Counting, NEW s, Shaped(s), Ledger(s), NEW H \in SUBSET (Handles \ Live(s)), NEW h \in H,
         NEW o \in OpRoom(s), NEW u, u = AddHandles(s, H), NEW t, t = NewOp(u, o, "io", h)
  PROVE  Shaped(t) /\ Ledger(t) /\ Issued(s, o, "io", t)
<1>1. "io" \in OpKinds /\ ~IsTimer("io")
  BY DEF OpKinds, IsTimer
<1>2. /\ Shaped(u) /\ Ledger(u) /\ HandlesAdded(s, u, H, Resource("Socket")) /\ SameOpsAndQueue(s, u)
      /\ u.timers = s.timers
  BY Zenon, AddHandlesLedger
<1>3. Ready(u, h) /\ o \in OpRoom(u)
  BY Zenon, <1>2, FreshReady, SameOpRoom
<1>4. Shaped(t) /\ Ledger(t) /\ Issued(u, o, "io", t) /\ ~t.ops[o].port /\ ~t.ops[o].cancel
  BY Zenon, <1>1, <1>2, <1>3, NewOpIssued
<1> QED
  BY Zenon, <1>2, <1>4, IssuedBeside

---------------------------------------------------------------------------
\* Timers

\* A timer's operation and its armed deadline come together.
LEMMA ArmedClocks ==
  ASSUME NEW u, Shaped(u), Clocks(u), NEW o, NEW kind, IsTimer(kind), NEW h \in Live(u), OpsOf(u, h) = {},
         ~u.handles[h].closing, u.handles[h].kind = "Timer",
         NEW v, OpAdded(u, o, kind, h, v), Admitted(u, h, v),
         NEW t, Rearmed(v, t), SameTables(v, t), t.timers = v.timers \cup {h}
  PROVE  Clocks(t)
<1>1. /\ o \in Ops \ LiveOps(u) /\ LiveOps(v) = LiveOps(u) \cup {o}
      /\ \A x \in LiveOps(u) : v.ops[x] = u.ops[x]
      /\ v.ops[o].kind = kind /\ v.ops[o].handle = h /\ ~v.ops[o].cancel
      /\ Live(v) = Live(u) /\ \A x \in Live(u) : Alike(v.handles[x], u.handles[x])
  BY DEF OpAdded, Pended
<1>2. \A x : OpsOf(v, x) = IF x = h THEN OpsOf(u, x) \cup {o} ELSE OpsOf(u, x)
  BY DEF OpAdded
<1>3. t.ops = v.ops /\ t.handles = v.handles /\ Live(t) = Live(v) /\ LiveOps(t) = LiveOps(v)
      /\ \A x : OpsOf(t, x) = OpsOf(v, x)
  BY Zenon DEF SameTables
<1>4. t.timers = u.timers \cup {h} /\ t.deadlines = u.deadlines /\ o \notin t.deadlines
  BY <1>1 DEF Admitted, Rearmed, SameOpsAndQueue, Shaped
<1>5. OpsOf(t, h) = {o} /\ \A x : x # h => OpsOf(t, x) = OpsOf(u, x)
  BY <1>2, <1>3
<1>6. o # None /\ h # None
  BY <1>1, NoneAssumption DEF Live
<1>7. \A x \in Live(u) : t.handles[x].kind = u.handles[x].kind /\ t.handles[x].closing = u.handles[x].closing
  BY ZenonT(60), <1>1, <1>3 DEF Alike
<1>8. \A x \in LiveOps(u) : t.ops[x] = u.ops[x] /\ TimerOp(u, x) /\ u.ops[x].handle # h
  <2>1. \A x \in LiveOps(u) : TimerOp(u, x)
    BY NoneAssumption DEF Clocks, ClocksBut, LiveOps
  <2>2. \A x \in LiveOps(u) : u.ops[x].handle # h
    BY DEF OpsOf
  <2> QED
    BY Zenon, <1>1, <1>3, <2>1, <2>2
<1>9. TimerOp(t, o)
  <2>1. t.ops[o].kind = kind /\ t.ops[o].handle = h /\ ~t.ops[o].cancel /\ t.handles[h].kind = "Timer"
        /\ h \in Live(t)
    BY Zenon, <1>1, <1>3, <1>7
  <2> QED
    BY <1>4, <1>5, <2>1 DEF TimerOp
<1>10. ASSUME NEW x \in LiveOps(u)
       PROVE  TimerOp(t, x)
  <2>1. t.ops[x] = u.ops[x] /\ TimerOp(u, x) /\ u.ops[x].handle # h /\ Live(t) = Live(u)
    BY Zenon, <1>1, <1>3, <1>8
  <2>2. OpsOf(t, u.ops[x].handle) = OpsOf(u, u.ops[x].handle)
    BY Zenon, <1>5, <2>1
  <2> QED
    BY <1>4, <1>7, <2>1, <2>2 DEF TimerOp
<1>11. ASSUME NEW x \in u.timers
       PROVE  Armed(t, x, None)
  <2>1. Armed(u, x, None)
    BY DEF Clocks, ClocksBut
  <2>2. x # h
    BY <2>1 DEF Armed
  <2>3. OpsOf(t, x) = OpsOf(u, x) /\ Live(t) = Live(u)
    BY Zenon, <1>1, <1>3, <1>5, <2>2
  <2> QED
    BY Zenon, <1>7, <2>1, <2>3 DEF Armed
<1>12. Armed(t, h, None)
  <2>1. Live(t) = Live(u) /\ o \in OpsOf(t, h) \ {None}
    BY Zenon, <1>1, <1>3, <1>5, <1>6
  <2> QED
    BY <1>7, <2>1 DEF Armed
<1> QED
  BY Zenon, <1>1, <1>3, <1>4, <1>9, <1>10, <1>11, <1>12 DEF Clocks, ClocksBut

\* timer() and interval(): a handle, its operation, and the armed deadline.
LEMMA TimerLedger ==
  ASSUME Counting, NEW s, Shaped(s), Ledger(s), NEW h \in Handles \ Live(s), NEW o \in OpRoom(s),
         NEW kind \in OpKinds, IsTimer(kind), NEW u, u = NewHandle(s, h, "Timer"),
         NEW v, v = NewOp(u, o, kind, h), NEW t, t = [v EXCEPT !.timers = @ \cup {h}]
  PROVE  Shaped(t) /\ Ledger(t) /\ Issued(s, o, kind, t)
<1>1. /\ Shaped(u) /\ Ledger(u) /\ HandlesAdded(s, u, {h}, Resource("Timer")) /\ SameOpsAndQueue(s, u)
      /\ u.timers = s.timers
  <2>1. "Timer" \in {"Socket", "File", "Timer"}
    OBVIOUS
  <2> QED
    BY Zenon, <2>1, NewHandleLedger
<1>2. h \in Live(u) /\ u.handles[h] = Resource("Timer") /\ OpsOf(u, h) = {} /\ h # None
  BY <1>1, NoneAssumption DEF HandlesAdded
<1>3. ~u.handles[h].closing /\ ~u.handles[h].hidden /\ u.handles[h].kind = "Timer"
  BY <1>2 DEF Resource
<1>4. o \in OpRoom(u)
  BY Zenon, <1>1, SameOpRoom
<1>5. Shaped(v) /\ OpAdded(u, o, kind, h, v) /\ Admitted(u, h, v) /\ Sums(v)
  <2>1. Sums(u) /\ h \in Live(u) \cup {None}
    BY <1>1, <1>2 DEF Ledger
  <2> QED
    BY Zenon, <1>1, <1>3, <1>4, <2>1, NewOpSums
<1>6. IsDriver(t) /\ Rearmed(v, t) /\ t.timers = v.timers \cup {h}
  <2>1. IsDriver(v)
    BY <1>5 DEF Shaped
  <2>2. IsDriver(t)
    BY Zenon, <2>1 DEF IsDriver, Fields
  <2>3. Rearmed(v, t) /\ t.timers = v.timers \cup {h}
    BY Zenon, <2>1 DEF IsDriver, Fields, Rearmed, SameOpsAndQueue
  <2> QED
    BY <2>2, <2>3
<1>7. Shaped(t) /\ Sums(t) /\ SameTables(v, t) /\ \A X : HiddenBut(v, X) => HiddenBut(t, X)
  BY Zenon, <1>5, <1>6, RearmedKeeps
<1>8. Issued(u, o, kind, v)
  BY <1>5 DEF OpAdded, Issued
<1>9. Issued(s, o, kind, t)
  <2>1. SameKinds(v, t)
    BY Zenon, <1>7 DEF SameTables, SameKinds
  <2> QED
    BY Zenon, <1>1, <1>8, <2>1, IssuedKept, IssuedBeside
<1>10. HiddenBut(v, {})
  <2>1. SameFlags(u, v) /\ v.queued = u.queued
    BY <1>5 DEF OpAdded, Admitted, SameFlags, Pended
  <2>2. ASSUME NEW x \in Live(v), v.handles[x].hidden
        PROVE  Hiding(v, x)
    <3>1. x \in Live(u) /\ u.handles[x].hidden /\ x # h /\ Alike(v.handles[x], u.handles[x])
      BY SMTT(60), <1>3, <2>1, <2>2 DEF SameFlags, Alike
    <3>2. Hiding(u, x)
      BY <1>1, <3>1 DEF Ledger, HiddenBut
    <3>3. OpsOf(v, x) = OpsOf(u, x)
      BY <1>5, <3>1 DEF OpAdded
    <3>4. \A p \in OpsOf(u, x) : p \in LiveOps(v) /\ v.ops[p] = u.ops[p]
      BY <1>5 DEF OpAdded, OpsOf
    <3> QED
      BY SMTT(60), <2>1, <3>1, <3>2, <3>3, <3>4 DEF Hiding, Alike
  <2> QED
    BY <2>2 DEF HiddenBut
<1>11. Clocks(t)
  BY Zenon, <1>1, <1>2, <1>3, <1>5, <1>6, <1>7, ArmedClocks DEF Ledger
<1> QED
  BY Zenon, <1>7, <1>9, <1>10, <1>11 DEF Ledger

\* timer_reset() arms the timer of an operation again.
LEMMA ResetLedger ==
  ASSUME Counting, NEW s, Shaped(s), Ledger(s), NEW h \in Live(s), s.handles[h].kind = "Timer", ~s.handles[h].closing,
         OpsOf(s, h) # {}, NEW t, t = [s EXCEPT !.timers = @ \cup {h}]
  PROVE  Shaped(t) /\ Ledger(t) /\ SameTables(s, t)
<1>1. IsDriver(t) /\ Rearmed(s, t) /\ t.timers = s.timers \cup {h}
  <2>1. IsDriver(s)
    BY DEF Shaped
  <2>2. IsDriver(t)
    BY Zenon, <2>1 DEF IsDriver, Fields
  <2>3. Rearmed(s, t) /\ t.timers = s.timers \cup {h}
    BY Zenon, <2>1 DEF IsDriver, Fields, Rearmed, SameOpsAndQueue
  <2> QED
    BY <2>2, <2>3
<1>2. Shaped(t) /\ Sums(t) /\ SameTables(s, t) /\ HiddenBut(t, {})
  BY Zenon, <1>1, RearmedKeeps DEF Ledger
<1>3. t.ops = s.ops /\ t.handles = s.handles /\ Live(t) = Live(s) /\ LiveOps(t) = LiveOps(s) /\ t.deadlines = s.deadlines
      /\ \A x : OpsOf(t, x) = OpsOf(s, x)
  BY Zenon, <1>1, <1>2 DEF SameTables, Rearmed, SameOpsAndQueue
<1>4. ASSUME NEW x \in LiveOps(t) \ {None}
      PROVE  TimerOp(t, x)
  <2>1. TimerOp(s, x)
    BY <1>3, <1>4 DEF Ledger, Clocks, ClocksBut
  <2> QED
    BY Zenon, <1>1, <1>3, <2>1 DEF TimerOp
<1>5. ASSUME NEW x \in t.timers
      PROVE  Armed(t, x, None)
  <2>1. CASE x = h
    <3>1. OpsOf(s, h) \ {None} # {}
      BY NoneAssumption DEF OpsOf, LiveOps
    <3> QED
      BY Zenon, <1>3, <2>1, <3>1 DEF Armed
  <2>2. CASE x # h
    BY Zenon, <1>1, <1>3, <1>5, <2>2 DEF Ledger, Clocks, ClocksBut, Armed
  <2> QED
    BY <2>1, <2>2
<1> QED
  BY Zenon, <1>2, <1>4, <1>5 DEF Ledger, Clocks, ClocksBut

---------------------------------------------------------------------------
\* close and detach

\* A handle whose pending count is 0 has no operation.
LEMMA NoPending ==
  ASSUME Counting, NEW s, Tallies(s), NEW h \in Live(s), s.handles[h].pending = 0
  PROVE  OpsOf(s, h) = {}
<1>1. OpsOf(s, h) \in SUBSET Ops
  BY DEF OpsOf, LiveOps
<1>2. IsFiniteSet(OpsOf(s, h)) /\ Cardinality(OpsOf(s, h)) = 0
  BY Zenon, <1>1, OpsFinite DEF Tallies
<1> QED
  BY Zenon, <1>2, CountNone

\* detach(), which removes a handle that nothing is owed to.
LEMMA DetachLedger ==
  ASSUME Counting, NEW s, Shaped(s), Ledger(s), NEW h \in Live(s), s.handles[h].kind # "Timer",
         NEW kept, NEW u, u = CancelAll(s, h, kept),
         NEW t, t = IF Detachable(u, h) THEN RemoveHandle(u, h) ELSE u
  PROVE  Shaped(t) /\ Ledger(t) /\ Others(t) = Others(s)
<1>1. Shaped(u) /\ Ledger(u) /\ SameOthers(s, u)
  BY Zenon, CancelAllFlags
<1>2. Others(u) = Others(s) /\ h \in Live(u) /\ u.handles[h].kind # "Timer"
  <2>1. u.handles = s.handles
    <3>1. IsDriver(s)
      BY DEF Shaped
    <3> QED
      BY Zenon, <3>1 DEF CancelAll, IsDriver, Fields
  <2> QED
    BY Zenon, <1>1, <2>1 DEF SameOthers
<1>3. CASE ~Detachable(u, h)
  BY Zenon, <1>1, <1>2, <1>3
<1>4. CASE Detachable(u, h)
  <2>1. IsDriver(u) /\ t = RemoveHandle(u, h)
    BY Zenon, <1>1, <1>4 DEF Shaped
  <2>2. IsDriver(t) /\ Loses(u, t, h)
    BY Zenon, <2>1, RemoveLoses
  <2>3. Sums(u) /\ Clocks(u) /\ HiddenBut(u, {h}) /\ Tallies(u) /\ Lines(u)
    BY <1>1 DEF Ledger, Sums, HiddenBut
  <2>4. OpsOf(u, h) = {}
    BY Zenon, <1>2, <1>4, <2>3, NoPending DEF Detachable
  <2>5. Forgotten(u, h)
    <3>1. DOMAIN u.queued = 1 .. Len(u.queued)
      BY SMTT(60), <2>3 DEF Lines
    <3> QED
      BY <1>2, <1>4, <2>4, <3>1 DEF Detachable, Forgotten
  <2>6. Shaped(t) /\ Ledger(t)
    BY Zenon, <1>1, <1>2, <2>2, <2>3, <2>5, LosesLedger
  <2>7. Others(t) = Others(u)
    BY Zenon, <2>2 DEF Others, LiveOps, Loses, SameOpsAndQueue
  <2> QED
    BY Zenon, <1>2, <2>6, <2>7
<1> QED
  BY <1>3, <1>4

---------------------------------------------------------------------------
\* set_ref

SameMessage(e, f) ==
    /\ e.handle = f.handle /\ e.op = f.op /\ e.terminal = f.terminal /\ e.class = f.class
    /\ e.closed = f.closed /\ e.brings = f.brings

\* s and t differ in the reference of h and of its queued results.
Swapped(s, h, t) ==
    /\ Live(t) = Live(s) /\ t.ops = s.ops /\ LiveOps(t) = LiveOps(s) /\ \A x : OpsOf(t, x) = OpsOf(s, x)
    /\ \A x \in Live(s) \ {h} : t.handles[x] = s.handles[x]
    /\ t.handles[h].kind = s.handles[h].kind /\ t.handles[h].hidden = s.handles[h].hidden
    /\ t.handles[h].pending = s.handles[h].pending /\ t.handles[h].closing = s.handles[h].closing
    /\ t.handles[h].closed_queued = s.handles[h].closed_queued
    /\ t.handles[h].referenced <=> ~s.handles[h].referenced
    /\ s.queued \in Seq(Completions) /\ t.queued \in Seq(Completions) /\ DOMAIN t.queued = DOMAIN s.queued
    /\ \A i \in DOMAIN s.queued : SameMessage(t.queued[i], s.queued[i])
    /\ \A i \in DOMAIN s.queued \ Tied(s, h) : t.queued[i] = s.queued[i]
    /\ \A i \in Tied(s, h) : /\ s.queued[i].referenced <=> s.handles[h].referenced
                             /\ t.queued[i].referenced <=> t.handles[h].referenced

\* set_ref() there and back: the relation of the two states is symmetric.
LEMMA SwappedBack ==
  ASSUME NEW s, NEW h, NEW t, Swapped(s, h, t)
  PROVE  Swapped(t, h, s) /\ Tied(t, h) = Tied(s, h)
<1>1. Tied(t, h) = Tied(s, h)
  BY ZenonT(60) DEF Tied, Swapped, SameMessage
<1> QED
  BY Zenon, <1>1 DEF Swapped, SameMessage

\* What a referenced handle weighs more than one that is not.
Heavy(s, h) == s.handles[h].kind # "Timer" \/ s.handles[h].closing

\* set_ref(false) takes the handle, its operations and its queued results from
\* what keeps the loop alive.
LEMMA SwappedSets ==
  ASSUME NEW s, Tallies(s), NEW h \in Live(s), NEW t, Swapped(s, h, t), s.handles[h].referenced
  PROVE  /\ Weighty(s) = (IF Heavy(s, h) THEN Weighty(t) \cup {h} ELSE Weighty(t)) /\ h \notin Weighty(t)
         /\ Weighing(s) = Weighing(t) \cup OpsOf(s, h) /\ Weighing(t) \cap OpsOf(s, h) = {}
         /\ At(s.queued, Counted) = At(t.queued, Counted) \cup Tied(s, h)
         /\ At(t.queued, Counted) \cap Tied(s, h) = {}
<1>1. ~t.handles[h].referenced /\ h \in Handles /\ h # None
  BY NoneAssumption DEF Swapped, Live
<1>2. h \notin Weighty(t) /\ Weighty(s) = (IF Heavy(s, h) THEN Weighty(t) \cup {h} ELSE Weighty(t))
  BY ZenonT(60), <1>1 DEF Weighty, Swapped, Heavy
<1>3. /\ \A x \in (Live(s) \ {h}) \cup {None} : Referenced(t, x) <=> Referenced(s, x)
      /\ Referenced(s, h) /\ ~Referenced(t, h)
  BY <1>1 DEF Referenced, Present, Live, Swapped
<1>4. \A o \in LiveOps(s) : s.ops[o].handle \in Live(s) \cup {None}
  BY DEF Tallies
<1>5. t.ops = s.ops /\ LiveOps(t) = LiveOps(s)
  BY DEF Swapped
<1>6. Weighing(s) = Weighing(t) \cup OpsOf(s, h)
  BY <1>3, <1>4, <1>5 DEF Weighing, OpsOf
<1>7. Weighing(t) \cap OpsOf(s, h) = {}
  BY <1>3, <1>4, <1>5 DEF Weighing, OpsOf
<1>8. /\ DOMAIN t.queued = DOMAIN s.queued
      /\ \A i \in DOMAIN s.queued : s.queued[i] \in Completions /\ t.queued[i] \in Completions
      /\ \A i \in DOMAIN s.queued \ Tied(s, h) : t.queued[i] = s.queued[i]
      /\ \A i \in Tied(s, h) : s.queued[i].referenced /\ ~t.queued[i].referenced /\ i \in DOMAIN s.queued
  <2>1. /\ s.queued \in Seq(Completions) /\ t.queued \in Seq(Completions) /\ DOMAIN t.queued = DOMAIN s.queued
        /\ \A i \in DOMAIN s.queued \ Tied(s, h) : t.queued[i] = s.queued[i]
        /\ \A i \in Tied(s, h) : s.queued[i].referenced /\ ~t.queued[i].referenced
    BY Zenon, <1>1 DEF Swapped
  <2>2. \A q \in Seq(Completions) : \A i \in DOMAIN q : q[i] \in Completions
    OBVIOUS
  <2>3. Tied(s, h) \subseteq DOMAIN s.queued
    BY Zenon DEF Tied
  <2> QED
    BY Zenon, <2>1, <2>2, <2>3
<1>9. At(s.queued, Counted) = At(t.queued, Counted) \cup Tied(s, h)
  <2>1. \A i \in DOMAIN s.queued : s.queued[i] \in Counted <=> t.queued[i] \in Counted \/ i \in Tied(s, h)
    BY Zenon, <1>8 DEF Counted
  <2> QED
    BY Zenon, <1>8, <2>1 DEF At
<1>10. At(t.queued, Counted) \cap Tied(s, h) = {}
  BY <1>8 DEF At, Counted
<1> QED
  BY Zenon, <1>2, <1>6, <1>7, <1>9, <1>10

\* A is counted by its parts.
InParts(A, B, D) ==
    Cardinality(A) = Cardinality(B) + Cardinality(D) /\ Cardinality(B) \in Nat /\ Cardinality(D) \in Nat

\* The size of a set in two parts is the sum of theirs.
LEMMA CountApart ==
  ASSUME Counting, NEW A, IsFiniteSet(A), NEW B, NEW D, A = B \cup D, B \cap D = {}
  PROVE  InParts(A, B, D)
<1>1. B \subseteq A /\ D \subseteq A
  OBVIOUS
<1>2. IsFiniteSet(B) /\ IsFiniteSet(D)
  BY Zenon, <1>1 DEF Counting
<1> QED
  BY Zenon, <1>2 DEF Counting, InParts

\* ... as numbers.
Lighter(s, h, t) ==
    /\ Cardinality(Weighty(t)) \in Nat /\ Cardinality(Weighing(t)) \in Nat
    /\ Cardinality(At(t.queued, Counted)) \in Nat
    /\ Cardinality(OpsOf(s, h)) \in Nat /\ Cardinality(Tied(s, h)) \in Nat
    /\ Cardinality(Weighty(s)) = Cardinality(Weighty(t)) + One(Heavy(s, h))
    /\ Cardinality(Weighing(s)) = Cardinality(Weighing(t)) + Cardinality(OpsOf(s, h))
    /\ Cardinality(At(s.queued, Counted)) = Cardinality(At(t.queued, Counted)) + Cardinality(Tied(s, h))

\* In numbers: refs loses what the handle weighed, and no other reference
\* changes.
LEMMA SwappedCounts ==
  ASSUME Counting, NEW s, Tallies(s), NEW h \in Live(s), NEW t, Swapped(s, h, t), s.handles[h].referenced
  PROVE  Lighter(s, h, t)
<1>1. /\ Weighty(s) = (IF Heavy(s, h) THEN Weighty(t) \cup {h} ELSE Weighty(t)) /\ h \notin Weighty(t)
      /\ Weighing(s) = Weighing(t) \cup OpsOf(s, h) /\ Weighing(t) \cap OpsOf(s, h) = {}
      /\ At(s.queued, Counted) = At(t.queued, Counted) \cup Tied(s, h)
      /\ At(t.queued, Counted) \cap Tied(s, h) = {}
  BY Zenon, SwappedSets
<1>2. s.queued \in Seq(Completions) /\ t.queued \in Seq(Completions)
  BY DEF Swapped
<1>3. Numbers(s) /\ Numbers(t) /\ IsFiniteSet(At(s.queued, Counted))
  BY Zenon, <1>2, NumbersHold, AtFinite
<1>4. Heavy(s, h) \in BOOLEAN
  BY DEF Heavy
<1>5. Cardinality(Weighty(s)) = Cardinality(Weighty(t)) + One(Heavy(s, h))
  BY Zenon, <1>1, <1>3, <1>4, CountMore DEF Numbers
<1>6. InParts(Weighing(s), Weighing(t), OpsOf(s, h))
  <2>1. IsFiniteSet(Weighing(s))
    BY Zenon, <1>3 DEF Numbers
  <2> QED
    BY Zenon, <1>1, <2>1, CountApart
<1>7. InParts(At(s.queued, Counted), At(t.queued, Counted), Tied(s, h))
  BY Zenon, <1>1, <1>3, CountApart
<1> QED
  BY Zenon, <1>3, <1>5, <1>6, <1>7 DEF Lighter, Numbers, InParts

\* set_ref() rewrites flags of queued results and leaves the order and the
\* classes of the queue.
LEMMA SwappedLines ==
  ASSUME NEW s, Lines(s), NEW h, NEW t, Swapped(s, h, t), Reweighed(s, h, t)
  PROVE  Lines(t) /\ At(t.queued, Results) = At(s.queued, Results)
<1>1. /\ s.queued \in Seq(Completions) /\ t.queued \in Seq(Completions) /\ DOMAIN t.queued = DOMAIN s.queued
      /\ \A i \in DOMAIN s.queued : SameMessage(t.queued[i], s.queued[i])
      /\ \A i \in DOMAIN s.queued : s.queued[i] \in Completions /\ t.queued[i] \in Completions
  <2>1. /\ s.queued \in Seq(Completions) /\ t.queued \in Seq(Completions) /\ DOMAIN t.queued = DOMAIN s.queued
        /\ \A i \in DOMAIN s.queued : SameMessage(t.queued[i], s.queued[i])
    BY Zenon DEF Swapped
  <2>2. \A q \in Seq(Completions) : \A i \in DOMAIN q : q[i] \in Completions
    OBVIOUS
  <2> QED
    BY Zenon, <2>1, <2>2
<1>2. \A c : At(t.queued, OfClass(c)) = At(s.queued, OfClass(c))
  BY <1>1 DEF At, OfClass, SameMessage
<1>3. At(t.queued, Results) = At(s.queued, Results)
  BY <1>1 DEF At, Results, SameMessage
<1>4. Buffers(t)
  BY Zenon, <1>2 DEF Lines, Buffers, Reweighed
<1>5. \A i \in DOMAIN t.queued : Proper(t.queued[i])
  BY Zenon, <1>1 DEF Lines, Proper, Event, Result, Goodbye, SameMessage
<1>6. Named(t)
  <2>1. /\ \A i \in DOMAIN s.queued : s.queued[i].handle \in Live(s) \cup {None}
        /\ \A i \in DOMAIN s.queued : s.queued[i].closed => Parted(s, s.queued[i].handle)
        /\ \A i, j \in DOMAIN s.queued :
              s.queued[i].closed /\ j > i => s.queued[j].handle # s.queued[i].handle
    BY Zenon DEF Lines, Named
  <2>2. \A i \in DOMAIN s.queued : t.queued[i].handle = s.queued[i].handle /\ t.queued[i].closed = s.queued[i].closed
    BY Zenon, <1>1 DEF SameMessage
  <2>3. \A i \in DOMAIN s.queued : s.queued[i].closed => s.queued[i].handle \in Live(s)
    BY Zenon, <1>1, <2>1 DEF Lines, Proper, Event, Result, Goodbye
  <2>4. \A x \in Live(s) : Parted(s, x) => Parted(t, x)
    BY DEF Parted, Swapped
  <2>5. Live(t) = Live(s)
    BY DEF Swapped
  <2> QED
    BY ZenonT(60), <1>1, <2>1, <2>2, <2>3, <2>4, <2>5 DEF Named
<1> QED
  BY Zenon, <1>1, <1>3, <1>4, <1>5, <1>6 DEF Lines

\* After set_ref() every queued result carries the flag of its handle.
LEMMA SwappedCarried ==
  ASSUME NEW s, Lines(s), Carried(s), NEW h \in Live(s), NEW t, Shaped(t), Swapped(s, h, t)
  PROVE  Carried(t)
<1> SUFFICES ASSUME NEW i \in DOMAIN t.queued, t.queued[i].terminal, t.queued[i].op, t.queued[i].handle # None
             PROVE  t.queued[i].referenced = t.handles[t.queued[i].handle].referenced
  BY Zenon DEF Carried
<1>1. i \in DOMAIN s.queued /\ SameMessage(t.queued[i], s.queued[i])
  BY DEF Swapped
<1>2. s.queued[i].handle \in Live(s) /\ t.queued[i].handle = s.queued[i].handle
  BY Zenon, <1>1 DEF Lines, Named, SameMessage
<1>3. CASE i \in Tied(s, h)
  <2>1. t.queued[i].referenced <=> t.handles[h].referenced
    BY <1>3 DEF Swapped
  <2>2. t.queued[i].handle = h
    BY <1>2, <1>3 DEF Tied
  <2>3. t.queued[i].referenced \in BOOLEAN
    <3>1. t.queued \in Seq(Completions)
      BY DEF Swapped
    <3>2. t.queued[i] \in Completions
      BY <3>1
    <3> QED
      BY Zenon, <3>2 DEF Completions
  <2>4. t.handles[h].referenced \in BOOLEAN
    <3>1. h \in Live(t)
      BY DEF Swapped
    <3>2. t.handles[h] \in Resources
      BY <3>1 DEF Shaped, Live, Free
    <3> QED
      BY Zenon, <3>2 DEF Resources
  <2> QED
    BY Zenon, <2>1, <2>2, <2>3, <2>4
<1>4. CASE i \notin Tied(s, h)
  <2>1. t.queued[i] = s.queued[i] /\ s.queued[i].handle # h
    BY Zenon, <1>1, <1>4 DEF Swapped, Tied, SameMessage
  <2>2. t.handles[s.queued[i].handle] = s.handles[s.queued[i].handle]
    BY Zenon, <1>2, <2>1 DEF Swapped
  <2>3. s.queued[i].referenced = s.handles[s.queued[i].handle].referenced
    BY Zenon, <1>1, <2>1 DEF Carried
  <2> QED
    BY Zenon, <2>1, <2>2, <2>3
<1> QED
  BY Zenon, <1>3, <1>4

\* set_ref() keeps refs exact.
LEMMA SwappedWeights ==
  ASSUME Counting, NEW s, Tallies(s), Lines(s), Weights(s), NEW h \in Live(s),
         NEW t, Shaped(t), Tallies(t), Swapped(s, h, t), Reweighed(s, h, t)
  PROVE  Weights(t)
<1>1. s.handles[h].pending = Cardinality(OpsOf(s, h)) /\ t.handles[h].pending = s.handles[h].pending
      /\ h \in Live(t) /\ OpsOf(t, h) = OpsOf(s, h) /\ (Heavy(t, h) <=> Heavy(s, h))
  BY DEF Tallies, Swapped, Heavy
<1>2. Weight(s.handles[h]) = Cardinality(OpsOf(s, h)) + One(Heavy(s, h))
  BY Zenon, <1>1 DEF Weight, Heavy
<1>3. s.refs = Cardinality(Weighty(s)) + Cardinality(Weighing(s)) + Cardinality(At(s.queued, Counted))
  BY DEF Weights, Refs
<1>4. One(Heavy(s, h)) \in {0, 1} /\ One(Heavy(t, h)) = One(Heavy(s, h))
  BY <1>1 DEF One
<1>5. Carried(t)
  BY Zenon, SwappedCarried DEF Weights
<1>6. CASE s.handles[h].referenced
  <2>1. Lighter(s, h, t)
    BY Zenon, <1>6, SwappedCounts
  <2>2. t.refs = s.refs - (Weight(s.handles[h]) + Cardinality(Tied(s, h)))
    BY Zenon, <1>6 DEF Reweighed
  <2>3. t.refs = Cardinality(Weighty(t)) + Cardinality(Weighing(t)) + Cardinality(At(t.queued, Counted))
    BY <1>2, <1>3, <1>4, <2>1, <2>2 DEF Lighter
  <2> QED
    BY Zenon, <1>5, <2>3 DEF Weights, Refs
<1>7. CASE ~s.handles[h].referenced
  <2>1. Swapped(t, h, s) /\ Tied(t, h) = Tied(s, h) /\ t.handles[h].referenced
    <3>1. t.handles[h].referenced
      BY Zenon, <1>7 DEF Swapped
    <3> QED
      BY Zenon, <3>1, SwappedBack
  <2>2. Lighter(t, h, s)
    BY Zenon, <1>1, <2>1, SwappedCounts
  <2>3. t.refs = s.refs + (Weight(s.handles[h]) + Cardinality(Tied(s, h)))
    BY Zenon, <1>7 DEF Reweighed
  <2>4. t.refs = Cardinality(Weighty(t)) + Cardinality(Weighing(t)) + Cardinality(At(t.queued, Counted))
    <3> DEFINE a == Cardinality(Weighty(s))  b == Cardinality(Weighing(s))  c == Cardinality(At(s.queued, Counted))
               p == One(Heavy(s, h))  q == Cardinality(OpsOf(s, h))  r == Cardinality(Tied(s, h))
    <3>1. a \in Nat /\ b \in Nat /\ c \in Nat /\ q \in Nat /\ r \in Nat
      BY Zenon, <1>1, <2>1, <2>2 DEF Lighter
    <3>2. /\ Cardinality(Weighty(t)) = a + p /\ Cardinality(Weighing(t)) = b + q
          /\ Cardinality(At(t.queued, Counted)) = c + r
      BY Zenon, <1>1, <1>4, <2>1, <2>2 DEF Lighter
    <3>3. s.refs = a + b + c /\ t.refs = s.refs + ((q + p) + r) /\ p \in {0, 1}
      BY Zenon, <1>2, <1>3, <1>4, <2>3
    <3> HIDE DEF a, b, c, p, q, r
    <3> QED
      BY <3>1, <3>2, <3>3
  <2> QED
    BY Zenon, <1>5, <2>4 DEF Weights, Refs
<1> QED
  BY Zenon, <1>6, <1>7

\* set_ref() keeps the books.
LEMMA SwappedLedger ==
  ASSUME Counting, NEW s, Shaped(s), Ledger(s), NEW h \in Live(s),
         NEW t, Shaped(t), Swapped(s, h, t), Reweighed(s, h, t)
  PROVE  Ledger(t)
<1>1. Tallies(s) /\ Lines(s) /\ Owed(s) /\ Weights(s) /\ Clocks(s) /\ HiddenBut(s, {})
  BY DEF Ledger, Sums
<1>2. Live(t) = Live(s) /\ t.ops = s.ops /\ LiveOps(t) = LiveOps(s) /\ \A x : OpsOf(t, x) = OpsOf(s, x)
  BY DEF Swapped
<1>3. \A x \in Live(s) :
         /\ t.handles[x].kind = s.handles[x].kind /\ t.handles[x].hidden = s.handles[x].hidden
         /\ t.handles[x].pending = s.handles[x].pending /\ t.handles[x].closing = s.handles[x].closing
  BY DEF Swapped
<1>4. Tallies(t)
  <2>1. SameTallies(s, t) /\ SamePending(s, t)
    BY <1>2, <1>3 DEF SameTallies, SamePending, Reweighed
  <2> QED
    BY Zenon, <1>1, <2>1, TalliesKept
<1>5. Lines(t) /\ At(t.queued, Results) = At(s.queued, Results)
  BY Zenon, <1>1, SwappedLines
<1>6. Owed(t)
  BY Zenon, <1>1, <1>2, <1>5 DEF Owed, Reweighed
<1>7. Weights(t)
  BY Zenon, <1>1, <1>4, SwappedWeights
<1>8. Clocks(t)
  <2>1. t.timers = s.timers /\ t.deadlines = s.deadlines
    BY DEF Reweighed
  <2>2. ASSUME NEW o \in LiveOps(t) \ {None}
        PROVE  TimerOp(t, o)
    <3>1. TimerOp(s, o)
      BY Zenon, <1>1, <1>2, <2>2 DEF Clocks, ClocksBut
    <3> QED
      BY Zenon, <1>2, <1>3, <2>1, <3>1 DEF TimerOp
  <2>3. ASSUME NEW x \in t.timers
        PROVE  Armed(t, x, None)
    BY Zenon, <1>1, <1>2, <1>3, <2>1, <2>3 DEF Clocks, ClocksBut, Armed
  <2> QED
    BY Zenon, <2>2, <2>3 DEF Clocks, ClocksBut
<1>9. HiddenBut(t, {})
  <2> SUFFICES ASSUME NEW x \in Live(t), t.handles[x].hidden PROVE Hiding(t, x)
    BY DEF HiddenBut
  <2>1. x \in Live(s) /\ Hiding(s, x) /\ t.handles[x].closing = s.handles[x].closing
        /\ t.handles[x].kind = s.handles[x].kind
    BY Zenon, <1>1, <1>2, <1>3 DEF HiddenBut
  <2>2. DOMAIN t.queued = DOMAIN s.queued /\ \A i \in DOMAIN s.queued : t.queued[i].handle = s.queued[i].handle
    BY Zenon DEF Swapped, SameMessage
  <2> QED
    BY Zenon, <1>2, <2>1, <2>2 DEF Hiding
<1> QED
  BY Zenon, <1>4, <1>5, <1>6, <1>7, <1>8, <1>9 DEF Ledger, Sums

IsRelabel(s, h, to, q) ==
    /\ q \in Seq(Completions) /\ DOMAIN q = DOMAIN s.queued
    /\ \A i \in DOMAIN s.queued : SameMessage(q[i], s.queued[i])
    /\ \A i \in DOMAIN s.queued \ Tied(s, h) : q[i] = s.queued[i]
    /\ \A i \in Tied(s, h) : q[i].referenced <=> to

\* The queue that set_ref() writes differs in the flags of the results of the
\* handle.
LEMMA Relabelled ==
  ASSUME NEW s, s.queued \in Seq(Completions), NEW h, NEW to \in BOOLEAN, NEW q, q = Relabel(s, h, to)
  PROVE  IsRelabel(s, h, to, q)
<1>1. DOMAIN s.queued = 1 .. Len(s.queued) /\ Len(s.queued) \in Nat
      /\ \A i \in DOMAIN s.queued : s.queued[i] \in Completions
  OBVIOUS
<1>2. DOMAIN q = DOMAIN s.queued
  BY Zenon DEF Relabel
<1>3. ASSUME NEW i \in DOMAIN s.queued
      PROVE  /\ q[i] \in Completions /\ SameMessage(q[i], s.queued[i])
             /\ (i \notin Tied(s, h) => q[i] = s.queued[i]) /\ (i \in Tied(s, h) => (q[i].referenced <=> to))
  <2>1. s.queued[i] \in Completions
    BY <1>1
  <2>2. CASE i \in Tied(s, h)
    <3>1. q[i] = [s.queued[i] EXCEPT !.referenced = to]
      BY Zenon, <1>3, <2>2 DEF Relabel
    <3> DEFINE e == s.queued[i]
    <3>2. e \in Completions
      BY <2>1
    <3> HIDE DEF e
    <3>3. [e EXCEPT !.referenced = to] \in Completions /\ SameMessage([e EXCEPT !.referenced = to], e)
          /\ [e EXCEPT !.referenced = to].referenced = to
      BY Zenon, <3>2 DEF Completions, SameMessage
    <3> QED
      BY Zenon, <2>2, <3>1, <3>3 DEF e
  <2>3. CASE i \notin Tied(s, h)
    <3>1. q[i] = s.queued[i]
      BY Zenon, <1>3, <2>3 DEF Relabel
    <3> QED
      BY Zenon, <2>1, <2>3, <3>1 DEF SameMessage
  <2> QED
    BY Zenon, <2>2, <2>3
<1>4. q \in [1 .. Len(s.queued) -> Completions]
  <2>1. q = [i \in 1 .. Len(s.queued) |-> q[i]]
    BY Zenon, <1>1 DEF Relabel
  <2> QED
    BY Zenon, <1>1, <1>3, <2>1
<1>5. q \in Seq(Completions)
  BY <1>1, <1>4
<1>6. Tied(s, h) \subseteq DOMAIN s.queued
  BY DEF Tied
<1> QED
  BY Zenon, <1>2, <1>3, <1>5, <1>6 DEF IsRelabel

\* set_ref() flips exactly the results that are tied to the handle.
LEMMA FlipIs ==
  ASSUME NEW s, Lines(s), Carried(s), NEW h \in Live(s), NEW t, t = FlipRef(s, h), IsDriver(s)
  PROVE  Flipped(s, h, t)
<1> DEFINE r == s.handles[h]
           carried == {i \in 1 .. Len(s.queued) :
                          /\ s.queued[i].handle = h /\ s.queued[i].terminal /\ s.queued[i].op
                          /\ s.queued[i].referenced = r.referenced}
           weight == Weight(r) + Cardinality(carried)
<1>1. carried = Tied(s, h)
  <2>1. DOMAIN s.queued = 1 .. Len(s.queued)
    BY DEF Lines
  <2>2. h # None
    BY NoneAssumption DEF Live
  <2>3. \A i \in DOMAIN s.queued : s.queued[i].handle = h /\ s.queued[i].terminal /\ s.queued[i].op
                                   => s.queued[i].referenced = r.referenced
    BY Zenon, <2>2 DEF Carried
  <2> QED
    BY Zenon, <2>1, <2>3 DEF Tied
<1>2. t = [s EXCEPT !.handles[h].referenced = ~r.referenced,
                    !.refs = IF r.referenced THEN @ - weight ELSE @ + weight,
                    !.queued = [i \in DOMAIN @ |-> IF i \in carried
                                    THEN [@[i] EXCEPT !.referenced = ~r.referenced] ELSE @[i]]]
  BY Zenon DEF FlipRef
<1> HIDE DEF carried
<1>3. IsDriver(t)
  BY Zenon, <1>2 DEF IsDriver, Fields
<1>4. t.timers = s.timers /\ t.deadlines = s.deadlines /\ t.outstanding = s.outstanding
      /\ t.buffered = s.buffered /\ t.native_pending = s.native_pending /\ t.undelivered = s.undelivered
      /\ t.ops = s.ops
      /\ t.handles = [s.handles EXCEPT ![h] = [s.handles[h] EXCEPT !.referenced = ~s.handles[h].referenced]]
  BY Zenon, <1>2 DEF IsDriver, Fields
<1>5. t.refs = IF r.referenced THEN s.refs - weight ELSE s.refs + weight
  BY Zenon, <1>2 DEF IsDriver, Fields
<1>6. t.queued = [i \in DOMAIN s.queued |-> IF i \in carried
                     THEN [s.queued[i] EXCEPT !.referenced = ~r.referenced] ELSE s.queued[i]]
  BY Zenon, <1>2 DEF IsDriver, Fields
<1>7. t.queued = Relabel(s, h, ~s.handles[h].referenced)
  BY Zenon, <1>1, <1>6 DEF Relabel
<1>8. Reweighed(s, h, t)
  BY Zenon, <1>1, <1>4, <1>5 DEF Reweighed
<1> QED
  BY Zenon, <1>3, <1>4, <1>7, <1>8 DEF Flipped

\* set_ref().
LEMMA FlipLedger ==
  ASSUME Counting, NEW s, Shaped(s), Ledger(s), NEW h \in Live(s), NEW t, t = FlipRef(s, h)
  PROVE  Shaped(t) /\ Ledger(t) /\ SameOthers(s, t)
<1> DEFINE g == [s.handles[h] EXCEPT !.referenced = ~s.handles[h].referenced]
           u == [s EXCEPT !.handles = [s.handles EXCEPT ![h] = g]]
<1>1. /\ IsDriver(s) /\ h \in Handles /\ s.handles[h] \in Resources
      /\ s.handles \in [Handles -> Resources \cup {None}]
  BY DEF Shaped, Live, Free
<1>2. Lines(s) /\ Carried(s) /\ s.queued \in Seq(Completions)
  BY DEF Ledger, Sums, Weights, Lines
<1>3. /\ IsDriver(t) /\ Reweighed(s, h, t) /\ t.ops = s.ops
      /\ t.handles = [s.handles EXCEPT ![h] = g]
      /\ t.queued = Relabel(s, h, ~s.handles[h].referenced)
  <2>1. Flipped(s, h, t)
    BY Zenon, <1>1, <1>2, FlipIs
  <2> QED
    BY Zenon, <2>1 DEF Flipped
<1>4. /\ g \in Resources /\ g.kind = s.handles[h].kind /\ g.hidden = s.handles[h].hidden
      /\ g.pending = s.handles[h].pending /\ g.closing = s.handles[h].closing
      /\ g.closed_queued = s.handles[h].closed_queued /\ (g.referenced <=> ~s.handles[h].referenced)
  <2> DEFINE r == s.handles[h]
  <2>1. r \in Resources
    BY <1>1
  <2>2. (~r.referenced) \in BOOLEAN
    OBVIOUS
  <2> HIDE DEF r
  <2>3. /\ [r EXCEPT !.referenced = ~r.referenced] \in Resources
        /\ \A x \in {"kind", "hidden", "pending", "closing", "closed_queued"} :
              [r EXCEPT !.referenced = ~r.referenced][x] = r[x]
        /\ [r EXCEPT !.referenced = ~r.referenced].referenced = ~r.referenced
    BY Zenon, <2>1, <2>2 DEF Resources
  <2> QED
    BY Zenon, <2>3 DEF r
<1>5. IsDriver(u) /\ u.handles = [s.handles EXCEPT ![h] = g] /\ SameOpsAndQueue(s, u)
  BY Zenon, <1>1 DEF IsDriver, Fields, SameOpsAndQueue
<1> HIDE DEF g, u
<1>6. Rewritten(s, h, g, u)
  BY Zenon, <1>4, <1>5, Rewrite
<1>7. /\ Shaped(u) /\ Live(t) = Live(s) /\ t.handles[h] = g /\ t.handles = u.handles
      /\ \A x \in Live(s) \ {h} : t.handles[x] = s.handles[x]
  <2>1. t.handles = u.handles
    BY Zenon, <1>3, <1>5
  <2>2. Live(t) = Live(u)
    BY Zenon, <2>1 DEF Live
  <2> QED
    BY Zenon, <1>6, <2>1, <2>2 DEF Rewritten
<1>8. LiveOps(t) = LiveOps(s) /\ \A x : OpsOf(t, x) = OpsOf(s, x)
  BY Zenon, <1>3 DEF LiveOps, OpsOf
<1>9. Shaped(t)
  BY Zenon, <1>3, <1>7, <1>8 DEF Shaped, Reweighed
<1>10. /\ t.queued \in Seq(Completions) /\ DOMAIN t.queued = DOMAIN s.queued
       /\ \A i \in DOMAIN s.queued : SameMessage(t.queued[i], s.queued[i])
       /\ \A i \in DOMAIN s.queued \ Tied(s, h) : t.queued[i] = s.queued[i]
       /\ \A i \in Tied(s, h) : t.queued[i].referenced <=> ~s.handles[h].referenced
  <2>1. (~s.handles[h].referenced) \in BOOLEAN
    OBVIOUS
  <2>2. IsRelabel(s, h, ~s.handles[h].referenced, t.queued)
    BY Zenon, <1>2, <1>3, <2>1, Relabelled
  <2> QED
    BY Zenon, <2>2 DEF IsRelabel
<1>11. \A i \in Tied(s, h) : s.queued[i].referenced <=> s.handles[h].referenced
  <2>1. h # None
    BY <1>1, NoneAssumption
  <2> QED
    BY Zenon, <1>2, <2>1 DEF Carried, Tied
<1>12. Swapped(s, h, t)
  BY Zenon, <1>2, <1>3, <1>4, <1>7, <1>8, <1>10, <1>11 DEF Swapped
<1>13. Ledger(t)
  BY Zenon, <1>3, <1>9, <1>12, SwappedLedger
<1> QED
  BY Zenon, <1>3, <1>7, <1>9, <1>13, SameOpsOthers

---------------------------------------------------------------------------
\* Events of the backend

\* attach_reserved(), up to the call of attach.
LEMMA SpendLedger ==
  ASSUME Counting, NEW s, Shaped(s), Ledger(s), NEW o \in LiveOps(s), NEW t, t = Spend(s, o)
  PROVE  Shaped(t) /\ Ledger(t) /\ SameKinds(s, t) /\ SameRest(s, t)
<1>1. IsDriver(s) /\ s.deadlines \subseteq LiveOps(s)
  BY DEF Shaped
<1>2. CASE s.ops[o].multishot
  <2>1. IsDriver(t) /\ t.ops = s.ops /\ t.deadlines = s.deadlines
    BY Zenon, <1>1, <1>2 DEF Spend, IsDriver, Fields
  <2>2. SameRest(s, t) /\ SameCounts(s, t)
    BY Zenon, <1>1, <1>2 DEF Spend, IsDriver, Fields, SameRest, SameCounts
  <2>3. \A x \in t.deadlines : ~s.ops[x].cancel /\ ~IsTimer(s.ops[x].kind)
    BY <1>1, <2>1, NoneAssumption DEF Ledger, Clocks, ClocksBut, TimerOp, LiveOps
  <2> QED
    BY Zenon, <1>1, <2>1, <2>2, <2>3, PoolLedger
<1>3. CASE ~s.ops[o].multishot
  <2> DEFINE q == [s.ops[o] EXCEPT !.reserved_handles = 0]
  <2>1. s.ops[o] \in Operations
    BY Zenon, OpShape
  <2>2. /\ q \in Operations /\ q.kind = s.ops[o].kind /\ q.handle = s.ops[o].handle
        /\ q.cancel = s.ops[o].cancel /\ q.native = s.ops[o].native /\ q.port = s.ops[o].port
    <3> DEFINE p == s.ops[o]
    <3>1. p \in Operations /\ 0 \in {0, 1}
      BY <2>1
    <3> HIDE DEF p
    <3>2. /\ [p EXCEPT !.reserved_handles = 0] \in Operations
          /\ \A x \in {"kind", "handle", "cancel", "native", "port"} : [p EXCEPT !.reserved_handles = 0][x] = p[x]
      BY Zenon, <3>1 DEF Operations
    <3> QED
      BY Zenon, <3>2 DEF p
  <2>3. IsDriver(t) /\ t.deadlines = s.deadlines
    BY Zenon, <1>1, <1>3 DEF Spend, IsDriver, Fields
  <2>4. t.ops = [s.ops EXCEPT ![o] = q]
    BY Zenon, <1>1, <1>3 DEF Spend, IsDriver, Fields
  <2>5. SameRest(s, t) /\ SameCounts(s, t)
    BY Zenon, <1>1, <1>3 DEF Spend, IsDriver, Fields, SameRest, SameCounts
  <2> HIDE DEF q
  <2> QED
    BY Zenon, <2>2, <2>3, <2>4, <2>5, PromiseLedger
<1> QED
  BY <1>2, <1>3

\* ... and after it.
LEMMA RefillLedger ==
  ASSUME Counting, NEW s, Shaped(s), Ledger(s), NEW o \in LiveOps(s), NEW t, t = Refill(s, o)
  PROVE  Shaped(t) /\ Ledger(t) /\ SameKinds(s, t) /\ SameRest(s, t)
<1>1. IsDriver(s) /\ s.deadlines \subseteq LiveOps(s)
  BY DEF Shaped
<1>2. IsDriver(t) /\ t.ops = s.ops /\ t.deadlines = s.deadlines
  BY Zenon, <1>1 DEF Refill, IsDriver, Fields
<1>3. SameRest(s, t) /\ SameCounts(s, t)
  BY Zenon, <1>1 DEF Refill, IsDriver, Fields, SameRest, SameCounts
<1>4. \A x \in t.deadlines : ~s.ops[x].cancel /\ ~IsTimer(s.ops[x].kind)
  BY <1>1, <1>2, NoneAssumption DEF Ledger, Clocks, ClocksBut, TimerOp, LiveOps
<1> QED
  BY Zenon, <1>1, <1>2, <1>3, <1>4, PoolLedger

\* A connection is given a handle, the pool is refilled.
LEMMA AttachLedger ==
  ASSUME Counting, NEW s, Shaped(s), Ledger(s), NEW o \in LiveOps(s), NEW u, u = Spend(s, o),
         NEW h \in Handles \ Live(u), NEW v, v = NewHandle(u, h, "Socket"), NEW t, t = Refill(v, o)
  PROVE  Shaped(t) /\ Ledger(t) /\ SameKinds(s, t) /\ t.buffered = s.buffered
<1>1. Shaped(u) /\ Ledger(u) /\ SameKinds(s, u) /\ SameRest(s, u)
  BY Zenon, SpendLedger
<1>2. Shaped(v) /\ Ledger(v) /\ SameOpsAndQueue(u, v)
  <2>1. "Socket" \in {"Socket", "File", "Timer"}
    OBVIOUS
  <2> QED
    BY Zenon, <1>1, <2>1, NewHandleLedger
<1>3. LiveOps(v) = LiveOps(u) /\ v.ops = u.ops /\ v.buffered = u.buffered
  BY Zenon, <1>2, SameOpsOf DEF SameOpsAndQueue
<1>4. o \in LiveOps(v)
  BY Zenon, <1>1, <1>3 DEF SameKinds
<1>5. Shaped(t) /\ Ledger(t) /\ SameKinds(v, t) /\ SameRest(v, t)
  BY Zenon, <1>2, <1>4, RefillLedger
<1>6. SameKinds(s, t)
  <2>1. SameKinds(s, v)
    BY Zenon, <1>1, <1>3 DEF SameKinds
  <2> QED
    BY Zenon, <1>5, <2>1 DEF SameKinds
<1>7. t.buffered = s.buffered
  BY Zenon, <1>1, <1>3, <1>5 DEF SameRest
<1> QED
  BY Zenon, <1>5, <1>6, <1>7

\* ... or attach fails.
LEMMA UnattachedLedger ==
  ASSUME Counting, NEW s, Shaped(s), Ledger(s), NEW o \in LiveOps(s), NEW u, u = Spend(s, o), NEW t, t = Refill(u, o)
  PROVE  Shaped(t) /\ Ledger(t) /\ SameKinds(s, t) /\ t.buffered = s.buffered
<1>1. Shaped(u) /\ Ledger(u) /\ SameKinds(s, u) /\ SameRest(s, u)
  BY Zenon, SpendLedger
<1>2. o \in LiveOps(u)
  BY Zenon, <1>1 DEF SameKinds
<1>3. Shaped(t) /\ Ledger(t) /\ SameKinds(u, t) /\ SameRest(u, t)
  BY Zenon, <1>1, <1>2, RefillLedger
<1>4. SameKinds(s, t)
  BY Zenon, <1>1, <1>3 DEF SameKinds
<1>5. t.buffered = s.buffered
  BY Zenon, <1>1, <1>3 DEF SameRest
<1> QED
  BY Zenon, <1>3, <1>4, <1>5

---------------------------------------------------------------------------
\* Posts, delivery, and the driver at rest

\* poll_posts() queues a completion that names nothing.
LEMMA PostLedger ==
  ASSUME Counting, NEW s, Shaped(s), Ledger(s), NEW e, e = Entry(None, FALSE, TRUE, "POST"), NEW t, t = Enqueue(s, e)
  PROVE  Shaped(t) /\ Ledger(t) /\ SameTables(s, t) /\ Queues(s, e, t)
<1>1. /\ e.handle = None /\ ~e.op /\ e.terminal /\ e.class = "POST" /\ ~e.closed /\ ~e.referenced
      /\ e \in Completions
  BY DEF Entry, Completions, Classes
<1>2. Event(e)
  <2>1. "POST" \in Classes
    BY DEF Classes
  <2> QED
    BY Zenon, <1>1, <2>1 DEF Event
<1> QED
  BY Zenon, <1>1, <1>2, EventLedger

\* The driver as new() and rebuild() leave it.
LEMMA InitLedger ==
  ASSUME Counting, NEW s, s = InitDriver
  PROVE  Shaped(s) /\ Ledger(s) /\ Others(s) = {}
<1>1. /\ s.handles = [h \in Handles |-> Free] /\ s.ops = [o \in Ops |-> Free] /\ s.timers = {} /\ s.deadlines = {}
      /\ s.queued = << >> /\ s.buffered = [c \in Classes |-> 0] /\ s.refs = 0 /\ s.outstanding = 0
      /\ s.native_pending = 0 /\ s.undelivered = 0
  BY DEF InitDriver
<1>2. IsDriver(s)
  BY Zenon DEF InitDriver, IsDriver, Fields
<1>3. Live(s) = {} /\ LiveOps(s) = {} /\ \A x : OpsOf(s, x) = {}
  BY <1>1 DEF Live, LiveOps, OpsOf
<1>4. Shaped(s) /\ Others(s) = {}
  <2>1. s.handles \in [Handles -> Resources \cup {None}] /\ s.ops \in [Ops -> Operations \cup {None}]
    BY <1>1 DEF Free
  <2> QED
    BY <1>1, <1>2, <1>3, <2>1 DEF Shaped, Others
<1>5. DOMAIN s.queued = {} /\ s.queued \in Seq(Completions) /\ \A M : At(s.queued, M) = {}
  BY <1>1 DEF At
<1>6. Cardinality({}) = 0
  BY Zenon DEF Counting
<1>7. Tallies(s)
  BY <1>1, <1>3, <1>6 DEF Tallies, Natives, Ports
<1>8. Lines(s)
  <2>1. \A c \in Classes : Cardinality(At(s.queued, OfClass(c))) = 0
    BY Zenon, <1>5, <1>6
  <2>2. s.buffered \in [Classes -> Int] /\ \A c \in Classes : s.buffered[c] = 0
    BY <1>1
  <2>3. Buffers(s)
    BY Zenon, <2>1, <2>2 DEF Buffers
  <2> QED
    BY Zenon, <1>5, <2>3 DEF Lines, Named
<1>9. Owed(s)
  <2>1. Cardinality(LiveOps(s)) = 0 /\ Cardinality(At(s.queued, Results)) = 0 /\ s.outstanding = 0
    BY Zenon, <1>1, <1>3, <1>5, <1>6
  <2> QED
    BY <2>1 DEF Owed
<1>10. Weights(s)
  <2>1. Weighty(s) = {} /\ Weighing(s) = {}
    BY <1>3 DEF Weighty, Weighing
  <2> QED
    <3>1. /\ Cardinality(Weighty(s)) = 0 /\ Cardinality(Weighing(s)) = 0
          /\ Cardinality(At(s.queued, Counted)) = 0 /\ s.refs = 0
      BY Zenon, <1>1, <1>5, <1>6, <2>1
    <3>2. Refs(s)
      BY <3>1 DEF Refs
    <3> QED
      BY Zenon, <1>5, <3>2 DEF Weights, Carried
<1>11. Clocks(s) /\ HiddenBut(s, {})
  BY <1>1, <1>3 DEF Clocks, ClocksBut, HiddenBut
<1> QED
  BY Zenon, <1>4, <1>7, <1>8, <1>9, <1>10, <1>11 DEF Ledger, Sums

===============================================================================
