---------------------------- MODULE QueueProofs -----------------------------
(***************************************************************************)
(* Safety of the slot queue and of the port on it for any number of        *)
(* producers, any capacity, any supply of values and any credit limit that *)
(* fits the ring.                                                          *)
(***************************************************************************)
EXTENDS Queue, FiniteSetTheorems, FunctionTheorems, TLAPS

\* Slots whose occupancy has been counted and not yet uncounted.
Counted ==
    {s \in Slot : \/ state[s] = FULL
                  \/ \E p \in Producers : ppc[p] \in {"write", "publish"} /\ PSlot(p) = s
                  \/ cpc \in {"read", "count"} /\ CSlot = s}

\* Slots whose value is owed to the consumer.
Owed(s) == state[s] = FULL \/ (cpc = "read" /\ s = CSlot)

\* A READING slot is the one the consumer owns.
ReadersOwn == \A s \in Slot : state[s] = READING => PopOwns /\ s = CSlot

OccupiedCounts == occupied = Cardinality(Counted)

\* A push in progress carries a value.
Carries == \A p \in Producers : ppc[p] # "idle" => pval[p] \in Values

\* What a push in progress carries.
PushArguments ==
    /\ \A p \in Producers : ppc[p] # "idle" => pval[p] \in Values \ (accepted \cup refused)
    /\ \A p, q \in Producers : p # q /\ ppc[p] # "idle" /\ ppc[q] # "idle" => pval[p] # pval[q]
    /\ \A p \in Producers : ppc[p] = "publish" => value[PSlot(p)] = pval[p]

\* What the consumer has taken out and not returned yet.
PopResult ==
    /\ cpc \in {"count", "release"} <=> cval # NoValue
    /\ cpc \in {"count", "release"} => value[CSlot] = NoValue
    /\ cval # NoValue => /\ cval \in accepted /\ popped[cval] = 0
                         /\ \A s \in Slot : Owed(s) => value[s] # cval

\* Where the accepted values are.
Places ==
    /\ \A s \in Slot : Owed(s) => value[s] \in accepted /\ popped[value[s]] = 0
    /\ \A s, t \in Slot : Owed(s) /\ Owed(t) /\ value[s] = value[t] => s = t
    /\ \A v \in accepted : popped[v] = 0 => cval = v \/ \E s \in Slot : Owed(s) /\ value[s] = v
    /\ \A v \in Values : popped[v] <= 1 /\ (v \notin accepted => popped[v] = 0)

\* The inductive invariant of the ring.
RingInv ==
    /\ TypeOK
    /\ Carries
    /\ ExclusiveSlots
    /\ ReadersOwn
    /\ OccupiedCounts

DataInv == PushArguments /\ PopResult /\ Places

---------------------------------------------------------------------------
\* A scan only looks at slots of the ring.
LEMMA AtInRing == ASSUME NEW x \in Slot, NEW y \in Slot PROVE At(x, y) \in Slot
BY CapacityAssumption, SMT DEF At, Slot

\* The slots a thread looks at or owns exist.
LEMMA CursorsInRing == TypeOK => CSlot \in Slot /\ \A p \in Producers : PSlot(p) \in Slot
BY AtInRing DEF TypeOK, CSlot, PSlot

\* The ring is finite, and so is every set of its slots.
LEMMA SlotsFinite == IsFiniteSet(Slot) /\ IsFiniteSet(Counted)
<1>1. IsFiniteSet(Slot)
  BY FS_Interval, CapacityAssumption DEF Slot
<1>2. Counted \subseteq Slot
  BY DEF Counted
<1> QED BY <1>1, <1>2, FS_Subset

\* An empty ring satisfies the invariant.
LEMMA InitRing == Init => RingInv
<1> SUFFICES ASSUME Init PROVE RingInv
  OBVIOUS
<1>0. 0 \in Slot /\ 1 \in Nat
  BY CapacityAssumption DEF Slot
<1>1. TypeOK
  BY <1>0 DEF Init, TypeOK, EMPTY, ProducerPC, ConsumerPC
<1>2. Carries /\ ExclusiveSlots /\ ReadersOwn
  BY DEF Init, Carries, ExclusiveSlots, ReadersOwn, PushOwns, PopOwns, EMPTY, READING
<1>3. Counted = {}
  BY DEF Init, Counted, EMPTY, FULL
<1>4. OccupiedCounts
  BY <1>3, FS_EmptySet DEF OccupiedCounts, Init
<1> QED BY <1>1, <1>2, <1>4 DEF RingInv

\* Every instruction of push and pop preserves the ring invariant.
LEMMA NextRing == RingInv /\ [Next]_vars => RingInv'
<1> SUFFICES ASSUME RingInv, [Next]_vars PROVE RingInv'
  OBVIOUS
<1> USE CapacityAssumption DEF RingInv, EMPTY, WRITING, FULL, READING
<1>c. CSlot \in Slot /\ \A p \in Producers : PSlot(p) \in Slot
  BY CursorsInRing
<1>f. IsFiniteSet(Slot) /\ IsFiniteSet(Counted)
  BY SlotsFinite
<1>n. 0 \in Slot /\ \A x \in Slot : (x + 1) % Capacity \in Slot
  BY SMT DEF Slot
<1>1. ASSUME NEW p \in Producers, NEW v \in Values, PushBegin(p, v) PROVE RingInv'
  <2>1. TypeOK'
    BY <1>1, <1>n DEF PushBegin, TypeOK, cvars, history, ProducerPC
  <2>2. \A q \in Producers : PushOwns(q)' => PushOwns(q) /\ PSlot(q)' = PSlot(q)
    BY <1>1 DEF PushBegin, TypeOK, PushOwns, PSlot, cvars
  <2>3. CSlot' = CSlot
    BY <1>1 DEF PushBegin, CSlot, cvars
  <2>4. ExclusiveSlots' /\ ReadersOwn'
    BY <1>1, <2>2, <2>3 DEF PushBegin, ExclusiveSlots, ReadersOwn, PopOwns, cvars
  <2>5. Counted' = Counted
    BY Zenon, <1>1, <2>2, <2>3 DEF PushBegin, Counted, cvars, TypeOK, PSlot, Slot
  <2>9. Carries'
    BY <1>1 DEF PushBegin, Carries, TypeOK
  <2> QED BY <2>9, <1>1, <2>1, <2>4, <2>5 DEF PushBegin, OccupiedCounts
<1>2. ASSUME NEW p \in Producers, PushClaim(p) PROVE RingInv'
  <2>1. TypeOK'
    BY <1>2, <1>c DEF PushClaim, TypeOK, cvars, history, ProducerPC
  <2>2. \A q \in Producers : PSlot(q)' = PSlot(q) /\ (q # p => ppc'[q] = ppc[q])
    BY <1>2 DEF PushClaim, TypeOK, PSlot
  <2>3. CSlot' = CSlot /\ cpc' = cpc
    BY <1>2 DEF PushClaim, CSlot, cvars
  <2>4. ExclusiveSlots'
    BY <1>2, <1>c, <2>2, <2>3 DEF PushClaim, ExclusiveSlots, PushOwns, PopOwns, TypeOK
  <2>5. ReadersOwn'
    BY <1>2, <1>c, <2>3 DEF PushClaim, ReadersOwn, PopOwns, TypeOK
  <2>6. Counted' = Counted
    BY <1>2, <1>c, <2>2, <2>3 DEF PushClaim, Counted, TypeOK
  <2>9. Carries'
    BY <1>2 DEF PushClaim, Carries, TypeOK
  <2> QED BY <2>9, <1>2, <2>1, <2>4, <2>5, <2>6 DEF PushClaim, OccupiedCounts
<1>3. ASSUME NEW p \in Producers, PushNext(p) PROVE RingInv'
  <2>1. TypeOK'
    BY <1>3 DEF PushNext, TypeOK, cvars, history, Slot
  <2>2. \A q \in Producers : q # p => PSlot(q)' = PSlot(q)
    BY <1>3 DEF PushNext, TypeOK, PSlot
  <2>3. CSlot' = CSlot /\ cpc' = cpc /\ ppc' = ppc /\ state' = state
    BY <1>3 DEF PushNext, CSlot, cvars
  <2>4. ExclusiveSlots' /\ ReadersOwn'
    BY <1>3, <2>2, <2>3 DEF PushNext, ExclusiveSlots, ReadersOwn, PushOwns, PopOwns
  <2>5. Counted' = Counted
    BY <1>3, <2>2, <2>3 DEF PushNext, Counted
  <2>9. Carries'
    BY <1>3 DEF PushNext, Carries, TypeOK
  <2> QED BY <2>9, <1>3, <2>1, <2>4, <2>5 DEF PushNext, OccupiedCounts
<1>4. ASSUME NEW p \in Producers, PushFull(p) PROVE RingInv'
  <2>1. TypeOK'
    <3>1. pval[p] \in Values
      BY <1>4 DEF PushFull, Carries
    <3> QED BY <1>4, <3>1 DEF PushFull, TypeOK, cvars, ProducerPC
  <2>2. \A q \in Producers : PSlot(q)' = PSlot(q) /\ (q # p => ppc'[q] = ppc[q])
    BY <1>4 DEF PushFull, TypeOK, PSlot
  <2>3. CSlot' = CSlot /\ cpc' = cpc /\ state' = state
    BY <1>4 DEF PushFull, CSlot, cvars
  <2>4. ExclusiveSlots' /\ ReadersOwn'
    BY <1>4, <2>2, <2>3 DEF PushFull, ExclusiveSlots, ReadersOwn, PushOwns, PopOwns, TypeOK
  <2>5. Counted' = Counted
    BY <1>4, <2>2, <2>3 DEF PushFull, Counted, TypeOK
  <2>9. Carries'
    BY <1>4 DEF PushFull, Carries, TypeOK
  <2> QED BY <2>9, <1>4, <2>1, <2>4, <2>5 DEF PushFull, OccupiedCounts
<1>5. ASSUME NEW p \in Producers, PushCount(p) PROVE RingInv'
  <2>1. TypeOK'
    BY <1>5 DEF PushCount, TypeOK, cvars, history, ProducerPC
  <2>2. \A q \in Producers : PSlot(q)' = PSlot(q) /\ (q # p => ppc'[q] = ppc[q])
    BY <1>5 DEF PushCount, TypeOK, PSlot
  <2>3. CSlot' = CSlot /\ cpc' = cpc /\ state' = state
    BY <1>5 DEF PushCount, CSlot, cvars
  <2>4. ExclusiveSlots' /\ ReadersOwn'
    BY <1>5, <2>2, <2>3 DEF PushCount, ExclusiveSlots, ReadersOwn, PushOwns, PopOwns, TypeOK
  <2>5. Counted' = Counted \cup {PSlot(p)}
    BY <1>5, <1>c, <2>2, <2>3 DEF PushCount, Counted, TypeOK
  <2>6. PSlot(p) \notin Counted
    BY <1>5, <1>c DEF PushCount, Counted, ExclusiveSlots, PushOwns, PopOwns
  <2>7. Cardinality(Counted') = Cardinality(Counted) + 1
    BY Zenon, <1>f, <2>5, <2>6, FS_AddElement
  <2>9. Carries'
    BY <1>5 DEF PushCount, Carries, TypeOK
  <2> QED BY <2>9, <1>5, <2>1, <2>4, <2>7 DEF PushCount, OccupiedCounts
<1>6. ASSUME NEW p \in Producers, PushWrite(p) PROVE RingInv'
  <2>1. TypeOK'
    BY <1>6, <1>c DEF PushWrite, TypeOK, cvars, history, ProducerPC
  <2>2. \A q \in Producers : PSlot(q)' = PSlot(q) /\ (q # p => ppc'[q] = ppc[q])
    BY <1>6 DEF PushWrite, TypeOK, PSlot
  <2>3. CSlot' = CSlot /\ cpc' = cpc /\ state' = state
    BY <1>6 DEF PushWrite, CSlot, cvars
  <2>4. ExclusiveSlots' /\ ReadersOwn'
    BY <1>6, <2>2, <2>3 DEF PushWrite, ExclusiveSlots, ReadersOwn, PushOwns, PopOwns, TypeOK
  <2>5. Counted' = Counted
    BY <1>6, <2>2, <2>3 DEF PushWrite, Counted, TypeOK
  <2>9. Carries'
    BY <1>6 DEF PushWrite, Carries, TypeOK
  <2> QED BY <2>9, <1>6, <2>1, <2>4, <2>5 DEF PushWrite, OccupiedCounts
<1>7. ASSUME NEW p \in Producers, PushPublish(p) PROVE RingInv'
  <2>0. pval[p] \in Values
    BY <1>7 DEF PushPublish, Carries
  <2>1. TypeOK'
    BY <1>7, <1>c, <2>0 DEF PushPublish, TypeOK, cvars, ProducerPC
  <2>2. \A q \in Producers : PSlot(q)' = PSlot(q) /\ (q # p => ppc'[q] = ppc[q])
    BY <1>7 DEF PushPublish, TypeOK, PSlot
  <2>3. CSlot' = CSlot /\ cpc' = cpc
    BY <1>7 DEF PushPublish, CSlot, cvars
  <2>4. ExclusiveSlots'
    BY <1>7, <1>c, <2>2, <2>3 DEF PushPublish, ExclusiveSlots, PushOwns, PopOwns, TypeOK
  <2>5. ReadersOwn'
    BY <1>7, <1>c, <2>3 DEF PushPublish, ReadersOwn, PopOwns, TypeOK
  <2>6. Counted' = Counted
    BY <1>7, <1>c, <2>2, <2>3 DEF PushPublish, Counted, TypeOK
  <2>9. Carries'
    BY <1>7 DEF PushPublish, Carries, TypeOK
  <2> QED BY <2>9, <1>7, <2>1, <2>4, <2>5, <2>6 DEF PushPublish, OccupiedCounts
<1>8. CASE PopEmpty
  BY <1>8 DEF PopEmpty, vars, TypeOK, Carries, ExclusiveSlots, ReadersOwn, OccupiedCounts, Counted,
              PushOwns, PopOwns, PSlot, CSlot
<1>9. CASE PopNonempty \/ PopBegin \/ PopNext \/ PopNone
  <2>1. TypeOK'
    <3>1. CASE PopNonempty \/ PopNone
      BY <3>1 DEF PopNonempty, PopNone, TypeOK, pvars, history, ConsumerPC
    <3>2. CASE PopBegin
      BY <3>2, <1>n DEF PopBegin, TypeOK, pvars, history, ConsumerPC
    <3>3. CASE PopNext
      BY <3>3 DEF PopNext, TypeOK, pvars, history, Slot
    <3> QED BY <1>9, <3>1, <3>2, <3>3
  <2>2. \A q \in Producers : PSlot(q)' = PSlot(q) /\ PushOwns(q)' = PushOwns(q)
    BY <1>9 DEF PopNonempty, PopBegin, PopNext, PopNone, PSlot, PushOwns, pvars
  <2>3. state' = state /\ occupied' = occupied /\ pval' = pval /\ ppc' = ppc
    BY <1>9 DEF PopNonempty, PopBegin, PopNext, PopNone, pvars
  <2>4. ~PopOwns /\ ~PopOwns'
    BY <1>9 DEF PopNonempty, PopBegin, PopNext, PopNone, PopOwns
  <2>5. Carries' /\ ExclusiveSlots' /\ ReadersOwn'
    BY <2>2, <2>3, <2>4 DEF Carries, ExclusiveSlots, ReadersOwn
  <2>6. Counted' = Counted
    BY <2>2, <2>3, <2>4 DEF Counted, PopOwns
  <2> QED BY <2>1, <2>3, <2>5, <2>6 DEF OccupiedCounts
<1>10. CASE PopClaim
  <2>1. TypeOK'
    BY <1>10, <1>c DEF PopClaim, TypeOK, pvars, history, ConsumerPC
  <2>2. /\ \A q \in Producers : PSlot(q)' = PSlot(q) /\ PushOwns(q)' = PushOwns(q)
        /\ CSlot' = CSlot /\ pval' = pval /\ ppc' = ppc
    BY <1>10 DEF PopClaim, PSlot, PushOwns, pvars, CSlot
  <2>3. Carries' /\ ExclusiveSlots' /\ ReadersOwn'
    BY <1>10, <1>c, <2>2 DEF PopClaim, Carries, ExclusiveSlots, ReadersOwn, PopOwns, TypeOK
  <2>4. Counted' = Counted
    BY <1>10, <1>c, <2>2 DEF PopClaim, Counted, TypeOK
  <2> QED BY <1>10, <2>1, <2>3, <2>4 DEF PopClaim, OccupiedCounts
<1>11. CASE PopRead
  <2>1. TypeOK'
    BY <1>11, <1>c DEF PopRead, TypeOK, pvars, history, ConsumerPC
  <2>2. /\ \A q \in Producers : PSlot(q)' = PSlot(q) /\ PushOwns(q)' = PushOwns(q)
        /\ CSlot' = CSlot /\ pval' = pval /\ ppc' = ppc /\ state' = state
    BY <1>11 DEF PopRead, PSlot, PushOwns, pvars, CSlot
  <2>3. Carries' /\ ExclusiveSlots' /\ ReadersOwn'
    BY <1>11, <2>2 DEF PopRead, Carries, ExclusiveSlots, ReadersOwn, PopOwns
  <2>4. Counted' = Counted
    BY <1>11, <2>2 DEF PopRead, Counted
  <2> QED BY <1>11, <2>1, <2>3, <2>4 DEF PopRead, OccupiedCounts
<1>12. CASE PopCount
  <2>1. /\ \A q \in Producers : PSlot(q)' = PSlot(q) /\ PushOwns(q)' = PushOwns(q)
        /\ CSlot' = CSlot /\ pval' = pval /\ ppc' = ppc /\ state' = state
    BY <1>12 DEF PopCount, PSlot, PushOwns, pvars, CSlot
  <2>2. CSlot \in Counted
    BY <1>12, <1>c DEF PopCount, Counted
  <2>3. Counted' = Counted \ {CSlot}
    <3>1. state[CSlot] = READING /\ \A q \in Producers : PushOwns(q) => PSlot(q) # CSlot
      BY <1>12 DEF PopCount, ExclusiveSlots, PopOwns
    <3>2. \A q \in Producers : ppc[q] \in {"write", "publish"} => PSlot(q) # CSlot
      BY <3>1 DEF PushOwns
    <3> QED BY <1>12, <2>1, <3>1, <3>2 DEF PopCount, Counted
  <2>4. Cardinality(Counted') = Cardinality(Counted) - 1 /\ Cardinality(Counted) \in Nat \ {0}
    BY Zenon, <1>f, <2>2, <2>3, FS_RemoveElement, FS_CardinalityType, FS_EmptySet
  <2>5. TypeOK'
    BY <1>12, <2>4 DEF PopCount, TypeOK, pvars, history, ConsumerPC, OccupiedCounts
  <2>6. Carries' /\ ExclusiveSlots' /\ ReadersOwn'
    BY <1>12, <2>1 DEF PopCount, Carries, ExclusiveSlots, ReadersOwn, PopOwns
  <2> QED BY <1>12, <2>4, <2>5, <2>6 DEF PopCount, OccupiedCounts
<1>13. CASE PopRelease
  <2>1. TypeOK'
    <3>1. popped' \in [Values -> Nat]
      <4>1. popped' = [v \in Values |-> IF v = cval THEN popped[cval] + 1 ELSE popped[v]]
        BY Zenon, <1>13 DEF PopRelease, TypeOK
      <4>2. \A v \in Values : popped[v] \in Nat
        BY DEF TypeOK
      <4> QED BY <4>1, <4>2
    <3> QED BY <1>13, <1>c, <3>1 DEF PopRelease, TypeOK, pvars, ConsumerPC
  <2>2. /\ \A q \in Producers : PSlot(q)' = PSlot(q) /\ PushOwns(q)' = PushOwns(q)
        /\ CSlot' = CSlot /\ pval' = pval /\ ppc' = ppc
    BY <1>13 DEF PopRelease, PSlot, PushOwns, pvars, CSlot
  <2>3. Carries' /\ ExclusiveSlots' /\ ReadersOwn'
    BY <1>13, <1>c, <2>2 DEF PopRelease, Carries, ExclusiveSlots, ReadersOwn, PopOwns, TypeOK
  <2>4. Counted' = Counted
    <3>1. state[CSlot] = READING /\ state'[CSlot] = EMPTY /\ \A s \in Slot \ {CSlot} : state'[s] = state[s]
      BY <1>13, <1>c DEF PopRelease, TypeOK, ExclusiveSlots, PopOwns
    <3> QED BY <1>13, <2>2, <3>1 DEF PopRelease, Counted
  <2> QED BY <1>13, <2>1, <2>3, <2>4 DEF PopRelease, OccupiedCounts
<1>14. CASE UNCHANGED vars
  BY <1>14 DEF vars, TypeOK, Carries, ExclusiveSlots, ReadersOwn, OccupiedCounts, Counted,
               PushOwns, PopOwns, PSlot, CSlot
<1> QED
  BY <1>1, <1>2, <1>3, <1>4, <1>5, <1>6, <1>7, <1>8, <1>9, <1>10, <1>11, <1>12, <1>13, <1>14
     DEF Next, Push, Pop, PopStep

\* Nothing is in flight in an empty ring.
LEMMA InitData == Init => DataInv
<1> SUFFICES ASSUME Init PROVE DataInv
  OBVIOUS
<1>1. PushArguments
  BY DEF Init, PushArguments
<1>2. PopResult
  BY DEF Init, PopResult
<1>3. Places
  BY DEF Init, Places, Owed, EMPTY, FULL
<1> QED BY <1>1, <1>2, <1>3 DEF DataInv

\* Every instruction of push and pop keeps each accepted value in one place.
LEMMA NextData == RingInv /\ DataInv /\ [Next]_vars => DataInv'
<1> SUFFICES ASSUME RingInv, DataInv, [Next]_vars PROVE DataInv'
  OBVIOUS
<1> USE DEF EMPTY, WRITING, FULL, READING
<1>t. TypeOK /\ Carries /\ ExclusiveSlots /\ ReadersOwn
  BY DEF RingInv
<1>d. PushArguments /\ PopResult /\ Places
  BY DEF DataInv
<1>c. CSlot \in Slot /\ \A p \in Producers : PSlot(p) \in Slot
  BY <1>t, CursorsInRing
<1>1. ASSUME NEW p \in Producers, NEW v \in Values, PushBegin(p, v) PROVE DataInv'
  <2>1. UNCHANGED <<state, value, cpc, cstart, coff, cval, accepted, refused, popped>>
    BY <1>1 DEF PushBegin, cvars, history
  <2>2. \A s \in Slot : Owed(s)' = Owed(s)
    BY <2>1 DEF Owed, CSlot
  <2>3. PopResult' /\ Places'
    BY <1>d, <2>1, <2>2 DEF PopResult, Places, CSlot
  <2>4. PushArguments'
    <3>1. /\ \A q \in Producers \ {p} : ppc'[q] = ppc[q] /\ pval'[q] = pval[q] /\ PSlot(q)' = PSlot(q)
          /\ ppc'[p] = "scan" /\ pval'[p] = v
      BY <1>1, <1>t DEF PushBegin, TypeOK, PSlot
    <3>2. v \notin accepted \cup refused /\ \A q \in Producers : ppc[q] # "idle" => pval[q] # v
      BY <1>1 DEF PushBegin, Fresh
    <3>3. \A q \in Producers : ppc'[q] # "idle" => pval'[q] \in Values \ (accepted' \cup refused')
      BY <1>d, <2>1, <3>1, <3>2 DEF PushArguments
    <3>4. \A q, r \in Producers : q # r /\ ppc'[q] # "idle" /\ ppc'[r] # "idle" => pval'[q] # pval'[r]
      BY <1>d, <3>1, <3>2 DEF PushArguments
    <3>5. \A q \in Producers : ppc'[q] = "publish" => value'[PSlot(q)'] = pval'[q]
      BY <1>d, <2>1, <3>1 DEF PushArguments
    <3> QED BY <3>3, <3>4, <3>5 DEF PushArguments
  <2> QED BY <2>3, <2>4 DEF DataInv
<1>2. ASSUME NEW p \in Producers, PushClaim(p) PROVE DataInv'
  <2>1. UNCHANGED <<value, cpc, cstart, coff, cval, accepted, refused, popped, pval, pstart, poff>>
    BY <1>2 DEF PushClaim, cvars, history
  <2>2. \A s \in Slot : Owed(s)' = Owed(s)
    BY <1>2, <1>c, <1>t, <2>1 DEF PushClaim, Owed, CSlot, TypeOK
  <2>3. PopResult' /\ Places'
    BY <1>d, <2>1, <2>2 DEF PopResult, Places, CSlot
  <2>4. \A q \in Producers : (ppc'[q] = "idle") = (ppc[q] = "idle") /\ (ppc'[q] = "publish" => ppc[q] = "publish")
    BY <1>2, <1>t DEF PushClaim, TypeOK
  <2>5. PushArguments'
    BY <1>d, <2>1, <2>4 DEF PushArguments, PSlot
  <2> QED BY <2>3, <2>5 DEF DataInv
<1>3. ASSUME NEW p \in Producers, PushNext(p) \/ PushCount(p) PROVE DataInv'
  <2>1. UNCHANGED <<state, value, cpc, cstart, coff, cval, accepted, refused, popped, pval, pstart>>
    BY <1>3 DEF PushNext, PushCount, cvars, history
  <2>2. \A s \in Slot : Owed(s)' = Owed(s)
    BY <2>1 DEF Owed, CSlot
  <2>3. PopResult' /\ Places'
    BY <1>d, <2>1, <2>2 DEF PopResult, Places, CSlot
  <2>4. \A q \in Producers : /\ (ppc'[q] = "idle") = (ppc[q] = "idle")
                             /\ ppc'[q] = "publish" => ppc[q] = "publish" /\ PSlot(q)' = PSlot(q)
    BY <1>3, <1>t, <2>1 DEF PushNext, PushCount, TypeOK, PSlot
  <2>5. PushArguments'
    BY Zenon, <1>d, <2>1, <2>4 DEF PushArguments
  <2> QED BY <2>3, <2>5 DEF DataInv
<1>4. ASSUME NEW p \in Producers, PushFull(p) PROVE DataInv'
  <2>1. UNCHANGED <<state, value, cpc, cstart, coff, cval, accepted, popped, pval, pstart, poff>>
    BY Zenon, <1>4 DEF PushFull, cvars
  <2>2. \A s \in Slot : Owed(s)' = Owed(s)
    BY <2>1 DEF Owed, CSlot
  <2>3. PopResult' /\ Places'
    BY Zenon, <1>d, <2>1, <2>2 DEF PopResult, Places, CSlot
  <2>4. /\ \A q \in Producers \ {p} : ppc'[q] = ppc[q]
        /\ ppc'[p] = "idle" /\ ppc[p] # "idle" /\ refused' = refused \cup {pval[p]}
    BY <1>4, <1>t DEF PushFull, TypeOK
  <2>5. PushArguments'
    BY Zenon, <1>d, <2>1, <2>4 DEF PushArguments, PSlot
  <2> QED BY <2>3, <2>5 DEF DataInv
<1>5. ASSUME NEW p \in Producers, PushWrite(p) PROVE DataInv'
  <2>1. UNCHANGED <<state, cpc, cstart, coff, cval, accepted, refused, popped, pval, pstart, poff>>
    BY Zenon, <1>5 DEF PushWrite, cvars, history
  <2>2. state[PSlot(p)] = WRITING /\ \A q \in Producers : q # p /\ PushOwns(q) => PSlot(q) # PSlot(p)
    BY Zenon, <1>5, <1>t DEF PushWrite, ExclusiveSlots, PushOwns
  <2>3. /\ value'[PSlot(p)] = pval[p]
        /\ \A s \in Slot \ {PSlot(p)} : value'[s] = value[s]
    BY <1>5, <1>c, <1>t DEF PushWrite, TypeOK
  <2>4. \A s \in Slot : (Owed(s)' = Owed(s)) /\ (Owed(s) => s # PSlot(p))
    BY <1>t, <2>1, <2>2 DEF Owed, CSlot, ExclusiveSlots, PopOwns
  <2>5. PopOwns => CSlot # PSlot(p)
    BY <1>t, <2>2 DEF ExclusiveSlots
  <2>6. PopResult'
    BY <1>d, <1>c, <2>1, <2>3, <2>4, <2>5 DEF PopResult, CSlot, PopOwns
  <2>7. Places'
    BY Zenon, <1>d, <2>1, <2>3, <2>4 DEF Places
  <2>8. \A q \in Producers : /\ (ppc'[q] = "idle") = (ppc[q] = "idle") /\ PSlot(q)' = PSlot(q)
                             /\ q # p => ppc'[q] = ppc[q]
    BY <1>5, <1>t, <2>1 DEF PushWrite, TypeOK, PSlot
  <2>9. \A q \in Producers : ppc'[q] = "publish" => value'[PSlot(q)] = pval[q]
    <3> TAKE q \in Producers
    <3> HAVE ppc'[q] = "publish"
    <3>1. CASE q = p
      BY <3>1, <2>3
    <3>2. CASE q # p
      BY <3>2, <1>d, <1>c, <2>2, <2>3, <2>8 DEF PushArguments, PushOwns
    <3> QED BY <3>1, <3>2
  <2>10. PushArguments'
    BY <1>d, <2>1, <2>8, <2>9 DEF PushArguments
  <2> QED BY <2>6, <2>7, <2>10 DEF DataInv
<1>6. ASSUME NEW p \in Producers, PushPublish(p) PROVE DataInv'
  <2>1. UNCHANGED <<value, cpc, cstart, coff, cval, refused, popped, pval, pstart, poff>>
    BY <1>6 DEF PushPublish, cvars
  <2>2. /\ state[PSlot(p)] = WRITING /\ value[PSlot(p)] = pval[p]
        /\ pval[p] \in Values \ (accepted \cup refused)
    BY <1>6, <1>t, <1>d DEF PushPublish, ExclusiveSlots, PushOwns, PushArguments
  <2>3. state'[PSlot(p)] = FULL /\ \A s \in Slot \ {PSlot(p)} : state'[s] = state[s]
    BY <1>6, <1>c, <1>t DEF PushPublish, TypeOK
  <2>4. accepted' = accepted \cup {pval[p]}
    BY <1>6 DEF PushPublish
  <2>5. \A s \in Slot : Owed(s)' <=> (Owed(s) \/ s = PSlot(p))
    BY <1>c, <2>1, <2>3 DEF Owed, CSlot
  <2>6. popped[pval[p]] = 0 /\ cval # pval[p] /\ \A s \in Slot : Owed(s) => value[s] # pval[p]
    BY <1>d, <2>2, NoValueAssumption DEF Places, PopResult
  <2>7. PopResult'
    <3>1. cval # NoValue => cval \in accepted' /\ popped'[cval] = 0
      BY <1>d, <2>1, <2>4 DEF PopResult
    <3>2. cval # NoValue => \A s \in Slot : Owed(s)' => value'[s] # cval
      BY <1>d, <2>1, <2>2, <2>5, <2>6 DEF PopResult
    <3> QED BY <1>d, <2>1, <3>1, <3>2 DEF PopResult, CSlot
  <2>8. Places'
    <3>1. \A s \in Slot : Owed(s)' => value'[s] \in accepted' /\ popped'[value'[s]] = 0
      BY <1>d, <2>1, <2>2, <2>4, <2>5, <2>6 DEF Places
    <3>2. \A s, t \in Slot : Owed(s)' /\ Owed(t)' /\ value'[s] = value'[t] => s = t
      BY <1>d, <2>1, <2>2, <2>5, <2>6 DEF Places
    <3>3. \A v \in accepted' : popped'[v] = 0 => cval' = v \/ \E s \in Slot : Owed(s)' /\ value'[s] = v
      BY <1>d, <1>c, <2>1, <2>2, <2>4, <2>5 DEF Places
    <3>4. \A v \in Values : popped'[v] <= 1 /\ (v \notin accepted' => popped'[v] = 0)
      BY Zenon, <1>d, <2>1, <2>4 DEF Places
    <3> QED BY <3>1, <3>2, <3>3, <3>4 DEF Places
  <2>9. /\ \A q \in Producers \ {p} : ppc'[q] = ppc[q]
        /\ ppc'[p] = "idle" /\ ppc[p] # "idle"
    BY <1>6, <1>t DEF PushPublish, TypeOK
  <2>10. PushArguments'
    BY <1>d, <2>1, <2>4, <2>9 DEF PushArguments, PSlot
  <2> QED BY <2>7, <2>8, <2>10 DEF DataInv
<1>7. CASE PopNonempty \/ PopBegin \/ PopNext \/ PopNone
  <2>1. UNCHANGED <<state, value, ppc, pval, pstart, poff, cval, accepted, refused, popped>>
    BY <1>7 DEF PopNonempty, PopBegin, PopNext, PopNone, pvars, history
  <2>2. cpc \notin {"read", "count", "release"} /\ cpc' \notin {"read", "count", "release"}
    BY <1>7 DEF PopNonempty, PopBegin, PopNext, PopNone
  <2>3. \A s \in Slot : Owed(s)' = Owed(s)
    BY <2>1, <2>2 DEF Owed
  <2>4. PopResult' /\ Places'
    BY <1>d, <2>1, <2>2, <2>3 DEF PopResult, Places
  <2>5. PushArguments'
    BY <1>d, <2>1 DEF PushArguments, PSlot
  <2> QED BY <2>4, <2>5 DEF DataInv
<1>8. CASE PopClaim
  <2>1. UNCHANGED <<value, ppc, pval, pstart, poff, cstart, coff, cval, accepted, refused, popped>>
    BY <1>8 DEF PopClaim, pvars, history
  <2>2. /\ cpc = "scan" /\ cpc' = "read" /\ state[CSlot] = FULL /\ CSlot' = CSlot
        /\ state'[CSlot] = READING /\ \A s \in Slot \ {CSlot} : state'[s] = state[s]
    BY <1>8, <1>c, <1>t DEF PopClaim, TypeOK, CSlot
  <2>3. \A s \in Slot : Owed(s)' <=> Owed(s)
    BY <2>2 DEF Owed
  <2>4. PopResult'
    BY Zenon, <1>d, <2>1, <2>2, <2>3 DEF PopResult
  <2>5. Places'
    BY Zenon, <1>d, <2>1, <2>3 DEF Places
  <2>6. PushArguments'
    BY Zenon, <1>d, <2>1 DEF PushArguments, PSlot
  <2> QED BY <2>4, <2>5, <2>6 DEF DataInv
<1>9. CASE PopRead
  <2>1. UNCHANGED <<state, ppc, pval, pstart, poff, cstart, coff, accepted, refused, popped>>
    BY <1>9 DEF PopRead, pvars, history
  <2>2. /\ cpc = "read" /\ cpc' = "count" /\ CSlot' = CSlot /\ cval' = value[CSlot]
        /\ value'[CSlot] = NoValue /\ \A s \in Slot \ {CSlot} : value'[s] = value[s]
    BY <1>9, <1>c, <1>t DEF PopRead, TypeOK, CSlot
  <2>3. state[CSlot] = READING
    BY <1>t, <2>2 DEF ExclusiveSlots, PopOwns
  <2>4. \A s \in Slot : Owed(s)' <=> Owed(s) /\ s # CSlot
    BY <2>1, <2>2, <2>3 DEF Owed
  <2>5. Owed(CSlot)
    BY <2>2 DEF Owed
  <2>6. cval' \in accepted /\ popped[cval'] = 0 /\ cval' # NoValue
    BY <1>d, <1>c, <1>t, <2>2, <2>5, NoValueAssumption DEF Places, TypeOK
  <2>7. PopResult'
    BY Zenon, <1>d, <1>c, <2>1, <2>2, <2>4, <2>5, <2>6 DEF PopResult, Places
  <2>8. Places'
    <3>1. \A s \in Slot : Owed(s)' => value'[s] \in accepted' /\ popped'[value'[s]] = 0
      BY Zenon, <1>d, <2>1, <2>2, <2>4 DEF Places
    <3>2. \A s, t \in Slot : Owed(s)' /\ Owed(t)' /\ value'[s] = value'[t] => s = t
      BY Zenon, <1>d, <2>1, <2>2, <2>4 DEF Places
    <3>3. \A v \in accepted : cval # v
      BY <1>d, <1>t, <2>2, NoValueAssumption DEF PopResult, TypeOK
    <3>4. \A v \in accepted' : popped'[v] = 0 => cval' = v \/ \E s \in Slot : Owed(s)' /\ value'[s] = v
      BY Zenon, <1>d, <2>1, <2>2, <2>4, <3>3 DEF Places
    <3> QED BY Zenon, <1>d, <2>1, <3>1, <3>2, <3>4 DEF Places
  <2>9. \A p \in Producers : ppc[p] = "publish" => PSlot(p) # CSlot
    BY <1>t, <2>3 DEF ExclusiveSlots, PushOwns
  <2>10. PushArguments'
    BY <1>d, <1>c, <2>1, <2>2, <2>9 DEF PushArguments, PSlot
  <2> QED BY <2>7, <2>8, <2>10 DEF DataInv
<1>10. CASE PopCount
  <2>1. UNCHANGED <<state, value, ppc, pval, pstart, poff, cstart, coff, cval, accepted, refused, popped>>
    BY <1>10 DEF PopCount, pvars, history
  <2>2. cpc = "count" /\ cpc' = "release" /\ CSlot' = CSlot
    BY <1>10 DEF PopCount, CSlot
  <2>3. \A s \in Slot : Owed(s)' = Owed(s)
    BY <2>1, <2>2 DEF Owed
  <2>4. PopResult' /\ Places'
    BY <1>d, <2>1, <2>2, <2>3 DEF PopResult, Places
  <2>5. PushArguments'
    BY Zenon, <1>d, <2>1 DEF PushArguments, PSlot
  <2> QED BY <2>4, <2>5 DEF DataInv
<1>11. CASE PopRelease
  <2>1. UNCHANGED <<value, ppc, pval, pstart, poff, cstart, coff, accepted, refused>>
    BY <1>11 DEF PopRelease, pvars
  <2>2. /\ cpc = "release" /\ cpc' = "idle" /\ cval' = NoValue
        /\ state'[CSlot] = EMPTY /\ \A s \in Slot \ {CSlot} : state'[s] = state[s]
    BY <1>11, <1>c, <1>t DEF PopRelease, TypeOK
  <2>3. state[CSlot] = READING
    BY <1>t, <2>2 DEF ExclusiveSlots, PopOwns
  <2>4. cval \in accepted /\ popped[cval] = 0 /\ \A s \in Slot : Owed(s) => value[s] # cval
    BY <1>d, <2>2 DEF PopResult
  <2>5. cval \in Values
    BY <2>4, <1>t DEF TypeOK
  <2>6. popped'[cval] = 1 /\ \A v \in Values \ {cval} : popped'[v] = popped[v]
    BY <1>11, <1>t, <2>4, <2>5 DEF PopRelease, TypeOK
  <2>7. \A s \in Slot : Owed(s)' <=> Owed(s)
    <3>1. cpc # "read" /\ cpc' # "read"
      BY <2>2
    <3>2. \A s \in Slot : state'[s] = FULL <=> state[s] = FULL
      BY <2>2, <2>3 DEF EMPTY, FULL, READING
    <3> QED BY <3>1, <3>2 DEF Owed
  <2>8. PopResult'
    BY <2>2 DEF PopResult
  <2>9. Places'
    <3>1. \A s \in Slot : Owed(s)' => value'[s] \in accepted' /\ popped'[value'[s]] = 0
      BY <1>d, <1>t, <2>1, <2>4, <2>6, <2>7 DEF Places, TypeOK
    <3>2. \A s, t \in Slot : Owed(s)' /\ Owed(t)' /\ value'[s] = value'[t] => s = t
      BY Zenon, <1>d, <2>1, <2>7 DEF Places
    <3>3. \A v \in accepted' : popped'[v] = 0 => cval' = v \/ \E s \in Slot : Owed(s)' /\ value'[s] = v
      <4> SUFFICES ASSUME NEW v \in accepted, popped'[v] = 0
                   PROVE  \E s \in Slot : Owed(s)' /\ value'[s] = v
        BY <2>1
      <4>1. v \in Values /\ v # cval /\ popped[v] = 0
        BY <1>t, <2>6 DEF TypeOK
      <4>2. PICK s \in Slot : Owed(s) /\ value[s] = v
        BY <1>d, <4>1 DEF Places
      <4> QED BY Zenon, <2>1, <2>7, <4>2
    <3>4. \A v \in Values : popped'[v] <= 1 /\ (v \notin accepted' => popped'[v] = 0)
      BY <1>d, <2>1, <2>4, <2>6 DEF Places
    <3> QED BY <3>1, <3>2, <3>3, <3>4 DEF Places
  <2>10. PushArguments'
    BY <1>d, <2>1 DEF PushArguments, PSlot
  <2> QED BY <2>8, <2>9, <2>10 DEF DataInv
<1>12. CASE UNCHANGED vars
  BY Zenon, <1>12, <1>d DEF vars, DataInv, PushArguments, PopResult, Places, Owed, PSlot, CSlot
<1> QED
  BY <1>1, <1>2, <1>3, <1>4, <1>5, <1>6, <1>7, <1>8, <1>9, <1>10, <1>11, <1>12
     DEF Next, Push, Pop, PopStep, PopEmpty

\* For every capacity and number of threads: a slot is written or read by at
\* most the one thread that claimed it (Queue::push and Queue::pop).
THEOREM RingSafe == Spec => []ExclusiveSlots
<1>1. RingInv => ExclusiveSlots
  BY DEF RingInv
<1> QED BY <1>1, InitRing, NextRing, PTL DEF Spec

\* For every capacity and number of threads: is_empty never hides a published
\* value, although the occupancy counter is advisory (Queue::is_empty).
THEOREM RingHonest == Spec => []EmptyIsHonest
<1>1. RingInv => EmptyIsHonest
  <2> SUFFICES ASSUME RingInv, occupied = 0 PROVE \A s \in Slot : state[s] # FULL
    BY DEF RingInv, EmptyIsHonest
  <2>1. Counted = {}
    BY Zenon, SlotsFinite, FS_EmptySet DEF RingInv, OccupiedCounts
  <2> QED BY <2>1 DEF Counted
<1> QED BY <1>1, InitRing, NextRing, PTL DEF Spec

\* For every capacity and number of threads: a value whose push returned Ok is
\* popped at most once and is in exactly one place until then, and a value
\* that was handed back is never popped (Queue::push and Queue::pop).
THEOREM RingConserves == Spec => []AcceptedOnce
<1>1. RingInv /\ DataInv => AcceptedOnce
  <2> SUFFICES ASSUME RingInv, DataInv, NEW v \in Values
               PROVE  /\ popped[v] <= 1
                      /\ v \notin accepted => popped[v] = 0 /\ cval # v /\ Holding(v) = {}
                      /\ v \in accepted /\ popped[v] = 1 => cval # v /\ Holding(v) = {}
                      /\ v \in accepted /\ popped[v] = 0 =>
                            \/ cval = v /\ Holding(v) = {}
                            \/ cval # v /\ \E s \in Slot : Holding(v) = {s}
    BY DEF AcceptedOnce
  <2>1. TypeOK /\ ReadersOwn /\ PopResult /\ Places
    BY DEF RingInv, DataInv
  <2>2. Holding(v) = {s \in Slot : Owed(s) /\ value[s] = v}
    <3>1. \A s \in Slot : Owed(s) => state[s] \in {FULL, READING}
      BY DEF Owed, RingInv, ExclusiveSlots, PopOwns
    <3>2. \A s \in Slot : state[s] = READING /\ value[s] = v => Owed(s)
      BY <2>1, NoValueAssumption DEF Owed, ReadersOwn, PopOwns, PopResult
    <3> QED BY <3>1, <3>2 DEF Holding, Owed
  <2>3. v # NoValue
    BY NoValueAssumption
  <2>4. popped[v] <= 1 /\ (v \notin accepted => popped[v] = 0)
    BY <2>1 DEF Places
  <2>5. v \notin accepted => cval # v /\ Holding(v) = {}
    BY <2>1, <2>2, <2>3 DEF PopResult, Places
  <2>6. popped[v] = 1 => cval # v /\ Holding(v) = {}
    BY <2>1, <2>2, <2>3 DEF PopResult, Places
  <2>7. ASSUME v \in accepted, popped[v] = 0, cval = v PROVE Holding(v) = {}
    BY <2>1, <2>2, <2>3, <2>7 DEF PopResult
  <2>8. ASSUME v \in accepted, popped[v] = 0, cval # v PROVE \E s \in Slot : Holding(v) = {s}
    <3>1. PICK s \in Slot : Owed(s) /\ value[s] = v
      BY <2>1, <2>8 DEF Places
    <3>2. Holding(v) = {s}
      BY <2>1, <2>2, <3>1 DEF Places
    <3> QED BY <3>2
  <2> QED BY <2>4, <2>5, <2>6, <2>7, <2>8
<1>2. Init => RingInv /\ DataInv
  BY InitRing, InitData
<1>3. RingInv /\ DataInv /\ [Next]_vars => (RingInv /\ DataInv)'
  BY NextRing, NextData
<1> QED BY <1>1, <1>2, <1>3, PTL DEF Spec

---------------------------------------------------------------------------
\* The port: every busy slot is paid for by an operation of its own

\* A WRITING slot is owned by a producer in the middle of its push.
WritersOwn == \A s \in Slot : state[s] = WRITING => \E p \in Producers : PushOwns(p) /\ PSlot(p) = s

\* Every step of push and pop keeps an owner for each slot being written.
LEMMA NextWriters == RingInv /\ WritersOwn /\ [Next]_vars => WritersOwn'
<1> SUFFICES ASSUME RingInv, WritersOwn, [Next]_vars, NEW s \in Slot, state'[s] = WRITING
             PROVE  \E p \in Producers : PushOwns(p)' /\ PSlot(p)' = s
  BY DEF WritersOwn
<1> USE DEF EMPTY, WRITING, FULL, READING
<1>t. TypeOK
  BY DEF RingInv
<1>c. CSlot \in Slot /\ \A p \in Producers : PSlot(p) \in Slot
  BY <1>t, CursorsInRing
<1>1. ASSUME NEW p \in Producers, NEW v \in Values, PushBegin(p, v)
      PROVE  \E q \in Producers : PushOwns(q)' /\ PSlot(q)' = s
  <2>1. PICK q \in Producers : PushOwns(q) /\ PSlot(q) = s
    BY <1>1 DEF PushBegin, WritersOwn
  <2>2. q # p
    BY <1>1, <2>1 DEF PushBegin, PushOwns
  <2> QED BY <1>1, <1>t, <2>1, <2>2 DEF PushBegin, PushOwns, PSlot, TypeOK
<1>2. ASSUME NEW p \in Producers, PushClaim(p)
      PROVE  \E q \in Producers : PushOwns(q)' /\ PSlot(q)' = s
  <2>1. CASE s = PSlot(p)
    <3>1. ppc'[p] = "count" /\ PSlot(p)' = PSlot(p)
      BY <1>2, <1>t DEF PushClaim, PSlot, TypeOK
    <3> QED BY <2>1, <3>1 DEF PushOwns
  <2>2. CASE s # PSlot(p)
    <3>1. state[s] = WRITING
      BY <1>2, <1>t, <1>c, <2>2 DEF PushClaim, TypeOK
    <3>2. PICK q \in Producers : PushOwns(q) /\ PSlot(q) = s
      BY <3>1 DEF WritersOwn
    <3> QED BY <1>2, <1>t, <2>2, <3>2 DEF PushClaim, PushOwns, PSlot, TypeOK
  <2> QED BY <2>1, <2>2
<1>3. ASSUME NEW p \in Producers, PushNext(p) \/ PushFull(p)
      PROVE  \E q \in Producers : PushOwns(q)' /\ PSlot(q)' = s
  <2>1. PICK q \in Producers : PushOwns(q) /\ PSlot(q) = s
    BY <1>3 DEF PushNext, PushFull, WritersOwn
  <2>2. q # p
    BY <1>3, <2>1 DEF PushNext, PushFull, PushOwns
  <2> QED BY <1>3, <1>t, <2>1, <2>2 DEF PushNext, PushFull, PushOwns, PSlot, TypeOK
<1>4. ASSUME NEW p \in Producers, PushCount(p) \/ PushWrite(p)
      PROVE  \E q \in Producers : PushOwns(q)' /\ PSlot(q)' = s
  <2>1. PICK q \in Producers : PushOwns(q) /\ PSlot(q) = s
    BY <1>4 DEF PushCount, PushWrite, WritersOwn
  <2> QED BY <1>4, <1>t, <2>1 DEF PushCount, PushWrite, PushOwns, PSlot, TypeOK
<1>5. ASSUME NEW p \in Producers, PushPublish(p)
      PROVE  \E q \in Producers : PushOwns(q)' /\ PSlot(q)' = s
  <2>1. s # PSlot(p) /\ state[s] = WRITING
    BY <1>5, <1>t, <1>c DEF PushPublish, TypeOK
  <2>2. PICK q \in Producers : PushOwns(q) /\ PSlot(q) = s
    BY <2>1 DEF WritersOwn
  <2> QED BY <1>5, <1>t, <2>1, <2>2 DEF PushPublish, PushOwns, PSlot, TypeOK
<1>6. CASE Pop \/ UNCHANGED vars
  <2>1. UNCHANGED <<ppc, pstart, poff>>
    BY Zenon, <1>6 DEF Pop, PopEmpty, PopStep, PopNonempty, PopBegin, PopClaim, PopNext, PopNone, PopRead,
       PopCount, PopRelease, vars, pvars
  <2>2. state' = state \/ \E x \in {EMPTY, READING} : state' = [state EXCEPT ![CSlot] = x]
    <3>1. CASE UNCHANGED vars \/ PopEmpty \/ PopNonempty \/ PopBegin \/ PopNext \/ PopNone \/ PopRead \/ PopCount
      BY Zenon, <3>1 DEF PopEmpty, PopNonempty, PopBegin, PopNext, PopNone, PopRead, PopCount, vars
    <3>2. CASE PopClaim
      BY Zenon, <3>2 DEF PopClaim
    <3>3. CASE PopRelease
      BY Zenon, <3>3 DEF PopRelease
    <3> QED BY Zenon, <1>6, <3>1, <3>2, <3>3 DEF Pop, PopStep
  <2>3. state[s] = WRITING
    BY <2>2, <1>t, <1>c DEF TypeOK
  <2> QED BY <2>1, <2>3 DEF WritersOwn, PushOwns, PSlot
<1> QED BY <1>1, <1>2, <1>3, <1>4, <1>5, <1>6 DEF Next, Push

\* What is being delivered, or lies in the ring, is charged.
Charges ==
    /\ undelivered \subseteq Values /\ IsFiniteSet(undelivered)
    /\ Cardinality(undelivered) <= MaxUndelivered
    /\ \A p \in Producers : ppc[p] # "idle" => pval[p] \in undelivered
    /\ \A v \in accepted : popped[v] = 0 => v \in undelivered

PortInv == RingInv /\ DataInv /\ WritersOwn /\ Charges

\* The operation that pays for a busy slot.
Payer(s) ==
    IF Owed(s) THEN value[s]
    ELSE IF state[s] = READING THEN cval
    ELSE pval[CHOOSE p \in Producers : PushOwns(p) /\ PSlot(p) = s]

Busy == {s \in Slot : state[s] # EMPTY}

\* Each busy slot has a payer, and no two have the same.
LEMMA PayersDiffer ==
  ASSUME PortInv
  PROVE  /\ \A s \in Busy : Payer(s) \in undelivered
         /\ \A s, t \in Busy : Payer(s) = Payer(t) => s = t
<1> USE DEF EMPTY, WRITING, FULL, READING
<1> DEFINE owner(s) == CHOOSE p \in Producers : PushOwns(p) /\ PSlot(p) = s
<1>1. /\ TypeOK /\ ExclusiveSlots /\ ReadersOwn /\ WritersOwn
      /\ PushArguments /\ PopResult /\ Places /\ Charges
  BY DEF PortInv, RingInv, DataInv
<1>2. \A s \in Busy : s \in Slot /\ state[s] \in {WRITING, FULL, READING}
  BY <1>1 DEF Busy, TypeOK
<1>3. ASSUME NEW s \in Busy, Owed(s)
      PROVE  Payer(s) = value[s] /\ value[s] \in accepted /\ value[s] \in undelivered /\ value[s] # cval
  BY <1>1, <1>2, <1>3, NoValueAssumption DEF Payer, Places, Charges, PopResult, TypeOK
<1>4. ASSUME NEW s \in Busy, ~Owed(s), state[s] = READING
      PROVE  Payer(s) = cval /\ s = CSlot /\ cval \in accepted /\ cval \in undelivered
  <2>1. PopOwns /\ s = CSlot
    BY <1>1, <1>2, <1>4 DEF ReadersOwn
  <2>2. cpc \in {"count", "release"}
    BY <1>4, <2>1 DEF PopOwns, Owed
  <2> QED BY Zenon, <1>1, <1>4, <2>1, <2>2 DEF Payer, PopResult, Charges
<1>5. ASSUME NEW s \in Busy, ~Owed(s), state[s] # READING
      PROVE  /\ owner(s) \in Producers /\ PushOwns(owner(s)) /\ PSlot(owner(s)) = s
             /\ Payer(s) = pval[owner(s)]
             /\ pval[owner(s)] \in undelivered /\ pval[owner(s)] \notin accepted
  <2>1. state[s] = WRITING
    BY <1>2, <1>5 DEF Owed
  <2>2. \E p \in Producers : PushOwns(p) /\ PSlot(p) = s
    BY <1>1, <1>2, <2>1 DEF WritersOwn
  <2>3. owner(s) \in Producers /\ PushOwns(owner(s)) /\ PSlot(owner(s)) = s
    BY <2>2
  <2>4. Payer(s) = pval[owner(s)]
    BY <1>5 DEF Payer
  <2> HIDE DEF owner
  <2>5. ppc[owner(s)] # "idle"
    BY <2>3 DEF PushOwns
  <2> QED BY Zenon, <1>1, <2>3, <2>4, <2>5 DEF Charges, PushArguments
<1>6. \A s \in Busy : Payer(s) \in undelivered
  BY <1>3, <1>4, <1>5
<1>7. ASSUME NEW s \in Busy, NEW t \in Busy, Payer(s) = Payer(t) PROVE s = t
  <2>1. CASE Owed(s) /\ Owed(t)
    BY <1>1, <1>2, <1>3, <1>7, <2>1 DEF Places
  <2>2. CASE ~Owed(s) /\ ~Owed(t) /\ state[s] # READING /\ state[t] # READING
    <3>1. /\ pval[owner(s)] = pval[owner(t)] /\ owner(s) \in Producers /\ owner(t) \in Producers
          /\ PushOwns(owner(s)) /\ PushOwns(owner(t)) /\ PSlot(owner(s)) = s /\ PSlot(owner(t)) = t
      BY <1>5, <1>7, <2>2
    <3> HIDE DEF owner
    <3>2. ppc[owner(s)] # "idle" /\ ppc[owner(t)] # "idle"
      BY <3>1 DEF PushOwns
    <3>3. owner(s) = owner(t)
      BY <1>1, <3>1, <3>2 DEF PushArguments
    <3> QED BY <3>1, <3>3
  <2> HIDE DEF owner
  <2> QED BY <1>3, <1>4, <1>5, <1>7, <2>1, <2>2
<1> QED BY <1>6, <1>7

\* So the ring holds no more than what is charged, and that fits.
LEMMA PortCounts == ASSUME PortInv PROVE RingWithinCredits
<1> DEFINE f == [s \in Busy |-> Payer(s)]
<1>1. f \in [Busy -> undelivered] /\ \A s, t \in Busy : f[s] = f[t] => s = t
  BY PayersDiffer
<1>2. f \in Injection(Busy, undelivered)
  BY Zenon, <1>1, Fun_IsInj
<1>3. IsFiniteSet(undelivered) /\ Cardinality(undelivered) <= MaxUndelivered
  BY DEF PortInv, Charges
<1>4. Cardinality(Busy) <= Cardinality(undelivered)
  BY Zenon, <1>2, <1>3, FS_Injection
<1>5. Cardinality(undelivered) <= Capacity
  BY <1>3, FS_CardinalityType, RingAssumption, CapacityAssumption
<1> QED BY <1>4, <1>5 DEF RingWithinCredits, Busy

\* Admission, delivery and collection keep the ring's own invariants, and the
\* credits right.
LEMMA NextPort == PortInv /\ [PortNext]_portVars => PortInv'
<1> SUFFICES ASSUME PortInv, [PortNext]_portVars PROVE PortInv'
  OBVIOUS
<1>1. [Next]_vars
  <2>1. ASSUME NEW op \in Values, Admit(op) PROVE [Next]_vars
    BY <2>1 DEF Admit
  <2>2. ASSUME NEW p \in Producers, Complete(p) \/ CompleteFull(p) PROVE Next
    <3>1. \A op \in undelivered : op \in Values
      BY DEF PortInv, Charges
    <3> QED BY Zenon, <2>2, <3>1 DEF Complete, CompleteFull, Next, Push
  <2>3. CASE Collect
    BY <2>3 DEF Collect, Next
  <2>4. CASE UNCHANGED portVars \/ ClosePort
    BY <2>4 DEF portVars, ClosePort
  <2> QED BY Zenon, <2>1, <2>2, <2>3, <2>4 DEF PortNext
<1>2. RingInv' /\ DataInv' /\ WritersOwn'
  BY <1>1, NextRing, NextData, NextWriters DEF PortInv
<1> SUFFICES Charges'
  BY <1>2 DEF PortInv
<1>t. TypeOK /\ PushArguments /\ PopResult /\ Charges
  BY DEF PortInv, RingInv, DataInv
<1>3. ASSUME NEW op \in Values, Admit(op) PROVE Charges'
  <2>1. /\ undelivered' = undelivered \cup {op} /\ Cardinality(undelivered) < MaxUndelivered
        /\ UNCHANGED <<ppc, pval, accepted, popped>>
    BY <1>3 DEF Admit, vars
  <2>2. IsFiniteSet(undelivered') /\ Cardinality(undelivered') <= Cardinality(undelivered) + 1
    <3>1. IsFiniteSet(undelivered) /\ Cardinality(undelivered) \in Nat
      BY <1>t, FS_CardinalityType DEF Charges
    <3>2. /\ IsFiniteSet(undelivered')
          /\ \/ Cardinality(undelivered') = Cardinality(undelivered)
             \/ Cardinality(undelivered') = Cardinality(undelivered) + 1
      BY Zenon, <2>1, <3>1, FS_AddElement
    <3> QED BY <3>1, <3>2
  <2>3. Cardinality(undelivered) \in Nat /\ Cardinality(undelivered') \in Nat
    BY <1>t, <2>2, FS_CardinalityType DEF Charges
  <2>4. Cardinality(undelivered') <= MaxUndelivered
    BY <2>1, <2>2, <2>3, RingAssumption, CapacityAssumption
  <2> QED BY <1>t, <2>1, <2>2, <2>4 DEF Charges
<1>4. ASSUME NEW p \in Producers, Complete(p) \/ CompleteFull(p) PROVE Charges'
  <2>1. undelivered' = undelivered /\ popped' = popped
    BY Zenon, <1>4 DEF Complete, CompleteFull, credits, PushBegin, PushClaim, PushNext, PushFull, PushCount, PushWrite,
       PushPublish, history
  <2>2. \A q \in Producers : ppc'[q] # "idle" => pval'[q] \in undelivered
    <3>1. ASSUME NEW op \in undelivered, PushBegin(p, op) PROVE \A q \in Producers : ppc'[q] # "idle" => pval'[q] \in undelivered
      BY <1>t, <3>1 DEF PushBegin, Charges, TypeOK
    <3>2. CASE PushClaim(p) \/ PushNext(p) \/ PushFull(p) \/ PushCount(p) \/ PushWrite(p) \/ PushPublish(p)
      <4>1. pval' = pval /\ \A q \in Producers : ppc'[q] # "idle" => ppc[q] # "idle"
        BY Zenon, <1>t, <3>2 DEF PushClaim, PushNext, PushFull, PushCount, PushWrite, PushPublish, TypeOK
      <4> QED BY <1>t, <4>1 DEF Charges
    <3> QED BY Zenon, <1>4, <3>1, <3>2 DEF Complete, CompleteFull
  <2>3. \A v \in accepted' : v \in accepted \/ v \in undelivered
    <3>1. CASE PushPublish(p)
      BY Zenon, <1>t, <3>1 DEF PushPublish, Charges
    <3>2. CASE ~PushPublish(p)
      BY Zenon, <1>4, <3>2 DEF Complete, CompleteFull, PushBegin, PushClaim, PushNext, PushFull, PushCount, PushWrite, history
    <3> QED BY <3>1, <3>2
  <2> QED BY <1>t, <2>1, <2>2, <2>3 DEF Charges
<1>5. CASE Collect
  <2>1. UNCHANGED <<ppc, pval, accepted>>
    BY Zenon, <1>5 DEF Collect, Pop, PopEmpty, PopStep, PopNonempty, PopBegin, PopClaim, PopNext, PopNone, PopRead,
       PopCount, PopRelease, vars, pvars, history
  <2>2. CASE cpc = "release"
    <3>1. PopRelease /\ undelivered' = undelivered \ {cval}
      BY <1>5, <2>2 DEF Collect, Pop, PopEmpty, PopStep, PopNonempty, PopBegin, PopClaim, PopNext, PopNone, PopRead,
         PopCount
    <3>2. cval \in accepted /\ popped[cval] = 0
      BY <1>t, <2>2 DEF PopResult
    <3>3. cval \in Values /\ accepted \subseteq Values
      BY <1>t, <3>2 DEF TypeOK
    <3>4. popped'[cval] # 0 /\ \A v \in Values \ {cval} : popped'[v] = popped[v]
      BY <1>t, <3>1, <3>2, <3>3 DEF PopRelease, TypeOK
    <3>5. \A v \in accepted' : popped'[v] = 0 => v \in undelivered'
      BY <1>t, <2>1, <3>1, <3>3, <3>4 DEF Charges
    <3>6. \A p \in Producers : ppc'[p] # "idle" => pval'[p] \in undelivered'
      BY <1>t, <2>1, <3>1, <3>2 DEF Charges, PushArguments
    <3>7. /\ IsFiniteSet(undelivered') /\ Cardinality(undelivered') <= Cardinality(undelivered)
          /\ Cardinality(undelivered) \in Nat /\ Cardinality(undelivered') \in Nat
      <4>1. undelivered' \subseteq undelivered /\ IsFiniteSet(undelivered)
        BY <1>t, <3>1 DEF Charges
      <4> QED BY Zenon, <4>1, FS_Subset, FS_CardinalityType
    <3>8. Cardinality(undelivered') <= MaxUndelivered
      BY <1>t, <3>7, RingAssumption, CapacityAssumption DEF Charges
    <3> QED BY Zenon, <1>t, <3>1, <3>5, <3>6, <3>7, <3>8 DEF Charges
  <2>3. CASE cpc # "release"
    <3>1. undelivered' = undelivered /\ popped' = popped
      BY <1>5, <2>3 DEF Collect, Pop, PopEmpty, PopStep, PopNonempty, PopBegin, PopClaim, PopNext, PopNone, PopRead,
         PopCount, PopRelease, vars, history
    <3> QED BY Zenon, <1>t, <2>1, <3>1 DEF Charges
  <2> QED BY <2>2, <2>3
<1>6. CASE UNCHANGED portVars \/ ClosePort
  BY Zenon, <1>t, <1>6 DEF portVars, credits, ClosePort, vars, Charges
<1> QED BY Zenon, <1>3, <1>4, <1>5, <1>6 DEF PortNext

\* A new port owes nothing.
LEMMA InitPort == PortInit => PortInv
<1> SUFFICES ASSUME PortInit PROVE WritersOwn /\ Charges
  BY InitRing, InitData DEF PortInit, PortInv
<1>1. WritersOwn
  BY DEF PortInit, Init, WritersOwn, EMPTY, WRITING
<1>2. IsFiniteSet({}) /\ Cardinality({}) = 0
  BY FS_EmptySet
<1>3. 0 <= MaxUndelivered
  BY RingAssumption, CapacityAssumption
<1> QED BY <1>1, <1>2, <1>3 DEF PortInit, Init, Charges

\* For every limit that fits the ring: "the ring's occupancy can never exceed"
\* the operations charged by admit_port and not retired, at every instruction of
\* racing deliveries and of the loop's pop.
THEOREM PortSafe == PortSpec => []RingWithinCredits
  BY InitPort, NextPort, PortCounts, PTL DEF PortSpec

\* The same of the suite that TLC explores, in which a ring without credits runs
\* beside the port.
THEOREM PortSuiteSafe == Suite => []PortWithinCredits
<1> DEFINE SInv == part = "port" => PortInv
<1>1. SuiteInit => SInv
  BY InitPort DEF SuiteInit
<1>2. SInv /\ [SuiteNext]_<<portVars, part>> => SInv'
  <2> SUFFICES ASSUME SInv, [SuiteNext]_<<portVars, part>>, part' = "port" PROVE PortInv'
    OBVIOUS
  <2>1. part = "port" /\ [PortNext]_portVars
    BY DEF SuiteNext
  <2> QED BY <2>1, NextPort
<1>3. SInv => PortWithinCredits
  BY PortCounts DEF PortWithinCredits
<1> QED BY <1>1, <1>2, <1>3, PTL DEF Suite
=============================================================================
