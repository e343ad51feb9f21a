---------------------------- MODULE DriverTheorems ----------------------------
(***************************************************************************)
(* The safety properties of Driver, proved for any number of handles and   *)
(* operations, any limits and every host.  The promises of slots           *)
(* (DriverProofs) and the ledger (DriverCalls) are preserved together: a   *)
(* refused call is undone because the promises are numbers, and rebuild()  *)
(* finds nobody owing anything because the ledger balances.                *)
(***************************************************************************)
EXTENDS DriverProofs, DriverAdmissions, DriverEndings, DriverCalls, FiniteSetTheorems

\* What the library knows of finite sets.
LEMMA FiniteFacts ==
    /\ IsFiniteSet({}) /\ Cardinality({}) = 0
    /\ \A T : IsFiniteSet(T) => Cardinality(T) \in Nat /\ (Cardinality(T) = 0 => T = {})
    /\ \A m, n \in Int : IsFiniteSet(m .. n)
    /\ \A T, U : IsFiniteSet(U) /\ T \subseteq U => IsFiniteSet(T) /\ Cardinality(T) <= Cardinality(U)
    /\ \A T, x : IsFiniteSet(T) /\ x \notin T =>
          IsFiniteSet(T \cup {x}) /\ Cardinality(T \cup {x}) = Cardinality(T) + 1
    /\ \A T, x : IsFiniteSet(T) /\ x \in T =>
          IsFiniteSet(T \ {x}) /\ Cardinality(T \ {x}) = Cardinality(T) - 1
    /\ \A T, U : IsFiniteSet(T) /\ IsFiniteSet(U) /\ T \cap U = {} =>
          IsFiniteSet(T \cup U) /\ Cardinality(T \cup U) = Cardinality(T) + Cardinality(U)
    /\ \A T, U, f : IsFiniteSet(U) /\ f \in [T -> U] /\ (\A x, y \in T : f[x] = f[y] => x = y) =>
          IsFiniteSet(T) /\ Cardinality(T) <= Cardinality(U)
    /\ \A n \in Nat : IsFiniteSet(1 .. n) /\ Cardinality(1 .. n) = n
<1>1. IsFiniteSet({}) /\ Cardinality({}) = 0
  BY Zenon, FS_EmptySet
<1>2. ASSUME NEW T, IsFiniteSet(T) PROVE Cardinality(T) \in Nat /\ (Cardinality(T) = 0 => T = {})
  BY Zenon, <1>2, FS_CardinalityType, FS_EmptySet
<1>3. ASSUME NEW m \in Int, NEW n \in Int PROVE IsFiniteSet(m .. n)
  BY Zenon, FS_Interval
<1>4. ASSUME NEW T, NEW U, IsFiniteSet(U), T \subseteq U PROVE IsFiniteSet(T) /\ Cardinality(T) <= Cardinality(U)
  BY Zenon, <1>4, FS_Subset
<1>5. ASSUME NEW T, NEW x, IsFiniteSet(T), x \notin T
      PROVE  IsFiniteSet(T \cup {x}) /\ Cardinality(T \cup {x}) = Cardinality(T) + 1
  BY Zenon, <1>5, FS_AddElement
<1>6. ASSUME NEW T, NEW x, IsFiniteSet(T), x \in T
      PROVE  IsFiniteSet(T \ {x}) /\ Cardinality(T \ {x}) = Cardinality(T) - 1
  BY Zenon, <1>6, FS_RemoveElement
<1>7. ASSUME NEW T, NEW U, IsFiniteSet(T), IsFiniteSet(U), T \cap U = {}
      PROVE  IsFiniteSet(T \cup U) /\ Cardinality(T \cup U) = Cardinality(T) + Cardinality(U)
  <2>1. /\ IsFiniteSet(T \cup U)
        /\ Cardinality(T \cup U) = Cardinality(T) + Cardinality(U) - Cardinality(T \cap U)
    BY Zenon, <1>7, FS_Union
  <2>2. Cardinality(T \cap U) = 0 /\ Cardinality(T) \in Nat /\ Cardinality(U) \in Nat
    BY Zenon, <1>1, <1>2, <1>7
  <2> QED
    BY <2>1, <2>2
<1>8. ASSUME NEW T, NEW U, NEW f, IsFiniteSet(U), f \in [T -> U], \A x, y \in T : f[x] = f[y] => x = y
      PROVE  IsFiniteSet(T) /\ Cardinality(T) <= Cardinality(U)
  <2>1. f \in Injection(T, U)
    BY Zenon, <1>8 DEF Injection, IsInjective
  <2> QED
    BY Zenon, <1>8, <2>1, FS_Injection
<1>9. ASSUME NEW n \in Nat PROVE IsFiniteSet(1 .. n) /\ Cardinality(1 .. n) = n
  <2>1. 1 \in Int /\ n \in Int
    OBVIOUS
  <2>2. IsFiniteSet(1 .. n) /\ Cardinality(1 .. n) = IF 1 > n THEN 0 ELSE n - 1 + 1
    BY Zenon, <2>1, FS_Interval
  <2> QED
    BY <2>2
<1> QED
  BY ZenonT(60), <1>1, <1>2, <1>3, <1>4, <1>5, <1>6, <1>7, <1>8, <1>9

\* That is what the promises and the ledger take for granted of them.
LEMMA CountingHolds == Counting /\ Intervals /\ SetsCount
<1>1. Counting /\ Intervals
  BY Zenon, FiniteFacts DEF Counting, Intervals, OneToOne
<1>2. SetsCount
  BY Zenon, FiniteFacts DEF SetsCount
<1> QED
  BY Zenon, <1>1, <1>2

\* The methods keep their promises.
LEMMA LawsHold ==
  ASSUME Counting
  PROVE  Laws
<1>1. AtFiniteLaw /\ CountNoneLaw /\ OneCountsLaw /\ OpsFiniteLaw
  BY Zenon, AtFinite, CountNone, OneCounts, OpsFinite DEF AtFiniteLaw, CountNoneLaw, OneCountsLaw, OpsFiniteLaw
<1>2. HandlesFiniteLaw /\ OpShapeLaw /\ EnqueueQueuesLaw /\ NumbersHoldLaw
  BY Zenon, HandlesFinite, OpShape, EnqueueQueues, NumbersHold DEF HandlesFiniteLaw, OpShapeLaw, EnqueueQueuesLaw, NumbersHoldLaw
<1>3. FinishIsLaw /\ AddHandlesLaw /\ PoolLaw /\ NativeLaw
  BY Zenon, FinishIs, AddHandlesLedger, PoolLedger, NativeLedger DEF FinishIsLaw, AddHandlesLaw, PoolLaw, NativeLaw
<1>4. IssuedKeptLaw /\ NewOpIssuedLaw /\ SubmitLaw /\ DeadlineLaw
  BY Zenon, IssuedKept, NewOpIssued, SubmitLedger, DeadlineLedger DEF IssuedKeptLaw, NewOpIssuedLaw, SubmitLaw, DeadlineLaw
<1>5. JobLaw /\ FsOnReadyLaw /\ FileKindsLaw /\ SameOpRoomLaw
  BY Zenon, JobLedger, FsOnReady, FileKinds, SameOpRoom DEF JobLaw, FsOnReadyLaw, FileKindsLaw, SameOpRoomLaw
<1>6. FsOpenLaw /\ SpawnLaw /\ ResetLaw /\ OthersSameLaw
  BY Zenon, FsOpenLedger, SpawnLedger, ResetLedger, OthersSame DEF FsOpenLaw, SpawnLaw, ResetLaw, OthersSameLaw
<1>7. CancelTimerLaw /\ CancelInnerLaw /\ CloseLaw /\ RemoveLosesLaw
  BY Zenon, CancelTimerLedger, CancelInnerLedger, CloseLedger, RemoveLoses DEF CancelTimerLaw, CancelInnerLaw, CloseLaw, RemoveLosesLaw
<1>8. FlipIsLaw /\ FlipLaw /\ ExpireLaw /\ NotHiddenLaw
  BY Zenon, FlipIs, FlipLedger, ExpireLedger, NotHidden DEF FlipIsLaw, FlipLaw, ExpireLaw, NotHiddenLaw
<1>9. FinishMoreLaw /\ SpendLaw /\ DriverEqualLaw /\ EnqueueDriverLaw
  BY Zenon, FinishMoreLedger, SpendLedger, DriverEqual, EnqueueDriver DEF FinishMoreLaw, SpendLaw, DriverEqualLaw, EnqueueDriverLaw
<1>10. NamelessEndsLaw /\ FinishEndsLaw /\ FinishFsLaw /\ PostLaw
  BY Zenon, NamelessEnds, FinishEnds, FinishFsLedger, PostLedger DEF NamelessEndsLaw, FinishEndsLaw, FinishFsLaw, PostLaw
<1>11. DrainLaw /\ InitLaw
  BY Zenon, DrainLedger, InitLedger DEF DrainLaw, InitLaw
<1>12. NewHandleLaw
  BY NewHandleLedger DEF NewHandleLaw
<1>13. HiddenLaw
  <2>1. ASSUME NEW s, NEW h, NEW kind, NEW t
        PROVE  /\ Shaped(s) /\ Ledger(s) /\ h \in Handles \ Live(s) /\ kind \in {"Socket", "File"}
               /\ t = Hide(NewHandle(s, h, kind), h)
               => /\ Shaped(t) /\ Sums(t) /\ Clocks(t) /\ HiddenBut(t, {h}) /\ SameOpsAndQueue(s, t) /\ t.timers = s.timers
                  /\ HandlesAdded(s, t, {h}, [Resource(kind) EXCEPT !.hidden = TRUE])
    BY Zenon, HiddenLedger
  <2> QED
    BY Zenon, <2>1 DEF HiddenLaw
<1>14. OpenSubmitLaw
  BY OpenSubmitLedger DEF OpenSubmitLaw
<1>15. TimerLaw
  BY TimerLedger DEF TimerLaw
<1>16. DetachLaw
  BY DetachLedger DEF DetachLaw, LetGo, Untimed, SameBusy
<1>17. AttachLaw
  BY AttachLedger DEF AttachLaw, Attached
<1>18. UnattachedLaw
  BY Zenon, UnattachedLedger DEF UnattachedLaw, Attached
<1>19. UnopenedFinishLaw
  <2>1. ASSUME NEW s, NEW o, NEW h, NEW e, NEW w
        PROVE  /\ Shaped(s) /\ Ledger(s) /\ o \in LiveOps(s) /\ h \in Live(s) /\ Awaits(s, o, h) /\ e = Nameless(s, o)
               /\ w = Retire(Enqueue(s, e), o)
               => FinishFs(s, o, FALSE) = RemoveHandle(w, h)
    <3> HAVE /\ Shaped(s) /\ Ledger(s) /\ o \in LiveOps(s) /\ h \in Live(s) /\ Awaits(s, o, h) /\ e = Nameless(s, o)
             /\ w = Retire(Enqueue(s, e), o)
    <3> QED
      BY Zenon, UnopenedFinish
  <2> QED
    BY Zenon, <2>1 DEF UnopenedFinishLaw
<1> QED
  BY Zenon, <1>1, <1>2, <1>3, <1>4, <1>5, <1>6, <1>7, <1>8, <1>9, <1>10, <1>11, <1>12, <1>13, <1>14, <1>15, <1>16, <1>17, <1>18, <1>19 DEF Laws

---------------------------------------------------------------------------
\* The inductive invariant: the ledger balances and the promises are kept.
AllInv == LedgerInv /\ DriverInv

\* The books are in order when the driver is new.
LEMMA AllInit ==
  ASSUME Init
  PROVE  AllInv
  BY Zenon, CountingHolds, LawsHold, LedgerInit, InitInv DEF AllInv

\* Every step of the driver and its host keeps the books in order.
LEMMA AllNext ==
  ASSUME AllInv, [Next]_vars
  PROVE  AllInv'
<1>1. LedgerInv /\ DriverInv /\ Counting /\ Laws /\ SetsCount
  BY Zenon, CountingHolds, LawsHold DEF AllInv
<1>2. Pledged(d)
  BY <1>1, SoundPledges DEF DriverInv, Pledged
<1>3. LedgerInv'
  BY Zenon, <1>1, <1>2, UndoLawsHold, LedgerNext
<1>4. DriverInv'
  <2>1. CASE Rebuild
    BY Zenon, <1>1, <2>1, NothingOwed, RebuildInv DEF Rebuild
  <2>2. CASE ~Rebuild
    BY Zenon, <1>1, <2>2, NextInv
  <2> QED
    BY Zenon, <2>1, <2>2
<1> QED
  BY Zenon, <1>3, <1>4 DEF AllInv

\* The books are always in order.
LEMMA AllHolds == Spec => []AllInv
<1>1. Init => AllInv
  BY Zenon, AllInit
<1>2. AllInv /\ [Next]_vars => AllInv'
  BY Zenon, AllNext
<1> QED
  BY <1>1, <1>2, PTL DEF Spec

---------------------------------------------------------------------------
\* The theorems

\* Slots promised to armed accepts stay free, the promises are exactly those of
\* the armed accepts (assert_reservations), and attach_reserved never finds the
\* handle table full.
THEOREM AcceptsAreSafe == Spec => [](ReservedIsFree /\ AcceptIsHoused)
<1>1. AllInv => ReservedIsFree /\ AcceptIsHoused
  BY Zenon, AcceptsFollow DEF AllInv
<1> QED
  BY <1>1, AllHolds, PTL

\* Every field of the driver has its type, no counter is ever negative, and
\* outstanding, undelivered and the buffered events stay within the limits that
\* were configured.
THEOREM DriverTypes == Spec => []TypeOK
<1>1. AllInv => TypeOK
  <2> SUFFICES ASSUME AllInv PROVE TypeOK
    OBVIOUS
  <2>1. LedgerInv /\ Sound(d) /\ accepts \in Nat
    BY Zenon DEF AllInv, DriverInv
  <2> QED
    BY Zenon, <2>1, CountingHolds, LawsHold, SoundPledges, LedgerTypes
<1> QED
  BY <1>1, AllHolds, PTL

\* The completion queue never outgrows completion_capacity, which enqueue()
\* asserts: the results are bounded by the operations, the Closed by the handles,
\* the buffered events by their reserves.
THEOREM CompletionsFit == Spec => []QueueFits
<1>1. AllInv => QueueFits
  BY Zenon, CountingHolds, LawsHold, LedgerFits DEF AllInv
<1> QED
  BY <1>1, AllHolds, PTL

\* outstanding, refs, native_pending, undelivered and the pending count of every
\* handle are exact in every state, whatever was submitted, refused, cancelled,
\* closed, detached, unreferenced or drained before.
THEOREM CountsAreExact == Spec => []BooksAreExact
<1>1. AllInv => BooksAreExact
  BY Zenon, LedgerBalances DEF AllInv, BooksAreExact
<1> QED
  BY <1>1, AllHolds, PTL

\* Every operation has exactly one party that will end it: its armed timer, the
\* backend, a worker or service, or a result in the ring.
THEOREM OperationsAreOwned == Spec => []EveryOpHasOwner
<1>1. AllInv => EveryOpHasOwner
  BY Zenon, LedgerOwns DEF AllInv
<1> QED
  BY <1>1, AllHolds, PTL

\* Closed is the last completion of its handle, and no completion names a handle
\* that is gone.
THEOREM ClosedComesLast == Spec => []ClosedIsLast
<1>1. AllInv => ClosedIsLast
  BY Zenon, LedgerOrders DEF AllInv
<1> QED
  BY <1>1, AllHolds, PTL

\* The timer queue and the deadlines of connects name only what can still fire:
\* no timer and no deadline outlives its operation.
THEOREM DeadlinesFire == Spec => []DeadlinesAreLive
<1>1. AllInv => DeadlinesAreLive
  BY Zenon, LedgerOrders DEF AllInv
<1> QED
  BY <1>1, AllHolds, PTL

\* A submission that is refused after its slots were taken leaves the driver as
\* it was, but for promises that moved within the multishot pool.
THEOREM RefusalsAreUndone == Spec => RefusalLeavesNoTrace
<1>1. AllInv /\ [Next]_vars => [Refusal => Unpooled(d') = Unpooled(d)]_vars
  <2> SUFFICES ASSUME AllInv, Refusal PROVE Unpooled(d') = Unpooled(d)
    BY Zenon
  <2>1. Shaped(d) /\ Ledger(d) /\ IsDriver(d) /\ Sound(d) /\ Counting /\ SetsCount /\ Laws
    BY Zenon, CountingHolds, LawsHold, BooksAre DEF AllInv, DriverInv, Shaped
  <2>2. Pledged(d)
    BY <2>1, SoundPledges DEF Pledged
  <2>3. SameButPool(d, d')
    BY Zenon, <2>1, <2>2, UndoLawsHold, RefusalUndone
  <2> QED
    BY Zenon, <2>1, <2>3, PoolUnseen
<1> QED
  BY <1>1, AllHolds, PTL DEF Spec, RefusalLeavesNoTrace

===============================================================================
