--------------------------- MODULE NotifierProofs ---------------------------
(***************************************************************************)
(* The parking handshake loses no wake and coalesces wakes, and no post is *)
(* lost or handed out twice, for every set of producers and posts and      *)
(* every capacity, whether or not the wake system call may fail.           *)
(***************************************************************************)
EXTENDS Notifier, FiniteSetTheorems, TLAPS

Announcing == \E p \in Producers : pc[p] = "notify"
Waking == \E p \in Producers : pc[p] \in {"wake", "unset"}

\* Where the loop thread's program counter leaves the state word.
BitsByPhase ==
    /\ lpc \in {"look", "park"} => PARKED \notin bits
    /\ lpc \in {"blocked", "notify", "wake", "outside"} => PARKED \in bits
    /\ CLOSED \in bits => lpc = "gone"

\* A post that the loop has not seen has been announced or is about to be, and
\* one that it holds back is announced or keeps the loop from parking.
Unseen ==
    ~reported =>
        /\ lpc = "park" => queued = << >>
        /\ lpc = "park" /\ NOTIFIED \notin bits /\ mailbox # {} => Announcing
        /\ lpc = "swap" /\ queued # << >> => work
        /\ lpc = "swap" /\ NOTIFIED \notin bits /\ mailbox # {} /\ ~work => Announcing
        /\ lpc \in {"blocked", "outside"} /\ ~signal /\ mailbox # {} => Announcing \/ Waking
        /\ lpc \in {"blocked", "outside"} /\ ~signal /\ queued # << >> => Waking

\* A notification of a parked loop has an owner that has yet to wake it.
Owned ==
    ~reported /\ lpc \in {"blocked", "notify", "outside"} /\ ~signal /\ NOTIFIED \in bits => Waking

\* One winner per park, and its notification stands until the park ends.
OneWinner ==
    ~reported =>
        /\ \A x, y \in winners : x = y
        /\ winners # {} /\ PARKED \in bits => NOTIFIED \in bits

ParkInv == BitsByPhase /\ Unseen /\ Owned /\ OneWinner

Words == PARKED # NOTIFIED /\ NOTIFIED # CLOSED /\ PARKED # CLOSED

LEMMA WordsDiffer == Words
  BY DEF Words, PARKED, NOTIFIED, CLOSED

---------------------------------------------------------------------------
\* A thread that is about to push holds a post.
Pushing == \A p \in Producers : pc[p] = "push" => arg[p] \in Posts
TypeInv == TypeOK /\ Pushing

\* The types of the variables hold initially.
LEMMA InitType == Init => TypeInv
<1> SUFFICES ASSUME Init PROVE TypeInv
  OBVIOUS
<1>1. queued \in Seq(Posts) /\ Len(queued) = 0
  BY DEF Init
<1>2. pc \in [Producers -> ProducerPC] /\ arg \in [Producers -> Posts \cup {Bare}]
  BY DEF Init, ProducerPC
<1>3. taken \in 0 .. EventsPerTurn /\ Len(queued) <= EventsPerTurn
  BY <1>1, EventsAssumption DEF Init
<1>4. bits = {} /\ winners = {} /\ lpc \in LoopPC
  BY DEF Init, LoopPC, RUNNING
<1>5. Pushing
  BY DEF Init, Pushing
<1> QED
  BY Zenon, <1>1, <1>2, <1>3, <1>4, <1>5 DEF Init, TypeInv, TypeOK

\* Collecting and draining keep the buffered posts a short sequence of posts.
LEMMA CollectType ==
  ASSUME TypeOK, Collect \/ Drain
  PROVE  /\ queued' \in Seq(Posts) /\ Len(queued') <= EventsPerTurn
         /\ delivered' \subseteq Posts /\ mailbox' \subseteq Posts
         /\ taken' \in 0 .. EventsPerTurn
<1>1. CASE Collect
  <2>1. PICK v \in mailbox : mailbox' = mailbox \ {v} /\ queued' = Append(queued, v)
    BY <1>1 DEF Collect
  <2>2. v \in Posts /\ queued \in Seq(Posts) /\ Len(queued) < EventsPerTurn
    BY <1>1 DEF Collect, CanCollect, TypeOK
  <2>3. queued' \in Seq(Posts) /\ Len(queued') = Len(queued) + 1
    BY <2>1, <2>2
  <2> QED
    BY <1>1, <2>1, <2>2, <2>3, EventsAssumption DEF Collect, CanCollect, TypeOK
<1>2. CASE Drain
  <2> DEFINE n == IF Len(queued) < OutCapacity THEN Len(queued) ELSE OutCapacity
  <2>1. n \in 0 .. Len(queued)
    BY OutAssumption DEF TypeOK
  <2>2. queued' = SubSeq(queued, n + 1, Len(queued))
    BY <1>2 DEF Drain
  <2>3. queued \in Seq(Posts) /\ Len(queued) <= EventsPerTurn
    BY DEF TypeOK
  <2>4. queued' \in Seq(Posts) /\ Len(queued') = Len(queued) - n
    BY <2>1, <2>2, <2>3
  <2>5. delivered' = delivered \cup {queued[i] : i \in 1 .. n}
    BY <1>2 DEF Drain
  <2>6. \A i \in 1 .. n : queued[i] \in Posts
    BY <2>1, <2>3
  <2> QED
    BY <1>2, <2>1, <2>3, <2>4, <2>5, <2>6, EventsAssumption DEF Drain, TypeOK
<1> QED
  BY <1>1, <1>2

\* begin() returns a flag.
LEMMA BeginType == ASSUME Begin PROVE notified' \in BOOLEAN
<1>1. notified' = (NOTIFIED \in bits)
  BY DEF Begin
<1>2. CASE NOTIFIED \in bits
  BY <1>1, <1>2
<1>3. CASE NOTIFIED \notin bits
  BY <1>1, <1>3
<1> QED
  BY <1>2, <1>3

\* Every step preserves the types.
LEMMA NextType == TypeInv /\ [Next]_vars => TypeInv'
<1> SUFFICES ASSUME TypeInv, [Next]_vars PROVE TypeInv'
  OBVIOUS
<1> USE DEF TypeInv, TypeOK, Pushing
<1>1. CASE UNCHANGED vars
  BY <1>1 DEF vars
<1>2. ASSUME NEW p \in Producers, Producer(p) PROVE TypeInv'
  <2>1. ASSUME NEW v \in Posts, PostClosed(p, v) \/ PostOpen(p, v) PROVE TypeInv'
    BY <2>1 DEF PostClosed, PostOpen, Goto, loopVars, ProducerPC
  <2>2. CASE Ring(p)
    BY <2>2 DEF Ring, Goto, loopVars, ProducerPC
  <2>3. CASE PostPush(p) \/ PostFull(p)
    BY <2>3 DEF PostPush, PostFull, Goto, loopVars, ProducerPC
  <2>4. CASE NotifyClosed(p) \/ NotifyWins(p) \/ NotifyCoalesces(p)
    BY <2>4 DEF NotifyClosed, NotifyWins, NotifyCoalesces, Answer, Goto, loopVars, ProducerPC
  <2>5. CASE Wake(p) \/ WakeFailure(p) \/ Unset(p)
    BY Zenon, <2>5 DEF Wake, WakeFailure, Unset, Answer, Goto, loopVars, ProducerPC
  <2> QED
    BY <1>2, <2>1, <2>2, <2>3, <2>4, <2>5 DEF Producer, PostStep
<1> USE DEF LoopGoto, Outside, AllButLpc, LoopPC
<1>3. CASE Begin
  <2>1. /\ bits' = {} /\ taken' = 0 /\ reported' = FALSE /\ lpc' = "look"
        /\ UNCHANGED <<Outside, signal, mailbox, work, queued, external, delivered>>
        /\ winners' = {}
    BY <1>3 DEF Begin, RUNNING
  <2>2. taken' \in 0 .. EventsPerTurn
    BY <2>1, EventsAssumption
  <2>3. bits' \subseteq {PARKED, NOTIFIED, CLOSED} /\ lpc' \in LoopPC
    BY <2>1
  <2>4. notified' \in BOOLEAN
    BY <1>3, BeginType
  <2> HIDE DEF LoopPC
  <2> QED
    BY Zenon, <2>1, <2>2, <2>3, <2>4
<1>4. CASE Look \/ ParkRefused \/ Interrupted \/ PollError \/ ExpireError \/ Expired \/ HostWoken
           \/ HostTurns \/ SelfWakeFailure
  BY <1>4 DEF Look, LookSkip, LookNow, LookIdle, ParkRefused, Interrupted, PollError,
     ExpireError, Expired, HostWoken, HostTurns, SelfWakeFailure
<1>5. CASE Park \/ Poll \/ Woken \/ Unpark
  BY Zenon, <1>5 DEF Park, Poll, Woken, Unpark
<1>6. CASE Collect
  BY <1>6, CollectType DEF Collect
<1>7. CASE Drain
  BY <1>7, CollectType DEF Drain
<1>8. CASE Integrate \/ Rearm \/ Swap
  BY Zenon, <1>8 DEF Integrate, Rearm, Swap
<1>9. CASE SelfNotify \/ SelfWake \/ SelfUnset
  BY Zenon, <1>9 DEF SelfNotify, SelfWake, SelfUnset
<1>10. CASE DropPoster \/ DropNotifier
  BY Zenon, <1>10 DEF DropPoster, DropNotifier, postVars
<1> QED
  BY <1>1, <1>2, <1>3, <1>4, <1>5, <1>6, <1>7, <1>8, <1>9, <1>10
  DEF Next, LoopStep, Environment
---------------------------------------------------------------------------
\* The inductive invariant of the handshake

LEMMA InitPark == Init => ParkInv
  BY WordsDiffer DEF Init, ParkInv, BitsByPhase, Unseen, Owned, OneWinner, RUNNING

\* Every step of a producer preserves it.
LEMMA ProducerPark ==
  ASSUME TypeInv, ParkInv, NEW p \in Producers, Producer(p)
  PROVE  ParkInv'
<1> USE WordsDiffer DEF ParkInv, BitsByPhase, Unseen, Owned, OneWinner, Words,
        Announcing, Waking, TypeInv, TypeOK
<1>1. ASSUME NEW v \in Posts, PostClosed(p, v) PROVE ParkInv'
  BY <1>1 DEF PostClosed, loopVars
<1>2. ASSUME NEW v \in Posts, PostOpen(p, v) PROVE ParkInv'
  BY <1>2 DEF PostOpen, Goto, loopVars, ProducerPC
<1>3. CASE Ring(p)
  BY <1>3 DEF Ring, Goto, loopVars, ProducerPC
<1>4. CASE PostPush(p)
  BY <1>4 DEF PostPush, Goto, loopVars, ProducerPC
<1>5. CASE PostFull(p)
  BY <1>5 DEF PostFull, Goto, loopVars, ProducerPC
<1>6. CASE NotifyClosed(p)
  BY <1>6 DEF NotifyClosed, Goto, loopVars, ProducerPC
<1>7. CASE NotifyWins(p)
  BY <1>7 DEF NotifyWins, Wins, Goto, loopVars, ProducerPC
<1>8. CASE NotifyCoalesces(p)
  BY <1>8 DEF NotifyCoalesces, Wins, Goto, loopVars, ProducerPC
<1>9. CASE Wake(p)
  BY <1>9 DEF Wake, Goto, loopVars, ProducerPC
<1>10. CASE WakeFailure(p)
  BY <1>10 DEF WakeFailure, Goto, loopVars, ProducerPC
<1>11. CASE Unset(p)
  BY <1>11 DEF Unset, Goto, loopVars, ProducerPC
<1> QED
  BY Zenon, <1>1, <1>2, <1>3, <1>4, <1>5, <1>6, <1>7, <1>8, <1>9, <1>10, <1>11 DEF Producer, PostStep

\* Every step of the loop thread preserves it.
LEMMA LoopPark ==
  ASSUME TypeInv, ParkInv, LoopStep \/ Environment
  PROVE  ParkInv'
<1> USE WordsDiffer DEF ParkInv, BitsByPhase, Unseen, Owned, OneWinner, Words,
        Announcing, Waking, LoopGoto, Outside, AllButLpc
<1>1. CASE Begin
  BY <1>1 DEF Begin, RUNNING
<1>2. CASE LookSkip \/ LookNow \/ LookIdle
  BY <1>2 DEF LookSkip, LookNow, LookIdle
<1>3. CASE Park
  BY <1>3 DEF Park, RUNNING
<1>4. CASE ParkRefused \/ Poll \/ Woken \/ Interrupted \/ PollError
  BY Zenon, <1>4 DEF ParkRefused, Poll, Woken, Interrupted, PollError
<1>5. CASE Unpark
  BY <1>5 DEF Unpark
<1>6. CASE Expired \/ ExpireError \/ HostWoken \/ HostTurns \/ Integrate
  BY <1>6 DEF Expired, ExpireError, HostWoken, HostTurns, Integrate
<1>7. CASE Collect
  BY <1>7 DEF Collect
<1>8. CASE Drain
  BY <1>8 DEF Drain
<1>9. CASE Rearm
  BY <1>9 DEF Rearm
<1>10. CASE Swap
  BY <1>10 DEF Swap
<1>11. CASE SelfNotify
  BY <1>11 DEF SelfNotify, Wins
<1>12. CASE SelfWake \/ SelfWakeFailure \/ SelfUnset
  BY <1>12 DEF SelfWake, SelfWakeFailure, SelfUnset
<1>13. CASE DropPoster \/ DropNotifier
  BY <1>13 DEF DropPoster, DropNotifier, postVars
<1> QED
  BY Zenon, <1>1, <1>2, <1>3, <1>4, <1>5, <1>6, <1>7, <1>8, <1>9, <1>10, <1>11, <1>12, <1>13
  DEF LoopStep, Environment, Look

LEMMA WinnersCounted == ASSUME OneWinner PROVE WakesCoalesce
<1>0. CASE reported
  BY <1>0 DEF WakesCoalesce
<1>1. CASE winners = {}
  BY <1>1, FS_EmptySet DEF WakesCoalesce
<1>2. ASSUME NEW x \in winners, ~reported PROVE WakesCoalesce
  <2>1. winners = {x}
    BY <1>2 DEF OneWinner
  <2> QED
    BY <2>1, FS_Singleton DEF WakesCoalesce
<1> QED
  BY <1>0, <1>1, <1>2

\* The types of the loop's and the producers' state hold in every reachable
\* state: in particular a turn never buffers more posts than events_per_turn.
THEOREM NotifierTypes == Spec => []TypeOK
<1>1. TypeInv => TypeOK
  BY DEF TypeInv
<1> QED
  BY <1>1, InitType, NextType, PTL DEF Spec

\* Every step keeps the invariant of the handshake.
LEMMA NextPark == TypeInv /\ ParkInv /\ [Next]_vars => ParkInv'
<1> SUFFICES ASSUME TypeInv, ParkInv, [Next]_vars PROVE ParkInv'
  OBVIOUS
<1>1. CASE UNCHANGED vars
  BY <1>1 DEF vars, ParkInv, BitsByPhase, Unseen, Owned, OneWinner, Announcing, Waking
<1> QED
  BY <1>1, ProducerPark, LoopPark DEF Next

\* notify(), park() and external_park() lose no wake until a thread has been told
\* that its wake failed.
THEOREM ParkingSafe == Spec => []NoLostWake
<1>1. ParkInv => NoLostWake
  BY DEF ParkInv, BitsByPhase, Unseen, Owned, NoLostWake, Waiting, Announcing, Waking
<1> QED
  BY <1>1, InitType, NextType, InitPark, NextPark, PTL DEF Spec

\* However many threads notify, one of them makes the wake system call per park:
\* the fetch_or of notify() coalesces the others.
THEOREM WakesAreOne == Spec => []WakesCoalesce
<1>1. ParkInv => WakesCoalesce
  BY WinnersCounted DEF ParkInv
<1> QED
  BY <1>1, InitType, NextType, InitPark, NextPark, PTL DEF Spec

---------------------------------------------------------------------------
\* Where a post is

\* The posts that the loop has taken on: in the ring, buffered or handed out.
Accepted == mailbox \cup delivered \cup {queued[i] : i \in 1 .. Len(queued)}

\* A post is accepted or handed back, never both; only accepted posts are
\* answered with Ok; a thread between its look at `closed' and its push holds a
\* post that nobody else has.
OnePlace ==
    /\ lost \cap Accepted = {}
    /\ ok \subseteq Accepted
    /\ \A p \in Producers : pc[p] = "push" => arg[p] \notin Accepted \cup lost
    /\ \A p \in Producers : pc[p] \in {"notify", "wake", "unset"} => arg[p] \in Accepted \cup {Bare}
    /\ \A p, q \in Producers : pc[p] = "push" /\ pc[q] = "push" /\ arg[p] = arg[q] => p = q

\* The ring, the buffer and the host's posts are disjoint, and the buffer holds a
\* post once.
OneCopy ==
    /\ mailbox \cap delivered = {}
    /\ \A i \in 1 .. Len(queued) : queued[i] \notin mailbox \cup delivered
    /\ \A i, j \in 1 .. Len(queued) : queued[i] = queued[j] => i = j

PostInv == OnePlace /\ OneCopy

\* A step of a producer preserves it.
LEMMA ProducerPosts ==
  ASSUME TypeInv, PostInv, NEW p \in Producers, Producer(p)
  PROVE  PostInv'
<1> USE DEF TypeInv, TypeOK, Pushing, PostInv, OnePlace, OneCopy, loopVars
<1>0. UNCHANGED <<queued, delivered>> /\ mailbox \subseteq mailbox'
  BY DEF Producer, PostStep, PostClosed, PostOpen, Ring, PostPush, PostFull, NotifyClosed, NotifyWins,
     NotifyCoalesces, Wake, WakeFailure, Unset
<1>1. ASSUME NEW v \in Posts, Fresh(v) PROVE v \notin Accepted \cup lost
  BY <1>1 DEF Fresh, Accepted
<1>2. ASSUME NEW v \in Posts, PostClosed(p, v) PROVE PostInv'
  BY <1>1, <1>2 DEF PostClosed, Accepted, Fresh
<1>3. ASSUME NEW v \in Posts, PostOpen(p, v) PROVE PostInv'
  BY <1>1, <1>3 DEF PostOpen, Accepted, Fresh, Goto, ProducerPC
<1>4. CASE Ring(p)
  BY <1>4 DEF Ring, Accepted, Goto, ProducerPC
<1>5. CASE PostPush(p)
  BY <1>5, BareAssumption DEF PostPush, Accepted, Goto, ProducerPC
<1>6. CASE PostFull(p)
  BY <1>6, BareAssumption DEF PostFull, Accepted, Goto, ProducerPC
<1>7. CASE NotifyClosed(p) \/ NotifyWins(p) \/ WakeFailure(p) \/ Unset(p)
  BY <1>7 DEF NotifyClosed, NotifyWins, WakeFailure, Unset, Accepted, Goto, ProducerPC
<1>8. CASE NotifyCoalesces(p) \/ Wake(p)
  BY <1>8, BareAssumption DEF NotifyCoalesces, Wake, Answer, Accepted, Goto, ProducerPC
<1> QED
  BY Zenon, <1>2, <1>3, <1>4, <1>5, <1>6, <1>7, <1>8 DEF Producer, PostStep

\* Collecting moves a post from the ring to the buffer.
LEMMA CollectPosts ==
  ASSUME TypeInv, PostInv, Collect
  PROVE  Accepted' = Accepted /\ OneCopy'
<1>1. PICK v \in mailbox : mailbox' = mailbox \ {v} /\ queued' = Append(queued, v)
  BY DEF Collect
<1>2. delivered' = delivered /\ queued \in Seq(Posts) /\ Len(queued) \in Nat
  BY DEF Collect, TypeInv, TypeOK
<1>3. /\ Len(queued') = Len(queued) + 1 /\ queued'[Len(queued) + 1] = v
      /\ \A i \in 1 .. Len(queued) : queued'[i] = queued[i]
  BY <1>1, <1>2
<1>4. v \notin delivered /\ \A i \in 1 .. Len(queued) : queued[i] # v
  BY <1>1 DEF PostInv, OneCopy
<1>5. Accepted' = Accepted
  BY <1>1, <1>2, <1>3 DEF Accepted
<1> QED
  BY <1>1, <1>2, <1>3, <1>4, <1>5 DEF PostInv, OneCopy

\* Draining hands the front of the buffer to the host.
LEMMA DrainPosts ==
  ASSUME TypeInv, PostInv, Drain
  PROVE  Accepted' = Accepted /\ OneCopy'
<1> DEFINE n == IF Len(queued) < OutCapacity THEN Len(queued) ELSE OutCapacity
<1>1. n \in 0 .. Len(queued) /\ Len(queued) \in Nat /\ queued \in Seq(Posts)
  BY OutAssumption DEF TypeInv, TypeOK
<1>2. /\ queued' = SubSeq(queued, n + 1, Len(queued)) /\ mailbox' = mailbox
      /\ delivered' = delivered \cup {queued[i] : i \in 1 .. n}
  BY DEF Drain
<1> HIDE DEF n
<1>3. /\ Len(queued') = Len(queued) - n
      /\ \A i \in 1 .. Len(queued') : queued'[i] = queued[i + n]
  BY <1>1, <1>2
<1>4. \A i \in 1 .. Len(queued') : i + n \in (n + 1) .. Len(queued)
  BY <1>1, <1>3
<1>5. \A k \in (n + 1) .. Len(queued) : k - n \in 1 .. Len(queued') /\ queued'[k - n] = queued[k]
  BY <1>1, <1>3
<1>6. \A k \in 1 .. Len(queued) : k \in 1 .. n \/ k \in (n + 1) .. Len(queued)
  BY <1>1
<1>7. Accepted' = Accepted
  <2>1. ASSUME NEW x \in Accepted PROVE x \in Accepted'
    <3>1. CASE x \in mailbox \cup delivered
      BY <3>1, <1>2 DEF Accepted
    <3>2. ASSUME NEW k \in 1 .. Len(queued), x = queued[k] PROVE x \in Accepted'
      <4>1. CASE k \in 1 .. n
        BY <4>1, <3>2, <1>2 DEF Accepted
      <4>2. CASE k \in (n + 1) .. Len(queued)
        <5>1. k - n \in 1 .. Len(queued') /\ x = queued'[k - n]
          BY <4>2, <3>2, <1>5
        <5> QED
          BY <5>1 DEF Accepted
      <4> QED
        BY <4>1, <4>2, <1>6
    <3> QED
      BY <2>1, <3>1, <3>2 DEF Accepted
  <2>2. ASSUME NEW x \in Accepted' PROVE x \in Accepted
    BY <2>2, <1>1, <1>2, <1>3, <1>4 DEF Accepted
  <2> QED
    BY <2>1, <2>2
<1>8. \A i \in 1 .. n, j \in (n + 1) .. Len(queued) : queued[i] # queued[j]
  BY <1>1 DEF PostInv, OneCopy
<1>9. mailbox' \cap delivered' = {}
  BY <1>1, <1>2 DEF PostInv, OneCopy
<1>10. ASSUME NEW i \in 1 .. Len(queued') PROVE queued'[i] \notin mailbox' \cup delivered'
  <2>1. i + n \in (n + 1) .. Len(queued) /\ i + n \in 1 .. Len(queued) /\ queued'[i] = queued[i + n]
    BY <1>1, <1>3, <1>4
  <2> QED
    BY <2>1, <1>2, <1>8 DEF PostInv, OneCopy
<1>11. ASSUME NEW i \in 1 .. Len(queued'), NEW j \in 1 .. Len(queued'), queued'[i] = queued'[j]
       PROVE  i = j
  BY <1>1, <1>3, <1>4, <1>11 DEF PostInv, OneCopy
<1> QED
  BY <1>7, <1>9, <1>10, <1>11 DEF OneCopy

\* No step of the loop thread touches what a producer holds, and none but
\* collecting and draining moves a post.
LEMMA LoopLeaves ==
  ASSUME LoopStep \/ Environment
  PROVE  /\ UNCHANGED <<pc, arg, ok, lost>>
         /\ Collect \/ Drain \/ UNCHANGED <<mailbox, queued, delivered>>
<1> USE DEF Outside, AllButLpc, postVars
<1>1. CASE Begin \/ Look \/ Park \/ ParkRefused
  BY Zenon, <1>1 DEF Begin, Look, LookSkip, LookNow, LookIdle, Park, ParkRefused
<1>2. CASE Poll \/ Woken \/ Unpark \/ Expired
  BY Zenon, <1>2 DEF Poll, Woken, Unpark, Expired
<1>3. CASE Collect \/ Drain
  BY <1>3 DEF Collect, Drain
<1>4. CASE Rearm \/ Swap \/ SelfNotify \/ SelfWake
  BY Zenon, <1>4 DEF Rearm, Swap, SelfNotify, SelfWake
<1>5. CASE SelfUnset \/ HostWoken \/ DropNotifier \/ Interrupted
  BY Zenon, <1>5 DEF SelfUnset, HostWoken, DropNotifier, Interrupted
<1>6. CASE PollError \/ ExpireError \/ Integrate \/ HostTurns \/ DropPoster \/ SelfWakeFailure
  BY Zenon, <1>6 DEF PollError, ExpireError, Integrate, HostTurns, DropPoster, SelfWakeFailure
<1> QED
  BY Zenon, <1>1, <1>2, <1>3, <1>4, <1>5, <1>6 DEF LoopStep, Environment

\* Every step of the loop thread preserves it.
LEMMA LoopPosts ==
  ASSUME TypeInv, PostInv, LoopStep \/ Environment
  PROVE  PostInv'
<1>1. UNCHANGED <<pc, arg, ok, lost>>
  BY LoopLeaves
<1>2. CASE Collect \/ Drain
  BY <1>1, <1>2, CollectPosts, DrainPosts DEF PostInv, OnePlace
<1>3. CASE UNCHANGED <<mailbox, queued, delivered>>
  <2>1. Accepted' = Accepted
    BY Zenon, <1>1, <1>3 DEF Accepted
  <2>2. OnePlace'
    BY Zenon, <1>1, <1>3, <2>1 DEF PostInv, OnePlace
  <2>3. OneCopy'
    BY Zenon, <1>3 DEF PostInv, OneCopy
  <2> QED
    BY Zenon, <2>2, <2>3 DEF PostInv
<1> QED
  BY <1>2, <1>3, LoopLeaves

\* Every step keeps every post in one place.
LEMMA NextPosts == TypeInv /\ PostInv /\ [Next]_vars => PostInv'
<1> SUFFICES ASSUME TypeInv, PostInv, [Next]_vars PROVE PostInv'
  OBVIOUS
<1>1. CASE UNCHANGED vars
  <2>1. UNCHANGED <<pc, arg, ok, lost, mailbox, queued, delivered>>
    BY Zenon, <1>1 DEF vars
  <2> QED
    BY <2>1 DEF PostInv, OnePlace, OneCopy, Accepted
<1> QED
  BY <1>1, ProducerPosts, LoopPosts DEF Next

\* post() hands a payload to the host at most once, or back to its caller, and
\* never both, for every number of posting threads and every ring and buffer.
THEOREM PostingSafe == Spec => []PostedOnce
<1>1. Init => PostInv
  BY DEF Init, PostInv, OnePlace, OneCopy, Accepted
<1>2. ASSUME PostInv PROVE PostedOnce
  <2>1. \A i \in 1 .. Len(queued) : queued[i] \in Accepted
    BY DEF Accepted
  <2>2. mailbox \cup delivered \subseteq Accepted
    BY DEF Accepted
  <2> QED
    BY <1>2, <2>1, <2>2 DEF PostInv, OnePlace, OneCopy, PostedOnce
<1> QED
  BY <1>1, <1>2, InitType, NextType, NextPosts, PTL DEF Spec

\* What the loop has taken on it never loses: no step of a turn, a failed wake or
\* an error drops an accepted post before the loop itself is dropped, nor after.
THEOREM AcceptedStays == Spec => [][Accepted \subseteq Accepted']_vars
<1>1. TypeInv /\ PostInv /\ [Next]_vars => [Accepted \subseteq Accepted']_vars
  <2> SUFFICES ASSUME TypeInv, PostInv, Next PROVE Accepted \subseteq Accepted'
    OBVIOUS
  <2>1. ASSUME NEW p \in Producers, Producer(p) PROVE Accepted \subseteq Accepted'
    BY Zenon, <2>1 DEF Producer, PostStep, PostClosed, PostOpen, Ring, PostPush, PostFull, NotifyClosed, NotifyWins,
       NotifyCoalesces, Wake, WakeFailure, Unset, loopVars, Accepted
  <2>2. CASE Collect \/ Drain
    BY <2>2, CollectPosts, DrainPosts
  <2>3. CASE UNCHANGED <<mailbox, queued, delivered>>
    BY <2>3 DEF Accepted
  <2> QED
    BY <2>1, <2>2, <2>3, LoopLeaves DEF Next
<1>2. Init => PostInv
  BY DEF Init, PostInv, OnePlace, OneCopy, Accepted
<1> QED
  BY <1>1, <1>2, InitType, NextType, NextPosts, PTL DEF Spec
=============================================================================
