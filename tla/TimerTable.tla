----------------------------- MODULE TimerTable -----------------------------
(***************************************************************************)
(* The two containers every operation of a loop lives in: the generational *)
(* table that names it (table.rs, in pages) and the four-ary heap with a   *)
(* position index that holds its deadline (timer/heap.rs).  Keys are pairs *)
(* <<generation, index>>; the code packs them in a u64.  The heap's arity  *)
(* and the page size are constants so that small instances have several    *)
(* levels and pages.                                                       *)
(***************************************************************************)
EXTENDS Naturals, Sequences

CONSTANTS
    Page,           \* PAGE
    Ceiling,        \* Table::ceiling
    LastGeneration, \* u32::MAX
    Arity,          \* 4
    Times           \* deadlines

VARIABLES
    pages,      \* number of pages built
    slot,       \* [gen, full] of each slot of a built page
    free,       \* free list, last is next
    live,       \* Table::live
    heap,       \* entries [id, at]; heap[1] is the root
    positions,  \* the index of each slot's entry in heap, 0 for none
    spent       \* history: keys that were removed

tableVars == <<pages, slot, free, live, heap, positions, spent>>

Indices == 0 .. Ceiling - 1
Least(a, b) == IF a < b THEN a ELSE b

\* The indices of the next page, pushed descending.
NextPage(n) ==
    LET base == n * Page
        len == Least(Page, Ceiling - base)
    IN [k \in 1 .. len |-> base + len - k]

TableInit ==
    /\ pages = 1 /\ free = NextPage(0)
    /\ slot = [i \in Indices |-> [gen |-> 1, full |-> FALSE]]
    /\ live = 0
    /\ heap = << >> /\ positions = [i \in Indices |-> 0]
    /\ spent = {}

Resolves(key) == slot[key[2]].gen = key[1] /\ slot[key[2]].full
Keys == {<<slot[i].gen, i>> : i \in {j \in Indices : slot[j].full}}

Insert ==
    /\ free # << >> \/ pages * Page < Ceiling
    /\ LET offered == IF free = << >> THEN NextPage(pages) ELSE free
           i == offered[Len(offered)]
       IN /\ free' = SubSeq(offered, 1, Len(offered) - 1)
          /\ slot' = [slot EXCEPT ![i].full = TRUE]
    /\ pages' = IF free = << >> THEN pages + 1 ELSE pages
    /\ live' = live + 1
    /\ UNCHANGED <<heap, positions, spent>>

\* remove, of a key whose deadline is not armed.  A slot whose generation is
\* saturated is retired: it stays counted.
Remove(key) ==
    /\ Resolves(key) /\ positions[key[2]] = 0
    /\ IF key[1] < LastGeneration
       THEN /\ slot' = [slot EXCEPT ![key[2]] = [gen |-> key[1] + 1, full |-> FALSE]]
            /\ free' = Append(free, key[2]) /\ live' = live - 1
       ELSE slot' = [slot EXCEPT ![key[2]].full = FALSE] /\ UNCHANGED <<free, live>>
    /\ spent' = spent \cup {key}
    /\ UNCHANGED <<pages, heap, positions>>

---------------------------------------------------------------------------
(* The heap.  A pair h has the entries and the index. *)

Before(a, b) == a.at < b.at \/ (a.at = b.at /\ (a.id[1] < b.id[1] \/ (a.id[1] = b.id[1] /\ a.id[2] < b.id[2])))
Parent(p) == (p - 2) \div Arity + 1
Children(h, p) == {c \in (p - 1) * Arity + 2 .. p * Arity + 1 : c <= Len(h.heap)}

Swap(h, a, b) ==
    [heap |-> [h.heap EXCEPT ![a] = h.heap[b], ![b] = h.heap[a]],
     positions |-> [h.positions EXCEPT ![h.heap[b].id[2]] = a, ![h.heap[a].id[2]] = b]]

\* up and down move one entry; each turn of the loop is one more step.
Up(h, p) ==
    LET Step[n \in 0 .. Len(h.heap)] ==
            IF n = 0 THEN [h |-> h, p |-> p]
            ELSE LET s == Step[n - 1] IN
                 IF s.p = 1 \/ ~Before(s.h.heap[s.p], s.h.heap[Parent(s.p)]) THEN s
                 ELSE [h |-> Swap(s.h, s.p, Parent(s.p)), p |-> Parent(s.p)]
    IN Step[Len(h.heap)].h

Smallest(h, p) == CHOOSE c \in Children(h, p) : \A d \in Children(h, p) : ~Before(h.heap[d], h.heap[c])

Down(h, p) ==
    LET Step[n \in 0 .. Len(h.heap)] ==
            IF n = 0 THEN [h |-> h, p |-> p]
            ELSE LET s == Step[n - 1] IN
                 IF Children(s.h, s.p) = {} THEN s
                 ELSE LET best == Smallest(s.h, s.p) IN
                      IF ~Before(s.h.heap[best], s.h.heap[s.p]) THEN s
                      ELSE [h |-> Swap(s.h, s.p, best), p |-> best]
    IN Step[Len(h.heap)].h

\* Fault: the entry moved into the hole only sinks.
FilledSinks(h, p) == Down(h, p)

\* The entry moved into the hole may have to rise or to sink.
Filled(h, p) ==
    IF p > 1 /\ Before(h.heap[p], h.heap[Parent(p)]) THEN Up(h, p) ELSE Down(h, p)

\* cancel of the entry at p: swap_remove, then restore the order at p.
Removed(h, p) ==
    LET n == Len(h.heap)
        i == h.heap[p].id[2]
        last == h.heap[n]
        short == SubSeq([h.heap EXCEPT ![p] = last], 1, n - 1)
        index == [h.positions EXCEPT ![i] = 0]
    IN IF p = n THEN [heap |-> short, positions |-> index]
       ELSE Filled([heap |-> short, positions |-> [index EXCEPT ![last.id[2]] = p]], p)

Now == [heap |-> heap, positions |-> positions]
Becomes(h) == heap' = h.heap /\ positions' = h.positions

Arm(key, at) ==
    /\ Resolves(key) /\ positions[key[2]] = 0
    /\ LET n == Len(heap) + 1 IN
       Becomes(Up([heap |-> Append(heap, [id |-> key, at |-> at]), positions |-> [positions EXCEPT ![key[2]] = n]], n))
    /\ UNCHANGED <<pages, slot, free, live, spent>>

Cancel(key) ==
    /\ positions[key[2]] # 0 /\ heap[positions[key[2]]].id = key
    /\ Becomes(Removed(Now, positions[key[2]]))
    /\ UNCHANGED <<pages, slot, free, live, spent>>

PopExpired(now) ==
    /\ heap # << >> /\ heap[1].at <= now
    /\ Becomes(Removed(Now, 1))
    /\ UNCHANGED <<pages, slot, free, live, spent>>

TableNext ==
    \/ Insert
    \/ \E key \in Keys : Remove(key) \/ Cancel(key) \/ \E at \in Times : Arm(key, at)
    \/ \E now \in Times : PopExpired(now)

TableSpec == TableInit /\ [][TableNext]_tableVars

---------------------------------------------------------------------------
\* A key that was removed never names anything again, and what insert can
\* still hand out is exactly what remaining() reports, retired slots and pages
\* that are not built included.
KeysStaySpent ==
    /\ \A key \in spent : ~Resolves(key)
    /\ Ceiling - live = Len(free) + (Ceiling - Least(pages * Page, Ceiling))
    /\ \A k \in DOMAIN free : ~slot[free[k]].full /\ \A l \in DOMAIN free : free[k] = free[l] => k = l

\* Through inserts, cancellations from the middle and expiries the root is the
\* earliest deadline, and the index finds each armed entry and nothing else.
HeapIsIndexed ==
    /\ \A p \in 2 .. Len(heap) : ~Before(heap[p], heap[Parent(p)])
    /\ \A p \in 1 .. Len(heap) : ~Before(heap[p], heap[1]) /\ positions[heap[p].id[2]] = p /\ Resolves(heap[p].id)
    /\ \A i \in Indices : positions[i] # 0 => positions[i] <= Len(heap) /\ heap[positions[i]].id[2] = i
=============================================================================
