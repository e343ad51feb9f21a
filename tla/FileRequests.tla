---------------------------- MODULE FileRequests ----------------------------
(***************************************************************************)
(* What the filesystem service promises its loop: the requests of one      *)
(* handle execute one at a time in the order they were accepted, one that  *)
(* has not begun can be withdrawn, and when the service has been dropped   *)
(* no worker is inside a request any more.                                 *)
(***************************************************************************)
EXTENDS Naturals, Sequences

CONSTANTS Ops, Files

VARIABLES
    order,      \* per handle, the accepted requests that have not ended
    executing,  \* requests a worker is executing
    executed,   \* requests that have been executed and not yet consumed
    gone        \* the service has been dropped

orderVars == <<order, executing, executed, gone>>

Listed(f) == {order[f][i] : i \in DOMAIN order[f]}
Without(f, o) == [order EXCEPT ![f] = SelectSeq(@, LAMBDA p : p # o)]

OrderInit ==
    /\ order = [f \in Files |-> << >>]
    /\ executing = {} /\ executed = {} /\ gone = FALSE

Accept(o, f) ==
    /\ \A g \in Files : o \notin Listed(g)
    /\ order' = [order EXCEPT ![f] = Append(@, o)]
    /\ UNCHANGED <<executing, executed, gone>>

Begin(o, f) ==
    /\ order[f] # << >> /\ o = Head(order[f])
    /\ o \notin executing \cup executed
    /\ executing' = executing \cup {o}
    /\ UNCHANGED <<order, executed, gone>>

End(o) ==
    /\ o \in executing
    /\ executing' = executing \ {o} /\ executed' = executed \cup {o}
    /\ UNCHANGED <<order, gone>>

Consume(o, f) ==
    /\ o \in executed /\ order[f] # << >> /\ o = Head(order[f])
    /\ order' = [order EXCEPT ![f] = Tail(@)] /\ executed' = executed \ {o}
    /\ UNCHANGED <<executing, gone>>

Withdraw(o, f) ==
    /\ o \in Listed(f) /\ o \notin executing \cup executed
    /\ order' = Without(f, o)
    /\ UNCHANGED <<executing, executed, gone>>

Gone ==
    /\ executing = {} /\ ~gone
    /\ gone' = TRUE /\ order' = [f \in Files |-> << >>] /\ executed' = {}
    /\ UNCHANGED executing

OrderNext ==
    /\ ~gone
    /\ \/ \E o \in Ops : End(o)
       \/ \E o \in Ops, f \in Files : Accept(o, f) \/ Begin(o, f) \/ Consume(o, f) \/ Withdraw(o, f)
       \/ Gone

OrderSpec == OrderInit /\ [][OrderNext]_orderVars
=============================================================================
