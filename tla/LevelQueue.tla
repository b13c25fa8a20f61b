----------------------------- MODULE LevelQueue -----------------------------
(***************************************************************************)
(* What a price level promises the order book: a queue of distinct orders  *)
(* served in arrival order, from which any order can be withdrawn, and     *)
(* which can be emptied.  PriceLevel shows that the intrusive linked list  *)
(* of the code keeps this promise.                                         *)
(***************************************************************************)
EXTENDS Functions, SequenceRemoval

CONSTANT Orders     \* the orders a level may hold

VARIABLE queue      \* the orders on the level, the oldest first

Init == queue = <<>>

(* An order that is not on the level joins at the back. *)
Join(o) == o \notin Range(queue) /\ queue' = Append(queue, o)

(* The oldest order leaves. *)
Serve == queue # <<>> /\ queue' = Tail(queue)

(* The order at any position leaves; the others keep their order. *)
Withdraw == \E i \in 1..Len(queue) : queue' = Without(queue, i)

(* Every order leaves at once. *)
Clear == queue # <<>> /\ queue' = <<>>

Next == (\E o \in Orders : Join(o)) \/ Serve \/ Withdraw \/ Clear

Spec == Init /\ [][Next]_queue
=============================================================================
