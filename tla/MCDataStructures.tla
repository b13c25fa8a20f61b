-------------------------- MODULE MCDataStructures --------------------------
(* The two data structures under the engine share nothing: a behaviour     *)
(* exercises one of them and leaves the other as it was made.              *)
(*                                                                         *)
(* Four orders are enough for an erase at the front, in the middle, next   *)
(* to the middle and at the back of the list.  Capacity 4 fills with three *)
(* values; nine pushes go round more than twice, so an index is met again  *)
(* with a different value in its cell.                                     *)
EXTENDS PriceLevel, SpscRingBuffer, TLC

CONSTANTS o1, o2, o3, o4, a, b

MCOrders == {o1, o2, o3, o4}
MCValues == {a, b}

VARIABLE subject

structureVars == <<vars, ringVars, subject>>

StructuresInit == Init /\ RingInit /\ subject \in {"level", "ring"}

OnLevel(A) == subject = "level" /\ A /\ UNCHANGED <<ringVars, subject>>

OnRing(A) == subject = "ring" /\ A /\ UNCHANGED <<vars, subject>>

StructuresNext == OnLevel(Next) \/ OnRing(RingNext)

(* The fairness is that of FairRingSpec. *)
StructuresSpec ==
  /\ StructuresInit /\ [][StructuresNext]_structureVars
  /\ WF_structureVars(OnRing(PushWrite)) /\ WF_structureVars(OnRing(PushStore))
  /\ WF_structureVars(OnRing(PopLoad(pushed))) /\ WF_structureVars(OnRing(PopRead))
  /\ WF_structureVars(OnRing(PopStore))
=============================================================================
