-------------------------- MODULE SequenceRemoval ---------------------------
(* Taking an element out of a sequence. *)
EXTENDS Integers, Sequences

(* A sequence without its n-th element: what unlinking an order leaves of  *)
(* its level.                                                              *)
Without(q, n) == SubSeq(q, 1, n - 1) \o SubSeq(q, n + 1, Len(q))

(* A sequence without its first x, if it has one: std::find, then erase. *)
WithoutFirst(q, x) ==
  LET found == {n \in 1..Len(q) : q[n] = x}
  IN  IF found = {} THEN q
      ELSE Without(q, CHOOSE n \in found : \A m \in found : n <= m)
=============================================================================
