---------------------------- MODULE BoundedFifo -----------------------------
(***************************************************************************)
(* What the shard queue promises its two threads: values come out once, in *)
(* the order they went in, and at most Bound of them wait.                 *)
(***************************************************************************)
EXTENDS Naturals, Sequences

CONSTANTS
  Values,   \* what is queued
  Bound     \* how many values may wait

VARIABLES
  queue,    \* the values waiting, the oldest first
  last      \* the value handed out last

Init == queue = <<>> /\ last \in Values

Put(v) ==
  /\ Len(queue) < Bound
  /\ queue' = Append(queue, v)
  /\ UNCHANGED last

Take ==
  /\ queue # <<>>
  /\ last' = queue[1]
  /\ queue' = Tail(queue)

Next == (\E v \in Values : Put(v)) \/ Take

Spec == Init /\ [][Next]_<<queue, last>>
=============================================================================
