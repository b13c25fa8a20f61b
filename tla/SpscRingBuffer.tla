--------------------------- MODULE SpscRingBuffer ---------------------------
(***************************************************************************)
(* SpscRingBuffer: one producer thread calls push, one consumer thread     *)
(* calls pop, and each shared access is a step of its own.                 *)
(*                                                                         *)
(* An acquire load need not return the newest value of an atomic, only one *)
(* no older than the thread has already seen.  pushed and popped count the *)
(* stores to tail_ and head_; pops_seen and pushes_seen are the counts the *)
(* producer and the consumer last loaded, and a load may pick any store    *)
(* from there on.  A thread's relaxed load of its own index is exact.      *)
(***************************************************************************)
EXTENDS Integers, Sequences

CONSTANTS
  Capacity,   \* the template parameter; kMask = Capacity - 1
  Values,     \* what is queued
  MaxPushes   \* bound: how many values the producer pushes

ASSUME CapacityAssumption == Capacity \in Nat /\ Capacity >= 2
ASSUME MaxPushesAssumption == MaxPushes \in Nat
ASSUME ValuesAssumption == Values # {}

VARIABLES
  buffer,        \* buffer_
  pushed,        \* number of stores to tail_: tail_ = pushed & kMask
  popped,        \* number of stores to head_: head_ = popped & kMask
  producer,      \* where the producer is in push
  value,         \* the argument of push
  pops_seen,     \* the store to head_ the producer last loaded
  consumer,      \* where the consumer is in pop
  out,           \* the out parameter of pop
  pushes_seen,   \* the store to tail_ the consumer last loaded
  last           \* what the last successful pop handed to its caller

ringVars == <<buffer, pushed, popped, producer, value, pops_seen,
              consumer, out, pushes_seen, last>>
producerVars == <<producer, value, pops_seen>>
consumerVars == <<consumer, out, pushes_seen, last>>

(* n & kMask: Capacity is a power of two. *)
Mask(n) == n % Capacity

head_ == Mask(popped)
tail_ == Mask(pushed)

RingInit ==
  /\ \E v \in Values : /\ buffer = [i \in 0..Capacity - 1 |-> v]
                       /\ value = v /\ out = v /\ last = v
  /\ pushed = 0 /\ popped = 0
  /\ producer = "idle" /\ pops_seen = 0
  /\ consumer = "idle" /\ pushes_seen = 0

\* Mutant: push does not test for a full buffer.
PushLoadUnchecked(v, n) ==
  /\ producer = "idle"
  /\ pushed < MaxPushes
  /\ pops_seen' = n
  /\ producer' = "write"
  /\ value' = v
  /\ UNCHANGED <<buffer, pushed, popped, consumerVars>>

(* push: load tail_, compute next and compare it with the n-th store to    *)
(* head_; when they are equal the buffer is full and push returns false.   *)
PushLoad(v, n) ==
  /\ producer = "idle"
  /\ pushed < MaxPushes
  /\ pops_seen' = n
  /\ IF Mask(tail_ + 1) = Mask(n)
     THEN UNCHANGED <<producer, value>>
     ELSE producer' = "write" /\ value' = v
  /\ UNCHANGED <<buffer, pushed, popped, consumerVars>>

(* push: buffer_[tail] = value. *)
PushWrite ==
  /\ producer = "write"
  /\ buffer' = [buffer EXCEPT ![tail_] = value]
  /\ producer' = "store"
  /\ UNCHANGED <<pushed, popped, value, pops_seen, consumerVars>>

\* Mutant: the index moves the wrong way.
PushStoreBack ==
  /\ producer = "store"
  /\ pushed' = pushed - 1
  /\ producer' = "idle"
  /\ UNCHANGED <<buffer, popped, value, pops_seen, consumerVars>>

(* push: the release store of next to tail_, and push returns true. *)
PushStore ==
  /\ producer = "store"
  /\ pushed' = pushed + 1
  /\ producer' = "idle"
  /\ UNCHANGED <<buffer, popped, value, pops_seen, consumerVars>>

\* Mutant: the reserved cell is counted on the consumer's side as well.
PopLoadKeepsOne(n) ==
  /\ consumer = "idle"
  /\ pushes_seen' = n
  /\ consumer' = IF Mask(n) \in {head_, Mask(head_ + 1)} THEN "idle" ELSE "read"
  /\ UNCHANGED <<buffer, pushed, popped, out, last, producerVars>>

(* pop: load head_ and compare it with the n-th store to tail_; when they  *)
(* are equal the buffer is empty and pop returns false.                    *)
PopLoad(n) ==
  /\ consumer = "idle"
  /\ pushes_seen' = n
  /\ consumer' = IF head_ = Mask(n) THEN "idle" ELSE "read"
  /\ UNCHANGED <<buffer, pushed, popped, out, last, producerVars>>

\* Mutant: the cell after head_ is read.
PopReadNext ==
  /\ consumer = "read"
  /\ out' = buffer[Mask(head_ + 1)]
  /\ consumer' = "store"
  /\ UNCHANGED <<buffer, pushed, popped, pushes_seen, last, producerVars>>

(* pop: out = buffer_[head]. *)
PopRead ==
  /\ consumer = "read"
  /\ out' = buffer[head_]
  /\ consumer' = "store"
  /\ UNCHANGED <<buffer, pushed, popped, pushes_seen, last, producerVars>>

(* pop: the release store of head_ + 1, and pop returns true. *)
PopStore ==
  /\ consumer = "store"
  /\ popped' = popped + 1
  /\ last' = out
  /\ consumer' = "idle"
  /\ UNCHANGED <<buffer, pushed, out, pushes_seen, producerVars>>

RingNext ==
  \/ \E v \in Values, n \in pops_seen..popped : PushLoad(v, n)
  \/ PushWrite
  \/ PushStore
  \/ \E n \in pushes_seen..pushed : PopLoad(n)
  \/ PopRead
  \/ PopStore

RingSpec == RingInit /\ [][RingNext]_ringVars

(* A push that has begun finishes, and the worker keeps polling; a store   *)
(* becomes visible to the other thread in finite time.  Nobody has to push.*)
FairRingSpec ==
  /\ RingSpec
  /\ WF_ringVars(PushWrite) /\ WF_ringVars(PushStore)
  /\ WF_ringVars(PopLoad(pushed)) /\ WF_ringVars(PopRead) /\ WF_ringVars(PopStore)

-----------------------------------------------------------------------------
TypeOK ==
  /\ buffer \in [0..Capacity - 1 -> Values]
  /\ pushed \in Nat /\ popped \in Nat
  /\ producer \in {"idle", "write", "store"}
  /\ consumer \in {"idle", "read", "store"}
  /\ value \in Values /\ out \in Values /\ last \in Values
  /\ pops_seen \in Nat /\ pushes_seen \in Nat

(* "wait-free" without a data race: the plain accesses buffer_[tail] of    *)
(* push and buffer_[head] of pop never touch the same cell at once, however*)
(* stale the index each thread compared with.                              *)
NoCellRace == ~(producer = "write" /\ consumer = "read" /\ tail_ = head_)

(* The values between head_ and tail_, in order. *)
Waiting == [i \in 1..pushed - popped |-> buffer[Mask(popped + i - 1)]]

Fifo == INSTANCE BoundedFifo WITH queue <- Waiting, Bound <- Capacity - 1

(* Values are popped once, in push order, and "usable capacity is          *)
(* Capacity - 1": the ring with its stale loads implements a bounded FIFO. *)
IsBoundedFifo == Fifo!Spec

(* Every value pushed is eventually popped by a worker that keeps polling. *)
PushedIsPopped == \A n \in 1..MaxPushes : (pushed >= n) ~> (popped >= n)
=============================================================================
