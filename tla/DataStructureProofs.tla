------------------------ MODULE DataStructureProofs -------------------------
(***************************************************************************)
(* Proofs about the two data structures under the matching engine.         *)
(*                                                                         *)
(* SpscRingBuffer, for every capacity: no data race on a cell, and the     *)
(* ring implements a bounded FIFO, whatever stale index an acquire load    *)
(* returns.  PriceLevel, for any number of orders: the pointers spell one  *)
(* list, and what the operations do to it is what LevelQueue promises.     *)
(***************************************************************************)
EXTENDS SpscRingBuffer, PriceLevel, SequenceRemoval, WellFoundedInduction,
        FiniteSetTheorems, TLAPS

(* Zenon proves a step that names no prover; the SMT solver is named where arithmetic,
   sequences or records are needed. *)
USE ZenonT(20)

(* Sequences with the same elements are the same. *)
LEMMA SameElements ==
  ASSUME NEW S, NEW s \in Seq(S), NEW t \in Seq(S), Len(s) = Len(t),
         \A i \in 1..Len(s) : s[i] = t[i]
  PROVE  s = t
BY SMTT(20)

(* A sequence without its first element. *)
LEMMA TailFacts ==
  ASSUME NEW S, NEW s \in Seq(S), s # <<>>
  PROVE  /\ Tail(s) \in Seq(S) /\ Len(Tail(s)) = Len(s) - 1
         /\ \A i \in 1..Len(s) - 1 : Tail(s)[i] = s[i + 1]
BY SMTT(20)

-----------------------------------------------------------------------------
(* The counts the threads work with are ordered, a push is under way only  *)
(* with a cell to spare and a pop only with a value to take, even by the   *)
(* stale counts the threads have seen.                                     *)
CountsOrdered ==
  /\ pops_seen <= popped
  /\ popped <= pushes_seen
  /\ pushes_seen <= pushed
  /\ pushed - pops_seen <= Capacity - 1
  /\ producer \in {"write", "store"} => pushed - pops_seen < Capacity - 1
  /\ consumer \in {"read", "store"} => popped < pushes_seen

(* A cell between its plain access and the store that publishes it keeps   *)
(* the value the thread has in hand.                                       *)
CellsInHand ==
  /\ producer = "store" => buffer[tail_] = value
  /\ consumer = "store" => out = buffer[head_]

IInv == TypeOK /\ CountsOrdered /\ CellsInHand

-----------------------------------------------------------------------------
(* Arithmetic of the mask: indices less than Capacity apart never meet. *)

(* A number and its remainder. *)
LEMMA MaskRange ==
  ASSUME NEW n \in Int
  PROVE  Mask(n) \in 0..Capacity - 1
BY CapacityAssumption, SMTT(20) DEF Mask

(* The remainder is the only one. *)
LEMMA MaskUnique ==
  ASSUME NEW q \in Int, NEW r \in 0..Capacity - 1
  PROVE  Mask(Capacity * q + r) = r
<1>1. Capacity \in Nat /\ Capacity > 0
  BY CapacityAssumption, SMTT(20)
<1> DEFINE n == Capacity * q + r
           d == q - (n \div Capacity)
<1>2. n \in Int
  BY <1>1, SMTT(20)
<1> HIDE DEF n
<1>3. n = Capacity * (n \div Capacity) + (n % Capacity) /\ n \div Capacity \in Int
  BY <1>1, <1>2, SMTT(20)
<1>4. n % Capacity \in 0..Capacity - 1
  BY <1>1, <1>2, SMTT(20)
<1>5. (n % Capacity) - r = Capacity * d /\ d \in Int
  BY <1>1, <1>3, <1>4, SMTT(20) DEF n
<1> HIDE DEF d
<1>6. CASE d <= -1
  <2>1. Capacity * d <= -Capacity
    BY <1>1, <1>5, <1>6, SMTT(20)
  <2> QED BY <2>1, <1>1, <1>4, <1>5, SMTT(20)
<1>7. CASE d >= 1
  <2>1. Capacity * d >= Capacity
    BY <1>1, <1>5, <1>7, SMTT(20)
  <2> QED BY <2>1, <1>1, <1>4, <1>5, SMTT(20)
<1>8. CASE d = 0
  BY <1>1, <1>4, <1>5, <1>8, SMTT(20) DEF Mask, n
<1> QED BY <1>5, <1>6, <1>7, <1>8, SMTT(20)

(* Adding one to an index goes to the cell of the next count, and a full   *)
(* turn of the ring comes back to the same cell.                           *)
LEMMA MaskTurn ==
  ASSUME NEW n \in Int
  PROVE  Mask(Mask(n) + 1) = Mask(n + 1) /\ Mask(n + Capacity) = Mask(n)
<1>1. Capacity \in Nat /\ Capacity > 0
  BY CapacityAssumption, SMTT(20)
<1> DEFINE q == n \div Capacity
           r == n % Capacity
<1>2. n = Capacity * q + r /\ q \in Int /\ r \in 0..Capacity - 1
  BY <1>1, SMTT(20)
<1> HIDE DEF q, r
<1>3. Mask(n) = r
  BY <1>2, MaskUnique
<1>4. n + Capacity = Capacity * (q + 1) + r
  BY <1>1, <1>2, SMTT(20)
<1>5. Mask(n + Capacity) = r
  BY <1>2, <1>4, MaskUnique, SMTT(20)
<1>6. CASE r + 1 < Capacity
  <2>1. n + 1 = Capacity * q + (r + 1) /\ r + 1 = Capacity * 0 + (r + 1)
    BY <1>1, <1>2, SMTT(20)
  <2>2. r + 1 \in 0..Capacity - 1
    BY <1>1, <1>2, <1>6, SMTT(20)
  <2>3. Mask(Capacity * q + (r + 1)) = r + 1 /\ Mask(Capacity * 0 + (r + 1)) = r + 1
    BY <1>2, <2>2, MaskUnique, SMTT(20)
  <2> QED BY <1>3, <1>5, <2>1, <2>3
<1>7. CASE r + 1 = Capacity
  <2>1. n + 1 = Capacity * (q + 1) + 0 /\ r + 1 = Capacity * 1 + 0
    BY <1>1, <1>2, <1>7, SMTT(20)
  <2>2. 0 \in 0..Capacity - 1 /\ q + 1 \in Int
    BY <1>1, <1>2, SMTT(20)
  <2>3. Mask(Capacity * (q + 1) + 0) = 0 /\ Mask(Capacity * 1 + 0) = 0
    BY <2>2, MaskUnique, SMTT(20)
  <2> QED BY <1>3, <1>5, <2>1, <2>3
<1> QED BY <1>1, <1>2, <1>6, <1>7, SMTT(20)

(* Counts less than Capacity apart name different cells. *)
LEMMA MaskApart ==
  ASSUME NEW m \in Int, NEW n \in Int, m < n, n - m < Capacity
  PROVE  Mask(m) # Mask(n)
<1>1. Capacity \in Nat /\ Capacity > 0
  BY CapacityAssumption, SMTT(20)
<1>2. SUFFICES ASSUME m % Capacity = n % Capacity PROVE FALSE
  BY DEF Mask
<1> DEFINE d == (n \div Capacity) - (m \div Capacity)
<1>3. m = Capacity * (m \div Capacity) + (m % Capacity) /\ m \div Capacity \in Int
  BY <1>1, SMTT(20)
<1>4. n = Capacity * (n \div Capacity) + (n % Capacity) /\ n \div Capacity \in Int
  BY <1>1, SMTT(20)
<1>5. n - m = Capacity * d /\ d \in Int
  BY <1>1, <1>2, <1>3, <1>4, SMTT(20)
<1> HIDE DEF d
<1>6. CASE d <= 0
  <2>1. Capacity * d <= 0
    BY <1>1, <1>5, <1>6, SMTT(20)
  <2> QED BY <2>1, <1>5, SMTT(20)
<1>7. CASE d >= 1
  <2>1. Capacity * d >= Capacity
    BY <1>1, <1>5, <1>7, SMTT(20)
  <2> QED BY <2>1, <1>5, <1>1, SMTT(20)
<1> QED BY <1>5, <1>6, <1>7, SMTT(20)

-----------------------------------------------------------------------------
(* The inductive invariant holds of an empty buffer. *)
LEMMA InitIInv == RingInit => IInv
BY CapacityAssumption, SMTT(20) DEF RingInit, IInv, TypeOK, CountsOrdered, CellsInHand

(* A push only starts with a cell to spare: the test for a full buffer is  *)
(* on the stale count n, which can only be too cautious.                   *)
LEMMA PushLoadIInv ==
  ASSUME IInv, NEW v \in Values, NEW n \in pops_seen..popped, PushLoad(v, n)
  PROVE  IInv'
<1> USE DEF IInv
<1>1. pushed \in Nat /\ popped \in Nat /\ n \in Nat /\ n <= popped /\ pops_seen <= n
  BY SMTT(20) DEF TypeOK
<1>2. Capacity \in Nat /\ Capacity >= 2
  BY CapacityAssumption
<1>3. pushed - n <= Capacity - 1
  BY <1>1, <1>2, SMTT(20) DEF CountsOrdered, TypeOK
<1>4. Mask(tail_ + 1) = Mask(pushed + 1) /\ Mask(n + Capacity) = Mask(n)
  BY <1>1, MaskTurn, SMTT(20) DEF tail_
<1>5. ASSUME Mask(tail_ + 1) # Mask(n) PROVE pushed - n < Capacity - 1
  <2>1. ASSUME pushed - n = Capacity - 1 PROVE FALSE
    <3>1. pushed + 1 = n + Capacity
      BY <2>1, <1>1, <1>2, SMTT(20)
    <3> QED BY <3>1, <1>4, <1>5
  <2> QED BY <2>1, <1>1, <1>2, <1>3, SMTT(20)
<1>6. TypeOK'
  BY <1>1 DEF TypeOK, PushLoad, consumerVars
<1>7. CountsOrdered'
  BY <1>1, <1>2, <1>3, <1>5 DEF CountsOrdered, TypeOK, PushLoad, consumerVars
<1>8. CellsInHand'
  BY DEF CellsInHand, PushLoad, consumerVars, head_, tail_, Mask
<1> QED BY <1>6, <1>7, <1>8

(* The cell written is none of those between head_ and tail_. *)
LEMMA PushWriteIInv ==
  ASSUME IInv, PushWrite
  PROVE  IInv'
<1> USE DEF IInv
<1>1. tail_ \in 0..Capacity - 1 /\ head_ \in 0..Capacity - 1
  BY MaskRange, SMTT(20) DEF TypeOK, head_, tail_
<1>2. UNCHANGED <<tail_, head_>>
  BY DEF PushWrite, consumerVars, tail_, head_, Mask
<1>3. TypeOK'
  BY <1>1 DEF TypeOK, PushWrite, consumerVars
<1>4. CountsOrdered'
  BY DEF CountsOrdered, PushWrite, consumerVars
<1>5. ASSUME consumer = "store" PROVE head_ # tail_
  <2>1. popped < pushed /\ pushed - popped < Capacity
    BY <1>5, CapacityAssumption, SMTT(20) DEF CountsOrdered, TypeOK
  <2> QED BY <2>1, MaskApart, SMTT(20) DEF TypeOK, head_, tail_
<1>6. CellsInHand'
  BY <1>1, <1>2, <1>5 DEF CellsInHand, TypeOK, PushWrite, consumerVars
<1> QED BY <1>3, <1>4, <1>6

(* A pop only starts with a value to take: the test for an empty buffer is *)
(* on a stale count too.                                                   *)
LEMMA PopLoadIInv ==
  ASSUME IInv, NEW n \in pushes_seen..pushed, PopLoad(n)
  PROVE  IInv'
<1> USE DEF IInv
<1>1. n \in Nat /\ popped \in Nat /\ popped <= n /\ n <= pushed /\ pushes_seen <= n
  BY SMTT(20) DEF TypeOK, CountsOrdered
<1>2. head_ # Mask(n) => popped < n
  BY <1>1, SMTT(20) DEF head_
<1>3. TypeOK'
  BY <1>1 DEF TypeOK, PopLoad, producerVars
<1>4. CountsOrdered'
  BY <1>1, <1>2 DEF CountsOrdered, TypeOK, PopLoad, producerVars
<1>5. CellsInHand'
  BY DEF CellsInHand, PopLoad, producerVars, head_, tail_, Mask
<1> QED BY <1>3, <1>4, <1>5

(* No access of push or pop breaks it, one step per access. *)
LEMMA NextIInv == IInv /\ [RingNext]_ringVars => IInv'
<1> SUFFICES ASSUME IInv, [RingNext]_ringVars PROVE IInv'
  OBVIOUS
<1>1. CASE \E v \in Values, n \in pops_seen..popped : PushLoad(v, n)
  BY <1>1, PushLoadIInv
<1>2. CASE PushWrite
  BY <1>2, PushWriteIInv
<1>3. CASE PushStore
  <2>1. TypeOK' /\ CountsOrdered'
    BY <1>3, CapacityAssumption, SMTT(20) DEF IInv, TypeOK, CountsOrdered, PushStore,
       consumerVars
  <2>2. CellsInHand'
    BY <1>3 DEF IInv, CellsInHand, PushStore, consumerVars, head_, Mask
  <2> QED BY <2>1, <2>2 DEF IInv
<1>4. CASE \E n \in pushes_seen..pushed : PopLoad(n)
  BY <1>4, PopLoadIInv
<1>5. CASE PopRead
  <2>1. head_ \in 0..Capacity - 1
    BY MaskRange, SMTT(20) DEF IInv, TypeOK, head_
  <2>2. TypeOK'
    BY <1>5, <2>1 DEF IInv, TypeOK, PopRead, producerVars
  <2>3. CountsOrdered' /\ CellsInHand'
    BY <1>5 DEF IInv, CountsOrdered, CellsInHand, PopRead, producerVars, head_, tail_,
       Mask
  <2> QED BY <2>2, <2>3 DEF IInv
<1>6. CASE PopStore
  <2>1. TypeOK' /\ CountsOrdered'
    BY <1>6, SMTT(20) DEF IInv, TypeOK, CountsOrdered, PopStore, producerVars
  <2>2. CellsInHand'
    BY <1>6 DEF IInv, CellsInHand, PopStore, producerVars, tail_, Mask
  <2> QED BY <2>1, <2>2 DEF IInv
<1>7. CASE UNCHANGED ringVars
  BY <1>7 DEF ringVars, IInv, TypeOK, CountsOrdered, CellsInHand, head_, tail_, Mask
<1> QED BY <1>1, <1>2, <1>3, <1>4, <1>5, <1>6, <1>7 DEF RingNext

(* The counts of stores never drift apart by Capacity or more, and the     *)
(* cells push and pop have in hand lie where the counts say.               *)
THEOREM Invariance == RingSpec => []IInv
<1>1. RingInit => IInv
  BY InitIInv
<1>2. IInv /\ [RingNext]_ringVars => IInv'
  BY NextIInv
<1> QED BY <1>1, <1>2, PTL DEF RingSpec

(* push and pop keep their types, for every capacity. *)
THEOREM TypeCorrect == RingSpec => []TypeOK
BY Invariance, PTL DEF IInv

(* The plain accesses to buffer_ in push and in pop never meet on a cell,  *)
(* for every capacity and every choice of stale loads.                     *)
THEOREM NoDataRace == RingSpec => []NoCellRace
<1>1. IInv => NoCellRace
  <2> SUFFICES ASSUME IInv, producer = "write", consumer = "read", tail_ = head_
               PROVE  FALSE
    BY DEF NoCellRace
  <2>1. popped < pushed /\ pushed - popped < Capacity
    BY CapacityAssumption, SMTT(20) DEF IInv, CountsOrdered, TypeOK
  <2> QED BY <2>1, MaskApart, SMTT(20) DEF IInv, TypeOK, head_, tail_
<1> QED BY <1>1, Invariance, PTL

-----------------------------------------------------------------------------
(* The refinement: the values between head_ and tail_ form the queue. *)
LEMMA WaitingIsSeq ==
  ASSUME IInv
  PROVE  /\ Waiting \in Seq(Values)
         /\ Len(Waiting) = pushed - popped
         /\ pushed - popped \in Nat
<1>1. pushed - popped \in Nat
  BY SMTT(20) DEF IInv, TypeOK, CountsOrdered
<1>2. \A i \in 1..pushed - popped : Mask(popped + i - 1) \in 0..Capacity - 1
  BY <1>1, MaskRange, SMTT(20) DEF IInv, TypeOK
<1>3. \A i \in 1..pushed - popped : buffer[Mask(popped + i - 1)] \in Values
  BY <1>2 DEF IInv, TypeOK
<1> QED BY <1>1, <1>3, SMTT(20) DEF Waiting

(* The release store of push makes the value written the newest. *)
LEMMA PushStorePuts ==
  ASSUME IInv, PushStore
  PROVE  Fifo!Put(value)
<1>1. Waiting \in Seq(Values) /\ Len(Waiting) = pushed - popped /\ pushed - popped \in Nat
  BY WaitingIsSeq
<1>2. Len(Waiting) < Capacity - 1
  BY <1>1, CapacityAssumption, SMTT(20) DEF IInv, TypeOK, CountsOrdered, PushStore
<1>3. pushed' = pushed + 1 /\ popped' = popped /\ buffer' = buffer /\ last' = last
  BY DEF PushStore, consumerVars
<1>4. Waiting' = [i \in 1..(pushed - popped) + 1 |-> buffer[Mask(popped + i - 1)]]
  BY <1>1, <1>3, SMTT(20) DEF Waiting, Mask, IInv, TypeOK
<1>5. popped + ((pushed - popped) + 1) - 1 = pushed
  BY SMTT(20) DEF IInv, TypeOK
<1>6. buffer[Mask(pushed)] = value
  BY DEF IInv, CellsInHand, PushStore, tail_
<1>7. Waiting' = Append(Waiting, value)
  <2> DEFINE n == pushed - popped
             w == [i \in 1..n + 1 |-> buffer[Mask(popped + i - 1)]]
  <2>1. \A i \in 1..n : w[i] = Waiting[i] /\ w[i] \in Values
    BY <1>1, SMTT(20) DEF Waiting
  <2>2. w[n + 1] = value /\ value \in Values
    BY <1>1, <1>5, <1>6, SMTT(20) DEF IInv, TypeOK
  <2>3. w \in Seq(Values) /\ Len(w) = n + 1
    <3>1. n + 1 \in Nat /\ \A i \in 1..n + 1 : i \in 1..n \/ i = n + 1
      BY <1>1, SMTT(20)
    <3>2. \A i \in 1..n + 1 : w[i] \in Values
      BY <3>1, <2>1, <2>2
    <3> QED BY <3>1, <3>2, SMTT(20)
  <2>4. /\ Append(Waiting, value) \in Seq(Values)
        /\ Len(Append(Waiting, value)) = n + 1
        /\ \A i \in 1..n : Append(Waiting, value)[i] = Waiting[i]
        /\ Append(Waiting, value)[n + 1] = value
    BY <1>1, <2>2, SMTT(20)
  <2> HIDE DEF n, w
  <2>5. \A i \in 1..Len(w) : w[i] = Append(Waiting, value)[i]
    BY <1>1, <2>1, <2>2, <2>3, <2>4, SMTT(20) DEF n
  <2>6. w = Append(Waiting, value)
    BY <2>3, <2>4, <2>5, SameElements
  <2> QED BY <1>4, <2>6 DEF w, n
<1> QED BY <1>2, <1>3, <1>7 DEF Fifo!Put

(* The release store of pop hands out the oldest value. *)
LEMMA PopStoreTakes ==
  ASSUME IInv, PopStore
  PROVE  Fifo!Take
<1>1. Waiting \in Seq(Values) /\ Len(Waiting) = pushed - popped /\ pushed - popped \in Nat
  BY WaitingIsSeq
<1>2. pushed' = pushed /\ popped' = popped + 1 /\ buffer' = buffer /\ last' = out
  BY DEF PopStore, producerVars
<1>3. pushed - popped >= 1
  BY SMTT(20) DEF IInv, TypeOK, CountsOrdered, PopStore
<1>4. popped + 1 - 1 = popped
  BY SMTT(20) DEF IInv, TypeOK
<1>5. Waiting # <<>> /\ Waiting[1] = out
  BY <1>1, <1>3, <1>4, SMTT(20) DEF Waiting, IInv, CellsInHand, PopStore, head_
<1>6. Waiting' = [i \in 1..(pushed - popped) - 1 |-> buffer[Mask((popped + 1) + i - 1)]]
  BY <1>1, <1>2, SMTT(20) DEF Waiting, Mask, IInv, TypeOK
<1>7. \A i \in 1..(pushed - popped) - 1 : (popped + 1) + i - 1 = popped + (i + 1) - 1
  BY SMTT(20) DEF IInv, TypeOK
<1>8. Waiting' = Tail(Waiting)
  <2> DEFINE n == pushed - popped
             w == [i \in 1..n - 1 |-> buffer[Mask((popped + 1) + i - 1)]]
  <2>1. \A i \in 1..n - 1 : w[i] = Waiting[i + 1] /\ w[i] \in Values
    BY <1>1, <1>7, SMTT(20) DEF Waiting
  <2>2. w \in Seq(Values) /\ Len(w) = n - 1
    BY <1>1, <1>3, <2>1, SMTT(20)
  <2>3. /\ Tail(Waiting) \in Seq(Values)
        /\ Len(Tail(Waiting)) = n - 1
        /\ \A i \in 1..n - 1 : Tail(Waiting)[i] = Waiting[i + 1]
    BY <1>1, <1>3, <1>5, TailFacts
  <2> HIDE DEF n, w
  <2>4. \A i \in 1..Len(w) : w[i] = Tail(Waiting)[i]
    BY <2>1, <2>2, <2>3
  <2>5. w = Tail(Waiting)
    BY <2>2, <2>3, <2>4, SameElements
  <2> QED BY <1>6, <2>5 DEF w, n
<1> QED BY <1>2, <1>5, <1>8 DEF Fifo!Take

(* The write of push touches no cell that waits. *)
LEMMA PushWriteStutters ==
  ASSUME IInv, PushWrite
  PROVE  UNCHANGED <<Waiting, last>>
<1>1. pushed - popped \in Nat
  BY WaitingIsSeq
<1>2. ASSUME NEW i \in 1..pushed - popped
      PROVE  buffer'[Mask(popped + i - 1)] = buffer[Mask(popped + i - 1)]
  <2>1. popped + i - 1 \in Int /\ pushed \in Int
    BY <1>1, SMTT(20) DEF IInv, TypeOK
  <2>2. popped + i - 1 < pushed /\ pushed - (popped + i - 1) < Capacity
    BY <1>1, CapacityAssumption, SMTT(20) DEF IInv, TypeOK, CountsOrdered
  <2>3. Mask(popped + i - 1) # Mask(pushed)
    BY <2>1, <2>2, MaskApart
  <2> QED BY <2>3, SMTT(20) DEF PushWrite, tail_, IInv, TypeOK
<1>3. popped' = popped /\ pushed' = pushed /\ last' = last
  BY DEF PushWrite, consumerVars
<1>4. Waiting' = [i \in 1..pushed - popped |-> buffer'[Mask(popped + i - 1)]]
  BY <1>3 DEF Waiting, Mask
<1> QED BY <1>2, <1>3, <1>4 DEF Waiting

(* push and pop, with all their stale loads, implement the bounded FIFO:   *)
(* every value comes out once, in push order, and at most Capacity - 1     *)
(* wait.                                                                   *)
THEOREM Refinement == RingSpec => IsBoundedFifo
<1>1. RingInit => Fifo!Init
  <2> SUFFICES ASSUME RingInit PROVE Fifo!Init
    OBVIOUS
  <2>1. Waiting = <<>>
    BY SMTT(20) DEF RingInit, Waiting
  <2> QED BY <2>1 DEF RingInit, Fifo!Init
<1>2. IInv /\ [RingNext]_ringVars => [Fifo!Next]_<<Waiting, last>>
  <2> SUFFICES ASSUME IInv, [RingNext]_ringVars
               PROVE  Fifo!Next \/ UNCHANGED <<Waiting, last>>
    OBVIOUS
  <2>1. CASE \E v \in Values, n \in pops_seen..popped : PushLoad(v, n)
    BY <2>1 DEF PushLoad, consumerVars, Waiting, Mask
  <2>2. CASE PushWrite
    BY <2>2, PushWriteStutters
  <2>3. CASE PushStore
    BY <2>3, PushStorePuts DEF Fifo!Next, IInv, TypeOK
  <2>4. CASE \E n \in pushes_seen..pushed : PopLoad(n)
    BY <2>4 DEF PopLoad, producerVars, Waiting, Mask
  <2>5. CASE PopRead
    BY <2>5 DEF PopRead, producerVars, Waiting, Mask
  <2>6. CASE PopStore
    BY <2>6, PopStoreTakes DEF Fifo!Next
  <2>7. CASE UNCHANGED ringVars
    BY <2>7 DEF ringVars, Waiting, Mask
  <2> QED BY <2>1, <2>2, <2>3, <2>4, <2>5, <2>6, <2>7 DEF RingNext
<1> QED BY <1>1, <1>2, Invariance, PTL DEF RingSpec, IsBoundedFifo, Fifo!Spec

-----------------------------------------------------------------------------
(* What the provers know of sequences. *)
LEMMA SeqFacts ==
  ASSUME NEW S, NEW q \in Seq(S)
  PROVE  /\ Len(q) \in Nat
         /\ DOMAIN q = 1..Len(q)
         /\ \A n \in 1..Len(q) : q[n] \in S
         /\ q = <<>> <=> Len(q) = 0
BY SMTT(20)

(* A sequence and the element put at its end. *)
LEMMA AppendFacts ==
  ASSUME NEW S, NEW q \in Seq(S), NEW x \in S
  PROVE  /\ Append(q, x) \in Seq(S)
         /\ Len(Append(q, x)) = Len(q) + 1
         /\ \A n \in 1..Len(q) : Append(q, x)[n] = q[n]
         /\ Append(q, x)[Len(q) + 1] = x
BY SMTT(20)

(* A sequence and what is put after it. *)
LEMMA ConcatFacts ==
  ASSUME NEW S, NEW q \in Seq(S), NEW r \in Seq(S)
  PROVE  /\ q \o r \in Seq(S)
         /\ Len(q \o r) = Len(q) + Len(r)
         /\ \A n \in 1..Len(q) + Len(r) :
              (q \o r)[n] = IF n <= Len(q) THEN q[n] ELSE r[n - Len(q)]
BY SMTT(20)

(* What Without, the effect of an erase in the middle of a level, leaves. *)
LEMMA WithoutSeq ==
  ASSUME NEW S, NEW q \in Seq(S), NEW n \in 1..Len(q)
  PROVE  /\ Without(q, n) \in Seq(S)
         /\ Len(Without(q, n)) = Len(q) - 1
         /\ \A i \in 1..Len(q) - 1 :
              Without(q, n)[i] = IF i < n THEN q[i] ELSE q[i + 1]
<1> DEFINE a == SubSeq(q, 1, n - 1)
           b == SubSeq(q, n + 1, Len(q))
<1>1. Len(q) \in Nat
  BY SMTT(20)
<1>2. /\ a \in Seq(S) /\ Len(a) = n - 1
      /\ \A i \in 1..n - 1 : a[i] = q[i]
  BY <1>1, SMTT(20)
<1>3. /\ b \in Seq(S) /\ Len(b) = Len(q) - n
      /\ \A i \in 1..Len(q) - n : b[i] = q[n + i]
  BY <1>1, SMTT(20)
<1> HIDE DEF a, b
<1>4. /\ a \o b \in Seq(S) /\ Len(a \o b) = Len(q) - 1
      /\ \A i \in 1..Len(q) - 1 : (a \o b)[i] = IF i <= n - 1 THEN a[i] ELSE b[i - (n - 1)]
  <2>1. /\ a \o b \in Seq(S) /\ Len(a \o b) = Len(a) + Len(b)
        /\ \A i \in 1..Len(a) + Len(b) :
             (a \o b)[i] = IF i <= Len(a) THEN a[i] ELSE b[i - Len(a)]
    BY <1>2, <1>3, ConcatFacts
  <2>2. Len(a) = n - 1 /\ Len(a) + Len(b) = Len(q) - 1
    BY <1>1, <1>2, <1>3, SMTT(20)
  <2> QED BY <2>1, <2>2
<1>5. Without(q, n) = a \o b
  BY DEF Without, a, b
<1>6. ASSUME NEW i \in 1..Len(q) - 1
      PROVE  (a \o b)[i] = IF i < n THEN q[i] ELSE q[i + 1]
  <2>1. CASE i < n
    BY <2>1, <1>1, <1>2, <1>4, SMTT(20)
  <2>2. CASE ~(i < n)
    <3>1. i - (n - 1) \in 1..Len(q) - n /\ n + (i - (n - 1)) = i + 1 /\ ~(i <= n - 1)
      BY <2>2, <1>1, SMTT(20)
    <3> QED BY <2>2, <3>1, <1>3, <1>4
  <2> QED BY <2>1, <2>2
<1> QED BY <1>4, <1>5, <1>6

(* A non-empty set of natural numbers has a least member. *)
LEMMA LeastNat ==
  ASSUME NEW T, T \subseteq Nat, T # {}
  PROVE  \E x \in T : \A y \in T : x <= y
<1>1. \E x \in T : \A y \in T : ~(<<y, x>> \in OpToRel(<, Nat))
  BY NatLessThanWellFounded, WFMin
<1>2. \A x, y \in Nat : ~(<<y, x>> \in OpToRel(<, Nat)) => x <= y
  BY SMTT(20) DEF OpToRel
<1> QED BY <1>1, <1>2

Pointer == Orders \cup {Null}

LinkTypes ==
  /\ head \in Pointer /\ tail \in Pointer /\ cur \in Pointer
  /\ level_prev \in [Orders -> Pointer] /\ level_next \in [Orders -> Pointer]
  /\ listed \subseteq Orders /\ pooled \subseteq Orders
  /\ draining \in BOOLEAN

(* Outside a drain the pointers spell a list of what is listed. *)
LinkInv ==
  /\ LinkTypes
  /\ ~draining => /\ \E s \in Seq(Orders) : Spells(s)
                  /\ listed \cap pooled = {}

(* The assignments by which erase takes the order o out of the list. *)
Unlinked(o) ==
  LET p == level_prev[o]
      n == level_next[o]
  IN /\ head' = IF p = Null THEN n ELSE head
     /\ tail' = IF n = Null THEN p ELSE tail
     /\ level_prev' = Unlink(Store(level_prev, n, p), o)
     /\ level_next' = Unlink(Store(level_next, p, n), o)
     /\ listed' = listed \ {o}
     /\ pooled' = pooled \cup {o}
     /\ UNCHANGED <<draining, cur>>

-----------------------------------------------------------------------------
(* The pointers h, t, nx and pv chain the elements of s, which are ls. *)
Links(s, h, t, nx, pv, ls) ==
  /\ \A i, j \in 1..Len(s) : s[i] = s[j] => i = j
  /\ ls = {s[i] : i \in 1..Len(s)}
  /\ h = IF Len(s) = 0 THEN Null ELSE s[1]
  /\ t = IF Len(s) = 0 THEN Null ELSE s[Len(s)]
  /\ \A i \in 1..Len(s) : nx[s[i]] = IF i = Len(s) THEN Null ELSE s[i + 1]
  /\ \A i \in 1..Len(s) : pv[s[i]] = IF i = 1 THEN Null ELSE s[i - 1]

(* That is what Spells says of them, before and after a step. *)
LEMMA SpellsLinks ==
  ASSUME NEW s \in Seq(Orders)
  PROVE  /\ Spells(s) <=> Links(s, head, tail, level_next, level_prev, listed)
         /\ Spells(s)' <=> Links(s, head', tail', level_next', level_prev', listed')
<1>1. /\ Len(s) \in Nat /\ DOMAIN s = 1..Len(s)
      /\ s = <<>> <=> Len(s) = 0
  BY SeqFacts
<1>2. Range(s) = {s[i] : i \in 1..Len(s)}
  BY <1>1 DEF Range
<1>3. IsInjective(s) <=> \A i, j \in 1..Len(s) : s[i] = s[j] => i = j
  BY <1>1 DEF IsInjective
<1> QED BY <1>1, <1>2, <1>3 DEF Spells, Links

(* push_back puts the order behind the others. *)
LEMMA PushSpells ==
  ASSUME LinkTypes, NEW s \in Seq(Orders), Spells(s), NEW o \in Orders, o \notin listed,
         push_back(o)
  PROVE  Spells(Append(s, o))'
<1> DEFINE n == Len(s)
           r == Append(s, o)
<1>1. n \in Nat /\ Links(s, head, tail, level_next, level_prev, listed)
  BY SpellsLinks, SeqFacts
<1>2. /\ r \in Seq(Orders) /\ Len(r) = n + 1 /\ r[n + 1] = o
      /\ \A i \in 1..n : r[i] = s[i] /\ s[i] \in Orders /\ s[i] # o /\ s[i] # Null
  BY <1>1, AppendFacts, SeqFacts, PriceLevelAssumption, SMTT(20) DEF Links
<1>3. /\ level_prev' = [level_prev EXCEPT ![o] = tail]
      /\ level_next' = Store(Unlink(level_next, o), tail, o)
      /\ head' = IF tail = Null THEN o ELSE head
      /\ tail' = o /\ listed' = listed \cup {o}
  BY DEF push_back
<1>4. /\ \A i, j \in 1..n : s[i] = s[j] => i = j
      /\ listed = {s[i] : i \in 1..n}
      /\ head = IF n = 0 THEN Null ELSE s[1]
      /\ tail = IF n = 0 THEN Null ELSE s[n]
      /\ \A i \in 1..n : level_next[s[i]] = IF i = n THEN Null ELSE s[i + 1]
      /\ \A i \in 1..n : level_prev[s[i]] = IF i = 1 THEN Null ELSE s[i - 1]
  BY <1>1 DEF Links
<1> HIDE DEF n, r
<1>5. \A i \in 1..n + 1 : i \in 1..n \/ i = n + 1
  BY <1>1, SMTT(20)
<1>6. \A i, j \in 1..n + 1 : r[i] = r[j] => i = j
  BY <1>1, <1>4, <1>2, <1>5, SMTT(20)
<1>7. listed' = {r[i] : i \in 1..n + 1}
  <2>1. ASSUME NEW x \in listed' PROVE x \in {r[i] : i \in 1..n + 1}
    <3>1. CASE x = o
      BY <1>1, <1>2, <3>1, SMTT(20)
    <3>2. CASE x # o
      <4>1. PICK i \in 1..n : x = s[i]
        BY <1>3, <1>4, <3>2
      <4>2. i \in 1..n + 1 /\ x = r[i]
        BY <1>1, <1>2, <4>1, SMTT(20)
      <4> QED BY <4>2
    <3> QED BY <3>1, <3>2
  <2>2. \A i \in 1..n + 1 : r[i] \in listed'
    BY <1>2, <1>3, <1>4, <1>5
  <2> QED BY <2>1, <2>2
<1>8. head' = r[1] /\ tail' = r[n + 1]
  BY <1>1, <1>4, <1>2, <1>3, SMTT(20)
<1>9. ASSUME NEW i \in 1..n + 1 PROVE level_prev'[r[i]] = IF i = 1 THEN Null ELSE r[i - 1]
  <2>1. CASE i \in 1..n
    <3>1. level_prev'[s[i]] = level_prev[s[i]]
      BY <1>2, <1>3, <2>1 DEF LinkTypes
    <3>2. i = 1 \/ i - 1 \in 1..n
      BY <1>1, <1>4, <2>1, SMTT(20)
    <3> QED BY <1>1, <1>4, <1>2, <2>1, <3>1, <3>2
  <2>2. CASE i = n + 1
    <3>1. level_prev'[o] = tail
      BY <1>3 DEF LinkTypes
    <3> QED BY <1>1, <1>4, <1>2, <2>2, <3>1, SMTT(20)
  <2> QED BY <1>5, <2>1, <2>2
<1>10. ASSUME NEW i \in 1..n + 1 PROVE level_next'[r[i]] = IF i = n + 1 THEN Null ELSE r[i + 1]
  <2>1. \A x \in Orders : level_next'[x] = IF x = tail THEN o ELSE IF x = o THEN Null ELSE level_next[x]
    BY <1>3, PriceLevelAssumption DEF LinkTypes, Store, Unlink, Pointer
  <2>2. CASE i \in 1..n
    <3>1. s[i] = tail <=> i = n
      BY <1>1, <1>4, <2>2, SMTT(20)
    <3>2. CASE i = n
      BY <1>1, <1>4, <1>2, <2>1, <2>2, <3>1, <3>2
    <3>3. CASE i # n
      <4>1. i + 1 \in 1..n
        BY <1>1, <1>4, <2>2, <3>3, SMTT(20)
      <4>2. level_next'[s[i]] = level_next[s[i]]
        BY <1>2, <2>1, <2>2, <3>1, <3>3
      <4>3. r[i] = s[i] /\ r[i + 1] = s[i + 1] /\ i # n + 1
        BY <1>1, <1>2, <2>2, <4>1
      <4> QED BY <1>4, <2>2, <3>3, <4>2, <4>3
    <3> QED BY <3>2, <3>3
  <2>3. CASE i = n + 1
    <3>1. o # tail
      BY <1>1, <1>4, <1>2, PriceLevelAssumption, SMTT(20)
    <3> QED BY <1>2, <2>1, <2>3, <3>1
  <2> QED BY <1>5, <2>2, <2>3
<1> QED
  <2>1. Len(r) = n + 1 /\ n + 1 # 0
    BY <1>1, <1>2, SMTT(20)
  <2>2. Links(r, head', tail', level_next', level_prev', listed')
    BY <2>1, <1>6, <1>7, <1>8, <1>9, <1>10 DEF Links
  <2> QED BY <1>2, <2>2, SpellsLinks DEF r

(* erase takes the i-th order out. *)
LEMMA EraseSpells ==
  ASSUME LinkTypes, NEW s \in Seq(Orders), Spells(s), NEW i \in 1..Len(s), Unlinked(s[i])
  PROVE  Spells(Without(s, i))'
<1> DEFINE n == Len(s)
           r == Without(s, i)
           o == s[i]
           p == IF i = 1 THEN Null ELSE s[i - 1]
           q == IF i = n THEN Null ELSE s[i + 1]
           at(j) == IF j < i THEN j ELSE j + 1
<1>1. n \in Nat /\ Links(s, head, tail, level_next, level_prev, listed)
  BY SpellsLinks, SeqFacts
<1>2. /\ r \in Seq(Orders) /\ Len(r) = n - 1 /\ i \in 1..n
      /\ \A j \in 1..n - 1 : r[j] = IF j < i THEN s[j] ELSE s[j + 1]
      /\ \A j \in 1..n : s[j] \in Orders /\ s[j] # Null
  <2>1. \A j \in 1..n : s[j] \in Orders /\ s[j] # Null
    BY SeqFacts, PriceLevelAssumption, SMTT(20)
  <2> QED BY <2>1, WithoutSeq
<1>3. /\ \A j, k \in 1..n : s[j] = s[k] => j = k
      /\ listed = {s[j] : j \in 1..n}
      /\ head = IF n = 0 THEN Null ELSE s[1]
      /\ tail = IF n = 0 THEN Null ELSE s[n]
      /\ \A j \in 1..n : level_next[s[j]] = IF j = n THEN Null ELSE s[j + 1]
      /\ \A j \in 1..n : level_prev[s[j]] = IF j = 1 THEN Null ELSE s[j - 1]
  BY <1>1 DEF Links
<1> HIDE DEF n, r
<1>4. level_prev[o] = p /\ level_next[o] = q /\ p \in Pointer /\ q \in Pointer /\ o \in Orders
  BY <1>1, <1>2, <1>3, SMTT(20) DEF Pointer
<1>5. /\ head' = IF p = Null THEN q ELSE head
      /\ tail' = IF q = Null THEN p ELSE tail
      /\ level_prev' = Unlink(Store(level_prev, q, p), o)
      /\ level_next' = Unlink(Store(level_next, p, q), o)
      /\ listed' = listed \ {o}
  BY <1>4 DEF Unlinked
<1>6. /\ p = Null <=> i = 1
      /\ q = Null <=> i = n
  BY <1>1, <1>2, SMTT(20)
<1>7. \A j \in 1..n - 1 : at(j) \in 1..n /\ at(j) # i /\ r[j] = s[at(j)]
  BY <1>1, <1>2, SMTT(20)
<1>8. \A j, k \in 1..n - 1 : r[j] = r[k] => j = k
  <2>1. \A j, k \in 1..n - 1 : at(j) = at(k) => j = k
    BY <1>1, <1>2, SMTT(20)
  <2> HIDE DEF at
  <2> QED BY <1>3, <1>7, <2>1, SMTT(20)
<1>9. listed' = {r[j] : j \in 1..n - 1}
  <2>1. \A k \in 1..n : k # i => \E j \in 1..n - 1 : at(j) = k
    <3> SUFFICES ASSUME NEW k \in 1..n, k # i PROVE \E j \in 1..n - 1 : at(j) = k
      OBVIOUS
    <3>1. CASE k < i
      <4>1. k \in 1..n - 1 /\ at(k) = k
        BY <1>1, <1>2, <3>1, SMTT(20)
      <4> QED BY <4>1
    <3>2. CASE k > i
      <4>1. k - 1 \in 1..n - 1 /\ at(k - 1) = k
        BY <1>1, <1>2, <3>2, SMTT(20)
      <4> QED BY <4>1
    <3> QED BY <1>1, <3>1, <3>2, SMTT(20)
  <2> HIDE DEF at
  <2>2. ASSUME NEW x \in listed' PROVE x \in {r[j] : j \in 1..n - 1}
    <3>1. PICK k \in 1..n : x = s[k] /\ k # i
      BY <1>3, <1>5, SMTT(20)
    <3>2. PICK j \in 1..n - 1 : at(j) = k
      BY <2>1, <3>1
    <3> QED BY <1>7, <3>1, <3>2
  <2>3. ASSUME NEW j \in 1..n - 1 PROVE r[j] \in listed'
    BY <1>2, <1>3, <1>5, <1>7, SMTT(20)
  <2> QED BY <2>2, <2>3
<1>10. /\ head' = IF n - 1 = 0 THEN Null ELSE r[1]
       /\ tail' = IF n - 1 = 0 THEN Null ELSE r[n - 1]
  <2>1. CASE n = 1
    BY <1>1, <1>2, <1>5, <2>1, SMTT(20)
  <2>2. CASE n # 1
    <3>1. 1 \in 1..n - 1 /\ n - 1 \in 1..n - 1 /\ n - 1 # 0 /\ n # 0 /\ (n - 1) + 1 = n
      BY <1>1, <1>2, <2>2, SMTT(20)
    <3>2. r[1] = (IF i = 1 THEN s[2] ELSE s[1]) /\ r[n - 1] = IF i = n THEN s[n - 1] ELSE s[n]
      BY <1>1, <1>2, <3>1, SMTT(20)
    <3>3. head' = (IF i = 1 THEN s[2] ELSE s[1]) /\ tail' = IF i = n THEN s[n - 1] ELSE s[n]
      BY <1>1, <1>2, <1>3, <1>5, <1>6, <3>1, SMTT(20)
    <3> QED BY <3>1, <3>2, <3>3
  <2> QED BY <2>1, <2>2
<1>11. ASSUME NEW j \in 1..n - 1
       PROVE  level_next'[r[j]] = IF j = n - 1 THEN Null ELSE r[j + 1]
  <2>1. \A x \in Orders : x # o => level_next'[x] = IF x = p THEN q ELSE level_next[x]
    BY <1>4, <1>5, PriceLevelAssumption DEF LinkTypes, Store, Unlink, Pointer
  <2>2. s[at(j)] # o /\ (s[at(j)] = p <=> at(j) = i - 1)
    <3>1. at(j) \in 1..n /\ at(j) # i
      BY <1>7
    <3>2. i = 1 \/ i - 1 \in 1..n
      BY <1>1, <1>2, SMTT(20)
    <3>3. i = 1 => at(j) # i - 1
      BY <3>1, SMTT(20)
    <3> HIDE DEF at
    <3> QED BY <1>2, <1>3, <3>1, <3>2, <3>3
  <2>3. CASE at(j) = i - 1
    <3>1. j = i - 1 /\ (j = n - 1 <=> i = n)
      BY <1>1, <1>2, <2>3, SMTT(20)
    <3>2. i # n => r[j + 1] = s[i + 1]
      BY <1>1, <1>2, <3>1, SMTT(20)
    <3>3. level_next'[r[j]] = q
      BY <1>2, <1>7, <2>1, <2>2, <2>3
    <3> QED BY <3>1, <3>2, <3>3
  <2>4. CASE at(j) # i - 1
    <3>1. level_next'[r[j]] = IF at(j) = n THEN Null ELSE s[at(j) + 1]
      <4>1. at(j) \in 1..n /\ r[j] = s[at(j)]
        BY <1>7
      <4>2. level_next'[s[at(j)]] = level_next[s[at(j)]]
        BY <1>2, <2>1, <2>2, <2>4, <4>1
      <4> HIDE DEF at
      <4> QED BY <1>3, <4>1, <4>2
    <3>2. at(j) = n <=> j = n - 1
      BY <1>1, <1>2, <2>4, SMTT(20)
    <3>3. j # n - 1 => r[j + 1] = s[at(j) + 1]
      <4>1. j # n - 1 => j + 1 \in 1..n - 1 /\ at(j + 1) = at(j) + 1
        BY <1>1, <1>2, <2>4, SMTT(20)
      <4> QED BY <1>7, <4>1
    <3> QED BY <3>1, <3>2, <3>3
  <2> QED BY <2>3, <2>4
<1>12. ASSUME NEW j \in 1..n - 1
       PROVE  level_prev'[r[j]] = IF j = 1 THEN Null ELSE r[j - 1]
  <2>1. \A x \in Orders : x # o => level_prev'[x] = IF x = q THEN p ELSE level_prev[x]
    BY <1>4, <1>5, PriceLevelAssumption DEF LinkTypes, Store, Unlink, Pointer
  <2>2. s[at(j)] # o /\ (s[at(j)] = q <=> at(j) = i + 1)
    <3>1. at(j) \in 1..n /\ at(j) # i
      BY <1>7
    <3>2. i = n \/ i + 1 \in 1..n
      BY <1>1, <1>2, SMTT(20)
    <3>3. i = n => at(j) # i + 1
      BY <1>1, <3>1, SMTT(20)
    <3> HIDE DEF at
    <3> QED BY <1>2, <1>3, <3>1, <3>2, <3>3
  <2>3. CASE at(j) = i + 1
    <3>1. j = i
      BY <1>1, <1>2, <2>3, SMTT(20)
    <3>2. i # 1 => r[j - 1] = s[i - 1]
      BY <1>1, <1>2, <3>1, SMTT(20)
    <3>3. level_prev'[r[j]] = p
      BY <1>2, <1>7, <2>1, <2>2, <2>3
    <3> QED BY <3>1, <3>2, <3>3
  <2>4. CASE at(j) # i + 1
    <3>1. level_prev'[r[j]] = IF at(j) = 1 THEN Null ELSE s[at(j) - 1]
      <4>1. at(j) \in 1..n /\ r[j] = s[at(j)]
        BY <1>7
      <4>2. level_prev'[s[at(j)]] = level_prev[s[at(j)]]
        BY <1>2, <2>1, <2>2, <2>4, <4>1
      <4> HIDE DEF at
      <4> QED BY <1>3, <4>1, <4>2
    <3>2. at(j) = 1 <=> j = 1
      BY <1>1, <1>2, <2>4, SMTT(20)
    <3>3. j # 1 => r[j - 1] = s[at(j) - 1]
      <4>1. j # 1 => j - 1 \in 1..n - 1 /\ at(j - 1) = at(j) - 1
        BY <1>1, <1>2, <2>4, SMTT(20)
      <4> QED BY <1>7, <4>1
    <3> QED BY <3>1, <3>2, <3>3
  <2> QED BY <2>3, <2>4
<1> QED
  <2>1. Len(r) = n - 1
    BY <1>2
  <2>2. Links(r, head', tail', level_next', level_prev', listed')
    BY <2>1, <1>8, <1>9, <1>10, <1>11, <1>12 DEF Links
  <2> QED BY <1>2, <2>2, SpellsLinks DEF r

-----------------------------------------------------------------------------
(* The pointers spell one sequence only: the head is its first element and *)
(* level_next leads from each to the following one.                        *)
LEMMA LinksPrefix ==
  ASSUME NEW s \in Seq(Orders), NEW r \in Seq(Orders),
         NEW h, NEW t, NEW nx, NEW pv, NEW ls,
         Links(s, h, t, nx, pv, ls), Links(r, h, t, nx, pv, ls)
  PROVE  Len(s) <= Len(r) /\ \A i \in 1..Len(s) : s[i] = r[i]
<1> DEFINE Bad == {i \in 1..Len(s) : i > Len(r) \/ s[i] # r[i]}
<1>1. /\ Len(s) \in Nat /\ Len(r) \in Nat
      /\ \A i \in 1..Len(s) : s[i] \in Orders /\ s[i] # Null
  BY SeqFacts, PriceLevelAssumption, SMTT(20)
<1>2. /\ h = IF Len(s) = 0 THEN Null ELSE s[1]
      /\ h = IF Len(r) = 0 THEN Null ELSE r[1]
      /\ \A i \in 1..Len(s) : nx[s[i]] = IF i = Len(s) THEN Null ELSE s[i + 1]
      /\ \A i \in 1..Len(r) : nx[r[i]] = IF i = Len(r) THEN Null ELSE r[i + 1]
  BY DEF Links
<1>3. ASSUME NEW b \in Bad, \A y \in Bad : b <= y PROVE FALSE
  <2>1. b \in 1..Len(s) /\ (b > Len(r) \/ s[b] # r[b])
    BY <1>3
  <2>2. CASE b = 1
    BY <1>1, <1>2, <2>1, <2>2, SMTT(20)
  <2>3. CASE b # 1
    <3>1. b - 1 \in 1..Len(s) /\ b - 1 # Len(s) /\ (b - 1) + 1 = b
      BY <1>1, <2>1, <2>3, SMTT(20)
    <3>2. b - 1 \notin Bad
      BY <1>3, <3>1, SMTT(20)
    <3>3. b - 1 \in 1..Len(r) /\ s[b - 1] = r[b - 1]
      BY <1>1, <3>1, <3>2, SMTT(20)
    <3>4. nx[s[b - 1]] = s[b]
      BY <1>2, <3>1
    <3>5. b - 1 # Len(r) /\ r[b] = s[b]
      BY <1>1, <1>2, <2>1, <3>1, <3>3, <3>4
    <3> QED BY <1>1, <2>1, <3>3, <3>5, SMTT(20)
  <2> QED BY <2>2, <2>3
<1>4. Bad = {}
  <2>1. Bad \subseteq Nat
    BY <1>1, SMTT(20)
  <2> HIDE DEF Bad
  <2> QED BY <1>3, <2>1, LeastNat
<1>5. \A i \in 1..Len(s) : i <= Len(r) /\ s[i] = r[i]
  BY <1>1, <1>4, SMTT(20)
<1> QED BY <1>1, <1>5, SMTT(20)

LEMMA LinksOnce ==
  ASSUME NEW s \in Seq(Orders), NEW r \in Seq(Orders),
         NEW h, NEW t, NEW nx, NEW pv, NEW ls,
         Links(s, h, t, nx, pv, ls), Links(r, h, t, nx, pv, ls)
  PROVE  s = r
<1>1. Len(s) <= Len(r) /\ \A i \in 1..Len(s) : s[i] = r[i]
  BY LinksPrefix
<1>2. Len(r) <= Len(s)
  BY LinksPrefix
<1> QED BY <1>1, <1>2, SMTT(20)

(* It names every order once, so it is one of the sequences that Contents  *)
(* chooses from.                                                           *)
LEMMA Bounded ==
  /\ Listings \subseteq Seq(Orders)
  /\ \A s \in Seq(Orders) : (\A i, j \in 1..Len(s) : s[i] = s[j] => i = j) =>
       s \in Listings
<1>1. IsFiniteSet(Orders) /\ Cardinality(Orders) \in Nat
  BY PriceLevelAssumption, FS_CardinalityType
<1>2. Listings \subseteq Seq(Orders)
  BY <1>1, SMTT(20) DEF Listings
<1>3. ASSUME NEW s \in Seq(Orders), \A i, j \in 1..Len(s) : s[i] = s[j] => i = j
      PROVE  s \in Listings
  <2>1. Len(s) \in Nat /\ s \in [1..Len(s) -> Orders] /\ DOMAIN s = 1..Len(s)
    BY SMTT(20)
  <2>2. s \in Injection(1..Len(s), Orders)
    BY <1>3, <2>1 DEF Injection, IsInjective
  <2>3. Cardinality(1..Len(s)) <= Cardinality(Orders)
    BY <1>1, <2>2, FS_Injection
  <2>4. Cardinality(1..Len(s)) = Len(s)
    <3>1. Cardinality(1..Len(s)) = IF 1 > Len(s) THEN 0 ELSE Len(s) - 1 + 1
      BY <2>1, FS_Interval, SMTT(20)
    <3> QED BY <2>1, <3>1, SMTT(20)
  <2>5. Len(s) \in 0..Cardinality(Orders)
    BY <1>1, <2>1, <2>3, <2>4, SMTT(20)
  <2> QED BY <2>1, <2>5 DEF Listings
<1> QED BY <1>2, <1>3

(* Contents is the sequence that the pointers spell. *)
LEMMA ContentsIs ==
  ASSUME NEW s \in Seq(Orders)
  PROVE  /\ ~draining /\ Spells(s) => Contents = s
         /\ ~draining' /\ Spells(s)' => Contents' = s
<1> DEFINE B == Listings
<1>1. ASSUME ~draining, Spells(s) PROVE Contents = s
  <2>1. Links(s, head, tail, level_next, level_prev, listed)
    BY <1>1, SpellsLinks
  <2>2. s \in B
    BY <2>1, Bounded DEF Links
  <2> HIDE DEF B
  <2>3. Contents \in B /\ Spells(Contents)
    BY <1>1, <2>2 DEF Contents, B
  <2>4. Contents \in Seq(Orders)
    BY <2>3, Bounded DEF B
  <2>5. Links(Contents, head, tail, level_next, level_prev, listed)
    BY <2>3, <2>4, SpellsLinks
  <2> QED BY <2>1, <2>4, <2>5, LinksOnce
<1>2. ASSUME ~draining', Spells(s)' PROVE Contents' = s
  <2>1. Links(s, head', tail', level_next', level_prev', listed')
    BY <1>2, SpellsLinks
  <2>2. s \in B
    BY <2>1, Bounded DEF Links
  <2> HIDE DEF B
  <2>3. PICK x : x = Contents'
    OBVIOUS
  <2>4. x \in B /\ Spells(x)'
    BY <1>2, <2>2, <2>3 DEF Contents, B
  <2>5. x \in Seq(Orders)
    BY <2>4, Bounded DEF B
  <2>6. Links(x, head', tail', level_next', level_prev', listed')
    BY <2>4, <2>5, SpellsLinks
  <2> QED BY <2>1, <2>3, <2>5, <2>6, LinksOnce
<1> QED BY <1>1, <1>2

-----------------------------------------------------------------------------
(* A step keeps the pointers in order and is, on the sequence they spell,  *)
(* a step of LevelQueue.                                                   *)
StepOK == LinkInv' /\ [Abstract!Next]_Contents

LEMMA PushStep ==
  ASSUME LinkInv, NEW o \in Orders, push_back(o) PROVE StepOK
<1>1. ~draining /\ ~draining' /\ o \in pooled
  BY DEF push_back
<1>2. PICK s \in Seq(Orders) : Spells(s)
  BY <1>1 DEF LinkInv
<1>3. o \notin listed /\ listed \cap pooled = {} /\ LinkTypes
  BY <1>1 DEF LinkInv
<1>4. Append(s, o) \in Seq(Orders) /\ Spells(Append(s, o))'
  BY <1>2, <1>3, PushSpells, AppendFacts
<1>5. LinkTypes' /\ (listed \cap pooled = {})'
  BY <1>3, PriceLevelAssumption DEF push_back, LinkTypes, Pointer, Store, Unlink
<1>6. LinkInv'
  BY <1>4, <1>5 DEF LinkInv
<1>7. Contents = s /\ Contents' = Append(s, o)
  BY <1>1, <1>2, <1>4, ContentsIs
<1>8. o \notin Range(s)
  BY <1>2, <1>3 DEF Spells
<1>9. Abstract!Join(o)
  BY <1>7, <1>8 DEF Abstract!Join, Abstract!Range, Range
<1> QED BY <1>6, <1>9 DEF StepOK, Abstract!Next

(* pop_front and erase. *)
LEMMA UnlinkStep ==
  ASSUME LinkInv, ~draining, NEW o \in listed, Unlinked(o) PROVE StepOK
<1>1. PICK s \in Seq(Orders) : Spells(s)
  BY DEF LinkInv
<1>2. PICK i \in 1..Len(s) : s[i] = o
  BY <1>1, SpellsLinks, SMTT(20) DEF Links
<1>3. LinkTypes /\ listed \cap pooled = {} /\ o \in Orders
  BY DEF LinkInv, LinkTypes
<1>4. Without(s, i) \in Seq(Orders) /\ Spells(Without(s, i))'
  BY <1>1, <1>2, <1>3, EraseSpells, WithoutSeq
<1>5. LinkTypes' /\ (listed \cap pooled = {})'
  <2>1. level_prev[o] \in Pointer /\ level_next[o] \in Pointer
    BY <1>3 DEF LinkTypes
  <2> QED BY <1>3, <2>1 DEF Unlinked, LinkTypes, Pointer, Store, Unlink
<1>6. LinkInv' /\ ~draining'
  BY <1>4, <1>5 DEF LinkInv, Unlinked
<1>7. Contents = s /\ Contents' = Without(s, i)
  BY <1>1, <1>4, <1>6, ContentsIs
<1>8. Abstract!Withdraw
  BY <1>7 DEF Abstract!Withdraw, Abstract!Without, Without
<1> QED BY <1>6, <1>8 DEF StepOK, Abstract!Next

LEMMA PopStep ==
  ASSUME LinkInv, pop_front PROVE StepOK
<1>1. ~draining /\ head # Null
  BY DEF pop_front
<1>2. PICK s \in Seq(Orders) : Spells(s)
  BY <1>1 DEF LinkInv
<1>3. head \in listed /\ level_prev[head] = Null
  <2>1. Links(s, head, tail, level_next, level_prev, listed) /\ Len(s) \in Nat
    BY <1>2, SpellsLinks, SeqFacts
  <2>2. 1 \in 1..Len(s) /\ head = s[1]
    BY <1>1, <2>1, SMTT(20) DEF Links
  <2> QED BY <2>1, <2>2 DEF Links
<1>4. Unlinked(head)
  BY <1>3 DEF pop_front, Unlinked, Store
<1> QED BY <1>1, <1>3, <1>4, UnlinkStep

(* clear_and_drain: the level is given up when the walk begins. *)
LEMMA DrainStep ==
  ASSUME LinkInv, DrainBegin \/ DrainVisit \/ DrainEnd PROVE StepOK
<1>1. CASE DrainBegin
  <2>1. LinkInv' /\ Contents' = <<>>
    BY <1>1 DEF DrainBegin, LinkInv, LinkTypes, Contents
  <2>2. PICK s \in Seq(Orders) : Spells(s)
    BY <1>1 DEF DrainBegin, LinkInv
  <2>3. Contents = s
    BY <1>1, <2>2, ContentsIs DEF DrainBegin
  <2>4. s # <<>>
    BY <1>1, <2>2 DEF DrainBegin, Spells
  <2> QED BY <2>1, <2>3, <2>4 DEF StepOK, Abstract!Next, Abstract!Clear
<1>2. CASE DrainVisit
  <2>1. LinkTypes' /\ draining /\ draining'
    BY <1>2 DEF DrainVisit, LinkInv, LinkTypes, Pointer, Unlink
  <2> QED BY <2>1 DEF StepOK, LinkInv, Contents
<1>3. CASE DrainEnd
  <2>1. /\ head' = Null /\ tail' = Null /\ listed' = {} /\ draining /\ ~draining'
        /\ UNCHANGED <<level_prev, level_next, pooled, cur>>
    BY <1>3 DEF DrainEnd
  <2>2. LinkTypes' /\ (listed \cap pooled = {})'
    BY <1>3 DEF DrainEnd, LinkInv, LinkTypes, Pointer
  <2>3. <<>> \in Seq(Orders) /\ Spells(<<>>)'
    <3>1. <<>> \in Seq(Orders) /\ Len(<<>>) = 0
      BY SMTT(20)
    <3>2. Links(<<>>, head', tail', level_next', level_prev', listed')
      BY <2>1, <3>1, SMTT(20) DEF Links
    <3> QED BY <3>1, <3>2, SpellsLinks
  <2>4. LinkInv'
    BY <2>2, <2>3 DEF LinkInv
  <2>5. Contents = <<>> /\ Contents' = <<>>
    BY <2>1, <2>3, ContentsIs DEF Contents
  <2> QED BY <2>4, <2>5 DEF StepOK
<1> QED BY <1>1, <1>2, <1>3

LEMMA NextStep ==
  ASSUME LinkInv, [Next]_vars PROVE StepOK
<1>1. CASE UNCHANGED vars
  BY <1>1, SMTT(20) DEF vars, StepOK, LinkInv, LinkTypes, Spells, Contents
<1>2. ASSUME NEW o \in Orders, erase(o) PROVE StepOK
  <2>1. ~draining /\ o \in listed /\ Unlinked(o)
    BY <1>2 DEF erase, Unlinked
  <2> QED BY <2>1, UnlinkStep
<1> QED BY <1>1, <1>2, PushStep, PopStep, DrainStep DEF Next

(* The empty level. *)
LEMMA InitStep == Init => LinkInv /\ Abstract!Init
<1> SUFFICES ASSUME Init PROVE LinkInv /\ Abstract!Init
  OBVIOUS
<1>1. LinkTypes /\ listed \cap pooled = {} /\ ~draining
  BY DEF Init, LinkTypes, Pointer
<1>2. <<>> \in Seq(Orders) /\ Len(<<>>) = 0
  BY SMTT(20)
<1>3. Links(<<>>, head, tail, level_next, level_prev, listed)
  BY <1>2, SMTT(20) DEF Init, Links
<1>4. Spells(<<>>)
  BY <1>2, <1>3, SpellsLinks
<1>5. Contents = <<>>
  BY <1>1, <1>2, <1>4, ContentsIs
<1> QED BY <1>1, <1>2, <1>4, <1>5 DEF LinkInv, Abstract!Init

-----------------------------------------------------------------------------
(* The pointers always spell one proper doubly-linked list of exactly the  *)
(* orders the index knows, whatever is pushed, popped and erased.          *)
THEOREM ListIsWellLinked == Spec => []WellLinked
<1>1. Init => LinkInv
  BY InitStep
<1>2. LinkInv /\ [Next]_vars => LinkInv'
  BY NextStep DEF StepOK
<1>3. LinkInv => WellLinked
  <2> SUFFICES ASSUME LinkInv, ~draining
               PROVE  /\ \E s \in Listings : Spells(s)
                      /\ listed \cap pooled = {}
    BY DEF WellLinked
  <2>1. PICK s \in Seq(Orders) : Spells(s)
    BY DEF LinkInv
  <2>2. s \in Listings
    BY <2>1, SpellsLinks, Bounded DEF Links
  <2> QED BY <2>1, <2>2 DEF LinkInv
<1> QED BY <1>1, <1>2, <1>3, PTL DEF Spec

(* push_back, pop_front, erase and the drain, written on the pointers,     *)
(* implement a queue served in arrival order from which any order may be   *)
(* withdrawn: the time priority of a level.                                *)
THEOREM LevelIsQueue == Spec => IsLevelQueue
<1>1. Init => LinkInv /\ Abstract!Init
  BY InitStep
<1>2. LinkInv /\ [Next]_vars => LinkInv' /\ [Abstract!Next]_Contents
  BY NextStep DEF StepOK
<1> QED BY <1>1, <1>2, PTL DEF Spec, IsLevelQueue, Abstract!Spec
=============================================================================
