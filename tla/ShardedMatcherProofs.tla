------------------------ MODULE ShardedMatcherProofs ------------------------
(***************************************************************************)
(* Theorems about ShardedMatcher, for any number of shards, instruments    *)
(* and orders, any pool and any capacity of the queues.  The first part    *)
(* adds to MatchingProofs that ids stay unique, on which cancels rely.     *)
(***************************************************************************)
EXTENDS ShardedMatcher, MatchingProofs

(* Zenon proves a step that names no prover; the SMT solver is named where arithmetic,
   sequences or records are needed. *)
USE ZenonT(20)

-----------------------------------------------------------------------------
(* What is in use is allocated. *)
Allocated ==
  /\ Resting \subseteq Slots
  /\ \A s \in InUse \ {None} : s \in Slots /\ ord[s] # None /\ ord[s] \in Order

(* Orders in use that have the same id are in different books. *)
IdsUnique ==
  \A r, s \in InUse \ {None} :
    r # s => ord[r].id # ord[s].id \/ ord[r].instrument # ord[s].instrument

(* The other half of IndexExact: what rests can be found. *)
Indexed == \A s \in Resting : index[ord[s].instrument][ord[s].id] = s

IdInv == IdsUnique /\ Indexed

(* A step gives no order another id or another book. *)
IdsKept ==
  \A s \in Slots : ord'[s] # None =>
    ord[s] # None /\ ord'[s].id = ord[s].id /\ ord'[s].instrument = ord[s].instrument

(* It brings no order into use either. *)
NoNewIds == IdsKept /\ InUse' \ {None} \subseteq InUse

(* The invariant says so. *)
LEMMA InUseAllocated == IInv => Allocated
<1> SUFFICES ASSUME IInv PROVE Allocated
  OBVIOUS
<1>1. BookType /\ CallType /\ BookInv /\ CallInv
  BY TypeParts DEF IInv
<1>2. \A s \in Resting : s \in Slots /\ ord[s] # None
  BY <1>1, RestingFacts DEF BookInv, CallType
<1>3. \A s \in held : s \in Slots /\ ord[s] # None
  BY <1>1 DEF CallType, CallInv
<1>4. \A t \in Threads : taker[t] # None => taker[t] \in Slots /\ ord[taker[t]] # None
  BY <1>1 DEF CallInv, Busy
<1>5. \A s \in InUse \ {None} : s \in Slots /\ ord[s] # None
  BY <1>2, <1>3, <1>4 DEF InUse
<1> QED BY <1>1, <1>2, <1>5 DEF CallType, Allocated

(* Ids stay unique while nothing comes into use. *)
LEMMA UniqueKept ==
  ASSUME Allocated', IdsUnique, IdsKept, InUse' \ {None} \subseteq InUse
  PROVE  IdsUnique'
BY SMTT(20) DEF IdsUnique, IdsKept, Allocated

(* No call brings an id into use. *)
LEMMA CallIds ==
  ASSUME IInv, Allocated, Allocated', IdInv, NEW t \in Threads,
         \/ \E s \in Slots : Submit(t, s)
         \/ Trade(t) \/ StopMatching(t) \/ Settle(t) \/ Return(t)
         \/ \E i \in Instruments, d \in Ids : Cancel(t, i, d)
  PROVE  IdInv' /\ NoNewIds
(* A step that leaves the books alone. *)
<1>SameBookIds.
      ASSUME Allocated', IdInv, IdsKept, UNCHANGED bookVars,
             (held' \cup {taker'[u] : u \in Threads}) \ {None} \subseteq InUse
      PROVE  IdInv' /\ NoNewIds
  <2> USE <1>SameBookIds
  <2>1. Resting' = Resting /\ index' = index
    BY DEF Resting, bookVars
  <2>2. NoNewIds /\ IdsUnique'
    <3>1. InUse' \ {None} \subseteq InUse
      BY <2>1 DEF InUse
    <3> QED BY <3>1, UniqueKept DEF IdInv, NoNewIds
  <2>3. Indexed'
    <3>1. \A s \in Resting' : s \in Slots /\ ord'[s] # None
      BY MatchingAssumption DEF Allocated, InUse
    <3> QED BY <2>1, <3>1 DEF IdInv, Indexed, IdsKept
  <2> QED BY <2>2, <2>3 DEF IdInv
(* An order leaves its book and the pool; the key it leaves in the index   *)
(* is no other order's.                                                    *)
<1>UnrestIds.
      ASSUME IInv, Allocated, Allocated', IdInv, IdsKept, UNCHANGED <<held, taker>>,
             NEW k \in Level, NEW n \in 1..Len(queue[k]), Unrest(k, n),
             ord'[queue[k][n]] = None
      PROVE  IdInv' /\ NoNewIds
  <2> USE <1>UnrestIds
  <2> DEFINE x == queue[k][n]
  <2>1. BookType /\ LevelsOwn
    BY TypeParts DEF IInv, BookInv
  <2>2. x \in Range(queue[k]) /\ x \in Slots /\ x \in Resting /\ ord[x].instrument = k[1]
    <3>1. x \in Range(queue[k]) /\ x \in Slots
      BY <2>1, QueueFacts
    <3> HIDE DEF x
    <3> QED BY <2>1, <3>1, InResting, SMTT(20) DEF LevelsOwn, LevelOf
  <2>3. Range(Without(queue[k], n)) \subseteq Range(queue[k])
    BY <2>1, QueueFacts, WithoutRange, SMTT(20) DEF LevelsOwn
  <2>4. Resting' \subseteq Resting
    <3>1. queue' = [queue EXCEPT ![k] = Without(queue[k], n)]
      BY DEF Unrest
    <3>2. \A j \in Level : Range(queue'[j]) \subseteq Range(queue[j])
      BY <2>3, <3>1, SMTT(20) DEF BookType
    <3> QED BY <3>2 DEF Resting
  <2>5. NoNewIds /\ IdsUnique'
    <3>1. InUse' \ {None} \subseteq InUse
      BY <2>4 DEF InUse
    <3> QED BY <3>1, UniqueKept DEF IdInv, NoNewIds
  <2>6. ASSUME NEW s \in Resting' PROVE index'[ord'[s].instrument][ord'[s].id] = s
    <3>1. s \in Slots /\ ord'[s] # None /\ s \in Resting /\ s # x
      BY <2>4, MatchingAssumption DEF Allocated, InUse
    <3>2. ord'[s].id = ord[s].id /\ ord'[s].instrument = ord[s].instrument
      BY <3>1 DEF IdsKept
    <3>3. ord[s].id # ord[x].id \/ ord[s].instrument # k[1]
      <4> HIDE DEF x
      <4> QED BY <2>2, <3>1, MatchingAssumption DEF IdInv, IdsUnique, InUse
    <3>4. index[ord[s].instrument][ord[s].id] = s
      BY <3>1 DEF IdInv, Indexed
    <3>5. /\ ord[s].instrument \in Instruments /\ ord[s].id \in Ids
          /\ k[1] \in Instruments
      <4>1. ord[s] \in Order
        BY <3>1, MatchingAssumption DEF Allocated, InUse
      <4> QED BY <4>1, LevelOfType DEF Level
    <3>6. index' = [index EXCEPT ![k[1]][ord[x].id] = None]
      BY DEF Unrest
    <3> HIDE DEF x
    <3> QED BY <3>2, <3>3, <3>4, <3>5, <3>6, SMTT(20) DEF BookType
  <2> QED BY <2>5, <2>6 DEF IdInv, Indexed
(* An order comes to rest: no locator is in the way of its own. *)
<1>SettleIds.
      ASSUME IInv, Allocated, Allocated', IdInv, Settle(t)
      PROVE  IdInv' /\ NoNewIds
  <2> USE <1>SettleIds
  <2> DEFINE s == taker[t]
             o == ord[s]
             rest == ~is_fully_filled(o) /\ MayRest(o)
  <2>1. BookType /\ CallType /\ BookInv /\ Busy(t) /\ pc[t] = "settle"
    BY TypeParts DEF IInv, CallInv, Settle
  <2>2. s \in Slots /\ o # None /\ o \in Order /\ s \notin Resting /\ s \in InUse
    BY <2>1 DEF Busy, CallType, InUse
  <2>3. UNCHANGED <<live, held, taker, trades>>
    BY DEF Settle
  <2>4. IdsKept
    <3>1. \E st : ord' = [ord EXCEPT ![s].status = st]
      BY DEF Settle
    <3> QED BY <2>2, <3>1, SMTT(20) DEF CallType, IdsKept, Order
  <2>5. CASE ~rest
    <3>1. UNCHANGED bookVars
      BY <2>5 DEF Settle
    <3> QED BY <2>3, <2>4, <3>1, <1>SameBookIds DEF InUse
  <2>6. CASE rest
    <3> HIDE DEF s
    <3>1. add_resting(s, o)
      BY <2>6 DEF Settle, s
    <3> DEFINE k == LevelOf(o)
    <3>2. k \in Level /\ o.instrument \in Instruments /\ o.id \in Ids
      BY <2>2, LevelOfType
    <3>3. Resting' \subseteq Resting \cup {s}
      <4>1. queue' = [queue EXCEPT ![k] = Append(queue[k], s)]
        BY <3>1 DEF add_resting
      <4> HIDE DEF k
      <4>2. Range(Append(queue[k], s)) \subseteq Range(queue[k]) \cup {s}
        BY <2>1, <2>2, <3>2, QueueFacts, AppendRange
      <4>3. \A j \in Level : Range(queue'[j]) \subseteq Range(queue[j]) \cup {s}
        BY <4>1, <4>2, SMTT(20) DEF BookType
      <4> QED BY <4>3 DEF Resting
    <3>4. NoNewIds /\ IdsUnique'
      <4>1. InUse' \ {None} \subseteq InUse
        BY <2>2, <2>3, <3>3, SMTT(20) DEF InUse
      <4> QED BY <2>4, <4>1, UniqueKept DEF IdInv, NoNewIds
    <3>5. index[o.instrument][o.id] = None
      <4> SUFFICES ASSUME index[o.instrument][o.id] # None PROVE FALSE
        OBVIOUS
      <4> DEFINE r == index[o.instrument][o.id]
      <4>1. /\ r \in Slots /\ ord[r] # None /\ ord[r].id = o.id /\ ord[r].instrument = o.instrument
            /\ r \in Range(queue[LevelOf(ord[r])])
        <5>1. IndexSound
          BY <2>1 DEF BookInv
        <5> HIDE DEF o, rest, k
        <5> QED BY <3>2, <5>1, SMTT(20) DEF IndexSound
      <4>2. r \in Resting
        <5>1. ord[r] \in Order
          BY <2>1, <4>1 DEF CallType
        <5> HIDE DEF r
        <5> QED BY <4>1, <5>1, LevelOfType, InResting, SMTT(20)
      <4> HIDE DEF r
      <4> QED BY <2>2, <4>1, <4>2, MatchingAssumption DEF IdInv, IdsUnique, InUse
    <3>6. /\ index'[o.instrument][o.id] = s
          /\ \A i \in Instruments, d \in Ids :
               i # o.instrument \/ d # o.id => index'[i][d] = index[i][d]
      <4> HIDE DEF o
      <4> QED BY <2>1, <3>1, <3>2, <3>5, SMTT(20) DEF add_resting, BookType
    <3>7. ASSUME NEW r \in Resting' PROVE index'[ord'[r].instrument][ord'[r].id] = r
      <4>1. r \in Slots /\ ord'[r] # None
        BY MatchingAssumption DEF Allocated, InUse
      <4>2. ord'[r].id = ord[r].id /\ ord'[r].instrument = ord[r].instrument /\ ord[r] # None
        BY <2>4, <4>1 DEF IdsKept
      <4>3. CASE r = s
        BY <3>6, <4>2, <4>3, SMTT(20)
      <4>4. CASE r # s
        <5>1. r \in Resting /\ ord[r] \in Order
          BY <2>1, <3>3, <4>1, <4>2, <4>4, SMTT(20) DEF CallType
        <5>2. ord[r].id # o.id \/ ord[r].instrument # o.instrument
          BY <2>2, <4>1, <5>1, MatchingAssumption, SMTT(20) DEF IdInv, IdsUnique, InUse
        <5>3. index[ord[r].instrument][ord[r].id] = r
          BY <5>1 DEF IdInv, Indexed
        <5>4. ord[r].instrument \in Instruments /\ ord[r].id \in Ids
          BY <5>1, LevelOfType
        <5> QED BY <3>6, <4>2, <5>2, <5>3, <5>4
      <4> QED BY <4>3, <4>4
    <3> QED BY <3>4, <3>7 DEF IdInv, Indexed
  <2> QED BY <2>5, <2>6
(* A maker that is filled leaves the index; one that is not keeps its id. *)
<1>TradeIds.
      ASSUME IInv, Allocated, Allocated', IdInv, Trade(t)
      PROVE  IdInv' /\ NoNewIds
  <2> USE <1>TradeIds
  <2> DEFINE s == taker[t]
  <2>1. CallType /\ pc[t] = "match" /\ UNCHANGED <<live, held, pc, taker>>
    BY TypeParts DEF IInv, Trade
  <2>2. PICK k \in levels :
          /\ Tradable(ord[s], k)
          /\ \E fill, done :
               /\ ord' = [ord EXCEPT ![s].filled_qty = @ + fill,
                                     ![queue[k][1]] =
                            IF done THEN None
                            ELSE [ord[queue[k][1]] EXCEPT !.filled_qty = @ + fill,
                                                          !.status = "PartiallyFilled"]]
               /\ IF done THEN Unrest(k, 1) ELSE UNCHANGED bookVars
    BY DEF Trade, pop_top
  <2> DEFINE m == queue[k][1]
  <2>3. PICK fill, done :
          /\ ord' = [ord EXCEPT ![s].filled_qty = @ + fill,
                                ![m] = IF done THEN None
                                       ELSE [ord[m] EXCEPT !.filled_qty = @ + fill,
                                                           !.status = "PartiallyFilled"]]
          /\ IF done THEN Unrest(k, 1) ELSE UNCHANGED bookVars
    BY <2>2
  <2>4. /\ k \in Level /\ 1 \in 1..Len(queue[k]) /\ m \in Slots /\ ord[m] \in Order
        /\ ord[m] # None /\ s \in Slots /\ ord[s] \in Order /\ ord[s] # None
    BY <2>1, <2>2, MakerFacts, SMTT(20) DEF Busy
  <2>5. IdsKept /\ (done => ord'[m] = None)
    <3> HIDE DEF s, m
    <3> DEFINE mid == [ord EXCEPT ![s].filled_qty = @ + fill]
    <3>1. /\ mid \in [Slots -> {mid[r] : r \in Slots}]
          /\ \A r \in Slots : ord[r] # None => mid[r].id = ord[r].id /\ mid[r].instrument = ord[r].instrument
          /\ \A r \in Slots : ord[r] = None => mid[r] = None
      BY <2>1, <2>4 DEF CallType, Order
    <3>2. ord' = [mid EXCEPT ![m] = IF done THEN None
                                    ELSE [ord[m] EXCEPT !.filled_qty = @ + fill,
                                                        !.status = "PartiallyFilled"]]
      BY <2>3
    <3> HIDE DEF mid
    <3>3. \A r \in Slots \ {m} : ord'[r] = mid[r]
      BY <3>2, SMTT(20)
    <3>4. ord'[m] = IF done THEN None ELSE [ord[m] EXCEPT !.filled_qty = @ + fill,
                                                          !.status = "PartiallyFilled"]
      BY <2>4, <3>1, <3>2
    <3>5. ord'[m] # None => ord'[m].id = ord[m].id /\ ord'[m].instrument = ord[m].instrument
      BY <3>4, SMTT(20) DEF Order
    <3> QED BY <2>4, <3>1, <3>3, <3>4, <3>5 DEF IdsKept
  <2>6. CASE done
    BY <2>1, <2>3, <2>4, <2>5, <2>6, <1>UnrestIds
  <2>7. CASE ~done
    BY <2>1, <2>3, <2>5, <2>7, <1>SameBookIds DEF InUse
  <2> QED BY <2>6, <2>7
<1>1. CallType /\ CallInv
  BY TypeParts DEF IInv
<1>2. ASSUME NEW s \in Slots, Submit(t, s) PROVE IdInv' /\ NoNewIds
  <2>1. IdsKept
    <3>1. ord[s] # None /\ ord[s] \in Order
      BY <1>1, <1>2 DEF Submit, CallType, CallInv
    <3>2. ord' = ord \/ ord' = [ord EXCEPT ![s].status = "Rejected"]
      BY <1>2 DEF Submit
    <3>3. \A r \in Slots :
            \/ ord'[r] = ord[r]
            \/ r = s /\ ord'[r].id = ord[r].id /\ ord'[r].instrument = ord[r].instrument
      BY <1>1, <3>1, <3>2, SMTT(20) DEF CallType, Order
    <3> QED BY <3>1, <3>3 DEF IdsKept
  <2>2. /\ UNCHANGED bookVars
        /\ (held' \cup {taker'[u] : u \in Threads}) \ {None} \subseteq InUse
    BY <1>2, SMTT(20) DEF Submit, CallType, InUse
  <2> QED BY <2>1, <2>2, <1>SameBookIds
<1>3. CASE StopMatching(t) \/ Return(t)
  <2>1. IdsKept
    BY <1>1, <1>3 DEF StopMatching, Return, IdsKept, CallType
  <2>2. /\ UNCHANGED bookVars
        /\ (held' \cup {taker'[u] : u \in Threads}) \ {None} \subseteq InUse
    BY <1>1, <1>3, SMTT(20) DEF StopMatching, Return, CallType, InUse
  <2> QED BY <2>1, <2>2, <1>SameBookIds
<1>4. ASSUME NEW i \in Instruments, NEW d \in Ids, Cancel(t, i, d)
      PROVE  IdInv' /\ NoNewIds
  <2> DEFINE s == index[i][d]
  <2>0. s # None
    BY <1>4 DEF Cancel, Finds
  <2>1. s \in Slots /\ ord[s] \in Order
    <3>1. s \in Slots /\ ord[s] # None
      BY <2>0 DEF IInv, BookInv, IndexSound
    <3> QED BY <1>1, <3>1 DEF CallType
  <2>2. /\ LevelOf(ord[s]) \in Level /\ UNCHANGED <<held, taker>>
        /\ ord' = [ord EXCEPT ![s] = None]
    BY <1>4, <2>1, LevelOfType, ZenonT(30) DEF Cancel, callVars
  <2>3. PICK n \in 1..Len(queue[LevelOf(ord[s])]) :
          queue[LevelOf(ord[s])][n] = s /\ Unrest(LevelOf(ord[s]), n)
    BY <1>4, ZenonT(30) DEF Cancel
  <2> HIDE DEF s
  <2>4. IdsKept /\ ord'[s] = None
    BY <1>1, <2>1, <2>2 DEF IdsKept, CallType
  <2> QED BY <2>2, <2>3, <2>4, <1>UnrestIds, SMTT(20)
<1> QED BY <1>2, <1>3, <1>4, <1>TradeIds, <1>SettleIds

(* Every step keeps ids unique and what rests indexed. *)
LEMMA NextIds ==
  ASSUME FreshIds, IInv, Allocated, Allocated', IdInv, [Next]_vars
  PROVE  IdInv'
(* The only step that brings an id into use asks for a fresh one. *)
<1>AcquireIds.
      ASSUME FreshIds, IInv, Allocated, IdInv, NEW s \in Slots, NEW e \in NewOrders, Acquire(s, e)
      PROVE  IdInv'
  <2> USE <1>AcquireIds
  <2>1. CallType
    BY TypeParts DEF IInv
  <2>2. /\ ord[s] = None /\ held' = held \cup {s}
        /\ UNCHANGED <<bookVars, callVars>>
        /\ \A r \in InUse \ {None} : ord[r].id # e.id \/ ord[r].instrument # e.instrument
    BY DEF Acquire
  <2>3. InUse' = InUse \cup {s} /\ Resting' = Resting /\ index' = index
    BY <2>2 DEF InUse, Resting, bookVars, callVars
  <2>4. /\ s \notin InUse /\ s # None
        /\ \A r \in InUse \ {None} : r \in Slots /\ ord'[r] = ord[r]
        /\ ord'[s].id = e.id /\ ord'[s].instrument = e.instrument
    BY <2>1, MatchingAssumption DEF Allocated, CallType, Acquire
  <2>5. IdsUnique'
    BY <2>2, <2>3, <2>4, SMTT(20) DEF IdInv, IdsUnique
  <2>6. Indexed'
    <3>1. \A r \in Resting : ord'[r] = ord[r]
      BY <2>4, MatchingAssumption DEF Allocated, InUse
    <3> QED BY <2>3, <3>1, SMTT(20) DEF IdInv, Indexed
  <2> QED BY <2>5, <2>6 DEF IdInv
(* The book that is destroyed takes its index along. *)
<1>ExpireIds.
      ASSUME IInv, Allocated, Allocated', IdInv,
             NEW t \in Threads, NEW i \in Instruments, Expire(t, i)
      PROVE  IdInv'
  <2> USE <1>ExpireIds
  <2>1. BookType /\ CallType /\ LevelsOwn
    BY TypeParts DEF IInv, BookInv
  <2>2. /\ queue' = [k \in Level |-> IF k[1] = i THEN <<>> ELSE queue[k]]
        /\ index' = [index EXCEPT ![i] = [d \in Ids |-> None]]
        /\ UNCHANGED <<held, taker>>
    BY DEF Expire, callVars
  <2>3. IdsKept
    BY DEF Expire, IdsKept
  <2>4. \A s \in Resting' : s \in Resting /\ ord[s].instrument # i
    <3> SUFFICES ASSUME NEW k \in Level, NEW s \in Range(queue'[k])
                 PROVE  s \in Resting /\ ord[s].instrument # i
      BY DEF Resting
    <3>1. k[1] # i /\ s \in Range(queue[k])
      BY <2>2, SMTT(20) DEF Range
    <3> QED BY <2>1, <3>1, InResting, SMTT(20) DEF LevelsOwn, LevelOf
  <2>5. IdsUnique'
    <3>1. InUse' \ {None} \subseteq InUse
      BY <2>2, <2>4 DEF InUse
    <3> QED BY <2>3, <3>1, UniqueKept DEF IdInv
  <2>6. ASSUME NEW s \in Resting' PROVE index'[ord'[s].instrument][ord'[s].id] = s
    <3>1. s \in Slots /\ ord'[s] # None /\ s \in Resting /\ ord[s].instrument # i
      BY <2>4, MatchingAssumption DEF Allocated, InUse
    <3>2. ord'[s].id = ord[s].id /\ ord'[s].instrument = ord[s].instrument
      BY <2>3, <3>1 DEF IdsKept
    <3>3. index[ord[s].instrument][ord[s].id] = s
      BY <3>1 DEF IdInv, Indexed
    <3>4. ord[s].instrument \in Instruments
      BY <3>1, MatchingAssumption, LevelOfType DEF Allocated, InUse
    <3> QED BY <2>2, <3>1, <3>2, <3>3, <3>4, SMTT(20) DEF BookType
  <2> QED BY <2>5, <2>6 DEF IdInv, Indexed
<1>1. CASE UNCHANGED vars
  BY <1>1, SMTT(20) DEF vars, IdInv, IdsUnique, Indexed, InUse, Resting
<1> QED BY <1>1, CallIds, <1>AcquireIds, <1>ExpireIds DEF Next

(* Then the index is exact. *)
LEMMA IdsExact == IInv /\ IdInv => IndexExact
<1> SUFFICES ASSUME IInv, IdInv PROVE IndexExact
  OBVIOUS
<1>1. BookType /\ CallType /\ IndexSound
  BY TypeParts DEF IInv, BookInv
<1>2. ASSUME NEW i \in Instruments, NEW d \in Ids, index[i][d] # None
      PROVE  index[i][d] \in Resting
  <2> DEFINE s == index[i][d]
  <2>1. s \in Slots /\ ord[s] # None /\ s \in Range(queue[LevelOf(ord[s])])
    BY <1>1, <1>2, SMTT(20) DEF IndexSound
  <2> HIDE DEF s
  <2>2. LevelOf(ord[s]) \in Level
    BY <1>1, <2>1, LevelOfType, SMTT(20) DEF CallType
  <2> QED BY <2>1, <2>2, InResting, SMTT(20) DEF s
<1> QED BY <1>1, <1>2, SMTT(20) DEF IndexSound, IdInv, Indexed, IndexExact

(* As long as no id is used again while an order with it is in use, the    *)
(* order_map_ of every book holds exactly the resting orders: each of them *)
(* can be cancelled.                                                       *)
THEOREM IndexComplete ==
  ASSUME SingleThreaded, FreshIds PROVE Spec => []IndexExact
<1>1. Init => IdInv
  <2> SUFFICES ASSUME Init PROVE IdInv
    OBVIOUS
  <2>1. Resting = {}
    BY SMTT(20) DEF Init, Resting, Range
  <2> QED BY <2>1 DEF Init, IdInv, IdsUnique, Indexed, InUse
<1>2. IInv /\ Allocated /\ Allocated' /\ IdInv /\ [Next]_vars => IdInv'
  BY NextIds
<1>3. IInv /\ IdInv => IndexExact
  BY IdsExact
<1> QED BY <1>1, <1>2, <1>3, InUseAllocated, Invariance, PTL DEF Spec

-----------------------------------------------------------------------------
Command == [kind : {"Submit"}, instrument : Instruments, order : Slots]
             \cup [kind : {"Cancel"}, instrument : Instruments, id : Ids]

ShardTypes ==
  /\ cmds \in [Engines -> Seq(Command)]
  /\ submitted \in [Engines -> Nat] /\ processed \in [Engines -> Nat]
  /\ stop \in [Engines -> BOOLEAN] /\ busy \in [Engines -> BOOLEAN]
  /\ worker \in [Engines -> {"run", "drain", "exit"}]
  /\ todo \subseteq Engines

(* Nothing waits in the queue of a shard and its worker has no command. *)
Done(e) == cmds[e] = <<>> /\ ~busy[e]

(* What each shard guarantees: a worker between two commands is in no call *)
(* of its engine, it leaves its loops only when told to and with nothing   *)
(* left, and it is told to only by the destructor.                         *)
WorkerInv(e) ==
  /\ ~busy[e] => pc[e] = "idle"
  /\ worker[e] # "run" => stop[e]
  /\ worker[e] = "exit" => Done(e)
  /\ stop[e] => client \in {"stopping", "destroyed"}

(* What the client knows of each shard: one that wait_idle has found idle  *)
(* stays so, as nobody else sends commands; after the destructor it is     *)
(* joined.                                                                 *)
ClientInv(e) ==
  /\ client = "waiting" /\ e \notin todo => Done(e)
  /\ client = "idle" => Done(e)
  /\ client = "destroyed" => worker[e] = "exit"

QueueInv ==
  /\ ShardTypes
  /\ CountersMatchWork
  /\ \A e \in Engines : WorkerInv(e) /\ ClientInv(e)

ShardInv == IInv /\ QueueInv

-----------------------------------------------------------------------------
(* Every engine has its own worker: what MatchingProofs asks of callers.   *)
LEMMA WorkersAreSingle == SingleThreaded
BY ShardedAssumption DEF SingleThreaded

(* Commands go to a shard, and every order and command names things that   *)
(* exist.                                                                  *)
LEMMA Shards ==
  /\ \A i \in Instruments : shard_for(i) \in Engines
  /\ \A e \in NewOrders : e.instrument \in Instruments /\ e.id \in Ids
  /\ Threads = Engines
  /\ QueueBound \in Nat
BY MatchingAssumption, ShardedAssumption, ConstantFacts DEF shard_for

(* A step of ShardedMatcher is a step of Matching or leaves it alone. *)
LEMMA StepIsMatching ==
  ASSUME IInv, ShardTypes, [ShardNext]_allVars
  PROVE  [Next]_vars
<1>1. \A s \in Slots, e \in NewOrders : acquire_order(s, e) => Next
  BY DEF acquire_order, Next
<1>2. ASSUME NEW e \in Engines, PopSubmit(e) PROVE Next
  <2>1. PICK s : Submit(e, s)
    BY <1>2 DEF PopSubmit
  <2>2. s \in Slots
    BY <2>1 DEF Submit, IInv, TypeOK
  <2> QED BY <2>1, <2>2, Shards DEF Next
<1>3. ASSUME NEW e \in Engines, PopCancel(e) PROVE [Next]_vars
  <2> DEFINE c == Head(cmds[e])
  <2>1. c \in Command
    BY <1>3, SMTT(20) DEF PopCancel, Pop, ShardTypes
  <2>2. c.kind = "Cancel"
    BY <1>3 DEF PopCancel
  <2>3. c.instrument \in Instruments /\ c.id \in Ids
    BY <2>1, <2>2 DEF Command
  <2>4. Cancel(e, c.instrument, c.id) \/ UNCHANGED vars
    BY <1>3 DEF PopCancel
  <2> QED BY <2>3, <2>4, Shards DEF Next
<1>4. ASSUME NEW e \in Engines, HandleSubmit(e) PROVE Next
  BY <1>4, Shards DEF HandleSubmit, Next
<1>5. \A s \in Slots : submit(s) => UNCHANGED vars
  BY DEF submit, Send
<1>6. \A e \in NewOrders : cancel(e.instrument, e.id) => UNCHANGED vars
  BY DEF cancel, Send
<1>7. CountSubmitted \/ WaitIdle \/ WaitReturn \/ Destroy \/ JoinAll
        => UNCHANGED vars
  BY DEF CountSubmitted, WaitIdle, WaitReturn, Destroy, JoinAll
<1>8. \A e \in Engines : CountProcessed(e) \/ SeeStop(e) \/ Exit(e) \/ CheckShard(e)
        \/ StopShard(e) => UNCHANGED vars
  BY DEF CountProcessed, SeeStop, Exit, CheckShard, StopShard
<1>9. UNCHANGED allVars => UNCHANGED vars
  BY DEF allVars
<1> QED BY <1>1, <1>2, <1>3, <1>4, <1>5, <1>6, <1>7, <1>8, <1>9, SMTT(20) DEF ShardNext

-----------------------------------------------------------------------------
(* The invariant of the queues, the counters, the workers and the client,  *)
(* together with that of Matching, holds in every state.                   *)
THEOREM ShardInvariance == ShardSpec => []ShardInv
(* Initially the queues are empty and the workers wait. *)
<1>InitShardInv.
      ShardInit => ShardInv
  <2> SUFFICES ASSUME ShardInit PROVE ShardInv
    OBVIOUS
  <2>1. IInv
    BY InitIInv DEF ShardInit
  <2>2. ShardTypes
    BY SMTT(20) DEF ShardInit, ShardTypes
  <2>3. CountersMatchWork
    BY SMTT(20) DEF ShardInit, CountersMatchWork
  <2>4. \A e \in Engines : WorkerInv(e) /\ ClientInv(e)
    BY Shards DEF ShardInit, Init, WorkerInv, ClientInv
  <2> QED BY <2>1, <2>2, <2>3, <2>4 DEF ShardInv, QueueInv
(* Every step of the client and of the workers preserves the invariant. *)
<1>NextShardInv.
        ASSUME ShardInv, [ShardNext]_allVars
        PROVE  ShardInv'
      (* submit and cancel put one command in one queue, the one CountSubmitted  *)
      (* then counts.                                                            *)
  <2>SendInv.
        ASSUME QueueInv, NEW i \in Instruments, NEW d, NEW cmd \in Command, Send(i, d, cmd)
        PROVE  QueueInv'
    <3> USE <2>SendInv
    <3> DEFINE f == shard_for(i)
    <3>1. f \in Engines
      BY Shards
    <3> HIDE DEF f
    <3>2. /\ client \in {"ready", "idle"} /\ client' = "sent" /\ todo' = {f}
          /\ cmds' = [cmds EXCEPT ![f] = Append(@, cmd)]
          /\ UNCHANGED <<vars, submitted, processed, stop, worker, busy>>
      BY DEF Send, BetweenCalls, f
    <3>3. ShardTypes'
      BY <3>1, <3>2, SMTT(20) DEF QueueInv, ShardTypes
    <3>4. CountersMatchWork'
      <4> DEFINE inHand(e) == IF busy[e] THEN 1 ELSE 0
      <4> SUFFICES ASSUME NEW e \in Engines
                   PROVE  submitted[e] + (IF e = f THEN 1 ELSE 0)
                            = processed[e] + Len(cmds'[e]) + inHand(e)
        BY <3>2 DEF CountersMatchWork
      <4>1. /\ Len(cmds[e]) \in Nat /\ submitted[e] \in Nat /\ processed[e] \in Nat
            /\ inHand(e) \in Nat
        BY SMTT(20) DEF QueueInv, ShardTypes
      <4>2. submitted[e] = processed[e] + Len(cmds[e]) + inHand(e)
        BY <3>2, <4>1, SMTT(20) DEF QueueInv, CountersMatchWork
      <4>3. CASE e = f
        <5>1. Len(cmds'[e]) = Len(cmds[e]) + 1
          BY <3>2, <4>3, SMTT(20) DEF QueueInv, ShardTypes
        <5> HIDE DEF inHand
        <5> QED BY <4>1, <4>2, <4>3, <5>1, SMTT(20)
      <4>4. CASE e # f
        <5>1. cmds'[e] = cmds[e]
          BY <3>2, <4>4 DEF QueueInv, ShardTypes
        <5> HIDE DEF inHand
        <5> QED BY <4>1, <4>2, <4>4, <5>1, SMTT(20)
      <4> QED BY <4>3, <4>4
    <3>5. ASSUME NEW e \in Engines PROVE WorkerInv(e)' /\ ClientInv(e)'
      <4>1. ~stop[e] /\ worker[e] = "run"
        BY <3>2, SMTT(20) DEF QueueInv, WorkerInv
      <4> QED BY <3>2 DEF QueueInv, WorkerInv, ClientInv, Done, vars
    <3> QED BY <3>3, <3>4, <3>5 DEF QueueInv
  (* The steps of the client that leave the queues alone. *)
  <2>ClientInvStep.
        ASSUME QueueInv,
               \/ CountSubmitted \/ WaitIdle \/ WaitReturn \/ Destroy \/ JoinAll
               \/ \E e \in Engines : CheckShard(e) \/ StopShard(e)
        PROVE  QueueInv'
    <3> USE <2>ClientInvStep
    <3> USE DEF QueueInv, Done, vars
    <3>1. CASE CountSubmitted
      <4>1. ShardTypes'
        BY <3>1, SMTT(20) DEF CountSubmitted, ShardTypes
      <4>2. CountersMatchWork'
        BY <3>1, SMTT(20) DEF CountSubmitted, ShardTypes, CountersMatchWork
      <4>3. \A e \in Engines : WorkerInv(e)' /\ ClientInv(e)'
        BY <3>1 DEF CountSubmitted, WorkerInv, ClientInv
      <4> QED BY <4>1, <4>2, <4>3
    <3>2. CASE WaitIdle \/ WaitReturn \/ Destroy \/ JoinAll
      <4> USE DEF BetweenCalls, WaitIdle, WaitReturn, Destroy, JoinAll
      <4>1. /\ UNCHANGED <<cmds, submitted, processed, stop, worker, busy>>
            /\ client # "sent" /\ client' # "sent" /\ todo' \in {todo, Engines}
        BY <3>2, SMTT(20)
      <4>2. ShardTypes'
        BY <4>1 DEF ShardTypes
      <4>3. CountersMatchWork'
        BY <4>1 DEF CountersMatchWork
      <4>4. \A e \in Engines : WorkerInv(e)' /\ ClientInv(e)'
        BY <3>2 DEF WorkerInv, ClientInv
      <4> QED BY <4>2, <4>3, <4>4
    <3>3. ASSUME NEW f \in Engines, CheckShard(f) PROVE QueueInv'
      <4>1. ShardTypes'
        BY <3>3 DEF CheckShard, ShardTypes
      <4>2. CountersMatchWork'
        BY <3>3 DEF CheckShard, CountersMatchWork
      <4>3. submitted[f] = processed[f] => Done(f)
        BY <3>3, SMTT(20) DEF CheckShard, CountersMatchWork, ShardTypes
      <4>4. \A e \in Engines : WorkerInv(e)' /\ ClientInv(e)'
        BY <3>3, <4>3 DEF CheckShard, WorkerInv, ClientInv
      <4> QED BY <4>1, <4>2, <4>4
    <3>4. ASSUME NEW f \in Engines, StopShard(f) PROVE QueueInv'
      <4>1. ShardTypes'
        BY <3>4 DEF StopShard, ShardTypes
      <4>2. CountersMatchWork'
        BY <3>4 DEF StopShard, CountersMatchWork
      <4>3. \A e \in Engines : WorkerInv(e)' /\ ClientInv(e)'
        BY <3>4, SMTT(20) DEF StopShard, ShardTypes, WorkerInv, ClientInv
      <4> QED BY <4>1, <4>2, <4>3
    <3> QED BY <3>1, <3>2, <3>3, <3>4
  (* A call of one worker's engine leaves the calls of the others alone. *)
  <2>OwnCall.
        ASSUME IInv, NEW e \in Engines, NEW f \in Engines, f # e,
               \/ \E s : Submit(e, s)
               \/ Trade(e) \/ StopMatching(e) \/ Settle(e) \/ Return(e)
        PROVE  pc'[f] = pc[f]
    <3> USE <2>OwnCall
    <3>1. pc \in [Threads -> {"idle", "match", "settle", "return"}]
      BY DEF IInv, TypeOK
    <3>2. CASE \E s : Submit(e, s)
      BY <3>1, <3>2, Shards DEF Submit
    <3>3. CASE Trade(e)
      BY <3>3 DEF Trade
    <3>4. CASE StopMatching(e) \/ Settle(e) \/ Return(e)
      <4>1. PICK p : pc' = [pc EXCEPT ![e] = p]
        BY <3>4 DEF StopMatching, Settle, Return
      <4> QED BY <4>1, SMTT(20)
    <3> QED BY <3>2, <3>3, <3>4
  (* A worker takes the first command of its queue in hand. *)
  <2>PopInv.
        ASSUME ShardInv, NEW f \in Engines, PopSubmit(f) \/ PopCancel(f)
        PROVE  QueueInv'
    <3> USE <2>PopInv
    <3>1. /\ worker[f] # "exit" /\ ~busy[f] /\ cmds[f] # <<>>
          /\ cmds' = [cmds EXCEPT ![f] = Tail(@)]
          /\ busy' = [busy EXCEPT ![f] = TRUE]
          /\ UNCHANGED <<submitted, processed, stop, worker, client, todo>>
      BY DEF PopSubmit, PopCancel, Pop, clientVars
    <3>2. ShardTypes'
      BY <3>1, SMTT(20) DEF ShardInv, QueueInv, ShardTypes
    <3>3. CountersMatchWork'
      <4> DEFINE late(e) == IF client = "sent" /\ e \in todo THEN 1 ELSE 0
                 inHand(e) == IF busy[e] THEN 1 ELSE 0
      <4> SUFFICES ASSUME NEW e \in Engines
                   PROVE  submitted[e] + late(e)
                            = processed[e] + Len(cmds'[e]) + (IF busy'[e] THEN 1 ELSE 0)
        BY <3>1 DEF CountersMatchWork
      <4>1. /\ Len(cmds[e]) \in Nat /\ submitted[e] \in Nat /\ processed[e] \in Nat
            /\ inHand(e) \in Nat /\ late(e) \in Nat
        BY SMTT(20) DEF ShardInv, QueueInv, ShardTypes
      <4>2. submitted[e] + late(e) = processed[e] + Len(cmds[e]) + inHand(e)
        BY DEF ShardInv, QueueInv, CountersMatchWork
      <4>3. CASE e = f
        <5>1. Len(cmds'[e]) = Len(cmds[e]) - 1
          BY <3>1, <4>3, SMTT(20) DEF ShardInv, QueueInv, ShardTypes
        <5>2. inHand(e) = 0 /\ busy'[e]
          BY <3>1, <4>3 DEF ShardInv, QueueInv, ShardTypes
        <5> HIDE DEF late, inHand
        <5> QED BY <4>1, <4>2, <5>1, <5>2, SMTT(20)
      <4>4. CASE e # f
        <5>1. cmds'[e] = cmds[e] /\ busy'[e] = busy[e]
          BY <3>1, <4>4 DEF ShardInv, QueueInv, ShardTypes
        <5> QED BY <4>2, <5>1
      <4> QED BY <4>3, <4>4
    <3>4. ASSUME NEW e \in Engines PROVE WorkerInv(e)' /\ ClientInv(e)'
      <4>1. WorkerInv(e) /\ ClientInv(e)
        BY DEF ShardInv, QueueInv
      <4>2. CASE e = f
        <5>1. busy'[e] /\ ~Done(e)
          BY <3>1, <4>2 DEF ShardInv, QueueInv, ShardTypes, Done
        <5> QED BY <3>1, <4>1, <5>1 DEF WorkerInv, ClientInv
      <4>3. CASE e # f
        <5>1. cmds'[e] = cmds[e] /\ busy'[e] = busy[e]
          BY <3>1, <4>3 DEF ShardInv, QueueInv, ShardTypes
        <5>2. pc'[e] = pc[e]
          BY <4>3, <2>OwnCall DEF ShardInv, PopSubmit, PopCancel, Cancel, callVars, vars
        <5> QED BY <3>1, <4>1, <5>2, SMTT(20) DEF WorkerInv, ClientInv, Done
      <4> QED BY <4>2, <4>3
    <3> QED BY <3>2, <3>3, <3>4 DEF QueueInv
  (* A worker works on its command, counts it, or leaves a loop. *)
  <2>WorkInv.
        ASSUME ShardInv, NEW f \in Engines,
               HandleSubmit(f) \/ CountProcessed(f) \/ SeeStop(f) \/ Exit(f)
        PROVE  QueueInv'
    <3> USE <2>WorkInv
    <3>1. CASE HandleSubmit(f)
      <4>1. UNCHANGED <<cmds, submitted, processed, stop, worker, busy, client, todo>>
        BY <3>1 DEF HandleSubmit, shardVars, clientVars
      <4>2. ShardTypes' /\ CountersMatchWork'
        BY <4>1 DEF ShardInv, QueueInv, ShardTypes, CountersMatchWork
      <4>3. pc[f] # "idle"
        BY <3>1 DEF HandleSubmit, Trade, StopMatching, Settle, Return
      <4>4. busy[f]
        BY <4>3 DEF ShardInv, QueueInv, WorkerInv
      <4>5. \A e \in Engines : e # f => pc'[e] = pc[e]
        BY <3>1, <2>OwnCall DEF HandleSubmit, ShardInv
      <4>6. \A e \in Engines : WorkerInv(e)' /\ ClientInv(e)'
        BY <4>1, <4>4, <4>5 DEF ShardInv, QueueInv, WorkerInv, ClientInv, Done
      <4> QED BY <4>2, <4>6 DEF QueueInv
    <3>2. CASE CountProcessed(f)
      <4>1. /\ busy[f] /\ pc[f] = "idle"
            /\ processed' = [processed EXCEPT ![f] = @ + 1]
            /\ busy' = [busy EXCEPT ![f] = FALSE]
            /\ UNCHANGED <<pc, cmds, submitted, stop, worker, client, todo>>
        BY <3>2 DEF CountProcessed, vars, clientVars
      <4>2. ShardTypes'
        BY <4>1, SMTT(20) DEF ShardInv, QueueInv, ShardTypes
      <4>3. CountersMatchWork'
        BY <4>1, SMTT(20) DEF ShardInv, QueueInv, ShardTypes, CountersMatchWork
      <4>4. \A e \in Engines : WorkerInv(e)' /\ ClientInv(e)'
        BY <4>1 DEF ShardInv, QueueInv, ShardTypes, WorkerInv, ClientInv, Done
      <4> QED BY <4>2, <4>3, <4>4 DEF QueueInv
    <3>3. CASE SeeStop(f) \/ Exit(f)
      <4> USE DEF ShardInv, QueueInv, SeeStop, Exit, vars, clientVars
      <4>1. ShardTypes'
        BY <3>3, ZenonT(30) DEF ShardTypes
      <4>2. CountersMatchWork'
        BY <3>3 DEF CountersMatchWork
      <4>3. \A e \in Engines : WorkerInv(e)' /\ ClientInv(e)'
        BY <3>3, SMTT(20) DEF ShardTypes, WorkerInv, ClientInv, Done
      <4> QED BY <4>1, <4>2, <4>3
    <3> QED BY <3>1, <3>2, <3>3
  <2> USE <1>NextShardInv
  <2>1. IInv'
    BY StepIsMatching, NextIInv, WorkersAreSingle DEF ShardInv, QueueInv
  <2>2. ASSUME NEW s \in Slots, submit(s) PROVE QueueInv'
    <3>1. ord[s] \in Order
      <4>1. s \in held /\ ord[s] # None
        BY <2>2 DEF submit, ShardInv, IInv, CallInv
      <4> QED BY <4>1 DEF ShardInv, IInv, TypeOK
    <3>2. ord[s].instrument \in Instruments /\ ord[s].id \in Ids
      BY <3>1 DEF Order
    <3>3. [kind |-> "Submit", instrument |-> ord[s].instrument, order |-> s] \in Command
      BY <3>2 DEF Command
    <3> QED BY <2>2, <3>2, <3>3, <2>SendInv DEF submit, ShardInv
  <2>3. ASSUME NEW e \in NewOrders, cancel(e.instrument, e.id) PROVE QueueInv'
    <3>1. e.instrument \in Instruments /\ e.id \in Ids
      BY Shards
    <3>2. [kind |-> "Cancel", instrument |-> e.instrument, id |-> e.id] \in Command
      BY <3>1 DEF Command
    <3> QED BY <2>3, <3>1, <3>2, <2>SendInv DEF cancel, ShardInv
  <2>4. ASSUME UNCHANGED shardVars, UNCHANGED pc PROVE QueueInv'
    <3>1. UNCHANGED <<cmds, submitted, processed, stop, worker, busy, client, todo>>
      BY <2>4 DEF shardVars, clientVars
    <3>2. ShardTypes' /\ CountersMatchWork'
      BY <3>1 DEF ShardInv, QueueInv, ShardTypes, CountersMatchWork
    <3>3. \A e \in Engines : WorkerInv(e)' /\ ClientInv(e)'
      BY <2>4, <3>1, SMTT(20) DEF ShardInv, QueueInv, WorkerInv, ClientInv, Done
    <3> QED BY <3>2, <3>3 DEF QueueInv
  <2>5. \A s \in Slots, e \in NewOrders :
          acquire_order(s, e) => UNCHANGED shardVars /\ UNCHANGED pc
    BY DEF acquire_order, Acquire, callVars
  <2>6. UNCHANGED allVars => UNCHANGED shardVars /\ UNCHANGED pc
    BY DEF allVars, vars
  <2>7. QueueInv'
    BY <2>2, <2>3, <2>4, <2>5, <2>6, <2>ClientInvStep, <2>PopInv, <2>WorkInv
       DEF ShardNext, ShardInv
  <2> QED BY <2>1, <2>7 DEF ShardInv
<1>1. ShardInit => ShardInv
  BY <1>InitShardInv
<1>2. ShardInv /\ [ShardNext]_allVars => ShardInv'
  BY <1>NextShardInv
<1> QED BY <1>1, <1>2, PTL DEF ShardSpec

(* submitted and processed of a shard differ by the commands it has still  *)
(* to do, in every interleaving of client and worker.                      *)
THEOREM CountersAreExact == ShardSpec => []CountersMatchWork
<1>1. ShardInv => CountersMatchWork
  BY DEF ShardInv, QueueInv
<1> QED BY <1>1, ShardInvariance, PTL

(* When wait_idle returns all shards are idle at the same time, however    *)
(* many there are.                                                         *)
THEOREM WaitIdleIsSound == ShardSpec => []IdleMeansDone
<1>1. ShardInv => IdleMeansDone
  BY DEF ShardInv, QueueInv, WorkerInv, ClientInv, Done, IdleMeansDone
<1> QED BY <1>1, ShardInvariance, PTL

(* ~ShardedMatcher leaves no command behind. *)
THEOREM DestructorDrains == ShardSpec => []DestroyedIsDrained
<1>1. ShardInv => DestroyedIsDrained
  BY DEF ShardInv, QueueInv, WorkerInv, ClientInv, Done, DestroyedIsDrained
<1> QED BY <1>1, ShardInvariance, PTL

(* The engines of the shards behave as Matching with one thread for each,  *)
(* so that what holds there of every book and slot holds here.             *)
LEMMA ShardsAreEngines == ShardSpec => Spec
<1>1. ShardInit => Init
  BY DEF ShardInit
<1>2. ShardInv /\ [ShardNext]_allVars => [Next]_vars
  BY StepIsMatching DEF ShardInv, QueueInv
<1> QED BY <1>1, <1>2, ShardInvariance, PTL DEF ShardSpec, Spec

(* So the worker threads share the Pool without a double owner, no book of *)
(* any shard is crossed, and the best order that came first trades first.  *)
THEOREM ShardsMatchSoundly ==
  ShardSpec => []OneOwner /\ []NotCrossed /\ []RemainderHasNoMatch /\ PriceTimePriority
<1>1. Spec => []OneOwner
  BY PoolSafe, WorkersAreSingle
<1>2. Spec => []NotCrossed
  BY BooksSound, WorkersAreSingle
<1>3. Spec => []RemainderHasNoMatch
  BY MatchIsComplete, WorkersAreSingle
<1>4. Spec => PriceTimePriority
  BY Priority, WorkersAreSingle
<1> QED BY <1>1, <1>2, <1>3, <1>4, ShardsAreEngines, PTL
=============================================================================
