--------------------------- MODULE MatchingFills ----------------------------
(***************************************************************************)
(* What the fills of a call add up to: the inductive invariant behind      *)
(* FillOrKill, TradesExplainFill and RestingCanTrade.  IInv knows where    *)
(* the orders are; FillInv knows what they still have to fill.             *)
(***************************************************************************)
EXTENDS MatchingProofs, FiniteSetTheorems, TLAPS

(* Zenon proves a step that names no prover; the SMT solver is named where arithmetic,
   sequences or records are needed. *)
USE ZenonT(20)

-----------------------------------------------------------------------------
(* A non-empty set of natural numbers has a least member. *)
LEMMA LeastNat ==
  ASSUME NEW T, T \subseteq Nat, T # {}
  PROVE  \E x \in T : \A y \in T : x <= y
<1>1. \E x \in T : \A y \in T : ~(<<y, x>> \in OpToRel(<, Nat))
  BY NatLessThanWellFounded, WFMin
<1>2. \A x, y \in Nat : ~(<<y, x>> \in OpToRel(<, Nat)) => x <= y
  BY SMTT(20) DEF OpToRel
<1> QED BY <1>1, <1>2

(* Sums.  A sum counts units, so that adding up in the order of the fold   *)
(* gives what adding up in any order gives.  The recursion of the fold is  *)
(* met by a least counterexample instead of an induction.                  *)

(* The units that make up the values of f on S, each with its place. *)
Units(f, S) == UNION {{x} \X (1..f[x]) : x \in S}

(* One more place adds its units. *)
LEMMA UnitsAdd ==
  ASSUME NEW D, NEW f \in [D -> Nat], NEW S \in SUBSET D, NEW x \in S,
         IsFiniteSet(Units(f, S \ {x}))
  PROVE  /\ IsFiniteSet(Units(f, S))
         /\ Cardinality(Units(f, S)) = f[x] + Cardinality(Units(f, S \ {x}))
         /\ Cardinality(Units(f, S \ {x})) \in Nat
<1> DEFINE A == {x} \X (1..f[x])
           B == Units(f, S \ {x})
<1>1. f[x] \in Nat
  OBVIOUS
<1>2. IsFiniteSet(A) /\ Cardinality(A) = f[x]
  <2>1. IsFiniteSet({x}) /\ Cardinality({x}) = 1
    BY FS_Singleton
  <2>2. IsFiniteSet(1..f[x]) /\ Cardinality(1..f[x]) = f[x]
    BY <1>1, FS_Interval, SMTT(20)
  <2> QED BY <1>1, <2>1, <2>2, FS_Product, SMTT(20)
<1>3. A \cap B = {}
  BY SMTT(20) DEF Units
<1>4. Units(f, S) = A \cup B
  BY DEF Units
<1>5. Cardinality(B) \in Nat
  BY FS_CardinalityType
<1> HIDE DEF A, B
<1>6. /\ IsFiniteSet(A \cup B)
      /\ Cardinality(A \cup B) = Cardinality(A) + Cardinality(B) - Cardinality(A \cap B)
  BY <1>2, FS_Union DEF B
<1>7. Cardinality(A \cup B) = f[x] + Cardinality(B)
  <2>1. Cardinality(A \cap B) = 0
    BY <1>3, FS_EmptySet
  <2> QED BY <1>1, <1>2, <1>5, <1>6, <2>1, SMTT(20)
<1> QED BY <1>4, <1>5, <1>6, <1>7 DEF B

(* A finite set of places has finitely many units. *)
LEMMA UnitsFinite ==
  ASSUME NEW D, IsFiniteSet(D), NEW f \in [D -> Nat]
  PROVE  \A S \in SUBSET D : IsFiniteSet(Units(f, S)) /\ Cardinality(Units(f, S)) \in Nat
<1> DEFINE Bad == {S \in SUBSET D : ~IsFiniteSet(Units(f, S))}
           T == {Cardinality(S) : S \in Bad}
<1>1. \A S \in SUBSET D : IsFiniteSet(S) /\ Cardinality(S) \in Nat
  BY FS_Subset, FS_CardinalityType
<1>2. Bad = {}
  <2> SUFFICES ASSUME Bad # {} PROVE FALSE
    OBVIOUS
  <2>1. T \subseteq Nat /\ T # {}
    BY <1>1, SMTT(20)
  <2>2. PICK n \in T : \A m \in T : n <= m
    BY <2>1, LeastNat
  <2>3. PICK S \in Bad : n = Cardinality(S)
    BY <2>2
  <2>4. S # {}
    <3>1. Units(f, {}) = {}
      BY DEF Units
    <3> QED BY <3>1, <2>3, FS_EmptySet
  <2>5. PICK x \in S : TRUE
    BY <2>4
  <2>6. Cardinality(S \ {x}) = Cardinality(S) - 1
    BY <1>1, <2>3, <2>5, FS_RemoveElement
  <2>7. S \ {x} \notin Bad
    BY <1>1, <2>1, <2>2, <2>3, <2>6, SMTT(20)
  <2> QED BY <2>3, <2>5, <2>7, UnitsAdd
<1> QED BY <1>2, FS_CardinalityType

(* A sum counts units. *)
LEMMA SumCounts ==
  ASSUME NEW D, IsFiniteSet(D), NEW f \in [D -> Nat]
  PROVE  SumFunction(f) = Cardinality(Units(f, D))
<1> DEFINE pick(s) == CHOOSE x \in s : TRUE
           step(h) == [s \in SUBSET D |-> IF s = {} THEN 0 ELSE f[pick(s)] + h[s \ {pick(s)}]]
           g == [s \in SUBSET D |-> Cardinality(Units(f, s))]
           h == CHOOSE i : i = step(i)
<1>1. SumFunction(f) = h[D]
  BY DEF SumFunction, SumFunctionOnSet, FoldFunctionOnSet, MapThenFoldSet
<1>2. \A s \in SUBSET D : s # {} => pick(s) \in s
  OBVIOUS
<1>3. \A s \in SUBSET D : IsFiniteSet(s) /\ Cardinality(s) \in Nat
  BY FS_Subset, FS_CardinalityType
<1> HIDE DEF pick
<1>4. g = step(g)
  <2>1. ASSUME NEW s \in SUBSET D
        PROVE  Cardinality(Units(f, s))
                 = IF s = {} THEN 0 ELSE f[pick(s)] + Cardinality(Units(f, s \ {pick(s)}))
    <3>1. CASE s = {}
      <4>1. Units(f, {}) = {}
        BY DEF Units
      <4> QED BY <3>1, <4>1, FS_EmptySet
    <3>2. CASE s # {}
      <4>1. IsFiniteSet(Units(f, s \ {pick(s)}))
        BY UnitsFinite
      <4> QED BY <3>2, <4>1, <1>2, UnitsAdd, SMTT(20)
    <3> QED BY <3>1, <3>2
  <2> QED BY <2>1
<1>5. h = step(h)
  <2> HIDE DEF g, step
  <2>1. \E i : i = step(i)
    BY <1>4
  <2> QED BY <2>1
<1> HIDE DEF h
<1>6. \A s \in SUBSET D : h[s] = IF s = {} THEN 0 ELSE f[pick(s)] + h[s \ {pick(s)}]
  BY <1>5
<1>7. \A s \in SUBSET D : g[s] = IF s = {} THEN 0 ELSE f[pick(s)] + g[s \ {pick(s)}]
  BY <1>4
<1> HIDE DEF g
<1> DEFINE Bad == {s \in SUBSET D : h[s] # g[s]}
           T == {Cardinality(s) : s \in Bad}
<1>8. Bad = {}
  <2> SUFFICES ASSUME Bad # {} PROVE FALSE
    OBVIOUS
  <2>1. T \subseteq Nat /\ T # {}
    BY <1>3
  <2>2. PICK n \in T : \A m \in T : n <= m
    BY <2>1, LeastNat
  <2>3. PICK s \in Bad : n = Cardinality(s)
    BY <2>2
  <2>4. s # {}
    BY <1>6, <1>7, <2>3
  <2>5. Cardinality(s \ {pick(s)}) = Cardinality(s) - 1
    BY <1>2, <1>3, <2>3, <2>4, FS_RemoveElement
  <2>6. s \ {pick(s)} \notin Bad
    BY <1>3, <2>1, <2>2, <2>3, <2>5, SMTT(20)
  <2> QED BY <1>6, <1>7, <2>3, <2>4, <2>6
<1>9. h[D] = g[D]
  BY <1>8
<1> QED BY <1>1, <1>9 DEF g

(* The sum of no numbers, and what one number contributes. *)
LEMMA SumProperties ==
  ASSUME NEW D, IsFiniteSet(D), NEW f \in [D -> Nat]
  PROVE  /\ SumFunction(f) \in Nat
         /\ D = {} => SumFunction(f) = 0
         /\ \A x \in D :
              SumFunction(f) = f[x] + SumFunction([y \in D \ {x} |-> f[y]])
<1>1. SumFunction(f) = Cardinality(Units(f, D)) /\ Cardinality(Units(f, D)) \in Nat
  BY SumCounts, UnitsFinite
<1>2. ASSUME D = {} PROVE SumFunction(f) = 0
  BY <1>1, <1>2, FS_EmptySet DEF Units
<1>3. ASSUME NEW x \in D
      PROVE  SumFunction(f) = f[x] + SumFunction([y \in D \ {x} |-> f[y]])
  <2> DEFINE g == [y \in D \ {x} |-> f[y]]
  <2>1. IsFiniteSet(D \ {x}) /\ g \in [D \ {x} -> Nat]
    BY FS_RemoveElement
  <2>2. Units(g, D \ {x}) = Units(f, D \ {x})
    BY DEF Units
  <2> HIDE DEF g
  <2>3. SumFunction(g) = Cardinality(Units(f, D \ {x}))
    BY <2>1, <2>2, SumCounts
  <2>4. IsFiniteSet(Units(f, D \ {x}))
    BY UnitsFinite
  <2> QED BY <1>1, <2>3, <2>4, UnitsAdd, SMTT(20) DEF g
<1> QED BY <1>1, <1>2, <1>3

(* What the last number of a sequence contributes to their sum. *)
LEMMA SumLast ==
  ASSUME NEW n \in Nat, NEW f \in [1..n + 1 -> Nat]
  PROVE  SumFunction(f) = f[n + 1] + SumFunction([i \in 1..n |-> f[i]])
<1>1. IsFiniteSet(1..n + 1)
  BY FS_Interval, SMTT(20)
<1>2. n + 1 \in 1..n + 1 /\ (1..n + 1) \ {n + 1} = 1..n
  BY SMTT(20)
<1> DEFINE D == 1..n + 1
<1> HIDE DEF D
<1>3. IsFiniteSet(D) /\ f \in [D -> Nat] /\ n + 1 \in D
  BY <1>1, <1>2 DEF D
<1>4. SumFunction(f) = f[n + 1] + SumFunction([i \in D \ {n + 1} |-> f[i]])
  BY <1>3, SumProperties, SMTT(20)
<1>5. D \ {n + 1} = 1..n
  BY <1>2 DEF D
<1> QED BY <1>4, <1>5

-----------------------------------------------------------------------------
(* No level left on the other side is better than the last trade. *)
NoBetter(t) ==
  trades[t] # <<>> =>
    \A k \in levels :
      k[1] = ord[taker[t]].instrument /\ k[2] = opposite(ord[taker[t]].side) =>
        ~Precedes(k[2], k[3], trades[t][Len(trades[t])].price)

(* What the fills of a call guarantee: between two iterations of the match *)
(* loop the book still covers what a fill-or-kill order has left.          *)
FillCall(t) ==
  IF pc[t] = "idle" THEN trades[t] = <<>>
  ELSE /\ Explains(trades[t], ord[taker[t]])
       /\ pc[t] = "match" => NoBetter(t)
       /\ ord[taker[t]].tif = "FOK" =>
            /\ pc[t] = "match" => can_fully_fill(ord[taker[t]])
            /\ pc[t] = "settle" => remaining(ord[taker[t]]) = 0
            /\ pc[t] = "return" =>
                 \/ ord[taker[t]].status = "Filled" /\ remaining(ord[taker[t]]) = 0
                 \/ ord[taker[t]].status = "Rejected" /\ ord[taker[t]].filled_qty = 0

(* The inductive invariant of the fills, on top of IInv. *)
FillInv ==
  /\ \A s \in held : ord[s].filled_qty = 0
  /\ RestingCanTrade
  /\ \A t \in Threads : FillCall(t)

(* A step leaves the book of an instrument alone. *)
SameBookOf(i) ==
  \A k \in Level : k[1] = i =>
    /\ k \in levels' <=> k \in levels
    /\ queue'[k] = queue[k]
    /\ \A s \in Range(queue[k]) : ord'[s] = ord[s]

(* In a book that is left alone an order finds what it found. *)
LEMMA SameSupply ==
  ASSUME levels \subseteq Level, levels' \subseteq Level, NEW o, SameBookOf(o.instrument),
         can_fully_fill(o)
  PROVE  can_fully_fill(o)'
<1>1. Reached(o)' = Reached(o)
  BY DEF Reached, SameBookOf
<1>2. Reached(o) \subseteq Level /\ \A k \in Reached(o) : k[1] = o.instrument
  BY DEF Reached
<1>3. \A k \in Reached(o) : queue'[k] = queue[k] /\ \A s \in Range(queue[k]) : ord'[s] = ord[s]
  BY <1>2 DEF SameBookOf
<1>4. MakersFor(o)' = MakersFor(o) /\ \A s \in MakersFor(o) : ord'[s] = ord[s]
  BY <1>1, <1>3 DEF MakersFor
<1>5. [s \in MakersFor(o)' |-> remaining(ord'[s])] = [s \in MakersFor(o) |-> remaining(ord[s])]
  BY <1>4
<1> QED BY <1>5 DEF can_fully_fill

(* What a step of another thread leaves of a call. *)
LEMMA OtherFill ==
  ASSUME levels \subseteq Level, levels' \subseteq Level, NEW u \in Threads, FillCall(u),
         pc'[u] = pc[u], taker'[u] = taker[u], trades'[u] = trades[u],
         pc[u] # "idle" => ord'[taker[u]] = ord[taker[u]],
         pc[u] = "match" => SameBookOf(ord[taker[u]].instrument)
  PROVE  FillCall(u)'
<1>1. CASE pc[u] = "idle"
  BY <1>1 DEF FillCall
<1>2. CASE pc[u] # "idle"
  <2>1. PICK o : o = ord[taker[u]]
    OBVIOUS
  <2>2. ord'[taker'[u]] = o
    BY <1>2, <2>1
  <2>3. pc[u] = "match" /\ o.tif = "FOK" => can_fully_fill(o)'
    BY <1>2, <2>1, SameSupply DEF FillCall
  <2>4. pc[u] = "match" => NoBetter(u)'
    BY <1>2, <2>1, <2>2, SMTT(20) DEF FillCall, NoBetter, SameBookOf
  <2> QED BY <1>2, <2>1, <2>2, <2>3, <2>4 DEF FillCall
<1> QED BY <1>1, <1>2

(* An order that leaves its level leaves the other levels alone. *)
LEMMA UnrestApart ==
  ASSUME BookType, LevelsOwn, NEW k \in Level, NEW n \in 1..Len(queue[k]), Unrest(k, n)
  PROVE  /\ Resting' \subseteq Resting
         /\ levels' \subseteq levels
         /\ \A j \in Level \ {k} : queue'[j] = queue[j] /\ (j \in levels' <=> j \in levels)
<1>1. /\ queue' = [queue EXCEPT ![k] = Without(queue[k], n)]
      /\ levels' = IF Without(queue[k], n) = <<>> THEN levels \ {k} ELSE levels
  BY DEF Unrest
<1>2. \A j \in Level \ {k} : queue'[j] = queue[j] /\ (j \in levels' <=> j \in levels)
  BY <1>1 DEF BookType
<1>3. Range(Without(queue[k], n)) \subseteq Range(queue[k])
  BY QueueFacts, WithoutRange, SMTT(20) DEF LevelsOwn
<1>4. \A j \in Level : Range(queue'[j]) \subseteq Range(queue[j])
  BY <1>1, <1>3 DEF BookType
<1>5. Resting' \subseteq Resting
  BY <1>4 DEF Resting
<1> QED BY <1>1, <1>2, <1>5

(* So does an order that comes to rest. *)
LEMMA AddApart ==
  ASSUME BookType, NEW o \in Order, NEW s \in Slots, add_resting(s, o)
  PROVE  /\ Resting' \subseteq Resting \cup {s}
         /\ \A j \in Level \ {LevelOf(o)} :
              queue'[j] = queue[j] /\ (j \in levels' <=> j \in levels)
<1> DEFINE k == LevelOf(o)
<1>1. k \in Level
  BY LevelOfType
<1>2. queue' = [queue EXCEPT ![k] = Append(queue[k], s)] /\ levels' = levels \cup {k}
  BY DEF add_resting
<1> HIDE DEF k
<1>3. Range(Append(queue[k], s)) \subseteq Range(queue[k]) \cup {s}
  BY <1>1, QueueFacts, AppendRange
<1>4. \A j \in Level : Range(queue'[j]) \subseteq Range(queue[j]) \cup {s}
  BY <1>1, <1>2, <1>3 DEF BookType
<1>5. Resting' \subseteq Resting \cup {s}
  BY <1>4 DEF Resting
<1>6. \A j \in Level \ {k} : queue'[j] = queue[j] /\ (j \in levels' <=> j \in levels)
  BY <1>2 DEF BookType
<1> QED BY <1>5, <1>6 DEF k

(* The books of the instruments a step does not touch. *)
LEMMA BookApart ==
  ASSUME LevelsOwn, NEW i,
         \A j \in Level : j[1] = i => queue'[j] = queue[j] /\ (j \in levels' <=> j \in levels),
         \A s \in Resting : ord[s].instrument = i => ord'[s] = ord[s]
  PROVE  SameBookOf(i)
<1> SUFFICES ASSUME NEW k \in Level, k[1] = i, NEW s \in Range(queue[k])
             PROVE  ord'[s] = ord[s]
  BY DEF SameBookOf
<1>1. LevelOf(ord[s]) = k /\ s \in Resting
  BY InResting DEF LevelsOwn
<1> QED BY <1>1 DEF LevelOf

(* The other threads: the step of t changes no order of theirs, and of the *)
(* books at most those of its own engine.                                  *)
LEMMA OtherFills ==
  ASSUME IInv, BookType', SingleThreaded, NEW t \in Threads,
         \A u \in Threads : FillCall(u),
         \A u \in Threads \ {t} :
           pc'[u] = pc[u] /\ taker'[u] = taker[u] /\ trades'[u] = trades[u],
         \A u \in Threads \ {t} : pc[u] # "idle" => ord'[taker[u]] = ord[taker[u]],
         \A i \in Instruments : Home[i] # EngineOf[t] =>
           \A j \in Level : j[1] = i => queue'[j] = queue[j] /\ (j \in levels' <=> j \in levels),
         \A s \in Resting : Home[ord[s].instrument] # EngineOf[t] => ord'[s] = ord[s]
  PROVE  \A u \in Threads \ {t} : FillCall(u)'
<1> SUFFICES ASSUME NEW u \in Threads \ {t} PROVE FillCall(u)'
  OBVIOUS
<1>1. BookType /\ CallType /\ LevelsOwn /\ CallInv
  BY TypeParts DEF IInv, BookInv
<1>2. ASSUME pc[u] = "match" PROVE SameBookOf(ord[taker[u]].instrument)
  <2>1. PICK i : i = ord[taker[u]].instrument
    OBVIOUS
  <2>2. Busy(u) /\ ord[taker[u]] \in Order
    BY <1>1, <1>2, SMTT(20) DEF CallInv, Busy, CallType
  <2>3. Home[i] = EngineOf[u] /\ i \in Instruments
    BY <1>2, <2>1, <2>2, LevelOfType DEF Busy, Entered
  <2>4. Home[i] # EngineOf[t]
    BY <2>3, SMTT(20) DEF SingleThreaded
  <2>5. SameBookOf(i)
    BY <1>1, <2>3, <2>4, BookApart, SMTT(20)
  <2> QED BY <2>1, <2>5
<1> QED BY <1>1, <1>2, OtherFill DEF BookType

(* What rests keeps its terms, or is filled in part and keeps them. *)
LEMMA RestKept ==
  ASSUME RestingCanTrade,
         \A r \in Resting' : CanTrade(ord'[r]) \/ (r \in Resting /\ ord'[r] = ord[r])
  PROVE  RestingCanTrade'
BY DEF RestingCanTrade

(* An order starts out unfilled. *)
LEMMA AcquireFill ==
  ASSUME IInv, FillInv, NEW s \in Slots, NEW e \in NewOrders, Acquire(s, e)
  PROVE  FillInv'
<1>1. BookType /\ CallType /\ BookInv /\ CallInv
  BY TypeParts DEF IInv
<1>2. /\ ord[s] = None /\ held' = held \cup {s}
      /\ UNCHANGED <<levels, queue, pc, taker, trades>>
  BY DEF Acquire, bookVars, callVars
<1>3. \A r \in Slots \ {s} : ord'[r] = ord[r]
  BY <1>1 DEF Acquire, CallType
<1>4. ord'[s].filled_qty = 0
  BY <1>1 DEF Acquire, CallType
<1>5. \A r \in Resting : r \in Slots /\ r # s
  BY <1>1, <1>2, RestingFacts DEF BookInv, CallType
<1>6. Resting' = Resting
  BY <1>2 DEF Resting
<1>7. RestingCanTrade'
  BY <1>3, <1>5, <1>6, RestKept DEF FillInv
<1>8. \A r \in held' : ord'[r].filled_qty = 0
  BY <1>1, <1>2, <1>3, <1>4 DEF FillInv, CallType, CallInv
<1>9. ASSUME NEW u \in Threads PROVE FillCall(u)'
  <2>1. \A i : SameBookOf(i)
    BY <1>1, <1>2, <1>3, <1>5, BookApart DEF BookInv
  <2>2. pc[u] # "idle" => ord'[taker[u]] = ord[taker[u]]
    BY <1>1, <1>2, <1>3 DEF CallInv, Busy
  <2>3. FillCall(u) /\ levels \subseteq Level /\ levels' \subseteq Level
    BY <1>1, <1>2 DEF FillInv, BookType
  <2> QED BY <1>2, <2>1, <2>2, <2>3, OtherFill
<1> QED BY <1>7, <1>8, <1>9 DEF FillInv

(* No trades yet explain that nothing is filled. *)
LEMMA NoTrades == SumFunction([n \in 1..0 |-> 0]) = 0
<1> DEFINE f == [n \in 1..0 |-> 0]
<1>1. 1..0 = {} /\ IsFiniteSet(1..0) /\ f \in [1..0 -> Nat]
  BY FS_EmptySet, SMTT(20)
<1> HIDE DEF f
<1>2. SumFunction(f) = 0
  BY <1>1, SumProperties
<1> QED BY <1>2 DEF f

(* A call starts with no fill and no trade; a fill-or-kill order gets into *)
(* the match only when the book covers it.                                 *)
LEMMA SubmitFill ==
  ASSUME IInv, IInv', SingleThreaded, FillInv, NEW t \in Threads, NEW s \in Slots, Submit(t, s)
  PROVE  FillInv'
<1>1. BookType /\ BookType' /\ CallType /\ BookInv /\ CallInv
  BY TypeParts DEF IInv, TypeOK, BookType
<1>2. /\ pc[t] = "idle" /\ s \in held /\ held' = held \ {s}
      /\ taker' = [taker EXCEPT ![t] = s]
      /\ UNCHANGED <<levels, queue, trades>>
  BY DEF Submit, bookVars
<1>3. \/ /\ Accepts(EngineOf[t], ord[s])
         /\ pc' = [pc EXCEPT ![t] = "match"] /\ ord' = ord
      \/ /\ pc' = [pc EXCEPT ![t] = "return"]
         /\ ord' = [ord EXCEPT ![s].status = "Rejected"]
  BY DEF Submit
<1>4. ord[s] # None /\ s \notin Resting /\ ord[s] \in Order /\ ord[s].filled_qty = 0
  BY <1>1, <1>2 DEF CallInv, CallType, FillInv
<1>5. /\ \A r \in Slots \ {s} : ord'[r] = ord[r]
      /\ ord'[s].filled_qty = 0 /\ ord'[s].tif = ord[s].tif
      /\ ord' # ord => ord'[s].status = "Rejected"
  BY <1>1, <1>3, <1>4, SMTT(20) DEF CallType, Order
<1>6. Resting' = Resting /\ \A r \in Resting : r \in Slots /\ ord'[r] = ord[r]
  <2>1. Resting' = Resting
    BY <1>2 DEF Resting
  <2> QED BY <2>1, <1>1, <1>4, <1>5, RestingFacts DEF BookInv, CallType
<1>7. RestingCanTrade'
  BY <1>6, RestKept DEF FillInv
<1>8. \A r \in held' : ord'[r].filled_qty = 0
  BY <1>1, <1>2, <1>5 DEF FillInv, CallType
<1>9. /\ taker'[t] = s /\ pc'[t] \in {"match", "return"}
      /\ pc'[t] = "match" => Accepts(EngineOf[t], ord[s]) /\ ord' = ord
      /\ pc'[t] = "return" => ord'[s].status = "Rejected"
      /\ \A u \in Threads \ {t} : taker'[u] = taker[u] /\ pc'[u] = pc[u]
  <2>1. taker'[t] = s /\ \A u \in Threads \ {t} : taker'[u] = taker[u]
    BY <1>1, <1>2 DEF CallType
  <2>2. CASE /\ Accepts(EngineOf[t], ord[s])
             /\ pc' = [pc EXCEPT ![t] = "match"] /\ ord' = ord
    <3>1. pc'[t] = "match" /\ \A u \in Threads \ {t} : pc'[u] = pc[u]
      BY <1>1, <2>2 DEF CallType
    <3> QED BY <2>1, <2>2, <3>1
  <2>3. CASE /\ pc' = [pc EXCEPT ![t] = "return"]
             /\ ord' = [ord EXCEPT ![s].status = "Rejected"]
    <3>1. pc'[t] = "return" /\ \A u \in Threads \ {t} : pc'[u] = pc[u]
      BY <1>1, <2>3 DEF CallType
    <3>2. ord'[s].status = "Rejected"
      BY <1>1, <1>4, <2>3 DEF CallType, Order
    <3> QED BY <2>1, <3>1, <3>2
  <2> QED BY <1>3, <2>2, <2>3
<1>10. \A u \in Threads \ {t} : FillCall(u)'
  <2>1. \A u \in Threads \ {t} : pc[u] # "idle" => ord'[taker[u]] = ord[taker[u]]
    BY <1>1, <1>2, <1>5 DEF CallInv, Busy
  <2> QED BY <1>1, <1>2, <1>6, <1>9, <2>1, OtherFills DEF FillInv
<1>11. FillCall(t)'
  <2>1. trades'[t] = <<>>
    BY <1>2 DEF FillInv, FillCall
  <2>2. Explains(<<>>, ord'[s])
    <3>1. Len(<<>>) = 0 /\ 1..0 = {}
      BY SMTT(20)
    <3>2. [n \in 1..Len(<<>>) |-> <<>>[n].quantity] = [n \in 1..0 |-> 0]
      BY <3>1
    <3> QED BY <1>5, <3>1, <3>2, NoTrades DEF Explains
  <2>3. pc'[t] = "match" /\ ord[s].tif = "FOK" => can_fully_fill(ord[taker[t]])'
    <3> SUFFICES ASSUME pc'[t] = "match", ord[s].tif = "FOK"
                 PROVE  can_fully_fill(ord[taker[t]])'
      OBVIOUS
    <3>1. PICK o : o = ord[s]
      OBVIOUS
    <3>2. can_fully_fill(o) /\ ord' = ord /\ ord'[taker'[t]] = o
      BY <1>9, <3>1 DEF Accepts
    <3>3. can_fully_fill(o)'
      BY <1>2, <3>2 DEF can_fully_fill, MakersFor, Reached
    <3> QED BY <3>2, <3>3
  <2>4. pc'[t] = "match" => NoBetter(t)'
    BY <2>1 DEF NoBetter
  <2> QED BY <1>5, <1>9, <2>1, <2>2, <2>3, <2>4 DEF FillCall
<1> QED BY <1>7, <1>8, <1>10, <1>11 DEF FillInv

(* The loop ends with a fill-or-kill order complete: had it something left *)
(* to fill, the book that covers it would have a level to trade with.      *)
LEMMA StopFill ==
  ASSUME IInv, IInv', SingleThreaded, FillInv, NEW t \in Threads, StopMatching(t)
  PROVE  FillInv'
<1>1. BookType /\ BookType' /\ CallType /\ BookInv /\ CallInv
  BY TypeParts DEF IInv, TypeOK, BookType
<1>2. /\ pc[t] = "match" /\ pc' = [pc EXCEPT ![t] = "settle"]
      /\ UNCHANGED <<ord, levels, queue, held, taker, trades>>
  BY DEF StopMatching, bookVars
<1>3. /\ pc'[t] = "settle"
      /\ \A u \in Threads \ {t} : pc'[u] = pc[u]
  BY <1>1, <1>2 DEF CallType
<1>4. RestingCanTrade' /\ \A r \in held' : ord'[r].filled_qty = 0
  BY <1>2 DEF FillInv, RestingCanTrade, Resting
<1>5. \A u \in Threads \ {t} : FillCall(u)'
  BY <1>1, <1>2, <1>3, OtherFills DEF FillInv
<1>6. FillCall(t)'
  <2> DEFINE o == ord[taker[t]]
  <2>1. Explains(trades[t], o) /\ (o.tif = "FOK" => can_fully_fill(o))
    BY <1>2 DEF FillInv, FillCall
  <2>2. o \in Order /\ o # None /\ o.filled_qty <= o.initial_qty
    BY <1>1, <1>2, SMTT(20) DEF CallInv, Busy, CallType
  <2>3. remaining(o) \in Nat
    <3>1. o.filled_qty \in Nat /\ o.initial_qty \in Nat
      BY <2>2 DEF Order
    <3> QED BY <2>2, <3>1, SMTT(20) DEF remaining
  <2>4. ASSUME o.tif = "FOK", remaining(o) > 0 PROVE FALSE
    <3>1. ~\E k \in levels : Tradable(o, k)
      BY <2>4 DEF StopMatching
    <3>2. NothingLeft(o)
      BY <1>1, <2>2, <3>1, NoTopNoMatch DEF BookType
    <3>3. Reached(o) = {}
      BY <2>4, <3>2 DEF NothingLeft, Reached
    <3>4. MakersFor(o) = {}
      BY <3>3 DEF MakersFor
    <3> DEFINE f == [s \in MakersFor(o) |-> remaining(ord[s])]
    <3>5. f \in [{} -> Nat] /\ IsFiniteSet({})
      BY <3>4, FS_EmptySet
    <3>6. SumFunction(f) >= remaining(o)
      BY <2>1, <2>4 DEF can_fully_fill
    <3> HIDE DEF f, o
    <3>7. SumFunction(f) = 0
      BY <3>5, SumProperties
    <3> QED BY <2>3, <2>4, <3>6, <3>7, SMTT(20)
  <2>5. o.tif = "FOK" => remaining(o) = 0
    BY <2>3, <2>4, SMTT(20)
  <2> QED BY <1>2, <1>3, <2>1, <2>5 DEF FillCall
<1> QED BY <1>4, <1>5, <1>6 DEF FillInv

(* The status of an order is no part of what its trades explain. *)
LEMMA ExplainsSame ==
  ASSUME NEW tr, NEW o, NEW p, Explains(tr, o),
         p.filled_qty = o.filled_qty, p.type = o.type, p.side = o.side,
         p.limit_price = o.limit_price
  PROVE  Explains(tr, p)
BY DEF Explains, Reaches

(* What comes to rest has something left, is neither IOC nor FOK, and has  *)
(* the status of its fill.                                                 *)
LEMMA SettleFill ==
  ASSUME IInv, IInv', SingleThreaded, FillInv, NEW t \in Threads, Settle(t)
  PROVE  FillInv'
<1> DEFINE s == taker[t]
           o == ord[s]
           rest == ~is_fully_filled(o) /\ MayRest(o)
           st == IF is_fully_filled(o) THEN "Filled"
                 ELSE IF o.filled_qty > 0 THEN "PartiallyFilled"
                 ELSE IF rest THEN "New" ELSE "Cancelled"
<1>1. BookType /\ BookType' /\ CallType /\ BookInv /\ CallInv
  BY TypeParts DEF IInv, TypeOK, BookType
<1>2. /\ pc[t] = "settle" /\ pc' = [pc EXCEPT ![t] = "return"]
      /\ UNCHANGED <<held, taker, trades>>
      /\ ord' = [ord EXCEPT ![s].status = st]
      /\ IF rest THEN add_resting(s, o) ELSE UNCHANGED bookVars
  BY DEF Settle
<1>3. /\ s \in Slots /\ s \notin Resting /\ s \notin held /\ o \in Order /\ o # None
      /\ Home[o.instrument] = EngineOf[t]
      /\ \A u \in Threads \ {t} : taker[u] # s
      /\ o.filled_qty <= o.initial_qty
  BY <1>1, <1>2, SMTT(20) DEF CallInv, Busy, CallType, Entered
<1>4. /\ \A r \in Slots \ {s} : ord'[r] = ord[r]
      /\ ord'[s] = [o EXCEPT !.status = st]
  BY <1>1, <1>2, <1>3 DEF CallType
<1>5. /\ ord'[s].status = st /\ ord'[s].filled_qty = o.filled_qty
      /\ ord'[s].initial_qty = o.initial_qty /\ ord'[s].type = o.type
      /\ ord'[s].tif = o.tif /\ ord'[s].side = o.side
      /\ ord'[s].limit_price = o.limit_price
      /\ o.filled_qty \in Nat /\ o.initial_qty \in Nat
  BY <1>3, <1>4 DEF Order
<1>6. Explains(trades[t], o) /\ (o.tif = "FOK" => remaining(o) = 0)
  BY <1>2 DEF FillInv, FillCall
<1>7. pc'[t] = "return" /\ \A u \in Threads \ {t} : pc'[u] = pc[u]
  BY <1>1, <1>2 DEF CallType
<1> HIDE DEF s, o, rest, st
<1>8. /\ Resting' \subseteq IF rest THEN Resting \cup {s} ELSE Resting
      /\ \A j \in Level \ {LevelOf(o)} :
           queue'[j] = queue[j] /\ (j \in levels' <=> j \in levels)
  <2>1. CASE rest
    BY <1>1, <1>2, <1>3, <2>1, AddApart
  <2>2. CASE ~rest
    BY <1>2, <2>2 DEF bookVars, Resting
  <2> QED BY <2>1, <2>2
<1>9. o.tif = "FOK" => is_fully_filled(o) /\ st = "Filled"
  BY <1>5, <1>6, SMTT(20) DEF remaining, is_fully_filled, st
<1>10. rest => CanTrade(ord'[s])
  <2> SUFFICES ASSUME rest PROVE CanTrade(ord'[s])
    OBVIOUS
  <2>1. o.type # "Market" /\ o.tif # "IOC" /\ o.tif # "FOK" /\ ~is_fully_filled(o)
    BY <1>9 DEF rest, MayRest
  <2>2. remaining(ord'[s]) > 0
    BY <1>3, <1>5, <2>1, SMTT(20) DEF remaining, is_fully_filled, o
  <2>3. st = IF o.filled_qty = 0 THEN "New" ELSE "PartiallyFilled"
    BY <1>5, <2>1, SMTT(20) DEF st
  <2> QED BY <1>5, <2>1, <2>2, <2>3 DEF CanTrade
<1>11. \A r \in Resting : r \in Slots /\ r # s
  BY <1>1, <1>3, RestingFacts DEF BookInv, CallType
<1>12. RestingCanTrade'
  BY <1>4, <1>8, <1>10, <1>11, RestKept DEF FillInv
<1>13. \A r \in held' : ord'[r].filled_qty = 0
  BY <1>1, <1>2, <1>3, <1>4 DEF FillInv, CallType
<1>14. \A u \in Threads \ {t} : FillCall(u)'
  <2>1. \A u \in Threads \ {t} : pc[u] # "idle" => ord'[taker[u]] = ord[taker[u]]
    BY <1>1, <1>3, <1>4 DEF CallInv, Busy
  <2>2. \A j \in Level : Home[j[1]] # EngineOf[t] => j # LevelOf(o)
    BY <1>3, LevelOfType
  <2> QED BY <1>1, <1>2, <1>4, <1>7, <1>8, <1>11, <2>1, <2>2, OtherFills, SMTT(20)
             DEF FillInv
<1>15. FillCall(t)'
  <2>1. Explains(trades[t], ord'[s])
    BY <1>5, <1>6, ExplainsSame
  <2>2. o.tif = "FOK" => ord'[s].status = "Filled" /\ remaining(ord'[s]) = 0
    BY <1>5, <1>6, <1>9 DEF remaining
  <2> QED BY <1>2, <1>5, <1>7, <2>1, <2>2 DEF FillCall, s
<1> QED BY <1>12, <1>13, <1>14, <1>15 DEF FillInv

(* Steps that release orders, and move only books of their own engine. *)
LEMMA ReleaseFill ==
  ASSUME IInv, IInv', SingleThreaded, FillInv, NEW t \in Threads, FillCall(t)',
         held' = held, Resting' \subseteq Resting,
         \A r \in Slots : ord'[r] = None \/ ord'[r] = ord[r],
         \A u \in Threads \ {t} :
           pc'[u] = pc[u] /\ taker'[u] = taker[u] /\ trades'[u] = trades[u],
         \A i \in Instruments : Home[i] # EngineOf[t] =>
           \A j \in Level : j[1] = i => queue'[j] = queue[j] /\ (j \in levels' <=> j \in levels),
         \A s \in Resting : Home[ord[s].instrument] # EngineOf[t] => ord'[s] = ord[s]
  PROVE  FillInv'
<1>1. BookType /\ BookType' /\ CallType /\ BookInv /\ CallInv /\ CallInv' /\ LevelsOwn'
  BY TypeParts DEF IInv, TypeOK, BookType, BookInv
<1>2. \A r \in Resting' : r \in Slots /\ ord'[r] = ord[r]
  <2>1. \A r \in Resting' : ord'[r] # None
    BY <1>1 DEF LevelsOwn, Resting
  <2> QED BY <1>1, <2>1, RestingFacts DEF BookInv, CallType
<1>3. RestingCanTrade'
  BY <1>2, RestKept DEF FillInv
<1>4. \A r \in held' : ord'[r] = ord[r]
  BY <1>1 DEF CallInv, CallType
<1>5. ASSUME NEW u \in Threads \ {t}, pc[u] # "idle" PROVE ord'[taker[u]] = ord[taker[u]]
  <2>1. Busy(u)' /\ taker'[u] = taker[u]
    BY <1>1, <1>5 DEF CallInv
  <2>2. taker[u] \in Slots /\ ord'[taker[u]] # None
    BY <2>1 DEF Busy
  <2> QED BY <2>2
<1>6. \A u \in Threads \ {t} : FillCall(u)'
  BY <1>1, <1>5, OtherFills DEF FillInv
<1> QED BY <1>3, <1>4, <1>6 DEF FillInv

(* A call that returns takes its trades with it. *)
LEMMA ReturnFill ==
  ASSUME IInv, IInv', SingleThreaded, FillInv, NEW t \in Threads, Return(t)
  PROVE  FillInv'
<1>1. CallType /\ BookType /\ BookInv /\ CallInv
  BY TypeParts DEF IInv
<1>2. /\ pc[t] = "return" /\ pc' = [pc EXCEPT ![t] = "idle"]
      /\ taker' = [taker EXCEPT ![t] = None] /\ trades' = [trades EXCEPT ![t] = <<>>]
      /\ UNCHANGED <<levels, queue, held>>
  BY DEF Return, bookVars
<1>3. \/ ord' = ord
      \/ is_terminal(ord[taker[t]]) /\ ord' = [ord EXCEPT ![taker[t]] = None]
  BY DEF Return
<1>4. Busy(t)
  BY <1>1, <1>2 DEF CallInv
<1>5. /\ \A r \in Slots : ord'[r] = None \/ ord'[r] = ord[r]
      /\ \A r \in Slots : r # taker[t] \/ ~is_terminal(ord[r]) => ord'[r] = ord[r]
  BY <1>1, <1>3 DEF CallType
<1>6. \A r \in Resting : ord'[r] = ord[r]
  BY <1>1, <1>4, <1>5, RestingFacts DEF Busy, BookInv, CallType
<1>7. pc'[t] = "idle" /\ trades'[t] = <<>>
  BY <1>1, <1>2 DEF CallType
<1>8. \A u \in Threads \ {t} :
        pc'[u] = pc[u] /\ taker'[u] = taker[u] /\ trades'[u] = trades[u]
  BY <1>1, <1>2 DEF CallType
<1>9. Resting' \subseteq Resting
  BY <1>2 DEF Resting
<1>10. FillCall(t)'
  BY <1>7 DEF FillCall
<1> QED BY <1>2, <1>5, <1>6, <1>8, <1>9, <1>10, ReleaseFill

(* A cancelled order leaves the book of the canceller's engine. *)
LEMMA CancelFill ==
  ASSUME IInv, IInv', SingleThreaded, FillInv, NEW t \in Threads,
         NEW i \in Instruments, NEW d \in Ids, Cancel(t, i, d)
  PROVE  FillInv'
<1> DEFINE s == index[i][d]
           k == LevelOf(ord[s])
<1>1. CallType /\ BookType /\ BookInv /\ CallInv
  BY TypeParts DEF IInv
<1>2. /\ pc[t] = "idle" /\ s # None /\ Home[i] = EngineOf[t]
      /\ \E n \in 1..Len(queue[k]) : queue[k][n] = s /\ Unrest(k, n)
      /\ ord' = [ord EXCEPT ![s] = None]
      /\ UNCHANGED <<held, pc, taker, trades>>
  BY DEF Cancel, Finds, callVars
<1>3. s \in Slots /\ ord[s] \in Order /\ ord[s].instrument = i
  BY <1>1, <1>2, SMTT(20) DEF BookInv, IndexSound, CallType
<1>4. k \in Level /\ k[1] = i
  BY <1>3, LevelOfType
<1> HIDE DEF s, k
<1>5. /\ Resting' \subseteq Resting
      /\ \A j \in Level \ {k} : queue'[j] = queue[j] /\ (j \in levels' <=> j \in levels)
  BY <1>1, <1>2, <1>4, UnrestApart DEF BookInv
<1>6. \A r \in Slots : ord'[r] = None \/ ord'[r] = ord[r]
  BY <1>1, <1>2 DEF CallType
<1>7. \A r \in Resting : Home[ord[r].instrument] # EngineOf[t] => ord'[r] = ord[r]
  BY <1>1, <1>2, <1>3, SMTT(20) DEF CallType
<1>8. FillCall(t)'
  BY <1>2 DEF FillCall, FillInv
<1> QED BY <1>2, <1>4, <1>5, <1>6, <1>7, <1>8, ReleaseFill

(* A drained book is gone. *)
LEMMA ExpireFill ==
  ASSUME IInv, IInv', SingleThreaded, FillInv, NEW t \in Threads,
         NEW i \in Instruments, Expire(t, i)
  PROVE  FillInv'
<1> DEFINE drained == {k \in levels : k[1] = i}
<1>1. CallType /\ BookType /\ BookInv /\ CallInv
  BY TypeParts DEF IInv
<1>2. /\ pc[t] = "idle" /\ Home[i] = EngineOf[t]
      /\ ord' = [s \in Slots |->
                   IF \E k \in drained : s = queue[k][1] THEN None ELSE ord[s]]
      /\ levels' = levels \ drained
      /\ queue' = [k \in Level |-> IF k[1] = i THEN <<>> ELSE queue[k]]
      /\ UNCHANGED <<held, pc, taker, trades>>
  BY DEF Expire, callVars
<1>3. \A j \in Level : j[1] # i => queue'[j] = queue[j] /\ (j \in levels' <=> j \in levels)
  BY <1>2
<1>4. Resting' \subseteq Resting
  <2>1. \A j \in Level : Range(queue'[j]) \subseteq Range(queue[j])
    BY <1>2, SMTT(20) DEF Range
  <2> QED BY <2>1 DEF Resting
<1>5. \A r \in Slots : ord'[r] = None \/ ord'[r] = ord[r]
  BY <1>2
<1>6. \A r \in Resting : Home[ord[r].instrument] # EngineOf[t] => ord'[r] = ord[r]
  <2> SUFFICES ASSUME NEW r \in Resting, Home[ord[r].instrument] # EngineOf[t],
                      NEW k \in drained, r = queue[k][1]
               PROVE  FALSE
    BY <1>1, <1>2, RestingFacts DEF BookInv, CallType
  <2>1. k \in Level /\ queue[k] # <<>> /\ k[1] = i
    BY <1>1 DEF BookInv, NoEmptyLevel
  <2>2. 1 \in 1..Len(queue[k])
    BY <1>1, <2>1, QueueFacts
  <2>3. r \in Range(queue[k])
    BY <1>1, <2>1, <2>2, QueueFacts
  <2>4. LevelOf(ord[r]) = k
    BY <1>1, <2>1, <2>3 DEF BookInv, LevelsOwn
  <2> QED BY <1>2, <2>1, <2>4, SMTT(20) DEF LevelOf
<1>7. FillCall(t)'
  BY <1>2 DEF FillCall, FillInv
<1>8. \A x \in Instruments : Home[x] # EngineOf[t] =>
        \A j \in Level : j[1] = x => queue'[j] = queue[j] /\ (j \in levels' <=> j \in levels)
  BY <1>2, <1>3
<1> HIDE DEF drained
<1> QED BY <1>2, <1>4, <1>5, <1>6, <1>7, <1>8, ReleaseFill

(* One more trade explains one more fill. *)
LEMMA ExplainsMore ==
  ASSUME NEW tr \in Seq(TradeRecord), NEW o, NEW p, NEW x \in TradeRecord, Explains(tr, o),
         p.filled_qty = o.filled_qty + x.quantity, o.filled_qty \in Nat,
         p.type = o.type, p.side = o.side, p.limit_price = o.limit_price,
         x.quantity > 0, Reaches(o, x.price),
         tr # <<>> => ~Precedes(opposite(o.side), x.price, tr[Len(tr)].price)
  PROVE  Explains(Append(tr, x), p)
<1> DEFINE N == Len(tr)
           at == Append(tr, x)
           f == [n \in 1..N + 1 |-> at[n].quantity]
           g == [n \in 1..N |-> tr[n].quantity]
<1>1. /\ N \in Nat /\ Len(at) = N + 1 /\ at[N + 1] = x
      /\ \A n \in 1..N : at[n] = tr[n]
      /\ N = 0 <=> tr = <<>>
  BY SeqFacts, AppendFacts, SMTT(20)
<1>2. /\ \A n \in 1..N : tr[n].quantity \in Nat
      /\ x.quantity \in Nat
  <2>1. \A n \in 1..N : tr[n] \in TradeRecord
    BY SeqFacts
  <2> QED BY <2>1 DEF TradeRecord
<1> HIDE DEF at, N
<1>3. \A n \in 1..N + 1 : n \in 1..N \/ n = N + 1
  BY <1>1, SMTT(20)
<1>4. \A n \in 1..N + 1 : at[n].quantity \in Nat
  BY <1>1, <1>2, <1>3
<1>5. f \in [1..N + 1 -> Nat] /\ f[N + 1] = x.quantity
  BY <1>1, <1>4, SMTT(20)
<1>6. [n \in 1..N |-> f[n]] = g
  BY <1>1, SMTT(20)
<1>7. o.filled_qty = SumFunction(g)
  BY DEF Explains, N
<1> HIDE DEF f, g
<1>8. SumFunction(f) = x.quantity + SumFunction(g)
  BY <1>1, <1>5, <1>6, SumLast
<1>9. p.filled_qty = SumFunction(f)
  BY <1>2, <1>7, <1>8, SMTT(20)
<1>10. \A n \in 1..N + 1 :
         /\ at[n].quantity > 0
         /\ Reaches(p, at[n].price)
         /\ n > 1 => ~Precedes(opposite(p.side), at[n].price, at[n - 1].price)
  <2> DEFINE Q(n) == /\ at[n].quantity > 0
                     /\ Reaches(p, at[n].price)
                     /\ n > 1 => ~Precedes(opposite(p.side), at[n].price, at[n - 1].price)
  <2>1. \A q : Reaches(p, q) <=> Reaches(o, q)
    BY DEF Reaches
  <2>2. ASSUME NEW n \in 1..N PROVE Q(n)
    <3>1. n > 1 => n - 1 \in 1..N
      BY <1>1, SMTT(20)
    <3>2. at[n] = tr[n] /\ (n > 1 => at[n - 1] = tr[n - 1])
      BY <1>1, <3>1
    <3> QED BY <2>1, <3>2 DEF Explains, N
  <2>3. N + 1 > 1 => ~Precedes(opposite(p.side), at[N + 1].price, at[N].price)
    <3> SUFFICES ASSUME N + 1 > 1
                 PROVE  ~Precedes(opposite(p.side), at[N + 1].price, at[N].price)
      OBVIOUS
    <3>1. N \in 1..N /\ tr # <<>>
      BY <1>1, SMTT(20)
    <3> QED BY <1>1, <3>1 DEF N
  <2>4. N + 1 - 1 = N
    BY <1>1, SMTT(20)
  <2>5. Q(N + 1)
    BY <1>1, <2>1, <2>3, <2>4, SMTT(20)
  <2> HIDE DEF Q
  <2>6. \A n \in 1..N + 1 : Q(n)
    BY <1>3, <2>2, <2>5
  <2> QED BY <2>6 DEF Q
<1> QED BY <1>1, <1>9, <1>10 DEF Explains, f, at

(* The liquidity an order can reach is a number of lots. *)
LEMMA SupplyType ==
  ASSUME BookType, CallType, LevelsOwn, NEW o
  PROVE  /\ MakersFor(o) \subseteq Resting /\ MakersFor(o) \subseteq Slots
         /\ IsFiniteSet(MakersFor(o))
         /\ [r \in MakersFor(o) |-> remaining(ord[r])] \in [MakersFor(o) -> Nat]
<1>1. MakersFor(o) \subseteq Resting
  BY DEF MakersFor, Reached, Resting, BookType
<1>2. \A r \in MakersFor(o) : r \in Slots /\ ord[r] \in Order /\ ord[r] # None
  BY <1>1, RestingFacts DEF CallType
<1>3. \A r \in MakersFor(o) : ord[r].filled_qty \in Nat /\ ord[r].initial_qty \in Nat
  BY <1>2 DEF Order
<1>4. \A r \in MakersFor(o) : remaining(ord[r]) \in Nat
  BY <1>2, <1>3, SMTT(20) DEF remaining, CallType
<1>5. IsFiniteSet(MakersFor(o))
  BY <1>2, MatchingAssumption, FS_Subset
<1> QED BY <1>1, <1>2, <1>4, <1>5

(* So it is after a step. *)
LEMMA SupplyNext ==
  ASSUME NEW o
  PROVE  (BookType /\ CallType /\ LevelsOwn =>
            SumFunction([r \in MakersFor(o) |-> remaining(ord[r])]) \in Nat)'
<1>1. BookType /\ CallType /\ LevelsOwn =>
        SumFunction([r \in MakersFor(o) |-> remaining(ord[r])]) \in Nat
  BY SupplyType, SumProperties
<1> QED BY <1>1, PTL

(* A maker that is filled leaves the liquidity its taker can reach, with   *)
(* what it had left; the others stay.                                      *)
LEMMA SupplyFalls ==
  ASSUME BookType, CallType, BookInv, NEW o, NEW p,
         p.instrument = o.instrument, p.side = o.side, p.type = o.type,
         p.limit_price = o.limit_price,
         NEW k \in Level, k \in Reached(o), 1 \in 1..Len(queue[k]), Unrest(k, 1),
         \A r \in Resting \ {queue[k][1]} : ord'[r] = ord[r]
  PROVE  /\ queue[k][1] \in MakersFor(o)
         /\ SumFunction([r \in MakersFor(o) |-> remaining(ord[r])])
              = remaining(ord[queue[k][1]])
                + SumFunction([r \in MakersFor(p)' |-> remaining(ord'[r])])
<1> DEFINE m == queue[k][1]
           M == MakersFor(o)
           f == [r \in M |-> remaining(ord[r])]
           g == [r \in M \ {m} |-> f[r]]
<1>1. M \subseteq Resting /\ IsFiniteSet(M) /\ f \in [M -> Nat]
  BY SupplyType DEF BookInv
<1>2. /\ queue' = [queue EXCEPT ![k] = Without(queue[k], 1)]
      /\ levels' = IF Without(queue[k], 1) = <<>> THEN levels \ {k} ELSE levels
  BY DEF Unrest
<1>3. /\ queue[k] \in Seq(Slots) /\ m \in Range(queue[k])
      /\ Range(Without(queue[k], 1)) = Range(queue[k]) \ {m}
  BY QueueFacts, WithoutRange DEF BookInv, LevelsOwn
<1>4. m \in M
  BY <1>3 DEF MakersFor
<1>5. \A j \in Level : Range(queue'[j]) = Range(queue[j]) \ {m}
  <2>1. \A j \in Level \ {k} : m \notin Range(queue[j]) /\ queue'[j] = queue[j]
    BY <1>2, <1>3 DEF BookInv, LevelsOwn, BookType
  <2>2. queue'[k] = Without(queue[k], 1)
    BY <1>2 DEF BookType
  <2> QED BY <1>3, <2>1, <2>2
<1>6. Reached(p)' \subseteq Reached(o) /\ Reached(o) \subseteq Level
  BY <1>2 DEF Reached, Reaches, BookType
<1>7. \A j \in Reached(o) : j \notin Reached(p)' => Range(queue'[j]) = {}
  <2>1. \A j \in Reached(o) : j \notin Reached(p)' => j = k /\ Without(queue[k], 1) = <<>>
    BY <1>2 DEF Reached, Reaches
  <2>2. Without(queue[k], 1) = <<>> => Range(queue'[k]) = {}
    BY <1>2, SMTT(20) DEF Range, BookType
  <2> QED BY <2>1, <2>2
<1>8. MakersFor(p)' = M \ {m}
  <2>1. \A r : r \in MakersFor(p)' <=> \E j \in Reached(p)' : r \in Range(queue'[j])
    BY DEF MakersFor
  <2>2. \A r : r \in M <=> \E j \in Reached(o) : r \in Range(queue[j])
    BY DEF MakersFor
  <2>3. \A r : r \in MakersFor(p)' <=> r \in M /\ r # m
    <3> HIDE DEF M, m
    <3>1. \A r : r \in MakersFor(p)' => r \in M /\ r # m
      BY <1>5, <1>6, <2>1, <2>2, SMTT(20)
    <3>2. ASSUME NEW r \in M, r # m PROVE r \in MakersFor(p)'
      <4>1. PICK j \in Reached(o) : r \in Range(queue[j])
        BY <2>2
      <4>2. r \in Range(queue'[j])
        BY <1>5, <1>6, <3>2, <4>1
      <4> QED BY <1>7, <2>1, <4>2
    <3> QED BY <3>1, <3>2
  <2> QED BY <2>3
<1>9. [r \in MakersFor(p)' |-> remaining(ord'[r])] = g
  BY <1>1, <1>8
<1>10. f[m] = remaining(ord[m])
  BY <1>4
<1> HIDE DEF f, M
<1>11. SumFunction(f) = f[m] + SumFunction(g)
  <2>1. \A x \in M : SumFunction(f) = f[x] + SumFunction([y \in M \ {x} |-> f[y]])
    BY <1>1, SumProperties
  <2> QED BY <1>4, <2>1
<1> QED BY <1>4, <1>9, <1>10, <1>11 DEF f, M

(* One trade: a maker that is filled takes as much from the liquidity as   *)
(* from the need; one that is not leaves the taker with no need.           *)
LEMMA TradeFill ==
  ASSUME IInv, IInv', SingleThreaded, FillInv, NEW t \in Threads, Trade(t)
  PROVE  FillInv'
<1> DEFINE s == taker[t]
           o == ord[s]
<1>1. BookType /\ CallType /\ BookInv /\ CallInv /\ BookType' /\ CallType' /\ LevelsOwn'
  <2>1. BookType /\ CallType /\ BookInv /\ CallInv
    BY TypeParts DEF IInv
  <2>2. BookType' /\ CallType' /\ LevelsOwn'
    BY DEF IInv, TypeOK, BookType, CallType, BookInv
  <2> QED BY <2>1, <2>2
<1>2. PICK k \in levels, fill \in Nat :
        /\ Trades(t, k, fill)
        /\ ord[s].filled_qty + fill <= ord[s].initial_qty
        /\ ord[queue[k][1]].filled_qty + fill <= ord[queue[k][1]].initial_qty
  BY TradeFacts
<1>3. pc[t] = "match" /\ remaining(o) > 0 /\ UNCHANGED <<held, pc, taker>>
  BY TradeFacts
<1> DEFINE m == queue[k][1]
           done == ord[m].filled_qty + fill = ord[m].initial_qty
           x == [maker |-> ord[m].id, price |-> k[3], quantity |-> fill]
<1>4. /\ Tradable(o, k) /\ Fills(s, fill)
      /\ fill = qty_min(remaining(o), remaining(ord[m]))
      /\ \A r \in Slots \ {s, m} : ord'[r] = ord[r]
      /\ trades' = [trades EXCEPT ![t] = Append(@, x)]
  BY <1>2 DEF Trades
<1>5. IF done THEN ord'[m] = None /\ Unrest(k, 1)
      ELSE Fills(m, fill) /\ ord'[m].status = "PartiallyFilled" /\ UNCHANGED bookVars
  BY <1>2 DEF Trades
<1>6. /\ k \in Level /\ 1 \in 1..Len(queue[k]) /\ m \in Resting /\ m \in Slots
      /\ ord[m] \in Order /\ ord[m] # None /\ LevelOf(ord[m]) = k
      /\ Home[k[1]] = EngineOf[t] /\ Busy(t) /\ o \in Order /\ s # m
  BY <1>3, <1>4, MakerFacts
<1>7. s \in Slots /\ s \notin Resting /\ s \notin held /\ m \notin held
  BY <1>1, <1>3, <1>6 DEF Busy, CallInv
<1>8. /\ trades'[t] = Append(trades[t], x) /\ trades[t] \in Seq(TradeRecord)
      /\ \A u \in Threads \ {t} : trades'[u] = trades[u]
  BY <1>1, <1>4 DEF CallType
<1>9. x \in TradeRecord
  BY <1>6, SMTT(20) DEF TradeRecord, Order, Level
<1>10. /\ o.filled_qty \in Nat /\ o.initial_qty \in Nat
       /\ ord[m].filled_qty \in Nat /\ ord[m].initial_qty \in Nat
  BY <1>6 DEF Order
<1>11. CanTrade(ord[m])
  BY <1>6 DEF FillInv, RestingCanTrade
<1> HIDE DEF s, o, m, x
<1>12. /\ fill > 0
       /\ done => remaining(ord[m]) = fill
       /\ ~done => fill = remaining(o) /\ ord[m].initial_qty - (ord[m].filled_qty + fill) > 0
  <2>1. /\ o.initial_qty - o.filled_qty > 0 /\ ord[m].initial_qty - ord[m].filled_qty > 0
        /\ fill = qty_min(o.initial_qty - o.filled_qty, ord[m].initial_qty - ord[m].filled_qty)
    BY <1>3, <1>4, <1>11 DEF CanTrade, remaining
  <2>2. PICK a \in Nat, b \in Nat, c \in Nat, d \in Nat :
          /\ a = o.filled_qty /\ b = o.initial_qty
          /\ c = ord[m].filled_qty /\ d = ord[m].initial_qty
    BY <1>10
  <2>3. b - a > 0 /\ d - c > 0 /\ fill = qty_min(b - a, d - c)
    BY <2>1, <2>2
  <2>4. /\ fill > 0
        /\ c + fill = d => d - c = fill
        /\ c + fill # d => fill = b - a /\ d - (c + fill) > 0
    BY <2>3, SMTT(20) DEF qty_min
  <2> QED BY <2>2, <2>4 DEF remaining
<1>13. /\ ord'[s].filled_qty = o.filled_qty + fill
       /\ ord'[s].initial_qty = o.initial_qty
       /\ ord'[s].type = o.type /\ ord'[s].side = o.side /\ ord'[s].tif = o.tif
       /\ ord'[s].limit_price = o.limit_price /\ ord'[s].instrument = o.instrument
  BY <1>4 DEF Fills, o
<1>14. /\ Resting' \subseteq Resting /\ levels' \subseteq levels
       /\ \A j \in Level \ {k} : queue'[j] = queue[j] /\ (j \in levels' <=> j \in levels)
  <2>1. CASE done
    BY <1>1, <1>5, <1>6, <2>1, UnrestApart DEF BookInv
  <2>2. CASE ~done
    BY <1>5, <2>2 DEF bookVars, Resting
  <2> QED BY <2>1, <2>2
<1>15. \A r \in Resting : r \in Slots /\ r # s
  BY <1>1, <1>7, RestingFacts DEF BookInv, CallType
<1>16. RestingCanTrade'
  <2>1. \A r \in Resting' : ord'[r] # None
    BY <1>1 DEF LevelsOwn, Resting
  <2>2. ~done => CanTrade(ord'[m])
    <3> SUFFICES ASSUME ~done PROVE CanTrade(ord'[m])
      OBVIOUS
    <3>1. /\ ord'[m].type = ord[m].type /\ ord'[m].tif = ord[m].tif
          /\ ord'[m].initial_qty = ord[m].initial_qty
          /\ ord'[m].filled_qty = ord[m].filled_qty + fill
          /\ ord'[m].status = "PartiallyFilled"
      BY <1>5 DEF Fills
    <3>2. remaining(ord'[m]) > 0 /\ ord'[m].filled_qty # 0
      BY <1>10, <1>12, <3>1, SMTT(20) DEF remaining
    <3> QED BY <1>11, <3>1, <3>2 DEF CanTrade
  <2>3. \A r \in Resting' : r = m => ~done
    BY <1>5, <2>1
  <2> QED BY <1>4, <1>14, <1>15, <2>2, <2>3, RestKept DEF FillInv
<1>17. \A r \in held' : ord'[r].filled_qty = 0
  BY <1>1, <1>3, <1>4, <1>7 DEF FillInv, CallType
<1>18. \A u \in Threads \ {t} : FillCall(u)'
  <2>1. \A u \in Threads \ {t} : pc[u] # "idle" => taker[u] # m /\ taker[u] # s /\ taker[u] \in Slots
    <3>1. Home[ord[m].instrument] = EngineOf[t]
      BY <1>6 DEF LevelOf
    <3>2. \A u \in Threads \ {t} : pc[u] # "idle" => taker[u] # m
      BY <1>1, <1>6, <3>1, Apart
    <3>3. \A u \in Threads \ {t} : taker[u] # s
      BY <1>6 DEF Busy, s
    <3> QED BY <1>1, <3>2, <3>3 DEF CallInv, Busy
  <2>2. \A u \in Threads \ {t} : pc[u] # "idle" => ord'[taker[u]] = ord[taker[u]]
    BY <1>4, <2>1
  <2>3. \A r \in Resting : Home[ord[r].instrument] # EngineOf[t] => ord'[r] = ord[r]
    BY <1>4, <1>6, <1>15 DEF LevelOf
  <2>4. \A i \in Instruments : Home[i] # EngineOf[t] =>
          \A j \in Level : j[1] = i => queue'[j] = queue[j] /\ (j \in levels' <=> j \in levels)
    BY <1>6, <1>14
  <2> QED BY <1>1, <1>3, <1>8, <2>2, <2>3, <2>4, OtherFills DEF FillInv
<1>19. /\ Explains(trades[t], o) /\ NoBetter(t)
       /\ o.tif = "FOK" => can_fully_fill(o)
  BY <1>3 DEF FillInv, FillCall, o, s
<1>20. k[1] = o.instrument /\ k[2] = opposite(o.side) /\ Reaches(o, k[3]) /\ IsTop(k)
  BY <1>4 DEF Tradable
<1>21. Explains(trades'[t], ord'[s])
  <2>1. trades[t] # <<>> => ~Precedes(opposite(o.side), x.price, trades[t][Len(trades[t])].price)
    BY <1>2, <1>19, <1>20 DEF NoBetter, x, o, s
  <2>2. x.quantity = fill /\ x.price = k[3]
    BY DEF x
  <2>3. /\ ord'[s].filled_qty = o.filled_qty + x.quantity
        /\ x.quantity > 0 /\ Reaches(o, x.price)
    BY <1>12, <1>13, <1>20, <2>2
  <2>4. Explains(Append(trades[t], x), ord'[s])
    BY <1>8, <1>9, <1>10, <1>13, <1>19, <2>1, <2>3, ExplainsMore
  <2> QED BY <1>8, <2>4
<1>22. NoBetter(t)'
  <2>1. trades'[t][Len(trades'[t])].price = k[3]
    <3>1. Len(Append(trades[t], x)) = Len(trades[t]) + 1
      BY <1>8, <1>9, AppendFacts
    <3>2. Append(trades[t], x)[Len(trades[t]) + 1] = x
      BY <1>8, <1>9, AppendFacts
    <3>3. x.price = k[3]
      BY DEF x
    <3> QED BY <1>8, <3>1, <3>2, <3>3
  <2>2. \A j \in levels' : j[1] = k[1] /\ j[2] = k[2] => ~Precedes(j[2], j[3], k[3])
    BY <1>14, <1>20 DEF IsTop
  <2> QED BY <1>3, <1>13, <1>20, <2>1, <2>2 DEF NoBetter, s
<1>23. ASSUME o.tif = "FOK" PROVE can_fully_fill(ord[taker[t]])'
  <2>1. PICK p : p = ord'[s]
    OBVIOUS
  <2>2. PICK q : q = o
    OBVIOUS
  <2> DEFINE f == [r \in MakersFor(q) |-> remaining(ord[r])]
             g == [r \in MakersFor(p)' |-> remaining(ord'[r])]
  <2>3. SumFunction(f) >= remaining(q) /\ SumFunction(f) \in Nat
    BY <1>1, <1>19, <1>23, <2>2, SupplyType, SumProperties DEF can_fully_fill, BookInv
  <2>4. SumFunction(g) \in Nat
    BY <1>1, SupplyNext
  <2>5. /\ p.instrument = q.instrument /\ p.side = q.side /\ p.type = q.type
        /\ p.limit_price = q.limit_price /\ remaining(p) = remaining(q) - fill
        /\ remaining(q) \in Int
    <3>1. PICK a \in Nat, b \in Nat : a = q.filled_qty /\ b = q.initial_qty
      BY <1>10, <2>2
    <3>2. p.filled_qty = a + fill /\ p.initial_qty = b
      BY <1>13, <2>1, <2>2, <3>1
    <3>3. b - (a + fill) = (b - a) - fill /\ b - a \in Int
      BY <1>2, SMTT(20)
    <3> QED BY <1>13, <2>1, <2>2, <3>1, <3>2, <3>3 DEF remaining
  <2>6. SumFunction(g) >= remaining(p)
    <3>1. CASE done
      <4>1. k \in Reached(q)
        BY <1>2, <1>20, <2>2 DEF Reached
      <4>2. \A r \in Resting \ {m} : ord'[r] = ord[r]
        BY <1>4, <1>15
      <4>3. SumFunction(f) = remaining(ord[m]) + SumFunction(g)
        BY <1>1, <1>5, <1>6, <2>5, <3>1, <4>1, <4>2, SupplyFalls DEF m
      <4> HIDE DEF f, g
      <4> QED BY <1>12, <2>3, <2>4, <2>5, <3>1, <4>3, SMTT(20)
    <3>2. CASE ~done
      <4> HIDE DEF g
      <4>1. remaining(p) = 0
        BY <1>12, <2>2, <2>5, <3>2, SMTT(20)
      <4> QED BY <2>4, <4>1, SMTT(20)
    <3> QED BY <3>1, <3>2
  <2>7. can_fully_fill(p)'
    BY <2>6 DEF can_fully_fill
  <2>8. ord'[taker'[t]] = p
    BY <1>3, <2>1 DEF s
  <2> QED BY <2>7, <2>8
<1>24. FillCall(t)'
  <2>1. pc'[t] = "match" /\ ord'[taker'[t]] = ord'[s]
    BY <1>3 DEF s
  <2> QED BY <1>13, <1>21, <1>22, <1>23, <2>1 DEF FillCall
<1> QED BY <1>16, <1>17, <1>18, <1>24 DEF FillInv

(* Every step keeps the fills explained and the liquidity sufficient. *)
LEMMA NextFill ==
  ASSUME SingleThreaded, IInv, IInv', FillInv, [Next]_vars
  PROVE  FillInv'
<1>1. CASE UNCHANGED vars
  <2>1. BookType /\ BookType' /\ BookInv /\ CallInv
    BY TypeParts DEF IInv, TypeOK, BookType
  <2>2. UNCHANGED <<ord, levels, queue, held, pc, taker, trades>>
    BY <1>1 DEF vars
  <2>3. RestingCanTrade' /\ \A r \in held' : ord'[r].filled_qty = 0
    BY <2>2 DEF FillInv, RestingCanTrade, Resting
  <2>4. \A i : SameBookOf(i)
    BY <2>2 DEF SameBookOf
  <2>5. \A u \in Threads : FillCall(u)'
    BY <2>1, <2>2, <2>4, OtherFill DEF FillInv, BookType
  <2> QED BY <2>3, <2>5 DEF FillInv
<1>2. CASE Next
  BY <1>2, AcquireFill, SubmitFill, TradeFill, StopFill, SettleFill, ReturnFill,
     CancelFill, ExpireFill DEF Next
<1> QED BY <1>1, <1>2

(* Nothing is filled, and nothing rests, to begin with. *)
LEMMA InitFill == Init => FillInv
<1> SUFFICES ASSUME Init PROVE FillInv
  OBVIOUS
<1>1. \A k \in Level : Range(queue[k]) = {}
  BY SMTT(20) DEF Init, Range
<1>2. RestingCanTrade
  BY <1>1 DEF RestingCanTrade, Resting
<1>3. \A t \in Threads : FillCall(t)
  BY DEF Init, FillCall
<1> QED BY <1>2, <1>3 DEF FillInv, Init

-----------------------------------------------------------------------------
(* The fills of every call are explained, and cover what they must. *)
THEOREM FillInvariance == ASSUME SingleThreaded PROVE Spec => []FillInv
<1>1. Init => FillInv
  BY InitFill
<1>2. IInv /\ IInv' /\ FillInv /\ [Next]_vars => FillInv'
  BY NextFill
<1> QED BY <1>1, <1>2, Invariance, PTL DEF Spec

(* A fill-or-kill order is filled completely or not at all: what           *)
(* can_fully_fill counted is still there for every iteration of the match. *)
THEOREM FillOrKillHolds == ASSUME SingleThreaded PROVE Spec => []FillOrKill
<1>1. FillInv => FillOrKill
  BY DEF FillInv, FillCall, FillOrKill
<1> QED BY <1>1, FillInvariance, PTL

(* The trades of MatchResult add up to the fill of the taker, each has a   *)
(* quantity, respects the limit and is no better than the one before.      *)
THEOREM TradesExplain == ASSUME SingleThreaded PROVE Spec => []TradesExplainFill
<1>1. FillInv => TradesExplainFill
  BY DEF FillInv, FillCall, TradesExplainFill
<1> QED BY <1>1, FillInvariance, PTL

(* Only orders that may rest do, with something left to fill and the       *)
(* status that says how much is filled.                                    *)
THEOREM RestersCanTrade == ASSUME SingleThreaded PROVE Spec => []RestingCanTrade
<1>1. FillInv => RestingCanTrade
  BY DEF FillInv
<1> QED BY <1>1, FillInvariance, PTL
=============================================================================
