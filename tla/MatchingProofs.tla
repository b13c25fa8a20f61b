--------------------------- MODULE MatchingProofs ---------------------------
(***************************************************************************)
(* Theorems about Matching, for every pool, every set of instruments,      *)
(* shards and orders, provided each engine is called by one thread only:   *)
(* the inductive invariant, what the ways to touch a book (add_resting,    *)
(* the removals, the drain) preserve of it, that every step preserves it,  *)
(* and what follows from it.                                               *)
(***************************************************************************)
EXTENDS Matching, TLAPS

(* Zenon proves a step that names no prover; the SMT solver is named where arithmetic,
   sequences or records are needed. *)
USE ZenonT(20)

(* What the provers know of sequences. *)
LEMMA SeqFacts ==
  ASSUME NEW S, NEW q \in Seq(S)
  PROVE  /\ Len(q) \in Nat
         /\ DOMAIN q = 1..Len(q)
         /\ \A n \in 1..Len(q) : q[n] \in S
         /\ q = <<>> <=> Len(q) = 0
BY SMTT(20)

(* A sequence and the element put at its end. *)
LEMMA AppendFacts ==
  ASSUME NEW S, NEW q \in Seq(S), NEW x \in S
  PROVE  /\ Append(q, x) \in Seq(S)
         /\ Len(Append(q, x)) = Len(q) + 1
         /\ \A n \in 1..Len(q) : Append(q, x)[n] = q[n]
         /\ Append(q, x)[Len(q) + 1] = x
BY SMTT(20)

(* A sequence and what is put after it. *)
LEMMA ConcatFacts ==
  ASSUME NEW S, NEW q \in Seq(S), NEW r \in Seq(S)
  PROVE  /\ q \o r \in Seq(S)
         /\ Len(q \o r) = Len(q) + Len(r)
         /\ \A n \in 1..Len(q) + Len(r) :
              (q \o r)[n] = IF n <= Len(q) THEN q[n] ELSE r[n - Len(q)]
BY SMTT(20)

(* What Without, the effect of an erase in the middle of a level, leaves. *)
LEMMA WithoutSeq ==
  ASSUME NEW S, NEW q \in Seq(S), NEW n \in 1..Len(q)
  PROVE  /\ Without(q, n) \in Seq(S)
         /\ Len(Without(q, n)) = Len(q) - 1
         /\ \A i \in 1..Len(q) - 1 :
              Without(q, n)[i] = IF i < n THEN q[i] ELSE q[i + 1]
<1> DEFINE a == SubSeq(q, 1, n - 1)
           b == SubSeq(q, n + 1, Len(q))
<1>1. Len(q) \in Nat
  BY SMTT(20)
<1>2. /\ a \in Seq(S) /\ Len(a) = n - 1
      /\ \A i \in 1..n - 1 : a[i] = q[i]
  BY <1>1, SMTT(20)
<1>3. /\ b \in Seq(S) /\ Len(b) = Len(q) - n
      /\ \A i \in 1..Len(q) - n : b[i] = q[n + i]
  BY <1>1, SMTT(20)
<1> HIDE DEF a, b
<1>4. /\ a \o b \in Seq(S) /\ Len(a \o b) = Len(q) - 1
      /\ \A i \in 1..Len(q) - 1 : (a \o b)[i] = IF i <= n - 1 THEN a[i] ELSE b[i - (n - 1)]
  <2>1. /\ a \o b \in Seq(S) /\ Len(a \o b) = Len(a) + Len(b)
        /\ \A i \in 1..Len(a) + Len(b) :
             (a \o b)[i] = IF i <= Len(a) THEN a[i] ELSE b[i - Len(a)]
    BY <1>2, <1>3, ConcatFacts
  <2>2. Len(a) = n - 1 /\ Len(a) + Len(b) = Len(q) - 1
    BY <1>1, <1>2, <1>3, SMTT(20)
  <2> QED BY <2>1, <2>2
<1>5. Without(q, n) = a \o b
  BY DEF Without, a, b
<1>6. ASSUME NEW i \in 1..Len(q) - 1
      PROVE  (a \o b)[i] = IF i < n THEN q[i] ELSE q[i + 1]
  <2>1. CASE i < n
    BY <2>1, <1>1, <1>2, <1>4, SMTT(20)
  <2>2. CASE ~(i < n)
    <3>1. i - (n - 1) \in 1..Len(q) - n /\ n + (i - (n - 1)) = i + 1 /\ ~(i <= n - 1)
      BY <2>2, <1>1, SMTT(20)
    <3> QED BY <2>2, <3>1, <1>3, <1>4
  <2> QED BY <2>1, <2>2
<1> QED BY <1>4, <1>5, <1>6

(* Of a sequence without repetitions Without drops exactly one member.    *)
LEMMA WithoutRange ==
  ASSUME NEW S, NEW q \in Seq(S), NEW n \in 1..Len(q), IsInjective(q)
  PROVE  /\ IsInjective(Without(q, n))
         /\ Range(Without(q, n)) = Range(q) \ {q[n]}
         /\ Without(q, n) = <<>> <=> Len(q) = 1
<1> DEFINE r == Without(q, n)
           at(i) == IF i < n THEN i ELSE i + 1
<1>1. /\ r \in Seq(S) /\ Len(r) = Len(q) - 1 /\ Len(q) \in Nat
      /\ \A i \in 1..Len(q) - 1 : r[i] = IF i < n THEN q[i] ELSE q[i + 1]
  BY WithoutSeq, SeqFacts
<1>2. DOMAIN r = 1..Len(q) - 1 /\ DOMAIN q = 1..Len(q)
  BY <1>1, SeqFacts
<1> HIDE DEF r
<1>3. \A i \in 1..Len(q) - 1 : at(i) \in 1..Len(q) /\ at(i) # n /\ r[i] = q[at(i)]
  BY <1>1, SMTT(20)
<1>4. \A i, j \in 1..Len(q) - 1 : at(i) = at(j) => i = j
  BY <1>1, SMTT(20)
<1>5. \A j \in 1..Len(q) : j # n => \E i \in 1..Len(q) - 1 : at(i) = j
  <2> SUFFICES ASSUME NEW j \in 1..Len(q), j # n
               PROVE  \E i \in 1..Len(q) - 1 : at(i) = j
    OBVIOUS
  <2>1. CASE j < n
    <3>1. j \in 1..Len(q) - 1 /\ at(j) = j
      BY <2>1, <1>1, SMTT(20)
    <3> QED BY <3>1
  <2>2. CASE j > n
    <3>1. j - 1 \in 1..Len(q) - 1 /\ at(j - 1) = j
      BY <2>2, <1>1, SMTT(20)
    <3> QED BY <3>1
  <2> QED BY <2>1, <2>2, <1>1, SMTT(20)
<1> HIDE DEF at
<1>6. \A i, j \in 1..Len(q) : q[i] = q[j] => i = j
  BY <1>2 DEF IsInjective
<1>7. IsInjective(r)
  BY <1>2, <1>3, <1>4, <1>6, SMTT(20) DEF IsInjective
<1>8. Range(r) = Range(q) \ {q[n]}
  <2>1. ASSUME NEW x \in Range(r) PROVE x \in Range(q) /\ x # q[n]
    <3>1. PICK i \in 1..Len(q) - 1 : x = r[i]
      BY <1>2 DEF Range
    <3> QED BY <3>1, <1>2, <1>3, <1>6 DEF Range
  <2>2. ASSUME NEW x \in Range(q), x # q[n] PROVE x \in Range(r)
    <3>1. PICK j \in 1..Len(q) : x = q[j]
      BY <1>2 DEF Range
    <3>2. PICK i \in 1..Len(q) - 1 : at(i) = j
      BY <3>1, <2>2, <1>5
    <3> QED BY <3>1, <3>2, <1>2, <1>3 DEF Range
  <2> QED BY <2>1, <2>2
<1>9. r = <<>> <=> Len(q) = 1
  BY <1>1, SeqFacts, SMTT(20)
<1> QED BY <1>7, <1>8, <1>9 DEF r

(* An element at the end is the only new one. *)
LEMMA AppendRange ==
  ASSUME NEW S, NEW q \in Seq(S), NEW x \in S
  PROVE  Range(Append(q, x)) \subseteq Range(q) \cup {x}
<1>1. /\ Len(q) \in Nat /\ DOMAIN q = 1..Len(q)
      /\ DOMAIN Append(q, x) = 1..Len(q) + 1
      /\ \A i \in 1..Len(q) : Append(q, x)[i] = q[i]
      /\ Append(q, x)[Len(q) + 1] = x
  BY SeqFacts, AppendFacts, SMTT(20)
<1>2. \A i \in 1..Len(q) + 1 : i \in 1..Len(q) \/ i = Len(q) + 1
  BY <1>1, SMTT(20)
<1> QED BY <1>1, <1>2 DEF Range

(* The locators of order_map_ name orders that rest where they say.        *)
IndexSound ==
  \A i \in Instruments, d \in Ids : index[i][d] # None =>
    /\ index[i][d] \in Slots
    /\ ord[index[i][d]] # None
    /\ ord[index[i][d]].id = d
    /\ ord[index[i][d]].instrument = i
    /\ index[i][d] \in Range(queue[LevelOf(ord[index[i][d]])])

(* A level is ordered by arrival. *)
ArrivalOrder ==
  \A k \in Level : \A m, n \in 1..Len(queue[k]) :
    m < n => <<queue[k][m], queue[k][n]>> \in before

(* Orders on a level are allocated and stand on their own level. *)
LevelsOwn ==
  \A k \in Level :
    /\ IsInjective(queue[k])
    /\ \A s \in Range(queue[k]) : ord[s] # None /\ LevelOf(ord[s]) = k

(* What the books guarantee between any two steps. *)
BookInv == LevelsOwn /\ NoEmptyLevel /\ NotCrossed /\ IndexSound /\ ArrivalOrder

(* The engine a thread has entered a book through owns that book. *)
Entered(t) ==
  \/ pc[t] \in {"match", "settle"}
  \/ pc[t] = "return" /\ ord[taker[t]].status # "Rejected"

(* No level the taker's remainder could trade with. *)
NothingLeft(o) ==
  remaining(o) > 0 =>
    \A k \in levels : k[1] = o.instrument /\ k[2] = opposite(o.side) => ~Reaches(o, k[3])

(* What a thread in the middle of a call guarantees. *)
Busy(t) ==
  /\ taker[t] \in Slots
  /\ ord[taker[t]] # None
  /\ taker[t] \notin held
  /\ taker[t] \in Resting => pc[t] = "return" /\ ~is_terminal(ord[taker[t]])
  /\ \A u \in Threads \ {t} : taker[u] # taker[t]
  /\ Entered(t) => Home[ord[taker[t]].instrument] = EngineOf[t]
  /\ Entered(t) /\ pc[t] # "match" => NothingLeft(ord[taker[t]])

(* What the callers guarantee, between calls and inside them. *)
CallInv ==
  /\ \A s \in held : ord[s] # None /\ s \notin Resting
  /\ \A t \in Threads : IF pc[t] = "idle" THEN taker[t] = None ELSE Busy(t)

IInv == TypeOK /\ BookInv /\ CallInv

-----------------------------------------------------------------------------
(* An empty sequence has no places. *)
LEMMA NoPlaces == \A m : m \notin 1..Len(<<>>)
BY SMTT(20)

(* What the assumption says of the prices and of the orders entered. *)
LEMMA ConstantFacts ==
  /\ Prices \subseteq Int
  /\ \A e \in NewOrders :
       /\ e.id \in Ids /\ e.instrument \in Instruments /\ e.side \in Sides
       /\ e.type \in Types /\ e.tif \in Tifs
       /\ e.limit_price \in Prices /\ e.initial_qty \in Nat
<1>1. NewOrders \subseteq Entries
  BY MatchingAssumption
<1> QED BY <1>1 DEF Entries, Prices, Ids

(* When the top of the other side is out of reach, so is all that side:    *)
(* what the break of the match loop relies on.                             *)
LEMMA NoTopNoMatch ==
  ASSUME levels \subseteq Level, NEW o \in Order,
         ~\E k \in levels : Tradable(o, k)
  PROVE  NothingLeft(o)
(* begin() of a side's map exists as soon as the side has a level, and is  *)
(* no worse than any level of that side: prices are bounded.               *)
<1>TopExists.
      ASSUME levels \subseteq Level, NEW k \in levels
      PROVE  \E j \in levels :
               IsTop(j) /\ j[1] = k[1] /\ j[2] = k[2] /\ ~Precedes(k[2], k[3], j[3])
  <2> USE <1>TopExists
  <2> DEFINE W == {j \in levels : j[1] = k[1] /\ j[2] = k[2]}
             S == {j[3] : j \in W}
  <2>1. S \in SUBSET Prices /\ S # {}
    BY DEF Level
  <2>2. PICK p \in S, q \in S : \A r \in S : p <= r /\ r <= q
    BY <2>1, MatchingAssumption DEF PricesAreBounded
  <2>3. PICK j \in W : j[3] = IF k[2] = "Buy" THEN q ELSE p
    BY <2>2
  <2>4. \A i \in W : i[3] \in S /\ i[3] \in Int
    <3>1. S \subseteq Int
      BY <2>1, ConstantFacts
    <3> QED BY <3>1
  <2>5. \A i \in W : ~Precedes(k[2], i[3], j[3])
    BY <2>2, <2>3, <2>4, SMTT(20) DEF Precedes
  <2>6. IsTop(j)
    BY <2>5 DEF IsTop
  <2> QED BY <2>5, <2>6
<1> SUFFICES ASSUME NEW k \in levels, k[1] = o.instrument, k[2] = opposite(o.side),
                    Reaches(o, k[3])
             PROVE  FALSE
  BY DEF NothingLeft
<1>1. PICK j \in levels :
        IsTop(j) /\ j[1] = k[1] /\ j[2] = k[2] /\ ~Precedes(k[2], k[3], j[3])
  BY <1>TopExists
<1>2. j[3] \in Int /\ k[3] \in Int /\ o.limit_price \in Int /\ o.side \in Sides
  <2>1. j[3] \in Prices /\ k[3] \in Prices
    BY DEF Level
  <2>2. o.limit_price \in Prices /\ o.side \in Sides
    BY DEF Order
  <2>3. \A p \in Prices : p \in Int
    BY ConstantFacts
  <2> QED BY <2>1, <2>2, <2>3
<1>3. Reaches(o, j[3])
  BY <1>1, <1>2, SMTT(20) DEF Reaches, prices_cross, Precedes, opposite, Sides
<1> QED BY <1>1, <1>3 DEF Tradable

-----------------------------------------------------------------------------
(* The books: what the three ways to touch one preserve. *)

BookType ==
  /\ levels \in SUBSET Level
  /\ queue \in [Level -> Seq(Slots)]
  /\ index \in [Instruments -> [Ids -> Slots \cup {None}]]
  /\ before \in SUBSET (Slots \X Slots)

(* A step leaves an order allocated, with its id, on its level. *)
Keeps(s) ==
  /\ ord'[s] # None
  /\ ord'[s].id = ord[s].id
  /\ LevelOf(ord'[s]) = LevelOf(ord[s])

(* An order's level is a level, of its instrument, side and price. *)
LEMMA LevelOfType ==
  ASSUME NEW o \in Order
  PROVE  /\ LevelOf(o) \in Level
         /\ LevelOf(o)[1] = o.instrument /\ LevelOf(o)[2] = o.side
         /\ LevelOf(o)[3] = o.limit_price
         /\ o.instrument \in Instruments /\ o.id \in Ids
BY DEF Order, Level, LevelOf

(* The level of any record with the three fields. *)
LEMMA LevelParts ==
  \A o : /\ LevelOf(o)[1] = o.instrument /\ LevelOf(o)[2] = o.side
         /\ LevelOf(o)[3] = o.limit_price
BY DEF LevelOf

(* A level is its instrument, its side and its price. *)
LEMMA SameLevel ==
  ASSUME NEW j \in Level, NEW k \in Level, j[1] = k[1], j[2] = k[2], j[3] = k[3]
  PROVE  j = k
BY SMTT(20) DEF Level

(* The order that Pool::acquire and the assignments after it make of a     *)
(* request.                                                                *)
LEMMA FreshOrder ==
  ASSUME NEW e \in NewOrders
  PROVE  [id |-> e.id, instrument |-> e.instrument, side |-> e.side,
          type |-> e.type, tif |-> e.tif, limit_price |-> e.limit_price,
          initial_qty |-> e.initial_qty, filled_qty |-> 0, status |-> "New"] \in Order
BY ConstantFacts DEF Order, Statuses

(* What the record of a trade is made of. *)
LEMMA LevelPrices ==
  /\ \A k \in Level : k[3] \in Prices
  /\ \A o \in Order : o.id \in Ids
BY DEF Level, Order

(* What is on a level rests. *)
LEMMA InResting ==
  ASSUME NEW k \in Level, NEW s \in Range(queue[k])
  PROVE  s \in Resting
BY DEF Resting

(* A queue and its members, position by position. *)
LEMMA QueueFacts ==
  ASSUME BookType, NEW k \in Level
  PROVE  /\ queue[k] \in Seq(Slots)
         /\ Len(queue[k]) \in Nat
         /\ DOMAIN queue[k] = 1..Len(queue[k])
         /\ Range(queue[k]) \subseteq Slots
         /\ \A n \in 1..Len(queue[k]) : queue[k][n] \in Range(queue[k])
         /\ \A s \in Range(queue[k]) : \E n \in 1..Len(queue[k]) : s = queue[k][n]
         /\ queue[k] # <<>> => 1 \in 1..Len(queue[k])
<1>1. queue[k] \in Seq(Slots)
  BY DEF BookType
<1>2. /\ Len(queue[k]) \in Nat /\ DOMAIN queue[k] = 1..Len(queue[k])
      /\ queue[k] # <<>> => 1 \in 1..Len(queue[k])
  BY <1>1, SeqFacts, SMTT(20)
<1>3. \A n \in 1..Len(queue[k]) : queue[k][n] \in Slots
  BY <1>1, SeqFacts
<1> QED BY <1>1, <1>2, <1>3 DEF Range

-----------------------------------------------------------------------------
(* The callers: what a step leaves to the threads that do not take it.     *)

(* A thread touches only orders resting in the books of its own engine, so *)
(* never the order of another thread's call.                               *)
LEMMA Apart ==
  ASSUME CallInv, SingleThreaded,
         NEW t \in Threads, NEW u \in Threads \ {t}, pc[u] # "idle",
         NEW s \in Resting, Home[ord[s].instrument] = EngineOf[t]
  PROVE  taker[u] # s
<1> SUFFICES ASSUME taker[u] = s PROVE FALSE
  OBVIOUS
<1>1. Busy(u)
  BY DEF CallInv
<1>2. pc[u] = "return" /\ ord[taker[u]].status # "Rejected"
  BY <1>1 DEF Busy, is_terminal
<1>3. Home[ord[s].instrument] = EngineOf[u]
  BY <1>1, <1>2 DEF Busy, Entered
<1> QED BY <1>3 DEF SingleThreaded

(* Every resting order is a live slot, on the level its fields name.       *)
LEMMA RestingFacts ==
  ASSUME BookType, LevelsOwn, ord \in [Slots -> Order \cup {None}],
         NEW s \in Resting
  PROVE  /\ s \in Slots /\ ord[s] # None /\ ord[s] \in Order
         /\ s \in Range(queue[LevelOf(ord[s])]) /\ LevelOf(ord[s]) \in Level
<1>1. PICK k \in Level : s \in Range(queue[k])
  BY DEF Resting
<1>2. s \in Slots /\ ord[s] # None /\ LevelOf(ord[s]) = k
  BY <1>1, QueueFacts DEF LevelsOwn
<1> QED BY <1>1, <1>2

(* The variables the books do not own. *)
CallType ==
  /\ ord \in [Slots -> Order \cup {None}]
  /\ \A s \in Slots : ord[s] # None => ord[s].filled_qty <= ord[s].initial_qty
  /\ live \in SUBSET Instruments
  /\ held \in SUBSET Slots
  /\ pc \in [Threads -> {"idle", "match", "settle", "return"}]
  /\ taker \in [Threads -> Slots \cup {None}]
  /\ trades \in [Threads -> Seq(TradeRecord)]

(* The types of the books and of the callers are all the types. *)
LEMMA TypeParts == TypeOK <=> BookType /\ CallType
BY DEF TypeOK, BookType, CallType

(* No slot is None, and the pool starts out free. *)
LEMMA InitIInv == Init => IInv
<1> SUFFICES ASSUME Init PROVE IInv
  OBVIOUS
<1> USE DEF Init
<1>1. \A k \in Level : queue[k] = <<>> /\ Range(queue[k]) = {}
  BY SMTT(20) DEF Range
<1>2. Resting = {}
  BY <1>1 DEF Resting
<1>3. BookType
  BY SeqFacts, SMTT(20) DEF BookType
<1>4. CallType
  BY SeqFacts, SMTT(20) DEF CallType
<1>5. LevelsOwn /\ ArrivalOrder
  BY <1>1, SMTT(20) DEF LevelsOwn, ArrivalOrder, IsInjective
<1>6. NoEmptyLevel /\ NotCrossed
  BY <1>1 DEF NoEmptyLevel, NotCrossed
<1>7. IndexSound
  BY DEF IndexSound
<1>8. CallInv
  BY DEF CallInv
<1> QED BY <1>3, <1>4, <1>5, <1>6, <1>7, <1>8, TypeParts DEF IInv, BookInv

-----------------------------------------------------------------------------

(* The maker of a trade: the first order of the level, which rests in a    *)
(* book of the thread's own engine and is not the taker.                   *)
LEMMA MakerFacts ==
  ASSUME IInv, NEW t \in Threads, pc[t] = "match",
         NEW k \in levels, Tradable(ord[taker[t]], k)
  PROVE  /\ k \in Level /\ 1 \in 1..Len(queue[k])
         /\ queue[k][1] \in Resting /\ queue[k][1] \in Slots
         /\ ord[queue[k][1]] \in Order /\ ord[queue[k][1]] # None
         /\ LevelOf(ord[queue[k][1]]) = k
         /\ Home[k[1]] = EngineOf[t]
         /\ Busy(t) /\ ord[taker[t]] \in Order
         /\ taker[t] # queue[k][1]
<1>1. BookType /\ CallType /\ BookInv /\ CallInv
  BY TypeParts DEF IInv
<1>2. Busy(t) /\ ord[taker[t]] \in Order
  BY <1>1 DEF CallInv, CallType, Busy
<1>3. taker[t] \notin Resting /\ Home[ord[taker[t]].instrument] = EngineOf[t]
  BY <1>2 DEF Busy, Entered
<1>4. k \in Level /\ queue[k] # <<>>
  BY <1>1 DEF BookInv, NoEmptyLevel
<1>5. 1 \in 1..Len(queue[k])
  BY <1>1, <1>4, QueueFacts, SeqFacts
<1>6. queue[k][1] \in Range(queue[k]) /\ queue[k][1] \in Resting
  BY <1>1, <1>4, <1>5, QueueFacts, InResting
<1>7. LevelOf(ord[queue[k][1]]) = k
  BY <1>1, <1>4, <1>6 DEF BookInv, LevelsOwn
<1>8. /\ queue[k][1] \in Slots
      /\ ord[queue[k][1]] \in Order /\ ord[queue[k][1]] # None
  BY <1>1, <1>6, RestingFacts DEF BookInv, CallType
<1>9. Home[k[1]] = EngineOf[t]
  BY <1>3 DEF Tradable
<1> QED BY <1>2, <1>3, <1>4, <1>5, <1>6, <1>7, <1>8, <1>9

(* A step fills an order and changes none of the fields its owner set. *)
Fills(s, fill) ==
  /\ ord'[s] \in Order
  /\ ord'[s].id = ord[s].id /\ ord'[s].instrument = ord[s].instrument
  /\ ord'[s].side = ord[s].side /\ ord'[s].limit_price = ord[s].limit_price
  /\ ord'[s].type = ord[s].type /\ ord'[s].tif = ord[s].tif
  /\ ord'[s].initial_qty = ord[s].initial_qty
  /\ ord'[s].filled_qty = ord[s].filled_qty + fill

(* The order of thread t trades fill lots with the first order of level k. *)
Trades(t, k, fill) ==
  LET s == taker[t]
      m == queue[k][1]
  IN /\ Tradable(ord[s], k)
     /\ fill = qty_min(remaining(ord[s]), remaining(ord[m]))
     /\ Fills(s, fill)
     /\ \A r \in Slots \ {s, m} : ord'[r] = ord[r]
     /\ trades' = [trades EXCEPT ![t] =
          Append(@, [maker |-> ord[m].id, price |-> k[3], quantity |-> fill])]
     /\ IF ord[m].filled_qty + fill = ord[m].initial_qty
        THEN ord'[m] = None /\ Unrest(k, 1)
        ELSE Fills(m, fill) /\ ord'[m].status = "PartiallyFilled" /\ UNCHANGED bookVars

(* One iteration of the match loop, field by field: the fill is no more    *)
(* than either order has left.                                             *)
LEMMA TradeFacts ==
  ASSUME IInv, NEW t \in Threads, Trade(t)
  PROVE  /\ pc[t] = "match" /\ remaining(ord[taker[t]]) > 0
         /\ UNCHANGED <<live, held, pc, taker>>
         /\ DOMAIN ord' = Slots /\ ord' = [r \in Slots |-> ord'[r]]
         /\ \E k \in levels, fill \in Nat :
              /\ Trades(t, k, fill)
              /\ ord[taker[t]].filled_qty + fill <= ord[taker[t]].initial_qty
              /\ ord[queue[k][1]].filled_qty + fill <= ord[queue[k][1]].initial_qty
(* The fill of the match loop overfills neither the taker nor the maker.   *)
<1>FillFits.
      ASSUME NEW a \in Nat, NEW b \in Nat, NEW c \in Nat, NEW d \in Nat, a <= b, c <= d
      PROVE  /\ qty_min(b - a, d - c) \in Nat
             /\ a + qty_min(b - a, d - c) <= b
             /\ c + qty_min(b - a, d - c) <= d
             /\ a + qty_min(b - a, d - c) \in Nat /\ c + qty_min(b - a, d - c) \in Nat
  BY <1>FillFits, SMTT(20) DEF qty_min
<1> DEFINE s == taker[t]
           o == ord[s]
<1>1. CallType
  BY TypeParts DEF IInv
<1>2. pc[t] = "match" /\ remaining(o) > 0 /\ UNCHANGED <<live, held, pc, taker>>
  BY DEF Trade
<1>3. PICK k \in levels :
       /\ Tradable(o, k)
       /\ LET m    == queue[k][1]
              fill == qty_min(remaining(o), remaining(ord[m]))
              done == ord[m].filled_qty + fill = ord[m].initial_qty
              partly == [ord[m] EXCEPT !.filled_qty = @ + fill,
                                       !.status = "PartiallyFilled"]
          IN /\ ord' = [ord EXCEPT ![s].filled_qty = @ + fill,
                                   ![m] = IF done THEN None ELSE partly]
             /\ trades' = [trades EXCEPT ![t] =
                   Append(@, [maker |-> ord[m].id, price |-> k[3], quantity |-> fill])]
             /\ IF done THEN Unrest(k, 1) ELSE UNCHANGED bookVars
  BY DEF Trade, pop_top
<1> DEFINE m == queue[k][1]
           fill == qty_min(remaining(o), remaining(ord[m]))
           done == ord[m].filled_qty + fill = ord[m].initial_qty
           newTaker == [o EXCEPT !.filled_qty = @ + fill]
           newMaker == [ord[m] EXCEPT !.filled_qty = @ + fill,
                                      !.status = "PartiallyFilled"]
<1>4. /\ m \in Slots /\ ord[m] \in Order /\ ord[m] # None
      /\ s \in Slots /\ o \in Order /\ o # None /\ s # m
  BY <1>2, <1>3, MakerFacts DEF Busy
<1>5. /\ ord[m].filled_qty \in Nat /\ ord[m].initial_qty \in Nat
      /\ o.filled_qty \in Nat /\ o.initial_qty \in Nat
  BY <1>4 DEF Order
<1>6. o.filled_qty <= o.initial_qty /\ ord[m].filled_qty <= ord[m].initial_qty
  BY <1>1, <1>4 DEF CallType
<1>7. /\ fill \in Nat /\ o.filled_qty + fill <= o.initial_qty
      /\ ord[m].filled_qty + fill <= ord[m].initial_qty
      /\ o.filled_qty + fill \in Nat /\ ord[m].filled_qty + fill \in Nat
  <2> HIDE DEF o, m
  <2> QED BY <1>5, <1>6, <1>FillFits DEF remaining
<1>8. /\ ord'[s] = newTaker /\ ord'[m] = IF done THEN None ELSE newMaker
      /\ \A r \in Slots \ {s, m} : ord'[r] = ord[r]
  <2> DEFINE mid == [ord EXCEPT ![s].filled_qty = @ + fill]
  <2>1. ord' = [mid EXCEPT ![m] = IF done THEN None ELSE newMaker]
    BY <1>3
  <2>2. /\ mid[s] = newTaker /\ DOMAIN mid = Slots
        /\ \A r \in Slots \ {s} : mid[r] = ord[r]
    BY <1>1, <1>4 DEF CallType
  <2> HIDE DEF mid, newTaker, newMaker, m, done
  <2> QED BY <2>1, <2>2, <1>4
<1>9. trades' = [trades EXCEPT ![t] =
        Append(@, [maker |-> ord[m].id, price |-> k[3], quantity |-> fill])]
  BY <1>3
<1>10. IF done THEN Unrest(k, 1) ELSE UNCHANGED bookVars
  BY <1>3
<1>11. DOMAIN ord' = Slots /\ ord' = [r \in Slots |-> ord'[r]]
  BY <1>1, <1>3 DEF CallType
<1> HIDE DEF fill, m, o
<1>12. Fills(s, fill)
  <2>1. o \in Order /\ o.filled_qty + fill \in Nat
    BY <1>4, <1>7
  <2> HIDE DEF done, newMaker
  <2> QED BY <1>8, <2>1 DEF Order, Fills, o
<1>13. ~done => Fills(m, fill) /\ ord'[m].status = "PartiallyFilled"
  <2> DEFINE mid == [ord[m] EXCEPT !.filled_qty = @ + fill]
  <2>1. ord[m].filled_qty + fill \in Nat
    BY <1>7
  <2>2. /\ mid \in Order /\ mid.filled_qty = ord[m].filled_qty + fill
        /\ mid.id = ord[m].id /\ mid.instrument = ord[m].instrument
        /\ mid.side = ord[m].side /\ mid.limit_price = ord[m].limit_price
        /\ mid.type = ord[m].type /\ mid.tif = ord[m].tif
        /\ mid.initial_qty = ord[m].initial_qty
    BY <1>4, <2>1 DEF Order
  <2>3. newMaker = [mid EXCEPT !.status = "PartiallyFilled"]
    OBVIOUS
  <2> HIDE DEF mid, newMaker, done
  <2>4. newMaker \in Order /\ newMaker.status = "PartiallyFilled"
    BY <2>2, <2>3 DEF Order, Statuses
  <2>5. /\ newMaker.filled_qty = mid.filled_qty
        /\ newMaker.id = mid.id /\ newMaker.instrument = mid.instrument
        /\ newMaker.side = mid.side /\ newMaker.limit_price = mid.limit_price
        /\ newMaker.type = mid.type /\ newMaker.tif = mid.tif
        /\ newMaker.initial_qty = mid.initial_qty
    BY <2>2, <2>3 DEF Order
  <2> QED BY <1>8, <2>2, <2>4, <2>5 DEF Fills
<1>14. Trades(t, k, fill)
  <2> HIDE DEF newMaker, newTaker
  <2> QED BY <1>3, <1>8, <1>9, <1>10, <1>12, <1>13 DEF Trades, fill, m, o
<1> QED BY <1>2, <1>7, <1>11, <1>14 DEF m, o

(* Untouched books stay as they are. *)
LEMMA SameBook ==
  ASSUME BookType, BookInv, ord \in [Slots -> Order \cup {None}],
         UNCHANGED bookVars, \A s \in Resting : Keeps(s)
  PROVE  BookType' /\ BookInv' /\ Resting' = Resting
<1>1. levels' = levels /\ queue' = queue /\ index' = index /\ before' = before
  BY DEF bookVars
<1>2. BookType' /\ Resting' = Resting
  BY <1>1, SMTT(20) DEF BookType, Resting
<1>3. NoEmptyLevel' /\ NotCrossed' /\ ArrivalOrder'
  BY <1>1 DEF BookInv, NoEmptyLevel, NotCrossed, ArrivalOrder
<1>4. LevelsOwn'
  <2> SUFFICES ASSUME NEW k \in Level, NEW s \in Range(queue[k])
               PROVE  ord'[s] # None /\ LevelOf(ord'[s]) = k
    BY <1>1 DEF BookInv, LevelsOwn, LevelOf
  <2>1. LevelOf(ord[s]) = k
    BY DEF BookInv, LevelsOwn
  <2> QED BY <2>1, InResting DEF Keeps
<1>5. IndexSound'
  <2> SUFFICES ASSUME NEW i \in Instruments, NEW d \in Ids, index[i][d] # None
               PROVE  /\ index[i][d] \in Slots
                      /\ ord'[index[i][d]] # None
                      /\ ord'[index[i][d]].id = d
                      /\ ord'[index[i][d]].instrument = i
                      /\ index[i][d] \in Range(queue[LevelOf(ord'[index[i][d]])])
    BY <1>1, SMTT(20) DEF IndexSound, LevelOf
  <2> DEFINE s == index[i][d]
  <2>1. /\ s \in Slots /\ ord[s] # None /\ ord[s].id = d /\ ord[s].instrument = i
        /\ s \in Range(queue[LevelOf(ord[s])])
    BY SMTT(20) DEF BookInv, IndexSound
  <2>2. LevelOf(ord[s]) \in Level
    BY <2>1, LevelOfType
  <2>3. Keeps(s)
    BY <2>1, <2>2, InResting
  <2>4. ord'[s].instrument = ord[s].instrument
    BY <2>3 DEF Keeps, LevelOf
  <2> QED BY <2>1, <2>3, <2>4 DEF Keeps
<1> QED BY <1>2, <1>3, <1>4, <1>5 DEF BookInv

(* An order leaves a level: pop_top of a filled maker, cancel_and_get.     *)
LEMMA UnrestBook ==
  ASSUME BookType, BookInv, ord \in [Slots -> Order \cup {None}],
         NEW k \in Level, NEW n \in 1..Len(queue[k]), Unrest(k, n),
         \A s \in Resting \ {queue[k][n]} : Keeps(s)
  PROVE  /\ BookType' /\ BookInv'
         /\ Resting' = Resting \ {queue[k][n]}
         /\ levels \ {k} \subseteq levels' /\ levels' \subseteq levels
<1> DEFINE q == queue[k]
           s == q[n]
           rest == Without(q, n)
<1>1. /\ q \in Seq(Slots) /\ Len(q) \in Nat /\ DOMAIN q = 1..Len(q)
      /\ s \in Range(q) /\ s \in Slots /\ IsInjective(q)
  BY QueueFacts DEF BookInv, LevelsOwn
<1>2. /\ index' = [index EXCEPT ![k[1]][ord[s].id] = None]
      /\ queue' = [queue EXCEPT ![k] = rest]
      /\ levels' = IF rest = <<>> THEN levels \ {k} ELSE levels
      /\ before' = {b \in before : s \notin {b[1], b[2]}}
  BY DEF Unrest
<1>3. /\ rest \in Seq(Slots) /\ Len(rest) = Len(q) - 1
      /\ \A i \in 1..Len(q) - 1 : rest[i] = IF i < n THEN q[i] ELSE q[i + 1]
  BY <1>1, WithoutSeq
<1>4. IsInjective(rest) /\ Range(rest) = Range(q) \ {s}
  BY <1>1, WithoutRange
<1>5. ord[s] # None /\ LevelOf(ord[s]) = k /\ ord[s] \in Order
  BY <1>1 DEF BookInv, LevelsOwn
<1>6. k[1] = ord[s].instrument /\ k[1] \in Instruments /\ ord[s].id \in Ids
  BY <1>5, LevelOfType
<1>7. queue'[k] = rest /\ \A j \in Level \ {k} : queue'[j] = queue[j]
  BY <1>2 DEF BookType
<1> HIDE DEF q, rest
<1>8. \A j \in Level : Range(queue'[j]) = Range(queue[j]) \ {s}
  <2> SUFFICES ASSUME NEW j \in Level, j # k PROVE s \notin Range(queue[j])
    BY <1>4, <1>7 DEF q
  <2> QED BY <1>5 DEF BookInv, LevelsOwn
<1>9. Resting' = Resting \ {s}
  <2>1. ASSUME NEW x PROVE x \in Resting' <=> x \in Resting \ {s}
    <3>1. x \in Resting' <=> \E j \in Level : x \in Range(queue'[j])
      BY DEF Resting
    <3>2. x \in Resting <=> \E j \in Level : x \in Range(queue[j])
      BY DEF Resting
    <3> QED BY <1>8, <3>1, <3>2
  <2> QED BY <2>1
<1>10. BookType'
  <2>1. queue' \in [Level -> Seq(Slots)]
    BY <1>2, <1>3 DEF BookType
  <2>2. index' \in [Instruments -> [Ids -> Slots \cup {None}]]
    BY <1>2 DEF BookType
  <2>3. levels' \in SUBSET Level /\ before' \in SUBSET (Slots \X Slots)
    BY <1>2 DEF BookType
  <2> QED BY <2>1, <2>2, <2>3 DEF BookType
<1>11. LevelsOwn'
  <2> SUFFICES ASSUME NEW j \in Level
               PROVE  /\ IsInjective(queue'[j])
                      /\ \A x \in Range(queue'[j]) : ord'[x] # None /\ LevelOf(ord'[x]) = j
    BY DEF LevelsOwn, LevelOf
  <2>1. IsInjective(queue'[j])
    BY <1>4, <1>7 DEF BookInv, LevelsOwn
  <2>2. ASSUME NEW x \in Range(queue'[j]) PROVE ord'[x] # None /\ LevelOf(ord'[x]) = j
    <3>1. x \in Range(queue[j]) /\ x # s
      BY <1>8
    <3>2. Keeps(x)
      BY <3>1, InResting DEF q
    <3> QED BY <3>1, <3>2 DEF Keeps, BookInv, LevelsOwn
  <2> QED BY <2>1, <2>2
<1>12. NoEmptyLevel'
  <2>1. levels = {j \in Level : queue[j] # <<>>}
    BY DEF BookInv, NoEmptyLevel
  <2>2. q # <<>>
    BY <1>1, SeqFacts, SMTT(20) DEF q
  <2>3. levels' = {j \in Level : queue'[j] # <<>>}
    BY <1>2, <1>7, <2>1, <2>2 DEF q
  <2> QED BY <2>3 DEF NoEmptyLevel
<1>13. levels \ {k} \subseteq levels' /\ levels' \subseteq levels
  BY <1>2
<1>14. NotCrossed'
  BY <1>13 DEF BookInv, NotCrossed
<1>15. IndexSound'
  <2> SUFFICES ASSUME NEW i \in Instruments, NEW d \in Ids, index'[i][d] # None
               PROVE  /\ index'[i][d] \in Slots
                      /\ ord'[index'[i][d]] # None
                      /\ ord'[index'[i][d]].id = d
                      /\ ord'[index'[i][d]].instrument = i
                      /\ index'[i][d] \in Range(queue'[LevelOf(ord'[index'[i][d]])])
    BY DEF IndexSound, LevelOf
  <2> DEFINE x == index[i][d]
  <2>1. index'[i][d] = x /\ ~(i = k[1] /\ d = ord[s].id)
    BY <1>2, <1>6 DEF BookType
  <2>2. /\ x \in Slots /\ ord[x] # None /\ ord[x].id = d /\ ord[x].instrument = i
        /\ x \in Range(queue[LevelOf(ord[x])])
    BY <2>1, SMTT(20) DEF BookInv, IndexSound
  <2>3. x # s
    BY <1>6, <2>1, <2>2
  <2>4. LevelOf(ord[x]) \in Level
    BY <2>2, LevelOfType
  <2>5. Keeps(x)
    BY <2>2, <2>3, <2>4, InResting DEF q
  <2>6. ord'[x].instrument = ord[x].instrument
    BY <2>5 DEF Keeps, LevelOf
  <2>7. x \in Range(queue'[LevelOf(ord[x])])
    BY <1>8, <2>2, <2>3, <2>4
  <2> QED BY <2>1, <2>2, <2>5, <2>6, <2>7 DEF Keeps
<1>16. ArrivalOrder'
  <2> SUFFICES ASSUME NEW j \in Level, NEW a \in 1..Len(queue'[j]),
                      NEW b \in 1..Len(queue'[j]), a < b
               PROVE  <<queue'[j][a], queue'[j][b]>> \in before'
    BY DEF ArrivalOrder
  <2>1. queue'[j][a] # s /\ queue'[j][b] # s
    <3>1. queue'[j] \in Seq(Slots)
      BY <1>10 DEF BookType
    <3>2. queue'[j][a] \in Range(queue'[j]) /\ queue'[j][b] \in Range(queue'[j])
      BY <3>1, SeqFacts DEF Range
    <3> QED BY <3>2, <1>8
  <2>2. <<queue'[j][a], queue'[j][b]>> \in before
    <3>1. CASE j # k
      BY <3>1, <1>7 DEF BookInv, ArrivalOrder
    <3>2. CASE j = k
      <4> DEFINE at(i) == IF i < n THEN i ELSE i + 1
      <4>1. /\ at(a) \in 1..Len(q) /\ at(b) \in 1..Len(q) /\ at(a) < at(b)
            /\ rest[a] = q[at(a)] /\ rest[b] = q[at(b)]
        BY <3>2, <1>1, <1>3, <1>7, SMTT(20)
      <4> HIDE DEF at
      <4> QED BY <3>2, <4>1, <1>7 DEF BookInv, ArrivalOrder, q
    <3> QED BY <3>1, <3>2
  <2> QED BY <1>2, <2>1, <2>2, SMTT(20)
<1> QED BY <1>9, <1>10, <1>11, <1>12, <1>13, <1>14, <1>15, <1>16 DEF BookInv, q

(* An order comes to rest: add_resting of a taker nothing is left for.     *)
LEMMA AddBook ==
  ASSUME BookType, BookInv, ord \in [Slots -> Order \cup {None}],
         NEW s \in Slots, ord[s] # None, s \notin Resting,
         remaining(ord[s]) > 0, NothingLeft(ord[s]),
         add_resting(s, ord[s]), \A r \in Resting \cup {s} : Keeps(r)
  PROVE  /\ BookType' /\ BookInv'
         /\ Resting' = Resting \cup {s}
         /\ levels' = levels \cup {LevelOf(ord[s])}
<1> DEFINE o == ord[s]
           k == LevelOf(o)
           q == queue[k]
           mine == {x \in Resting : ord[x].instrument = o.instrument}
<1>1. o \in Order
  OBVIOUS
<1>2. k \in Level /\ k[1] = o.instrument /\ k[2] = o.side /\ k[3] = o.limit_price
      /\ o.instrument \in Instruments /\ o.id \in Ids
  BY <1>1, LevelOfType
<1>3. /\ levels' = levels \cup {k}
      /\ queue' = [queue EXCEPT ![k] = Append(@, s)]
      /\ index' = [index EXCEPT ![o.instrument][o.id] = IF @ = None THEN s ELSE @]
      /\ before' = before \cup {<<r, s>> : r \in mine}
  BY DEF add_resting
<1> HIDE DEF o, k, mine
<1>4. /\ q \in Seq(Slots) /\ Len(q) \in Nat /\ DOMAIN q = 1..Len(q)
      /\ s \notin Range(q) /\ IsInjective(q) /\ Range(q) \subseteq Slots
      /\ \A i \in 1..Len(q) : q[i] \in Range(q)
  BY <1>2, QueueFacts, InResting DEF BookInv, LevelsOwn
<1>5. queue'[k] = Append(q, s) /\ \A j \in Level \ {k} : queue'[j] = queue[j]
  BY <1>2, <1>3 DEF BookType
<1>6. /\ Append(q, s) \in Seq(Slots) /\ Len(Append(q, s)) = Len(q) + 1
      /\ \A i \in 1..Len(q) : Append(q, s)[i] = q[i]
      /\ Append(q, s)[Len(q) + 1] = s
      /\ DOMAIN Append(q, s) = 1..Len(q) + 1
  BY <1>4, SMTT(20)
<1>7. Range(Append(q, s)) = Range(q) \cup {s} /\ IsInjective(Append(q, s))
  <2> DEFINE a == Append(q, s)
  <2> HIDE DEF a
  <2>1. \A i \in 1..Len(q) + 1 : i \in 1..Len(q) \/ i = Len(q) + 1
    BY <1>4, SMTT(20)
  <2>2. Len(q) + 1 \in 1..Len(q) + 1 /\ \A i \in 1..Len(q) : i \in 1..Len(q) + 1
    BY <1>4, SMTT(20)
  <2>3. Range(a) = Range(q) \cup {s}
    BY <1>4, <1>6, <2>1, <2>2, SMTT(20) DEF Range, a
  <2>4. IsInjective(a)
    BY <1>4, <1>6, <2>1, SMTT(20) DEF IsInjective, a
  <2> QED BY <2>3, <2>4 DEF a
<1> HIDE DEF q
<1>8. /\ Range(queue'[k]) = Range(queue[k]) \cup {s}
      /\ \A j \in Level \ {k} : Range(queue'[j]) = Range(queue[j])
  BY <1>5, <1>7 DEF q
<1>9. Resting' = Resting \cup {s}
  <2>1. ASSUME NEW x PROVE x \in Resting' <=> x \in Resting \cup {s}
    <3>1. x \in Resting' <=> \E j \in Level : x \in Range(queue'[j])
      BY DEF Resting
    <3>2. x \in Resting <=> \E j \in Level : x \in Range(queue[j])
      BY DEF Resting
    <3> QED BY <1>2, <1>8, <3>1, <3>2
  <2> QED BY <2>1
<1>10. BookType'
  <2>1. queue' \in [Level -> Seq(Slots)]
    BY <1>2, <1>3, <1>6 DEF BookType, q
  <2>2. index' \in [Instruments -> [Ids -> Slots \cup {None}]]
    BY <1>2, <1>3, SMTT(20) DEF BookType
  <2>3. levels' \in SUBSET Level
    BY <1>2, <1>3 DEF BookType
  <2>4. Resting \subseteq Slots
    BY QueueFacts, SMTT(20) DEF Resting
  <2>5. before' \in SUBSET (Slots \X Slots)
    BY <1>3, <2>4, SMTT(20) DEF BookType, mine
  <2> QED BY <2>1, <2>2, <2>3, <2>5 DEF BookType
<1>11. LevelsOwn'
  <2> SUFFICES ASSUME NEW j \in Level
               PROVE  /\ IsInjective(queue'[j])
                      /\ \A x \in Range(queue'[j]) : ord'[x] # None /\ LevelOf(ord'[x]) = j
    BY DEF LevelsOwn, LevelOf
  <2>1. IsInjective(queue'[j])
    BY <1>5, <1>7 DEF BookInv, LevelsOwn
  <2>2. ASSUME NEW x \in Range(queue'[j]) PROVE ord'[x] # None /\ LevelOf(ord'[x]) = j
    <3>1. CASE x \in Range(queue[j])
      BY <3>1, InResting DEF Keeps, BookInv, LevelsOwn
    <3>2. CASE x = s /\ j = k
      BY <3>2 DEF Keeps, k, o
    <3> QED BY <3>1, <3>2, <1>8
  <2> QED BY <2>1, <2>2
<1>12. NoEmptyLevel'
  <2>1. levels = {j \in Level : queue[j] # <<>>}
    BY DEF BookInv, NoEmptyLevel
  <2>2. Append(q, s) # <<>>
    BY <1>4, <1>6, SMTT(20)
  <2>3. levels' = {j \in Level : queue'[j] # <<>>}
    BY <1>2, <1>3, <1>5, <2>1, <2>2
  <2> QED BY <2>3 DEF NoEmptyLevel
<1>13. NotCrossed'
  <2>1. \A j \in levels : j[1] = o.instrument /\ j[2] = opposite(o.side) =>
          ~prices_cross(o.side, o.limit_price, j[3])
    BY DEF NothingLeft, Reaches, o
  <2>2. \A j \in levels' : j[3] \in Int
    <3>1. \A p \in Prices : p \in Int
      BY ConstantFacts
    <3> QED BY <1>10, <3>1 DEF BookType, Level
  <2>3. o.limit_price \in Int
    BY <1>2, <1>3, <2>2
  <2> SUFFICES ASSUME NEW b \in levels', NEW a \in levels',
                      b[1] = a[1], b[2] = "Buy", a[2] = "Sell"
               PROVE  b[3] < a[3]
    BY DEF NotCrossed
  <2>4. CASE b \in levels /\ a \in levels
    BY <2>4 DEF BookInv, NotCrossed
  <2>5. CASE b = k /\ a \in levels
    BY <2>5, <1>2, <2>1, <2>2, <2>3, SMTT(20) DEF prices_cross, opposite
  <2>6. CASE b \in levels /\ a = k
    BY <2>6, <1>2, <2>1, <2>2, <2>3, SMTT(20) DEF prices_cross, opposite
  <2> QED BY <2>4, <2>5, <2>6, <1>3
<1>14. IndexSound'
  <2> SUFFICES ASSUME NEW i \in Instruments, NEW d \in Ids, index'[i][d] # None
               PROVE  /\ index'[i][d] \in Slots
                      /\ ord'[index'[i][d]] # None
                      /\ ord'[index'[i][d]].id = d
                      /\ ord'[index'[i][d]].instrument = i
                      /\ index'[i][d] \in Range(queue'[LevelOf(ord'[index'[i][d]])])
    BY DEF IndexSound, LevelOf
  <2>1. CASE index'[i][d] = index[i][d]
    <3> DEFINE x == index[i][d]
    <3>1. /\ x \in Slots /\ ord[x] # None /\ ord[x].id = d /\ ord[x].instrument = i
          /\ x \in Range(queue[LevelOf(ord[x])])
      BY <2>1, SMTT(20) DEF BookInv, IndexSound
    <3>2. LevelOf(ord[x]) \in Level
      BY <3>1, LevelOfType
    <3>3. Keeps(x)
      BY <3>1, <3>2, InResting
    <3>4. ord'[x].instrument = ord[x].instrument
      BY <3>3 DEF Keeps, LevelOf
    <3>5. x \in Range(queue'[LevelOf(ord[x])])
      BY <1>8, <3>1, <3>2
    <3> QED BY <2>1, <3>1, <3>3, <3>4, <3>5 DEF Keeps
  <2>2. CASE index'[i][d] # index[i][d]
    <3>1. i = o.instrument /\ d = o.id /\ index'[i][d] = s
      BY <2>2, <1>3 DEF BookType
    <3>2. Keeps(s)
      OBVIOUS
    <3>3. ord'[s].instrument = o.instrument
      BY <3>2 DEF Keeps, LevelOf, o
    <3>4. s \in Range(queue'[k])
      BY <1>8
    <3> QED BY <3>1, <3>2, <3>3, <3>4 DEF Keeps, k, o
  <2> QED BY <2>1, <2>2
<1>15. ArrivalOrder'
  <2> SUFFICES ASSUME NEW j \in Level, NEW a \in 1..Len(queue'[j]),
                      NEW b \in 1..Len(queue'[j]), a < b
               PROVE  <<queue'[j][a], queue'[j][b]>> \in before'
    BY DEF ArrivalOrder
  <2>1. CASE j # k
    BY <2>1, <1>3, <1>5, SMTT(20) DEF BookInv, ArrivalOrder
  <2>2. CASE j = k /\ b \in 1..Len(q)
    <3>1. a \in 1..Len(q)
      BY <2>2, <1>4, SMTT(20)
    <3>2. queue'[j][a] = q[a] /\ queue'[j][b] = q[b]
      BY <2>2, <3>1, <1>5, <1>6
    <3>3. <<q[a], q[b]>> \in before
      BY <2>2, <3>1, <1>2 DEF BookInv, ArrivalOrder, q
    <3> QED BY <3>2, <3>3, <1>3, SMTT(20)
  <2>3. CASE j = k /\ b = Len(q) + 1
    <3>1. a \in 1..Len(q)
      BY <2>3, <1>4, SMTT(20)
    <3>2. queue'[j][a] = q[a] /\ queue'[j][b] = s
      BY <2>3, <3>1, <1>5, <1>6
    <3>3. q[a] \in Range(queue[k]) /\ q[a] \in Resting
      BY <3>1, <1>2, <1>4, InResting DEF q
    <3>4. LevelOf(ord[q[a]]) = k
      BY <3>3, <1>2 DEF BookInv, LevelsOwn
    <3>5. ord[q[a]].instrument = o.instrument
      BY <3>4, <1>2 DEF LevelOf
    <3> QED BY <3>2, <3>3, <3>5, <1>3 DEF mine
  <2> QED BY <2>1, <2>2, <2>3, <1>4, <1>5, <1>6, SMTT(20)
<1> QED BY <1>3, <1>9, <1>10, <1>11, <1>12, <1>13, <1>14, <1>15 DEF BookInv, k, o

(* A book is destroyed: expire_instrument.  The other books stay. *)
LEMMA ExpireBook ==
  ASSUME BookType, BookInv, ord \in [Slots -> Order \cup {None}],
         NEW i \in Instruments,
         levels' = levels \ {k \in levels : k[1] = i},
         queue' = [k \in Level |-> IF k[1] = i THEN <<>> ELSE queue[k]],
         index' = [index EXCEPT ![i] = [d \in Ids |-> None]],
         before' = {b \in before : ord[b[1]].instrument # i},
         \A s \in Resting : ord[s].instrument # i => Keeps(s)
  PROVE  /\ BookType' /\ BookInv'
         /\ Resting' = {s \in Resting : ord[s].instrument # i}
         /\ levels' \subseteq levels
<1>1. \A k \in Level : queue'[k] = IF k[1] = i THEN <<>> ELSE queue[k]
  OBVIOUS
<1>2. \A k \in Level : Range(queue'[k]) = IF k[1] = i THEN {} ELSE Range(queue[k])
  <2>1. Range(<<>>) = {}
    BY SMTT(20) DEF Range
  <2> QED BY <1>1, <2>1
<1>3. \A k \in Level : \A s \in Range(queue[k]) :
        /\ s \in Slots /\ ord[s] # None /\ ord[s] \in Order
        /\ LevelOf(ord[s]) = k /\ ord[s].instrument = k[1] /\ s \in Resting
  <2> SUFFICES ASSUME NEW k \in Level, NEW s \in Range(queue[k])
               PROVE  /\ s \in Slots /\ ord[s] # None /\ ord[s] \in Order
                      /\ LevelOf(ord[s]) = k /\ ord[s].instrument = k[1] /\ s \in Resting
    OBVIOUS
  <2>1. s \in Slots /\ s \in Resting
    BY QueueFacts, InResting
  <2>2. ord[s] # None /\ LevelOf(ord[s]) = k
    BY DEF BookInv, LevelsOwn
  <2> QED BY <2>1, <2>2, LevelOfType
<1>4. Resting' = {s \in Resting : ord[s].instrument # i}
  <2>1. ASSUME NEW x PROVE x \in Resting' <=> x \in Resting /\ ord[x].instrument # i
    <3>1. x \in Resting' <=> \E k \in Level : x \in Range(queue'[k])
      BY DEF Resting
    <3>2. x \in Resting <=> \E k \in Level : x \in Range(queue[k])
      BY DEF Resting
    <3> QED BY <1>2, <1>3, <3>1, <3>2
  <2> QED BY <2>1
<1>5. BookType'
  <2>1. queue' \in [Level -> Seq(Slots)]
    BY SeqFacts, SMTT(20) DEF BookType
  <2>2. index' \in [Instruments -> [Ids -> Slots \cup {None}]]
    BY DEF BookType
  <2> QED BY <2>1, <2>2 DEF BookType
<1>6. LevelsOwn'
  <2> SUFFICES ASSUME NEW k \in Level
               PROVE  /\ IsInjective(queue'[k])
                      /\ \A s \in Range(queue'[k]) : ord'[s] # None /\ LevelOf(ord'[s]) = k
    BY DEF LevelsOwn, LevelOf
  <2>1. CASE k[1] = i
    BY <2>1, <1>1, <1>2, SMTT(20) DEF IsInjective
  <2>2. CASE k[1] # i
    <3>1. queue'[k] = queue[k]
      BY <1>1, <2>2
    <3>2. \A s \in Range(queue[k]) : Keeps(s)
      BY <1>3, <2>2
    <3> QED BY <3>1, <3>2, <1>3 DEF Keeps, BookInv, LevelsOwn
  <2> QED BY <2>1, <2>2
<1>7. NoEmptyLevel'
  <2>1. levels = {k \in Level : queue[k] # <<>>}
    BY DEF BookInv, NoEmptyLevel
  <2>2. levels' = {k \in Level : queue'[k] # <<>>}
    BY <1>1, <2>1
  <2> QED BY <2>2 DEF NoEmptyLevel
<1>8. NotCrossed'
  BY DEF BookInv, NotCrossed
<1>9. IndexSound'
  <2> SUFFICES ASSUME NEW j \in Instruments, NEW d \in Ids, index'[j][d] # None
               PROVE  /\ index'[j][d] \in Slots
                      /\ ord'[index'[j][d]] # None
                      /\ ord'[index'[j][d]].id = d
                      /\ ord'[index'[j][d]].instrument = j
                      /\ index'[j][d] \in Range(queue'[LevelOf(ord'[index'[j][d]])])
    BY DEF IndexSound, LevelOf
  <2> DEFINE x == index[j][d]
  <2>1. index'[j][d] = x /\ j # i
    BY DEF BookType
  <2>2. /\ x \in Slots /\ ord[x] # None /\ ord[x].id = d /\ ord[x].instrument = j
        /\ x \in Range(queue[LevelOf(ord[x])])
    BY <2>1, SMTT(20) DEF BookInv, IndexSound
  <2>3. LevelOf(ord[x]) \in Level /\ LevelOf(ord[x])[1] = j
    BY <2>2, LevelOfType
  <2>4. Keeps(x)
    BY <2>1, <2>2, <2>3, InResting
  <2>5. ord'[x].instrument = ord[x].instrument
    BY <2>4 DEF Keeps, LevelOf
  <2>6. x \in Range(queue'[LevelOf(ord[x])])
    BY <1>2, <2>1, <2>2, <2>3
  <2> QED BY <2>1, <2>2, <2>4, <2>5, <2>6 DEF Keeps
<1>10. ArrivalOrder'
  <2> SUFFICES ASSUME NEW k \in Level, NEW m \in 1..Len(queue'[k]),
                      NEW n \in 1..Len(queue'[k]), m < n
               PROVE  <<queue'[k][m], queue'[k][n]>> \in before'
    BY DEF ArrivalOrder
  <2>1. k[1] # i /\ queue'[k] = queue[k]
    BY <1>1, SMTT(20)
  <2>2. <<queue[k][m], queue[k][n]>> \in before
    BY <2>1 DEF BookInv, ArrivalOrder
  <2>3. queue[k][m] \in Range(queue[k])
    BY <2>1, QueueFacts
  <2>4. ord[queue[k][m]].instrument = k[1]
    BY <1>3, <2>3
  <2> QED BY <2>1, <2>2, <2>4
<1> QED BY <1>4, <1>5, <1>6, <1>7, <1>8, <1>9, <1>10 DEF BookInv

(* A thread in a call is not disturbed by a step that leaves its order     *)
(* alone and adds no level to the book its order was matched in.           *)
LEMMA OtherCall ==
  ASSUME NEW u \in Threads, Busy(u),
         pc'[u] = pc[u], taker'[u] = taker[u],
         ord'[taker[u]] = ord[taker[u]],
         taker[u] \notin held',
         taker[u] \in Resting' => taker[u] \in Resting,
         \A v \in Threads \ {u} : taker'[v] # taker[u],
         Entered(u) => \A k \in levels' : k[1] = ord[taker[u]].instrument => k \in levels
  PROVE  Busy(u)'
<1>1. Entered(u)' <=> Entered(u)
  BY DEF Entered
<1>2. Entered(u) /\ pc[u] # "match" => NothingLeft(ord[taker[u]])'
  <2> SUFFICES ASSUME Entered(u), pc[u] # "match" PROVE NothingLeft(ord[taker[u]])'
    OBVIOUS
  <2> DEFINE o == ord[taker[u]]
  <2>1. NothingLeft(o)
    BY DEF Busy
  <2>2. remaining(o) > 0 => \A k \in levels' :
          k[1] = o.instrument /\ k[2] = opposite(o.side) => ~Reaches(o, k[3])
    BY <2>1 DEF NothingLeft
  <2> QED BY <2>2 DEF NothingLeft, remaining, opposite, Reaches, prices_cross
<1> QED BY <1>1, <1>2 DEF Busy, is_terminal

(* The same for a book that a thread is about to change: no other thread   *)
(* has entered it.                                                         *)
LEMMA ApartBook ==
  ASSUME SingleThreaded, NEW t \in Threads, NEW u \in Threads \ {t},
         Busy(u), Entered(u), NEW i \in Instruments, Home[i] = EngineOf[t]
  PROVE  ord[taker[u]].instrument # i
BY DEF Busy, SingleThreaded

(* The threads other than the one that takes a step. *)
LEMMA Others ==
  ASSUME CallInv, NEW t \in Threads,
         \A u \in Threads \ {t} : pc'[u] = pc[u] /\ taker'[u] = taker[u],
         taker'[t] = taker[t] \/ taker'[t] = None \/ taker'[t] \in held,
         held' \subseteq held,
         \A u \in Threads \ {t} : pc[u] # "idle" =>
           /\ ord'[taker[u]] = ord[taker[u]]
           /\ taker[u] \in Resting' => taker[u] \in Resting
           /\ Entered(u) =>
                \A k \in levels' : k[1] = ord[taker[u]].instrument => k \in levels
  PROVE  \A u \in Threads \ {t} : IF pc'[u] = "idle" THEN taker'[u] = None ELSE Busy(u)'
<1> SUFFICES ASSUME NEW u \in Threads \ {t}
             PROVE  IF pc'[u] = "idle" THEN taker'[u] = None ELSE Busy(u)'
  OBVIOUS
<1>1. CASE pc[u] = "idle"
  BY <1>1 DEF CallInv
<1>2. CASE pc[u] # "idle"
  <2>1. Busy(u)
    BY <1>2 DEF CallInv
  <2>2. taker[u] \notin held' /\ taker[u] \in Slots
    BY <2>1 DEF Busy
  <2>3. \A v \in Threads \ {u} : taker'[v] # taker[u]
    BY <2>1, <2>2, MatchingAssumption DEF Busy
  <2>4. Busy(u)'
    BY <2>1, <2>2, <2>3, <1>2, OtherCall
  <2> QED BY <2>4, <1>2
<1> QED BY <1>1, <1>2

(* Pool::acquire takes a slot nobody uses. *)
LEMMA AcquireIInv ==
  ASSUME IInv, NEW s \in Slots, NEW e \in NewOrders, Acquire(s, e)
  PROVE  IInv'
<1> DEFINE o == [id |-> e.id, instrument |-> e.instrument, side |-> e.side,
                 type |-> e.type, tif |-> e.tif, limit_price |-> e.limit_price,
                 initial_qty |-> e.initial_qty, filled_qty |-> 0, status |-> "New"]
<1>1. BookType /\ CallType /\ BookInv /\ CallInv
  BY TypeParts DEF IInv
<1>2. o \in Order /\ o.filled_qty <= o.initial_qty
  <2>1. o \in Order
    BY FreshOrder
  <2>2. o.filled_qty = 0 /\ o.initial_qty \in Nat
    BY ConstantFacts
  <2> QED BY <2>1, <2>2, SMTT(20)
<1>3. o # None
  BY <1>2, MatchingAssumption
<1>4. /\ ord[s] = None /\ ord' = [ord EXCEPT ![s] = o] /\ held' = held \cup {s}
      /\ UNCHANGED <<live, bookVars, pc, taker, trades>>
  BY DEF Acquire, callVars
<1> HIDE DEF o
<1>5. s \notin Resting
  BY <1>1, <1>4, RestingFacts DEF BookInv, CallType
<1>6. \A r \in Slots \ {s} : ord'[r] = ord[r]
  BY <1>1, <1>4 DEF CallType
<1>7. \A r \in Resting : Keeps(r)
  BY <1>1, <1>5, <1>6, RestingFacts DEF Keeps, BookInv, CallType
<1>8. BookType' /\ BookInv' /\ Resting' = Resting
  BY <1>1, <1>4, <1>7, SameBook DEF CallType
<1>9. CallType'
  BY <1>1, <1>2, <1>4, <1>6 DEF CallType
<1>10. CallInv'
  <2>1. \A r \in held' : ord'[r] # None /\ r \notin Resting'
    BY <1>1, <1>3, <1>4, <1>5, <1>6, <1>8 DEF CallInv, CallType
  <2>2. ASSUME NEW u \in Threads
        PROVE  IF pc'[u] = "idle" THEN taker'[u] = None ELSE Busy(u)'
    <3>1. CASE pc[u] = "idle"
      BY <3>1, <1>1, <1>4 DEF CallInv
    <3>2. CASE pc[u] # "idle"
      <4>1. Busy(u)
        BY <3>2, <1>1 DEF CallInv
      <4>2. taker[u] # s /\ taker[u] \in Slots
        BY <4>1, <1>4 DEF Busy
      <4>3. levels' = levels
        BY <1>4 DEF bookVars
      <4>4. taker[u] \notin held' /\ \A v \in Threads \ {u} : taker'[v] # taker[u]
        BY <4>1, <4>2, <1>4 DEF Busy
      <4>5. Busy(u)'
        BY <4>1, <4>2, <4>3, <4>4, <1>4, <1>6, <1>8, OtherCall
      <4> QED BY <4>5, <3>2, <1>4
    <3> QED BY <3>1, <3>2
  <2> QED BY <2>1, <2>2 DEF CallInv
<1>11. TypeOK'
  BY <1>8, <1>9 DEF TypeOK, BookType, CallType
<1> QED BY <1>8, <1>10, <1>11 DEF IInv

(* Engine::submit up to the match: a slot goes from its holder to a call.  *)
LEMMA SubmitIInv ==
  ASSUME IInv, NEW t \in Threads, NEW s \in Slots, Submit(t, s)
  PROVE  IInv'
<1>1. BookType /\ CallType /\ BookInv /\ CallInv
  BY TypeParts DEF IInv
<1>2. /\ pc[t] = "idle" /\ s \in held /\ held' = held \ {s}
      /\ taker' = [taker EXCEPT ![t] = s]
      /\ UNCHANGED <<live, bookVars, trades>>
  BY DEF Submit
<1>3. \/ /\ Home[ord[s].instrument] = EngineOf[t]
         /\ pc' = [pc EXCEPT ![t] = "match"] /\ ord' = ord
      \/ /\ pc' = [pc EXCEPT ![t] = "return"]
         /\ ord' = [ord EXCEPT ![s].status = "Rejected"]
  BY DEF Submit, Accepts
<1>4. ord[s] # None /\ s \notin Resting /\ ord[s] \in Order
  BY <1>1, <1>2 DEF CallInv, CallType
<1>5. /\ \A r \in Slots \ {s} : ord'[r] = ord[r]
      /\ ord'[s] = ord[s] \/ ord'[s] = [ord[s] EXCEPT !.status = "Rejected"]
  BY <1>1, <1>3 DEF CallType
<1>6. [ord[s] EXCEPT !.status = "Rejected"] \in Order
  BY <1>4 DEF Order, Statuses
<1>7. ord' \in [Slots -> Order \cup {None}] /\ ord'[s] # None
  <2>1. ord'[s] \in Order
    BY <1>4, <1>5, <1>6
  <2>2. ord' \in [Slots -> Order \cup {None}]
    BY <1>1, <1>3, <1>6 DEF CallType
  <2>3. None \notin Order
    BY MatchingAssumption
  <2> QED BY <2>1, <2>2, <2>3
<1>8. ord'[s].filled_qty <= ord'[s].initial_qty
  BY <1>1, <1>4, <1>5 DEF CallType, Order
<1>9. CallType'
  <2>1. pc' \in [Threads -> {"idle", "match", "settle", "return"}]
    BY <1>1, <1>3, SMTT(20) DEF CallType
  <2>2. taker' \in [Threads -> Slots \cup {None}]
    BY <1>1, <1>2 DEF CallType
  <2>3. held' \in SUBSET Slots
    BY <1>1, <1>2 DEF CallType
  <2>4. \A r \in Slots : ord'[r] # None => ord'[r].filled_qty <= ord'[r].initial_qty
    BY <1>1, <1>5, <1>8 DEF CallType
  <2> QED BY <1>1, <1>2, <1>7, <2>1, <2>2, <2>3, <2>4 DEF CallType
<1>10. \A r \in Resting : Keeps(r)
  BY <1>1, <1>4, <1>5, RestingFacts DEF Keeps, BookInv, CallType
<1>11. BookType' /\ BookInv' /\ Resting' = Resting
  BY <1>1, <1>2, <1>10, SameBook DEF CallType
<1>12. levels' = levels
  BY <1>2 DEF bookVars
<1>13. /\ taker'[t] = s /\ \A u \in Threads \ {t} : taker'[u] = taker[u] /\ pc'[u] = pc[u]
       /\ pc'[t] \in {"match", "return"}
  BY <1>1, <1>2, <1>3 DEF CallType
<1>14. \A u \in Threads \ {t} : IF pc'[u] = "idle" THEN taker'[u] = None ELSE Busy(u)'
  <2>1. \A u \in Threads \ {t} : pc[u] # "idle" => ord'[taker[u]] = ord[taker[u]]
    BY <1>1, <1>2, <1>5 DEF CallInv, Busy
  <2> QED BY <1>1, <1>2, <1>11, <1>12, <1>13, <2>1, Others
<1>15. Busy(t)'
  <2>1. \A u \in Threads \ {t} : taker[u] # s
    BY <1>1, <1>2, MatchingAssumption DEF CallInv, Busy
  <2>2. Entered(t)' => pc'[t] = "match" /\ Home[ord'[s].instrument] = EngineOf[t]
    BY <1>1, <1>3, <1>4, <1>13, SMTT(20) DEF Entered, CallType, Order
  <2>3. /\ taker'[t] \in Slots /\ ord'[taker'[t]] # None /\ taker'[t] \notin held'
        /\ taker'[t] \notin Resting'
    BY <1>2, <1>4, <1>7, <1>11, <1>13, SMTT(20)
  <2>4. \A u \in Threads \ {t} : taker'[u] # taker'[t]
    BY <2>1, <1>13
  <2> QED BY <2>2, <2>3, <2>4, <1>13 DEF Busy
<1>16. \A r \in held' : ord'[r] # None /\ r \notin Resting'
  BY <1>1, <1>2, <1>5, <1>11 DEF CallInv, CallType
<1>17. CallInv'
  BY <1>13, <1>14, <1>15, <1>16 DEF CallInv
<1>18. TypeOK'
  BY <1>9, <1>11 DEF TypeOK, BookType, CallType
<1> QED BY <1>11, <1>17, <1>18 DEF IInv

(* The loop of match ends only when nothing reachable is left. *)
LEMMA StopMatchingIInv ==
  ASSUME IInv, NEW t \in Threads, StopMatching(t)
  PROVE  IInv'
<1>1. BookType /\ CallType /\ BookInv /\ CallInv
  BY TypeParts DEF IInv
<1>2. /\ pc[t] = "match" /\ pc' = [pc EXCEPT ![t] = "settle"]
      /\ remaining(ord[taker[t]]) > 0 => ~\E k \in levels : Tradable(ord[taker[t]], k)
      /\ UNCHANGED <<ord, live, bookVars, held, taker, trades>>
  BY DEF StopMatching
<1>3. Busy(t) /\ ord[taker[t]] \in Order
  BY <1>1, <1>2 DEF CallInv, CallType, Busy
<1>4. NothingLeft(ord[taker[t]])
  <2>1. CASE remaining(ord[taker[t]]) > 0
    BY <2>1, <1>1, <1>2, <1>3, NoTopNoMatch DEF BookType
  <2>2. CASE ~(remaining(ord[taker[t]]) > 0)
    BY <2>2 DEF NothingLeft
  <2> QED BY <2>1, <2>2
<1>5. levels' = levels /\ queue' = queue /\ index' = index /\ before' = before
  BY <1>2 DEF bookVars
<1>6. BookType' /\ BookInv' /\ Resting' = Resting
  <2>1. \A r \in Resting : Keeps(r)
    BY <1>1, <1>2, RestingFacts DEF Keeps, BookInv, CallType
  <2> QED BY <1>1, <1>2, <2>1, SameBook DEF CallType
<1>7. CallType'
  BY <1>1, <1>2 DEF CallType
<1>8. pc'[t] = "settle" /\ \A u \in Threads \ {t} : pc'[u] = pc[u]
  BY <1>1, <1>2, SMTT(20) DEF CallType
<1>9. Busy(t)'
  <2>1. NothingLeft(ord[taker[t]])'
    BY <1>2, <1>4, <1>5 DEF NothingLeft, Reaches, prices_cross, remaining, opposite
  <2>2. taker[t] \notin Resting /\ Home[ord[taker[t]].instrument] = EngineOf[t]
    BY <1>2, <1>3 DEF Busy, Entered
  <2>3. ord' = ord /\ taker' = taker /\ held' = held
    BY <1>2
  <2> QED BY <2>1, <2>2, <2>3, <1>3, <1>6, <1>8 DEF Busy, Entered
<1>10. \A u \in Threads \ {t} : IF pc'[u] = "idle" THEN taker'[u] = None ELSE Busy(u)'
  BY <1>1, <1>2, <1>5, <1>6, <1>8, Others
<1>11. CallInv'
  BY <1>1, <1>2, <1>6, <1>8, <1>9, <1>10 DEF CallInv
<1>12. TypeOK'
  BY <1>6, <1>7 DEF TypeOK, BookType, CallType
<1> QED BY <1>6, <1>11, <1>12 DEF IInv

(* The call returns; a terminal order, which does not rest, is released.   *)
LEMMA ReturnIInv ==
  ASSUME IInv, NEW t \in Threads, Return(t)
  PROVE  IInv'
<1> DEFINE s == taker[t]
<1>1. BookType /\ CallType /\ BookInv /\ CallInv
  BY TypeParts DEF IInv
<1>2. /\ pc[t] = "return" /\ pc' = [pc EXCEPT ![t] = "idle"]
      /\ taker' = [taker EXCEPT ![t] = None]
      /\ trades' = [trades EXCEPT ![t] = <<>>]
      /\ ord' = IF is_terminal(ord[s]) THEN [ord EXCEPT ![s] = None] ELSE ord
      /\ UNCHANGED <<live, bookVars, held>>
  BY DEF Return
<1>3. Busy(t) /\ s \in Slots
  BY <1>1, <1>2 DEF CallInv, Busy
<1>4. \A r \in Slots : \/ ord'[r] = ord[r]
                       \/ ord'[r] = None /\ r = s /\ is_terminal(ord[s])
  BY <1>1, <1>2, <1>3 DEF CallType
<1>5. is_terminal(ord[s]) => s \notin Resting
  BY <1>3 DEF Busy
<1>6. \A r \in Resting : Keeps(r)
  <2>1. ASSUME NEW r \in Resting PROVE ord'[r] = ord[r] /\ ord[r] # None
    BY <1>1, <1>4, <1>5, RestingFacts DEF BookInv, CallType
  <2> QED BY <2>1 DEF Keeps
<1>7. BookType' /\ BookInv' /\ Resting' = Resting
  BY <1>1, <1>2, <1>6, SameBook DEF CallType
<1>8. CallType'
  <2>1. ord' \in [Slots -> Order \cup {None}]
    BY <1>1, <1>2 DEF CallType
  <2>2. \A r \in Slots : ord'[r] # None => ord'[r].filled_qty <= ord'[r].initial_qty
    BY <1>1, <1>4 DEF CallType
  <2> QED BY <1>1, <1>2, <2>1, <2>2, SeqFacts, SMTT(20) DEF CallType
<1>9. /\ pc'[t] = "idle" /\ taker'[t] = None
      /\ \A u \in Threads \ {t} : pc'[u] = pc[u] /\ taker'[u] = taker[u]
  BY <1>1, <1>2 DEF CallType
<1>10. levels' = levels
  BY <1>2 DEF bookVars
<1>11. \A u \in Threads \ {t} : IF pc'[u] = "idle" THEN taker'[u] = None ELSE Busy(u)'
  <2>1. \A u \in Threads \ {t} : pc[u] # "idle" => ord'[taker[u]] = ord[taker[u]]
    BY <1>1, <1>3, <1>4 DEF CallInv, Busy
  <2> QED BY <1>1, <1>2, <1>7, <1>9, <1>10, <2>1, Others
<1>12. \A r \in held' : ord'[r] # None /\ r \notin Resting'
  <2> SUFFICES ASSUME NEW r \in held' PROVE ord'[r] # None /\ r \notin Resting'
    OBVIOUS
  <2>1. r \in held /\ r \in Slots
    BY <1>1, <1>2 DEF CallType
  <2>2. r # s /\ ord[r] # None /\ r \notin Resting
    BY <1>1, <1>3, <2>1 DEF CallInv, Busy
  <2> QED BY <1>4, <1>7, <2>1, <2>2
<1>13. CallInv'
  BY <1>9, <1>11, <1>12 DEF CallInv
<1>14. TypeOK'
  BY <1>7, <1>8, SMTT(20) DEF TypeOK, BookType, CallType
<1> QED BY <1>7, <1>13, <1>14, SMTT(20) DEF IInv

(* The rest of Matcher::submit: what may rest joins the book, and does not *)
(* cross it because nothing it could trade with is left.                   *)
LEMMA SettleIInv ==
  ASSUME IInv, SingleThreaded, NEW t \in Threads, Settle(t)
  PROVE  IInv'
<1> DEFINE s == taker[t]
           o == ord[s]
           rest == ~is_fully_filled(o) /\ MayRest(o)
<1>1. BookType /\ CallType /\ BookInv /\ CallInv
  BY TypeParts DEF IInv
<1>2. PICK st \in Statuses :
        /\ ord' = [ord EXCEPT ![s].status = st]
        /\ rest => ~(st \in {"Filled", "Cancelled", "Rejected"})
        /\ st # "Rejected"
  BY DEF Settle, Statuses
<1>3. /\ pc[t] = "settle" /\ pc' = [pc EXCEPT ![t] = "return"]
      /\ IF rest THEN add_resting(s, o) ELSE UNCHANGED bookVars
      /\ UNCHANGED <<live, held, taker, trades>>
  BY DEF Settle
<1>4. Busy(t) /\ s \in Slots /\ o # None /\ o \in Order /\ s \notin Resting /\ s \notin held
  BY <1>1, <1>3 DEF CallInv, CallType, Busy
<1>5. NothingLeft(o) /\ Home[o.instrument] = EngineOf[t]
  BY <1>3, <1>4 DEF Busy, Entered
<1>6. /\ \A r \in Slots \ {s} : ord'[r] = ord[r]
      /\ ord'[s] = [o EXCEPT !.status = st]
  BY <1>1, <1>2, <1>4 DEF CallType
<1>7. /\ [o EXCEPT !.status = st] \in Order
      /\ ord'[s].status = st /\ ord'[s].id = o.id /\ ord'[s].instrument = o.instrument
      /\ ord'[s].side = o.side /\ ord'[s].type = o.type
      /\ ord'[s].limit_price = o.limit_price
      /\ ord'[s].initial_qty = o.initial_qty /\ ord'[s].filled_qty = o.filled_qty
  BY <1>4, <1>6 DEF Order
<1> HIDE DEF o
<1>8. None \notin Order
  BY MatchingAssumption
<1>9. Keeps(s) /\ \A r \in Resting : Keeps(r)
  <2>1. Keeps(s)
    BY <1>6, <1>7, <1>8 DEF Keeps, LevelOf, o
  <2>2. ASSUME NEW r \in Resting PROVE ord'[r] = ord[r] /\ ord[r] # None
    BY <1>1, <1>4, <1>6, RestingFacts DEF BookInv, CallType
  <2> QED BY <2>1, <2>2 DEF Keeps
<1>10. /\ BookType' /\ BookInv'
       /\ Resting' = IF rest THEN Resting \cup {s} ELSE Resting
       /\ levels' = IF rest THEN levels \cup {LevelOf(o)} ELSE levels
  <2>1. CASE rest
    <3>1. remaining(o) > 0
      BY <2>1, <1>1, <1>4, SMTT(20) DEF MayRest, is_fully_filled, remaining, CallType,
         Order, o
    <3> QED BY <2>1, <3>1, <1>1, <1>3, <1>4, <1>5, <1>9, AddBook DEF o, CallType
  <2>2. CASE ~rest
    <3>1. UNCHANGED bookVars
      BY <2>2, <1>3
    <3>2. BookType' /\ BookInv' /\ Resting' = Resting
      BY <3>1, <1>1, <1>9, SameBook DEF CallType
    <3> QED BY <2>2, <3>1, <3>2 DEF bookVars
  <2> QED BY <2>1, <2>2
<1>11. CallType'
  <2>1. ord' \in [Slots -> Order \cup {None}]
    BY <1>1, <1>2, <1>7 DEF CallType, o
  <2>2. \A r \in Slots : ord'[r] # None => ord'[r].filled_qty <= ord'[r].initial_qty
    BY <1>1, <1>4, <1>6, <1>7 DEF CallType, o
  <2> QED BY <1>1, <1>3, <2>1, <2>2 DEF CallType
<1>12. /\ pc'[t] = "return" /\ taker'[t] = s
       /\ \A u \in Threads \ {t} : pc'[u] = pc[u] /\ taker'[u] = taker[u]
  BY <1>1, <1>3 DEF CallType
<1>13. Busy(t)'
  <2>1. NothingLeft(ord[taker[t]])'
    <3>1. \A k \in levels' : k \in levels \/ k[2] = o.side
      BY <1>10, SMTT(20) DEF LevelOf
    <3>2. opposite(o.side) # o.side
      BY <1>4 DEF opposite, Order, Sides, o
    <3>3. o.initial_qty - o.filled_qty > 0 => \A k \in levels' :
            k[1] = o.instrument /\ k[2] = opposite(o.side) => ~Reaches(o, k[3])
      BY <3>1, <3>2, <1>5 DEF NothingLeft, remaining
    <3> QED BY <3>3, <1>7, <1>12, SMTT(20) DEF NothingLeft, remaining, opposite, Reaches,
               prices_cross
  <2>2. s \in Resting' => ~is_terminal(ord'[s])
    BY <1>2, <1>4, <1>7, <1>10 DEF is_terminal
  <2>3. ord'[s] # None
    BY <1>9 DEF Keeps
  <2>4. \A u \in Threads \ {t} : taker'[u] # s
    BY <1>4, <1>12 DEF Busy
  <2> QED BY <2>1, <2>2, <2>3, <2>4, <1>3, <1>4, <1>5, <1>7, <1>12 DEF Busy, is_terminal
<1>14. \A u \in Threads \ {t} : IF pc'[u] = "idle" THEN taker'[u] = None ELSE Busy(u)'
  <2>1. ASSUME NEW u \in Threads \ {t}, pc[u] # "idle"
        PROVE  /\ ord'[taker[u]] = ord[taker[u]]
               /\ taker[u] \in Resting' => taker[u] \in Resting
               /\ Entered(u) =>
                    \A k \in levels' : k[1] = ord[taker[u]].instrument => k \in levels
    <3>1. Busy(u)
      BY <2>1, <1>1 DEF CallInv
    <3>2. taker[u] # s /\ taker[u] \in Slots
      BY <3>1 DEF Busy
    <3>3. Entered(u) => ord[taker[u]].instrument # o.instrument
      BY <3>1, <1>4, <1>5, LevelOfType, ApartBook DEF o
    <3>4. LevelOf(o)[1] = o.instrument
      BY DEF LevelOf
    <3> QED BY <3>2, <3>3, <3>4, <1>6, <1>10
  <2> QED BY <2>1, <1>1, <1>3, <1>12, Others
<1>15. \A r \in held' : ord'[r] # None /\ r \notin Resting'
  BY <1>1, <1>3, <1>4, <1>6, <1>10 DEF CallInv, CallType
<1>16. CallInv'
  BY <1>12, <1>13, <1>14, <1>15 DEF CallInv
<1>17. TypeOK'
  BY <1>10, <1>11 DEF TypeOK, BookType, CallType
<1> QED BY <1>10, <1>16, <1>17 DEF IInv

(* Engine::cancel: the order leaves the book its locator names. *)
LEMMA CancelIInv ==
  ASSUME IInv, SingleThreaded, NEW t \in Threads,
         NEW i \in Instruments, NEW d \in Ids, Cancel(t, i, d)
  PROVE  IInv'
<1> DEFINE s == index[i][d]
           k == LevelOf(ord[s])
<1>1. BookType /\ CallType /\ BookInv /\ CallInv
  BY TypeParts DEF IInv
<1>2. /\ pc[t] = "idle" /\ Home[i] = EngineOf[t] /\ s # None
      /\ ord' = [ord EXCEPT ![s] = None]
      /\ UNCHANGED <<live, held, pc, taker, trades>>
  BY DEF Cancel, Finds, callVars
<1>3. PICK n \in 1..Len(queue[k]) : queue[k][n] = s /\ Unrest(k, n)
  BY DEF Cancel
<1>4. /\ s \in Slots /\ ord[s] # None /\ ord[s] \in Order /\ ord[s].instrument = i
      /\ s \in Range(queue[k])
  <2>1. s # None
    BY <1>2
  <2>2. IndexSound
    BY <1>1 DEF BookInv
  <2>3. s \in Slots /\ ord[s] # None /\ ord[s].instrument = i /\ s \in Range(queue[k])
    BY <2>1, <2>2 DEF IndexSound
  <2>4. ord[s] \in Order
    BY <1>1, <2>3 DEF CallType
  <2> QED BY <2>3, <2>4
<1>5. k \in Level /\ s \in Resting
  BY <1>4, LevelOfType, InResting
<1> HIDE DEF s, k
<1>6. \A r \in Slots \ {s} : ord'[r] = ord[r]
  BY <1>1, <1>2 DEF CallType
<1>7. \A r \in Resting \ {s} : Keeps(r)
  <2>1. ASSUME NEW r \in Resting \ {s} PROVE ord'[r] = ord[r] /\ ord[r] # None
    BY <1>1, <1>6, RestingFacts DEF BookInv, CallType
  <2> QED BY <2>1 DEF Keeps
<1>8. BookType' /\ BookInv' /\ Resting' = Resting \ {s} /\ levels' \subseteq levels
  BY <1>1, <1>3, <1>5, <1>7, UnrestBook DEF CallType
<1>9. CallType'
  <2>1. ord' \in [Slots -> Order \cup {None}]
    BY <1>1, <1>2 DEF CallType
  <2>2. \A r \in Slots : ord'[r] # None => ord'[r].filled_qty <= ord'[r].initial_qty
    BY <1>1, <1>2, <1>6 DEF CallType
  <2> QED BY <1>1, <1>2, <2>1, <2>2 DEF CallType
<1>10. ASSUME NEW u \in Threads \ {t}, pc[u] # "idle"
       PROVE  ord'[taker[u]] = ord[taker[u]]
  <2>1. taker[u] # s
    BY <1>1, <1>2, <1>4, <1>5, <1>10, Apart
  <2>2. taker[u] \in Slots
    BY <1>1, <1>10 DEF CallInv, Busy
  <2> QED BY <2>1, <2>2, <1>6
<1>11. \A u \in Threads \ {t} : IF pc'[u] = "idle" THEN taker'[u] = None ELSE Busy(u)'
  BY <1>1, <1>2, <1>8, <1>10, Others
<1>12. \A r \in held' : ord'[r] # None /\ r \notin Resting'
  BY <1>1, <1>2, <1>5, <1>6, <1>8 DEF CallInv, CallType
<1>13. CallInv'
  BY <1>1, <1>2, <1>11, <1>12 DEF CallInv
<1>14. TypeOK'
  BY <1>8, <1>9 DEF TypeOK, BookType, CallType
<1> QED BY <1>8, <1>13, <1>14 DEF IInv

(* Engine::expire_instrument: one book and its first orders go, and no     *)
(* other thread had an order there.                                        *)
LEMMA ExpireIInv ==
  ASSUME IInv, SingleThreaded, NEW t \in Threads, NEW i \in Instruments, Expire(t, i)
  PROVE  IInv'
<1>1. BookType /\ CallType /\ BookInv /\ CallInv
  BY TypeParts DEF IInv
<1>2. /\ pc[t] = "idle" /\ Home[i] = EngineOf[t]
      /\ ord' = [s \in Slots |->
                   IF \E k \in {j \in levels : j[1] = i} : s = queue[k][1]
                   THEN None ELSE ord[s]]
      /\ levels' = levels \ {k \in levels : k[1] = i}
      /\ queue' = [k \in Level |-> IF k[1] = i THEN <<>> ELSE queue[k]]
      /\ index' = [index EXCEPT ![i] = [d \in Ids |-> None]]
      /\ before' = {b \in before : ord[b[1]].instrument # i}
      /\ live' = live \ {i}
      /\ UNCHANGED <<held, pc, taker, trades>>
  BY DEF Expire, callVars
<1>3. \A k \in levels : /\ k \in Level /\ queue[k][1] \in Range(queue[k])
                        /\ queue[k][1] \in Resting
                        /\ ord[queue[k][1]].instrument = k[1]
  <2> SUFFICES ASSUME NEW k \in levels
               PROVE  /\ k \in Level /\ queue[k][1] \in Range(queue[k])
                      /\ queue[k][1] \in Resting
                      /\ ord[queue[k][1]].instrument = k[1]
    OBVIOUS
  <2>1. k \in Level /\ queue[k] # <<>>
    BY <1>1 DEF BookInv, NoEmptyLevel
  <2>2. 1 \in 1..Len(queue[k])
    BY <2>1, <1>1, QueueFacts
  <2>3. queue[k][1] \in Range(queue[k]) /\ queue[k][1] \in Resting
    BY <2>1, <2>2, <1>1, QueueFacts, InResting
  <2>4. LevelOf(ord[queue[k][1]]) = k
    BY <2>1, <2>3, <1>1 DEF BookInv, LevelsOwn
  <2>5. ord[queue[k][1]].instrument = k[1]
    BY <2>4, LevelParts
  <2> QED BY <2>1, <2>3, <2>5
<1>4. \A s \in Slots : ord'[s] # ord[s] =>
        ord'[s] = None /\ s \in Resting /\ ord[s].instrument = i
  BY <1>2, <1>3
<1>5. \A s \in Resting : ord[s].instrument # i => Keeps(s)
  <2>1. ASSUME NEW s \in Resting, ord[s].instrument # i
        PROVE  ord'[s] = ord[s] /\ ord[s] # None
    BY <2>1, <1>1, <1>4, RestingFacts, SMTT(20) DEF BookInv, CallType
  <2> QED BY <2>1 DEF Keeps
<1>6. /\ BookType' /\ BookInv' /\ levels' \subseteq levels
      /\ Resting' = {s \in Resting : ord[s].instrument # i}
  BY <1>1, <1>2, <1>5, ExpireBook DEF CallType
<1>7. CallType'
  <2>1. ord' \in [Slots -> Order \cup {None}]
    BY <1>1, <1>2 DEF CallType
  <2>2. \A s \in Slots : ord'[s] # None => ord'[s].filled_qty <= ord'[s].initial_qty
    BY <1>1, <1>4 DEF CallType
  <2>3. live' \in SUBSET Instruments
    BY <1>1, <1>2 DEF CallType
  <2> QED BY <1>1, <1>2, <2>1, <2>2, <2>3 DEF CallType
<1>8. ASSUME NEW u \in Threads \ {t}, pc[u] # "idle"
      PROVE  ord'[taker[u]] = ord[taker[u]]
  <2>1. taker[u] \in Slots
    BY <1>1, <1>8 DEF CallInv, Busy
  <2>2. taker[u] \in Resting => ord[taker[u]].instrument # i
    BY <1>1, <1>2, <1>8, Apart
  <2> QED BY <2>1, <2>2, <1>4
<1>9. \A u \in Threads \ {t} : IF pc'[u] = "idle" THEN taker'[u] = None ELSE Busy(u)'
  BY <1>1, <1>2, <1>6, <1>8, Others
<1>10. \A s \in held' : ord'[s] # None /\ s \notin Resting'
  BY <1>1, <1>2, <1>4, <1>6 DEF CallInv, CallType
<1>11. CallInv'
  BY <1>1, <1>2, <1>9, <1>10 DEF CallInv
<1>12. TypeOK'
  BY <1>6, <1>7 DEF TypeOK, BookType, CallType
<1> QED BY <1>6, <1>11, <1>12 DEF IInv

(* Only a filled maker leaves the book and the pool. *)
LEMMA TradeIInv ==
  ASSUME IInv, SingleThreaded, NEW t \in Threads, Trade(t)
  PROVE  IInv'
<1> DEFINE s == taker[t]
           o == ord[s]
<1>1. BookType /\ CallType /\ BookInv /\ CallInv
  BY TypeParts DEF IInv
<1>2. PICK k \in levels, fill \in Nat :
        /\ Trades(t, k, fill)
        /\ ord[s].filled_qty + fill <= ord[s].initial_qty
        /\ ord[queue[k][1]].filled_qty + fill <= ord[queue[k][1]].initial_qty
  BY TradeFacts
<1>3. /\ pc[t] = "match" /\ UNCHANGED <<live, held, pc, taker>>
      /\ DOMAIN ord' = Slots /\ ord' = [r \in Slots |-> ord'[r]]
  BY TradeFacts
<1> DEFINE m == queue[k][1]
           done == ord[m].filled_qty + fill = ord[m].initial_qty
<1>4. /\ Tradable(o, k) /\ Fills(s, fill)
      /\ \A r \in Slots \ {s, m} : ord'[r] = ord[r]
      /\ trades' = [trades EXCEPT ![t] =
           Append(@, [maker |-> ord[m].id, price |-> k[3], quantity |-> fill])]
  BY <1>2 DEF Trades
<1>5. IF done THEN ord'[m] = None /\ Unrest(k, 1)
      ELSE Fills(m, fill) /\ ord'[m].status = "PartiallyFilled" /\ UNCHANGED bookVars
  BY <1>2 DEF Trades
<1>6. /\ k \in Level /\ 1 \in 1..Len(queue[k]) /\ m \in Resting /\ m \in Slots
      /\ ord[m] \in Order /\ ord[m] # None /\ LevelOf(ord[m]) = k
      /\ Home[k[1]] = EngineOf[t] /\ Busy(t) /\ o \in Order /\ s # m
  BY <1>3, <1>4, MakerFacts
<1>7. s \in Slots /\ s \notin Resting /\ s \notin held /\ m \notin held
  BY <1>1, <1>3, <1>6 DEF Busy, CallInv
<1>8. None \notin Order /\ ord'[s] # None
  BY <1>4, MatchingAssumption DEF Fills
<1> HIDE DEF m, o, done
<1>9. CallType'
  <2>1. \A r \in Slots : ord'[r] \in Order \cup {None}
    BY <1>1, <1>4, <1>5 DEF CallType, Fills
  <2>2. ord' \in [Slots -> Order \cup {None}]
    BY <2>1, <1>3
  <2>3. ASSUME NEW r \in Slots, ord'[r] # None
        PROVE  ord'[r].filled_qty <= ord'[r].initial_qty
    <3>1. CASE r = s
      BY <3>1, <1>2, <1>4 DEF Fills
    <3>2. CASE r = m
      BY <3>2, <2>3, <1>2, <1>5 DEF Fills, m
    <3>3. CASE r # s /\ r # m
      BY <3>3, <2>3, <1>1, <1>4 DEF CallType
    <3> QED BY <3>1, <3>2, <3>3
  <2>4. trades' \in [Threads -> Seq(TradeRecord)]
    <3>1. k[3] \in Prices /\ ord[m].id \in Ids
      BY <1>6, LevelPrices
    <3>2. [maker |-> ord[m].id, price |-> k[3], quantity |-> fill] \in TradeRecord
      BY <3>1 DEF TradeRecord
    <3> QED BY <3>2, <1>1, <1>4, SMTT(20) DEF CallType
  <2> QED BY <1>1, <1>3, <2>2, <2>3, <2>4 DEF CallType
<1>10. \A r \in Resting \ {m} : Keeps(r)
  <2>1. ASSUME NEW r \in Resting \ {m} PROVE ord'[r] = ord[r] /\ ord[r] # None
    BY <1>1, <1>4, <1>7, RestingFacts DEF BookInv, CallType
  <2> QED BY <2>1, SMTT(20) DEF Keeps
<1>11. /\ BookType' /\ BookInv' /\ levels' \subseteq levels
       /\ Resting' \subseteq Resting
  <2>1. CASE done
    BY <2>1, <1>1, <1>5, <1>6, <1>10, UnrestBook DEF CallType, m
  <2>2. CASE ~done
    <3>1. Keeps(m)
      BY <2>2, <1>5, <1>8 DEF Fills, Keeps, LevelOf
    <3>2. UNCHANGED bookVars
      BY <2>2, <1>5
    <3>3. BookType' /\ BookInv' /\ Resting' = Resting
      BY <3>1, <3>2, <1>1, <1>10, SameBook DEF CallType
    <3> QED BY <3>2, <3>3 DEF bookVars
  <2> QED BY <2>1, <2>2
<1>12. Busy(t)'
  BY <1>3, <1>4, <1>6, <1>7, <1>8, <1>11 DEF Busy, Entered, Fills, o
<1>13. ASSUME NEW u \in Threads \ {t}, pc[u] # "idle"
       PROVE  ord'[taker[u]] = ord[taker[u]]
  <2>1. ord[m].instrument = k[1]
    BY <1>6, LevelOfType
  <2>2. taker[u] # m
    BY <2>1, <1>1, <1>6, <1>13, Apart
  <2>3. taker[u] \in Slots /\ taker[u] # s
    BY <1>1, <1>13 DEF CallInv, Busy
  <2> QED BY <2>2, <2>3, <1>4
<1>14. \A u \in Threads \ {t} : IF pc'[u] = "idle" THEN taker'[u] = None ELSE Busy(u)'
  BY <1>1, <1>3, <1>11, <1>13, Others
<1>15. \A r \in held' : ord'[r] # None /\ r \notin Resting'
  BY <1>1, <1>3, <1>4, <1>7, <1>11 DEF CallInv, CallType
<1>16. CallInv'
  BY <1>1, <1>3, <1>12, <1>14, <1>15 DEF CallInv
<1>17. TypeOK'
  BY <1>9, <1>11 DEF TypeOK, BookType, CallType
<1> QED BY <1>11, <1>16, <1>17 DEF IInv

(* Every step of every thread preserves the invariant. *)
LEMMA NextIInv ==
  ASSUME SingleThreaded, IInv, [Next]_vars
  PROVE  IInv'
<1>1. CASE UNCHANGED vars
  <2>1. TypeOK'
    <3>1. BookType'
      BY <1>1, TypeParts DEF IInv, BookType, vars
    <3>2. CallType'
      BY <1>1, TypeParts DEF IInv, CallType, vars
    <3> QED BY <3>1, <3>2 DEF TypeOK, BookType, CallType
  <2>2. Resting' = Resting
    BY <1>1 DEF vars, Resting
  <2>3. BookInv'
    <3>1. LevelsOwn' /\ ArrivalOrder'
      BY <1>1 DEF IInv, BookInv, LevelsOwn, ArrivalOrder, LevelOf, vars
    <3>2. NoEmptyLevel' /\ NotCrossed'
      BY <1>1 DEF IInv, BookInv, NoEmptyLevel, NotCrossed, vars
    <3>3. IndexSound'
      BY <1>1 DEF IInv, BookInv, IndexSound, LevelOf, vars
    <3> QED BY <3>1, <3>2, <3>3 DEF BookInv
  <2>4. CallInv'
    <3>1. \A o : NothingLeft(o) => NothingLeft(o)'
      BY <1>1 DEF NothingLeft, vars
    <3>2. \A t \in Threads : Busy(t) => Busy(t)'
      BY <1>1, <2>2, <3>1 DEF Busy, Entered, is_terminal, vars
    <3> QED BY <1>1, <2>2, <3>2 DEF IInv, CallInv, vars
  <2> QED BY <2>1, <2>3, <2>4 DEF IInv
<1>2. ASSUME NEW s \in Slots, NEW e \in NewOrders, Acquire(s, e) PROVE IInv'
  BY <1>2, AcquireIInv
<1>3. ASSUME NEW t \in Threads, NEW s \in Slots, Submit(t, s) PROVE IInv'
  BY <1>3, SubmitIInv, SMTT(20)
<1>4. ASSUME NEW t \in Threads, Trade(t) PROVE IInv'
  BY <1>4, TradeIInv
<1>5. ASSUME NEW t \in Threads, StopMatching(t) PROVE IInv'
  BY <1>5, StopMatchingIInv
<1>6. ASSUME NEW t \in Threads, Settle(t) PROVE IInv'
  BY <1>6, SettleIInv
<1>7. ASSUME NEW t \in Threads, Return(t) PROVE IInv'
  BY <1>7, ReturnIInv
<1>8. ASSUME NEW t \in Threads, NEW i \in Instruments, NEW d \in Ids, Cancel(t, i, d)
      PROVE  IInv'
  BY <1>8, CancelIInv
<1>9. ASSUME NEW t \in Threads, NEW i \in Instruments, Expire(t, i) PROVE IInv'
  BY <1>9, ExpireIInv
<1> QED BY <1>1, <1>2, <1>3, <1>4, <1>5, <1>6, <1>7, <1>8, <1>9 DEF Next

-----------------------------------------------------------------------------
(* The inductive invariant holds in every state, whatever the pool, the    *)
(* instruments, the shards and the orders entered, as long as each engine  *)
(* is called by one thread only.                                           *)
THEOREM Invariance == ASSUME SingleThreaded PROVE Spec => []IInv
<1>1. Init => IInv
  BY InitIInv
<1>2. IInv /\ [Next]_vars => IInv'
  BY NextIInv
<1> QED BY <1>1, <1>2, PTL DEF Spec

(* The types hold and no order is ever overfilled, so remaining() of       *)
(* order.hpp never wraps.                                                  *)
THEOREM TypeCorrect == ASSUME SingleThreaded PROVE Spec => []TypeOK
<1>1. IInv => TypeOK
  BY DEF IInv
<1> QED BY <1>1, Invariance, PTL

(* Every slot of the shared Pool that is on a level, held by a caller or   *)
(* in a call is allocated and has that one owner: release() never frees an *)
(* order in use, and no order is released twice.                           *)
THEOREM PoolSafe == ASSUME SingleThreaded PROVE Spec => []OneOwner
<1>1. IInv => OneOwner
  BY DEF IInv, BookInv, LevelsOwn, CallInv, Busy, OneOwner
<1> QED BY <1>1, Invariance, PTL

(* No book is ever crossed, in any interleaving of the shards and in the   *)
(* middle of any match.                                                    *)
THEOREM BooksSound == ASSUME SingleThreaded PROVE Spec => []NotCrossed
<1>1. IInv => NotCrossed
  BY DEF IInv, BookInv
<1> QED BY <1>1, Invariance, PTL

(* The maps hold exactly the levels with orders on them: peek_top never    *)
(* looks at an empty level, whatever cancels, fills and drains have left.  *)
THEOREM MapsAreExact == ASSUME SingleThreaded PROVE Spec => []NoEmptyLevel
<1>1. IInv => NoEmptyLevel
  BY DEF IInv, BookInv
<1> QED BY <1>1, Invariance, PTL

(* Matcher::submit hands back a remainder only when the book holds no      *)
(* order it could still trade with.                                        *)
THEOREM MatchIsComplete == ASSUME SingleThreaded PROVE Spec => []RemainderHasNoMatch
<1>1. IInv => RemainderHasNoMatch
  <2> SUFFICES ASSUME IInv, NEW t \in Threads, pc[t] = "return",
                      ord[taker[t]].status # "Rejected", remaining(ord[taker[t]]) > 0,
                      NEW s \in Resting,
                      ord[s].instrument = ord[taker[t]].instrument,
                      ord[s].side = opposite(ord[taker[t]].side),
                      Reaches(ord[taker[t]], ord[s].limit_price)
               PROVE  FALSE
    BY DEF RemainderHasNoMatch
  <2>1. BookType /\ CallType /\ BookInv /\ CallInv
    BY TypeParts DEF IInv
  <2>2. NothingLeft(ord[taker[t]])
    BY <2>1 DEF CallInv, Busy, Entered
  <2>3. s \in Range(queue[LevelOf(ord[s])]) /\ LevelOf(ord[s]) \in Level
    BY <2>1, RestingFacts DEF BookInv, CallType
  <2>4. LevelOf(ord[s]) \in levels
    <3> DEFINE k == LevelOf(ord[s])
    <3> HIDE DEF k
    <3>1. PICK n \in 1..Len(queue[k]) : s = queue[k][n]
      BY <2>1, <2>3, QueueFacts DEF k
    <3>2. queue[k] # <<>>
      BY <3>1, NoPlaces
    <3> QED BY <3>2, <2>1, <2>3 DEF BookInv, NoEmptyLevel, k
  <2> QED BY <2>2, <2>4 DEF NothingLeft, LevelOf
<1> QED BY <1>1, Invariance, PTL

(* Price-time priority, for any number of orders on any number of levels:  *)
(* a trade always takes the best-priced resting order and, at that price,  *)
(* the one that came to rest first.                                        *)
THEOREM Priority == ASSUME SingleThreaded PROVE Spec => PriceTimePriority
(* The maker peek_top gives is ahead of every other order of its side: no  *)
(* level is better than the top, and a level is ordered by arrival.        *)
<1>TopIsFirst.
      ASSUME IInv, NEW k \in levels, IsTop(k), 1 \in 1..Len(queue[k]),
             queue[k][1] \in Resting, LevelOf(ord[queue[k][1]]) = k,
             NEW s \in Resting \ {queue[k][1]},
             ord[s].instrument = k[1], ord[s].side = k[2]
      PROVE  \/ Precedes(k[2], k[3], ord[s].limit_price)
             \/ k[3] = ord[s].limit_price /\ <<queue[k][1], s>> \in before
  <2> USE <1>TopIsFirst
  <2> DEFINE j == LevelOf(ord[s])
  <2>1. BookType /\ CallType /\ BookInv
    BY TypeParts DEF IInv
  <2>2. s \in Range(queue[j]) /\ j \in Level /\ ord[s] \in Order
    BY <2>1, RestingFacts DEF BookInv, CallType
  <2>3. j[1] = k[1] /\ j[2] = k[2] /\ j[3] = ord[s].limit_price
    BY DEF LevelOf
  <2>4. j \in levels /\ k \in Level
    <3>1. queue[j] # <<>>
      BY <2>2, SMTT(20) DEF Range
    <3> QED BY <3>1, <2>1, <2>2 DEF BookInv, NoEmptyLevel
  <2>5. ~Precedes(k[2], j[3], k[3])
    BY <2>3, <2>4 DEF IsTop
  <2>6. j[3] \in Int /\ k[3] \in Int
    <3>1. j[3] \in Prices /\ k[3] \in Prices
      BY <2>2, <2>4 DEF Level
    <3>2. \A p \in Prices : p \in Int
      BY ConstantFacts
    <3> QED BY <3>1, <3>2
  <2>7. CASE j[3] # k[3]
    BY <2>3, <2>5, <2>6, <2>7, SMTT(20) DEF Precedes
  <2>8. CASE j[3] = k[3]
    <3>1. j = k
      BY <2>2, <2>3, <2>4, <2>8, SameLevel
    <3>2. PICK n \in 1..Len(queue[k]) : s = queue[k][n]
      BY <3>1, <2>1, <2>2, QueueFacts
    <3>3. Len(queue[k]) \in Nat
      BY <2>1, <2>4, QueueFacts
    <3>4. 1 < n
      BY <3>2, <3>3, SMTT(20)
    <3>5. <<queue[k][1], queue[k][n]>> \in before
      BY <3>2, <3>4, <2>1, <2>4 DEF BookInv, ArrivalOrder
    <3> QED BY <3>2, <3>5, <2>3, <2>8
  <2> QED BY <2>7, <2>8
<1> DEFINE First(t) ==
      \E m \in Resting :
        /\ ord[m].instrument = ord[taker[t]].instrument
        /\ ord[m].side = opposite(ord[taker[t]].side)
        /\ ord[m].id = trades'[t][Len(trades'[t])].maker
        /\ \A s \in Resting \ {m} :
             ord[s].instrument = ord[m].instrument /\ ord[s].side = ord[m].side =>
               \/ Precedes(ord[m].side, ord[m].limit_price, ord[s].limit_price)
               \/ ord[m].limit_price = ord[s].limit_price /\ <<m, s>> \in before
<1>1. ASSUME IInv, NEW t \in Threads, Trade(t) PROVE First(t)
  <2>1. pc[t] = "match"
    BY <1>1 DEF Trade
  <2>2. PICK k \in levels :
          /\ Tradable(ord[taker[t]], k)
          /\ \E q : trades' = [trades EXCEPT ![t] =
               Append(@, [maker |-> ord[queue[k][1]].id, price |-> k[3], quantity |-> q])]
    BY <1>1 DEF Trade
  <2> DEFINE m == queue[k][1]
  <2>3. /\ 1 \in 1..Len(queue[k]) /\ m \in Resting /\ LevelOf(ord[m]) = k
        /\ ord[m] \in Order
    BY <1>1, <2>1, <2>2, MakerFacts
  <2>4. ord[m].instrument = k[1] /\ ord[m].side = k[2] /\ ord[m].limit_price = k[3]
    BY <2>3, LevelOfType, SMTT(20)
  <2>5. IsTop(k) /\ k[1] = ord[taker[t]].instrument /\ k[2] = opposite(ord[taker[t]].side)
    BY <2>2 DEF Tradable
  <2>6. trades'[t][Len(trades'[t])].maker = ord[m].id
    <3>1. trades \in [Threads -> Seq(TradeRecord)]
      BY <1>1 DEF IInv, TypeOK
    <3>2. PICK q : trades' = [trades EXCEPT ![t] =
               Append(@, [maker |-> ord[m].id, price |-> k[3], quantity |-> q])]
      BY <2>2
    <3> DEFINE x == [maker |-> ord[m].id, price |-> k[3], quantity |-> q]
    <3>3. trades'[t] = Append(trades[t], x) /\ x.maker = ord[m].id
      BY <3>1, <3>2
    <3>4. trades[t] \in Seq(TradeRecord)
      BY <3>1
    <3> HIDE DEF x, m
    <3>5. Append(trades[t], x)[Len(Append(trades[t], x))] = x
      BY <3>4, SMTT(20)
    <3> QED BY <3>3, <3>5
  <2>7. \A s \in Resting \ {m} :
          ord[s].instrument = ord[m].instrument /\ ord[s].side = ord[m].side =>
            \/ Precedes(ord[m].side, ord[m].limit_price, ord[s].limit_price)
            \/ ord[m].limit_price = ord[s].limit_price /\ <<m, s>> \in before
    BY <1>1, <2>3, <2>4, <2>5, <1>TopIsFirst
  <2> QED BY <2>3, <2>4, <2>5, <2>6, <2>7
<1>2. ASSUME IInv, [Next]_vars, NEW t \in Threads, Len(trades'[t]) > Len(trades[t])
      PROVE  Trade(t)
  <2>1. trades \in [Threads -> Seq(TradeRecord)]
    BY <1>2 DEF IInv, TypeOK
  <2>2. Len(trades[t]) \in Nat /\ Len(<<>>) = 0
    BY <2>1, SeqFacts
  <2>3. trades'[t] # trades[t] /\ trades'[t] # <<>>
    BY <1>2, <2>2, SMTT(20)
  <2>4. trades' # trades
    BY <2>3
  <2>5. \A s \in Slots, e \in NewOrders : ~Acquire(s, e)
    BY <2>4 DEF Acquire, callVars
  <2>6. \A u \in Threads :
          /\ \A s \in Slots : ~Submit(u, s)
          /\ ~StopMatching(u) /\ ~Settle(u)
          /\ \A i \in Instruments, d \in Ids : ~Cancel(u, i, d)
          /\ \A i \in Instruments : ~Expire(u, i)
    BY <2>4 DEF Submit, StopMatching, Settle, Cancel, Expire, callVars
  <2>7. \A u \in Threads : ~Return(u)
    BY <2>1, <2>3 DEF Return
  <2>8. \A u \in Threads : Trade(u) => u = t
    <3> SUFFICES ASSUME NEW u \in Threads, Trade(u), u # t PROVE FALSE
      OBVIOUS
    <3>1. PICK x : trades' = [trades EXCEPT ![u] = x]
      BY DEF Trade
    <3> QED BY <3>1, <2>1, <2>3
  <2>9. ~UNCHANGED vars
    BY <2>4 DEF vars
  <2> QED BY <1>2, <2>5, <2>6, <2>7, <2>8, <2>9 DEF Next
<1>3. IInv /\ [Next]_vars =>
        [\A t \in Threads : Len(trades'[t]) > Len(trades[t]) => First(t)]_vars
  BY <1>1, <1>2
<1> QED BY <1>3, Invariance, PTL DEF Spec, PriceTimePriority
=============================================================================
