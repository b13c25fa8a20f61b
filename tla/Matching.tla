------------------------------ MODULE Matching ------------------------------
(***************************************************************************)
(* OrderBook, Matcher and Engine over a shared Pool.                       *)
(*                                                                         *)
(* A thread calls one engine; an engine owns the books of its instruments. *)
(* The match loop runs one iteration per step, so the threads of different *)
(* shards interleave on the pool and a book is seen in mid-match.          *)
(*                                                                         *)
(* A slot that is back in the pool has no content (None): a step that      *)
(* used a released order would show as an order that is not there.         *)
(***************************************************************************)
EXTENDS Integers, Sequences, FiniteSets, Functions, SequenceRemoval

CONSTANTS
  Slots,        \* the storage of the Pool
  Instruments,  \* the ids in the registry
  Engines,      \* the engines sharing the Pool (one per shard)
  Home,         \* the engine whose ShardFilter accepts an instrument
  Threads,      \* the threads that call engines
  EngineOf,     \* the engine a thread calls
  NewOrders,    \* the orders callers may enter
  FreshIds,     \* TRUE: a caller never reuses the id of an order in use
  MaxHeld,      \* bound: slots acquired and not yet submitted at any time
  None          \* nullptr, and the content of a slot in the pool

Sides    == {"Buy", "Sell"}
Statuses == {"New", "PartiallyFilled", "Filled", "Cancelled", "Rejected"}
Ids      == {o.id : o \in NewOrders}
Prices   == {o.limit_price : o \in NewOrders}

(* The gateway casts a byte of the message to these enums without a test:  *)
(* "Other" is a value that equals no enumerator.                           *)
Types == {"Limit", "Market", "Other"}
Tifs  == {"GTC", "IOC", "FOK", "Day", "Other"}

(* The fields of Order that matching reads.  Callers set the first seven;  *)
(* filled_qty is 0 and status is New in a slot fresh from the pool.        *)
Entries ==
  [id : Ids, instrument : Instruments, side : Sides, type : Types, tif : Tifs,
   limit_price : Int, initial_qty : Nat]

Order ==
  [id : Ids, instrument : Instruments, side : Sides, type : Types, tif : Tifs,
   limit_price : Prices, initial_qty : Nat, filled_qty : Nat, status : Statuses]

Level == Instruments \X Sides \X Prices

(* A map keyed by these prices has a begin() whenever it is not empty,     *)
(* under std::less and under std::greater: prices are int64 values.        *)
PricesAreBounded ==
  \A S \in SUBSET Prices : S # {} =>
    \E p, q \in S : \A r \in S : p <= r /\ r <= q

ASSUME MatchingAssumption ==
  /\ IsFiniteSet(Slots)
  /\ NewOrders \subseteq Entries
  /\ Home \in [Instruments -> Engines]
  /\ EngineOf \in [Threads -> Engines]
  /\ FreshIds \in BOOLEAN
  /\ PricesAreBounded
  /\ MaxHeld \in Nat
  /\ None \notin Order
  /\ None \notin Slots

VARIABLES
  ord,      \* the content of every slot of the pool
  live,     \* the instruments that still have a matcher
  levels,   \* the keys present in the bids_ and asks_ maps
  queue,    \* the orders on every level, the oldest first
  index,    \* order_map_ of every book: the order a locator points to
  held,     \* slots acquired by callers and not yet submitted
  pc,       \* where each thread is in Engine::submit
  taker,    \* the order each thread is submitting
  trades,   \* MatchResult::trades of each thread's call
  before    \* history: <<r, s>> when r already rested as s came to rest

vars == <<ord, live, levels, queue, index, held, pc, taker, trades, before>>
callVars == <<pc, taker, trades>>
bookVars == <<levels, queue, index, before>>

-----------------------------------------------------------------------------
(* order.hpp and types.hpp *)

opposite(side) == IF side = "Buy" THEN "Sell" ELSE "Buy"

remaining(o) == o.initial_qty - o.filled_qty

is_fully_filled(o) == o.filled_qty = o.initial_qty

is_terminal(o) == o.status \in {"Filled", "Cancelled", "Rejected"}

\* Mutant: the larger quantity is filled.
qty_max(a, b) == IF a >= b THEN a ELSE b

qty_min(a, b) == IF a <= b THEN a ELSE b

\* Mutant: IOC is not looked at.
MayRestAnyLimit(o) == o.type # "Market"

(* The branches of Matcher::submit after the match: what is left of a      *)
(* market order or of an IOC order is dropped.                             *)
MayRest(o) == o.type # "Market" /\ o.tif # "IOC"

(* Matcher::prices_cross *)
prices_cross(side, limit, maker) ==
  IF side = "Buy" THEN maker <= limit ELSE maker >= limit

(* The loop conditions of match: only a limit order looks at its limit. *)
Reaches(o, price) == o.type = "Limit" => prices_cross(o.side, o.limit_price, price)

\* Mutant: the two comparators are swapped.
PrecedesSwapped(side, p, q) == IF side = "Buy" THEN p < q ELSE p > q

(* bids_ is ordered by std::greater, asks_ by std::less. *)
Precedes(side, p, q) == IF side = "Buy" THEN p > q ELSE p < q

(* The level at begin() of a side's map: the one peek_top looks at. *)
IsTop(k) ==
  /\ k \in levels
  /\ \A j \in levels : j[1] = k[1] /\ j[2] = k[2] => ~Precedes(k[2], j[3], k[3])

\* Mutant: the limit of the taker is not compared.
TradableAtAnyPrice(o, k) ==
  IsTop(k) /\ k[1] = o.instrument /\ k[2] = opposite(o.side)

(* The top level the loop of match may trade with. *)
Tradable(o, k) ==
  /\ IsTop(k)
  /\ k[1] = o.instrument
  /\ k[2] = opposite(o.side)
  /\ Reaches(o, k[3])

LevelOf(o) == <<o.instrument, o.side, o.limit_price>>

Resting == UNION {Range(queue[k]) : k \in Level}

InUse == Resting \cup held \cup {taker[t] : t \in Threads}

-----------------------------------------------------------------------------
\* Mutant: the order is linked at the front of its level.
add_resting_front(s, o) ==
  LET k == LevelOf(o)
  IN /\ levels' = levels \cup {k}
     /\ queue' = [queue EXCEPT ![k] = <<s>> \o @]
     /\ index' = [index EXCEPT ![o.instrument][o.id] = IF @ = None THEN s ELSE @]
     /\ before' = before \cup
          {<<r, s>> : r \in {x \in Resting : ord[x].instrument = o.instrument}}

(* OrderBook::add_resting: an id that is already indexed keeps its old     *)
(* locator, because unordered_map::emplace does nothing then.              *)
add_resting(s, o) ==
  LET k == LevelOf(o)
  IN /\ levels' = levels \cup {k}
     /\ queue' = [queue EXCEPT ![k] = Append(@, s)]
     /\ index' = [index EXCEPT ![o.instrument][o.id] = IF @ = None THEN s ELSE @]
     /\ before' = before \cup
          {<<r, s>> : r \in {x \in Resting : ord[x].instrument = o.instrument}}

\* Mutant: an empty level stays in the map.
UnrestKeepLevel(k, n) ==
  /\ index' = [index EXCEPT ![k[1]][ord[queue[k][n]].id] = None]
  /\ queue' = [queue EXCEPT ![k] = Without(@, n)]
  /\ before' = {b \in before : queue[k][n] \notin {b[1], b[2]}}
  /\ UNCHANGED levels

\* Mutant: the id stays in the index.
UnrestKeepIndex(k, n) ==
  /\ queue' = [queue EXCEPT ![k] = Without(@, n)]
  /\ levels' = IF Len(queue[k]) = 1 THEN levels \ {k} ELSE levels
  /\ before' = {b \in before : queue[k][n] \notin {b[1], b[2]}}
  /\ UNCHANGED index

(* OrderBook::cancel_and_get: the n-th order leaves level k, its id leaves *)
(* the index, and an empty level leaves the map.                           *)
Unrest(k, n) ==
  LET s    == queue[k][n]
      rest == Without(queue[k], n)
  IN /\ index' = [index EXCEPT ![k[1]][ord[s].id] = None]
     /\ queue' = [queue EXCEPT ![k] = rest]
     /\ levels' = IF rest = <<>> THEN levels \ {k} ELSE levels
     /\ before' = {b \in before : s \notin {b[1], b[2]}}

(* OrderBook::pop_top, on the top level of a side. *)
pop_top(k) == Unrest(k, 1)

(* The levels the loop of can_fully_fill walks before it breaks. *)
Reached(o) ==
  {k \in levels : k[1] = o.instrument /\ k[2] = opposite(o.side) /\ Reaches(o, k[3])}

(* The orders on them. *)
MakersFor(o) == UNION {Range(queue[k]) : k \in Reached(o)}

\* Mutant: makers count with all they asked for, filled or not.
can_fully_fill_initial(o) ==
  SumFunction([s \in MakersFor(o) |-> ord[s].initial_qty]) >= remaining(o)

(* Matcher::can_fully_fill: what the taker could reach covers its need. *)
can_fully_fill(o) ==
  SumFunction([s \in MakersFor(o) |-> remaining(ord[s])]) >= remaining(o)

(* The checks of Engine::submit and Matcher::submit before the match.      *)
Accepts(e, o) ==
  /\ o.instrument \in live
  /\ Home[o.instrument] = e
  /\ o.initial_qty # 0
  /\ o.type = "Limit" => o.limit_price > 0
  /\ o.type = "Market" => o.tif \notin {"GTC", "Day"}
  /\ o.tif = "FOK" => can_fully_fill(o)

-----------------------------------------------------------------------------
Init ==
  /\ ord = [s \in Slots |-> None]
  /\ live = Instruments
  /\ levels = {}
  /\ queue = [k \in Level |-> <<>>]
  /\ index = [i \in Instruments |-> [d \in Ids |-> None]]
  /\ held = {}
  /\ pc = [t \in Threads |-> "idle"]
  /\ taker = [t \in Threads |-> None]
  /\ trades = [t \in Threads |-> <<>>]
  /\ before = {}

(* Pool::acquire hands out a zeroed slot, which the caller fills in. *)
Acquire(s, e) ==
  /\ ord[s] = None
  /\ Cardinality(held) < MaxHeld
  /\ FreshIds => \A r \in InUse \ {None} :
                   ord[r].id # e.id \/ ord[r].instrument # e.instrument
  /\ ord' = [ord EXCEPT ![s] =
       [id |-> e.id, instrument |-> e.instrument, side |-> e.side,
        type |-> e.type, tif |-> e.tif, limit_price |-> e.limit_price,
        initial_qty |-> e.initial_qty, filled_qty |-> 0, status |-> "New"]]
  /\ held' = held \cup {s}
  /\ UNCHANGED <<live, bookVars, callVars>>

(* Engine::submit up to the match: routing, validation and the FOK check. *)
Submit(t, s) ==
  /\ pc[t] = "idle"
  /\ s \in held
  /\ held' = held \ {s}
  /\ taker' = [taker EXCEPT ![t] = s]
  /\ IF Accepts(EngineOf[t], ord[s])
     THEN /\ pc' = [pc EXCEPT ![t] = "match"]
          /\ UNCHANGED ord
     ELSE /\ pc' = [pc EXCEPT ![t] = "return"]
          /\ ord' = [ord EXCEPT ![s].status = "Rejected"]
  /\ UNCHANGED <<live, bookVars, trades>>

(* One iteration of the loop of Matcher::match that trades. *)
Trade(t) ==
  /\ pc[t] = "match"
  /\ remaining(ord[taker[t]]) > 0
  /\ \E k \in levels :
       /\ Tradable(ord[taker[t]], k)
       /\ LET m    == queue[k][1]
              fill == qty_min(remaining(ord[taker[t]]), remaining(ord[m]))
              done == ord[m].filled_qty + fill = ord[m].initial_qty
              partly == [ord[m] EXCEPT !.filled_qty = @ + fill,
                                       !.status = "PartiallyFilled"]
          IN /\ ord' = [ord EXCEPT ![taker[t]].filled_qty = @ + fill,
                                   ![m] = IF done THEN None ELSE partly]
             /\ trades' = [trades EXCEPT ![t] =
                   Append(@, [maker |-> ord[m].id, price |-> k[3], quantity |-> fill])]
             /\ IF done THEN pop_top(k) ELSE UNCHANGED bookVars
  /\ UNCHANGED <<live, held, pc, taker>>

\* Mutant: the loop may end after a trade although more can be filled.
StopAfterTrade(t) ==
  /\ pc[t] = "match"
  /\ remaining(ord[taker[t]]) > 0 /\ trades[t] = <<>> =>
       ~\E k \in levels : Tradable(ord[taker[t]], k)
  /\ pc' = [pc EXCEPT ![t] = "settle"]
  /\ UNCHANGED <<ord, live, bookVars, held, taker, trades>>

(* The loop ends: nothing is left to fill, or the top of the other side is *)
(* missing or beyond the limit.                                            *)
StopMatching(t) ==
  /\ pc[t] = "match"
  /\ remaining(ord[taker[t]]) > 0 => ~\E k \in levels : Tradable(ord[taker[t]], k)
  /\ pc' = [pc EXCEPT ![t] = "settle"]
  /\ UNCHANGED <<ord, live, bookVars, held, taker, trades>>

(* The rest of Matcher::submit: the status, and resting what may rest. *)
Settle(t) ==
  /\ pc[t] = "settle"
  /\ LET s    == taker[t]
         o    == ord[s]
         rest == ~is_fully_filled(o) /\ MayRest(o)
         st   == IF is_fully_filled(o) THEN "Filled"
                 ELSE IF o.filled_qty > 0 THEN "PartiallyFilled"
                 ELSE IF rest THEN "New" ELSE "Cancelled"
     IN /\ ord' = [ord EXCEPT ![s].status = st]
        /\ IF rest THEN add_resting(s, o) ELSE UNCHANGED bookVars
  /\ pc' = [pc EXCEPT ![t] = "return"]
  /\ UNCHANGED <<live, held, taker, trades>>

\* Mutant: the caller releases an order that has traded, resting or not.
ReturnReleasesTraded(t) ==
  /\ pc[t] = "return"
  /\ ord' = IF is_terminal(ord[taker[t]]) \/ trades[t] # <<>>
            THEN [ord EXCEPT ![taker[t]] = None] ELSE ord
  /\ pc' = [pc EXCEPT ![t] = "idle"]
  /\ taker' = [taker EXCEPT ![t] = None]
  /\ trades' = [trades EXCEPT ![t] = <<>>]
  /\ UNCHANGED <<live, bookVars, held>>

(* The caller gets MatchResult and releases the order if it is terminal. *)
Return(t) ==
  /\ pc[t] = "return"
  /\ ord' = IF is_terminal(ord[taker[t]]) THEN [ord EXCEPT ![taker[t]] = None]
            ELSE ord
  /\ pc' = [pc EXCEPT ![t] = "idle"]
  /\ taker' = [taker EXCEPT ![t] = None]
  /\ trades' = [trades EXCEPT ![t] = <<>>]
  /\ UNCHANGED <<live, bookVars, held>>

(* The lookups of Engine::cancel and OrderBook::cancel_and_get succeed. *)
Finds(e, i, d) == i \in live /\ Home[i] = e /\ index[i][d] # None

(* Engine::cancel of an order it finds; otherwise it changes nothing. *)
Cancel(t, i, d) ==
  /\ pc[t] = "idle"
  /\ Finds(EngineOf[t], i, d)
  /\ LET s == index[i][d]
     IN /\ \E n \in 1..Len(queue[LevelOf(ord[s])]) :
             /\ queue[LevelOf(ord[s])][n] = s
             /\ Unrest(LevelOf(ord[s]), n)
        /\ ord' = [ord EXCEPT ![s] = None]
  /\ UNCHANGED <<live, held, callVars>>

(* Engine::expire_instrument: the drain reaches the first order of every   *)
(* level (see PriceLevel), the book and its matcher are destroyed.         *)
Expire(t, i) ==
  /\ pc[t] = "idle"
  /\ i \in live
  /\ Home[i] = EngineOf[t]
  /\ LET drained == {k \in levels : k[1] = i}
     IN /\ ord' = [s \in Slots |->
                     IF \E k \in drained : s = queue[k][1] THEN None ELSE ord[s]]
        /\ levels' = levels \ drained
        /\ queue' = [k \in Level |-> IF k[1] = i THEN <<>> ELSE queue[k]]
  /\ index' = [index EXCEPT ![i] = [d \in Ids |-> None]]
  /\ before' = {b \in before : ord[b[1]].instrument # i}
  /\ live' = live \ {i}
  /\ UNCHANGED <<held, callVars>>

Next ==
  \/ \E s \in Slots, e \in NewOrders : Acquire(s, e)
  \/ \E t \in Threads :
       \/ \E s \in Slots : Submit(t, s)
       \/ Trade(t)
       \/ StopMatching(t)
       \/ Settle(t)
       \/ Return(t)
       \/ \E i \in Instruments, d \in Ids : Cancel(t, i, d)
       \/ \E i \in Instruments : Expire(t, i)

Spec == Init /\ [][Next]_vars

-----------------------------------------------------------------------------
(* One thread per engine: the callers the class comment of Engine assumes. *)
SingleThreaded == \A t, u \in Threads : EngineOf[t] = EngineOf[u] => t = u

TradeRecord == [maker : Ids, price : Prices, quantity : Nat]

(* The types; filled_qty never passes initial_qty, so that the unsigned    *)
(* subtraction of remaining does not wrap.                                 *)
TypeOK ==
  /\ ord \in [Slots -> Order \cup {None}]
  /\ \A s \in Slots : ord[s] # None => ord[s].filled_qty <= ord[s].initial_qty
  /\ live \in SUBSET Instruments
  /\ levels \in SUBSET Level
  /\ queue \in [Level -> Seq(Slots)]
  /\ index \in [Instruments -> [Ids -> Slots \cup {None}]]
  /\ held \in SUBSET Slots
  /\ pc \in [Threads -> {"idle", "match", "settle", "return"}]
  /\ taker \in [Threads -> Slots \cup {None}]
  /\ trades \in [Threads -> Seq(TradeRecord)]
  /\ before \in SUBSET (Slots \X Slots)

(* Pool safety: an order on a level, held by a caller or being submitted   *)
(* has not been released, stands on the level of its own side and price    *)
(* and on no other, and has one owner: nobody can release it twice.        *)
OneOwner ==
  /\ \A k \in Level :
       /\ IsInjective(queue[k])
       /\ \A s \in Range(queue[k]) : ord[s] # None /\ LevelOf(ord[s]) = k
  /\ \A s \in held : ord[s] # None /\ s \notin Resting
  /\ \A t \in Threads : pc[t] # "idle" =>
       /\ ord[taker[t]] # None
       /\ taker[t] \notin held
       /\ taker[t] \in Resting => pc[t] = "return" /\ ~is_terminal(ord[taker[t]])
       /\ \A u \in Threads \ {t} : taker[u] # taker[t]

(* The book is never crossed, not even while a taker is being matched:     *)
(* on every instrument each bid is below each ask.                         *)
NotCrossed ==
  \A b, a \in levels :
    b[1] = a[1] /\ b[2] = "Buy" /\ a[2] = "Sell" => b[3] < a[3]

(* The maps hold the non-empty levels and no other: an empty level left in *)
(* a map would make peek_top see an empty side and stop the match early.   *)
NoEmptyLevel == levels = {k \in Level : queue[k] # <<>>}

(* order_map_ knows exactly the orders on the levels, each under its id:   *)
(* the index count is the number of orders on the levels.                  *)
IndexExact ==
  \A i \in Instruments :
    /\ \A d \in Ids : index[i][d] # None =>
         /\ index[i][d] \in Resting
         /\ ord[index[i][d]].id = d
         /\ ord[index[i][d]].instrument = i
    /\ \A s \in Resting : ord[s].instrument = i => index[i][ord[s].id] = s

(* An order that was allowed to rest and can still trade: no market order, *)
(* no IOC and no FOK, with something left to fill and the status that says *)
(* how much is filled.                                                     *)
CanTrade(o) ==
  /\ o.type # "Market" /\ o.tif \notin {"IOC", "FOK"}
  /\ remaining(o) > 0
  /\ o.status = IF o.filled_qty = 0 THEN "New" ELSE "PartiallyFilled"

(* What rests was allowed to and can still trade, however often it has     *)
(* been filled in part.                                                    *)
RestingCanTrade == \A s \in Resting : CanTrade(ord[s])

(* The trades tr add up to what the order o was filled, none is worse than *)
(* its limit, and the prices only get worse along the match.               *)
Explains(tr, o) ==
  /\ o.filled_qty = SumFunction([n \in 1..Len(tr) |-> tr[n].quantity])
  /\ \A n \in 1..Len(tr) :
       /\ tr[n].quantity > 0
       /\ Reaches(o, tr[n].price)
       /\ n > 1 => ~Precedes(opposite(o.side), tr[n].price, tr[n - 1].price)

(* The trades a caller is handed explain what its order was filled. *)
TradesExplainFill ==
  \A t \in Threads : pc[t] # "idle" => Explains(trades[t], ord[taker[t]])

(* Price-time priority: whoever trades as maker is, among all the orders   *)
(* resting on that side of its instrument, best by price and, at its       *)
(* price, the one that came to rest first.                                 *)
PriceTimePriority ==
  [][\A t \in Threads : Len(trades'[t]) > Len(trades[t]) =>
       \E m \in Resting :
         /\ ord[m].instrument = ord[taker[t]].instrument
         /\ ord[m].side = opposite(ord[taker[t]].side)
         /\ ord[m].id = trades'[t][Len(trades'[t])].maker
         /\ \A s \in Resting \ {m} :
              ord[s].instrument = ord[m].instrument /\ ord[s].side = ord[m].side =>
                \/ Precedes(ord[m].side, ord[m].limit_price, ord[s].limit_price)
                \/ ord[m].limit_price = ord[s].limit_price /\ <<m, s>> \in before]_vars

(* A fill-or-kill order is filled completely or not at all: the liquidity  *)
(* that can_fully_fill counted is the liquidity the match then takes.      *)
FillOrKill ==
  \A t \in Threads : pc[t] = "return" =>
    LET o == ord[taker[t]]
    IN o.tif = "FOK" => \/ o.status = "Filled" /\ remaining(o) = 0
                        \/ o.status = "Rejected" /\ o.filled_qty = 0

(* A taker comes back with an unfilled remainder (rested, or dropped for   *)
(* IOC and market orders) only when no order it could trade with is left.  *)
RemainderHasNoMatch ==
  \A t \in Threads : pc[t] = "return" =>
    LET o == ord[taker[t]]
    IN o.status # "Rejected" /\ remaining(o) > 0 =>
         ~\E s \in Resting : /\ ord[s].instrument = o.instrument
                             /\ ord[s].side = opposite(o.side)
                             /\ Reaches(o, ord[s].limit_price)

(* "Terminal takers are released": between calls every slot is free, with  *)
(* a caller, or resting; none is lost to the pool for good.                *)
NoSlotLost ==
  \A s \in Slots : ord[s] # None => s \in InUse
=============================================================================
