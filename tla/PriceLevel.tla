----------------------------- MODULE PriceLevel -----------------------------
(***************************************************************************)
(* PriceLevel: the intrusive doubly-linked list of the orders resting at   *)
(* one price, with the loop of OrderBook::clear_and_drain that walks it.   *)
(*                                                                         *)
(* An order's links live in the order itself and survive its removal, so   *)
(* every step is written on the pointers, in the order of the code.  The   *)
(* book reaches an order of the level only through its index, which is     *)
(* why erase is offered for the listed orders alone.                       *)
(***************************************************************************)
EXTENDS Naturals, FiniteSets, Sequences, Functions

CONSTANTS
  Orders,   \* the order slots of the pool
  Null      \* nullptr

ASSUME PriceLevelAssumption == Null \notin Orders /\ IsFiniteSet(Orders)

VARIABLES
  head, tail,               \* PriceLevel::head, PriceLevel::tail
  level_prev, level_next,   \* the links stored in every order
  listed,                   \* the orders whose locator names this level
  pooled,                   \* the orders in the pool or with a caller
  draining,                 \* clear_and_drain is walking the level
  cur                       \* PriceLevel::iterator::cur of that walk

vars == <<head, tail, level_prev, level_next, listed, pooled, draining, cur>>

Init ==
  /\ head = Null
  /\ tail = Null
  /\ level_prev = [o \in Orders |-> Null]
  /\ level_next = [o \in Orders |-> Null]
  /\ listed = {}
  /\ pooled = Orders
  /\ draining = FALSE
  /\ cur = Null

(* The effect of x->field = y when x may be null in the model's guard. *)
Store(field, x, y) == IF x = Null THEN field ELSE [field EXCEPT ![x] = y]

(* A write of nullptr to a link of o. *)
Unlink(field, o) == [field EXCEPT ![o] = Null]

\* Mutant: the order is linked at the front.
push_front(o) ==
  /\ ~draining
  /\ o \in pooled
  /\ level_next' = [level_next EXCEPT ![o] = head]
  /\ level_prev' = Store(Unlink(level_prev, o), head, o)
  /\ tail' = IF head = Null THEN o ELSE tail
  /\ head' = o
  /\ listed' = listed \cup {o}
  /\ pooled' = pooled \ {o}
  /\ UNCHANGED <<draining, cur>>

(* OrderBook::add_resting links an order it was handed at the back. *)
push_back(o) ==
  /\ ~draining
  /\ o \in pooled
  /\ level_prev' = [level_prev EXCEPT ![o] = tail]
  /\ level_next' = Store(Unlink(level_next, o), tail, o)
  /\ head' = IF tail = Null THEN o ELSE head
  /\ tail' = o
  /\ listed' = listed \cup {o}
  /\ pooled' = pooled \ {o}
  /\ UNCHANGED <<draining, cur>>

(* OrderBook::pop_top unlinks the front; the matcher releases the order. *)
pop_front ==
  /\ ~draining
  /\ head # Null
  /\ LET o     == head
         first == level_next[o]
     IN /\ head' = first
        /\ tail' = IF first = Null THEN Null ELSE tail
        /\ level_prev' = Unlink(Store(level_prev, first, Null), o)
        /\ level_next' = Unlink(level_next, o)
        /\ listed' = listed \ {o}
        /\ pooled' = pooled \cup {o}
  /\ UNCHANGED <<draining, cur>>

\* Mutant: tail is not updated.
erase_keep_tail(o) ==
  /\ ~draining
  /\ o \in listed
  /\ LET p == level_prev[o]
         n == level_next[o]
     IN /\ head' = IF p = Null THEN n ELSE head
        /\ level_prev' = Unlink(Store(level_prev, n, p), o)
        /\ level_next' = Unlink(Store(level_next, p, n), o)
  /\ listed' = listed \ {o}
  /\ pooled' = pooled \cup {o}
  /\ UNCHANGED <<tail, draining, cur>>

(* OrderBook::cancel_and_get unlinks an indexed order wherever it stands. *)
erase(o) ==
  /\ ~draining
  /\ o \in listed
  /\ LET p == level_prev[o]
         n == level_next[o]
     IN /\ head' = IF p = Null THEN n ELSE head
        /\ tail' = IF n = Null THEN p ELSE tail
        /\ level_prev' = Unlink(Store(level_prev, n, p), o)
        /\ level_next' = Unlink(Store(level_next, p, n), o)
  /\ listed' = listed \ {o}
  /\ pooled' = pooled \cup {o}
  /\ UNCHANGED <<draining, cur>>

(* The range-for of clear_and_drain takes begin().  Levels kept in the     *)
(* book's maps are never empty.                                            *)
DrainBegin ==
  /\ ~draining
  /\ head # Null
  /\ draining' = TRUE
  /\ cur' = head
  /\ UNCHANGED <<head, tail, level_prev, level_next, listed, pooled>>

(* The loop body clears both links and hands the order to the callback,    *)
(* which releases it; only then does ++it follow level_next.               *)
DrainVisit ==
  /\ draining
  /\ cur # Null
  /\ level_prev' = Unlink(level_prev, cur)
  /\ level_next' = Unlink(level_next, cur)
  /\ pooled' = pooled \cup {cur}
  /\ cur' = level_next'[cur]
  /\ UNCHANGED <<head, tail, listed, draining>>

(* it == end(): the maps and the index are cleared, the level is gone. *)
DrainEnd ==
  /\ draining
  /\ cur = Null
  /\ head' = Null
  /\ tail' = Null
  /\ listed' = {}
  /\ draining' = FALSE
  /\ UNCHANGED <<level_prev, level_next, pooled, cur>>

Next ==
  \/ \E o \in Orders : push_back(o)
  \/ pop_front
  \/ \E o \in Orders : erase(o)
  \/ DrainBegin
  \/ DrainVisit
  \/ DrainEnd

Spec == Init /\ [][Next]_vars

-----------------------------------------------------------------------------
(* The sequences without room for a repetition. *)
Listings == UNION {[1..n -> Orders] : n \in 0..Cardinality(Orders)}

(***************************************************************************)
(* The list spells the sequence s: it starts at head, ends at tail, both   *)
(* chains of links agree, and s names each listed order once.              *)
(***************************************************************************)
Spells(s) ==
  /\ IsInjective(s)
  /\ Range(s) = listed
  /\ head = IF s = <<>> THEN Null ELSE s[1]
  /\ tail = IF s = <<>> THEN Null ELSE s[Len(s)]
  /\ \A i \in 1..Len(s) :
       /\ level_next[s[i]] = IF i = Len(s) THEN Null ELSE s[i + 1]
       /\ level_prev[s[i]] = IF i = 1 THEN Null ELSE s[i - 1]

(* Outside a drain the links always form one proper doubly-linked list of  *)
(* exactly the orders the index knows, none of which the pool would hand   *)
(* out again: the O(1) erase relies on every link of it.                   *)
WellLinked ==
  ~draining => /\ \E s \in Listings : Spells(s)
               /\ listed \cap pooled = {}

(* The orders in list order; a level being drained is already given up. *)
Contents ==
  IF draining THEN <<>>
  ELSE CHOOSE s \in Listings : Spells(s)

Abstract == INSTANCE LevelQueue WITH queue <- Contents

(* push_back, pop_front and erase on the pointers behave as a queue served *)
(* in arrival order from which any order may be withdrawn (time priority). *)
IsLevelQueue == Abstract!Spec

(* clear_and_drain visits "every resting order, then" empties the book: no *)
(* order is lost to both the level and the pool.                           *)
DrainVisitsEveryOrder == listed \cup pooled = Orders
=============================================================================
