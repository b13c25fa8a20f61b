-------------------------- MODULE MCShardedMatcher --------------------------
(* Two shards of one instrument each and a pool of two slots.  On i1 a     *)
(* buyer of one lot can rest and an IOC seller of two lots can take it,    *)
(* which leaves the seller partly filled; i2 keeps the other shard busy.   *)
EXTENDS ShardedMatcher, TLC

CONSTANTS s1, s2, i1, i2, e1, e2

Entry(d, i, side, tif, q) ==
  [id |-> d, instrument |-> i, side |-> side, type |-> "Limit", tif |-> tif,
   limit_price |-> 1, initial_qty |-> q]

MCHome == (i1 :> e1) @@ (i2 :> e2)
MCEngineOf == [e \in Engines |-> e]

MCOrders ==
  {Entry(1, i1, "Buy", "GTC", 1), Entry(2, i1, "Sell", "IOC", 2),
   Entry(1, i2, "Sell", "GTC", 1)}

(* One shard is busy, the other has something to do. *)
MCMaxCommands == e1 :> 3 @@ e2 :> 1

SlotSymmetry == Permutations(Slots)
=============================================================================
