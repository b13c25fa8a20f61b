----------------------------- MODULE MCMatching -----------------------------
(* One instrument and three slots: two makers at two prices or one behind  *)
(* the other, and a taker that meets both.  Prices 1 and 2 cross in both   *)
(* directions; quantities 1 to 3 give partial and complete fills of either *)
(* side and a fill-or-kill that is one short.                              *)
EXTENDS Matching, TLC

CONSTANTS s1, s2, s3, d1, d2, d3, i1, e1, t1, t2

Entry(d, side, type, tif, p, q) ==
  [id |-> d, instrument |-> i1, side |-> side, type |-> type, tif |-> tif,
   limit_price |-> p, initial_qty |-> q]

Limits(tifs, ps, qs) ==
  {Entry(d, side, "Limit", tif, p, q) :
     d \in {d1, d2, d3}, side \in Sides, tif \in tifs, p \in ps, q \in qs}

(* A type byte, or both bytes, that name no enumerator. *)
Others(tifs, qs) ==
  {Entry(d, side, "Other", tif, 0, q) :
     d \in {d1, d2, d3}, side \in Sides, tif \in tifs, q \in qs}

Markets(tifs, qs) ==
  {Entry(d, side, "Market", tif, 0, q) :
     d \in {d1, d2, d3}, side \in Sides, tif \in tifs, q \in qs}

MCHome == [i \in Instruments |-> e1]
MCEngineOf == [t \in Threads |-> e1]

(* Every kind of order, and one entry for each reason to reject. *)
AllOrders ==
  Limits({"GTC"}, {1, 2}, {1, 2}) \cup Limits({"IOC", "FOK"}, {2}, {2, 3})
    \cup Limits({"Day"}, {2}, {1}) \cup Markets({"IOC", "FOK"}, {2})
    \cup Limits({"GTC"}, {0}, {1}) \cup Limits({"GTC"}, {2}, {0})
    \cup Markets({"GTC", "Day"}, {1}) \cup Others({"Other"}, {2})

(* Makers and takers of one lot. *)
OneLot == Limits({"GTC"}, {1, 2}, {1})

(* No order is released while a thread still uses it.  What such a thread  *)
(* reads is undefined, and the instance with two threads stops there.      *)
NoneReleased == \A t \in Threads : pc[t] # "idle" => ord[taker[t]] # None

(* Slots and ids are interchangeable: no action orders them. *)
Interchangeable == Permutations(Slots) \cup Permutations({d1, d2, d3})
=============================================================================
