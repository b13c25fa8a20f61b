---------------------------- MODULE MCPriceLevel ----------------------------
(* Four orders are enough for an erase at the front, in the middle, next   *)
(* to the middle and at the back of the list.                              *)
EXTENDS PriceLevel, TLC

CONSTANTS o1, o2, o3, o4

MCOrders == {o1, o2, o3, o4}
=============================================================================
