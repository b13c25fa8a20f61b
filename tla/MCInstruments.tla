---------------------------- MODULE MCInstruments ---------------------------
(* A small instance of Instruments for TLC. *)
EXTENDS OccListing

Option(underlying, date, strike, type) ==
  [underlying |-> underlying, expiry |-> date, strike |-> strike, type |-> type]

A   == <<65>>
AC  == <<65, 67>>

Listed(i, k) == [id |-> i, symbol |-> occ_symbol(k), option |-> k]

Soon  == 20260117
Later == 20261117

(* A share; a call, and a put at the same strike; the call listed again    *)
(* under a name of its own and the id of the share; a put of a later date  *)
(* under the id of the first put.                                          *)
MCSpecs ==
  { [id |-> 4, symbol |-> A, option |-> None],
    Listed(2, Option(A, Soon, 5000, "Call")),
    Listed(3, Option(A, Soon, 5000, "Put")),
    [id |-> 4, symbol |-> AC, option |-> Option(A, Soon, 5000, "Call")],
    Listed(3, Option(AC, Later, 9999999, "Put")) }
=============================================================================
