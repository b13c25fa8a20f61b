----------------------------- MODULE OccListing -----------------------------
(***************************************************************************)
(* Instruments with their symbols: the registry keeps instruments apart by *)
(* symbol, and the application lists an option under its occ_symbol.       *)
(***************************************************************************)
EXTENDS Instruments, Contract

(* An option listed under its OCC symbol, as the application lists them,   *)
(* is told apart by it: from_occ gives its contract back, and add refuses  *)
(* a symbol as taken only if it is the same contract.  It takes contracts  *)
(* that fit the format.                                                    *)
SymbolNamesContract ==
  \A r \in Range(instruments) :
    r.option # None /\ Fits(r.option) /\ r.symbol = occ_symbol(r.option) =>
      /\ from_occ(r.symbol) = r.option
      /\ \A s \in Specs :
           s.option # None /\ Fits(s.option) /\ r.symbol = occ_symbol(s.option) =>
             s.option = r.option
=============================================================================
