------------------------------ MODULE Contract ------------------------------
(***************************************************************************)
(* Contract and its OCC symbol.  A contract has the fields the symbol and  *)
(* the chains look at: underlying, expiry, strike (in cents) and type.     *)
(*                                                                         *)
(* A string is the sequence of its character codes; a date is the number   *)
(* yyyymmdd, which orders dates as ExpiryDate does.                        *)
(***************************************************************************)
EXTENDS Integers, Sequences, SequencesExt, FiniteSetsExt

CONSTANT BadSymbol  \* std::invalid_argument is thrown

Space == 32
C     == 67
P     == 80
Zero  == 48

year(date)  == date \div 10000
month(date) == (date \div 100) % 100
day(date)   == date % 100

(* snprintf with %0<w>d: at least w digits, and more when v needs them. *)
Printed(v, w) ==
  LET n == Max({w} \cup {k \in 1..10 : v \div 10 ^ (k - 1) > 0})
  IN [k \in 1..n |-> Zero + ((v \div 10 ^ (n - k)) % 10)]

(* The first n characters, which is what a buffer cuts off at. *)
Cut(s, n) == SubSeq(s, 1, IF Len(s) < n THEN Len(s) ELSE n)

\* Mutant: the strike is written in cents.
occ_symbol_cents(k) ==
  [n \in 1..6 |-> IF n <= Len(k.underlying) THEN k.underlying[n] ELSE Space]
    \o Printed(year(k.expiry) % 100, 2) \o Printed(month(k.expiry), 2)
    \o Printed(day(k.expiry), 2) \o <<IF k.type = "Call" THEN C ELSE P>>
    \o Cut(Printed(k.strike, 8), 8)

(* Contract::occ_symbol: the root cut or padded to six characters, the     *)
(* year without its century, the strike in thousandths cut to eight digits.*)
occ_symbol(k) ==
  [n \in 1..6 |-> IF n <= Len(k.underlying) THEN k.underlying[n] ELSE Space]
    \o Printed(year(k.expiry) % 100, 2) \o Printed(month(k.expiry), 2)
    \o Printed(day(k.expiry), 2) \o <<IF k.type = "Call" THEN C ELSE P>>
    \o Cut(Printed(k.strike * 10, 8), 8)

AllDigits(s) == \A n \in 1..Len(s) : s[n] \in Zero..(Zero + 9)

parse_int(s) == FoldLeft(LAMBDA v, ch : v * 10 + (ch - Zero), 0, s)

(* The root without the spaces behind it. *)
Trim(s) == SubSeq(s, 1, Max({0} \cup {n \in 1..Len(s) : s[n] # Space}))

(* Contract::from_occ: every year is one of this century, and a thousandth *)
(* that is no whole cent is dropped.                                       *)
from_occ(occ) ==
  IF \/ Len(occ) < 21
     \/ ~AllDigits(SubSeq(occ, 7, 12))
     \/ occ[13] \notin {C, P}
     \/ ~AllDigits(SubSeq(occ, 14, 21))
  THEN BadSymbol
  ELSE [underlying |-> Trim(SubSeq(occ, 1, 6)),
        expiry |-> (2000 + parse_int(SubSeq(occ, 7, 8))) * 10000
                     + parse_int(SubSeq(occ, 9, 10)) * 100 + parse_int(SubSeq(occ, 11, 12)),
        strike |-> parse_int(SubSeq(occ, 14, 21)) \div 10,
        type |-> IF occ[13] = C THEN "Call" ELSE "Put"]

(* The contracts a symbol has room for. *)
Fits(k) ==
  /\ Len(k.underlying) <= 6 /\ k.underlying = Trim(k.underlying)
  /\ year(k.expiry) \in 2000..2099
  /\ k.strike < 10 ^ 7
=============================================================================
