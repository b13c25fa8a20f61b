------------------------- MODULE InstrumentsProofs -------------------------
(***************************************************************************)
(* Theorems about Instruments, for any instruments, dates and chains: the  *)
(* three maps of a chain agree, an option stays where it was filed first,  *)
(* and the sweeper ends trading on time.                                   *)
(***************************************************************************)
EXTENDS Instruments, TLAPS

(* The provers' time for a step that names no prover. *)
USE SMTT(20), ZenonT(20)

-----------------------------------------------------------------------------
(* An empty map has no keys. *)
LEMMA EmptyMap == DOMAIN <<>> = {}
OBVIOUS

-----------------------------------------------------------------------------
(* The id in a slot is one the chain has, under that contract. *)
Filed(ch, e, p) ==
  \A t \in Types :
    LET i == find(ch, e, p, t)
    IN i # None => /\ i \in DOMAIN ch.by_id
                   /\ ch.by_id[i] = <<e, p>>
                   /\ ch.id_to_type[i] = t

(* What a chain keeps: every id it has is in its slot, every slot holds    *)
(* ids it has, and no slot and no date is kept without one.                *)
ChainInv(ch) ==
  /\ DOMAIN ch.by_id = DOMAIN ch.id_to_type
  /\ \A i \in DOMAIN ch.by_id :
       /\ i \in InstrumentIds
       /\ ch.id_to_type[i] \in Types
       /\ \E e \in Dates, p \in {k.strike : k \in Contracts} :
            ch.by_id[i] = <<e, p>> /\ find(ch, e, p, ch.id_to_type[i]) = i
  /\ \A e \in DOMAIN ch.levels :
       /\ DOMAIN ch.levels[e] # {}
       /\ \A p \in DOMAIN ch.levels[e] :
            /\ ch.levels[e][p] \in [Types -> InstrumentIds \cup {None}]
            /\ ch.levels[e][p] # EmptySlot
            /\ Filed(ch, e, p)

(* So does every place, kept or not. *)
LEMMA AnySlot ==
  ASSUME NEW ch, ChainInv(ch), NEW e, NEW p
  PROVE  /\ Slot(ch, e, p) \in [Types -> InstrumentIds \cup {None}]
         /\ Filed(ch, e, p)
         /\ Slot(ch, e, p) # EmptySlot => e \in DOMAIN ch.levels /\ p \in DOMAIN ch.levels[e]
         /\ e \in DOMAIN ch.levels /\ p \in DOMAIN ch.levels[e]
              => Slot(ch, e, p) = ch.levels[e][p] /\ Slot(ch, e, p) # EmptySlot
<1>1. CASE e \in DOMAIN ch.levels /\ p \in DOMAIN ch.levels[e]
  BY <1>1 DEF Slot, Strikes, ChainInv
<1>2. CASE ~(e \in DOMAIN ch.levels /\ p \in DOMAIN ch.levels[e])
  <2>1. Slot(ch, e, p) = EmptySlot
    BY <1>2, EmptyMap DEF Slot, Strikes
  <2>2. EmptySlot \in [Types -> InstrumentIds \cup {None}] /\ \A t \in Types : EmptySlot[t] = None
    BY DEF EmptySlot
  <2> QED BY <1>2, <2>1, <2>2 DEF Filed, find
<1> QED BY <1>1, <1>2

(* A slot that is not empty holds an id. *)
LEMMA SlotHolds ==
  ASSUME NEW S \in [Types -> InstrumentIds \cup {None}]
  PROVE  S # EmptySlot <=> \E t \in Types : S[t] # None
<1>1. (\A t \in Types : S[t] = None) => S = EmptySlot
  BY DEF EmptySlot
<1>2. \A t \in Types : EmptySlot[t] = None
  BY DEF EmptySlot
<1> QED BY <1>1, <1>2

(* Slot S comes into levels_ at a place. *)
PutInto(ch, nc, e, p, S) == nc.levels = Map(ch.levels, e, Map(Strikes(ch, e), p, S))

(* Insertion into levels_ changes one slot. *)
LEMMA SlotPut ==
  ASSUME NEW ch, NEW nc, NEW e, NEW p, NEW S, PutInto(ch, nc, e, p, S)
  PROVE  /\ DOMAIN nc.levels = DOMAIN ch.levels \cup {e}
         /\ DOMAIN nc.levels[e] = DOMAIN Strikes(ch, e) \cup {p}
         /\ \A x \in DOMAIN ch.levels : x # e => nc.levels[x] = ch.levels[x]
         /\ \A x, y : Slot(nc, x, y) = IF x = e /\ y = p THEN S ELSE Slot(ch, x, y)
<1>1. /\ DOMAIN nc.levels = DOMAIN ch.levels \cup {e}
      /\ nc.levels[e] = Map(Strikes(ch, e), p, S)
      /\ \A x \in DOMAIN ch.levels : x # e => nc.levels[x] = ch.levels[x]
  BY DEF Map, PutInto
<1>2. /\ Strikes(nc, e) = Map(Strikes(ch, e), p, S)
      /\ \A x : x # e => Strikes(nc, x) = Strikes(ch, x)
  BY <1>1 DEF Strikes
<1>3. \A y : Slot(nc, e, y) = IF y = p THEN S ELSE Slot(ch, e, y)
  BY <1>2 DEF Slot, Map
<1>4. \A x, y : x # e => Slot(nc, x, y) = Slot(ch, x, y)
  BY <1>2 DEF Slot
<1>5. DOMAIN nc.levels[e] = DOMAIN Strikes(ch, e) \cup {p}
  BY <1>1 DEF Map
<1>6. \A x, y : Slot(nc, x, y) = IF x = e /\ y = p THEN S ELSE Slot(ch, x, y)
  BY <1>3, <1>4
<1> QED BY <1>1, <1>5, <1>6

(* What filing i under the contract k makes of a chain ch. *)
Added(ch, nc, i, k) ==
  /\ ChainInv(nc)
  /\ \A e, p : \A t \in Types :
       find(ch, e, p, t) # None => find(nc, e, p, t) = find(ch, e, p, t)
  /\ i \notin DOMAIN ch.by_id /\ find(ch, k.expiry, k.strike, k.type) = None
       => find(nc, k.expiry, k.strike, k.type) = i
  /\ \A j \in DOMAIN nc.by_id :
       \/ /\ j \in DOMAIN ch.by_id
          /\ nc.by_id[j] = ch.by_id[j] /\ nc.id_to_type[j] = ch.id_to_type[j]
       \/ j = i /\ nc.by_id[j] = <<k.expiry, k.strike>> /\ nc.id_to_type[j] = k.type

(* Chain::add keeps what a chain keeps.  It moves nothing that is there,   *)
(* and files the id unless the chain has it or the contract already.       *)
LEMMA AddChain ==
  ASSUME NEW ch, ChainInv(ch), NEW i \in InstrumentIds, NEW k \in Contracts
  PROVE  Added(ch, ChainAdd(ch, i, k), i, k)
<1> DEFINE nc == ChainAdd(ch, i, k)
           e == k.expiry
           p == k.strike
           t == k.type
<1>0. e \in Dates /\ p \in {l.strike : l \in Contracts} /\ t \in Types /\ i # None
  BY InstrumentsAssumption
<1>1. CASE i \in DOMAIN ch.by_id \/ find(ch, e, p, t) # None
  <2>1. nc = ch
    BY <1>1, Zenon DEF ChainAdd
  <2> HIDE DEF nc
  <2> QED BY <1>1, <2>1, Zenon DEF nc, Added
<1>2. CASE i \notin DOMAIN ch.by_id /\ find(ch, e, p, t) = None
  <2> DEFINE S == [Slot(ch, e, p) EXCEPT ![t] = i]
  <2>1. /\ PutInto(ch, nc, e, p, S)
        /\ nc.by_id = Map(ch.by_id, i, <<e, p>>)
        /\ nc.id_to_type = Map(ch.id_to_type, i, t)
    BY <1>2 DEF ChainAdd, PutInto
  <2>2. /\ S \in [Types -> InstrumentIds \cup {None}]
        /\ S[t] = i /\ \A u \in Types : u # t => S[u] = Slot(ch, e, p)[u]
    BY <1>0, AnySlot
  <2>3. S # EmptySlot
    BY <1>0, <2>2, SlotHolds
  <2>4. Slot(ch, e, p)[t] = None
    BY <1>2 DEF find
  <2> HIDE DEF nc, S, e, p, t
  <2>5. /\ DOMAIN nc.levels = DOMAIN ch.levels \cup {e}
        /\ DOMAIN nc.levels[e] = DOMAIN Strikes(ch, e) \cup {p}
        /\ \A x \in DOMAIN ch.levels : x # e => nc.levels[x] = ch.levels[x]
        /\ \A x, y : Slot(nc, x, y) = IF x = e /\ y = p THEN S ELSE Slot(ch, x, y)
    BY <2>1, SlotPut
  <2>6. /\ DOMAIN nc.by_id = DOMAIN ch.by_id \cup {i}
        /\ DOMAIN nc.id_to_type = DOMAIN ch.id_to_type \cup {i}
        /\ nc.by_id[i] = <<e, p>> /\ nc.id_to_type[i] = t
        /\ \A j \in DOMAIN ch.by_id :
             j # i /\ nc.by_id[j] = ch.by_id[j] /\ nc.id_to_type[j] = ch.id_to_type[j]
    BY <1>2, <2>1 DEF ChainInv, Map
  <2>7. \A x, y : \A u \in Types :
          /\ find(ch, x, y, u) # None => find(nc, x, y, u) = find(ch, x, y, u)
          /\ find(nc, x, y, u) # None =>
               \/ x = e /\ y = p /\ u = t /\ find(nc, x, y, u) = i
               \/ find(nc, x, y, u) = find(ch, x, y, u)
    BY <2>2, <2>4, <2>5 DEF find
  <2>8. find(nc, e, p, t) = i
    BY <2>2, <2>5 DEF find
  <2>9. \A x, y : Filed(nc, x, y)
    <3> SUFFICES ASSUME NEW x, NEW y PROVE Filed(nc, x, y)
      OBVIOUS
    <3>1. Filed(ch, x, y)
      BY AnySlot
    <3> QED BY <1>0, <2>6, <2>7, <3>1 DEF Filed
  <2>10. \A j \in DOMAIN nc.by_id :
           /\ j \in InstrumentIds
           /\ nc.id_to_type[j] \in Types
           /\ \E x \in Dates, y \in {l.strike : l \in Contracts} :
                nc.by_id[j] = <<x, y>> /\ find(nc, x, y, nc.id_to_type[j]) = j
    <3> SUFFICES ASSUME NEW j \in DOMAIN nc.by_id
                 PROVE  /\ j \in InstrumentIds
                        /\ nc.id_to_type[j] \in Types
                        /\ \E x \in Dates, y \in {l.strike : l \in Contracts} :
                             nc.by_id[j] = <<x, y>> /\ find(nc, x, y, nc.id_to_type[j]) = j
      OBVIOUS
    <3>1. CASE j = i
      BY <1>0, <2>6, <2>8, <3>1
    <3>2. CASE j \in DOMAIN ch.by_id
      <4>1. j \in InstrumentIds /\ ch.id_to_type[j] \in Types /\ j # None
        BY <3>2, InstrumentsAssumption DEF ChainInv
      <4>2. PICK x \in Dates, y \in {l.strike : l \in Contracts} :
              ch.by_id[j] = <<x, y>> /\ find(ch, x, y, ch.id_to_type[j]) = j
        BY <3>2 DEF ChainInv
      <4> QED BY <2>6, <2>7, <3>2, <4>1, <4>2
    <3> QED BY <2>6, <3>1, <3>2
  <2>11. \A x \in DOMAIN nc.levels : DOMAIN nc.levels[x] # {}
    BY <2>5 DEF ChainInv
  <2>12. \A x \in DOMAIN nc.levels : \A y \in DOMAIN nc.levels[x] :
           /\ nc.levels[x][y] = Slot(nc, x, y)
           /\ (x = e /\ y = p) \/ (x \in DOMAIN ch.levels /\ y \in DOMAIN ch.levels[x])
    BY <2>5, EmptyMap DEF Slot, Strikes
  <2>13. \A x \in DOMAIN nc.levels : \A y \in DOMAIN nc.levels[x] :
           /\ nc.levels[x][y] \in [Types -> InstrumentIds \cup {None}]
           /\ nc.levels[x][y] # EmptySlot
    BY <2>2, <2>3, <2>5, <2>12, AnySlot
  <2>14. ChainInv(nc)
    BY <2>6, <2>9, <2>10, <2>11, <2>13 DEF ChainInv
  <2> QED BY <2>6, <2>7, <2>8, <2>14 DEF nc, e, p, t, Added
<1> QED BY <1>1, <1>2

(* Slot S replaces the one at a place of levels_, an empty one by going. *)
CutFrom(ch, nc, e, p, S) ==
  LET R == IF S = EmptySlot THEN Erase(ch.levels[e], p) ELSE Map(ch.levels[e], p, S)
  IN nc.levels = IF DOMAIN R = {} THEN Erase(ch.levels, e) ELSE Map(ch.levels, e, R)

(* Erasure from levels_ changes one slot too, and leaves no date without   *)
(* slots and no empty slot at that place.                                  *)
LEMMA SlotCut ==
  ASSUME NEW ch, NEW nc, NEW e, NEW p, NEW S, CutFrom(ch, nc, e, p, S),
         e \in DOMAIN ch.levels, p \in DOMAIN ch.levels[e]
  PROVE  /\ DOMAIN nc.levels \subseteq DOMAIN ch.levels
         /\ \A x \in DOMAIN nc.levels : x # e => nc.levels[x] = ch.levels[x]
         /\ e \in DOMAIN nc.levels =>
              /\ DOMAIN nc.levels[e] # {}
              /\ DOMAIN nc.levels[e] \subseteq DOMAIN ch.levels[e]
              /\ p \in DOMAIN nc.levels[e] => S # EmptySlot
         /\ \A x, y : Slot(nc, x, y) = IF x = e /\ y = p THEN S ELSE Slot(ch, x, y)
<1> DEFINE R == IF S = EmptySlot THEN Erase(ch.levels[e], p) ELSE Map(ch.levels[e], p, S)
<1>0. nc.levels = IF DOMAIN R = {} THEN Erase(ch.levels, e) ELSE Map(ch.levels, e, R)
  BY DEF CutFrom
<1>2. /\ DOMAIN R = IF S = EmptySlot THEN DOMAIN ch.levels[e] \ {p} ELSE DOMAIN ch.levels[e]
      /\ S # EmptySlot => R[p] = S
      /\ \A y \in DOMAIN ch.levels[e] : y # p => R[y] = ch.levels[e][y]
  BY DEF Map, Erase, Restrict
<1> HIDE DEF R
<1>1. /\ DOMAIN nc.levels = IF DOMAIN R = {} THEN DOMAIN ch.levels \ {e} ELSE DOMAIN ch.levels
      /\ DOMAIN R # {} => nc.levels[e] = R
      /\ \A x \in DOMAIN ch.levels : x # e => nc.levels[x] = ch.levels[x]
  BY <1>0, Zenon DEF Map, Erase, Restrict
<1>3. /\ Strikes(ch, e) = ch.levels[e]
      /\ DOMAIN Strikes(nc, e) = DOMAIN R
      /\ \A y \in DOMAIN R : Strikes(nc, e)[y] = R[y]
      /\ \A x : x # e => Strikes(nc, x) = Strikes(ch, x)
  BY <1>1, EmptyMap, Zenon DEF Strikes
<1>4. \A y : Slot(nc, e, y) = IF y = p THEN S ELSE Slot(ch, e, y)
  BY <1>2, <1>3 DEF Slot
<1>5. \A x, y : x # e => Slot(nc, x, y) = Slot(ch, x, y)
  BY <1>3 DEF Slot
<1>6. e \in DOMAIN nc.levels =>
        /\ DOMAIN nc.levels[e] # {}
        /\ DOMAIN nc.levels[e] \subseteq DOMAIN ch.levels[e]
        /\ p \in DOMAIN nc.levels[e] => S # EmptySlot
  BY <1>1, <1>2
<1> QED BY <1>1, <1>4, <1>5, <1>6

(* Chain::remove keeps what a chain keeps. *)
LEMMA RemoveChain ==
  ASSUME NEW ch, ChainInv(ch), NEW i \in DOMAIN ch.by_id
  PROVE  ChainInv(ChainRemove(ch, i))
<1> DEFINE nc == ChainRemove(ch, i)
           t == ch.id_to_type[i]
<1>1. PICK e \in Dates, p \in {l.strike : l \in Contracts} :
        ch.by_id[i] = <<e, p>> /\ find(ch, e, p, t) = i
  BY DEF ChainInv
<1>2. i \in InstrumentIds /\ t \in Types /\ i # None
  BY InstrumentsAssumption DEF ChainInv
<1>3. /\ e \in DOMAIN ch.levels /\ p \in DOMAIN ch.levels[e]
      /\ Slot(ch, e, p) = ch.levels[e][p] /\ Slot(ch, e, p)[t] = i
      /\ Slot(ch, e, p) \in [Types -> InstrumentIds \cup {None}]
  <2>1. Slot(ch, e, p)[t] = i
    BY <1>1 DEF find
  <2> QED BY <1>2, <2>1, AnySlot, SlotHolds
<1> DEFINE S == [Slot(ch, e, p) EXCEPT ![t] = None]
<1>4. /\ CutFrom(ch, nc, e, p, S)
      /\ nc.by_id = Erase(ch.by_id, i)
      /\ nc.id_to_type = Erase(ch.id_to_type, i)
  BY <1>1, <1>3 DEF ChainRemove, CutFrom
<1>5. /\ S \in [Types -> InstrumentIds \cup {None}]
      /\ S[t] = None /\ \A u \in Types : u # t => S[u] = Slot(ch, e, p)[u]
  BY <1>2, <1>3
<1> HIDE DEF nc, S, t
<1>6. /\ DOMAIN nc.levels \subseteq DOMAIN ch.levels
      /\ \A x \in DOMAIN nc.levels : x # e => nc.levels[x] = ch.levels[x]
      /\ e \in DOMAIN nc.levels =>
           /\ DOMAIN nc.levels[e] # {}
           /\ DOMAIN nc.levels[e] \subseteq DOMAIN ch.levels[e]
           /\ p \in DOMAIN nc.levels[e] => S # EmptySlot
      /\ \A x, y : Slot(nc, x, y) = IF x = e /\ y = p THEN S ELSE Slot(ch, x, y)
  BY <1>3, <1>4, SlotCut
<1>7. /\ DOMAIN nc.by_id = DOMAIN ch.by_id \ {i}
      /\ DOMAIN nc.id_to_type = DOMAIN ch.id_to_type \ {i}
      /\ \A j \in DOMAIN ch.by_id :
           j # i => nc.by_id[j] = ch.by_id[j] /\ nc.id_to_type[j] = ch.id_to_type[j]
  BY <1>4 DEF ChainInv, Erase, Restrict
<1>8. \A x, y : \A u \in Types :
        /\ find(ch, x, y, u) # i => find(nc, x, y, u) = find(ch, x, y, u)
        /\ find(nc, x, y, u) # None =>
             find(nc, x, y, u) = find(ch, x, y, u) /\ find(nc, x, y, u) # i
  <2> SUFFICES ASSUME NEW x, NEW y, NEW u \in Types
               PROVE  /\ find(ch, x, y, u) # i => find(nc, x, y, u) = find(ch, x, y, u)
                      /\ find(nc, x, y, u) # None =>
                           find(nc, x, y, u) = find(ch, x, y, u) /\ find(nc, x, y, u) # i
    OBVIOUS
  <2>1. CASE x = e /\ y = p /\ u = t
    BY <1>1, <1>2, <1>5, <1>6, <2>1 DEF find
  <2>2. CASE ~(x = e /\ y = p /\ u = t)
    <3>1. find(nc, x, y, u) = find(ch, x, y, u)
      BY <1>5, <1>6, <2>2 DEF find
    <3>2. find(ch, x, y, u) # i
      <4>1. find(ch, x, y, u) = i => <<x, y>> = <<e, p>> /\ u = t
        <5>1. Filed(ch, x, y)
          BY AnySlot
        <5> QED BY <1>1, <1>2, <5>1 DEF Filed, t
      <4> QED BY <2>2, <4>1
    <3> QED BY <3>1, <3>2
  <2> QED BY <2>1, <2>2
<1>9. \A x, y : Filed(nc, x, y)
  <2> SUFFICES ASSUME NEW x, NEW y PROVE Filed(nc, x, y)
    OBVIOUS
  <2>1. Filed(ch, x, y)
    BY AnySlot
  <2> QED BY <1>7, <1>8, <2>1 DEF Filed
<1>10. ASSUME NEW j \in DOMAIN nc.by_id
       PROVE  /\ j \in InstrumentIds
              /\ nc.id_to_type[j] \in Types
              /\ \E x \in Dates, y \in {l.strike : l \in Contracts} :
                   nc.by_id[j] = <<x, y>> /\ find(nc, x, y, nc.id_to_type[j]) = j
  <2>1. j \in DOMAIN ch.by_id /\ j # i
    BY <1>7
  <2>2. j \in InstrumentIds /\ ch.id_to_type[j] \in Types
    BY <2>1 DEF ChainInv
  <2>3. PICK x \in Dates, y \in {l.strike : l \in Contracts} :
          ch.by_id[j] = <<x, y>> /\ find(ch, x, y, ch.id_to_type[j]) = j
    BY <2>1 DEF ChainInv
  <2> QED BY <1>7, <1>8, <2>1, <2>2, <2>3
<1>11. \A x \in DOMAIN nc.levels : DOMAIN nc.levels[x] # {}
  BY <1>6 DEF ChainInv
<1>12. \A x \in DOMAIN nc.levels : \A y \in DOMAIN nc.levels[x] :
         /\ nc.levels[x][y] = Slot(nc, x, y)
         /\ x \in DOMAIN ch.levels /\ y \in DOMAIN ch.levels[x]
  BY <1>6 DEF Slot, Strikes
<1>13. \A x \in DOMAIN nc.levels : \A y \in DOMAIN nc.levels[x] :
         /\ nc.levels[x][y] \in [Types -> InstrumentIds \cup {None}]
         /\ nc.levels[x][y] # EmptySlot
  BY <1>5, <1>6, <1>12, AnySlot
<1>14. DOMAIN nc.by_id = DOMAIN nc.id_to_type
  BY <1>7 DEF ChainInv
<1>15. ChainInv(nc)
  BY <1>9, <1>10, <1>11, <1>13, <1>14 DEF ChainInv
<1> QED BY <1>15 DEF nc

(* A chain that keeps this lists what it has. *)
LEMMA ChainLists ==
  ASSUME NEW ch, ChainInv(ch)
  PROVE  LET ids == DOMAIN ch.by_id
         IN /\ ids = DOMAIN ch.id_to_type
            /\ \A i \in ids : find(ch, ch.by_id[i][1], ch.by_id[i][2], ch.id_to_type[i]) = i
            /\ expiries(ch) = {ch.by_id[i][1] : i \in ids}
            /\ \A d \in Dates :
                 expiring_on_or_before(ch, d) = {i \in ids : ch.by_id[i][1] <= d}
<1> DEFINE ids == DOMAIN ch.by_id
<1>1. ids = DOMAIN ch.id_to_type
  BY DEF ChainInv
<1>2. ASSUME NEW i \in ids
      PROVE  LET e == ch.by_id[i][1]
                 p == ch.by_id[i][2]
             IN /\ ch.id_to_type[i] \in Types /\ i # None
                /\ find(ch, e, p, ch.id_to_type[i]) = i
                /\ e \in DOMAIN ch.levels /\ p \in DOMAIN Strikes(ch, e)
  <2>1. i # None /\ ch.id_to_type[i] \in Types
    BY InstrumentsAssumption DEF ChainInv
  <2>2. PICK e \in Dates, p \in {k.strike : k \in Contracts} :
          ch.by_id[i] = <<e, p>> /\ find(ch, e, p, ch.id_to_type[i]) = i
    BY DEF ChainInv
  <2>3. Slot(ch, e, p) # EmptySlot
    BY <2>1, <2>2, AnySlot, SlotHolds DEF find
  <2>4. e \in DOMAIN ch.levels /\ p \in DOMAIN Strikes(ch, e)
    BY <2>3, AnySlot DEF Strikes
  <2> QED BY <2>1, <2>2, <2>4
<1>3. ASSUME NEW e \in DOMAIN ch.levels, NEW p \in DOMAIN Strikes(ch, e)
      PROVE  /\ \A t \in Types : find(ch, e, p, t) # None =>
                  find(ch, e, p, t) \in ids /\ ch.by_id[find(ch, e, p, t)][1] = e
             /\ \E t \in Types : find(ch, e, p, t) # None
  <2>1. p \in DOMAIN ch.levels[e]
    BY DEF Strikes
  <2> QED BY <2>1, AnySlot, SlotHolds DEF Filed, find
<1>4. \A e \in DOMAIN ch.levels : DOMAIN Strikes(ch, e) # {}
  BY DEF ChainInv, Strikes
<1>5. expiries(ch) = {ch.by_id[i][1] : i \in ids}
  BY <1>2, <1>3, <1>4 DEF expiries
<1>6. ASSUME NEW d \in Dates
      PROVE  expiring_on_or_before(ch, d) = {i \in ids : ch.by_id[i][1] <= d}
  <2>1. \A i : i \in expiring_on_or_before(ch, d) <=>
          \E e \in DOMAIN ch.levels : e <= d /\ i \in at_expiry(ch, e)
    BY DEF expiring_on_or_before, expiries
  <2>2. \A i, e : i \in at_expiry(ch, e) <=>
          i # None /\ \E p \in DOMAIN Strikes(ch, e), t \in Types : i = find(ch, e, p, t)
    BY DEF at_expiry
  <2>3. ASSUME NEW i \in expiring_on_or_before(ch, d) PROVE i \in ids /\ ch.by_id[i][1] <= d
    BY <1>3, <2>1, <2>2
  <2>4. ASSUME NEW i \in ids, ch.by_id[i][1] <= d PROVE i \in expiring_on_or_before(ch, d)
    BY <1>2, <2>1, <2>2, <2>4
  <2> QED BY <2>3, <2>4
<1> QED BY <1>1, <1>2, <1>5, <1>6

-----------------------------------------------------------------------------
(* An id in a chain of the registry is that of an option added to it. *)
ListedAs(c, i) ==
  \E n \in 1..Len(instruments) :
    LET r == instruments[n]
    IN /\ r.id = i
       /\ r.option # None
       /\ r.option.underlying = c
       /\ chain[c].by_id[i] = <<r.option.expiry, r.option.strike>>
       /\ chain[c].id_to_type[i] = r.option.type

(* The inductive invariant of the registry and the chains. *)
RegistryInv ==
  /\ instruments \in Seq(Specs)
  /\ DOMAIN chain = Chains
  /\ \A c \in Chains : ChainInv(chain[c])
  /\ \A c \in Chains : c # Own => \A i \in DOMAIN chain[c].by_id : ListedAs(c, i)
  /\ FirstContractIsFound

(* A contract is one of a chain that is not Own, and its fields tell it. *)
LEMMA ContractIs ==
  ASSUME NEW s \in Specs
  PROVE  /\ s.id \in InstrumentIds /\ s.id # None
         /\ s.option # None =>
              /\ s.option \in Contracts
              /\ s.option.underlying \in Chains /\ s.option.underlying # Own
              /\ s.option.type \in Types
              /\ \A k \in Contracts :
                   k.underlying = s.option.underlying /\ k.expiry = s.option.expiry
                     /\ k.strike = s.option.strike /\ k.type = s.option.type => k = s.option
<1>1. s.id \in InstrumentIds /\ s.id # None
  BY InstrumentsAssumption DEF InstrumentIds
<1>2. ASSUME s.option # None
      PROVE  s.option \in Contracts /\ s.option.underlying \in Chains
  BY <1>2 DEF Contracts, Chains
<1>3. \A k \in Contracts :
        /\ k = [underlying |-> k.underlying, expiry |-> k.expiry,
                strike |-> k.strike, type |-> k.type]
        /\ k.underlying # Own /\ k.type \in Types
  BY InstrumentsAssumption
<1>4. \A k, l \in Contracts :
        k.underlying = l.underlying /\ k.expiry = l.expiry
          /\ k.strike = l.strike /\ k.type = l.type => k = l
  BY <1>3
<1> QED BY <1>1, <1>2, <1>3, <1>4

(* An empty chain keeps what a chain keeps. *)
LEMMA RegistryInit == Init => RegistryInv
<1> SUFFICES ASSUME Init PROVE RegistryInv
  OBVIOUS
<1>1. instruments = <<>> /\ chain = [c \in Chains |-> EmptyChain]
  BY DEF Init
<1>2. /\ DOMAIN EmptyChain.by_id = {} /\ DOMAIN EmptyChain.id_to_type = {}
      /\ DOMAIN EmptyChain.levels = {}
  BY EmptyMap DEF EmptyChain
<1>3. ChainInv(EmptyChain)
  BY <1>2 DEF ChainInv
<1>4. Len(instruments) = 0 /\ instruments \in Seq(Specs)
  BY <1>1
<1>5. FirstContractIsFound
  BY <1>4 DEF FirstContractIsFound
<1> QED BY <1>1, <1>2, <1>3, <1>4, <1>5 DEF RegistryInv

(* A step on the application's chain leaves the registry alone. *)
LEMMA OwnStep ==
  ASSUME RegistryInv, NEW ch, ChainInv(ch), chain' = [chain EXCEPT ![Own] = ch],
         UNCHANGED instruments
  PROVE  RegistryInv'
<1>1. /\ DOMAIN chain' = Chains /\ Own \in Chains /\ chain'[Own] = ch
      /\ \A c \in Chains : c # Own => chain'[c] = chain[c]
  BY DEF RegistryInv, Chains
<1>2. \A c \in Chains : ChainInv(chain'[c])
  BY <1>1 DEF RegistryInv
<1>3. \A c \in Chains : c # Own => \A i \in DOMAIN chain'[c].by_id : ListedAs(c, i)'
  BY <1>1 DEF RegistryInv, ListedAs
<1>4. FirstContractIsFound'
  <2> SUFFICES ASSUME NEW n \in 1..Len(instruments), instruments[n].option # None,
                      \A m \in 1..n - 1 : instruments[m].option # instruments[n].option
               PROVE  LET s == instruments[n]
                      IN find(chain'[s.option.underlying], s.option.expiry, s.option.strike,
                              s.option.type) = s.id
    BY DEF FirstContractIsFound
  <2>1. instruments[n] \in Specs
    BY DEF RegistryInv
  <2>2. chain'[instruments[n].option.underlying] = chain[instruments[n].option.underlying]
    BY <1>1, <2>1, ContractIs
  <2> QED BY <2>2 DEF RegistryInv, FirstContractIsFound
<1> QED BY <1>1, <1>2, <1>3, <1>4 DEF RegistryInv

(* InstrumentRegistry::add: the id is new to the registry, and the chain   *)
(* has the contract only if an instrument added earlier has it.            *)
LEMMA RegistryAdd ==
  ASSUME RegistryInv, NEW s \in Specs, add(s)
  PROVE  RegistryInv'
<1> DEFINE N == Len(instruments)
           k == s.option
           u == s.option.underlying
           nc == ChainAdd(chain[u], s.id, k)
<1>1. /\ instruments \in Seq(Specs) /\ N \in Nat /\ instruments' = Append(instruments, s)
      /\ instruments' \in Seq(Specs) /\ Len(instruments') = N + 1
      /\ instruments'[N + 1] = s
      /\ \A n \in 1..N : instruments'[n] = instruments[n] /\ instruments[n] \in Specs
  BY DEF add, RegistryInv
<1>2. \A n \in 1..N : instruments[n].id # s.id
  BY <1>1 DEF add, Range
<1>3. \A n \in 1..N + 1 : n \in 1..N \/ n = N + 1
  BY <1>1
<1>4. \A n \in 1..N : n \in 1..N + 1 /\ \A m \in 1..n - 1 : m \in 1..N
  BY <1>1
<1>5. N + 1 \in 1..N + 1 /\ \A m \in 1..(N + 1) - 1 : m \in 1..N
  BY <1>1
<1> HIDE DEF N
<1>6. CASE k = None
  <2>1. chain' = chain
    BY <1>6 DEF add
  <2>2. \A c \in Chains : c # Own => \A i \in DOMAIN chain[c].by_id : ListedAs(c, i)'
    BY <1>1, <1>4, <2>1 DEF RegistryInv, ListedAs, N
  <2>3. FirstContractIsFound'
    BY <1>1, <1>3, <1>4, <1>6, <2>1 DEF RegistryInv, FirstContractIsFound, N
  <2> QED BY <1>1, <2>1, <2>2, <2>3 DEF RegistryInv
<1>7. CASE k # None
  <2>1. k \in Contracts /\ u \in Chains /\ u # Own /\ s.id \in InstrumentIds
    BY <1>7, ContractIs
  <2>2. /\ DOMAIN chain' = Chains /\ chain'[u] = nc
        /\ \A c \in Chains : c # u => chain'[c] = chain[c]
    BY <1>7, <2>1 DEF add, RegistryInv
  <2>3. ChainInv(chain[u])
    BY <2>1 DEF RegistryInv
  <2>a. Added(chain[u], nc, s.id, k)
    BY <2>1, <2>3, AddChain, Zenon
  <2> HIDE DEF nc, k, u
  <2>4. /\ ChainInv(nc)
        /\ \A e, p : \A t \in Types :
             find(chain[u], e, p, t) # None => find(nc, e, p, t) = find(chain[u], e, p, t)
        /\ s.id \notin DOMAIN chain[u].by_id /\ find(chain[u], k.expiry, k.strike, k.type) = None
             => find(nc, k.expiry, k.strike, k.type) = s.id
        /\ \A j \in DOMAIN nc.by_id :
             \/ /\ j \in DOMAIN chain[u].by_id
                /\ nc.by_id[j] = chain[u].by_id[j]
                /\ nc.id_to_type[j] = chain[u].id_to_type[j]
             \/ j = s.id /\ nc.by_id[j] = <<k.expiry, k.strike>> /\ nc.id_to_type[j] = k.type
    BY <2>a, Zenon DEF Added
  <2>5. \A i \in DOMAIN chain[u].by_id : ListedAs(u, i)
    BY <2>1 DEF RegistryInv
  <2>6. s.id \notin DOMAIN chain[u].by_id
    BY <1>2, <2>5 DEF ListedAs, N
  <2>7. ASSUME NEW c \in Chains, c # Own, NEW i \in DOMAIN chain'[c].by_id
        PROVE  ListedAs(c, i)'
    <3>1. CASE c # u \/ i \in DOMAIN chain[u].by_id
      <4>1. /\ i \in DOMAIN chain[c].by_id /\ chain'[c].by_id[i] = chain[c].by_id[i]
            /\ chain'[c].id_to_type[i] = chain[c].id_to_type[i]
        BY <2>2, <2>4, <2>6, <2>7, <3>1
      <4>2. PICK n \in 1..N :
              LET r == instruments[n]
              IN /\ r.id = i
                 /\ r.option # None
                 /\ r.option.underlying = c
                 /\ chain[c].by_id[i] = <<r.option.expiry, r.option.strike>>
                 /\ chain[c].id_to_type[i] = r.option.type
        BY <2>7, <4>1 DEF RegistryInv, ListedAs, N
      <4>3. n \in 1..Len(instruments') /\ instruments'[n] = instruments[n]
        BY <1>1, <1>4
      <4> QED BY <4>1, <4>2, <4>3 DEF ListedAs
    <3>2. CASE c = u /\ i \notin DOMAIN chain[u].by_id
      <4>1. /\ i = s.id /\ chain'[c].by_id[i] = <<k.expiry, k.strike>>
            /\ chain'[c].id_to_type[i] = k.type
        BY <2>2, <2>4, <3>2
      <4>2. N + 1 \in 1..Len(instruments') /\ instruments'[N + 1] = s
        BY <1>1, <1>5
      <4> QED BY <1>7, <3>2, <4>1, <4>2 DEF ListedAs, k, u
    <3> QED BY <3>1, <3>2
  <2>8. ASSUME \A m \in 1..N : instruments[m].option # k
        PROVE  find(chain[u], k.expiry, k.strike, k.type) = None
    <3> SUFFICES ASSUME find(chain[u], k.expiry, k.strike, k.type) # None
                 PROVE  FALSE
      OBVIOUS
    <3> DEFINE j == find(chain[u], k.expiry, k.strike, k.type)
    <3>1. k.type \in Types
      BY <1>7, ContractIs DEF k
    <3>2. /\ j \in DOMAIN chain[u].by_id /\ chain[u].by_id[j] = <<k.expiry, k.strike>>
          /\ chain[u].id_to_type[j] = k.type
      <4>1. Filed(chain[u], k.expiry, k.strike)
        BY <2>3, AnySlot
      <4> QED BY <3>1, <4>1 DEF Filed
    <3> HIDE DEF j
    <3>3. PICK n \in 1..N :
            LET r == instruments[n]
            IN /\ r.id = j
               /\ r.option # None
               /\ r.option.underlying = u
               /\ chain[u].by_id[j] = <<r.option.expiry, r.option.strike>>
               /\ chain[u].id_to_type[j] = r.option.type
      BY <2>5, <3>2 DEF ListedAs, N
    <3>4. instruments[n].option = k
      <4>1. instruments[n] \in Specs /\ instruments[n].option \in Contracts
        BY <1>1, <3>3, ContractIs
      <4>2. <<instruments[n].option.expiry, instruments[n].option.strike>> = <<k.expiry, k.strike>>
        BY <3>2, <3>3
      <4>3. /\ instruments[n].option.expiry = k.expiry /\ instruments[n].option.strike = k.strike
            /\ instruments[n].option.type = k.type /\ instruments[n].option.underlying = u
        BY <3>2, <3>3, <4>2
      <4> QED BY <1>7, <4>1, <4>3, ContractIs, Zenon DEF k, u
    <3> QED BY <2>8, <3>4
  <2>9. ASSUME NEW n \in 1..N + 1, instruments'[n].option # None,
               \A m \in 1..n - 1 : instruments'[m].option # instruments'[n].option
        PROVE  LET r == instruments'[n]
               IN find(chain'[r.option.underlying], r.option.expiry, r.option.strike,
                       r.option.type) = r.id
    <3>1. CASE n \in 1..N
      <4> DEFINE r == instruments[n]
      <4>1. /\ instruments'[n] = r /\ r \in Specs /\ r.option # None
            /\ \A m \in 1..n - 1 : instruments[m].option # r.option
        BY <1>1, <1>4, <2>9, <3>1
      <4>2. find(chain[r.option.underlying], r.option.expiry, r.option.strike, r.option.type)
              = r.id
        BY <3>1, <4>1 DEF RegistryInv, FirstContractIsFound, N
      <4> HIDE DEF r
      <4>3. r.id # None /\ r.option.type \in Types /\ r.option.underlying \in Chains
        BY <4>1, ContractIs
      <4> QED BY <2>2, <2>4, <4>1, <4>2, <4>3
    <3>2. CASE n = N + 1
      <4>1. instruments'[n] = s /\ \A m \in 1..N : instruments[m].option # k
        BY <1>1, <1>4, <2>9, <3>2 DEF k
      <4>2. find(nc, k.expiry, k.strike, k.type) = s.id
        BY <2>4, <2>6, <2>8, <4>1
      <4> QED BY <2>2, <4>1, <4>2 DEF k, u
    <3> QED BY <1>3, <3>1, <3>2
  <2>10. FirstContractIsFound'
    BY <1>1, <2>9 DEF FirstContractIsFound
  <2>11. \A c \in Chains : ChainInv(chain'[c])
    BY <2>2, <2>4 DEF RegistryInv
  <2> QED BY <1>1, <2>2, <2>7, <2>10, <2>11 DEF RegistryInv
<1> QED BY <1>6, <1>7

(* Every step keeps the invariant of the registry. *)
LEMMA RegistryNext == RegistryInv /\ [Next]_vars => RegistryInv'
<1> SUFFICES ASSUME RegistryInv, [Next]_vars PROVE RegistryInv'
  OBVIOUS
<1>1. ASSUME UNCHANGED <<instruments, chain>> PROVE RegistryInv'
  <2>1. instruments' = instruments /\ chain' = chain
    BY <1>1
  <2>2. FirstContractIsFound'
    BY <2>1 DEF RegistryInv, FirstContractIsFound
  <2>3. \A c \in Chains : c # Own => \A i \in DOMAIN chain'[c].by_id : ListedAs(c, i)'
    BY <2>1 DEF RegistryInv, ListedAs
  <2> QED BY <2>1, <2>2, <2>3 DEF RegistryInv
<1>2. ASSUME NEW s \in Specs, s.option # None, AddToOwn(s.id, s.option) PROVE RegistryInv'
  <2>1. ChainInv(ChainAdd(chain[Own], s.id, s.option))
    BY <1>2, ContractIs, AddChain DEF RegistryInv, Chains, Added
  <2> QED BY <1>2, <2>1, OwnStep, Zenon DEF AddToOwn
<1>3. ASSUME NEW i \in InstrumentIds, RemoveFromOwn(i) PROVE RegistryInv'
  <2>1. ChainInv(ChainRemove(chain[Own], i))
    BY <1>3, RemoveChain DEF RegistryInv, Chains, RemoveFromOwn
  <2> QED BY <1>3, <2>1, OwnStep, Zenon DEF RemoveFromOwn
<1>4. ASSUME NEW s \in Specs, add(s) PROVE RegistryInv'
  BY <1>4, RegistryAdd
<1>5. CASE freeze \/ Engine
  BY <1>1, <1>5 DEF freeze, Engine, registryVars
<1>6. ASSUME NEW i \in InstrumentIds, NEW e \in Dates, Registers(i), register_instrument(i, e)
      PROVE  RegistryInv'
  BY <1>1, <1>6 DEF register_instrument, registryVars
<1>7. ASSUME NEW i \in InstrumentIds, unregister(i) PROVE RegistryInv'
  BY <1>1, <1>7 DEF unregister, registryVars
<1>8. ASSUME NEW d \in Dates, sweep(d) PROVE RegistryInv'
  BY <1>1, <1>8 DEF sweep, registryVars
<1>9. CASE UNCHANGED vars
  BY <1>1, <1>9 DEF vars, registryVars
<1> QED BY <1>2, <1>3, <1>4, <1>5, <1>6, <1>7, <1>8, <1>9 DEF Next

(* In every reachable state each chain keeps its three maps in step, the   *)
(* ids of a registry's chain are those of options that were added, and     *)
(* add has left the first instrument of a contract where it is.            *)
THEOREM RegistryInvariance == Spec => []RegistryInv
<1>1. Init => RegistryInv
  BY RegistryInit
<1>2. RegistryInv /\ [Next]_vars => RegistryInv'
  BY RegistryNext
<1> QED BY <1>1, <1>2, PTL DEF Spec

(* Whatever adds and removes a chain sees, expiries and                    *)
(* expiring_on_or_before list exactly what by_id_ holds, and find leads    *)
(* from the contract of an id back to it.                                  *)
THEOREM ChainsAreExact == Spec => []ChainExact
<1>1. RegistryInv => ChainExact
  BY ChainLists, Zenon DEF RegistryInv, ChainExact
<1> QED BY <1>1, RegistryInvariance, PTL

(* InstrumentRegistry::add ignores what Chain::add returns, and yet every  *)
(* option whose contract was not listed before is found by that contract.  *)
THEOREM OptionsAreFound == Spec => []FirstContractIsFound
<1>1. RegistryInv => FirstContractIsFound
  BY DEF RegistryInv
<1> QED BY <1>1, RegistryInvariance, PTL

-----------------------------------------------------------------------------
(* The inductive invariant of the sweeper and the engine, for a caller     *)
(* that registers an instrument once.                                      *)
SweeperInv ==
  /\ by_expiry \in [Dates \X InstrumentIds -> Nat]
  /\ DOMAIN id_to_expiry \subseteq InstrumentIds
  /\ \A i \in DOMAIN id_to_expiry : id_to_expiry[i] \in Dates
  /\ ~built => traded = {}
  /\ SweeperAgrees

(* Nothing is registered before the first call of the sweeper. *)
LEMMA SweeperInit == Init => SweeperInv
BY EmptyMap DEF Init, SweeperInv, SweeperAgrees

(* One count of the multimap changes. *)
LEMMA Counts ==
  ASSUME SweeperInv, NEW e \in Dates, NEW i \in InstrumentIds, NEW n \in Nat,
         by_expiry' = [by_expiry EXCEPT ![<<e, i>>] = n]
  PROVE  /\ by_expiry' \in [Dates \X InstrumentIds -> Nat]
         /\ by_expiry'[<<e, i>>] = n
         /\ \A x \in Dates, j \in InstrumentIds :
              x # e \/ j # i => by_expiry'[<<x, j>>] = by_expiry[<<x, j>>]
BY DEF SweeperInv

(* Sweeper::register_instrument of an instrument that is not registered:   *)
(* both maps take it.                                                      *)
LEMMA RegisterStep ==
  ASSUME SweeperInv, Once, NEW i \in InstrumentIds, NEW e \in Dates, Registers(i),
         register_instrument(i, e)
  PROVE  SweeperInv'
<1>1. /\ i \notin DOMAIN id_to_expiry /\ id_to_expiry' = Map(id_to_expiry, i, e)
      /\ by_expiry' = [by_expiry EXCEPT ![<<e, i>>] = by_expiry[<<e, i>>] + 1]
      /\ UNCHANGED <<built, traded>>
  BY DEF Registers, register_instrument, engineVars
<1>2. by_expiry[<<e, i>>] = 0 /\ by_expiry[<<e, i>>] + 1 = 1 /\ \A x \in Dates : by_expiry[<<x, i>>] = 0
  BY <1>1 DEF SweeperInv, SweeperAgrees
<1>3. /\ by_expiry' \in [Dates \X InstrumentIds -> Nat]
      /\ by_expiry'[<<e, i>>] = 1
      /\ \A x \in Dates, j \in InstrumentIds :
           x # e \/ j # i => by_expiry'[<<x, j>>] = by_expiry[<<x, j>>]
  BY <1>1, <1>2, Counts, Zenon
<1>4. /\ DOMAIN id_to_expiry' = DOMAIN id_to_expiry \cup {i} /\ id_to_expiry'[i] = e
      /\ \A j \in DOMAIN id_to_expiry : j # i /\ id_to_expiry'[j] = id_to_expiry[j]
  BY <1>1 DEF Map
<1>5. SweeperAgrees'
  <2> SUFFICES ASSUME NEW x \in Dates, NEW j \in InstrumentIds
               PROVE  by_expiry'[<<x, j>>] =
                        IF j \in DOMAIN id_to_expiry' /\ id_to_expiry'[j] = x THEN 1 ELSE 0
    BY Zenon DEF SweeperAgrees
  <2>1. by_expiry[<<x, j>>] =
          IF j \in DOMAIN id_to_expiry /\ id_to_expiry[j] = x THEN 1 ELSE 0
    BY DEF SweeperInv, SweeperAgrees
  <2>2. CASE j = i
    BY <1>2, <1>3, <1>4, <2>2
  <2>3. CASE j # i
    BY <1>3, <1>4, <2>1, <2>3
  <2> QED BY <2>2, <2>3
<1> QED BY <1>1, <1>3, <1>4, <1>5 DEF SweeperInv

(* Sweeper::unregister takes the instrument out of both maps. *)
LEMMA UnregisterStep ==
  ASSUME SweeperInv, NEW i \in InstrumentIds, unregister(i)
  PROVE  SweeperInv'
<1> DEFINE e == id_to_expiry[i]
<1>1. /\ i \in DOMAIN id_to_expiry /\ id_to_expiry' = Erase(id_to_expiry, i)
      /\ by_expiry' = [by_expiry EXCEPT ![<<e, i>>] =
                         IF by_expiry[<<e, i>>] > 0 THEN by_expiry[<<e, i>>] - 1 ELSE 0]
      /\ UNCHANGED <<built, traded>>
  BY DEF unregister, engineVars
<1>2. e \in Dates /\ by_expiry[<<e, i>>] = 1
  BY <1>1 DEF SweeperInv, SweeperAgrees
<1>3. by_expiry' = [by_expiry EXCEPT ![<<e, i>>] = 0]
  BY <1>1, <1>2
<1> HIDE DEF e
<1>4. /\ by_expiry' \in [Dates \X InstrumentIds -> Nat]
      /\ by_expiry'[<<e, i>>] = 0
      /\ \A x \in Dates, j \in InstrumentIds :
           x # e \/ j # i => by_expiry'[<<x, j>>] = by_expiry[<<x, j>>]
  BY <1>2, <1>3, Counts, Zenon
<1>5. /\ DOMAIN id_to_expiry' = DOMAIN id_to_expiry \ {i}
      /\ \A j \in DOMAIN id_to_expiry : j # i => id_to_expiry'[j] = id_to_expiry[j]
  BY <1>1 DEF Erase, Restrict
<1>6. SweeperAgrees'
  <2> SUFFICES ASSUME NEW x \in Dates, NEW j \in InstrumentIds
               PROVE  by_expiry'[<<x, j>>] =
                        IF j \in DOMAIN id_to_expiry' /\ id_to_expiry'[j] = x THEN 1 ELSE 0
    BY Zenon DEF SweeperAgrees
  <2>1. by_expiry[<<x, j>>] =
          IF j \in DOMAIN id_to_expiry /\ id_to_expiry[j] = x THEN 1 ELSE 0
    BY DEF SweeperInv, SweeperAgrees
  <2>2. CASE j = i
    BY <1>4, <1>5, <2>1, <2>2 DEF e
  <2>3. CASE j # i
    BY <1>4, <1>5, <2>1, <2>3
  <2> QED BY <2>2, <2>3
<1> QED BY <1>1, <1>4, <1>5, <1>6 DEF SweeperInv

(* A sweep finds exactly the instruments registered with a date that is    *)
(* due.                                                                    *)
LEMMA SweepFinds ==
  ASSUME SweeperInv, NEW d \in Dates
  PROVE  {i \in InstrumentIds : \E e \in Dates : e <= d /\ by_expiry[<<e, i>>] > 0}
           = {i \in DOMAIN id_to_expiry : id_to_expiry[i] <= d}
<1>1. \A e \in Dates : \A i \in InstrumentIds :
        by_expiry[<<e, i>>] > 0 <=> i \in DOMAIN id_to_expiry /\ id_to_expiry[i] = e
  <2> TAKE e \in Dates
  <2> TAKE i \in InstrumentIds
  <2>1. by_expiry[<<e, i>>] =
          IF i \in DOMAIN id_to_expiry /\ id_to_expiry[i] = e THEN 1 ELSE 0
    BY Zenon DEF SweeperInv, SweeperAgrees
  <2> QED BY <2>1
<1> QED BY <1>1, Zenon DEF SweeperInv

(* Sweeper::sweep takes what is due out of both maps, and its book. *)
LEMMA SweepStep ==
  ASSUME SweeperInv, NEW d \in Dates, sweep(d)
  PROVE  /\ SweeperInv'
         /\ today' = d
         /\ traded' = traded \ {i \in DOMAIN id_to_expiry : id_to_expiry[i] <= d}
         /\ DOMAIN id_to_expiry' \cap {i \in DOMAIN id_to_expiry : id_to_expiry[i] <= d} = {}
<1> DEFINE due == {i \in DOMAIN id_to_expiry : id_to_expiry[i] <= d}
<1>1. /\ by_expiry' = [k \in Dates \X InstrumentIds |-> IF k[1] <= d THEN 0 ELSE by_expiry[k]]
      /\ id_to_expiry' = Restrict(id_to_expiry, DOMAIN id_to_expiry \ due)
      /\ traded' = traded \ due
      /\ today' = d
      /\ built /\ built' = built
  BY SweepFinds, Zenon DEF sweep
<1>2. /\ by_expiry' \in [Dates \X InstrumentIds -> Nat]
      /\ \A x \in Dates, j \in InstrumentIds :
           by_expiry'[<<x, j>>] = IF x <= d THEN 0 ELSE by_expiry[<<x, j>>]
  BY <1>1 DEF SweeperInv
<1>3. /\ DOMAIN id_to_expiry' = DOMAIN id_to_expiry \ due
      /\ \A j \in DOMAIN id_to_expiry' : id_to_expiry'[j] = id_to_expiry[j]
  BY <1>1 DEF Restrict
<1>4. SweeperAgrees'
  <2> SUFFICES ASSUME NEW x \in Dates, NEW j \in InstrumentIds
               PROVE  by_expiry'[<<x, j>>] =
                        IF j \in DOMAIN id_to_expiry' /\ id_to_expiry'[j] = x THEN 1 ELSE 0
    BY Zenon DEF SweeperAgrees
  <2>1. by_expiry[<<x, j>>] =
          IF j \in DOMAIN id_to_expiry /\ id_to_expiry[j] = x THEN 1 ELSE 0
    BY DEF SweeperInv, SweeperAgrees
  <2> QED BY <1>2, <1>3, <2>1
<1> QED BY <1>1, <1>2, <1>3, <1>4, Zenon DEF SweeperInv

(* What a step does to the books of the instruments that expire. *)
LEMMA SweeperNext ==
  ASSUME SweeperInv, Once, [Next]_vars
  PROVE  /\ SweeperInv'
         /\ \/ traded \subseteq traded' /\ today' = today
            \/ /\ traded' = traded \ {i \in DOMAIN id_to_expiry : id_to_expiry[i] <= today'}
               /\ DOMAIN id_to_expiry'
                    \cap {i \in DOMAIN id_to_expiry : id_to_expiry[i] <= today'} = {}
<1>1. ASSUME UNCHANGED <<sweeperVars, engineVars, today>>
      PROVE  SweeperInv' /\ traded \subseteq traded' /\ today' = today
  <2>1. /\ by_expiry' = by_expiry /\ id_to_expiry' = id_to_expiry /\ built' = built
        /\ traded' = traded /\ today' = today
    BY <1>1 DEF sweeperVars, engineVars
  <2> QED BY <2>1 DEF SweeperInv, SweeperAgrees
<1>2. ASSUME NEW s \in Specs, add(s) \/ AddToOwn(s.id, s.option)
      PROVE  UNCHANGED <<sweeperVars, engineVars, today>>
  BY <1>2 DEF add, AddToOwn
<1>3. ASSUME NEW i \in InstrumentIds, RemoveFromOwn(i)
      PROVE  UNCHANGED <<sweeperVars, engineVars, today>>
  BY <1>3 DEF RemoveFromOwn
<1>4. ASSUME freeze PROVE UNCHANGED <<sweeperVars, engineVars, today>>
  BY <1>4 DEF freeze
<1>5. ASSUME Engine PROVE SweeperInv' /\ traded \subseteq traded' /\ today' = today
  <2>1. ~built /\ built' /\ by_expiry' = by_expiry /\ id_to_expiry' = id_to_expiry /\ today' = today
    BY <1>5 DEF Engine, sweeperVars
  <2> QED BY <2>1 DEF SweeperInv, SweeperAgrees
<1>6. ASSUME NEW i \in InstrumentIds, NEW e \in Dates, Registers(i), register_instrument(i, e)
      PROVE  SweeperInv' /\ traded \subseteq traded' /\ today' = today
  BY <1>6, RegisterStep, Zenon DEF register_instrument, engineVars
<1>7. ASSUME NEW i \in InstrumentIds, unregister(i)
      PROVE  SweeperInv' /\ traded \subseteq traded' /\ today' = today
  BY <1>7, UnregisterStep, Zenon DEF unregister, engineVars
<1>8. CASE \E d \in Dates : sweep(d)
  BY <1>8, SweepStep
<1>9. CASE UNCHANGED vars
  BY <1>1, <1>9 DEF vars
<1> QED BY <1>1, <1>2, <1>3, <1>4, <1>5, <1>6, <1>7, <1>8, <1>9 DEF Next

(* In every reachable state the multimap and the map of the sweeper agree, *)
(* and no instrument has a book before the engine is built; for a caller   *)
(* that registers an instrument once at a time.                            *)
THEOREM SweeperInvariance == ASSUME Once PROVE Spec => []SweeperInv
<1>1. Init => SweeperInv
  BY SweeperInit
<1>2. SweeperInv /\ [Next]_vars => SweeperInv'
  BY SweeperNext
<1> QED BY <1>1, <1>2, PTL DEF Spec

(* For such a caller an entry left behind by unregister or sweep, or a     *)
(* second one, is impossible with any number of instruments and dates.     *)
THEOREM SweeperIsExact == ASSUME Once PROVE Spec => []SweeperAgrees
<1>1. SweeperInv => SweeperAgrees
  BY DEF SweeperInv
<1> QED BY <1>1, SweeperInvariance, PTL

(* For such a caller a sweep ends trading in exactly the instruments whose *)
(* registered date has come, and no other step takes a book away.          *)
THEOREM TradingEndsOnTime == ASSUME Once PROVE Spec => SweepTakesTheDue
<1> DEFINE due == {i \in DOMAIN id_to_expiry : id_to_expiry[i] <= today'}
           gone == {i \in traded : i \notin traded'}
           left == {i \in DOMAIN id_to_expiry' : i \in DOMAIN id_to_expiry}
<1>1. SweeperInv /\ [Next]_vars =>
        /\ gone # {} => gone = traded \cap due
        /\ today' # today => due \cap left = {} /\ due \cap traded' = {}
  <2> SUFFICES ASSUME SweeperInv, [Next]_vars
               PROVE  /\ gone # {} => gone = traded \cap due
                      /\ today' # today => due \cap left = {} /\ due \cap traded' = {}
    OBVIOUS
  <2>1. \/ traded \subseteq traded' /\ today' = today
        \/ traded' = traded \ due /\ DOMAIN id_to_expiry' \cap due = {}
    BY SweeperNext
  <2> HIDE DEF due
  <2> QED BY <2>1
<1> QED BY <1>1, SweeperInvariance, PTL DEF Spec, SweepTakesTheDue

=============================================================================
