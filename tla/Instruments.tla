---------------------------- MODULE Instruments ----------------------------
(***************************************************************************)
(* InstrumentRegistry with its option chains, the Sweeper, and the engine  *)
(* whose instruments expire.                                               *)
(*                                                                         *)
(* A chain is a record of its three maps, kept as functions on the keys    *)
(* present, so that an entry left behind shows.  The registry only adds to *)
(* its chains; Own is a chain the application keeps and also removes from. *)
(***************************************************************************)
EXTENDS Integers, Sequences, Functions

CONSTANTS
  Specs,   \* the instruments the application may add: [id, symbol, option]
  Own,     \* a chain of the application
  Dates,   \* expiry dates
  Once,    \* TRUE: the application registers no instrument that is registered
  None     \* nullopt

InstrumentIds == {s.id : s \in Specs}
Contracts     == {s.option : s \in Specs} \ {None}
Chains        == {k.underlying : k \in Contracts} \cup {Own}

Types         == {"Call", "Put"}

ASSUME InstrumentsAssumption ==
  /\ Dates \subseteq Nat
  /\ Once \in BOOLEAN
  /\ None \notin InstrumentIds
  /\ \A k \in Contracts :
       /\ k = [underlying |-> k.underlying, expiry |-> k.expiry,
               strike |-> k.strike, type |-> k.type]
       /\ k.underlying # Own
       /\ k.expiry \in Dates
       /\ k.type \in Types

VARIABLES
  frozen,        \* InstrumentRegistry::frozen_
  instruments,   \* InstrumentRegistry::instruments_
  chain,         \* InstrumentRegistry::chains_, and the chain Own
  by_expiry,     \* Sweeper::by_expiry_: how often an entry is in the multimap
  id_to_expiry,  \* Sweeper::id_to_expiry_
  built,         \* the engine has been constructed
  traded,        \* Engine::matchers_: the instruments that have a book
  today          \* history: the date of the last sweep

registryVars == <<frozen, instruments, chain>>
sweeperVars  == <<by_expiry, id_to_expiry>>
engineVars   == <<built, traded>>
vars         == <<registryVars, sweeperVars, engineVars, today>>

-----------------------------------------------------------------------------
(* Chain *)

Map(f, x, y) == [z \in DOMAIN f \cup {x} |-> IF z = x THEN y ELSE f[z]]

Erase(f, x) == Restrict(f, DOMAIN f \ {x})

EmptySlot == [t \in Types |-> None]

EmptyChain == [levels |-> <<>>, by_id |-> <<>>, id_to_type |-> <<>>]

Strikes(ch, e) == IF e \in DOMAIN ch.levels THEN ch.levels[e] ELSE <<>>

Slot(ch, e, p) ==
  IF p \in DOMAIN Strikes(ch, e) THEN Strikes(ch, e)[p] ELSE EmptySlot

(* Chain::find *)
find(ch, e, p, type) == Slot(ch, e, p)[type]

(* Chain::at_expiry: the calls and the puts. *)
at_expiry(ch, e) ==
  {find(ch, e, p, t) : p \in DOMAIN Strikes(ch, e), t \in Types} \ {None}

(* Chain::expiries *)
expiries(ch) == DOMAIN ch.levels

(* Chain::expiring_on_or_before *)
expiring_on_or_before(ch, d) ==
  UNION {at_expiry(ch, e) : e \in {x \in expiries(ch) : x <= d}}

(* Chain::add: an id or a contract that is there already changes nothing.  *)
ChainAdd(ch, i, k) ==
  IF i \in DOMAIN ch.by_id \/ find(ch, k.expiry, k.strike, k.type) # None THEN ch
  ELSE LET slot == [Slot(ch, k.expiry, k.strike) EXCEPT ![k.type] = i]
       IN [levels |-> Map(ch.levels, k.expiry, Map(Strikes(ch, k.expiry), k.strike, slot)),
           by_id |-> Map(ch.by_id, i, <<k.expiry, k.strike>>),
           id_to_type |-> Map(ch.id_to_type, i, k.type)]

\* Mutant: a date without contracts stays in levels_.
ChainRemoveKeepsDate(ch, i) ==
  LET e == ch.by_id[i][1]
      p == ch.by_id[i][2]
      slot == [ch.levels[e][p] EXCEPT ![ch.id_to_type[i]] = None]
      strikes == IF slot = EmptySlot THEN Erase(ch.levels[e], p)
                 ELSE Map(ch.levels[e], p, slot)
  IN [levels |-> Map(ch.levels, e, strikes),
      by_id |-> Erase(ch.by_id, i),
      id_to_type |-> Erase(ch.id_to_type, i)]

(* Chain::remove of an id it has: the half of the slot is reset; an empty  *)
(* slot goes, and a date without slots goes.                               *)
ChainRemove(ch, i) ==
  LET e == ch.by_id[i][1]
      p == ch.by_id[i][2]
      slot == [ch.levels[e][p] EXCEPT ![ch.id_to_type[i]] = None]
      strikes == IF slot = EmptySlot THEN Erase(ch.levels[e], p)
                 ELSE Map(ch.levels[e], p, slot)
  IN [levels |-> IF DOMAIN strikes = {} THEN Erase(ch.levels, e)
                 ELSE Map(ch.levels, e, strikes),
      by_id |-> Erase(ch.by_id, i),
      id_to_type |-> Erase(ch.id_to_type, i)]

-----------------------------------------------------------------------------
Init ==
  /\ frozen = FALSE
  /\ instruments = <<>>
  /\ chain = [c \in Chains |-> EmptyChain]
  /\ by_expiry = [e \in Dates \X InstrumentIds |-> 0]
  /\ id_to_expiry = <<>>
  /\ built = FALSE
  /\ traded = {}
  /\ today = -1

\* Mutant: an option is filed only when it is the first of its chain.
add_first_only(s) ==
  /\ ~frozen
  /\ \A r \in Range(instruments) : r.id # s.id /\ r.symbol # s.symbol
  /\ instruments' = Append(instruments, s)
  /\ chain' = IF s.option = None \/ chain[s.option.underlying] # EmptyChain THEN chain
              ELSE [chain EXCEPT ![s.option.underlying] = ChainAdd(@, s.id, s.option)]
  /\ UNCHANGED <<frozen, sweeperVars, engineVars, today>>

(* InstrumentRegistry::add of an id and a symbol it does not have yet;     *)
(* otherwise, and once frozen, it throws before it changes anything.  What *)
(* Chain::add returns is not looked at.                                    *)
add(s) ==
  /\ ~frozen
  /\ \A r \in Range(instruments) : r.id # s.id /\ r.symbol # s.symbol
  /\ instruments' = Append(instruments, s)
  /\ chain' = IF s.option = None THEN chain
              ELSE [chain EXCEPT ![s.option.underlying] = ChainAdd(@, s.id, s.option)]
  /\ UNCHANGED <<frozen, sweeperVars, engineVars, today>>

freeze ==
  /\ ~frozen
  /\ frozen' = TRUE
  /\ UNCHANGED <<instruments, chain, sweeperVars, engineVars, today>>

(* The application works on a chain of its own. *)
AddToOwn(i, k) ==
  /\ chain' = [chain EXCEPT ![Own] = ChainAdd(@, i, k)]
  /\ UNCHANGED <<frozen, instruments, sweeperVars, engineVars, today>>

RemoveFromOwn(i) ==
  /\ i \in DOMAIN chain[Own].by_id
  /\ chain' = [chain EXCEPT ![Own] = ChainRemove(@, i)]
  /\ UNCHANGED <<frozen, instruments, sweeperVars, engineVars, today>>

(* The constructor of Engine: a book for every instrument of a frozen      *)
(* registry.                                                               *)
Engine ==
  /\ frozen /\ ~built
  /\ built' = TRUE
  /\ traded' = {r.id : r \in Range(instruments)}
  /\ UNCHANGED <<registryVars, sweeperVars, today>>

-----------------------------------------------------------------------------
(* Sweeper::register_instrument: emplace keeps a date that is there, the   *)
(* multimap takes every entry.                                             *)
register_instrument(i, e) ==
  /\ id_to_expiry' = IF i \in DOMAIN id_to_expiry THEN id_to_expiry
                     ELSE Map(id_to_expiry, i, e)
  /\ by_expiry' = [by_expiry EXCEPT ![<<e, i>>] = @ + 1]
  /\ UNCHANGED <<registryVars, engineVars, today>>

\* Mutant: the entry of the multimap stays.
unregister_keeps(i) ==
  /\ i \in DOMAIN id_to_expiry
  /\ id_to_expiry' = Erase(id_to_expiry, i)
  /\ UNCHANGED <<registryVars, by_expiry, engineVars, today>>

(* Sweeper::unregister of an id it knows: one entry under its date goes.   *)
unregister(i) ==
  /\ i \in DOMAIN id_to_expiry
  /\ LET k == <<id_to_expiry[i], i>>
     IN by_expiry' = [by_expiry EXCEPT ![k] = IF @ > 0 THEN @ - 1 ELSE 0]
  /\ id_to_expiry' = Erase(id_to_expiry, i)
  /\ UNCHANGED <<registryVars, engineVars, today>>

\* Mutant: what expires today is left for tomorrow.
sweep_before(d) ==
  LET expired == {i \in InstrumentIds : \E e \in Dates : e < d /\ by_expiry[<<e, i>>] > 0}
  IN /\ built
     /\ by_expiry' = [k \in Dates \X InstrumentIds |-> IF k[1] < d THEN 0 ELSE by_expiry[k]]
     /\ id_to_expiry' = Restrict(id_to_expiry, DOMAIN id_to_expiry \ expired)
     /\ traded' = traded \ expired
     /\ today' = d
     /\ UNCHANGED <<registryVars, built>>

(* Sweeper::sweep, and Engine::expire_instrument of every id it returns;   *)
(* an instrument that has no book any more makes that return false.        *)
sweep(d) ==
  LET expired == {i \in InstrumentIds : \E e \in Dates : e <= d /\ by_expiry[<<e, i>>] > 0}
  IN /\ built
     /\ by_expiry' = [k \in Dates \X InstrumentIds |-> IF k[1] <= d THEN 0 ELSE by_expiry[k]]
     /\ id_to_expiry' = Restrict(id_to_expiry, DOMAIN id_to_expiry \ expired)
     /\ traded' = traded \ expired
     /\ today' = d
     /\ UNCHANGED <<registryVars, built>>

(* The instruments that can expire. *)
Options == {r.id : r \in {s \in Range(instruments) : s.option # None}}

(* What the application registers: an option of the engine it has built,   *)
(* and with Once none that is registered already.                          *)
Registers(i) ==
  /\ built
  /\ i \in Options
  /\ Once => i \notin DOMAIN id_to_expiry

Next ==
  \/ \E s \in Specs : add(s)
  \/ freeze
  \/ \E s \in Specs : s.option # None /\ AddToOwn(s.id, s.option)
  \/ \E i \in InstrumentIds : RemoveFromOwn(i)
  \/ Engine
  \/ \E i \in InstrumentIds, e \in Dates : Registers(i) /\ register_instrument(i, e)
  \/ \E i \in InstrumentIds : unregister(i)
  \/ \E d \in Dates : sweep(d)

Spec == Init /\ [][Next]_vars

-----------------------------------------------------------------------------
(* The three maps of a chain agree in any sequence of adds and removes: an *)
(* id is found under one contract, the one its id map names, and the dates *)
(* and the expiring contracts listed are those of the ids it has.          *)
ChainExact ==
  \A c \in Chains :
    LET ch == chain[c]
        ids == DOMAIN ch.by_id
    IN /\ ids = DOMAIN ch.id_to_type
       /\ \A i \in ids : find(ch, ch.by_id[i][1], ch.by_id[i][2], ch.id_to_type[i]) = i
       /\ expiries(ch) = {ch.by_id[i][1] : i \in ids}
       /\ \A d \in Dates :
            expiring_on_or_before(ch, d) = {i \in ids : ch.by_id[i][1] <= d}

(* Every option in the registry is found in the chain of its underlying,   *)
(* unless an instrument added earlier has the same contract: the first one *)
(* keeps its place although add does not look at what Chain::add returns.  *)
FirstContractIsFound ==
  \A n \in 1..Len(instruments) :
    LET s == instruments[n]
    IN s.option # None /\ (\A m \in 1..n - 1 : instruments[m].option # s.option) =>
         find(chain[s.option.underlying], s.option.expiry, s.option.strike, s.option.type)
           = s.id

(* The two maps of the sweeper agree: an instrument has an entry under the *)
(* date it is registered with and no other, and none once it is withdrawn  *)
(* or has expired.  It takes a caller that registers an instrument once.   *)
SweeperAgrees ==
  \A e \in Dates, i \in InstrumentIds :
    by_expiry[<<e, i>>] = IF i \in DOMAIN id_to_expiry /\ id_to_expiry[i] = e THEN 1 ELSE 0

(* Trading ends on time and for nobody else: a sweep takes the books of    *)
(* exactly the instruments registered with a date on or before its own,    *)
(* and no instrument loses its book otherwise.                             *)
SweepTakesTheDue ==
  [][LET due == {i \in DOMAIN id_to_expiry : id_to_expiry[i] <= today'}
         gone == {i \in traded : i \notin traded'}
         left == {i \in DOMAIN id_to_expiry' : i \in DOMAIN id_to_expiry}
     IN /\ gone # {} => gone = traded \cap due
        /\ today' # today => due \cap left = {} /\ due \cap traded' = {}]_vars
=============================================================================
