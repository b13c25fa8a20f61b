--------------------------- MODULE ShardedCancels ---------------------------
(***************************************************************************)
(* The cancels of ShardedMatcher: a cancel is queued behind the submit of  *)
(* the order it names, in the queue of the shard that has its book, so it  *)
(* takes effect however client and workers are interleaved.                *)
(***************************************************************************)
EXTENDS ShardedMatcherProofs

(* Zenon proves a step that names no prover; the SMT solver is named where arithmetic,
   sequences or records are needed. *)
USE ZenonT(20)

-----------------------------------------------------------------------------
(* The command that cancels the order of slot s. *)
CancelOf(s) == [kind |-> "Cancel", instrument |-> ord[s].instrument, id |-> ord[s].id]

(* The command c waits in the queue q, and s is not submitted behind it. *)
Pends(q, s, c) ==
  \E n \in 1..Len(q) :
    /\ q[n] = c
    /\ \A m \in n..Len(q) : q[m].kind = "Submit" => q[m].order # s

(* A command in the queue of shard e is for one of its instruments, and an *)
(* order that waits there is still the client's.                           *)
Belongs(e, c) ==
  /\ Home[c.instrument] = e
  /\ c.kind = "Submit" => c.order \in held /\ ord[c.order].instrument = c.instrument

(* Every command is in the right queue, every order in one queue at most,  *)
(* and a worker handles an order of its own instruments.                   *)
Routed ==
  /\ \A e \in Engines : \A n \in 1..Len(cmds[e]) : Belongs(e, cmds[e][n])
  /\ \A e \in Engines : \A m, n \in 1..Len(cmds[e]) :
       m # n /\ cmds[e][m].kind = "Submit" /\ cmds[e][n].kind = "Submit"
         => cmds[e][m].order # cmds[e][n].order
  /\ \A e \in Engines : taker[e] # None => Home[ord[taker[e]].instrument] = e
  /\ live = Instruments

(* An order in use whose id was last sent a cancel has yet to be submitted *)
(* or has that cancel coming, behind its submit.                           *)
Cancelled(s) ==
  latest[ord[s].instrument][ord[s].id] = "Cancel" =>
    s \in held \ Queued \/ Pends(cmds[Home[ord[s].instrument]], s, CancelOf(s))

(* A command c joins the queue of shard f; its worker takes the first one. *)
Sends(f, c) == cmds' = [cmds EXCEPT ![f] = Append(@, c)]
Pops(f) == cmds[f] # <<>> /\ cmds' = [cmds EXCEPT ![f] = Tail(@)]

CancelInv ==
  /\ latest \in [Instruments -> [Ids -> {"none", "Submit", "Cancel"}]]
  /\ Routed
  /\ \A s \in InUse \ {None} : Cancelled(s)

-----------------------------------------------------------------------------
(* The orders that queues C hold. *)
OrdersIn(C) ==
  {c.order : c \in {d \in UNION {Range(C[e]) : e \in Engines} : d.kind = "Submit"}}

LEMMA OrdersAre ==
  ASSUME NEW C \in [Engines -> Seq(Command)]
  PROVE  \A s : s \in OrdersIn(C) <=>
           \E e \in Engines : \E n \in 1..Len(C[e]) : C[e][n].kind = "Submit" /\ C[e][n].order = s
<1> DEFINE all == UNION {Range(C[e]) : e \in Engines}
<1>1. \A e \in Engines : Range(C[e]) = {C[e][n] : n \in 1..Len(C[e])}
  BY SMTT(20) DEF Range
<1>2. \A c : c \in all <=> \E e \in Engines : \E n \in 1..Len(C[e]) : C[e][n] = c
  <2>1. \A c : c \in all <=> \E e \in Engines : c \in Range(C[e])
    OBVIOUS
  <2>2. \A c : \A e \in Engines : c \in Range(C[e]) <=> \E n \in 1..Len(C[e]) : C[e][n] = c
    BY <1>1
  <2> HIDE DEF all
  <2> QED BY <2>1, <2>2
<1> HIDE DEF all
<1>3. OrdersIn(C) = {c.order : c \in {d \in all : d.kind = "Submit"}}
  BY DEF OrdersIn, all
<1> QED BY <1>2, <1>3, SMTT(20)

(* So do the queues of the shards. *)
LEMMA QueuedIs ==
  ASSUME ShardTypes
  PROVE  \A s : s \in Queued <=>
           \E e \in Engines : \E n \in 1..Len(cmds[e]) :
             cmds[e][n].kind = "Submit" /\ cmds[e][n].order = s
<1>1. Queued = OrdersIn(cmds) /\ cmds \in [Engines -> Seq(Command)]
  BY DEF Queued, OrdersIn, ShardTypes
<1> QED BY <1>1, OrdersAre

-----------------------------------------------------------------------------
(* What an exact index gives for an id. *)
LEMMA FoundIs ==
  ASSUME IndexExact, NEW i \in Instruments, NEW d \in Ids, index[i][d] # None
  PROVE  /\ index[i][d] \in Resting
         /\ ord[index[i][d]].id = d /\ ord[index[i][d]].instrument = i
BY DEF IndexExact

(* A command sent behind a cancel leaves it pending, unless it submits the *)
(* order; a cancel pends once it is sent.                                  *)
LEMMA PendsSend ==
  ASSUME NEW q \in Seq(Command), NEW c \in Command, NEW s, NEW d
  PROVE  /\ Pends(q, s, d) /\ (c.kind = "Submit" => c.order # s)
              => Pends(Append(q, c), s, d)
         /\ c.kind = "Cancel" => Pends(Append(q, c), s, c)
<1> DEFINE p == Append(q, c)
<1>1. /\ Len(q) \in Nat /\ Len(p) = Len(q) + 1 /\ p[Len(q) + 1] = c
      /\ \A n \in 1..Len(q) : p[n] = q[n]
  BY SMTT(20)
<1> HIDE DEF p
<1>2. ASSUME Pends(q, s, d), c.kind = "Submit" => c.order # s PROVE Pends(p, s, d)
  <2>1. PICK n \in 1..Len(q) :
          q[n] = d /\ \A m \in n..Len(q) : q[m].kind = "Submit" => q[m].order # s
    BY <1>2 DEF Pends
  <2>2. \A m \in n..Len(p) : m \in n..Len(q) \/ m = Len(q) + 1
    BY <1>1, SMTT(20)
  <2>3. \A m \in n..Len(p) : p[m].kind = "Submit" => p[m].order # s
    BY <1>1, <1>2, <2>1, <2>2, SMTT(20)
  <2> QED BY <1>1, <2>1, <2>3, SMTT(20) DEF Pends
<1>3. ASSUME c.kind = "Cancel" PROVE Pends(p, s, c)
  <2>1. \A m \in (Len(q) + 1)..Len(p) : p[m] = c
    BY <1>1, SMTT(20)
  <2>2. Len(q) + 1 \in 1..Len(p)
    BY <1>1, SMTT(20)
  <2> QED BY <1>3, <2>1, <2>2, SMTT(20) DEF Pends
<1> QED BY <1>2, <1>3 DEF p

(* Taking the first command leaves a cancel pending, unless it is that one *)
(* and the order is not submitted anywhere in the queue.                   *)
LEMMA PendsPop ==
  ASSUME NEW q \in Seq(Command), q # <<>>, NEW s, NEW d, Pends(q, s, d)
  PROVE  \/ Pends(Tail(q), s, d)
         \/ /\ Head(q) = d
            /\ \A m \in 1..Len(q) : q[m].kind = "Submit" => q[m].order # s
<1> DEFINE p == Tail(q)
<1>1. /\ Len(q) \in Nat /\ Len(p) = Len(q) - 1 /\ Head(q) = q[1]
      /\ \A n \in 1..Len(p) : p[n] = q[n + 1]
  BY SMTT(20)
<1> HIDE DEF p
<1>2. PICK n \in 1..Len(q) :
        q[n] = d /\ \A m \in n..Len(q) : q[m].kind = "Submit" => q[m].order # s
  BY DEF Pends
<1>3. CASE n = 1
  BY <1>2, <1>3, SMTT(20)
<1>4. CASE n > 1
  <2>1. n - 1 \in 1..Len(p) /\ p[n - 1] = d
    BY <1>1, <1>2, <1>4, SMTT(20)
  <2>2. \A m \in (n - 1)..Len(p) : m \in 1..Len(p) /\ m + 1 \in n..Len(q)
    BY <1>1, <1>4, SMTT(20)
  <2>3. \A m \in (n - 1)..Len(p) : p[m].kind = "Submit" => p[m].order # s
    BY <1>1, <1>2, <2>2
  <2> QED BY <2>1, SMTT(20) DEF Pends, p
<1> QED BY <1>3, <1>4, SMTT(20)

(* The commands of a queue after a send and after a pop. *)
LEMMA QueueSend ==
  ASSUME ShardTypes, NEW f \in Engines, NEW c \in Command,
         Sends(f, c), NEW e \in Engines
  PROVE  /\ cmds'[e] = IF e = f THEN Append(cmds[e], c) ELSE cmds[e]
         /\ Len(cmds[e]) \in Nat
         /\ \A n \in 1..Len(cmds'[e]) :
              \/ n \in 1..Len(cmds[e]) /\ cmds'[e][n] = cmds[e][n]
              \/ e = f /\ n = Len(cmds[e]) + 1 /\ cmds'[e][n] = c
         /\ \A n \in 1..Len(cmds[e]) : n \in 1..Len(cmds'[e]) /\ cmds'[e][n] = cmds[e][n]
<1>1. cmds[e] \in Seq(Command)
  BY DEF ShardTypes
<1>2. cmds'[e] = IF e = f THEN Append(cmds[e], c) ELSE cmds[e]
  BY DEF ShardTypes, Sends
<1>3. CASE e = f
  <2> DEFINE q == cmds[e]
             p == Append(q, c)
  <2>1. /\ Len(q) \in Nat /\ Len(p) = Len(q) + 1 /\ p[Len(q) + 1] = c
        /\ \A n \in 1..Len(q) : p[n] = q[n]
    BY SMTT(20)
  <2>2. cmds'[e] = p
    BY <1>2, <1>3
  <2> HIDE DEF p, q
  <2>3. \A n \in 1..Len(p) : n \in 1..Len(q) \/ n = Len(q) + 1
    BY <2>1, SMTT(20)
  <2>4. \A n \in 1..Len(q) : n \in 1..Len(p)
    BY <2>1, SMTT(20)
  <2> QED BY <1>2, <2>2, <2>3, <2>4, SMTT(20) DEF q
<1>4. CASE e # f
  BY <1>2, SMTT(20)
<1> QED BY <1>3, <1>4

LEMMA QueuePop ==
  ASSUME ShardTypes, NEW f \in Engines, Pops(f), NEW e \in Engines
  PROVE  /\ cmds'[e] = IF e = f THEN Tail(cmds[e]) ELSE cmds[e]
         /\ 1 \in 1..Len(cmds[f]) /\ Head(cmds[f]) = cmds[f][1]
         /\ Head(cmds[f]) \in Command
         /\ e # f => cmds'[e] = cmds[e]
         /\ e = f => \A n \in 1..Len(cmds'[e]) :
              n + 1 \in 1..Len(cmds[e]) /\ n + 1 # 1 /\ cmds'[e][n] = cmds[e][n + 1]
         /\ Len(cmds'[e]) \in Nat
<1>1. cmds[e] \in Seq(Command) /\ cmds[f] \in Seq(Command)
  BY DEF ShardTypes
<1>2. cmds'[e] = IF e = f THEN Tail(cmds[e]) ELSE cmds[e]
  BY DEF ShardTypes, Pops
<1>3. 1 \in 1..Len(cmds[f]) /\ Head(cmds[f]) = cmds[f][1] /\ Head(cmds[f]) \in Command
  BY <1>1, SMTT(20) DEF Pops
<1>4. ASSUME e = f
      PROVE  /\ Len(Tail(cmds[f])) \in Nat
             /\ \A n \in 1..Len(Tail(cmds[f])) :
                 /\ n + 1 \in 1..Len(cmds[f]) /\ n + 1 # 1
                 /\ Tail(cmds[f])[n] = cmds[f][n + 1]
  BY SMTT(20)
<1>5. Len(cmds[e]) \in Nat
  BY SMTT(20)
<1> QED BY <1>2, <1>3, <1>4, <1>5

(* What is queued after a send and after a pop. *)
LEMMA QueuedChange ==
  ASSUME ShardTypes, NEW f \in Engines
  PROVE  /\ \A c \in Command : Sends(f, c) =>
              \A s \in Queued' : s \in Queued \/ (c.kind = "Submit" /\ c.order = s)
         /\ Pops(f) => Queued' \subseteq Queued
<1>1. Queued' = OrdersIn(cmds') /\ cmds \in [Engines -> Seq(Command)]
  BY DEF Queued, OrdersIn, ShardTypes
<1>2. ASSUME NEW c \in Command, Sends(f, c), NEW s \in Queued',
             ~(c.kind = "Submit" /\ c.order = s)
      PROVE  s \in Queued
  <2>1. cmds' \in [Engines -> Seq(Command)]
    BY <1>1, <1>2, SMTT(20) DEF Sends
  <2>2. PICK e \in Engines : \E n \in 1..Len(cmds'[e]) :
          cmds'[e][n].kind = "Submit" /\ cmds'[e][n].order = s
    BY <1>1, <2>1, OrdersAre
  <2>3. PICK n \in 1..Len(cmds'[e]) : cmds'[e][n].kind = "Submit" /\ cmds'[e][n].order = s
    BY <2>2
  <2>4. n \in 1..Len(cmds[e]) /\ cmds'[e][n] = cmds[e][n]
    BY <1>2, <2>3, QueueSend, SMTT(20)
  <2> QED BY <2>3, <2>4, QueuedIs
<1>3. ASSUME Pops(f), NEW s \in Queued'
      PROVE  s \in Queued
  <2>1. cmds' \in [Engines -> Seq(Command)]
    BY <1>1, <1>3, SMTT(20) DEF Pops
  <2>2. PICK e \in Engines : \E n \in 1..Len(cmds'[e]) :
          cmds'[e][n].kind = "Submit" /\ cmds'[e][n].order = s
    BY <1>1, <2>1, OrdersAre
  <2>3. PICK n \in 1..Len(cmds'[e]) : cmds'[e][n].kind = "Submit" /\ cmds'[e][n].order = s
    BY <2>2
  <2>4. PICK m \in 1..Len(cmds[e]) : cmds'[e][n] = cmds[e][m]
    BY <1>3, QueuePop, SMTT(20)
  <2> QED BY <2>3, <2>4, QueuedIs, SMTT(20)
<1> QED BY <1>2, <1>3

(* What Routed says of the command at one place of a queue. *)
LEMMA CommandBelongs ==
  ASSUME CancelInv, NEW e \in Engines, NEW n \in 1..Len(cmds[e])
  PROVE  /\ Belongs(e, cmds[e][n])
         /\ Home[cmds[e][n].instrument] = e
         /\ cmds[e][n].kind = "Submit" =>
              /\ cmds[e][n].order \in held
              /\ ord[cmds[e][n].order].instrument = cmds[e][n].instrument
BY DEF CancelInv, Routed, Belongs

(* Of two places of a queue, and of a worker. *)
LEMMA OneQueue ==
  ASSUME CancelInv, NEW e \in Engines, NEW m \in 1..Len(cmds[e]), NEW n \in 1..Len(cmds[e]),
         m # n, cmds[e][m].kind = "Submit", cmds[e][n].kind = "Submit"
  PROVE  cmds[e][m].order # cmds[e][n].order
BY DEF CancelInv, Routed

LEMMA TakerHome ==
  ASSUME CancelInv, NEW e \in Engines, taker[e] # None
  PROVE  Home[ord[taker[e]].instrument] = e
BY DEF CancelInv, Routed

(* A command stays in the right queue while its order is the client's. *)
LEMMA StillBelongs ==
  ASSUME NEW e \in Engines, NEW n, NEW c, cmds'[e][n] = c, Belongs(e, c),
         c.kind = "Submit" =>
           c.order \in held' /\ ord'[c.order].instrument = ord[c.order].instrument
  PROVE  Belongs(e, cmds[e][n])'
BY DEF Belongs

(* What Routed asks of a step. *)
LEMMA RoutedNext ==
  ASSUME \A e \in Engines : \A n \in 1..Len(cmds'[e]) : Belongs(e, cmds[e][n])',
         \A e \in Engines : \A m, n \in 1..Len(cmds'[e]) :
           m # n /\ cmds'[e][m].kind = "Submit" /\ cmds'[e][n].kind = "Submit"
             => cmds'[e][m].order # cmds'[e][n].order,
         \A e \in Engines : taker'[e] # None => Home[ord'[taker'[e]].instrument] = e,
         live' = Instruments
  PROVE  Routed'
BY DEF Routed

(* What stays in use keeps its id and its book. *)
LEMMA KeysKept ==
  ASSUME Allocated', NoNewIds
  PROVE  \A s \in InUse' \ {None} :
           /\ s \in InUse \ {None}
           /\ ord'[s].id = ord[s].id /\ ord'[s].instrument = ord[s].instrument
BY DEF Allocated, NoNewIds, IdsKept

(* The client's orders and the takers are in use. *)
LEMMA HeldInUse ==
  ASSUME IInv
  PROVE  /\ held \subseteq InUse \ {None}
         /\ \A e \in Engines : taker[e] # None => taker[e] \in InUse \ {None}
BY MatchingAssumption, Shards DEF InUse, IInv, TypeOK

(* A step that leaves the queues alone keeps them so, too. *)
LEMMA RoutedKept ==
  ASSUME Routed, cmds' = cmds, live' = live,
         \A e \in Engines : \A n \in 1..Len(cmds[e]) : Belongs(e, cmds[e][n])',
         \A e \in Engines : taker'[e] # None => Home[ord'[taker'[e]].instrument] = e
  PROVE  Routed'
BY SMTT(20) DEF Routed

(* A step that leaves the queues and the client's orders alone, and in     *)
(* which no order comes to be handled.                                     *)
LEMMA KeepCancel ==
  ASSUME IInv', Allocated', CancelInv, NoNewIds, UNCHANGED <<cmds, latest, live, held>>,
         \A e \in Engines : taker'[e] # None => taker'[e] = taker[e]
  PROVE  CancelInv'
<1>1. /\ held \subseteq InUse' \ {None}
      /\ \A e \in Engines : taker'[e] # None => taker'[e] \in InUse' \ {None}
  BY MatchingAssumption, Shards DEF InUse, IInv, TypeOK
<1>2. ASSUME NEW e \in Engines, NEW n \in 1..Len(cmds[e]) PROVE Belongs(e, cmds[e][n])'
  <2>1. cmds'[e][n] = cmds[e][n] /\ held' = held
    OBVIOUS
  <2>2. cmds[e][n].kind = "Submit" =>
          ord'[cmds[e][n].order].instrument = ord[cmds[e][n].order].instrument
    BY <1>1, CommandBelongs, KeysKept
  <2> QED BY <2>2, CommandBelongs, StillBelongs
<1>3. \A e \in Engines : taker'[e] # None => Home[ord'[taker'[e]].instrument] = e
  BY <1>1, KeysKept, TakerHome
<1>4. Routed'
  BY <1>2, <1>3, RoutedKept DEF CancelInv
<1>5. ASSUME NEW s \in InUse' \ {None} PROVE Cancelled(s)'
  <2>1. /\ s \in InUse \ {None}
        /\ ord'[s].id = ord[s].id /\ ord'[s].instrument = ord[s].instrument
    BY KeysKept
  <2>2. Cancelled(s) /\ CancelOf(s)' = CancelOf(s) /\ Queued' = Queued
    BY <2>1 DEF CancelInv, CancelOf, Queued
  <2>3. Pends(cmds[Home[ord[s].instrument]], s, CancelOf(s))
          => Pends(cmds[Home[ord[s].instrument]], s, CancelOf(s))'
    <3>1. cmds'[Home[ord'[s].instrument]] = cmds[Home[ord[s].instrument]]
      BY <2>1
    <3> QED BY <2>2, <3>1
  <2> QED BY <2>1, <2>2 DEF Cancelled
<1> QED BY <1>4, <1>5 DEF CancelInv

(* A new order has yet to be submitted. *)
LEMMA AcquireCancel ==
  ASSUME IInv, ShardTypes, Allocated, CancelInv, NEW s \in Slots, NEW e \in NewOrders,
         Acquire(s, e), UNCHANGED shardVars
  PROVE  CancelInv'
<1>1. /\ ord[s] = None /\ held' = held \cup {s} /\ UNCHANGED <<live, taker, cmds, latest>>
      /\ InUse' = InUse \cup {s} /\ Queued' = Queued
      /\ \A r \in Slots : r # s => ord'[r] = ord[r]
  <2>1. /\ ord[s] = None /\ held' = held \cup {s}
        /\ UNCHANGED <<live, taker, cmds, latest, queue>>
    BY DEF Acquire, shardVars, clientVars, callVars, bookVars
  <2>2. InUse' = InUse \cup {s} /\ Queued' = Queued
    BY <2>1 DEF InUse, Resting, Queued
  <2>3. \A r \in Slots : r # s => ord'[r] = ord[r]
    BY TypeParts DEF Acquire, IInv, CallType
  <2> QED BY <2>1, <2>2, <2>3
<1>2. \A r \in InUse \ {None} : r # s /\ ord'[r] = ord[r]
  BY <1>1 DEF Allocated
<1>3. ASSUME NEW f \in Engines, NEW n \in 1..Len(cmds[f]) PROVE Belongs(f, cmds[f][n])'
  <2>1. cmds[f][n].kind = "Submit" =>
          cmds[f][n].order \in InUse \ {None} /\ cmds[f][n].order \in held'
    BY <1>1, CommandBelongs, HeldInUse
  <2>2. cmds'[f][n] = cmds[f][n]
    BY <1>1
  <2>3. cmds[f][n].kind = "Submit" =>
          ord'[cmds[f][n].order].instrument = ord[cmds[f][n].order].instrument
    BY <1>2, <2>1
  <2> QED BY <2>1, <2>2, <2>3, CommandBelongs, StillBelongs, SMTT(20)
<1>4. Routed'
  <2>1. \A f \in Engines : taker[f] # None => Home[ord'[taker[f]].instrument] = f
    BY <1>2, HeldInUse, TakerHome
  <2> QED BY <1>1, <1>3, <2>1, RoutedKept DEF CancelInv
<1>5. s \notin Queued
  <2>1. \A f \in Engines : \A n \in 1..Len(cmds[f]) :
          cmds[f][n].kind = "Submit" => cmds[f][n].order # s
    BY <1>2, HeldInUse, CommandBelongs
  <2> QED BY <2>1, QueuedIs
<1>6. ASSUME NEW r \in InUse \ {None} PROVE Cancelled(r)'
  <2>1. Cancelled(r) /\ ord'[r] = ord[r] /\ CancelOf(r)' = CancelOf(r)
    BY <1>2 DEF CancelInv, CancelOf
  <2>2. Pends(cmds[Home[ord[r].instrument]], r, CancelOf(r))
          => Pends(cmds[Home[ord[r].instrument]], r, CancelOf(r))'
    <3>1. cmds'[Home[ord'[r].instrument]] = cmds[Home[ord[r].instrument]]
      BY <1>1, <2>1
    <3> QED BY <2>1, <3>1
  <2> QED BY <1>1, <2>1 DEF Cancelled
<1>7. Cancelled(s)'
  BY <1>1, <1>5 DEF Cancelled
<1> QED BY <1>1, <1>4, <1>6, <1>7 DEF CancelInv

(* What submit and cancel have in common. *)
LEMMA SendRouted ==
  ASSUME ShardTypes, CancelInv, NEW i \in Instruments, NEW d \in Ids, NEW c \in Command,
         c.instrument = i, Send(i, d, c),
         c.kind = "Submit" => /\ c.order \in held \ Queued
                              /\ ord[c.order].instrument = i
  PROVE  /\ latest' \in [Instruments -> [Ids -> {"none", "Submit", "Cancel"}]]
         /\ latest' = [latest EXCEPT ![i][d] = c.kind]
         /\ Sends(Home[i], c)
         /\ UNCHANGED vars
         /\ Home[i] \in Engines
         /\ Routed'
<1>1. /\ latest' = [latest EXCEPT ![i][d] = c.kind]
      /\ Sends(Home[i], c)
      /\ UNCHANGED <<ord, live, levels, queue, index, before, held, pc, taker, trades>>
      /\ UNCHANGED vars
      /\ Home[i] \in Engines
  BY Shards DEF Send, Sends, shard_for, vars, bookVars, callVars
<1>2. c.kind \in {"Submit", "Cancel"}
  BY DEF Command
<1>3. latest' \in [Instruments -> [Ids -> {"none", "Submit", "Cancel"}]]
  BY <1>1, <1>2 DEF CancelInv
<1>4. ASSUME NEW e \in Engines, NEW n \in 1..Len(cmds'[e]) PROVE Belongs(e, cmds[e][n])'
  <2>1. \/ n \in 1..Len(cmds[e]) /\ cmds'[e][n] = cmds[e][n]
        \/ e = Home[i] /\ n = Len(cmds[e]) + 1 /\ cmds'[e][n] = c
    BY <1>1, QueueSend, SMTT(20)
  <2>2. CASE n \in 1..Len(cmds[e]) /\ cmds'[e][n] = cmds[e][n]
    <3>1. ord' = ord /\ held' = held
      BY <1>1
    <3> QED BY <2>2, <3>1, CommandBelongs, StillBelongs
  <2>3. CASE e = Home[i] /\ cmds'[e][n] = c
    BY <1>1, <2>3 DEF Belongs
  <2> QED BY <2>1, <2>2, <2>3
<1>5. \A e \in Engines : \A m, n \in 1..Len(cmds'[e]) :
        m # n /\ cmds'[e][m].kind = "Submit" /\ cmds'[e][n].kind = "Submit"
          => cmds'[e][m].order # cmds'[e][n].order
  <2> TAKE e \in Engines
  <2> TAKE m, n \in 1..Len(cmds'[e])
  <2>0. HAVE m # n /\ cmds'[e][m].kind = "Submit" /\ cmds'[e][n].kind = "Submit"
  <2>1. \A k \in 1..Len(cmds'[e]) :
          \/ k \in 1..Len(cmds[e]) /\ cmds'[e][k] = cmds[e][k]
          \/ e = Home[i] /\ k = Len(cmds[e]) + 1 /\ cmds'[e][k] = c
    BY <1>1, QueueSend, SMTT(20)
  <2>2. c.kind = "Submit" => \A k \in 1..Len(cmds[e]) :
          cmds[e][k].kind = "Submit" => cmds[e][k].order # c.order
    BY QueuedIs
  <2>3. CASE /\ m \in 1..Len(cmds[e]) /\ cmds'[e][m] = cmds[e][m]
             /\ n \in 1..Len(cmds[e]) /\ cmds'[e][n] = cmds[e][n]
    BY <2>0, <2>3, OneQueue
  <2>4. CASE m \in 1..Len(cmds[e]) /\ cmds'[e][m] = cmds[e][m] /\ cmds'[e][n] = c
    BY <2>0, <2>2, <2>4
  <2>5. CASE n \in 1..Len(cmds[e]) /\ cmds'[e][n] = cmds[e][n] /\ cmds'[e][m] = c
    BY <2>0, <2>2, <2>5
  <2> QED BY <2>0, <2>1, <2>3, <2>4, <2>5
<1>6. Routed'
  <2>1. \A e \in Engines : \A n \in 1..Len(cmds'[e]) : Belongs(e, cmds[e][n])'
    BY <1>4
  <2>2. taker' = taker /\ ord' = ord /\ live' = live
    BY <1>1
  <2>3. \A e \in Engines : taker'[e] # None => Home[ord'[taker'[e]].instrument] = e
    BY <2>2, TakerHome
  <2>4. live' = Instruments
    BY <2>2 DEF CancelInv, Routed
  <2> QED BY <1>5, <2>1, <2>3, <2>4, RoutedNext
<1> QED BY <1>1, <1>3, <1>6

(* submit: the order is queued behind every cancel of its id, so that none *)
(* pends; no other order in use has its id.                                *)
LEMMA SubmitCancel ==
  ASSUME IInv, ShardTypes, Allocated, IdsUnique, CancelInv, NEW s \in Slots, submit(s)
  PROVE  CancelInv'
<1> DEFINE i == ord[s].instrument
           d == ord[s].id
           c == [kind |-> "Submit", instrument |-> i, order |-> s]
<1>1. s \in held \ Queued /\ s \in InUse \ {None}
  BY HeldInUse DEF submit
<1>2. i \in Instruments /\ d \in Ids
  BY <1>1 DEF Allocated, Order
<1>3. c \in Command /\ c.kind = "Submit" /\ c.instrument = i /\ c.order = s
  BY <1>2 DEF Command
<1>4. Send(i, d, c)
  BY DEF submit
<1> HIDE DEF c
<1>5. /\ latest' \in [Instruments -> [Ids -> {"none", "Submit", "Cancel"}]]
      /\ latest' = [latest EXCEPT ![i][d] = "Submit"]
      /\ Sends(Home[i], c)
      /\ UNCHANGED vars
      /\ Home[i] \in Engines
      /\ Routed'
  BY <1>1, <1>2, <1>3, <1>4, SendRouted, SMTT(20)
<1>6. UNCHANGED <<ord, held, InUse>>
  <2>1. UNCHANGED <<ord, held, queue, taker>>
    BY <1>5 DEF vars, callVars, bookVars
  <2> QED BY <2>1 DEF InUse, Resting
<1>7. ASSUME NEW r \in InUse \ {None} PROVE Cancelled(r)'
  <2> DEFINE j == ord[r].instrument
             q == cmds[Home[j]]
  <2>1. j \in Instruments /\ ord[r].id \in Ids /\ Home[j] \in Engines /\ q \in Seq(Command)
    BY Shards DEF Allocated, Order, shard_for, ShardTypes
  <2>2. SUFFICES ASSUME latest'[j][ord[r].id] = "Cancel"
                 PROVE  r \in held \ Queued' \/ Pends(cmds'[Home[j]], r, CancelOf(r))
    BY <1>6 DEF Cancelled, CancelOf
  <2>3. r # s
    BY <1>2, <1>5, <2>2 DEF CancelInv
  <2>4. latest[j][ord[r].id] = "Cancel"
    <3>1. j # i \/ ord[r].id # d
      BY <1>1, <2>3 DEF IdsUnique
    <3> QED BY <1>5, <2>1, <2>2, <3>1 DEF CancelInv
  <2>5. r \in held \ Queued \/ Pends(q, r, CancelOf(r))
    BY <2>4 DEF CancelInv, Cancelled
  <2>6. CASE r \in held \ Queued
    BY <1>3, <1>5, <2>3, <2>6, QueuedChange
  <2>7. CASE Pends(q, r, CancelOf(r))
    <3>1. Pends(Append(q, c), r, CancelOf(r))
      BY <1>3, <2>1, <2>3, <2>7, PendsSend
    <3>2. cmds'[Home[j]] = Append(q, c) \/ cmds'[Home[j]] = q
      BY <1>5, <2>1 DEF ShardTypes, Sends
    <3> QED BY <2>7, <3>1, <3>2
  <2> QED BY <2>5, <2>6, <2>7
<1> QED BY <1>5, <1>6, <1>7 DEF CancelInv

(* cancel: the command pends for the order that has its id; what else was  *)
(* pending still is.                                                       *)
LEMMA SendCancel ==
  ASSUME IInv, ShardTypes, Allocated, CancelInv, NEW i \in Instruments, NEW d \in Ids,
         cancel(i, d)
  PROVE  CancelInv'
<1> DEFINE c == [kind |-> "Cancel", instrument |-> i, id |-> d]
<1>1. /\ c \in Command /\ c.kind = "Cancel" /\ c.instrument = i
      /\ Send(i, d, c)
  BY DEF Command, cancel
<1>2. \A r : ord[r].instrument = i /\ ord[r].id = d => CancelOf(r) = c
  BY DEF CancelOf
<1> HIDE DEF c
<1>3. /\ latest' \in [Instruments -> [Ids -> {"none", "Submit", "Cancel"}]]
      /\ latest' = [latest EXCEPT ![i][d] = "Cancel"]
      /\ Sends(Home[i], c)
      /\ UNCHANGED vars
      /\ Home[i] \in Engines
      /\ Routed'
  BY <1>1, SendRouted, SMTT(20)
<1>4. UNCHANGED <<ord, held, InUse>>
  <2>1. UNCHANGED <<ord, held, queue, taker>>
    BY <1>3 DEF vars, callVars, bookVars
  <2> QED BY <2>1 DEF InUse, Resting
<1>5. ASSUME NEW r \in InUse \ {None} PROVE Cancelled(r)'
  <2> DEFINE j == ord[r].instrument
             q == cmds[Home[j]]
  <2>1. j \in Instruments /\ ord[r].id \in Ids /\ Home[j] \in Engines /\ q \in Seq(Command)
    BY Shards DEF Allocated, Order, shard_for, ShardTypes
  <2>2. SUFFICES ASSUME latest'[j][ord[r].id] = "Cancel"
                 PROVE  r \in held \ Queued' \/ Pends(cmds'[Home[j]], r, CancelOf(r))
    BY <1>4 DEF Cancelled, CancelOf
  <2>3. CASE j = i /\ ord[r].id = d
    <3>1. cmds'[Home[j]] = Append(q, c)
      BY <1>3, <2>3 DEF ShardTypes, Sends
    <3>2. Pends(Append(q, c), r, c)
      BY <1>1, <2>1, PendsSend
    <3> QED BY <1>2, <2>3, <3>1, <3>2
  <2>4. CASE ~(j = i /\ ord[r].id = d)
    <3>1. latest[j][ord[r].id] = "Cancel"
      BY <1>3, <2>1, <2>2, <2>4 DEF CancelInv
    <3>2. r \in held \ Queued \/ Pends(q, r, CancelOf(r))
      BY <3>1 DEF CancelInv, Cancelled
    <3>3. r \in held \ Queued => r \in held \ Queued'
      BY <1>1, <1>3, QueuedChange
    <3>4. Pends(q, r, CancelOf(r)) => Pends(Append(q, c), r, CancelOf(r))
      BY <1>1, <2>1, PendsSend
    <3>5. cmds'[Home[j]] = Append(q, c) \/ cmds'[Home[j]] = q
      BY <1>3, <2>1 DEF ShardTypes, Sends
    <3> QED BY <3>2, <3>3, <3>4, <3>5
  <2> QED BY <2>3, <2>4
<1> QED BY <1>3, <1>4, <1>5 DEF CancelInv

(* The commands behind the first stay where they belong, whatever the      *)
(* worker does with the first.                                             *)
LEMMA PopRouted ==
  ASSUME ShardTypes, IInv', Allocated', CancelInv, NoNewIds, NEW f \in Engines,
         Pops(f), UNCHANGED live,
         \A s \in held \ held' : Head(cmds[f]).kind = "Submit" /\ Head(cmds[f]).order = s,
         \A e \in Engines : taker'[e] # None =>
           \/ taker'[e] = taker[e]
           \/ e = f /\ Head(cmds[f]).kind = "Submit" /\ Head(cmds[f]).order = taker'[e]
  PROVE  Routed'
<1> DEFINE h == Head(cmds[f])
<1>1. h = cmds[f][1] /\ 1 \in 1..Len(cmds[f]) /\ Belongs(f, h)
  <2>1. h = cmds[f][1] /\ 1 \in 1..Len(cmds[f])
    BY QueuePop
  <2> QED BY <2>1, CommandBelongs
<1> HIDE DEF h
<1>2. /\ held' \subseteq InUse' \ {None}
      /\ \A e \in Engines : taker'[e] # None => taker'[e] \in InUse' \ {None}
  BY MatchingAssumption, Shards DEF InUse, IInv, TypeOK
<1>3. ASSUME NEW e \in Engines, NEW n \in 1..Len(cmds'[e])
      PROVE  \E m \in 1..Len(cmds[e]) : cmds'[e][n] = cmds[e][m] /\ (e = f => m # 1)
  <2>1. CASE e = f
    <3>1. n + 1 \in 1..Len(cmds[e]) /\ n + 1 # 1 /\ cmds'[e][n] = cmds[e][n + 1]
      BY <2>1, QueuePop, SMTT(20)
    <3> QED BY <3>1
  <2>2. CASE e # f
    BY QueuePop, SMTT(20)
  <2> QED BY <2>1, <2>2
<1>4. ASSUME NEW e \in Engines, NEW n \in 1..Len(cmds'[e]) PROVE Belongs(e, cmds[e][n])'
  <2>1. PICK m \in 1..Len(cmds[e]) : cmds'[e][n] = cmds[e][m] /\ (e = f => m # 1)
    BY <1>3
  <2> DEFINE c == cmds[e][m]
  <2>2. Belongs(e, c)
    BY CommandBelongs
  <2>3. ASSUME c.kind = "Submit" PROVE c.order \in held' /\ ord'[c.order].instrument = c.instrument
    <3>1. h.kind = "Submit" => c.order # h.order
      <4>1. CASE e = f
        BY <1>1, <2>1, <2>3, <4>1, OneQueue, SMTT(20)
      <4>2. CASE e # f
        BY <1>1, <2>2, <2>3, <4>2 DEF Belongs
      <4> QED BY <4>1, <4>2
    <3>2. c.order \in held'
      BY <2>2, <2>3, <3>1 DEF Belongs, h
    <3> QED BY <1>2, <2>2, <2>3, <3>2, KeysKept DEF Belongs
  <2> QED BY <2>1, <2>2, <2>3 DEF Belongs
<1>5. \A e \in Engines : \A m, n \in 1..Len(cmds'[e]) :
        m # n /\ cmds'[e][m].kind = "Submit" /\ cmds'[e][n].kind = "Submit"
          => cmds'[e][m].order # cmds'[e][n].order
  <2> TAKE e \in Engines
  <2> TAKE m, n \in 1..Len(cmds'[e])
  <2>0. HAVE m # n /\ cmds'[e][m].kind = "Submit" /\ cmds'[e][n].kind = "Submit"
  <2>1. CASE e = f
    <3>1. \A k \in 1..Len(cmds'[e]) :
            k + 1 \in 1..Len(cmds[e]) /\ cmds'[e][k] = cmds[e][k + 1]
      BY <2>1, QueuePop, SMTT(20)
    <3>2. PICK k \in 1..Len(cmds[e]) : k = m + 1 /\ cmds'[e][m] = cmds[e][k]
      BY <3>1
    <3>3. PICK l \in 1..Len(cmds[e]) : l = n + 1 /\ cmds'[e][n] = cmds[e][l]
      BY <3>1
    <3>4. k # l
      BY <2>0, <3>2, <3>3, SMTT(20)
    <3> QED BY <2>0, <3>2, <3>3, <3>4, OneQueue, SMTT(20)
  <2>2. CASE e # f
    <3>1. cmds'[e] = cmds[e]
      BY <2>2, QueuePop, SMTT(20)
    <3>2. /\ m \in 1..Len(cmds[e]) /\ n \in 1..Len(cmds[e]) /\ m # n
          /\ cmds[e][m].kind = "Submit" /\ cmds[e][n].kind = "Submit"
      BY <2>0, <3>1
    <3>3. cmds[e][m].order # cmds[e][n].order
      BY <3>2, OneQueue, SMTT(20)
    <3> QED BY <3>1, <3>3
  <2> QED BY <2>1, <2>2
<1>6. ASSUME NEW e \in Engines, taker'[e] # None PROVE Home[ord'[taker'[e]].instrument] = e
  <2>1. ord'[taker'[e]].instrument = ord[taker'[e]].instrument
    BY <1>2, <1>6, KeysKept
  <2>2. CASE taker'[e] = taker[e]
    BY <1>6, <2>1, <2>2, TakerHome
  <2>3. CASE e = f /\ h.kind = "Submit" /\ h.order = taker'[e]
    BY <1>1, <2>1, <2>3 DEF Belongs
  <2> QED BY <1>6, <2>2, <2>3 DEF h
<1>7. live' = Instruments
  BY DEF CancelInv, Routed
<1>8. \A e \in Engines : \A n \in 1..Len(cmds'[e]) : Belongs(e, cmds[e][n])'
  BY <1>4
<1>9. \A e \in Engines : taker'[e] # None => Home[ord'[taker'[e]].instrument] = e
  BY <1>6
<1> QED BY <1>5, <1>7, <1>8, <1>9, RoutedNext

(* The worker starts to handle an order; the cancel that pends for another *)
(* order is behind it.                                                     *)
LEMMA PopSubmitCancel ==
  ASSUME IInv, IInv', ShardTypes, Allocated, Allocated', CancelInv, NoNewIds,
         NEW f \in Engines, PopSubmit(f)
  PROVE  CancelInv'
<1> DEFINE h == Head(cmds[f])
<1>1. /\ Pops(f) /\ cmds[f] # <<>>
      /\ UNCHANGED <<latest, live>>
      /\ h.kind = "Submit" /\ held' = held \ {h.order}
      /\ taker' = [taker EXCEPT ![f] = h.order]
  BY DEF PopSubmit, Pop, Pops, Submit, clientVars
<1>2. h.order \in Queued
  <2>1. h = cmds[f][1] /\ 1 \in 1..Len(cmds[f])
    BY <1>1, SMTT(20)
  <2> QED BY <1>1, QueuedIs, SMTT(20)
<1> HIDE DEF h
<1>3. Routed'
  <2>1. \A e \in Engines : taker'[e] # None =>
          taker'[e] = taker[e] \/ (e = f /\ h.order = taker'[e])
    BY <1>1, Shards, SMTT(20) DEF IInv, TypeOK
  <2> QED BY <1>1, <2>1, PopRouted DEF h
<1>4. ASSUME NEW r \in InUse' \ {None} PROVE Cancelled(r)'
  <2> DEFINE j == ord[r].instrument
             q == cmds[Home[j]]
  <2>1. /\ r \in InUse \ {None}
        /\ ord'[r].id = ord[r].id /\ ord'[r].instrument = j
        /\ CancelOf(r)' = CancelOf(r)
    BY KeysKept, SMTT(20) DEF CancelOf
  <2>2. j \in Instruments /\ Home[j] \in Engines /\ q \in Seq(Command)
    BY <2>1, Shards DEF Allocated, Order, shard_for, ShardTypes
  <2>3. SUFFICES ASSUME latest[j][ord[r].id] = "Cancel"
                 PROVE  r \in held' \ Queued' \/ Pends(cmds'[Home[j]], r, CancelOf(r))
    BY <1>1, <2>1, SMTT(20) DEF Cancelled
  <2>4. r \in held \ Queued \/ Pends(q, r, CancelOf(r))
    BY <2>1, <2>3, SMTT(20) DEF CancelInv, Cancelled
  <2>5. r \in held \ Queued => r \in held' \ Queued'
    BY <1>1, <1>2, QueuedChange
  <2>6. CASE Pends(q, r, CancelOf(r)) /\ Home[j] = f
    <3>1. h # CancelOf(r)
      BY <1>1, SMTT(20) DEF CancelOf
    <3>2. Pends(Tail(q), r, CancelOf(r))
      BY <1>1, <2>2, <2>6, <3>1, PendsPop DEF h
    <3>3. cmds'[Home[j]] = Tail(q)
      BY <1>1, <2>6, QueuePop
    <3> QED BY <3>2, <3>3
  <2>7. CASE Pends(q, r, CancelOf(r)) /\ Home[j] # f
    <3>1. cmds'[Home[j]] = q
      BY <1>1, <2>2, <2>7, QueuePop
    <3> QED BY <2>7, <3>1
  <2> QED BY <2>4, <2>5, <2>6, <2>7
<1> QED BY <1>1, <1>3, <1>4 DEF CancelInv

(* A cancel that is handled leaves no order of its id in use, but one the  *)
(* client has yet to submit.                                               *)
LEMMA PopCancelCancel ==
  ASSUME ShardInv, IInv', Allocated, Allocated', IdInv, CancelInv, NoNewIds,
         NEW f \in Engines, PopCancel(f)
  PROVE  CancelInv'
<1> DEFINE h == Head(cmds[f])
<1>1. /\ Pops(f) /\ cmds[f] # <<>>
      /\ UNCHANGED latest /\ h.kind = "Cancel" /\ ~busy[f]
      /\ \/ Finds(f, h.instrument, h.id) /\ Cancel(f, h.instrument, h.id)
         \/ ~Finds(f, h.instrument, h.id) /\ UNCHANGED vars
  BY DEF PopCancel, Pop, Pops, clientVars
<1>2. h \in Command /\ ShardTypes
  BY <1>1, QueuePop DEF ShardInv, QueueInv
<1> HIDE DEF h
<1>3. UNCHANGED <<live, held, taker>>
  BY <1>1 DEF Cancel, callVars, vars
<1>4. Routed'
  BY <1>1, <1>2, <1>3, PopRouted DEF h
<1>5. taker[f] = None
  BY <1>1, Shards DEF ShardInv, QueueInv, WorkerInv, IInv, CallInv
<1>6. ASSUME NEW r \in InUse' \ {None}, h = CancelOf(r) PROVE r \in held
  <2>1. /\ r \in InUse \ {None} /\ r \in Slots /\ ord'[r] # None
        /\ h.instrument = ord[r].instrument /\ h.id = ord[r].id
    BY <1>6, KeysKept DEF CancelOf, Allocated
  <2>2. h.instrument \in Instruments /\ h.id \in Ids
    BY <1>1, <1>2 DEF Command
  <2>3. Home[h.instrument] = f
    <3>1. h = cmds[f][1] /\ 1 \in 1..Len(cmds[f])
      BY <1>1, SMTT(20) DEF h
    <3> QED BY <3>1, CommandBelongs
  <2>4. \A e \in Engines : taker[e] # r
    BY <1>5, <2>1, <2>3, TakerHome
  <2>5. CASE Finds(f, h.instrument, h.id) /\ Cancel(f, h.instrument, h.id)
    <3> DEFINE s == index[h.instrument][h.id]
    <3>0. s # None
      BY <2>5 DEF Finds
    <3>1. ord' = [ord EXCEPT ![s] = None]
      BY <2>5 DEF Cancel
    <3>2. s \in Resting /\ ord[s].id = h.id /\ ord[s].instrument = h.instrument
      <4>1. IndexExact
        BY IdsExact DEF ShardInv
      <4> QED BY <2>2, <3>0, <4>1, FoundIs
    <3> HIDE DEF s
    <3>3. r = s
      <4>1. s \in InUse \ {None}
        BY <3>0, <3>2 DEF InUse
      <4> QED BY <2>1, <3>2, <4>1 DEF IdInv, IdsUnique
    <3> QED BY <2>1, <3>1, <3>3, TypeParts DEF ShardInv, IInv, CallType
  <2>6. CASE ~Finds(f, h.instrument, h.id)
    <3>1. index[h.instrument][h.id] = None
      BY <2>2, <2>3, <2>6 DEF Finds, CancelInv, Routed
    <3>2. r \notin Resting
      BY <2>1, <3>1 DEF IdInv, Indexed
    <3> QED BY <2>1, <2>4, <3>2, Shards DEF InUse
  <2> QED BY <1>1, <2>5, <2>6
<1>7. ASSUME NEW r \in InUse' \ {None} PROVE Cancelled(r)'
  <2> DEFINE j == ord[r].instrument
             q == cmds[Home[j]]
  <2>1. /\ r \in InUse \ {None}
        /\ ord'[r].id = ord[r].id /\ ord'[r].instrument = j
        /\ CancelOf(r)' = CancelOf(r)
    BY KeysKept DEF CancelOf
  <2>2. j \in Instruments /\ Home[j] \in Engines /\ q \in Seq(Command)
    BY <1>2, <2>1, Shards DEF Allocated, Order, shard_for, ShardTypes
  <2>3. SUFFICES ASSUME latest[j][ord[r].id] = "Cancel"
                 PROVE  r \in held' \ Queued' \/ Pends(cmds'[Home[j]], r, CancelOf(r))
    BY <1>1, <2>1 DEF Cancelled
  <2>4. r \in held \ Queued \/ Pends(q, r, CancelOf(r))
    BY <2>1, <2>3 DEF CancelInv, Cancelled
  <2>5. Queued' \subseteq Queued
    BY <1>1, <1>2, QueuedChange
  <2>6. CASE Pends(q, r, CancelOf(r)) /\ Home[j] = f
    <3>1. cmds'[Home[j]] = Tail(q)
      BY <1>1, <1>2, <2>6, QueuePop
    <3>2. \/ Pends(Tail(q), r, CancelOf(r))
          \/ /\ h = CancelOf(r)
             /\ \A m \in 1..Len(q) : q[m].kind = "Submit" => q[m].order # r
      BY <1>1, <2>2, <2>6, PendsPop DEF h
    <3>3. ASSUME h = CancelOf(r), \A m \in 1..Len(q) : q[m].kind = "Submit" => q[m].order # r
          PROVE  r \in held \ Queued
      <4>1. ASSUME NEW e \in Engines, NEW n \in 1..Len(cmds[e]), cmds[e][n].kind = "Submit"
            PROVE  cmds[e][n].order # r
        <5>1. cmds[e][n].order = r => e = Home[j]
          BY <4>1, CommandBelongs, SMTT(20)
        <5> QED BY <3>3, <4>1, <5>1
      <4> QED BY <1>2, <1>6, <3>3, <4>1, QueuedIs
    <3> QED BY <1>3, <2>5, <3>1, <3>2, <3>3
  <2>7. CASE Pends(q, r, CancelOf(r)) /\ Home[j] # f
    <3>1. cmds'[Home[j]] = q
      BY <1>1, <1>2, <2>2, <2>7, QueuePop
    <3> QED BY <2>7, <3>1
  <2> QED BY <1>3, <2>4, <2>5, <2>6, <2>7
<1> QED BY <1>1, <1>4, <1>7 DEF CancelInv

(* Every step of the client and of the workers keeps the cancels in line. *)
LEMMA NextCancelInv ==
  ASSUME FreshIds, ShardInv, IInv', Allocated, Allocated', IdInv, CancelInv,
         [ShardNext]_allVars
  PROVE  CancelInv'
<1>1. ShardTypes /\ IInv
  BY DEF ShardInv, QueueInv
<1>2. ASSUME UNCHANGED <<vars, cmds, latest>> PROVE CancelInv'
  <2>1. UNCHANGED <<ord, held, live, taker, InUse>>
    BY <1>2 DEF vars, bookVars, callVars, InUse, Resting
  <2>2. NoNewIds
    BY <2>1 DEF NoNewIds, IdsKept
  <2> QED BY <1>2, <2>1, <2>2, KeepCancel
<1>3. ASSUME NEW s \in Slots, NEW e \in NewOrders, acquire_order(s, e) PROVE CancelInv'
  BY <1>1, <1>3, AcquireCancel DEF acquire_order
<1>4. ASSUME NEW e \in NewOrders, cancel(e.instrument, e.id) PROVE CancelInv'
  BY <1>1, <1>4, Shards, SendCancel
<1>5. ASSUME NEW f \in Engines, PopSubmit(f) PROVE CancelInv'
  <2>1. PICK s : Submit(f, s)
    BY <1>5 DEF PopSubmit
  <2>2. s \in Slots
    BY <1>1, <2>1 DEF Submit, IInv, TypeOK
  <2>3. NoNewIds
    BY <1>1, <2>1, <2>2, CallIds, Shards
  <2> QED BY <1>1, <1>5, <2>3, PopSubmitCancel
<1>6. ASSUME NEW f \in Engines, PopCancel(f) PROVE CancelInv'
  <2> DEFINE h == Head(cmds[f])
  <2>1. \/ Cancel(f, h.instrument, h.id) \/ UNCHANGED vars
    BY <1>6 DEF PopCancel
  <2>2. h.instrument \in Instruments /\ h.id \in Ids
    <3>1. h \in Command /\ h.kind = "Cancel"
      BY <1>1, <1>6, SMTT(20) DEF PopCancel, Pop, ShardTypes
    <3> QED BY <3>1 DEF Command
  <2> HIDE DEF h
  <2>3. NoNewIds
    <3>1. UNCHANGED vars => NoNewIds
      BY DEF vars, bookVars, callVars, InUse, Resting, NoNewIds, IdsKept
    <3> QED BY <1>1, <2>1, <2>2, <3>1, CallIds, Shards
  <2> QED BY <1>6, <2>3, PopCancelCancel
<1>7. ASSUME NEW f \in Engines, HandleSubmit(f) PROVE CancelInv'
  <2>1. Trade(f) \/ StopMatching(f) \/ Settle(f) \/ Return(f)
    BY <1>7 DEF HandleSubmit
  <2>2. NoNewIds
    BY <1>1, <2>1, CallIds, Shards
  <2>3. UNCHANGED <<cmds, latest>>
    BY <1>7 DEF HandleSubmit, shardVars, clientVars
  <2>4. UNCHANGED <<live, held>>
    BY <2>1 DEF Trade, StopMatching, Settle, Return
  <2>5. \A e \in Engines : taker'[e] # None => taker'[e] = taker[e]
    <3>1. UNCHANGED taker \/ taker' = [taker EXCEPT ![f] = None]
      BY <2>1 DEF Trade, StopMatching, Settle, Return
    <3> QED BY <3>1, Shards DEF IInv, TypeOK
  <2> QED BY <2>2, <2>3, <2>4, <2>5, KeepCancel
<1>8. CountSubmitted \/ WaitIdle \/ WaitReturn \/ Destroy \/ JoinAll
        => UNCHANGED <<vars, cmds, latest>>
  BY DEF CountSubmitted, WaitIdle, WaitReturn, Destroy, JoinAll
<1>9. \A e \in Engines : CountProcessed(e) \/ SeeStop(e) \/ Exit(e) \/ CheckShard(e)
        \/ StopShard(e) => UNCHANGED <<vars, cmds, latest>>
  BY DEF CountProcessed, SeeStop, Exit, CheckShard, StopShard, clientVars
<1>10. UNCHANGED allVars => UNCHANGED <<vars, cmds, latest>>
  BY DEF allVars, shardVars, clientVars
<1>11. \A s \in Slots : submit(s) => CancelInv'
  BY <1>1, SubmitCancel DEF IdInv
<1> QED BY <1>2, <1>3, <1>4, <1>5, <1>6, <1>7, <1>8, <1>9, <1>10, <1>11 DEF ShardNext

(* As long as no id is used again while an order with it is in use, a      *)
(* cancel takes effect: once wait_idle has returned, an id whose last      *)
(* command was a cancel rests in no book, although client and workers run  *)
(* at their own pace.                                                      *)
THEOREM CancelsTakeEffect ==
  ASSUME FreshIds PROVE ShardSpec => []CancelledIsGone
<1>1. ShardInit => IdInv /\ CancelInv
  <2> SUFFICES ASSUME ShardInit PROVE IdInv /\ CancelInv
    OBVIOUS
  <2>1. Init
    BY DEF ShardInit
  <2>2. InUse \ {None} = {} /\ Resting = {} /\ live = Instruments /\ taker = [e \in Engines |-> None]
    BY <2>1, Shards, SMTT(20) DEF Init, InUse, Resting, Range
  <2>3. IdInv
    BY <2>2 DEF IdInv, IdsUnique, Indexed
  <2>4. Routed
    <3>1. \A e \in Engines : cmds[e] = <<>> /\ 1..Len(cmds[e]) = {}
      BY SMTT(20) DEF ShardInit
    <3> QED BY <2>2, <3>1 DEF Routed
  <2> QED BY <2>2, <2>3, <2>4 DEF ShardInit, CancelInv
<1>2. ShardInv /\ ShardInv' /\ IdInv /\ CancelInv /\ [ShardNext]_allVars => IdInv' /\ CancelInv'
  <2> SUFFICES ASSUME ShardInv, ShardInv', IdInv, CancelInv, [ShardNext]_allVars
               PROVE  IdInv' /\ CancelInv'
    OBVIOUS
  <2>1. IInv /\ IInv' /\ ShardTypes
    BY DEF ShardInv, QueueInv
  <2>2. Allocated
    BY <2>1, InUseAllocated
  <2>3. Allocated'
    BY <2>1, InUseAllocated, PTL
  <2>4. [Next]_vars
    BY <2>1, StepIsMatching
  <2> QED BY <2>1, <2>2, <2>3, <2>4, NextIds, NextCancelInv
<1>3. ShardInv /\ CancelInv => CancelledIsGone
  <2> SUFFICES ASSUME ShardInv, CancelInv, client = "idle", NEW s \in Resting,
                      latest[ord[s].instrument][ord[s].id] = "Cancel"
               PROVE  FALSE
    BY DEF CancelledIsGone
  <2>1. s \in InUse \ {None} /\ ord[s].instrument \in Instruments /\ s \notin held
    <3>1. Allocated /\ CallInv
      BY InUseAllocated DEF ShardInv, IInv
    <3> QED BY <3>1, MatchingAssumption, SMTT(20) DEF Allocated, InUse, Order, CallInv
  <2>2. cmds[Home[ord[s].instrument]] = <<>>
    BY <2>1, Shards DEF shard_for, ShardInv, QueueInv, ClientInv, Done
  <2>3. ~Pends(cmds[Home[ord[s].instrument]], s, CancelOf(s))
    BY <2>2, SMTT(20) DEF Pends
  <2> QED BY <2>1, <2>3 DEF CancelInv, Cancelled
<1> QED BY <1>1, <1>2, <1>3, ShardInvariance, PTL DEF ShardSpec
=============================================================================
