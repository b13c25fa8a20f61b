------------------------------- MODULE Gateway ------------------------------
(***************************************************************************)
(* The gateway from end to end: Client, the bytes in both directions, the  *)
(* session's Framer, Dispatcher and the engine of Matching.                *)
(*                                                                         *)
(* The sessions take turns, as the single-threaded Engine requires of its  *)
(* callers: one thread pumps, and another connection is served when the    *)
(* pump has ended.  Sockets and threads are the matter of Server.          *)
(***************************************************************************)
EXTENDS Matching, Framer

CONSTANTS
  Clients,    \* the clients, each with its connection and session
  Scenarios,  \* what the clients may send: a sequence of messages for each
  Cuts,       \* bound: where recv may cut a stream, besides at its end
  Pumper      \* the one thread that calls the engine

ASSUME GatewayAssumption == Threads = {Pumper} /\ None \notin Clients

VARIABLES
  up,         \* the bytes each client has sent and recv has not returned
  down,       \* the bytes sent to each client it has not received
  inbound,    \* Session::inbound_
  state,      \* Session::state_
  outbound,   \* Session::outbound_
  out_seq,    \* Session::out_seq_
  open,       \* session_loop has not ended
  pumping,    \* the client whose session is being pumped
  request,    \* <<m>>: the NewOrder message Dispatcher has in hand
  framer,     \* Client::framer_
  sent,       \* history: the messages each client has sent
  handled,    \* history: the messages each session has handled
  replied,    \* history: the messages each session has emitted
  taken,      \* history: how many of them were handed to send_all
  received    \* history: the messages Client::recv has returned

engineVars  == vars
sessionVars == <<inbound, state, outbound, out_seq, open, handled, replied, taken>>
clientVars  == <<framer, sent, received>>
gatewayVars == <<engineVars, sessionVars, clientVars, up, down, pumping, request>>

GatewayInit ==
  /\ Init
  /\ up = [c \in Clients |-> <<>>]
  /\ down = [c \in Clients |-> <<>>]
  /\ inbound = [c \in Clients |-> NewFramer]
  /\ state = [c \in Clients |-> "NotLoggedOn"]
  /\ outbound = [c \in Clients |-> <<>>]
  /\ out_seq = [c \in Clients |-> 0]
  /\ open = [c \in Clients |-> TRUE]
  /\ pumping = None
  /\ request = <<>>
  /\ framer = [c \in Clients |-> NewFramer]
  /\ sent = [c \in Clients |-> <<>>]
  /\ handled = [c \in Clients |-> <<>>]
  /\ replied = [c \in Clients |-> <<>>]
  /\ taken = [c \in Clients |-> 0]
  /\ received = [c \in Clients |-> <<>>]

-----------------------------------------------------------------------------
(* Client *)

(* Client::send, or another program that puts the bytes of its own frame   *)
(* on the wire: a scenario may hold [type |-> "Frame", bytes |-> ...].     *)
Send(c, m) ==
  /\ sent' = [sent EXCEPT ![c] = Append(@, m)]
  /\ \E s \in Scenarios : \A b \in Clients : IsPrefix(sent'[b], s[b])
  /\ up' = [up EXCEPT ![c] = @ \o IF m.type = "Frame" THEN m.bytes
                                  ELSE encode(Len(sent[c]) + 1, m)]
  /\ UNCHANGED <<engineVars, sessionVars, down, pumping, request, framer, received>>

(* How many bytes recv_some may return of those that have come. *)
Chunks(bytes) == {n \in Cuts : n < Len(bytes)} \cup {Len(bytes)}

(* Client::recv: a message that is buffered is returned.  Otherwise the    *)
(* framer is fed with some of the bytes that have come, and recv returns   *)
(* the first message they complete, or goes on to receive.                 *)
Receive(c) ==
  LET buffered == next(framer[c])
      Take(n, result) ==
        /\ down' = [down EXCEPT ![c] = SubSeq(@, n + 1, Len(@))]
        /\ framer' = [framer EXCEPT ![c] = result.framer]
        /\ received' = IF result.message = NoMessage THEN received
                       ELSE [received EXCEPT ![c] = Append(@, result.message)]
  IN \/ buffered.message # NoMessage /\ Take(0, buffered)
     \/ /\ buffered.message = NoMessage
        /\ buffered.framer.error = "None"
        /\ down[c] # <<>>
        /\ \E n \in Chunks(down[c]) :
             Take(n, next(feed(buffered.framer, SubSeq(down[c], 1, n))))
  /\ UNCHANGED <<engineVars, sessionVars, up, pumping, request, sent>>

-----------------------------------------------------------------------------
(* Session and Dispatcher *)

(* recv_some and on_bytes.  As a bound, the rest of a message that was cut *)
(* comes in with all that follows it.                                      *)
Recv(c) ==
  /\ pumping = None
  /\ open[c]
  /\ up[c] # <<>>
  /\ \E n \in Chunks(up[c]) :
       /\ inbound[c].buf = <<>> \/ n = Len(up[c])
       /\ up' = [up EXCEPT ![c] = SubSeq(@, n + 1, Len(@))]
       /\ inbound' = [inbound EXCEPT ![c] = feed(@, SubSeq(up[c], 1, n))]
  /\ IF inbound[c].error = "None" THEN pumping' = c /\ UNCHANGED open
     ELSE open' = [open EXCEPT ![c] = FALSE] /\ UNCHANGED pumping
  /\ UNCHANGED <<engineVars, clientVars, down, request, state, outbound, out_seq, handled,
                 replied, taken>>

(* Session::emit for each of the bodies, each with a number of its own. *)
emit(c, bodies) ==
  /\ outbound' = [outbound EXCEPT ![c] =
       @ \o FlattenSeq([n \in 1..Len(bodies) |-> encode(out_seq[c] + n, bodies[n])])]
  /\ replied' = [replied EXCEPT ![c] =
       @ \o [n \in 1..Len(bodies) |->
               [to |-> Len(handled[c]) + 1, sequence |-> out_seq[c] + n, body |-> bodies[n]]]]
  /\ out_seq' = [out_seq EXCEPT ![c] = @ + Len(bodies)]

Reject(m, reason) ==
  [type |-> "OrderReject", client_order_id |-> m.client_order_id,
   reason |-> RejectReason[reason]]

(* The casts of handle_new_order.  A byte that names no enumerator keeps   *)
(* its own value: it compares unequal to every enumerator, and a side that *)
(* is not Buy goes the way of Sell.                                        *)
Cast(names, code) == IF code < Len(names) THEN names[code + 1] ELSE "Other"

OrderOf(m) ==
  [id |-> m.client_order_id, instrument |-> m.instrument_id,
   side |-> IF m.side = 0 THEN "Buy" ELSE "Sell",
   type |-> Cast(<<"Limit", "Market">>, m.order_type),
   tif |-> Cast(<<"GTC", "IOC", "FOK", "Day">>, m.tif),
   limit_price |-> m.price, initial_qty |-> m.quantity]

(* What a message on the wire says, or NoMessage if it is malformed. *)
Meaning(m) == IF m.type = "Frame" THEN m.means ELSE m

(* What the clients may send stays within the orders, ids and instruments  *)
(* of Matching, and the bytes that are cast are unsigned.                  *)
Messages(c) == UNION {Range(s[c]) : s \in Scenarios}

InRange(m) ==
  /\ m.type = "NewOrder" =>
       OrderOf(m) \in NewOrders /\ m.side \in Nat /\ m.order_type \in Nat /\ m.tif \in Nat
  /\ m.type = "CancelOrder" => m.instrument_id \in Instruments /\ m.client_order_id \in Ids

ASSUME MessagesAssumption ==
  \A c \in Clients : \A m \in Messages(c) : Meaning(m) # NoMessage => InRange(Meaning(m))

(* Engine::book is not null. *)
book(i) == i \in live /\ Home[i] = EngineOf[Pumper]

\* Mutant: the code of IOC is taken for that of FOK.
classify_ioc(m) ==
  IF ~book(m.instrument_id) THEN "UnknownInstrument"
  ELSE IF m.quantity = 0 THEN "InvalidQuantity"
  ELSE IF m.order_type = 0 /\ m.price <= 0 THEN "InvalidPrice"
  ELSE IF m.order_type = 1 /\ m.tif \in {0, 3} THEN "InvalidTif"
  ELSE IF m.tif = 1 THEN "InsufficientLiquidity"
  ELSE "Unknown"

(* The dispatcher works the reason out again after the engine's refusal.   *)
classify(m) ==
  IF ~book(m.instrument_id) THEN "UnknownInstrument"
  ELSE IF m.quantity = 0 THEN "InvalidQuantity"
  ELSE IF m.order_type = 0 /\ m.price <= 0 THEN "InvalidPrice"
  ELSE IF m.order_type = 1 /\ m.tif \in {0, 3} THEN "InvalidTif"
  ELSE IF m.tif = 2 THEN "InsufficientLiquidity"
  ELSE "Unknown"

StatusCode == [New |-> 0, PartiallyFilled |-> 1, Filled |-> 2, Cancelled |-> 3, Rejected |-> 4]

-----------------------------------------------------------------------------
handle_logon(c, m) ==
  IF state[c] = "NotLoggedOn"
  THEN state' = [state EXCEPT ![c] = "Active"] /\ emit(c, <<m>>)
  ELSE UNCHANGED <<state, outbound, out_seq, replied>>

handle_logout(c) ==
  /\ state' = [state EXCEPT ![c] = "Closing"]
  /\ emit(c, << [type |-> "Logout"] >>)

handle_heartbeat(c) == emit(c, << [type |-> "Heartbeat"] >>) /\ UNCHANGED state

\* Mutant: the state of the session is not looked at.
handle_cancel_any(c, m) ==
  /\ \/ /\ Cancel(Pumper, m.instrument_id, m.client_order_id)
        /\ emit(c, << [type |-> "Cancelled", client_order_id |-> m.client_order_id] >>)
     \/ /\ ~Finds(EngineOf[Pumper], m.instrument_id, m.client_order_id)
        /\ emit(c, <<Reject(m, "Unknown")>>)
        /\ UNCHANGED engineVars
  /\ UNCHANGED state

handle_cancel(c, m) ==
  /\ IF state[c] # "Active"
     THEN emit(c, <<Reject(m, "NotLoggedOn")>>) /\ UNCHANGED engineVars
     ELSE \/ /\ Cancel(Pumper, m.instrument_id, m.client_order_id)
             /\ emit(c, << [type |-> "Cancelled", client_order_id |-> m.client_order_id] >>)
          \/ /\ ~Finds(EngineOf[Pumper], m.instrument_id, m.client_order_id)
             /\ emit(c, <<Reject(m, "Unknown")>>)
             /\ UNCHANGED engineVars
  /\ UNCHANGED state

(* handle_new_order when the engine is not asked: outside a session, or    *)
(* because acquire_order finds the pool empty.                             *)
refuse_new_order(c, m) ==
  /\ \/ state[c] # "Active" /\ emit(c, <<Reject(m, "NotLoggedOn")>>)
     \/ /\ state[c] = "Active"
        /\ \A s \in Slots : ord[s] # None
        /\ emit(c, <<Reject(m, "Unknown")>>)
  /\ UNCHANGED state

(* One iteration of pump that handles its message at once. *)
PumpMessage(c) ==
  /\ pumping = c
  /\ request = <<>>
  /\ next(inbound[c]).message # NoMessage
  /\ LET m == next(inbound[c]).message.body
     IN \/ m.type = "Logon" /\ handle_logon(c, m) /\ UNCHANGED engineVars
        \/ m.type = "Logout" /\ handle_logout(c) /\ UNCHANGED engineVars
        \/ m.type = "Heartbeat" /\ handle_heartbeat(c) /\ UNCHANGED engineVars
        \/ m.type = "NewOrder" /\ refuse_new_order(c, m) /\ UNCHANGED engineVars
        \/ m.type = "CancelOrder" /\ handle_cancel(c, m)
        \/ /\ m.type \in {"OrderAck", "OrderReject", "Fill", "Cancelled"}
           /\ UNCHANGED <<engineVars, state, outbound, out_seq, replied>>
  /\ inbound' = [inbound EXCEPT ![c] = next(@).framer]
  /\ handled' = [handled EXCEPT ![c] = Append(@, next(inbound[c]).message)]
  /\ UNCHANGED <<clientVars, up, down, open, taken, pumping, request>>

(* handle_new_order acquires a slot and fills it in ... *)
BeginOrder(c) ==
  /\ pumping = c
  /\ request = <<>>
  /\ state[c] = "Active"
  /\ LET m == next(inbound[c]).message
     IN /\ m # NoMessage
        /\ m.body.type = "NewOrder"
        /\ \E s \in Slots : Acquire(s, OrderOf(m.body))
        /\ request' = <<m>>
  /\ inbound' = [inbound EXCEPT ![c] = next(@).framer]
  /\ UNCHANGED <<clientVars, up, down, state, outbound, out_seq, open, pumping, handled,
                 replied, taken>>

(* ... Engine::submit works on it ... *)
EngineStep ==
  /\ request # <<>>
  /\ (\E s \in held : Submit(Pumper, s)) \/ Trade(Pumper) \/ StopMatching(Pumper)
       \/ Settle(Pumper)
  /\ UNCHANGED <<clientVars, sessionVars, up, down, pumping, request>>

\* Mutant: a fill reports what is left of the order after it.
ReportsRest(m, o) ==
  IF o.status = "Rejected" THEN <<Reject(m, classify(m))>>
  ELSE << [type |-> "OrderAck", client_order_id |-> m.client_order_id,
           server_order_id |-> m.client_order_id] >>
       \o [n \in 1..Len(trades[Pumper]) |->
             [type |-> "Fill", client_order_id |-> m.client_order_id,
              server_order_id |-> m.client_order_id, price |-> trades[Pumper][n].price,
              quantity |-> remaining(o), post_status |-> StatusCode[o.status]]]

(* The messages handle_new_order makes of a MatchResult: an ack and a fill *)
(* for each trade, all with the status the order has in the end.           *)
Reports(m, o) ==
  IF o.status = "Rejected" THEN <<Reject(m, classify(m))>>
  ELSE << [type |-> "OrderAck", client_order_id |-> m.client_order_id,
           server_order_id |-> m.client_order_id] >>
       \o [n \in 1..Len(trades[Pumper]) |->
             [type |-> "Fill", client_order_id |-> m.client_order_id,
              server_order_id |-> m.client_order_id, price |-> trades[Pumper][n].price,
              quantity |-> trades[Pumper][n].quantity, post_status |-> StatusCode[o.status]]]

(* ... and the result is reported and a terminal order released. *)
FinishOrder(c) ==
  /\ pumping = c
  /\ request # <<>>
  /\ Return(Pumper)
  /\ emit(c, Reports(request[1].body, ord[taker[Pumper]]))
  /\ handled' = [handled EXCEPT ![c] = Append(@, request[1])]
  /\ request' = <<>>
  /\ UNCHANGED <<clientVars, up, down, inbound, state, open, taken, pumping>>

(* pump ends, take_outbound and send_all write what it has emitted, and    *)
(* session_loop goes on unless the session is closing.                     *)
PumpEnd(c) ==
  /\ pumping = c
  /\ request = <<>>
  /\ next(inbound[c]).message = NoMessage
  /\ inbound' = [inbound EXCEPT ![c] = next(@).framer]
  /\ down' = [down EXCEPT ![c] = @ \o outbound[c]]
  /\ outbound' = [outbound EXCEPT ![c] = <<>>]
  /\ taken' = [taken EXCEPT ![c] = Len(replied[c])]
  /\ open' = [open EXCEPT ![c] = state[c] # "Closing"]
  /\ pumping' = None
  /\ UNCHANGED <<engineVars, clientVars, up, request, state, out_seq, handled, replied>>

(* The application takes an instrument off between two pumps. *)
EngineExpire(i) ==
  /\ pumping = None
  /\ Expire(Pumper, i)
  /\ UNCHANGED <<clientVars, sessionVars, up, down, pumping, request>>

-----------------------------------------------------------------------------
Serve(c) == Recv(c) \/ PumpMessage(c) \/ BeginOrder(c) \/ FinishOrder(c) \/ PumpEnd(c)

(* A client has no part in a pump and reading disturbs nobody: its steps   *)
(* are taken between pumps, and the clients read one after the other when  *)
(* the sessions have taken in all there is.  Reading earlier would cut the *)
(* same bytes in other places.                                             *)
ClientStep(c) ==
  /\ pumping = None
  /\ \/ \E m \in Messages(c) : Send(c, m)
     \/ /\ sent \in Scenarios
        /\ \A b \in Clients : open[b] => up[b] = <<>>
        /\ \A b \in Clients \ {c} :
             framer[b].buf = <<>> /\ Len(received[b]) \in {0, taken[b]}
        /\ Receive(c)

GatewayNext ==
  \/ \E c \in Clients : ClientStep(c) \/ Serve(c)
  \/ EngineStep
  \/ \E i \in Instruments : EngineExpire(i)

GatewaySpec == GatewayInit /\ [][GatewayNext]_gatewayVars

-----------------------------------------------------------------------------
(* The wire is transparent: what encode puts down and recv_some cuts up,   *)
(* the framer and decode_body turn into the same messages in the same      *)
(* order, in both directions, the replies numbered 1, 2, 3 ... without a   *)
(* gap; a malformed frame and what follows it never reach a handler.  And  *)
(* no whole message is left in a buffer: when all bytes have come in, all  *)
(* messages have been handled, or read.                                    *)
WireIsTransparent ==
  \A c \in Clients :
    /\ Len(handled[c]) <= Len(sent[c]) /\ Len(received[c]) <= Len(replied[c])
    /\ \A n \in 1..Len(handled[c]) :
         /\ handled[c][n].body = Meaning(sent[c][n])
         /\ sent[c][n].type # "Frame" => handled[c][n].sequence = n
    /\ \A n \in 1..Len(received[c]) :
         received[c][n] = [sequence |-> n, body |-> replied[c][n].body]
    /\ pumping = c /\ request # <<>> =>
         Len(handled[c]) < Len(sent[c])
           /\ request[1].body = Meaning(sent[c][Len(handled[c]) + 1])
    /\ framer[c].error = "None"
    /\ up[c] = <<>> /\ pumping # c /\ open[c] /\ inbound[c].error = "None" =>
         Len(handled[c]) = Len(sent[c])
    /\ down[c] = <<>> /\ next(framer[c]).message = NoMessage => Len(received[c]) = taken[c]

-----------------------------------------------------------------------------
(* The quantity queries of OrderBook. *)

QtyOn(k) ==
  IF k \in levels THEN MapThenSumSet(LAMBDA s : remaining(ord[s]), Range(queue[k])) ELSE 0

bid_qty_at(i, p) == QtyOn(<<i, "Buy", p>>)

ask_qty_at(i, p) == QtyOn(<<i, "Sell", p>>)

best_bid(i) == {k[3] : k \in {j \in levels : IsTop(j) /\ j[1] = i /\ j[2] = "Buy"}}

best_ask(i) == {k[3] : k \in {j \in levels : IsTop(j) /\ j[1] = i /\ j[2] = "Sell"}}

(* The replies of a type so far, the message each of them carries, and the *)
(* order of the request it answers.                                        *)
Replies(type) ==
  UNION {{<<c, n>> : n \in {n \in 1..Len(replied[c]) : replied[c][n].body.type = type}}
           : c \in Clients}

Body(r) == replied[r[1]][r[2]].body

To(r) == <<r[1], replied[r[1]][r[2]].to>>

Asked(r) == handled[r[1]][To(r)[2]].body

(* What the acks and fills say was left of an order when it came to rest. *)
LeftOf(ack) ==
  Asked(ack).quantity - MapThenSumSet(LAMBDA f : Body(f).quantity,
                                      {f \in Replies("Fill") : To(f) = To(ack)})

RestedOn(k) ==
  {a \in Replies("OrderAck") : MayRest(OrderOf(Asked(a))) /\ LevelOf(OrderOf(Asked(a))) = k}

(* The fills of the other side at a level's price. *)
TakenFrom(k) ==
  {f \in Replies("Fill") : /\ Asked(f).instrument_id = k[1]
                           /\ OrderOf(Asked(f)).side = opposite(k[2])
                           /\ Body(f).price = k[3]}

(* What the messages leave on a level, when none of its orders was         *)
(* cancelled.                                                              *)
Reported(k) ==
  MapThenSumSet(LeftOf, RestedOn(k))
    - MapThenSumSet(LAMBDA f : Body(f).quantity, TakenFrom(k))

NoneCancelled(k) ==
  \A r \in Replies("Cancelled") : \A a \in RestedOn(k) :
    <<Asked(r).client_order_id, Asked(r).instrument_id>>
      # <<Asked(a).client_order_id, Asked(a).instrument_id>>

BestReported(i, side) ==
  {p \in Prices : /\ Reported(<<i, side, p>>) > 0
                  /\ \A q \in Prices : Reported(<<i, side, q>>) > 0 => ~Precedes(side, q, p)}

(* Who sees only the messages knows the book: between two requests the     *)
(* quantity that bid_qty_at and ask_qty_at show at a price is what the     *)
(* acks and fills leave there (after a cancel it may be less), and best    *)
(* bid and ask follow.  This goes for orders whose type or tif byte names  *)
(* no enumerator, too.                                                     *)
MessagesExplainBook ==
  request = <<>> => \A i \in {j \in Instruments : book(j)} :
    /\ \A p \in Prices :
         /\ bid_qty_at(i, p) <= Reported(<<i, "Buy", p>>)
         /\ ask_qty_at(i, p) <= Reported(<<i, "Sell", p>>)
         /\ NoneCancelled(<<i, "Buy", p>>) => bid_qty_at(i, p) = Reported(<<i, "Buy", p>>)
         /\ NoneCancelled(<<i, "Sell", p>>) => ask_qty_at(i, p) = Reported(<<i, "Sell", p>>)
    /\ Replies("Cancelled") = {} =>
         best_bid(i) = BestReported(i, "Buy") /\ best_ask(i) = BestReported(i, "Sell")

(* What a reject says of the message it answers, in the state the answer   *)
(* is given in.                                                            *)
TrueReason(c) ==
  Len(replied'[c]) > Len(replied[c]) /\ Last(replied'[c]).body.type = "OrderReject" =>
    LET m == Last(handled'[c]).body
        r == Last(replied'[c]).body.reason
    IN CASE r = RejectReason.NotLoggedOn -> state[c] # "Active"
         [] r = RejectReason.UnknownInstrument -> ~book(m.instrument_id)
         [] r = RejectReason.InvalidQuantity -> m.quantity = 0
         [] r = RejectReason.InvalidPrice -> m.order_type = 0 /\ m.price <= 0
         [] r = RejectReason.InvalidTif -> m.order_type = 1 /\ m.tif \in {0, 3}
         [] r = RejectReason.InsufficientLiquidity ->
              m.tif = 2 /\ ~can_fully_fill(ord[taker[Pumper]])
         [] OTHER -> IF m.type = "NewOrder" THEN \A s \in Slots : ord[s] # None
                     ELSE ~Finds(EngineOf[Pumper], m.instrument_id, m.client_order_id)

(* The reason in a reject is the one that applies, although classify works *)
(* it out from the message after the engine has decided: what it names is  *)
(* true, and Unknown is left for an empty pool and for a cancel that finds *)
(* nothing.                                                                *)
ReasonIsTrue == [][\A c \in Clients : TrueReason(c)]_gatewayVars

-----------------------------------------------------------------------------
FrameKind(m) ==
  IF m.type \in {"OrderReject", "Fill", "Cancelled"} THEN "OrderAck" ELSE m.type

ReplyKind(m) ==
  IF m.type = "OrderReject" /\ m.reason = RejectReason.NotLoggedOn THEN "NotLoggedOn"
  ELSE m.type

(* The replies that wait in outbound_, and the frames handled. *)
Answers(c) ==
  [n \in 1..Len(replied[c]) - taken[c] |->
     LET r == replied[c][taken[c] + n] IN [to |-> r.to, kind |-> ReplyKind(r.body)]]

Kinds(c) == [n \in 1..Len(handled[c]) |-> FrameKind(handled[c][n].body)]

S == INSTANCE Session
  WITH Conns <- Clients, MaxTrades <- Cardinality(Slots),
       buf <- [c \in Clients |-> <<>>], error <- [c \in Clients |-> "None"],
       outbound <- [c \in Clients |-> Answers(c)], handled <- [c \in Clients |-> Kinds(c)]

(* With real bytes and the real engine the dispatcher is the one Server    *)
(* is checked with: a verdict for each request in its order, orders and    *)
(* cancels refused outside a session, fills behind the ack of their order. *)
ImplementsSession == S!DispatcherSpec
=============================================================================
