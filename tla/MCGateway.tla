----------------------------- MODULE MCGateway ------------------------------
(* Two clients on one book.  Bytes have 12 values, so that all eight of a  *)
(* u64 stay within TLC's integers; ids, prices and quantities fill one     *)
(* byte, carry into the next, or take all eight.                           *)
EXTENDS Gateway, TLC

CONSTANTS s1, s2, s3, e1, e2, c1, c2

MaxU64 == 12 ^ 8 - 1
MaxI64 == 12 ^ 8 \div 2 - 1

Logon(client) == [type |-> "Logon", client_id |-> client]
Logout == [type |-> "Logout"]
Heartbeat == [type |-> "Heartbeat"]

New(d, i, side, type, tif, p, q) ==
  [type |-> "NewOrder", client_order_id |-> d, instrument_id |-> i, side |-> side,
   order_type |-> type, tif |-> tif, price |-> p, quantity |-> q]

Cancels(d) == [type |-> "CancelOrder", client_order_id |-> d, instrument_id |-> 1]

(* A frame with the given header bytes for version, code and length. *)
Frame(version, code, length, body, means) ==
  [type |-> "Frame", means |-> means,
   bytes |-> <<version, code>> \o write("u16", length) \o write("u32", 9) \o body]

(* A NewOrder with a pad byte that is not 0 and two bytes too many. *)
Long(m) ==
  LET body == encode_body(m)
  IN Frame(1, 4, Len(body) + 2, [body EXCEPT ![16] = 5] \o <<1, 1>>, m)

Ask(d, p, q) == New(d, 1, 1, 0, 0, p, q)
Bid(d, p, q) == New(d, 1, 0, 0, 0, p, q)

(* Two resting orders or one with bytes that name no enumerator, met by a  *)
(* sweep, by a fill-or-kill and a market order, by a cancel; each reason   *)
(* to reject; each way to break the framing.                               *)
Pair(first, second) == c1 :> first @@ c2 :> second

Makers == << Logon(7), Ask(1, 2, 2), Ask(13, MaxI64, 1) >>
Odd    == << Logon(7), New(1, 1, 9, 2, 4, 0, 2), Long(Ask(13, 2, 13)) >>
Sweep  == << Logon(8), Bid(MaxU64, 1, 1), Bid(2, MaxI64, 3) >>
Kill   == << Logon(8), New(2, 1, 0, 0, 2, 2, 3), New(3, 1, 0, 1, 1, 0, 2) >>

MCScenarios ==
  { Pair(Makers, Sweep), Pair(Odd, Sweep), Pair(Makers, Kill),
    Pair(<< Logon(7), Ask(1, 2, 2), Cancels(1) >>, << Logon(8), Bid(2, 2, 1), Cancels(1) >>),
    Pair(<< Ask(1, 2, 1), Logon(7), Logout, Cancels(1) >>, << Heartbeat >>),
    Pair(<<>>, << Logon(8), New(2, 2, 0, 0, 0, 2, 1), Bid(3, 2, 0), Bid(4, -1, 1),
                  New(5, 1, 0, 1, 3, 2, 1) >>),
    Pair(<<>>, << Cancels(1), Frame(2, 3, 0, <<>>, NoMessage), Heartbeat >>),
    Pair(<<>>, << Logon(12 ^ 4 - 1), Frame(1, 3, 41, <<>>, NoMessage), Heartbeat >>),
    Pair(<<>>, << [type |-> "Cancelled", client_order_id |-> 1],
                  Frame(1, 1, 3, <<1, 1, 1>>, NoMessage), Heartbeat >>),
    Pair(<<>>, << Frame(1, 10, 0, <<>>, NoMessage), Heartbeat >>) }

MCNewOrders ==
  {OrderOf(Meaning(m)) :
     m \in {x \in UNION {Messages(c) : c \in {c1, c2}} : Meaning(x) # NoMessage
                                                     /\ Meaning(x).type = "NewOrder"}}

MCHome == 1 :> e1 @@ 2 :> e2
MCEngineOf == Pumper :> e1

(* No action orders the slots. *)
Interchangeable == Permutations(Slots)
=============================================================================
