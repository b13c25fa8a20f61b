------------------------------- MODULE Session ------------------------------
(***************************************************************************)
(* Framer, Session and Dispatcher: what a connection's bytes turn into.    *)
(*                                                                         *)
(* A byte is <<frame, position>>; sizes are scaled down, so that a chunk   *)
(* can end inside a header, between header and body, or between frames.    *)
(* The engine is an oracle here: its verdicts are those of Matching.       *)
(***************************************************************************)
EXTENDS Integers, Sequences, FiniteSets, Functions, SequenceRemoval

CONSTANTS
  Conns,        \* the connections clients make
  kHeaderSize,  \* bytes of a header
  MaxTrades,    \* bound: trades of one NewOrder
  None          \* no value

Requests  == {"NewOrder", "CancelOrder"}
Malformed == {"BadVersion", "OversizeBody", "BadBody"}
Frames    == {"Logon", "Logout", "Heartbeat", "OrderAck"} \cup Requests \cup Malformed
States    == {"NotLoggedOn", "Active", "Closing"}

ASSUME SessionAssumption == kHeaderSize \in Nat \ {0} /\ MaxTrades \in Nat

VARIABLES
  buf,       \* Framer::buf_
  error,     \* Framer::error_
  state,     \* Session::state_
  outbound,  \* Session::outbound_: [to, kind], to being the request answered
  handled    \* history: the frames decoded so far

sessionVars == <<buf, error, state, outbound, handled>>

-----------------------------------------------------------------------------
(* Logout and Heartbeat have no body. *)
body_length(f) == IF f \in {"Logout", "Heartbeat"} THEN 0 ELSE 1

FrameSize(f) == kHeaderSize + body_length(f)

Bytes(f) == [i \in 1..FrameSize(f) |-> <<f, i>>]

(* The bytes of a sequence of frames. *)
Stream(frames) ==
  LET upto[n \in 0..Len(frames)] ==
        IF n = 0 THEN <<>> ELSE upto[n - 1] \o Bytes(frames[n])
  IN  upto[Len(frames)]

\* Mutant: a chunk replaces what was left of the previous one.
feed_replaces(c, data) ==
  buf' = IF error[c] = "None" THEN [buf EXCEPT ![c] = data] ELSE buf

(* Framer::feed, under Session::on_bytes: nothing is taken after an error. *)
feed(c, data) ==
  buf' = IF error[c] = "None" THEN [buf EXCEPT ![c] = @ \o data] ELSE buf

(* The frame whose header is at the front of the buffer. *)
FrontFrame(c) == buf[c][1][1]

HasHeader(c) == error[c] = "None" /\ Len(buf[c]) >= kHeaderSize

HasFrame(c) == HasHeader(c) /\ Len(buf[c]) >= FrameSize(FrontFrame(c))

(* The error Framer::next flags: a bad header as soon as it is there, a    *)
(* bad body once all of it is.                                             *)
Flags(c) ==
  \/ HasHeader(c) /\ FrontFrame(c) \in {"BadVersion", "OversizeBody"}
  \/ HasFrame(c) /\ FrontFrame(c) = "BadBody"

(* Framer::next returns a message. *)
Yields(c) == HasFrame(c) /\ FrontFrame(c) \notin Malformed

-----------------------------------------------------------------------------
(* Session::emit, once for each message. *)
emit(c, kinds) ==
  outbound' = [outbound EXCEPT ![c] =
    @ \o [i \in 1..Len(kinds) |-> [to |-> Len(handled[c]) + 1, kind |-> kinds[i]]]]

\* Mutant: a client may log on again after it has logged out.
handle_logon_again(c) ==
  /\ state' = [state EXCEPT ![c] = "Active"]
  /\ emit(c, IF state[c] = "Active" THEN <<>> ELSE <<"Logon">>)

handle_logon(c) ==
  IF state[c] = "NotLoggedOn"
  THEN state' = [state EXCEPT ![c] = "Active"] /\ emit(c, <<"Logon">>)
  ELSE UNCHANGED <<state, outbound>>

handle_logout(c) ==
  /\ state' = [state EXCEPT ![c] = "Closing"]
  /\ emit(c, <<"Logout">>)

handle_heartbeat(c) == emit(c, <<"Heartbeat">>) /\ UNCHANGED state

(* Outside Active the engine is not asked.  Otherwise the pool is empty or *)
(* the engine rejects, or it accepts with any number of trades.            *)
handle_new_order(c) ==
  /\ \/ state[c] # "Active" /\ emit(c, <<"NotLoggedOn">>)
     \/ state[c] = "Active" /\ emit(c, <<"OrderReject">>)
     \/ /\ state[c] = "Active"
        /\ \E n \in 0..MaxTrades : emit(c, <<"OrderAck">> \o [i \in 1..n |-> "Fill"])
  /\ UNCHANGED state

(* The engine finds the order or it does not. *)
handle_cancel(c) ==
  /\ \/ state[c] # "Active" /\ emit(c, <<"NotLoggedOn">>)
     \/ state[c] = "Active" /\ emit(c, <<"Cancelled">>)
     \/ state[c] = "Active" /\ emit(c, <<"OrderReject">>)
  /\ UNCHANGED state

(* The visitor of Dispatcher::pump; the server's own messages are ignored. *)
Dispatch(c, f) ==
  \/ f = "Logon" /\ handle_logon(c)
  \/ f = "Logout" /\ handle_logout(c)
  \/ f = "Heartbeat" /\ handle_heartbeat(c)
  \/ f = "NewOrder" /\ handle_new_order(c)
  \/ f = "CancelOrder" /\ handle_cancel(c)
  \/ f = "OrderAck" /\ UNCHANGED <<state, outbound>>

Handle(c, f) == Dispatch(c, f) /\ handled' = [handled EXCEPT ![c] = Append(@, f)]

(* One iteration of Dispatcher::pump: next() gives a message, its bytes    *)
(* are erased and its handler runs.                                        *)
PumpMessage(c) ==
  /\ Yields(c)
  /\ buf' = [buf EXCEPT ![c] = SubSeq(@, FrameSize(FrontFrame(c)) + 1, Len(@))]
  /\ Handle(c, FrontFrame(c))
  /\ UNCHANGED error

(* pump ends: next() has no whole frame, or flags an error. *)
PumpEnd(c) ==
  /\ ~Yields(c)
  /\ error' = IF Flags(c) THEN [error EXCEPT ![c] = FrontFrame(c)] ELSE error
  /\ UNCHANGED <<buf, state, outbound, handled>>

(* Session::take_outbound *)
take_outbound(c) == outbound' = [outbound EXCEPT ![c] = <<>>]

-----------------------------------------------------------------------------
SessionInit ==
  /\ buf = [c \in Conns |-> <<>>]
  /\ error = [c \in Conns |-> "None"]
  /\ state = [c \in Conns |-> "NotLoggedOn"]
  /\ outbound = [c \in Conns |-> <<>>]
  /\ handled = [c \in Conns |-> <<>>]

(* What the dispatcher promises of whole messages, however their bytes     *)
(* arrive and whatever the engine decides.                                 *)
Dispatching ==
  \E c \in Conns :
    \/ \E f \in Frames \ Malformed : Handle(c, f) /\ UNCHANGED <<buf, error>>
    \/ take_outbound(c) /\ UNCHANGED <<buf, error, state, handled>>

DispatcherSpec == SessionInit /\ [][Dispatching]_sessionVars
=============================================================================
