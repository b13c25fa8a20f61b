------------------------------ MODULE MCServer ------------------------------
(* Small instances of Server for TLC. *)
EXTENDS Server, TLC

CONSTANTS c1, c2

(* One client has a conversation: it logs on and off, orders outside a     *)
(* session, or breaks the framing in one of the ways.                      *)
Conversations ==
  { <<"Logon", "NewOrder", "Logout">>,
    <<"Logout", "Logon", "CancelOrder">>,
    <<"Logon", "CancelOrder">>,
    <<"OrderAck", "BadVersion">>,
    <<"NewOrder", "BadBody">>,
    <<"Heartbeat", "OversizeBody">> }

(* Or two clients come and go around each other, and one has a word.       *)
MCScripts ==
  {c1 :> frames : frames \in Conversations}
    \cup {c1 :> frames @@ c2 :> <<>> : frames \in {<<"Logon">>, <<"Logout">>}}

(* One malformed frame, and the client waits for what happens. *)
BadScripts == { c1 :> <<"BadVersion">> }

(* A client that connects and keeps silent. *)
SilentScripts == { c1 :> <<>> }
=============================================================================
