------------------------------- MODULE Server -------------------------------
(***************************************************************************)
(* The TCP gateway: the accept thread, a thread per connection, and the    *)
(* caller of start and stop.  Descriptors are numbers that the system      *)
(* hands out again after a close, so a late close may hit another          *)
(* connection.                                                             *)
(***************************************************************************)
EXTENDS Session

CONSTANTS
  Fds,          \* the descriptors accept() can return, as numbers
  Scripts       \* each says which clients come, and what frames they send

ASSUME ServerAssumption ==
  /\ Fds \subseteq Nat
  /\ None \notin Conns
  /\ \A sends \in Scripts : \E come \in SUBSET Conns : sends \in [come -> Seq(Frames)]

VARIABLES
  running,      \* Server::running_
  listener,     \* Server::listener_: "none", "open" or "closed"
  sockets,      \* Server::session_sockets_
  threads,      \* the connections whose thread is in session_threads_
  accepter,     \* where the accept thread is
  accepted,     \* the connection the accept thread has just accepted
  reserved,     \* the descriptor set aside for the accept() under way
  stopper,      \* where the caller of stop is
  thread,       \* where the thread of each connection is
  fd,           \* the descriptor a connection's thread was given
  file,         \* the connection each descriptor refers to
  peer,         \* the client's end of each connection
  script,       \* the frames the client of each connection sends
  wire,         \* the bytes it has sent that were not received yet
  sending,      \* what its session has taken for send_all and not written
  got           \* the messages written to its socket

serverVars == <<running, listener, sockets, threads, accepter, accepted, stopper,
                reserved>>
netVars    == <<fd, file, peer, script, wire, sending, got>>
vars       == <<sessionVars, serverVars, netVars, thread>>

Init ==
  /\ SessionInit
  /\ running = FALSE
  /\ listener = "none"
  /\ sockets = <<>>
  /\ threads = {}
  /\ accepter = "off"
  /\ accepted = None
  /\ reserved = None
  /\ stopper = "idle"
  /\ thread = [c \in Conns |-> "none"]
  /\ fd = [c \in Conns |-> None]
  /\ file = [f \in Fds |-> None]
  /\ \E sends \in Scripts :
       /\ peer = [c \in Conns |-> IF c \in DOMAIN sends THEN "unborn" ELSE "gone"]
       /\ script = [c \in Conns |-> IF c \in DOMAIN sends THEN sends[c] ELSE <<>>]
  /\ wire = [c \in Conns |-> Stream(script[c])]
  /\ sending = [c \in Conns |-> <<>>]
  /\ got = [c \in Conns |-> <<>>]

-----------------------------------------------------------------------------
(* The listening socket is there: its descriptor is open, or was closed    *)
(* while accept() is blocked on it.                                        *)
Listening == listener = "open" \/ accepter = "accepting"

(* The listening socket goes away, and the clients it had not accepted are *)
(* turned away.                                                            *)
TurnAway(ends) == [c \in Conns |-> IF ends[c] = "waiting" THEN "gone" ELSE ends[c]]

(* Clients.  What a client sends is on the wire from the start: recv may   *)
(* still return it in any chunks and as late as it likes.                  *)
Connect(c) ==
  /\ peer[c] = "unborn"
  /\ Listening
  /\ peer' = [peer EXCEPT ![c] = "waiting"]
  /\ UNCHANGED <<sessionVars, serverVars, fd, file, script, wire, sending, got, thread>>

Disconnect(c) ==
  /\ peer[c] = "connected"
  /\ peer' = [peer EXCEPT ![c] = "gone"]
  /\ UNCHANGED <<sessionVars, serverVars, fd, file, script, wire, sending, got, thread>>

-----------------------------------------------------------------------------
(* Server::start, when it is not running yet. *)
Start ==
  /\ stopper = "idle" /\ ~running
  /\ running' = TRUE
  /\ listener' = "open"
  /\ accepter' = "check"
  /\ UNCHANGED <<sessionVars, netVars, sockets, threads, accepted, reserved, stopper,
                 thread>>

(* listen_on throws after running_ was set: no listener, no accept thread. *)
StartFails ==
  /\ stopper = "idle" /\ ~running
  /\ running' = TRUE
  /\ listener' = "none"
  /\ UNCHANGED <<sessionVars, netVars, sockets, threads, accepter, accepted, reserved,
                 stopper, thread>>

(* accept_loop: the loop condition. *)
AcceptCheck ==
  /\ accepter = "check"
  /\ accepter' = IF running THEN "accept" ELSE "done"
  /\ UNCHANGED <<sessionVars, netVars, running, listener, sockets, threads, accepted,
                 reserved, stopper, thread>>

(* accept() sets the lowest free descriptor aside and blocks. *)
AcceptCall(f) ==
  /\ accepter = "accept"
  /\ listener = "open"
  /\ file[f] = None
  /\ \A g \in Fds : g < f => file[g] # None
  /\ reserved' = f
  /\ accepter' = "accepting"
  /\ UNCHANGED <<sessionVars, netVars, running, listener, sockets, threads, accepted,
                 stopper, thread>>

(* accept() fails at once, on a closed listener or for want of a           *)
(* descriptor: the loop ends for good.                                     *)
AcceptFails ==
  /\ accepter = "accept"
  /\ \/ listener # "open"
     \/ \A f \in Fds : file[f] # None
  /\ accepter' = "done"
  /\ UNCHANGED <<sessionVars, netVars, running, listener, sockets, threads, accepted,
                 reserved, stopper, thread>>

(* A blocked accept() returns a connection, also when the listener has     *)
(* been closed meanwhile; it was then the last user of that socket.        *)
AcceptOne(c) ==
  /\ accepter = "accepting"
  /\ peer[c] = "waiting"
  /\ LET ends == [peer EXCEPT ![c] = "connected"]
     IN peer' = IF listener = "open" THEN ends ELSE TurnAway(ends)
  /\ file' = [file EXCEPT ![reserved] = c]
  /\ fd' = [fd EXCEPT ![c] = reserved]
  /\ accepted' = c
  /\ reserved' = None
  /\ accepter' = "push"
  /\ UNCHANGED <<sessionVars, running, listener, sockets, threads, stopper, script, wire,
                 sending, got, thread>>

(* Where closing the listener ends a blocked accept(), it fails. *)
AcceptWoken ==
  /\ accepter = "accepting"
  /\ listener # "open"
  /\ peer' = TurnAway(peer)
  /\ reserved' = None
  /\ accepter' = "done"
  /\ UNCHANGED <<sessionVars, running, listener, sockets, threads, accepted, stopper, fd,
                 file, script, wire, sending, got, thread>>

(* The socket is listed under the mutex, then its thread is started. *)
AcceptPush ==
  /\ accepter = "push"
  /\ sockets' = Append(sockets, fd[accepted])
  /\ accepter' = "spawn"
  /\ UNCHANGED <<sessionVars, netVars, running, listener, threads, accepted, reserved,
                 stopper, thread>>

AcceptSpawn ==
  /\ accepter = "spawn"
  /\ threads' = threads \cup {accepted}
  /\ thread' = [thread EXCEPT ![accepted] = "loop"]
  /\ accepted' = None
  /\ accepter' = "check"
  /\ UNCHANGED <<sessionVars, netVars, running, listener, sockets, reserved, stopper>>

-----------------------------------------------------------------------------
Goto(c, place) == thread' = [thread EXCEPT ![c] = place]

\* Mutant: a session does not look at running_.
LoopUntilLogout(c) ==
  /\ thread[c] = "loop"
  /\ Goto(c, IF state[c] # "Closing" THEN "recv" ELSE "close")
  /\ UNCHANGED <<sessionVars, serverVars, netVars>>

(* session_loop: the loop condition. *)
Loop(c) ==
  /\ thread[c] = "loop"
  /\ Goto(c, IF running /\ state[c] # "Closing" THEN "recv" ELSE "close")
  /\ UNCHANGED <<sessionVars, serverVars, netVars>>

(* recv is called: it blocks, or fails at once on a socket that stop has   *)
(* closed.                                                                 *)
RecvCall(c) ==
  /\ thread[c] = "recv"
  /\ Goto(c, IF file[fd[c]] = c THEN "receiving" ELSE "close")
  /\ UNCHANGED <<sessionVars, serverVars, netVars>>

(* recv returns a chunk, also of a socket closed while it was blocked, and *)
(* the chunk goes to the framer; a session that is in error ends here.     *)
Recv(c) ==
  /\ thread[c] = "receiving"
  /\ \E n \in 1..Len(wire[c]) :
       /\ feed(c, SubSeq(wire[c], 1, n))
       /\ wire' = [wire EXCEPT ![c] = SubSeq(@, n + 1, Len(@))]
  /\ Goto(c, IF error[c] # "None" THEN "close" ELSE "pump")
  /\ UNCHANGED <<serverVars, error, state, outbound, handled, fd, file, peer, script,
                 sending, got>>

(* recv returns 0 or fails: the client is gone. *)
RecvEnd(c) ==
  /\ thread[c] = "receiving"
  /\ peer[c] = "gone"
  /\ Goto(c, "close")
  /\ UNCHANGED <<sessionVars, serverVars, netVars>>

(* Where closing the socket ends a blocked recv, it fails. *)
RecvWoken(c) ==
  /\ thread[c] = "receiving"
  /\ file[fd[c]] # c
  /\ Goto(c, "close")
  /\ UNCHANGED <<sessionVars, serverVars, netVars>>

(* Dispatcher::pump, a message at a time. *)
Pump(c) ==
  /\ thread[c] = "pump"
  /\ \/ PumpMessage(c) /\ UNCHANGED thread
     \/ PumpEnd(c) /\ Goto(c, "send")
  /\ UNCHANGED <<serverVars, netVars>>

\* Mutant: a session that is closing does not write its last messages.
TakeUnlessClosing(c) ==
  /\ thread[c] = "send"
  /\ take_outbound(c)
  /\ sending' = [sending EXCEPT ![c] = outbound[c]]
  /\ Goto(c, IF state[c] = "Closing" THEN "close"
             ELSE IF outbound[c] = <<>> THEN "loop" ELSE "write")
  /\ UNCHANGED <<serverVars, buf, error, state, handled, fd, file, peer, script, wire, got>>

\* Mutant: the messages taken stay queued.
TakeKeeps(c) ==
  /\ thread[c] = "send"
  /\ sending' = [sending EXCEPT ![c] = outbound[c]]
  /\ Goto(c, IF outbound[c] = <<>> THEN "loop" ELSE "write")
  /\ UNCHANGED <<sessionVars, serverVars, fd, file, peer, script, wire, got>>

(* take_outbound: nothing to write, or send_all begins. *)
Take(c) ==
  /\ thread[c] = "send"
  /\ take_outbound(c)
  /\ sending' = [sending EXCEPT ![c] = outbound[c]]
  /\ Goto(c, IF outbound[c] = <<>> THEN "loop" ELSE "write")
  /\ UNCHANGED <<serverVars, buf, error, state, handled, fd, file, peer, script, wire, got>>

(* One send() of the loop of send_all takes some of what is left.  *)
Write(c) ==
  /\ thread[c] = "write"
  /\ file[fd[c]] = c
  /\ \E n \in 1..Len(sending[c]) :
       /\ got' = [got EXCEPT ![c] = @ \o SubSeq(sending[c], 1, n)]
       /\ sending' = [sending EXCEPT ![c] = SubSeq(@, n + 1, Len(@))]
  /\ Goto(c, IF sending'[c] = <<>> THEN "loop" ELSE "write")
  /\ UNCHANGED <<sessionVars, serverVars, fd, file, peer, script, wire>>

(* send() fails: the client is gone or the socket was closed, perhaps when *)
(* a part has been written.  What is left is lost.                         *)
WriteFails(c) ==
  /\ thread[c] = "write"
  /\ file[fd[c]] # c \/ peer[c] = "gone"
  /\ sending' = [sending EXCEPT ![c] = <<>>]
  /\ Goto(c, "close")
  /\ UNCHANGED <<sessionVars, serverVars, fd, file, peer, script, wire, got>>

(* close_socket at the end of session_loop.  The descriptor is closed      *)
(* whatever it refers to by now.                                           *)
Close(c) ==
  /\ thread[c] = "close"
  /\ file' = [file EXCEPT ![fd[c]] = None]
  /\ Goto(c, "erase")
  /\ UNCHANGED <<sessionVars, serverVars, fd, peer, script, wire, sending, got>>

(* The first entry with this descriptor leaves the list. *)
Erase(c) ==
  /\ thread[c] = "erase"
  /\ sockets' = WithoutFirst(sockets, fd[c])
  /\ Goto(c, "done")
  /\ UNCHANGED <<sessionVars, netVars, running, listener, threads, accepter, accepted,
                 reserved, stopper>>

-----------------------------------------------------------------------------
(* Server::stop, when it is running. *)
Stop ==
  /\ stopper = "idle" /\ running
  /\ running' = FALSE
  /\ stopper' = "listener"
  /\ UNCHANGED <<sessionVars, netVars, listener, sockets, threads, accepter, accepted,
                 reserved, thread>>

\* Mutant: the listener stays open.
StopListenerForgotten ==
  /\ stopper = "listener"
  /\ stopper' = "sockets"
  /\ UNCHANGED <<sessionVars, netVars, running, listener, sockets, threads, accepter,
                 accepted, reserved, thread>>

(* The listener's descriptor is closed.  The socket goes with it, unless   *)
(* accept() is blocked on it.                                              *)
StopListener ==
  /\ stopper = "listener"
  /\ listener' = IF listener = "open" THEN "closed" ELSE listener
  /\ peer' = IF accepter = "accepting" THEN peer ELSE TurnAway(peer)
  /\ stopper' = "sockets"
  /\ UNCHANGED <<sessionVars, running, sockets, threads, accepter, accepted, reserved, fd,
                 file, script, wire, sending, got, thread>>

(* Every socket in the list is closed, under the mutex. *)
StopSockets ==
  /\ stopper = "sockets"
  /\ file' = [f \in Fds |-> IF f \in Range(sockets) THEN None ELSE file[f]]
  /\ sockets' = <<>>
  /\ stopper' = "accept"
  /\ UNCHANGED <<sessionVars, running, listener, threads, accepter, accepted, reserved, fd,
                 peer, script, wire, sending, got, thread>>

\* Mutant: the accept thread is not waited for.
JoinAcceptAtOnce ==
  /\ stopper = "accept"
  /\ stopper' = "join"
  /\ UNCHANGED <<sessionVars, netVars, running, listener, sockets, threads, accepter,
                 accepted, reserved, thread>>

JoinAccept ==
  /\ stopper = "accept"
  /\ accepter \in {"off", "done"}
  /\ accepter' = "off"
  /\ stopper' = "join"
  /\ UNCHANGED <<sessionVars, netVars, running, listener, sockets, threads, accepted,
                 reserved, thread>>

JoinSessions ==
  /\ stopper = "join"
  /\ \A c \in threads : thread[c] = "done"
  /\ threads' = {}
  /\ stopper' = "idle"
  /\ UNCHANGED <<sessionVars, netVars, running, listener, sockets, accepter, accepted,
                 reserved, thread>>

-----------------------------------------------------------------------------
AcceptStep ==
  \/ AcceptCheck
  \/ \E f \in Fds : AcceptCall(f)
  \/ AcceptFails
  \/ \E c \in Conns : AcceptOne(c)
  \/ AcceptPush
  \/ AcceptSpawn

SessionStep(c) ==
  \/ Loop(c) \/ RecvCall(c) \/ Recv(c) \/ RecvEnd(c) \/ Pump(c)
  \/ Take(c) \/ Write(c) \/ WriteFails(c)
  \/ Close(c) \/ Erase(c)

(* A close ends the call blocked on what it closes; some systems do this,  *)
(* others leave the thread blocked.                                        *)
Wake == AcceptWoken \/ \E c \in Conns : RecvWoken(c)

StopStep == StopListener \/ StopSockets \/ JoinAccept \/ JoinSessions

Next ==
  \/ \E c \in Conns : Connect(c) \/ Disconnect(c)
  \/ Start \/ StartFails \/ Stop
  \/ AcceptStep
  \/ \E c \in Conns : SessionStep(c)
  \/ Wake
  \/ StopStep

(* The threads keep running, and a blocked call returns when there is      *)
(* something to return.  Nothing is assumed of the clients, of the caller  *)
(* of start and stop, and of what a close does to a blocked call.          *)
Fairness ==
  /\ WF_vars(AcceptStep)
  /\ \A c \in Conns : WF_vars(SessionStep(c))
  /\ WF_vars(StopStep)

Spec == Init /\ [][Next]_vars /\ Fairness

-----------------------------------------------------------------------------
(* Framing does not depend on how TCP cuts the stream: until an error the  *)
(* frames decoded, the bytes buffered and the bytes to come make up what   *)
(* the client sent, and no malformed frame is ever handed to a handler.    *)
StreamIsKept ==
  \A c \in Conns :
    /\ \A n \in 1..Len(handled[c]) : handled[c][n] \notin Malformed
    /\ error[c] = "None" => Stream(handled[c]) \o buf[c] \o wire[c] = Stream(script[c])

Replies(c) == got[c] \o sending[c] \o outbound[c]

(* Whether the first n frames leave the session the protocol document      *)
(* defines active: logged on by a Logon, for good ended by a Logout.       *)
ActiveAfter(frames, n) ==
  LET before == {frames[i] : i \in 1..n}
  IN "Logon" \in before /\ "Logout" \notin before

(* The engine is asked only inside a logged-on session: a NewOrder or a    *)
(* CancelOrder is refused as NotLoggedOn exactly when it was sent outside. *)
OrdersOnlyWhenActive ==
  \A c \in Conns : \A r \in Range(Replies(c)) :
    handled[c][r.to] \in Requests =>
      (r.kind = "NotLoggedOn" <=> ~ActiveAfter(handled[c], r.to - 1))

(* The replies that are no fills. *)
Verdicts(replies) == {i \in 1..Len(replies) : replies[i].kind # "Fill"}

(* Verdicts come in the order of the requests, and fills only behind the   *)
(* OrderAck they belong to.                                                *)
InOrder(replies) ==
  /\ \A i, j \in Verdicts(replies) : i < j => replies[i].to < replies[j].to
  /\ \A i \in 1..Len(replies) : replies[i].kind = "Fill" =>
       \E j \in 1..i - 1 : replies[j] = [to |-> replies[i].to, kind |-> "OrderAck"]

(* The frames that ask for a verdict. *)
Asked(frames) ==
  {n \in 1..Len(frames) : frames[n] \in Requests \cup {"Logout", "Heartbeat"}}

(* The replies are in order, also in what a client got of a write that     *)
(* broke off, and a session that is up has given every request a verdict.  *)
OneVerdictEach ==
  \A c \in Conns :
    /\ InOrder(Replies(c))
    /\ thread[c] \in {"loop", "recv", "receiving", "pump", "send", "write"} =>
         Asked(handled[c]) \subseteq {Replies(c)[i].to : i \in Verdicts(Replies(c))}

(* A client that logs out and stays connected to a running server gets the *)
(* answer before the connection is closed.                                 *)
LogoutIsAnswered ==
  \A c \in Conns :
    thread[c] = "close" /\ state[c] = "Closing" /\ file[fd[c]] = c /\ peer[c] = "connected"
      => \E r \in Range(got[c]) : r.kind = "Logout"

(* A session uses and closes its own socket: its descriptor never refers   *)
(* to another connection, although stop closes it under the session's      *)
(* feet and the session then closes it again.                              *)
SocketIsMine ==
  \A c \in Conns :
    thread[c] \in {"loop", "recv", "receiving", "pump", "send", "write", "close"}
      => file[fd[c]] \in {c, None}

(* When stop has returned no thread of the server is left, no socket is    *)
(* open, and the list is empty: the server can be started again.           *)
StopLeavesNothing ==
  stopper = "idle" /\ ~running =>
    /\ accepter = "off"
    /\ sockets = <<>>
    /\ \A f \in Fds : file[f] = None
    /\ \A c \in Conns : thread[c] \in {"none", "done"}

(* "Close listener to unblock accept()", "Close every live session socket  *)
(* to unblock recv() in worker threads": stop returns.                     *)
StopReturns == stopper # "idle" ~> stopper = "idle"

(* Where a close does end a blocked call stop returns, also when it raced  *)
(* a connection being accepted, whose socket it did not see in the list.   *)
StopReturnsIfWoken ==
  WF_vars(AcceptWoken) /\ (\A c \in Conns : WF_vars(RecvWoken(c))) => StopReturns

(* protocol.md: a receiver drops the connection on a malformed frame.      *)
DropsOnError == \A c \in Conns : error[c] # "None" ~> thread[c] = "done"
=============================================================================
