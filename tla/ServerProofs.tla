---------------------------- MODULE ServerProofs ----------------------------
(***************************************************************************)
(* Theorems about Server: descriptors and shutdown, framing and replies,   *)
(* for any number of connections and descriptors and whatever the clients  *)
(* send.                                                                   *)
(***************************************************************************)
EXTENDS SessionProofs

(* Zenon proves a step that names no prover; the SMT solver is named where arithmetic,
   sequences or records are needed. *)
USE ZenonT(20)

-----------------------------------------------------------------------------
(* The places of a session thread that still uses its socket. *)
Live == {"loop", "recv", "receiving", "pump", "send", "write", "close"}

(* The connection has a descriptor that nobody but stop has closed. *)
Owns(c) == thread[c] \in Live \/ accepted = c

Types ==
  /\ running \in BOOLEAN
  /\ accepter \in {"off", "check", "accept", "accepting", "push", "spawn", "done"}
  /\ stopper \in {"idle", "listener", "sockets", "accept", "join"}
  /\ accepted \in Conns \cup {None}
  /\ reserved \in Fds \cup {None}
  /\ threads \subseteq Conns
  /\ thread \in [Conns -> Live \cup {"none", "erase", "done"}]
  /\ fd \in [Conns -> Fds \cup {None}]
  /\ file \in [Fds -> Conns \cup {None}]
  /\ peer \in [Conns -> {"unborn", "waiting", "connected", "gone"}]

(* How far stop has come, and what is over by then. *)
StopInv ==
  /\ accepter \in {"push", "spawn"} <=> accepted # None
  /\ accepter = "accepting" => reserved \in Fds /\ file[reserved] = None
  /\ stopper # "idle" => ~running
  /\ stopper \in {"sockets", "accept", "join"} => listener # "open"
  /\ stopper = "join" => accepter = "off"

(* A connection owns its descriptor, at least until stop closes sockets;   *)
(* it is not the one set aside for the next connection; and its thread,    *)
(* once started, is one that stop joins.                                   *)
ConnInv(c) ==
  /\ peer[c] \in {"unborn", "waiting"} => thread[c] = "none" /\ accepted # c
  /\ accepted = c => thread[c] = "none"
  /\ Owns(c) => fd[c] \in Fds /\ file[fd[c]] \in {c, None}
  /\ Owns(c) /\ accepter = "accepting" => fd[c] # reserved
  /\ Owns(c) /\ stopper \notin {"accept", "join"} => file[fd[c]] = c
  /\ thread[c] \notin {"none", "done"} => c \in threads

(* An open descriptor belongs to a connection that still owns it. *)
FileInv(f) == file[f] # None => Owns(file[f]) /\ fd[file[f]] = f

(* After stop has emptied the list at most one socket is listed again,     *)
(* that of the accept under way, and its thread will take it off.          *)
Late(c) == sockets = <<fd[c]>> /\ (thread[c] \notin {"none", "done"} \/ accepted = c)

SocketsInv ==
  stopper \in {"accept", "join"} =>
    /\ accepter \in {"accepting", "push"} => sockets = <<>>
    /\ sockets = <<>> \/ \E c \in Conns : Late(c)

ServerInv ==
  /\ Types
  /\ StopInv
  /\ \A c \in Conns : ConnInv(c)
  /\ \A f \in Fds : FileInv(f)
  /\ SocketsInv
  /\ StopLeavesNothing

-----------------------------------------------------------------------------
(* What taking an entry off a list of at most one leaves. *)
LEMMA WithoutFromShort ==
  ASSUME NEW x, NEW y
  PROVE  /\ WithoutFirst(<<>>, x) = <<>>
         /\ WithoutFirst(<<x>>, x) = <<>>
         /\ WithoutFirst(<<y>>, x) \in {<<>>, <<y>>}
<1>1. WithoutFirst(<<>>, x) = <<>>
  BY SMTT(20) DEF WithoutFirst
<1>2. WithoutFirst(<<x>>, x) = <<>>
  <2>1. {i \in 1..Len(<<x>>) : <<x>>[i] = x} = {1}
    BY SMTT(20)
  <2>2. (CHOOSE n \in {1} : \A m \in {1} : n <= m) = 1
    BY SMTT(20)
  <2>3. Without(<<x>>, 1) = <<>>
    BY SMTT(20) DEF Without
  <2> QED BY <2>1, <2>2, <2>3 DEF WithoutFirst
<1>3. x # y => WithoutFirst(<<y>>, x) = <<y>>
  <2>1. x # y => {i \in 1..Len(<<y>>) : <<y>>[i] = x} = {}
    BY SMTT(20)
  <2> QED BY <2>1 DEF WithoutFirst
<1> QED BY <1>1, <1>2, <1>3

(* A server that was never started satisfies the invariant. *)
LEMMA InitServerInv == Init => ServerInv
<1>. SUFFICES ASSUME Init PROVE ServerInv
  OBVIOUS
<1>. USE DEF Init
<1>1. Types
  BY DEF Types
<1>2. StopInv
  BY DEF StopInv
<1>3. ASSUME NEW c \in Conns PROVE ConnInv(c)
  BY ServerAssumption DEF ConnInv, Owns, Live
<1>4. ASSUME NEW f \in Fds PROVE FileInv(f)
  BY DEF FileInv
<1>5. SocketsInv /\ StopLeavesNothing
  BY DEF SocketsInv, StopLeavesNothing
<1>. QED
  BY <1>1, <1>2, <1>3, <1>4, <1>5 DEF ServerInv

(* The steps of a session between its start and its close only move its    *)
(* thread, as far as descriptors are concerned.                            *)
Move(c) ==
  /\ thread[c] \in Live
  /\ \E place \in Live : Goto(c, place)
  /\ UNCHANGED <<serverVars, fd, file, peer>>

(* Every step of session_loop is such a move, the close or the erase.      *)
LEMMA SessionMoves ==
  ASSUME Types, NEW c \in Conns, SessionStep(c) \/ RecvWoken(c)
  PROVE  Move(c) \/ Close(c) \/ Erase(c)
<1>1. CASE Loop(c)
  BY <1>1 DEF Loop, Move, Goto, Live, netVars
<1>2. CASE Recv(c)
  BY <1>2 DEF Recv, Move, Goto, Live
<1>3. CASE RecvCall(c) \/ RecvEnd(c) \/ RecvWoken(c)
  BY <1>3 DEF RecvCall, RecvEnd, RecvWoken, Move, Goto, Live, netVars
<1>4. CASE Pump(c)
  <2>1. thread = [thread EXCEPT ![c] = thread[c]]
    BY DEF Types
  <2>. QED
    BY <1>4, <2>1 DEF Pump, Move, Goto, Live, netVars
<1>5. CASE Take(c)
  BY <1>5 DEF Take, Move, Goto, Live
<1>6. CASE Write(c)
  BY <1>6 DEF Write, Move, Goto, Live
<1>7. CASE WriteFails(c)
  BY <1>7 DEF WriteFails, Move, Goto, Live
<1>. QED
  BY <1>1, <1>2, <1>3, <1>4, <1>5, <1>6, <1>7 DEF SessionStep

(* Such a move keeps the invariant. *)
LEMMA MoveInv ==
  ASSUME ServerInv, NEW c \in Conns, Move(c)
  PROVE  ServerInv'
<1>. PICK place \in Live : Goto(c, place)
  BY DEF Move
<1>. USE DEF Move, Goto, serverVars
<1>1. Types'
  BY DEF ServerInv, Types
<1>2. StopInv'
  BY DEF ServerInv, StopInv
<1>3. \A d \in Conns : Owns(d)' <=> Owns(d)
  BY DEF ServerInv, Types, Owns
<1>4. \A d \in Conns : thread'[d] \in {"none", "done"} <=> thread[d] \in {"none", "done"}
  BY DEF ServerInv, Types, Live
<1>5. ASSUME NEW d \in Conns PROVE ConnInv(d)'
  BY <1>3, <1>4 DEF ServerInv, Types, ConnInv, Owns, Live
<1>6. ASSUME NEW f \in Fds PROVE FileInv(f)'
  BY <1>3, SMTT(20) DEF ServerInv, Types, FileInv
<1>7. SocketsInv'
  BY <1>4 DEF ServerInv, SocketsInv, Late
<1>8. StopLeavesNothing'
  BY <1>4 DEF ServerInv, StopLeavesNothing
<1>. QED
  BY <1>1, <1>2, <1>5, <1>6, <1>7, <1>8 DEF ServerInv

(* Before stop closes sockets no other connection has the descriptor, and  *)
(* afterwards nobody minds that it is closed.                              *)
LEMMA CloseInv ==
  ASSUME ServerInv, NEW c \in Conns, Close(c)
  PROVE  ServerInv'
<1>. USE DEF Close, Goto, serverVars
<1>0. Owns(c) /\ fd[c] \in Fds /\ file[fd[c]] \in {c, None}
  BY DEF ServerInv, ConnInv, Owns, Live
<1>1. Types'
  BY <1>0 DEF ServerInv, Types
<1>2. StopInv'
  BY <1>0 DEF ServerInv, Types, StopInv
<1>3. /\ \A d \in Conns : Owns(d)' => Owns(d) /\ d # c
      /\ \A d \in Conns \ {c} : Owns(d) => Owns(d)'
  BY DEF ServerInv, Types, ConnInv, Owns, Live
<1>4. \A d \in Conns : thread'[d] \in {"none", "done"} <=> thread[d] \in {"none", "done"}
  BY DEF ServerInv, Types
<1>5. ASSUME NEW d \in Conns PROVE ConnInv(d)'
  <2>1. Owns(d)' => fd'[d] \in Fds /\ file'[fd'[d]] \in {d, None}
    BY <1>3 DEF ServerInv, Types, ConnInv
  <2>2. Owns(d)' /\ stopper' \notin {"accept", "join"} => file'[fd'[d]] = d
    BY <1>0, <1>3, ServerAssumption DEF ServerInv, Types, ConnInv
  <2>3. Owns(d)' /\ accepter' = "accepting" => fd'[d] # reserved'
    BY <1>3 DEF ServerInv, ConnInv
  <2>. QED
    BY <1>4, <2>1, <2>2, <2>3 DEF ServerInv, Types, ConnInv
<1>6. ASSUME NEW f \in Fds PROVE FileInv(f)'
  BY <1>0, <1>3 DEF ServerInv, Types, FileInv
<1>7. SocketsInv'
  BY <1>4 DEF ServerInv, SocketsInv, Late
<1>8. StopLeavesNothing'
  BY <1>0, <1>4 DEF ServerInv, Types, StopLeavesNothing
<1>. QED
  BY <1>1, <1>2, <1>5, <1>6, <1>7, <1>8 DEF ServerInv

(* The entry taken off may have been put there for a later connection with *)
(* the same descriptor.                                                    *)
LEMMA EraseInv ==
  ASSUME ServerInv, NEW c \in Conns, Erase(c)
  PROVE  ServerInv'
<1>. USE DEF Erase, Goto, netVars
<1>1. Types'
  BY DEF ServerInv, Types
<1>2. StopInv'
  BY DEF ServerInv, StopInv
<1>3. \A d \in Conns : Owns(d)' <=> Owns(d)
  BY DEF ServerInv, Types, Owns, Live
<1>4. ASSUME NEW d \in Conns PROVE ConnInv(d)'
  BY <1>3 DEF ServerInv, Types, ConnInv
<1>5. ASSUME NEW f \in Fds PROVE FileInv(f)'
  BY <1>3, SMTT(20) DEF ServerInv, Types, FileInv
<1>6. SocketsInv'
  <2>. SUFFICES ASSUME stopper \in {"accept", "join"}
                PROVE  /\ accepter \in {"accepting", "push"} => sockets' = <<>>
                       /\ sockets' = <<>> \/ \E d \in Conns : Late(d)'
    BY DEF SocketsInv
  <2>1. CASE sockets = <<>>
    BY <2>1, WithoutFromShort
  <2>2. ASSUME NEW d \in Conns, Late(d) 
            PROVE  /\ accepter \notin {"accepting", "push"}
                   /\ sockets' = <<>> \/ Late(d)'
    <3>1. accepter \notin {"accepting", "push"}
      BY <2>2 DEF ServerInv, SocketsInv, Late
    <3>2. sockets' \in {<<>>, <<fd[d]>>}
      BY <2>2, WithoutFromShort DEF Late
    <3>3. d = c => sockets' = <<>>
      BY <2>2, WithoutFromShort DEF Late
    <3>. QED
      BY <2>2, <3>1, <3>2, <3>3 DEF ServerInv, Types, Late
  <2>. QED
    BY <2>1, <2>2 DEF ServerInv, SocketsInv
<1>7. StopLeavesNothing'
  BY DEF ServerInv, Types, StopLeavesNothing
<1>. QED
  BY <1>1, <1>2, <1>4, <1>5, <1>6, <1>7 DEF ServerInv

-----------------------------------------------------------------------------
(* A step that leaves threads and descriptors alone. *)
LEMMA Kept ==
  ASSUME ServerInv, UNCHANGED <<thread, threads, accepted, fd, file, peer>>,
         accepter' = "accepting" => UNCHANGED <<accepter, reserved>>,
         stopper' \in {"accept", "join"} \/ stopper \notin {"accept", "join"}
  PROVE  /\ \A c \in Conns : ConnInv(c)'
         /\ \A f \in Fds : FileInv(f)'
<1>1. \A c \in Conns : Owns(c)' <=> Owns(c)
  BY DEF Owns
<1>2. ASSUME NEW c \in Conns PROVE ConnInv(c)'
  BY <1>1 DEF ServerInv, ConnInv
<1>3. ASSUME NEW f \in Fds PROVE FileInv(f)'
  <2>1. file[f] \in Conns \cup {None}
    BY DEF ServerInv, Types
  <2>. QED
    BY <1>1, <2>1 DEF ServerInv, FileInv
<1>. QED
  BY <1>2, <1>3

(* Steps of accept_loop keep the invariant: a descriptor that is set aside *)
(* is nobody's, and stays so until the connection gets it.                 *)
LEMMA AcceptInv ==
  ASSUME ServerInv, AcceptStep \/ AcceptWoken
  PROVE  ServerInv'
<1>1. CASE AcceptCheck \/ AcceptFails
  <2>. USE <1>1 DEF AcceptCheck, AcceptFails, netVars
  <2>1. Types' /\ StopInv'
    BY SMTT(20) DEF ServerInv, Types, StopInv
  <2>2. SocketsInv'
    BY DEF ServerInv, SocketsInv, Late
  <2>3. StopLeavesNothing'
    BY DEF ServerInv, StopLeavesNothing
  <2>. QED
    BY <2>1, <2>2, <2>3, Kept DEF ServerInv
<1>2. ASSUME NEW c \in Conns, AcceptOne(c) PROVE ServerInv'
  <2>. USE <1>2 DEF AcceptOne
  <2>0. /\ accepted = None /\ thread[c] = "none" /\ c # None
        /\ reserved \in Fds /\ file[reserved] = None /\ peer'[c] = "connected"
        /\ \A d \in Conns \ {c} : peer'[d] = peer[d] \/ peer'[d] = "gone"
        /\ peer' \in [Conns -> {"unborn", "waiting", "connected", "gone"}]
    BY ServerAssumption DEF ServerInv, Types, StopInv, ConnInv, TurnAway
  <2>1. Types' /\ StopInv'
    BY <2>0 DEF ServerInv, Types, StopInv
  <2>2. \A d \in Conns \ {c} : (Owns(d)' <=> Owns(d)) /\ fd'[d] = fd[d]
    BY <2>0, ServerAssumption DEF ServerInv, Types, Owns
  <2>3. Owns(c)' /\ ~Owns(c) /\ fd'[c] = reserved /\ file'[reserved] = c
    BY <2>0, ServerAssumption DEF ServerInv, Types, Owns, Live
  <2>4. ASSUME NEW d \in Conns PROVE ConnInv(d)'
    <3>1. CASE d = c
      BY <2>0, <2>3, <3>1, SMTT(20) DEF ServerInv, Types, ConnInv
    <3>2. CASE d # c
      <4>1. Owns(d) => fd[d] # reserved
        BY <2>0 DEF ServerInv, ConnInv
      <4>2. Owns(d) => fd[d] \in Fds /\ file'[fd[d]] = file[fd[d]]
        BY <4>1 DEF ServerInv, Types, ConnInv
      <4>3. /\ accepted' # d /\ accepted # d /\ accepter' = "push"
            /\ peer'[d] \in {"unborn", "waiting"} => peer[d] \in {"unborn", "waiting"}
        BY <2>0, <3>2, ServerAssumption
      <4>. QED
        BY <2>2, <3>2, <4>2, <4>3 DEF ServerInv, ConnInv
    <3>. QED
      BY <3>1, <3>2
  <2>5. ASSUME NEW g \in Fds PROVE FileInv(g)'
    <3>1. file[g] \in Conns \cup {None} /\ (g # reserved => file'[g] = file[g])
      BY DEF ServerInv, Types
    <3>2. file[g] # c
      BY <2>0, <2>3 DEF ServerInv, FileInv
    <3>. QED
      BY <2>2, <2>3, <3>1, <3>2 DEF ServerInv, FileInv
  <2>6. SocketsInv' /\ StopLeavesNothing'
    BY <2>0 DEF ServerInv, SocketsInv, StopLeavesNothing
  <2>. QED
    BY <2>1, <2>4, <2>5, <2>6 DEF ServerInv
<1>5. ASSUME NEW f \in Fds, AcceptCall(f) PROVE ServerInv'
  <2>. USE <1>5 DEF AcceptCall, netVars
  <2>0. stopper \notin {"sockets", "accept", "join"} /\ file[f] = None
    BY DEF ServerInv, StopInv
  <2>1. Types' /\ StopInv'
    BY <2>0 DEF ServerInv, Types, StopInv
  <2>2. \A d \in Conns : Owns(d)' <=> Owns(d)
    BY DEF Owns
  <2>3. ASSUME NEW d \in Conns PROVE ConnInv(d)'
    <3>1. Owns(d) => fd[d] # f
      BY <2>0, ServerAssumption DEF ServerInv, ConnInv
    <3>. QED
      BY <2>2, <3>1 DEF ServerInv, ConnInv
  <2>4. ASSUME NEW g \in Fds PROVE FileInv(g)'
    BY <2>2 DEF ServerInv, Types, FileInv
  <2>5. SocketsInv' /\ StopLeavesNothing'
    BY <2>0 DEF ServerInv, SocketsInv, StopLeavesNothing
  <2>. QED
    BY <2>1, <2>3, <2>4, <2>5 DEF ServerInv
<1>6. CASE AcceptWoken
  <2>. USE <1>6 DEF AcceptWoken
  <2>0. /\ \A d \in Conns : peer'[d] = peer[d] \/ peer'[d] = "gone"
        /\ peer' \in [Conns -> {"unborn", "waiting", "connected", "gone"}]
    BY DEF ServerInv, Types, TurnAway
  <2>1. Types' /\ StopInv'
    BY <2>0 DEF ServerInv, Types, StopInv
  <2>2. ASSUME NEW d \in Conns PROVE ConnInv(d)'
    BY <2>0 DEF ServerInv, ConnInv, Owns
  <2>3. ASSUME NEW f \in Fds PROVE FileInv(f)'
    BY DEF ServerInv, Types, FileInv, Owns
  <2>4. SocketsInv' /\ StopLeavesNothing'
    BY DEF ServerInv, SocketsInv, Late, StopLeavesNothing
  <2>. QED
    BY <2>1, <2>2, <2>3, <2>4 DEF ServerInv
<1>3. CASE AcceptPush
  <2>. USE <1>3 DEF AcceptPush, netVars
  <2>1. Types' /\ StopInv' /\ accepted \in Conns
    BY DEF ServerInv, Types, StopInv
  <2>2. ASSUME stopper \in {"accept", "join"} PROVE Late(accepted)'
    <3>1. sockets = <<>>
      BY <2>2 DEF ServerInv, SocketsInv
    <3>2. sockets' = <<fd[accepted]>>
      BY <3>1, SMTT(20)
    <3>. QED
      BY <3>2 DEF Late
  <2>3. SocketsInv'
    BY <2>1, <2>2 DEF SocketsInv
  <2>4. StopLeavesNothing'
    BY DEF ServerInv, StopLeavesNothing
  <2>. QED
    BY <2>1, <2>3, <2>4, Kept DEF ServerInv
<1>4. CASE AcceptSpawn
  <2>. USE <1>4 DEF AcceptSpawn, netVars
  <2>0. accepted \in Conns /\ accepted # None /\ thread[accepted] = "none"
    BY DEF ServerInv, Types, StopInv, ConnInv
  <2>1. Types' /\ StopInv'
    BY <2>0 DEF ServerInv, Types, StopInv, Live
  <2>2. \A d \in Conns : Owns(d)' <=> Owns(d)
    BY <2>0, ServerAssumption DEF ServerInv, Types, Owns, Live
  <2>3. ASSUME NEW d \in Conns PROVE ConnInv(d)'
    BY <2>0, <2>2, ServerAssumption, SMTT(20) DEF ServerInv, Types, ConnInv
  <2>4. ASSUME NEW f \in Fds PROVE FileInv(f)'
    BY <2>2 DEF ServerInv, Types, FileInv
  <2>5. SocketsInv'
    BY <2>0 DEF ServerInv, Types, SocketsInv, Late
  <2>6. StopLeavesNothing'
    BY DEF ServerInv, StopLeavesNothing
  <2>. QED
    BY <2>1, <2>3, <2>4, <2>5, <2>6 DEF ServerInv
<1>. QED
  BY <1>1, <1>2, <1>3, <1>4, <1>5, <1>6 DEF AcceptStep

(* Steps of stop keep it; what is left at its end is nothing. *)
LEMMA StopStepInv ==
  ASSUME ServerInv, StopStep
  PROVE  ServerInv'
<1>1. CASE StopListener
  <2>. USE <1>1 DEF StopListener
  <2>0. /\ \A d \in Conns : peer'[d] = peer[d] \/ peer'[d] = "gone"
        /\ peer' \in [Conns -> {"unborn", "waiting", "connected", "gone"}]
    BY DEF ServerInv, Types, TurnAway
  <2>1. Types' /\ StopInv'
    BY <2>0 DEF ServerInv, Types, StopInv
  <2>2. ASSUME NEW c \in Conns PROVE ConnInv(c)'
    BY <2>0 DEF ServerInv, ConnInv, Owns
  <2>3. ASSUME NEW f \in Fds PROVE FileInv(f)'
    BY DEF ServerInv, Types, FileInv, Owns
  <2>4. SocketsInv' /\ StopLeavesNothing'
    BY DEF SocketsInv, StopLeavesNothing
  <2>. QED
    BY <2>1, <2>2, <2>3, <2>4 DEF ServerInv
<1>2. CASE StopSockets
  <2>. USE <1>2 DEF StopSockets
  <2>1. Types' /\ StopInv'
    BY DEF ServerInv, Types, StopInv
  <2>2. ASSUME NEW c \in Conns PROVE ConnInv(c)'
    BY DEF ServerInv, Types, ConnInv, Owns
  <2>3. ASSUME NEW f \in Fds PROVE FileInv(f)'
    BY DEF ServerInv, Types, FileInv, Owns
  <2>4. SocketsInv' /\ StopLeavesNothing'
    BY DEF SocketsInv, StopLeavesNothing
  <2>. QED
    BY <2>1, <2>2, <2>3, <2>4 DEF ServerInv
<1>3. CASE JoinAccept
  <2>. USE <1>3 DEF JoinAccept, netVars
  <2>1. Types' /\ StopInv'
    BY DEF ServerInv, Types, StopInv
  <2>2. SocketsInv'
    BY DEF ServerInv, SocketsInv, Late
  <2>3. StopLeavesNothing'
    BY DEF StopLeavesNothing
  <2>. QED
    BY <2>1, <2>2, <2>3, Kept DEF ServerInv
<1>4. CASE JoinSessions
  <2>. USE <1>4 DEF JoinSessions, netVars
  <2>0. /\ \A c \in Conns : thread[c] \in {"none", "done"} /\ accepted # c
        /\ \A c \in Conns : ~Owns(c)
    BY ServerAssumption DEF ServerInv, StopInv, ConnInv, Owns, Live
  <2>1. Types' /\ StopInv'
    BY DEF ServerInv, Types, StopInv
  <2>2. ASSUME NEW c \in Conns PROVE ConnInv(c)'
    BY <2>0 DEF ServerInv, Types, ConnInv, Owns
  <2>3. ASSUME NEW f \in Fds PROVE file[f] = None /\ FileInv(f)'
    BY <2>0 DEF ServerInv, Types, FileInv
  <2>4. sockets = <<>>
    BY <2>0 DEF ServerInv, SocketsInv, Late
  <2>5. SocketsInv' /\ StopLeavesNothing'
    BY <2>0, <2>3, <2>4, ZenonT(30) DEF ServerInv, StopInv, SocketsInv, StopLeavesNothing
  <2>. QED
    BY <2>1, <2>2, <2>3, <2>5 DEF ServerInv
<1>. QED
  BY <1>1, <1>2, <1>3, <1>4 DEF StopStep

(* Clients come and go without touching it. *)
LEMMA ClientInv ==
  ASSUME ServerInv, NEW c \in Conns, Connect(c) \/ Disconnect(c)
  PROVE  ServerInv'
<1>. USE DEF Connect, Disconnect, serverVars
<1>1. Types' /\ StopInv'
  BY SMTT(20) DEF ServerInv, Types, StopInv
<1>2. ASSUME NEW d \in Conns PROVE ConnInv(d)'
  BY DEF ServerInv, Types, ConnInv, Owns
<1>3. ASSUME NEW f \in Fds PROVE FileInv(f)'
  BY DEF ServerInv, Types, FileInv, Owns
<1>4. SocketsInv' /\ StopLeavesNothing'
  BY DEF ServerInv, SocketsInv, Late, StopLeavesNothing
<1>. QED
  BY <1>1, <1>2, <1>3, <1>4 DEF ServerInv

(* So do the calls of start and stop themselves. *)
LEMMA CallInv ==
  ASSUME ServerInv, Start \/ StartFails \/ Stop
  PROVE  ServerInv'
<1>. USE DEF Start, StartFails, Stop, netVars
<1>1. Types' /\ StopInv'
  BY DEF ServerInv, Types, StopInv, StopLeavesNothing
<1>2. SocketsInv' /\ StopLeavesNothing'
  BY DEF SocketsInv, StopLeavesNothing
<1>. QED
  BY <1>1, <1>2, Kept DEF ServerInv

(* And steps that change nothing. *)
LEMMA StutterInv ==
  ASSUME ServerInv, UNCHANGED vars
  PROVE  ServerInv'
<1>. USE DEF vars, serverVars, netVars
<1>1. Types' /\ StopInv'
  BY DEF ServerInv, Types, StopInv
<1>2. SocketsInv' /\ StopLeavesNothing'
  BY DEF ServerInv, SocketsInv, Late, StopLeavesNothing
<1>. QED
  BY <1>1, <1>2, Kept DEF ServerInv

(* The invariant holds whatever the threads, the clients and the caller of *)
(* start and stop do.                                                      *)
THEOREM ServerInvariance == Spec => []ServerInv
<1>1. ServerInv /\ [Next]_vars => ServerInv'
  BY ClientInv, CallInv, AcceptInv, StopStepInv, SessionMoves, MoveInv, CloseInv,
     EraseInv, StutterInv DEF Next, Wake, ServerInv
<1>. QED
  BY InitServerInv, <1>1, PTL DEF Spec

(* session_loop works on and closes its own socket, also when stop closes  *)
(* sockets under its feet: for any number of connections and descriptors.  *)
THEOREM DescriptorsAreOwn == Spec => []SocketIsMine
<1>1. ServerInv => SocketIsMine
  BY DEF ServerInv, ConnInv, Owns, Live, SocketIsMine
<1>. QED
  BY ServerInvariance, <1>1, PTL

(* When Server::stop has returned nothing of the server is left, wherever  *)
(* its threads were as it began.                                           *)
THEOREM StopIsClean == Spec => []StopLeavesNothing
<1>1. ServerInv => StopLeavesNothing
  BY DEF ServerInv
<1>. QED
  BY ServerInvariance, <1>1, PTL

-----------------------------------------------------------------------------
(* A socket that is closed stays closed for its connection, and a client   *)
(* that is gone does not return.                                           *)
LEMMA CutOffStays ==
  ASSUME ServerInv, Next, NEW c \in Conns, thread[c] = "close", CutOff(c)
  PROVE  CutOff(c)'
<1>1. /\ peer[c] \notin {"unborn", "waiting"} /\ fd[c] \in Fds /\ c # None
      /\ fd \in [Conns -> Fds \cup {None}] /\ file \in [Fds -> Conns \cup {None}]
      /\ peer \in [Conns -> {"unborn", "waiting", "connected", "gone"}]
      /\ thread \in [Conns -> Live \cup {"none", "erase", "done"}]
  BY ServerAssumption DEF ServerInv, Types, ConnInv, Owns, Live
<1>2. CASE UNCHANGED <<fd, file, peer>>
  BY <1>2 DEF CutOff
<1>3. ASSUME NEW d \in Conns, Connect(d) \/ Disconnect(d) PROVE CutOff(c)'
  BY <1>1, <1>3 DEF Connect, Disconnect, CutOff
<1>4. ASSUME NEW d \in Conns, AcceptOne(d) PROVE CutOff(c)'
  <2>1. c # d /\ fd'[c] = fd[c] /\ (peer[c] = "gone" => peer'[c] = "gone")
    BY <1>1, <1>4 DEF AcceptOne, TurnAway
  <2>2. file'[fd[c]] \in {file[fd[c]], d}
    BY <1>1, <1>4 DEF AcceptOne
  <2> QED BY <2>1, <2>2 DEF CutOff
<1>5. ASSUME NEW d \in Conns, Close(d) PROVE CutOff(c)'
  <2>1. file'[fd[c]] \in {file[fd[c]], None}
    BY <1>1, <1>5 DEF Close
  <2> QED BY <1>1, <1>5, <2>1 DEF Close, CutOff
<1>6. CASE StopListener \/ AcceptWoken
  BY <1>1, <1>6 DEF StopListener, AcceptWoken, TurnAway, CutOff
<1>7. CASE StopSockets
  <2>1. file'[fd[c]] \in {file[fd[c]], None}
    BY <1>1, <1>7 DEF StopSockets
  <2> QED BY <1>1, <1>7, <2>1 DEF StopSockets, CutOff
<1>8. CASE Start \/ StartFails \/ Stop \/ JoinAccept \/ JoinSessions
  BY <1>2, <1>8 DEF Start, StartFails, Stop, JoinAccept, JoinSessions, netVars
<1>9. CASE AcceptStep
  <2>1. CASE \/ AcceptCheck \/ AcceptFails \/ AcceptPush \/ AcceptSpawn
             \/ \E f \in Fds : AcceptCall(f)
    BY <1>2, <2>1 DEF AcceptCheck, AcceptFails, AcceptPush, AcceptSpawn, AcceptCall, netVars
  <2> QED BY <1>4, <1>9, <2>1 DEF AcceptStep
<1>10. ASSUME NEW d \in Conns, SessionStep(d) \/ RecvWoken(d) PROVE CutOff(c)'
  <2>1. CASE Move(d)
    BY <1>2, <2>1 DEF Move
  <2>2. CASE Erase(d)
    BY <1>2, <2>2 DEF Erase, netVars
  <2>3. Types
    BY DEF ServerInv
  <2> QED BY <1>5, <1>10, <2>1, <2>2, <2>3, SessionMoves
<1> QED BY <1>3, <1>6, <1>7, <1>8, <1>9, <1>10 DEF Next, Wake, StopStep

(* A step of session_loop that neither adds nor loses a message. *)
LEMMA SameTalk ==
  ASSUME NEW c \in Conns, Talk(c), Farewell(c),
         state'[c] = state[c], handled'[c] = handled[c], Replies(c)' = Replies(c),
         thread'[c] \in Up => thread[c] \in Up,
         thread'[c] \in {"recv", "receiving"} => state[c] # "Closing",
         thread[c] \in Up \/ thread'[c] \in {"erase", "done"}
  PROVE  Talk(c)' /\ Farewell(c)'
<1>1. Talk(c)'
  BY DEF Talk
<1>2. Farewell(c)'
  <2>1. state[c] = "Closing" => SaidLogout(Replies(c)) \/ thread'[c] \in {"erase", "done"}
    BY DEF Farewell, Up
  <2> QED BY <2>1 DEF Farewell
<1> QED BY <1>1, <1>2

(* The stream is as it was. *)
LEMMA SameFraming ==
  ASSUME NEW c \in Conns, Framing(c), handled'[c] = handled[c], script'[c] = script[c],
         buf'[c] = buf[c], wire'[c] = wire[c], error'[c] = "None" => error[c] = "None"
  PROVE  Framing(c)'
BY DEF Framing

(* The loop condition, the ends of recv and of pump, close and erase. *)
LEMMA PlainTalk ==
  ASSUME SessionTypes, NEW c \in Conns, TalkInv(c),
         thread \in [Conns -> Live \cup {"none", "erase", "done"}],
         \/ Loop(c) \/ RecvCall(c) \/ RecvEnd(c) \/ RecvWoken(c) \/ Close(c) \/ Erase(c)
         \/ thread[c] = "pump" /\ PumpEnd(c) /\ Goto(c, "send") /\ UNCHANGED netVars
  PROVE  TalkInv(c)' /\ SessionTypes'
<1>1. /\ state' = state /\ handled' = handled /\ outbound' = outbound /\ sending' = sending
      /\ got' = got /\ buf' = buf /\ wire' = wire /\ script' = script
  BY DEF Loop, RecvCall, RecvEnd, RecvWoken, Close, Erase, PumpEnd, sessionVars, netVars
<1>2. error' \in [Conns -> {"None"} \cup Malformed] /\ (error'[c] = "None" => error[c] = "None")
  <2>1. CASE UNCHANGED error
    BY <2>1 DEF SessionTypes
  <2>2. CASE PumpEnd(c)
    <3>1. CASE Flags(c)
      <4>1. FrontFrame(c) \in Malformed /\ error' = [error EXCEPT ![c] = FrontFrame(c)]
        BY <2>2, <3>1 DEF PumpEnd, Flags, Malformed
      <4>2. "None" \notin Malformed
        BY DEF Malformed
      <4> QED BY <4>1, <4>2 DEF SessionTypes
    <3> QED BY <2>1, <2>2, <3>1 DEF PumpEnd
  <2> QED BY <2>1, <2>2 DEF Loop, RecvCall, RecvEnd, RecvWoken, Close, Erase, sessionVars
<1>3. SessionTypes'
  BY <1>1, <1>2 DEF SessionTypes
<1>4. /\ thread'[c] \in Up => thread[c] \in Up
      /\ thread'[c] \in {"recv", "receiving"} => state[c] # "Closing"
      /\ thread[c] \in Up \/ thread'[c] \in {"erase", "done"}
      /\ thread'[c] # "none"
      /\ \/ thread[c] \in {"loop", "recv", "receiving", "close", "erase"}
         \/ thread[c] = "pump" /\ thread'[c] = "send"
  <2>1. \/ /\ thread[c] = "loop"
           /\ thread'[c] = IF running /\ state[c] # "Closing" THEN "recv" ELSE "close"
        \/ thread[c] = "recv" /\ thread'[c] \in {"receiving", "close"}
        \/ thread[c] = "receiving" /\ thread'[c] = "close"
        \/ thread[c] = "close" /\ thread'[c] = "erase"
        \/ thread[c] = "erase" /\ thread'[c] = "done"
        \/ thread[c] = "pump" /\ thread'[c] = "send"
    <3>1. \A place : Goto(c, place) => thread'[c] = place
      BY DEF Goto
    <3> QED BY <3>1 DEF Loop, RecvCall, RecvEnd, RecvWoken, Close, Erase
  <2>2. thread[c] = "recv" => state[c] # "Closing"
    BY DEF TalkInv, Farewell
  <2> QED BY <2>1, <2>2 DEF Up
<1>5. Replies(c)' = Replies(c)
  BY <1>1 DEF Replies
<1>6. Quiet(c)'
  BY <1>1, <1>4 DEF TalkInv, Quiet
<1>7. Talk(c)' /\ Farewell(c)'
  BY <1>1, <1>4, <1>5, SameTalk DEF TalkInv
<1>8. Framing(c)'
  BY <1>1, <1>2, SameFraming DEF TalkInv
<1> QED BY <1>3, <1>6, <1>7, <1>8 DEF TalkInv

(* A chunk goes from the wire to the buffer. *)
LEMMA RecvTalk ==
  ASSUME SessionTypes, NEW c \in Conns, TalkInv(c),
         thread \in [Conns -> Live \cup {"none", "erase", "done"}],
         Recv(c)
  PROVE  TalkInv(c)' /\ SessionTypes'
<1> DEFINE b == buf[c]
           w == wire[c]
<1>1. PICK n \in 1..Len(w) :
        /\ feed(c, SubSeq(w, 1, n))
        /\ wire' = [wire EXCEPT ![c] = SubSeq(w, n + 1, Len(w))]
  BY DEF Recv
<1> DEFINE x == SubSeq(w, 1, n)
           y == SubSeq(w, n + 1, Len(w))
<1>2. b \in Seq(Byte) /\ w \in Seq(Byte) /\ handled[c] \in Seq(Frames)
  BY DEF SessionTypes
<1>3. x \in Seq(Byte) /\ y \in Seq(Byte) /\ x \o y = w /\ b \o x \in Seq(Byte)
  <2> HIDE DEF b, w
  <2>1. n \in 0..Len(w)
    BY <1>2, SeqFacts, SMTT(20)
  <2>2. x \in Seq(Byte) /\ y \in Seq(Byte) /\ x \o y = w
    BY <1>2, <2>1, Cut
  <2> HIDE DEF x, y
  <2> QED BY <1>2, <2>2, ConcatFacts
<1>4. /\ state' = state /\ handled' = handled /\ outbound' = outbound /\ sending' = sending
      /\ got' = got /\ script' = script /\ error' = error
      /\ wire' = [wire EXCEPT ![c] = y]
      /\ buf' = IF error[c] = "None" THEN [buf EXCEPT ![c] = b \o x] ELSE buf
  BY <1>1 DEF Recv, feed
<1> HIDE DEF x, y
<1>5. SessionTypes'
  BY <1>3, <1>4 DEF SessionTypes
<1>6. thread[c] = "receiving" /\ thread'[c] \in {"pump", "close"}
  BY DEF Recv, Goto
<1>7. Replies(c)' = Replies(c)
  BY <1>4 DEF Replies
<1>8. Quiet(c)'
  BY <1>4, <1>6 DEF TalkInv, Quiet
<1>9. Talk(c)' /\ Farewell(c)'
  BY <1>4, <1>6, <1>7, SameTalk DEF TalkInv, Up
<1>10. Framing(c)'
  <2>1. wire'[c] = y /\ (error[c] = "None" => buf'[c] = b \o x)
    BY <1>4 DEF SessionTypes
  <2>2. Stream(handled[c]) \in Seq(Byte)
    BY <1>2, StreamAppend DEF Frames
  <2> DEFINE a == Stream(handled[c])
  <2>3. (a \o b) \o w = (a \o (b \o x)) \o y
    <3> HIDE DEF a, b, w, x, y
    <3>1. a \in Seq(Byte)
      BY <2>2 DEF a
    <3>2. (a \o b) \in Seq(Byte)
      BY <1>2, <3>1, ConcatFacts
    <3>3. (a \o b) \o (x \o y) = ((a \o b) \o x) \o y
      <4>1. x \in Seq(Byte) /\ y \in Seq(Byte)
        BY <1>3
      <4> QED BY <3>2, <4>1, BytesAssociative
    <3>4. (a \o b) \o x = a \o (b \o x)
      <4>1. b \in Seq(Byte) /\ x \in Seq(Byte)
        BY <1>2, <1>3
      <4> QED BY <3>1, <4>1, BytesAssociative
    <3> QED BY <1>3, <3>3, <3>4
  <2> QED BY <1>4, <2>1, <2>3 DEF TalkInv, Framing
<1> QED BY <1>5, <1>8, <1>9, <1>10 DEF TalkInv

(* take_outbound hands everything over. *)
LEMMA TakeTalk ==
  ASSUME SessionTypes, NEW c \in Conns, TalkInv(c),
         thread \in [Conns -> Live \cup {"none", "erase", "done"}],
         Take(c)
  PROVE  TalkInv(c)' /\ SessionTypes'
<1>1. /\ state' = state /\ handled' = handled /\ got' = got /\ script' = script
      /\ error' = error /\ wire' = wire /\ buf' = buf
      /\ outbound' = [outbound EXCEPT ![c] = <<>>]
      /\ sending' = [sending EXCEPT ![c] = outbound[c]]
  BY DEF Take, take_outbound
<1>2. SessionTypes'
  BY <1>1, EmptyFacts DEF SessionTypes
<1>3. /\ thread[c] = "send" /\ outbound'[c] = <<>> /\ sending'[c] = outbound[c]
      /\ thread'[c] = IF outbound[c] = <<>> THEN "loop" ELSE "write"
  BY <1>1 DEF Take, Goto, SessionTypes
<1>4. Replies(c)' = Replies(c)
  <2>1. sending[c] = <<>>
    BY <1>3 DEF TalkInv, Quiet
  <2>2. /\ got[c] \in Seq(Reply) /\ outbound[c] \in Seq(Reply)
        /\ got[c] \o outbound[c] \in Seq(Reply)
    BY RepliesType, ConcatFacts
  <2>3. got[c] \o <<>> = got[c] /\ (got[c] \o outbound[c]) \o <<>> = got[c] \o outbound[c]
    BY <2>2, EmptyFacts
  <2> QED BY <1>1, <1>3, <2>1, <2>3 DEF Replies
<1>5. Quiet(c)'
  BY <1>3 DEF Quiet
<1>6. Talk(c)' /\ Farewell(c)'
  BY <1>1, <1>3, <1>4, SameTalk DEF TalkInv, Up
<1>7. Framing(c)'
  BY <1>1, SameFraming DEF TalkInv
<1> QED BY <1>2, <1>5, <1>6, <1>7 DEF TalkInv

(* send takes some of it. *)
LEMMA WriteTalk ==
  ASSUME SessionTypes, NEW c \in Conns, TalkInv(c),
         thread \in [Conns -> Live \cup {"none", "erase", "done"}],
         Write(c)
  PROVE  TalkInv(c)' /\ SessionTypes'
<1> DEFINE s == sending[c]
<1>1. PICK n \in 1..Len(s) :
        /\ got' = [got EXCEPT ![c] = @ \o SubSeq(s, 1, n)]
        /\ sending' = [sending EXCEPT ![c] = SubSeq(s, n + 1, Len(s))]
  BY DEF Write
<1> DEFINE x == SubSeq(s, 1, n)
           y == SubSeq(s, n + 1, Len(s))
<1>2. got[c] \in Seq(Reply) /\ s \in Seq(Reply)
  BY DEF SessionTypes
<1>3. x \in Seq(Reply) /\ y \in Seq(Reply) /\ x \o y = s /\ got[c] \o x \in Seq(Reply)
  <2> HIDE DEF s
  <2>1. n \in 0..Len(s)
    BY <1>2, SeqFacts, SMTT(20)
  <2>2. x \in Seq(Reply) /\ y \in Seq(Reply) /\ x \o y = s
    BY <1>2, <2>1, Cut
  <2> HIDE DEF x, y
  <2> QED BY <1>2, <2>2, ConcatFacts
<1>4. /\ state' = state /\ handled' = handled /\ outbound' = outbound /\ script' = script
      /\ error' = error /\ wire' = wire /\ buf' = buf
      /\ got' = [got EXCEPT ![c] = got[c] \o x] /\ sending' = [sending EXCEPT ![c] = y]
  BY <1>1 DEF Write, sessionVars
<1> HIDE DEF x, y
<1>5. SessionTypes'
  BY <1>3, <1>4 DEF SessionTypes
<1>6. /\ thread[c] = "write" /\ got'[c] = got[c] \o x /\ sending'[c] = y
      /\ thread'[c] = IF y = <<>> THEN "loop" ELSE "write"
  <2>1. got'[c] = got[c] \o x /\ sending'[c] = y
    BY <1>4 DEF SessionTypes
  <2> QED BY <2>1 DEF Write, Goto
<1>7. outbound[c] = <<>>
  BY <1>6 DEF TalkInv, Quiet
<1>8. Replies(c)' = Replies(c)
  <2>1. (got[c] \o x) \o y = got[c] \o (x \o y)
    BY <1>2, <1>3, RepliesAssociative
  <2> QED BY <1>3, <1>4, <1>6, <2>1 DEF Replies
<1>9. Quiet(c)'
  BY <1>4, <1>6, <1>7 DEF Quiet
<1>10. Talk(c)' /\ Farewell(c)'
  BY <1>4, <1>6, <1>8, SameTalk DEF TalkInv, Up
<1>11. Framing(c)'
  BY <1>4, SameFraming DEF TalkInv
<1> QED BY <1>5, <1>9, <1>10, <1>11 DEF TalkInv

(* send fails: the client keeps what it got. *)
LEMMA WriteFailsTalk ==
  ASSUME SessionTypes, NEW c \in Conns, TalkInv(c),
         thread \in [Conns -> Live \cup {"none", "erase", "done"}],
         WriteFails(c)
  PROVE  TalkInv(c)' /\ SessionTypes'
<1>1. /\ state' = state /\ handled' = handled /\ outbound' = outbound /\ script' = script
      /\ error' = error /\ wire' = wire /\ buf' = buf /\ got' = got
      /\ sending' = [sending EXCEPT ![c] = <<>>]
      /\ fd' = fd /\ file' = file /\ peer' = peer
  BY DEF WriteFails, sessionVars
<1>2. SessionTypes'
  BY <1>1, EmptyFacts DEF SessionTypes
<1>3. thread[c] = "write" /\ thread'[c] = "close" /\ sending'[c] = <<>> /\ CutOff(c)
  BY <1>1 DEF WriteFails, Goto, SessionTypes, CutOff
<1>4. outbound[c] = <<>>
  BY <1>3 DEF TalkInv, Quiet
<1>5. Replies(c)' = got[c] /\ Replies(c) = got[c] \o sending[c]
  <2>1. /\ got[c] \in Seq(Reply) /\ sending[c] \in Seq(Reply)
        /\ got[c] \o sending[c] \in Seq(Reply)
    BY RepliesType, ConcatFacts
  <2>2. /\ got[c] \o <<>> = got[c]
        /\ (got[c] \o sending[c]) \o <<>> = got[c] \o sending[c]
    BY <2>1, EmptyFacts
  <2> QED BY <1>1, <1>3, <1>4, <2>2 DEF Replies
<1>6. Quiet(c)'
  BY <1>1, <1>3, <1>4 DEF Quiet
<1>7. Talk(c)'
  <2>1. got[c] \in Seq(Reply) /\ sending[c] \in Seq(Reply)
    BY RepliesType
  <2>2. RepliesTrue(handled[c], got[c] \o sending[c]) /\ InOrder(got[c] \o sending[c])
    BY <1>5 DEF TalkInv, Talk
  <2>3. RepliesTrue(handled[c], got[c]) /\ InOrder(got[c])
    BY <2>1, <2>2, OnlyTheFirst
  <2>4. thread'[c] \notin Up
    BY <1>3 DEF Up
  <2> QED BY <1>1, <1>5, <2>3, <2>4 DEF Talk
<1>8. Farewell(c)'
  <2>1. CutOff(c)'
    BY <1>1, <1>3 DEF CutOff
  <2> QED BY <1>1, <1>3, <2>1 DEF TalkInv, Farewell
<1>9. Framing(c)'
  BY <1>1, SameFraming DEF TalkInv
<1> QED BY <1>2, <1>6, <1>7, <1>8, <1>9 DEF TalkInv

-----------------------------------------------------------------------------
(* A session step leaves the other sessions alone. *)
LEMMA OthersTalk ==
  ASSUME SessionTypes, NEW c \in Conns, NEW d \in Conns, c # d,
         SessionStep(c) \/ RecvWoken(c),
         thread \in [Conns -> Live \cup {"none", "erase", "done"}]
  PROVE  Idle(d)
<1>1. thread'[d] = thread[d]
  BY DEF SessionStep, Loop, RecvCall, Recv, RecvEnd, RecvWoken, Pump, Take, Write,
     WriteFails, Close, Erase, Goto
<1>2. CASE Loop(c) \/ RecvCall(c) \/ RecvEnd(c) \/ RecvWoken(c) \/ Close(c) \/ Erase(c)
  BY <1>1, <1>2 DEF Loop, RecvCall, RecvEnd, RecvWoken, Close, Erase, sessionVars,
     netVars, Idle
<1>3. CASE Recv(c)
  <2>1. buf'[d] = buf[d] /\ wire'[d] = wire[d]
    BY <1>3 DEF Recv, feed, SessionTypes
  <2> QED BY <1>1, <1>3, <2>1 DEF Recv, Idle
<1>4. CASE Pump(c)
  <2>1. /\ buf'[d] = buf[d] /\ error'[d] = error[d] /\ state'[d] = state[d]
        /\ outbound'[d] = outbound[d] /\ handled'[d] = handled[d]
    <3>1. CASE PumpEnd(c)
      BY <3>1 DEF PumpEnd, SessionTypes
    <3>2. CASE PumpMessage(c)
      <4>1. buf'[d] = buf[d] /\ error'[d] = error[d] /\ handled'[d] = handled[d]
        BY <3>2 DEF PumpMessage, Handle, SessionTypes
      <4>2. \A kinds : emit(c, kinds) => outbound'[d] = outbound[d]
        BY DEF emit, SessionTypes
      <4>3. Dispatch(c, FrontFrame(c))
        BY <3>2 DEF PumpMessage, Handle
      <4>4. state'[d] = state[d]
        BY <4>3 DEF Dispatch, handle_logon, handle_logout, handle_heartbeat,
           handle_new_order, handle_cancel, SessionTypes
      <4>5. outbound'[d] = outbound[d]
        BY <4>2, <4>3 DEF Dispatch, handle_logon, handle_logout, handle_heartbeat,
           handle_new_order, handle_cancel
      <4> QED BY <4>1, <4>4, <4>5
    <3> QED BY <1>4, <3>1, <3>2 DEF Pump
  <2> QED BY <1>1, <1>4, <2>1 DEF Pump, netVars, Idle
<1>5. CASE Take(c)
  <2>1. outbound'[d] = outbound[d] /\ sending'[d] = sending[d]
    BY <1>5 DEF Take, take_outbound, SessionTypes
  <2> QED BY <1>1, <1>5, <2>1 DEF Take, Idle
<1>6. CASE Write(c)
  <2>1. got'[d] = got[d] /\ sending'[d] = sending[d]
    BY <1>6 DEF Write, SessionTypes
  <2> QED BY <1>1, <1>6, <2>1 DEF Write, sessionVars, Idle
<1>7. CASE WriteFails(c)
  <2>1. sending'[d] = sending[d]
    BY <1>7 DEF WriteFails, SessionTypes
  <2> QED BY <1>1, <1>7, <2>1 DEF WriteFails, sessionVars, Idle
<1> QED BY <1>1, <1>2, <1>3, <1>4, <1>5, <1>6, <1>7 DEF SessionStep

(* Steps of the session threads. *)
LEMMA SessionStepTalk ==
  ASSUME ServerInv, SessionInv, Next, NEW c \in Conns, SessionStep(c) \/ RecvWoken(c)
  PROVE  SessionInv'
<1>1. SessionTypes /\ TalkInv(c) /\ thread \in [Conns -> Live \cup {"none", "erase", "done"}]
  BY DEF ServerInv, Types, SessionInv
<1>2. TalkInv(c)' /\ SessionTypes'
  <2>1. CASE Pump(c)
    <3>1. CASE PumpMessage(c) /\ UNCHANGED thread
      BY <1>1, <2>1, <3>1, PumpTalk DEF Pump
    <3>2. CASE PumpEnd(c) /\ Goto(c, "send")
      BY <1>1, <2>1, <3>2, PlainTalk DEF Pump
    <3> QED BY <2>1, <3>1, <3>2 DEF Pump
  <2> QED BY <1>1, <2>1, PlainTalk, RecvTalk, TakeTalk, WriteTalk, WriteFailsTalk
             DEF SessionStep
<1>3. ASSUME NEW d \in Conns, d # c PROVE TalkInv(d)'
  <2>1. Idle(d)
    BY <1>1, <1>3, OthersTalk
  <2>2. thread[d] = "close" /\ CutOff(d) => CutOff(d)'
    BY CutOffStays
  <2>3. TalkInv(d)
    BY DEF SessionInv
  <2> QED BY <2>1, <2>2, <2>3, SameInv
<1> QED BY <1>2, <1>3 DEF SessionInv

(* Every other step leaves what sessions have heard and said alone, and at *)
(* most starts a thread.                                                   *)
LEMMA OtherStepTalk ==
  ASSUME ServerInv, SessionInv, Next, UNCHANGED <<sessionVars, sending, got, script, wire>>,
         \A c \in Conns : \/ thread'[c] = thread[c]
                          \/ thread[c] = "none" /\ thread'[c] = "loop"
  PROVE  SessionInv'
<1>1. SessionTypes'
  BY DEF SessionInv, SessionTypes, sessionVars
<1>2. ASSUME NEW c \in Conns PROVE TalkInv(c)'
  <2>0. TalkInv(c)
    BY DEF SessionInv
  <2>1. CASE thread'[c] = thread[c]
    <3>1. Idle(c)
      BY <2>1 DEF Idle, sessionVars
    <3>2. thread[c] = "close" /\ CutOff(c) => CutOff(c)'
      BY CutOffStays
    <3> QED BY <2>0, <3>1, <3>2, SameInv
  <2>2. CASE thread[c] = "none" /\ thread'[c] = "loop"
    <3>1. /\ buf[c] = <<>> /\ handled[c] = <<>> /\ error[c] = "None" /\ got[c] = <<>>
          /\ outbound[c] = <<>> /\ sending[c] = <<>>
      BY <2>0, <2>2 DEF TalkInv, Quiet
    <3>2. Quiet(c)'
      BY <2>2, <3>1 DEF Quiet, sessionVars
    <3>3. Replies(c)' = <<>> /\ handled'[c] = <<>> /\ state'[c] = state[c]
      BY <3>1, SMTT(20) DEF Replies, sessionVars
    <3>4. Talk(c)'
      BY <3>3, FreshTalk DEF Talk
    <3>5. state[c] = "NotLoggedOn"
      BY <2>0, <3>1, FreshTalk DEF TalkInv, Farewell
    <3>6. Farewell(c)'
      BY <3>3, <3>5, FreshTalk DEF Farewell
    <3>7. Framing(c)'
      BY <2>0, SameFraming DEF TalkInv, sessionVars
    <3> QED BY <3>2, <3>4, <3>6, <3>7 DEF TalkInv
  <2> QED BY <2>1, <2>2
<1> QED BY <1>1, <1>2 DEF SessionInv

(* A server that was never started: all the clients will send is to come.  *)
LEMMA InitTalk == Init => SessionInv
<1> SUFFICES ASSUME Init PROVE SessionInv
  OBVIOUS
<1>0. script \in [Conns -> Seq(Frames)]
  <2>1. PICK sends \in Scripts :
          script = [c \in Conns |-> IF c \in DOMAIN sends THEN sends[c] ELSE <<>>]
    BY DEF Init
  <2>2. PICK come \in SUBSET Conns : sends \in [come -> Seq(Frames)]
    BY ServerAssumption
  <2>3. <<>> \in Seq(Frames)
    BY EmptyFacts
  <2> QED BY <2>1, <2>2, <2>3
<1>1. ASSUME NEW c \in Conns
      PROVE  Stream(script[c]) \in Seq(Byte) /\ wire[c] = Stream(script[c])
  BY <1>0, StreamAppend DEF Init, Frames
<1>2. SessionTypes
  <2>1. wire \in [Conns -> Seq(Byte)]
    BY <1>1 DEF Init
  <2> QED BY <1>0, <2>1, EmptyFacts DEF Init, SessionInit, SessionTypes, States
<1>3. ASSUME NEW c \in Conns PROVE TalkInv(c)
  <2>1. /\ buf[c] = <<>> /\ handled[c] = <<>> /\ error[c] = "None" /\ got[c] = <<>>
        /\ outbound[c] = <<>> /\ sending[c] = <<>> /\ state[c] = "NotLoggedOn"
        /\ thread[c] = "none"
    BY DEF Init, SessionInit
  <2>2. Replies(c) = <<>>
    BY <2>1, SMTT(20) DEF Replies
  <2>3. Quiet(c)
    BY <2>1 DEF Quiet
  <2>4. Talk(c)
    BY <2>1, <2>2, FreshTalk DEF Talk
  <2>5. Farewell(c)
    BY <2>1, FreshTalk DEF Farewell
  <2>6. Framing(c)
    <3> DEFINE s == script[c]
    <3>1. s \in Seq(Frames) /\ Stream(s) \in Seq(Byte) /\ Stream(<<>>) = <<>>
      BY <1>0, <1>1, StreamAppend DEF Frames
    <3>2. Len(<<>>) = 0 /\ 0 <= Len(s) /\ SubSeq(s, 1, 0) = <<>>
      BY <3>1, SMTT(20)
    <3>3. (<<>> \o <<>>) \o Stream(s) = Stream(s)
      BY <3>1, EmptyFacts
    <3>4. \A n \in 1..Len(<<>>) : <<>>[n] \notin Malformed
      BY SMTT(20)
    <3> QED BY <1>1, <2>1, <3>1, <3>2, <3>3, <3>4 DEF Framing
  <2> QED BY <2>3, <2>4, <2>5, <2>6 DEF TalkInv
<1> QED BY <1>2, <1>3 DEF SessionInv

(* Every step keeps it. *)
LEMMA NextTalk ==
  ASSUME ServerInv, SessionInv, [Next]_vars
  PROVE  SessionInv'
<1>0. thread \in [Conns -> Live \cup {"none", "erase", "done"}]
  BY DEF ServerInv, Types
<1>1. CASE UNCHANGED vars
  <2>1. \A c \in Conns : Idle(c) /\ CutOff(c)' = CutOff(c)
    BY <1>1 DEF vars, sessionVars, netVars, Idle, CutOff
  <2>2. \A c \in Conns : TalkInv(c)'
    BY <2>1, SameInv DEF SessionInv
  <2>3. SessionTypes'
    BY <1>1 DEF SessionInv, SessionTypes, vars, sessionVars, netVars
  <2> QED BY <2>2, <2>3 DEF SessionInv
<1>2. ASSUME UNCHANGED <<sessionVars, sending, got, script, wire, thread>>, Next
      PROVE  SessionInv'
  BY <1>2, OtherStepTalk
<1>3. ASSUME AcceptSpawn, Next PROVE SessionInv'
  <2>1. accepted \in Conns /\ thread[accepted] = "none"
    BY <1>3 DEF AcceptSpawn, ServerInv, Types, StopInv, ConnInv
  <2>2. \A c \in Conns : \/ thread'[c] = thread[c]
                         \/ thread[c] = "none" /\ thread'[c] = "loop"
    BY <1>0, <1>3, <2>1 DEF AcceptSpawn
  <2>3. UNCHANGED <<sessionVars, sending, got, script, wire>>
    BY <1>3 DEF AcceptSpawn, netVars
  <2> QED BY <1>3, <2>2, <2>3, OtherStepTalk
<1>4. ASSUME NEW c \in Conns, Connect(c) \/ Disconnect(c), Next PROVE SessionInv'
  BY <1>2, <1>4 DEF Connect, Disconnect
<1>5. ASSUME Start \/ StartFails \/ Stop \/ StopStep \/ AcceptWoken, Next PROVE SessionInv'
  BY <1>2, <1>5 DEF Start, StartFails, Stop, StopStep, StopListener, StopSockets,
     JoinAccept, JoinSessions, AcceptWoken, netVars
<1>6. ASSUME AcceptStep, Next PROVE SessionInv'
  <2>1. ASSUME NEW c \in Conns, AcceptOne(c) PROVE SessionInv'
    BY <1>2, <1>6, <2>1 DEF AcceptOne
  <2>2. ASSUME NEW f \in Fds, AcceptCall(f) PROVE SessionInv'
    BY <1>2, <1>6, <2>2 DEF AcceptCall, netVars
  <2>3. ASSUME AcceptCheck \/ AcceptFails \/ AcceptPush PROVE SessionInv'
    BY <1>2, <1>6, <2>3 DEF AcceptCheck, AcceptFails, AcceptPush, netVars
  <2> QED BY <1>3, <1>6, <2>1, <2>2, <2>3 DEF AcceptStep
<1> QED BY <1>1, <1>4, <1>5, <1>6, SessionStepTalk DEF Next, Wake

(* What sessions hear and say, whatever the threads, the clients and the   *)
(* caller of start and stop do.                                            *)
THEOREM SessionInvariance == Spec => []SessionInv
<1>1. ServerInv /\ SessionInv /\ [Next]_vars => SessionInv'
  BY NextTalk
<1> QED BY InitTalk, ServerInvariance, <1>1, PTL DEF Spec

(* Framing does not depend on how TCP cuts the stream, and the dispatcher  *)
(* never sees a malformed frame: for any client and any chunks.            *)
THEOREM FramingIsExact == Spec => []StreamIsKept
<1>1. SessionInv => StreamIsKept
  BY DEF SessionInv, TalkInv, Framing, StreamIsKept
<1> QED BY SessionInvariance, <1>1, PTL

(* The dispatcher asks the engine exactly inside a logged-on session. *)
THEOREM EngineIsGuarded == Spec => []OrdersOnlyWhenActive
<1>1. ASSUME SessionInv PROVE OrdersOnlyWhenActive
  <2> SUFFICES ASSUME NEW c \in Conns, NEW r \in Range(Replies(c)),
                      handled[c][r.to] \in Requests
               PROVE  r.kind = "NotLoggedOn" <=> ~ActiveAfter(handled[c], r.to - 1)
    BY DEF OrdersOnlyWhenActive
  <2>1. Replies(c) \in Seq(Reply) /\ RepliesTrue(handled[c], Replies(c))
    BY <1>1, RepliesType DEF SessionInv, TalkInv, Talk
  <2>2. PICK i \in 1..Len(Replies(c)) : r = Replies(c)[i]
    BY <2>1, SeqFacts DEF Range
  <2> QED BY <2>1, <2>2 DEF RepliesTrue
<1> QED BY SessionInvariance, <1>1, PTL

(* Replies come in the order of the requests, none is missing while the    *)
(* session is up, and a fill follows its OrderAck: for any number of fills *)
(* and wherever a write breaks off.                                        *)
THEOREM VerdictsAreInOrder == Spec => []OneVerdictEach
<1>1. SessionInv => OneVerdictEach
  BY DEF SessionInv, TalkInv, Talk, Up, AllAnswered, OneVerdictEach
<1> QED BY SessionInvariance, <1>1, PTL

(* A Logout is answered before its connection is closed, unless stop or    *)
(* the client closed it first.                                             *)
THEOREM LogoutsAreAnswered == Spec => []LogoutIsAnswered
<1>1. ASSUME SessionInv PROVE LogoutIsAnswered
  <2> SUFFICES ASSUME NEW c \in Conns, thread[c] = "close", state[c] = "Closing",
                      file[fd[c]] = c, peer[c] = "connected"
               PROVE  \E r \in Range(got[c]) : r.kind = "Logout"
    BY DEF LogoutIsAnswered
  <2>1. Quiet(c) /\ Farewell(c) /\ got[c] \in Seq(Reply)
    BY <1>1, RepliesType DEF SessionInv, TalkInv
  <2>2. SaidLogout(Replies(c))
    BY <2>1 DEF Farewell, CutOff
  <2>3. sending[c] = <<>> /\ outbound[c] = <<>>
    BY <2>1 DEF Quiet
  <2>4. Replies(c) = got[c]
    <3>1. got[c] \o <<>> = got[c]
      BY <2>1, EmptyFacts
    <3> QED BY <2>3, <3>1 DEF Replies
  <2>5. PICK i \in 1..Len(got[c]) : got[c][i].kind = "Logout"
    BY <2>2, <2>4 DEF SaidLogout
  <2>6. got[c][i] \in Range(got[c])
    BY <2>1, SeqFacts DEF Range
  <2> QED BY <2>5, <2>6
<1> QED BY SessionInvariance, <1>1, PTL
=============================================================================
