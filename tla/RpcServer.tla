------------------------------ MODULE RpcServer ------------------------------
(***************************************************************************)
(* The threads and sockets of one RPC server (rpc_server.cpp:18-147 with   *)
(* the sockets of network/tcp.h and udp.h): a UDP thread, an accept thread *)
(* and a session thread for each host, which the accept thread stops and   *)
(* starts again when the host connects once more, and the destruction of   *)
(* it all by the main thread.                                              *)
(*                                                                         *)
(* The bytes of a session are those of TcpSession: here a call comes whole.*)
(* External: the peers, the table of sockets of the process, in which a    *)
(* closed handle's value is given out again, and the other sockets in it.  *)
(***************************************************************************)
EXTENDS Naturals, FiniteSets

CONSTANTS
  Host,       \* the names of the senders
  Conn,       \* connections the hosts make, each once
  HostOf,     \* whose connection it is
  Handle,     \* values of socket handles
  Invalid,    \* INVALID_SOCKET
  None,       \* nothing
  Other       \* a socket of another part of the process

ASSUME RpcServerAssumption ==
  /\ HostOf \in [Conn -> Host] /\ Handle \subseteq Nat /\ Invalid \notin Handle
  /\ None \notin Conn \cup Host \cup Handle /\ Other \notin Conn \cup {None}

VARIABLES
  table,      \* the sockets of the process: what an open handle belongs to
  waiting,    \* the connections in the backlog
  taken,      \* the connections accepted so far
  session,    \* tcp_session_map_m: the socket of each host
  thread,     \* where the session thread of a host is; "none" if there is none to join
  using,      \* the handle it has read from its socket for recv or send
  on,         \* the connection it is in recv for, or whose call it runs
  accept,     \* where the accept thread is
  fresh,      \* the socket it has just accepted
  main,       \* where the main thread is
  victim,     \* the host whose session the main thread destroys
  udp,        \* where the UDP thread is
  open,       \* which of the sockets "tcp" and "udp" the server listens on are open
  mixed,      \* history: a handle was given out again while the server still used it
  misdirected \* history: an answer was sent to another than the caller

sessions == <<table, session, thread, using, on>>
history == <<mixed, misdirected>>
vars == <<sessions, waiting, taken, accept, fresh, main, victim, udp, open, history>>

Hosts == DOMAIN session

\* The handle values the server has in hand, of open sockets or not.
Kept == {session[h] : h \in Hosts} \cup {using[h] : h \in Host}

\* A value the system gives to a new socket: one the server still has in hand, or any
\* other; of the others one stands for all.
Given ==
  LET free == {v \in Handle : table[v] = None}
  IN (free \cap Kept) \cup {v \in free \ Kept : \A w \in free \ Kept : v <= w}

\* The main thread takes the map apart while the accept thread works on it, which has no
\* defined outcome: the two go no further.
Clash == main # "up" /\ accept \in {"find", "close", "forget", "join", "start"}

-----------------------------------------------------------------------------
(* The session thread of a host *)

Move(h, there) == thread' = [thread EXCEPT ![h] = there]

\* The handle is read from the socket first and given to the system then.
Read(h, there) ==
  /\ using' = [using EXCEPT ![h] = session[h]]
  /\ Move(h, there)

Loop(h) ==
  /\ thread[h] = "top"
  /\ Read(h, "enter")
  /\ on' = [on EXCEPT ![h] = None]
  /\ UNCHANGED <<table, session>>

Enter(h) ==
  /\ thread[h] = "enter"
  /\ LET s == IF using[h] = Invalid THEN None ELSE table[using[h]]
     IN /\ on' = [on EXCEPT ![h] = s]
        /\ Move(h, IF s = None THEN "ended" ELSE "recv")
  /\ using' = [using EXCEPT ![h] = Invalid]
  /\ UNCHANGED <<table, session>>

IsOpen(c) == \E v \in Handle : table[v] = c

\* recv returns with a call.
Receive(h) ==
  /\ thread[h] = "recv"
  /\ IsOpen(on[h])
  /\ Move(h, "call")
  /\ UNCHANGED <<table, session, using, on>>

\* The peer is gone, or what it has sent is not a call: the thread ends, the socket stays.
Drop(h) ==
  /\ thread[h] = "recv"
  /\ IsOpen(on[h])
  /\ Move(h, "ended")
  /\ on' = [on EXCEPT ![h] = None]
  /\ UNCHANGED <<table, session, using>>

\* closesocket ends a recv.
Wake(h) ==
  /\ thread[h] = "recv"
  /\ ~IsOpen(on[h])
  /\ Move(h, "ended")
  /\ on' = [on EXCEPT ![h] = None]
  /\ UNCHANGED <<table, session, using>>

\* The router has an answer, or none.
Answer(h) ==
  /\ thread[h] = "call"
  /\ \/ Read(h, "send")
     \/ Move(h, "top") /\ UNCHANGED using
  /\ UNCHANGED <<table, session, on>>

Send(h) ==
  /\ thread[h] = "send"
  /\ misdirected' = (misdirected \/ (using[h] # Invalid /\ table[using[h]] \notin {None, on[h]}))
  /\ using' = [using EXCEPT ![h] = Invalid]
  /\ Move(h, "top")
  /\ UNCHANGED <<table, session, on, mixed>>

-----------------------------------------------------------------------------
(* Stopping a session: close, which is closesocket and then Invalid, and join *)

\* Mutant of Closable: only a thread that still runs has a socket to close.
ClosableRunning(h) == session[h] # Invalid /\ thread[h] # "ended"

Closable(h) == session[h] # Invalid

\* Mutant of FirstOfStop: the thread is waited for first.
FirstOfStopJoin(h) == "join"

\* Mutant of FirstOfStop: the old session is not stopped.
FirstOfStopNone(h) == "start"

FirstOfStop(h) == IF Closable(h) THEN "close" ELSE "join"

CloseSocket(h) ==
  /\ table' = [table EXCEPT ![session[h]] = None]
  /\ UNCHANGED <<session, thread, using, on>>

\* Mutant of Closed: the new socket is put in the place of the closed one at once.
ClosedReplaced == IF accept = "forget" THEN fresh ELSE Invalid

Closed == Invalid

Forget(h) ==
  /\ session' = [session EXCEPT ![h] = Closed]
  /\ UNCHANGED <<table, thread, using, on>>

Joinable(h) == thread[h] \in {"none", "ended"}

-----------------------------------------------------------------------------
(* The accept thread *)

Connect(c) ==
  /\ c \notin waiting \cup taken
  /\ waiting' = waiting \cup {c}
  /\ UNCHANGED <<sessions, taken, accept, fresh, main, victim, udp, open, history>>

Accept ==
  /\ accept = "accept" /\ "tcp" \in open
  /\ \E c \in waiting, v \in Given :
       /\ table' = [table EXCEPT ![v] = c]
       /\ fresh' = v
       /\ waiting' = waiting \ {c}
       /\ taken' = taken \cup {c}
       /\ mixed' = (mixed \/ v \in Kept)
  /\ accept' = "find"
  /\ UNCHANGED <<session, thread, using, on, main, victim, udp, open, misdirected>>

\* accept fails: the socket is closed, or a connection has failed in the backlog.
AcceptEnds ==
  /\ accept = "accept"
  /\ accept' = "ended"
  /\ UNCHANGED <<sessions, waiting, taken, fresh, main, victim, udp, open, history>>

Sender == HostOf[table[fresh]]

Find ==
  /\ ~Clash
  /\ accept = "find"
  /\ IF Sender \in Hosts
     THEN accept' = FirstOfStop(Sender) /\ UNCHANGED session
     ELSE /\ session' = [h \in Hosts \cup {Sender} |-> IF h = Sender THEN fresh ELSE session[h]]
          /\ accept' = "start"
  /\ UNCHANGED <<table, thread, using, on, waiting, taken, fresh, main, victim, udp, open, history>>

AcceptStops ==
  /\ ~Clash
  /\ \/ accept = "close" /\ CloseSocket(Sender) /\ accept' = "forget"
     \/ accept = "forget" /\ Forget(Sender) /\ accept' = "join"
     \/ /\ accept = "join" /\ Joinable(Sender)
        /\ Move(Sender, "none")
        /\ session' = [session EXCEPT ![Sender] = fresh]
        /\ accept' = "start"
        /\ UNCHANGED <<table, using, on>>
  /\ UNCHANGED <<waiting, taken, fresh, main, victim, udp, open, history>>

Start ==
  /\ ~Clash
  /\ accept = "start"
  /\ Move(Sender, "top")
  /\ accept' = "accept"
  /\ fresh' = None
  /\ UNCHANGED <<table, session, using, on, waiting, taken, main, victim, udp, open, history>>

-----------------------------------------------------------------------------
(* The UDP thread: calls one after the other, until anything that recvfrom fails for *)

UdpEnds ==
  /\ udp = "loop"
  /\ udp' = "ended"
  /\ UNCHANGED <<sessions, waiting, taken, accept, fresh, main, victim, open, history>>

-----------------------------------------------------------------------------
(* The main thread: ~impl destroys the sessions, the accept thread, the UDP thread *)

Quit ==
  /\ main = "up"
  /\ main' = "next"
  /\ UNCHANGED <<sessions, waiting, taken, accept, fresh, victim, udp, open, history>>

NextSession ==
  /\ ~Clash
  /\ main = "next"
  /\ \/ \E h \in Hosts : victim' = h /\ main' = FirstOfStop(h)
     \/ Hosts = {} /\ main' = "tcp" /\ UNCHANGED victim
  /\ UNCHANGED <<sessions, waiting, taken, accept, fresh, udp, open, history>>

MainStops ==
  /\ ~Clash
  /\ \/ main = "close" /\ CloseSocket(victim) /\ main' = "forget"
     \/ main = "forget" /\ Forget(victim) /\ main' = "join"
     \/ /\ main = "join" /\ Joinable(victim)
        /\ Move(victim, "none")
        /\ session' = [h \in Hosts \ {victim} |-> session[h]]
        /\ main' = "next"
        /\ UNCHANGED <<table, using, on>>
  /\ UNCHANGED <<waiting, taken, accept, fresh, victim, udp, open, history>>

StopListening ==
  /\ ~Clash
  /\ \/ main = "tcp" /\ open' = open \ {"tcp"} /\ main' = "jointcp"
     \/ main = "jointcp" /\ accept = "ended" /\ main' = "udp" /\ UNCHANGED open
     \/ main = "udp" /\ open' = open \ {"udp"} /\ main' = "joinudp"
     \/ main = "joinudp" /\ udp = "ended" /\ main' = "down" /\ UNCHANGED open
  /\ UNCHANGED <<sessions, waiting, taken, accept, fresh, victim, udp, history>>

\* Another part of the process opens a socket, and closes it; with a value that is not in
\* hand here it makes no difference.
OtherSocket ==
  /\ \/ \E v \in Given \cap Kept :
          /\ ~IsOpen(Other)
          /\ table' = [table EXCEPT ![v] = Other]
          /\ mixed' = TRUE
     \/ \E v \in Handle :
          /\ table[v] = Other
          /\ table' = [table EXCEPT ![v] = None]
          /\ UNCHANGED mixed
  /\ UNCHANGED <<session, thread, using, on, waiting, taken, accept, fresh, main, victim, udp, open, misdirected>>

-----------------------------------------------------------------------------
Init ==
  /\ table = [v \in Handle |-> None]
  /\ waiting = {} /\ taken = {}
  /\ session = [h \in {} |-> None]
  /\ thread = [h \in Host |-> "none"]
  /\ using = [h \in Host |-> Invalid]
  /\ on = [h \in Host |-> None]
  /\ accept = "accept" /\ fresh = None
  /\ main = "up" /\ victim = None
  /\ udp = "loop" /\ open = {"tcp", "udp"}
  /\ mixed = FALSE /\ misdirected = FALSE

\* What the thread of h does by itself; what it receives is up to the peer.
Runs(h) ==
  \/ /\ Loop(h) \/ Enter(h) \/ Wake(h) \/ Answer(h)
     /\ UNCHANGED <<waiting, taken, accept, fresh, main, victim, udp, open, history>>
  \/ Send(h) /\ UNCHANGED <<waiting, taken, accept, fresh, main, victim, udp, open>>

Hears(h) ==
  /\ Receive(h) \/ Drop(h)
  /\ UNCHANGED <<waiting, taken, accept, fresh, main, victim, udp, open, history>>

Accepting == Accept \/ Find \/ AcceptStops \/ Start \/ (AcceptEnds /\ "tcp" \notin open)
UdpClosing == UdpEnds /\ "udp" \notin open
Quitting == NextSession \/ MainStops \/ StopListening

Next ==
  \/ \E h \in Host : Runs(h) \/ Hears(h)
  \/ \E c \in Conn : Connect(c)
  \/ Accept \/ AcceptEnds \/ Find \/ AcceptStops \/ Start
  \/ UdpEnds
  \/ Quit \/ NextSession \/ MainStops \/ StopListening
  \/ OtherSocket

\* The system runs each thread that can run.
Fairness ==
  /\ \A h \in Host : WF_vars(Runs(h))
  /\ WF_vars(Accepting)
  /\ WF_vars(UdpClosing)
  /\ WF_vars(Quitting)

Spec == Init /\ [][Next]_vars /\ Fairness

-----------------------------------------------------------------------------
(* Properties *)

\* Types.  No thread is started where there is one to join, which would end the process,
\* and the map is empty when the accept thread is stopped (rpc_server.cpp:39, 123).
TypeOK ==
  /\ table \in [Handle -> Conn \cup {None, Other}]
  /\ waiting \subseteq Conn /\ taken \subseteq Conn \ waiting
  /\ Hosts \subseteq Host /\ session \in [Hosts -> Handle \cup {Invalid}]
  /\ thread \in [Host -> {"none", "top", "enter", "recv", "call", "send", "ended"}]
  /\ using \in [Host -> Handle \cup {Invalid}]
  /\ on \in [Host -> Conn \cup {None, Other}]
  /\ accept \in {"accept", "find", "close", "forget", "join", "start", "ended"}
  /\ fresh \in Handle \cup {None} /\ (accept \in {"accept", "ended"} <=> fresh = None)
  /\ accept = "start" => thread[Sender] = "none"
  /\ main \in {"up", "next", "close", "forget", "join", "tcp", "jointcp", "udp", "joinudp", "down"}
  /\ victim \in Host \cup {None}
  /\ udp \in {"loop", "ended"} /\ open \subseteq {"tcp", "udp"}
  /\ main \in {"tcp", "jointcp", "udp", "joinudp", "down"} => Hosts = {}

\* An answer goes to the connection its call came from, however the host reconnects in the
\* meantime: it is lost at worst.  Only a handle value given out again between closesocket
\* and the reset of handle_m leads it elsewhere (rpc_server.cpp:113-114, 139, tcp.h:41-44).
AnswerToCaller == misdirected => mixed

\* No socket is lost: each connection accepted and not closed is the one the map has for its
\* host, or the one the accept thread is about to put there; so a host has at most two
\* (rpc_server.cpp:42-45, 112-122).
NoSocketLost ==
  \A v \in Handle : table[v] \in Conn =>
    \/ v = fresh
    \/ HostOf[table[v]] \in Hosts /\ session[HostOf[table[v]]] = v

\* Stopping ends: a connection in the backlog is accepted, its host's old session is ended for
\* it, and the server's destruction comes to its end; unless accept has failed once, handles
\* were mixed up or the destruction meets the accept thread (rpc_server.cpp:42-45, 59-62).
StopsEnd ==
  /\ \A c \in Conn : c \in waiting ~> c \in taken \/ accept = "ended" \/ main # "up" \/ mixed
  /\ accept = "join" ~> accept # "join" \/ mixed \/ Clash
  /\ main = "next" ~> main = "down" \/ mixed \/ Clash

=============================================================================
