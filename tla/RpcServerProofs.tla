--------------------------- MODULE RpcServerProofs ---------------------------
(***************************************************************************)
(* Types of RpcServer, that no accepted socket is lost, and that answers   *)
(* go to their callers, for any hosts, connections and handle values.      *)
(***************************************************************************)
EXTENDS RpcServer, TLAPS

\* Between closesocket and the reset of handle_m.
Closing(h) == (main = "forget" /\ victim = h) \/ (accept = "forget" /\ Sender = h)

\* The socket of a session is a connection of its host.
Owned ==
  \A h \in Hosts : session[h] # Invalid =>
    Closing(h) \/ (table[session[h]] \in Conn /\ HostOf[table[session[h]]] = h)

\* The socket just accepted is no session's yet.
Arrived ==
  /\ fresh # None => table[fresh] \in Conn
  /\ accept \in {"find", "close", "forget", "join"} /\ main = "up" => \A h \in Hosts : session[h] # fresh

\* How far the accept thread has stopped the session of the sender.
AcceptStopping ==
  /\ accept \in {"close", "forget", "join", "start"} => Sender \in Hosts
  /\ accept = "close" => session[Sender] # Invalid
  /\ accept = "forget" => session[Sender] # Invalid /\ table[session[Sender]] \notin Conn
  /\ accept = "join" => session[Sender] = Invalid
  /\ accept = "start" => session[Sender] = fresh

\* How far the main thread has stopped the session of the victim; at "find" the two clash.
MainStopping ==
  /\ main \in {"close", "forget", "join"} => victim \in Hosts
  /\ main = "close" => session[victim] # Invalid
  /\ main = "forget" =>
       session[victim] # Invalid /\ (table[session[victim]] \notin Conn \/ accept = "find")
  /\ main = "join" => session[victim] = Invalid

Unstarted == \A h \in Host : h \notin Hosts => thread[h] = "none"

\* As long as no handle is given out again in use: what a thread has in hand is its session's
\* socket, or closed, and while it has a call that socket is the caller's.
Follows(h) ==
  /\ thread[h] = "enter" /\ using[h] # Invalid =>
       table[using[h]] = None \/ (h \in Hosts /\ using[h] = session[h])
  /\ thread[h] \in {"recv", "call", "send"} /\ h \in Hosts /\ session[h] # Invalid =>
       table[session[h]] \in {None, on[h]}
  /\ thread[h] = "send" /\ using[h] # Invalid => table[using[h]] \in {None, on[h]}

Following == ~mixed => /\ \A v \in Handle : table[v] # Other
                       /\ \A h \in Host : Follows(h)

\* What is so of the sockets, whatever the session threads do.
Sockets == NoSocketLost /\ Owned /\ Arrived /\ AcceptStopping /\ MainStopping

IInv == TypeOK /\ Sockets /\ Unstarted /\ Following /\ AnswerToCaller

USE RpcServerAssumption

-----------------------------------------------------------------------------
(* The initial states *)

\* The server starts with no session (rpc_server.cpp:31-36).
LEMMA InitIInv == Init => IInv
<1> SUFFICES ASSUME Init PROVE IInv
  OBVIOUS
<1> USE DEF Init
<1>1. Hosts = {}
  BY DEF Hosts
<1>2. TypeOK
  BY <1>1 DEF TypeOK, Sender
<1>3. Sockets
  BY <1>1 DEF Sockets, NoSocketLost, Owned, Arrived, AcceptStopping, MainStopping
<1>4. Unstarted /\ Following /\ AnswerToCaller
  BY <1>1 DEF Unstarted, Following, Follows, AnswerToCaller
<1> QED
  BY <1>2, <1>3, <1>4 DEF IInv

-----------------------------------------------------------------------------
(* The session threads *)

\* Only the threads that stop sessions and accept connections change what is so of the sockets.
LEMMA SocketsStay ==
  ASSUME Sockets, UNCHANGED <<table, session, accept, fresh, main, victim>>
  PROVE  Sockets'
BY DEF Sockets, NoSocketLost, Owned, Arrived, AcceptStopping, MainStopping, Closing, Sender, Hosts

\* A thread that is there has its session.
LEMMA HasSession ==
  ASSUME IInv, NEW h \in Host, thread[h] # "none"
  PROVE  h \in Hosts /\ session[h] \in Handle \cup {Invalid}
BY DEF IInv, Unstarted, TypeOK

\* A session thread's own steps.
LEMMA RunsKeeps ==
  ASSUME IInv, NEW h \in Host, Runs(h) \/ Hears(h)
  PROVE  IInv'
<1> USE DEF Hosts
<1>1. UNCHANGED <<table, session, waiting, taken, accept, fresh, main, victim, udp, open, mixed>>
  BY DEF Runs, Hears, Loop, Enter, Receive, Drop, Wake, Answer, Send, history
<1>2. Sockets'
  BY <1>1, SocketsStay DEF IInv
<1>3. thread[h] # "none" /\ h \in Hosts /\ session[h] \in Handle \cup {Invalid}
  <2>1. thread[h] # "none"
    BY DEF Runs, Hears, Loop, Enter, Receive, Drop, Wake, Answer, Send
  <2> QED
    BY <2>1, HasSession
<1>4. /\ \E w \in {"top", "enter", "recv", "call", "send", "ended"} : thread' = [thread EXCEPT ![h] = w]
      /\ \E u \in Handle \cup {Invalid} : using' = [using EXCEPT ![h] = u]
      /\ \E c \in Conn \cup {None, Other} : on' = [on EXCEPT ![h] = c]
  <2> USE DEF Read, Move, IInv, TypeOK
  <2>1. CASE Loop(h)
    BY <1>3, <2>1 DEF Loop
  <2>2. CASE Enter(h)
    BY <1>3, <2>2 DEF Enter
  <2>3. CASE Receive(h) \/ Drop(h) \/ Wake(h)
    BY <1>3, <2>3 DEF Receive, Drop, Wake
  <2>4. CASE Answer(h)
    BY <1>3, <2>4 DEF Answer
  <2>5. CASE Send(h)
    <3>1. using' = [using EXCEPT ![h] = Invalid] /\ thread' = [thread EXCEPT ![h] = "top"] /\ on' = on
      BY <2>5 DEF Send
    <3>2. on' = [on EXCEPT ![h] = on[h]] /\ on[h] \in Conn \cup {None, Other}
      BY <3>1
    <3> QED
      BY <3>1, <3>2
  <2> QED
    BY <2>1, <2>2, <2>3, <2>4, <2>5 DEF Runs, Hears
<1>5. TypeOK'
  BY <1>1, <1>3, <1>4 DEF IInv, TypeOK, Sender
<1>6. Unstarted'
  BY <1>1, <1>3, <1>4 DEF IInv, Unstarted, TypeOK
<1>7. Following'
  <2> SUFFICES ASSUME ~mixed PROVE \A g \in Host : Follows(g)'
    BY <1>1 DEF IInv, Following
  <2>1. ASSUME NEW g \in Host, g # h PROVE Follows(g)'
    BY <1>1, <1>4, <2>1 DEF IInv, TypeOK, Following, Follows
  <2>2. Follows(h)'
    <3> USE <1>1, <1>3 DEF IInv, TypeOK, Following, Follows, Read, Move
    <3>1. CASE Loop(h)
      BY <3>1 DEF Loop
    <3>2. CASE Enter(h)
      BY <3>2 DEF Enter
    <3>3. CASE Receive(h) \/ Drop(h) \/ Wake(h)
      BY <3>3 DEF Receive, Drop, Wake
    <3>4. CASE Answer(h)
      BY <3>4 DEF Answer
    <3>5. CASE Send(h)
      BY <3>5 DEF Send
    <3> QED
      BY <3>1, <3>2, <3>3, <3>4, <3>5 DEF Runs, Hears
  <2> QED
    BY <2>1, <2>2
<1>8. AnswerToCaller'
  <2>1. CASE UNCHANGED misdirected
    BY <1>1, <2>1 DEF IInv, AnswerToCaller
  <2>2. CASE Send(h)
    <3>1. CASE mixed
      BY <1>1, <3>1 DEF AnswerToCaller
    <3>2. CASE ~mixed
      <4>1. using[h] = Invalid \/ table[using[h]] \in {None, on[h]}
        BY <2>2, <3>2 DEF Send, IInv, Following, Follows
      <4>2. ~misdirected
        BY <3>2 DEF IInv, AnswerToCaller
      <4> QED
        BY <2>2, <4>1, <4>2 DEF Send, AnswerToCaller
    <3> QED
      BY <3>1, <3>2
  <2> QED
    BY <2>1, <2>2 DEF Runs, Hears, Loop, Enter, Receive, Drop, Wake, Answer, history
<1> QED
  BY <1>2, <1>5, <1>6, <1>7, <1>8 DEF IInv

-----------------------------------------------------------------------------
(* The accept thread *)

\* The parts of the invariant that speak of answers only.
LEMMA AnswersStay ==
  ASSUME AnswerToCaller, UNCHANGED misdirected, mixed => mixed'
  PROVE  AnswerToCaller'
BY DEF AnswerToCaller

\* A new connection is in nobody's hands yet.
LEMMA AcceptKeeps == IInv /\ Accept => IInv'
<1> SUFFICES ASSUME IInv, Accept PROVE IInv'
  OBVIOUS
<1> USE DEF Hosts
<1>1. PICK c \in waiting, v \in Given :
        /\ table' = [table EXCEPT ![v] = c] /\ fresh' = v
        /\ waiting' = waiting \ {c} /\ taken' = taken \cup {c}
        /\ mixed' = (mixed \/ v \in Kept)
  BY DEF Accept
<1>2. c \in Conn /\ v \in Handle /\ table[v] = None
  BY <1>1 DEF IInv, TypeOK, Given
<1>3. /\ accept = "accept" /\ accept' = "find" /\ fresh = None
      /\ UNCHANGED <<session, thread, using, on, main, victim, udp, open, misdirected>>
  BY DEF Accept, IInv, TypeOK
<1>4. TypeOK'
  BY <1>1, <1>2, <1>3 DEF IInv, TypeOK
<1>5. Sockets'
  <2> USE <1>1, <1>2, <1>3 DEF IInv, TypeOK, Sockets
  <2>1. \A h \in Hosts : session[h] = v => main = "forget" /\ victim = h
    BY DEF Owned, Closing
  <2>2. NoSocketLost'
    BY DEF NoSocketLost
  <2>3. Owned'
    BY <2>1 DEF Owned, Closing
  <2>4. Arrived'
    BY <2>1 DEF Arrived
  <2>5. AcceptStopping' /\ MainStopping'
    BY DEF AcceptStopping, MainStopping
  <2> QED
    BY <2>2, <2>3, <2>4, <2>5
<1>6. Unstarted'
  BY <1>3 DEF IInv, Unstarted
<1>7. Following'
  <2> SUFFICES ASSUME ~mixed' PROVE Following'
    BY DEF Following
  <2>1. ~mixed /\ v \notin Kept
    BY <1>1
  <2>2. /\ \A h \in Hosts : session[h] # v
        /\ \A h \in Host : using[h] # v
    BY <2>1 DEF Kept
  <2> QED
    BY <1>1, <1>2, <1>3, <2>1, <2>2 DEF IInv, TypeOK, Following, Follows
<1>8. AnswerToCaller'
  BY <1>1, <1>3, AnswersStay DEF IInv
<1> QED
  BY <1>4, <1>5, <1>6, <1>7, <1>8 DEF IInv

\* The map has the sender's session, or gets it with the new socket.
LEMMA FindKeeps == IInv /\ Find => IInv'
<1> SUFFICES ASSUME IInv, Find PROVE IInv'
  OBVIOUS
<1> USE DEF Hosts
<1>1. /\ accept = "find" /\ main = "up" /\ fresh \in Handle /\ table[fresh] \in Conn /\ Sender \in Host
      /\ UNCHANGED <<table, thread, using, on, waiting, taken, fresh, main, victim, udp, open, mixed, misdirected>>
  BY DEF Find, Clash, IInv, TypeOK, Sockets, Arrived, Sender, history
<1>2. AnswerToCaller'
  BY <1>1, AnswersStay DEF IInv
<1>3. CASE Sender \in Hosts
  <2>1. UNCHANGED session /\ accept' = IF session[Sender] # Invalid THEN "close" ELSE "join"
    BY <1>3 DEF Find, FirstOfStop, Closable
  <2>2. TypeOK'
    BY <1>1, <2>1 DEF IInv, TypeOK, Sender
  <2>3. Sockets'
    BY <1>1, <1>3, <2>1 DEF IInv, TypeOK, Sockets, NoSocketLost, Owned, Arrived, AcceptStopping,
                            MainStopping, Closing, Sender
  <2>4. Unstarted' /\ Following'
    BY <1>1, <2>1 DEF IInv, Unstarted, Following, Follows
  <2> QED
    BY <1>2, <2>2, <2>3, <2>4 DEF IInv
<1>4. CASE Sender \notin Hosts
  <2>1. /\ session' = [h \in Hosts \cup {Sender} |-> IF h = Sender THEN fresh ELSE session[h]]
        /\ accept' = "start" /\ thread[Sender] = "none"
    BY <1>1, <1>4 DEF Find, IInv, Unstarted
  <2>2. TypeOK'
    BY <1>1, <2>1 DEF IInv, TypeOK, Sender
  <2>3. Sockets'
    BY <1>1, <1>4, <2>1 DEF IInv, TypeOK, Sockets, NoSocketLost, Owned, Arrived, AcceptStopping,
                            MainStopping, Closing, Sender
  <2>4. Unstarted'
    BY <1>1, <2>1 DEF IInv, Unstarted
  <2>5. Following'
    BY <1>1, <1>4, <2>1 DEF IInv, TypeOK, Following, Follows
  <2> QED
    BY <1>2, <2>2, <2>3, <2>4, <2>5 DEF IInv
<1> QED
  BY <1>3, <1>4

\* The old session of the sender is stopped, and the new socket put in its place.
LEMMA AcceptStopsKeeps == IInv /\ AcceptStops => IInv'
<1> SUFFICES ASSUME IInv, AcceptStops PROVE IInv'
  OBVIOUS
<1> USE DEF Hosts
<1>1. /\ main = "up" /\ accept \in {"close", "forget", "join"}
      /\ fresh \in Handle /\ table[fresh] \in Conn /\ Sender \in Host /\ Sender \in Hosts
      /\ \A h \in Hosts : session[h] # fresh
      /\ UNCHANGED <<using, on, waiting, taken, fresh, main, victim, udp, open, mixed, misdirected>>
  BY DEF AcceptStops, CloseSocket, Forget, Clash, IInv, TypeOK, Sockets, Arrived, AcceptStopping, Sender, history
<1>2. AnswerToCaller'
  BY <1>1, AnswersStay DEF IInv
<1>3. CASE accept = "close"
  <2>1. /\ table' = [table EXCEPT ![session[Sender]] = None] /\ accept' = "forget"
        /\ UNCHANGED <<session, thread>>
    BY <1>3 DEF AcceptStops, CloseSocket
  <2>2. session[Sender] \in Handle /\ session[Sender] # fresh
    BY <1>1, <1>3 DEF IInv, TypeOK, Sockets, AcceptStopping
  <2>3. \A h \in Hosts : h # Sender => session[h] # session[Sender]
    BY <1>1, <1>3, <2>2 DEF IInv, Sockets, Owned, Closing
  <2>4. TypeOK' /\ Sender' = Sender
    BY <1>1, <2>1, <2>2 DEF IInv, TypeOK, Sender
  <2>5. Sockets'
    BY <1>1, <1>3, <2>1, <2>2, <2>3, <2>4 DEF IInv, TypeOK, Sockets, NoSocketLost, Owned, Arrived,
                                         AcceptStopping, MainStopping, Closing
  <2>6. Unstarted' /\ Following'
    BY <1>1, <2>1, <2>2 DEF IInv, TypeOK, Unstarted, Following, Follows
  <2> QED
    BY <1>2, <2>4, <2>5, <2>6 DEF IInv
<1>4. CASE accept = "forget"
  <2>1. /\ session' = [session EXCEPT ![Sender] = Invalid] /\ accept' = "join"
        /\ UNCHANGED <<table, thread>>
    BY <1>4 DEF AcceptStops, Forget, Closed
  <2>2. table[session[Sender]] \notin Conn
    BY <1>4 DEF IInv, Sockets, AcceptStopping
  <2>3. TypeOK' /\ Sender' = Sender
    BY <1>1, <2>1 DEF IInv, TypeOK, Sender
  <2>4. Sockets'
    BY <1>1, <1>4, <2>1, <2>2, <2>3 DEF IInv, TypeOK, Sockets, NoSocketLost, Owned, Arrived,
                                    AcceptStopping, MainStopping, Closing
  <2>5. Unstarted' /\ Following'
    BY <1>1, <1>4, <2>1, <2>2 DEF IInv, TypeOK, Sockets, AcceptStopping, Unstarted, Following, Follows
  <2> QED
    BY <1>2, <2>3, <2>4, <2>5 DEF IInv
<1>5. CASE accept = "join"
  <2>1. /\ session' = [session EXCEPT ![Sender] = fresh] /\ accept' = "start"
        /\ thread' = [thread EXCEPT ![Sender] = "none"] /\ UNCHANGED table
    BY <1>5 DEF AcceptStops, Move
  <2>2. session[Sender] = Invalid
    BY <1>5 DEF IInv, Sockets, AcceptStopping
  <2>3. TypeOK' /\ Sender' = Sender
    BY <1>1, <2>1 DEF IInv, TypeOK, Sender
  <2>4. Sockets'
    BY <1>1, <1>5, <2>1, <2>2, <2>3 DEF IInv, TypeOK, Sockets, NoSocketLost, Owned, Arrived,
                                    AcceptStopping, MainStopping, Closing, Sender
  <2>5. Unstarted' /\ Following'
    BY <1>1, <2>1 DEF IInv, TypeOK, Unstarted, Following, Follows
  <2> QED
    BY <1>2, <2>3, <2>4, <2>5 DEF IInv
<1> QED
  BY <1>1, <1>3, <1>4, <1>5

\* The session thread starts, and the new socket is the session's alone.
LEMMA StartKeeps == IInv /\ Start => IInv'
<1> SUFFICES ASSUME IInv, Start PROVE IInv'
  OBVIOUS
<1> USE DEF Hosts
<1>1. /\ accept = "start" /\ accept' = "accept" /\ fresh' = None /\ main = "up"
      /\ thread' = [thread EXCEPT ![Sender] = "top"]
      /\ UNCHANGED <<table, session, using, on, waiting, taken, main, victim, udp, open, mixed, misdirected>>
  BY DEF Start, Clash, Move, history, IInv, TypeOK
<1>2. Sender \in Hosts /\ Sender \in Host /\ session[Sender] = fresh /\ table[fresh] \in Conn /\ fresh \in Handle
  BY <1>1 DEF IInv, TypeOK, Sockets, Arrived, AcceptStopping
<1>3. TypeOK'
  BY <1>1, <1>2 DEF IInv, TypeOK
<1>4. Sockets'
  BY <1>1, <1>2 DEF IInv, TypeOK, Sockets, NoSocketLost, Owned, Arrived, AcceptStopping, MainStopping, Closing, Sender
<1>5. Unstarted' /\ Following'
  BY <1>1, <1>2 DEF IInv, TypeOK, Unstarted, Following, Follows
<1>6. AnswerToCaller'
  BY <1>1, AnswersStay DEF IInv
<1> QED
  BY <1>3, <1>4, <1>5, <1>6 DEF IInv

-----------------------------------------------------------------------------
(* The main thread *)

\* Where the main thread takes sessions apart, the accept thread has none in hand.
LEMMA NoAccept ==
  ASSUME IInv, ~Clash, main # "up"
  PROVE  accept \in {"accept", "ended"} /\ fresh = None
BY DEF IInv, TypeOK, Clash

\* The next session is chosen, if there is one.
LEMMA NextSessionKeeps == IInv /\ NextSession => IInv'
<1> SUFFICES ASSUME IInv, NextSession PROVE IInv'
  OBVIOUS
<1> USE DEF Hosts
<1>1. /\ ~Clash /\ main = "next"
      /\ UNCHANGED <<table, session, thread, using, on, waiting, taken, accept, fresh, udp, open, mixed, misdirected>>
  BY DEF NextSession, sessions, history
<1>2. accept \in {"accept", "ended"} /\ fresh = None
  BY <1>1, NoAccept
<1>3. \/ /\ victim' \in Hosts
         /\ main' = IF session[victim'] # Invalid THEN "close" ELSE "join"
      \/ Hosts = {} /\ main' = "tcp" /\ UNCHANGED victim
  BY DEF NextSession, FirstOfStop, Closable
<1>4. TypeOK'
  BY <1>1, <1>2, <1>3 DEF IInv, TypeOK
<1>5. Sockets'
  BY <1>1, <1>2, <1>3 DEF IInv, Sockets, NoSocketLost, Owned, Arrived, AcceptStopping, MainStopping, Closing
<1>6. Unstarted' /\ Following'
  BY <1>1 DEF IInv, Unstarted, Following, Follows
<1>7. AnswerToCaller'
  BY <1>1, AnswersStay DEF IInv
<1> QED
  BY <1>4, <1>5, <1>6, <1>7 DEF IInv

\* The session of the victim is stopped and leaves the map.
LEMMA MainStopsKeeps == IInv /\ MainStops => IInv'
<1> SUFFICES ASSUME IInv, MainStops PROVE IInv'
  OBVIOUS
<1> USE DEF Hosts
<1>1. /\ ~Clash /\ main \in {"close", "forget", "join"}
      /\ UNCHANGED <<using, on, waiting, taken, accept, fresh, victim, udp, open, mixed, misdirected>>
  BY DEF MainStops, CloseSocket, Forget, history
<1>2. /\ accept \in {"accept", "ended"} /\ fresh = None
      /\ victim \in Hosts /\ victim \in Host
  BY <1>1, NoAccept DEF IInv, TypeOK, Sockets, MainStopping
<1>3. AnswerToCaller'
  BY <1>1, AnswersStay DEF IInv
<1>4. CASE main = "close"
  <2>1. /\ table' = [table EXCEPT ![session[victim]] = None] /\ main' = "forget"
        /\ UNCHANGED <<session, thread>>
    BY <1>4 DEF MainStops, CloseSocket
  <2>2. session[victim] \in Handle
    BY <1>2, <1>4 DEF IInv, TypeOK, Sockets, MainStopping
  <2>3. \A h \in Hosts : h # victim => session[h] # session[victim]
    BY <1>2, <1>4, <2>2 DEF IInv, Sockets, Owned, Closing
  <2>4. TypeOK'
    BY <1>1, <1>2, <2>1, <2>2 DEF IInv, TypeOK
  <2>5. Sockets'
    BY <1>1, <1>2, <1>4, <2>1, <2>2, <2>3 DEF IInv, TypeOK, Sockets, NoSocketLost, Owned, Arrived,
                                         AcceptStopping, MainStopping, Closing
  <2>6. Unstarted' /\ Following'
    BY <1>1, <2>1, <2>2 DEF IInv, TypeOK, Unstarted, Following, Follows
  <2> QED
    BY <1>3, <2>4, <2>5, <2>6 DEF IInv
<1>5. CASE main = "forget"
  <2>1. /\ session' = [session EXCEPT ![victim] = Invalid] /\ main' = "join"
        /\ UNCHANGED <<table, thread>>
    BY <1>5 DEF MainStops, Forget, Closed
  <2>2. session[victim] # Invalid /\ table[session[victim]] \notin Conn
    BY <1>2, <1>5 DEF IInv, Sockets, MainStopping
  <2>3. TypeOK'
    BY <1>1, <1>2, <2>1 DEF IInv, TypeOK
  <2>4. Sockets'
    BY <1>1, <1>2, <1>5, <2>1, <2>2 DEF IInv, TypeOK, Sockets, NoSocketLost, Owned, Arrived,
                                    AcceptStopping, MainStopping, Closing
  <2>5. Unstarted' /\ Following'
    BY <1>1, <1>2, <2>1, <2>2 DEF IInv, TypeOK, Unstarted, Following, Follows
  <2> QED
    BY <1>3, <2>3, <2>4, <2>5 DEF IInv
<1>6. CASE main = "join"
  <2>1. /\ session' = [h \in Hosts \ {victim} |-> session[h]] /\ main' = "next"
        /\ thread' = [thread EXCEPT ![victim] = "none"] /\ UNCHANGED table
    BY <1>6 DEF MainStops, Move
  <2>2. session[victim] = Invalid
    BY <1>6 DEF IInv, Sockets, MainStopping
  <2>3. TypeOK'
    BY <1>1, <1>2, <2>1 DEF IInv, TypeOK
  <2>4. Sockets'
    BY <1>1, <1>2, <1>6, <2>1, <2>2 DEF IInv, TypeOK, Sockets, NoSocketLost, Owned, Arrived,
                                    AcceptStopping, MainStopping, Closing
  <2>5. Unstarted' /\ Following'
    BY <1>1, <2>1 DEF IInv, TypeOK, Unstarted, Following, Follows
  <2> QED
    BY <1>3, <2>3, <2>4, <2>5 DEF IInv
<1> QED
  BY <1>1, <1>4, <1>5, <1>6

\* The listening sockets are closed and their threads joined, with the map empty.
LEMMA StopListeningKeeps == IInv /\ StopListening => IInv'
<1> SUFFICES ASSUME IInv, StopListening PROVE IInv'
  OBVIOUS
<1> USE DEF Hosts
<1>1. /\ main \in {"tcp", "jointcp", "udp", "joinudp"} /\ main' \in {"jointcp", "udp", "joinudp", "down"}
      /\ open' \subseteq open
      /\ UNCHANGED <<table, session, thread, using, on, waiting, taken, accept, fresh, victim, udp, mixed, misdirected>>
  BY DEF StopListening, sessions, history
<1>2. TypeOK'
  BY <1>1 DEF IInv, TypeOK, Sender
<1>3. Sockets'
  BY <1>1 DEF IInv, Sockets, NoSocketLost, Owned, Arrived, AcceptStopping, MainStopping, Closing, Sender
<1>4. Unstarted' /\ Following'
  BY <1>1 DEF IInv, Unstarted, Following, Follows
<1>5. AnswerToCaller'
  BY <1>1, AnswersStay DEF IInv
<1> QED
  BY <1>2, <1>3, <1>4, <1>5 DEF IInv

-----------------------------------------------------------------------------
(* The rest of the system *)

\* Another part of the process opens no socket in a place that is taken, and closes its own.
LEMMA OtherSocketKeeps == IInv /\ OtherSocket => IInv'
<1> SUFFICES ASSUME IInv, OtherSocket PROVE IInv'
  OBVIOUS
<1> USE DEF Hosts
<1>1. UNCHANGED <<session, thread, using, on, waiting, taken, accept, fresh, main, victim, udp, open, misdirected>>
  BY DEF OtherSocket
<1>2. PICK v \in Handle :
        \/ table[v] = None /\ table' = [table EXCEPT ![v] = Other] /\ mixed' = TRUE
        \/ table[v] = Other /\ table' = [table EXCEPT ![v] = None] /\ UNCHANGED mixed
  BY DEF OtherSocket, Given
<1>3. table[v] \notin Conn
  BY <1>2
<1>4. fresh # None => table[fresh] \in Conn /\ fresh # v
  BY <1>3 DEF IInv, Sockets, Arrived
<1>5. TypeOK'
  BY <1>1, <1>2, <1>4 DEF IInv, TypeOK, Sender
<1>6. Sockets'
  <2> USE <1>1, <1>2, <1>3, <1>4 DEF IInv, TypeOK, Sockets
  <2>1. fresh # None => Sender' = Sender
    BY DEF Sender
  <2>2. NoSocketLost' /\ Owned' /\ Arrived'
    BY <2>1 DEF NoSocketLost, Owned, Arrived, Closing
  <2>3. \A w \in Handle : table'[w] \in Conn <=> table[w] \in Conn
    OBVIOUS
  <2>4. \A h \in Hosts : session[h] # Invalid => session[h] \in Handle
    OBVIOUS
  <2>5. AcceptStopping'
    BY <2>1, <2>3, <2>4 DEF AcceptStopping
  <2>6. MainStopping'
    BY <2>3, <2>4 DEF MainStopping
  <2> QED
    BY <2>2, <2>5, <2>6
<1>7. Unstarted'
  BY <1>1 DEF IInv, Unstarted
<1>8. Following'
  BY <1>1, <1>2 DEF IInv, TypeOK, Following, Follows
<1>9. AnswerToCaller'
  BY <1>1, <1>2, AnswersStay DEF IInv
<1> QED
  BY <1>5, <1>6, <1>7, <1>8, <1>9 DEF IInv

\* The steps that touch no session, and the ones of other parts of the system.
LEMMA OtherStepsKeep ==
  ASSUME IInv, \/ \E c \in Conn : Connect(c)
               \/ AcceptEnds \/ UdpEnds \/ Quit \/ UNCHANGED vars
  PROVE  IInv'
<1> USE DEF Hosts
<1>1. UNCHANGED <<table, session, thread, using, on, fresh, victim, open, mixed, misdirected>>
  BY DEF Connect, AcceptEnds, UdpEnds, Quit, vars, sessions, history
<1>2. /\ accept' = accept \/ (accept = "accept" /\ accept' = "ended")
      /\ main' = main \/ (main = "up" /\ main' = "next")
      /\ udp' \in {udp, "ended"}
      /\ waiting' = waiting \/ \E c \in Conn : c \notin taken /\ waiting' = waiting \cup {c}
      /\ taken' = taken
  BY DEF Connect, AcceptEnds, UdpEnds, Quit, vars
<1>3. TypeOK'
  BY <1>1, <1>2 DEF IInv, TypeOK, Sender
<1>4. Sockets'
  BY <1>1, <1>2 DEF IInv, Sockets, NoSocketLost, Owned, Arrived, AcceptStopping, MainStopping, Closing, Sender
<1>5. Unstarted' /\ Following'
  BY <1>1 DEF IInv, Unstarted, Following, Follows
<1>6. AnswerToCaller'
  BY <1>1, AnswersStay DEF IInv
<1> QED
  BY <1>3, <1>4, <1>5, <1>6 DEF IInv

-----------------------------------------------------------------------------
(* Theorems *)

\* Every step keeps the invariant.
LEMMA StepIInv == IInv /\ [Next]_vars => IInv'
BY RunsKeeps, AcceptKeeps, FindKeeps, AcceptStopsKeeps, StartKeeps, NextSessionKeeps, MainStopsKeeps,
   StopListeningKeeps, OtherSocketKeeps, OtherStepsKeep DEF Next

\* The invariant holds in every state.
LEMMA Invariance == Spec => []IInv
BY InitIInv, StepIInv, PTL DEF Spec

\* Types; and no session thread is started where one is still to be joined, nor is the accept
\* thread stopped before the map is empty (rpc_server.cpp:39, 123).
THEOREM TypeCorrect == Spec => []TypeOK
<1>1. IInv => TypeOK
  BY DEF IInv
<1> QED
  BY <1>1, Invariance, PTL

\* However connections of a host follow each other and the server ends, each accepted socket
\* that is not closed is its host's session, or about to be (rpc_server.cpp:42-45, 112-122).
THEOREM NoSocketIsLost == Spec => []NoSocketLost
<1>1. IInv => NoSocketLost
  BY DEF IInv, Sockets
<1> QED
  BY <1>1, Invariance, PTL

\* An answer goes to the connection of its call, unless the system gives out a handle's value
\* again while the server has it in hand (rpc_server.cpp:113-114, 139, tcp.h:41-44).
THEOREM AnswersToCaller == Spec => []AnswerToCaller
<1>1. IInv => AnswerToCaller
  BY DEF IInv
<1> QED
  BY <1>1, Invariance, PTL
=============================================================================
