----------------------------- MODULE TcpSession -----------------------------
(***************************************************************************)
(* One TCP connection of an RPC server (rpc_server.cpp:123-144 and the     *)
(* receive loop, tcp.h:112-129): records, each with a length word in       *)
(* front, arrive in pieces of any size; the session thread appends what it *)
(* received to a buffer and calls back once per receive.                   *)
(*                                                                         *)
(* A byte is <<m, k>>: the k-th byte of the m-th record.  The peer and the *)
(* network, which loses nothing and keeps the order, are external.         *)
(***************************************************************************)
EXTENDS Integers, Sequences, SequencesExt

CONSTANTS
  Streams,   \* what a peer may send: sequences of records
  Segment,   \* bound: bytes one receive takes at most (1500 in the code)
  Windows    \* how many calls a peer sends before the first is answered

ASSUME WindowAssumption == Segment \in Nat \ {0} /\ Windows \subseteq Nat \ {0}

VARIABLES
  stream,    \* the records the peer sends in its life
  window,    \* how many calls it leaves unanswered at most
  sent,      \* how many of them it has sent
  peer,      \* "open", "closed" after its last record, "reset" by an error
  wire,      \* bytes not received yet
  buffer,    \* the buffer of the receive loop
  thread,    \* the session thread: in recv, in the callback, or at its end
  dropped,   \* history: the callback has returned false
  replies    \* the records answered, in order

vars == <<stream, window, sent, peer, wire, buffer, thread, dropped, replies>>

\* "call" is answered; the router has no answer to "noise"; "fragment" lacks the
\* bit of a last fragment; the length word of "huge" is above 1 MB.
Kind == {"call", "noise", "fragment", "huge"}
Record == [kind : Kind, body : Nat]

ASSUME StreamAssumption == Streams \subseteq Seq(Record)

HeaderSize == 4
Size(m) == HeaderSize + stream[m].body
Bytes(m) == [k \in 1 .. Size(m) |-> <<m, k>>]
BytesOf(first, last) == FlattenSeq([i \in 1 .. last - first + 1 |-> Bytes(first + i - 1)])

-----------------------------------------------------------------------------
(* The peer *)

AddCall(calls, m) == IF stream[m].kind = "call" THEN Append(calls, m) ELSE calls

\* The first n records without those that are not calls.
CallsAmong(n) == FoldLeft(AddCall, <<>>, [m \in 1 .. n |-> m])

Unanswered == Len(CallsAmong(sent)) - Len(replies)

Send ==
  /\ peer = "open"
  /\ sent < Len(stream)
  /\ Unanswered < window
  /\ sent' = sent + 1
  /\ wire' = wire \o Bytes(sent + 1)
  /\ UNCHANGED <<stream, window, peer, buffer, thread, dropped, replies>>

Close ==
  /\ peer = "open"
  /\ peer' = "closed"
  /\ UNCHANGED <<stream, window, sent, wire, buffer, thread, dropped, replies>>

\* The connection breaks; what was not received is lost.
Reset ==
  /\ peer # "reset"
  /\ peer' = "reset"
  /\ wire' = <<>>
  /\ UNCHANGED <<stream, window, sent, buffer, thread, dropped, replies>>

-----------------------------------------------------------------------------
(* The session thread *)

\* Mutant of Receive: the room made for recv is not cut back to what came.
ReceiveUncut(n) ==
  /\ thread = "receiving"
  /\ n <= Len(wire)
  /\ buffer' = buffer \o SubSeq(wire, 1, n) \o [i \in 1 .. Segment - n |-> <<0, 0>>]
  /\ wire' = SubSeq(wire, n + 1, Len(wire))
  /\ thread' = "callback"
  /\ UNCHANGED <<stream, window, sent, peer, dropped, replies>>

\* recv returns some bytes.
Receive(n) ==
  /\ thread = "receiving"
  /\ n <= Len(wire)
  /\ buffer' = buffer \o SubSeq(wire, 1, n)
  /\ wire' = SubSeq(wire, n + 1, Len(wire))
  /\ thread' = "callback"
  /\ UNCHANGED <<stream, window, sent, peer, dropped, replies>>

\* recv returns 0 or an error: the loop ends, and nothing closes the socket.
ReceiveNothing ==
  /\ thread = "receiving"
  /\ peer # "open"
  /\ wire = <<>>
  /\ thread' = "ended"
  /\ UNCHANGED <<stream, window, sent, peer, wire, buffer, dropped, replies>>

\* The record whose first byte is the first of the buffer.
Head1 == stream[Head(buffer)[1]]

\* The callback has returned false; the thread leaves its loop.  The bytes behind the
\* end of a short buffer are zeros (receive resizes to 1500 more before it cuts), so
\* that a length word only grows as more of it arrives: "huge" may show early.
Drop ==
  /\ thread = "callback"
  /\ Head1.kind \in {"fragment", "huge"}
  /\ thread' = "ended"
  /\ dropped' = TRUE
  /\ UNCHANGED <<stream, window, sent, peer, wire, buffer, replies>>

\* Mutant of Complete: a record is handled when a byte of the next one is there.
CompleteLate == Len(buffer) > HeaderSize + Head1.body

Complete == Head1.kind \in {"call", "noise"} /\ Len(buffer) >= HeaderSize + Head1.body

\* "need more data"
Wait ==
  /\ thread = "callback"
  /\ Head1.kind # "fragment"
  /\ Head1.kind = "huge" => Len(buffer) < HeaderSize
  /\ ~Complete
  /\ thread' = "receiving"
  /\ UNCHANGED <<stream, window, sent, peer, wire, buffer, dropped, replies>>

\* Mutant of Rest: the length word of the handled record stays in the buffer.
RestWithHeader == SubSeq(buffer, Head1.body + 1, Len(buffer))

\* binary.erase of what was handled.
Rest == SubSeq(buffer, HeaderSize + Head1.body + 1, Len(buffer))

\* router_m.handle and the reply, if there is one.
Handle ==
  /\ thread = "callback"
  /\ Complete
  /\ replies' = IF Head1.kind = "call" THEN Append(replies, Head(buffer)[1]) ELSE replies
  /\ buffer' = Rest
  /\ thread' = "receiving"
  /\ UNCHANGED <<stream, window, sent, peer, wire, dropped>>

Init ==
  /\ stream \in Streams
  /\ window \in Windows
  /\ sent = 0
  /\ peer = "open"
  /\ wire = <<>>
  /\ buffer = <<>>
  /\ thread = "receiving"
  /\ dropped = FALSE
  /\ replies = <<>>

Peer == Send \/ Close \/ Reset
Session == (\E n \in 1 .. Segment : Receive(n)) \/ ReceiveNothing \/ Drop \/ Wait \/ Handle

Next == Peer \/ Session

\* The session thread runs, and the network delivers; a peer may stop at any time.
Spec == Init /\ [][Next]_vars /\ WF_vars(Session)

-----------------------------------------------------------------------------
(* Properties *)

\* The values of the variables.
TypeOK ==
  /\ stream \in Seq(Record)
  /\ window \in Windows
  /\ sent \in 0 .. Len(stream)
  /\ peer \in {"open", "closed", "reset"}
  /\ thread \in {"receiving", "callback", "ended"}
  /\ dropped \in BOOLEAN
  /\ replies \in Seq(1 .. sent)
  /\ wire \in Seq((1 .. sent) \X Nat)
  /\ buffer \in Seq((1 .. sent) \X Nat)

\* However the records were cut and joined on the way, the buffer begins where a
\* record begins, nothing in it was handled before, nothing was skipped, and the
\* calls before it have been answered once and in order.
Framed ==
  \E handled \in 0 .. sent :
    /\ replies = CallsAmong(handled)
    /\ LET rest == BytesOf(handled + 1, sent)
       IN IF peer = "reset" THEN IsPrefix(buffer, rest) ELSE buffer \o wire = rest

Longest == Max({Len(s) : s \in Streams})

\* A peer that sends calls only, and waits for each answer.
Alone == window = 1 /\ \A m \in DOMAIN stream : stream[m].kind # "noise"

\* Each call of a peer that waits for the answers is answered, however it arrives,
\* unless the connection breaks or an earlier record was bad; a peer that sends its
\* last call and closes its side gets the answer too.
CallsAnswered ==
  \A m \in 1 .. Longest :
    (Alone /\ m <= sent /\ stream[m].kind = "call")
      ~> (Contains(replies, m) \/ peer = "reset" \/ dropped)

\* "need more data" (rpc_server.cpp:130): the thread goes back to recv because the
\* next record is not complete.
WaitsForData == thread = "receiving" /\ buffer # <<>> => ~Complete

=============================================================================
