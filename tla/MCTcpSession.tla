---------------------------- MODULE MCTcpSession ----------------------------
(* Small instances of TcpSession for TLC. *)
EXTENDS TcpSession

Call(n) == [kind |-> "call", body |-> n]
Noise(n) == [kind |-> "noise", body |-> n]
Fragment == [kind |-> "fragment", body |-> 1]
Huge == [kind |-> "huge", body |-> 2]

\* Streams of every kind, with records that end where a receive may end.
MixedStreams ==
  {<<Call(1), Call(2), Call(0)>>, <<Noise(2), Call(1), Call(5)>>,
   <<Call(1), Fragment, Call(1)>>, <<Huge, Call(1)>>, <<Call(2), Noise(0), Huge>>,
   <<Call(5), Call(0), Call(2), Call(3)>>}

=============================================================================
