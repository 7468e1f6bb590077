------------------------------ MODULE RpcRouter ------------------------------
(***************************************************************************)
(* How a call is understood: the readers of a message (xdr.h, rpc.h), the  *)
(* tables of programs, versions and procedures (range_map.h) and the way   *)
(* through them (rpc_router.cpp).                                          *)
(*                                                                         *)
(* A message is a sequence of 32 bit words, small numbers here.  Opaque    *)
(* data is kept in whole words: the padding to four bytes is left out.     *)
(***************************************************************************)
EXTENDS Naturals, SequencesExt

CALL == 0
VERSION == 2

-----------------------------------------------------------------------------
(* Readers: offsets count from 0, in words *)

HasSize(w, size) == Len(w) >= size
Get(w, offset) == w[offset + 1]
GetReader(w, offset) == SubSeq(w, offset + 1, Len(w))

\* The length of opaque data at offset, which precedes it.
OpaqueSize(w, offset) == IF HasSize(w, offset + 1) THEN Get(w, offset) ELSE 0

\* A flavor and its opaque body.
AuthSize(w) == 1 + 1 + OpaqueSize(w, 1)

\* Mutant of BodySize: the verifier has no body.
BodySizeBare(w) == 4 + AuthSize(GetReader(w, 4)) + 2

\* Four words, the credential and the verifier; the parameters follow.
BodySize(w) ==
  LET cred == AuthSize(GetReader(w, 4))
  IN 4 + cred + AuthSize(GetReader(w, 4 + cred))

-----------------------------------------------------------------------------
(* range_map_t: a vector whose first element has the index offset *)

NoEntry == [name |-> "", callback |-> FALSE]

EmptyMap == [offset |-> 0, store |-> <<>>]

RangeEnd(map) == map.offset + Len(map.store)

HasIndex(map, index) == index >= map.offset /\ index < RangeEnd(map)

At(map, index) == map.store[index - map.offset + 1]

Blanks(n, blank) == [i \in 1 .. n |-> blank]

\* extend_start leaves the offset where it was.
SetAt(map, index, data, blank) ==
  LET offset == IF map.store = <<>> THEN index ELSE map.offset
      front == IF offset > index THEN Blanks(offset - index, blank) \o map.store ELSE map.store
      end == offset + Len(front)
      whole == IF end > index THEN front ELSE front \o Blanks(1 + index - end, blank)
  IN [offset |-> offset, store |-> [whole EXCEPT ![index - offset + 1] = data]]

-----------------------------------------------------------------------------
(* The router *)

\* A procedure of a program, as describe() lists it; some have a name and no callback.
Procedure(name) == [name |-> name, callback |-> TRUE]
Unsupported(name) == [name |-> name, callback |-> FALSE]

\* The calls.set of describe(), in their order.
Procedures(list) ==
  FoldLeft(LAMBDA map, entry : SetAt(map, entry[1], entry[2], NoEntry), EmptyMap, list)

\* The router of a server with one program.
Added(program, version, procedures) ==
  [p \in {program} |-> SetAt(EmptyMap, version, procedures, EmptyMap)]

Silence == [stat |-> "none"]
Rejected == [stat |-> "RPC_MISMATCH", low |-> VERSION, high |-> VERSION]
Accepted(stat) == [stat |-> stat]
Mismatch(map) == [stat |-> "PROG_MISMATCH", low |-> map.offset, high |-> RangeEnd(map) - 1]

\* What handle answers by itself, or the procedure to call with its parameters.
handle(programs, w) ==
  LET body == GetReader(w, 2)
      program == Get(body, 1)
      versions == programs[program]
      procedures == At(versions, Get(body, 2))
      procedure == At(procedures, Get(body, 3))
  IN IF ~HasSize(w, 2) \/ Get(w, 1) # CALL \/ ~HasSize(body, BodySize(body)) THEN Silence
     ELSE IF Get(body, 0) # VERSION THEN Rejected
     ELSE IF program \notin DOMAIN programs THEN Accepted("PROG_UNAVAIL")
     ELSE IF ~HasIndex(versions, Get(body, 2)) THEN Mismatch(versions)
     ELSE IF ~HasIndex(procedures, Get(body, 3)) \/ ~procedure.callback THEN Accepted("PROC_UNAVAIL")
     ELSE [stat |-> "call", name |-> procedure.name, parameters |-> GetReader(body, BodySize(body))]
=============================================================================
