---------------------------- MODULE RpcServices ----------------------------
(***************************************************************************)
(* Calls from the words of a message to the answer: the router of each of  *)
(* the three servers, the procedures of the portmapper (portmap.cpp) with  *)
(* the registrations they share, and SETATTR as far as the size of a file, *)
(* with the reader of its arguments (nfs3.cpp:52-124, 192-224).            *)
(*                                                                         *)
(* Calls come one after the other: two that change the registrations at    *)
(* once have no defined outcome, their vector has no lock.  A message is   *)
(* whole or lacks its verifier; before that the readers look past its end. *)
(* External: the clients, and what else SETATTR may fail for (Nfs3Files).  *)
(***************************************************************************)
EXTENDS RpcRouter

CONSTANTS
  Calls,      \* what the clients call
  None,       \* nothing, an absent field
  MaxSets     \* bound: registrations

TCP == 6
UDP == 17

OK == 0
ERR_IO == 5     \* for any error of SETATTR

Registration == [program : Nat, version : Nat, protocol : Nat, port : Nat]

\* An attribute of n words that is sent or not, and a time with the client's for way 2.
Field(n) == {<<>>} \cup [1 .. n -> Nat]
ClientTime == [how : {0, 1}, words : {<<>>}] \cup [how : {2}, words : [1 .. 2 -> Nat]]

Arguments ==
  [kind : {"words"}, words : Seq(Nat)]
  \cup [kind : {"mapping"}, program : Nat, version : Nat, protocol : Nat, port : Nat]
  \cup [kind : {"setattr"}, mode : Field(1), uid : Field(1), gid : Field(1), size : Field(2),
        atime : ClientTime, mtime : ClientTime, check : Field(2)]

Call ==
  [server : {"portmap", "mount", "nfs"}, rpcvers : Nat, program : Nat, version : Nat,
   procedure : Nat, cred : Nat, verf : Nat, whole : BOOLEAN, args : Arguments]

\* What the portmapper is sent in the place of a mapping is too short for one, and what
\* SETATTR is sent in the place of its arguments has no handle or is too short.
Strange(c) ==
  \/ Len(c.args.words) < 4
  \/ c.server # "portmap" /\ (Len(c.args.words) < 9 \/ c.args.words[1] = 0)

ASSUME ServicesAssumption ==
  /\ Calls \subseteq Call
  /\ \A c \in Calls : c.args.kind = "words" => Strange(c)
  /\ \A c \in Calls : c.args.kind = "setattr" => c.server # "portmap"
  /\ None \notin Registration
  /\ MaxSets \in Nat /\ MaxSets >= 4     \* the registrations of the program itself

VARIABLES
  store,      \* store_m, the registrations in their order
  file,       \* the size of a file, its high and low word
  asked,      \* the last call
  taken,      \* the arguments its procedure got
  reply       \* its answer

services_vars == <<store, file, asked, taken, reply>>

-----------------------------------------------------------------------------
(* The programs: numbers, versions, procedures *)

PORTMAP == 100000
MOUNT == 100005
NFS == 100003

Programs ==
  [portmap |-> Added(PORTMAP, 2, Procedures(
     <<<<0, Procedure("NULL")>>, <<1, Procedure("SET")>>, <<2, Procedure("UNSET")>>,
       <<3, Procedure("GETPORT")>>>>)),
   mount |-> Added(MOUNT, 3, Procedures(
     <<<<0, Procedure("NULL")>>, <<1, Procedure("MNT")>>, <<3, Procedure("UMNT")>>,
       <<4, Procedure("UMNTALL")>>>>)),
   nfs |-> Added(NFS, 3, Procedures(
     <<<<0, Procedure("NULL")>>, <<1, Procedure("GETATTR")>>, <<2, Procedure("SETATTR")>>,
       <<3, Procedure("LOOKUP")>>, <<4, Procedure("ACCESS")>>, <<5, Procedure("READLINK")>>,
       <<6, Procedure("READ")>>, <<7, Procedure("WRITE")>>, <<8, Procedure("CREATE")>>,
       <<9, Procedure("MKDIR")>>, <<10, Unsupported("SYMLINK")>>, <<11, Unsupported("MKNOD")>>,
       <<12, Procedure("REMOVE")>>, <<13, Procedure("RMDIR")>>, <<14, Procedure("RENAME")>>,
       <<15, Unsupported("LINK")>>, <<16, Procedure("READDIR")>>, <<17, Procedure("READDIRPLUS")>>,
       <<18, Procedure("FSSTAT")>>, <<19, Procedure("FSINFO")>>, <<20, Procedure("PATHCONF")>>,
       <<21, Procedure("COMMIT")>>>>))]

-----------------------------------------------------------------------------
(* What clients send.  External: RFC 1057 and RFC 1813. *)

Auth(flavor, size) == <<flavor, size>> \o Blanks(size, 7)

Optional(field) == IF field = <<>> THEN <<0>> ELSE <<1>> \o field

\* An attribute that is sent has its words, one that is not has none; a time has the way to
\* set it, and the words of the client's time for way 2.
Time(time) == <<time.how>> \o (IF time.how = 2 THEN time.words ELSE <<>>)

Params(args) ==
  CASE args.kind = "words" -> args.words
    [] args.kind = "mapping" -> <<args.program, args.version, args.protocol, args.port>>
    [] args.kind = "setattr" ->
         <<1, 9>> \o Optional(args.mode) \o Optional(args.uid) \o Optional(args.gid)
         \o Optional(args.size) \o Time(args.atime) \o Time(args.mtime) \o Optional(args.check)

Message(c) ==
  <<1, CALL, c.rpcvers, c.program, c.version, c.procedure>> \o Auth(1, c.cred)
  \o (IF c.whole THEN Auth(0, c.verf) \o Params(c.args) ELSE <<>>)

-----------------------------------------------------------------------------
(* The portmapper *)

KeyOf(mapping) == <<mapping.program, mapping.version, mapping.protocol>>

\* Mutant of find: the version does not count.
findAnyVersion(mappings, mapping) ==
  SelectInSeq(mappings, LAMBDA m : m.program = mapping.program /\ m.protocol = mapping.protocol)

\* The place of the first of them with the key, or 0.
find(mappings, mapping) == SelectInSeq(mappings, LAMBDA m : KeyOf(m) = KeyOf(mapping))

\* Mutant of set: whether the key is registered is not asked.
setAnyway(mappings, mapping) == Append(mappings, mapping)

set(mappings, mapping) ==
  IF find(mappings, mapping) # 0 THEN mappings ELSE Append(mappings, mapping)

unset(mappings, mapping) ==
  LET i == find(mappings, mapping) IN IF i = 0 THEN mappings ELSE RemoveAt(mappings, i)

get_port(mappings, mapping) ==
  LET i == find(mappings, mapping) IN IF i = 0 THEN 0 ELSE mappings[i].port

HasMapping(w) == HasSize(w, 4)

read_mapping(w) ==
  [program |-> Get(w, 0), version |-> Get(w, 1), protocol |-> Get(w, 2), port |-> Get(w, 3)]

\* run adds the two programs for either protocol.
Own(program, port) ==
  <<[program |-> program, version |-> 3, protocol |-> TCP, port |-> port],
    [program |-> program, version |-> 3, protocol |-> UDP, port |-> port]>>

Started == FoldLeft(set, <<>>, Own(MOUNT, 1058) \o Own(NFS, 2049))

-----------------------------------------------------------------------------
(* The reader of SETATTR's attributes *)

\* An optional field of n words at offset: whether it is there, and where the next one is.
Has(w, offset) == HasSize(w, offset + 1) /\ Get(w, offset) # 0

Behind(w, offset, n) == offset + 1 + (IF Has(w, offset) THEN n ELSE 0)

TimeSize(w, offset) == IF HasSize(w, offset + 1) /\ Get(w, offset) = 2 THEN 3 ELSE 1

\* The offsets of mode, uid, gid, size, atime and mtime, and of what follows.
Offsets(w) ==
  LET uid == Behind(w, 0, 1)
      gid == Behind(w, uid, 1)
      size == Behind(w, gid, 1)
      atime == Behind(w, size, 2)
      mtime == atime + TimeSize(w, atime)
  IN [uid |-> uid, gid |-> gid, size |-> size, atime |-> atime, mtime |-> mtime,
      end |-> mtime + TimeSize(w, mtime)]

ValidSetAttr(w) == HasSize(w, Offsets(w).end)

ReadTime(w, offset) ==
  LET how == Get(w, offset)
  IN [how |-> how, words |-> IF how = 2 THEN <<Get(w, offset + 1), Get(w, offset + 2)>> ELSE <<>>]

\* uid, gid and size are taken if there is a mode, whether they are there or not.
ReadSetAttr(w) ==
  LET o == Offsets(w)
      Taken(offset, n) == IF Has(w, 0) THEN SubSeq(w, offset + 2, offset + 1 + n) ELSE <<>>
  IN [mode |-> Taken(0, 1), uid |-> Taken(o.uid, 1), gid |-> Taken(o.gid, 1),
      size |-> Taken(o.size, 2), atime |-> ReadTime(w, o.atime), mtime |-> ReadTime(w, o.mtime)]

\* The handle, the attributes and the guard.
AttributesOf(w) == GetReader(w, 1 + OpaqueSize(w, 0))

ValidSetAttrArgs(w) ==
  LET rest == AttributesOf(w)
  IN /\ OpaqueSize(w, 0) # 0
     /\ ValidSetAttr(rest)
     /\ HasSize(rest, Behind(rest, Offsets(rest).end, 2))

ReadSetAttrArgs(w) ==
  LET rest == AttributesOf(w)
      end == Offsets(rest).end
  IN [attributes |-> ReadSetAttr(rest),
      check |-> IF Has(rest, end) THEN <<Get(rest, end + 1), Get(rest, end + 2)>> ELSE <<>>]

-----------------------------------------------------------------------------
(* The procedures.  Each answers, or finds its arguments invalid. *)

Answer(stat, result) == reply' = [stat |-> stat, result |-> result]

Garbage == Answer("GARBAGE_ARGS", 0) /\ taken' = None /\ UNCHANGED <<store, file>>

Null(w) ==
  IF w # <<>> THEN Garbage
  ELSE Answer("SUCCESS", 0) /\ taken' = None /\ UNCHANGED <<store, file>>

Flag(condition) == IF condition THEN 1 ELSE 0

\* The port is what SET and UNSET compare with the protocols.
Change(w, changed) ==
  IF ~HasMapping(w) \/ read_mapping(w).port \notin {TCP, UDP} THEN Garbage
  ELSE /\ store' = changed
       /\ taken' = read_mapping(w)
       /\ Answer("SUCCESS", Flag(changed # store))
       /\ UNCHANGED file

GetPort(w) ==
  IF ~HasMapping(w) THEN Garbage
  ELSE /\ Answer("SUCCESS", get_port(store, read_mapping(w)))
       /\ taken' = read_mapping(w)
       /\ UNCHANGED <<store, file>>

SetAttr(w) ==
  IF ~ValidSetAttrArgs(w) THEN Garbage
  ELSE /\ taken' = ReadSetAttrArgs(w)
       /\ LET size == ReadSetAttrArgs(w).attributes.size
              resized == IF size = <<>> THEN file ELSE size
          IN \/ file' = resized /\ Answer("SUCCESS", OK)
             \/ file' \in {file, resized} /\ Answer("SUCCESS", ERR_IO)
       /\ UNCHANGED store

Run(name, w) ==
  \/ name = "NULL" /\ Null(w)
  \/ name = "SET" /\ Len(store) < MaxSets /\ Change(w, set(store, read_mapping(w)))
  \/ name = "UNSET" /\ Change(w, unset(store, read_mapping(w)))
  \/ name = "GETPORT" /\ GetPort(w)
  \/ name = "SETATTR" /\ SetAttr(w)

HandleCall(c) ==
  LET answer == handle(Programs[c.server], Message(c))
  IN /\ asked = None
     /\ asked' = c
     /\ IF answer.stat = "call"
        THEN Run(answer.name, answer.parameters)
        ELSE reply' = answer /\ taken' = None /\ UNCHANGED <<store, file>>

\* The answer is on its way: the server is ready for the next call.
Replied ==
  /\ asked # None
  /\ asked' = None /\ taken' = None /\ reply' = None
  /\ UNCHANGED <<store, file>>

ServicesInit ==
  /\ store = Started
  /\ file = <<0, 5>>
  /\ asked = None /\ taken = None /\ reply = None

ServicesNext == (\E c \in Calls : HandleCall(c)) \/ Replied

ServicesSpec == ServicesInit /\ [][ServicesNext]_services_vars

-----------------------------------------------------------------------------
(* Properties *)

Keys == {KeyOf(store[i]) : i \in DOMAIN store}

\* Types; a program, version and protocol is registered once, with a port that is its own or,
\* from SET, a protocol (portmap.cpp:37-43, 76-84).
ServicesTypeOK ==
  /\ \A i \in DOMAIN store :
       /\ store[i].port \in {TCP, UDP} \/ store[i] \in Range(Started)
       /\ \A j \in DOMAIN store : KeyOf(store[i]) = KeyOf(store[j]) => i = j
  /\ Len(store) <= MaxSets
  /\ Len(file) = 2
  /\ asked \in Calls \cup {None}

\* The program, the version and the procedures of each server.
Offers ==
  [portmap |-> [program |-> PORTMAP, version |-> 2, procedures |-> 0 .. 3],
   mount |-> [program |-> MOUNT, version |-> 3, procedures |-> {0, 1, 3, 4}],
   nfs |-> [program |-> NFS, version |-> 3, procedures |-> (0 .. 21) \ {10, 11, 15}]]

\* The arguments are those of the procedure.
Fits(c) ==
  IF c.procedure = 0 THEN c.args.kind = "words" /\ c.args.words = <<>>
  ELSE IF c.server = "nfs" THEN c.args.kind = "setattr"
  ELSE c.args.kind = "mapping" /\ (c.procedure = 3 \/ c.args.port \in {TCP, UDP})

\* What rpc.h:26-36 says the answer to a call is.
Expected(c) ==
  LET offer == Offers[c.server]
  IN CASE ~c.whole -> "none"
       [] c.whole /\ c.rpcvers # VERSION -> "RPC_MISMATCH"
       [] c.whole /\ c.rpcvers = VERSION ->
            IF c.program # offer.program THEN "PROG_UNAVAIL"
            ELSE IF c.version # offer.version THEN "PROG_MISMATCH"
            ELSE IF c.procedure \notin offer.procedures THEN "PROC_UNAVAIL"
            ELSE IF Fits(c) THEN "SUCCESS" ELSE "GARBAGE_ARGS"

TakenAsSent(c) ==
  CASE c.args.kind = "mapping" -> \A f \in DOMAIN taken : taken[f] = c.args[f]
    [] c.args.kind = "setattr" ->
         /\ taken.check = c.args.check
         /\ \A f \in {"mode", "atime", "mtime"} : taken.attributes[f] = c.args[f]
         /\ \A f \in {"uid", "gid", "size"} :
              IF c.args.mode = <<>> THEN taken.attributes[f] = <<>>
              ELSE c.args[f] # <<>> => taken.attributes[f] = c.args[f]
    [] OTHER -> TRUE

\* Each call gets the answer its header calls for, the tables have no procedure where the
\* program has none and the versions told are those there are; and behind a credential and a
\* verifier of any size the procedure gets what was sent, except for the uid, gid and size of
\* SETATTR, which depend on the mode (rpc_router.cpp:11-75, rpc.h:82-108, nfs3.cpp:52-124).
CallsUnderstood ==
  asked # None =>
    /\ reply.stat = Expected(asked)
    /\ reply.stat = "PROG_MISMATCH" =>
         reply.low = Offers[asked.server].version /\ reply.high = reply.low
    /\ taken # None => TakenAsSent(asked)

\* The keys the calls name.
Named == {KeyOf(c.args) : c \in {d \in Calls : d.args.kind = "mapping"}}

Table == INSTANCE PortmapTable WITH
  Key <- Named,
  Port <- {TCP, UDP},
  Initial <- [k \in {MOUNT, NFS} \X {3} \X {TCP, UDP} |-> IF k[1] = NFS THEN 2049 ELSE 1058],
  registered <- [k \in Keys |-> store[find(store, [program |-> k[1], version |-> k[2], protocol |-> k[3]])].port],
  answer <- IF taken # None /\ asked.server = "portmap"
            THEN [proc |-> <<"SET", "UNSET", "GETPORT">>[asked.procedure],
                  key |-> KeyOf(taken), result |-> reply.result]
            ELSE [proc |-> "none"]

\* Across any calls the registrations are those of the abstract portmapper, and SET, UNSET and
\* GETPORT answer as it does (portmap.cpp:37-60).
ImplementsPortmap == Table!Spec

\* SETATTR changes the attributes that it sets (nfs3.h:49, 153): a size that is not sent stays.
SizeKept ==
  [][asked' # None /\ asked'.args.kind = "setattr" /\ asked'.args.size = <<>> => file' = file]_services_vars
=============================================================================
