--------------------------- MODULE MCRpcServices ---------------------------
(* A small instance of RpcServices for TLC. *)
EXTENDS RpcServices

Words(words) == [kind |-> "words", words |-> words]

Header(server, rpcvers, program, version, procedure, args) ==
  [server |-> server, rpcvers |-> rpcvers, program |-> program, version |-> version,
   procedure |-> procedure, cred |-> 0, verf |-> 0, whole |-> TRUE, args |-> args]

\* The numbers around those in use, without arguments.
Near(server, program, version) ==
  {Header(server, rpcvers, program, version, 0, Words(<<>>)) : rpcvers \in {1, 2, 3}}
  \cup {Header(server, 2, other, version, 0, Words(<<>>)) : other \in {PORTMAP, MOUNT, NFS}}
  \cup {Header(server, 2, program, v, 0, Words(<<>>)) : v \in 1 .. 4}

Probes ==
  Near("portmap", PORTMAP, 2) \cup Near("mount", MOUNT, 3) \cup Near("nfs", NFS, 3)
  \cup {Header("portmap", 2, PORTMAP, 2, procedure, Words(<<>>)) : procedure \in 0 .. 5}
  \cup {Header("mount", 2, MOUNT, 3, procedure, Words(<<>>)) : procedure \in {2, 5, 6}}
  \cup {Header("nfs", 2, NFS, 3, procedure, Words(<<>>)) : procedure \in {2, 10, 11, 15, 22}}

Mapping(program, version, protocol, port) ==
  [kind |-> "mapping", program |-> program, version |-> version, protocol |-> protocol, port |-> port]

Mappings ==
  {Mapping(NFS, 3, TCP, port) : port \in {TCP, 2049}}
  \cup {Mapping(NFS, 3, UDP, UDP), Mapping(NFS, 4, TCP, UDP), Mapping(7, 3, TCP, TCP)}

\* Calls with arguments, behind credentials and verifiers of different sizes.
PortmapCalls ==
  {Header("portmap", 2, PORTMAP, 2, procedure, args) :
     procedure \in 0 .. 3, args \in Mappings \cup {Words(<<NFS, 3, 6>>)}}

Authorised(calls) ==
  {[c EXCEPT !.cred = cred, !.verf = verf] : c \in calls, cred \in {0, 3}, verf \in {0, 2}}

SentTime(how) == [how |-> how, words |-> IF how = 2 THEN <<3, 4>> ELSE <<>>]

Attributes ==
  [kind : {"setattr"}, mode : {<<>>, <<8>>}, uid : {<<>>, <<1>>}, gid : {<<>>, <<2>>},
   size : {<<>>, <<0, 6>>}, atime : {SentTime(how) : how \in {0, 2}}, mtime : {SentTime(how) : how \in 0 .. 2},
   check : {<<>>, <<5, 6>>}]

SetAttrCalls ==
  {[Header("nfs", 2, NFS, 3, 2, args) EXCEPT !.cred = 1] : args \in Attributes \cup {Words(<<1, 9, 0>>), Words(Blanks(8, 0))}}

MCCalls ==
  Probes \cup PortmapCalls \cup SetAttrCalls
  \cup Authorised({c \in PortmapCalls : c.procedure = 3 /\ c.args \in Mappings})
  \cup {[c EXCEPT !.whole = FALSE] : c \in Probes}
=============================================================================
