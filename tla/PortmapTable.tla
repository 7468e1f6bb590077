---------------------------- MODULE PortmapTable ----------------------------
(***************************************************************************)
(* What the portmapper promises: it knows one port of each program,        *)
(* version and protocol, that of the registration which came first, until  *)
(* that is taken back.                                                     *)
(***************************************************************************)
EXTENDS Naturals

CONSTANTS
  Key,        \* program, version and protocol
  Port,
  Initial     \* the registrations made before the first call

VARIABLES
  registered, \* the port of each registered key
  answer      \* the answer of the last call it took, and the key it was for

vars == <<registered, answer>>

NoAnswer == [proc |-> "none"]

Set(k, port) ==
  /\ answer' = [proc |-> "SET", key |-> k, result |-> IF k \in DOMAIN registered THEN 0 ELSE 1]
  /\ registered' =
       IF k \in DOMAIN registered THEN registered
       ELSE [j \in DOMAIN registered \cup {k} |-> IF j = k THEN port ELSE registered[j]]

Unset(k) ==
  /\ answer' = [proc |-> "UNSET", key |-> k, result |-> IF k \in DOMAIN registered THEN 1 ELSE 0]
  /\ registered' = [j \in DOMAIN registered \ {k} |-> registered[j]]

GetPort(k) ==
  /\ answer' = [proc |-> "GETPORT", key |-> k,
                result |-> IF k \in DOMAIN registered THEN registered[k] ELSE 0]
  /\ UNCHANGED registered

\* A call that is refused, or is not one of these.
Refuse == answer' = NoAnswer /\ UNCHANGED registered

Init == registered = Initial /\ answer = NoAnswer

Next ==
  \/ \E k \in Key : Unset(k) \/ GetPort(k) \/ \E port \in Port : Set(k, port)
  \/ Refuse

Spec == Init /\ [][Next]_vars
=============================================================================
