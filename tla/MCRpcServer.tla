----------------------------- MODULE MCRpcServer -----------------------------
EXTENDS RpcServer, TLC

CONSTANTS c1, c2, c3, h1, h2

\* c1 and c2 are of one host.
MCHostOf == c1 :> h1 @@ c2 :> h1 @@ c3 :> h2
=============================================================================
