---------------------------- MODULE MCMountCache ----------------------------
(* A small instance of MountCache for TLC. *)
EXTENDS MountCache, TLC

CONSTANTS p1, p1x, p2

\* p1x is another spelling of p1.
SpelledPaths == {p1, p1x, p2}
SpelledCanonical == (p1 :> p1) @@ (p1x :> p1) @@ (p2 :> p2)

=============================================================================
