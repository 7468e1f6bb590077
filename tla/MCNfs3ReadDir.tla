---------------------------- MODULE MCNfs3ReadDir ----------------------------
(* Small instances of Nfs3ReadDir for TLC. *)
EXTENDS Nfs3ReadDir

Lengths == <<1, 5, 4>>

\* Room for two entries by maxcount, for one by dircount, for all, and for none of the entry 2.
SomeCounts == {[dircount |-> 1000, maxcount |-> 450], [dircount |-> 26, maxcount |-> 1000],
               [dircount |-> 1000, maxcount |-> 1000], [dircount |-> 24, maxcount |-> 1000]}

=============================================================================
