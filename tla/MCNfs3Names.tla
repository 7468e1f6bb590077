----------------------------- MODULE MCNfs3Names -----------------------------
EXTENDS Nfs3Names, TLC

CONSTANTS t1, t2, t3, root, da, db, dc, dd, de, f1, f2, f3, x, y, z

\* root has da and db; da has dc and f3, db has the read only de, dc has f1;
\* dd and f2 are yet to be made.
MCDirectory == {root, da, db, dc, dd, de}
MCFile == {f1, f2, f3}
MCEntries ==
  da :> [dir |-> root, name |-> x] @@ db :> [dir |-> root, name |-> y]
    @@ dc :> [dir |-> da, name |-> x] @@ de :> [dir |-> db, name |-> x]
    @@ f1 :> [dir |-> dc, name |-> x] @@ f3 :> [dir |-> da, name |-> z]
MCAttributes == [o \in MCDirectory \cup MCFile |-> IF o = de THEN {"readonly"} ELSE {}]

Plain(p, in, n) == [proc |-> p, dir |-> in, name |-> n]
Moving(in, n, to, m) == [proc |-> "RENAME", dir |-> in, name |-> n, todir |-> to, toname |-> m]
Creating(in, n, how) == [proc |-> "CREATE", dir |-> in, name |-> n, how |-> how]

MCCalls ==
  {Plain("LOOKUP", dc, x), Plain("LOOKUP", dc, Dot), Plain("LOOKUP", root, Slashed), Plain("LOOKUP", f1, x)}
    \cup {Creating(dc, y, "GUARDED"), Creating(de, x, "UNCHECKED"), Creating(dc, x, "EXCLUSIVE")}
    \cup {Plain("MKDIR", dc, y), Plain("MKDIR", da, x)}
    \cup {Plain("REMOVE", dc, x), Plain("RMDIR", da, x), Plain("RMDIR", dc, y)}
    \cup {Moving(root, x, root, z), Moving(root, y, root, x), Moving(da, x, root, z), Moving(root, x, dc, y),
          Moving(dc, x, da, z), Moving(root, y, da, x), Moving(db, x, da, x)}
    \cup {[proc |-> "ACCESS", dir |-> de, access |-> Bits], [proc |-> "READLINK", dir |-> f1]}

Symmetry == Permutations(Thread)
=============================================================================
