----------------------------- MODULE MCNfs3Files -----------------------------
(* Small instances of Nfs3Files for TLC. *)
EXTENDS Nfs3Files, TLC

Symmetry == Permutations(Thread)

WriteAt(offset) == [proc |-> "WRITE", offset |-> offset]
ReadAt(offset, count) == [proc |-> "READ", offset |-> offset, count |-> count]
Set(size, check, set) == [proc |-> "SETATTR", size |-> size, check |-> check, set |-> set]

\* The ways calls differ: a WRITE that truncates and one that does not; a SETATTR of the
\* size, of a time, of both with and without the guard.
SomeCalls ==
  GetAttr \cup {ReadAt(1, 1), WriteAt(0), WriteAt(1),
               Set(0, None, {}), Set(None, None, {"atime"}), Set(1, 0, {"mtime"})}

=============================================================================
