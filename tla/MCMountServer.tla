--------------------------- MODULE MCMountServer ---------------------------
(* A small instance of MountServer for TLC: two nested directories, one of   *)
(* which is also reached by another spelling.                                *)
EXTENDS MountServer, TLC

CONSTANTS t1, t2

Threads == Permutations({t1, t2})

DriveA == <<"C", ":", "\\", "a">>
DriveAB == DriveA \o <<"\\", "b">>
Verbatim == <<"\\", "\\", "?", "\\">>

LocA == Verbatim \o DriveA
LocAB == Verbatim \o DriveAB
SpelledAB == LocA \o <<"\\", "B">>

MCLocation == {LocA, LocAB}
MCCanonical ==
  [w \in {LocA, LocAB, DriveA, DriveAB, SpelledAB} |->
     IF w \in {LocA, DriveA} THEN LocA ELSE LocAB]
MCChar == {"/", "\\", ":", "?", "C", "a", "b", "B"}
MCPath == DOMAIN MCCanonical
MCNoPath == <<>>

Line(w) == <<w, <<>>>>
MCContent == {<<>>, <<Line(DriveA)>>, <<Line(DriveAB), Line(DriveA)>>}

AliasAB == <<"/", "C", "/", "a", "/", "b">>
MCQuery == {AliasAB, <<"/", "C", "/", "a", "/", "B">>}

=============================================================================
