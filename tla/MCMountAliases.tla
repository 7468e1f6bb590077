--------------------------- MODULE MCMountAliases ---------------------------
(* A small instance of MountAliases for TLC: paths as typed in a file, nested *)
(* exports, names that are prefixes of each other, and the root of a drive.   *)
EXTENDS MountAliases

MCChar == {"/", "\\", ":", "?", "C", "a", "b", "x"}

Verbatim == <<"\\", "\\", "?", "\\">>

DriveA == <<"C", ":", "\\", "a">>
DriveASlash == DriveA \o <<"\\">>
DriveAB == DriveA \o <<"\\", "b">>
DriveAx == DriveA \o <<"x">>
Relative == <<"a">>
Root == <<"\\">>

LocA == Verbatim \o DriveA
LocAB == Verbatim \o DriveAB
LocAx == Verbatim \o DriveAx
LocRoot == Verbatim \o <<"C", ":", "\\">>

MCLocation == {LocA, LocAB, LocAx, LocRoot}
MCCanonical ==
  [w \in MCLocation \cup {DriveA, DriveASlash, DriveAB, DriveAx, Relative, Root} |->
     CASE w \in {DriveA, DriveASlash, Relative} -> LocA
       [] w = DriveAB -> LocAB
       [] w = DriveAx -> LocAx
       [] w = Root -> LocRoot
       [] OTHER -> w]
MCPath == DOMAIN MCCanonical
MCNoPath == <<>>

Line(w) == <<w, NoAlias>>
MCContent ==
  {<<>>, <<Line(DriveA)>>, <<Line(DriveAB), Line(DriveASlash)>>, <<Line(LocA), Line(DriveAx)>>,
   <<Line(Root), Line(DriveA)>>, <<Line(Relative)>>}
MCExtra == {<<DriveAB, <<"/", "C", "/", "a">>>>, <<DriveAx, <<"/">>>>}

MCQuery ==
  {<<>>, <<"/">>, <<"/", "/", "a">>, <<"/", "C", "/", "a">>, <<"/", "C", "/", "a", "x">>,
   <<"/", "C", "/", "a", "/", "b">>, <<"/", "C", "/", "a", "/", "b", "/">>,
   <<"/", "C", "/", "a", "/", "b", "b">>, <<"/", "a", "/", "b">>, <<"a">>}

\* A directory keeps its identity here: only whether it exists matters.
MCFile == {"fA", "fAB", "fAx", "fRoot"}
FileOf ==
  [l \in MCLocation |->
     CASE l = LocA -> "fA" [] l = LocAB -> "fAB" [] l = LocAx -> "fAx" [] OTHER -> "fRoot"]
OwnPlaces == \A l \in Location : disk[l] \in {FileOf[l], NoFile}

=============================================================================
