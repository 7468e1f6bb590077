------------------------- MODULE MountAliasesProofs -------------------------
(***************************************************************************)
(* Theorems about MountAliases, for any directories, any lists that are    *)
(* set, any entries that are added and any number of sources.              *)
(***************************************************************************)
EXTENDS MountAliases, SequenceTheorems, TLAPS

\* An entry, of any source.
Entry == [source : Nat, alias_path : Seq(Char), windows_path : Location]

\* A sequence over a set is one over a larger set.
LEMMA WiderSeq ==
  ASSUME NEW E, NEW F, E \subseteq F, NEW s \in Seq(E)
  PROVE  s \in Seq(F)
<1>1. \A i \in 1 .. Len(s) : s[i] \in F
  OBVIOUS
<1>2. s = [i \in 1 .. Len(s) |-> s[i]] /\ Len(s) \in Nat
  OBVIOUS
<1>3. s \in [1 .. Len(s) -> F]
  BY <1>1, <1>2
<1>4. QED
  BY <1>2, <1>3

-----------------------------------------------------------------------------
(* The list of exports. *)

\* An entry of another source than c is kept.
KeepOther(c, rest, e) == IF e.source # c THEN Append(rest, e) ELSE rest

Others == INSTANCE FoldFacts WITH Op <- KeepOther

\* An entry of source c is kept.
KeepOwn(c, rest, e) == IF e.source = c THEN Append(rest, e) ELSE rest

Owns == INSTANCE FoldFacts WITH Op <- KeepOwn

\* The entry a line of a source's file makes.
MadeOf(source, line) ==
  [source       |-> source,
   alias_path   |-> IF line[2] = NoAlias THEN windows_to_alias_path(line[1])
                    ELSE line[2],
   windows_path |-> Canonical[line[1]]]

\* A line of the file of source c.source is added, the disk being c.disk.
AddAs(c, list, line) ==
  IF \/ \E i \in DOMAIN list : list[i].alias_path = line[2]
     \/ ~(line[1] \in Path /\ c.disk[Canonical[line[1]]] # NoFile)
  THEN list
  ELSE Append(list, MadeOf(c.source, line))

Adds == INSTANCE FoldFacts WITH Op <- AddAs

\* What OfOthers folds.
LEMMA OthersFold == \A list, source : OfOthers(list, source) = Others!Fold(source, <<>>, list)
BY DEF OfOthers, KeepOther, Others!Fold, FoldLeft, MapThenFoldSet, Max,
       Others!FoldLeft, Others!MapThenFoldSet, Others!Max

\* What OfSource folds.
LEMMA OwnsFold == \A list, source : OfSource(list, source) = Owns!Fold(source, <<>>, list)
BY DEF OfSource, KeepOwn, Owns!Fold, FoldLeft, MapThenFoldSet, Max,
       Owns!FoldLeft, Owns!MapThenFoldSet, Owns!Max

\* What SetSafe folds, for any source.
LEMMA AddsFold ==
  \A list, source, lines :
    SetSafe(list, source, lines) =
      Adds!Fold([disk |-> disk, source |-> source], OfOthers(list, source), lines)
BY DEF SetSafe, AddSafe, Opens, AddAs, MadeOf, Adds!Fold,
       FoldLeft, MapThenFoldSet, Max,
       Adds!FoldLeft, Adds!MapThenFoldSet, Adds!Max

\* What AddSafe does with a pair.
LEMMA AddedAs ==
  \A list, source, pair :
    AddSafe(list, source, pair[1], pair[2]) = AddAs([disk |-> disk, source |-> source], list, pair)
BY DEF AddSafe, Opens, AddAs, MadeOf

\* One more entry is one more of its source and of no other.
LEMMA OneMoreOwn ==
  ASSUME NEW E, NEW list \in Seq(E), NEW e \in E, NEW s
  PROVE  OfSource(Append(list, e), s) =
           IF e.source = s THEN Append(OfSource(list, s), e) ELSE OfSource(list, s)
<1> DEFINE n == Len(list)
           longer == Append(list, e)
           base == <<>>
<1>1. /\ n \in Nat /\ DOMAIN list = 1 .. n /\ DOMAIN longer = 1 .. n + 1
      /\ \A i \in 1 .. n : longer[i] = list[i]
      /\ longer[n + 1] = e
  OBVIOUS
<1> HIDE DEF n, longer, base
<1>2. Owns!Fold(s, base, longer) = KeepOwn(s, Owns!Fold(s, base, list), longer[n + 1])
  BY <1>1, Owns!FoldOneMore
<1>3. QED
  BY <1>1, <1>2, OwnsFold DEF KeepOwn, longer, base

\* The loop that erases the entries of one source keeps those of the others, in their order.
LEMMA ErasedApart ==
  ASSUME NEW E, NEW list \in Seq(E), NEW source, NEW other, other # source
  PROVE  /\ OfOthers(list, source) \in Seq(E)
         /\ OfSource(OfOthers(list, source), other) = OfSource(list, other)
<1> DEFINE n == Len(list)
           base == <<>>
<1>1. n \in Nat /\ DOMAIN list = 1 .. n /\ \A i \in 1 .. n : list[i] \in E
  OBVIOUS
<1>2. base \in Seq(E) /\ DOMAIN base = {}
  OBVIOUS
<1>3. OfSource(base, other) = base
  BY <1>2, OwnsFold, Owns!FoldEmpty DEF base
<1> HIDE DEF n, base
<1>4. PICK f : Others!Steps(f, n, source, base, list) /\ Others!Fold(source, base, list) = f[n]
  BY <1>1, Others!FoldSteps
<1>5. PICK g : Owns!Steps(g, n, other, base, list) /\ Owns!Fold(other, base, list) = g[n]
  BY <1>1, Owns!FoldSteps
<1> DEFINE T == {i \in 0 .. n : f[i] \in Seq(E) /\ OfSource(f[i], other) = g[i]}
<1>6. 0 \in T
  <2>1. f[0] = base
    BY <1>4 DEF Others!Steps
  <2>2. g[0] = base
    BY <1>5 DEF Owns!Steps
  <2>3. f[0] \in Seq(E) /\ OfSource(f[0], other) = g[0]
    BY <1>2, <1>3, <2>1, <2>2
  <2>4. 0 \in 0 .. n
    BY <1>1
  <2>5. QED
    BY <2>3, <2>4
<1>7. \A i \in 0 .. n - 1 : i \in T => i + 1 \in T
  <2> SUFFICES ASSUME NEW i \in 0 .. n - 1, f[i] \in Seq(E), OfSource(f[i], other) = g[i]
               PROVE  f[i + 1] \in Seq(E) /\ OfSource(f[i + 1], other) = g[i + 1]
    BY <1>1
  <2>1. i + 1 \in 1 .. n /\ (i + 1) - 1 = i
    BY <1>1
  <2> DEFINE e == list[i + 1]
  <2>2. e \in E
    BY <1>1, <2>1
  <2>3. f[i + 1] = KeepOther(source, f[i], e)
    BY <1>4, <2>1 DEF Others!Steps
  <2>4. g[i + 1] = KeepOwn(other, g[i], e)
    BY <1>5, <2>1 DEF Owns!Steps
  <2> HIDE DEF e
  <2>5. CASE e.source = source
    BY <2>3, <2>4, <2>5 DEF KeepOther, KeepOwn
  <2>6. CASE e.source # source
    <3>1. f[i + 1] = Append(f[i], e)
      BY <2>3, <2>6 DEF KeepOther
    <3>2. f[i + 1] \in Seq(E)
      BY <2>2, <3>1
    <3> DEFINE before == f[i]
    <3>3. before \in Seq(E)
      OBVIOUS
    <3> HIDE DEF before
    <3>4. OfSource(Append(before, e), other) =
            IF e.source = other THEN Append(OfSource(before, other), e)
            ELSE OfSource(before, other)
      BY <2>2, <3>3, OneMoreOwn
    <3>5. OfSource(f[i + 1], other) = IF e.source = other THEN Append(g[i], e) ELSE g[i]
      BY <3>1, <3>4 DEF before
    <3>6. QED
      BY <2>4, <3>2, <3>5 DEF KeepOwn
  <2>7. QED
    BY <2>5, <2>6
<1>8. n \in T
  <2>1. n \in 0 .. n
    BY <1>1
  <2> HIDE DEF T
  <2>2. \A i \in 0 .. n : i \in T
    BY <1>1, <1>6, <1>7, Others!UpTo
  <2>3. QED
    BY <2>1, <2>2
<1>9. QED
  BY <1>4, <1>5, <1>8, OthersFold, OwnsFold DEF base

\* Adding an entry to one source leaves the entries of the others.
LEMMA AddedApart ==
  ASSUME NEW E, NEW list \in Seq(E), NEW c, NEW other, other # c.source, NEW pair,
         MadeOf(c.source, pair) \in E
  PROVE  OfSource(AddAs(c, list, pair), other) = OfSource(list, other)
<1> DEFINE e == MadeOf(c.source, pair)
<1>1. e \in E /\ e.source # other
  BY DEF MadeOf
<1>2. AddAs(c, list, pair) \in {list, Append(list, e)}
  BY DEF AddAs
<1> HIDE DEF e
<1>3. OfSource(Append(list, e), other) = OfSource(list, other)
  BY <1>1, OneMoreOwn
<1>4. QED
  BY <1>2, <1>3

\* What is set or added stays a list of such entries.
LEMMA AddStays ==
  ASSUME NEW E, NEW list \in Seq(E), NEW c, NEW pair,
         pair[1] \in Path => MadeOf(c.source, pair) \in E
  PROVE  AddAs(c, list, pair) \in Seq(E)
<1>1. CASE pair[1] \in Path
  <2> DEFINE e == MadeOf(c.source, pair)
  <2>1. e \in E
    BY <1>1
  <2>2. AddAs(c, list, pair) \in {list, Append(list, e)}
    BY DEF AddAs
  <2> HIDE DEF e
  <2>3. Append(list, e) \in Seq(E)
    BY <2>1
  <2>4. QED
    BY <2>2, <2>3
<1>2. CASE pair[1] \notin Path
  BY <1>2 DEF AddAs
<1>3. QED
  BY <1>1, <1>2

LEMMA AddsStay ==
  ASSUME NEW E, NEW list \in Seq(E), NEW c, NEW P, NEW pairs \in Seq(P),
         \A pair \in P : pair[1] \in Path => MadeOf(c.source, pair) \in E
  PROVE  Adds!Fold(c, list, pairs) \in Seq(E)
<1> DEFINE n == Len(pairs)
           S == Seq(E)
<1>1. n \in Nat /\ DOMAIN pairs = 1 .. n /\ \A i \in 1 .. n : pairs[i] \in P
  OBVIOUS
<1>2. list \in S
  OBVIOUS
<1>3. ASSUME NEW a \in S, NEW i \in 1 .. n PROVE AddAs(c, a, pairs[i]) \in S
  BY <1>1, AddStays
<1> HIDE DEF n, S
<1>4. Adds!Fold(c, list, pairs) \in S
  BY <1>1, <1>2, <1>3, Adds!FoldInvariant
<1>5. QED
  BY <1>4 DEF S

\* When a source sets what its file says, or clears it, the entries of the other sources
\* stay, in their order.
LEMMA SetApart ==
  ASSUME NEW E, NEW list \in Seq(E), NEW source, NEW other, other # source,
         NEW P, NEW pairs \in Seq(P)
  PROVE  OfSource(SetSafe(list, source, pairs), other) = OfSource(list, other)
<1> DEFINE n == Len(pairs)
           F == E \cup {MadeOf(source, pairs[i]) : i \in 1 .. n}
           own == OfSource(list, other)
           S == {l \in Seq(F) : OfSource(l, other) = own}
           base == OfOthers(list, source)
           c == [disk |-> disk, source |-> source]
<1>1. n \in Nat /\ DOMAIN pairs = 1 .. n
  OBVIOUS
<1>2. list \in Seq(F)
  <2>1. E \subseteq F
    OBVIOUS
  <2> HIDE DEF F
  <2>2. QED
    BY <2>1, WiderSeq
<1>3. base \in S
  <2>1. base \in Seq(F)
    <3> HIDE DEF F, base
    <3>1. OfOthers(list, source) \in Seq(F)
      BY <1>2, ErasedApart
    <3>2. QED
      BY <3>1 DEF base
  <2>2. OfSource(base, other) = own
    BY ErasedApart
  <2> HIDE DEF F, base, own
  <2>3. QED
    BY <2>1, <2>2
<1>4. ASSUME NEW l \in S, NEW i \in 1 .. n PROVE AddAs(c, l, pairs[i]) \in S
  <2>1. MadeOf(source, pairs[i]) \in F
    OBVIOUS
  <2>2. c.source = source
    OBVIOUS
  <2> HIDE DEF F, c
  <2>3. AddAs(c, l, pairs[i]) \in Seq(F)
    BY <2>1, <2>2, AddStays
  <2>4. OfSource(AddAs(c, l, pairs[i]), other) = own
    BY <2>1, <2>2, AddedApart
  <2>5. QED
    BY <2>3, <2>4
<1> HIDE DEF n, S, base, c
<1>5. Adds!Fold(c, base, pairs) \in S
  BY <1>1, <1>3, <1>4, Adds!FoldInvariant
<1>6. QED
  BY <1>5, AddsFold DEF S, base, c

\* A list of entries of one source has none of others.
LEMMA NoOthers ==
  ASSUME NEW E, NEW list \in Seq(E), NEW source, \A e \in E : e.source = source
  PROVE  OfOthers(list, source) = <<>>
<1> DEFINE n == Len(list)
           S == {<<>>}
           base == <<>>
<1>1. n \in Nat /\ DOMAIN list = 1 .. n
  OBVIOUS
<1>2. base \in S
  OBVIOUS
<1>3. ASSUME NEW a \in S, NEW i \in 1 .. n PROVE KeepOther(source, a, list[i]) \in S
  <2>1. list[i] \in E
    BY <1>1
  <2>2. QED
    BY <2>1 DEF KeepOther
<1> HIDE DEF n, S, base
<1>4. Others!Fold(source, base, list) \in S
  BY <1>1, <1>2, <1>3, Others!FoldInvariant
<1>5. QED
  BY <1>4, OthersFold DEF S, base

-----------------------------------------------------------------------------
(* Between alias paths and Windows paths *)

\* Characters are replaced one for one.
LEMMA ReplacedType ==
  ASSUME NEW S, NEW s \in Seq(S), NEW old, NEW new \in S
  PROVE  ReplaceChar(s, old, new) \in Seq(S)
<1> DEFINE n == Len(s)
<1>1. n \in Nat /\ DOMAIN s = 1 .. n /\ \A i \in 1 .. n : s[i] \in S
  OBVIOUS
<1>2. ReplaceChar(s, old, new) = [i \in 1 .. n |-> IF s[i] = old THEN new ELSE s[i]]
  BY <1>1 DEF ReplaceChar
<1> HIDE DEF n
<1>3. QED
  BY <1>1, <1>2

\* The parts of a path are sequences of its characters.
LEMMA PartsType ==
  ASSUME NEW S, NEW s \in Seq(S)
  PROVE  /\ \A k \in Nat \ {0} : SubSeq(s, k, Len(s)) \in Seq(S)
         /\ \A k \in 0 .. Len(s) : SubSeq(s, 1, k) \in Seq(S)
         /\ \A c \in S : <<c>> \in Seq(S) /\ <<c>> \o s \in Seq(S)
         /\ \A c, d \in S, t \in Seq(S) : <<c, d>> \o t \in Seq(S)
<1>1. \A k \in Nat \ {0} : SubSeq(s, k, Len(s)) \in Seq(S)
  OBVIOUS
<1>2. \A k \in 0 .. Len(s) : SubSeq(s, 1, k) \in Seq(S)
  OBVIOUS
<1>3. \A c \in S : <<c>> \in Seq(S)
  OBVIOUS
<1>4. \A c, d \in S : <<c, d>> \in Seq(S)
  OBVIOUS
<1>5. \A x, y \in Seq(S) : x \o y \in Seq(S)
  BY ConcatProperties
<1>6. QED
  BY <1>1, <1>2, <1>3, <1>4, <1>5

\* The place of the last element that passes a test.
LEMMA LastPlace ==
  ASSUME NEW n \in Nat, NEW I \in SUBSET (1 .. n)
  PROVE  /\ (IF I # {} THEN Max(I) ELSE 0) \in 0 .. n
         /\ I # {} => Max(I) \in I
<1>1. Max(I) = Others!Max(I)
  BY DEF Max, Others!Max
<1>2. I # {} => Others!Max(I) \in I
  BY Others!MaxNumber
<1>3. ASSUME I # {} PROVE Max(I) \in I /\ Max(I) \in 0 .. n
  <2>1. Max(I) \in I
    BY <1>1, <1>2, <1>3
  <2>2. \A i \in I : i \in 0 .. n
    OBVIOUS
  <2>3. QED
    BY <2>1, <2>2
<1>4. QED
  BY <1>3

\* An alias made from a path is a sequence of characters, which starts with a slash and
\* does not end with one, unless it is empty.
LEMMA MadeAlias ==
  ASSUME NEW w \in Seq(Char)
  PROVE  LET alias == windows_to_alias_path(w)
         IN /\ alias \in Seq(Char)
            /\ alias # NoAlias => alias[1] = "/" /\ Last(alias) # "/"
<1> DEFINE C == Char
           slash == "/"
           prefix == <<"\\", "\\", "?", "\\">>
           plain == IF IsPrefix(prefix, w) THEN SubSeq(w, 5, Len(w)) ELSE w
           s == ReplaceChar(plain, "\\", slash)
           rooted == IF Len(s) >= 2 /\ s[2] = ":" THEN <<slash, s[1]>> \o SubSeq(s, 3, Len(s))
                     ELSE IF Len(s) >= 1 /\ s[1] # slash THEN <<slash>> \o s
                     ELSE s
           I == {i \in 1 .. Len(rooted) : rooted[i] # slash}
           last == IF I # {} THEN Max(I) ELSE 0
<1>0. slash \in C /\ w \in Seq(C)
  <2>1. slash \in C
    BY AliasesAssumption
  <2>2. w \in Seq(C)
    OBVIOUS
  <2>3. QED
    BY <2>1, <2>2
<1>6. windows_to_alias_path(w) = SubSeq(rooted, 1, last)
  BY DEF windows_to_alias_path, SelectLastInSeq
<1> HIDE DEF C, slash, prefix
<1>1. plain \in Seq(C)
  <2>1. 5 \in Nat \ {0}
    OBVIOUS
  <2>2. QED
    BY <1>0, <2>1, PartsType
<1> HIDE DEF plain
<1>2. s \in Seq(C)
  BY <1>0, <1>1, ReplacedType
<1> HIDE DEF s
<1>3. rooted \in Seq(C)
  <2>1. Len(s) \in Nat /\ (Len(s) >= 1 => s[1] \in C) /\ (Len(s) >= 2 => Len(s) >= 1)
    BY <1>2
  <2>2. 3 \in Nat \ {0}
    OBVIOUS
  <2>3. SubSeq(s, 3, Len(s)) \in Seq(C)
    BY <1>2, <2>2, PartsType
  <2>4. Len(s) >= 1 => <<slash, s[1]>> \o SubSeq(s, 3, Len(s)) \in Seq(C)
    BY <1>0, <2>1, <2>3, PartsType
  <2>5. <<slash>> \o s \in Seq(C)
    BY <1>0, <1>2, PartsType
  <2>6. QED
    BY <1>2, <2>1, <2>4, <2>5
<1>8. Len(rooted) >= 1 => rooted[1] = slash
  <2>1. Len(s) \in Nat
    BY <1>2
  <2>2. CASE Len(s) >= 2 /\ s[2] = ":"
    <3> DEFINE rest == SubSeq(s, 3, Len(s))
               front == <<slash, s[1]>>
    <3>1. rest \in Seq(C) /\ front \in Seq(C) /\ Len(front) = 2 /\ front[1] = slash
      BY <1>0, <1>2, <2>2, PartsType
    <3> HIDE DEF rest, front
    <3>2. (front \o rest)[1] = slash
      BY <3>1, ConcatProperties
    <3>3. QED
      BY <2>2, <3>2 DEF rest, front
  <2>3. CASE ~(Len(s) >= 2 /\ s[2] = ":") /\ Len(s) >= 1 /\ s[1] # slash
    <3> DEFINE front == <<slash>>
    <3>1. front \in Seq(C) /\ Len(front) = 1 /\ front[1] = slash
      BY <1>0
    <3> HIDE DEF front
    <3>2. (front \o s)[1] = slash
      BY <1>2, <3>1, ConcatProperties
    <3>3. QED
      BY <2>3, <3>2 DEF front
  <2>4. QED
    BY <2>1, <2>2, <2>3
<1> HIDE DEF rooted
<1>4. last \in 0 .. Len(rooted) /\ (last # 0 => rooted[last] # slash)
  <2> DEFINE n == Len(rooted)
  <2>1. n \in Nat /\ I \in SUBSET (1 .. n)
    BY <1>3
  <2>2. \A i \in I : rooted[i] # slash
    OBVIOUS
  <2> HIDE DEF n, I
  <2>3. last \in 0 .. n /\ (last # 0 => last \in I)
    BY <2>1, LastPlace
  <2>4. QED
    BY <2>2, <2>3 DEF n
<1> HIDE DEF last
<1>5. SubSeq(rooted, 1, last) \in Seq(C)
  BY <1>3, <1>4, PartsType
<1> DEFINE alias == SubSeq(rooted, 1, last)
<1>7. Len(alias) = last /\ \A i \in 1 .. last : alias[i] = rooted[i]
  BY <1>3, <1>4
<1>9. ASSUME alias # NoAlias PROVE alias[1] = slash /\ Last(alias) # slash
  <2>1. last \in Nat /\ last # 0 /\ Len(rooted) >= 1 /\ 1 \in 1 .. last /\ last \in 1 .. last
    BY <1>3, <1>4, <1>5, <1>7, <1>9 DEF NoAlias
  <2>2. QED
    BY <1>4, <1>7, <1>8, <2>1 DEF Last
<1>10. QED
  BY <1>5, <1>6, <1>9 DEF C, slash

-----------------------------------------------------------------------------
(* Looking up a path. *)

\* One step of the scan.
ScanStep(query, best, x) ==
  IF Matches(x.entry, query, best.length)
  THEN [it |-> x.it, length |-> Len(x.entry.alias_path)]
  ELSE best

Scans == INSTANCE FoldFacts WITH Op <- ScanStep

Nothing == [it |-> 0, length |-> 0]

Places(list) == [i \in DOMAIN list |-> [it |-> i, entry |-> list[i]]]
ScanIn(list, query) == Scans!Fold(query, Nothing, Places(list))

ResolveIn(list, query) ==
  IF ScanIn(list, query).it = 0 THEN NoPath
  ELSE list[ScanIn(list, query).it].windows_path \o
       alias_subpath_to_windows(
         SubSeq(query, ScanIn(list, query).length + 1, Len(query)))

\* What a path resolves to depends on the list only, in this state and in the next.
LEMMA ResolvedIn ==
  \A query : /\ resolve(query) = ResolveIn(store, query)
             /\ resolve(query)' = ResolveIn(store', query)
BY DEF resolve, Scan, ResolveIn, ScanIn, ScanStep, Nothing, Places,
       FoldLeft, MapThenFoldSet, Max,
       Scans!Fold, Scans!FoldLeft, Scans!MapThenFoldSet, Scans!Max

\* The alias of an entry is the query or a folder above it.
Covers(e, query) ==
  /\ Len(e.alias_path) <= Len(query)
  /\ SubSeq(query, 1, Len(e.alias_path)) = e.alias_path
  /\ Len(e.alias_path) = Len(query) \/ query[Len(e.alias_path) + 1] = "/"

\* Of the first k entries the scan has found the newest of those with the longest alias.
Found(list, query, k, best) ==
  \/ best = Nothing /\ \A j \in 1 .. k : ~Covers(list[j], query)
  \/ /\ best.it \in 1 .. k
     /\ best = [it |-> best.it, length |-> Len(list[best.it].alias_path)]
     /\ Covers(list[best.it], query)
     /\ \A j \in 1 .. k : Covers(list[j], query) =>
          \/ Len(list[j].alias_path) < best.length
          \/ Len(list[j].alias_path) = best.length /\ j <= best.it

\* The scan takes an entry when its alias covers the query and is not shorter.
LEMMA OneScanStep ==
  ASSUME NEW list \in Seq(Entry), NEW query \in Seq(Char), NEW k \in 0 .. Len(list) - 1,
         NEW best, Found(list, query, k, best)
  PROVE  Found(list, query, k + 1, ScanStep(query, best, [it |-> k + 1, entry |-> list[k + 1]]))
<1> DEFINE e == list[k + 1]
           n == Len(e.alias_path)
           next == [it |-> k + 1, length |-> n]
<1>1. k \in Nat /\ k + 1 \in Nat /\ k + 1 \in 1 .. k + 1 /\ k + 1 \in 1 .. Len(list)
  OBVIOUS
<1>2. \A j \in 1 .. k + 1 : j \in 1 .. k \/ j = k + 1
  BY <1>1
<1>3. \A j \in 1 .. k + 1 : Len(list[j].alias_path) \in Nat
  <2> SUFFICES ASSUME NEW j \in 1 .. k + 1 PROVE Len(list[j].alias_path) \in Nat
    OBVIOUS
  <2>1. list[j] \in Entry
    BY <1>1
  <2>2. QED
    BY <2>1 DEF Entry
<1>4. n \in Nat
  BY <1>1, <1>3
<1>5. best.length \in Nat
  <2>1. CASE best = Nothing
    BY <2>1 DEF Nothing
  <2>2. CASE best.it \in 1 .. k /\ best = [it |-> best.it, length |-> Len(list[best.it].alias_path)]
    <3>1. best.length = Len(list[best.it].alias_path) /\ best.it \in 1 .. k + 1
      BY <1>1, <2>2
    <3>2. QED
      BY <1>3, <3>1
  <2>3. QED
    BY <2>1, <2>2 DEF Found
<1>6. ScanStep(query, best, [it |-> k + 1, entry |-> list[k + 1]]) =
        IF Covers(e, query) /\ n >= best.length THEN next ELSE best
  BY DEF ScanStep, Matches, Covers
<1>7. CASE Covers(e, query) /\ n >= best.length
  <2>1. next.it = k + 1 /\ next.length = n /\ list[next.it] = e
    OBVIOUS
  <2>2. ASSUME NEW j \in 1 .. k, Covers(list[j], query)
        PROVE  Len(list[j].alias_path) < n \/ (Len(list[j].alias_path) = n /\ j <= k + 1)
    <3>1. Len(list[j].alias_path) <= best.length
      <4>1. best # Nothing \/ ~Covers(list[j], query)
        BY DEF Found, Nothing
      <4>2. Len(list[j].alias_path) \in Nat
        BY <1>1, <1>3
      <4>3. \/ Len(list[j].alias_path) < best.length
            \/ Len(list[j].alias_path) = best.length
        BY <2>2, <4>1 DEF Found
      <4>4. QED
        BY <1>5, <4>2, <4>3
    <3>2. Len(list[j].alias_path) \in Nat
      BY <1>1, <1>3
    <3>3. QED
      BY <1>1, <1>4, <1>5, <1>7, <3>1, <3>2
  <2>3. \A j \in 1 .. k + 1 : Covers(list[j], query) =>
          \/ Len(list[j].alias_path) < n
          \/ Len(list[j].alias_path) = n /\ j <= k + 1
    BY <1>1, <1>2, <2>2
  <2> HIDE DEF e, n
  <2>4. Found(list, query, k + 1, next)
    <3>1. next.it \in 1 .. k + 1 /\ Covers(list[next.it], query)
      BY <1>1, <1>7, <2>1
    <3>2. next = [it |-> next.it, length |-> Len(list[next.it].alias_path)]
      BY <2>1 DEF n
    <3>3. \A j \in 1 .. k + 1 : Covers(list[j], query) =>
            \/ Len(list[j].alias_path) < next.length
            \/ Len(list[j].alias_path) = next.length /\ j <= next.it
      BY <2>1, <2>3
    <3> HIDE DEF next
    <3>4. QED
      BY <3>1, <3>2, <3>3 DEF Found
  <2>5. QED
    BY <1>6, <1>7, <2>4
<1>8. CASE ~(Covers(e, query) /\ n >= best.length)
  <2>1. ASSUME best = Nothing, \A j \in 1 .. k : ~Covers(list[j], query)
        PROVE  Found(list, query, k + 1, best)
    <3>1. n >= best.length
      BY <1>4, <2>1 DEF Nothing
    <3>2. \A j \in 1 .. k + 1 : ~Covers(list[j], query)
      BY <1>2, <1>8, <2>1, <3>1
    <3>3. QED
      BY <2>1, <3>2 DEF Found
  <2>2. ASSUME best.it \in 1 .. k,
               best = [it |-> best.it, length |-> Len(list[best.it].alias_path)],
               Covers(list[best.it], query),
               \A j \in 1 .. k : Covers(list[j], query) =>
                 \/ Len(list[j].alias_path) < best.length
                 \/ Len(list[j].alias_path) = best.length /\ j <= best.it
        PROVE  Found(list, query, k + 1, best)
    <3>1. Covers(e, query) => n < best.length
      BY <1>4, <1>5, <1>8
    <3>2. \A j \in 1 .. k + 1 : Covers(list[j], query) =>
            \/ Len(list[j].alias_path) < best.length
            \/ Len(list[j].alias_path) = best.length /\ j <= best.it
      BY <1>2, <2>2, <3>1
    <3>3. best.it \in 1 .. k + 1
      BY <1>1, <2>2
    <3>4. QED
      BY <2>2, <3>2, <3>3 DEF Found
  <2>3. Found(list, query, k + 1, best)
    BY <2>1, <2>2 DEF Found
  <2>4. QED
    BY <1>6, <1>8, <2>3
<1>9. QED
  BY <1>7, <1>8

\* The whole scan.
LEMMA ScanFinds ==
  ASSUME NEW list \in Seq(Entry), NEW query \in Seq(Char)
  PROVE  Found(list, query, Len(list), ScanIn(list, query))
<1> DEFINE n == Len(list)
           c == query
           places == Places(list)
           base == Nothing
<1>1. n \in Nat /\ DOMAIN places = 1 .. n /\ \A i \in 1 .. n : places[i] = [it |-> i, entry |-> list[i]]
  BY DEF Places
<1>2. PICK f : Scans!Steps(f, n, c, base, places) /\ Scans!Fold(c, base, places) = f[n]
  <2> HIDE DEF n, c, places, base
  <2>1. QED
    BY <1>1, Scans!FoldSteps
<1> DEFINE T == {k \in 0 .. n : Found(list, query, k, f[k])}
<1>3. 0 \in T
  <2>1. f[0] = Nothing
    BY <1>2 DEF Scans!Steps
  <2>2. QED
    BY <2>1 DEF Found
<1>4. ASSUME NEW k \in 0 .. n - 1, k \in T PROVE k + 1 \in T
  <2>1. k + 1 \in 1 .. n /\ (k + 1) - 1 = k /\ k + 1 \in 0 .. n
    OBVIOUS
  <2>2. f[k + 1] = ScanStep(query, f[k], [it |-> k + 1, entry |-> list[k + 1]])
    BY <1>1, <1>2, <2>1 DEF Scans!Steps
  <2>3. Found(list, query, k, f[k])
    BY <1>4
  <2>4. Found(list, query, k + 1, f[k + 1])
    BY <2>2, <2>3, OneScanStep
  <2>5. QED
    BY <2>1, <2>4
<1>5. n \in T
  <2>1. n \in 0 .. n
    BY <1>1
  <2> HIDE DEF T, n
  <2>2. \A k \in 0 .. n : k \in T
    BY <1>1, <1>3, <1>4, Scans!UpTo
  <2>3. QED
    BY <2>1, <2>2
<1>6. Found(list, query, n, f[n])
  BY <1>5
<1>7. ScanIn(list, query) = f[n]
  BY <1>2 DEF ScanIn
<1>8. QED
  BY <1>6, <1>7

\* A front of a sequence is another when they agree in each place.
LEMMA SameFront ==
  ASSUME NEW S, NEW a \in Seq(S), NEW b \in Seq(S), Len(a) <= Len(b)
  PROVE  SubSeq(b, 1, Len(a)) = a <=> \A i \in 1 .. Len(a) : b[i] = a[i]
<1> DEFINE front == SubSeq(b, 1, Len(a))
<1>1. /\ front \in Seq(S) /\ Len(front) = Len(a)
      /\ \A i \in 1 .. Len(a) : front[i] = b[i]
  OBVIOUS
<1> HIDE DEF front
<1>2. ASSUME \A i \in 1 .. Len(a) : b[i] = a[i] PROVE front = a
  BY <1>1, <1>2, SeqEqual
<1>3. ASSUME front = a PROVE \A i \in 1 .. Len(a) : b[i] = a[i]
  BY <1>1, <1>3
<1>4. QED
  BY <1>2, <1>3 DEF front

\* One path is another or a folder above it: with a / behind each, it is a prefix.
LEMMA WholeFolders ==
  ASSUME NEW a \in Seq(Char), NEW q \in Seq(Char)
  PROVE  IsPrefix(a \o <<"/">>, q \o <<"/">>) <=>
           /\ Len(a) <= Len(q)
           /\ SubSeq(q, 1, Len(a)) = a
           /\ Len(a) = Len(q) \/ q[Len(a) + 1] = "/"
<1> DEFINE slash == "/"
           end == <<slash>>
           n == Len(a)
           m == Len(q)
           A == a \o end
           Q == q \o end
<1>1. end \in Seq(Char) /\ Len(end) = 1 /\ end[1] = slash
  <2>1. slash \in Char
    BY AliasesAssumption
  <2> HIDE DEF slash
  <2>2. QED
    BY <2>1
<1>2. n \in Nat /\ m \in Nat
  OBVIOUS
<1> HIDE DEF slash, end
<1>3. /\ A \in Seq(Char) /\ Len(A) = n + 1
      /\ \A i \in 1 .. n : A[i] = a[i]
      /\ A[n + 1] = slash
  <2>1. /\ A \in Seq(Char) /\ Len(A) = n + Len(end)
        /\ \A i \in 1 .. n + Len(end) : A[i] = IF i <= n THEN a[i] ELSE end[i - n]
    BY <1>1, ConcatProperties
  <2>2. ~(n + 1 <= n) /\ (n + 1) - n = 1 /\ n + 1 \in 1 .. n + 1
    BY <1>2
  <2>3. QED
    BY <1>1, <1>2, <2>1, <2>2
<1>4. /\ Q \in Seq(Char) /\ Len(Q) = m + 1
      /\ \A i \in 1 .. m : Q[i] = q[i]
      /\ Q[m + 1] = slash
  <2>1. /\ Q \in Seq(Char) /\ Len(Q) = m + Len(end)
        /\ \A i \in 1 .. m + Len(end) : Q[i] = IF i <= m THEN q[i] ELSE end[i - m]
    BY <1>1, ConcatProperties
  <2>2. ~(m + 1 <= m) /\ (m + 1) - m = 1 /\ m + 1 \in 1 .. m + 1
    BY <1>2
  <2>3. QED
    BY <1>1, <1>2, <2>1, <2>2
<1> HIDE DEF A, Q
<1>5. IsPrefix(A, Q) <=> n <= m /\ \A i \in 1 .. n + 1 : Q[i] = A[i]
  <2>1. IsPrefix(A, Q) <=> Len(A) <= Len(Q) /\ SubSeq(A, 1, Len(A)) = SubSeq(Q, 1, Len(A))
    BY DEF IsPrefix
  <2>2. SubSeq(A, 1, Len(A)) = A
    BY <1>3, SubSeqFull
  <2>3. Len(A) <= Len(Q) => (SubSeq(Q, 1, Len(A)) = A <=> \A i \in 1 .. Len(A) : Q[i] = A[i])
    BY <1>3, <1>4, SameFront
  <2>4. Len(A) <= Len(Q) <=> n <= m
    BY <1>2, <1>3, <1>4
  <2>5. QED
    BY <1>3, <2>1, <2>2, <2>3, <2>4
<1>6. ASSUME n <= m
      PROVE  (\A i \in 1 .. n + 1 : Q[i] = A[i]) <=>
               /\ \A i \in 1 .. n : q[i] = a[i]
               /\ n = m \/ q[n + 1] = slash
  <2>1. \A i \in 1 .. n : Q[i] = q[i] /\ A[i] = a[i]
    BY <1>2, <1>3, <1>4, <1>6
  <2>2. Q[n + 1] = slash <=> (n = m \/ q[n + 1] = slash)
    <3>1. CASE n = m
      BY <1>4, <3>1
    <3>2. CASE n # m
      <4>1. n + 1 \in 1 .. m
        BY <1>2, <1>6, <3>2
      <4>2. QED
        BY <1>4, <3>2, <4>1
    <3>3. QED
      BY <3>1, <3>2
  <2>3. (\A i \in 1 .. n + 1 : Q[i] = A[i]) <=> (\A i \in 1 .. n : Q[i] = A[i]) /\ Q[n + 1] = A[n + 1]
    <3>1. \A i \in 1 .. n + 1 : i \in 1 .. n \/ i = n + 1
      BY <1>2
    <3>2. n + 1 \in 1 .. n + 1 /\ \A i \in 1 .. n : i \in 1 .. n + 1
      BY <1>2
    <3>3. QED
      BY <3>1, <3>2
  <2>4. QED
    BY <1>3, <2>1, <2>2, <2>3
<1>7. n <= m => (SubSeq(q, 1, n) = a <=> \A i \in 1 .. n : q[i] = a[i])
  BY SameFront
<1>8. IsPrefix(A, Q) <=>
        /\ n <= m
        /\ SubSeq(q, 1, n) = a
        /\ n = m \/ q[n + 1] = slash
  BY <1>5, <1>6, <1>7
<1>9. QED
  BY <1>8 DEF A, Q, end, slash

\* The entries that may answer, as the property names them and as the scan takes them.
LEMMA CoveringIn ==
  ASSUME store \in Seq(Entry), NEW query \in Seq(Char)
  PROVE  Covering(query) = {i \in 1 .. Len(store) : Covers(store[i], query)}
<1>1. DOMAIN store = 1 .. Len(store)
  OBVIOUS
<1>2. ASSUME NEW i \in 1 .. Len(store)
      PROVE  IsPrefix(store[i].alias_path \o <<"/">>, query \o <<"/">>) <=>
               Covers(store[i], query)
  <2>1. store[i].alias_path \in Seq(Char)
    <3>1. store[i] \in Entry
      OBVIOUS
    <3>2. QED
      BY <3>1 DEF Entry
  <2>2. QED
    BY <2>1, WholeFolders DEF Covers
<1>3. QED
  BY <1>1, <1>2 DEF Covering

\* What a path resolves to is a path.
LEMMA ResolvedType ==
  ASSUME NEW list \in Seq(Entry), NEW query \in Seq(Char)
  PROVE  ResolveIn(list, query) \in Seq(Char)
<1> DEFINE best == ScanIn(list, query)
<1>1. Found(list, query, Len(list), best)
  BY ScanFinds
<1> HIDE DEF best
<1>2. CASE best.it = 0
  BY <1>2, AliasesAssumption DEF ResolveIn, best
<1>3. CASE best.it # 0
  <2>1. best # Nothing
    BY <1>3 DEF Nothing
  <2>2. /\ best.it \in 1 .. Len(list)
        /\ best = [it |-> best.it, length |-> Len(list[best.it].alias_path)]
    BY <1>1, <2>1 DEF Found
  <2>3. best.length = Len(list[best.it].alias_path)
    BY <2>2
  <2>4. list[best.it] \in Entry
    BY <2>2
  <2>5. list[best.it].alias_path \in Seq(Char) /\ list[best.it].windows_path \in Seq(Char)
    BY <2>4, DiskAssumption, AliasesAssumption DEF Entry
  <2>6. best.length + 1 \in Nat \ {0}
    BY <2>3, <2>5
  <2>7. SubSeq(query, best.length + 1, Len(query)) \in Seq(Char)
    BY <2>6, PartsType
  <2>8. alias_subpath_to_windows(SubSeq(query, best.length + 1, Len(query))) \in Seq(Char)
    <3> DEFINE new == "\\"
    <3>1. new \in Char
      BY AliasesAssumption
    <3> HIDE DEF new
    <3>2. ReplaceChar(SubSeq(query, best.length + 1, Len(query)), "/", new) \in Seq(Char)
      BY <2>7, <3>1, ReplacedType
    <3>3. QED
      BY <3>2 DEF alias_subpath_to_windows, new
  <2>9. QED
    BY <1>3, <2>5, <2>8, ConcatProperties DEF ResolveIn, best
<1>4. QED
  BY <1>2, <1>3

\* The entry the scan has found is the one that ought to answer.
LEMMA ScanIsBest ==
  ASSUME store \in Seq(Entry), NEW query \in Seq(Char)
  PROVE  IF Covering(query) = {} THEN ScanIn(store, query) = Nothing
         ELSE /\ ScanIn(store, query).it = Best(query)
              /\ ScanIn(store, query).it # 0
              /\ ScanIn(store, query).length = Len(store[Best(query)].alias_path)
<1> DEFINE best == ScanIn(store, query)
           b == best.it
           C == Covering(query)
           n == Len(store)
           Size(i) == Len(store[i].alias_path)
<1>1. Found(store, query, n, best)
  BY ScanFinds
<1>2. C = {i \in 1 .. n : Covers(store[i], query)}
  BY CoveringIn
<1>3. \A i \in 1 .. n : Size(i) \in Nat
  <2> SUFFICES ASSUME NEW i \in 1 .. n PROVE Size(i) \in Nat
    OBVIOUS
  <2>1. store[i] \in Entry
    OBVIOUS
  <2>2. QED
    BY <2>1 DEF Entry
<1>4. n \in Nat
  OBVIOUS
<1> DEFINE Ought(i) == \A j \in C : Size(j) < Size(i) \/ (Size(j) = Size(i) /\ j <= i)
<1>5. Best(query) = CHOOSE i \in C : Ought(i)
  BY DEF Best
<1>6. CASE C = {}
  <2>1. ~(b \in 1 .. n /\ Covers(store[b], query))
    BY <1>2, <1>6
  <2>2. best = Nothing
    BY <1>1, <2>1 DEF Found
  <2>3. QED
    BY <1>6, <2>2
<1>7. CASE C # {}
  <2>1. best # Nothing \/ ~\A j \in 1 .. n : ~Covers(store[j], query)
    BY <1>2, <1>7
  <2>2. /\ b \in 1 .. n
        /\ best = [it |-> b, length |-> Size(b)]
        /\ Covers(store[b], query)
        /\ \A j \in 1 .. n : Covers(store[j], query) =>
             Size(j) < best.length \/ (Size(j) = best.length /\ j <= b)
    <3> HIDE DEF n, best
    <3>1. \/ best = Nothing /\ \A j \in 1 .. n : ~Covers(store[j], query)
          \/ /\ b \in 1 .. n
             /\ best = [it |-> b, length |-> Size(b)]
             /\ Covers(store[b], query)
             /\ \A j \in 1 .. n : Covers(store[j], query) =>
                  Size(j) < best.length \/ (Size(j) = best.length /\ j <= b)
      BY <1>1 DEF Found
    <3> HIDE DEF Size, C
    <3>2. QED
      BY <1>2, <1>7, <3>1
  <2>3. best.length = Size(b)
    BY <2>2
  <2>4. b \in C /\ b # 0
    BY <1>2, <2>2
  <2>5. Ought(b)
    <3> SUFFICES ASSUME NEW j \in C PROVE Size(j) < Size(b) \/ (Size(j) = Size(b) /\ j <= b)
      OBVIOUS
    <3>1. j \in 1 .. n /\ Covers(store[j], query)
      BY <1>2
    <3> HIDE DEF Size
    <3>2. QED
      BY <2>2, <2>3, <3>1
  <2>6. ASSUME NEW i \in C, Ought(i) PROVE i = b
    <3>1. Size(b) < Size(i) \/ (Size(b) = Size(i) /\ b <= i)
      BY <2>4, <2>6
    <3>2. Size(i) < Size(b) \/ (Size(i) = Size(b) /\ i <= b)
      BY <2>5
    <3>3. i \in 1 .. n /\ b \in 1 .. n
      BY <1>2, <2>2
    <3>4. Size(i) \in Nat /\ Size(b) \in Nat
      BY <1>3, <3>3
    <3> HIDE DEF Size, b, n
    <3>5. QED
      BY <1>4, <3>1, <3>2, <3>3, <3>4
  <2> HIDE DEF Ought, b, C, best
  <2>7. (CHOOSE i \in C : Ought(i)) = b
    BY <2>4, <2>5, <2>6
  <2>8. QED
    BY <1>5, <1>7, <2>3, <2>4, <2>7 DEF b, best, C
<1>8. QED
  BY <1>6, <1>7

\* Any list the server can have is looked up as it should be.
LEMMA LongestFound ==
  ASSUME store \in Seq(Entry)
  PROVE  LookupLongest
<1> SUFFICES ASSUME NEW query \in Query
             PROVE  IF Covering(query) = {} THEN resolve(query) = NoPath
                    ELSE resolve(query) =
                           store[Best(query)].windows_path \o
                           ReplaceChar(
                             SubSeq(query, Len(store[Best(query)].alias_path) + 1, Len(query)),
                             "/", "\\")
  BY DEF LookupLongest
<1>1. query \in Seq(Char)
  BY AliasesAssumption
<1>2. resolve(query) = ResolveIn(store, query)
  BY ResolvedIn
<1>3. IF Covering(query) = {} THEN ScanIn(store, query) = Nothing
      ELSE /\ ScanIn(store, query).it = Best(query)
           /\ ScanIn(store, query).it # 0
           /\ ScanIn(store, query).length = Len(store[Best(query)].alias_path)
  BY <1>1, ScanIsBest
<1>4. CASE Covering(query) = {}
  <2>1. ScanIn(store, query).it = 0
    BY <1>3, <1>4 DEF Nothing
  <2>2. QED
    BY <1>2, <1>4, <2>1 DEF ResolveIn
<1>5. CASE Covering(query) # {}
  BY <1>2, <1>3, <1>5 DEF ResolveIn, alias_subpath_to_windows
<1>6. QED
  BY <1>4, <1>5

-----------------------------------------------------------------------------
(* The list as one source makes it. *)

\* The list a source alone makes of its pairs, the disk being d.
ListOf(d, source, pairs) == Adds!Fold([disk |-> d, source |-> source], <<>>, pairs)

OwnEntry(source) == [source : {source}, alias_path : Seq(Char), windows_path : Location]

\* It is a list of entries of this source.
LEMMA ListType ==
  ASSUME NEW d, NEW source, NEW pairs \in Content
  PROVE  ListOf(d, source, pairs) \in Seq(OwnEntry(source))
<1> DEFINE P == Seq(Char) \X Seq(Char)
           E == OwnEntry(source)
           c == [disk |-> d, source |-> source]
           base == <<>>
<1>1. pairs \in Seq(P)
  BY AliasesAssumption
<1>2. ASSUME NEW pair \in P, pair[1] \in Path PROVE MadeOf(c.source, pair) \in E
  <2>1. pair[1] \in Seq(Char) /\ pair[2] \in Seq(Char)
    OBVIOUS
  <2>2. windows_to_alias_path(pair[1]) \in Seq(Char)
    BY <2>1, MadeAlias
  <2>3. Canonical[pair[1]] \in Location
    BY <1>2, DiskAssumption
  <2>4. QED
    BY <2>1, <2>2, <2>3 DEF MadeOf, OwnEntry
<1>3. base \in Seq(E)
  OBVIOUS
<1> HIDE DEF P, E, c, base
<1>4. Adds!Fold(c, base, pairs) \in Seq(E)
  BY <1>1, <1>2, <1>3, AddsStay
<1>5. QED
  BY <1>4 DEF ListOf, c, base, E

\* A source that is alone sets the list its pairs make, whatever the list was.
LEMMA SetAlone ==
  ASSUME NEW source, NEW list \in Seq(OwnEntry(source)), NEW pairs \in Content
  PROVE  SetSafe(list, source, pairs) = ListOf(disk, source, pairs)
<1>1. OfOthers(list, source) = <<>>
  <2>1. \A e \in OwnEntry(source) : e.source = source
    BY DEF OwnEntry
  <2>2. QED
    BY <2>1, NoOthers
<1>2. QED
  BY <1>1, AddsFold DEF ListOf

-----------------------------------------------------------------------------
(* The invariant. *)

\* The entries of the first n - 1 sources, with the aliases they may have.
Made(n) ==
  {e \in [source : 1 .. n - 1, alias_path : Alias, windows_path : Location] :
     e.alias_path # NoAlias =>
       e.alias_path[1] = "/" /\ (Last(e.alias_path) = "/" => e.alias_path \in Given)}

IInv ==
  /\ disk \in Disks
  /\ next_source \in 1 .. MaxSource + 1
  /\ store \in Seq(Made(next_source))

\* Directories keep their ids apart when the disk changes.
LEMMA DiskStays ==
  ASSUME disk \in Disks, DiskStep
  PROVE  disk' \in Disks
<1>1. ASSUME NEW l \in Location, NEW m \in Location, Move(l, m)
      PROVE  disk' \in Disks
  BY <1>1, DiskAssumption DEF Disks, Move
<1>2. ASSUME NEW l \in Location, Delete(l)
      PROVE  disk' \in Disks
  BY <1>2, DiskAssumption DEF Disks, Delete
<1>3. ASSUME NEW l \in Location, NEW f \in File, Create(l, f)
      PROVE  disk' \in Disks
  BY <1>3, DiskAssumption DEF Disks, Create
<1>4. QED
  BY <1>1, <1>2, <1>3 DEF DiskStep

\* An alias is a sequence of characters.
LEMMA AliasType == Alias \subseteq Seq(Char)
<1>1. ASSUME NEW w \in Path PROVE windows_to_alias_path(w) \in Seq(Char)
  BY AliasesAssumption, MadeAlias
<1>2. ASSUME NEW pairs \in Content, NEW i \in DOMAIN pairs PROVE pairs[i][2] \in Seq(Char)
  <2>1. pairs \in Seq(Seq(Char) \X Seq(Char))
    BY AliasesAssumption
  <2>2. pairs[i] \in Seq(Char) \X Seq(Char)
    BY <2>1
  <2>3. QED
    BY <2>2
<1>3. \A pair \in Extra : pair[2] \in Seq(Char)
  BY AliasesAssumption
<1>4. ASSUME NEW pair \in Pair PROVE pair[2] \in Seq(Char)
  <2>1. CASE pair \in Extra
    BY <1>3, <2>1
  <2>2. CASE pair \notin Extra
    <3>1. PICK pairs \in Content : pair \in Range(pairs)
      BY <2>2 DEF Pair
    <3>2. PICK i \in DOMAIN pairs : pair = pairs[i]
      BY <3>1 DEF Range
    <3>3. QED
      BY <1>2, <3>2
  <2>3. QED
    BY <2>1, <2>2
<1>6. Given \subseteq Seq(Char)
  BY <1>4 DEF Given
<1>5. QED
  BY <1>1, <1>6 DEF Alias

\* An entry made of a pair is one of those.
LEMMA MadeSound ==
  ASSUME NEW n, NEW source \in 1 .. n - 1, NEW pair \in Pair, pair[1] \in Path
  PROVE  MadeOf(source, pair) \in Made(n)
<1> DEFINE w == pair[1]
           alias == IF pair[2] = NoAlias THEN windows_to_alias_path(w) ELSE pair[2]
<1>1. w \in Seq(Char) /\ Canonical[w] \in Location
  BY AliasesAssumption, DiskAssumption
<1>2. CASE pair[2] = NoAlias
  <2>1. alias = windows_to_alias_path(w)
    BY <1>2
  <2> HIDE DEF alias
  <2>2. alias \in Alias
    BY <2>1 DEF Alias
  <2>3. alias # NoAlias => alias[1] = "/" /\ Last(alias) # "/"
    BY <1>1, <2>1, MadeAlias
  <2>4. MadeOf(source, pair) = [source |-> source, alias_path |-> alias, windows_path |-> Canonical[w]]
    BY DEF MadeOf, alias
  <2>5. QED
    BY <1>1, <2>2, <2>3, <2>4 DEF Made
<1>3. CASE pair[2] # NoAlias
  <2>1. alias = pair[2]
    BY <1>3
  <2> HIDE DEF alias
  <2>2. alias \in Given /\ alias \in Alias
    BY <2>1 DEF Given, Alias
  <2>3. alias[1] = "/"
    BY <1>3, <2>1, <2>2, AliasesAssumption
  <2>4. MadeOf(source, pair) = [source |-> source, alias_path |-> alias, windows_path |-> Canonical[w]]
    BY DEF MadeOf, alias
  <2>5. QED
    BY <1>1, <2>2, <2>3, <2>4 DEF Made
<1>4. QED
  BY <1>2, <1>3

\* The pairs of a set are pairs.
LEMMA ContentType ==
  ASSUME NEW pairs \in Content
  PROVE  pairs \in Seq(Pair)
<1>1. pairs \in Seq(Seq(Char) \X Seq(Char))
  BY AliasesAssumption
<1>2. \A i \in 1 .. Len(pairs) : pairs[i] \in Pair
  <2>1. DOMAIN pairs = 1 .. Len(pairs)
    BY <1>1
  <2>2. \A i \in DOMAIN pairs : pairs[i] \in Range(pairs)
    BY DEF Range
  <2>3. QED
    BY <2>1, <2>2 DEF Pair
<1>3. pairs = [i \in 1 .. Len(pairs) |-> pairs[i]] /\ Len(pairs) \in Nat
  BY <1>1
<1>4. pairs \in [1 .. Len(pairs) -> Pair]
  BY <1>2, <1>3
<1>5. QED
  BY <1>3, <1>4

LEMMA InitInv == Init => IInv
<1> SUFFICES ASSUME Init PROVE IInv
  OBVIOUS
<1>1. <<>> \in Seq(Made(next_source)) /\ 1 \in 1 .. MaxSource + 1
  BY AliasesAssumption
<1>2. QED
  BY <1>1 DEF Init, IInv

LEMMA NextInv == IInv /\ [Next]_vars => IInv'
<1> SUFFICES ASSUME IInv, [Next]_vars PROVE IInv'
  OBVIOUS
<1>0. next_source \in Nat
  BY AliasesAssumption DEF IInv
<1>1. CASE CreateSource
  <2>1. Made(next_source) \subseteq Made(next_source + 1)
    BY <1>0 DEF Made
  <2>2. /\ next_source' = next_source + 1 /\ next_source' \in 1 .. MaxSource + 1
        /\ disk' = disk /\ store' = store
    BY <1>0, <1>1, AliasesAssumption DEF CreateSource
  <2>3. store \in Seq(Made(next_source + 1))
    BY <2>1, WiderSeq DEF IInv
  <2>4. QED
    BY <2>2, <2>3 DEF IInv, Made
<1>2. ASSUME NEW source \in Source, NEW pairs \in Content, Set(source, pairs) PROVE IInv'
  <2> DEFINE E == Made(next_source)
             c == [disk |-> disk, source |-> source]
             base == OfOthers(store, source)
  <2>1. source \in 1 .. next_source - 1 /\ source # 0
    BY <1>0, <1>2, AliasesAssumption DEF Set, Source
  <2>2. c.source = source
    OBVIOUS
  <2>3. \A pair \in Pair : pair[1] \in Path => MadeOf(source, pair) \in E
    BY <2>1, MadeSound
  <2>4. store \in Seq(E)
    BY DEF IInv
  <2> HIDE DEF E, c
  <2>5. OfOthers(store, source) \in Seq(E)
    <3>1. 0 # source
      BY <2>1
    <3>2. QED
      BY <2>4, <3>1, ErasedApart
  <2>6. pairs \in Seq(Pair)
    BY ContentType
  <2> HIDE DEF base
  <2>7. base \in Seq(E)
    BY <2>5 DEF base
  <2>8. Adds!Fold(c, base, pairs) \in Seq(E)
    BY <2>2, <2>3, <2>6, <2>7, AddsStay
  <2>9. SetSafe(store, source, pairs) \in Seq(E)
    BY <2>8, AddsFold DEF base, c
  <2>10. store' \in Seq(E) /\ disk' = disk /\ next_source' = next_source
    BY <1>2, <2>9 DEF Set
  <2>11. QED
    BY <2>10 DEF IInv, E, Made
<1>3. ASSUME NEW source \in Source, NEW pair \in Extra, Add(source, pair) PROVE IInv'
  <2> DEFINE E == Made(next_source)
             c == [disk |-> disk, source |-> source]
  <2>1. source \in 1 .. next_source - 1 /\ pair \in Pair
    <3>1. pair \in Pair
      BY DEF Pair
    <3>2. QED
      BY <1>0, <1>3, <3>1, AliasesAssumption DEF Add, Source
  <2>2. c.source = source
    OBVIOUS
  <2>3. pair[1] \in Path => MadeOf(source, pair) \in E
    BY <2>1, MadeSound
  <2>4. store \in Seq(E)
    BY DEF IInv
  <2> HIDE DEF E, c
  <2>5. AddAs(c, store, pair) \in Seq(E)
    BY <2>2, <2>3, <2>4, AddStays
  <2>6. store' \in Seq(E) /\ disk' = disk /\ next_source' = next_source
    BY <1>3, <2>5, AddedAs DEF Add, c
  <2>7. QED
    BY <2>6 DEF IInv, E, Made
<1>4. CASE DiskStep /\ UNCHANGED <<store, next_source>>
  BY <1>4, DiskStays DEF IInv, Made
<1>5. CASE UNCHANGED vars
  BY <1>5 DEF IInv, vars, Disks, Made
<1>6. QED
  BY <1>1, <1>2, <1>3, <1>4, <1>5 DEF Next

LEMMA Invariance == Spec => []IInv
BY InitInv, NextInv, PTL DEF Spec

\* The entries of the invariant are entries.
LEMMA StoreType ==
  ASSUME IInv
  PROVE  store \in Seq(Entry)
<1>1. Made(next_source) \subseteq Entry
  BY AliasType, AliasesAssumption DEF IInv, Made, Entry
<1>2. QED
  BY <1>1, WiderSeq DEF IInv

-----------------------------------------------------------------------------
(* What holds of every list. *)

\* Entries are of sources made so far and for normalised paths; their aliases are as
\* check_alias_path asserts it of given ones, and those made from paths do not end with a
\* slash (mount_aliases.h:40-52, mount_aliases.cpp:18-53, 88-105).
THEOREM TypeCorrect == Spec => []TypeOK
<1>1. ASSUME IInv PROVE TypeOK
  <2>0. next_source \in 1 .. MaxSource + 1 /\ store \in Seq(Made(next_source))
    BY <1>1 DEF IInv
  <2> DEFINE R == [source : Source, alias_path : Alias, windows_path : Location]
  <2>1. Made(next_source) \subseteq R
    BY <2>0, AliasesAssumption DEF Made, Source
  <2>2. store \in Seq(R)
    <3> HIDE DEF R
    <3>1. QED
      BY <2>0, <2>1, WiderSeq
  <2>3. ASSUME NEW i \in DOMAIN store
        PROVE  LET alias == store[i].alias_path
               IN /\ store[i].source < next_source
                  /\ alias # NoAlias =>
                       alias[1] = "/" /\ (Last(alias) = "/" => alias \in Given)
    <3>1. store[i] \in Made(next_source)
      BY <2>0
    <3> DEFINE e == store[i]
    <3>2. e.source \in 1 .. next_source - 1 /\ next_source \in Nat
      BY <2>0, <3>1, AliasesAssumption DEF Made
    <3>3. e.alias_path # NoAlias =>
            e.alias_path[1] = "/" /\ (Last(e.alias_path) = "/" => e.alias_path \in Given)
      BY <3>1 DEF Made
    <3>4. QED
      BY <3>2, <3>3
  <2>4. QED
    BY <1>1, <2>2, <2>3 DEF IInv, TypeOK
<1>2. QED
  BY <1>1, Invariance, PTL

\* Whatever was set and added, by whatever sources and in whatever order, one scan with
\* best_it and best_length (mount_aliases.cpp:56-85) finds the newest of the longest
\* aliases that cover the query as whole folders.
THEOREM LookupsLongest == Spec => []LookupLongest
<1>1. IInv => LookupLongest
  BY StoreType, LongestFound
<1>2. QED
  BY <1>1, Invariance, PTL

\* No step changes the entries of two sources: what a source sets, clears or adds leaves
\* those of every other, in their order (mount_aliases.cpp:88-123).
THEOREM SourcesStayApart == Spec => SourcesApart
<1> DEFINE Apart(s, t) ==
             OfSource(store', s) = OfSource(store, s) \/ OfSource(store', t) = OfSource(store, t)
<1>1. ASSUME IInv, [Next]_vars, NEW s \in Source, NEW t \in Source, s # t PROVE Apart(s, t)
  <2>0. store \in Seq(Entry)
    BY <1>1, StoreType
  <2>1. CASE store' = store
    BY <2>1
  <2>2. ASSUME NEW source \in Source, NEW pairs \in Content, Set(source, pairs) PROVE Apart(s, t)
    <3>1. store' = SetSafe(store, source, pairs) /\ pairs \in Seq(Pair)
      BY <2>2, ContentType DEF Set
    <3>2. \A other \in Source : other # source => OfSource(store', other) = OfSource(store, other)
      BY <2>0, <3>1, SetApart
    <3>3. QED
      BY <1>1, <3>2
  <2>3. ASSUME NEW source \in Source, NEW pair \in Extra, Add(source, pair) PROVE Apart(s, t)
    <3> DEFINE c == [disk |-> disk, source |-> source]
               E == Entry \cup {MadeOf(source, pair)}
    <3>1. store' = AddAs(c, store, pair) /\ c.source = source
      BY <2>3, AddedAs DEF Add
    <3>2. Entry \subseteq E /\ MadeOf(source, pair) \in E
      OBVIOUS
    <3> HIDE DEF c, E
    <3>3. store \in Seq(E)
      BY <2>0, <3>2, WiderSeq
    <3>4. \A other \in Source : other # source => OfSource(store', other) = OfSource(store, other)
      BY <3>1, <3>2, <3>3, AddedApart
    <3>5. QED
      BY <1>1, <3>4
  <2>4. QED
    BY <1>1, <2>1, <2>2, <2>3 DEF Next, CreateSource, vars
<1>2. IInv /\ [Next]_vars =>
        [\A s, t \in Source : s # t =>
           OfSource(store', s) = OfSource(store, s) \/ OfSource(store', t) = OfSource(store, t)]_vars
  BY <1>1
<1>3. QED
  BY <1>2, Invariance, PTL DEF Spec, SourcesApart

=============================================================================
