------------------------- MODULE MountServerProofs -------------------------
(***************************************************************************)
(* Theorems about MountServer, for every set of threads, clients, queries, *)
(* directories and configurations, and about ConfigSync, which says when   *)
(* the program reads its configuration, for any contents of the file and   *)
(* any number of changes.                                                  *)
(***************************************************************************)
EXTENDS MountServer, ConfigSync, SequenceTheorems, TLAPS

\* What is proved about MountCache, and about MountAliases.
Facts == INSTANCE MountCacheProofs
Lists == INSTANCE MountAliasesProofs WITH next_source <- 3, Extra <- {}

-----------------------------------------------------------------------------
(* The calls in a session. *)

\* At most one call has missed its query and not finished; what it has found, that
\* the table does not know the query, is still so.
SessionInv ==
  /\ session = [t \in Thread |-> session[t]]
  /\ \A t \in Thread : session[t] # None =>
       /\ Cache!running
       /\ session[t].client \in Client
       /\ session[t].query \in Query
       /\ Cache!FindQuery(session[t].query) = Cache!End
       /\ \A u \in Thread : session[u] # None => u = t

\* A session that is closed leaves none open.
LEMMA ClosedSession ==
  ASSUME SessionInv, NEW t \in Thread, session[t] # None,
         session' = [session EXCEPT ![t] = None]
  PROVE  SessionInv' /\ \A u \in Thread : session'[u] = None
BY DEF SessionInv

\* While a call is in a session the table does not change, but by the call itself.
LEMMA SessionKept ==
  ASSUME SessionInv, [Next]_vars
  PROVE  SessionInv'
<1>1. ASSUME UNCHANGED <<phase, query_map, session>>
      PROVE  SessionInv'
  BY <1>1 DEF SessionInv, Cache!running, Cache!FindQuery, Cache!End
<1>2. ASSUME session = NoSession, session' = session
      PROVE  SessionInv'
  BY <1>2 DEF SessionInv, NoSession
<1>3. ASSUME NEW c \in Client, NEW q \in Query, MntKnown(c, q)
      PROVE  SessionInv'
  BY <1>2, <1>3 DEF MntKnown, Unlocked
<1>4. ASSUME NEW t \in Thread, NEW c \in Client, NEW q \in Query, MntResolve(t, c, q)
      PROVE  SessionInv'
  <2> DEFINE call == [client |-> c, query |-> q, path |-> Aliases!resolve(q)]
  <2>1. /\ Cache!running /\ session = NoSession /\ Cache!FindQuery(q) = Cache!End
        /\ session' = [session EXCEPT ![t] = call]
        /\ UNCHANGED <<phase, query_map>>
    BY <1>4 DEF MntResolve, Unlocked, table
  <2>2. call.client = c /\ call.query = q
    OBVIOUS
  <2> HIDE DEF call
  <2>3. /\ session' = [u \in Thread |-> IF u = t THEN call ELSE None]
    BY <2>1 DEF NoSession
  <2>4. \A u \in Thread : session'[u] # None => u = t
    BY <2>3
  <2>5. session'[t] = call
    BY <2>3
  <2>6. Cache!running' /\ Cache!FindQuery(q)' = Cache!End
    BY <2>1 DEF Cache!running, Cache!FindQuery, Cache!End
  <2>7. session' = [u \in Thread |-> session'[u]]
    BY <2>3
  <2>8. QED
    BY <2>2, <2>4, <2>5, <2>6, <2>7 DEF SessionInv, Cache!running, Cache!FindQuery, Cache!End
<1>5. ASSUME NEW t \in Thread, MntFinish(t)
      PROVE  SessionInv'
  BY <1>5, ClosedSession DEF MntFinish
<1>6. CASE Unmount
  BY <1>2, <1>6 DEF Unmount, Unlocked
<1>7. CASE ReadConfig
  BY <1>1, <1>7 DEF ReadConfig, table
<1>8. ASSUME NEW lines \in Content, EditConfig(lines)
      PROVE  SessionInv'
  BY <1>1, <1>8 DEF EditConfig, table
<1>9. CASE Start
  <2>1. phase = "off" /\ session' = session /\ phase' = "serving"
    BY <1>9 DEF Start, Cache!Restore
  <2>2. \A t \in Thread : session[t] = None
    BY <2>1 DEF SessionInv, Cache!running
  <2>3. QED
    BY <2>1, <2>2 DEF SessionInv
<1>10. CASE StoreSnapshot
  BY <1>2, <1>10 DEF StoreSnapshot, Unlocked
<1>11. CASE StoreWrite
  <2>1. /\ session' = session /\ query_map' = query_map
        /\ phase = "storing" /\ phase' = "stored"
    BY <1>11 DEF StoreWrite, Cache!StoreWrite, Cache!tables
  <2>2. QED
    BY <2>1 DEF SessionInv, Cache!running, Cache!FindQuery, Cache!End
<1>12. CASE Stop
  BY <1>12 DEF Stop, SessionInv, NoSession
<1>13. CASE DiskChange
  BY <1>1, <1>13 DEF DiskChange, table
<1>14. CASE UNCHANGED vars
  BY <1>1, <1>14 DEF vars, table
<1>15. QED
  BY <1>3, <1>4, <1>5, <1>6, <1>7, <1>8, <1>9, <1>10, <1>11, <1>12, <1>13, <1>14 DEF Next

\* No call, no session.
LEMMA SessionInit ==
  ASSUME Init
  PROVE  SessionInv
BY DEF Init, SessionInv, NoSession

-----------------------------------------------------------------------------
(* The steps are steps of the table. *)

\* The end of a call is a MNT of the table for the path it has resolved, or, when it
\* is none the server may open, for no path.
LEMMA FinishIsMnt ==
  ASSUME SessionInv, NEW t \in Thread, MntFinish(t)
  PROVE  \E c \in Client, q \in Query, p \in Path \cup {NoPath} : Cache!Mnt(c, q, p)
<1> DEFINE c == session[t].client
           q == session[t].query
           p == session[t].path
<1>1. /\ c \in Client /\ q \in Query /\ Cache!running /\ Cache!FindQuery(q) = Cache!End
  BY DEF MntFinish, SessionInv
<1>2. \/ Cache!MountKnownPath(c, q, p)
      \/ Cache!MountNewPath(c, q, p)
      \/ Cache!MountNoEntry(p)
  BY DEF MntFinish
<1> HIDE DEF c, q, p
<1>3. CASE p \in Path
  <2>1. Cache!Mnt(c, q, p)
    BY <1>1, <1>2 DEF Cache!Mnt, Cache!MntKnownPath, Cache!MntNewPath, Cache!MntNoEntry
  <2>2. QED
    BY <1>1, <1>3, <2>1
<1>4. CASE p \notin Path
  <2>1. p \notin Location /\ NoPath \notin Location /\ NoPath \notin Path
    BY <1>4, DiskAssumption
  <2>2. Cache!FindWindows(p) = Cache!End /\ ~Cache!Opens(p)
    BY <1>4, <2>1 DEF Cache!FindWindows, Cache!Opens
  <2>3. Cache!FindWindows(NoPath) = Cache!End /\ ~Cache!Opens(NoPath)
    BY <2>1 DEF Cache!FindWindows, Cache!Opens
  <2>4. Cache!MountNoEntry(p)
    BY <1>2, <2>2 DEF Cache!MountKnownPath, Cache!MountNewPath
  <2>5. Cache!MountNoEntry(NoPath)
    BY <2>3, <2>4 DEF Cache!MountNoEntry
  <2>6. Cache!Mnt(c, q, NoPath)
    BY <1>1, <2>5 DEF Cache!Mnt, Cache!MntNoEntry
  <2>7. QED
    BY <1>1, <2>6
<1>5. QED
  BY <1>3, <1>4

\* Every step is a step of the table or leaves it alone.
LEMMA StepIsOfCache ==
  ASSUME SessionInv, [Next]_vars
  PROVE  [Cache!Next]_(Cache!vars)
<1>0. ASSUME UNCHANGED <<disk, table>>
      PROVE  UNCHANGED Cache!vars
  BY <1>0 DEF table, Cache!vars, Cache!tables, Cache!files
<1>1. ASSUME NEW c \in Client, NEW q \in Query, MntKnown(c, q)
      PROVE  Cache!Next
  BY <1>1 DEF MntKnown, Cache!Next, Cache!Mnt
<1>2. ASSUME NEW t \in Thread, NEW c \in Client, NEW q \in Query, MntResolve(t, c, q)
      PROVE  UNCHANGED Cache!vars
  BY <1>0, <1>2 DEF MntResolve
<1>3. ASSUME NEW t \in Thread, MntFinish(t)
      PROVE  Cache!Next
  BY <1>3, FinishIsMnt DEF Cache!Next
<1>4. CASE Unmount
  BY <1>4 DEF Unmount, Cache!Next
<1>5. CASE ReadConfig
  BY <1>0, <1>5 DEF ReadConfig
<1>6. ASSUME NEW lines \in Content, EditConfig(lines)
      PROVE  UNCHANGED Cache!vars
  BY <1>0, <1>6 DEF EditConfig
<1>7. CASE Start
  BY <1>7 DEF Start, Cache!Next
<1>8. CASE StoreSnapshot
  BY <1>8 DEF StoreSnapshot, Cache!Next
<1>9. CASE StoreWrite
  BY <1>9 DEF StoreWrite, Cache!Next
<1>10. CASE Stop
  BY <1>10 DEF Stop, Cache!Next
<1>11. CASE DiskChange
  <2>1. Cache!DiskStep
    BY <1>11 DEF DiskChange, DiskStep, Cache!DiskStep, Move, Delete, Create,
                 Cache!Move, Cache!Delete, Cache!Create
  <2>2. UNCHANGED <<phase, Cache!tables, Cache!files>>
    BY <1>11 DEF DiskChange, table, Cache!tables, Cache!files
  <2>3. QED
    BY <2>1, <2>2 DEF Cache!Next
<1>12. CASE UNCHANGED vars
  BY <1>0, <1>12 DEF vars
<1>13. QED
  BY <1>1, <1>2, <1>3, <1>4, <1>5, <1>6, <1>7, <1>8, <1>9, <1>10, <1>11, <1>12 DEF Next

\* MNT calls of many threads, cut in two by the lock of the exports, with reloads of
\* the configuration and changes of the disk in between, are steps of the mount table
\* as it is without threads (mount.cpp:38-68 over mount_cache.h:104-146).
THEOREM CacheImplemented == Spec => ImplementsCache
<1>1. Init => Cache!Init
  BY DEF Init
<1>2. Init => SessionInv
  BY SessionInit
<1>3. SessionInv /\ [Next]_vars => SessionInv'
  BY SessionKept
<1>4. SessionInv /\ [Next]_vars => [Cache!Next]_(Cache!vars)
  BY StepIsOfCache
<1>5. QED
  BY <1>1, <1>2, <1>3, <1>4, PTL DEF Spec, ImplementsCache, Cache!Spec

-----------------------------------------------------------------------------
(* What is proved about the table holds of the table of the server. *)

\* The table the server uses and the one the facts are about are the same.
LEMMA SameTable ==
  /\ Cache!Init <=> Facts!Init
  /\ [Cache!Next]_(Cache!vars) => [Facts!Next]_(Facts!vars)
BY DEF
       Cache!tables, Cache!files, Cache!vars, Cache!Id, Cache!End, Cache!running, Cache!Handle,
       Cache!Entry, Cache!Image, Cache!NoMounts, Cache!NoQueries, Cache!NoClients,
       Cache!NoCache, Cache!NewEntry, Cache!FindQuery, Cache!FindWindows, Cache!MountSender,
       Cache!Insert, Cache!InsertWindows, Cache!MntKnownQuery, Cache!MountKnownPath,
       Cache!MountNewPath, Cache!MountNoEntry, Cache!MntKnownPath, Cache!MntNewPath,
       Cache!MntNoEntry, Cache!Unmount, Cache!StoreSnapshot, Cache!StoreWrite, Cache!Stop,
       Cache!NextAbove, Cache!RestoredWindows, Cache!Restore, Cache!Init, Cache!Mnt,
       Cache!Next, Cache!Disks, Cache!Opens, Cache!Move, Cache!Delete, Cache!Create,
       Cache!DiskStep, Facts!tables, Facts!files, Facts!vars, Facts!Id, Facts!End,
       Facts!running, Facts!Handle, Facts!Entry, Facts!Image, Facts!NoMounts, Facts!NoQueries,
       Facts!NoClients, Facts!NoCache, Facts!NewEntry, Facts!FindQuery, Facts!FindWindows,
       Facts!MountSender, Facts!Insert, Facts!InsertWindows, Facts!MntKnownQuery,
       Facts!MountKnownPath, Facts!MountNewPath, Facts!MountNoEntry, Facts!MntKnownPath,
       Facts!MntNewPath, Facts!MntNoEntry, Facts!Unmount, Facts!StoreSnapshot,
       Facts!StoreWrite, Facts!Stop, Facts!NextAbove, Facts!RestoredWindows, Facts!Restore,
       Facts!Init, Facts!Mnt, Facts!Next, Facts!Disks, Facts!Opens, Facts!Move, Facts!Delete,
       Facts!Create, Facts!DiskStep

\* The invariant of the table.
LEMMA TableInvariant == Spec => []Facts!IInv
<1>1. Cache!Init => Facts!IInv
  BY NameAssumption, DiskAssumption, SameTable, Facts!InitInv
<1>2. Facts!IInv /\ [Cache!Next]_(Cache!vars) => Facts!IInv'
  BY NameAssumption, DiskAssumption, SameTable, Facts!NextInv
<1>3. QED
  BY <1>1, <1>2, CacheImplemented, PTL DEF ImplementsCache, Cache!Spec

-----------------------------------------------------------------------------
(* What is proved about the exports holds of the exports of the server. *)

\* What is assumed of the exports holds here: the file gives no aliases.
LEMMA ExportsAssumption ==
  /\ MaxSource \in Nat /\ MaxEntries \in Nat
  /\ {"/", "\\"} \subseteq Char
  /\ Path \subseteq Seq(Char) /\ NoPath \in Seq(Char) /\ Query \subseteq Seq(Char)
  /\ Content \subseteq Seq(Seq(Char) \X Seq(Char)) /\ {} \subseteq Seq(Char) \X Seq(Char)
  /\ \A alias \in Lists!Given : alias # Lists!NoAlias => alias[1] = "/"
<1>1. Content \subseteq Seq(Seq(Char) \X {<<>>})
  BY NameAssumption
<1>2. ASSUME NEW lines \in Content
      PROVE  /\ lines \in Seq(Seq(Char) \X Seq(Char))
             /\ \A i \in DOMAIN lines : lines[i][2] = Lists!NoAlias
  <2> DEFINE P == Seq(Char) \X {<<>>}
             Q == Seq(Char) \X Seq(Char)
  <2>1. lines \in Seq(P)
    BY <1>1
  <2>2. ASSUME NEW pair \in P PROVE pair \in Q /\ pair[2] = Lists!NoAlias
    <3>1. <<>> \in Seq(Char)
      OBVIOUS
    <3>2. pair = <<pair[1], pair[2]>> /\ pair[1] \in Seq(Char) /\ pair[2] = <<>>
      OBVIOUS
    <3>3. QED
      BY <3>1, <3>2 DEF Lists!NoAlias
  <2> HIDE DEF P, Q
  <2>3. \A i \in 1 .. Len(lines) : lines[i] \in P
    BY <2>1
  <2>4. lines = [i \in 1 .. Len(lines) |-> lines[i]] /\ Len(lines) \in Nat /\ DOMAIN lines = 1 .. Len(lines)
    BY <2>1
  <2>5. lines \in [1 .. Len(lines) -> Q]
    BY <2>2, <2>3, <2>4
  <2>6. lines \in Seq(Q)
    BY <2>4, <2>5
  <2>7. QED
    BY <2>2, <2>3, <2>4, <2>6 DEF Q
<1>3. ASSUME NEW alias \in Lists!Given PROVE alias = Lists!NoAlias
  <2>1. PICK pair \in Lists!Pair : alias = pair[2]
    BY DEF Lists!Given
  <2>2. PICK lines \in Content : pair \in Lists!Range(lines)
    BY <2>1 DEF Lists!Pair
  <2>3. QED
    BY <1>2, <2>1, <2>2 DEF Lists!Range
<1>4. QED
  BY <1>2, <1>3, NameAssumption DEF MaxSource, MaxEntries

\* A line of the file of source c.source is added, the disk being c.disk, as the server's
\* exports have it.
AddLine(c, list, line) ==
  IF \/ \E i \in DOMAIN list : list[i].alias_path = line[2]
     \/ ~(line[1] \in Path /\ c.disk[Canonical[line[1]]] # NoFile)
  THEN list
  ELSE Append(list,
         [source       |-> c.source,
          alias_path   |-> IF line[2] = Aliases!NoAlias THEN Aliases!windows_to_alias_path(line[1])
                           ELSE line[2],
          windows_path |-> Canonical[line[1]]])

Lines == INSTANCE FoldFacts WITH Op <- AddLine

\* And as those have it which the facts are about.
AddFact(c, list, line) ==
  IF \/ \E i \in DOMAIN list : list[i].alias_path = line[2]
     \/ ~(line[1] \in Path /\ c.disk[Canonical[line[1]]] # NoFile)
  THEN list
  ELSE Append(list,
         [source       |-> c.source,
          alias_path   |-> IF line[2] = Lists!NoAlias THEN Lists!windows_to_alias_path(line[1])
                           ELSE line[2],
          windows_path |-> Canonical[line[1]]])

FactLines == INSTANCE FoldFacts WITH Op <- AddFact

\* An alias made from a path is the same there and here.
LEMMA SameAlias == \A w : Aliases!windows_to_alias_path(w) = Lists!windows_to_alias_path(w)
<1>1. ASSUME NEW w
      PROVE  Aliases!windows_to_alias_path(w) = Lists!windows_to_alias_path(w)
  <2> DEFINE prefix == <<"\\", "\\", "?", "\\">>
             a_plain == IF Aliases!IsPrefix(prefix, w) THEN SubSeq(w, 5, Len(w)) ELSE w
             a_s == Aliases!ReplaceChar(a_plain, "\\", "/")
             a_rooted == IF Len(a_s) >= 2 /\ a_s[2] = ":"
                         THEN <<"/", a_s[1]>> \o SubSeq(a_s, 3, Len(a_s))
                         ELSE IF Len(a_s) >= 1 /\ a_s[1] # "/" THEN <<"/">> \o a_s
                         ELSE a_s
             a_I == {i \in 1 .. Len(a_rooted) : a_rooted[i] # "/"}
             a_last == IF a_I # {} THEN Aliases!Max(a_I) ELSE 0
             f_plain == IF Lists!IsPrefix(prefix, w) THEN SubSeq(w, 5, Len(w)) ELSE w
             f_s == Lists!ReplaceChar(f_plain, "\\", "/")
             f_rooted == IF Len(f_s) >= 2 /\ f_s[2] = ":"
                         THEN <<"/", f_s[1]>> \o SubSeq(f_s, 3, Len(f_s))
                         ELSE IF Len(f_s) >= 1 /\ f_s[1] # "/" THEN <<"/">> \o f_s
                         ELSE f_s
             f_I == {i \in 1 .. Len(f_rooted) : f_rooted[i] # "/"}
             f_last == IF f_I # {} THEN Lists!Max(f_I) ELSE 0
  <2>1. Aliases!windows_to_alias_path(w) = SubSeq(a_rooted, 1, a_last)
    BY DEF Aliases!windows_to_alias_path, Aliases!SelectLastInSeq
  <2>2. Lists!windows_to_alias_path(w) = SubSeq(f_rooted, 1, f_last)
    BY DEF Lists!windows_to_alias_path, Lists!SelectLastInSeq
  <2> HIDE DEF a_last, f_last, a_I, f_I, a_rooted, f_rooted, a_s, f_s
  <2>3. a_plain = f_plain
    BY DEF Aliases!IsPrefix, Lists!IsPrefix
  <2> HIDE DEF a_plain, f_plain
  <2>4. a_s = f_s
    BY <2>3 DEF a_s, f_s, Aliases!ReplaceChar, Lists!ReplaceChar
  <2>5. a_rooted = f_rooted
    BY <2>4 DEF a_rooted, f_rooted
  <2>6. a_I = f_I
    BY <2>5 DEF a_I, f_I
  <2>7. \A S : Aliases!Max(S) = Lists!Max(S)
    BY DEF Aliases!Max, Lists!Max
  <2>8. a_last = f_last
    BY <2>6, <2>7 DEF a_last, f_last
  <2>9. QED
    BY <2>1, <2>2, <2>5, <2>8
<1>2. QED
  BY <1>1

\* So is what a line adds.
LEMMA SameLine == \A c, list, line : AddLine(c, list, line) = AddFact(c, list, line)
<1>1. Aliases!NoAlias = Lists!NoAlias
  BY DEF Aliases!NoAlias, Lists!NoAlias
<1>2. QED
  BY <1>1, SameAlias DEF AddLine, AddFact

\* So are the lists made of many lines.
LEMMA SameLines ==
  ASSUME NEW c, NEW list, NEW lines, NEW n \in Nat, DOMAIN lines = 1 .. n
  PROVE  Lines!Fold(c, list, lines) = FactLines!Fold(c, list, lines)
<1>1. PICK f : Lines!Steps(f, n, c, list, lines) /\ Lines!Fold(c, list, lines) = f[n]
  BY Lines!FoldSteps
<1>2. PICK g : FactLines!Steps(g, n, c, list, lines) /\ FactLines!Fold(c, list, lines) = g[n]
  BY FactLines!FoldSteps
<1>3. FactLines!Steps(f, n, c, list, lines)
  BY <1>1, SameLine DEF Lines!Steps, FactLines!Steps
<1>4. \A i \in 0 .. n : f[i] = g[i]
  BY <1>2, <1>3, FactLines!StepsUnique
<1>5. QED
  BY <1>1, <1>2, <1>4

\* The exports the server uses and those the facts are about are the same.
LEMMA SameExports ==
  /\ \A list, source, lines, n :
       n \in Nat /\ DOMAIN lines = 1 .. n =>
         Aliases!SetSafe(list, source, lines) = Lists!SetSafe(list, source, lines)
  /\ \A query : Aliases!resolve(query) = Lists!resolve(query)
  /\ \A query : Aliases!resolve(query)' = Lists!resolve(query)'
  /\ Aliases!LookupLongest <=> Lists!LookupLongest
<1>1. ASSUME NEW list, NEW source, NEW lines, NEW n \in Nat, DOMAIN lines = 1 .. n
      PROVE  Aliases!SetSafe(list, source, lines) = Lists!SetSafe(list, source, lines)
  <2> DEFINE c == [disk |-> disk, source |-> source]
  <2>1. Aliases!OfOthers(list, source) = Lists!OfOthers(list, source)
    BY DEF Aliases!OfOthers, Aliases!FoldLeft, Aliases!MapThenFoldSet, Aliases!Max,
           Lists!OfOthers, Lists!FoldLeft, Lists!MapThenFoldSet, Lists!Max
  <2>2. Aliases!SetSafe(list, source, lines) = Lines!Fold(c, Aliases!OfOthers(list, source), lines)
    BY DEF Aliases!SetSafe, Aliases!AddSafe, Aliases!Opens, AddLine, Lines!Fold,
           Aliases!FoldLeft, Aliases!MapThenFoldSet, Aliases!Max,
           Lines!FoldLeft, Lines!MapThenFoldSet, Lines!Max
  <2>3. Lists!SetSafe(list, source, lines) = FactLines!Fold(c, Lists!OfOthers(list, source), lines)
    BY DEF Lists!SetSafe, Lists!AddSafe, Lists!Opens, AddFact, FactLines!Fold,
           Lists!FoldLeft, Lists!MapThenFoldSet, Lists!Max,
           FactLines!FoldLeft, FactLines!MapThenFoldSet, FactLines!Max
  <2> HIDE DEF c
  <2>4. QED
    BY <1>1, <2>1, <2>2, <2>3, SameLines
<1>2. \A query : Aliases!Scan(query) = Lists!Scan(query)
  BY DEF Aliases!Scan, Aliases!Matches, Aliases!FoldLeft, Aliases!MapThenFoldSet, Aliases!Max,
         Lists!Scan, Lists!Matches, Lists!FoldLeft, Lists!MapThenFoldSet, Lists!Max
<1>3. \A query : Aliases!Scan(query)' = Lists!Scan(query)'
  BY DEF Aliases!Scan, Aliases!Matches, Aliases!FoldLeft, Aliases!MapThenFoldSet, Aliases!Max,
         Lists!Scan, Lists!Matches, Lists!FoldLeft, Lists!MapThenFoldSet, Lists!Max
<1>4. \A alias : Aliases!alias_subpath_to_windows(alias) = Lists!alias_subpath_to_windows(alias)
  BY DEF Aliases!alias_subpath_to_windows, Aliases!ReplaceChar, Lists!alias_subpath_to_windows,
         Lists!ReplaceChar
<1>5. \A query : Aliases!resolve(query) = Lists!resolve(query)
  BY <1>2, <1>4 DEF Aliases!resolve, Lists!resolve
<1>6. \A query : Aliases!resolve(query)' = Lists!resolve(query)'
  BY <1>3, <1>4 DEF Aliases!resolve, Lists!resolve
<1>7. \A query : /\ Aliases!Covering(query) = Lists!Covering(query)
                 /\ Aliases!Best(query) = Lists!Best(query)
  BY DEF Aliases!Covering, Aliases!Best, Aliases!IsPrefix, Lists!Covering, Lists!Best,
         Lists!IsPrefix
<1>8. \A s, old, new : Aliases!ReplaceChar(s, old, new) = Lists!ReplaceChar(s, old, new)
  BY DEF Aliases!ReplaceChar, Lists!ReplaceChar
<1>9. Aliases!LookupLongest <=> Lists!LookupLongest
  BY <1>5, <1>7, <1>8 DEF Aliases!LookupLongest, Lists!LookupLongest
<1>10. QED
  BY <1>1, <1>5, <1>6, <1>9

\* The list a file with these lines makes, the disk being d.
ListOf(d, lines) == Lists!ListOf(d, ConfigSource, lines)

ResolveIn(list, query) == Lists!ResolveIn(list, query)

\* A source that is alone sets the list its file makes, whatever the list was.
LEMMA LoadedAgain ==
  ASSUME NEW list \in Seq(Export), config_file \in Content
  PROVE  Loaded(list) = ListOf(disk, config_file) /\ Loaded(list) \in Seq(Export)
<1>1. Export = Lists!OwnEntry(ConfigSource)
  BY DEF Export, Lists!OwnEntry
<1>2. Loaded(list) = Lists!SetSafe(list, ConfigSource, config_file)
  <2>1. config_file \in Seq(Seq(Char) \X {<<>>})
    BY NameAssumption
  <2>2. Len(config_file) \in Nat /\ DOMAIN config_file = 1 .. Len(config_file)
    BY <2>1
  <2>3. QED
    BY <2>2, SameExports DEF Loaded
<1>3. Lists!SetSafe(list, ConfigSource, config_file) = ListOf(disk, config_file)
  BY <1>1, ExportsAssumption, DiskAssumption, Lists!SetAlone DEF ListOf
<1>4. ListOf(disk, config_file) \in Seq(Export)
  BY <1>1, ExportsAssumption, DiskAssumption, Lists!ListType DEF ListOf
<1>5. QED
  BY <1>2, <1>3, <1>4

\* What a path resolves to depends on the list only, in this state and in the next.
LEMMA ResolvedIn ==
  \A query : /\ Aliases!resolve(query) = ResolveIn(store, query)
             /\ Aliases!resolve(query)' = ResolveIn(store', query)
BY ExportsAssumption, DiskAssumption, SameExports, Lists!ResolvedIn DEF ResolveIn

\* The list of the server is a list of entries.
LEMMA ExportsType == Seq(Export) \subseteq Seq(Lists!Entry)
<1>1. Export \subseteq Lists!Entry
  BY DEF Export, Lists!Entry, ConfigSource
<1>2. QED
  BY <1>1, ExportsAssumption, DiskAssumption, Lists!WiderSeq

\* What a path resolves to is a path.
LEMMA ResolvedType ==
  ASSUME NEW list \in Seq(Export), NEW query \in Seq(Char)
  PROVE  ResolveIn(list, query) \in Seq(Char)
BY ExportsAssumption, DiskAssumption, ExportsType, Lists!ResolvedType DEF ResolveIn

\* Any list the server can have is looked up as it should be.
LEMMA LongestFound ==
  ASSUME store \in Seq(Export)
  PROVE  Aliases!LookupLongest
BY ExportsAssumption, DiskAssumption, ExportsType, SameExports, Lists!LongestFound

-----------------------------------------------------------------------------
(* The values of the variables. *)

ServerType ==
  /\ session \in [Thread -> Call \cup {None}]
  /\ config_file \in Content
  /\ store \in Seq(Export)
  /\ quiet \in BOOLEAN

\* The variables of the server keep their types.
LEMMA ServerTypeKept ==
  ASSUME ServerType, [Next]_vars
  PROVE  ServerType'
<1>0. store \in Seq(Export) /\ config_file \in Content /\ session \in [Thread -> Call \cup {None}]
      /\ quiet \in BOOLEAN
  BY DEF ServerType
<1>1. Loaded(store) \in Seq(Export)
  BY <1>0, LoadedAgain
<1>2. ASSUME UNCHANGED <<store, session, config_file, quiet>>
      PROVE  ServerType'
  BY <1>2 DEF ServerType
<1>3. ASSUME NEW c \in Client, NEW q \in Query, MntKnown(c, q)
      PROVE  ServerType'
  BY <1>2, <1>3 DEF MntKnown
<1>4. ASSUME NEW t \in Thread, NEW c \in Client, NEW q \in Query, MntResolve(t, c, q)
      PROVE  ServerType'
  <2>1. Aliases!resolve(q) \in Seq(Char)
    BY <1>0, NameAssumption, ResolvedIn, ResolvedType
  <2>2. [client |-> c, query |-> q, path |-> Aliases!resolve(q)] \in Call
    BY <2>1 DEF Call
  <2>3. QED
    BY <1>0, <1>4, <2>2 DEF ServerType, MntResolve
<1>5. ASSUME NEW t \in Thread, MntFinish(t)
      PROVE  ServerType'
  BY <1>0, <1>5 DEF ServerType, MntFinish
<1>6. CASE Unmount
  BY <1>2, <1>6 DEF Unmount
<1>7. CASE ReadConfig
  BY <1>0, <1>1, <1>7 DEF ServerType, ReadConfig
<1>8. ASSUME NEW lines \in Content, EditConfig(lines)
      PROVE  ServerType'
  <2>1. quiet' = FALSE /\ config_file' = lines /\ UNCHANGED <<store, session>>
    BY <1>8 DEF EditConfig
  <2>2. QED
    BY <1>0, <2>1 DEF ServerType
<1>9. CASE Start
  BY <1>0, <1>1, <1>9 DEF ServerType, Start
<1>10. CASE StoreSnapshot
  BY <1>2, <1>10 DEF StoreSnapshot
<1>11. CASE StoreWrite
  BY <1>2, <1>11 DEF StoreWrite
<1>12. CASE Stop
  <2>1. store' = <<>> /\ session' = NoSession /\ UNCHANGED <<config_file, quiet>>
    BY <1>12 DEF Stop
  <2>2. <<>> \in Seq(Export) /\ NoSession \in [Thread -> Call \cup {None}]
    BY DEF NoSession
  <2>3. QED
    BY <1>0, <2>1, <2>2 DEF ServerType
<1>13. CASE DiskChange
  <2>1. quiet' = FALSE /\ UNCHANGED <<config_file, store, session>>
    BY <1>13 DEF DiskChange
  <2>2. QED
    BY <1>0, <2>1 DEF ServerType
<1>14. CASE UNCHANGED vars
  BY <1>2, <1>14 DEF vars
<1>15. QED
  BY <1>3, <1>4, <1>5, <1>6, <1>7, <1>8, <1>9, <1>10, <1>11, <1>12, <1>13, <1>14 DEF Next

\* They have them at first.
LEMMA ServerTypeInit ==
  ASSUME Init
  PROVE  ServerType
<1>1. <<>> \in Seq(Export) /\ NoSession \in [Thread -> Call \cup {None}]
  BY DEF NoSession
<1>2. QED
  BY <1>1 DEF Init, ServerType

\* They always have them.
LEMMA ServerTypeCorrect == Spec => []ServerType
<1>1. QED
  BY ServerTypeInit, ServerTypeKept, PTL DEF Spec

\* The type invariant of the table is that of MountCache.
LEMMA TableType == Facts!IInv => Cache!TypeOK
BY DEF Facts!IInv, Facts!TypeOK, Cache!TypeOK, Facts!Disks, Cache!Disks, Facts!Id, Cache!Id,
       Facts!Entry, Cache!Entry, Facts!Handle, Cache!Handle, Facts!End, Cache!End,
       Facts!IsImage, Cache!IsImage

\* The variables of the running program have values of their types, those of the table
\* and of the exports included.
THEOREM TypeCorrect == Spec => []TypeOK
<1>1. Facts!IInv /\ ServerType => TypeOK
  BY TableType DEF TypeOK, ServerType
<1>2. QED
  BY <1>1, TableInvariant, ServerTypeCorrect, PTL

\* Whatever the file and the disk were when the list was made, one scan with best_it and
\* best_length (mount_aliases.cpp:56-85) finds the newest of the longest aliases that
\* cover the query as whole folders.
THEOREM LookupsLongest == Spec => []Aliases!LookupLongest
<1>1. ServerType => Aliases!LookupLongest
  BY LongestFound DEF ServerType
<1>2. QED
  BY <1>1, ServerTypeCorrect, PTL

-----------------------------------------------------------------------------
(* While neither file nor disk changes. *)

\* What a query resolves to when the list is the one the file makes.
Named(query) == ResolveIn(ListOf(disk, config_file), query)

\* The location a query is named at, if the server may open it.
Leads(query, location) == Named(query) \in Path /\ Canonical[Named(query)] = location

\* A list of exports is the one the file makes.
AsFile(list) == list = ListOf(disk, config_file)

\* Calls that have not finished have found what the file names.
CallsNamed(calls) ==
  \A t \in Thread : calls[t] # None =>
    calls[t].query \in Query /\ calls[t].path = Named(calls[t].query)

\* Mounts are of the directories at their paths.
MountsStand(mounts) ==
  \A i \in DOMAIN mounts : mounts[i].filehandle.volume_file_id = disk[mounts[i].windows_path]

\* A table takes no query to another directory than the file does.
AnswersLead(mounts, queries) ==
  \A q \in Query : queries[q] # Cache!End => Leads(q, mounts[queries[q]].windows_path)

\* Neither does an image of a table.
ImageLeads(image) ==
  \A q \in Query : image.queries[q] \in DOMAIN image.paths => Leads(q, image.paths[image.queries[q]])

\* The answers of the table can only be those of the file if the list of exports, the
\* paths of calls that have not finished, the directories opened and what is saved are.
QuietParts ==
  /\ Cache!running => AsFile(store)
  /\ CallsNamed(session)
  /\ MountsStand(mount_map)
  /\ AnswersLead(mount_map, query_map)
  /\ ImageLeads(saved)
  /\ ImageLeads(snapshot)

QuietInv == quiet => QuietParts

\* The answers are those of the file.
LEMMA QuietPartsAnswer ==
  ASSUME QuietInv, Facts!IInv
  PROVE  QuietAnswers
<1> SUFFICES ASSUME quiet, Cache!running, NEW q \in Query, query_map[q] # Cache!End
             PROVE  /\ Cache!Opens(Aliases!resolve(q))
                    /\ mount_map[query_map[q]].filehandle.volume_file_id =
                         disk[Canonical[Aliases!resolve(q)]]
  BY DEF QuietAnswers, Opens, Cache!Opens
<1> DEFINE i == query_map[q]
<1>1. Aliases!resolve(q) = Named(q)
  BY ResolvedIn DEF QuietInv, QuietParts, Named, AsFile
<1>2. Leads(q, mount_map[i].windows_path)
  BY DEF QuietInv, QuietParts, AnswersLead
<1>3. i \in DOMAIN mount_map
  BY DEF Facts!IInv, Facts!LookupsLead, Facts!End, Cache!End
<1>4. mount_map[i].filehandle.volume_file_id = disk[mount_map[i].windows_path]
  BY <1>3 DEF QuietInv, QuietParts, MountsStand
<1>5. mount_map[i].filehandle.volume_file_id \in File
  <2>1. mount_map[i] \in Facts!Entry
    BY <1>3 DEF Facts!IInv, Facts!TypeOK
  <2>2. QED
    BY <2>1 DEF Facts!Entry, Facts!Handle
<1>6. QED
  BY <1>1, <1>2, <1>4, <1>5, DiskAssumption DEF Leads, Cache!Opens
\* While neither changes, what the file names stays.
LEMMA NamedStays ==
  ASSUME UNCHANGED <<disk, config_file>>
  PROVE  /\ ListOf(disk, config_file)' = ListOf(disk, config_file)
         /\ \A q \in Query : Named(q)' = Named(q)
BY DEF Named

\* Nothing is served before the first start.
LEMMA QuietInit ==
  ASSUME Init
  PROVE  QuietInv
<1>1. /\ phase = "off" /\ mount_map = Cache!NoMounts /\ query_map = Cache!NoQueries
      /\ saved = Cache!NoCache /\ snapshot = Cache!NoCache /\ session = NoSession
  BY DEF Init, Cache!Init
<1>2. ImageLeads(Cache!NoCache)
  BY DEF ImageLeads, Cache!NoCache, Cache!Image, Cache!NoMounts
<1>3. \A q \in Query : query_map[q] = Cache!End
  BY <1>1 DEF Cache!NoQueries
<1>4. QED
  BY <1>1, <1>2, <1>3 DEF QuietInv, QuietParts, Cache!running, Cache!NoMounts, NoSession,
       CallsNamed, MountsStand, AnswersLead

\* Entering a client in a mount changes neither its path nor its handle.
LEMMA SenderKeeps ==
  ASSUME NEW c, NEW mounts, NEW id \in DOMAIN mounts, mounts \in [DOMAIN mounts -> Cache!Entry],
         Cache!MountSender(c, id, mounts)
  PROVE  /\ DOMAIN mount_map' = DOMAIN mounts
         /\ \A i \in DOMAIN mounts :
              /\ mount_map'[i].filehandle = mounts[i].filehandle
              /\ mount_map'[i].windows_path = mounts[i].windows_path
<1>1. CASE mount_map' = mounts
  BY <1>1
<1>2. CASE mount_map' = [mounts EXCEPT ![id].clients = @ \cup {c}]
  <2>1. \A i \in DOMAIN mounts : mounts[i] \in Cache!Entry
    OBVIOUS
  <2>2. QED
    BY <1>2, <2>1 DEF Cache!Entry
<1>3. QED
  BY <1>1, <1>2 DEF Cache!MountSender

\* While neither changes, the parts of the next state may be read by what is there now.
LEMMA NextParts ==
  ASSUME UNCHANGED <<disk, config_file>>,
         Cache!running' => AsFile(store'),
         CallsNamed(session'),
         MountsStand(mount_map'),
         AnswersLead(mount_map', query_map'),
         ImageLeads(saved'),
         ImageLeads(snapshot')
  PROVE  QuietParts'
<1>1. /\ ListOf(disk, config_file)' = ListOf(disk, config_file)
      /\ \A q \in Query : Named(q)' = Named(q)
  BY NamedStays
<1>2. \A q \in Query : \A l : Leads(q, l) <=> Named(q)' \in Path /\ Canonical[Named(q)'] = l
  BY <1>1 DEF Leads
<1>3. (Cache!running => AsFile(store))'
  BY <1>1 DEF AsFile
<1>4. CallsNamed(session)'
  BY <1>1 DEF CallsNamed
<1>5. MountsStand(mount_map)'
  BY DEF MountsStand
<1>6. AnswersLead(mount_map, query_map)'
  BY <1>2 DEF AnswersLead, Leads, Cache!End
<1>7. ImageLeads(saved)' /\ ImageLeads(snapshot)'
  BY <1>2 DEF ImageLeads, Leads
<1>8. QED
  BY <1>3, <1>4, <1>5, <1>6, <1>7 DEF QuietParts

\* A table whose mounts are the same but for clients stands and leads as before.
LEMMA SameMounts ==
  ASSUME NEW mounts, NEW others, NEW queries,
         \A q \in Query : queries[q] # Cache!End => queries[q] \in DOMAIN mounts,
         DOMAIN others = DOMAIN mounts,
         \A i \in DOMAIN mounts :
           /\ others[i].filehandle = mounts[i].filehandle
           /\ others[i].windows_path = mounts[i].windows_path,
         MountsStand(mounts), AnswersLead(mounts, queries)
  PROVE  MountsStand(others) /\ AnswersLead(others, queries)
BY DEF MountsStand, AnswersLead

\* What of the table's invariant is needed here.
LEMMA TableFacts ==
  ASSUME Facts!IInv
  PROVE  /\ mount_map \in [DOMAIN mount_map -> Cache!Entry]
         /\ DOMAIN mount_map \subseteq 1 .. MaxId
         /\ query_map \in [Query -> 1 .. MaxId \cup {Cache!End}]
         /\ \A q \in Query : query_map[q] # Cache!End => query_map[q] \in DOMAIN mount_map
         /\ \A l \in Location : windows_map[l] # Cache!End =>
              windows_map[l] \in DOMAIN mount_map /\ mount_map[windows_map[l]].windows_path = l
         /\ saved.paths \in [DOMAIN saved.paths -> Location]
         /\ saved.queries \in [Query -> 1 .. MaxId \cup {Cache!End}]
         /\ DOMAIN saved.paths \subseteq 1 .. MaxId
         /\ next_mount \in 1 .. MaxId + 1
         /\ \A i \in DOMAIN mount_map : i < next_mount
BY DEF Facts!IInv, Facts!TypeOK, Facts!IsImage, Facts!LookupsLead, Facts!IdsSpent, Facts!Id,
       Facts!End, Cache!End, Facts!Entry, Cache!Entry, Facts!Handle, Cache!Handle, Cache!Id

\* A repeated MNT gives the answer of the first.
LEMMA KnownQueryQuiet ==
  ASSUME QuietParts, Facts!IInv, NEW c \in Client, NEW q \in Query, MntKnown(c, q)
  PROVE  QuietParts'
<1> DEFINE i == query_map[q]
<1>1. /\ Cache!running /\ i # Cache!End /\ Cache!MountSender(c, i, mount_map)
      /\ UNCHANGED <<disk, config_file, phase, query_map, saved, snapshot, session, store>>
  BY DEF MntKnown, Cache!MntKnownQuery, Cache!FindQuery, Cache!files
<1>2. i \in DOMAIN mount_map
  BY <1>1, TableFacts
<1> HIDE DEF i
<1>3. /\ DOMAIN mount_map' = DOMAIN mount_map
      /\ \A j \in DOMAIN mount_map :
           /\ mount_map'[j].filehandle = mount_map[j].filehandle
           /\ mount_map'[j].windows_path = mount_map[j].windows_path
  BY <1>1, <1>2, TableFacts, SenderKeeps
<1>4. MountsStand(mount_map') /\ AnswersLead(mount_map', query_map)
  BY <1>3, TableFacts, SameMounts DEF QuietParts
<1>5. QED
  BY <1>1, <1>4, NextParts DEF QuietParts, Cache!running

\* A call finds what the file names for its query.
LEMMA ResolveQuiet ==
  ASSUME QuietParts, NEW t \in Thread, NEW c \in Client, NEW q \in Query, MntResolve(t, c, q)
  PROVE  QuietParts'
<1> DEFINE call == [client |-> c, query |-> q, path |-> Aliases!resolve(q)]
<1>1. /\ Cache!running /\ session = NoSession /\ session' = [session EXCEPT ![t] = call]
      /\ UNCHANGED <<disk, config_file, phase, mount_map, query_map, saved, snapshot, store>>
  BY DEF MntResolve, Unlocked, table
<1>2. Aliases!resolve(q) = Named(q)
  BY <1>1, ResolvedIn DEF QuietParts, Named, AsFile
<1>3. call.query \in Query /\ call.path = Named(call.query)
  BY <1>2
<1> HIDE DEF call
<1>4. \A u \in Thread : session'[u] = None \/ session'[u] = call
  BY <1>1 DEF NoSession
<1>5. CallsNamed(session')
  BY <1>3, <1>4 DEF CallsNamed
<1>6. QED
  BY <1>1, <1>5, NextParts DEF QuietParts, Cache!running

\* The end of a call answers with a known mount of the directory it has found ...
LEMMA FinishKnownQuiet ==
  ASSUME QuietParts, Facts!IInv, NEW c \in Client, NEW q \in Query, NEW p,
         p = Named(q), CallsNamed(session'), UNCHANGED <<config_file, store>>,
         Cache!MountKnownPath(c, q, p)
  PROVE  QuietParts'
<1> DEFINE i == windows_map[p]
<1>1. /\ p \in Location /\ i # Cache!End /\ query_map' = [query_map EXCEPT ![q] = i]
      /\ Cache!MountSender(c, i, mount_map)
      /\ UNCHANGED <<disk, phase, saved, snapshot>>
  BY DEF Cache!MountKnownPath, Cache!FindWindows, Cache!files
<1>2. i \in DOMAIN mount_map /\ mount_map[i].windows_path = p
  BY <1>1, TableFacts
<1> HIDE DEF i
<1>3. Leads(q, p)
  BY <1>1, DiskAssumption DEF Leads
<1>4. /\ \A r \in Query : query_map'[r] # Cache!End => query_map'[r] \in DOMAIN mount_map
      /\ AnswersLead(mount_map, query_map')
  BY <1>1, <1>2, <1>3, TableFacts DEF QuietParts, AnswersLead
<1>5. /\ DOMAIN mount_map' = DOMAIN mount_map
      /\ \A j \in DOMAIN mount_map :
           /\ mount_map'[j].filehandle = mount_map[j].filehandle
           /\ mount_map'[j].windows_path = mount_map[j].windows_path
  BY <1>1, <1>2, TableFacts, SenderKeeps
<1>6. MountsStand(mount_map') /\ AnswersLead(mount_map', query_map')
  BY <1>4, <1>5, SameMounts DEF QuietParts
<1>7. QED
  BY <1>1, <1>6, NextParts DEF QuietParts, Cache!running

\* ... or with a new one, of what it finds there ...
LEMMA FinishNewQuiet ==
  ASSUME QuietParts, Facts!IInv, NEW c \in Client, NEW q \in Query, NEW p,
         p = Named(q), CallsNamed(session'), UNCHANGED <<config_file, store>>,
         Cache!MountNewPath(c, q, p)
  PROVE  QuietParts'
<1> DEFINE i == next_mount
           entry == Cache!NewEntry(i, p)
           mounts == Cache!Insert(i, entry)
<1>1. /\ i \in 1 .. MaxId /\ p \in Path /\ disk[Canonical[p]] # NoFile
      /\ query_map' = [query_map EXCEPT ![q] = i]
      /\ Cache!MountSender(c, i, mounts)
      /\ UNCHANGED <<disk, phase, saved, snapshot>>
  BY TableFacts, NameAssumption DEF Cache!MountNewPath, Cache!Opens, Cache!files
<1>2. entry \in Cache!Entry
  <2>1. disk[Canonical[p]] \in File
    BY <1>1, DiskAssumption DEF Facts!IInv, Facts!TypeOK, Facts!Disks
  <2>2. QED
    BY <1>1, <2>1, DiskAssumption DEF Cache!NewEntry, Cache!Entry, Cache!Handle, Cache!Id
<1>3. /\ entry.windows_path = Canonical[p]
      /\ entry.filehandle.volume_file_id = disk[Canonical[p]]
  BY DEF Cache!NewEntry
<1> HIDE DEF entry
<1>4. /\ DOMAIN mounts = DOMAIN mount_map \cup {i}
      /\ mounts[i] = entry
      /\ \A j \in DOMAIN mount_map : j # i /\ mounts[j] = mount_map[j]
  BY <1>1, TableFacts DEF Cache!Insert
<1>5. mounts \in [DOMAIN mounts -> Cache!Entry]
  BY <1>2, <1>4, TableFacts DEF Cache!Insert
<1> HIDE DEF mounts, i
<1>6. Leads(q, Canonical[p])
  BY <1>1 DEF Leads
<1>7. MountsStand(mounts)
  BY <1>3, <1>4 DEF QuietParts, MountsStand
<1>8. /\ \A r \in Query : query_map'[r] # Cache!End => query_map'[r] \in DOMAIN mounts
      /\ AnswersLead(mounts, query_map')
  <2>1. \A r \in Query : query_map'[r] = IF r = q THEN i ELSE query_map[r]
    BY <1>1, TableFacts
  <2>2. QED
    BY <1>3, <1>4, <1>6, <2>1, TableFacts DEF QuietParts, AnswersLead
<1>9. /\ DOMAIN mount_map' = DOMAIN mounts
      /\ \A j \in DOMAIN mounts :
           /\ mount_map'[j].filehandle = mounts[j].filehandle
           /\ mount_map'[j].windows_path = mounts[j].windows_path
  BY <1>1, <1>4, <1>5, SenderKeeps
<1>10. MountsStand(mount_map') /\ AnswersLead(mount_map', query_map')
  BY <1>7, <1>8, <1>9, SameMounts
<1>11. QED
  BY <1>1, <1>10, NextParts DEF QuietParts, Cache!running

\* ... or with none.
LEMMA FinishQuiet ==
  ASSUME QuietParts, SessionInv, Facts!IInv, NEW t \in Thread, MntFinish(t)
  PROVE  QuietParts'
<1> DEFINE c == session[t].client
           q == session[t].query
           p == session[t].path
<1>1. c \in Client /\ q \in Query /\ p = Named(q)
  BY DEF MntFinish, SessionInv, QuietParts, CallsNamed
<1>2. CallsNamed(session')
  <2>1. \A u \in Thread : session'[u] = None \/ session'[u] = session[u]
    BY DEF MntFinish, SessionInv
  <2>2. QED
    BY <2>1 DEF QuietParts, CallsNamed
<1>3. /\ UNCHANGED <<store, config_file>>
      /\ \/ Cache!MountKnownPath(c, q, p)
         \/ Cache!MountNewPath(c, q, p)
         \/ Cache!MountNoEntry(p)
  BY DEF MntFinish
<1> HIDE DEF c, q, p
<1>4. CASE Cache!MountNoEntry(p)
  <2>1. UNCHANGED <<disk, phase, mount_map, query_map, saved, snapshot>>
    BY <1>4 DEF Cache!MountNoEntry, Cache!files
  <2>2. QED
    BY <1>2, <1>3, <2>1, NextParts DEF QuietParts, Cache!running
<1>5. QED
  BY <1>1, <1>2, <1>3, <1>4, FinishKnownQuiet, FinishNewQuiet

\* A new process reopens what the file of the last one names.
LEMMA StartQuiet ==
  ASSUME QuietParts, ServerType, Facts!IInv, Start
  PROVE  QuietParts'
<1> DEFINE live == {i \in DOMAIN saved.paths : Cache!Opens(saved.paths[i])}
           clients(i) == {c \in Client : i \in saved.clients[c]}
<1>1. /\ mount_map' = [i \in live |->
           [Cache!NewEntry(i, saved.paths[i]) EXCEPT !.clients = clients(i)]]
      /\ query_map' = [q \in Query |->
           IF saved.queries[q] \in live THEN saved.queries[q] ELSE Cache!End]
      /\ store' = Loaded(store)
      /\ UNCHANGED <<disk, config_file, saved, snapshot, session>>
  BY DEF Start, Cache!Restore, Cache!files
<1>2. \A i \in live : saved.paths[i] \in Location /\ Canonical[saved.paths[i]] = saved.paths[i]
  BY TableFacts, DiskAssumption
<1>3. \A i \in live :
        /\ mount_map'[i].filehandle.volume_file_id = disk[saved.paths[i]]
        /\ mount_map'[i].windows_path = saved.paths[i]
  BY <1>1, <1>2 DEF Cache!NewEntry
<1>4. DOMAIN mount_map' = live /\ live \subseteq DOMAIN saved.paths
  BY <1>1
<1>5. \A q \in Query : query_map'[q] # Cache!End => query_map'[q] = saved.queries[q] /\ query_map'[q] \in live
  BY <1>1
<1> HIDE DEF live
<1>6. MountsStand(mount_map')
  BY <1>3, <1>4 DEF MountsStand
<1>7. AnswersLead(mount_map', query_map')
  BY <1>3, <1>4, <1>5 DEF AnswersLead, QuietParts, ImageLeads
<1>8. AsFile(store')
  BY <1>1, LoadedAgain DEF AsFile, ServerType
<1>9. QED
  BY <1>1, <1>6, <1>7, <1>8, NextParts DEF QuietParts

\* The image of the table that is saved leads where the table does.
LEMMA SnapshotQuiet ==
  ASSUME QuietParts, Facts!IInv, StoreSnapshot
  PROVE  QuietParts'
<1>1. /\ snapshot' = Cache!Image(mount_map, query_map, client_mounts)
      /\ saved' = Cache!NoCache /\ Cache!running
      /\ UNCHANGED <<disk, config_file, mount_map, query_map, session, store>>
  BY DEF StoreSnapshot, Cache!StoreSnapshot, Cache!tables, Cache!running
<1>2. ImageLeads(saved')
  BY <1>1 DEF ImageLeads, Cache!NoCache, Cache!Image, Cache!NoMounts
<1>3. ImageLeads(snapshot')
  <2>1. /\ snapshot'.queries = query_map /\ DOMAIN snapshot'.paths = DOMAIN mount_map
        /\ \A i \in DOMAIN mount_map : snapshot'.paths[i] = mount_map[i].windows_path
    BY <1>1 DEF Cache!Image
  <2>2. \A i \in DOMAIN mount_map : i # Cache!End
    BY TableFacts, NameAssumption DEF Cache!End
  <2>3. QED
    BY <2>1, <2>2 DEF QuietParts, AnswersLead, ImageLeads
<1>4. QED
  BY <1>1, <1>2, <1>3, NextParts DEF QuietParts

\* The end of a process forgets the table and what it was about to save.
LEMMA StopQuiet ==
  ASSUME QuietParts, Stop
  PROVE  QuietParts'
<1>1. /\ mount_map' = Cache!NoMounts /\ query_map' = Cache!NoQueries /\ phase' = "off"
      /\ snapshot' = Cache!NoCache /\ session' = NoSession
      /\ UNCHANGED <<disk, config_file, saved>>
  BY DEF Stop, Cache!Stop
<1>2. ImageLeads(snapshot')
  BY <1>1 DEF ImageLeads, Cache!NoCache, Cache!Image, Cache!NoMounts
<1>3. CallsNamed(session')
  BY <1>1 DEF CallsNamed, NoSession
<1>4. MountsStand(mount_map') /\ AnswersLead(mount_map', query_map')
  BY <1>1 DEF MountsStand, AnswersLead, Cache!NoMounts, Cache!NoQueries
<1>5. QED
  BY <1>1, <1>2, <1>3, <1>4, NextParts DEF QuietParts, Cache!running

\* Every step keeps the parts or ends the quiet.
LEMMA QuietKept ==
  ASSUME QuietInv, SessionInv, ServerType, Facts!IInv, [Next]_vars
  PROVE  QuietInv'
<1>1. CASE ~quiet'
  BY <1>1 DEF QuietInv
<1>2. ASSUME quiet' = quiet, UNCHANGED <<disk, config_file, phase, mount_map, query_map, saved,
                                          snapshot, session>>,
             QuietParts, store' = store \/ AsFile(store')
      PROVE  QuietParts'
  BY <1>2, NextParts DEF QuietParts, Cache!running, AsFile
<1> SUFFICES ASSUME quiet' PROVE QuietParts'
  BY DEF QuietInv
<1>3. ASSUME quiet, NEW c \in Client, NEW q \in Query, MntKnown(c, q)
      PROVE  QuietParts'
  BY <1>3, KnownQueryQuiet DEF QuietInv
<1>4. ASSUME quiet, NEW t \in Thread, NEW c \in Client, NEW q \in Query, MntResolve(t, c, q)
      PROVE  QuietParts'
  BY <1>4, ResolveQuiet DEF QuietInv
<1>5. ASSUME quiet, NEW t \in Thread, MntFinish(t)
      PROVE  QuietParts'
  BY <1>5, FinishQuiet DEF QuietInv
<1>6. ASSUME quiet, Unmount
      PROVE  QuietParts'
  BY <1>2, <1>6 DEF QuietInv, Unmount, Cache!Unmount, Cache!vars, Cache!tables, Cache!files
<1>7. ASSUME quiet, ReadConfig
      PROVE  QuietParts'
  <2>1. AsFile(store')
    BY <1>7, LoadedAgain DEF ReadConfig, AsFile, ServerType
  <2>2. QED
    BY <1>2, <1>7, <2>1 DEF QuietInv, ReadConfig, table
<1>8. ASSUME NEW lines \in Content, EditConfig(lines)
      PROVE  ~quiet'
  BY <1>8 DEF EditConfig
<1>9. ASSUME quiet, Start
      PROVE  QuietParts'
  BY <1>9, StartQuiet DEF QuietInv
<1>10. ASSUME quiet, StoreSnapshot
      PROVE  QuietParts'
  BY <1>10, SnapshotQuiet DEF QuietInv
<1>11. ASSUME quiet, StoreWrite
      PROVE  QuietParts'
  <2>1. /\ saved' = snapshot /\ Cache!running
        /\ UNCHANGED <<disk, config_file, mount_map, query_map, snapshot, session, store>>
    BY <1>11 DEF StoreWrite, Cache!StoreWrite, Cache!tables, Cache!running
  <2>2. QED
    BY <1>11, <2>1, NextParts DEF QuietInv, QuietParts
<1>12. ASSUME quiet, Stop
      PROVE  QuietParts'
  BY <1>12, StopQuiet DEF QuietInv
<1>13. CASE DiskChange
  BY <1>13 DEF DiskChange
<1>14. ASSUME quiet, UNCHANGED vars
      PROVE  QuietParts'
  BY <1>2, <1>14 DEF QuietInv, vars, table
<1>15. quiet' /\ (\A lines \in Content : ~EditConfig(lines)) /\ ~DiskChange => quiet
  BY DEF Next, vars, MntKnown, MntResolve, MntFinish, Unmount, ReadConfig, Start, StoreSnapshot,
         StoreWrite, Stop
<1>16. QED
  BY <1>3, <1>4, <1>5, <1>6, <1>7, <1>8, <1>9, <1>10, <1>11, <1>12, <1>13, <1>14, <1>15 DEF Next

\* While neither file nor disk changes, every answer is the directory the file names for
\* the query: one found by query or by path, one of a call that resolved before others
\* mounted, one a later process restored (mount.cpp:38-68, mount_cache.cpp:11-73).
THEOREM QuietCorrect == Spec => []QuietAnswers
<1>1. Init => QuietInv /\ SessionInv
  BY QuietInit, SessionInit
<1>2. /\ QuietInv /\ SessionInv /\ ServerType /\ Facts!IInv /\ [Next]_vars =>
           QuietInv' /\ SessionInv'
  BY QuietKept, SessionKept
<1>3. QuietInv /\ Facts!IInv => QuietAnswers
  BY QuietPartsAnswer
<1>4. QED
  BY <1>1, <1>2, <1>3, TableInvariant, ServerTypeCorrect, PTL DEF Spec

\* The threads, the exports and the table together keep what MountTable promises: a stable
\* handle per query, ids of their own for all handles, no registration lost while the
\* process runs (rpc_program::mount and what it calls).
THEOREM ServiceImplemented == Spec => Facts!ImplementsTable
<1>1. Cache!Spec => Facts!Spec
  BY SameTable, PTL DEF Cache!Spec, Facts!Spec
<1>2. Facts!Spec => Facts!ImplementsTable
  BY NameAssumption, DiskAssumption, Facts!TableImplemented
<1>3. QED
  BY <1>1, <1>2, CacheImplemented DEF ImplementsCache

-----------------------------------------------------------------------------
(* The path file and its syncer. *)

\* What a thread has read and is about to set is the file as it is, as long as no notification
\* is due; with UpToDate it is inductive.
ReadUpToDate ==
  \A t \in Threads : At(t, "set") /\ request \in {"idle", "pending"} /\ ~missed => got[t] = file

\* When the main thread has gone on, the waiting thread has its part.
Quiescent == main \in {"construct", "read", "set", "start"} => watcher = "none"

SyncInv == SyncTypeOK /\ UpToDate /\ ReadUpToDate /\ Quiescent

USE ConfigSyncAssumption DEF Threads, Request

\* The initial states have the invariant (cli.h:33-37).
LEMMA SyncInitInv == SyncInit => SyncInv
<1> SUFFICES ASSUME SyncInit PROVE SyncInv
  OBVIOUS
<1>1. got \in [Threads -> Text \cup {Unread}] /\ \A t \in Threads : got[t] = Unread
  BY DEF SyncInit
<1>2. \A t \in Threads : ~At(t, "set")
  BY DEF SyncInit, At
<1>3. request = "none" /\ main = "construct" /\ watcher = "none"
  BY DEF SyncInit
<1>4. continue_waiting \in BOOLEAN /\ missed \in BOOLEAN
  BY ZenonT(20) DEF SyncInit
<1>5. file \in Text /\ edits \in 0 .. MaxEdits /\ exports \in Text \cup {Unread}
  BY DEF SyncInit
<1>6. SyncTypeOK
  BY <1>1, <1>2, <1>3, <1>4, <1>5 DEF SyncTypeOK
<1> QED
  BY <1>2, <1>3, <1>6 DEF SyncInv, UpToDate, ReadUpToDate, Quiescent

\* Each step keeps it: a change makes a notification due or finds one due already, and a
\* thread that answers one reads the file after the notification.
LEMMA SyncNextInv == SyncInv /\ [SyncNext]_sync_vars => SyncInv'
<1> SUFFICES ASSUME SyncInv, [SyncNext]_sync_vars PROVE SyncInv'
  OBVIOUS
<1> USE DEF SyncInv, SyncTypeOK, UpToDate, ReadUpToDate, Quiescent, At
<1>1. ASSUME NEW content \in Text, Edit(content) PROVE SyncInv'
  BY <1>1 DEF Edit, Changed, thread
<1>2. CASE Construct
  BY <1>2 DEF Construct, Arm
<1>3. ASSUME NEW t \in Threads, Read(t) PROVE SyncInv'
  BY <1>3 DEF Read, Goto
<1>4. ASSUME NEW t \in Threads, Set(t) PROVE SyncInv'
  BY <1>4 DEF Set, Goto
<1>5. CASE start_watching
  BY <1>5 DEF start_watching
<1>6. CASE Quit
  BY <1>6 DEF Quit
<1>7. CASE EndWatching
  BY <1>7 DEF EndWatching, Told
<1>8. CASE Get
  BY <1>8 DEF Get, Waited
<1>9. CASE Ask
  BY <1>9 DEF Ask, FindNext
<1>10. CASE Fail
  BY <1>10 DEF Fail
<1>11. CASE Notified
  BY <1>11 DEF Notified
<1>12. CASE TimeOut
  BY <1>12 DEF TimeOut
<1>13. CASE UNCHANGED sync_vars
  BY <1>13 DEF sync_vars, thread
<1> QED
  BY <1>1, <1>2, <1>3, <1>4, <1>5, <1>6, <1>7, <1>8, <1>9, <1>10, <1>11, <1>12, <1>13
  DEF SyncNext, MainRuns, WatcherRuns

\* Types, one reader at a time, and a handle that is closed when nobody uses it any more
\* (file_change_notifier.h:16, file_change_notifier.cpp:34-43).
THEOREM SyncTypeCorrect == SyncSpec => []SyncTypeOK
<1>1. SyncInv => SyncTypeOK
  BY DEF SyncInv
<1> QED
  BY <1>1, SyncInitInv, SyncNextInv, PTL DEF SyncSpec

\* While no notification is due the exports are those of the file, whatever the order of
\* saves, reads and requests (cli.h:36-40, file_change_notifier.cpp:79-97).
THEOREM ExportsUpToDate == SyncSpec => []UpToDate
<1>1. SyncInv => UpToDate
  BY DEF SyncInv
<1> QED
  BY <1>1, SyncInitInv, SyncNextInv, PTL DEF SyncSpec

=============================================================================
