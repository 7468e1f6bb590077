---------------------------- MODULE MountAliases ----------------------------
(***************************************************************************)
(* The exported directories (src/src/nfs/mount_aliases.h and .cpp): a list *)
(* of entries, each from a source (a configuration file), that gives a     *)
(* Windows directory the path by which clients ask for it.                 *)
(*                                                                         *)
(* A source replaces all its entries at once under the unique lock, and a  *)
(* lookup holds the shared lock, so set and resolve are single steps.      *)
(* Alias paths and Windows paths are sequences of characters, because the  *)
(* lookup is about where a prefix ends; an alias path keeps its leading /. *)
(***************************************************************************)
EXTENDS Disk, Sequences, SequencesExt

CONSTANTS
  Content,    \* alias vectors to set: sequences of <<windows path, alias path>>
  Extra,      \* single such pairs to add
  Query,      \* alias paths to look up
  Char,       \* the characters of paths
  MaxSource,  \* bound: sources in use are 1 .. MaxSource
  MaxEntries  \* bound on the entries of the list when one is added

NoAlias == <<>>

\* The pairs and the aliases set and add are called with.
Pair == (UNION {Range(lines) : lines \in Content}) \cup Extra
Given == {pair[2] : pair \in Pair}

\* Both assert of an alias that is given that check_alias_path takes it.
ASSUME AliasesAssumption ==
  /\ MaxSource \in Nat /\ MaxEntries \in Nat
  /\ {"/", "\\"} \subseteq Char
  /\ Path \subseteq Seq(Char) /\ NoPath \in Seq(Char) /\ Query \subseteq Seq(Char)
  /\ Content \subseteq Seq(Seq(Char) \X Seq(Char)) /\ Extra \subseteq Seq(Char) \X Seq(Char)
  /\ \A alias \in Given : alias # NoAlias => alias[1] = "/"

VARIABLES
  store,        \* store_m
  next_source   \* next_source_m

vars == <<disk, store, next_source>>

Source == 1 .. MaxSource

-----------------------------------------------------------------------------
(* Between alias paths and Windows paths *)

ReplaceChar(s, old, new) == [i \in DOMAIN s |-> IF s[i] = old THEN new ELSE s[i]]

alias_subpath_to_windows(alias) == ReplaceChar(alias, "/", "\\")

\* The prefix \\?\ goes, \ becomes /, C: becomes /C, and the result starts with
\* a / and does not end with one.
windows_to_alias_path(w) ==
  LET prefix == <<"\\", "\\", "?", "\\">>
      plain  == IF IsPrefix(prefix, w) THEN SubSeq(w, 5, Len(w)) ELSE w
      s      == ReplaceChar(plain, "\\", "/")
      rooted == IF Len(s) >= 2 /\ s[2] = ":" THEN <<"/", s[1]>> \o SubSeq(s, 3, Len(s))
                ELSE IF Len(s) >= 1 /\ s[1] # "/" THEN <<"/">> \o s
                ELSE s
  IN SubSeq(rooted, 1, SelectLastInSeq(rooted, LAMBDA ch : ch # "/"))

-----------------------------------------------------------------------------
(* Lookup *)

\* Mutant of Matches: an alias may end within a name of the query.
MatchesInside(e, query, n) ==
  LET len == Len(e.alias_path)
  IN /\ len <= Len(query)
     /\ len >= n
     /\ SubSeq(query, 1, len) = e.alias_path

\* Does the loop of by_alias_path_safe take entry e, best_length being n so far?
Matches(e, query, n) ==
  LET len == Len(e.alias_path)
  IN /\ len <= Len(query)
     /\ len >= n
     /\ SubSeq(query, 1, len) = e.alias_path
     /\ len = Len(query) \/ query[len + 1] = "/"

\* The scan over the entries: best_it (0 is the end) and best_length after each.
Scan(query) ==
  FoldLeft(
    LAMBDA best, x :
      IF Matches(x.entry, query, best.length)
      THEN [it |-> x.it, length |-> Len(x.entry.alias_path)]
      ELSE best,
    [it |-> 0, length |-> 0],
    [i \in DOMAIN store |-> [it |-> i, entry |-> store[i]]])

resolve(query) ==
  LET best == Scan(query)
  IN IF best.it = 0 THEN NoPath
     ELSE store[best.it].windows_path \o
          alias_subpath_to_windows(SubSeq(query, best.length + 1, Len(query)))

-----------------------------------------------------------------------------
(* Changes *)

\* Mutant of AddSafe: the path as listed is stored, not fullpath().
AddSafeAsListed(s, source, w, alias) ==
  IF (\E i \in DOMAIN s : s[i].alias_path = alias) \/ ~Opens(w) THEN s
  ELSE Append(s,
         [source       |-> source,
          alias_path   |-> IF alias = NoAlias THEN windows_to_alias_path(w) ELSE alias,
          windows_path |-> w])

\* add_safe, on the list s: an empty alias asks for one made from the path.
AddSafe(s, source, w, alias) ==
  IF (\E i \in DOMAIN s : s[i].alias_path = alias) \/ ~Opens(w) THEN s
  ELSE Append(s,
         [source       |-> source,
          alias_path   |-> IF alias = NoAlias THEN windows_to_alias_path(w) ELSE alias,
          windows_path |-> Canonical[w]])

OfSource(s, source) ==
  FoldLeft(LAMBDA kept, e : IF e.source = source THEN Append(kept, e) ELSE kept, <<>>, s)

\* Mutant of OfOthers: set drops the entries of every source.
OfOthersNone(s, source) == <<>>

\* What the erasing loop of set leaves of list s.
OfOthers(s, source) ==
  FoldLeft(LAMBDA kept, e : IF e.source # source THEN Append(kept, e) ELSE kept, <<>>, s)

CreateSource ==
  /\ next_source <= MaxSource
  /\ next_source' = next_source + 1
  /\ UNCHANGED <<disk, store>>

\* set_aliases_safe, on the list s; clear sets an empty list.
SetSafe(s, source, lines) ==
  FoldLeft(LAMBDA t, line : AddSafe(t, source, line[1], line[2]), OfOthers(s, source), lines)

Set(source, lines) ==
  /\ source < next_source
  /\ store' = SetSafe(store, source, lines)
  /\ UNCHANGED <<disk, next_source>>

Add(source, line) ==
  /\ source < next_source
  /\ Len(store) < MaxEntries
  /\ store' = AddSafe(store, source, line[1], line[2])
  /\ UNCHANGED <<disk, next_source>>

Init ==
  /\ disk \in Disks
  /\ store = <<>>
  /\ next_source = 1

Next ==
  \/ CreateSource
  \/ \E source \in Source, lines \in Content : Set(source, lines)
  \/ \E source \in Source, line \in Extra : Add(source, line)
  \/ DiskStep /\ UNCHANGED <<store, next_source>>

Spec == Init /\ [][Next]_vars

-----------------------------------------------------------------------------
(* Properties *)

Alias == Given \cup {windows_to_alias_path(w) : w \in Path}

\* The list holds entries of sources made so far, for normalised paths.  What check_alias_path
\* asserts of the aliases given to set and add holds of those made from paths, which do not
\* end with a slash either (mount_aliases.cpp:18-53).
TypeOK ==
  /\ disk \in Disks
  /\ store \in Seq([source : Source, alias_path : Alias, windows_path : Location])
  /\ next_source \in 1 .. MaxSource + 1
  /\ \A i \in DOMAIN store :
       LET alias == store[i].alias_path
       IN /\ store[i].source < next_source
          /\ alias # NoAlias => alias[1] = "/" /\ (Last(alias) = "/" => alias \in Given)

\* The entries whose alias is the query or a folder above it.
Covering(query) ==
  {i \in DOMAIN store : IsPrefix(store[i].alias_path \o <<"/">>, query \o <<"/">>)}

\* The entry that ought to answer: of the longest covering alias, the newest.
Best(query) ==
  CHOOSE i \in Covering(query) : \A j \in Covering(query) :
    LET n == Len(store[i].alias_path)
        m == Len(store[j].alias_path)
    IN m < n \/ (m = n /\ j <= i)

\* One scan with best_it and best_length finds the entry of the longest alias that
\* covers the query as whole folders, and the result is the query below it.
LookupLongest ==
  \A query \in Query :
    IF Covering(query) = {} THEN resolve(query) = NoPath
    ELSE LET e == store[Best(query)]
         IN resolve(query) =
              e.windows_path \o
              ReplaceChar(SubSeq(query, Len(e.alias_path) + 1, Len(query)), "/", "\\")

\* One source's file never disturbs the exports of another: a step changes the
\* entries of one source at most, and sources have ids of their own.
SourcesApart ==
  [][\A s, t \in Source : s # t =>
       OfSource(store', s) = OfSource(store, s) \/ OfSource(store', t) = OfSource(store, t)]_vars

=============================================================================
