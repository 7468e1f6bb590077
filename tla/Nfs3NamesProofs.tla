---------------------------- MODULE Nfs3NamesProofs ----------------------------
(***************************************************************************)
(* Types of Nfs3Names, that what ACCESS does not grant is not done, where  *)
(* calls act and that they tell what they did, for any tree of names, any  *)
(* set of calls and any number of threads.                                 *)
(***************************************************************************)
EXTENDS Nfs3Names, TLAPS

\* Where a call has its directory open, and where a RENAME has the second.
Opened(t) == pc[t] \in {"path", "toopen", "topath", "act", "reopen"}
OpenedTo(t) == pc[t] = "topath" \/ (pc[t] = "act" /\ call[t].proc = "RENAME")

\* Directories that are open for a change, or have been, are not protected.
Unprotected ==
  \A t \in Thread :
    /\ acted[t] => pc[t] \in {"done", "reopen"} /\ call[t].proc # "LOOKUP"
    /\ Opened(t) \/ acted[t] => call[t].proc = "LOOKUP" \/ ~Protected(call[t].dir)
    /\ OpenedTo(t) \/ (acted[t] /\ call[t].proc = "RENAME") => ~Protected(call[t].todir)

\* The paths asked for so far: only RENAME asks for a second.
PathsAsked ==
  \A t \in Thread :
    /\ pc[t] \in {"open", "path"} => paths[t] = <<>>
    /\ pc[t] \in {"toopen", "topath"} =>
         call[t].proc = "RENAME" /\ \E p : paths[t] = <<p>>
    /\ pc[t] = "act" => Len(paths[t]) = (IF call[t].proc = "RENAME" THEN 2 ELSE 1)

\* The arguments of a call that has begun.
Begun == \A t \in Thread : pc[t] # "idle" => call[t] \in Calls

\* The types that do not follow from the parts above.
Typed ==
  /\ DOMAIN place \subseteq Object \ {Root} /\ place \in [DOMAIN place -> Place]
  /\ gone \subseteq Object \ Live
  /\ call \in [Thread -> Calls \cup {None}]
  /\ pc \in [Thread -> {"idle", "open", "path", "toopen", "topath", "act", "reopen", "done"}]
  /\ DOMAIN paths = Thread
  /\ made \in [Thread -> Object \cup {None}]
  /\ acted \in [Thread -> BOOLEAN] /\ where \in [Thread -> Seq(Directory)]
  /\ stale \in [Thread -> BOOLEAN] /\ unnamed \in [Thread -> SUBSET Object]
  /\ begun \in 0 .. MaxCalls

IInv == Typed /\ Begun /\ PathsAsked /\ Unprotected

USE NamesAssumption

\* No call has begun at the start.
LEMMA InitIInv == Init => IInv
<1> SUFFICES ASSUME Init PROVE IInv
  OBVIOUS
<1>1. Typed
  BY DEF Init, Typed, Live, Object
<1>2. Begun /\ PathsAsked /\ Unprotected
  BY DEF Init, Begun, PathsAsked, Unprotected, Opened, OpenedTo
<1> QED
  BY <1>1, <1>2 DEF IInv

\* A call that has begun changes the tree only in directories of the right kind.
LEMMA BegunCall ==
  ASSUME IInv, NEW t \in Thread, pc[t] # "idle"
  PROVE  /\ call[t] \in Calls /\ call[t] \in Call
         /\ call[t].dir \in Object /\ (call[t].proc = "RENAME" => call[t].todir \in Object)
         /\ call[t].proc = "CREATE" \/ call[t].proc = "MKDIR" => call[t].name \in Name
         /\ call[t].proc = "RENAME" => call[t].toname \in Name
BY DEF IInv, Begun, Call

\* A new call has asked for nothing and done nothing.
LEMMA BeginKeeps ==
  ASSUME IInv, NEW t \in Thread, NEW c \in Calls, Begin(t, c)
  PROVE  IInv'
<1> USE DEF Begin, Goto, tree
<1>1. Typed'
  BY DEF IInv, Typed, Live
<1>2. Begun' /\ PathsAsked'
  BY DEF IInv, Typed, Begun, PathsAsked
<1>3. Unprotected'
  BY DEF IInv, Typed, Unprotected, Opened, OpenedTo
<1> QED
  BY <1>1, <1>2, <1>3 DEF IInv

\* A call that is over, whatever its result, keeps what it has done.
LEMMA FinishKeeps ==
  ASSUME IInv, NEW t \in Thread, pc[t] # "idle", NEW result, Finish(t, result),
         UNCHANGED <<tree, call, paths, made, begun, stale, where, unnamed, acted>>
  PROVE  IInv'
<1> USE DEF Finish, Goto, tree
<1>1. Typed'
  BY DEF IInv, Typed, Live
<1>2. Begun' /\ PathsAsked'
  BY DEF IInv, Typed, Begun, PathsAsked
<1>3. Unprotected'
  BY DEF IInv, Typed, Unprotected, Opened, OpenedTo
<1> QED
  BY <1>1, <1>2, <1>3 DEF IInv

\* A directory that passes the checks of a call that changes it is not protected.
LEMMA OpenKeeps ==
  ASSUME IInv, NEW t \in Thread, Open(t)
  PROVE  IInv'
<1> USE DEF Open, Goto, tree, history
<1>1. call[t].proc = "LOOKUP" \/ ~Protected(Here(t))
  BY DEF Checked
<1>2. Typed'
  BY DEF IInv, Typed, Live
<1>3. Begun' /\ PathsAsked'
  BY DEF IInv, Typed, Begun, PathsAsked
<1>4. Unprotected'
  BY <1>1 DEF IInv, Typed, PathsAsked, Unprotected, Opened, OpenedTo, Here
<1> QED
  BY <1>2, <1>3, <1>4 DEF IInv

\* Sequences of one path and of two.
LEMMA AppendOne == ASSUME NEW q PROVE Append(<<>>, q) = <<q>>
<1>1. <<>> \in Seq({q})
  OBVIOUS
<1> QED
  BY <1>1

LEMMA AppendTwo == ASSUME NEW p, NEW q PROVE Len(Append(<<p>>, q)) = 2
<1>1. <<p>> \in Seq({p, q}) /\ Len(<<p>>) = 1
  OBVIOUS
<1> QED
  BY <1>1

\* The path of the open directory is added to the paths.
LEMMA AskPathKeeps ==
  ASSUME IInv, NEW t \in Thread, AskPath(t)
  PROVE  IInv'
<1> USE DEF AskPath, AfterPath, Goto, tree, history
<1>0. PICK q \in {PathTo(Here(t)), <<>>} :
        /\ paths' = [paths EXCEPT ![t] = Append(paths[t], q)]
        /\ unnamed' = [unnamed EXCEPT ![t] =
             IF q = PathTo(Here(t)) THEN unnamed[t] ELSE unnamed[t] \cup {Here(t)}]
  BY DEF fullpath
<1>1. Typed'
  <2>1. Here(t) \in Object
    BY BegunCall DEF Here, IInv, PathsAsked
  <2>2. unnamed' \in [Thread -> SUBSET Object]
    BY <1>0, <2>1 DEF IInv, Typed
  <2>3. DOMAIN paths' = Thread
    BY <1>0 DEF IInv, Typed
  <2> QED
    BY <2>2, <2>3 DEF IInv, Typed, Live
<1>2. Begun'
  BY DEF IInv, Typed, Begun
<1>3. PathsAsked'
  <2>1. paths' = [paths EXCEPT ![t] = Append(paths[t], q)]
    BY <1>0
  <2>2. ASSUME NEW u \in Thread, u # t
        PROVE  pc'[u] = pc[u] /\ paths'[u] = paths[u] /\ call'[u] = call[u]
    BY <2>1, <2>2 DEF IInv, Typed
  <2>3. CASE pc[t] = "path"
    <3>1. paths'[t] = <<q>>
      BY <2>1, <2>3, AppendOne DEF IInv, Typed, PathsAsked
    <3>2. Len(paths'[t]) = 1 /\ \E p : paths'[t] = <<p>>
      BY <3>1
    <3>3. pc'[t] = (IF call[t].proc = "RENAME" THEN "toopen" ELSE "act") /\ call' = call
      BY <2>3 DEF IInv, Typed
    <3>4. ASSUME NEW u \in Thread
          PROVE  /\ pc'[u] \in {"open", "path"} => paths'[u] = <<>>
                 /\ pc'[u] \in {"toopen", "topath"} => call'[u].proc = "RENAME" /\ \E p : paths'[u] = <<p>>
                 /\ pc'[u] = "act" => Len(paths'[u]) = (IF call'[u].proc = "RENAME" THEN 2 ELSE 1)
      <4>1. CASE u = t
        <5>1. CASE call[t].proc = "RENAME"
          <6>1. pc'[u] = "toopen" /\ call'[u].proc = "RENAME"
            BY <3>3, <4>1, <5>1
          <6>2. \E p : paths'[u] = <<p>>
            BY <3>2, <4>1, Zenon
          <6> QED
            BY <6>1, <6>2
        <5>2. CASE call[t].proc # "RENAME"
          <6>1. pc'[u] = "act" /\ call'[u].proc # "RENAME" /\ Len(paths'[u]) = 1
            BY <3>2, <3>3, <4>1, <5>2
          <6> QED
            BY <6>1
        <5> QED
          BY <5>1, <5>2
      <4>2. CASE u # t
        BY <2>2, <4>2 DEF IInv, PathsAsked
      <4> QED
        BY <4>1, <4>2
    <3> QED
      BY <3>4 DEF PathsAsked
  <2>4. CASE pc[t] = "topath"
    <3>1. PICK p : call[t].proc = "RENAME" /\ paths[t] = <<p>>
      BY <2>4 DEF IInv, PathsAsked
    <3>2. Len(paths'[t]) = 2
      BY <2>1, <3>1, AppendTwo DEF IInv, Typed
    <3> QED
      BY <2>2, <2>4, <3>1, <3>2 DEF IInv, Typed, PathsAsked
  <2> QED
    BY <2>3, <2>4
<1>4. Unprotected'
  BY DEF IInv, Typed, PathsAsked, Unprotected, Opened, OpenedTo
<1> QED
  BY <1>1, <1>2, <1>3, <1>4 DEF IInv

\* An act on a path: the call that has its directories open is over, or asks for the id.
LEMMA ActKeeps ==
  ASSUME IInv, NEW t \in Thread, pc[t] = "act", NEW b \in BOOLEAN, b => call[t].proc # "LOOKUP",
         acted' = [acted EXCEPT ![t] = b],
         NEW w \in {"done", "reopen"}, pc' = [pc EXCEPT ![t] = w],
         UNCHANGED <<call, paths>>
  PROVE  Begun' /\ PathsAsked' /\ Unprotected'
<1>1. Begun' /\ PathsAsked'
  BY DEF IInv, Typed, Begun, PathsAsked
<1>2. Unprotected'
  BY DEF IInv, Typed, Unprotected, Opened, OpenedTo
<1> QED
  BY <1>1, <1>2

\* An object that is put in a directory has a place.
LEMMA PutTyped ==
  ASSUME Typed, NEW o \in Object \ {Root}, o \notin gone, NEW d \in Directory, NEW n \in Name, Put(o, d, n)
  PROVE  /\ DOMAIN place' = DOMAIN place \cup {o}
         /\ DOMAIN place' \subseteq Object \ {Root} /\ place' \in [DOMAIN place' -> Place]
         /\ gone \subseteq Object \ Live'
BY DEF Typed, Put, Place, Live

\* History that is a truth value of an act stays one.
LEMMA HistoryTyped ==
  ASSUME Typed, NEW t \in Thread, NEW dirs \in Seq(Directory), NEW changed \in BOOLEAN,
         Acted(t, dirs, changed)
  PROVE  /\ acted' \in [Thread -> BOOLEAN] /\ where' \in [Thread -> Seq(Directory)]
         /\ unnamed' \in [Thread -> SUBSET Object]
BY DEF Typed, Acted

\* What is at a place is in a directory.
LEMMA ChildOf ==
  ASSUME Typed, NEW d, NEW n, NEW o \in Child(d, n)
  PROVE  o \in DOMAIN place /\ d \in Directory /\ <<d>> \in Seq(Directory)
<1>1. o \in DOMAIN place /\ place[o] = [dir |-> d, name |-> n] /\ place[o] \in Place
  BY DEF Child, Typed
<1>2. d \in Directory
  BY <1>1 DEF Place
<1> QED
  BY <1>1, <1>2

LEMMA LookupKeeps ==
  ASSUME IInv, NEW t \in Thread, Lookup(t)
  PROVE  IInv'
<1> USE DEF Lookup, At, Finish, Goto, tree
<1>1. Begun' /\ PathsAsked' /\ Unprotected'
  BY ActKeeps DEF Acted
<1>2. /\ acted' \in [Thread -> BOOLEAN] /\ where' \in [Thread -> Seq(Directory)]
      /\ unnamed' \in [Thread -> SUBSET Object]
  <2>1. PICK o : o \in Child(From(t), call[t].name)
    OBVIOUS
  <2>2. <<From(t)>> \in Seq(Directory)
    BY <2>1, ChildOf DEF IInv
  <2> QED
    BY <2>2, HistoryTyped DEF IInv
<1>3. Typed'
  BY <1>2 DEF IInv, Typed, Live
<1> QED
  BY <1>1, <1>3 DEF IInv

\* What CREATE and MKDIR make was not there before.
LEMMA MakeKeeps ==
  ASSUME IInv, NEW t \in Thread, Create(t) \/ MkDir(t)
  PROVE  IInv'
<1> USE DEF Create, MkDir, At, Finish, Goto
<1>1. pc[t] = "act" /\ call[t].name \in Name /\ call[t].proc \in {"CREATE", "MKDIR"}
  BY BegunCall
<1>2. PICK w \in {"done", "reopen"} : pc' = [pc EXCEPT ![t] = w]
  OBVIOUS
<1>3. Begun' /\ PathsAsked' /\ Unprotected'
  BY <1>1, <1>2, ActKeeps DEF Acted
<1>4. /\ acted' \in [Thread -> BOOLEAN] /\ where' \in [Thread -> Seq(Directory)]
      /\ unnamed' \in [Thread -> SUBSET Object]
  <2>1. From(t) \in Directory
    OBVIOUS
  <2>2. <<From(t)>> \in Seq(Directory)
    BY <2>1
  <2> QED
    BY <2>2, HistoryTyped DEF IInv
<1>5. PICK o \in Object : o \notin Live \cup gone /\ Put(o, From(t), call[t].name) /\ made' = [made EXCEPT ![t] = o]
  BY DEF Fresh, Object
<1>6. From(t) \in Directory /\ o # Root /\ UNCHANGED <<gone, call, paths, stale, begun>>
  BY <1>5 DEF Live
<1>7. /\ DOMAIN place' \subseteq Object \ {Root} /\ place' \in [DOMAIN place' -> Place]
      /\ gone \subseteq Object \ Live'
  BY <1>1, <1>5, <1>6, PutTyped DEF IInv
<1>8. Typed'
  BY <1>2, <1>4, <1>5, <1>6, <1>7 DEF IInv, Typed
<1> QED
  BY <1>3, <1>8 DEF IInv

\* What REMOVE and RMDIR remove was there, and is gone for good.
LEMMA DeleteKeeps ==
  ASSUME IInv, NEW t \in Thread, Delete(t)
  PROVE  IInv'
<1> USE DEF Delete, At, Finish, Goto
<1>1. Begun' /\ PathsAsked' /\ Unprotected'
  BY ActKeeps DEF Acted
<1>2. /\ acted' \in [Thread -> BOOLEAN] /\ where' \in [Thread -> Seq(Directory)]
      /\ unnamed' \in [Thread -> SUBSET Object]
  <2>1. PICK o : o \in Child(From(t), call[t].name)
    OBVIOUS
  <2>2. <<From(t)>> \in Seq(Directory)
    BY <2>1, ChildOf DEF IInv
  <2> QED
    BY <2>2, HistoryTyped DEF IInv
<1>3. PICK o \in DOMAIN place : Drop(o) /\ Displaced(t, o, TRUE)
  BY DEF Child
<1>4. stale' \in [Thread -> BOOLEAN]
  BY <1>3 DEF Displaced, IInv, Typed
<1>5. /\ DOMAIN place' = DOMAIN place \ {o} /\ gone' = gone \cup {o}
      /\ \A x \in DOMAIN place' : place'[x] = place[x]
      /\ place' \in [DOMAIN place' -> Place]
  BY <1>3 DEF Drop, IInv, Typed
<1>6. o # Root /\ o \in Object
  BY DEF IInv, Typed
<1>7. gone' \subseteq Object \ Live'
  BY <1>5, <1>6 DEF IInv, Typed, Live
<1>8. Typed'
  BY <1>2, <1>4, <1>5, <1>7 DEF IInv, Typed
<1> QED
  BY <1>1, <1>8 DEF IInv

\* What RENAME moves was there and is still.
LEMMA RenameKeeps ==
  ASSUME IInv, NEW t \in Thread, Rename(t)
  PROVE  IInv'
<1> USE DEF Rename, At, Finish, Goto
<1>1. Begun' /\ PathsAsked' /\ Unprotected'
  BY ActKeeps DEF Acted
<1>2. /\ acted' \in [Thread -> BOOLEAN] /\ where' \in [Thread -> Seq(Directory)]
      /\ unnamed' \in [Thread -> SUBSET Object]
  <2>1. PICK o : o \in Child(From(t), call[t].name)
    OBVIOUS
  <2>2. From(t) \in Directory /\ To(t) \in Directory
    BY <2>1, ChildOf DEF IInv
  <2>3. <<From(t), To(t)>> \in Seq(Directory)
    BY <2>2
  <2> QED
    BY <2>3, HistoryTyped DEF IInv
<1>3. call[t].toname \in Name
  BY BegunCall
<1>4. PICK o \in DOMAIN place : Put(o, To(t), call[t].toname) /\ Displaced(t, o, FALSE)
  BY DEF Child
<1>5. stale' \in [Thread -> BOOLEAN]
  BY <1>4 DEF Displaced, IInv, Typed
<1>6. o \in Object \ {Root} /\ o \notin gone /\ To(t) \in Directory
  BY DEF IInv, Typed, Live
<1>7. /\ DOMAIN place' \subseteq Object \ {Root} /\ place' \in [DOMAIN place' -> Place]
      /\ gone \subseteq Object \ Live'
  BY <1>3, <1>4, <1>6, PutTyped DEF IInv
<1>8. Typed'
  BY <1>2, <1>5, <1>7 DEF IInv, Typed
<1> QED
  BY <1>1, <1>8 DEF IInv

\* Every step keeps the invariant.
LEMMA StepIInv == IInv /\ [Next]_vars => IInv'
<1> SUFFICES ASSUME IInv, [Next]_vars PROVE IInv'
  OBVIOUS
<1>1. ASSUME NEW t \in Thread, Refuse(t) \/ Answer(t) \/ Deny(t) \/ MkDirHandle(t) \/ ActFails(t)
      PROVE  IInv'
  <2>1. pc[t] # "idle" /\ UNCHANGED <<tree, call, paths, made, begun, stale, where, unnamed, acted>>
    BY <1>1 DEF Refuse, Answer, Deny, MkDirHandle, ActFails, history
  <2>2. PICK result : Finish(t, result)
    BY <1>1 DEF Refuse, Answer, Deny, MkDirHandle, ActFails
  <2> QED
    BY <2>1, <2>2, FinishKeeps
<1>2. CASE UNCHANGED vars
  BY <1>2 DEF IInv, Typed, Begun, PathsAsked, Unprotected, Opened, OpenedTo, Live, vars, tree, history
<1> QED
  BY <1>1, <1>2, BeginKeeps, OpenKeeps, AskPathKeeps, LookupKeeps, MakeKeeps, DeleteKeeps, RenameKeeps
     DEF Next, Step

\* The invariant holds in every state.
LEMMA Invariance == Spec => []IInv
BY InitIInv, StepIInv, PTL DEF Spec

-----------------------------------------------------------------------------
(* The tree of names, whatever its state. *)

\* Objects have places, the root has none.
Placed(names) == DOMAIN names \subseteq Object \ {Root} /\ names \in [DOMAIN names -> Place]

\* One more name leads from directory d on.
WalkStep(names, d, n) ==
  LET child == {o \in DOMAIN names : names[o] = [dir |-> d, name |-> n]}
  IN IF child = {} THEN None ELSE CHOOSE o \in child : TRUE

Walks == INSTANCE FoldFacts WITH Op <- WalkStep

Walk(names, path) == Walks!Fold(names, Root, path)

\* What a path leads to depends on the names only.
LEMMA ResolvedIn ==
  \A path : Resolve(path) = Walk(place, path) /\ Resolve(path)' = Walk(place', path)
BY DEF Resolve, Child, Walk, WalkStep, FoldLeft, MapThenFoldSet, Max, Walks!Fold, Walks!FoldLeft,
       Walks!MapThenFoldSet, Walks!Max

\* The rule of PathTo.
PathRule(names, p) ==
  p = [x \in Object |-> IF x \notin DOMAIN names THEN <<>> ELSE Append(p[names[x].dir], names[x].name)]

PathIn(names, o) == (CHOOSE p : PathRule(names, p))[o]

\* So does the path of an object.
LEMMA PathOf == \A o : PathTo(o) = PathIn(place, o) /\ PathTo(o)' = PathIn(place', o)
BY DEF PathTo, PathIn, PathRule

-----------------------------------------------------------------------------
(* The way from the root to an object. *)

Chain(names, n, c, o) ==
  /\ n \in Nat /\ c[0] = Root /\ c[n] = o
  /\ \A i \in 1 .. n : c[i] \in DOMAIN names /\ names[c[i]].dir = c[i - 1]

NamesOn(names, n, c) == [i \in 1 .. n |-> names[c[i]].name]

\* Every object in a tree is at the end of a chain.
LEMMA HasChain ==
  ASSUME NEW names, Placed(names), IsTree(names), NEW o \in DOMAIN names \cup {Root}
  PROVE  \E n, c : Chain(names, n, c, o)
<1> DEFINE S == {x \in DOMAIN names : ~\E n, c : Chain(names, n, c, x)}
<1>1. \E n, c : Chain(names, n, c, Root)
  <2> DEFINE c == [i \in {0} |-> Root]
  <2>1. Chain(names, 0, c, Root)
    BY DEF Chain
  <2>2. QED
    BY <2>1
<1>2. ASSUME NEW x \in DOMAIN names, names[x].dir \notin S
      PROVE  \E n, c : Chain(names, n, c, x)
  <2> DEFINE d == names[x].dir
  <2>1. d \in DOMAIN names \cup {Root}
    BY DEF IsTree
  <2>2. PICK n, c : Chain(names, n, c, d)
    BY <1>1, <1>2, <2>1
  <2> DEFINE e == [i \in 0 .. n + 1 |-> IF i = n + 1 THEN x ELSE c[i]]
  <2>3. n \in Nat
    BY <2>2 DEF Chain
  <2>4. e[n + 1] = x /\ \A i \in 0 .. n : e[i] = c[i]
    BY <2>3
  <2> HIDE DEF e
  <2>5. e[0] = Root
    BY <2>2, <2>3, <2>4 DEF Chain
  <2>6. ASSUME NEW i \in 1 .. n + 1 PROVE e[i] \in DOMAIN names /\ names[e[i]].dir = e[i - 1]
    <3>1. CASE i = n + 1
      <4>1. e[i - 1] = c[n] /\ c[n] = d /\ e[i] = x
        BY <2>2, <2>3, <2>4, <3>1 DEF Chain
      <4>2. QED
        BY <4>1
    <3>2. CASE i # n + 1
      <4>1. i \in 1 .. n /\ i \in 0 .. n /\ i - 1 \in 0 .. n
        BY <2>3, <3>2
      <4>2. QED
        BY <2>2, <2>4, <4>1 DEF Chain
    <3>3. QED
      BY <3>1, <3>2
  <2>7. Chain(names, n + 1, e, x)
    BY <2>3, <2>4, <2>5, <2>6 DEF Chain
  <2>8. QED
    BY <2>7
<1>3. S = {}
  <2>1. S # {} => \E x \in S : names[x].dir \notin S
    BY DEF IsTree
  <2>2. QED
    BY <1>2, <2>1
<1>4. QED
  BY <1>1, <1>3

\* The objects on a chain are in the tree.
LEMMA OnChain ==
  ASSUME NEW names, Placed(names), NEW n, NEW c, NEW o, Chain(names, n, c, o)
  PROVE  /\ n \in Nat
         /\ \A i \in 0 .. n : c[i] \in DOMAIN names \cup {Root} /\ c[i] \in Object
         /\ NamesOn(names, n, c) \in Seq(Name) /\ Len(NamesOn(names, n, c)) = n
<1>1. n \in Nat /\ \A i \in 0 .. n : i = 0 \/ i \in 1 .. n
  BY DEF Chain
<1>2. \A i \in 0 .. n : c[i] \in DOMAIN names \cup {Root}
  BY <1>1 DEF Chain
<1>3. \A i \in 0 .. n : c[i] \in Object
  BY <1>2, NamesAssumption DEF Placed, Object
<1>4. \A i \in 1 .. n : names[c[i]].name \in Name
  BY DEF Chain, Placed, Place
<1>5. QED
  BY <1>1, <1>2, <1>3, <1>4 DEF NamesOn

\* A path grows by the name of what it goes on to.
LEMMA NamesGrow ==
  ASSUME NEW names, Placed(names), NEW n, NEW c, NEW o, Chain(names, n, c, o), NEW k \in 1 .. n
  PROVE  NamesOn(names, k, c) = Append(NamesOn(names, k - 1, c), names[c[k]].name)
<1>1. n \in Nat /\ \A i \in 1 .. n : names[c[i]].name \in Name
  BY DEF Chain, Placed, Place
<1>2. k - 1 \in Nat /\ k \in Nat
  BY <1>1
<1> DEFINE s == NamesOn(names, k - 1, c)
<1>3. s \in Seq(Name) /\ Len(s) = k - 1 /\ \A i \in 1 .. k - 1 : s[i] = names[c[i]].name
  BY <1>1, <1>2 DEF NamesOn
<1>4. NamesOn(names, k, c) = [i \in 1 .. k |-> names[c[i]].name]
  BY DEF NamesOn
<1> HIDE DEF s
<1>5. Append(s, names[c[k]].name) = [i \in 1 .. k |-> IF i = k THEN names[c[k]].name ELSE s[i]]
  BY <1>1, <1>2, <1>3
<1>6. \A i \in 1 .. k : i = k \/ i \in 1 .. k - 1
  BY <1>2
<1>7. QED
  BY <1>3, <1>4, <1>5, <1>6 DEF s

\* There is one way to an object.
LEMMA OneChain ==
  ASSUME NEW names, Placed(names), NEW x, NEW n, NEW c, NEW m, NEW e,
         Chain(names, n, c, x), Chain(names, m, e, x)
  PROVE  n = m /\ NamesOn(names, n, c) = NamesOn(names, m, e)
<1>1. n \in Nat /\ m \in Nat
  BY DEF Chain
<1> DEFINE T == {k \in 0 .. n : k <= m /\ c[n - k] = e[m - k]}
<1>2. 0 \in T
  BY <1>1 DEF Chain
<1>3. ASSUME NEW k \in 0 .. n - 1, k \in T PROVE k + 1 \in T
  <2>1. n - k \in 1 .. n /\ (n - k) - 1 = n - (k + 1) /\ k + 1 \in 0 .. n
    BY <1>1
  <2>2. c[n - k] \in DOMAIN names /\ names[c[n - k]].dir = c[n - (k + 1)]
    BY <2>1 DEF Chain
  <2>3. k <= m /\ c[n - k] = e[m - k]
    BY <1>3
  <2>4. e[m - k] # e[0]
    BY <2>2, <2>3 DEF Chain, Placed
  <2>5. m - k \in 1 .. m /\ (m - k) - 1 = m - (k + 1) /\ k + 1 <= m
    BY <1>1, <2>1, <2>3, <2>4
  <2>6. names[e[m - k]].dir = e[m - (k + 1)]
    BY <2>5 DEF Chain
  <2>7. QED
    BY <2>1, <2>2, <2>3, <2>5, <2>6
<1>4. \A k \in 0 .. n : k \in T
  <2> HIDE DEF T
  <2>1. QED
    BY <1>1, <1>2, <1>3, Walks!UpTo
<1>5. n = m
  <2>1. n \in T
    BY <1>1, <1>4
  <2>2. n <= m /\ e[m - n] = Root
    BY <1>1, <2>1 DEF Chain
  <2>3. ~(m - n \in 1 .. m)
    BY <2>2 DEF Chain, Placed
  <2>4. QED
    BY <1>1, <2>2, <2>3
<1>6. \A i \in 1 .. n : c[i] = e[i]
  <2> SUFFICES ASSUME NEW i \in 1 .. n PROVE c[i] = e[i]
    OBVIOUS
  <2>1. n - i \in 0 .. n /\ n - (n - i) = i
    BY <1>1
  <2>2. n - i \in T
    BY <1>4, <2>1
  <2>3. c[n - (n - i)] = e[m - (n - i)]
    BY <2>2
  <2>4. QED
    BY <1>5, <2>1, <2>3
<1>7. QED
  BY <1>5, <1>6 DEF NamesOn

\* The front of a chain is one.
LEMMA FrontChain ==
  ASSUME NEW names, NEW n, NEW c, NEW o, Chain(names, n, c, o), NEW k \in 0 .. n
  PROVE  Chain(names, k, c, c[k])
BY DEF Chain

\* There is a function as PathTo chooses one.
LEMMA RuleSatisfied ==
  ASSUME NEW names, Placed(names), IsTree(names)
  PROVE  \E p : PathRule(names, p)
<1> DEFINE Way(x) == CHOOSE w : Chain(names, w.n, w.c, x)
           p == [x \in Object |->
                   IF x \notin DOMAIN names THEN <<>> ELSE NamesOn(names, Way(x).n, Way(x).c)]
<1>1. ASSUME NEW x \in DOMAIN names \cup {Root} PROVE Chain(names, Way(x).n, Way(x).c, x)
  <2>1. PICK n, c : Chain(names, n, c, x)
    BY HasChain
  <2> DEFINE w == [n |-> n, c |-> c]
  <2>2. Chain(names, w.n, w.c, x)
    BY <2>1
  <2>3. QED
    BY <2>2
<1> HIDE DEF Way
<1>2. ASSUME NEW x \in DOMAIN names
      PROVE  p[x] = Append(p[names[x].dir], names[x].name)
  <2> DEFINE n == Way(x).n
             c == Way(x).c
             d == names[x].dir
  <2>1. Chain(names, n, c, x)
    BY <1>1
  <2>2. n \in 1 .. n /\ n - 1 \in 0 .. n
    <3>1. n \in Nat /\ x # Root
      BY <2>1 DEF Chain, Placed
    <3>2. n # 0
      BY <2>1, <3>1 DEF Chain
    <3>3. QED
      BY <3>1, <3>2
  <2>3. c[n] = x /\ c[n - 1] = d
    BY <2>1, <2>2 DEF Chain
  <2>4. x \in Object /\ p[x] = NamesOn(names, n, c)
    BY DEF Placed
  <2>5. d \in DOMAIN names \cup {Root} /\ d \in Object
    BY <2>1, <2>2, <2>3, OnChain
  <2> HIDE DEF n, c, d
  <2>6. Chain(names, n - 1, c, d)
    BY <2>1, <2>2, <2>3, FrontChain
  <2>7. p[d] = NamesOn(names, n - 1, c)
    <3>1. CASE d \in DOMAIN names
      <4>1. p[d] = NamesOn(names, Way(d).n, Way(d).c)
        BY <2>5, <3>1
      <4>2. QED
        BY <1>1, <2>6, <3>1, <4>1, OneChain
    <3>2. CASE d = Root
      <4>1. p[d] = <<>>
        BY <2>5, <3>2 DEF Placed
      <4>2. Chain(names, 0, c, d)
        BY <2>6, <3>2 DEF Chain
      <4>3. n - 1 = 0
        BY <2>6, <4>2, OneChain
      <4>4. NamesOn(names, 0, c) = <<>>
        BY DEF NamesOn
      <4>5. QED
        BY <4>1, <4>3, <4>4
    <3>3. QED
      BY <2>5, <3>1, <3>2
  <2>8. NamesOn(names, n, c) = Append(NamesOn(names, n - 1, c), names[c[n]].name)
    BY <2>1, <2>2, NamesGrow
  <2> HIDE DEF p
  <2>9. QED
    BY <2>3, <2>4, <2>7, <2>8 DEF d
<1>3. p = [x \in Object |-> IF x \notin DOMAIN names THEN <<>> ELSE Append(p[names[x].dir], names[x].name)]
  <2> DEFINE Value(x) == IF x \notin DOMAIN names THEN <<>> ELSE Append(p[names[x].dir], names[x].name)
  <2>1. ASSUME NEW x \in Object PROVE p[x] = Value(x)
    <3>1. CASE x \in DOMAIN names
      BY <1>2, <3>1
    <3>2. CASE x \notin DOMAIN names
      BY <3>2
    <3>3. QED
      BY <3>1, <3>2
  <2>2. p = [x \in Object |-> p[x]]
    OBVIOUS
  <2> HIDE DEF p, Value
  <2>3. p = [x \in Object |-> Value(x)]
    BY <2>1, <2>2
  <2>4. QED
    BY <2>3 DEF Value
<1>4. QED
  BY <1>3 DEF PathRule

\* The path of an object is that of the names on the way to it.
LEMMA PathOnChain ==
  ASSUME NEW names, Placed(names), IsTree(names), NEW n, NEW c, NEW o, Chain(names, n, c, o)
  PROVE  PathIn(names, o) = NamesOn(names, n, c)
<1> DEFINE p == CHOOSE p : PathRule(names, p)
<1>1. PathRule(names, p)
  BY RuleSatisfied
<1>2. PathIn(names, o) = p[o]
  BY DEF PathIn
<1> HIDE DEF p
<1> DEFINE T == {k \in 0 .. n : p[c[k]] = NamesOn(names, k, c)}
<1>3. /\ n \in Nat
      /\ \A i \in 0 .. n : c[i] \in DOMAIN names \cup {Root} /\ c[i] \in Object
  BY OnChain
<1>4. \A x \in Object : p[x] = IF x \notin DOMAIN names THEN <<>> ELSE Append(p[names[x].dir], names[x].name)
  BY <1>1 DEF PathRule
<1>5. 0 \in T
  <2>1. c[0] = Root /\ Root \notin DOMAIN names /\ Root \in Object
    BY <1>3 DEF Chain, Placed
  <2>2. NamesOn(names, 0, c) = <<>>
    BY DEF NamesOn
  <2>3. p[c[0]] = <<>>
    BY <1>4, <2>1
  <2>4. 0 \in 0 .. n
    BY <1>3
  <2>5. QED
    BY <2>2, <2>3, <2>4
<1>6. ASSUME NEW k \in 0 .. n - 1, k \in T PROVE k + 1 \in T
  <2>1. k + 1 \in 1 .. n /\ k + 1 \in 0 .. n /\ (k + 1) - 1 = k
    BY <1>3
  <2>2. c[k + 1] \in DOMAIN names /\ c[k + 1] \in Object /\ names[c[k + 1]].dir = c[k]
    BY <1>3, <2>1 DEF Chain
  <2>3. p[c[k + 1]] = Append(p[c[k]], names[c[k + 1]].name)
    BY <1>4, <2>2
  <2>4. p[c[k]] = NamesOn(names, k, c)
    BY <1>6
  <2>5. NamesOn(names, k + 1, c) = Append(NamesOn(names, k, c), names[c[k + 1]].name)
    BY <2>1, NamesGrow
  <2>6. QED
    BY <2>1, <2>3, <2>4, <2>5
<1>7. n \in T
  <2>1. n \in 0 .. n
    BY <1>3
  <2> HIDE DEF T
  <2>2. \A k \in 0 .. n : k \in T
    BY <1>3, <1>5, <1>6, Walks!UpTo
  <2>3. QED
    BY <2>1, <2>2
<1>8. QED
  BY <1>2, <1>7 DEF Chain

\* And leads to it.
LEMMA WalkOnChain ==
  ASSUME NEW names, Placed(names), IsTree(names), NEW n, NEW c, NEW o, Chain(names, n, c, o)
  PROVE  Walk(names, NamesOn(names, n, c)) = o
<1> DEFINE path == NamesOn(names, n, c)
           root == Root
<1>1. n \in Nat /\ DOMAIN path = 1 .. n /\ \A i \in 1 .. n : path[i] = names[c[i]].name
  BY DEF Chain, NamesOn
<1> HIDE DEF path
<1>2. PICK f : Walks!Steps(f, n, names, root, path) /\ Walks!Fold(names, root, path) = f[n]
  <2> HIDE DEF root
  <2>1. QED
    BY <1>1, Walks!FoldSteps
<1> DEFINE T == {k \in 0 .. n : f[k] = c[k]}
<1>3. 0 \in T
  BY <1>1, <1>2 DEF Walks!Steps, Chain
<1>4. ASSUME NEW k \in 0 .. n - 1, k \in T PROVE k + 1 \in T
  <2>1. k + 1 \in 1 .. n /\ k + 1 \in 0 .. n /\ (k + 1) - 1 = k
    BY <1>1
  <2> DEFINE x == c[k + 1]
             child == {y \in DOMAIN names : names[y] = [dir |-> c[k], name |-> names[x].name]}
  <2>2. x \in DOMAIN names /\ names[x].dir = c[k]
    BY <2>1 DEF Chain
  <2>3. names[x] = [dir |-> c[k], name |-> names[x].name]
    BY <2>2 DEF Placed, Place
  <2>4. child = {x}
    BY <2>2, <2>3 DEF IsTree
  <2>5. WalkStep(names, c[k], names[x].name) = IF child = {} THEN None ELSE CHOOSE y \in child : TRUE
    BY DEF WalkStep
  <2> HIDE DEF child
  <2>6. WalkStep(names, c[k], names[x].name) = x
    BY <2>4, <2>5
  <2>7. f[k + 1] = WalkStep(names, f[k], path[k + 1])
    BY <1>2, <2>1 DEF Walks!Steps
  <2>8. f[k] = c[k] /\ path[k + 1] = names[x].name
    BY <1>1, <1>4, <2>1
  <2> HIDE DEF x
  <2>9. f[k + 1] = x
    BY <2>6, <2>7, <2>8
  <2>10. QED
    BY <2>1, <2>9 DEF x
<1>5. n \in T
  <2>1. n \in 0 .. n
    BY <1>1
  <2> HIDE DEF T
  <2>2. \A k \in 0 .. n : k \in T
    BY <1>1, <1>3, <1>4, Walks!UpTo
  <2>3. QED
    BY <2>1, <2>2
<1>6. QED
  BY <1>2, <1>5 DEF Walk, Chain, path, root

\* The path of what is in the tree leads to it.
LEMMA PathLeads ==
  ASSUME NEW names, Placed(names), IsTree(names), NEW o \in DOMAIN names \cup {Root}
  PROVE  Walk(names, PathIn(names, o)) = o
BY HasChain, PathOnChain, WalkOnChain

\* A path is a sequence of names, also that of what is no more.
LEMMA PathType ==
  ASSUME NEW names, Placed(names), IsTree(names), NEW o \in Object
  PROVE  PathIn(names, o) \in Seq(Name)
<1>1. CASE o \in DOMAIN names
  <2>1. PICK n, c : Chain(names, n, c, o)
    BY <1>1, HasChain
  <2>2. PathIn(names, o) = NamesOn(names, n, c) /\ NamesOn(names, n, c) \in Seq(Name)
    BY <2>1, PathOnChain, OnChain
  <2>3. QED
    BY <2>2
<1>2. CASE o \notin DOMAIN names
  <2> DEFINE p == CHOOSE p : PathRule(names, p)
  <2>1. PathRule(names, p)
    BY RuleSatisfied
  <2>2. PathIn(names, o) = p[o]
    BY DEF PathIn
  <2> HIDE DEF p
  <2>3. p[o] = <<>>
    BY <1>2, <2>1 DEF PathRule
  <2>4. QED
    BY <2>2, <2>3
<1>3. QED
  BY <1>1, <1>2

\* A path leads to what is in the tree, or nowhere.
LEMMA WalkType ==
  ASSUME NEW names, NEW path \in Seq(Name)
  PROVE  Walk(names, path) \in DOMAIN names \cup {Root, None}
<1> DEFINE n == Len(path)
           S == DOMAIN names \cup {Root, None}
           root == Root
<1>1. n \in Nat /\ DOMAIN path = 1 .. n
  OBVIOUS
<1>2. root \in S
  OBVIOUS
<1>3. \A a \in S, i \in 1 .. n : WalkStep(names, a, path[i]) \in S
  <2> SUFFICES ASSUME NEW a \in S, NEW i \in 1 .. n PROVE WalkStep(names, a, path[i]) \in S
    OBVIOUS
  <2> DEFINE child == {o \in DOMAIN names : names[o] = [dir |-> a, name |-> path[i]]}
  <2>1. WalkStep(names, a, path[i]) = IF child = {} THEN None ELSE CHOOSE o \in child : TRUE
    BY DEF WalkStep
  <2>2. child \subseteq DOMAIN names
    OBVIOUS
  <2> HIDE DEF child
  <2>3. child # {} => (CHOOSE o \in child : TRUE) \in child
    OBVIOUS
  <2>4. QED
    BY <2>1, <2>2, <2>3
<1> HIDE DEF n, S, root
<1>4. Walks!Fold(names, root, path) \in S
  BY <1>1, <1>2, <1>3, Walks!FoldInvariant
<1>5. QED
  BY <1>4 DEF Walk, S, root

-----------------------------------------------------------------------------
(* Changes of the tree. *)

\* An object is put in a directory that is not it nor beneath it, at a place that is free.
LEMMA TreePut ==
  ASSUME NEW names, Placed(names), IsTree(names),
         NEW o \in Object \ {Root}, NEW d \in Directory, NEW name \in Name,
         NEW n, NEW c, Chain(names, n, c, d), \A i \in 0 .. n : c[i] # o,
         \A x \in DOMAIN names : names[x] = [dir |-> d, name |-> name] => x = o,
         NEW new,
         new = [x \in DOMAIN names \cup {o} |-> IF x = o THEN [dir |-> d, name |-> name] ELSE names[x]]
  PROVE  Placed(new) /\ IsTree(new)
<1>1. /\ DOMAIN new = DOMAIN names \cup {o}
      /\ new[o] = [dir |-> d, name |-> name]
      /\ \A x \in DOMAIN names : x # o => new[x] = names[x]
  OBVIOUS
<1>2. [dir |-> d, name |-> name] \in Place
  BY DEF Place
<1>3. Placed(new)
  BY <1>2 DEF Placed
<1>4. d \in DOMAIN names \cup {Root} /\ n \in Nat
  BY OnChain DEF Chain
<1>5. ASSUME NEW x \in DOMAIN new, NEW y \in DOMAIN new, new[x] = new[y]
      PROVE  x = y
  BY <1>1, <1>5 DEF IsTree
<1>6. ASSUME NEW x \in DOMAIN new
      PROVE  new[x].dir \in DOMAIN new \cup {Root}
  BY <1>1, <1>4 DEF IsTree
<1>7. ASSUME NEW S \in SUBSET DOMAIN new, S # {}, \A x \in S : new[x].dir \in S
      PROVE  FALSE
  <2>1. CASE o \notin S
    <3>1. S \in SUBSET DOMAIN names /\ \A x \in S : names[x].dir \in S
      BY <1>1, <1>7, <2>1
    <3>2. QED
      BY <1>7, <3>1 DEF IsTree
  <2>2. CASE o \in S
    <3> DEFINE K == {k \in 0 .. n : c[k] \in S}
    <3>1. n \in K
      <4>1. d \in S
        BY <1>1, <1>7, <2>2
      <4>2. QED
        BY <1>4, <4>1 DEF Chain
    <3>2. PICK k \in K : \A j \in K : k <= j
      <4>1. K \in SUBSET Nat /\ K # {}
        BY <1>4, <3>1
      <4> HIDE DEF K
      <4>2. QED
        BY <4>1, Walks!LeastNumber
    <3>3. k # 0
      <4>1. Root \notin S
        BY <1>1 DEF Placed
      <4>2. QED
        BY <3>2, <4>1 DEF Chain
    <3>4. k \in 1 .. n /\ k - 1 \in 0 .. n /\ k \in 0 .. n
      BY <1>4, <3>2, <3>3
    <3>5. c[k] \in DOMAIN names /\ names[c[k]].dir = c[k - 1] /\ c[k] # o /\ c[k] \in S
      BY <3>2, <3>4 DEF Chain
    <3>6. c[k - 1] \in S
      BY <1>1, <1>7, <3>5
    <3>7. k - 1 \in K
      BY <3>4, <3>6
    <3>8. k <= k - 1
      BY <3>2, <3>7
    <3>9. QED
      BY <3>4, <3>8
  <2>3. QED
    BY <2>1, <2>2
<1>8. QED
  BY <1>3, <1>5, <1>6, <1>7 DEF IsTree

\* An object with nothing in it is taken away.
LEMMA TreeDrop ==
  ASSUME NEW names, Placed(names), IsTree(names), NEW o, \A x \in DOMAIN names : names[x].dir # o,
         NEW new, new = [x \in DOMAIN names \ {o} |-> names[x]]
  PROVE  Placed(new) /\ IsTree(new)
<1>1. DOMAIN new = DOMAIN names \ {o} /\ \A x \in DOMAIN new : new[x] = names[x]
  OBVIOUS
<1>2. Placed(new)
  BY <1>1 DEF Placed
<1>3. \A S \in SUBSET DOMAIN new : S \in SUBSET DOMAIN names
  BY <1>1
<1>4. IsTree(new)
  BY <1>1, <1>3 DEF IsTree
<1>5. QED
  BY <1>2, <1>4

\* What has the same objects above it, at the same places, has the same path.
LEMMA PathStays ==
  ASSUME NEW names, Placed(names), IsTree(names), NEW new, Placed(new), IsTree(new),
         NEW n, NEW c, NEW o, Chain(names, n, c, o),
         \A i \in 1 .. n : c[i] \in DOMAIN new /\ new[c[i]] = names[c[i]]
  PROVE  o \in DOMAIN new \cup {Root} /\ PathIn(new, o) = PathIn(names, o)
<1>1. Chain(new, n, c, o)
  BY DEF Chain
<1>2. NamesOn(new, n, c) = NamesOn(names, n, c)
  BY DEF NamesOn
<1>3. o \in DOMAIN new \cup {Root}
  <2>1. n \in Nat
    BY DEF Chain
  <2>2. n \in 0 .. n
    BY <2>1
  <2>3. c[n] \in DOMAIN new \cup {Root} /\ c[n] = o
    BY <1>1, <2>2, OnChain DEF Chain
  <2>4. QED
    BY <2>3
<1>4. QED
  BY <1>1, <1>2, <1>3, PathOnChain

\* What is not beneath an object has it not on the way.
LEMMA NotBeneath ==
  ASSUME Placed(place), IsTree(place), NEW n, NEW c, NEW h, Chain(place, n, c, h),
         NEW o, ~Beneath(h, o), h # o
  PROVE  \A i \in 0 .. n : c[i] # o
<1>1. n \in Nat
  BY DEF Chain
<1>2. PathTo(h) = NamesOn(place, n, c)
  BY PathOf, PathOnChain
<1>3. Len(PathTo(h)) = n
  BY <1>2, OnChain
<1>4. ASSUME NEW i \in 0 .. n - 1 PROVE c[i] # o
  <2>1. i + 1 \in 1 .. n /\ (i + 1) - 1 = i /\ i \in 0 .. n
    BY <1>1
  <2>2. Resolve(SubSeq(PathTo(h), 1, (i + 1) - 1)) # o
    BY <1>3, <2>1 DEF Beneath
  <2>3. SubSeq(PathTo(h), 1, i) = NamesOn(place, i, c)
    BY <1>1, <1>2, <2>1 DEF NamesOn
  <2>4. Chain(place, i, c, c[i])
    BY <2>1, FrontChain
  <2>5. Resolve(NamesOn(place, i, c)) = c[i]
    BY <2>4, WalkOnChain, ResolvedIn
  <2>6. QED
    BY <2>1, <2>2, <2>3, <2>5
<1>5. \A i \in 0 .. n : i = n \/ i \in 0 .. n - 1
  BY <1>1
<1>6. QED
  BY <1>4, <1>5 DEF Chain

-----------------------------------------------------------------------------
(* What a call knows. *)

Asked(t) == pc[t] \in {"toopen", "topath", "act", "reopen"}
AskedTo(t) == pc[t] = "act" /\ call[t].proc = "RENAME"

\* A path is that of the directory still, as it was told, if the call does not know better.
Known(t, path, d) ==
  /\ path \in Seq(Name)
  /\ stale[t] \/ path = PathTo(d) \/ (path = <<>> /\ d \in unnamed[t])

\* The directories a call has open are there, and it knows their paths.
PathKnown(t) ==
  /\ Asked(t) => Known(t, paths[t][1], call[t].dir)
  /\ AskedTo(t) => Known(t, paths[t][2], call[t].todir)
  /\ stale[t] \/ Held(t) \subseteq Live

\* The directory its path leads to.
Aim(t) == IF paths[t][1] = <<>> THEN Root ELSE call[t].dir

\* What a MKDIR has made is where it was put.
MadeKnown(t) ==
  /\ pc[t] \in {"open", "path", "toopen", "topath", "act"} => made[t] = None
  /\ pc[t] = "reopen" =>
       /\ acted[t] /\ call[t].proc = "MKDIR"
       /\ stale[t] \/ (made[t] \in DOMAIN place /\ place[made[t]] = [dir |-> Aim(t), name |-> call[t].name])

\* A directory a call acts in is the one asked for, or the root for want of a path.
There(t, d, asked) == d = asked \/ (d = Root /\ asked \in unnamed[t])

Straight(t) ==
  stale[t] \/ \A i \in DOMAIN where[t] : i \in DOMAIN Handled(t) /\ There(t, where[t][i], Handled(t)[i])

Told(t) ==
  /\ Over(t, "OK") /\ call[t].proc \in {"CREATE", "MKDIR", "REMOVE", "RMDIR", "RENAME"} => acted[t]
  /\ Over(t, "error") /\ acted[t] => call[t].proc = "MKDIR"
  /\ Over(t, "OK") /\ made[t] # None =>
       reply[t].object \in {made[t], None} \/ (call[t].proc = "MKDIR" /\ stale[t])

Right(t) == PathKnown(t) /\ MadeKnown(t) /\ Straight(t) /\ Told(t)

RInv == IInv /\ IsTree(place) /\ DOMAIN reply = Thread /\ \A t \in Thread : Right(t)

\* The directories of a call.
LEMMA CallDirs ==
  ASSUME RInv, NEW t \in Thread
  PROVE  /\ Placed(place) /\ IsTree(place)
         /\ pc[t] # "idle" => call[t].dir \in Object
         /\ OpenedTo(t) \/ pc[t] = "toopen" => call[t].todir \in Object
<1>1. Placed(place) /\ IsTree(place)
  BY DEF RInv, IInv, Typed, Placed
<1>2. pc[t] # "idle" => call[t] \in Call
  BY BegunCall DEF RInv
<1>3. pc[t] = "toopen" \/ pc[t] = "topath" => call[t].proc = "RENAME"
  BY DEF RInv, IInv, PathsAsked
<1>4. \A c \in Call : c.dir \in Object /\ (c.proc = "RENAME" => c.todir \in Object)
  BY DEF Call
<1>5. OpenedTo(t) \/ pc[t] = "toopen" => pc[t] # "idle" /\ call[t].proc = "RENAME"
  BY <1>3 DEF OpenedTo
<1>6. QED
  BY <1>1, <1>2, <1>4, <1>5

\* The empty path leads to the root.
LEMMA NoPath == ASSUME RInv PROVE Resolve(<<>>) = Root
<1> DEFINE c == [i \in {0} |-> Root]
<1>1. Placed(place) /\ IsTree(place)
  BY CallDirs DEF RInv, IInv, Typed, Placed
<1>2. Chain(place, 0, c, Root)
  BY DEF Chain
<1>3. NamesOn(place, 0, c) = <<>>
  BY DEF NamesOn
<1> HIDE DEF c
<1> QED
  BY <1>1, <1>2, <1>3, WalkOnChain, ResolvedIn

\* A path a call knows leads to the directory, or to the root for want of one.
LEMMA KnownLeads ==
  ASSUME RInv, NEW t \in Thread, NEW path, NEW d, Known(t, path, d), stale[t] \/ d \in Live
  PROVE  /\ Resolve(path) \in Live \cup {None}
         /\ stale[t] \/ There(t, Resolve(path), d)
         /\ stale[t] \/ Resolve(path) = (IF path = <<>> THEN Root ELSE d)
<1>1. Placed(place) /\ IsTree(place)
  BY DEF RInv, IInv, Typed, Placed
<1>2. \A o \in Live : Resolve(PathTo(o)) = o
  BY <1>1, PathOf, PathLeads, ResolvedIn DEF Live
<1>3. Resolve(path) \in Live \cup {None}
  BY WalkType, ResolvedIn DEF Live, Known
<1>4. stale[t] \/ (path = PathTo(d) /\ Resolve(path) = d) \/ (path = <<>> /\ d \in unnamed[t])
  BY <1>2 DEF Known
<1>5. path = <<>> => Resolve(path) = Root
  BY NoPath
<1> QED
  BY <1>3, <1>4, <1>5 DEF There

\* A call that knows its paths acts where its handles are.
LEMMA WhereItActs ==
  ASSUME RInv, NEW t \in Thread, pc[t] \in {"act", "reopen"}
  PROVE  /\ From(t) \in Live \cup {None}
         /\ stale[t] \/ (There(t, From(t), call[t].dir) /\ From(t) = Aim(t))
         /\ AskedTo(t) => To(t) \in Live \cup {None} /\ (stale[t] \/ There(t, To(t), call[t].todir))
<1>1. Right(t) /\ Asked(t) /\ call[t].dir \in Held(t) /\ (AskedTo(t) => call[t].todir \in Held(t))
  BY DEF RInv, Asked, AskedTo, Held
<1>2. Known(t, paths[t][1], call[t].dir) /\ (stale[t] \/ call[t].dir \in Live)
  BY <1>1 DEF Right, PathKnown
<1>3. AskedTo(t) => Known(t, paths[t][2], call[t].todir) /\ (stale[t] \/ call[t].todir \in Live)
  BY <1>1 DEF Right, PathKnown
<1>4. /\ Resolve(paths[t][1]) \in Live \cup {None}
      /\ stale[t] \/ There(t, Resolve(paths[t][1]), call[t].dir)
      /\ stale[t] \/ Resolve(paths[t][1]) = (IF paths[t][1] = <<>> THEN Root ELSE call[t].dir)
  BY <1>2, KnownLeads
<1>5. AskedTo(t) => /\ Resolve(paths[t][2]) \in Live \cup {None}
                    /\ stale[t] \/ There(t, Resolve(paths[t][2]), call[t].todir)
  BY <1>3, KnownLeads
<1> QED
  BY <1>4, <1>5 DEF From, To, Aim

\* A call that does nothing stays right if what it relies on is left alone or it is told.
LEMMA OthersStay ==
  ASSUME NEW u \in Thread, Right(u), stale[u] => stale'[u],
         pc'[u] = pc[u], call'[u] = call[u], paths'[u] = paths[u], made'[u] = made[u],
         reply'[u] = reply[u], acted'[u] = acted[u], where'[u] = where[u], unnamed'[u] = unnamed[u],
         \/ stale'[u]
         \/ /\ Held(u) \subseteq Live'
            /\ Asked(u) => PathTo(call[u].dir)' = PathTo(call[u].dir)
            /\ AskedTo(u) => PathTo(call[u].todir)' = PathTo(call[u].todir)
            /\ pc[u] = "reopen" /\ made[u] \in DOMAIN place =>
                 made[u] \in DOMAIN place' /\ place'[made[u]] = place[made[u]]
  PROVE  Right(u)'
<1>1. Held(u)' = Held(u)
  BY DEF Held
<1>2. /\ call[u].dir' = call[u].dir /\ (AskedTo(u)' <=> AskedTo(u)) /\ (Asked(u)' <=> Asked(u))
  BY DEF Asked, AskedTo
<1>3. PathKnown(u)'
  <2>1. stale'[u] \/ (Asked(u) => PathTo(call[u].dir)' = PathTo(call[u].dir))
    OBVIOUS
  <2>2. Asked(u) => Known(u, paths[u][1], call[u].dir)'
    BY <2>1 DEF Right, PathKnown, Known
  <2>3. AskedTo(u) => Known(u, paths[u][2], call[u].todir)'
    BY DEF Right, PathKnown, Known
  <2>4. QED
    BY <1>1, <1>2, <2>2, <2>3 DEF PathKnown
<1>4. MadeKnown(u)' /\ Told(u)'
  BY DEF Right, MadeKnown, Aim, Told, Over
<1>5. Straight(u)'
  BY DEF Right, Straight, There, Handled
<1>6. QED
  BY <1>3, <1>4, <1>5 DEF Right

\* A step of one call that leaves the tree alone leaves the others right.
LEMMA OneCall ==
  ASSUME RInv, NEW t \in Thread, UNCHANGED tree, Right(t)',
         \A u \in Thread : u # t =>
           /\ pc'[u] = pc[u] /\ call'[u] = call[u] /\ paths'[u] = paths[u] /\ reply'[u] = reply[u]
           /\ acted'[u] = acted[u] /\ where'[u] = where[u] /\ stale'[u] = stale[u]
           /\ unnamed'[u] = unnamed[u] /\ made'[u] = made[u]
  PROVE  \A u \in Thread : Right(u)'
<1> SUFFICES ASSUME NEW u \in Thread, u # t PROVE Right(u)'
  OBVIOUS
<1>1. Right(u) /\ place' = place /\ Live' = Live
  BY DEF RInv, tree, Live
<1>2. \A o : PathTo(o)' = PathTo(o)
  BY <1>1, PathOf
<1>3. stale[u] \/ Held(u) \subseteq Live'
  BY <1>1 DEF Right, PathKnown
<1>4. stale'[u] = stale[u] /\ made'[u] = made[u] /\ call'[u] = call[u]
  OBVIOUS
<1>5. /\ PathTo(call[u].dir)' = PathTo(call[u].dir)
      /\ PathTo(call[u].todir)' = PathTo(call[u].todir)
  BY <1>2, <1>4
<1>6. QED
  BY <1>1, <1>3, <1>4, <1>5, OthersStay

\* A call that is over without an act is right when it does not claim to have done one.
LEMMA OverRight ==
  ASSUME RInv, NEW t \in Thread, NEW result, Finish(t, result), Typed',
         call'[t] = call[t], stale'[t] = stale[t],
         Straight(t)',
         result.status = "OK" /\ call[t].proc \in {"CREATE", "MKDIR", "REMOVE", "RMDIR", "RENAME"} =>
           acted'[t],
         result.status = "OK" /\ made'[t] # None =>
           result.object \in {made'[t], None} \/ (call[t].proc = "MKDIR" /\ stale[t]),
         result.status # "OK" /\ acted'[t] => call[t].proc = "MKDIR"
  PROVE  Right(t)'
<1>1. pc'[t] = "done" /\ reply'[t] = result
  BY DEF Finish, Goto, RInv, IInv, Typed
<1>2. Held(t)' = {}
  BY <1>1 DEF Held
<1>3. PathKnown(t)'
  BY <1>1, <1>2 DEF PathKnown, Asked, AskedTo
<1>4. MadeKnown(t)'
  BY <1>1 DEF MadeKnown
<1>5. Told(t)'
  BY <1>1 DEF Told, Over
<1>6. QED
  BY <1>3, <1>4, <1>5 DEF Right

\* A new call knows nothing and has done nothing.
LEMMA BeginRight ==
  ASSUME RInv, NEW t \in Thread, NEW c \in Calls, Begin(t, c)
  PROVE  \A u \in Thread : Right(u)'
<1>1. /\ pc'[t] = "open" /\ made'[t] = None /\ where'[t] = <<>>
  BY DEF Begin, Goto, RInv, IInv, Typed
<1>2. Right(t)'
  <2>1. DOMAIN where'[t] = {}
    BY <1>1
  <2>2. Straight(t)'
    BY <2>1 DEF Straight
  <2> QED
    BY <1>1, <2>2 DEF Right, PathKnown, MadeKnown, Told, Over, Asked, AskedTo, Held
<1>3. \A u \in Thread : u # t =>
        /\ pc'[u] = pc[u] /\ call'[u] = call[u] /\ paths'[u] = paths[u] /\ reply'[u] = reply[u]
        /\ acted'[u] = acted[u] /\ where'[u] = where[u] /\ stale'[u] = stale[u]
        /\ unnamed'[u] = unnamed[u] /\ made'[u] = made[u]
  BY DEF Begin, Goto, RInv, IInv, Typed
<1>4. UNCHANGED tree
  BY DEF Begin
<1>5. QED
  BY <1>2, <1>3, <1>4, OneCall

\* The end of a call that acts no more.
LEMMA EndRight ==
  ASSUME RInv, IInv', NEW t \in Thread, Refuse(t) \/ Answer(t) \/ Deny(t) \/ MkDirHandle(t) \/ ActFails(t)
  PROVE  \A u \in Thread : Right(u)'
<1>1. /\ UNCHANGED <<place, gone, call, paths, made, acted, where, stale, unnamed>>
      /\ pc[t] # "idle"
  BY DEF Refuse, Answer, Deny, MkDirHandle, ActFails, tree, history
<1>2. Right(t) /\ (acted[t] => pc[t] = "done" \/ pc[t] = "reopen")
  BY DEF RInv, IInv, Unprotected
<1>0. Straight(t)'
  BY <1>1, <1>2 DEF Right, Straight, There, Handled
<1>3. ASSUME NEW result, Finish(t, result)
      PROVE  \A u \in Thread : u # t => pc'[u] = pc[u] /\ reply'[u] = reply[u]
  BY <1>3 DEF Finish, Goto, RInv, IInv, Typed
<1>4. ASSUME NEW result, Finish(t, result), pc[t] # "reopen", pc[t] # "done", result.status # "OK"
      PROVE  Right(t)'
  BY <1>0, <1>1, <1>2, <1>4, OverRight DEF IInv
<1>5. CASE Refuse(t)
  <2>1. PICK status \in {"ERR_BADHANDLE", "ERR_IO"} : Finish(t, Failure(status))
    BY <1>5 DEF Refuse
  <2>2. Failure(status).status = status /\ pc[t] \in {"open", "toopen"}
    BY <1>5 DEF Failure, Result, Refuse
  <2>3. Right(t)'
    BY <1>4, <2>1, <2>2
  <2>4. QED
    BY <1>1, <1>3, <2>1, <2>3, OneCall DEF tree
<1>6. CASE Deny(t)
  <2> DEFINE result == Failure(Checked(call[t], Here(t)))
  <2>1. Finish(t, result) /\ result.status # "OK" /\ pc[t] \in {"open", "toopen"}
    BY <1>6 DEF Deny, Failure, Result
  <2> HIDE DEF result
  <2>2. Right(t)'
    BY <1>4, <2>1
  <2>3. QED
    BY <1>1, <1>3, <2>1, <2>2, OneCall DEF tree
<1>7. CASE ActFails(t)
  <2> DEFINE result == Failure(IF call[t].proc = "LOOKUP" THEN "ERR_NO_ENTRY" ELSE Failed)
  <2>1. Finish(t, result) /\ result.status # "OK" /\ pc[t] = "act"
    BY <1>7 DEF ActFails, Failure, Result, Failed
  <2> HIDE DEF result
  <2>2. Right(t)'
    BY <1>4, <2>1
  <2>3. QED
    BY <1>1, <1>3, <2>1, <2>2, OneCall DEF tree
<1>8. CASE Answer(t)
  <2>1. PICK result : /\ Finish(t, result) /\ pc[t] = "open"
                      /\ call[t].proc \in {"ACCESS", "READLINK", "LOOKUP"}
                      /\ result.status = "OK"
    BY <1>8 DEF Answer, Result
  <2>2. made[t] = None
    BY <1>2, <2>1 DEF Right, MadeKnown
  <2>3. Right(t)'
    BY <1>0, <1>1, <1>2, <2>1, <2>2, OverRight DEF IInv
  <2>4. QED
    BY <1>1, <1>3, <2>1, <2>3, OneCall DEF tree
<1>9. CASE MkDirHandle(t)
  <2>1. /\ pc[t] = "reopen" /\ acted[t] /\ call[t].proc = "MKDIR"
        /\ stale[t] \/ (made[t] \in DOMAIN place /\ place[made[t]] = [dir |-> Aim(t), name |-> call[t].name])
    BY <1>2, <1>9 DEF MkDirHandle, Right, MadeKnown
  <2>2. stale[t] \/ From(t) = Aim(t)
    BY <2>1, WhereItActs
  <2>3. stale[t] \/ Child(From(t), call[t].name) = {made[t]}
    BY <2>1, <2>2 DEF Child, RInv, IsTree
  <2>4. PICK result : /\ Finish(t, result)
                      /\ \/ result.status = "OK" /\ result.object \in Child(From(t), call[t].name) \cup {None}
                         \/ result.status # "OK"
    <3>1. CASE \E o \in Reopened(t) : \E handle \in Identified(o) : Finish(t, Result("OK", handle, {}))
      <4>1. PICK o \in Reopened(t) : \E handle \in Identified(o) : Finish(t, Result("OK", handle, {}))
        BY <3>1
      <4>2. PICK handle \in Identified(o) : Finish(t, Result("OK", handle, {}))
        BY <4>1
      <4>3. handle \in Child(From(t), call[t].name) \cup {None}
        BY DEF Identified, Reopened
      <4> QED
        BY <4>2, <4>3 DEF Result
    <3>2. CASE Finish(t, Failure("ERR_IO"))
      BY <3>2 DEF Failure, Result
    <3>3. QED
      BY <1>9, <3>1, <3>2 DEF MkDirHandle
  <2>5. result.status = "OK" => result.object \in {made[t], None} \/ stale[t]
    BY <2>3, <2>4
  <2>6. Right(t)'
    BY <1>0, <1>1, <1>2, <2>1, <2>4, <2>5, OverRight DEF IInv
  <2>7. QED
    BY <1>1, <1>3, <2>4, <2>6, OneCall DEF tree
<1>10. QED
  BY <1>5, <1>6, <1>7, <1>8, <1>9

\* A directory that is opened is there.
LEMMA OpenRight ==
  ASSUME RInv, NEW t \in Thread, Open(t)
  PROVE  \A u \in Thread : Right(u)'
<1>1. /\ pc[t] \in {"open", "toopen"}
      /\ UNCHANGED <<place, gone, call, paths, made, reply, acted, where, stale, unnamed>>
      /\ pc' = [pc EXCEPT ![t] = IF pc[t] = "open" THEN "path" ELSE "topath"]
  BY DEF Open, Goto, tree, history
<1>2. Here(t) \in Live
  BY DEF Open, Checked
<1>3. Right(t) /\ Live' = Live
  BY <1>1 DEF RInv, Live
<1>4. pc'[t] = IF pc[t] = "open" THEN "path" ELSE "topath"
  BY <1>1 DEF RInv, IInv, Typed
<1>5. \A o : PathTo(o)' = PathTo(o)
  BY <1>1, PathOf
<1>6. stale[t] \/ Held(t)' \subseteq Live
  BY <1>1, <1>2, <1>3, <1>4 DEF Held, Here, Right, PathKnown
<1>7. PathTo(call[t].dir)' = PathTo(call[t].dir)
  BY <1>1, <1>5
<1>8. PathKnown(t)'
  BY <1>1, <1>3, <1>4, <1>6, <1>7 DEF PathKnown, Known, Right, Asked, AskedTo
<1>9. MadeKnown(t)' /\ Straight(t)' /\ Told(t)'
  <2>1. MadeKnown(t)' /\ Told(t)'
    BY <1>1, <1>3, <1>4 DEF Right, MadeKnown, Told, Over
  <2>2. Straight(t)'
    BY <1>1, <1>3 DEF Right, Straight, There, Handled
  <2> QED
    BY <2>1, <2>2
<1>10. \A u \in Thread : u # t => pc'[u] = pc[u]
  BY <1>1 DEF RInv, IInv, Typed
<1>11. QED
  BY <1>1, <1>8, <1>9, <1>10, OneCall DEF Right, tree

\* The second path comes behind the first.
LEMMA SecondPath == ASSUME NEW p, NEW q PROVE Append(<<p>>, q)[1] = p /\ Append(<<p>>, q)[2] = q
<1>1. <<p>> \in Seq({p, q}) /\ Len(<<p>>) = 1
  OBVIOUS
<1> QED
  BY <1>1

\* The path a directory is told to have is the one it has.
LEMMA AskPathRight ==
  ASSUME RInv, NEW t \in Thread, AskPath(t)
  PROVE  \A u \in Thread : Right(u)'
<1>1. /\ pc[t] \in {"path", "topath"}
      /\ UNCHANGED <<place, gone, call, made, reply, acted, where, stale>>
      /\ pc' = [pc EXCEPT ![t] = AfterPath(t)]
  BY DEF AskPath, Goto, tree
<1>2. PICK q \in {PathTo(Here(t)), <<>>} :
        /\ paths' = [paths EXCEPT ![t] = Append(paths[t], q)]
        /\ unnamed' = [unnamed EXCEPT ![t] =
             IF q = PathTo(Here(t)) THEN unnamed[t] ELSE unnamed[t] \cup {Here(t)}]
  BY DEF AskPath, fullpath
<1>3. Right(t) /\ Live' = Live
  BY <1>1 DEF RInv, Live
<1>4. \A o : PathTo(o)' = PathTo(o)
  BY <1>1, PathOf
<1>5. /\ pc'[t] = AfterPath(t) /\ paths'[t] = Append(paths[t], q) /\ unnamed[t] \subseteq unnamed'[t]
      /\ q = PathTo(Here(t)) \/ (q = <<>> /\ Here(t) \in unnamed'[t])
  BY <1>1, <1>2 DEF RInv, IInv, Typed
<1>6. q \in Seq(Name)
  <2>1. Here(t) \in Object
    BY <1>1, CallDirs DEF Here, OpenedTo
  <2>2. PathTo(Here(t)) \in Seq(Name)
    BY <2>1, PathType, PathOf, CallDirs
  <2>3. q = PathTo(Here(t)) \/ q = <<>>
    BY <1>2
  <2>4. <<>> \in Seq(Name)
    OBVIOUS
  <2>5. QED
    BY <2>2, <2>3, <2>4
<1>7. PathTo(call[t].dir)' = PathTo(call[t].dir) /\ PathTo(call[t].todir)' = PathTo(call[t].todir)
  BY <1>1, <1>4
<1>8. PathKnown(t)'
  <2>1. CASE pc[t] = "path"
    <3>1. paths'[t] = <<q>>
      BY <1>5, <2>1, AppendOne DEF RInv, IInv, PathsAsked
    <3>2. Here(t) = call[t].dir
      BY <2>1 DEF Here
    <3>3. paths'[t][1] = q
      BY <3>1
    <3>4. pc'[t] = (IF call[t].proc = "RENAME" THEN "toopen" ELSE "act") /\ call'[t] = call[t]
      BY <1>1, <1>5, <2>1 DEF AfterPath
    <3>5. ~AskedTo(t)' /\ Held(t)' = Held(t)
      BY <2>1, <3>4 DEF AskedTo, Held
    <3>6. Known(t, paths[t][1], call[t].dir)'
      BY <1>5, <1>6, <1>7, <3>2, <3>3, <3>4 DEF Known
    <3>7. (stale[t] \/ Held(t) \subseteq Live)'
      BY <1>1, <1>3, <3>5 DEF PathKnown, Right
    <3>8. QED
      BY <3>5, <3>6, <3>7 DEF PathKnown
  <2>2. CASE pc[t] = "topath"
    <3>1. PICK p : call[t].proc = "RENAME" /\ paths[t] = <<p>>
      BY <2>2 DEF RInv, IInv, PathsAsked
    <3>2. Here(t) = call[t].todir
      BY <2>2 DEF Here
    <3>3. paths'[t][1] = p /\ paths'[t][2] = q /\ paths[t][1] = p
      BY <1>5, <3>1, SecondPath
    <3>4. pc'[t] = "act" /\ call'[t] = call[t]
      BY <1>1, <1>5, <2>2 DEF AfterPath
    <3>5. Held(t)' = Held(t)
      BY <2>2, <3>1, <3>4 DEF Held
    <3>6. Known(t, paths[t][1], call[t].dir)
      BY <1>3, <2>2 DEF Asked, Right, PathKnown
    <3>7. Known(t, paths[t][1], call[t].dir)'
      BY <1>1, <1>5, <1>7, <3>3, <3>4, <3>6 DEF Known
    <3>8. Known(t, paths[t][2], call[t].todir)'
      BY <1>5, <1>6, <1>7, <3>2, <3>3, <3>4 DEF Known
    <3>9. (stale[t] \/ Held(t) \subseteq Live)'
      BY <1>1, <1>3, <3>5 DEF PathKnown, Right
    <3>10. QED
      BY <3>7, <3>8, <3>9 DEF PathKnown
  <2>3. QED
    BY <1>1, <2>1, <2>2
<1>9. MadeKnown(t)' /\ Straight(t)' /\ Told(t)'
  <2>1. pc'[t] \in {"toopen", "act"}
    BY <1>5 DEF AfterPath
  <2>2. MadeKnown(t)' /\ Told(t)'
    BY <1>1, <1>3, <2>1 DEF Right, MadeKnown, Told, Over
  <2>3. Straight(t)'
    BY <1>1, <1>3, <1>5 DEF Right, Straight, There, Handled
  <2>4. QED
    BY <2>2, <2>3
<1>10. \A u \in Thread : u # t => pc'[u] = pc[u] /\ paths'[u] = paths[u] /\ unnamed'[u] = unnamed[u]
  BY <1>1, <1>2 DEF RInv, IInv, Typed
<1>11. QED
  BY <1>1, <1>8, <1>9, <1>10, OneCall DEF Right, tree

\* A call that knows its paths and acts does so where its handles are.
LEMMA ActsThere ==
  ASSUME RInv, NEW t \in Thread, pc[t] = "act", NEW changed \in BOOLEAN, NEW dirs,
         dirs = (IF call[t].proc = "RENAME" THEN <<From(t), To(t)>> ELSE <<From(t)>>),
         Acted(t, dirs, changed)
  PROVE  /\ call'[t] = call[t] /\ stale'[t] = stale[t] => Straight(t)'
         /\ acted'[t] = changed
         /\ \A u \in Thread :
              u # t => acted'[u] = acted[u] /\ where'[u] = where[u] /\ unnamed'[u] = unnamed[u]
<1>1. /\ acted'[t] = changed /\ where'[t] = dirs /\ unnamed' = unnamed
      /\ \A u \in Thread : u # t => acted'[u] = acted[u] /\ where'[u] = where[u]
  BY DEF Acted, RInv, IInv, Typed
<1>2. stale[t] \/ There(t, From(t), call[t].dir)
  BY WhereItActs
<1>3. call[t].proc = "RENAME" => stale[t] \/ There(t, To(t), call[t].todir)
  BY WhereItActs DEF AskedTo
<1>4. ASSUME ~stale[t], NEW i \in DOMAIN dirs
      PROVE  i \in DOMAIN Handled(t) /\ There(t, dirs[i], Handled(t)[i])
  <2>1. CASE call[t].proc = "RENAME"
    <3>1. dirs = <<From(t), To(t)>> /\ Handled(t) = <<call[t].dir, call[t].todir>>
      BY <2>1 DEF Handled
    <3> QED
      BY <1>2, <1>3, <1>4, <2>1, <3>1
  <2>2. CASE call[t].proc # "RENAME"
    <3>1. dirs = <<From(t)>> /\ Handled(t) = <<call[t].dir>>
      BY <2>2 DEF Handled
    <3> QED
      BY <1>2, <1>4, <3>1
  <2> QED
    BY <2>1, <2>2
<1>5. call'[t] = call[t] /\ stale'[t] = stale[t] => Straight(t)'
  BY <1>1, <1>4 DEF Straight, There, Handled
<1>6. QED
  BY <1>1, <1>5

\* A LOOKUP looks where its handle is.
LEMMA LookupRight ==
  ASSUME RInv, IInv', NEW t \in Thread, Lookup(t)
  PROVE  \A u \in Thread : Right(u)'
<1>1. /\ pc[t] = "act" /\ call[t].proc = "LOOKUP" /\ Acted(t, <<From(t)>>, FALSE)
      /\ UNCHANGED <<place, gone, call, paths, made, stale>>
  BY DEF Lookup, At, tree
<1>2. PICK result : Finish(t, result)
  BY DEF Lookup
<1>3. /\ call'[t] = call[t] /\ stale'[t] = stale[t] => Straight(t)'
      /\ acted'[t] = FALSE
      /\ \A u \in Thread : u # t => acted'[u] = acted[u] /\ where'[u] = where[u] /\ unnamed'[u] = unnamed[u]
  BY <1>1, ActsThere
<1>4. made[t] = None
  BY <1>1 DEF RInv, Right, MadeKnown
<1>5. Right(t)'
  BY <1>1, <1>2, <1>3, <1>4, OverRight DEF IInv
<1>6. \A u \in Thread : u # t => pc'[u] = pc[u] /\ reply'[u] = reply[u]
  BY <1>2 DEF Finish, Goto, RInv, IInv, Typed
<1>7. QED
  BY <1>1, <1>3, <1>5, <1>6, OneCall DEF tree

-----------------------------------------------------------------------------
(* The acts that change the tree. *)

\* Where the directory of a chain is open, and its path asked for.
LEMMA DirsHeld ==
  ASSUME NEW u \in Thread
  PROVE  /\ Asked(u) => call[u].dir \in Held(u) /\ call[u].dir \in Pathed(u)
         /\ AskedTo(u) => call[u].todir \in Held(u) /\ call[u].todir \in Pathed(u)
BY DEF Asked, AskedTo, Held, Pathed

\* What is new is in nobody's way.
LEMMA MakeTree ==
  ASSUME RInv, NEW o \in Object \ (Live \cup gone), NEW d \in Live, d \in Directory, NEW name \in Name,
         Child(d, name) = {}, Put(o, d, name)
  PROVE  /\ IsTree(place')
         /\ \A h \in Live : h \in Live' /\ PathTo(h)' = PathTo(h)
         /\ \A x \in DOMAIN place : x \in DOMAIN place' /\ place'[x] = place[x]
         /\ o \in DOMAIN place' /\ place'[o] = [dir |-> d, name |-> name]
<1>1. Placed(place) /\ IsTree(place)
  BY DEF RInv, IInv, Typed, Placed
<1>2. o \notin DOMAIN place /\ o \in Object \ {Root}
  BY DEF Live
<1>3. place' = [x \in DOMAIN place \cup {o} |-> IF x = o THEN [dir |-> d, name |-> name] ELSE place[x]]
  BY DEF Put
<1>4. \A x \in DOMAIN place : place[x] # [dir |-> d, name |-> name]
  BY DEF Child
<1>5. PICK n, c : Chain(place, n, c, d)
  BY <1>1, HasChain DEF Live
<1>6. \A i \in 0 .. n : c[i] # o
  BY <1>1, <1>2, <1>5, OnChain
<1>7. Placed(place') /\ IsTree(place')
  BY <1>1, <1>2, <1>3, <1>4, <1>5, <1>6, TreePut
<1>8. /\ \A x \in DOMAIN place : x \in DOMAIN place' /\ place'[x] = place[x]
      /\ o \in DOMAIN place' /\ place'[o] = [dir |-> d, name |-> name]
  BY <1>2, <1>3
<1>9. ASSUME NEW h \in Live PROVE h \in Live' /\ PathTo(h)' = PathTo(h)
  <2>1. PICK m, e : Chain(place, m, e, h)
    BY <1>1, HasChain DEF Live
  <2>2. \A i \in 1 .. m : e[i] \in DOMAIN place
    BY <2>1 DEF Chain
  <2>3. h \in DOMAIN place' \cup {Root} /\ PathIn(place', h) = PathIn(place, h)
    BY <1>1, <1>7, <1>8, <2>1, <2>2, PathStays
  <2>4. QED
    BY <2>3, PathOf DEF Live
<1>10. QED
  BY <1>7, <1>8, <1>9

\* What is removed has nothing beneath it.
LEMMA RemoveTree ==
  ASSUME RInv, NEW o \in DOMAIN place, Removable(o), Drop(o)
  PROVE  /\ IsTree(place')
         /\ \A h \in Live \ {o} : h \in Live' /\ PathTo(h)' = PathTo(h)
         /\ \A x \in DOMAIN place \ {o} : x \in DOMAIN place' /\ place'[x] = place[x]
<1>1. Placed(place) /\ IsTree(place)
  BY DEF RInv, IInv, Typed, Placed
<1>2. \A x \in DOMAIN place : place[x].dir # o
  <2>1. \A x \in DOMAIN place : place[x].dir \in Directory
    BY <1>1 DEF Placed, Place
  <2>2. QED
    BY <2>1 DEF Removable
<1>3. place' = [x \in DOMAIN place \ {o} |-> place[x]]
  BY DEF Drop
<1>4. Placed(place') /\ IsTree(place')
  BY <1>1, <1>2, <1>3, TreeDrop
<1>5. \A x \in DOMAIN place \ {o} : x \in DOMAIN place' /\ place'[x] = place[x]
  BY <1>3
<1>6. ASSUME NEW h \in Live \ {o} PROVE h \in Live' /\ PathTo(h)' = PathTo(h)
  <2>1. PICK m, e : Chain(place, m, e, h)
    BY <1>1, HasChain DEF Live
  <2>2. m \in Nat
    BY <2>1 DEF Chain
  <2>3. ASSUME NEW i \in 1 .. m PROVE e[i] \in DOMAIN place \ {o}
    <3>1. CASE i = m
      BY <2>1, <3>1 DEF Chain
    <3>2. CASE i # m
      <4>1. i + 1 \in 1 .. m /\ (i + 1) - 1 = i
        BY <2>2, <3>2
      <4>2. e[i] \in DOMAIN place /\ e[i + 1] \in DOMAIN place /\ place[e[i + 1]].dir = e[i]
        BY <2>1, <4>1 DEF Chain
      <4>3. QED
        BY <1>2, <4>2
    <3>3. QED
      BY <3>1, <3>2
  <2>4. h \in DOMAIN place' \cup {Root} /\ PathIn(place', h) = PathIn(place, h)
    BY <1>1, <1>4, <1>5, <2>1, <2>3, PathStays
  <2>5. QED
    BY <2>4, PathOf DEF Live
<1>7. QED
  BY <1>4, <1>5, <1>6

\* What is moved takes along what is beneath it, and nothing else.
LEMMA MoveTree ==
  ASSUME RInv, NEW o \in DOMAIN place, NEW d \in Live, d \in Directory, NEW name \in Name,
         Child(d, name) \subseteq {o}, d # o, ~Beneath(d, o), Put(o, d, name)
  PROVE  /\ IsTree(place')
         /\ Live' = Live
         /\ \A h \in Live : h # o /\ ~Beneath(h, o) => PathTo(h)' = PathTo(h)
         /\ \A x \in DOMAIN place \ {o} : x \in DOMAIN place' /\ place'[x] = place[x]
<1>1. Placed(place) /\ IsTree(place)
  BY DEF RInv, IInv, Typed, Placed
<1>2. o \in Object \ {Root}
  BY <1>1 DEF Placed
<1>3. place' = [x \in DOMAIN place \cup {o} |-> IF x = o THEN [dir |-> d, name |-> name] ELSE place[x]]
  BY DEF Put
<1>4. \A x \in DOMAIN place : place[x] = [dir |-> d, name |-> name] => x = o
  BY DEF Child
<1>5. PICK n, c : Chain(place, n, c, d)
  BY <1>1, HasChain DEF Live
<1>6. \A i \in 0 .. n : c[i] # o
  BY <1>1, <1>5, NotBeneath
<1>7. Placed(place') /\ IsTree(place')
  BY <1>1, <1>2, <1>3, <1>4, <1>5, <1>6, TreePut
<1>8. /\ Live' = Live
      /\ \A x \in DOMAIN place \ {o} : x \in DOMAIN place' /\ place'[x] = place[x]
  BY <1>3 DEF Live
<1>9. ASSUME NEW h \in Live, h # o, ~Beneath(h, o) PROVE PathTo(h)' = PathTo(h)
  <2>1. PICK m, e : Chain(place, m, e, h)
    BY <1>1, HasChain DEF Live
  <2>2. \A i \in 0 .. m : e[i] # o
    BY <1>1, <1>9, <2>1, NotBeneath
  <2>3. \A i \in 1 .. m : e[i] \in DOMAIN place \ {o}
    BY <2>1, <2>2 DEF Chain
  <2>4. PathIn(place', h) = PathIn(place, h)
    BY <1>1, <1>7, <1>8, <2>1, <2>3, PathStays
  <2>5. QED
    BY <2>4, PathOf
<1>10. QED
  BY <1>7, <1>8, <1>9

\* CREATE and MKDIR know what they have made, and disturb no call.
LEMMA MakeRight ==
  ASSUME RInv, IInv', NEW t \in Thread, Create(t) \/ MkDir(t)
  PROVE  IsTree(place') /\ \A u \in Thread : Right(u)'
<1>1. /\ pc[t] = "act" /\ call[t].proc \in {"CREATE", "MKDIR"} /\ Acted(t, <<From(t)>>, TRUE)
      /\ From(t) \in Directory /\ Child(From(t), call[t].name) = {}
      /\ UNCHANGED <<gone, call, paths, stale>>
  BY DEF Create, MkDir, At
<1>2. PICK o \in Object \ (Live \cup gone) :
        /\ Put(o, From(t), call[t].name) /\ made' = [made EXCEPT ![t] = o]
        /\ \/ call[t].proc = "CREATE" /\ \E handle \in Identified(o) : Finish(t, Result("OK", handle, {}))
           \/ call[t].proc = "MKDIR" /\ Goto(t, "reopen") /\ UNCHANGED reply
  BY DEF Create, MkDir, At, Fresh, Object
<1>3. From(t) \in Live /\ call[t].name \in Name
  BY <1>1, WhereItActs, BegunCall DEF RInv, Object
<1>4. /\ IsTree(place')
      /\ \A h \in Live : h \in Live' /\ PathTo(h)' = PathTo(h)
      /\ \A x \in DOMAIN place : x \in DOMAIN place' /\ place'[x] = place[x]
      /\ o \in DOMAIN place' /\ place'[o] = [dir |-> From(t), name |-> call[t].name]
  BY <1>1, <1>2, <1>3, MakeTree
<1>5. /\ call'[t] = call[t] /\ stale'[t] = stale[t] => Straight(t)'
      /\ acted'[t] = TRUE
      /\ \A u \in Thread : u # t => acted'[u] = acted[u] /\ where'[u] = where[u] /\ unnamed'[u] = unnamed[u]
  BY <1>1, ActsThere
<1>6. /\ made'[t] = o
      /\ \A u \in Thread : u # t => pc'[u] = pc[u] /\ reply'[u] = reply[u] /\ made'[u] = made[u]
  BY <1>2 DEF Finish, Goto, RInv, IInv, Typed
<1>7. \A u \in Thread : Right(u)
  BY DEF RInv
<1>8. ASSUME NEW u \in Thread PROVE stale[u] \/ Held(u) \subseteq Live
  BY <1>7 DEF Right, PathKnown
<1>9. ASSUME NEW u \in Thread, u # t PROVE Right(u)'
  <2>1. /\ stale'[u] = stale[u] /\ call'[u] = call[u] /\ paths'[u] = paths[u]
    BY <1>1
  <2>2. stale[u] \/ (Asked(u) => PathTo(call[u].dir)' = PathTo(call[u].dir))
    BY <1>4, <1>8, <2>1, DirsHeld
  <2>3. stale[u] \/ (AskedTo(u) => PathTo(call[u].todir)' = PathTo(call[u].todir))
    BY <1>4, <1>8, <2>1, DirsHeld
  <2>4. stale[u] \/ Held(u) \subseteq Live'
    BY <1>4, <1>8
  <2>5. QED
    BY <1>4, <1>5, <1>6, <1>7, <1>9, <2>1, <2>2, <2>3, <2>4, OthersStay
<1>10. CASE call[t].proc = "CREATE"
  <2>1. PICK result : Finish(t, result) /\ result.status = "OK" /\ result.object \in {o, None}
    BY <1>2, <1>10 DEF Result, Identified
  <2>2. Right(t)'
    BY <1>1, <1>5, <1>6, <2>1, OverRight DEF IInv
  <2>3. QED
    BY <1>4, <1>9, <2>2
<1>11. CASE call[t].proc = "MKDIR"
  <2>1. pc'[t] = "reopen" /\ call'[t] = call[t] /\ paths'[t] = paths[t] /\ stale'[t] = stale[t]
    BY <1>1, <1>2, <1>11 DEF Goto, RInv, IInv, Typed
  <2>2. Held(t) = {call[t].dir} /\ Held(t)' = {call[t].dir} /\ Asked(t)
    BY <1>1, <1>11, <2>1 DEF Held, Asked
  <2>3. call[t].dir \in Live => PathTo(call[t].dir)' = PathTo(call[t].dir)
    BY <1>4, <2>1
  <2>4. stale[t] \/ From(t) = Aim(t)'
    BY <1>1, WhereItActs DEF Aim
  <2>5. stale[t] \/ (call[t].dir \in Live /\ call[t].dir \in Live')
    BY <1>4, <1>8, <2>2
  <2>6. PathKnown(t)'
    <3>1. Known(t, paths[t][1], call[t].dir)
      BY <1>7, <2>2 DEF Right, PathKnown
    <3>2. unnamed'[t] = unnamed[t]
      BY <1>1 DEF Acted
    <3>3. Known(t, paths[t][1], call[t].dir)'
      BY <2>1, <2>3, <2>5, <3>1, <3>2 DEF Known
    <3>4. ~AskedTo(t)' /\ (stale[t] \/ Held(t) \subseteq Live)'
      BY <2>1, <2>2, <2>5 DEF AskedTo
    <3> QED
      BY <3>3, <3>4 DEF PathKnown
  <2>7. MadeKnown(t)'
    BY <1>4, <1>5, <1>6, <1>11, <2>1, <2>4 DEF MadeKnown
  <2>8. Straight(t)' /\ Told(t)'
    BY <1>5, <2>1 DEF Told, Over
  <2>9. QED
    BY <1>4, <1>9, <2>6, <2>7, <2>8 DEF Right
<1>12. QED
  BY <1>1, <1>10, <1>11

\* A call whose directory is removed, or whose directory was renamed since it knew the path,
\* is told; others keep what they know.
LEMMA DeleteRight ==
  ASSUME RInv, IInv', NEW t \in Thread, Delete(t)
  PROVE  IsTree(place') /\ \A u \in Thread : Right(u)'
<1>1. /\ pc[t] = "act" /\ call[t].proc \in {"REMOVE", "RMDIR"} /\ Acted(t, <<From(t)>>, TRUE)
      /\ Finish(t, Result("OK", None, {}))
      /\ UNCHANGED <<call, paths, made>>
  BY DEF Delete, At
<1>2. PICK o \in DOMAIN place : Removable(o) /\ Drop(o) /\ Displaced(t, o, TRUE)
  BY DEF Delete, Child
<1>3. /\ IsTree(place')
      /\ \A h \in Live \ {o} : h \in Live' /\ PathTo(h)' = PathTo(h)
      /\ \A x \in DOMAIN place \ {o} : x \in DOMAIN place' /\ place'[x] = place[x]
  BY <1>2, RemoveTree
<1>4. /\ call'[t] = call[t] /\ stale'[t] = stale[t] => Straight(t)'
      /\ acted'[t] = TRUE
      /\ \A u \in Thread : u # t => acted'[u] = acted[u] /\ where'[u] = where[u] /\ unnamed'[u] = unnamed[u]
  BY <1>1, ActsThere
<1>5. \A u \in Thread : u # t => pc'[u] = pc[u] /\ reply'[u] = reply[u]
  BY <1>1 DEF Finish, Goto, RInv, IInv, Typed
<1>6. \A u \in Thread : Right(u)
  BY DEF RInv
<1>7. \A u \in Thread : stale'[u] = (stale[u] \/ (u # t /\ (o \in Pathed(u) \/ o \in Held(u))))
  BY <1>2 DEF Displaced
<1>8. ASSUME NEW u \in Thread, u # t PROVE Right(u)'
  <2>1. call'[u] = call[u] /\ paths'[u] = paths[u] /\ made'[u] = made[u] /\ (stale[u] => stale'[u])
    BY <1>1, <1>7
  <2>2. stale'[u] \/ (Held(u) \subseteq Live /\ o \notin Held(u) /\ o \notin Pathed(u))
    BY <1>6, <1>7, <1>8 DEF Right, PathKnown
  <2>3. stale'[u] \/ (Asked(u) => PathTo(call[u].dir)' = PathTo(call[u].dir))
    BY <1>3, <2>1, <2>2, DirsHeld
  <2>4. stale'[u] \/ (AskedTo(u) => PathTo(call[u].todir)' = PathTo(call[u].todir))
    BY <1>3, <2>1, <2>2, DirsHeld
  <2>5. stale'[u] \/ Held(u) \subseteq Live'
    BY <1>3, <2>2
  <2>6. stale'[u] \/ (made[u] \in DOMAIN place => made[u] \in DOMAIN place' /\ place'[made[u]] = place[made[u]])
    <3>1. made[u] \in DOMAIN place => made[u] # None
      BY DEF RInv, IInv, Typed, Object
    <3>2. made[u] # None => made[u] \in Pathed(u)
      BY DEF Pathed
    <3>3. QED
      BY <1>3, <2>2, <3>1, <3>2
  <2>7. QED
    BY <1>4, <1>5, <1>6, <1>8, <2>1, <2>3, <2>4, <2>5, <2>6, OthersStay
<1>9. Right(t)'
  <2>1. made[t] = None
    BY <1>1, <1>6 DEF Right, MadeKnown
  <2> DEFINE result == Result("OK", None, {})
  <2>2. Finish(t, result) /\ result.status = "OK"
    BY <1>1 DEF Result
  <2> HIDE DEF result
  <2>3. stale'[t] = stale[t]
    <3>1. stale[t] \in BOOLEAN
      BY DEF RInv, IInv, Typed
    <3>2. stale'[t] = (stale[t] \/ FALSE)
      BY <1>7
    <3>3. QED
      BY <3>1, <3>2
  <2>4. call'[t] = call[t] /\ made'[t] = None
    BY <1>1, <2>1
  <2>5. QED
    BY <1>1, <1>4, <2>2, <2>3, <2>4, OverRight DEF IInv
<1>10. QED
  BY <1>3, <1>8, <1>9

\* Nothing is moved beneath which something is open, save what is told.
LEMMA RenameRight ==
  ASSUME RInv, IInv', NEW t \in Thread, Rename(t)
  PROVE  IsTree(place') /\ \A u \in Thread : Right(u)'
<1>1. /\ pc[t] = "act" /\ call[t].proc = "RENAME" /\ Acted(t, <<From(t), To(t)>>, TRUE)
      /\ Finish(t, Result("OK", None, {})) /\ To(t) \in Directory
      /\ UNCHANGED <<call, paths, made>>
  BY DEF Rename, At
<1>2. PICK o \in DOMAIN place :
        /\ Child(To(t), call[t].toname) \subseteq {o}
        /\ Movable(o) /\ To(t) # o /\ ~Beneath(To(t), o)
        /\ Put(o, To(t), call[t].toname)
        /\ Displaced(t, o, FALSE)
  BY DEF Rename, Child
<1>3. To(t) \in Live /\ call[t].toname \in Name
  BY <1>1, WhereItActs, BegunCall DEF RInv, Object, AskedTo
<1>4. /\ IsTree(place')
      /\ Live' = Live
      /\ \A h \in Live : h # o /\ ~Beneath(h, o) => PathTo(h)' = PathTo(h)
      /\ \A x \in DOMAIN place \ {o} : x \in DOMAIN place' /\ place'[x] = place[x]
  BY <1>1, <1>2, <1>3, MoveTree
<1>5. /\ call'[t] = call[t] /\ stale'[t] = stale[t] => Straight(t)'
      /\ acted'[t] = TRUE
      /\ \A u \in Thread : u # t => acted'[u] = acted[u] /\ where'[u] = where[u] /\ unnamed'[u] = unnamed[u]
  BY <1>1, ActsThere
<1>6. \A u \in Thread : u # t => pc'[u] = pc[u] /\ reply'[u] = reply[u]
  BY <1>1 DEF Finish, Goto, RInv, IInv, Typed
<1>7. \A u \in Thread : Right(u)
  BY DEF RInv
<1>8. \A u \in Thread : stale'[u] = (stale[u] \/ (u # t /\ o \in Pathed(u)))
  BY <1>2 DEF Displaced
<1>9. ASSUME NEW u \in Thread, u # t PROVE Right(u)'
  <2>1. call'[u] = call[u] /\ paths'[u] = paths[u] /\ made'[u] = made[u] /\ (stale[u] => stale'[u])
    BY <1>1, <1>8
  <2>2. stale'[u] \/ (Held(u) \subseteq Live /\ o \notin Pathed(u))
    BY <1>7, <1>8, <1>9 DEF Right, PathKnown
  <2>3. \A h \in Held(u) : ~Beneath(h, o)
    BY <1>2 DEF Movable
  <2>4. stale'[u] \/ (Asked(u) => PathTo(call[u].dir)' = PathTo(call[u].dir))
    BY <1>4, <2>1, <2>2, <2>3, DirsHeld
  <2>5. stale'[u] \/ (AskedTo(u) => PathTo(call[u].todir)' = PathTo(call[u].todir))
    BY <1>4, <2>1, <2>2, <2>3, DirsHeld
  <2>6. stale'[u] \/ Held(u) \subseteq Live'
    BY <1>4, <2>2
  <2>7. stale'[u] \/ (made[u] \in DOMAIN place => made[u] \in DOMAIN place' /\ place'[made[u]] = place[made[u]])
    <3>1. made[u] \in DOMAIN place => made[u] # None
      BY DEF RInv, IInv, Typed, Object
    <3>2. made[u] # None => made[u] \in Pathed(u)
      BY DEF Pathed
    <3>3. QED
      BY <1>4, <2>2, <3>1, <3>2
  <2>8. QED
    BY <1>5, <1>6, <1>7, <1>9, <2>1, <2>4, <2>5, <2>6, <2>7, OthersStay
<1>10. Right(t)'
  <2>1. made[t] = None
    BY <1>1, <1>7 DEF Right, MadeKnown
  <2> DEFINE result == Result("OK", None, {})
  <2>2. Finish(t, result) /\ result.status = "OK"
    BY <1>1 DEF Result
  <2> HIDE DEF result
  <2>3. stale'[t] = stale[t]
    <3>1. stale[t] \in BOOLEAN
      BY DEF RInv, IInv, Typed
    <3>2. stale'[t] = (stale[t] \/ FALSE)
      BY <1>8
    <3>3. QED
      BY <3>1, <3>2
  <2>4. call'[t] = call[t] /\ made'[t] = None
    BY <1>1, <2>1
  <2>5. QED
    BY <1>1, <1>5, <2>2, <2>3, <2>4, OverRight DEF IInv
<1>11. QED
  BY <1>4, <1>9, <1>10

\* No call, nothing known.
LEMMA InitRInv ==
  ASSUME Init
  PROVE  RInv
<1>1. IInv /\ IsTree(place) /\ DOMAIN reply = Thread
  BY InitIInv, TreeAssumption DEF Init
<1>2. \A t \in Thread : Right(t)
  BY DEF Init, Right, PathKnown, MadeKnown, Straight, Told, Over, Asked, AskedTo, Held
<1>3. QED
  BY <1>1, <1>2 DEF RInv

\* Every step keeps what the calls know right.
LEMMA StepRInv ==
  ASSUME RInv, [Next]_vars
  PROVE  RInv'
<1>1. IInv'
  BY StepIInv DEF RInv
<1>2. (DOMAIN reply = Thread)'
  BY DEF RInv, Next, Step, Begin, Refuse, Answer, Deny, Open, AskPath, Lookup, Create, MkDir,
         MkDirHandle, Delete, Rename, ActFails, Finish, vars
<1>3. ASSUME NEW t \in Thread, Refuse(t) \/ Answer(t) \/ Deny(t) \/ MkDirHandle(t) \/ ActFails(t)
      PROVE  IsTree(place') /\ \A u \in Thread : Right(u)'
  <2>1. place' = place
    BY <1>3 DEF Refuse, Answer, Deny, MkDirHandle, ActFails, tree
  <2>2. QED
    BY <1>1, <1>3, <2>1, EndRight DEF RInv
<1>4. ASSUME NEW t \in Thread, Open(t) \/ AskPath(t) \/ Lookup(t)
      PROVE  IsTree(place') /\ \A u \in Thread : Right(u)'
  <2>1. place' = place
    BY <1>4 DEF Open, AskPath, Lookup, tree
  <2>2. QED
    BY <1>1, <1>4, <2>1, OpenRight, AskPathRight, LookupRight DEF RInv
<1>5. ASSUME NEW t \in Thread, NEW c \in Calls, Begin(t, c)
      PROVE  IsTree(place') /\ \A u \in Thread : Right(u)'
  <2>1. place' = place
    BY <1>5 DEF Begin, tree
  <2>2. QED
    BY <1>5, <2>1, BeginRight DEF RInv
<1>6. CASE UNCHANGED vars
  <2>1. place' = place
    BY <1>6 DEF vars, tree
  <2>2. \A o : PathTo(o)' = PathTo(o)
    BY <2>1, PathOf
  <2>3. ASSUME NEW u \in Thread PROVE Right(u)'
    <3>1. /\ call'[u] = call[u] /\ pc'[u] = pc[u] /\ Live' = Live
          /\ UNCHANGED <<place, paths, made, reply, acted, where, stale, unnamed>>
      BY <1>6 DEF vars, tree, history, Live
    <3>2. /\ PathTo(call[u].dir)' = PathTo(call[u].dir)
          /\ PathTo(call[u].todir)' = PathTo(call[u].todir)
      BY <2>2, <3>1
    <3>3. Right(u)
      BY DEF RInv
    <3>4. stale'[u] \/ Held(u) \subseteq Live'
      BY <3>1, <3>3 DEF Right, PathKnown
    <3>5. QED
      BY <3>1, <3>2, <3>3, <3>4, OthersStay
  <2>4. QED
    BY <1>1, <1>2, <2>1, <2>3 DEF RInv
<1>7. QED
  BY <1>1, <1>2, <1>3, <1>4, <1>5, <1>6, MakeRight, DeleteRight, RenameRight DEF Next, Step, RInv

\* What the calls know is right in every state.
LEMMA RightAlways == Spec => []RInv
BY InitRInv, StepRInv, PTL DEF Spec

\* Types; a call acts with one path for each of its directories, and what MKDIR has made is
\* where its path leads until it opens it (nfs3.cpp:1231-1263, 1341-1349, 1585-1602).
THEOREM TypeCorrect == Spec => []TypeOK
<1>1. RInv => TypeOK
  <2> SUFFICES ASSUME RInv PROVE TypeOK
    OBVIOUS
  <2>1. ASSUME NEW t \in Thread, pc[t] = "reopen", ~stale[t] PROVE made[t] \in Child(From(t), call[t].name)
    <3>1. made[t] \in DOMAIN place /\ place[made[t]] = [dir |-> Aim(t), name |-> call[t].name]
      BY <2>1 DEF RInv, Right, MadeKnown
    <3>2. From(t) = Aim(t)
      BY <2>1, WhereItActs
    <3> QED
      BY <3>1, <3>2 DEF Child
  <2> QED
    BY <2>1 DEF RInv, IInv, Typed, PathsAsked, TypeOK
<1> QED
  BY <1>1, RightAlways, PTL

\* In any tree of names, with any number of calls at once, a call that is not stale acts in the
\* directories its handles name, or at the root of the drive for one the system gave no path for
\* (nfs3.cpp:1231, 1263 and the others like them).
THEOREM ActsWhereAsked == Spec => []ActsWhereNamed
<1>1. RInv => ActsWhereNamed
  BY DEF RInv, Right, Straight, There, ActsWhereNamed
<1> QED
  BY <1>1, RightAlways, PTL

\* OK is what was done, an error what was not, save for a MKDIR that cannot open what it has made;
\* the handle of a new object is its own or nobody's, save for a MKDIR that opens by name what
\* others have displaced (nfs3.cpp:1266-1281, 1341-1363, 1423-1430, 1605-1613).
THEOREM OutcomesTold == Spec => []OutcomeTold
<1>1. RInv => OutcomeTold
  BY DEF RInv, Right, Told, OutcomeTold
<1> QED
  BY <1>1, RightAlways, PTL

\* The directories whose entries a call changes are such that ACCESS grants it, unless others
\* made the call stale, or it changes the root of the drive for want of a path
\* (nfs3.cpp:995-1007 against 1257-1266 and the others).
THEOREM AccessIsKept == Spec => []AccessKept
<1>1. RInv => AccessKept
  <2> SUFFICES ASSUME RInv, NEW t \in Thread, acted[t], ~stale[t], NEW d \in ToSet(where[t])
               PROVE  \/ {"MODIFY", "EXTEND"} \subseteq Granted(d, Bits)
                      \/ d = Root /\ unnamed[t] # {}
    BY DEF AccessKept
  <2>1. PICK i \in DOMAIN where[t] : d = where[t][i]
    BY DEF ToSet
  <2>2. i \in DOMAIN Handled(t) /\ (d = Handled(t)[i] \/ (d = Root /\ unnamed[t] # {}))
    BY <2>1 DEF RInv, Right, Straight, There
  <2>3. call[t].proc # "LOOKUP" /\ ~Protected(call[t].dir) /\ (call[t].proc = "RENAME" => ~Protected(call[t].todir))
    BY DEF RInv, IInv, Unprotected
  <2>4. ~Protected(Handled(t)[i])
    <3>1. CASE call[t].proc = "RENAME"
      <4>1. Handled(t) = <<call[t].dir, call[t].todir>>
        BY <3>1 DEF Handled
      <4> QED
        BY <2>2, <2>3, <3>1, <4>1
    <3>2. CASE call[t].proc # "RENAME"
      <4>1. Handled(t) = <<call[t].dir>>
        BY <3>2 DEF Handled
      <4> QED
        BY <2>2, <2>3, <4>1
    <3> QED
      BY <3>1, <3>2
  <2>5. \A o : ~Protected(o) => {"MODIFY", "EXTEND"} \subseteq Granted(o, Bits)
    BY DEF Protected, Granted, Bits
  <2> QED
    BY <2>2, <2>4, <2>5
<1> QED
  BY <1>1, RightAlways, PTL

=============================================================================
