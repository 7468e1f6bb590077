------------------------------ MODULE Nfs3Names ------------------------------
(***************************************************************************)
(* The NFS procedures that deal with names (nfs3.cpp:869-1054, 1207-1618): *)
(* LOOKUP, CREATE, MKDIR, REMOVE, RMDIR and RENAME, and the answers of     *)
(* ACCESS and READLINK, run by the threads of the server at the same time. *)
(*                                                                         *)
(* A call opens its directory by id and looks at its attributes, asks for  *)
(* the path of the open directory, and then acts on that path.  Others run *)
(* between these steps.                                                    *)
(*                                                                         *)
(* External: the rules of Windows.  A directory may not be moved while     *)
(* something beneath it is open, though it may be while it is open itself; *)
(* nothing is moved or created where something is; any call of the system  *)
(* may fail, and when it is asked for a path the path is then empty.       *)
(* Attributes do not change.  Users of the machine are threads too: their  *)
(* moves and removals are those of RENAME and RMDIR.                       *)
(***************************************************************************)
EXTENDS Integers, Sequences, SequencesExt

CONSTANTS
  Thread,     \* threads of the server
  None,       \* no object, no call
  Directory, File,  \* objects there are, were or will be
  Root,       \* the root of the server's drive: where paths start and the empty path leads
  Name, Dot, Slashed,  \* names of entries, "." and a name with a slash in it
  Attributes, \* which of "readonly", "system" and "reparse" an object has
  Entries,    \* what is where at the start
  Calls,      \* the calls made, some of Call
  MaxCalls    \* bound: calls in all

VARIABLES
  place,      \* of the objects there are, without Root: directory and name
  gone,       \* the objects that have been removed
  call,       \* the arguments of the call a thread runs
  pc,         \* where in the call it is
  paths,      \* the paths of its directories, as far as it has asked for them
  made,       \* the object it has created
  reply,      \* the result of its last call
  acted,      \* history: the call has changed the tree
  where,      \* history: the directories it has acted in
  stale,      \* history: others moved or removed what it goes by the path of, or removed
              \* a directory it had open
  unnamed,    \* history: its directories the system gave no path for, though they have one
  begun       \* calls begun

tree == <<place, gone>>
history == <<acted, where, stale, unnamed>>
vars == <<tree, call, pc, paths, made, reply, history, begun>>

Object == Directory \cup File
Place == [dir : Directory, name : Name]
Bits == {"READ", "LOOKUP", "MODIFY", "EXTEND", "DELETE", "EXECUTE"}

Call ==
  [proc : {"LOOKUP"}, dir : Object, name : Name \cup {Dot, Slashed}]
    \cup [proc : {"CREATE"}, dir : Object, name : Name, how : {"UNCHECKED", "GUARDED", "EXCLUSIVE"}]
    \cup [proc : {"MKDIR", "REMOVE", "RMDIR"}, dir : Object, name : Name]
    \cup [proc : {"RENAME"}, dir : Object, name : Name, todir : Object, toname : Name]
    \cup [proc : {"ACCESS"}, dir : Object, access : SUBSET Bits]
    \cup [proc : {"READLINK"}, dir : Object]

ASSUME NamesAssumption ==
  /\ Root \in Directory /\ Directory \cap File = {} /\ None \notin Object \cup Call
  /\ Attributes \in [Object -> SUBSET {"readonly", "system", "reparse"}]
  /\ DOMAIN Entries \subseteq Object \ {Root} /\ Entries \in [DOMAIN Entries -> Place]
  /\ Calls \subseteq Call /\ MaxCalls \in Nat

\* Names make a tree: no two objects are at one place, each is in a directory there is, and
\* nothing is beneath itself.
IsTree(names) ==
  /\ \A x, y \in DOMAIN names : names[x] = names[y] => x = y
  /\ \A x \in DOMAIN names : names[x].dir \in DOMAIN names \cup {Root}
  /\ \A S \in SUBSET DOMAIN names : S # {} => \E x \in S : names[x].dir \notin S

ASSUME TreeAssumption == IsTree(Entries)

Result(status, object, access) == [status |-> status, object |-> object, access |-> access]
Failure(status) == Result(status, None, {})
NoReply == Failure("none")

-----------------------------------------------------------------------------
(* The tree of names *)

Live == DOMAIN place \cup {Root}
Fresh(kind) == kind \ (Live \cup gone)
Child(d, n) == {o \in DOMAIN place : place[o] = [dir |-> d, name |-> n]}

\* What is at a path, or None.
Resolve(path) ==
  FoldLeft(LAMBDA d, n : IF Child(d, n) = {} THEN None ELSE CHOOSE o \in Child(d, n) : TRUE, Root, path)

\* The path of an object; what is no more has none.
PathTo(o) ==
  LET p[x \in Object] ==
        IF x \notin DOMAIN place THEN <<>> ELSE Append(p[place[x].dir], place[x].name)
  IN p[o]

\* What GetFinalPathNameByHandle may answer: for a live object too the path may be empty.
fullpath(o) == {PathTo(o), <<>>}

Beneath(o, d) == \E i \in 1 .. Len(PathTo(o)) : Resolve(SubSeq(PathTo(o), 1, i - 1)) = d

\* Mutant of Held: a directory is closed once its path is known.
HeldBriefly(t) ==
  CASE pc[t] = "path" -> {call[t].dir} [] pc[t] = "topath" -> {call[t].todir} [] OTHER -> {}

\* The directories a call has open.
Held(t) ==
  (IF pc[t] \in {"path", "toopen", "topath", "act", "reopen"} THEN {call[t].dir} ELSE {})
    \cup (IF pc[t] = "topath" \/ (pc[t] = "act" /\ call[t].proc = "RENAME") THEN {call[t].todir} ELSE {})

\* The objects whose path it goes by.
Pathed(t) ==
  (IF pc[t] \in {"toopen", "topath", "act", "reopen"} THEN {call[t].dir} ELSE {})
    \cup (IF pc[t] = "act" /\ call[t].proc = "RENAME" THEN {call[t].todir} ELSE {})
    \cup ({made[t]} \ {None})

Movable(o) == \A t \in Thread : \A h \in Held(t) : ~Beneath(h, o)

\* Object o leaves its place by a step of thread t, for good if removed.
Displaced(t, o, removed) ==
  stale' = [u \in Thread |->
    stale[u] \/ (u # t /\ o \in Pathed(u)) \/ (u # t /\ removed /\ o \in Held(u))]

-----------------------------------------------------------------------------
(* Steps of a call *)

Goto(t, there) == pc' = [pc EXCEPT ![t] = there]

Finish(t, result) ==
  /\ reply' = [reply EXCEPT ![t] = result]
  /\ Goto(t, "done")

Begin(t, c) ==
  /\ pc[t] \in {"idle", "done"}
  /\ begun < MaxCalls
  /\ c.dir \in Live \cup gone
  /\ begun' = begun + 1
  /\ call' = [call EXCEPT ![t] = c]
  /\ paths' = [paths EXCEPT ![t] = <<>>]
  /\ made' = [made EXCEPT ![t] = None]
  /\ reply' = [reply EXCEPT ![t] = NoReply]
  /\ acted' = [acted EXCEPT ![t] = FALSE]
  /\ where' = [where EXCEPT ![t] = <<>>]
  /\ stale' = [stale EXCEPT ![t] = FALSE]
  /\ unnamed' = [unnamed EXCEPT ![t] = {}]
  /\ Goto(t, "open")
  /\ UNCHANGED tree

\* The mount is gone, the handle is of another volume, or the attributes cannot be had.
Refuse(t) ==
  /\ pc[t] \in {"open", "toopen"}
  /\ \E status \in {"ERR_BADHANDLE", "ERR_IO"} : Finish(t, Failure(status))
  /\ UNCHANGED <<tree, call, paths, made, history, begun>>

\* Mutant of Protected: a read only directory is one like others.
ProtectedLess(o) == Attributes[o] \cap {"reparse", "system"} # {}

Protected(o) == Attributes[o] # {}

Granted(o, asked) ==
  IF "system" \in Attributes[o] THEN {}
  ELSE asked \ ((IF "readonly" \in Attributes[o] THEN {"MODIFY", "EXTEND"} ELSE {})
                  \cup IF o \in Directory THEN {"EXECUTE"} ELSE {"LOOKUP", "DELETE"})

\* What the checks of an opened directory say to a call.
Checked(c, o) ==
  IF c.proc = "CREATE" /\ c.how = "EXCLUSIVE" THEN "ERR_NOTSUPP"
  ELSE IF o \notin Live THEN "ERR_ACCESS"
  ELSE IF c.proc \in {"ACCESS", "READLINK"} THEN "OK"
  ELSE IF o \notin Directory THEN "ERR_NOTDIR"
  ELSE IF c.proc = "LOOKUP" THEN (IF c.name = Slashed THEN "ERR_INVAL" ELSE "OK")
  ELSE IF Protected(o) THEN "ERR_ACCESS" ELSE "OK"

\* The call is over with the checks of its directory.
Answer(t) ==
  LET c == call[t]
  IN /\ pc[t] = "open"
     /\ Checked(c, c.dir) = "OK"
     /\ \/ /\ c.proc = "ACCESS"
           /\ Finish(t, Result("OK", None, Granted(c.dir, c.access)))
        \/ /\ c.proc = "READLINK"
           /\ Finish(t, Result("OK", None, {}))
        \/ /\ c.proc = "LOOKUP" /\ c.name = Dot
           /\ Finish(t, Result("OK", c.dir, {}))
     /\ UNCHANGED <<tree, call, paths, made, history, begun>>

\* The directory a call is about to open or has just opened.
Here(t) == IF pc[t] \in {"toopen", "topath"} THEN call[t].todir ELSE call[t].dir

Deny(t) ==
  /\ pc[t] \in {"open", "toopen"}
  /\ Checked(call[t], Here(t)) # "OK"
  /\ Finish(t, Failure(Checked(call[t], Here(t))))
  /\ UNCHANGED <<tree, call, paths, made, history, begun>>

Open(t) ==
  /\ pc[t] \in {"open", "toopen"}
  /\ Checked(call[t], Here(t)) = "OK"
  /\ call[t].proc \notin {"ACCESS", "READLINK"}
  /\ call[t].proc = "LOOKUP" => call[t].name # Dot
  /\ Goto(t, IF pc[t] = "open" THEN "path" ELSE "topath")
  /\ UNCHANGED <<tree, call, paths, made, reply, history, begun>>

\* Mutant of AfterPath: RENAME takes the directory it has for both.
AfterPathOnce(t) == "act"

AfterPath(t) == IF pc[t] = "path" /\ call[t].proc = "RENAME" THEN "toopen" ELSE "act"

AskPath(t) ==
  /\ pc[t] \in {"path", "topath"}
  /\ \E path \in fullpath(Here(t)) :
       /\ paths' = [paths EXCEPT ![t] = Append(@, path)]
       /\ unnamed' = [unnamed EXCEPT ![t] = IF path = PathTo(Here(t)) THEN @ ELSE @ \cup {Here(t)}]
  /\ Goto(t, AfterPath(t))
  /\ UNCHANGED <<tree, call, made, reply, acted, where, stale, begun>>

-----------------------------------------------------------------------------
(* Acting on the path *)

\* The directories the paths lead to now.
From(t) == Resolve(paths[t][1])
To(t) == Resolve(paths[t][2])

At(t, procs) == pc[t] = "act" /\ call[t].proc \in procs

\* The call has done something in directories, and may have changed the tree.
Acted(t, dirs, changed) ==
  /\ acted' = [acted EXCEPT ![t] = changed]
  /\ where' = [where EXCEPT ![t] = dirs]
  /\ UNCHANGED unnamed

Put(o, d, n) == place' = [x \in DOMAIN place \cup {o} |-> IF x = o THEN [dir |-> d, name |-> n] ELSE place[x]]

Drop(o) ==
  /\ place' = [x \in DOMAIN place \ {o} |-> place[x]]
  /\ gone' = gone \cup {o}

\* The entry is opened; its id or its attributes cannot be had.
Lookup(t) ==
  /\ At(t, {"LOOKUP"})
  /\ \E o \in Child(From(t), call[t].name) :
       Finish(t, Result("OK", o, {})) \/ Finish(t, Failure("ERR_IO"))
  /\ Acted(t, <<From(t)>>, FALSE)
  /\ UNCHANGED <<tree, call, paths, made, stale, begun>>

\* The handle made of what id() tells of an open object; when it fails the handle is of no object.
Identified(o) == {o, None}

\* CREATE_NEW, for UNCHECKED and GUARDED alike; whether there is an id is not looked at.
Create(t) ==
  /\ At(t, {"CREATE"})
  /\ From(t) \in Directory
  /\ Child(From(t), call[t].name) = {}
  /\ \E o \in Fresh(File) :
       /\ Put(o, From(t), call[t].name)
       /\ made' = [made EXCEPT ![t] = o]
       /\ \E handle \in Identified(o) : Finish(t, Result("OK", handle, {}))
  /\ Acted(t, <<From(t)>>, TRUE)
  /\ UNCHANGED <<gone, call, paths, stale, begun>>

MkDir(t) ==
  /\ At(t, {"MKDIR"})
  /\ From(t) \in Directory
  /\ Child(From(t), call[t].name) = {}
  /\ \E o \in Fresh(Directory) :
       /\ Put(o, From(t), call[t].name)
       /\ made' = [made EXCEPT ![t] = o]
  /\ Acted(t, <<From(t)>>, TRUE)
  /\ Goto(t, "reopen")
  /\ UNCHANGED <<gone, call, paths, reply, stale, begun>>

\* The new directory is opened by its path to have its id; that may fail, for whatever reason.
Reopened(t) == Child(From(t), call[t].name)

MkDirHandle(t) ==
  /\ pc[t] = "reopen"
  /\ \/ \E o \in Reopened(t) : \E handle \in Identified(o) : Finish(t, Result("OK", handle, {}))
     \/ Finish(t, Failure("ERR_IO"))
  /\ UNCHANGED <<tree, call, paths, made, history, begun>>

\* DeleteFileW and RemoveDirectoryW; a read only file and a directory with entries stay.
Removable(o) ==
  \/ o \in File /\ "readonly" \notin Attributes[o]
  \/ o \in Directory /\ \A x \in DOMAIN place : place[x].dir # o

Delete(t) ==
  /\ At(t, {"REMOVE", "RMDIR"})
  /\ \E o \in Child(From(t), call[t].name) :
       /\ o \in (IF call[t].proc = "REMOVE" THEN File ELSE Directory)
       /\ Removable(o)
       /\ Drop(o)
       /\ Displaced(t, o, TRUE)
  /\ Finish(t, Result("OK", None, {}))
  /\ Acted(t, <<From(t)>>, TRUE)
  /\ UNCHANGED <<call, paths, made, begun>>

\* MoveFileW puts nothing in the place of another object; a move to the same place changes nothing.
Rename(t) ==
  /\ At(t, {"RENAME"})
  /\ To(t) \in Directory
  /\ \E o \in Child(From(t), call[t].name) :
       /\ Child(To(t), call[t].toname) \subseteq {o}
       /\ Movable(o) /\ To(t) # o /\ ~Beneath(To(t), o)
       /\ Put(o, To(t), call[t].toname)
       /\ Displaced(t, o, FALSE)
  /\ Finish(t, Result("OK", None, {}))
  /\ Acted(t, <<From(t), To(t)>>, TRUE)
  /\ UNCHANGED <<gone, call, paths, made, begun>>

\* Mutant of Failed: an error of the system is not looked at.
FailedUnseen == "OK"

Failed == "ERR_IO"

\* Windows does not do it, for these or other reasons.
ActFails(t) ==
  /\ pc[t] = "act"
  /\ Finish(t, Failure(IF call[t].proc = "LOOKUP" THEN "ERR_NO_ENTRY" ELSE Failed))
  /\ UNCHANGED <<tree, call, paths, made, history, begun>>

-----------------------------------------------------------------------------
Init ==
  /\ place = Entries
  /\ gone = {}
  /\ call = [t \in Thread |-> None]
  /\ pc = [t \in Thread |-> "idle"]
  /\ paths = [t \in Thread |-> <<>>]
  /\ made = [t \in Thread |-> None]
  /\ reply = [t \in Thread |-> NoReply]
  /\ acted = [t \in Thread |-> FALSE]
  /\ where = [t \in Thread |-> <<>>]
  /\ stale = [t \in Thread |-> FALSE]
  /\ unnamed = [t \in Thread |-> {}]
  /\ begun = 0

Step(t) ==
  \/ Refuse(t) \/ Answer(t) \/ Deny(t) \/ Open(t) \/ AskPath(t)
  \/ Lookup(t) \/ Create(t) \/ MkDir(t) \/ MkDirHandle(t) \/ Delete(t) \/ Rename(t) \/ ActFails(t)

Next == \E t \in Thread : Step(t) \/ \E c \in Calls : Begin(t, c)

Spec == Init /\ [][Next]_vars

-----------------------------------------------------------------------------
(* Properties *)

\* Types; a call acts with one path for each of its directories, and until MKDIR opens what it
\* has made that is where its path leads, if nothing was displaced.
TypeOK ==
  /\ DOMAIN place \subseteq Object \ {Root} /\ place \in [DOMAIN place -> Place]
  /\ gone \subseteq Object \ Live
  /\ call \in [Thread -> Calls \cup {None}]
  /\ pc \in [Thread -> {"idle", "open", "path", "toopen", "topath", "act", "reopen", "done"}]
  /\ \A t \in Thread : pc[t] = "act" => Len(paths[t]) = (IF call[t].proc = "RENAME" THEN 2 ELSE 1)
  /\ made \in [Thread -> Object \cup {None}]
  /\ \A t \in Thread : pc[t] = "reopen" => stale[t] \/ made[t] \in Child(From(t), call[t].name)
  /\ acted \in [Thread -> BOOLEAN] /\ where \in [Thread -> Seq(Directory)]
  /\ stale \in [Thread -> BOOLEAN] /\ unnamed \in [Thread -> SUBSET Object]
  /\ begun \in 0 .. MaxCalls

Over(t, status) == pc[t] = "done" /\ (reply[t].status = "OK") = (status = "OK")

\* The directories the handles of a call name.
Handled(t) == IF call[t].proc = "RENAME" THEN <<call[t].dir, call[t].todir>> ELSE <<call[t].dir>>

\* A call acts in the directories its handles name, although it goes by their paths: while they
\* are open nothing above them can move.  Save for a call that others made stale, having removed
\* such a directory while it was open or moved it once its path was known; and for a directory
\* the system gave no path for: then it acts at the root of the drive, and nowhere else (by_id
\* and fullpath of nfs3.cpp:1231, 1263, and the others like them).
ActsWhereNamed ==
  \A t \in Thread : ~stale[t] =>
    \A i \in DOMAIN where[t] :
      /\ i \in DOMAIN Handled(t)
      /\ where[t][i] = Handled(t)[i] \/ (where[t][i] = Root /\ Handled(t)[i] \in unnamed[t])

\* OK says that the call was carried out, an error that nothing has changed, save that MKDIR may
\* have made its directory.  The handle CREATE returns with OK is that of the file it has made, or
\* of no object; that of MKDIR, which opens the directory again by name, may be another's only if
\* others displaced something before that (nfs3.cpp:1266-1281, 1341-1363, 1423-1430, 1605-1613).
OutcomeTold ==
  \A t \in Thread :
    /\ Over(t, "OK") /\ call[t].proc \in {"CREATE", "MKDIR", "REMOVE", "RMDIR", "RENAME"} => acted[t]
    /\ Over(t, "error") /\ acted[t] => call[t].proc = "MKDIR"
    /\ Over(t, "OK") /\ made[t] # None =>
         \/ reply[t].object \in {made[t], None}
         \/ call[t].proc = "MKDIR" /\ stale[t]

\* A directory whose entries a call changes, wherever its path has led, is one for which ACCESS
\* grants it: the attributes are looked at before the path is asked for.  Save for a call that
\* others made stale, and for the root of the drive when the system gave no path
\* (nfs3.cpp:995-1007 against 1257-1266 and the others).
AccessKept ==
  \A t \in Thread : acted[t] => \A d \in ToSet(where[t]) :
    \/ {"MODIFY", "EXTEND"} \subseteq Granted(d, Bits)
    \/ stale[t]
    \/ d = Root /\ unnamed[t] # {}

=============================================================================
