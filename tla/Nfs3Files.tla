------------------------------ MODULE Nfs3Files ------------------------------
(***************************************************************************)
(* GETATTR, SETATTR, READ and WRITE (nfs3.cpp:743-867, 1056-1205) of       *)
(* one file, run by the threads of the server at the same time.  Each call *)
(* opens the file by its id, and the access and share modes it opens with  *)
(* decide which calls exclude each other.                                  *)
(*                                                                         *)
(* Of the file's data only the size is kept.  External: the rules by which *)
(* Windows shares a file, its times (each change gets a time of its own),  *)
(* and that any operation on it may fail.                                  *)
(***************************************************************************)
EXTENDS Integers, FiniteSetsExt

CONSTANTS
  Thread,     \* threads of the server
  None,       \* no call, no value
  Calls,      \* the calls made, some of Call
  MaxSize,    \* bound: size of the file, in blocks; a WRITE has one block
  MaxTime     \* bound: changes of the file

ASSUME BoundsAssumption == MaxSize \in Nat \ {0} /\ MaxTime \in Nat \ {0}

VARIABLES
  file,       \* size, mtime (LastWriteTime) and ctime (ChangeTime)
  clock,      \* the time of the last change
  call,       \* the arguments of the call a thread runs
  pc,         \* where in the call it is
  before,     \* the attributes it has read before it did anything
  after,      \* and those it reads at the end
  reply,      \* the result of its last call
  foreign,    \* history: others changed the file between before and after
  rewound     \* history: a change has given the file an older time

external == <<file, clock, rewound>>
vars == <<external, call, pc, before, after, reply, foreign>>

Times == 0 .. MaxTime
Sizes == 0 .. MaxSize
Attr == [size : Sizes, mtime : Times, ctime : Times]
NoAttr == [size |-> 0, mtime |-> 0, ctime |-> 0]

GetAttr == [proc : {"GETATTR"}]
Read == [proc : {"READ"}, offset : Sizes, count : Sizes]
Write == [proc : {"WRITE"}, offset : 0 .. MaxSize - 1]
\* size and check time are optional; set has the times to set to the server's.
SetAttr == [proc : {"SETATTR"}, size : Sizes \cup {None}, check : Times \cup {None},
            set : SUBSET {"atime", "mtime"}]
Call == GetAttr \cup Read \cup Write \cup SetAttr

ASSUME CallsAssumption == Calls \subseteq Call /\ None \notin Call

\* attr is what GETATTR and READ tell, before and after are the wcc_data of the others;
\* each may be missing.  count is that of READ; WRITE repeats the one of its arguments.
Result(status) ==
  [status |-> status, count |-> 0, eof |-> FALSE, attr |-> None, before |-> None, after |-> None]
NoReply == Result("none")

-----------------------------------------------------------------------------
(* Sharing *)

\* Mutant of Access: SETATTR opens the file for its attributes only.
AccessNoAppend(c) ==
  CASE c.proc = "READ" -> {"read"} [] c.proc = "WRITE" -> {"write"} [] OTHER -> {}

\* FILE_READ_DATA; FILE_GENERIC_WRITE and FILE_APPEND_DATA.  GETATTR opens the file for
\* its attributes only, which every share mode allows.
Access(c) ==
  CASE c.proc = "READ" -> {"read"} [] c.proc \in {"WRITE", "SETATTR"} -> {"write"} [] OTHER -> {}

\* Mutant of Share: WRITE opens like the others.
ShareAlways(c) == {"read", "write"}

\* FILE_SHARE_ALL, and share mode 0 of WRITE.
Share(c) == IF c.proc = "WRITE" THEN {} ELSE {"read", "write"}

\* The threads that have the file open for its data.
Opened == {t \in Thread : pc[t] \notin {"idle", "open"} /\ Access(call[t]) # {}}

Sharable(c) ==
  Access(c) = {} \/ \A t \in Opened : Access(c) \subseteq Share(call[t]) /\ Access(call[t]) \subseteq Share(c)

-----------------------------------------------------------------------------
(* Steps of a call *)

At(t, procs, place) == pc[t] = place /\ call[t].proc \in procs

Goto(t, place) == pc' = [pc EXCEPT ![t] = place]

Finish(t, result) ==
  /\ reply' = [reply EXCEPT ![t] = result]
  /\ call' = [call EXCEPT ![t] = None]
  /\ before' = [before EXCEPT ![t] = NoAttr]
  /\ after' = [after EXCEPT ![t] = NoAttr]
  /\ Goto(t, "idle")

\* A change by thread t; others between their attributes of before and after see it.
Change(t, attr) ==
  /\ clock < MaxTime
  /\ clock' = clock + 1
  /\ file' = attr
  /\ rewound' = (rewound \/ attr.ctime < file.ctime)
  /\ foreign' = [u \in Thread |->
       foreign[u] \/ (u # t /\ pc[u] \notin {"idle", "open", "basic"})]

Sized(size) == [size |-> size, mtime |-> clock + 1, ctime |-> clock + 1]

Begin(t, c) ==
  /\ pc[t] = "idle"
  /\ call' = [call EXCEPT ![t] = c]
  /\ reply' = [reply EXCEPT ![t] = NoReply]
  /\ foreign' = [foreign EXCEPT ![t] = FALSE]
  /\ Goto(t, "open")
  /\ UNCHANGED <<external, before, after>>

Open(t) ==
  /\ pc[t] = "open"
  /\ Sharable(call[t])
  /\ Goto(t, "basic")
  /\ UNCHANGED <<external, call, before, after, reply, foreign>>

\* The mount is gone, or the handle is of another volume.
BadHandle(t) ==
  /\ pc[t] = "open"
  /\ Finish(t, Result("ERR_BADHANDLE"))
  /\ UNCHANGED <<external, foreign>>

Deny(t) ==
  /\ pc[t] = "open"
  /\ ~Sharable(call[t])
  /\ Finish(t, Result("ERR_ACCESS"))
  /\ UNCHANGED <<external, foreign>>

\* Mutant of Half: the size is asked for first.
HalfSwapped(attr, n) ==
  IF n = 2 THEN [attr EXCEPT !.mtime = file.mtime, !.ctime = file.ctime] ELSE [attr EXCEPT !.size = file.size]

\* basic_info gives the times; standard_info, asked for after it, the size.
Half(attr, n) ==
  IF n = 1 THEN [attr EXCEPT !.mtime = file.mtime, !.ctime = file.ctime] ELSE [attr EXCEPT !.size = file.size]

Basic(t) ==
  /\ pc[t] = "basic"
  /\ before' = [before EXCEPT ![t] = Half(@, 1)]
  /\ Goto(t, "standard")
  /\ UNCHANGED <<external, call, after, reply, foreign>>

Standard(t) ==
  /\ pc[t] = "standard"
  /\ before' = [before EXCEPT ![t] = Half(@, 2)]
  /\ Goto(t, CASE call[t].proc = "GETATTR" -> "attr" [] call[t].proc = "READ" -> "read"
               [] call[t].proc = "WRITE" -> "seek" [] OTHER -> "check")
  /\ UNCHANGED <<external, call, after, reply, foreign>>

ReplyAttr(t) ==
  /\ At(t, {"GETATTR"}, "attr")
  /\ Finish(t, [Result("OK") EXCEPT !.attr = before[t]])
  /\ UNCHANGED <<external, foreign>>

\* Mutant of Available: behind the end the difference is taken as it is.
AvailableSigned(offset) == file.size - offset

\* Blocks from the offset to the end of the file.
Available(offset) == Max({0, file.size - offset})

\* seek and read; eof from the size read before.
ReadData(t) ==
  /\ At(t, {"READ"}, "read")
  /\ LET c == call[t]
         count == Min({c.count, Available(c.offset)})
     IN Finish(t, [Result("OK") EXCEPT
          !.attr = before[t], !.count = count,
          !.eof = (c.count # 0 /\ count = 0) \/ c.offset + count = before[t].size])
  /\ UNCHANGED <<external, foreign>>

\* At offset 0 the file is truncated.
Seek(t) ==
  /\ At(t, {"WRITE"}, "seek")
  /\ IF call[t].offset = 0 THEN Change(t, Sized(0)) ELSE UNCHANGED <<external, foreign>>
  /\ Goto(t, "write")
  /\ UNCHANGED <<call, before, after, reply>>

WriteData(t) ==
  /\ At(t, {"WRITE"}, "write")
  /\ Change(t, Sized(Max({file.size, call[t].offset + 1})))
  /\ Goto(t, "after")
  /\ UNCHANGED <<call, before, after, reply>>

\* ERR_IO: the system fails to tell about the file, to seek, truncate, read or write.
Fail(t) ==
  /\ pc[t] \in {"basic", "standard", "read", "seek", "write"}
  /\ Finish(t, [Result("ERR_IO") EXCEPT
       !.attr = IF pc[t] = "read" THEN before[t] ELSE None,
       !.before = IF pc[t] \in {"seek", "write"} THEN before[t] ELSE None])
  /\ UNCHANGED <<external, foreign>>

InSync(t) == call[t].check = None \/ call[t].check = before[t].ctime

\* The result of a call that reads the attributes again at its end.
Leave(t, status) ==
  /\ reply' = [reply EXCEPT ![t] = Result(status)]
  /\ Goto(t, "after")

NotSync(t) ==
  /\ At(t, {"SETATTR"}, "check")
  /\ ~InSync(t)
  /\ Leave(t, "ERR_NOT_SYNC")
  /\ UNCHANGED <<external, call, before, after, foreign>>

SetSize(t) ==
  /\ At(t, {"SETATTR"}, "check")
  /\ InSync(t)
  /\ IF call[t].size = None THEN UNCHANGED <<external, foreign>> ELSE Change(t, Sized(call[t].size))
  /\ Goto(t, "times")
  /\ UNCHANGED <<call, before, after, reply>>

\* set_basic_info with the times read before, but for those that become the server's.
SetTimes(t) ==
  /\ At(t, {"SETATTR"}, "times")
  /\ IF call[t].set = {}
     THEN UNCHANGED <<external, foreign>>
     ELSE Change(t, [size |-> file.size,
                     mtime |-> IF "mtime" \in call[t].set THEN clock + 1 ELSE before[t].mtime,
                     ctime |-> before[t].ctime])
  /\ Goto(t, "after")
  /\ UNCHANGED <<call, before, after, reply>>

\* ERR_INVAL: the size or the times cannot be set.
SetFails(t) ==
  /\ \/ At(t, {"SETATTR"}, "check") /\ InSync(t) /\ call[t].size # None
     \/ At(t, {"SETATTR"}, "times") /\ call[t].set # {}
  /\ Leave(t, "ERR_INVAL")
  /\ UNCHANGED <<external, call, before, after, foreign>>

AfterBasic(t) ==
  /\ pc[t] = "after"
  /\ after' = [after EXCEPT ![t] = Half(@, 1)]
  /\ Goto(t, "last")
  /\ UNCHANGED <<external, call, before, reply, foreign>>

\* The reply, without the attributes of after when the system fails to tell them.
LastAttr(t, attr) ==
  LET status == IF reply[t] = NoReply THEN "OK" ELSE reply[t].status
  IN Finish(t, [Result(status) EXCEPT !.before = before[t], !.after = attr])

AfterStandard(t) ==
  /\ pc[t] = "last"
  /\ LastAttr(t, Half(after[t], 2))
  /\ UNCHANGED <<external, foreign>>

AfterFails(t) ==
  /\ pc[t] \in {"after", "last"}
  /\ LastAttr(t, None)
  /\ UNCHANGED <<external, foreign>>

-----------------------------------------------------------------------------
Init ==
  /\ \E size \in Sizes : file = [size |-> size, mtime |-> 0, ctime |-> 0]
  /\ clock = 0
  /\ call = [t \in Thread |-> None]
  /\ pc = [t \in Thread |-> "idle"]
  /\ before = [t \in Thread |-> NoAttr]
  /\ after = [t \in Thread |-> NoAttr]
  /\ reply = [t \in Thread |-> NoReply]
  /\ foreign = [t \in Thread |-> FALSE]
  /\ rewound = FALSE

Next ==
  \E t \in Thread :
    \/ \E c \in Calls : Begin(t, c)
    \/ BadHandle(t) \/ Open(t) \/ Deny(t) \/ Basic(t) \/ Standard(t) \/ Fail(t)
    \/ ReplyAttr(t) \/ ReadData(t)
    \/ Seek(t) \/ WriteData(t)
    \/ NotSync(t) \/ SetSize(t) \/ SetTimes(t) \/ SetFails(t)
    \/ AfterBasic(t) \/ AfterStandard(t) \/ AfterFails(t)

Spec == Init /\ [][Next]_vars

-----------------------------------------------------------------------------
(* Properties *)

Status == {"none", "OK", "ERR_ACCESS", "ERR_BADHANDLE", "ERR_IO", "ERR_INVAL", "ERR_NOT_SYNC"}

\* The values of the variables.
TypeOK ==
  /\ file \in Attr
  /\ clock \in Times
  /\ call \in [Thread -> Call \cup {None}]
  /\ pc \in [Thread -> {"idle", "open", "basic", "standard", "attr", "read", "seek", "write",
                        "check", "times", "after", "last"}]
  /\ \A t \in Thread : pc[t] = "idle" <=> call[t] = None
  /\ before \in [Thread -> Attr]
  /\ after \in [Thread -> Attr]
  /\ reply \in [Thread -> [status : Status, count : Sizes, eof : BOOLEAN, attr : Attr \cup {None},
                           before : Attr \cup {None}, after : Attr \cup {None}]]
  /\ foreign \in [Thread -> BOOLEAN]
  /\ rewound \in BOOLEAN

Runs(t, proc) == pc[t] # "idle" /\ call[t].proc = proc

\* A WRITE at offset 0 empties the file before it writes: no READ has the file open at
\* that time and takes the emptiness for the end of the file, and no SETATTR comes
\* between the two.
NoTornRead ==
  \A r, w \in Thread :
    r # w /\ Runs(w, "WRITE") /\ pc[w] = "write" =>
      ~(r \in Opened /\ (Runs(r, "READ") \/ Runs(r, "SETATTR")))

\* What a WRITE tells of the file before and after is its own change: a client that
\* finds its cached attributes before may take over those after and keep its data.
WriteWccOwn ==
  \A t \in Thread : Runs(t, "WRITE") => ~foreign[t]

\* The attributes of all replies, and the file.
Told == {a \in UNION {{reply[t].attr, reply[t].before, reply[t].after} : t \in Thread} : a # None}

\* Attributes are asked for in two steps, with others changing the file between them.
\* Still no client is told an old size with the times the file has now, which it would
\* keep as long as the file is left alone; if no two changes have the same ChangeTime.
AttrsCurrent ==
  ~rewound => \A a \in Told : a.mtime = file.mtime /\ a.ctime = file.ctime => a.size = file.size

=============================================================================
