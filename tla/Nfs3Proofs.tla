----------------------------- MODULE Nfs3Proofs -----------------------------
(***************************************************************************)
(* Of the calls on one file, for any threads and any calls: while a WRITE  *)
(* has the file open, no call that reads or changes its data has; and the  *)
(* attributes in replies are current, with the types.                      *)
(*                                                                         *)
(* Of the listing of a directory, for any names, any sizes of pages and    *)
(* buffers and any changes in between: it is complete and true, and no     *)
(* page is longer than the client allows.                                  *)
(***************************************************************************)
EXTENDS Nfs3Files, Nfs3ReadDir, SequenceTheorems, FiniteSetTheorems, TLAPS

-----------------------------------------------------------------------------
(* Nfs3Files *)


Places == {"idle", "open", "basic", "standard", "attr", "read", "seek", "write",
           "check", "times", "after", "last"}

\* The part of the type invariant the proofs need.
Typed ==
  /\ call \in [Thread -> Call \cup {None}]
  /\ pc \in [Thread -> Places]
  /\ foreign \in [Thread -> BOOLEAN]
  /\ \A t \in Thread : pc[t] = "idle" <=> call[t] = None

\* Calls that have the file open were opened with modes that allow each other.
Sharing == \A t, u \in Opened : t # u => Access(call[t]) \subseteq Share(call[u])

IInv == Typed /\ Sharing /\ WriteWccOwn

-----------------------------------------------------------------------------
(* Lemmas *)

\* What only moves one thread that has the file open, or closes it, keeps the sharing
\* (every step but Open).
LEMMA SharingKept ==
  ASSUME NEW t \in Thread, Sharing,
         \A u \in Thread \ {t} : pc'[u] = pc[u] /\ call'[u] = call[u],
         t \in Opened' => t \in Opened /\ call'[t] = call[t]
  PROVE  Sharing'
<1> SUFFICES ASSUME NEW u \in Opened', NEW v \in Opened', u # v
             PROVE  Access(call'[u]) \subseteq Share(call'[v])
  BY DEF Sharing, Access, Share
<1>1. \A w \in Opened' : w \in Opened /\ call'[w] = call[w]
  BY DEF Opened, Access
<1> QED
  BY <1>1 DEF Sharing

\* A thread that changes the file has it open for writing, and so no WRITE has.
LEMMA ChangeAlone ==
  ASSUME NEW t \in Thread, NEW attr, IInv, Change(t, attr),
         t \in Opened, call[t].proc \in {"WRITE", "SETATTR"}
  PROVE  \A u \in Thread : Runs(u, "WRITE") => ~foreign'[u]
<1> SUFFICES ASSUME NEW u \in Thread, Runs(u, "WRITE"), foreign'[u]
             PROVE  FALSE
  OBVIOUS
<1>1. ~foreign[u]
  BY DEF IInv, WriteWccOwn
<1>2. u # t /\ pc[u] \notin {"idle", "open", "basic"}
  BY <1>1 DEF Change
<1>3. Access(call[t]) = {"write"}
  BY DEF Access
<1>4. Share(call[u]) = {} /\ Access(call[u]) = {"write"}
  BY DEF Runs, Share, Access
<1>5. u \in Opened
  BY <1>2, <1>4 DEF Opened
<1>6. Access(call[t]) \subseteq Share(call[u])
  BY <1>2, <1>5 DEF IInv, Sharing
<1> QED
  BY <1>3, <1>4, <1>6

-----------------------------------------------------------------------------
(* The steps *)

\* A thread takes up a call: it has nothing open yet.
LEMMA BeginKeeps ==
  ASSUME NEW t \in Thread, NEW c \in Calls, IInv, Begin(t, c)
  PROVE  IInv'
<1>1. c \in Call /\ c # None
  BY CallsAssumption
<1>2. Typed'
  BY <1>1 DEF IInv, Typed, Begin, Goto, Places
<1>3. Sharing'
  <2>1. t \notin Opened'
    BY DEF Begin, Goto, Opened, IInv, Typed
  <2>2. \A u \in Thread \ {t} : pc'[u] = pc[u] /\ call'[u] = call[u]
    BY DEF Begin, Goto, IInv, Typed
  <2> QED
    BY <2>1, <2>2, SharingKept DEF IInv
<1>4. WriteWccOwn'
  BY DEF IInv, Typed, WriteWccOwn, Runs, Begin, Goto
<1> QED
  BY <1>2, <1>3, <1>4 DEF IInv

\* Opening is the step the sharing rule guards.
LEMMA OpenKeeps ==
  ASSUME NEW t \in Thread, IInv, Open(t)
  PROVE  IInv'
<1>1. Typed'
  BY DEF IInv, Typed, Open, Goto, Places
<1>2. Opened' \subseteq Opened \cup {t}
  BY DEF Open, Goto, Opened, IInv, Typed
<1>3. Sharing'
  <2> SUFFICES ASSUME NEW u \in Opened', NEW v \in Opened', u # v
               PROVE  Access(call[u]) \subseteq Share(call[v])
    BY DEF Sharing, Open, Access, Share
  <2>1. Sharable(call[t])
    BY DEF Open
  <2>2. CASE u # t /\ v # t
    BY <1>2, <2>2 DEF IInv, Sharing
  <2>3. CASE u = t
    <3>1. v \in Opened /\ Access(call[t]) # {}
      BY <1>2, <2>3 DEF Opened, Open
    <3> QED
      BY <2>1, <2>3, <3>1 DEF Sharable
  <2>4. CASE v = t
    <3>1. u \in Opened /\ Access(call[t]) # {}
      BY <1>2, <2>4 DEF Opened, Open
    <3> QED
      BY <2>1, <2>4, <3>1 DEF Sharable
  <2> QED
    BY <2>2, <2>3, <2>4
<1>4. WriteWccOwn'
  BY DEF IInv, Typed, WriteWccOwn, Runs, Open, Goto
<1> QED
  BY <1>1, <1>3, <1>4 DEF IInv

\* A call that ends closes the file.
LEMMA FinishKeeps ==
  ASSUME NEW t \in Thread, NEW outcome, IInv, Finish(t, outcome), UNCHANGED foreign
  PROVE  IInv'
<1>1. Typed'
  BY DEF IInv, Typed, Finish, Goto, Places
<1>2. Sharing'
  <2>1. t \notin Opened'
    BY DEF Finish, Goto, Opened, IInv, Typed
  <2>2. \A u \in Thread \ {t} : pc'[u] = pc[u] /\ call'[u] = call[u]
    BY DEF Finish, Goto, IInv, Typed
  <2> QED
    BY <2>1, <2>2, SharingKept DEF IInv
<1>3. WriteWccOwn'
  BY DEF IInv, Typed, WriteWccOwn, Runs, Finish, Goto
<1> QED
  BY <1>1, <1>2, <1>3 DEF IInv

\* A step inside a call that leaves the file alone.
LEMMA MoveKeeps ==
  ASSUME NEW t \in Thread, NEW place \in Places \ {"idle"}, IInv,
         pc[t] \notin {"idle", "open"}, Goto(t, place), UNCHANGED <<call, foreign>>
  PROVE  IInv'
<1>1. Typed'
  BY DEF IInv, Typed, Goto
<1>2. Sharing'
  <2>1. t \in Opened' => t \in Opened /\ call'[t] = call[t]
    BY DEF Opened, Access
  <2>2. \A u \in Thread \ {t} : pc'[u] = pc[u] /\ call'[u] = call[u]
    BY DEF Goto, IInv, Typed
  <2> QED
    BY <2>1, <2>2, SharingKept DEF IInv
<1>3. WriteWccOwn'
  BY DEF IInv, Typed, WriteWccOwn, Runs, Goto
<1> QED
  BY <1>1, <1>2, <1>3 DEF IInv

\* A step inside a call that changes the file.
LEMMA ChangeKeeps ==
  ASSUME NEW t \in Thread, NEW place \in Places \ {"idle"}, NEW attr, IInv,
         pc[t] \notin {"idle", "open"}, call[t].proc \in {"WRITE", "SETATTR"},
         Change(t, attr), Goto(t, place), UNCHANGED call
  PROVE  IInv'
<1>1. Typed'
  BY DEF IInv, Typed, Goto, Change
<1>2. Sharing'
  <2>1. t \in Opened' => t \in Opened /\ call'[t] = call[t]
    BY DEF Opened, Access
  <2>2. \A u \in Thread \ {t} : pc'[u] = pc[u] /\ call'[u] = call[u]
    BY DEF Goto, IInv, Typed
  <2> QED
    BY <2>1, <2>2, SharingKept DEF IInv
<1>3. WriteWccOwn'
  <2>1. t \in Opened
    <3>1. Access(call[t]) = {"write"}
      BY DEF Access
    <3> QED
      BY <3>1 DEF Opened
  <2>2. \A u \in Thread : Runs(u, "WRITE") => ~foreign'[u]
    BY <2>1, ChangeAlone
  <2>3. \A u \in Thread : Runs(u, "WRITE")' => Runs(u, "WRITE")
    BY DEF Runs, Goto, IInv, Typed
  <2> QED
    BY <2>2, <2>3 DEF WriteWccOwn
<1> QED
  BY <1>1, <1>2, <1>3 DEF IInv

-----------------------------------------------------------------------------
(* The invariant *)

LEMMA InitIInv == Init => IInv
  BY DEF Init, IInv, Typed, Places, Sharing, Opened, WriteWccOwn, Runs

LEMMA NextIInv == IInv /\ [Next]_vars => IInv'
<1> SUFFICES ASSUME IInv, [Next]_vars
             PROVE  IInv'
  OBVIOUS
<1>1. CASE UNCHANGED vars
  BY <1>1 DEF vars, IInv, Typed, Sharing, Opened, Access, Share, WriteWccOwn, Runs
<1>2. ASSUME NEW t \in Thread, NEW c \in Calls, Begin(t, c)
      PROVE  IInv'
  BY <1>2, BeginKeeps
<1>3. ASSUME NEW t \in Thread, Open(t)
      PROVE  IInv'
  BY <1>3, OpenKeeps
<1>4. ASSUME NEW t \in Thread,
             BadHandle(t) \/ Deny(t) \/ Fail(t) \/ ReplyAttr(t) \/ ReadData(t)
               \/ AfterStandard(t) \/ AfterFails(t)
      PROVE  IInv'
  <2>1. UNCHANGED foreign /\ \E outcome : Finish(t, outcome)
    BY <1>4, Zenon DEF BadHandle, Deny, Fail, ReplyAttr, ReadData, AfterStandard, AfterFails, LastAttr
  <2> QED
    BY <2>1, FinishKeeps
<1>5. ASSUME NEW t \in Thread,
             Basic(t) \/ Standard(t) \/ NotSync(t) \/ SetFails(t) \/ AfterBasic(t)
      PROVE  IInv'
  <2>1. UNCHANGED <<call, foreign>> /\ pc[t] \notin {"idle", "open"}
    BY <1>5 DEF Basic, Standard, NotSync, SetFails, AfterBasic, At
  <2>2. PICK place \in Places \ {"idle"} : Goto(t, place)
    BY <1>5 DEF Basic, Standard, NotSync, SetFails, AfterBasic, Leave, Places
  <2> QED
    BY <2>1, <2>2, MoveKeeps
<1>6. ASSUME NEW t \in Thread, Seek(t) \/ WriteData(t) \/ SetSize(t) \/ SetTimes(t)
      PROVE  IInv'
  <2>1. /\ UNCHANGED call
        /\ pc[t] \notin {"idle", "open"}
        /\ call[t].proc \in {"WRITE", "SETATTR"}
    BY <1>6 DEF Seek, WriteData, SetSize, SetTimes, At
  <2>2. PICK place \in Places \ {"idle"} : Goto(t, place)
    BY <1>6 DEF Seek, WriteData, SetSize, SetTimes, Places
  <2>3. UNCHANGED foreign \/ \E attr : Change(t, attr)
    BY <1>6 DEF Seek, WriteData, SetSize, SetTimes
  <2>4. CASE UNCHANGED foreign
    BY <2>1, <2>2, <2>4, MoveKeeps
  <2>5. CASE \E attr : Change(t, attr)
    BY <2>1, <2>2, <2>5, ChangeKeeps
  <2> QED
    BY <2>3, <2>4, <2>5
<1> QED
  BY <1>1, <1>2, <1>3, <1>4, <1>5, <1>6 DEF Next

\* While a WRITE has the file open nobody reads it, sets its size or times: what was
\* emptied is never seen (nfs3.cpp:1142 and 1171).
THEOREM NeverTorn == Spec => []NoTornRead
<1>1. IInv => NoTornRead
  <2> SUFFICES ASSUME IInv, NEW r \in Thread, NEW w \in Thread, r # w,
                      Runs(w, "WRITE"), pc[w] = "write", r \in Opened
               PROVE  FALSE
    BY DEF NoTornRead
  <2>1. Share(call[w]) = {} /\ w \in Opened
    BY DEF Runs, Share, Opened, Access
  <2>2. Access(call[r]) # {}
    BY DEF Opened
  <2> QED
    BY <2>1, <2>2 DEF IInv, Sharing
<1> QED
  BY <1>1, InitIInv, NextIInv, PTL DEF Spec

\* The attributes a WRITE reports before and after are its own change
\* (nfs3.cpp:1162 and 1191-1196).
THEOREM WccIsOwn == Spec => []WriteWccOwn
<1>1. IInv => WriteWccOwn
  BY DEF IInv
<1> QED
  BY <1>1, InitIInv, NextIInv, PTL DEF Spec

-----------------------------------------------------------------------------
(* Types, and the attributes replies tell *)

Reply == [status : Status, count : Sizes, eof : BOOLEAN, attr : Attr \cup {None},
          before : Attr \cup {None}, after : Attr \cup {None}]

\* Attributes with the file's ChangeTime have its size.
Current(a) == a.ctime <= file.ctime /\ (a.ctime = file.ctime => a.size = file.size)

Tells(r) == {r.attr, r.before, r.after} \ {None}

\* Where a call has all the attributes of before.
Filled(t) == pc[t] \notin {"idle", "open", "basic", "standard"}

\* As long as ChangeTime has never gone back, what was read is of the file as it was.
Ordered ==
  /\ file.ctime <= clock
  /\ \A t \in Thread : before[t].ctime <= clock
  /\ ~rewound => \A t \in Thread :
       /\ pc[t] = "standard" => before[t].ctime <= file.ctime
       /\ Filled(t) => Current(before[t])
       /\ pc[t] = "last" => after[t].ctime <= file.ctime
       /\ \A a \in Tells(reply[t]) : Current(a)

AInv == TypeOK /\ Ordered

\* The greater and the smaller of two numbers.
LEMMA MaxOfTwo ==
  ASSUME NEW a \in Int, NEW b \in Int
  PROVE  Max({a, b}) = IF a >= b THEN a ELSE b
BY DEF Max

LEMMA MinOfTwo ==
  ASSUME NEW a \in Int, NEW b \in Int
  PROVE  Min({a, b}) = IF a <= b THEN a ELSE b
BY DEF Min

\* What comes of setting attributes.
LEMMA ResultTyped ==
  ASSUME NEW status \in Status
  PROVE  /\ Result(status) \in Reply /\ Result(status).status = status
         /\ Tells(Result(status)) = {}
BY BoundsAssumption DEF Result, Reply, Tells, Sizes, Attr

LEMMA InitAInv == Init => AInv
<1> SUFFICES ASSUME Init PROVE AInv
  OBVIOUS
<1>1. NoReply \in Reply /\ Tells(NoReply) = {}
  BY ResultTyped DEF NoReply, Status
<1>2. NoAttr \in Attr
  BY BoundsAssumption DEF NoAttr, Attr, Sizes, Times
<1>3. TypeOK
  <2>1. foreign \in [Thread -> BOOLEAN] /\ rewound \in BOOLEAN
    BY Zenon DEF Init
  <2>2. file \in Attr /\ clock \in Times
    BY BoundsAssumption DEF Init, Attr, Sizes, Times
  <2>3. reply \in [Thread -> Reply]
    BY <1>1 DEF Init
  <2>4. /\ call \in [Thread -> Call \cup {None}] /\ pc \in [Thread -> Places]
        /\ \A t \in Thread : pc[t] = "idle" <=> call[t] = None
    BY DEF Init, Places
  <2>5. before \in [Thread -> Attr] /\ after \in [Thread -> Attr]
    BY <1>2 DEF Init
  <2> QED
    BY <2>1, <2>2, <2>3, <2>4, <2>5 DEF TypeOK, Reply, Places
<1>4. Ordered
  BY <1>1 DEF Init, Ordered, Filled, NoAttr
<1> QED
  BY <1>3, <1>4 DEF AInv

\* A call that ends tells what is current.
LEMMA FinishAttrs ==
  ASSUME NEW t \in Thread, NEW outcome \in Reply, AInv, pc[t] # "idle", Finish(t, outcome),
         UNCHANGED <<external, foreign>>,
         ~rewound => \A a \in Tells(outcome) : Current(a)
  PROVE  AInv'
<1> USE DEF Finish, Goto, external
<1>1. NoAttr \in Attr
  BY BoundsAssumption DEF NoAttr, Attr, Sizes, Times
<1>2. TypeOK'
  BY <1>1 DEF AInv, TypeOK, Reply
<1>3. Ordered'
  <2>1. before'[t] = NoAttr /\ NoAttr.ctime = 0 /\ pc'[t] = "idle" /\ reply'[t] = outcome
    BY DEF AInv, TypeOK, NoAttr
  <2>2. clock \in Nat
    BY BoundsAssumption DEF AInv, TypeOK, Times
  <2>3. ASSUME NEW u \in Thread, u # t
        PROVE  before'[u] = before[u] /\ after'[u] = after[u] /\ pc'[u] = pc[u] /\ reply'[u] = reply[u]
    BY <2>3 DEF AInv, TypeOK
  <2> QED
    BY <2>1, <2>2, <2>3 DEF AInv, Ordered, Current, Filled
<1> QED
  BY <1>2, <1>3 DEF AInv

\* A change leaves what was read behind, or leaves size and ChangeTime as they are.
LEMMA ChangeAttrs ==
  ASSUME NEW t \in Thread, NEW attr \in Attr, NEW place \in {"write", "after", "times"}, AInv,
         Filled(t), pc[t] # "last", Change(t, attr), Goto(t, place), UNCHANGED <<call, before, after, reply>>,
         attr.ctime = clock + 1 \/ (attr.ctime = before[t].ctime /\ attr.size = file.size)
  PROVE  AInv'
<1> USE DEF Goto
<1>1. /\ clock < MaxTime /\ clock' = clock + 1 /\ file' = attr
      /\ foreign' \in [Thread -> BOOLEAN]
  BY DEF Change, AInv, TypeOK
<1>2. rewound' \in BOOLEAN /\ (rewound' <=> rewound \/ attr.ctime < file.ctime)
  BY DEF Change
<1>3. TypeOK'
  <2>1. clock' \in Times
    BY <1>1, BoundsAssumption DEF AInv, TypeOK, Times
  <2>2. /\ pc' \in [Thread -> Places]
        /\ \A u \in Thread : pc'[u] = "idle" <=> call'[u] = None
    BY DEF AInv, TypeOK, Filled, Places
  <2> QED
    BY <1>1, <1>2, <2>1, <2>2, Zenon DEF AInv, TypeOK, Places
<1>4. Ordered'
  <2>1. /\ \A u \in Thread : before[u].ctime \in Nat /\ after[u].ctime \in Nat
        /\ clock \in Nat /\ file.ctime \in Nat /\ attr.ctime \in Nat
    BY DEF AInv, TypeOK, Attr, Times
  <2>2. \A u \in Thread : \A a \in Tells(reply[u]) : a.ctime \in Nat
    BY DEF AInv, TypeOK, Attr, Times, Tells
  <2>3. file'.ctime <= clock' /\ \A u \in Thread : before'[u].ctime <= clock'
    BY <1>1, <2>1 DEF AInv, Ordered
  <2>4. ASSUME ~rewound', NEW a, a.ctime \in Nat, a.ctime <= file.ctime
        PROVE  a.ctime <= file'.ctime /\ (Current(a) => Current(a)')
    <3>1. ~rewound /\ file.ctime <= attr.ctime
      BY <1>2, <2>1, <2>4
    <3>2. CASE attr.ctime = clock + 1
      BY <1>1, <2>1, <2>4, <3>2 DEF AInv, Ordered, Current
    <3>3. CASE attr.ctime = before[t].ctime /\ attr.size = file.size
      <4>1. before[t].ctime <= file.ctime
        BY <3>1 DEF AInv, Ordered, Current
      <4>2. attr.ctime = file.ctime
        BY <2>1, <3>1, <3>3, <4>1
      <4> QED
        BY <1>1, <2>4, <3>3, <4>2 DEF Current
    <3> QED
      BY <3>2, <3>3
  <2>5. ASSUME ~rewound', NEW u \in Thread
        PROVE  /\ pc'[u] = "standard" => before'[u].ctime <= file'.ctime
               /\ Filled(u)' => Current(before[u])'
               /\ pc'[u] = "last" => after'[u].ctime <= file'.ctime
               /\ \A a \in Tells(reply[u]) : Current(a)'
    <3>1. ~rewound
      BY <1>2, <2>5
    <3>2. pc'[u] = pc[u] \/ (u = t /\ pc'[u] \notin {"standard", "last"} /\ Filled(u))
      BY DEF AInv, TypeOK
    <3> QED
      BY <2>1, <2>2, <2>4, <2>5, <3>1, <3>2 DEF AInv, Ordered, Filled, Current
  <2> QED
    BY <2>3, <2>5 DEF Ordered
<1> QED
  BY <1>3, <1>4 DEF AInv

\* A step inside a call that leaves the file alone.
LEMMA MoveAttrs ==
  ASSUME NEW t \in Thread, NEW place \in Places \ {"idle"}, NEW b \in Attr, NEW e \in Attr, NEW r \in Reply,
         AInv, pc[t] # "idle", Goto(t, place), UNCHANGED <<external, call, foreign>>,
         before' = [before EXCEPT ![t] = b], after' = [after EXCEPT ![t] = e], reply' = [reply EXCEPT ![t] = r],
         b.ctime <= clock,
         ~rewound => /\ place = "standard" => b.ctime <= file.ctime
                     /\ place \notin {"open", "basic", "standard"} => Current(b)
                     /\ place = "last" => e.ctime <= file.ctime
                     /\ \A a \in Tells(r) : Current(a)
  PROVE  AInv'
<1> USE DEF Goto, external
<1>1. TypeOK'
  BY DEF AInv, TypeOK, Reply, Places
<1>2. before'[t] = b /\ after'[t] = e /\ reply'[t] = r /\ pc'[t] = place
  BY DEF AInv, TypeOK
<1>3. ASSUME NEW u \in Thread, u # t
      PROVE  before'[u] = before[u] /\ after'[u] = after[u] /\ pc'[u] = pc[u] /\ reply'[u] = reply[u]
  BY <1>3 DEF AInv, TypeOK
<1>4. Ordered'
  BY <1>2, <1>3 DEF AInv, Ordered, Current, Filled
<1> QED
  BY <1>1, <1>4 DEF AInv

\* A call that begins has told nothing.
LEMMA BeginAttrs ==
  ASSUME NEW t \in Thread, NEW c \in Calls, AInv, Begin(t, c)
  PROVE  AInv'
<1> USE DEF Begin, Goto, external
<1>1. c \in Call /\ c # None
  BY CallsAssumption
<1>2. NoReply \in Reply /\ Tells(NoReply) = {}
  BY ResultTyped DEF NoReply, Status
<1>3. TypeOK'
  <2>1. foreign' \in [Thread -> BOOLEAN]
    BY DEF AInv, TypeOK
  <2> QED
    BY <1>1, <1>2, <2>1 DEF AInv, TypeOK, Reply
<1>4. Ordered'
  <2>1. pc'[t] = "open" /\ reply'[t] = NoReply
    BY DEF AInv, TypeOK
  <2>2. ASSUME NEW u \in Thread, u # t
        PROVE  pc'[u] = pc[u] /\ reply'[u] = reply[u]
    BY <2>2 DEF AInv, TypeOK
  <2> QED
    BY <1>2, <2>1, <2>2 DEF AInv, Ordered, Current, Filled
<1> QED
  BY <1>3, <1>4 DEF AInv

\* The two halves of attributes, the times and the size.
LEMMA HalfTyped ==
  ASSUME NEW a \in Attr, file \in Attr
  PROVE  /\ Half(a, 1) \in Attr /\ Half(a, 1).ctime = file.ctime
         /\ Half(a, 2) \in Attr /\ Half(a, 2).ctime = a.ctime /\ Half(a, 2).size = file.size
<1>1. Half(a, 1) = [a EXCEPT !.mtime = file.mtime, !.ctime = file.ctime]
  BY DEF Half
<1>2. Half(a, 2) = [a EXCEPT !.size = file.size]
  BY DEF Half
<1>3. Half(a, 1) \in Attr /\ Half(a, 1).ctime = file.ctime
  BY <1>1 DEF Attr
<1>4. Half(a, 2) \in Attr /\ Half(a, 2).ctime = a.ctime /\ Half(a, 2).size = file.size
  BY <1>2 DEF Attr
<1> QED
  BY <1>3, <1>4

\* Asking for attributes, opening, and the ends of SETATTR that leave the file alone.
LEMMA StepAttrs ==
  ASSUME NEW t \in Thread, AInv,
         Open(t) \/ Basic(t) \/ Standard(t) \/ NotSync(t) \/ SetFails(t) \/ AfterBasic(t)
  PROVE  AInv'
<1>1. /\ before[t] \in Attr /\ after[t] \in Attr /\ reply[t] \in Reply /\ file \in Attr
      /\ before[t].ctime <= clock /\ file.ctime <= clock /\ file.ctime <= file.ctime
      /\ before = [before EXCEPT ![t] = before[t]] /\ after = [after EXCEPT ![t] = after[t]]
      /\ reply = [reply EXCEPT ![t] = reply[t]]
  <2>1. before[t] \in Attr /\ after[t] \in Attr /\ reply[t] \in Reply /\ file \in Attr
    BY DEF AInv, TypeOK, Reply
  <2>2. file.ctime \in Int
    BY <2>1 DEF Attr, Times
  <2>3. before[t].ctime <= clock /\ file.ctime <= clock /\ file.ctime <= file.ctime
    BY <2>2 DEF AInv, Ordered
  <2>4. before = [before EXCEPT ![t] = before[t]] /\ after = [after EXCEPT ![t] = after[t]]
    BY DEF AInv, TypeOK
  <2>5. reply = [reply EXCEPT ![t] = reply[t]]
    BY DEF AInv, TypeOK
  <2> QED
    BY <2>1, <2>3, <2>4, <2>5
<1>2. ASSUME NEW a \in Attr
      PROVE  /\ Half(a, 1) \in Attr /\ Half(a, 1).ctime = file.ctime
             /\ Half(a, 2) \in Attr /\ Half(a, 2).ctime = a.ctime /\ Half(a, 2).size = file.size
  BY <1>1, HalfTyped
<1>3. ~rewound => /\ \A a \in Tells(reply[t]) : Current(a)
                  /\ pc[t] = "standard" => before[t].ctime <= file.ctime
                  /\ Filled(t) => Current(before[t])
  BY DEF AInv, Ordered
<1> HIDE DEF AInv
<1>4. CASE Open(t)
  <2>1. "basic" \in Places \ {"idle"} /\ pc[t] # "idle" /\ Goto(t, "basic")
        /\ UNCHANGED <<external, call, before, after, reply, foreign>>
    BY <1>4 DEF Open, Places
  <2> QED
    BY <1>1, <1>3, <2>1, MoveAttrs
<1>5. CASE Basic(t)
  <2>1. "standard" \in Places \ {"idle"} /\ pc[t] # "idle" /\ Goto(t, "standard")
        /\ before' = [before EXCEPT ![t] = Half(before[t], 1)]
        /\ UNCHANGED <<external, call, after, reply, foreign>>
    BY <1>5 DEF Basic, Places
  <2>2. Half(before[t], 1) \in Attr /\ Half(before[t], 1).ctime <= clock /\ Half(before[t], 1).ctime <= file.ctime
    BY <1>1, <1>2
  <2>3. "standard" # "last" /\ "standard" \in {"open", "basic", "standard"}
    OBVIOUS
  <2> QED
    BY <1>1, <1>3, <2>1, <2>2, <2>3, MoveAttrs
<1>6. CASE Standard(t)
  <2>1. PICK place \in Places \ {"idle", "open", "basic", "standard", "last"} : Goto(t, place)
    BY <1>6 DEF Standard, Places
  <2>2. pc[t] = "standard" /\ before' = [before EXCEPT ![t] = Half(before[t], 2)]
        /\ UNCHANGED <<external, call, after, reply, foreign>>
    BY <1>6 DEF Standard
  <2>3. Half(before[t], 2).ctime <= clock /\ (~rewound => Current(Half(before[t], 2)))
    <3> DEFINE a == Half(before[t], 2)
    <3>1. a.ctime = before[t].ctime /\ a.size = file.size
      BY <1>1, <1>2
    <3> HIDE DEF a
    <3>2. ~rewound => before[t].ctime <= file.ctime
      BY <1>3, <2>2
    <3>3. QED
      BY <1>1, <3>1, <3>2 DEF Current, a
  <2> QED
    BY <1>1, <1>2, <1>3, <2>1, <2>2, <2>3, MoveAttrs
<1>7. CASE NotSync(t) \/ SetFails(t)
  <2>1. PICK status \in Status : Leave(t, status)
    BY <1>7 DEF NotSync, SetFails, Status
  <2>2. "after" \in Places \ {"idle"} /\ Filled(t) /\ pc[t] # "idle" /\ Goto(t, "after")
        /\ reply' = [reply EXCEPT ![t] = Result(status)]
        /\ UNCHANGED <<external, call, before, after, foreign>>
    BY <1>7, <2>1 DEF NotSync, SetFails, Leave, At, Filled, Places
  <2>3. Result(status) \in Reply /\ Tells(Result(status)) = {}
    BY ResultTyped
  <2> QED
    BY <1>1, <1>3, <2>2, <2>3, MoveAttrs
<1>8. CASE AfterBasic(t)
  <2>1. "last" \in Places \ {"idle"} /\ Filled(t) /\ pc[t] # "idle" /\ Goto(t, "last")
        /\ after' = [after EXCEPT ![t] = Half(after[t], 1)]
        /\ UNCHANGED <<external, call, before, reply, foreign>>
    BY <1>8 DEF AfterBasic, Filled, Places
  <2> QED
    BY <1>1, <1>2, <1>3, <2>1, MoveAttrs
<1> QED
  BY <1>4, <1>5, <1>6, <1>7, <1>8

\* Steps that may change the file.
LEMMA WriterAttrs ==
  ASSUME NEW t \in Thread, AInv, Seek(t) \/ WriteData(t) \/ SetSize(t) \/ SetTimes(t)
  PROVE  AInv'
<1>1. /\ before[t] \in Attr /\ after[t] \in Attr /\ reply[t] \in Reply
      /\ file \in Attr /\ clock \in Times /\ call[t] \in Call \cup {None}
      /\ before = [before EXCEPT ![t] = before[t]] /\ after = [after EXCEPT ![t] = after[t]]
  BY DEF AInv, TypeOK, Reply
<1>2. reply = [reply EXCEPT ![t] = reply[t]]
  BY DEF AInv, TypeOK
<1>3. pc[t] # "idle" /\ Filled(t) /\ pc[t] # "last" /\ UNCHANGED <<call, before, after, reply>>
  BY DEF Seek, WriteData, SetSize, SetTimes, At, Filled
<1>4. call[t] \in Call
  BY <1>1, <1>3 DEF AInv, TypeOK
<1>5. PICK place \in {"write", "after", "times"} : Goto(t, place)
  BY DEF Seek, WriteData, SetSize, SetTimes
<1>6. ASSUME clock < MaxTime, NEW size \in Sizes
      PROVE  Sized(size) \in Attr /\ Sized(size).ctime = clock + 1
  BY <1>1, <1>6, BoundsAssumption DEF Sized, Attr, Times
<1>7. \/ UNCHANGED <<external, foreign>>
      \/ \E attr \in Attr :
           /\ Change(t, attr)
           /\ attr.ctime = clock + 1 \/ (attr.ctime = before[t].ctime /\ attr.size = file.size)
  <2>1. CASE Seek(t)
    <3>1. 0 \in Sizes
      BY BoundsAssumption DEF Sizes
    <3>2. UNCHANGED <<external, foreign>> \/ Change(t, Sized(0))
      BY <2>1 DEF Seek
    <3>3. Change(t, Sized(0)) => clock < MaxTime
      BY DEF Change
    <3> QED
      BY <1>6, <3>1, <3>2, <3>3
  <2>2. CASE WriteData(t)
    <3> DEFINE size == Max({file.size, call[t].offset + 1})
    <3>1. call[t].offset \in 0 .. MaxSize - 1
      BY <1>4, <2>2 DEF WriteData, At, Call, GetAttr, Read, Write, SetAttr
    <3>2. file.size \in Sizes
      BY <1>1 DEF Attr
    <3>3. size \in Sizes
      BY <3>1, <3>2, MaxOfTwo, BoundsAssumption DEF Sizes
    <3> HIDE DEF size
    <3>4. Change(t, Sized(size))
      BY <2>2 DEF WriteData, size
    <3>5. clock < MaxTime
      BY <3>4 DEF Change
    <3> QED
      BY <1>6, <3>3, <3>4, <3>5
  <2>3. CASE SetSize(t)
    <3>1. call[t].size \in Sizes \cup {None}
      BY <1>4, <2>3 DEF SetSize, At, Call, GetAttr, Read, Write, SetAttr
    <3>2. UNCHANGED <<external, foreign>> \/ (call[t].size # None /\ Change(t, Sized(call[t].size)))
      BY <2>3 DEF SetSize
    <3>3. Change(t, Sized(call[t].size)) => clock < MaxTime
      BY DEF Change
    <3> QED
      BY <1>6, <3>1, <3>2, <3>3
  <2>4. CASE SetTimes(t)
    <3> DEFINE attr == [size |-> file.size,
                        mtime |-> IF "mtime" \in call[t].set THEN clock + 1 ELSE before[t].mtime,
                        ctime |-> before[t].ctime]
    <3>1. UNCHANGED <<external, foreign>> \/ Change(t, attr)
      BY <2>4 DEF SetTimes
    <3>2. ASSUME clock < MaxTime PROVE attr \in Attr
      <4>1. /\ clock + 1 \in Times /\ before[t].mtime \in Times /\ before[t].ctime \in Times
            /\ file.size \in Sizes
        BY <1>1, <3>2, BoundsAssumption DEF Attr, Times
      <4> QED
        BY <4>1 DEF Attr
    <3>3. Change(t, attr) => clock < MaxTime
      BY DEF Change
    <3>4. attr.ctime = before[t].ctime /\ attr.size = file.size
      OBVIOUS
    <3> HIDE DEF attr
    <3> QED
      BY <3>1, <3>2, <3>3, <3>4
  <2> QED
    BY <2>1, <2>2, <2>3, <2>4
<1>8. CASE UNCHANGED <<external, foreign>>
  <2>1. /\ place \in Places \ {"idle"} /\ place \notin {"standard", "last"}
        /\ before' = [before EXCEPT ![t] = before[t]] /\ after' = [after EXCEPT ![t] = after[t]]
        /\ reply' = [reply EXCEPT ![t] = reply[t]]
    BY <1>1, <1>2, <1>3 DEF Places
  <2>2. /\ before[t].ctime <= clock
        /\ ~rewound => Current(before[t]) /\ \A a \in Tells(reply[t]) : Current(a)
    BY <1>3 DEF AInv, Ordered
  <2> QED
    BY <1>1, <1>3, <1>5, <1>8, <2>1, <2>2, MoveAttrs
<1>9. CASE ~ UNCHANGED <<external, foreign>>
  BY <1>3, <1>5, <1>7, <1>9, ChangeAttrs
<1> QED
  BY <1>8, <1>9

\* What a READ finds is a number of blocks.
LEMMA CountTyped ==
  ASSUME file \in Attr, NEW c \in Read
  PROVE  Min({c.count, Available(c.offset)}) \in Sizes
<1>1. c.count \in Sizes /\ c.offset \in Sizes /\ file.size \in Sizes
  BY DEF Read, Attr
<1>2. Available(c.offset) \in Sizes
  BY <1>1, MaxOfTwo, BoundsAssumption DEF Available, Sizes
<1> QED
  BY <1>1, <1>2, MinOfTwo DEF Sizes

\* A reply with some attributes is a reply, and tells no others: of READ, GETATTR, of a
\* failure, and of the calls that tell what was before and after.
LEMMA ReadReply ==
  ASSUME NEW count \in Sizes, NEW eof \in BOOLEAN, NEW attr \in Attr
  PROVE  /\ [Result("OK") EXCEPT !.attr = attr, !.count = count, !.eof = eof] \in Reply
         /\ Tells([Result("OK") EXCEPT !.attr = attr, !.count = count, !.eof = eof]) \subseteq {attr}
<1> DEFINE r == Result("OK")
<1>1. r \in Reply /\ r.before = None /\ r.after = None
  BY ResultTyped DEF Result, Status
<1> HIDE DEF r
<1>2. /\ [r EXCEPT !.attr = attr, !.count = count, !.eof = eof] \in Reply
      /\ Tells([r EXCEPT !.attr = attr, !.count = count, !.eof = eof]) \subseteq {attr}
  BY <1>1 DEF Reply, Tells
<1> QED
  BY <1>2 DEF r

LEMMA AttrReply ==
  ASSUME NEW attr \in Attr
  PROVE  /\ [Result("OK") EXCEPT !.attr = attr] \in Reply
         /\ Tells([Result("OK") EXCEPT !.attr = attr]) \subseteq {attr}
<1> DEFINE r == Result("OK")
<1>1. r \in Reply /\ r.before = None /\ r.after = None
  BY ResultTyped DEF Result, Status
<1> HIDE DEF r
<1>2. [r EXCEPT !.attr = attr] \in Reply /\ Tells([r EXCEPT !.attr = attr]) \subseteq {attr}
  BY <1>1 DEF Reply, Tells
<1> QED
  BY <1>2 DEF r

LEMMA FailReply ==
  ASSUME NEW attr \in Attr \cup {None}, NEW bef \in Attr \cup {None}
  PROVE  /\ [Result("ERR_IO") EXCEPT !.attr = attr, !.before = bef] \in Reply
         /\ Tells([Result("ERR_IO") EXCEPT !.attr = attr, !.before = bef]) \subseteq {attr, bef} \ {None}
<1> DEFINE r == Result("ERR_IO")
<1>1. r \in Reply /\ r.after = None
  BY ResultTyped DEF Result, Status
<1> HIDE DEF r
<1>2. /\ [r EXCEPT !.attr = attr, !.before = bef] \in Reply
      /\ Tells([r EXCEPT !.attr = attr, !.before = bef]) \subseteq {attr, bef} \ {None}
  BY <1>1 DEF Reply, Tells
<1> QED
  BY <1>2 DEF r

LEMMA WccReply ==
  ASSUME NEW status \in Status, NEW bef \in Attr, NEW aft \in Attr \cup {None}
  PROVE  /\ [Result(status) EXCEPT !.before = bef, !.after = aft] \in Reply
         /\ Tells([Result(status) EXCEPT !.before = bef, !.after = aft]) \subseteq {bef, aft} \ {None}
<1> DEFINE r == Result(status)
<1>1. r \in Reply /\ r.attr = None
  BY ResultTyped DEF Result
<1> HIDE DEF r
<1>2. /\ [r EXCEPT !.before = bef, !.after = aft] \in Reply
      /\ Tells([r EXCEPT !.before = bef, !.after = aft]) \subseteq {bef, aft} \ {None}
  BY <1>1 DEF Reply, Tells
<1> QED
  BY <1>2 DEF r

\* The ends of a call.
LEMMA EndAttrs ==
  ASSUME NEW t \in Thread, AInv,
         BadHandle(t) \/ Deny(t) \/ Fail(t) \/ ReplyAttr(t) \/ ReadData(t)
           \/ AfterStandard(t) \/ AfterFails(t)
  PROVE  AInv'
<1>1. before[t] \in Attr /\ after[t] \in Attr /\ reply[t] \in Reply /\ file \in Attr /\ call[t] \in Call \cup {None}
  BY DEF AInv, TypeOK, Reply
<1>2. UNCHANGED <<external, foreign>> /\ pc[t] # "idle"
  BY DEF BadHandle, Deny, Fail, ReplyAttr, ReadData, AfterStandard, AfterFails, At
<1>3. ~rewound => /\ Filled(t) => Current(before[t])
                  /\ pc[t] = "last" => after[t].ctime <= file.ctime
  BY DEF AInv, Ordered
<1>4. CASE BadHandle(t) \/ Deny(t)
  <2>1. PICK status \in Status : Finish(t, Result(status))
    BY <1>4 DEF BadHandle, Deny, Status
  <2> QED
    BY <1>2, <2>1, ResultTyped, FinishAttrs
<1>5. CASE Fail(t)
  <2>1. PICK attr \in {before[t], None}, bef \in {before[t], None} :
          /\ Finish(t, [Result("ERR_IO") EXCEPT !.attr = attr, !.before = bef])
          /\ attr # None \/ bef # None => pc[t] \in {"read", "seek", "write"}
    BY <1>5 DEF Fail
  <2>2. ~rewound => \A a \in {attr, bef} \ {None} : Current(a)
    BY <1>3, <2>1 DEF Filled
  <2> DEFINE outcome == [Result("ERR_IO") EXCEPT !.attr = attr, !.before = bef]
  <2>3. outcome \in Reply /\ Tells(outcome) \subseteq {attr, bef} \ {None}
    <3>1. attr \in Attr \cup {None} /\ bef \in Attr \cup {None}
      BY <1>1
    <3> HIDE DEF outcome
    <3>2. /\ [Result("ERR_IO") EXCEPT !.attr = attr, !.before = bef] \in Reply
          /\ Tells([Result("ERR_IO") EXCEPT !.attr = attr, !.before = bef]) \subseteq {attr, bef} \ {None}
      BY <3>1, FailReply, Zenon
    <3> QED
      BY <3>2 DEF outcome
  <2> HIDE DEF outcome
  <2>4. Finish(t, outcome)
    BY <2>1 DEF outcome
  <2> QED
    BY <1>2, <2>2, <2>3, <2>4, FinishAttrs
<1>6. CASE ReplyAttr(t)
  <2> DEFINE outcome == [Result("OK") EXCEPT !.attr = before[t]]
  <2>1. Finish(t, outcome) /\ Filled(t)
    BY <1>6 DEF ReplyAttr, At, Filled
  <2>2. outcome \in Reply /\ Tells(outcome) \subseteq {before[t]}
    BY <1>1, AttrReply
  <2> HIDE DEF outcome
  <2> QED
    BY <1>2, <1>3, <2>1, <2>2, FinishAttrs
<1>7. CASE ReadData(t)
  <2> DEFINE count == Min({call[t].count, Available(call[t].offset)})
             eof == (call[t].count # 0 /\ count = 0) \/ call[t].offset + count = before[t].size
             outcome == [Result("OK") EXCEPT !.attr = before[t], !.count = count, !.eof = eof]
  <2>1. Finish(t, outcome) /\ Filled(t)
    BY <1>7 DEF ReadData, At, Filled
  <2>2. call[t] \in Read
    BY <1>1, <1>2, <1>7 DEF ReadData, At, AInv, TypeOK, Call, GetAttr, Read, Write, SetAttr
  <2>3. count \in Sizes
    BY <1>1, <2>2, CountTyped
  <2>4. eof \in BOOLEAN
    OBVIOUS
  <2> HIDE DEF count, eof
  <2>5. outcome \in Reply /\ Tells(outcome) \subseteq {before[t]}
    BY <1>1, <2>3, <2>4, ReadReply
  <2> HIDE DEF outcome
  <2> QED
    BY <1>2, <1>3, <2>1, <2>5, FinishAttrs
<1>8. CASE AfterStandard(t) \/ AfterFails(t)
  <2>1. PICK attr \in {Half(after[t], 2), None} : LastAttr(t, attr) /\ (attr # None => pc[t] = "last")
    BY <1>8 DEF AfterStandard, AfterFails
  <2>2. Filled(t)
    BY <1>8 DEF AfterStandard, AfterFails, Filled
  <2>3. PICK status \in Status : Finish(t, [Result(status) EXCEPT !.before = before[t], !.after = attr])
    BY <1>1, <2>1 DEF LastAttr, Reply, Status
  <2>4. attr \in Attr \cup {None} /\ (~rewound => \A a \in {before[t], attr} \ {None} : Current(a))
    BY <1>1, <1>3, <2>1, <2>2, HalfTyped DEF Current
  <2> DEFINE outcome == [Result(status) EXCEPT !.before = before[t], !.after = attr]
  <2>5. outcome \in Reply /\ Tells(outcome) \subseteq {before[t], attr} \ {None}
    BY <1>1, <2>4, WccReply
  <2> HIDE DEF outcome
  <2>6. Finish(t, outcome)
    BY <2>3 DEF outcome
  <2> QED
    BY <1>2, <2>4, <2>5, <2>6, FinishAttrs
<1> QED
  BY <1>4, <1>5, <1>6, <1>7, <1>8

LEMMA NextAInv == AInv /\ [Next]_vars => AInv'
<1> SUFFICES ASSUME AInv, [Next]_vars PROVE AInv'
  OBVIOUS
<1>1. CASE UNCHANGED vars
  BY <1>1 DEF vars, external, AInv, TypeOK, Ordered, Filled, Current
<1>2. CASE Next
  BY <1>2, BeginAttrs, StepAttrs, WriterAttrs, EndAttrs DEF Next
<1> QED
  BY <1>1, <1>2

\* Types (nfs3.cpp:743-867, 1056-1205).
THEOREM TypeCorrect == Spec => []TypeOK
<1>1. AInv => TypeOK
  BY DEF AInv
<1> QED
  BY <1>1, InitAInv, NextAInv, PTL DEF Spec

\* Although the attributes of a reply are asked for in two steps, no client is told the times
\* the file has now with a size that is not its own, as long as no SETATTR puts ChangeTime back
\* (nfs3.cpp:773-781, 1085-1097).
THEOREM AttrsAreCurrent == Spec => []AttrsCurrent
<1>1. AInv => AttrsCurrent
  <2> SUFFICES ASSUME AInv, ~rewound, NEW a \in Told, a.ctime = file.ctime
               PROVE  a.size = file.size
    BY DEF AttrsCurrent
  <2>1. PICK t \in Thread : a \in Tells(reply[t])
    BY DEF Told, Tells
  <2> QED
    BY <2>1 DEF AInv, Ordered, Current
<1> QED
  BY <1>1, InitAInv, NextAInv, PTL DEF Spec

-----------------------------------------------------------------------------
(* Nfs3ReadDir *)

AddSize(size, total, n) == total + size[n]

Sums == INSTANCE FoldFacts WITH Op <- AddSize

\* The entries up to those a listing has are all there.
Initial(names, entries) ==
  /\ ToSet(names) \subseteq entries
  /\ \A n \in entries, i \in DOMAIN names : n < names[i] => n \in ToSet(names)

\* What the client will have with the page.
Together == client.got \o result.reply

\* A listing is a piece of the directory from its beginning, as it was when the first page
\* was opened and, if the verifier is that of the directory, as it is.
Piece(names, verifier) ==
  /\ Rising(names)
  /\ ToSet(names) \subseteq seen
  /\ verifier = written => Initial(names, dir)

\* Two listings from the beginning of the same directory do not differ where both have an
\* entry: the first place where the one had a lesser name would be missing in the other.
LEMMA NotLess ==
  ASSUME NEW entries \in SUBSET Nat, NEW a \in Seq(Nat), NEW b \in Seq(Nat), NEW i \in Nat,
         i \in 1 .. Len(a), i \in 1 .. Len(b), \A j \in 1 .. i - 1 : a[j] = b[j],
         Rising(a), Rising(b), Initial(a, entries), Initial(b, entries)
  PROVE  ~(a[i] < b[i])
<1>1. SUFFICES ASSUME a[i] < b[i] PROVE FALSE
  OBVIOUS
<1>2. a[i] \in entries
  BY DEF Initial, ToSet
<1>3. PICK k \in 1 .. Len(b) : a[i] = b[k]
  BY <1>1, <1>2 DEF Initial, ToSet
<1>4. a[i] \in Nat /\ b[i] \in Nat /\ DOMAIN a = 1 .. Len(a) /\ DOMAIN b = 1 .. Len(b)
  OBVIOUS
<1>5. ~(i < k) /\ i # k
  <2>1. i < k => b[i] < b[k]
    BY <1>4 DEF Rising
  <2>2. ~(b[i] < a[i]) /\ a[i] # b[i]
    BY <1>1, <1>4
  <2>3. QED
    BY <2>1, <2>2, <1>3
<1>6. k < i
  BY <1>5
<1>7. a[k] = a[i] /\ k \in 1 .. Len(a)
  <2>1. k \in 1 .. i - 1
    BY <1>6
  <2>2. QED
    BY <2>1, <1>3
<1>8. a[k] < a[i]
  BY <1>4, <1>6, <1>7 DEF Rising
<1>9. QED
  BY <1>4, <1>7, <1>8

LEMMA SameInitial ==
  ASSUME NEW entries \in SUBSET Nat, NEW a \in Seq(Nat), NEW b \in Seq(Nat),
         Rising(a), Rising(b), Initial(a, entries), Initial(b, entries),
         NEW i \in Nat, i \in 1 .. Len(a), i \in 1 .. Len(b)
  PROVE  a[i] = b[i]
<1> DEFINE Differ == {j \in Nat : j \in 1 .. Len(a) /\ j \in 1 .. Len(b) /\ a[j] # b[j]}
<1>1. SUFFICES ASSUME Differ # {} PROVE FALSE
  OBVIOUS
<1>2. PICK j \in Differ : \A l \in Differ : j <= l
  <2>1. Differ \in SUBSET Nat
    OBVIOUS
  <2> HIDE DEF Differ
  <2>2. QED
    BY <1>1, <2>1, Sums!LeastNumber
<1>3. \A l \in 1 .. j - 1 : a[l] = b[l] /\ b[l] = a[l]
  <2>1. ASSUME NEW l \in 1 .. j - 1 PROVE l \notin Differ /\ l \in 1 .. Len(a) /\ l \in 1 .. Len(b) /\ l \in Nat
    BY <1>2
  <2>2. QED
    BY <2>1
<1>4. ~(a[j] < b[j]) /\ ~(b[j] < a[j])
  BY <1>2, <1>3, NotLess
<1>5. a[j] \in Nat /\ b[j] \in Nat
  OBVIOUS
<1>6. QED
  BY <1>2, <1>4, <1>5

\* The greater of 0 and a number.
LEMMA AtLeastZero ==
  ASSUME NEW i \in Int
  PROVE  Max({0, i}) = IF i < 0 THEN 0 ELSE i
BY DEF Max

\* The elements of a subsequence.
LEMMA SubSeqIs ==
  ASSUME NEW S, NEW s \in Seq(S), NEW p \in Nat \ {0}, NEW m \in 0 .. Len(s)
  PROVE  /\ SubSeq(s, p, m) \in Seq(S)
         /\ Len(SubSeq(s, p, m)) = IF p <= m THEN m - p + 1 ELSE 0
         /\ \A i \in 1 .. m - p + 1 : SubSeq(s, p, m)[i] = s[p + i - 1]
<1>1. (\A i \in p .. m : s[i] \in S) /\ p \in Int /\ m \in Int
  OBVIOUS
<1>2. QED
  BY <1>1, SubSeqProperties

\* To leave out the first c of two sequences together is to leave them out of the first and,
\* if there are more, the rest of them of the second.
LEMMA SkipBoth ==
  ASSUME NEW S, NEW a \in Seq(S), NEW b \in Seq(S), NEW c \in Nat
  PROVE  SubSeq(a \o b, c + 1, Len(a) + Len(b)) =
           SubSeq(a, c + 1, Len(a)) \o SubSeq(b, Max({0, c - Len(a)}) + 1, Len(b))
<1> DEFINE k == Max({0, c - Len(a)})
           left == SubSeq(a \o b, c + 1, Len(a) + Len(b))
           r1 == SubSeq(a, c + 1, Len(a))
           r2 == SubSeq(b, k + 1, Len(b))
<1>1. k = (IF c < Len(a) THEN 0 ELSE c - Len(a)) /\ k \in Nat
  <2>1. c - Len(a) \in Int /\ Len(a) \in Nat
    OBVIOUS
  <2>2. QED
    BY <2>1, AtLeastZero
<1> HIDE DEF k
<1>2. /\ a \o b \in Seq(S) /\ Len(a \o b) = Len(a) + Len(b)
      /\ \A i \in 1 .. Len(a) + Len(b) : (a \o b)[i] = IF i <= Len(a) THEN a[i] ELSE b[i - Len(a)]
  BY ConcatProperties
<1>3. /\ left \in Seq(S)
      /\ Len(left) = IF c + 1 <= Len(a) + Len(b) THEN Len(a) + Len(b) - (c + 1) + 1 ELSE 0
      /\ \A i \in 1 .. Len(a) + Len(b) - (c + 1) + 1 : left[i] = (a \o b)[c + 1 + i - 1]
  <2> DEFINE both == a \o b
             last == Len(a) + Len(b)
             rest == SubSeq(both, c + 1, last)
  <2>1. both \in Seq(S) /\ c + 1 \in Nat \ {0} /\ last \in 0 .. Len(both)
    BY <1>2
  <2> HIDE DEF both, last
  <2>2. /\ rest \in Seq(S)
        /\ Len(rest) = IF c + 1 <= last THEN last - (c + 1) + 1 ELSE 0
        /\ \A i \in 1 .. last - (c + 1) + 1 : rest[i] = both[c + 1 + i - 1]
    BY <2>1, SubSeqIs
  <2>3. left = rest
    BY DEF both, last
  <2> HIDE DEF left, rest
  <2>4. /\ left \in Seq(S)
        /\ Len(left) = IF c + 1 <= last THEN last - (c + 1) + 1 ELSE 0
        /\ \A i \in 1 .. last - (c + 1) + 1 : left[i] = both[c + 1 + i - 1]
    BY <2>2, <2>3, Zenon
  <2>5. Len(left) = IF c + 1 <= Len(a) + Len(b) THEN Len(a) + Len(b) - (c + 1) + 1 ELSE 0
    <3>1. Len(left) = IF c + 1 <= last THEN last - (c + 1) + 1 ELSE 0
      BY <2>4
    <3>2. QED
      BY <3>1 DEF last
  <2>6. ASSUME NEW i \in 1 .. Len(a) + Len(b) - (c + 1) + 1 PROVE left[i] = (a \o b)[c + 1 + i - 1]
    <3>1. i \in 1 .. last - (c + 1) + 1
      BY DEF last
    <3>2. left[i] = both[c + 1 + i - 1]
      BY <2>4, <3>1
    <3>3. QED
      BY <3>2 DEF both
  <2>7. QED
    BY <2>4, <2>5, <2>6
<1>4. /\ r1 \in Seq(S)
      /\ Len(r1) = IF c + 1 <= Len(a) THEN Len(a) - (c + 1) + 1 ELSE 0
      /\ \A i \in 1 .. Len(a) - (c + 1) + 1 : r1[i] = a[c + 1 + i - 1]
  <2>1. (\A i \in c + 1 .. Len(a) : a[i] \in S) /\ c + 1 \in Int /\ Len(a) \in Int
    OBVIOUS
  <2>2. QED
    BY <2>1, SubSeqProperties
<1>5. /\ r2 \in Seq(S)
      /\ Len(r2) = IF k + 1 <= Len(b) THEN Len(b) - (k + 1) + 1 ELSE 0
      /\ \A i \in 1 .. Len(b) - (k + 1) + 1 : r2[i] = b[k + 1 + i - 1]
  <2>1. (\A i \in k + 1 .. Len(b) : b[i] \in S) /\ k + 1 \in Int /\ Len(b) \in Int
    BY <1>1
  <2>2. QED
    BY <2>1, SubSeqProperties
<1>6. Len(a) \in Nat /\ Len(b) \in Nat
  OBVIOUS
<1> HIDE DEF left, r1, r2
<1>12. Len(r1) \in Nat /\ k - Len(r1) = c - Len(a) /\ (Len(r1) = 0 \/ Len(r1) = Len(a) - c)
  <2>1. CASE c < Len(a)
    BY <2>1, <1>1, <1>4, <1>6
  <2>2. CASE c >= Len(a)
    BY <2>2, <1>1, <1>4, <1>6
  <2>3. QED
    BY <2>1, <2>2, <1>6
<1>7. /\ r1 \o r2 \in Seq(S) /\ Len(r1 \o r2) = Len(r1) + Len(r2)
      /\ \A i \in 1 .. Len(r1) + Len(r2) : (r1 \o r2)[i] = IF i <= Len(r1) THEN r1[i] ELSE r2[i - Len(r1)]
  BY <1>4, <1>5, ConcatProperties
<1>8. Len(left) = Len(r1 \o r2)
  <2>1. CASE c < Len(a)
    <3>1. k = 0 /\ Len(r1) = Len(a) - c
      BY <2>1, <1>1, <1>4, <1>6
    <3>2. Len(r2) = Len(b)
      BY <3>1, <1>5, <1>6
    <3>3. Len(left) = Len(a) - c + Len(b)
      BY <2>1, <1>3, <1>6
    <3>4. QED
      BY <3>1, <3>2, <3>3, <1>7
  <2>2. CASE c >= Len(a)
    <3>1. k = c - Len(a) /\ Len(r1) = 0
      BY <2>2, <1>1, <1>4, <1>6
    <3>2. Len(r2) = IF c + 1 <= Len(a) + Len(b) THEN Len(a) + Len(b) - c ELSE 0
      BY <3>1, <2>2, <1>5, <1>6
    <3>3. Len(left) = Len(r2)
      BY <3>2, <1>3, <1>6
    <3>4. Len(r2) \in Nat
      BY <1>5, <1>1, <1>6
    <3>5. QED
      BY <3>1, <3>3, <3>4, <1>7
  <2>3. QED
    BY <2>1, <2>2, <1>6
<1>9. ASSUME NEW i \in 1 .. Len(left) PROVE left[i] = (r1 \o r2)[i]
  <2>0. i \in Nat /\ i >= 1 /\ i <= Len(left) /\ Len(left) \in Nat
    BY <1>3
  <2>1. left[i] = (a \o b)[c + i] /\ c + i \in 1 .. Len(a) + Len(b)
    <3>1. c + 1 <= Len(a) + Len(b) /\ i \in 1 .. Len(a) + Len(b) - (c + 1) + 1
      BY <2>0, <1>3, <1>6
    <3>2. c + 1 + i - 1 = c + i /\ c + i \in 1 .. Len(a) + Len(b)
      BY <3>1, <2>0, <1>6
    <3>3. QED
      BY <3>1, <3>2, <1>3
  <2>2. CASE c + i <= Len(a)
    <3>1. i <= Len(r1) /\ r1[i] = a[c + i] /\ (a \o b)[c + i] = a[c + i]
      <4>1. c + 1 <= Len(a) /\ i \in 1 .. Len(a) - (c + 1) + 1 /\ c + 1 + i - 1 = c + i
        BY <2>0, <2>2, <1>6
      <4>2. i <= Len(r1)
        BY <4>1, <2>0, <1>4, <1>6
      <4>3. QED
        BY <4>1, <4>2, <2>1, <2>2, <1>2, <1>4
    <3>2. QED
      BY <2>0, <2>1, <3>1, <1>7, <1>8
  <2>3. CASE c + i > Len(a)
    <3>1. (a \o b)[c + i] = b[c + i - Len(a)]
      BY <2>0, <2>1, <2>3, <1>2, <1>6
    <3>2. i > Len(r1) /\ k + (i - Len(r1)) = c + i - Len(a)
      <4>1. k \in Nat /\ Len(a) \in Nat /\ Len(r1) \in Nat /\ i \in Nat
        BY <1>1, <1>6, <1>12, <2>0
      <4>2. i > Len(r1)
        BY <4>1, <2>0, <2>3, <1>12
      <4>3. k + (i - Len(r1)) = (k - Len(r1)) + i
        BY <4>1
      <4>4. QED
        BY <4>1, <4>2, <4>3, <1>12
    <3>3. r2[i - Len(r1)] = b[k + (i - Len(r1))]
      <4>1. i - Len(r1) \in 1 .. Len(b) - (k + 1) + 1
        BY <2>0, <2>1, <3>2, <1>1, <1>4, <1>6
      <4>2. k + 1 + (i - Len(r1)) - 1 = k + (i - Len(r1))
        BY <1>1, <1>4
      <4>3. QED
        BY <4>1, <4>2, <1>5
    <3>4. QED
      BY <2>0, <2>1, <3>1, <3>2, <3>3, <1>7, <1>8
  <2>4. c + i <= Len(a) \/ c + i > Len(a)
    BY <2>0, <1>6
  <2>5. QED
    BY <2>2, <2>3, <2>4
<1>10. left = r1 \o r2
  BY <1>3, <1>7, <1>8, <1>9, SeqEqual
<1>11. QED
  BY <1>10 DEF left, r1, r2, k

LEMMA StartIs ==
  ASSUME NEW S, NEW s \in Seq(S), NEW m \in 0 .. Len(s)
  PROVE  /\ SubSeq(s, 1, m) \in Seq(S)
         /\ Len(SubSeq(s, 1, m)) = m /\ DOMAIN SubSeq(s, 1, m) = 1 .. m
         /\ \A i \in 1 .. m : SubSeq(s, 1, m)[i] = s[i]
<1> DEFINE start == SubSeq(s, 1, m)
<1>1. m \in Nat
  OBVIOUS
<1>2. /\ start \in Seq(S) /\ Len(start) = IF 1 <= m THEN m - 1 + 1 ELSE 0
      /\ \A i \in 1 .. m - 1 + 1 : start[i] = s[1 + i - 1]
  <2>1. 1 \in Nat \ {0}
    OBVIOUS
  <2>2. QED
    BY <2>1, SubSeqIs
<1> HIDE DEF start
<1>3. Len(start) = m
  BY <1>1, <1>2
<1>4. ASSUME NEW i \in 1 .. m PROVE start[i] = s[i]
  <2>1. i \in 1 .. m - 1 + 1 /\ 1 + i - 1 = i
    BY <1>1
  <2>2. QED
    BY <1>2, <2>1
<1>5. DOMAIN start = 1 .. m
  BY <1>2, <1>3
<1>6. QED
  BY <1>2, <1>3, <1>4, <1>5 DEF start

\* In a rising sequence the lesser element has the lesser place.
LEMMA RisingPlaces ==
  ASSUME NEW s \in Seq(Nat), Rising(s), NEW i \in 1 .. Len(s), NEW k \in 1 .. Len(s), s[k] < s[i]
  PROVE  k < i
<1>1. DOMAIN s = 1 .. Len(s) /\ s[i] \in Nat /\ s[k] \in Nat /\ i \in Nat /\ k \in Nat
  OBVIOUS
<1>2. i < k => s[i] < s[k]
  BY <1>1 DEF Rising
<1>3. i # k
  BY <1>1
<1>4. QED
  BY <1>1, <1>2, <1>3

\* The beginning of a piece is a piece.
LEMMA PieceStart ==
  ASSUME NEW names \in Seq(Nat), NEW v, dir \in SUBSET Nat, Piece(names, v),
         NEW m \in 0 .. Len(names)
  PROVE  Piece(SubSeq(names, 1, m), v)
<1> DEFINE start == SubSeq(names, 1, m)
<1>1. /\ start \in Seq(Nat) /\ DOMAIN start = 1 .. m
      /\ \A i \in 1 .. m : start[i] = names[i] /\ i \in 1 .. Len(names)
  BY StartIs
<1>2. DOMAIN names = 1 .. Len(names)
  OBVIOUS
<1> HIDE DEF start
<1>3. Rising(start)
  BY <1>1, <1>2 DEF Piece, Rising
<1>4. \A x : ToSet(names) \subseteq x => ToSet(start) \subseteq x
  BY <1>1, <1>2 DEF ToSet
<1>5. ASSUME Initial(names, dir) PROVE Initial(start, dir)
  <2>1. ASSUME NEW n \in dir, NEW i \in 1 .. m, n < start[i] PROVE n \in ToSet(start)
    <3>1. n < names[i] /\ i \in 1 .. Len(names)
      BY <1>1, <2>1
    <3>2. PICK k \in 1 .. Len(names) : n = names[k]
      BY <1>2, <1>5, <3>1 DEF Initial, ToSet
    <3>3. k < i
      BY <3>1, <3>2, RisingPlaces DEF Piece
    <3>4. k \in 1 .. m
      BY <3>3
    <3>5. QED
      BY <1>1, <3>2, <3>4 DEF ToSet
  <2>2. QED
    BY <1>1, <1>4, <1>5, <2>1 DEF Initial
<1>6. QED
  BY <1>3, <1>4, <1>5 DEF Piece, start

\* What a listing of a directory has and what the file system gives of the same directory are
\* the same as far as both go.
LEMMA SameStart ==
  ASSUME NEW a \in Seq(Nat), NEW b \in Seq(Nat), dir \in SUBSET Nat,
         Piece(a, written), Piece(b, written), Len(a) <= Len(b)
  PROVE  a = SubSeq(b, 1, Len(a))
<1>1. Len(a) \in 0 .. Len(b) /\ Len(a) \in Nat
  OBVIOUS
<1>2. /\ SubSeq(b, 1, Len(a)) \in Seq(Nat) /\ Len(SubSeq(b, 1, Len(a))) = Len(a)
      /\ \A i \in 1 .. Len(a) : SubSeq(b, 1, Len(a))[i] = b[i]
  BY <1>1, StartIs
<1>3. ASSUME NEW i \in 1 .. Len(a) PROVE a[i] = b[i]
  <2>1. i \in Nat /\ i \in 1 .. Len(b)
    BY <1>1
  <2>2. QED
    BY <2>1, SameInitial DEF Piece
<1>4. QED
  BY <1>2, <1>3, SeqEqual

\* A page that leaves out of a longer piece what the client has makes a piece with it.
LEMMA PageIsPiece ==
  ASSUME NEW got \in Seq(Nat), NEW whole \in Seq(Nat), NEW v, NEW u,
         dir \in SUBSET Nat, Piece(got, u), Piece(whole, v),
         got # <<>> => u = v /\ v = written,
         NEW m \in 0 .. Len(whole)
  PROVE  /\ Piece(got \o SubSeq(whole, Len(got) + 1, m), v)
         /\ Len(got) <= m => got \o SubSeq(whole, Len(got) + 1, m) = SubSeq(whole, 1, m)
         /\ m < Len(got) => got \o SubSeq(whole, Len(got) + 1, m) = got
<1> DEFINE c == Len(got)
           page == SubSeq(whole, c + 1, m)
<1>1. c \in Nat /\ m \in Nat /\ m <= Len(whole)
  OBVIOUS
<1>2. CASE c <= m
  <2>1. got = SubSeq(whole, 1, c)
    <3>1. CASE got = <<>>
      <4>1. c = 0
        BY <3>1
      <4>2. SubSeq(whole, 1, 0) = <<>>
        BY SubSeqEmpty
      <4>3. QED
        BY <3>1, <4>1, <4>2
    <3>2. CASE got # <<>>
      <4>1. Piece(got, written) /\ Piece(whole, written) /\ Len(got) <= Len(whole)
        BY <1>1, <1>2, <3>2
      <4>2. QED
        BY <4>1, SameStart
    <3>3. QED
      BY <3>1, <3>2
  <2>2. SubSeq(whole, 1, c) \o SubSeq(whole, c + 1, m) = SubSeq(whole, 1, m)
    <3>1. 1 \in 1 .. Len(whole) + 1 /\ c \in 1 - 1 .. Len(whole) /\ m \in c .. Len(whole)
      BY <1>1, <1>2
    <3>2. QED
      BY <3>1, ConcatAdjacentSubSeq
  <2>3. got \o page = SubSeq(whole, 1, m)
    <3> HIDE DEF c
    <3>1. QED
      BY <2>1, <2>2
  <2>4. Piece(SubSeq(whole, 1, m), v)
    BY PieceStart
  <2>5. ~(m < c)
    BY <1>1, <1>2
  <2>6. QED
    BY <2>3, <2>4, <2>5
<1>3. CASE m < c
  <2>1. page = <<>>
    <3>1. m < c + 1 /\ c + 1 \in Int /\ m \in Int
      BY <1>1, <1>3
    <3>2. QED
      BY <3>1, SubSeqEmpty
  <2>2. got \o page = got
    BY <2>1, ConcatEmptySeq
  <2>3. got # <<>>
    BY <1>1, <1>3
  <2>4. ~(c <= m)
    BY <1>1, <1>3
  <2>5. Piece(got, v)
    BY <2>3
  <2>6. QED
    BY <2>2, <2>4, <2>5
<1>4. c <= m \/ m < c
  BY <1>1
<1>5. QED
  BY <1>2, <1>3, <1>4

\* The client counts what it has.
ClientKnows ==
  /\ client.cookie = Len(client.got)
  /\ client.verifier <= written
  /\ client.cookie > 0 => client.verifier > 0
  /\ disturbed = {} =>
       /\ Piece(client.got, client.verifier)
       /\ client.state = "complete" => kept \subseteq ToSet(client.got)

\* A call asks for what the client does not have yet.
CallAsks ==
  /\ step # "idle" =>
       client.state = "listing" /\ args.cookie = client.cookie /\ args.verifier = client.verifier
  /\ step = "called" => result = NewResult
  /\ step = "enumerating" =>
       /\ result.status = "ERR_ACCESS" /\ result.verifier \in 1 .. written
       /\ args.cookie > 0 => args.verifier = result.verifier /\ (disturbed = {} => written = result.verifier)
  /\ step = "answered" /\ result.status = "OK" => Plus /\ result.verifier \in 1 .. written

\* The entries the file system has given the call so far, and which of them are in the reply.
Gave(given) ==
  /\ Piece(given, result.verifier)
  /\ result.last = IF given = <<>> THEN 0 ELSE Last(given)
  /\ \A n \in kept : n <= result.last => n \in ToSet(given)
  /\ result.reply = SubSeq(given, args.cookie + 1, result.position)

PageGrows ==
  step = "enumerating" /\ disturbed = {} => \E given \in [1 .. result.position -> Name] : Gave(given)

\* What a page says.
PageTells ==
  step = "answered" /\ result.status = "OK" /\ disturbed = {} =>
    /\ Piece(Together, result.verifier)
    /\ result.is_finished /\ ~result.cut => kept \subseteq ToSet(Together)

PageFits ==
  step \in {"enumerating", "answered"} /\ Plus /\ result.reply # <<>> => Fits(result.reply)

ListingInv ==
  /\ ListingTypeOK
  /\ kept \subseteq dir /\ dir \subseteq seen
  /\ ClientKnows
  /\ CallAsks
  /\ PageGrows
  /\ PageTells
  /\ PageFits

\* Names are numbers, and a sequence of names one of numbers.
LEMMA NamesAreNumbers ==
  /\ Name \subseteq Nat /\ \A n \in Name : n > 0
  /\ \A s \in Seq(Name) : s \in Seq(Nat) /\ Len(s) \in Nat /\ DOMAIN s = 1 .. Len(s)
<1>1. Name \subseteq Nat /\ \A n \in Name : n > 0
  <2>1. \A n \in Name : n \in Nat \ {0}
    BY ListingAssumption
  <2>2. QED
    BY <2>1
<1>2. ASSUME NEW s \in Seq(Name) PROVE s \in Seq(Nat) /\ Len(s) \in Nat /\ DOMAIN s = 1 .. Len(s)
  <2>1. s \in Seq(Nat)
    BY <1>1, SeqMonotonic, Zenon
  <2>2. QED
    BY <2>1
<1>3. QED
  BY <1>1, <1>2

\* Piece by piece: what follows in the directory makes a longer piece.
LEMMA GiveMore ==
  ASSUME ListingTypeOK, kept \subseteq dir, dir \subseteq seen, NEW v,
         NEW given \in Seq(Name), Piece(given, v), NEW entries \in Buffers,
         result.last = (IF given = <<>> THEN 0 ELSE Last(given)),
         \A n \in kept : n <= result.last => n \in ToSet(given)
  PROVE  /\ entries \in Seq(Name) /\ Len(entries) \in Nat \ {0}
         /\ given \o entries \in Seq(Name) /\ Len(given \o entries) = Len(given) + Len(entries)
         /\ given \o entries # <<>> /\ Last(given \o entries) = Last(entries)
         /\ Piece(given \o entries, v)
         /\ \A n \in kept : n <= Last(entries) => n \in ToSet(given \o entries)
<1> DEFINE whole == given \o entries
           g == Len(given)
           e == Len(entries)
<1>1. /\ dir \subseteq Name /\ Name \subseteq Nat /\ \A n \in Name : n > 0
      /\ result.last \in Nat
  <2>1. dir \subseteq Name /\ result.last \in Name \cup {0}
    BY DEF ListingTypeOK
  <2>2. Name \subseteq Nat /\ \A n \in Name : n > 0
    BY NamesAreNumbers
  <2>3. CASE result.last \in Name
    BY <2>1, <2>2, <2>3
  <2>4. CASE result.last = 0
    BY <2>1, <2>2, <2>4
  <2>5. QED
    BY <2>1, <2>3, <2>4
<1>2. PICK k \in 1 .. Chunk : entries \in [1 .. k -> dir]
  BY DEF Buffers
<1>3. /\ Rising(entries) /\ entries[1] > result.last
      /\ \A n \in dir : result.last < n /\ n < Last(entries) => n \in ToSet(entries)
  BY DEF Buffers
<1>4. /\ entries \in Seq(Name) /\ entries \in Seq(Nat) /\ e \in Nat \ {0} /\ e = k
      /\ DOMAIN entries = 1 .. e /\ \A i \in 1 .. e : entries[i] \in dir /\ entries[i] \in Nat
  <2>1. k \in Nat /\ k >= 1
    BY ListingAssumption
  <2>2. entries \in [1 .. k -> Name] /\ entries \in [1 .. k -> Nat]
    BY <1>1, <1>2
  <2>3. QED
    BY <1>1, <1>2, <2>1, <2>2
<1>5. given \in Seq(Nat) /\ g \in Nat /\ DOMAIN given = 1 .. g /\ \A i \in 1 .. g : given[i] \in Nat
  BY NamesAreNumbers
<1>6. /\ whole \in Seq(Name) /\ Len(whole) = g + e /\ DOMAIN whole = 1 .. g + e
      /\ \A i \in 1 .. g + e : whole[i] = IF i <= g THEN given[i] ELSE entries[i - g]
  <2>1. /\ whole \in Seq(Name) /\ Len(whole) = g + e
        /\ \A i \in 1 .. g + e : whole[i] = IF i <= g THEN given[i] ELSE entries[i - g]
    BY <1>4, ConcatProperties
  <2>2. DOMAIN whole = 1 .. g + e
    BY <2>1
  <2>3. QED
    BY <2>1, <2>2
<1>7. /\ \A i \in 1 .. g : whole[i] = given[i] /\ i \in 1 .. g + e
      /\ \A i \in 1 .. e : whole[g + i] = entries[i] /\ g + i \in 1 .. g + e
  <2>1. ASSUME NEW i \in 1 .. g PROVE whole[i] = given[i] /\ i \in 1 .. g + e
    BY <1>4, <1>5, <1>6
  <2>2. ASSUME NEW i \in 1 .. e PROVE whole[g + i] = entries[i] /\ g + i \in 1 .. g + e
    <3>1. g + i \in 1 .. g + e /\ ~(g + i <= g) /\ g + i - g = i
      BY <1>4, <1>5
    <3>2. QED
      BY <3>1, <1>6
  <2>3. QED
    BY <2>1, <2>2
<1>8. ASSUME NEW i \in 1 .. g + e, i \notin 1 .. g PROVE i - g \in 1 .. e /\ i = g + (i - g)
  <2>1. i \in Nat /\ g \in Nat /\ e \in Nat /\ 1 <= i /\ i <= g + e /\ ~(i <= g)
    BY <1>4, <1>5, <1>8
  <2>2. QED
    BY <2>1
<1>9. ToSet(whole) = ToSet(given) \cup ToSet(entries)
  <2>1. ToSet(whole) \subseteq ToSet(given) \cup ToSet(entries)
    <3>1. ASSUME NEW i \in 1 .. g + e PROVE whole[i] \in ToSet(given) \cup ToSet(entries)
      <4>1. CASE i \in 1 .. g
        BY <4>1, <1>5, <1>7 DEF ToSet
      <4>2. CASE i \notin 1 .. g
        <5>1. whole[i] = entries[i - g] /\ i - g \in 1 .. e
          BY <4>2, <1>7, <1>8
        <5>2. QED
          BY <5>1, <1>4 DEF ToSet
      <4>3. QED
        BY <4>1, <4>2
    <3>2. QED
      BY <1>6, <3>1 DEF ToSet
  <2>2. ToSet(given) \cup ToSet(entries) \subseteq ToSet(whole)
    BY <1>4, <1>5, <1>6, <1>7 DEF ToSet
  <2>3. QED
    BY <2>1, <2>2
<1>10. Rising(given) /\ ToSet(given) \subseteq seen
  BY DEF Piece
<1>11. \A i \in 1 .. g : given[i] <= result.last
  <2> SUFFICES ASSUME NEW i \in 1 .. g PROVE given[i] <= result.last
    OBVIOUS
  <2>1. given # <<>> /\ g \in 1 .. g /\ result.last = given[g]
    BY <1>5 DEF Last
  <2>2. i < g => given[i] < given[g]
    BY <1>5, <1>10, <2>1 DEF Rising
  <2>3. QED
    BY <1>5, <2>1, <2>2
<1>12. \A i \in 1 .. e : entries[1] <= entries[i] /\ entries[i] <= entries[e]
  <2> SUFFICES ASSUME NEW i \in 1 .. e PROVE entries[1] <= entries[i] /\ entries[i] <= entries[e]
    OBVIOUS
  <2>1. 1 \in 1 .. e /\ e \in 1 .. e
    BY <1>4
  <2>2. (1 < i => entries[1] < entries[i]) /\ (i < e => entries[i] < entries[e])
    BY <1>3, <1>4, <2>1 DEF Rising
  <2>3. QED
    BY <1>4, <2>1, <2>2
<1>13. \A i \in 1 .. g, j \in 1 .. e : given[i] < entries[j]
  <2>1. entries[1] \in Nat
    BY <1>4
  <2>2. QED
    BY <1>1, <1>3, <1>4, <1>5, <1>11, <1>12, <2>1
<1>14. Rising(whole)
  <2> SUFFICES ASSUME NEW i \in 1 .. g + e, NEW j \in 1 .. g + e, i < j PROVE whole[i] < whole[j]
    BY <1>6 DEF Rising
  <2>1. CASE j \in 1 .. g
    <3>1. i \in 1 .. g
      BY <2>1, <1>5
    <3>2. QED
      BY <3>1, <2>1, <1>5, <1>7, <1>10 DEF Rising
  <2>2. CASE j \notin 1 .. g /\ i \in 1 .. g
    BY <2>2, <1>7, <1>8, <1>13
  <2>3. CASE j \notin 1 .. g /\ i \notin 1 .. g
    <3>1. i - g < j - g
      BY <1>5
    <3>2. i - g \in 1 .. e /\ j - g \in 1 .. e /\ whole[i] = entries[i - g] /\ whole[j] = entries[j - g]
      BY <2>3, <1>7, <1>8
    <3>3. QED
      BY <3>1, <3>2, <1>3, <1>4 DEF Rising
  <2>4. QED
    BY <2>1, <2>2, <2>3
<1>15. ToSet(entries) \subseteq seen
  BY <1>4 DEF ToSet
<1>16. Last(entries) = entries[e] /\ Last(entries) \in ToSet(entries)
  <2>1. e \in 1 .. e
    BY <1>4
  <2>2. QED
    BY <1>4, <2>1 DEF Last, ToSet
<1>17. ASSUME NEW n \in dir, result.last < n, n <= Last(entries) PROVE n \in ToSet(entries)
  <2>1. n \in Nat /\ Last(entries) \in Nat
    BY <1>1, <1>4, <1>16
  <2>2. QED
    BY <2>1, <1>3, <1>16, <1>17
<1>18. ASSUME Initial(given, dir) PROVE Initial(whole, dir)
  <2>1. ToSet(whole) \subseteq dir
    BY <1>4, <1>9, <1>18 DEF ToSet, Initial
  <2>2. ASSUME NEW n \in dir, NEW i \in 1 .. g + e, n < whole[i] PROVE n \in ToSet(whole)
    <3>0. n \in Nat /\ n # 0
      BY <1>1
    <3>1. CASE i \in 1 .. g
      BY <3>1, <2>2, <1>5, <1>7, <1>9, <1>18 DEF Initial
    <3>2. CASE i \notin 1 .. g /\ n <= result.last
      <4>1. given # <<>>
        BY <3>0, <3>2
      <4>2. g \in 1 .. g /\ result.last = given[g]
        BY <1>5, <4>1 DEF Last
      <4>3. CASE n = given[g]
        BY <4>2, <4>3, <1>5, <1>9 DEF ToSet
      <4>4. CASE n # given[g]
        <5>1. n < given[g]
          BY <3>0, <3>2, <4>2, <4>4, <1>5
        <5>2. QED
          BY <5>1, <4>2, <1>5, <1>9, <1>18 DEF Initial
      <4>5. QED
        BY <4>3, <4>4
    <3>3. CASE i \notin 1 .. g /\ ~(n <= result.last)
      <4>1. i - g \in 1 .. e /\ whole[i] = entries[i - g]
        BY <3>3, <1>7, <1>8
      <4>2. entries[i - g] \in Nat /\ entries[e] \in Nat /\ entries[i - g] <= entries[e]
        BY <4>1, <1>4, <1>12
      <4>3. n <= Last(entries)
        BY <3>0, <4>1, <4>2, <2>2, <1>16
      <4>4. result.last < n
        BY <3>0, <3>3, <1>1
      <4>5. QED
        BY <4>3, <4>4, <1>9, <1>17
    <3>4. QED
      BY <3>1, <3>2, <3>3
  <2>3. QED
    BY <1>6, <2>1, <2>2 DEF Initial
<1>19. Piece(whole, v)
  BY <1>9, <1>10, <1>14, <1>15, <1>18 DEF Piece
<1>20. ASSUME NEW n \in kept, n <= Last(entries) PROVE n \in ToSet(whole)
  <2>1. n \in dir /\ n \in Nat
    BY <1>1
  <2>2. QED
    BY <2>1, <1>1, <1>9, <1>17, <1>20
<1>21. whole # <<>> /\ Last(whole) = Last(entries)
  <2>1. e \in 1 .. e /\ g + e \in Nat \ {0}
    BY <1>4, <1>5
  <2>2. whole[g + e] = entries[e]
    BY <1>7, <2>1
  <2>3. whole # <<>>
    BY <1>6, <2>1
  <2>4. QED
    BY <1>6, <2>2, <2>3 DEF Last
<1>22. QED
  BY <1>4, <1>6, <1>19, <1>20, <1>21

\* A buffer has names, at least one.
LEMMA BufferIs ==
  ASSUME ListingTypeOK, NEW entries \in Buffers
  PROVE  entries \in Seq(Name) /\ Len(entries) \in Nat \ {0} /\ Last(entries) \in Name
<1>1. dir \subseteq Name
  BY DEF ListingTypeOK
<1>2. PICK k \in 1 .. Chunk : entries \in [1 .. k -> dir]
  BY DEF Buffers
<1>3. k \in Nat /\ k >= 1
  BY ListingAssumption
<1>4. entries \in [1 .. k -> Name]
  BY <1>1, <1>2
<1>5. entries \in Seq(Name) /\ Len(entries) = k /\ k \in 1 .. k
  BY <1>3, <1>4
<1>6. QED
  BY <1>3, <1>4, <1>5 DEF Last

\* What is left of a buffer.
LEMMA UnreadIs ==
  ASSUME ListingTypeOK, NEW entries \in Seq(Name)
  PROVE  Unread(entries) \in Seq(Name)
<1> DEFINE k == Max({0, args.cookie - result.position})
<1>1. args.cookie \in Nat /\ result.position \in Nat
  BY DEF ListingTypeOK
<1>2. k \in Nat
  <2>1. args.cookie - result.position \in Int
    BY <1>1
  <2>2. QED
    BY <2>1, AtLeastZero
<1> HIDE DEF k
<1>3. k + 1 \in Nat \ {0} /\ Len(entries) \in 0 .. Len(entries)
  BY <1>2
<1>4. SubSeq(entries, k + 1, Len(entries)) \in Seq(Name)
  BY <1>3, SubSeqIs
<1>5. QED
  BY <1>4 DEF Unread, k

\* The greatest of a set of numbers up to n, or 0.
LEMMA MaxOrZero ==
  ASSUME NEW n \in Nat, NEW s \in SUBSET (1 .. n)
  PROVE  Max({0} \cup s) \in {0} \cup s
<1>1. CASE s = {}
  <2>1. {0} \cup s = {0} /\ Max({0}) = 0
    BY <1>1 DEF Max
  <2>2. QED
    BY <2>1
<1>2. CASE s # {}
  <2> DEFINE top == Max(s)
  <2>1. top \in s /\ \A y \in s : y <= top
    BY <1>2, Sums!MaxNumber DEF Max, Sums!Max
  <2> HIDE DEF top
  <2>2. \A y \in {0} \cup s : top >= y
    <3>1. top \in Nat /\ \A y \in s : y \in Nat
      BY <2>1
    <3>2. QED
      BY <2>1, <3>1
  <2>3. QED
    BY <2>1, <2>2 DEF Max
<1>3. QED
  BY <1>1, <1>2

\* What finds room fits.
LEMMA RoomIs ==
  ASSUME NEW unread \in Seq(Name)
  PROVE  /\ Room(unread) \in 0 .. Len(unread)
         /\ Room(unread) # 0 => Fits(result.reply \o SubSeq(unread, 1, Room(unread)))
<1> DEFINE s == {k \in 1 .. Len(unread) : Fits(result.reply \o SubSeq(unread, 1, k))}
<1>1. Len(unread) \in Nat /\ s \in SUBSET (1 .. Len(unread))
  OBVIOUS
<1>2. Room(unread) = Max({0} \cup s)
  BY DEF Room
<1>3. Room(unread) \in {0} \cup s
  <2> HIDE DEF s
  <2>1. QED
    BY <1>1, <1>2, MaxOrZero
<1>4. Room(unread) \in 0 .. Len(unread)
  BY <1>1, <1>3
<1>5. QED
  BY <1>3, <1>4

\* The clocks and the counts.
LEMMA ClockTyped ==
  ASSUME ListingTypeOK
  PROVE  /\ now \in Nat \ {0} /\ written \in Nat \ {0} /\ written <= now /\ now <= MaxTicks
         /\ written \in 0 .. now /\ 0 \in 0 .. now /\ changes \in Nat /\ changes <= MaxChanges
<1>1. now \in 1 .. MaxTicks /\ written \in 1 .. now /\ changes \in 0 .. MaxChanges
  BY DEF ListingTypeOK
<1>2. now \in Nat /\ written \in Nat /\ 1 <= now /\ 1 <= written /\ MaxTicks \in Nat
  BY <1>1, ListingAssumption
<1>3. QED
  BY <1>1, <1>2

Results ==
  [status : PageStatus, verifier : 0 .. now, reply : Seq(Name), is_finished : BOOLEAN,
   position : Nat, last : Name \cup {0}, cut : BOOLEAN]

LEMMA NewResultIs ==
  ASSUME ListingTypeOK
  PROVE  NewResult \in Results
<1>1. now \in 1 .. MaxTicks
  BY DEF ListingTypeOK
<1>2. 0 \in 0 .. now
  BY <1>1, ListingAssumption
<1>3. <<>> \in Seq(Name) /\ "ERR_ACCESS" \in PageStatus
  BY DEF PageStatus, Refusals
<1>4. QED
  BY <1>2, <1>3 DEF NewResult, Results

LEMMA InitTyped == ListingInit => ListingTypeOK
<1> SUFFICES ASSUME ListingInit PROVE ListingTypeOK
  OBVIOUS
<1>1. PICK p \in Procedures : client = NewListing(p)
  BY DEF ListingInit
<1>2. /\ dir \subseteq Name /\ kept \subseteq Name /\ seen \subseteq Name /\ disturbed = {}
      /\ now = 1 /\ written = 1 /\ changes = 0 /\ step = "idle"
  BY DEF ListingInit
<1>3. now \in 1 .. MaxTicks /\ written \in 1 .. now /\ changes \in 0 .. MaxChanges /\ 0 \in 0 .. now
  BY <1>2, ListingAssumption
<1>4. client \in [procedure : Procedures, got : Seq(Name), cookie : Nat, verifier : 0 .. now,
                  state : {"listing", "complete", "cut", "failed"}]
  BY <1>1, <1>3 DEF NewListing
<1>5. args \in [cookie : Nat, verifier : 0 .. now, dircount : Nat, maxcount : Nat]
  BY <1>3 DEF ListingInit
<1>6. result \in [status : PageStatus, verifier : 0 .. now, reply : Seq(Name), is_finished : BOOLEAN,
                  position : Nat, last : Name \cup {0}, cut : BOOLEAN]
  BY <1>3 DEF ListingInit, NewResult, PageStatus, Refusals
<1>7. QED
  BY <1>2, <1>3, <1>4, <1>5, <1>6 DEF ListingTypeOK

\* Nothing but the result of the call changes.
LEMMA ResultTypedKept ==
  ASSUME ListingTypeOK, UNCHANGED <<users, client, args, history>>, step' \in {"enumerating", "answered"},
         result' \in Results
  PROVE  ListingTypeOK'
BY DEF ListingTypeOK, Results, users, history

LEMMA ServerTyped ==
  ASSUME ListingTypeOK, Server
  PROVE  ListingTypeOK'
<1>1. result \in Results /\ written \in 0 .. now
  BY ClockTyped DEF ListingTypeOK, Results
<1>2. ASSUME NEW status \in Refusals, Refuse(status) PROVE ListingTypeOK'
  <2>1. result' \in Results
    BY <1>1, <1>2 DEF Refuse, Results, PageStatus
  <2>2. QED
    BY <1>2, <2>1, ResultTypedKept DEF Refuse
<1>3. CASE BadCookie
  <2>1. result' \in Results
    BY <1>1, <1>3 DEF BadCookie, Results, PageStatus
  <2>2. QED
    BY <1>3, <2>1, ResultTypedKept DEF BadCookie
<1>4. CASE OpenDirectory
  <2>1. result' \in Results
    BY <1>1, <1>4 DEF OpenDirectory, Results
  <2>2. QED
    BY <1>4, <2>1, ResultTypedKept DEF OpenDirectory
<1>5. Done \in PageStatus
  BY <1>1 DEF Done, Results, PageStatus
<1>6. ASSUME NEW entries \in Buffers, Enumerate(entries) PROVE ListingTypeOK'
  <2>1. /\ entries \in Seq(Name) /\ Len(entries) \in Nat /\ Last(entries) \in Name
        /\ Unread(entries) \in Seq(Name)
    BY BufferIs, UnreadIs
  <2>2. result.reply \o Unread(entries) \in Seq(Name)
    <3>1. result.reply \in Seq(Name)
      BY <1>1 DEF Results
    <3>2. QED
      BY <2>1, <3>1
  <2>3. result.position + Len(entries) \in Nat
    BY <1>1, <2>1 DEF Results
  <2>4. result' \in Results
    BY <1>1, <1>6, <2>1, <2>2, <2>3 DEF Enumerate, Results
  <2>5. QED
    BY <1>6, <2>4, ResultTypedKept DEF Enumerate
<1>7. ASSUME NEW entries \in Buffers, EnumerateFull(entries) PROVE ListingTypeOK'
  <2> DEFINE unread == Unread(entries)
             page == result.reply \o SubSeq(unread, 1, Room(unread))
  <2>1. unread \in Seq(Name)
    BY BufferIs, UnreadIs
  <2>2. page \in Seq(Name)
    <3>1. SubSeq(unread, 1, Room(unread)) \in Seq(Name)
      BY <2>1, RoomIs, StartIs
    <3>2. result.reply \in Seq(Name)
      BY <1>1 DEF Results
    <3>3. QED
      BY <3>1, <3>2
  <2>3. result' = [result EXCEPT !.reply = page, !.is_finished = FALSE, !.status = Done]
    BY <1>7 DEF EnumerateFull
  <2> HIDE DEF page
  <2>4. result' \in Results
    BY <1>1, <1>5, <2>2, <2>3 DEF Results
  <2>5. QED
    BY <1>7, <2>4, ResultTypedKept DEF EnumerateFull
<1>8. CASE EnumerateEnd
  <2>1. result' \in Results
    BY <1>1, <1>5, <1>8 DEF EnumerateEnd, Results
  <2>2. QED
    BY <1>8, <2>1, ResultTypedKept DEF EnumerateEnd
<1>9. CASE EnumerateFails
  <2>1. result' \in Results
    BY <1>1, <1>5, <1>9 DEF EnumerateFails, Results, PageStatus, Refusals
  <2>2. QED
    BY <1>9, <2>1, ResultTypedKept DEF EnumerateFails
<1>10. QED
  BY <1>2, <1>3, <1>4, <1>6, <1>7, <1>8, <1>9 DEF Server

LEMMA ClientTyped ==
  ASSUME ListingTypeOK, Ask \/ Receive \/ Lose
  PROVE  ListingTypeOK'
<1>1. ASSUME NEW counts \in Counts, AskFor(counts) PROVE ListingTypeOK'
  <2>1. counts \in [dircount : Nat, maxcount : Nat]
    BY ListingAssumption
  <2>2. args' \in [cookie : Nat, verifier : 0 .. now, dircount : Nat, maxcount : Nat]
    BY <1>1, <2>1 DEF AskFor, ListingTypeOK
  <2>3. result' \in Results
    BY <1>1, NewResultIs DEF AskFor
  <2>4. QED
    BY <1>1, <2>2, <2>3 DEF AskFor, ListingTypeOK, Results, users, history
<1>2. CASE ReceivePage
  <2>1. /\ client.got \in Seq(Name) /\ result.reply \in Seq(Name) /\ client.cookie \in Nat
        /\ result.verifier \in 0 .. now /\ client.procedure \in Procedures
    BY DEF ListingTypeOK
  <2>2. client.got \o result.reply \in Seq(Name) /\ client.cookie + Len(result.reply) \in Nat
    BY <2>1
  <2>3. client' \in [procedure : Procedures, got : Seq(Name), cookie : Nat, verifier : 0 .. now,
                     state : {"listing", "complete", "cut", "failed"}]
    BY <1>2, <2>1, <2>2 DEF ReceivePage, ListingTypeOK
  <2>4. QED
    BY <1>2, <2>3 DEF ReceivePage, ListingTypeOK, users, history
<1>3. CASE ReceiveBadCookie
  <2>1. client.procedure \in Procedures /\ 0 \in 0 .. now
    BY ClockTyped DEF ListingTypeOK
  <2>2. client' \in [procedure : Procedures, got : Seq(Name), cookie : Nat, verifier : 0 .. now,
                     state : {"listing", "complete", "cut", "failed"}]
    BY <1>3, <2>1 DEF ReceiveBadCookie, NewListing
  <2>3. QED
    BY <1>3, <2>2 DEF ReceiveBadCookie, ListingTypeOK, users
<1>4. CASE ReceiveError
  BY <1>4 DEF ReceiveError, ListingTypeOK, users, history
<1>5. CASE Lose
  BY <1>5 DEF Lose, ListingTypeOK, users, history
<1>6. QED
  BY <1>1, <1>2, <1>3, <1>4, <1>5 DEF Ask, Receive

LEMMA TickTyped ==
  ASSUME ListingTypeOK, Tick
  PROVE  ListingTypeOK'
<1>1. now \in Nat /\ now' = now + 1 /\ now' \in 1 .. MaxTicks
  <2>1. now \in Nat /\ MaxTicks \in Nat /\ now < MaxTicks /\ now' = now + 1
    BY ClockTyped, ListingAssumption DEF Tick
  <2>2. QED
    BY <2>1
<1>2. \A i : (i \in 0 .. now => i \in 0 .. now') /\ (i \in 1 .. now => i \in 1 .. now')
  BY <1>1
<1>3. client' \in [procedure : Procedures, got : Seq(Name), cookie : Nat, verifier : 0 .. now',
                   state : {"listing", "complete", "cut", "failed"}]
  BY <1>2 DEF ListingTypeOK, Tick
<1>4. args' \in [cookie : Nat, verifier : 0 .. now', dircount : Nat, maxcount : Nat]
  BY <1>2 DEF ListingTypeOK, Tick
<1>5. result' \in [status : PageStatus, verifier : 0 .. now', reply : Seq(Name), is_finished : BOOLEAN,
                   position : Nat, last : Name \cup {0}, cut : BOOLEAN]
  BY <1>2 DEF ListingTypeOK, Tick
<1>6. written' \in 1 .. now'
  BY <1>2 DEF ListingTypeOK, Tick
<1>7. QED
  BY <1>1, <1>3, <1>4, <1>5, <1>6 DEF ListingTypeOK, Tick, history

LEMMA ChangeTyped ==
  ASSUME ListingTypeOK, NEW entries \in SUBSET Name, ChangeEntries(entries)
  PROVE  ListingTypeOK'
<1>1. changes' \in 0 .. MaxChanges /\ written' \in 1 .. now
  <2>1. changes < MaxChanges /\ changes' = changes + 1 /\ written' = now
    BY DEF ChangeEntries
  <2>2. changes \in Nat /\ now \in Nat \ {0} /\ MaxChanges \in Nat
    BY ClockTyped, ListingAssumption
  <2>3. QED
    BY <2>1, <2>2
<1>2. disturbed' \subseteq {"same time", "after the check"}
  BY DEF ListingTypeOK, ChangeEntries, Unnoticed
<1>3. QED
  BY <1>1, <1>2 DEF ListingTypeOK, ChangeEntries

LEMMA NextTyped == ListingTypeOK /\ [ListingNext]_listing_vars => ListingTypeOK'
<1> SUFFICES ASSUME ListingTypeOK, [ListingNext]_listing_vars PROVE ListingTypeOK'
  OBVIOUS
<1>1. ASSUME NEW n \in Name, ChangeEntries(dir \cup {n}) PROVE ListingTypeOK'
  <2>1. dir \cup {n} \in SUBSET Name
    BY DEF ListingTypeOK
  <2>2. QED
    BY <1>1, <2>1, ChangeTyped
<1>2. ASSUME NEW n \in dir, ChangeEntries(dir \ {n}) PROVE ListingTypeOK'
  <2>1. dir \ {n} \in SUBSET Name
    BY DEF ListingTypeOK
  <2>2. QED
    BY <1>2, <2>1, ChangeTyped
<1>3. CASE UNCHANGED listing_vars
  BY <1>3 DEF ListingTypeOK, listing_vars, users, history
<1>4. QED
  BY <1>1, <1>2, <1>3, ServerTyped, ClientTyped, TickTyped DEF ListingNext

\* The variables have their types.
THEOREM ListingTypeCorrect == ListingSpec => []ListingTypeOK
BY InitTyped, NextTyped, PTL DEF ListingSpec

\* Nothing is a piece of any directory.
LEMMA NothingIsPiece == \A v : Piece(<<>>, v)
BY DEF Piece, Rising, Initial, ToSet

LEMMA InitListed == ListingInit => ListingInv
<1> SUFFICES ASSUME ListingInit PROVE ListingInv
  OBVIOUS
<1>1. PICK p \in Procedures : client = NewListing(p)
  BY DEF ListingInit
<1>2. client.got = <<>> /\ client.cookie = 0 /\ client.verifier = 0 /\ client.state = "listing"
  BY <1>1 DEF NewListing
<1>3. step = "idle" /\ written = 1 /\ kept = dir /\ seen = dir /\ Len(<<>>) = 0
  BY DEF ListingInit
<1>4. ClientKnows
  BY <1>2, <1>3, NothingIsPiece DEF ClientKnows
<1>5. CallAsks /\ PageGrows /\ PageTells /\ PageFits
  BY <1>3 DEF CallAsks, PageGrows, PageTells, PageFits
<1>6. QED
  BY <1>3, <1>4, <1>5, InitTyped DEF ListingInv

\* What a piece is does not change while the directory and the history do not.
LEMMA ClientSame ==
  ASSUME ClientKnows, UNCHANGED <<users, client, history>>
  PROVE  ClientKnows'
BY DEF ClientKnows, Piece, Initial, users, history

LEMMA ListedSets ==
  ASSUME ListingInv, UNCHANGED <<users, history>>
  PROVE  kept' \subseteq dir' /\ dir' \subseteq seen'
BY DEF ListingInv, users, history

\* The call ends. What is asked of its result is asked of the page.
LEMMA Answered ==
  ASSUME ListingInv, ListingTypeOK', step \in {"called", "enumerating"}, step' = "answered",
         UNCHANGED <<users, client, args, history>>,
         Plus /\ result'.reply # <<>> => Fits(result'.reply),
         result'.status = "OK" =>
           /\ Plus /\ result'.verifier \in 1 .. written
           /\ disturbed = {} =>
                /\ Piece(client.got \o result'.reply, result'.verifier)
                /\ result'.is_finished /\ ~result'.cut => kept \subseteq ToSet(client.got \o result'.reply)
  PROVE  ListingInv'
<1>1. ClientKnows' /\ kept' \subseteq dir' /\ dir' \subseteq seen'
  BY ClientSame, ListedSets DEF ListingInv
<1>2. CallAsks'
  BY DEF ListingInv, CallAsks, Plus, users
<1>3. PageGrows'
  BY DEF PageGrows
<1>4. PageTells'
  BY DEF PageTells, Together, Piece, Initial, users, history
<1>5. PageFits'
  BY DEF PageFits, Fits, TotalCount, DirCount, Plus
<1>6. QED
  BY <1>1, <1>2, <1>3, <1>4, <1>5 DEF ListingInv

\* A call that is refused has no page.
LEMMA RefuseListed ==
  ASSUME ListingInv, ListingTypeOK', (\E status \in Refusals : Refuse(status)) \/ BadCookie
  PROVE  ListingInv'
<1>1. PICK status \in Refusals \cup {"ERR_BAD_COOKIE"} :
        /\ step = "called" /\ step' = "answered" /\ result' = [result EXCEPT !.status = status]
        /\ UNCHANGED <<users, client, args, history>>
  BY DEF Refuse, BadCookie
<1>2. result = NewResult
  BY <1>1 DEF ListingInv, CallAsks
<1>3. result'.reply = <<>> /\ result'.status = status /\ status # "OK"
  BY <1>1, <1>2 DEF NewResult, Refusals
<1>4. QED
  BY <1>1, <1>3, Answered

\* The directory is opened: nothing has been given yet.
LEMMA OpenListed ==
  ASSUME ListingInv, ListingTypeOK', OpenDirectory
  PROVE  ListingInv'
<1>1. /\ step = "called" /\ step' = "enumerating" /\ UNCHANGED <<users, client, args, history>>
      /\ result = NewResult /\ result' = [result EXCEPT !.verifier = written]
  BY DEF OpenDirectory, ListingInv, CallAsks
<1>2. /\ result'.status = "ERR_ACCESS" /\ result'.verifier = written /\ result'.reply = <<>>
      /\ result'.position = 0 /\ result'.last = 0
  BY <1>1 DEF NewResult
<1>3. ClientKnows' /\ kept' \subseteq dir' /\ dir' \subseteq seen'
  BY <1>1, ClientSame, ListedSets DEF ListingInv
<1>4. args.cookie > 0 => args.verifier = written
  <2>1. args.cookie = client.cookie /\ args.verifier = client.verifier
    BY <1>1 DEF ListingInv, CallAsks
  <2>2. client.cookie > 0 => client.verifier > 0
    BY DEF ListingInv, ClientKnows
  <2>3. args.verifier = 0 \/ args.verifier = written
    BY DEF OpenDirectory, Stale
  <2>4. QED
    BY <2>1, <2>2, <2>3
<1>5. CallAsks'
  <2>1. written \in 1 .. written
    BY ClockTyped DEF ListingInv
  <2>2. QED
    BY <1>1, <1>2, <1>4, <2>1 DEF ListingInv, CallAsks, users
<1>6. PageGrows'
  <2>1. Gave(<<>>)'
    <3>1. Piece(<<>>, result.verifier)'
      BY DEF Piece, Rising, Initial, ToSet
    <3>2. SubSeq(<<>>, args.cookie + 1, 0) = <<>>
      <4>1. args.cookie \in Nat
        BY DEF ListingInv, ListingTypeOK
      <4>2. 0 < args.cookie + 1 /\ args.cookie + 1 \in Int
        BY <4>1
      <4>3. QED
        BY <4>2, SubSeqEmpty
    <3>3. \A n \in kept' : ~(n <= 0)
      <4>1. kept' \subseteq Name
        BY DEF ListingTypeOK
      <4>2. QED
        BY <4>1, NamesAreNumbers
    <3>4. QED
      BY <1>1, <1>2, <3>1, <3>2, <3>3 DEF Gave
  <2>2. <<>> \in [1 .. result'.position -> Name]
    BY <1>2
  <2>3. QED
    BY <2>1, <2>2 DEF PageGrows
<1>7. PageTells' /\ PageFits'
  BY <1>1, <1>2 DEF PageTells, PageFits
<1>8. QED
  BY <1>3, <1>5, <1>6, <1>7 DEF ListingInv

\* Part of the second of two sequences together.
LEMMA ConcatStart ==
  ASSUME NEW S, NEW a \in Seq(S), NEW b \in Seq(S), NEW r \in 0 .. Len(b)
  PROVE  a \o SubSeq(b, 1, r) = SubSeq(a \o b, 1, Len(a) + r)
<1> DEFINE start == SubSeq(b, 1, r)
           both == SubSeq(a \o b, 1, Len(a) + r)
<1>1. Len(a) \in Nat /\ Len(b) \in Nat /\ r \in Nat /\ r <= Len(b)
  OBVIOUS
<1>2. start \in Seq(S) /\ Len(start) = r /\ \A i \in 1 .. r : start[i] = b[i]
  BY StartIs
<1>3. /\ a \o b \in Seq(S) /\ Len(a \o b) = Len(a) + Len(b)
      /\ \A i \in 1 .. Len(a) + Len(b) : (a \o b)[i] = IF i <= Len(a) THEN a[i] ELSE b[i - Len(a)]
  BY ConcatProperties
<1>4. both \in Seq(S) /\ Len(both) = Len(a) + r /\ \A i \in 1 .. Len(a) + r : both[i] = (a \o b)[i]
  <2>1. Len(a) + r \in 0 .. Len(a \o b)
    BY <1>1, <1>3
  <2>2. QED
    BY <1>3, <2>1, StartIs
<1> HIDE DEF start, both
<1>5. /\ a \o start \in Seq(S) /\ Len(a \o start) = Len(a) + r
      /\ \A i \in 1 .. Len(a) + r : (a \o start)[i] = IF i <= Len(a) THEN a[i] ELSE start[i - Len(a)]
  BY <1>2, ConcatProperties
<1>6. ASSUME NEW i \in 1 .. Len(a) + r PROVE (a \o start)[i] = both[i]
  <2>1. i \in 1 .. Len(a) + Len(b)
    BY <1>1
  <2>2. CASE i <= Len(a)
    BY <2>1, <2>2, <1>3, <1>4, <1>5
  <2>3. CASE ~(i <= Len(a))
    <3>1. i - Len(a) \in 1 .. r
      BY <2>3, <1>1
    <3>2. QED
      BY <2>1, <2>3, <3>1, <1>2, <1>3, <1>4, <1>5
  <2>4. QED
    BY <2>2, <2>3
<1>7. a \o start = both
  BY <1>4, <1>5, <1>6, SeqEqual
<1>8. QED
  BY <1>7 DEF start, both

\* What the client has, and what it asked for, while the page grows.
LEMMA GotIs ==
  ASSUME ListingInv, step = "enumerating"
  PROVE  /\ client.got \in Seq(Name) /\ client.got \in Seq(Nat) /\ args.cookie = Len(client.got)
         /\ dir \in SUBSET Nat /\ result.reply \in Seq(Name) /\ result.position \in Nat
         /\ disturbed = {} =>
              /\ Piece(client.got, client.verifier)
              /\ client.got # <<>> => client.verifier = result.verifier /\ result.verifier = written
<1>1. /\ client.got \in Seq(Name) /\ dir \subseteq Name /\ result.reply \in Seq(Name)
      /\ result.position \in Nat
  BY DEF ListingInv, ListingTypeOK
<1>2. client.got \in Seq(Nat) /\ Len(client.got) \in Nat /\ dir \in SUBSET Nat
  BY <1>1, NamesAreNumbers
<1>3. args.cookie = Len(client.got) /\ args.verifier = client.verifier
  BY DEF ListingInv, CallAsks, ClientKnows
<1>4. client.got # <<>> => args.cookie > 0
  BY <1>1, <1>2, <1>3
<1>5. disturbed = {} => Piece(client.got, client.verifier)
  BY DEF ListingInv, ClientKnows
<1>6. disturbed = {} /\ args.cookie > 0 => args.verifier = result.verifier /\ result.verifier = written
  BY DEF ListingInv, CallAsks
<1>7. QED
  BY <1>1, <1>2, <1>3, <1>4, <1>5, <1>6

\* What the client has and what it lacks of a piece make a piece, which has all of it.
LEMMA PageOf ==
  ASSUME ListingInv, step = "enumerating", disturbed = {},
         NEW whole \in Seq(Name), Piece(whole, result.verifier)
  PROVE  LET page == SubSeq(whole, args.cookie + 1, Len(whole))
         IN Piece(client.got \o page, result.verifier) /\ ToSet(whole) \subseteq ToSet(client.got \o page)
<1> DEFINE got == client.got
           page == SubSeq(whole, Len(got) + 1, Len(whole))
<1>1. /\ got \in Seq(Nat) /\ whole \in Seq(Nat) /\ args.cookie = Len(got) /\ dir \in SUBSET Nat
      /\ Piece(got, client.verifier)
      /\ got # <<>> => client.verifier = result.verifier /\ result.verifier = written
  BY GotIs, NamesAreNumbers
<1>2. Len(whole) \in 0 .. Len(whole) /\ Len(got) \in Nat /\ Len(whole) \in Nat
  BY <1>1
<1> HIDE DEF got
<1>3. /\ Piece(got \o page, result.verifier)
      /\ Len(got) <= Len(whole) => got \o page = SubSeq(whole, 1, Len(whole))
      /\ Len(whole) < Len(got) => got \o page = got
  BY <1>1, <1>2, PageIsPiece
<1>4. CASE Len(got) <= Len(whole)
  <2>1. got \o page = whole
    BY <1>1, <1>3, <1>4, SubSeqFull
  <2>2. QED
    BY <2>1, <1>1, <1>3 DEF got
<1>5. CASE Len(whole) < Len(got)
  <2>1. got # <<>> /\ Len(whole) <= Len(got)
    BY <1>1, <1>2, <1>5
  <2>2. Piece(whole, written) /\ Piece(got, written)
    BY <1>1, <2>1
  <2>3. whole = SubSeq(got, 1, Len(whole))
    BY <1>1, <2>1, <2>2, SameStart
  <2>4. Len(whole) \in 0 .. Len(got)
    BY <1>2, <1>5
  <2>5. \A i \in 1 .. Len(whole) : SubSeq(got, 1, Len(whole))[i] = got[i]
    BY <1>1, <2>4, StartIs
  <2>6. \A i \in 1 .. Len(whole) : whole[i] = got[i] /\ i \in 1 .. Len(got)
    BY <2>3, <2>4, <2>5
  <2>7. DOMAIN whole = 1 .. Len(whole) /\ DOMAIN got = 1 .. Len(got)
    BY <1>1
  <2>8. ToSet(whole) \subseteq ToSet(got)
    BY <2>6, <2>7 DEF ToSet
  <2>9. QED
    BY <2>8, <1>1, <1>3, <1>5 DEF got
<1>6. QED
  BY <1>2, <1>4, <1>5

\* What has been given so far.
LEMMA GivenIs ==
  ASSUME ListingInv, step = "enumerating", disturbed = {}
  PROVE  \E given \in Seq(Name) :
           /\ Len(given) = result.position /\ Gave(given)
           /\ result.reply = SubSeq(given, args.cookie + 1, Len(given))
<1>1. PICK given \in [1 .. result.position -> Name] : Gave(given)
  BY DEF ListingInv, PageGrows
<1>2. result.position \in Nat
  BY DEF ListingInv, ListingTypeOK
<1>3. given \in Seq(Name) /\ Len(given) = result.position
  BY <1>2
<1>4. QED
  BY <1>1, <1>3 DEF Gave

\* The page as it is when the enumeration ends.
LEMMA PageSoFar ==
  ASSUME ListingInv, step = "enumerating", disturbed = {}
  PROVE  /\ Piece(client.got \o result.reply, result.verifier)
         /\ NoneLeft => kept \subseteq ToSet(client.got \o result.reply)
<1>1. PICK given \in Seq(Name) :
           /\ Len(given) = result.position /\ Gave(given)
           /\ result.reply = SubSeq(given, args.cookie + 1, Len(given))
  BY GivenIs
<1>2. Piece(given, result.verifier) /\ \A n \in kept : n <= result.last => n \in ToSet(given)
  BY <1>1 DEF Gave
<1>3. /\ Piece(client.got \o result.reply, result.verifier)
      /\ ToSet(given) \subseteq ToSet(client.got \o result.reply)
  BY <1>1, <1>2, PageOf
<1>4. NoneLeft => kept \subseteq ToSet(given)
  BY <1>2 DEF NoneLeft, ListingInv
<1>5. QED
  BY <1>3, <1>4

\* An enumeration that ends, or breaks off, leaves the page as it is.
LEMMA EndListed ==
  ASSUME ListingInv, ListingTypeOK', EnumerateEnd \/ EnumerateFails
  PROVE  ListingInv'
<1>1. step = "enumerating" /\ step' = "answered" /\ UNCHANGED <<users, client, args, history>>
  BY DEF EnumerateEnd, EnumerateFails
<1>2. /\ result.status = "ERR_ACCESS" /\ result.verifier \in 1 .. written
      /\ Plus /\ result.reply # <<>> => Fits(result.reply)
  BY <1>1 DEF ListingInv, CallAsks, PageFits
<1>3. /\ result'.reply = result.reply /\ result'.verifier = result.verifier
      /\ result'.status = "OK" => Plus /\ (NoneLeft \/ result'.cut)
  <2>1. result \in Results
    BY DEF ListingInv, ListingTypeOK, Results
  <2>2. Done = "OK" => Plus
    BY <1>2 DEF Done
  <2>3. CASE EnumerateEnd
    BY <2>1, <2>2, <2>3 DEF EnumerateEnd, Results
  <2>4. CASE EnumerateFails
    <3>1. \/ result' = [result EXCEPT !.status = "ERR_IO"]
          \/ result' = [result EXCEPT !.status = Done, !.cut = TRUE]
      BY <2>4 DEF EnumerateFails
    <3>2. QED
      BY <2>1, <2>2, <3>1 DEF Results
  <2>5. QED
    BY <2>3, <2>4
<1>4. QED
  BY <1>1, <1>2, <1>3, PageSoFar, Answered

\* A buffer taken, or the part of it the page has room for.
LEMMA TakeMore ==
  ASSUME ListingInv, step = "enumerating", NEW entries \in Buffers, NEW r \in 0 .. Len(Unread(entries)),
         r # 0 => (Plus => Fits(result.reply \o SubSeq(Unread(entries), 1, r)))
  PROVE  LET longer == result.reply \o SubSeq(Unread(entries), 1, r)
         IN /\ Plus /\ longer # <<>> => Fits(longer)
            /\ disturbed = {} =>
                 \E given \in Seq(Name) :
                   LET whole == given \o entries
                   IN /\ Len(given) = result.position /\ whole \in Seq(Name)
                      /\ Len(whole) = result.position + Len(entries)
                      /\ Piece(whole, result.verifier) /\ whole # <<>> /\ Last(whole) = Last(entries)
                      /\ \A n \in kept : n <= Last(entries) => n \in ToSet(whole)
                      /\ result.reply \o Unread(entries) = SubSeq(whole, args.cookie + 1, Len(whole))
                      /\ Piece(client.got \o longer, result.verifier)
<1> DEFINE unread == Unread(entries)
           longer == result.reply \o SubSeq(unread, 1, r)
<1>1. /\ entries \in Seq(Name) /\ unread \in Seq(Name) /\ result.reply \in Seq(Name)
      /\ args.cookie \in Nat /\ result.position \in Nat
  BY BufferIs, UnreadIs DEF ListingInv, ListingTypeOK
<1>2. Plus /\ longer # <<>> => Fits(longer)
  <2>1. CASE r # 0
    BY <2>1
  <2>2. CASE r = 0
    <3>1. SubSeq(unread, 1, 0) = <<>>
      BY SubSeqEmpty
    <3>2. longer = result.reply
      BY <1>1, <2>2, <3>1, ConcatEmptySeq
    <3>3. QED
      BY <3>2 DEF ListingInv, PageFits
  <2>3. QED
    BY <2>1, <2>2
<1>3. ASSUME disturbed = {} PROVE
        \E given \in Seq(Name) :
                   LET whole == given \o entries
                   IN /\ Len(given) = result.position /\ whole \in Seq(Name)
                      /\ Len(whole) = result.position + Len(entries)
                      /\ Piece(whole, result.verifier) /\ whole # <<>> /\ Last(whole) = Last(entries)
                      /\ \A n \in kept : n <= Last(entries) => n \in ToSet(whole)
                      /\ result.reply \o Unread(entries) = SubSeq(whole, args.cookie + 1, Len(whole))
                      /\ Piece(client.got \o longer, result.verifier)
  <2>1. PICK given \in Seq(Name) :
           /\ Len(given) = result.position /\ Gave(given)
           /\ result.reply = SubSeq(given, args.cookie + 1, Len(given))
    BY <1>3, GivenIs
  <2> DEFINE whole == given \o entries
  <2>2. /\ whole \in Seq(Name) /\ Len(whole) = result.position + Len(entries)
        /\ whole # <<>> /\ Last(whole) = Last(entries) /\ Piece(whole, result.verifier)
        /\ \A n \in kept : n <= Last(entries) => n \in ToSet(whole)
    <3>1. ListingTypeOK /\ kept \subseteq dir /\ dir \subseteq seen
      BY DEF ListingInv
    <3>2. /\ Piece(given, result.verifier)
          /\ result.last = (IF given = <<>> THEN 0 ELSE Last(given))
          /\ \A n \in kept : n <= result.last => n \in ToSet(given)
      BY <2>1 DEF Gave
    <3>3. /\ whole \in Seq(Name) /\ Len(whole) = Len(given) + Len(entries)
          /\ whole # <<>> /\ Last(whole) = Last(entries) /\ Piece(whole, result.verifier)
          /\ \A n \in kept : n <= Last(entries) => n \in ToSet(whole)
      <4> DEFINE v == result.verifier
      <4>1. Piece(given, v)
        BY <3>2
      <4> HIDE DEF v
      <4>2. /\ whole \in Seq(Name) /\ Len(whole) = Len(given) + Len(entries)
            /\ whole # <<>> /\ Last(whole) = Last(entries) /\ Piece(whole, v)
            /\ \A n \in kept : n <= Last(entries) => n \in ToSet(whole)
        BY <3>1, <3>2, <4>1, GiveMore
      <4>3. QED
        BY <4>2 DEF v
    <3>4. QED
      BY <2>1, <3>3
  <2>3. result.reply \o unread = SubSeq(whole, args.cookie + 1, Len(whole))
    <3>1. SubSeq(whole, args.cookie + 1, Len(given) + Len(entries)) =
            SubSeq(given, args.cookie + 1, Len(given))
              \o SubSeq(entries, Max({0, args.cookie - Len(given)}) + 1, Len(entries))
      BY <1>1, SkipBoth
    <3>2. QED
      BY <2>1, <2>2, <3>1 DEF Unread
  <2>4. Piece(client.got \o (result.reply \o unread), result.verifier)
    <3> HIDE DEF unread, whole
    <3>1. QED
      BY <1>3, <2>2, <2>3, PageOf
  <2>5. Piece(client.got \o longer, result.verifier)
    <3> DEFINE all == client.got \o (result.reply \o unread)
               m == Len(client.got) + (Len(result.reply) + r)
    <3>1. client.got \in Seq(Name) /\ dir \in SUBSET Nat
      BY GotIs
    <3> HIDE DEF unread
    <3>2. /\ Len(unread) \in Nat /\ r \in 0 .. Len(unread) /\ Len(result.reply) \in Nat
          /\ Len(client.got) \in Nat
      BY <1>1, <3>1 DEF unread
    <3>3. /\ result.reply \o unread \in Seq(Name)
          /\ Len(result.reply \o unread) = Len(result.reply) + Len(unread)
      BY <1>1, ConcatProperties
    <3>4. all \in Seq(Name) /\ Len(all) = Len(client.got) + (Len(result.reply) + Len(unread))
      BY <3>1, <3>3, ConcatProperties
    <3>5. longer = SubSeq(result.reply \o unread, 1, Len(result.reply) + r)
      BY <1>1, <3>2, ConcatStart
    <3>6. Len(result.reply) + r \in 0 .. Len(result.reply \o unread)
      BY <3>2, <3>3
    <3>7. client.got \o longer = SubSeq(all, 1, m)
      BY <3>1, <3>3, <3>5, <3>6, ConcatStart
    <3> HIDE DEF all, longer
    <3>8. m \in 0 .. Len(all) /\ all \in Seq(Nat)
      <4>1. m \in 0 .. Len(all)
        <5> DEFINE g == Len(client.got)
                   p == Len(result.reply)
                   u == Len(unread)
        <5>1. g \in Nat /\ p \in Nat /\ u \in Nat /\ r \in 0 .. u /\ Len(all) = g + (p + u)
          BY <3>2, <3>4
        <5> HIDE DEF g, p, u
        <5>2. g + (p + r) \in 0 .. g + (p + u)
          BY <5>1
        <5>3. QED
          BY <5>1, <5>2 DEF g, p
      <4>2. all \in Seq(Nat)
        BY <3>4, NamesAreNumbers
      <4>3. QED
        BY <4>1, <4>2
    <3> HIDE DEF m
    <3>9. Piece(SubSeq(all, 1, m), result.verifier)
      BY <3>1, <3>8, <2>4, PieceStart DEF all
    <3>10. QED
      BY <3>7, <3>9
  <2>6. QED
    BY <2>1, <2>2, <2>3, <2>5
<1>4. QED
  BY <1>2, <1>3

LEMMA FullListed ==
  ASSUME ListingInv, ListingTypeOK', NEW entries \in Buffers, EnumerateFull(entries)
  PROVE  ListingInv'
<1> DEFINE r == Room(Unread(entries))
           longer == result.reply \o SubSeq(Unread(entries), 1, r)
<1>1. /\ step = "enumerating" /\ step' = "answered" /\ UNCHANGED <<users, client, args, history>>
      /\ result' = [result EXCEPT !.reply = longer, !.is_finished = FALSE, !.status = Done]
  BY DEF EnumerateFull
<1>2. result \in Results /\ result.status = "ERR_ACCESS" /\ result.verifier \in 1 .. written
  BY <1>1 DEF ListingInv, CallAsks, ListingTypeOK, Results
<1>3. Unread(entries) \in Seq(Name)
  BY BufferIs, UnreadIs DEF ListingInv
<1>4. /\ r \in 0 .. Len(Unread(entries))
      /\ r # 0 => (Plus => Fits(result.reply \o SubSeq(Unread(entries), 1, r)))
  BY <1>3, RoomIs
<1>5. /\ Plus /\ longer # <<>> => Fits(longer)
      /\ disturbed = {} => Piece(client.got \o longer, result.verifier)
  BY <1>1, <1>4, TakeMore
<1> HIDE DEF longer
<1>6. /\ result'.reply = longer /\ result'.verifier = result.verifier /\ ~result'.is_finished
      /\ result'.status = "OK" => Plus
  BY <1>1, <1>2 DEF Results, Done
<1>7. QED
  BY <1>1, <1>2, <1>5, <1>6, Answered

LEMMA EnumerateListed ==
  ASSUME ListingInv, ListingTypeOK', NEW entries \in Buffers, Enumerate(entries)
  PROVE  ListingInv'
<1> DEFINE unread == Unread(entries)
           r == Len(unread)
           longer == result.reply \o unread
<1>1. /\ step = "enumerating" /\ UNCHANGED <<users, client, step, args, history>>
      /\ Room(unread) = r
      /\ result' = [result EXCEPT !.reply = longer, !.position = @ + Len(entries), !.last = Last(entries)]
  BY DEF Enumerate
<1>2. result \in Results
  BY DEF ListingInv, ListingTypeOK, Results
<1>3. unread \in Seq(Name)
  BY BufferIs, UnreadIs DEF ListingInv
<1>4. SubSeq(unread, 1, r) = unread
  BY <1>3, SubSeqFull
<1>5. /\ r \in 0 .. Len(Unread(entries))
      /\ r # 0 => (Plus => Fits(result.reply \o SubSeq(Unread(entries), 1, r)))
  BY <1>1, <1>3, RoomIs
<1>6. /\ Plus /\ longer # <<>> => Fits(longer)
      /\ disturbed = {} =>
           \E given \in Seq(Name) :
             LET whole == given \o entries
             IN /\ Len(given) = result.position /\ whole \in Seq(Name)
                /\ Len(whole) = result.position + Len(entries)
                /\ Piece(whole, result.verifier) /\ whole # <<>> /\ Last(whole) = Last(entries)
                /\ \A n \in kept : n <= Last(entries) => n \in ToSet(whole)
                /\ longer = SubSeq(whole, args.cookie + 1, Len(whole))
  BY <1>1, <1>4, <1>5, TakeMore
<1> HIDE DEF longer
<1>7. /\ result'.reply = longer /\ result'.verifier = result.verifier /\ result'.last = Last(entries)
      /\ result'.position = result.position + Len(entries) /\ result'.status = result.status
  BY <1>1, <1>2 DEF Results
<1>8. ClientKnows' /\ kept' \subseteq dir' /\ dir' \subseteq seen'
  <2>1. UNCHANGED <<users, client, history>>
    BY <1>1
  <2>2. QED
    BY <2>1, ClientSame, ListedSets DEF ListingInv
<1>9. CallAsks'
  BY <1>1, <1>7 DEF ListingInv, CallAsks, users, history
<1>10. PageGrows'
  <2> SUFFICES ASSUME disturbed = {} PROVE \E given \in [1 .. result'.position -> Name] : Gave(given)'
    BY <1>1 DEF PageGrows, history
  <2>1. PICK given \in Seq(Name) :
             LET whole == given \o entries
             IN /\ Len(given) = result.position /\ whole \in Seq(Name)
                /\ Len(whole) = result.position + Len(entries)
                /\ Piece(whole, result.verifier) /\ whole # <<>> /\ Last(whole) = Last(entries)
                /\ \A n \in kept : n <= Last(entries) => n \in ToSet(whole)
                /\ longer = SubSeq(whole, args.cookie + 1, Len(whole))
    BY <1>6
  <2> DEFINE whole == given \o entries
  <2>2. /\ whole \in Seq(Name) /\ Len(whole) = result'.position
        /\ Piece(whole, result.verifier) /\ whole # <<>> /\ Last(whole) = Last(entries)
        /\ \A n \in kept : n <= Last(entries) => n \in ToSet(whole)
        /\ longer = SubSeq(whole, args.cookie + 1, result'.position)
    BY <2>1, <1>7
  <2> HIDE DEF whole
  <2>3. whole \in [1 .. result'.position -> Name]
    BY <2>2
  <2>4. Piece(whole, result.verifier)'
    BY <2>2, <1>1, <1>7 DEF Piece, Initial, users, history
  <2>5. Gave(whole)'
    BY <2>2, <2>4, <1>1, <1>7 DEF Gave, history
  <2>6. QED
    BY <2>3, <2>5
<1>11. PageTells'
  BY <1>1 DEF PageTells
<1>12. PageFits'
  BY <1>1, <1>6, <1>7 DEF PageFits, Fits, TotalCount, DirCount, Plus
<1>13. QED
  BY <1>8, <1>9, <1>10, <1>11, <1>12 DEF ListingInv

\* A call begins with what the client knows.
LEMMA AskListed ==
  ASSUME ListingInv, ListingTypeOK', Ask
  PROVE  ListingInv'
<1>1. PICK counts \in Counts : AskFor(counts)
  BY DEF Ask
<1>2. /\ client.state = "listing" /\ step' = "called" /\ result' = NewResult
      /\ args'.cookie = client.cookie /\ args'.verifier = client.verifier
      /\ UNCHANGED <<users, client, history>>
  BY <1>1 DEF AskFor
<1>3. ClientKnows' /\ kept' \subseteq dir' /\ dir' \subseteq seen'
  BY <1>2, ClientSame, ListedSets DEF ListingInv
<1>4. CallAsks' /\ PageGrows' /\ PageTells' /\ PageFits'
  <2>1. NewResult' = NewResult
    BY DEF NewResult
  <2>2. QED
    BY <1>2, <2>1 DEF CallAsks, PageGrows, PageTells, PageFits
<1>5. QED
  BY <1>3, <1>4 DEF ListingInv

\* The client is between two calls.
LEMMA IdleListed ==
  ASSUME step' = "idle"
  PROVE  CallAsks' /\ PageGrows' /\ PageTells' /\ PageFits'
BY DEF CallAsks, PageGrows, PageTells, PageFits

LEMMA ReceiveListed ==
  ASSUME ListingInv, ListingTypeOK', Receive \/ Lose
  PROVE  ListingInv'
<1>1. step = "answered" /\ step' = "idle" /\ UNCHANGED users
  BY DEF Receive, ReceivePage, ReceiveBadCookie, ReceiveError, Lose
<1>2. /\ client \in [procedure : Procedures, got : Seq(Name), cookie : Nat, verifier : 0 .. now,
                     state : {"listing", "complete", "cut", "failed"}]
      /\ result.reply \in Seq(Name) /\ written \in Nat
  BY ClockTyped DEF ListingInv, ListingTypeOK
<1>3. CASE ReceivePage
  <2>1. /\ result.status = "OK" /\ UNCHANGED history
        /\ client'.got = Together /\ client'.cookie = client.cookie + Len(result.reply)
        /\ client'.verifier = result.verifier
        /\ client'.state = "complete" => result.is_finished /\ ~result.cut
    BY <1>2, <1>3 DEF ReceivePage, Together
  <2>2. result.verifier \in 1 .. written
    BY <1>1, <2>1 DEF ListingInv, CallAsks
  <2>3. disturbed = {} =>
          /\ Piece(Together, result.verifier)
          /\ result.is_finished /\ ~result.cut => kept \subseteq ToSet(Together)
    BY <1>1, <2>1 DEF ListingInv, PageTells
  <2>4. client'.cookie = Len(client'.got)
    <3>1. client.cookie = Len(client.got)
      BY DEF ListingInv, ClientKnows
    <3>2. client.got \in Seq(Name)
      BY <1>2
    <3>3. Len(client.got \o result.reply) = Len(client.got) + Len(result.reply)
      BY <3>2, <1>2, ConcatProperties
    <3>4. QED
      BY <3>1, <3>3, <2>1 DEF Together
  <2>5. client'.verifier <= written /\ client'.verifier > 0
    BY <2>1, <2>2, <1>2
  <2>6. disturbed = {} => Piece(client.got, client.verifier)'
    BY <1>1, <2>1, <2>3 DEF Piece, Initial, users, history
  <2>7. disturbed = {} => (client'.state = "complete" => kept \subseteq ToSet(client'.got))
    BY <2>1, <2>3
  <2>8. ClientKnows'
    BY <1>1, <2>1, <2>4, <2>5, <2>6, <2>7 DEF ClientKnows, users, history
  <2>9. QED
    BY <1>1, <2>1, <2>8, IdleListed, ListedSets DEF ListingInv
<1>4. CASE ReceiveBadCookie
  <2>1. /\ client'.got = <<>> /\ client'.cookie = 0 /\ client'.verifier = 0 /\ client'.state = "listing"
        /\ kept' = dir /\ seen' = dir /\ Len(<<>>) = 0
    BY <1>4 DEF ReceiveBadCookie, NewListing
  <2>2. Piece(client.got, client.verifier)'
    BY <2>1 DEF Piece, Rising, Initial, ToSet
  <2>3. ClientKnows'
    BY <1>1, <1>2, <2>1, <2>2 DEF ClientKnows, users
  <2>4. kept' \subseteq dir' /\ dir' \subseteq seen'
    BY <1>1, <2>1 DEF users
  <2>5. QED
    BY <1>1, <2>3, <2>4, IdleListed DEF ListingInv
<1>5. CASE ReceiveError
  <2>1. /\ UNCHANGED history /\ client'.state = "failed" /\ client'.got = client.got
        /\ client'.cookie = client.cookie /\ client'.verifier = client.verifier
    BY <1>2, <1>5 DEF ReceiveError
  <2>2. ClientKnows'
    BY <1>1, <2>1 DEF ListingInv, ClientKnows, Piece, Initial, users, history
  <2>3. QED
    BY <1>1, <2>1, <2>2, IdleListed, ListedSets DEF ListingInv
<1>6. CASE Lose
  <2>1. UNCHANGED <<users, client, history>>
    BY <1>6 DEF Lose
  <2>2. QED
    BY <1>1, <2>1, ClientSame, ListedSets, IdleListed DEF ListingInv
<1>7. QED
  BY <1>3, <1>4, <1>5, <1>6 DEF Receive

\* Time passes, or nothing happens.
LEMMA TickListed ==
  ASSUME ListingInv, ListingTypeOK',
         UNCHANGED <<dir, written, changes, client, step, args, result, history>>
  PROVE  ListingInv'
<1>1. ClientKnows' /\ kept' \subseteq dir' /\ dir' \subseteq seen'
  BY DEF ListingInv, ClientKnows, Piece, Initial, history
<1>2. CallAsks'
  BY DEF ListingInv, CallAsks, NewResult, Plus, history
<1>3. PageGrows'
  BY DEF ListingInv, PageGrows, Gave, Piece, Initial, history
<1>4. PageTells'
  BY DEF ListingInv, PageTells, Together, Piece, Initial, history
<1>5. PageFits'
  BY DEF ListingInv, PageFits, Fits, TotalCount, DirCount, Plus
<1>6. QED
  BY <1>1, <1>2, <1>3, <1>4, <1>5 DEF ListingInv

\* The directory changes. A listing that is not disturbed by it has just begun, or has a
\* verifier from before the change, and is not bound to the directory any more.
LEMMA ChangeListed ==
  ASSUME ListingInv, ListingTypeOK', NEW entries \in SUBSET Name, ChangeEntries(entries)
  PROVE  ListingInv'
<1>1. /\ UNCHANGED <<now, client, step, args, result>> /\ dir' = entries /\ written' = now
      /\ kept' = kept \cap entries /\ seen' = seen \cup entries
      /\ disturbed' = IF Fresh THEN disturbed ELSE disturbed \cup Unnoticed
  BY DEF ChangeEntries
<1>2. /\ written \in Nat /\ now \in Nat /\ written <= now
      /\ client.cookie \in Nat /\ client.verifier \in Nat /\ client.got \in Seq(Name)
      /\ args.cookie \in Nat /\ result.verifier \in Nat
  <2>1. ListingTypeOK
    BY DEF ListingInv
  <2>2. /\ client.cookie \in Nat /\ client.verifier \in 0 .. now /\ client.got \in Seq(Name)
        /\ args.cookie \in Nat /\ result.verifier \in 0 .. now
    BY <2>1 DEF ListingTypeOK
  <2>3. written \in Nat /\ now \in Nat /\ written <= now
    BY <2>1, ClockTyped
  <2>4. QED
    BY <2>2, <2>3
<1>3. kept' \subseteq dir' /\ dir' \subseteq seen' /\ kept' \subseteq kept /\ seen \subseteq seen'
  BY <1>1 DEF ListingInv
<1>4. ASSUME disturbed' = {}
      PROVE  /\ disturbed = {}
             /\ ~Fresh => written < now /\ ~(step = "enumerating" /\ args.cookie > 0)
  <2>1. disturbed = {}
    BY <1>1, <1>4
  <2>2. ASSUME ~Fresh PROVE written # now /\ ~(step = "enumerating" /\ args.cookie > 0)
    <3>1. Unnoticed = {}
      BY <1>1, <1>4, <2>2
    <3>2. QED
      <4>1. "same time" \notin Unnoticed /\ "after the check" \notin Unnoticed
        BY <3>1
      <4>2. QED
        BY <4>1 DEF Unnoticed
  <2>3. written # now => written < now
    BY <1>2
  <2>4. QED
    BY <2>1, <2>2, <2>3
<1>5. CASE Fresh
  <2>1. client.cookie = 0 /\ step \notin {"enumerating", "answered"}
    BY <1>5 DEF Fresh
  <2>2. client.got = <<>>
    <3>1. Len(client.got) = 0
      BY <2>1 DEF ListingInv, ClientKnows
    <3>2. QED
      BY <3>1, <1>2
  <2>3. Piece(client.got, client.verifier)'
    BY <1>1, <2>2 DEF Piece, Rising, Initial, ToSet
  <2>4. ClientKnows'
    BY <1>1, <1>2, <1>3, <1>4, <2>3 DEF ListingInv, ClientKnows
  <2>5. CallAsks' /\ PageGrows' /\ PageTells' /\ PageFits'
    BY <1>1, <2>1 DEF ListingInv, CallAsks, PageGrows, PageTells, PageFits, NewResult
  <2>6. QED
    BY <1>3, <2>4, <2>5 DEF ListingInv
<1>6. CASE ~Fresh
  <2>1. /\ client.verifier <= written
        /\ step \in {"enumerating", "answered"} /\ (step = "enumerating" \/ result.status = "OK") =>
             result.verifier \in 1 .. written
    BY DEF ListingInv, ClientKnows, CallAsks
  <2>2. ClientKnows'
    <3>1. ASSUME disturbed' = {} PROVE Piece(client.got, client.verifier)'
      <4>1. Piece(client.got, client.verifier) /\ written < now
        BY <1>4, <1>6, <3>1 DEF ListingInv, ClientKnows
      <4>2. client.verifier # now
        BY <4>1, <2>1, <1>2
      <4>3. QED
        BY <4>1, <4>2, <1>1, <1>3 DEF Piece
    <3>2. client'.verifier <= written'
      BY <1>1, <1>2, <2>1
    <3>3. QED
      BY <3>1, <3>2, <1>1, <1>3, <1>4 DEF ListingInv, ClientKnows
  <2>3. CallAsks'
    <3>1. result.verifier \in 1 .. written => result.verifier \in 1 .. written'
      BY <1>1, <1>2
    <3>2. disturbed' = {} => ~(step = "enumerating" /\ args.cookie > 0)
      BY <1>4, <1>6
    <3>3. QED
      BY <3>1, <3>2, <1>1, <1>4 DEF ListingInv, CallAsks, NewResult, Plus
  <2>4. PageGrows'
    <3> SUFFICES ASSUME step = "enumerating", disturbed' = {}
                 PROVE  \E given \in [1 .. result.position -> Name] : Gave(given)'
      BY <1>1 DEF PageGrows
    <3>1. PICK given \in [1 .. result.position -> Name] : Gave(given)
      BY <1>4 DEF ListingInv, PageGrows
    <3>2. result.verifier # now
      BY <2>1, <1>2, <1>4, <1>6
    <3>3. Piece(given, result.verifier)'
      BY <3>1, <3>2, <1>1, <1>3 DEF Gave, Piece
    <3>4. Gave(given)'
      BY <3>1, <3>3, <1>1, <1>3 DEF Gave
    <3>5. QED
      BY <3>4
  <2>5. PageTells'
    <3> SUFFICES ASSUME step = "answered", result.status = "OK", disturbed' = {}
                 PROVE  /\ Piece(Together, result.verifier)'
                        /\ result.is_finished /\ ~result.cut => kept' \subseteq ToSet(Together)
      BY <1>1 DEF PageTells, Together
    <3>1. /\ Piece(Together, result.verifier)
          /\ result.is_finished /\ ~result.cut => kept \subseteq ToSet(Together)
      BY <1>4 DEF ListingInv, PageTells
    <3>2. result.verifier # now
      BY <2>1, <1>2, <1>4, <1>6
    <3>3. Piece(Together, result.verifier)'
      BY <3>1, <3>2, <1>1, <1>3 DEF Piece, Together
    <3>4. QED
      BY <3>1, <3>3, <1>3
  <2>6. PageFits'
    BY <1>1 DEF ListingInv, PageFits, Fits, TotalCount, DirCount, Plus
  <2>7. QED
    BY <1>3, <2>2, <2>3, <2>4, <2>5, <2>6 DEF ListingInv
<1>7. QED
  BY <1>5, <1>6

LEMMA NextListed == ListingInv /\ [ListingNext]_listing_vars => ListingInv'
<1> SUFFICES ASSUME ListingInv, [ListingNext]_listing_vars PROVE ListingInv'
  OBVIOUS
<1>1. ListingTypeOK'
  BY NextTyped DEF ListingInv
<1>2. ASSUME Server PROVE ListingInv'
  BY <1>1, <1>2, RefuseListed, OpenListed, EnumerateListed, FullListed, EndListed DEF Server
<1>3. ASSUME NEW n \in Name, ChangeEntries(dir \cup {n}) PROVE ListingInv'
  <2>1. dir \cup {n} \in SUBSET Name
    BY DEF ListingInv, ListingTypeOK
  <2>2. QED
    BY <1>1, <1>3, <2>1, ChangeListed
<1>4. ASSUME NEW n \in dir, ChangeEntries(dir \ {n}) PROVE ListingInv'
  <2>1. dir \ {n} \in SUBSET Name
    BY DEF ListingInv, ListingTypeOK
  <2>2. QED
    BY <1>1, <1>4, <2>1, ChangeListed
<1>5. CASE Tick \/ UNCHANGED listing_vars
  BY <1>1, <1>5, TickListed DEF Tick, listing_vars, users
<1>6. QED
  BY <1>1, <1>2, <1>3, <1>4, <1>5, AskListed, ReceiveListed DEF ListingNext

\* A piece has each name once.
LEMMA PieceOnce ==
  ASSUME NEW s \in Seq(Nat), Rising(s)
  PROVE  IsInjective(s) /\ \A n \in ToSet(s) : Cardinality({i \in DOMAIN s : s[i] = n}) = 1
<1>1. DOMAIN s = 1 .. Len(s) /\ Len(s) \in Nat /\ \A i \in 1 .. Len(s) : s[i] \in Nat
  OBVIOUS
<1>2. ASSUME NEW i \in 1 .. Len(s), NEW j \in 1 .. Len(s), s[i] = s[j] PROVE i = j
  <2>1. (i < j => s[i] < s[j]) /\ (j < i => s[j] < s[i])
    BY <1>1 DEF Rising
  <2>2. ~(s[i] < s[j]) /\ ~(s[j] < s[i])
    BY <1>1, <1>2
  <2>3. QED
    BY <2>1, <2>2
<1>3. ASSUME NEW n \in ToSet(s) PROVE Cardinality({i \in DOMAIN s : s[i] = n}) = 1
  <2>1. PICK k \in 1 .. Len(s) : s[k] = n
    BY <1>1 DEF ToSet
  <2>2. {i \in DOMAIN s : s[i] = n} = {k}
    BY <1>1, <1>2, <2>1
  <2>3. QED
    BY <2>2, FS_Singleton
<1>4. QED
  BY <1>1, <1>2, <1>3 DEF IsInjective

LEMMA ListedIsFaithful == ListingInv => ListingFaithful
<1> SUFFICES ASSUME ListingInv, client.state = "complete", disturbed = {}
             PROVE  /\ \A n \in kept : Once(n)
                    /\ ToSet(client.got) \subseteq seen
                    /\ IsInjective(client.got)
  BY DEF ListingFaithful
<1>1. Piece(client.got, client.verifier) /\ kept \subseteq ToSet(client.got)
  BY DEF ListingInv, ClientKnows
<1>2. client.got \in Seq(Nat)
  BY NamesAreNumbers DEF ListingInv, ListingTypeOK
<1>3. QED
  BY <1>1, <1>2, PieceOnce DEF Once, Piece

\* A complete listing, of any number of pages, has what was there all the time once and
\* nothing that was never there, whatever the directory went through in between.
THEOREM ListingsFaithful == ListingSpec => []ListingFaithful
BY InitListed, NextListed, ListedIsFaithful, PTL DEF ListingSpec

-----------------------------------------------------------------------------
(* Sizes *)

\* The values that adding the sizes of the entries goes through.
LEMMA SumSteps ==
  ASSUME NEW size, NEW n \in Nat, NEW names, DOMAIN names = 1 .. n
  PROVE  \E f : Sums!Steps(f, n, size, 0, names) /\ Sum(size, names) = f[n]
<1>1. Sum(size, names) = Sums!Fold(size, 0, names)
  BY DEF Sum, AddSize, Sums!Fold, FoldLeft, MapThenFoldSet, Max,
         Sums!FoldLeft, Sums!MapThenFoldSet, Sums!Max
<1> DEFINE base == 0
<1> HIDE DEF base
<1>2. \E f : Sums!Steps(f, n, size, base, names) /\ Sums!Fold(size, base, names) = f[n]
  BY Sums!FoldSteps
<1>3. QED
  BY <1>1, <1>2 DEF base

\* If each entry is not longer, all together are not.
LEMMA SumMonotonic ==
  ASSUME NEW small \in [Name -> Nat], NEW large \in [Name -> Nat], NEW names \in Seq(Name),
         \A n \in Name : small[n] <= large[n]
  PROVE  Sum(small, names) \in Nat /\ Sum(large, names) \in Nat /\ Sum(small, names) <= Sum(large, names)
<1> DEFINE n == Len(names)
<1>1. n \in Nat /\ DOMAIN names = 1 .. n /\ \A i \in 1 .. n : names[i] \in Name
  OBVIOUS
<1> HIDE DEF n
<1>2. PICK f : Sums!Steps(f, n, small, 0, names) /\ Sum(small, names) = f[n]
  BY <1>1, SumSteps
<1>3. PICK g : Sums!Steps(g, n, large, 0, names) /\ Sum(large, names) = g[n]
  BY <1>1, SumSteps
<1> DEFINE T == {i \in 0 .. n : f[i] \in Nat /\ g[i] \in Nat /\ f[i] <= g[i]}
<1>4. 0 \in T
  BY <1>1, <1>2, <1>3 DEF Sums!Steps
<1>5. ASSUME NEW i \in 0 .. n - 1, i \in T PROVE i + 1 \in T
  <2>1. i + 1 \in 1 .. n /\ (i + 1) - 1 = i /\ i + 1 \in 0 .. n
    BY <1>1
  <2>2. /\ f[i + 1] = f[i] + small[names[i + 1]]
        /\ g[i + 1] = g[i] + large[names[i + 1]]
    BY <2>1, <1>2, <1>3 DEF Sums!Steps, AddSize
  <2>3. names[i + 1] \in Name
    BY <2>1, <1>1
  <2>4. /\ small[names[i + 1]] \in Nat /\ large[names[i + 1]] \in Nat
        /\ small[names[i + 1]] <= large[names[i + 1]]
    BY <2>3
  <2>5. f[i + 1] \in Nat /\ g[i + 1] \in Nat /\ f[i + 1] <= g[i + 1]
    BY <2>2, <2>4, <1>5
  <2>6. QED
    BY <2>1, <2>5
<1>6. n \in T
  <2>1. \A i \in 0 .. n - 1 : i \in T => i + 1 \in T
    BY <1>5
  <2>2. n \in 0 .. n
    BY <1>1
  <2> HIDE DEF T
  <2>3. \A i \in 0 .. n : i \in T
    BY <1>1, <1>4, <2>1, Sums!UpTo
  <2>4. QED
    BY <2>2, <2>3
<1>7. QED
  BY <1>2, <1>3, <1>6

\* An entry of READDIRPLUS is counted with at least the bytes it is sent with.
LEMMA WireIsLess ==
  ASSUME NEW names \in Seq(Name), Plus
  PROVE  WireSize(names) <= TotalCount(names) /\ WireSize(names) \in Nat /\ TotalCount(names) \in Nat
<1> DEFINE Padded(n) == 4 * ((n + 3) \div 4)
           wire == [n \in Name |-> 4 + 8 + 4 + Padded(Length[n]) + 8 + (IF Plus THEN 4 + 84 + 4 + 4 + 32 ELSE 0)]
           total == [n \in Name |-> 4 + 8 + 4 + Length[n] + 8 + (IF Plus THEN 4 + AttrSize + 4 + IdSize ELSE 0)]
<1>1. \A n \in Name : Length[n] \in Nat
  BY ListingAssumption
<1>2. ASSUME NEW k \in Nat PROVE Padded(k) \in Nat /\ Padded(k) <= k + 3
  OBVIOUS
<1> HIDE DEF Padded
<1>3. ASSUME NEW n \in Name
      PROVE  wire[n] \in Nat /\ total[n] \in Nat /\ wire[n] <= total[n]
  <2>1. Length[n] \in Nat /\ Padded(Length[n]) \in Nat /\ Padded(Length[n]) <= Length[n] + 3
    BY <1>1, <1>2
  <2>2. /\ wire[n] = 4 + 8 + 4 + Padded(Length[n]) + 8 + (4 + 84 + 4 + 4 + 32)
        /\ total[n] = 4 + 8 + 4 + Length[n] + 8 + (4 + 112 + 4 + 16)
    BY Zenon DEF AttrSize, IdSize
  <2> DEFINE l == Length[n]
             p == Padded(l)
  <2>3. l \in Nat /\ p \in Nat /\ p <= l + 3
    BY <2>1
  <2>4. wire[n] = 4 + 8 + 4 + p + 8 + (4 + 84 + 4 + 4 + 32) /\ total[n] = 4 + 8 + 4 + l + 8 + (4 + 112 + 4 + 16)
    BY <2>2
  <2> HIDE DEF wire, total, l, p
  <2>5. QED
    BY <2>3, <2>4
<1>4. wire \in [Name -> Nat] /\ total \in [Name -> Nat]
  BY <1>3
<1> HIDE DEF wire, total
<1>5. Sum(wire, names) \in Nat /\ Sum(total, names) \in Nat /\ Sum(wire, names) <= Sum(total, names)
  BY <1>3, <1>4, SumMonotonic
<1>6. WireSize(names) = 20 + Sum(wire, names) /\ TotalCount(names) = 20 + Sum(total, names)
  BY <1>5 DEF WireSize, TotalCount, wire, total, Padded
<1>7. QED
  BY <1>5, <1>6

LEMMA ListedFits == ListingInv => ReplyFits
<1> SUFFICES ASSUME ListingInv, step = "answered", result.status = "OK", result.reply # <<>>
             PROVE  WireSize(result.reply) <= args.maxcount
  BY DEF ReplyFits
<1>1. Plus
  BY DEF ListingInv, CallAsks
<1>2. TotalCount(result.reply) <= args.maxcount
  BY <1>1 DEF ListingInv, PageFits, Fits
<1>3. result.reply \in Seq(Name) /\ args.maxcount \in Nat
  BY DEF ListingInv, ListingTypeOK
<1>4. QED
  BY <1>1, <1>2, <1>3, WireIsLess

\* A page is never longer than the client allows, whatever the lengths of the names.
THEOREM RepliesFit == ListingSpec => []ReplyFits
BY InitListed, NextListed, ListedFits, PTL DEF ListingSpec

=============================================================================
