----------------------------- MODULE Nfs3ReadDir -----------------------------
(***************************************************************************)
(* READDIR and READDIRPLUS (nfs3.cpp:1620-1822): a client lists a          *)
(* directory page by page, while users of the machine add and remove       *)
(* entries.  A cookie is the position of an entry in the enumeration, the  *)
(* verifier is the time of the directory's last write.                     *)
(*                                                                         *)
(* External: the file system enumerates the entries in the order of their  *)
(* names, some at a time, and goes on after the last name it gave; the     *)
(* client asks for the next page with the last cookie and verifier it got. *)
(***************************************************************************)
EXTENDS Integers, Sequences, SequencesExt, FiniteSetsExt

CONSTANTS
  Name,         \* names of entries: numbers, in the order of the file system
  Length,       \* [Name -> Nat], bytes of a name
  Procedures,   \* what the client calls, some of "read_dir" and "read_dir_plus"
  Counts,       \* what it allows a page: records of dircount and maxcount
  Chunk,        \* most entries the file system gives at a time
  MaxTicks,     \* bound: ticks of the clock
  MaxChanges    \* bound: changes of the directory

ASSUME ListingAssumption ==
  /\ Name \subseteq Nat \ {0} /\ Length \in [Name -> Nat]
  /\ Counts \subseteq [dircount : Nat, maxcount : Nat]
  /\ Chunk \in Nat \ {0} /\ MaxTicks \in Nat \ {0} /\ MaxChanges \in Nat

VARIABLES
  dir,          \* the entries of the directory
  now,          \* the clock
  written,      \* LastWriteTime of the directory
  changes,      \* how often it has changed
  client,       \* the listing of the client
  step,         \* where the call is: "idle", "called", "enumerating", "answered"
  args,         \* its arguments
  result,       \* its result, with the state of the enumeration
  kept,         \* history: entries that were there since the listing began
  seen,         \* history: entries that were there at some time since then
  disturbed     \* history: how the directory changed since then without being noticed

users == <<dir, now, written, changes>>
history == <<kept, seen, disturbed>>
listing_vars == <<users, client, step, args, result, history>>

Plus == client.procedure = "read_dir_plus"

\* The first page is asked for with cookie 0 and verifier 0.
NewListing(p) == [procedure |-> p, state |-> "listing", got |-> <<>>, cookie |-> 0, verifier |-> 0]

\* Mutant of NewResult: the status has no value until the end.
NewResultUnset ==
  [status |-> "unset", verifier |-> 0, reply |-> <<>>, is_finished |-> TRUE,
   position |-> 0, last |-> 0, cut |-> FALSE]

\* Mutant of NewResult: is_finished has to be set.
NewResultUnfinished ==
  [status |-> "ERR_ACCESS", verifier |-> 0, reply |-> <<>>, is_finished |-> FALSE,
   position |-> 0, last |-> 0, cut |-> FALSE]

\* The result as the procedures begin it; position is fileCookie, last the name the
\* enumeration goes on after, cut is TRUE when it broke off.
NewResult ==
  [status |-> "ERR_ACCESS", verifier |-> 0, reply |-> <<>>, is_finished |-> TRUE,
   position |-> 0, last |-> 0, cut |-> FALSE]

Refusals == {"ERR_BADHANDLE", "ERR_ACCESS", "ERR_IO"}

-----------------------------------------------------------------------------
(* Sizes *)

\* The sizes of the entries of a page together.
Sum(size, names) == FoldLeft(LAMBDA total, n : total + size[n], 0, names)

\* dircount: file id, name, cookie.
DirCount(names) == Sum([n \in Name |-> 8 + 4 + Length[n] + 8], names)

\* sizeof(file_attr_t) and sizeof(winfs::file_id_t)
AttrSize == 112
IdSize == 16

\* Mutant of TotalCount: attributes with the size they have on the wire.
TotalCountWire(names) ==
  LET entry == [n \in Name |-> 4 + 8 + 4 + Length[n] + 8 + (IF Plus THEN 4 + 84 + 4 + IdSize ELSE 0)]
  IN 4 + 8 + 4 + 4 + Sum(entry, names)

\* totalcount: attributes, verifier, terminator, eof; and for each entry the marker,
\* file id, name, cookie and, of READDIRPLUS, attributes and handle.
TotalCount(names) ==
  LET entry == [n \in Name |-> 4 + 8 + 4 + Length[n] + 8 + (IF Plus THEN 4 + AttrSize + 4 + IdSize ELSE 0)]
  IN 4 + 8 + 4 + 4 + Sum(entry, names)

Fits(names) ==
  /\ TotalCount(names) <= args.maxcount
  /\ Plus => DirCount(names) <= args.dircount

\* What write_read_dir_plus_result makes of a page, without the status: names padded to
\* words, attributes of 84 bytes, handles of 32 with their length.
WireSize(names) ==
  LET Padded(n) == 4 * ((n + 3) \div 4)
      entry == [n \in Name |->
                  4 + 8 + 4 + Padded(Length[n]) + 8 + (IF Plus THEN 4 + 84 + 4 + 4 + 32 ELSE 0)]
  IN 4 + 8 + Sum(entry, names) + 4 + 4

-----------------------------------------------------------------------------
(* The procedures *)

AskFor(counts) ==
  /\ client.state = "listing"
  /\ step = "idle"
  /\ args' = [cookie |-> client.cookie, verifier |-> client.verifier,
              dircount |-> counts.dircount, maxcount |-> counts.maxcount]
  /\ result' = NewResult
  /\ step' = "called"
  /\ UNCHANGED <<users, client, history>>

\* The mount or the directory is gone, or the system fails to tell about it.
Refuse(status) ==
  /\ step = "called"
  /\ result' = [result EXCEPT !.status = status]
  /\ step' = "answered"
  /\ UNCHANGED <<users, client, args, history>>

\* Mutant of Stale: the verifier is not looked at.
StaleNever == FALSE

Stale == args.verifier # 0 /\ args.verifier # written

BadCookie ==
  /\ step = "called"
  /\ Stale
  /\ result' = [result EXCEPT !.status = "ERR_BAD_COOKIE"]
  /\ step' = "answered"
  /\ UNCHANGED <<users, client, args, history>>

OpenDirectory ==
  /\ step = "called"
  /\ ~Stale
  /\ result' = [result EXCEPT !.verifier = written]
  /\ step' = "enumerating"
  /\ UNCHANGED <<users, client, args, history>>

Rising(names) == \A i, j \in DOMAIN names : i < j => names[i] < names[j]

\* What the file system may give next: the entries that follow the last name, as many as
\* its buffer has room for.
Buffers ==
  {entries \in UNION {[1 .. k -> dir] : k \in 1 .. Chunk} :
     /\ Rising(entries)
     /\ entries[1] > result.last
     /\ \A n \in dir : result.last < n /\ n < Last(entries) => n \in ToSet(entries)}

NoneLeft == \A n \in dir : n <= result.last

\* "skip already read parts"
Unread(entries) ==
  SubSeq(entries, Max({0, args.cookie - result.position}) + 1, Len(entries))

\* How many of the entries the page has room for.
Room(entries) ==
  Max({0} \cup {k \in 1 .. Len(entries) : Fits(result.reply \o SubSeq(entries, 1, k))})

\* READDIR leaves the status as it was.
Done == IF Plus THEN "OK" ELSE result.status

\* The callback has taken all entries of a buffer.
Enumerate(entries) ==
  LET unread == Unread(entries)
  IN /\ step = "enumerating"
     /\ Room(unread) = Len(unread)
     /\ result' = [result EXCEPT !.reply = @ \o unread, !.position = @ + Len(entries),
                                 !.last = Last(entries)]
     /\ UNCHANGED <<users, client, step, args, history>>

\* An entry finds no room; the callback returns false.
EnumerateFull(entries) ==
  LET unread == Unread(entries)
      room == Room(unread)
  IN /\ step = "enumerating"
     /\ room < Len(unread)
     /\ result' = [result EXCEPT !.reply = @ \o SubSeq(unread, 1, room),
                                 !.is_finished = FALSE, !.status = Done]
     /\ step' = "answered"
     /\ UNCHANGED <<users, client, args, history>>

\* There are no more entries behind those of an earlier buffer.
EnumerateEnd ==
  /\ step = "enumerating"
  /\ NoneLeft
  /\ result.position > 0
  /\ result' = [result EXCEPT !.status = Done]
  /\ step' = "answered"
  /\ UNCHANGED <<users, client, args, history>>

\* The file system fails, or has no entry at all for the first buffer: an error at the first
\* buffer, the end of the loop later.
EnumerateFails ==
  /\ step = "enumerating"
  /\ result' = IF result.position = 0
               THEN [result EXCEPT !.status = "ERR_IO"]
               ELSE [result EXCEPT !.status = Done, !.cut = TRUE]
  /\ step' = "answered"
  /\ UNCHANGED <<users, client, args, history>>

-----------------------------------------------------------------------------
(* The client *)

\* A page: the listing goes on behind its last entry, or is complete.
ReceivePage ==
  /\ step = "answered"
  /\ result.status = "OK"
  /\ client' = [client EXCEPT
       !.got = @ \o result.reply,
       !.cookie = @ + Len(result.reply),
       !.verifier = result.verifier,
       !.state = IF ~result.is_finished THEN "listing" ELSE IF result.cut THEN "cut" ELSE "complete"]
  /\ step' = "idle"
  /\ UNCHANGED <<users, args, result, history>>

\* The client begins again.
ReceiveBadCookie ==
  /\ step = "answered"
  /\ result.status = "ERR_BAD_COOKIE"
  /\ client' = NewListing(client.procedure)
  /\ step' = "idle"
  /\ kept' = dir
  /\ seen' = dir
  /\ disturbed' = {}
  /\ UNCHANGED <<users, args, result>>

ReceiveError ==
  /\ step = "answered"
  /\ result.status \notin {"OK", "ERR_BAD_COOKIE"}
  /\ client' = [client EXCEPT !.state = "failed"]
  /\ step' = "idle"
  /\ UNCHANGED <<users, args, result, history>>

\* The answer is lost; the client will ask for the page again.
Lose ==
  /\ step = "answered"
  /\ step' = "idle"
  /\ UNCHANGED <<users, client, args, result, history>>

-----------------------------------------------------------------------------
(* Users of the machine *)

Tick ==
  /\ now < MaxTicks
  /\ now' = now + 1
  /\ UNCHANGED <<dir, written, changes, client, step, args, result, history>>

\* A listing whose first page has not been opened yet.
Fresh == client.cookie = 0 /\ step \in {"idle", "called"}

\* A change is not noticed when the directory was already written at this time, nor when
\* the call that skips what the client has is behind its check.
Unnoticed ==
  {why \in {"same time", "after the check"} :
     IF why = "same time" THEN written = now ELSE step = "enumerating" /\ args.cookie > 0}

ChangeEntries(entries) ==
  /\ changes < MaxChanges
  /\ changes' = changes + 1
  /\ dir' = entries
  /\ written' = now
  /\ kept' = kept \cap entries
  /\ seen' = seen \cup entries
  /\ disturbed' = IF Fresh THEN disturbed ELSE disturbed \cup Unnoticed
  /\ UNCHANGED <<now, client, step, args, result>>

-----------------------------------------------------------------------------
ListingInit ==
  /\ dir \in SUBSET Name
  /\ now = 1
  /\ written = 1
  /\ changes = 0
  /\ \E p \in Procedures : client = NewListing(p)
  /\ step = "idle"
  /\ args = [cookie |-> 0, verifier |-> 0, dircount |-> 0, maxcount |-> 0]
  /\ result = NewResult
  /\ kept = dir
  /\ seen = dir
  /\ disturbed = {}

Ask == \E counts \in Counts : AskFor(counts)

Server ==
  \/ \E status \in Refusals : Refuse(status)
  \/ BadCookie \/ OpenDirectory
  \/ \E entries \in Buffers : Enumerate(entries) \/ EnumerateFull(entries)
  \/ EnumerateEnd \/ EnumerateFails

Receive == ReceivePage \/ ReceiveBadCookie \/ ReceiveError

ListingNext ==
  \/ Ask \/ Server \/ Receive \/ Lose
  \/ Tick
  \/ \E n \in Name : ChangeEntries(dir \cup {n}) /\ n \notin dir
  \/ \E n \in dir : ChangeEntries(dir \ {n})

\* The thread of the call runs; the client goes on, and not every answer is lost.
ListingSpec ==
  /\ ListingInit /\ [][ListingNext]_listing_vars
  /\ WF_listing_vars(Ask) /\ WF_listing_vars(Server) /\ SF_listing_vars(Receive)

-----------------------------------------------------------------------------
(* Properties *)

PageStatus == Refusals \cup {"OK", "ERR_BAD_COOKIE"}

\* The values of the variables.
ListingTypeOK ==
  /\ dir \subseteq Name
  /\ now \in 1 .. MaxTicks
  /\ written \in 1 .. now
  /\ changes \in 0 .. MaxChanges
  /\ client \in [procedure : Procedures, got : Seq(Name), cookie : Nat, verifier : 0 .. now,
                 state : {"listing", "complete", "cut", "failed"}]
  /\ step \in {"idle", "called", "enumerating", "answered"}
  /\ args \in [cookie : Nat, verifier : 0 .. now, dircount : Nat, maxcount : Nat]
  /\ result \in [status : PageStatus, verifier : 0 .. now, reply : Seq(Name), is_finished : BOOLEAN,
                 position : Nat, last : Name \cup {0}, cut : BOOLEAN]
  /\ kept \subseteq Name
  /\ seen \subseteq Name
  /\ disturbed \subseteq {"same time", "after the check"}

Once(n) == Cardinality({i \in DOMAIN client.got : client.got[i] = n}) = 1

\* A complete listing, put together from any number of pages while the directory
\* changed between them, gives each entry that was there all the time exactly once, and
\* none that never was; unless a change bore the time of an earlier one, or fell between
\* the check of the verifier and the end of the call.
ListingFaithful ==
  client.state = "complete" /\ disturbed = {} =>
    /\ \A n \in kept : Once(n)
    /\ ToSet(client.got) \subseteq seen
    /\ IsInjective(client.got)

\* A page is never longer than the client allows, although the count is of structures
\* in memory and not of what is sent.
ReplyFits ==
  step = "answered" /\ result.status = "OK" /\ result.reply # <<>> =>
    WireSize(result.reply) <= args.maxcount

\* The counts of the call have room for any entry alone.
RoomForEach == \A n \in Name : Fits(<<n>>)

\* A client that asks on, page after page and again when its cookie was bad, reaches the
\* end of the listing once the directory stays as it is, or gets an error; if from some time
\* on what it allows a page has room for any entry.  Without that it may get an unfinished
\* page with no entry for ever, as no such call is refused (nfs3.cpp:1764, 1776).
ListingEnds == <>[]RoomForEach => <>(client.state # "listing")

=============================================================================
