------------------------------ MODULE ConfigSync ------------------------------
(***************************************************************************)
(* The path file is kept in step with the exports by                       *)
(* path_config_file_syncer_t (cli.h:28-72) and file_change_notifier        *)
(* (file_change_notifier.cpp): the main thread reads it once, a waiting    *)
(* thread reads it again after each notification, and the destructor has   *)
(* that thread end.                                                        *)
(*                                                                         *)
(* External: the editor, and the change notifications of Windows.  A       *)
(* change between two requests is kept for the next one; a request made    *)
(* while one is outstanding may lose what that one has seen.  A request    *)
(* is for the directory: a notification may be about another file.         *)
(***************************************************************************)
EXTENDS Naturals

CONSTANTS
  Text,       \* contents of the file, the half written ones and none at all included
  Unread,     \* nothing read or set yet
  MaxEdits    \* bound: changes in the directory

ASSUME ConfigSyncAssumption == Unread \notin Text /\ MaxEdits \in Nat

VARIABLES
  file,             \* the content of the file
  edits,            \* the changes so far
  request,          \* of the notification handle
  exports,          \* what the syncer has set last (aliases_m)
  main,             \* where the main thread is
  watcher,          \* where the waiting thread is
  got,              \* what a thread has read and not yet set
  continue_waiting, \* continue_waiting_
  missed            \* history: a notification was lost

thread == <<main, watcher, got>>
sync_vars == <<file, edits, request, exports, thread, continue_waiting, missed>>

Threads == {"main", "watcher"}

\* Where the handle is: not made; no request outstanding, without or with a change kept for
\* the next; a request outstanding, without or with a change seen.
Request == {"none", "idle", "kept", "pending", "signalled", "closed"}

-----------------------------------------------------------------------------
(* The directory and its notifications *)

Changed ==
  request' = CASE request = "idle" -> "kept" [] request = "pending" -> "signalled" [] OTHER -> request

\* A step of saving the file, or a change of another file.
Edit(content) ==
  /\ edits < MaxEdits
  /\ edits' = edits + 1
  /\ file' = content
  /\ Changed
  /\ UNCHANGED <<exports, thread, continue_waiting, missed>>

FindNext ==
  \/ request' = (IF request \in {"kept", "signalled"} THEN "signalled" ELSE "pending") /\ UNCHANGED missed
  \/ request = "signalled" /\ request' = "pending" /\ missed' = TRUE

-----------------------------------------------------------------------------
(* read(): the aliases of the file, and then set *)

At(t, place) == IF t = "main" THEN main = place ELSE watcher = place

Goto(t, place) ==
  IF t = "main" THEN main' = place /\ UNCHANGED watcher ELSE watcher' = place /\ UNCHANGED main

\* A file that cannot be opened has no aliases: some content stands for none.
Read(t) ==
  /\ At(t, "read")
  /\ got' = [got EXCEPT ![t] = file]
  /\ Goto(t, "set")
  /\ UNCHANGED <<file, edits, request, exports, continue_waiting, missed>>

Set(t) ==
  /\ At(t, "set")
  /\ exports' = got[t]
  /\ got' = [got EXCEPT ![t] = Unread]
  /\ Goto(t, IF t = "main" THEN "start" ELSE "next")
  /\ UNCHANGED <<file, edits, request, continue_waiting, missed>>

-----------------------------------------------------------------------------
(* The main thread: the constructors, run, the destructor *)

\* Mutant of Arm: the file is read before its changes are asked for.
ArmLate == main' = "start" /\ exports' = file /\ UNCHANGED request

Arm == main' = "read" /\ request' = "pending" /\ UNCHANGED exports

Construct ==
  /\ main = "construct"
  /\ Arm
  /\ UNCHANGED <<file, edits, watcher, got, continue_waiting, missed>>

start_watching ==
  /\ main = "start"
  /\ main' = "serve"
  /\ continue_waiting' = TRUE
  /\ watcher' = "next"
  /\ UNCHANGED <<file, edits, request, exports, got, missed>>

Quit ==
  /\ main = "serve"
  /\ main' = "stop"
  /\ UNCHANGED <<file, edits, request, exports, watcher, got, continue_waiting, missed>>

\* Mutant of Told: the thread is waited for and not told.
ToldNot == TRUE

Told == FALSE

EndWatching ==
  /\ main = "stop"
  /\ continue_waiting' = Told
  /\ main' = "get"
  /\ UNCHANGED <<file, edits, request, exports, watcher, got, missed>>

\* Mutant of Waited: the thread is not waited for.
WaitedNot == TRUE

\* The future is ready, with an exception or without.
Waited == watcher \in {"done", "failed"}

Get ==
  /\ main = "get" /\ Waited
  /\ main' = "down"
  /\ request' = "closed"
  /\ UNCHANGED <<file, edits, exports, watcher, got, continue_waiting, missed>>

-----------------------------------------------------------------------------
(* The waiting thread *)

Ask ==
  /\ watcher = "next"
  /\ IF continue_waiting
     THEN watcher' = "wait" /\ FindNext
     ELSE watcher' = "done" /\ UNCHANGED <<request, missed>>
  /\ UNCHANGED <<file, edits, exports, main, got, continue_waiting>>

\* FindNextChangeNotification or the wait fails, which throws.
Fail ==
  /\ watcher = "wait" \/ (watcher = "next" /\ continue_waiting)
  /\ watcher' = "failed"
  /\ UNCHANGED <<file, edits, request, exports, main, got, continue_waiting, missed>>

Notified ==
  /\ watcher = "wait" /\ request = "signalled"
  /\ request' = "idle"
  /\ watcher' = "read"
  /\ UNCHANGED <<file, edits, exports, main, got, continue_waiting, missed>>

TimeOut ==
  /\ watcher = "wait" /\ request = "pending"
  /\ watcher' = "next"
  /\ UNCHANGED <<file, edits, request, exports, main, got, continue_waiting, missed>>

-----------------------------------------------------------------------------
SyncInit ==
  /\ file \in Text /\ edits = 0
  /\ request = "none"
  /\ exports = Unread
  /\ main = "construct" /\ watcher = "none"
  /\ got = [t \in Threads |-> Unread]
  /\ continue_waiting = FALSE
  /\ missed = FALSE

MainRuns == Construct \/ Read("main") \/ Set("main") \/ start_watching \/ EndWatching \/ Get
WatcherRuns == Ask \/ Notified \/ TimeOut \/ Read("watcher") \/ Set("watcher")

SyncNext ==
  \/ MainRuns \/ Quit
  \/ WatcherRuns \/ Fail
  \/ \E content \in Text : Edit(content)

\* The system runs both threads; a wait ends, in vain after a second (line 85).
SyncFairness == WF_sync_vars(MainRuns) /\ WF_sync_vars(WatcherRuns)

SyncSpec == SyncInit /\ [][SyncNext]_sync_vars /\ SyncFairness

-----------------------------------------------------------------------------
(* Properties *)

\* Types.  One thread reads at a time, and the handle is closed when the waiting thread has
\* used it for the last time (file_change_notifier.h:16, file_change_notifier.cpp:40-42).
SyncTypeOK ==
  /\ file \in Text /\ edits \in 0 .. MaxEdits
  /\ request \in Request
  /\ exports \in Text \cup {Unread}
  /\ main \in {"construct", "read", "set", "start", "serve", "stop", "get", "down"}
  /\ watcher \in {"none", "next", "wait", "read", "set", "done", "failed"}
  /\ got \in [Threads -> Text \cup {Unread}]
  /\ \A t \in Threads : got[t] = Unread <=> ~At(t, "set")
  /\ continue_waiting \in BOOLEAN /\ missed \in BOOLEAN
  /\ watcher = "none" <=> main \in {"construct", "read", "set", "start"}
  /\ request = "none" <=> main = "construct"
  /\ request = "closed" => watcher \in {"done", "failed"}

\* While no notification is due and none is being answered, the exports are those of the file
\* as it is: a change while the file is read, before the thread starts or while it is between
\* two requests is noticed, unless a request made on top of another loses it
\* (cli.h:36-40, file_change_notifier.cpp:28, 81-89).
UpToDate ==
  /\ main \notin {"construct", "read", "set"} /\ watcher \notin {"read", "set"}
  /\ request \in {"idle", "pending"} /\ ~missed
  => exports = file

\* A content that stays is exported in the end, unless a notification is lost, the waiting
\* thread has failed, which nobody notices, or the server stops; and stopping comes to its end
\* whatever the thread is doing (cli.h:50-66, file_change_notifier.cpp:34-43, 79-97).
Converges ==
  /\ \A c \in Text :
       file = c ~> \/ exports = c \/ file # c \/ missed
                  \/ watcher = "failed" \/ main \in {"stop", "get", "down"}
  /\ main = "stop" ~> main = "down"
=============================================================================
