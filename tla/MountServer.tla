----------------------------- MODULE MountServer -----------------------------
(***************************************************************************)
(* The mount service of the running program: MNT calls (mount.cpp:38-68)   *)
(* over the exported directories (MountAliases) and the table of mounts    *)
(* (MountCache), while the configuration file, the disk and the process    *)
(* itself change (cli.h:28-111).                                           *)
(*                                                                         *)
(* A MNT call holds the unique lock of the mount table from beginning to   *)
(* end, but the lock of the aliases only inside resolve.  A call for a     *)
(* query the table does not know is therefore two steps: one up to the     *)
(* resolved path, one that acts on what the first has read.  Between them  *)
(* the configuration and the disk may change.                              *)
(***************************************************************************)
EXTENDS Disk, Sequences, SequencesExt

CONSTANTS
  Client, Query, MaxId,   \* of MountCache; a query is an alias path
  Content,                \* what the configuration file may list
  Char,                   \* the characters of paths
  Thread,                 \* the threads that read the sockets
  None                    \* a thread without a call

\* Paths and alias paths are sequences of characters; the file names paths only, and the
\* syncer sets each without an alias (cli.h:57-65).
ASSUME NameAssumption ==
  /\ MaxId \in Nat
  /\ {"/", "\\"} \subseteq Char
  /\ Path \subseteq Seq(Char) /\ NoPath \in Seq(Char) /\ Query \subseteq Seq(Char)
  /\ Content \subseteq Seq(Seq(Char) \X {<<>>})

VARIABLES
  phase, next_mount, mount_map, windows_map, query_map, client_mounts,
  snapshot, saved, kept,  \* of MountCache
  store,                  \* of MountAliases
  session,                \* the MNT call of a thread after find_query has missed
  config_file,            \* external: the configuration file
  quiet                   \* history: neither file nor disk has changed yet

\* The program makes two sources and gives the second to the syncer (cli.h:30,100).
ConfigSource == 2
MaxSource == 2
MaxEntries == 0     \* nothing calls add

Cache == INSTANCE MountCache
Aliases == INSTANCE MountAliases WITH next_source <- 3, Extra <- {}

table == <<phase, next_mount, mount_map, windows_map, query_map, client_mounts,
           snapshot, saved, kept>>
vars == <<disk, table, store, session, config_file, quiet>>

Export == [source : {ConfigSource}, alias_path : Seq(Char), windows_path : Location]
Call == [client : Client, query : Query, path : Seq(Char)]

NoSession == [t \in Thread |-> None]

\* Mutant of Unlocked: the session does not lock the table.
NeverLocked == TRUE

\* mutex_m of the table is free, for readers and writers: no call is in a session.
Unlocked == session = NoSession

-----------------------------------------------------------------------------
(* MNT and the other calls of the mount program *)

\* find_query hits.
MntKnown(c, q) ==
  /\ Unlocked
  /\ Cache!MntKnownQuery(c, q)
  /\ UNCHANGED <<store, session, config_file, quiet>>

\* find_query misses; the lock of the aliases is taken and given back.
MntResolve(t, c, q) ==
  /\ Cache!running
  /\ Unlocked
  /\ Cache!FindQuery(q) = Cache!End
  /\ session' = [session EXCEPT ![t] = [client |-> c, query |-> q, path |-> Aliases!resolve(q)]]
  /\ UNCHANGED <<disk, table, store, config_file, quiet>>

\* The rest of the call acts on what was found before: the query is not looked up
\* again, and the path is the one resolved then.
MntFinish(t) ==
  /\ session[t] # None
  /\ \/ Cache!MountKnownPath(session[t].client, session[t].query, session[t].path)
     \/ Cache!MountNewPath(session[t].client, session[t].query, session[t].path)
     \/ Cache!MountNoEntry(session[t].path)
  /\ session' = [session EXCEPT ![t] = None]
  /\ UNCHANGED <<store, config_file, quiet>>

Unmount ==
  /\ Unlocked
  /\ Cache!Unmount
  /\ UNCHANGED <<store, session, config_file, quiet>>

-----------------------------------------------------------------------------
(* The configuration file *)

\* read() of the syncer: the notifier may call it at any time, for any reason.
Loaded(list) == Aliases!SetSafe(list, ConfigSource, config_file)

ReadConfig ==
  /\ Cache!running
  /\ store' = Loaded(store)
  /\ UNCHANGED <<disk, table, session, config_file, quiet>>

\* An editor replaces, empties or half writes the file.
EditConfig(lines) ==
  /\ config_file' = lines
  /\ quiet' = FALSE
  /\ UNCHANGED <<disk, table, store, session>>

-----------------------------------------------------------------------------
(* The program *)

\* Mutant of Start: the file is not read before the notifier calls.
StartUnread ==
  /\ Cache!Restore
  /\ store' = <<>>
  /\ UNCHANGED <<session, config_file, quiet>>

\* run: the syncer's constructor reads the file, then the cache is restored.
Start ==
  /\ Cache!Restore
  /\ store' = Loaded(store)
  /\ UNCHANGED <<session, config_file, quiet>>

\* save() needs the shared lock of the table.
StoreSnapshot ==
  /\ Unlocked
  /\ Cache!StoreSnapshot
  /\ UNCHANGED <<store, session, config_file, quiet>>

StoreWrite ==
  /\ Cache!StoreWrite
  /\ UNCHANGED <<store, session, config_file, quiet>>

Stop ==
  /\ Cache!Stop
  /\ store' = <<>>
  /\ session' = NoSession
  /\ UNCHANGED <<config_file, quiet>>

DiskChange ==
  /\ DiskStep
  /\ quiet' = FALSE
  /\ UNCHANGED <<table, store, session, config_file>>

Init ==
  /\ Cache!Init
  /\ store = <<>>
  /\ session = NoSession
  /\ config_file \in Content
  /\ quiet = TRUE

Next ==
  \/ \E c \in Client, q \in Query : MntKnown(c, q)
  \/ \E t \in Thread, c \in Client, q \in Query : MntResolve(t, c, q)
  \/ \E t \in Thread : MntFinish(t)
  \/ Unmount
  \/ ReadConfig
  \/ \E lines \in Content : EditConfig(lines)
  \/ Start
  \/ StoreSnapshot
  \/ StoreWrite
  \/ Stop
  \/ DiskChange

Spec == Init /\ [][Next]_vars

-----------------------------------------------------------------------------
(* Properties *)

\* The values of the variables MountCache does not type.
TypeOK ==
  /\ Cache!TypeOK
  /\ session \in [Thread -> Call \cup {None}]
  /\ config_file \in Content
  /\ store \in Seq(Export)
  /\ quiet \in BOOLEAN

\* The calls, interrupted between resolve and mount by reloads and disk changes,
\* are steps of the table as it is without threads: what a call has found there is
\* still so when it inserts, since its session excludes other calls and save().
ImplementsCache == Cache!Spec

\* While neither file nor disk changes, every answer, cached, repeated or restored
\* by a later process, is the directory the configuration names for the query.
QuietAnswers ==
  quiet /\ Cache!running =>
    \A q \in Query : query_map[q] # Cache!End =>
      /\ Opens(Aliases!resolve(q))
      /\ mount_map[query_map[q]].filehandle.volume_file_id = disk[Canonical[Aliases!resolve(q)]]
=============================================================================
