----------------------------- MODULE MountCache -----------------------------
(***************************************************************************)
(* The table of mounts (src/src/nfs/mount_cache.h and mount_cache.cpp):    *)
(* what a MNT call looks up and inserts, what the program writes to its    *)
(* cache file when it quits, and what it reads back when it starts.        *)
(*                                                                         *)
(* Every public operation of mount_cache_t holds mutex_m from its first to *)
(* its last access (mount_cache.h:111-146), so each is one action.  A      *)
(* mount_session is the body of rpc_program::mount (mount.cpp:38-68).      *)
(*                                                                         *)
(* A directory is opened by a Path and remembered by its Location: several *)
(* paths (another case, another prefix) lead to one location.              *)
(***************************************************************************)
EXTENDS Disk

CONSTANTS
  Client,     \* senders of MNT calls
  Query,      \* directory paths the clients ask for
  MaxId       \* bound: mount ids in use are 1 .. MaxId

ASSUME MaxIdAssumption == MaxId \in Nat

VARIABLES
  phase,          \* where program_t::run is
  next_mount,     \* next_mount_m
  mount_map,      \* mount_map_m
  windows_map,    \* windows_map_m
  query_map,      \* query_map_m
  client_mounts,  \* client_mounts_m
  snapshot,       \* the result of save() that store_cache is writing
  saved,          \* the cache file
  kept            \* history: the tables at the time of the last save()

tables == <<next_mount, mount_map, windows_map, query_map, client_mounts>>
files == <<snapshot, saved, kept>>
vars == <<disk, phase, tables, files>>

Id == 1 .. MaxId
End == 0                 \* mount_map_m.end(): not found
running == phase # "off"

Handle == [mount_id : Id, volume_file_id : File]

\* entry.directory is an open handle on volume_file_id, wherever it moves to.
Entry == [filehandle : Handle, windows_path : Location, clients : SUBSET Client]

\* Mutant of Image: the clients of the mounts are not written.
ImageNoClients(mounts, queries, clients) ==
  [paths   |-> [id \in DOMAIN mounts |-> mounts[id].windows_path],
   queries |-> queries,
   clients |-> [c \in Client |-> {}]]

\* What safe_save writes: per mount its path, per query and client its mounts.
Image(mounts, queries, clients) ==
  [paths   |-> [id \in DOMAIN mounts |-> mounts[id].windows_path],
   queries |-> queries,
   clients |-> clients]

NoMounts == [id \in {} |-> NoPath]
NoQueries == [q \in Query |-> End]
NoClients == [c \in Client |-> {}]

\* No cache file, and a file that was truncated but not written yet.
NoCache == Image(NoMounts, NoQueries, NoClients)

-----------------------------------------------------------------------------
(* Looking up and inserting *)

\* Mutant of NewEntry: the path as it was asked for is stored, not fullpath().
NewEntryAsAsked(id, p) ==
  [filehandle   |-> [mount_id |-> id, volume_file_id |-> disk[Canonical[p]]],
   windows_path |-> p,
   clients      |-> {}]

\* Mutant of NewEntry: the handle is numbered by the size of the table.
NewEntryCounted(id, p) ==
  [filehandle   |-> [mount_id       |-> Cardinality(DOMAIN mount_map) + 1,
                     volume_file_id |-> disk[Canonical[p]]],
   windows_path |-> Canonical[p],
   clients      |-> {}]

\* The entry safe_mount_windows_path creates for a directory it could open.
NewEntry(id, p) ==
  [filehandle   |-> [mount_id |-> id, volume_file_id |-> disk[Canonical[p]]],
   windows_path |-> Canonical[p],
   clients      |-> {}]

\* Mutant of FindQuery: the query as sent is never found in query_map_m.
FindQueryMisses(q) == End

FindQuery(q) == query_map[q]

\* Mutant of FindWindows: every new query opens its directory.
FindWindowsMisses(p) == End

FindWindows(p) == IF p \in Location THEN windows_map[p] ELSE End

\* Mutant of MountSender: the client is entered in the entry only.
MountSenderHalf(c, id, mounts) ==
  /\ mount_map' = [mounts EXCEPT ![id].clients = @ \cup {c}]
  /\ UNCHANGED client_mounts

\* safe_mount_sender, on the entries given: an already mounted client is left alone.
MountSender(c, id, mounts) ==
  IF c \in mounts[id].clients
  THEN mount_map' = mounts /\ UNCHANGED client_mounts
  ELSE /\ mount_map' = [mounts EXCEPT ![id].clients = @ \cup {c}]
       /\ client_mounts' = [client_mounts EXCEPT ![c] = @ \cup {id}]

\* mount_map_m.insert in safe_mount_windows_path.
Insert(id, entry) ==
  [i \in DOMAIN mount_map \cup {id} |-> IF i = id THEN entry ELSE mount_map[i]]

\* Mutant of InsertWindows: a new mount is not entered by path.
InsertWindowsForgets(l, id) == windows_map

\* windows_map_m.insert keeps the entry that is there already.
InsertWindows(l, id) ==
  IF windows_map[l] = End THEN [windows_map EXCEPT ![l] = id] ELSE windows_map

-----------------------------------------------------------------------------
(* The calls of the mount program; p is what the query resolves to. *)

MntKnownQuery(c, q) ==
  /\ running
  /\ FindQuery(q) # End
  /\ MountSender(c, FindQuery(q), mount_map)
  /\ UNCHANGED <<disk, phase, next_mount, windows_map, query_map, files>>

\* What a session does once find_query has missed.  First: find_windows hits.
MountKnownPath(c, q, p) ==
  /\ FindWindows(p) # End
  /\ query_map' = [query_map EXCEPT ![q] = FindWindows(p)]
  /\ MountSender(c, FindWindows(p), mount_map)
  /\ UNCHANGED <<disk, phase, next_mount, windows_map, files>>

\* safe_mount; next_mount <= MaxId is the bound on ids, not a guard of the code.
MountNewPath(c, q, p) ==
  /\ FindWindows(p) = End
  /\ next_mount <= MaxId
  /\ Opens(p)
  /\ next_mount' = next_mount + 1
  /\ windows_map' = InsertWindows(Canonical[p], next_mount)
  /\ query_map' = [query_map EXCEPT ![q] = next_mount]
  /\ MountSender(c, next_mount, Insert(next_mount, NewEntry(next_mount, p)))
  /\ UNCHANGED <<disk, phase, files>>

\* safe_mount when open_path fails: the id is spent all the same.
MountNoEntry(p) ==
  /\ FindWindows(p) = End
  /\ next_mount <= MaxId
  /\ ~Opens(p)
  /\ next_mount' = next_mount + 1
  /\ UNCHANGED <<disk, phase, mount_map, windows_map, query_map, client_mounts, files>>

MntKnownPath(c, q, p) == running /\ FindQuery(q) = End /\ MountKnownPath(c, q, p)
MntNewPath(c, q, p) == running /\ FindQuery(q) = End /\ MountNewPath(c, q, p)
MntNoEntry(q, p) == running /\ FindQuery(q) = End /\ MountNoEntry(p)

\* safe_unmount and safe_unmount_client have no body: UMNT and UMNTALL change nothing.
Unmount == running /\ UNCHANGED vars

-----------------------------------------------------------------------------
(* Quitting, crashing and starting *)

\* store_cache: save(), then the stream opens and truncates the file ...
StoreSnapshot ==
  /\ phase = "serving"
  /\ phase' = "storing"
  /\ snapshot' = Image(mount_map, query_map, client_mounts)
  /\ saved' = NoCache
  /\ kept' = [mounts |-> mount_map, queries |-> query_map]
  /\ UNCHANGED <<disk, tables>>

\* Mutant of StoreWrite: the tables are read again while the file is written.
StoreWriteTables ==
  /\ phase = "storing"
  /\ phase' = "stored"
  /\ saved' = Image(mount_map, query_map, client_mounts)
  /\ UNCHANGED <<disk, tables, snapshot, kept>>

\* ... and then writes it.  The servers answer calls until they are destroyed.
StoreWrite ==
  /\ phase = "storing"
  /\ phase' = "stored"
  /\ saved' = snapshot
  /\ UNCHANGED <<disk, tables, snapshot, kept>>

\* The program ends, by returning from run or by being killed at any point.
Stop ==
  /\ running
  /\ phase' = "off"
  /\ next_mount' = 1
  /\ mount_map' = NoMounts
  /\ windows_map' = [l \in Location |-> End]
  /\ query_map' = NoQueries
  /\ client_mounts' = NoClients
  /\ snapshot' = NoCache
  /\ UNCHANGED <<disk, saved, kept>>

\* Mutant of NextAbove: one above the id that was read last.
NextAboveLast(ids) == IF ids = {} THEN {1} ELSE {i + 1 : i \in ids}

\* next_mount_m after the loop of safe_restore: one above every id read.
NextAbove(ids) ==
  {n \in 1 .. MaxId + 1 : (\A i \in ids : i < n) /\ (n = 1 \/ n - 1 \in ids)}

\* Which id a location finds: unordered_map decides in which order ids are read.
RestoredWindows(live) ==
  {w \in [Location -> live \cup {End}] :
     \A l \in Location :
       LET here == {i \in live : Canonical[saved.paths[i]] = l}
       IN IF here = {} THEN w[l] = End ELSE w[l] \in here}

\* A new process restores the cache before it starts its servers.
Restore ==
  LET ids == DOMAIN saved.paths
      live == {i \in ids : Opens(saved.paths[i])}
  IN /\ phase = "off"
     /\ phase' = "serving"
     /\ mount_map' = [i \in live |->
          [NewEntry(i, saved.paths[i]) EXCEPT
             !.clients = {c \in Client : i \in saved.clients[c]}]]
     /\ windows_map' \in RestoredWindows(live)
     /\ query_map' = [q \in Query |->
          IF saved.queries[q] \in live THEN saved.queries[q] ELSE End]
     /\ client_mounts' = [c \in Client |-> saved.clients[c] \cap live]
     /\ next_mount' \in NextAbove(ids)
     /\ UNCHANGED <<disk, files>>

-----------------------------------------------------------------------------

Init ==
  /\ disk \in Disks
  /\ phase = "off"
  /\ next_mount = 1
  /\ mount_map = NoMounts
  /\ windows_map = [l \in Location |-> End]
  /\ query_map = NoQueries
  /\ client_mounts = NoClients
  /\ snapshot = NoCache
  /\ saved = NoCache
  /\ kept = [mounts |-> NoMounts, queries |-> NoQueries]

Mnt(c, q, p) ==
  \/ MntKnownQuery(c, q)
  \/ MntKnownPath(c, q, p)
  \/ MntNewPath(c, q, p)
  \/ MntNoEntry(q, p)

Next ==
  \/ \E c \in Client, q \in Query, p \in Path \cup {NoPath} : Mnt(c, q, p)
  \/ Unmount
  \/ StoreSnapshot
  \/ StoreWrite
  \/ Stop
  \/ Restore
  \/ DiskStep /\ UNCHANGED <<phase, tables, files>>

Spec == Init /\ [][Next]_vars

-----------------------------------------------------------------------------
(* Properties *)

IsImage(image) ==
  /\ DOMAIN image.paths \subseteq Id
  /\ image.paths \in [DOMAIN image.paths -> Location]
  /\ image.queries \in [Query -> Id \cup {End}]
  /\ image.clients \in [Client -> SUBSET Id]

\* The values the tables and files take.
TypeOK ==
  /\ disk \in Disks
  /\ phase \in {"off", "serving", "storing", "stored"}
  /\ next_mount \in 1 .. MaxId + 1
  /\ DOMAIN mount_map \subseteq Id
  /\ mount_map \in [DOMAIN mount_map -> Entry]
  /\ windows_map \in [Location -> Id \cup {End}]
  /\ query_map \in [Query -> Id \cup {End}]
  /\ client_mounts \in [Client -> SUBSET Id]
  /\ IsImage(snapshot)
  /\ IsImage(saved)

\* The clients of a mount and the mounts of a client are two records of one
\* relation (entry.clients, client_mounts_m), also after a partial restore:
\* safe_mount_sender writes both or, for a known client, neither.
ClientsAgree ==
  \A c \in Client, i \in Id :
    i \in client_mounts[c] <=> i \in DOMAIN mount_map /\ c \in mount_map[i].clients

\* The lookup maps hold iterators into mount_map_m: each leads to an entry,
\* a path to an entry of that path, and an entry is found by its path, so that
\* a MNT for a normalised path never opens the directory a second time.
LookupsLead ==
  /\ \A q \in Query : query_map[q] # End => query_map[q] \in DOMAIN mount_map
  /\ \A l \in Location : windows_map[l] # End =>
       windows_map[l] \in DOMAIN mount_map /\ mount_map[windows_map[l]].windows_path = l
  /\ \A i \in DOMAIN mount_map : windows_map[mount_map[i].windows_path] # End

\* No id in use is given again: next_mount_m is above every id in the table and above every id
\* of the cache file and of the image being written to it, in whatever order restore saw them
\* and those that could not be reopened included; a handle carries the id of its entry.  Ids
\* given after the last save before a crash, and those of mounts that a restart dropped and a
\* later save left out, are in none of these and may be given again after a restart.
IdsSpent ==
  /\ \A i \in DOMAIN mount_map : i < next_mount /\ mount_map[i].filehandle.mount_id = i
  /\ running => \A i \in DOMAIN saved.paths \cup DOMAIN snapshot.paths : i < next_mount

\* What is being written, or was written last, is the table of one moment, with
\* paths, queries and clients of that moment, although calls go on meanwhile; a
\* process that has not started holds no half written image.
KeptImage ==
  Image(kept.mounts, kept.queries,
        [c \in Client |-> {i \in DOMAIN kept.mounts : c \in kept.mounts[i].clients}])

SaveCoherent ==
  /\ ~running => snapshot = NoCache
  /\ phase \in {"storing", "stored"} => snapshot = KeptImage
  /\ saved \in {NoCache, KeptImage}
  /\ DOMAIN kept.mounts \subseteq Id
  /\ kept.mounts \in [DOMAIN kept.mounts -> Entry]
  /\ \A i \in DOMAIN kept.mounts : kept.mounts[i].filehandle.mount_id = i

\* The invariant the proofs are by induction on.
IInv == TypeOK /\ ClientsAgree /\ LookupsLead /\ IdsSpent /\ SaveCoherent

\* The lookup by path before safe_mount leaves one entry per location, unless the
\* location has other spellings, under which the lookup does not find it.
OneEntryPerLocation ==
  \A i, j \in DOMAIN mount_map :
    mount_map[i].windows_path = mount_map[j].windows_path =>
      i = j \/ \E p \in Path : Canonical[p] = mount_map[i].windows_path /\ p # Canonical[p]

\* While the process lives, no step withdraws or changes a handle, the answer
\* to a query or a client's registration: a repeated or retransmitted MNT gets
\* the handle of the first.
AnswersStable ==
  [][running /\ phase' # "off" =>
       /\ \A i \in DOMAIN mount_map :
            /\ i \in DOMAIN mount_map'
            /\ mount_map'[i].filehandle = mount_map[i].filehandle
            /\ mount_map[i].clients \subseteq mount_map'[i].clients
       /\ \A q \in Query : query_map[q] # End => query_map'[q] = query_map[q]]_vars

\* Is the directory of this saved mount still where it was?
StillThere(i) ==
  disk[kept.mounts[i].windows_path] = kept.mounts[i].filehandle.volume_file_id

\* Restart after a completed store_cache: each mount of the table as it was at
\* save() is back with its id, handle and clients, and each query with its
\* answer, if its directory is where it was; what is not reopened is dropped.
RestoreFaithful ==
  [][phase = "off" /\ phase' = "serving" /\ saved # NoCache =>
       /\ DOMAIN mount_map' \subseteq DOMAIN kept.mounts
       /\ \A i \in DOMAIN kept.mounts : StillThere(i) =>
            /\ i \in DOMAIN mount_map'
            /\ mount_map'[i] = kept.mounts[i]
       /\ \A q \in Query : kept.queries[q] \in DOMAIN mount_map' =>
            query_map'[q] = kept.queries[q]]_vars

-----------------------------------------------------------------------------
(* The abstract specification *)

HandleOf(i) == mount_map[i].filehandle

Table == INSTANCE MountTable WITH
  up      <- running,
  handles <- {HandleOf(i) : i \in DOMAIN mount_map},
  answers <- {<<q, HandleOf(query_map[q])>> : q \in {r \in Query : query_map[r] # End}},
  granted <- UNION {{<<c, HandleOf(i)>> : c \in mount_map[i].clients} : i \in DOMAIN mount_map}

\* The cache keeps the promises of MountTable: a stable handle per query, ids of
\* their own for all handles, no registration lost while the process runs.
ImplementsTable == Table!Spec

=============================================================================
