-------------------------- MODULE MountCacheProofs --------------------------
(***************************************************************************)
(* Theorems about MountCache, for every set of clients, queries, paths and *)
(* directories and every bound on ids.                                     *)
(***************************************************************************)
EXTENDS MountCache, TLAPS

(***************************************************************************)
(* A disk step keeps every directory at one location.                      *)
(***************************************************************************)
LEMMA DiskStepType ==
  ASSUME disk \in Disks, DiskStep
  PROVE  disk' \in Disks
<1>1. ASSUME NEW l \in Location, NEW m \in Location, Move(l, m)
      PROVE  disk' \in Disks
  BY <1>1, DiskAssumption DEF Disks, Move
<1>2. ASSUME NEW l \in Location, Delete(l)
      PROVE  disk' \in Disks
  BY <1>2, DiskAssumption DEF Disks, Delete
<1>3. ASSUME NEW l \in Location, NEW f \in File, Create(l, f)
      PROVE  disk' \in Disks
  BY <1>3, DiskAssumption DEF Disks, Create
<1>4. QED
  BY <1>1, <1>2, <1>3 DEF DiskStep

(***************************************************************************)
(* An opened directory makes a well-typed entry.                           *)
(***************************************************************************)
LEMMA NewEntryType ==
  ASSUME disk \in Disks, NEW id \in Id, NEW p, Opens(p)
  PROVE  NewEntry(id, p) \in Entry
BY DiskAssumption DEF Disks, Opens, NewEntry, Entry, Handle

\* A missing cache file, and one that store_cache has truncated, is an image.
LEMMA EmptyType == IsImage(NoCache)
BY MaxIdAssumption DEF IsImage, NoCache, Image, NoMounts, NoQueries, NoClients, End

\* A process that has not started and a machine without cache file are well typed.
LEMMA InitType == Init => TypeOK
<1> SUFFICES ASSUME Init PROVE TypeOK
  OBVIOUS
<1>1. IsImage(saved) /\ IsImage(snapshot)
  BY EmptyType DEF Init
<1>2. QED
  BY <1>1, MaxIdAssumption
     DEF Init, TypeOK, NoMounts, NoQueries, NoClients, End, Id

(***************************************************************************)
(* safe_mount_sender on a well-formed table: it adds a client to an entry, *)
(* changes nothing else of it, and keeps the two records of who mounted    *)
(* what in agreement.                                                      *)
(***************************************************************************)
Agree(mounts, clients) ==
  \A c \in Client, i \in Id :
    i \in clients[c] <=> i \in DOMAIN mounts /\ c \in mounts[i].clients

WellTyped(mounts) == DOMAIN mounts \subseteq Id /\ mounts \in [DOMAIN mounts -> Entry]

SameButClients(mounts, old) ==
  /\ DOMAIN mounts = DOMAIN old
  /\ \A i \in DOMAIN old :
       /\ mounts[i].filehandle = old[i].filehandle
       /\ mounts[i].windows_path = old[i].windows_path
       /\ old[i].clients \subseteq mounts[i].clients

Added(mounts, old, id, c) ==
  \A i \in DOMAIN old :
    mounts[i].clients = IF i = id THEN old[i].clients \cup {c} ELSE old[i].clients

\* safe_mount_sender adds the client to the entry and the entry to the client,
\* changes nothing else, and does neither for a client that is known.
LEMMA MountSenderTable ==
  ASSUME NEW c \in Client, NEW mounts, WellTyped(mounts), NEW id \in DOMAIN mounts,
         client_mounts \in [Client -> SUBSET Id], Agree(mounts, client_mounts),
         MountSender(c, id, mounts)
  PROVE  /\ WellTyped(mount_map')
         /\ client_mounts' \in [Client -> SUBSET Id]
         /\ Agree(mount_map', client_mounts')
         /\ SameButClients(mount_map', mounts)
         /\ Added(mount_map', mounts, id, c)
<1>1. CASE c \in mounts[id].clients
  BY <1>1 DEF MountSender, WellTyped, Agree, SameButClients, Added
<1>2. CASE c \notin mounts[id].clients
  <2> DEFINE entry == [mounts[id] EXCEPT !.clients = @ \cup {c}]
  <2>0. mounts[id] \in Entry
    BY DEF WellTyped
  <2>1. /\ entry \in Entry
        /\ entry.filehandle = mounts[id].filehandle
        /\ entry.windows_path = mounts[id].windows_path
        /\ entry.clients = mounts[id].clients \cup {c}
    BY <2>0 DEF Entry
  <2>2. mount_map' = [mounts EXCEPT ![id] = entry]
    BY <1>2 DEF MountSender
  <2>3. client_mounts' = [client_mounts EXCEPT ![c] = client_mounts[c] \cup {id}]
    BY <1>2 DEF MountSender
  <2> HIDE DEF entry
  <2>4. DOMAIN mount_map' = DOMAIN mounts
    BY <2>2
  <2>5. WellTyped(mount_map')
    BY <2>1, <2>2, <2>4 DEF WellTyped
  <2>6. client_mounts' \in [Client -> SUBSET Id]
    BY <2>3 DEF WellTyped
  <2>7. SameButClients(mount_map', mounts)
    BY <2>1, <2>2, <2>4 DEF SameButClients
  <2>8. Agree(mount_map', client_mounts')
    <3> SUFFICES ASSUME NEW d \in Client, NEW i \in Id
                 PROVE  i \in client_mounts'[d] <=>
                          i \in DOMAIN mounts /\ d \in mount_map'[i].clients
      BY <2>4 DEF Agree
    <3>1. CASE i = id
      BY <3>1, <2>1, <2>2, <2>3 DEF Agree
    <3>2. CASE i # id
      BY <3>2, <2>2, <2>3 DEF Agree
    <3>3. QED
      BY <3>1, <3>2
  <2>9. Added(mount_map', mounts, id, c)
    BY <2>1, <2>2, <2>4 DEF Added
  <2>10. QED
    BY <2>5, <2>6, <2>7, <2>8, <2>9
<1>3. QED
  BY <1>1, <1>2

-----------------------------------------------------------------------------
(* Each action preserves the invariant. *)

\* A MNT answered from query_map_m keeps the invariant.
LEMMA MntKnownQueryInv ==
  ASSUME IInv, NEW c \in Client, NEW q \in Query, MntKnownQuery(c, q)
  PROVE  IInv'
<1>1. FindQuery(q) \in DOMAIN mount_map
  BY DEF MntKnownQuery, FindQuery, IInv, LookupsLead
<1>2. /\ WellTyped(mount_map')
      /\ client_mounts' \in [Client -> SUBSET Id]
      /\ Agree(mount_map', client_mounts')
      /\ SameButClients(mount_map', mount_map)
  <2>1. WellTyped(mount_map) /\ Agree(mount_map, client_mounts)
    BY DEF IInv, TypeOK, ClientsAgree, WellTyped, Agree
  <2>2. QED
    BY <1>1, <2>1, MountSenderTable DEF MntKnownQuery, IInv, TypeOK
<1>3. TypeOK'
  BY <1>2 DEF MntKnownQuery, IInv, TypeOK, WellTyped, files, IsImage
<1>4. ClientsAgree'
  BY <1>2 DEF ClientsAgree, Agree
<1>5. LookupsLead'
  BY <1>2 DEF MntKnownQuery, IInv, TypeOK, LookupsLead, SameButClients
<1>6. IdsSpent'
  BY <1>2 DEF MntKnownQuery, IInv, IdsSpent, SameButClients, files, running
<1>7. SaveCoherent'
  BY DEF MntKnownQuery, IInv, SaveCoherent, KeptImage, files, running
<1>8. QED
  BY <1>3, <1>4, <1>5, <1>6, <1>7 DEF IInv

\* A MNT answered from windows_map_m, which adds the query, keeps the invariant.
LEMMA MntKnownPathInv ==
  ASSUME IInv, NEW c \in Client, NEW q \in Query, NEW p, MntKnownPath(c, q, p)
  PROVE  IInv'
<1>1. FindWindows(p) \in DOMAIN mount_map
  BY DEF MntKnownPath, MountKnownPath, FindWindows, IInv, LookupsLead
<1>2. /\ WellTyped(mount_map')
      /\ client_mounts' \in [Client -> SUBSET Id]
      /\ Agree(mount_map', client_mounts')
      /\ SameButClients(mount_map', mount_map)
  <2>1. WellTyped(mount_map) /\ Agree(mount_map, client_mounts)
    BY DEF IInv, TypeOK, ClientsAgree, WellTyped, Agree
  <2>2. QED
    BY <1>1, <2>1, MountSenderTable DEF MntKnownPath, MountKnownPath, IInv, TypeOK
<1>3. TypeOK'
  <2>1. query_map' \in [Query -> Id \cup {End}]
    BY <1>1 DEF MntKnownPath, MountKnownPath, IInv, TypeOK
  <2>2. QED
    BY <1>2, <2>1 DEF MntKnownPath, MountKnownPath, IInv, TypeOK, WellTyped, files, IsImage
<1>4. ClientsAgree'
  BY <1>2 DEF ClientsAgree, Agree
<1>5. LookupsLead'
  BY <1>1, <1>2 DEF MntKnownPath, MountKnownPath, IInv, TypeOK, LookupsLead, SameButClients
<1>6. IdsSpent'
  BY <1>2 DEF MntKnownPath, MountKnownPath, IInv, IdsSpent, SameButClients, files, running
<1>7. SaveCoherent'
  BY DEF MntKnownPath, MountKnownPath, IInv, SaveCoherent, KeptImage, files, running
<1>8. QED
  BY <1>3, <1>4, <1>5, <1>6, <1>7 DEF IInv

(***************************************************************************)
(* The entry of a new mount is added under an id no entry has.             *)
(***************************************************************************)
LEMMA MntNewPathInv ==
  ASSUME IInv, NEW c \in Client, NEW q \in Query, NEW p, MntNewPath(c, q, p)
  PROVE  IInv'
<1> DEFINE id == next_mount
           entry == NewEntry(id, p)
           mounts == Insert(id, entry)
<1>1. id \in Id /\ id \notin DOMAIN mount_map
  BY MaxIdAssumption DEF MntNewPath, MountNewPath, IInv, TypeOK, IdsSpent, Id
<1>2. /\ entry \in Entry
      /\ entry.filehandle.mount_id = id
      /\ entry.windows_path = Canonical[p]
      /\ entry.clients = {}
      /\ Canonical[p] \in Location
  <2>1. entry \in Entry
    BY <1>1, NewEntryType DEF MntNewPath, MountNewPath, IInv, TypeOK
  <2>2. QED
    BY <2>1, DiskAssumption DEF NewEntry, MntNewPath, MountNewPath, Opens
<1> HIDE DEF entry
<1>3. /\ DOMAIN mounts = DOMAIN mount_map \cup {id}
      /\ mounts[id] = entry
      /\ \A i \in DOMAIN mount_map : mounts[i] = mount_map[i]
  BY <1>1 DEF Insert
<1>4. WellTyped(mounts)
  BY <1>1, <1>2 DEF WellTyped, Insert, IInv, TypeOK
<1>5. Agree(mounts, client_mounts)
  BY <1>1, <1>2, <1>3 DEF Agree, IInv, ClientsAgree
<1>6. MountSender(c, id, mounts)
  BY DEF MntNewPath, MountNewPath, entry
<1> HIDE DEF mounts
<1>7. /\ WellTyped(mount_map')
      /\ client_mounts' \in [Client -> SUBSET Id]
      /\ Agree(mount_map', client_mounts')
      /\ SameButClients(mount_map', mounts)
  BY <1>3, <1>4, <1>5, <1>6, MountSenderTable DEF IInv, TypeOK
<1>8. windows_map' = [windows_map EXCEPT ![Canonical[p]] = IF @ = End THEN id ELSE @]
  BY DEF MntNewPath, MountNewPath, InsertWindows, IInv, TypeOK
<1>9. TypeOK'
  <2>1. next_mount' \in 1 .. MaxId + 1
    BY MaxIdAssumption DEF MntNewPath, MountNewPath, IInv, TypeOK
  <2>2. query_map' \in [Query -> Id \cup {End}] /\ windows_map' \in [Location -> Id \cup {End}]
    BY <1>1, <1>2, <1>8 DEF MntNewPath, MountNewPath, IInv, TypeOK
  <2>3. QED
    BY <1>7, <2>1, <2>2 DEF MntNewPath, MountNewPath, IInv, TypeOK, WellTyped, files, IsImage
<1>10. ClientsAgree'
  BY <1>7 DEF ClientsAgree, Agree
<1>11. LookupsLead'
  <2>1. \A r \in Query : query_map'[r] # End => query_map'[r] \in DOMAIN mount_map'
    BY <1>1, <1>3, <1>7 DEF MntNewPath, MountNewPath, IInv, TypeOK, LookupsLead, SameButClients
  <2>2. \A l \in Location : windows_map'[l] # End =>
          windows_map'[l] \in DOMAIN mount_map' /\ mount_map'[windows_map'[l]].windows_path = l
    BY <1>1, <1>2, <1>3, <1>7, <1>8 DEF IInv, TypeOK, LookupsLead, SameButClients
  <2>3. \A i \in DOMAIN mount_map' : windows_map'[mount_map'[i].windows_path] # End
    <3> SUFFICES ASSUME NEW i \in DOMAIN mount_map'
                 PROVE  windows_map'[mounts[i].windows_path] # End
      BY <1>7 DEF SameButClients
    <3>1. id # End
      BY <1>1, MaxIdAssumption DEF Id, End
    <3>2. CASE i = id
      BY <3>1, <3>2, <1>2, <1>3, <1>8 DEF IInv, TypeOK
    <3>3. CASE i # id
      <4>1. i \in DOMAIN mount_map /\ mounts[i] = mount_map[i]
        BY <3>3, <1>3, <1>7 DEF SameButClients
      <4>2. mount_map[i].windows_path \in Location
        BY <4>1 DEF IInv, TypeOK, Entry
      <4>3. QED
        BY <3>1, <4>1, <4>2, <1>8 DEF IInv, TypeOK, LookupsLead
    <3>4. QED
      BY <3>2, <3>3
  <2>4. QED
    BY <2>1, <2>2, <2>3 DEF LookupsLead
<1>12. IdsSpent'
  <2>1. next_mount \in Int /\ next_mount' = next_mount + 1
    BY DEF MntNewPath, MountNewPath, IInv, TypeOK
  <2>2. \A i \in DOMAIN mount_map' : i < next_mount' /\ mount_map'[i].filehandle.mount_id = i
    <3> SUFFICES ASSUME NEW i \in DOMAIN mount_map'
                 PROVE  i < next_mount' /\ mounts[i].filehandle.mount_id = i
      BY <1>7 DEF SameButClients
    <3>1. CASE i = id
      BY <3>1, <2>1, <1>2, <1>3
    <3>2. CASE i # id
      <4>1. i \in DOMAIN mount_map /\ mounts[i] = mount_map[i]
        BY <3>2, <1>3, <1>7 DEF SameButClients
      <4>2. i \in Int
        BY <4>1 DEF IInv, TypeOK, Id
      <4>3. QED
        BY <4>1, <4>2, <2>1 DEF IInv, IdsSpent
    <3>3. QED
      BY <3>1, <3>2
  <2>3. \A i \in DOMAIN saved.paths \cup DOMAIN snapshot.paths : i < next_mount'
    <3>1. \A i \in DOMAIN saved.paths \cup DOMAIN snapshot.paths : i \in Int /\ i < next_mount
      BY DEF MntNewPath, MountNewPath, IInv, TypeOK, IsImage, IdsSpent, Id
    <3>2. QED
      BY <3>1, <2>1
  <2>4. QED
    BY <2>2, <2>3 DEF IdsSpent, MntNewPath, MountNewPath, files
<1>13. SaveCoherent'
  BY DEF MntNewPath, MountNewPath, IInv, SaveCoherent, KeptImage, files, running
<1>14. QED
  BY <1>9, <1>10, <1>11, <1>12, <1>13 DEF IInv

\* A MNT whose directory does not open spends an id and keeps the invariant.
LEMMA MntNoEntryInv ==
  ASSUME IInv, NEW q \in Query, NEW p, MntNoEntry(q, p)
  PROVE  IInv'
<1>1. next_mount' \in 1 .. MaxId + 1
  BY MaxIdAssumption DEF MntNoEntry, MountNoEntry, IInv, TypeOK
<1>2. TypeOK'
  BY <1>1 DEF MntNoEntry, MountNoEntry, IInv, TypeOK, files, IsImage
<1>3. ClientsAgree' /\ LookupsLead'
  BY DEF MntNoEntry, MountNoEntry, IInv, ClientsAgree, LookupsLead
<1>4. IdsSpent'
  <2>1. next_mount \in Int /\ next_mount' = next_mount + 1
    BY DEF MntNoEntry, MountNoEntry, IInv, TypeOK
  <2>2. \A i \in DOMAIN mount_map \cup DOMAIN saved.paths \cup DOMAIN snapshot.paths : i \in Int
    BY DEF IInv, TypeOK, IsImage, Id
  <2>3. QED
    BY <2>1, <2>2 DEF MntNoEntry, MountNoEntry, IInv, IdsSpent, files, running
<1>5. SaveCoherent'
  BY DEF MntNoEntry, MountNoEntry, IInv, SaveCoherent, KeptImage, files, running
<1>6. QED
  BY <1>2, <1>3, <1>4, <1>5 DEF IInv

(***************************************************************************)
(* The image save() takes is the image of the tables it is remembered by.  *)
(***************************************************************************)
LEMMA StoreSnapshotInv ==
  ASSUME IInv, StoreSnapshot
  PROVE  IInv'
<1>1. IsImage(snapshot')
  BY DEF StoreSnapshot, Image, IsImage, IInv, TypeOK, Entry
<1>2. TypeOK'
  BY <1>1, EmptyType DEF StoreSnapshot, IInv, TypeOK, tables
<1>3. ClientsAgree' /\ LookupsLead'
  BY DEF StoreSnapshot, IInv, ClientsAgree, LookupsLead, tables
<1>4. IdsSpent'
  <2>1. DOMAIN saved'.paths = {} /\ DOMAIN snapshot'.paths = DOMAIN mount_map
    BY DEF StoreSnapshot, Image, NoCache, NoMounts
  <2>2. QED
    BY <2>1 DEF StoreSnapshot, IInv, IdsSpent, tables
<1>5. SaveCoherent'
  <2>1. client_mounts = [c \in Client |-> {i \in DOMAIN mount_map : c \in mount_map[i].clients}]
    <3>1. \A c \in Client :
            client_mounts[c] = {i \in DOMAIN mount_map : c \in mount_map[i].clients}
      BY DEF IInv, TypeOK, ClientsAgree
    <3>2. QED
      BY <3>1 DEF IInv, TypeOK
  <2>2. snapshot' = KeptImage'
    BY <2>1 DEF StoreSnapshot, KeptImage, Image
  <2>3. QED
    BY <2>2 DEF StoreSnapshot, SaveCoherent, IInv, TypeOK, IdsSpent, running
<1>6. QED
  BY <1>2, <1>3, <1>4, <1>5 DEF IInv

\* The file written is the image that was taken, and keeps the invariant.
LEMMA StoreWriteInv ==
  ASSUME IInv, StoreWrite
  PROVE  IInv'
<1>1. TypeOK'
  BY DEF StoreWrite, IInv, TypeOK, tables, IsImage
<1>2. ClientsAgree' /\ LookupsLead' /\ IdsSpent'
  BY DEF StoreWrite, IInv, ClientsAgree, LookupsLead, IdsSpent, tables, running
<1>3. SaveCoherent'
  BY DEF StoreWrite, IInv, SaveCoherent, KeptImage, running
<1>4. QED
  BY <1>1, <1>2, <1>3 DEF IInv

\* The end of the process drops the tables but not the file, and keeps the invariant.
LEMMA StopInv ==
  ASSUME IInv, Stop
  PROVE  IInv'
<1>1. DOMAIN mount_map' = {}
  BY DEF Stop, NoMounts
<1>2. TypeOK'
  BY <1>1, EmptyType, MaxIdAssumption
     DEF Stop, IInv, TypeOK, NoMounts, NoQueries, NoClients, IsImage
<1>3. ClientsAgree' /\ LookupsLead' /\ IdsSpent'
  BY <1>1 DEF Stop, ClientsAgree, LookupsLead, IdsSpent, NoQueries, NoClients, running
<1>4. SaveCoherent'
  BY DEF Stop, IInv, SaveCoherent, KeptImage, running
<1>5. QED
  BY <1>2, <1>3, <1>4 DEF IInv

(***************************************************************************)
(* What safe_restore makes of a saved mount that could be reopened.        *)
(***************************************************************************)
Live == {i \in DOMAIN saved.paths : Opens(saved.paths[i])}

SavedClients(i) == {c \in Client : i \in saved.clients[c]}

\* The entries safe_restore makes: one per id it could reopen, with its saved clients.
LEMMA RestoredTable ==
  ASSUME IInv, Restore
  PROVE  /\ DOMAIN mount_map' = Live
         /\ Live \subseteq Id
         /\ \A i \in Live :
              /\ mount_map'[i] \in Entry
              /\ mount_map'[i].filehandle.mount_id = i
              /\ mount_map'[i].filehandle.volume_file_id = disk[Canonical[saved.paths[i]]]
              /\ mount_map'[i].windows_path = Canonical[saved.paths[i]]
              /\ mount_map'[i].clients = SavedClients(i)
<1>1. mount_map' = [i \in Live |-> [NewEntry(i, saved.paths[i]) EXCEPT !.clients = SavedClients(i)]]
  BY DEF Restore, Live, SavedClients
<1>2. Live \subseteq Id
  BY DEF Live, IInv, TypeOK, IsImage
<1>3. ASSUME NEW i \in Live
      PROVE  /\ NewEntry(i, saved.paths[i]) \in Entry
             /\ NewEntry(i, saved.paths[i]).filehandle.mount_id = i
             /\ NewEntry(i, saved.paths[i]).filehandle.volume_file_id = disk[Canonical[saved.paths[i]]]
             /\ NewEntry(i, saved.paths[i]).windows_path = Canonical[saved.paths[i]]
  <2>1. NewEntry(i, saved.paths[i]) \in Entry
    BY <1>2, NewEntryType DEF Live, IInv, TypeOK
  <2>2. QED
    BY <2>1 DEF NewEntry
<1>4. ASSUME NEW i \in Live
      PROVE  [NewEntry(i, saved.paths[i]) EXCEPT !.clients = SavedClients(i)] \in Entry
  BY <1>3 DEF Entry, SavedClients
<1>5. ASSUME NEW i \in Live
      PROVE  /\ mount_map'[i].filehandle = NewEntry(i, saved.paths[i]).filehandle
             /\ mount_map'[i].windows_path = NewEntry(i, saved.paths[i]).windows_path
             /\ mount_map'[i].clients = SavedClients(i)
  BY <1>1, <1>3 DEF Entry
<1>6. QED
  BY <1>1, <1>2, <1>3, <1>4, <1>5

\* Restoring any part of a cache file establishes the invariant for the new process.
LEMMA RestoreInv ==
  ASSUME IInv, Restore
  PROVE  IInv'
<1>1. \A i \in Live : saved.paths[i] \in Location /\ Canonical[saved.paths[i]] = saved.paths[i]
  BY DiskAssumption DEF Live, IInv, TypeOK, IsImage
<1>2. TypeOK'
  <2>1. mount_map' \in [DOMAIN mount_map' -> Entry]
    BY RestoredTable DEF Restore
  <2>2. next_mount' \in 1 .. MaxId + 1
    BY DEF Restore, NextAbove
  <2>3. windows_map' \in [Location -> Id \cup {End}]
    BY RestoredTable DEF Restore, RestoredWindows, Live
  <2>4. query_map' \in [Query -> Id \cup {End}]
    BY RestoredTable DEF Restore, Live
  <2>5. client_mounts' \in [Client -> SUBSET Id]
    BY DEF Restore, IInv, TypeOK, IsImage
  <2>6. QED
    BY RestoredTable, <2>1, <2>2, <2>3, <2>4, <2>5 DEF Restore, IInv, TypeOK, files, IsImage
<1>3. ClientsAgree'
  <2>1. \A c \in Client : client_mounts'[c] = saved.clients[c] \cap Live
    BY DEF Restore, Live
  <2>2. QED
    BY <2>1, RestoredTable DEF ClientsAgree, SavedClients
<1>4. LookupsLead'
  <2>1. \A q \in Query : query_map'[q] # End => query_map'[q] \in DOMAIN mount_map'
    BY RestoredTable DEF Restore, Live
  <2>2. \A l \in Location :
          LET here == {i \in Live : saved.paths[i] = l}
          IN IF here = {} THEN windows_map'[l] = End ELSE windows_map'[l] \in here
    BY <1>1 DEF Restore, RestoredWindows, Live
  <2>3. \A l \in Location : windows_map'[l] # End =>
          windows_map'[l] \in DOMAIN mount_map' /\ mount_map'[windows_map'[l]].windows_path = l
    BY <2>2, <1>1, RestoredTable
  <2>4. \A i \in Live : windows_map'[saved.paths[i]] \in Id
    BY <2>2, <1>1, RestoredTable
  <2>5. \A i \in DOMAIN mount_map' : windows_map'[mount_map'[i].windows_path] # End
    BY <2>4, <1>1, RestoredTable, MaxIdAssumption DEF Id, End
  <2>6. QED
    BY <2>1, <2>3, <2>5 DEF LookupsLead
<1>5. IdsSpent'
  <2>1. \A i \in DOMAIN saved.paths : i < next_mount'
    BY DEF Restore, NextAbove
  <2>2. DOMAIN snapshot.paths = {}
    BY DEF Restore, IInv, SaveCoherent, running, NoCache, Image, NoMounts
  <2>3. QED
    BY <2>1, <2>2, RestoredTable DEF IdsSpent, Restore, files, Live
<1>6. SaveCoherent'
  BY DEF Restore, IInv, SaveCoherent, KeptImage, running, files
<1>7. QED
  BY <1>2, <1>3, <1>4, <1>5, <1>6 DEF IInv

-----------------------------------------------------------------------------
(* The theorems *)

\* The invariant holds before the first start.
LEMMA InitInv == Init => IInv
<1> SUFFICES ASSUME Init PROVE IInv
  OBVIOUS
<1>1. TypeOK
  BY InitType
<1>2. ClientsAgree /\ LookupsLead
  BY DEF Init, ClientsAgree, LookupsLead, NoMounts, NoQueries, NoClients
<1>3. IdsSpent
  BY DEF Init, IdsSpent, NoMounts, running
<1>4. SaveCoherent
  BY DEF Init, SaveCoherent, NoMounts, running
<1>5. QED
  BY <1>1, <1>2, <1>3, <1>4 DEF IInv

\* A step of the disk alone, or no step at all, keeps the invariant.
LEMMA StutterInv ==
  ASSUME IInv, UNCHANGED <<phase, tables, files>>, disk' \in Disks
  PROVE  IInv'
BY DEF IInv, TypeOK, ClientsAgree, LookupsLead, IdsSpent, SaveCoherent, KeptImage,
       tables, files, running, IsImage

\* Every step of the mount table keeps the invariant.
LEMMA NextInv ==
  ASSUME IInv, [Next]_vars
  PROVE  IInv'
<1>1. ASSUME NEW c \in Client, NEW q \in Query, NEW p, Mnt(c, q, p)
      PROVE  IInv'
  BY <1>1, MntKnownQueryInv, MntKnownPathInv, MntNewPathInv, MntNoEntryInv DEF Mnt
<1>2. CASE Unmount
  BY <1>2, StutterInv DEF Unmount, vars, IInv, TypeOK
<1>3. CASE StoreSnapshot
  BY <1>3, StoreSnapshotInv
<1>4. CASE StoreWrite
  BY <1>4, StoreWriteInv
<1>5. CASE Stop
  BY <1>5, StopInv
<1>6. CASE Restore
  BY <1>6, RestoreInv
<1>7. CASE DiskStep /\ UNCHANGED <<phase, tables, files>>
  BY <1>7, DiskStepType, StutterInv DEF IInv, TypeOK
<1>8. CASE UNCHANGED vars
  BY <1>8, StutterInv DEF vars, IInv, TypeOK
<1>9. QED
  BY <1>1, <1>2, <1>3, <1>4, <1>5, <1>6, <1>7, <1>8 DEF Next

\* The tables, the maps that lead into them and the cache file stay consistent
\* through every MNT call, save, crash and restore (mount_cache.cpp:8-158).
THEOREM Invariant == Spec => []IInv
<1>1. Init => IInv
  BY InitInv
<1>2. IInv /\ [Next]_vars => IInv'
  BY NextInv
<1>3. QED
  BY <1>1, <1>2, PTL DEF Spec

(***************************************************************************)
(* The tables and the cache file always hold values of their types.        *)
(***************************************************************************)
THEOREM TypeCorrect == Spec => []TypeOK
<1>1. IInv => TypeOK
  BY DEF IInv
<1>2. QED
  BY <1>1, Invariant, PTL

\* The clients of a mount and the mounts of a client are one relation, also after a
\* partial restore (safe_mount_sender, mount_cache.cpp:95-109).
THEOREM ClientsAlwaysAgree == Spec => []ClientsAgree
<1>1. IInv => ClientsAgree
  BY DEF IInv
<1>2. QED
  BY <1>1, Invariant, PTL

\* The maps by query and by path lead to live entries, those by path to an entry of that
\* path, and every entry is found by its path (mount_cache.cpp:95-158).
THEOREM LookupsAlwaysLead == Spec => []LookupsLead
<1>1. IInv => LookupsLead
  BY DEF IInv
<1>2. QED
  BY <1>1, Invariant, PTL

\* The next id is above every id of the table, of the cache file and of the image being written
\* to it, mounts that could not be reopened included; nothing is said of ids that are in none
\* of them (next_mount_m, mount_cache.cpp:46-61, 117-127).
THEOREM NextAboveAllIds == Spec => []IdsSpent
<1>1. IInv => IdsSpent
  BY DEF IInv
<1>2. QED
  BY <1>1, Invariant, PTL

\* What save() took and store_cache writes is the table of one moment, although calls go
\* on meanwhile (safe_save, mount_cache.cpp:8-44).
THEOREM SavesCoherent == Spec => []SaveCoherent
<1>1. IInv => SaveCoherent
  BY DEF IInv
<1>2. QED
  BY <1>1, Invariant, PTL

-----------------------------------------------------------------------------
(* One entry for each location. *)

\* Entries of one location are one, unless the location has other spellings.
OnePerLocation(mounts) ==
  \A i, j \in DOMAIN mounts :
    mounts[i].windows_path = mounts[j].windows_path =>
      i = j \/ \E p \in Path : Canonical[p] = mounts[i].windows_path /\ p # Canonical[p]

\* With the table of the last save, which a restart brings back.
OneAcrossRestart == OnePerLocation(mount_map) /\ OnePerLocation(kept.mounts)

\* safe_mount_sender changes no path.
LEMMA SendersKeepOne ==
  ASSUME NEW c \in Client, NEW mounts, WellTyped(mounts), NEW id \in DOMAIN mounts,
         client_mounts \in [Client -> SUBSET Id], Agree(mounts, client_mounts),
         MountSender(c, id, mounts), OnePerLocation(mounts)
  PROVE  OnePerLocation(mount_map')
<1>1. SameButClients(mount_map', mounts)
  BY MountSenderTable
<1> QED
  BY <1>1 DEF OnePerLocation, SameButClients

\* A path that find_windows does not know is of no entry, unless it is another spelling.
LEMMA MntKeepsOne ==
  ASSUME IInv, OneAcrossRestart, NEW c \in Client, NEW q \in Query, NEW p, Mnt(c, q, p)
  PROVE  OneAcrossRestart'
<1>1. kept' = kept
  BY DEF Mnt, MntKnownQuery, MntKnownPath, MountKnownPath, MntNewPath, MountNewPath, MntNoEntry,
         MountNoEntry, files
<1>2. WellTyped(mount_map) /\ Agree(mount_map, client_mounts) /\ client_mounts \in [Client -> SUBSET Id]
  BY DEF IInv, TypeOK, ClientsAgree, WellTyped, Agree
<1>3. CASE MntKnownQuery(c, q) \/ MntKnownPath(c, q, p)
  <2>1. PICK id \in DOMAIN mount_map : MountSender(c, id, mount_map)
    BY <1>3 DEF MntKnownQuery, MntKnownPath, MountKnownPath, FindQuery, FindWindows, IInv, LookupsLead
  <2> QED
    BY <1>1, <1>2, <2>1, SendersKeepOne DEF OneAcrossRestart
<1>4. CASE MntNewPath(c, q, p)
  <2> DEFINE entry == NewEntry(next_mount, p)
             mounts == Insert(next_mount, entry)
  <2>1. next_mount \in Id /\ next_mount \notin DOMAIN mount_map
    BY <1>4, MaxIdAssumption DEF MntNewPath, MountNewPath, IInv, TypeOK, IdsSpent, Id
  <2>2. p \in Path /\ Canonical[p] \in Location /\ FindWindows(p) = End
    BY <1>4, DiskAssumption DEF MntNewPath, MountNewPath, Opens
  <2>3. entry \in Entry /\ entry.windows_path = Canonical[p] /\ entry.clients = {}
    <3>1. entry \in Entry
      BY <1>4, <2>1, NewEntryType DEF MntNewPath, MountNewPath, IInv, TypeOK
    <3> QED
      BY <3>1 DEF NewEntry
  <2>4. MountSender(c, next_mount, mounts)
    BY <1>4 DEF MntNewPath, MountNewPath
  <2> HIDE DEF entry
  <2>5. /\ DOMAIN mounts = DOMAIN mount_map \cup {next_mount} /\ mounts[next_mount] = entry
        /\ \A i \in DOMAIN mount_map : mounts[i] = mount_map[i]
    BY <2>1 DEF Insert
  <2>6. WellTyped(mounts) /\ Agree(mounts, client_mounts)
    <3>1. WellTyped(mounts)
      BY <1>2, <2>1, <2>3 DEF WellTyped, Insert
    <3>2. Agree(mounts, client_mounts)
      BY <1>2, <2>1, <2>3, <2>5 DEF Agree
    <3> QED
      BY <3>1, <3>2
  <2> HIDE DEF mounts
  <2>7. \A i \in DOMAIN mount_map : mount_map[i].windows_path = Canonical[p] => p # Canonical[p]
    BY <2>2 DEF FindWindows, IInv, LookupsLead
  <2>8. OnePerLocation(mounts)
    BY <2>2, <2>3, <2>5, <2>7 DEF OneAcrossRestart, OnePerLocation
  <2> QED
    BY <1>1, <1>2, <2>4, <2>5, <2>6, <2>8, SendersKeepOne DEF OneAcrossRestart
<1>5. CASE MntNoEntry(q, p)
  BY <1>1, <1>5 DEF MntNoEntry, MountNoEntry, OneAcrossRestart
<1> QED
  BY <1>3, <1>4, <1>5 DEF Mnt

\* The file has the paths of the table it was saved from, and no others are restored.
LEMMA RestoreKeepsOne ==
  ASSUME IInv, OneAcrossRestart, Restore
  PROVE  OneAcrossRestart'
<1>1. kept' = kept
  BY DEF Restore, files
<1>2. ASSUME NEW i \in Live
      PROVE  i \in DOMAIN kept.mounts /\ saved.paths[i] = kept.mounts[i].windows_path
  BY DEF Live, IInv, SaveCoherent, KeptImage, Image, NoCache, NoMounts
<1>3. ASSUME NEW i \in Live
      PROVE  mount_map'[i].windows_path = kept.mounts[i].windows_path
  <2>1. saved.paths[i] \in Location
    BY DEF Live, IInv, TypeOK, IsImage
  <2> QED
    BY <1>2, <2>1, RestoredTable, DiskAssumption
<1>4. DOMAIN mount_map' = Live
  BY RestoredTable
<1> QED
  BY <1>1, <1>2, <1>3, <1>4 DEF OneAcrossRestart, OnePerLocation

\* However often a directory is asked for, under whatever queries and across saves, crashes
\* and restarts, it has one entry, unless it has more than one spelling
\* (mount_cache.cpp:47-63, 117-158).
THEOREM OneEntry == Spec => []OneEntryPerLocation
<1>1. Init => OneAcrossRestart
  BY DEF Init, OneAcrossRestart, OnePerLocation, NoMounts
<1>2. IInv /\ OneAcrossRestart /\ [Next]_vars => OneAcrossRestart'
  <2> SUFFICES ASSUME IInv, OneAcrossRestart, [Next]_vars PROVE OneAcrossRestart'
    OBVIOUS
  <2>1. CASE UNCHANGED <<mount_map, kept>>
    BY <2>1 DEF OneAcrossRestart
  <2>2. CASE StoreSnapshot
    <3>1. mount_map' = mount_map /\ kept'.mounts = mount_map
      BY <2>2 DEF StoreSnapshot, tables
    <3> QED
      BY <3>1 DEF OneAcrossRestart
  <2>3. CASE Stop
    BY <2>3 DEF Stop, NoMounts, OneAcrossRestart, OnePerLocation
  <2> QED
    BY <2>1, <2>2, <2>3, MntKeepsOne, RestoreKeepsOne
       DEF Next, Unmount, StoreWrite, vars, tables, files
<1>3. OneAcrossRestart => OneEntryPerLocation
  BY DEF OneAcrossRestart, OnePerLocation, OneEntryPerLocation
<1> QED
  BY <1>1, <1>2, <1>3, Invariant, PTL DEF Spec

-----------------------------------------------------------------------------
(* Answers do not change while the process lives. *)

Stable ==
  /\ \A i \in DOMAIN mount_map :
       /\ i \in DOMAIN mount_map'
       /\ mount_map'[i].filehandle = mount_map[i].filehandle
       /\ mount_map[i].clients \subseteq mount_map'[i].clients
  /\ \A q \in Query : query_map[q] # End => query_map'[q] = query_map[q]

\* What a MNT call does to an entry that exists.
LEMMA MntStable ==
  ASSUME IInv, NEW c \in Client, NEW q \in Query, NEW p, Mnt(c, q, p)
  PROVE  Stable
<1>1. WellTyped(mount_map) /\ Agree(mount_map, client_mounts)
  BY DEF IInv, TypeOK, ClientsAgree, WellTyped, Agree
<1>2. CASE MntKnownQuery(c, q)
  <2>1. FindQuery(q) \in DOMAIN mount_map
    BY <1>2 DEF MntKnownQuery, FindQuery, IInv, LookupsLead
  <2>2. SameButClients(mount_map', mount_map)
    BY <1>1, <1>2, <2>1, MountSenderTable DEF MntKnownQuery, IInv, TypeOK
  <2>3. QED
    BY <1>2, <2>2 DEF MntKnownQuery, Stable, SameButClients
<1>3. CASE MntKnownPath(c, q, p)
  <2>1. FindWindows(p) \in DOMAIN mount_map
    BY <1>3 DEF MntKnownPath, MountKnownPath, FindWindows, IInv, LookupsLead
  <2>2. SameButClients(mount_map', mount_map)
    BY <1>1, <1>3, <2>1, MountSenderTable DEF MntKnownPath, MountKnownPath, IInv, TypeOK
  <2>3. \A r \in Query : query_map[r] # End => query_map'[r] = query_map[r]
    BY <1>3 DEF MntKnownPath, MountKnownPath, FindQuery, IInv, TypeOK
  <2>4. QED
    BY <2>2, <2>3 DEF Stable, SameButClients
<1>4. CASE MntNewPath(c, q, p)
  <2> DEFINE entry == NewEntry(next_mount, p)
             mounts == Insert(next_mount, entry)
  <2>1. next_mount \in Id /\ next_mount \notin DOMAIN mount_map
    BY <1>4, MaxIdAssumption DEF MntNewPath, MountNewPath, IInv, TypeOK, IdsSpent, Id
  <2>2. entry \in Entry /\ entry.clients = {}
    BY <1>4, <2>1, NewEntryType DEF MntNewPath, MountNewPath, IInv, TypeOK, NewEntry
  <2> HIDE DEF entry
  <2>3. /\ DOMAIN mounts = DOMAIN mount_map \cup {next_mount}
        /\ mounts[next_mount] = entry
        /\ \A i \in DOMAIN mount_map : mounts[i] = mount_map[i]
        /\ WellTyped(mounts)
    BY <2>1, <2>2 DEF Insert, WellTyped, IInv, TypeOK
  <2>4. Agree(mounts, client_mounts)
    BY <2>1, <2>2, <2>3 DEF Agree, IInv, ClientsAgree
  <2>5. MountSender(c, next_mount, mounts)
    BY <1>4 DEF MntNewPath, MountNewPath, entry
  <2> HIDE DEF mounts
  <2>6. SameButClients(mount_map', mounts)
    BY <2>3, <2>4, <2>5, MountSenderTable DEF IInv, TypeOK
  <2>7. \A r \in Query : query_map[r] # End => query_map'[r] = query_map[r]
    BY <1>4 DEF MntNewPath, MountNewPath, FindQuery, IInv, TypeOK
  <2>8. QED
    BY <2>3, <2>6, <2>7 DEF Stable, SameButClients
<1>5. CASE MntNoEntry(q, p)
  BY <1>5 DEF MntNoEntry, MountNoEntry, Stable
<1>6. QED
  BY <1>2, <1>3, <1>4, <1>5 DEF Mnt

\* No step of a living process withdraws an entry, an answer or a registration.
LEMMA StepStable ==
  ASSUME IInv, [Next]_vars, running, phase' # "off"
  PROVE  Stable
<1>1. ASSUME NEW c \in Client, NEW q \in Query, NEW p, Mnt(c, q, p)
      PROVE  Stable
  BY <1>1, MntStable
<1>2. CASE UNCHANGED tables
  BY <1>2 DEF tables, Stable
<1>3. CASE Stop \/ Restore
  BY <1>3 DEF Stop, Restore, running
<1>4. QED
  BY <1>1, <1>2, <1>3 DEF Next, Unmount, StoreSnapshot, StoreWrite, vars

(***************************************************************************)
(* A handle, an answer and a registration, once given, stay until the      *)
(* process ends.                                                           *)
(***************************************************************************)
THEOREM AnswersStay == Spec => AnswersStable
<1>1. IInv /\ [Next]_vars =>
        [running /\ phase' # "off" =>
          /\ \A i \in DOMAIN mount_map :
               /\ i \in DOMAIN mount_map'
               /\ mount_map'[i].filehandle = mount_map[i].filehandle
               /\ mount_map[i].clients \subseteq mount_map'[i].clients
          /\ \A q \in Query : query_map[q] # End => query_map'[q] = query_map[q]]_vars
  BY StepStable DEF Stable
<1>2. QED
  BY <1>1, Invariant, PTL DEF Spec, AnswersStable

\* What safe_restore reopens at its old place is the entry that was saved, and
\* it makes no entry that was not saved.
LEMMA RestoreKeeps ==
  ASSUME IInv, Restore, saved # NoCache
  PROVE  /\ DOMAIN mount_map' \subseteq DOMAIN kept.mounts
         /\ \A i \in DOMAIN kept.mounts : StillThere(i) =>
              /\ i \in DOMAIN mount_map'
              /\ mount_map'[i] = kept.mounts[i]
         /\ \A q \in Query : kept.queries[q] \in DOMAIN mount_map' =>
              query_map'[q] = kept.queries[q]
<1>1. saved = KeptImage
  BY DEF IInv, SaveCoherent
<1>2. /\ DOMAIN saved.paths = DOMAIN kept.mounts
      /\ \A i \in DOMAIN kept.mounts : saved.paths[i] = kept.mounts[i].windows_path
      /\ saved.queries = kept.queries
      /\ \A c \in Client : saved.clients[c] = {i \in DOMAIN kept.mounts : c \in kept.mounts[i].clients}
  BY <1>1 DEF KeptImage, Image
<1>3. ASSUME NEW i \in DOMAIN kept.mounts, StillThere(i)
      PROVE  i \in DOMAIN mount_map' /\ mount_map'[i] = kept.mounts[i]
  <2>1. /\ kept.mounts[i] \in Entry
        /\ kept.mounts[i].filehandle.mount_id = i
    BY DEF IInv, SaveCoherent
  <2>2. /\ saved.paths[i] \in Location
        /\ Canonical[saved.paths[i]] = saved.paths[i]
        /\ saved.paths[i] = kept.mounts[i].windows_path
        /\ disk[saved.paths[i]] = kept.mounts[i].filehandle.volume_file_id
    BY <1>2, <1>3, <2>1, DiskAssumption DEF Entry, StillThere
  <2>3. i \in Live
    BY <1>2, <2>1, <2>2, DiskAssumption DEF Live, Opens, Entry, Handle
  <2>4. SavedClients(i) = kept.mounts[i].clients
    BY <1>2, <2>1 DEF SavedClients, Entry
  <2>5. /\ mount_map'[i] \in Entry
        /\ mount_map'[i].filehandle.mount_id = kept.mounts[i].filehandle.mount_id
        /\ mount_map'[i].filehandle.volume_file_id = kept.mounts[i].filehandle.volume_file_id
        /\ mount_map'[i].windows_path = kept.mounts[i].windows_path
        /\ mount_map'[i].clients = kept.mounts[i].clients
    BY <2>1, <2>2, <2>3, <2>4, RestoredTable
  <2>6. mount_map'[i] = kept.mounts[i]
    BY <2>1, <2>5 DEF Entry, Handle
  <2>7. QED
    BY <2>3, <2>6, RestoredTable
<1>4. DOMAIN mount_map' \subseteq DOMAIN kept.mounts
  BY <1>2, RestoredTable DEF Live
<1>5. \A q \in Query : kept.queries[q] \in DOMAIN mount_map' => query_map'[q] = kept.queries[q]
  BY <1>2, RestoredTable DEF Restore, Live
<1>6. QED
  BY <1>3, <1>4, <1>5

\* Restarting from a completed cache file brings back, unchanged, every mount
\* whose directory is where it was (safe_save, safe_restore).
THEOREM RestoreIsFaithful == Spec => RestoreFaithful
<1>1. IInv /\ [Next]_vars =>
        [phase = "off" /\ phase' = "serving" /\ saved # NoCache =>
          /\ DOMAIN mount_map' \subseteq DOMAIN kept.mounts
          /\ \A i \in DOMAIN kept.mounts : StillThere(i) =>
               /\ i \in DOMAIN mount_map'
               /\ mount_map'[i] = kept.mounts[i]
          /\ \A q \in Query : kept.queries[q] \in DOMAIN mount_map' =>
               query_map'[q] = kept.queries[q]]_vars
  <2> SUFFICES ASSUME IInv, Next, phase = "off", phase' = "serving", saved # NoCache
               PROVE  Restore
    BY RestoreKeeps
  <2>1. ~running /\ phase # phase' /\ phase # "serving" /\ phase # "storing"
    BY DEF running
  <2>2. QED
    BY <2>1 DEF Next, Mnt, MntKnownQuery, MntKnownPath, MountKnownPath, MntNewPath, MountNewPath,
                MntNoEntry, MountNoEntry, Unmount, StoreSnapshot, StoreWrite, Stop
<1>2. QED
  BY <1>1, Invariant, PTL DEF Spec, RestoreFaithful

-----------------------------------------------------------------------------
(* MountCache implements MountTable. *)

\* The state functions of the refinement, as in the INSTANCE of MountTable.
Handles == {HandleOf(i) : i \in DOMAIN mount_map}
Answers == {<<q, HandleOf(query_map[q])>> : q \in {r \in Query : query_map[r] # End}}
Granted == UNION {{<<c, HandleOf(i)>> : c \in mount_map[i].clients} : i \in DOMAIN mount_map}

\* The tables, seen as handles, answers and grants, are a consistent mount table.
LEMMA MappedState ==
  ASSUME IInv
  PROVE  Table!Consistent
<1>1. /\ \A i \in DOMAIN mount_map : /\ mount_map[i] \in Entry
                                     /\ HandleOf(i) \in Handle
                                     /\ HandleOf(i).mount_id = i
      /\ \A q \in Query : query_map[q] # End => query_map[q] \in DOMAIN mount_map
  BY DEF IInv, TypeOK, IdsSpent, LookupsLead, HandleOf, Entry
<1>2. Handles \subseteq Handle /\ \A g, h \in Handles : g.mount_id = h.mount_id => g = h
  BY <1>1 DEF Handles
<1>3. Answers \subseteq Query \X Handles /\ \A a, b \in Answers : a[1] = b[1] => a = b
  BY <1>1 DEF Answers, Handles
<1>4. Granted \subseteq Client \X Handles
  BY <1>1 DEF Granted, Handles, Entry
<1>5. QED
  BY <1>2, <1>3, <1>4 DEF Table!Consistent, Handles, Answers, Granted

\* A successful MNT call that leads query q to mount id grants its handle.
LEMMA GrantStep ==
  ASSUME IInv, IInv', NEW c \in Client, NEW q \in Query, NEW id \in Id,
         running, running',
         DOMAIN mount_map' = DOMAIN mount_map \cup {id},
         \A i \in DOMAIN mount_map : mount_map'[i].filehandle = mount_map[i].filehandle,
         \A i \in DOMAIN mount_map : mount_map'[i].clients =
           IF i = id THEN mount_map[i].clients \cup {c} ELSE mount_map[i].clients,
         id \notin DOMAIN mount_map => mount_map'[id].clients = {c},
         query_map[q] \in {End, id},
         query_map' = [query_map EXCEPT ![q] = id]
  PROVE  \E h \in Handle : Table!Grant(c, q, h)
<1>0. PICK h \in Handle : h = mount_map'[id].filehandle
  BY DEF IInv, TypeOK, Entry
<1>1. /\ \A i \in DOMAIN mount_map : HandleOf(i).mount_id = i
      /\ \A i \in DOMAIN mount_map' : HandleOf(i)' = mount_map'[i].filehandle
      /\ \A i \in DOMAIN mount_map : HandleOf(i)' = HandleOf(i)
      /\ h \in Handle /\ h.mount_id = id /\ HandleOf(id)' = h
      /\ id # End
  BY <1>0, MaxIdAssumption DEF IInv, TypeOK, IdsSpent, HandleOf, Entry, Id, End
<1>2. \A r \in Query : query_map[r] # End => query_map[r] \in DOMAIN mount_map
  BY DEF IInv, LookupsLead
<1>3. query_map \in [Query -> Id \cup {End}]
  BY DEF IInv, TypeOK
<1>4. Handles' = Handles \cup {h}
  BY <1>1 DEF Handles
<1>5. Answers' = Answers \cup {<<q, h>>}
  <2>1. \A r \in Query : query_map'[r] = IF r = q THEN id ELSE query_map[r]
    BY <1>3
  <2>2. ASSUME NEW a \in Answers' PROVE a \in Answers \cup {<<q, h>>}
    <3>1. PICK r \in Query : query_map'[r] # End /\ a = <<r, HandleOf(query_map[r])'>>
      BY <2>2 DEF Answers
    <3>2. CASE r = q
      BY <3>1, <3>2, <2>1, <1>1 DEF HandleOf
    <3>3. CASE r # q
      BY <3>1, <3>3, <2>1, <1>1, <1>2 DEF Answers, HandleOf
    <3>4. QED
      BY <3>2, <3>3
  <2>3. ASSUME NEW a \in Answers PROVE a \in Answers'
    <3>1. PICK r \in Query : query_map[r] # End /\ a = <<r, HandleOf(query_map[r])>>
      BY <2>3 DEF Answers
    <3>2. query_map'[r] = query_map[r]
      BY <3>1, <2>1
    <3>3. a = <<r, HandleOf(query_map[r])'>> /\ query_map'[r] # End
      BY <3>1, <3>2, <1>1, <1>2 DEF HandleOf
    <3>4. QED
      BY <3>3 DEF Answers
  <2>4. <<q, h>> \in Answers'
    <3>1. query_map'[q] # End /\ <<q, h>> = <<q, HandleOf(query_map[q])'>>
      BY <2>1, <1>1 DEF HandleOf
    <3>2. QED
      BY <3>1 DEF Answers
  <2>5. QED
    BY <2>2, <2>3, <2>4
<1>6. Granted' = Granted \cup {<<c, h>>}
  <2>1. \A g : g \in Granted <=>
               \E i \in DOMAIN mount_map : \E d \in mount_map[i].clients : g = <<d, HandleOf(i)>>
    BY DEF Granted
  <2>2. \A g : g \in Granted' <=>
               \E i \in DOMAIN mount_map' : \E d \in mount_map'[i].clients : g = <<d, HandleOf(i)'>>
    BY DEF Granted
  <2>3. ASSUME NEW g \in Granted' PROVE g \in Granted \cup {<<c, h>>}
    <3>0. PICK i \in DOMAIN mount_map' : \E d \in mount_map'[i].clients : g = <<d, HandleOf(i)'>>
      BY <2>2
    <3>1. PICK d \in mount_map'[i].clients : g = <<d, HandleOf(i)'>>
      BY <3>0
    <3>2. CASE i \in DOMAIN mount_map /\ d \in mount_map[i].clients
      BY <3>1, <3>2, <2>1, <1>1
    <3>3. CASE ~(i \in DOMAIN mount_map /\ d \in mount_map[i].clients)
      <4>1. i = id /\ d = c
        BY <3>1, <3>3
      <4>2. QED
        BY <4>1, <3>1, <1>1
    <3>4. QED
      BY <3>2, <3>3
  <2>4. ASSUME NEW g \in Granted PROVE g \in Granted'
    <3>0. PICK i \in DOMAIN mount_map : \E d \in mount_map[i].clients : g = <<d, HandleOf(i)>>
      BY <2>1
    <3>1. PICK d \in mount_map[i].clients : g = <<d, HandleOf(i)>>
      BY <3>0
    <3>2. i \in DOMAIN mount_map' /\ d \in mount_map'[i].clients /\ g = <<d, HandleOf(i)'>>
      BY <3>1, <1>1
    <3>3. QED
      BY <3>2, <2>2
  <2>5. <<c, h>> \in Granted'
    <3>1. id \in DOMAIN mount_map' /\ c \in mount_map'[id].clients
      OBVIOUS
    <3>2. QED
      BY <3>1, <2>2, <1>1
  <2>6. QED
    BY <2>3, <2>4, <2>5
<1>7. Table!Known(q, h) \/ (Table!Unanswered(q) /\ Table!Usable(h))
  <2>1. CASE query_map[q] = id
    <3>1. <<q, h>> \in Answers
      BY <2>1, <1>1, <1>2 DEF Answers
    <3>2. QED
      BY <3>1 DEF Table!Known, Answers
  <2>2. CASE query_map[q] = End
    <3>1. \A a \in Answers : a[1] # q
      BY <2>2 DEF Answers
    <3>2. h \in Handles \/ \A g \in Handles : g.mount_id # h.mount_id
      BY <1>1 DEF Handles
    <3>3. QED
      BY <3>1, <3>2 DEF Table!Unanswered, Table!Usable, Answers, Handles
  <2>3. QED
    BY <2>1, <2>2
<1>8. Table!Grant(c, q, h)
  <2>1. running' = running
    BY DEF running
  <2>2. QED
    BY <2>1, <1>4, <1>5, <1>6, <1>7 DEF Table!Grant, Handles, Answers, Granted
<1>9. QED
  BY <1>1, <1>8

\* A MNT call grants a handle of the abstract table, or leaves it as it is.
LEMMA MntGrants ==
  ASSUME IInv, IInv', NEW c \in Client, NEW q \in Query, NEW p, Mnt(c, q, p)
  PROVE  (\E h \in Handle : Table!Grant(c, q, h)) \/ UNCHANGED Table!vars
<1>0. WellTyped(mount_map) /\ Agree(mount_map, client_mounts)
  BY DEF IInv, TypeOK, ClientsAgree, WellTyped, Agree
<1>1. CASE MntKnownQuery(c, q)
  <2> DEFINE id == query_map[q]
  <2>1. id \in DOMAIN mount_map /\ id \in Id /\ running /\ running'
    BY <1>1 DEF MntKnownQuery, FindQuery, IInv, TypeOK, LookupsLead, running
  <2>2. /\ SameButClients(mount_map', mount_map)
        /\ Added(mount_map', mount_map, id, c)
    BY <1>0, <1>1, <2>1, MountSenderTable DEF MntKnownQuery, FindQuery, IInv, TypeOK
  <2>3. query_map' = [query_map EXCEPT ![q] = id]
    BY <1>1 DEF MntKnownQuery, IInv, TypeOK
  <2> HIDE DEF id
  <2>4. query_map[q] \in {End, id}
    BY DEF id
  <2>5. /\ DOMAIN mount_map' = DOMAIN mount_map \cup {id}
        /\ \A i \in DOMAIN mount_map : mount_map'[i].filehandle = mount_map[i].filehandle
        /\ \A i \in DOMAIN mount_map : mount_map'[i].clients =
             IF i = id THEN mount_map[i].clients \cup {c} ELSE mount_map[i].clients
    BY <2>1, <2>2 DEF SameButClients, Added
  <2>6. QED
    BY <2>1, <2>3, <2>4, <2>5, GrantStep
<1>2. CASE MntKnownPath(c, q, p)
  <2> DEFINE id == FindWindows(p)
  <2>1. id \in DOMAIN mount_map /\ id \in Id /\ running /\ running'
    BY <1>2 DEF MntKnownPath, MountKnownPath, FindWindows, IInv, TypeOK, LookupsLead, running
  <2>2. /\ SameButClients(mount_map', mount_map)
        /\ Added(mount_map', mount_map, id, c)
    BY <1>0, <1>2, <2>1, MountSenderTable DEF MntKnownPath, MountKnownPath, IInv, TypeOK
  <2>3. query_map' = [query_map EXCEPT ![q] = id] /\ query_map[q] \in {End, id}
    BY <1>2 DEF MntKnownPath, MountKnownPath, FindQuery
  <2> HIDE DEF id
  <2>4. /\ DOMAIN mount_map' = DOMAIN mount_map \cup {id}
        /\ \A i \in DOMAIN mount_map : mount_map'[i].filehandle = mount_map[i].filehandle
        /\ \A i \in DOMAIN mount_map : mount_map'[i].clients =
             IF i = id THEN mount_map[i].clients \cup {c} ELSE mount_map[i].clients
    BY <2>1, <2>2 DEF SameButClients, Added
  <2>5. QED
    BY <2>1, <2>3, <2>4, GrantStep
<1>3. CASE MntNewPath(c, q, p)
  <2> DEFINE id == next_mount
             entry == NewEntry(id, p)
             mounts == Insert(id, entry)
  <2>1. id \in Id /\ id \notin DOMAIN mount_map /\ running /\ running'
    BY <1>3, MaxIdAssumption DEF MntNewPath, MountNewPath, IInv, TypeOK, IdsSpent, Id, running
  <2>2. entry \in Entry /\ entry.clients = {}
    BY <1>3, <2>1, NewEntryType DEF MntNewPath, MountNewPath, IInv, TypeOK, NewEntry
  <2> HIDE DEF entry
  <2>3. /\ DOMAIN mounts = DOMAIN mount_map \cup {id}
        /\ mounts[id] = entry
        /\ \A i \in DOMAIN mount_map : mounts[i] = mount_map[i]
        /\ WellTyped(mounts)
    BY <2>1, <2>2 DEF Insert, WellTyped, IInv, TypeOK
  <2>4. Agree(mounts, client_mounts)
    BY <2>1, <2>2, <2>3 DEF Agree, IInv, ClientsAgree
  <2>5. MountSender(c, id, mounts)
    BY <1>3 DEF MntNewPath, MountNewPath, entry
  <2> HIDE DEF mounts
  <2>6. SameButClients(mount_map', mounts) /\ Added(mount_map', mounts, id, c)
    BY <2>3, <2>4, <2>5, MountSenderTable DEF IInv, TypeOK
  <2>7. query_map' = [query_map EXCEPT ![q] = id] /\ query_map[q] \in {End, id}
    BY <1>3 DEF MntNewPath, MountNewPath, FindQuery
  <2> HIDE DEF id
  <2>8. /\ DOMAIN mount_map' = DOMAIN mount_map \cup {id}
        /\ \A i \in DOMAIN mount_map : mount_map'[i].filehandle = mount_map[i].filehandle
        /\ \A i \in DOMAIN mount_map : mount_map'[i].clients =
             IF i = id THEN mount_map[i].clients \cup {c} ELSE mount_map[i].clients
        /\ mount_map'[id].clients = {c}
    BY <2>1, <2>2, <2>3, <2>6 DEF SameButClients, Added
  <2>9. QED
    BY <2>1, <2>7, <2>8, GrantStep
<1>4. CASE MntNoEntry(q, p)
  BY <1>4 DEF MntNoEntry, MountNoEntry, Table!vars, HandleOf, running
<1>5. QED
  BY <1>1, <1>2, <1>3, <1>4 DEF Mnt

\* Every step of the mount table is a step of the abstract service or a stutter.
LEMMA StepRefines ==
  ASSUME IInv, IInv', [Next]_vars
  PROVE  [Table!Next]_(Table!vars)
<1>1. ASSUME NEW c \in Client, NEW q \in Query, NEW p, Mnt(c, q, p)
      PROVE  Table!Next \/ UNCHANGED Table!vars
  BY <1>1, MntGrants DEF Table!Next
<1>2. CASE UNCHANGED <<running, mount_map, query_map>>
  <2>1. /\ Handles' = Handles /\ Answers' = Answers /\ Granted' = Granted
        /\ running' = running
    BY <1>2 DEF Handles, Answers, Granted, HandleOf
  <2>2. QED
    BY <2>1 DEF Table!vars, Handles, Answers, Granted
<1>3. CASE Restore
  <2>1. running = FALSE /\ running' = TRUE
    BY <1>3 DEF Restore, running
  <2>2. Table!Consistent'
    BY MappedState, PTL
  <2>3. QED
    BY <2>1, <2>2 DEF Table!Next, Table!Up
<1>4. CASE Stop
  <2>1. running = TRUE /\ running' = FALSE
    BY <1>4 DEF Stop, running
  <2>2. Handles' = {} /\ Answers' = {} /\ Granted' = {}
    BY <1>4 DEF Stop, NoMounts, NoQueries, Handles, Answers, Granted
  <2>3. QED
    BY <2>1, <2>2 DEF Table!Next, Table!Down, Handles, Answers, Granted
<1>5. QED
  BY <1>1, <1>2, <1>3, <1>4 DEF Next, Unmount, StoreSnapshot, StoreWrite, vars, tables, running

(***************************************************************************)
(* The table of mounts implements the abstract mount service.              *)
(***************************************************************************)
THEOREM TableImplemented == Spec => ImplementsTable
<1>1. Init => Table!Init
  <2> SUFFICES ASSUME Init PROVE Table!Init
    OBVIOUS
  <2>1. running = FALSE /\ Handles = {} /\ Answers = {} /\ Granted = {}
    BY DEF Init, running, NoMounts, NoQueries, Handles, Answers, Granted
  <2>2. QED
    BY <2>1 DEF Table!Init, Handles, Answers, Granted
<1>2. IInv /\ IInv' /\ [Next]_vars => [Table!Next]_(Table!vars)
  BY StepRefines
<1>3. QED
  BY <1>1, <1>2, Invariant, PTL DEF Spec, Table!Spec, ImplementsTable

=============================================================================
