# WinNFSd++: models, model checks and proofs

WinNFSd++ is a user space NFS version 3 server for Windows. These TLA+ modules
model its own logic, TLC checks them on small instances, and TLAPS proves for every
instance the properties of the mount table and of the mount service over it, of calls on
names and on files, of the sockets and the framing of the servers, and of the reload of the
path file. Paths below are relative to the repository.

## 1. The system

One process (`cli/main.cpp`, `cli/cli.h`) with three RPC servers, each with a
UDP thread, a TCP accept thread and a TCP thread per connected host.

| Part | State | Operations | Talks to |
|---|---|---|---|
| program (`cli/cli.h`) | cache file, path file | run: read path file, restore cache, start servers, wait for `quit`, store cache | all |
| change notifier (`src/winfs/file_change_notifier.*`) | notification handle, `continue_waiting_`, a thread | start_watching, wait loop, destructor | calls back `path_config_file_syncer_t::read` |
| exports (`src/nfs/mount_aliases.*`) | `store_m`, `next_source_m`, a shared mutex | create_source, set, add, clear, resolve | opens directories |
| mount table (`src/nfs/mount_cache.*`) | `mount_map_m` and the maps that lead into it, `next_mount_m`, a shared mutex | mount_session, get, save, restore, unmount | opens directories |
| mount program (`src/nfs/mount.*`) | none of its own | MNT, UMNT, UMNTALL (DUMP and EXPORT are commented out) | mount table, exports |
| NFS program (`src/nfs/nfs3.*`) | a cookie verifier | the NFSv3 procedures, on files opened by id for each call | mount table (`get`), file system |
| portmap (`src/rpc/portmap.*`) | `store_m`, no lock | SET, UNSET, GETPORT | |
| router (`src/rpc/rpc_router.*`, `src/container/range_map.h`) | the table of procedures | add, handle | programs |
| RPC server (`src/server/rpc_server.cpp`, `src/network/*`) | two threads, a map of TCP sessions | start, accept, receive, stop | router |
| file system access (`src/winfs/*`) | open handles | open by path or id, read, write, enumerate, move, remove | Windows |

What is hard about it: calls of several threads meet in the mount table and the
exports; users move and remove directories while their handles are in use; the
path file is reloaded while calls resolve paths; mount ids are the meaning of
file handles that clients keep across restarts of the server, and a restart may
reopen only part of the table; UDP repeats and delays calls; TCP delivers a call
in pieces; a directory listing is a sequence of calls while the directory
changes. `PROJECT.json` lists the hazards one by one, at their lines.

What makes the parts correct:

- mount table: the maps agree with each other, a query keeps its answer, an id
  in use is not given to another mount, a restart gives back what was saved.
- exports: the longest alias on a folder boundary answers; a source replaces its
  own entries only.
- program: the cache file holds the table of one moment; a change of the path
  file is eventually read.
- sessions: each complete call gets its answer, in order, whatever the pieces; the
  answer goes to the caller, and stopping a session or a server comes to its end.
- router and portmap: the procedure that was added is the one called, with the
  arguments that were sent; a program has one port, that of its first registration.
- NFS: a call acts on what its handles name and says what it did; attributes told are
  those of one moment; a listing has each entry once, and ends.

## 2. Modules

| Module | Models |
|---|---|
| `Disk` | external: which directory is at which location; users move, remove and create directories at any time |
| `MountTable` | abstract: what a mount service promises to its clients |
| `MountCache` | the mount table with save, restore and crashes; extends `Disk`, implements `MountTable` |
| `MountAliases` | the exports; extends `Disk` |
| `MountServer` | MNT calls of several threads over `MountCache` and `MountAliases`, reloads, restarts; implements `MountCache` |
| `MountCacheProofs` | theorems about `MountCache` |
| `MountAliasesProofs` | theorems about `MountAliases` |
| `MountServerProofs` | theorems about `MountServer`, which use those about `MountCache` and `MountAliases`, and about `ConfigSync` |
| `ConfigSync` | the path file, the change notifier and its waiting thread, from construction to destruction |
| `RpcServer` | the threads and sockets of one server: accept, sessions, reconnects, UDP, destruction |
| `RpcServerProofs` | theorems about `RpcServer` |
| `TcpSession` | the receive loop and the framing of one TCP connection |
| `RpcRouter` | the readers of a call, the range map and the router: operators without state |
| `RpcServices` | calls from their words to the answer, for all three servers; the portmapper and the decoder of SETATTR; uses `RpcRouter`, implements `PortmapTable` |
| `PortmapTable` | abstract: what a portmapper promises |
| `RpcProofs` | theorems about `TcpSession` and `RpcServices` |
| `Nfs3Names` | LOOKUP, CREATE, MKDIR, REMOVE, RMDIR, RENAME, ACCESS and READLINK by several threads |
| `Nfs3NamesProofs` | theorems about `Nfs3Names` |
| `Nfs3ReadDir` | READDIR and READDIRPLUS, and a client that lists a changing directory page by page |
| `Nfs3Files` | GETATTR, SETATTR, READ and WRITE of one file by several threads |
| `Nfs3Proofs` | theorems about `Nfs3Files` and `Nfs3ReadDir` |
| `FoldFacts` | what folding any operator over a sequence computes, for the proofs |
| `MC...` | instances for TLC |

### MountCache

`mount_map`, `windows_map`, `query_map`, `client_mounts` and `next_mount` are the
members of `mount_cache_t`. An iterator into `mount_map_m` is the id it leads to,
and `end()` is 0. An entry's `directory` is an open handle: the model keeps the
directory it is open on (`volume_file_id`), wherever that moves. Paths are model
values; `Canonical` is what `fullpath()` reports of an opened path, so that two
spellings of one path differ as `find_windows` sees them and agree as entries are
filed.

| Action | Code |
|---|---|
| `MntKnownQuery` | `find_query` hits, `mount_sender` |
| `MntKnownPath` | `find_windows` hits, `mount_sender_query` |
| `MntNewPath`, `MntNoEntry` | `safe_mount`; the directory opens, or does not and the id is spent |
| `Unmount` | `safe_unmount`, `safe_unmount_client`: empty bodies |
| `StoreSnapshot`, `StoreWrite` | `store_cache`: `save()` and opening the stream, which truncates the file; then the write |
| `Stop` | the end of the process, at any point |
| `Restore` | `safe_restore` in a new process; any choice of the order in which the unordered map was written |

`snapshot`, `saved` and `phase` make the file explicit; `kept` is a history
variable with the tables at the last `save()`.

### MountAliases

Paths are sequences of characters here, because the lookup is about where a
prefix ends. `Scan` is the loop of `by_alias_path_safe` with `best_it` and
`best_length`; `LookupLongest` compares it with a definition of the entry that
ought to answer. `SetSafe` erases and adds like `set_aliases_safe`, line by line,
with the check of `add_safe` against the alias as given. `AliasesAssumption` says that paths
and aliases are made of characters, `Char`, and of the aliases `set` and `add` are given what
both assert of them: they are empty or start with a slash (`check_alias_path`).

### MountServer

A session holds the lock of the table, but the lock of the exports only inside
`resolve`. A MNT whose query is not known is therefore two steps, `MntResolve`
and `MntFinish`; the second acts on what the first has read and does not look
again. `Unlocked` is the free mutex. `ReadConfig` may happen at any time while
the process runs: a notifier calls back spuriously, and an editor writes a file in
several steps (`EditConfig` with any content). `quiet` is a history variable.

When such a read comes is the subject of `ConfigSync`. `NameAssumption` says that queries,
paths and the contents of the file are made of characters, `Char`, which is a set for the
proofs, and that the file gives no aliases, since the syncer sets each path with an empty one: the program computes paths nobody listed, by putting the rest of a query behind one.

### ConfigSync

`main` is where the main thread is in the constructors of
`path_config_file_syncer_t`, in `run` and in the destructor; `watcher` is where
`waiting_function` is. `request` is the state of the notification handle.

| Action | Code |
|---|---|
| `Construct` | `FindFirstChangeNotification`: a request is outstanding before the file is read first |
| `Read`, `Set` | `read()`: the file's lines, then `aliases_m.set`, for either thread |
| `start_watching` | `continue_waiting_` and the thread |
| `Ask` | the loop's condition and `FindNextChangeNotification` |
| `Notified`, `TimeOut`, `Fail` | what the wait of a second returns; `Fail` throws into the future |
| `Quit`, `EndWatching`, `Get` | the end of `run`, and the destructor: the flag, `waiting_future.get()`, closing the handle |

External: `Edit`, a step of an editor or a change of another file of the directory, and
what Windows remembers of changes. A change between two requests is kept for the next one;
`FindNext` leaves open whether a request made on top of an outstanding one, which is what
the code makes after each time-out, keeps what that one has seen. If it does not, `missed`
says so.

### RpcServer

`thread[h]` is the session thread of a host: `top` (about to read the handle), `enter`
(about to call `recv` with it), `recv`, `call`, `send`. A handle is a number in `table`, the
sockets of the process, and reading `handle_m` and using it are two steps (`Loop` and
`Enter`, `Answer` and `Send`): in between, another thread may close the socket, and the
system may give the number to another. `Given` lets it give out any number that a thread
still has in hand, and one that no thread has. `mixed` notes that it has given one of the
former, `misdirected` that an answer went to a connection that did not ask.

| Action | Code |
|---|---|
| `Accept`, `AcceptEnds` | `tcp_accept::loop` |
| `Find`, `AcceptStops`, `Start` | `start_tcp_session`: `stop` of the old session in three steps (close, reset, join), the swap, the new thread |
| `Loop`, `Enter`, `Receive`, `Wake`, `Drop`, `Answer`, `Send` | `tcp_receive::loop` with its callback |
| `Quit`, `NextSession`, `MainStops`, `StopListening` | the members of `impl` destroyed in reverse order |
| `UdpEnds` | `udp_receive::loop` |
| `Connect`, `OtherSocket` | external |

While the main thread destroys the session map the accept thread may be changing it. What
comes of that the language leaves undefined: at `Clash` both stop in the model, and
`StopsEnd` excepts it.

### RpcRouter and RpcServices

A message is a sequence of 32 bit words with small numbers in them. `BodySize` and the
offsets of `set_attr_reader_t` (`Offsets`) are computed as the readers compute them, from
the words; `Message` puts a call into words as RFC 1057 and RFC 1813 have it and is
external, as are the forms a call can have (`Call`) and the words that are not the arguments of
their procedure (`Strange`: too few, or without a handle). `SetAt` is `range_map_t::set` with `extend_start` as written, which leaves the
offset where it was; `Programs` are the tables the three `describe()` make, in their
order. `handle` is the way of `rpc_router_t::handle` to an answer or to a procedure;
`Run` has the procedures of the portmapper, NULL, and SETATTR as far as its arguments and
the size of the file go. `taken` is what a procedure understood, for `CallsUnderstood`.

Calls come one after the other. In the program several threads reach the portmapper's
vector at once without a lock; what two changes at once do to a `std::vector` is not
defined by the source.

### Nfs3Names

A call opens its directory by id (`Open`), asks for the path of the open directory
(`AskPath`), RENAME does both a second time, and then the call acts on the path: `Lookup`,
`Create`, `MkDir` with `MkDirHandle` (it opens the new directory again by name), `Delete`,
`Rename` or `ActFails`. `Checked` is what is said before that: not a directory, read
only, an unsupported way to create. Others run between any two steps. `place` says where
each object is, `fullpath` and `Resolve` go between objects and paths. External: a
directory does not move while something beneath it is open (`Movable`), names that are
taken stay taken, and any call of the system may fail.

Two failures the code does not look at are choices of their own. `fullpath` is the path of an
open directory (`PathTo`) or empty, for a directory that is there too: `winfs_test.cpp:38-57`
expects an empty path of a valid handle. The call then acts at `Root`, where the empty path
leads. `Identified` is the handle made from `id()`, which is of the new object or, if that
fails, of none.

History variables: `acted`, the call has changed the tree; `where`, the directories it has
acted in; `stale`, others moved or removed an object it goes by the path of, or removed a
directory it had open; `unnamed`, its directories for which the system gave no path although
they have one. `ActsWhereNamed` and `AccessKept` compare `where` with the directories the
handles name and with what ACCESS grants, and name `stale` and `unnamed` as the exceptions.

### TcpSession

A byte is `<<m, k>>`, the k-th byte of the m-th record, so that `Framed` can say
which bytes the buffer holds. `Receive` is `recv` with any number of bytes; the
callback of `start_tcp_session` runs once per receive and is one of `Drop` (not a
last fragment, or longer than 1 MB), `Wait` ("need more data") and `Handle`. Of a
record only its kind and length are kept: whether the router has an answer to it is
`call` or `noise`. The peer is external: it sends, keeps at most `window` calls
unanswered, closes its side, or the connection breaks.

### Nfs3ReadDir

A call is `Refuse`, `BadCookie` or `OpenDirectory`, then one step for each buffer the
file system gives (`Enumerate`), the last of which finds no room (`EnumerateFull`), no
more entries (`EnumerateEnd`) or an error (`EnumerateFails`). A buffer has the next
entries (`Buffers`), from one to `Chunk` of them: how many fit is up to the lengths of
their names. `result` is the result
of the procedure; `position` is its `fileCookie`. Sizes are computed as the code
does it (`DirCount`, `TotalCount`: with `sizeof` of the structures and unpadded
names) and as the encoder writes it (`WireSize`). External: the order of the
enumeration, which goes on after the last name given, and the client.
"." and ".." are entries like others.

`kept`, `seen` and `disturbed` are history variables: which entries a complete
listing must and may have, and whether the directory changed in a way the verifier
cannot show: at the time of an earlier change, or between the check of the verifier
and the end of the call.

### Nfs3Files

A call goes from `open` through the queries of its attributes (`basic`, `standard`),
its work and the attributes it reads at the end (`after`, `last`) back to `idle`;
others run between any two steps. Access and share modes are those of the
`by_id` calls, and `Sharable` is the rule by which Windows grants them. The size in
blocks stands for the data. Every system call may fail (`Fail`, `SetFails`,
`AfterFails`). `foreign` notes that another call changed the file while a thread
was between its attributes; `rewound` that a change gave the file an older time.

## 3. Runs

| Run | Instance | Shows |
|---|---|---|
| `cache` | 1 client, 2 queries, 2 locations, 3 paths (one location has two), 2 directories, ids 1..3 | `TypeOK`, `ClientsAgree`, `LookupsLead`, `IdsSpent`, `SaveCoherent`, `OneEntryPerLocation`, `RestoreFaithful`, `AnswersStable`, `ImplementsTable` |
| `aliases` | 2 sources, 6 files, nested and prefix-sharing directories, a drive's root, 10 queries | `TypeOK` (sources made so far, aliases made from paths are normalised), `LookupLongest`, `SourcesApart` |
| `server` | 2 threads (symmetric), 1 client, 2 queries (one an unusual spelling), 3 files, ids 1..2 | `TypeOK`, `QuietAnswers`, `ImplementsCache` |
| `sync` | 3 contents, 4 changes of the file | `SyncTypeOK` (one reader at a time, the handle outlives its thread), `UpToDate`, `Converges` |
| `rpcserver` | 2 hosts, 3 connections (two of one host), 4 handle values | `TypeOK` (no thread is started over one to join), `AnswerToCaller`, `NoSocketLost`, `StopsEnd` |
| `tcp` | 6 streams of up to 4 records of every kind, segments of up to 6 bytes, windows 1 and 2 | `TypeOK`, `Framed`, `CallsAnswered` |
| `rpc` | the program, version and procedure numbers in use and those next to them, credentials and verifiers of 0 to 3 words, 5 mappings, SETATTR with each field there or not, 5 registrations | `ServicesTypeOK` (one registration for a key), `CallsUnderstood`, `ImplementsPortmap` |
| `names` | 3 threads (symmetric), a tree of 5 directories, 3 names, 21 calls of every procedure, 3 calls in all | `TypeOK`, `ActsWhereNamed`, `OutcomeTold`, `AccessKept` |
| `listing` | 3 names of lengths 1, 5 and 4, both procedures, counts with room for one, two or all entries and one with room for the first entry but not for the second, up to 2 entries per buffer, 2 changes | `ListingTypeOK`, `ListingFaithful`, `ReplyFits`, `ListingEnds` |
| `files` | 2 threads (symmetric), calls of every kind, sizes up to 2 blocks, 3 changes | `TypeOK`, `NoTornRead`, `WriteWccOwn`, `AttrsCurrent` |

Runs in which TLC finds that the code does not keep what its own text says:

| Run | Property | What happens |
|---|---|---|
| `tcp_waits` | `WaitsForData` | a receive handles one record; a second complete one waits for more bytes to arrive |
| `rpc_size` | `SizeKept` | a SETATTR that sends a mode and no size sets the size all the same, from the words behind the missing one |

Bounds. Three ids are what a table needs for a restored mount, a mount that
failed to reopen and a new one; two queries and three paths give every pair of
lookups that hit and miss. Ids are bounded by `MaxId` in the guards of the two
actions that spend one; the code has no such limit. `MaxEntries` bounds the list
of exports for `Add` only, `MaxSource` the sources. In the `aliases` run a state
constraint keeps each directory at its own location: the exports see only whether
a path opens.

Every property has a mutant: a named variant of one definition, defined before it
and marked as such, under which TLC finds the property violated.

In `tcp` the lengths put the ends of records before, at and behind the end of a segment;
two calls at once are what it takes for one to hide behind the other. In `listing` three
entries are enough for a page that ends inside a buffer, one that ends between buffers
and one that is the last. One pair of counts has no room for the second entry: with it the
client may ask the same for ever, which is why `ListingEnds` is about pairs that have room for
each entry alone (`RoomForEach`). The second change is the one that comes at the same time as
the first. In `names` three calls are one that acts and two that move its directory away
and put another in its place; the tree has a directory two levels down, so that a
directory can move with and without what is beneath it. In `rpcserver` one host connects
twice, so that its old session is stopped while the other host's goes on; a handle value
is needed for each of three connections and one for another part of the process. In
`sync` a fourth change is one that meets the answer to the third. In `files` three
changes are the truncation and the write of a WRITE and one of another call.

Fairness. `RpcServer`: weak fairness of each session thread, of the accept thread, of the
UDP thread and of the main thread while it destroys the server, because the system runs
every thread that can run; what peers send (`Hears`, `Connect`), a failing `accept`
and the `quit` of the user have none. `ConfigSync`: weak fairness of the main thread but
for `quit`, and of the waiting thread, whose wait ends after a second at the latest; edits
and failures have none. `TcpSession`: weak fairness of the session thread, which the system
schedules and whose `recv` returns what has arrived. `Nfs3ReadDir`: weak fairness of
the client's call and of the server's thread, and strong fairness of receiving,
because answers get lost but not each of them. The peers of `TcpSession` and the
users of the machine have none. The other modules have safety properties only.

## 4. Theorems

`MountCacheProofs` proves for every set of clients, queries and paths and every
bound on ids, from `DiskAssumption` (normal paths are paths, and are their own
normal form) and `MaxIdAssumption`:

- `TypeCorrect`: `TypeOK`.
- `ClientsAlwaysAgree`, `LookupsAlwaysLead`, `NextAboveAllIds`, `SavesCoherent`: `ClientsAgree`,
  `LookupsLead`, `IdsSpent` and `SaveCoherent`. `IdsSpent` is about the ids of the table, of
  the cache file and of the image being written. An id given after the last save before a
  crash, or that of a mount which a restart dropped and a later save left out, is in none
  of these, and the code may give it again after a restart.
- `AnswersStay`, `RestoreIsFaithful`: the action properties.
- `OneEntry`: `OneEntryPerLocation`, which holds of the table and of the table of the last
  save together (`OneAcrossRestart`), because a restart brings the second back as the first.
- `TableImplemented`: `MountCache` implements `MountTable`.

The inductive invariant `IInv` is the conjunction of these five. None of them is inductive alone: restoring is correct because the file is an
image of one moment (`SaveCoherent`) whose clients and mounts agreed
(`ClientsAgree`), new ids are in use nowhere because `next_mount_m` is above all ids in the
table and in the file (`IdsSpent`), and inserting by path needs lookups to lead
to entries of that path (`LookupsLead`). There is one lemma per action. The
refinement proof maps handles, answers and grants and shows that every MNT call
is a `Grant` or a stutter, `Restore` is `Up` and `Stop` is `Down`.

`MountAliasesProofs` proves for any directories, any pairs that are set or added, any number of
sources and any queries, from `DiskAssumption` and `AliasesAssumption`:

- `TypeCorrect`: `TypeOK`.
- `LookupsLongest`: `LookupLongest`.
- `SourcesStayApart`: `SourcesApart`. The program has one source that sets a list; this is about
  any number of them, with `add`, too.

Its inductive invariant types the list by the sources made so far (`Made`), so that a new
source widens the type. The entries a source leaves behind when it sets or clears are a fold over
the list, and what it adds a fold over its pairs (`ErasedApart`, `SetApart`): along each, the
entries of another source stay as they are. `ScanFinds` says by induction along the loop what
`best_it` and `best_length` are after each entry; `WholeFolders` that `Matches` is to be a
prefix that ends with a folder. `MadeAlias` follows `windows_to_alias_path`.

`MountServerProofs` proves for any threads, clients, queries, paths and contents of the
file, from `NameAssumption` and `DiskAssumption`:

- `CacheImplemented`: `ImplementsCache`. A MNT in two steps, with the exports reloaded and
  directories moved in between, is one call of `MountCache`. Inductive for it is `SessionInv`:
  at most one call is in a session, the process runs, and the query it has missed is still
  missing. This is what the lock of the table buys, and what `Unlocked` in the guards keeps.
- `TypeCorrect`: `TypeOK`.
- `LookupsLongest`: `LookupLongest` of `MountAliases`, for the exports of the running
  server.
- `QuietCorrect`: `QuietAnswers`.
- `ServiceImplemented`: the server implements `MountTable`, the two refinements after each other.

What holds of the table of the server is what `MountCacheProofs` proves of `MountCache`
(`TableInvariant`, by `CacheImplemented`), and what `MountAliasesProofs` proves of lists and
lookups holds of its exports (`ExportsAssumption`, `SameExports`). They are one fold over the
lines of the file, which gives the list of that file and disk whatever was listed before
(`LoadedAgain`), since no other source adds.
`QuietAnswers` alone is not inductive. `QuietParts` adds, as long as neither file nor disk
has changed, that the list is what the file says, if it has been read (`AsFile`); that a call
in a session carries the path its query resolves to; that mounted directories stand where
their entries say; and that the image of the last save, on disk or still to be written,
leads each query where the exports do, so that a restart answers like the process before it.

Of `ConfigSync` the same module proves for any contents and any number of changes, from
`ConfigSyncAssumption` (`Unread` is no content):

- `SyncTypeCorrect`: `SyncTypeOK`, with which one thread reads the file at a time and the
  handle is closed after its last use.
- `ExportsUpToDate`: `UpToDate`.

Its inductive invariant adds to `UpToDate` that a content which has been read and not yet
set is the file as it is unless a notification is due (`ReadUpToDate`), and that the
waiting thread is not there before it is started (`Quiescent`). It holds because a request
is outstanding from before the first read on, and a thread reads after it has taken a
notification, so that a change in between is due again.

`RpcProofs` proves of `TcpSession`, for any stream of records, any window of the peer and any size of a
receive, from `StreamAssumption` and `WindowAssumption`:

- `TypeCorrect`: `TypeOK`.
- `AlwaysFramed`: `Framed`.

`Framed` becomes inductive with `LostIsGone` (a broken connection has nothing on the
way) and `SomethingReceived` (the callback is called with bytes in the buffer, which is
why it gets to a decision). Its core is that bytes determine where a record ends:
of records joined, the first is read off the header in front (`JoinedFirst`, `FirstInBuffer`),
and the rest joins the records after it (`FrontAndRest`).

Of `RpcServices` it proves, for any set of calls with any numbers in them, from
`ServicesAssumption` (the calls have the form of `Call`, words that are no arguments are
`Strange`, the portmapper is not sent attributes, and the bound has room for the
registrations of the program itself):

- `ServicesTypeCorrect`: `ServicesTypeOK`, with which no key is registered twice.
- `CallsAreUnderstood`: `CallsUnderstood`.
- `PortmapImplemented`: `ImplementsPortmap`.

The tables that `describe()` makes are folds of `SetAt`; what they give for every number is
proved once for any list of procedures in ascending order (`TableIs`, `TableReads`) and
then read off the three lists, the gap of the mount program and the procedures without a
callback included (`AllOffered`). `BodyDivided` takes the words of a call apart whatever
the sizes of its credential and verifier are, and `Understood` puts both together: the router's
decision is that of the header (`Heard`). For the decoder of SETATTR, `Reads` says what is left
behind an offset; each field (`FieldRead`) and time (`TimeRead`) moves it to the next one,
sent or not, and `ShortArguments` bounds what passes as arguments from below. `CallDone`
says what one call does, and `CallsUnderstood` follows from it without an invariant.
The types need that the registrations are a list without two of one key (`Once`); with it
the list is a table (`Ports`), and `SetInTable`, `UnsetInTable` and `FoundPort` turn what the
procedures do to the list into what the abstract portmapper does to the table.

`FoldFacts` is about no part of the program: it says that `FoldLeft` of any operator goes
through the steps one expects (`FoldSteps`), keeps what each step keeps (`FoldInvariant`), and
takes one more element by one more step (`FoldOneMore`). Inductions are over sets of numbers
there, by the least number that fails (`LeastNumber`), so that no theorem takes an operator.

`Nfs3Proofs` proves of `Nfs3Files`, for any number of threads, any set of calls and any
bounds, from `BoundsAssumption` and `CallsAssumption` (the calls are calls):

- `NeverTorn`: no READ or SETATTR has the file open while a WRITE has emptied it.
- `WccIsOwn`: what a WRITE reports of before and after is its own change.

The inductive invariant there is `Typed`, the part of the type invariant about `pc`,
`call` and `foreign`, `Sharing` (any two threads that have the file open for its data
are allowed to by each other's share mode) and `WriteWccOwn`. A step keeps `Sharing`
because `Open` asks for it and no other step opens; a change by one thread marks only
calls that may share the file with it, and a WRITE shares it with nobody.

- `TypeCorrect`, `AttrsAreCurrent`: `TypeOK` and `AttrsCurrent`.

Their inductive invariant `AInv` is `TypeOK` with `Ordered`: while ChangeTime has never been
put back, all attributes read or told have a ChangeTime not above the file's, and the
file's size if it is the same. A new size comes with a ChangeTime above all of them, and
SETATTR's times with a ChangeTime that was read before, which is the file's own unless it
puts the file back.

Of `Nfs3ReadDir` it proves, for any names of any lengths, any counts of the client, buffers
of any size and any number of changes, from `ListingAssumption` (names are positive numbers,
which stand for the order of the enumeration; lengths and counts are numbers):

- `ListingTypeCorrect`: `ListingTypeOK`.
- `ListingsFaithful`: `ListingFaithful`. A listing put together from any number of pages has
  every entry that was there throughout, none twice and none that was never there, unless
  the directory changed in a way its time cannot show.
- `RepliesFit`: `ReplyFits`. A page of READDIRPLUS as encoded is within the client's count.

`ListingFaithful` says something of complete listings only; `ListingInv` says it of unfinished
ones and of calls on their way. What the client has is a `Piece`: rising names, each of
which was there, with no entry of the directory as its verifier names it left out between
them (`ClientKnows`). A call asks for what follows (`CallAsks`: the cookie counts
what the client has, and a call that enumerates with a cookie has a verifier that was the
directory's at `OpenDirectory`). What the file system gave a call so far is such a piece
from the first entry on, of which the reply has those behind the cookie (`PageGrows`).
The step to be proved is that two pieces of one directory with as many names are the same
(`SameInitial`), so that the first `cookie` names given are those the client has
(`PageIsPiece`), and reply and listing join to a piece (`Together`, `PageTells`). That is
where the verifier is needed, and where an entry removed unnoticed would hide
another. `PageFits` rests on sizes being counted as at least what is encoded for each entry
(`WireIsLess`, `SumMonotonic`).

`RpcServerProofs` proves for any hosts, connections and handle values, from
`RpcServerAssumption` (each connection has a host; `Invalid` and `None` are no handles):

- `TypeCorrect`: `TypeOK`, with which no session thread is started in the place of one
  still to be joined.
- `NoSocketIsLost`, `AnswersToCaller`: `NoSocketLost` and `AnswerToCaller`.

Its inductive invariant `IInv` says who has which handle: a session's socket is a
connection of its host but between `closesocket` and the reset of the handle (`Owned`);
the socket just accepted is no session's yet (`Arrived`); what the accept thread and the
main thread have done of a stop (`AcceptStopping`, `MainStopping`); and a host without a
session has no thread (`Unstarted`). So a close reaches one session's socket and no other.
Answers go where they should because, until a value is given out again in use, what a
thread has read from its socket is its session's socket or closed, and the session's socket
is the caller's or closed while there is a call (`Following`). The proof relies on the
model's going no further when the main thread meets the accept thread (`Clash`).

`Nfs3NamesProofs` proves for any tree of names, any set of calls and any number of threads,
from `NamesAssumption` (objects are directories or files, and what is in the tree at the
start has a place) and `TreeAssumption` (the entries at the start are a tree, with one
place for an object, one object for a place, and no directory beneath itself):

- `TypeCorrect`: `TypeOK`, with which a call acts with one path for each directory, and what
  MKDIR has made is where its path leads until it opens it, if nothing was displaced.
- `AccessIsKept`: `AccessKept`, of every directory whose entries a call changes, whether its
  handles name it or not.
- `ActsWhereAsked`: `ActsWhereNamed`.
- `OutcomesTold`: `OutcomeTold`.

The inductive invariant `RInv` has four parts that do not speak of paths (`IInv`): types, the
arguments of calls that have begun, how many paths a call has asked for at each of its steps
(`PathsAsked`), and that a call which has a directory open for a change, or has made it, found
the directory unprotected or is a `LOOKUP` (`Unprotected`). The others say that the entries
remain a tree, and of each call: a path it has asked for is still that of its directory,
unless it is `stale` or the path is empty and the directory `unnamed` (`PathKnown`, `Known`); what
MKDIR has made is where its path leads (`MadeKnown`, `Aim`); it has acted in its directory, or at the root
for an unnamed one, unless it is stale (`Straight`); and what it tells is what it did (`Told`).
`AccessKept` follows from `Straight` and `Unprotected`: where a call that is not stale acts is where
its attributes were looked at, or the root. `PathKnown` survives the others' steps because a path
is the chain of names from the root (`Chain`): putting an object where there is none, taking one
away that has none beneath it, and moving one change no other chain, but for those through the
moved one, and `Movable` lets nothing be moved above an open directory. In a tree, the chain that
`PathTo` gives is the one that `Resolve` walks back.

Every invariant, action property and refinement a run checks is the statement of a theorem.
Only model-checked is all liveness (`ListingEnds`, `StopsEnd`, `Converges`, `CallsAnswered`),
which rests on fairness and `ENABLED`.

## 5. Disagreements seen

Met while modelling, beside the two that have a run. The models contain the behaviour;
properties that hold speak of what is left.

- SETATTR: the guard is compared with times read before; another SETATTR may change the
  file before the size is set (nfs3.cpp:820), though nfs3.h:71 says the mismatch was
  detected. `set_basic_info` writes back the times read before `set_size`
  (nfs3.cpp:853), so that a change may leave the times as they were. Mode, uid and gid are
  read and ignored; uid and gid are taken when a mode was sent, like the size.
- READDIR never sets the status OK (nfs3.cpp:1701); READDIRPLUS does (1820). An entry
  too large for the client's counts makes an empty, unfinished page for ever, not
  `ERR_TOOSMALL` (1764). The verifier is compared before the enumeration starts (1736): an
  entry removed in between makes the page skip another. `enumerate` takes an error after the
  first buffer for the end of the directory (winfs_directory.h:95).
- CREATE, MKDIR, REMOVE, RMDIR and RENAME act on a path: if their directory is renamed after
  they asked for it and another takes its name, they act there and answer OK
  (nfs3.cpp:1263). If `fullpath()` is empty they act at the root of the drive, whatever its
  attributes are: that of a removed directory, and that of a valid one as in
  winfs_test.cpp:38-57 (winfs_object.h:102-158 returns what it gets, and the calls do not
  look; winfs_object.h:313 does). A name that is taken, or a directory that is not empty, is `ERR_IO` (1268, 1427, 1495,
  1611). MKDIR answers `ERR_IO` for a directory it has made when it cannot open it (1349). CREATE and
  MKDIR do not look at the result of asking for the id: if that fails they answer OK with a
  handle of no object (1278, 1360).
- A WRITE fails with `ERR_ACCESS` while another call has the file's data open, and others
  while it has.
- Server: `assert(valid())` of tcp.h:68 and 73 does not hold when `stop` closes the socket of
  a thread about to use it; a connection the callback gives up stays open until its host
  connects again; one failing `accept` or `recvfrom` ends its loop for good; the session map
  is destroyed before the accept thread that adds to it has stopped; the length word of a
  record is read when fewer than four bytes have arrived.
- Portmapper: SET and UNSET compare the port, not the protocol, with TCP and UDP
  (portmap.cpp:79, 88).
- Notifier: file_change_notifier.h promises the callback for any change since construction;
  a request on top of an outstanding one may lose a change, and a failure of the waiting
  thread ends reloads without a word.

## 6. Not modelled

Log output, formatting, authentication (the code has none), character
encodings. A cache file cut short inside one write: the model's file is empty or
complete, because what reading past the end of the buffer yields is not defined by
the code. Likewise messages too short for the header of their call, which the readers of
`rpc.h` look past, two changes of the portmapper's vector at once, and the session map
changed while it is destroyed. In `Nfs3Names` attributes do not change. `MountCache` files a directory under the
path it has: that `fullpath()` of a mount is empty is not modelled there. `Nfs3Files` gives
every change of a file a ChangeTime of its own, though times of Windows come in ticks:
`AttrsCurrent` rests on it, and two changes of one tick are what it says nothing of (`Nfs3ReadDir`,
where the time is the verifier, has them). In `Nfs3ReadDir` and `Nfs3Files` a clock that is put back, and
of `Nfs3Files` READ, WRITE and SETATTR of directories. COMMIT, FSSTAT, FSINFO and PATHCONF
change nothing: COMMIT neither flushes nor sets the verifier of its answer. File times
(`wintime_convert.h`) are arithmetic without state; wrappers around handles, strings and
variants have no logic of their own.

## 7. Plan

Composition still to do: `RpcServer` with `TcpSession` as the life of one of
its sessions, `ConfigSync` as the environment of `MountServer`. A client that writes blocks
back with retries, and the write verifier, would be the module to add to `Nfs3Files`.
