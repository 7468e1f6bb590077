-------------------------------- MODULE Disk --------------------------------
(***************************************************************************)
(* The directories the server exports, as far as it can see them: which    *)
(* directory, by volume and file id, is at which location.  External: the  *)
(* server only opens paths (winfs_object.h:208-221) and asks for the       *)
(* normalised path of what it opened (winfs_object.h:102-158); users of    *)
(* the machine move, remove and create directories at any time.            *)
(***************************************************************************)
EXTENDS Integers, FiniteSets

CONSTANTS
  Path,       \* Windows paths the server may open
  Location,   \* the paths in normalised form
  Canonical,  \* what GetFinalPathNameByHandle reports for an opened path
  File,       \* volume and file ids of directories
  NoPath,     \* the empty path
  NoFile      \* nothing at this location

ASSUME DiskAssumption ==
  /\ Location \subseteq Path
  /\ Canonical \in [Path -> Location]
  /\ \A l \in Location : Canonical[l] = l
  /\ NoPath \notin Path
  /\ NoFile \notin File

VARIABLE disk   \* the directory at each location

Disks ==
  {d \in [Location -> File \cup {NoFile}] :
     \A l, m \in Location : d[l] = d[m] /\ d[l] # NoFile => l = m}

\* winfs::open_path returns a valid handle.
Opens(p) == p \in Path /\ disk[Canonical[p]] # NoFile

Move(l, m) ==
  /\ disk[l] # NoFile
  /\ disk[m] = NoFile
  /\ disk' = [disk EXCEPT ![m] = disk[l], ![l] = NoFile]

Delete(l) ==
  /\ disk[l] # NoFile
  /\ disk' = [disk EXCEPT ![l] = NoFile]

\* A directory may come back under the id it had: its volume was detached.
Create(l, f) ==
  /\ disk[l] = NoFile
  /\ \A m \in Location : disk[m] # f
  /\ disk' = [disk EXCEPT ![l] = f]

DiskStep ==
  \/ \E l, m \in Location : Move(l, m)
  \/ \E l \in Location : Delete(l)
  \/ \E l \in Location, f \in File : Create(l, f)

=============================================================================
