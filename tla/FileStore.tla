------------------------------ MODULE FileStore ------------------------------
(***************************************************************************)
(* FileStore of store.go: concurrent Save, Load and Delete calls on one    *)
(* conversation id, over a file system that loses what was not synced when *)
(* the machine crashes.                                                    *)
(*                                                                         *)
(* A Save is its sequence of system calls, each of which may fail.  What   *)
(* it writes goes to an inode of its own; the conversation's file and the  *)
(* temporary files are directory entries.  The cache (what processes see)  *)
(* and the disk (what a crash leaves) are kept apart, and the kernel may   *)
(* write any part of the cache back at any time and in any order.          *)
(***************************************************************************)
EXTENDS Integers, FiniteSets

CONSTANTS
    Savers,      \* goroutines that call Save
    Readers,     \* goroutines that call Load
    MaxSaves,    \* bound on the temporary files ever created
    MaxChanges   \* bound on the changes after which the file is not removed

ASSUME BoundsAssumption == MaxSaves \in Nat /\ MaxChanges \in Nat

VARIABLES
    saver,     \* the step each Save has reached, its inode and its rename
    reader,    \* the inode each Load has opened
    content,   \* what each inode holds in the cache
    onDisk,    \* what each inode holds on disk
    file,      \* the entry <id>.json in the cache
    diskFile,  \* that entry on disk
    temps,     \* the inodes with a temporary name, in the cache
    diskTemps, \* and on disk
    dir,       \* where the directory itself exists: "none", "cache" or "disk"
    created,   \* how many temporary files were ever created
    changes,   \* history: how often <id>.json was renamed over or removed
    promised   \* history: the last change that a Save has synced and returned

vars == <<saver, reader, content, onDisk, file, diskFile, temps, diskTemps, dir,
          created, changes, promised>>

Inodes == 1 .. MaxSaves
NoInode == 0
Contents == {"empty", "partial", "complete"}
Steps == {"idle", "create", "write", "sync", "close", "rename", "remove", "syncdir"}

(* An entry says which inode <id>.json is and which change made it so.      *)
NoFile == [inode |-> NoInode, change |-> 0]
Entries == [inode : Inodes \union {NoInode}, change : Nat]

SaveStates == [pc : Steps, inode : Inodes \union {NoInode}, change : Nat]

Idle == [pc |-> "idle", inode |-> NoInode, change |-> 0]

TypeOK ==
    /\ saver \in [Savers -> SaveStates]
    /\ reader \in [Readers -> Inodes \union {NoInode}]
    /\ content \in [Inodes -> Contents]
    /\ onDisk \in [Inodes -> Contents]
    /\ file \in Entries
    /\ diskFile \in Entries
    /\ temps \subseteq Inodes
    /\ diskTemps \subseteq Inodes
    /\ dir \in {"none", "cache", "disk"}
    /\ created \in 0 .. MaxSaves
    /\ changes \in Nat
    /\ promised \in Nat

Init ==
    /\ saver = [s \in Savers |-> Idle]
    /\ reader = [r \in Readers |-> NoInode]
    /\ content = [i \in Inodes |-> "empty"]
    /\ onDisk = [i \in Inodes |-> "empty"]
    /\ file = NoFile
    /\ diskFile = NoFile
    /\ temps = {}
    /\ diskTemps = {}
    /\ dir \in {"none", "disk"}
    /\ created = 0
    /\ changes = 0
    /\ promised = 0

disk == <<onDisk, diskFile, diskTemps>>
history == <<changes, promised>>

------------------------------------------------------------------------------
(* Save: one action per system call.  Those that fail return, through the  *)
(* removal of the temporary file once there is one.                        *)

At(s, step) == saver[s].pc = step

Goto(s, step) == saver' = [saver EXCEPT ![s].pc = step]

Return(s) == saver' = [saver EXCEPT ![s] = Idle]

(* MkdirAll; the directory's own entry is not synced.  When it fails, Save   *)
(* returns without an effect, as when CreateTemp does.                      *)
MakeDir(s) ==
    /\ At(s, "idle")
    /\ created < MaxSaves
    /\ dir' = IF dir = "none" THEN "cache" ELSE dir
    /\ Goto(s, "create")
    /\ UNCHANGED <<reader, content, file, temps, disk, created, history>>

CreateTemp(s) ==
    /\ At(s, "create")
    /\ \/ /\ created < MaxSaves
          /\ created' = created + 1
          /\ temps' = temps \union {created'}
          /\ saver' = [saver EXCEPT ![s] = [pc |-> "write", inode |-> created',
                                            change |-> 0]]
       \/ Return(s) /\ UNCHANGED <<created, temps>>
    /\ UNCHANGED <<reader, content, file, dir, disk, history>>

Write(s) ==
    /\ At(s, "write")
    /\ \/ /\ content' = [content EXCEPT ![saver[s].inode] = "complete"]
          /\ Goto(s, "sync")
       \/ /\ content' = [content EXCEPT ![saver[s].inode] = "partial"]
          /\ Goto(s, "remove")
    /\ UNCHANGED <<reader, file, temps, dir, disk, created, history>>

(* Faulty: the file is renamed without having been synced. *)
SyncSkipped(s) ==
    /\ At(s, "sync")
    /\ Goto(s, "close")
    /\ UNCHANGED <<reader, content, file, temps, dir, disk, created, history>>

Sync(s) ==
    /\ At(s, "sync")
    /\ \/ /\ onDisk' = [onDisk EXCEPT ![saver[s].inode] = content[saver[s].inode]]
          /\ Goto(s, "close")
       \/ Goto(s, "remove") /\ UNCHANGED onDisk
    /\ UNCHANGED <<reader, content, file, diskFile, temps, diskTemps, dir, created,
                   history>>

(* Faulty: a failed close returns and leaves the temporary file. *)
CloseLeavesTemp(s) ==
    /\ At(s, "close")
    /\ Goto(s, "rename") \/ Return(s)
    /\ UNCHANGED <<reader, content, file, temps, dir, disk, created, history>>

Close(s) ==
    /\ At(s, "close")
    /\ Goto(s, "rename") \/ Goto(s, "remove")
    /\ UNCHANGED <<reader, content, file, temps, dir, disk, created, history>>

Rename(s) ==
    /\ At(s, "rename")
    /\ \/ /\ changes' = changes + 1
          /\ file' = [inode |-> saver[s].inode, change |-> changes']
          /\ temps' = temps \ {saver[s].inode}
          /\ saver' = [saver EXCEPT ![s].pc = "syncdir", ![s].change = changes']
       \/ Goto(s, "remove") /\ UNCHANGED <<changes, file, temps>>
    /\ UNCHANGED <<reader, content, dir, disk, created, promised>>

(* The removal's own error is ignored. *)
RemoveTemp(s) ==
    /\ At(s, "remove")
    /\ temps' = temps \ {saver[s].inode}
    /\ Return(s)
    /\ UNCHANGED <<reader, content, file, dir, disk, created, history>>

Later(a, b) == IF a > b THEN a ELSE b

(* Faulty: the directory is not synced. *)
SyncDirSkipped(s) ==
    /\ At(s, "syncdir")
    /\ promised' = Later(promised, saver[s].change)
    /\ Return(s)
    /\ UNCHANGED <<reader, content, file, temps, dir, disk, created, changes>>

(* The directory is synced and Save returns.  When that fails Save returns *)
(* all the same: it has promised no more than best effort.                 *)
SyncDir(s) ==
    /\ At(s, "syncdir")
    /\ \/ /\ diskFile' = file
          /\ diskTemps' = temps
          /\ promised' = Later(promised, saver[s].change)
       \/ UNCHANGED <<diskFile, diskTemps, promised>>
    /\ Return(s)
    /\ UNCHANGED <<reader, content, file, temps, dir, onDisk, created, changes>>

------------------------------------------------------------------------------
(* Load and Delete. *)

(* A missing file is ErrConversationNotFound, which changes nothing.       *)
OpenFile(r) ==
    /\ reader[r] = NoInode
    /\ file.inode # NoInode
    /\ reader' = [reader EXCEPT ![r] = file.inode]
    /\ UNCHANGED <<saver, content, file, temps, dir, disk, created, history>>

ReadFile(r) ==
    /\ reader[r] # NoInode
    /\ reader' = [reader EXCEPT ![r] = NoInode]
    /\ UNCHANGED <<saver, content, file, temps, dir, disk, created, history>>

Delete ==
    /\ file.inode # NoInode
    /\ changes < MaxChanges
    /\ changes' = changes + 1
    /\ file' = [inode |-> NoInode, change |-> changes']
    /\ UNCHANGED <<saver, reader, content, temps, dir, disk, created, promised>>

------------------------------------------------------------------------------
(* The kernel writes back what it likes, and the machine crashes.          *)

WriteBackData(i) ==
    /\ onDisk[i] # content[i]
    /\ onDisk' = [onDisk EXCEPT ![i] = content[i]]
    /\ UNCHANGED <<saver, reader, content, file, diskFile, temps, diskTemps, dir,
                   created, history>>

WriteBackEntry ==
    /\ \/ diskFile # file /\ diskFile' = file /\ UNCHANGED diskTemps
       \/ \E i \in (temps \ diskTemps) \union (diskTemps \ temps) :
             /\ diskTemps' = IF i \in temps THEN diskTemps \union {i}
                             ELSE diskTemps \ {i}
             /\ UNCHANGED diskFile
    /\ UNCHANGED <<saver, reader, content, onDisk, file, temps, dir, created,
                   history>>

WriteBackDir ==
    /\ dir = "cache"
    /\ dir' = "disk"
    /\ UNCHANGED <<saver, reader, content, file, temps, disk, created, history>>

(* The directory's entries are lost with it when it was not on disk itself, *)
(* and what was promised of them is as well: Save syncs the directory that  *)
(* it makes, but not its parent.                                            *)
Crash ==
    /\ saver' = [s \in Savers |-> Idle]
    /\ reader' = [r \in Readers |-> NoInode]
    /\ content' = onDisk
    /\ file' = IF dir = "disk" THEN diskFile ELSE NoFile
    /\ temps' = IF dir = "disk" THEN diskTemps ELSE {}
    /\ diskFile' = file'
    /\ diskTemps' = temps'
    /\ dir' = IF dir = "disk" THEN "disk" ELSE "none"
    /\ promised' = IF dir = "disk" THEN promised ELSE 0
    /\ UNCHANGED <<onDisk, created, changes>>

Next ==
    \/ \E s \in Savers :
          \/ MakeDir(s) \/ CreateTemp(s) \/ Write(s) \/ Sync(s) \/ Close(s)
          \/ Rename(s) \/ RemoveTemp(s) \/ SyncDir(s)
    \/ \E r \in Readers : OpenFile(r) \/ ReadFile(r)
    \/ Delete
    \/ \E i \in Inodes : WriteBackData(i)
    \/ WriteBackEntry
    \/ WriteBackDir
    \/ Crash

Spec == Init /\ [][Next]_vars

------------------------------------------------------------------------------

(* Whatever is found under <id>.json is a whole conversation: by a process  *)
(* that opens the file now, by a Load that has opened it and will read it   *)
(* after others have renamed over it or deleted it, and by whoever looks    *)
(* after a crash at this moment.                                            *)
NeverPartial ==
    /\ file.inode # NoInode => content[file.inode] = "complete"
    /\ diskFile.inode # NoInode => onDisk[diskFile.inode] = "complete"
    /\ \A r \in Readers : reader[r] # NoInode => content[reader[r]] = "complete"

(* A Save that has synced the directory and returned is never undone by a   *)
(* crash that leaves the directory: the disk has its conversation or the    *)
(* result of a later change, whatever other Saves were doing.               *)
SavedSurvivesCrash == diskFile.change >= promised

(* A Save leaves no temporary file behind, by whichever of its error paths  *)
(* it returns; only a crash does.                                           *)
InUse(i) == \E s \in Savers : saver[s].inode = i

TempsCleanedUp ==
    [][Crash \/ \A i \in temps' : InUse(i)' \/ (i \in temps /\ ~InUse(i))]_vars
==============================================================================
