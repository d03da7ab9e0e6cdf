--------------------------- MODULE FileStoreProofs ---------------------------
(***************************************************************************)
(* Proofs about FileStore, for any numbers of savers, readers and files.   *)
(***************************************************************************)
EXTENDS FileStore, TLAPS

(* What a step of a Save does to its own record, and to no other.           *)
LEMMA GotoFacts ==
    ASSUME saver \in [Savers -> SaveStates], NEW s \in Savers, NEW step \in Steps,
           Goto(s, step)
    PROVE  /\ saver' \in [Savers -> SaveStates]
           /\ saver'[s].pc = step
           /\ saver'[s].inode = saver[s].inode
           /\ saver'[s].change = saver[s].change
           /\ \A t \in Savers : t # s => saver'[t] = saver[t]
BY DEF Goto, SaveStates

LEMMA ReturnFacts ==
    ASSUME saver \in [Savers -> SaveStates], NEW s \in Savers, Return(s)
    PROVE  /\ saver' \in [Savers -> SaveStates]
           /\ saver'[s] = Idle
           /\ \A t \in Savers : t # s => saver'[t] = saver[t]
<1>1. Idle \in SaveStates
  BY DEF Idle, SaveStates, Steps, NoInode
<1> QED
  BY <1>1 DEF Return

(* Every inode, entry, step and counter stays in its range.                *)
THEOREM TypeCorrect == Spec => []TypeOK
<1>1. Init => TypeOK
  <2> SUFFICES ASSUME Init PROVE TypeOK
    OBVIOUS
  <2>1. Idle \in SaveStates
    BY DEF Idle, SaveStates, Steps, NoInode
  <2>2. NoFile \in Entries
    BY DEF NoFile, Entries
  <2> QED
    BY <2>1, <2>2, BoundsAssumption DEF Init, TypeOK, Contents
<1>2. TypeOK /\ [Next]_vars => TypeOK'
  <2> SUFFICES ASSUME TypeOK, [Next]_vars
               PROVE  TypeOK'
    OBVIOUS
  <2> USE DEF TypeOK
  <2>1. ASSUME NEW s \in Savers, MakeDir(s)
        PROVE  TypeOK'
    <3>1. Goto(s, "create") /\ "create" \in Steps
      BY <2>1 DEF MakeDir, Steps
    <3>2. saver' \in [Savers -> SaveStates]
      BY <3>1, GotoFacts
    <3> QED
      BY <2>1, <3>2 DEF MakeDir, disk, history
  <2>2. ASSUME NEW s \in Savers, CreateTemp(s)
        PROVE  TypeOK'
    <3>1. CASE Return(s) /\ UNCHANGED <<created, temps>>
      BY <2>2, <3>1, ReturnFacts DEF CreateTemp, disk, history
    <3>2. CASE /\ created < MaxSaves
               /\ created' = created + 1
               /\ temps' = temps \union {created'}
               /\ saver' = [saver EXCEPT ![s] = [pc |-> "write", inode |-> created',
                                                 change |-> 0]]
      <4>1. created' \in Inodes /\ created' \in 0 .. MaxSaves
        BY <3>2, BoundsAssumption DEF Inodes
      <4>2. [pc |-> "write", inode |-> created', change |-> 0] \in SaveStates
        BY <4>1 DEF SaveStates, Steps
      <4>3. saver' \in [Savers -> SaveStates]
        BY <3>2, <4>2
      <4>4. temps' \subseteq Inodes
        BY <3>2, <4>1
      <4> QED
        BY <2>2, <4>1, <4>3, <4>4 DEF CreateTemp, disk, history
    <3> QED
      BY <2>2, <3>1, <3>2 DEF CreateTemp
  <2>3. ASSUME NEW s \in Savers, Write(s)
        PROVE  TypeOK'
    <3>1. saver' \in [Savers -> SaveStates]
      <4>1. "sync" \in Steps /\ "remove" \in Steps
        BY DEF Steps
      <4> QED
        BY <2>3, <4>1, GotoFacts DEF Write
    <3>2. content' \in [Inodes -> Contents]
      BY <2>3 DEF Write, Contents
    <3> QED
      BY <2>3, <3>1, <3>2 DEF Write, disk, history
  <2>4. ASSUME NEW s \in Savers, Sync(s)
        PROVE  TypeOK'
    <3>1. saver' \in [Savers -> SaveStates]
      <4>1. "close" \in Steps /\ "remove" \in Steps
        BY DEF Steps
      <4> QED
        BY <2>4, <4>1, GotoFacts DEF Sync
    <3>2. onDisk' \in [Inodes -> Contents]
      BY <2>4 DEF Sync
    <3> QED
      BY <2>4, <3>1, <3>2 DEF Sync, history
  <2>5. ASSUME NEW s \in Savers, Close(s)
        PROVE  TypeOK'
    <3>1. saver' \in [Savers -> SaveStates]
      <4>1. "rename" \in Steps /\ "remove" \in Steps
        BY DEF Steps
      <4> QED
        BY <2>5, <4>1, GotoFacts DEF Close
    <3> QED
      BY <2>5, <3>1 DEF Close, disk, history
  <2>6. ASSUME NEW s \in Savers, Rename(s)
        PROVE  TypeOK'
    <3>1. CASE Goto(s, "remove") /\ UNCHANGED <<changes, file, temps>>
      <4>1. "remove" \in Steps
        BY DEF Steps
      <4> QED
        BY <2>6, <3>1, <4>1, GotoFacts DEF Rename, disk
    <3>2. CASE /\ changes' = changes + 1
               /\ file' = [inode |-> saver[s].inode, change |-> changes']
               /\ temps' = temps \ {saver[s].inode}
               /\ saver' = [saver EXCEPT ![s].pc = "syncdir", ![s].change = changes']
      <4>1. changes' \in Nat /\ saver[s] \in SaveStates
        BY <3>2
      <4>2. saver' \in [Savers -> SaveStates]
        BY <3>2, <4>1 DEF SaveStates, Steps
      <4>3. file' \in Entries
        BY <3>2, <4>1 DEF SaveStates, Entries
      <4> QED
        BY <2>6, <3>2, <4>1, <4>2, <4>3 DEF Rename, disk
    <3> QED
      BY <2>6, <3>1, <3>2 DEF Rename
  <2>7. ASSUME NEW s \in Savers, RemoveTemp(s)
        PROVE  TypeOK'
    BY <2>7, ReturnFacts DEF RemoveTemp, disk, history
  <2>8. ASSUME NEW s \in Savers, SyncDir(s)
        PROVE  TypeOK'
    <3>1. saver' \in [Savers -> SaveStates] /\ saver[s].change \in Nat
      BY <2>8, ReturnFacts DEF SyncDir, SaveStates
    <3>2. promised' \in Nat
      BY <2>8, <3>1 DEF SyncDir, Later
    <3> QED
      BY <2>8, <3>1, <3>2 DEF SyncDir
  <2>9. ASSUME NEW r \in Readers, OpenFile(r) \/ ReadFile(r)
        PROVE  TypeOK'
    BY <2>9 DEF OpenFile, ReadFile, Entries, disk, history
  <2>10. CASE Delete
    BY <2>10 DEF Delete, Entries, disk
  <2>11. ASSUME NEW i \in Inodes, WriteBackData(i)
         PROVE  TypeOK'
    BY <2>11 DEF WriteBackData, history
  <2>12. CASE WriteBackEntry
    BY <2>12 DEF WriteBackEntry, history
  <2>13. CASE WriteBackDir
    BY <2>13 DEF WriteBackDir, disk, history
  <2>14. CASE Crash
    <3>1. Idle \in SaveStates /\ NoFile \in Entries
      BY DEF Idle, NoFile, SaveStates, Entries, Steps
    <3> QED
      BY <2>14, <3>1 DEF Crash, history
  <2>15. CASE UNCHANGED vars
    BY <2>15 DEF vars
  <2> QED
    BY <2>1, <2>2, <2>3, <2>4, <2>5, <2>6, <2>7, <2>8, <2>9, <2>10, <2>11, <2>12,
       <2>13, <2>14, <2>15 DEF Next
<1> QED
  BY <1>1, <1>2, PTL DEF Spec

------------------------------------------------------------------------------

(* A Save has an inode exactly between its CreateTemp and its return, and   *)
(* no inode is in use before it was created.                                *)
Fresh ==
    /\ \A s \in Savers :
          /\ saver[s].inode <= created
          /\ saver[s].inode = NoInode <=> saver[s].pc \in {"idle", "create"}
    /\ file.inode <= created
    /\ diskFile.inode <= created
    /\ \A r \in Readers : reader[r] <= created

(* Creation order keeps inodes apart.                                       *)
LEMMA FreshInvariant == Spec => []Fresh
<1>1. Init => Fresh
  BY DEF Init, Fresh, Idle, NoFile, NoInode
<1>2. TypeOK /\ Fresh /\ [Next]_vars => Fresh'
  <2> SUFFICES ASSUME TypeOK, Fresh, [Next]_vars
               PROVE  Fresh'
    OBVIOUS
  <2>0. /\ saver \in [Savers -> SaveStates]
        /\ file.inode \in Nat /\ diskFile.inode \in Nat /\ created \in Nat
        /\ \A r \in Readers : reader[r] \in Nat
    BY BoundsAssumption DEF TypeOK, Entries, Inodes, NoInode
  <2>1. ASSUME NEW s \in Savers, MakeDir(s)
        PROVE  Fresh'
    <3>1. Goto(s, "create") /\ "create" \in Steps /\ saver[s].pc = "idle"
      BY <2>1 DEF MakeDir, At, Steps
    <3> QED
      BY <2>0, <2>1, <3>1, GotoFacts DEF MakeDir, disk, Fresh
  <2>2. ASSUME NEW s \in Savers, CreateTemp(s)
        PROVE  Fresh'
    <3>1. CASE Return(s) /\ UNCHANGED <<created, temps>>
      BY <2>0, <2>2, <3>1, ReturnFacts DEF CreateTemp, disk, Fresh, Idle, NoInode
    <3>2. CASE /\ created' = created + 1
               /\ saver' = [saver EXCEPT ![s] = [pc |-> "write", inode |-> created',
                                                 change |-> 0]]
      <4>1. /\ saver'[s].inode = created + 1 /\ saver'[s].pc = "write"
            /\ \A t \in Savers : t # s => saver'[t] = saver[t]
        BY <2>0, <3>2
      <4>2. \A t \in Savers : saver[t].inode \in Nat
        BY <2>0, BoundsAssumption DEF SaveStates, Inodes, NoInode
      <4> QED
        BY <2>0, <2>2, <3>2, <4>1, <4>2 DEF CreateTemp, disk, Fresh, NoInode
    <3> QED
      BY <2>2, <3>1, <3>2 DEF CreateTemp
  <2>3. ASSUME NEW s \in Savers, NEW here \in Steps, NEW next \in Steps,
               here \notin {"idle", "create"}, next \notin {"idle", "create"},
               At(s, here), Goto(s, next),
               UNCHANGED <<created, file, diskFile, reader>>
        PROVE  Fresh'
    BY <2>0, <2>3, GotoFacts DEF At, Fresh
  <2>4. ASSUME NEW s \in Savers, Write(s) \/ Sync(s) \/ Close(s)
        PROVE  Fresh'
    <3>1. {"write", "sync", "close", "rename", "remove"} \subseteq Steps
      BY DEF Steps
    <3> QED
      BY <2>3, <2>4, <3>1 DEF Write, Sync, Close, disk
  <2>6. ASSUME NEW s \in Savers, Rename(s)
        PROVE  Fresh'
    <3>1. CASE Goto(s, "remove") /\ UNCHANGED <<changes, file, temps>>
      <4>1. "rename" \in Steps /\ "remove" \in Steps
        BY DEF Steps
      <4> QED
        BY <2>3, <2>6, <3>1, <4>1 DEF Rename, disk
    <3>2. CASE /\ file' = [inode |-> saver[s].inode, change |-> changes']
               /\ saver' = [saver EXCEPT ![s].pc = "syncdir", ![s].change = changes']
      <4>1. /\ saver'[s].inode = saver[s].inode /\ saver'[s].pc = "syncdir"
            /\ \A t \in Savers : t # s => saver'[t] = saver[t]
            /\ file'.inode = saver[s].inode
        BY <2>0, <3>2 DEF SaveStates
      <4> QED
        BY <2>0, <2>6, <4>1 DEF Rename, disk, Fresh, At
    <3> QED
      BY <2>6, <3>1, <3>2 DEF Rename
  <2>7. ASSUME NEW s \in Savers, RemoveTemp(s) \/ SyncDir(s)
        PROVE  Fresh'
    BY <2>0, <2>7, ReturnFacts DEF RemoveTemp, SyncDir, disk, Fresh, Idle, NoInode
  <2>9. ASSUME NEW r \in Readers, OpenFile(r) \/ ReadFile(r)
        PROVE  Fresh'
    <3>1. \A q \in Readers : reader'[q] \in {reader[q], file.inode, 0}
      BY <2>9 DEF OpenFile, ReadFile, TypeOK, NoInode
    <3> QED
      BY <2>0, <2>9, <3>1 DEF OpenFile, ReadFile, disk, Fresh
  <2>10. CASE Delete
    BY <2>0, <2>10 DEF Delete, disk, Fresh, NoInode
  <2>11. ASSUME NEW i \in Inodes, WriteBackData(i)
         PROVE  Fresh'
    BY <2>11 DEF WriteBackData, Fresh
  <2>12. CASE WriteBackEntry
    BY <2>12 DEF WriteBackEntry, Fresh
  <2>13. CASE WriteBackDir
    BY <2>13 DEF WriteBackDir, disk, Fresh
  <2>14. CASE Crash
    BY <2>0, <2>14 DEF Crash, Fresh, Idle, NoFile, NoInode
  <2>15. CASE UNCHANGED vars
    BY <2>15 DEF vars, Fresh
  <2> QED
    BY <2>1, <2>2, <2>4, <2>6, <2>7, <2>9, <2>10, <2>11, <2>12, <2>13, <2>14, <2>15
       DEF Next
<1> QED
  BY <1>1, <1>2, TypeCorrect, PTL DEF Spec

------------------------------------------------------------------------------

(* An inode that nothing will write to again, whole in cache and on disk.   *)
Settled(i) == content[i] = "complete" /\ onDisk[i] = "complete"

(* The strengthening of NeverPartial: the inode a Save is writing is known  *)
(* to nobody else, one that is synced is settled, and every inode that can  *)
(* be reached through <id>.json, now or after a crash, is settled.          *)
WrittenAlone ==
    \A s \in Savers : At(s, "write") =>
        /\ saver[s].inode # file.inode
        /\ saver[s].inode # diskFile.inode
        /\ \A r \in Readers : saver[s].inode # reader[r]
        /\ \A t \in Savers : t # s => saver[s].inode # saver[t].inode

SyncedBeforeRename ==
    \A s \in Savers :
        /\ At(s, "sync") => content[saver[s].inode] = "complete"
        /\ saver[s].pc \in {"close", "rename", "syncdir"} => Settled(saver[s].inode)

ReachableSettled ==
    /\ file.inode # NoInode => Settled(file.inode)
    /\ diskFile.inode # NoInode => Settled(diskFile.inode)
    /\ \A r \in Readers : reader[r] # NoInode => Settled(reader[r])

Whole == WrittenAlone /\ SyncedBeforeRename /\ ReachableSettled

(* WrittenAlone is about who holds which inode: it is preserved because a   *)
(* new inode is younger than every one in use.                              *)
LEMMA WrittenAloneStep ==
    ASSUME TypeOK, Fresh, WrittenAlone, [Next]_vars
    PROVE  WrittenAlone'
<1>0. /\ saver \in [Savers -> SaveStates]
      /\ file.inode \in Nat /\ diskFile.inode \in Nat /\ created \in Nat
      /\ \A r \in Readers : reader[r] \in Nat
      /\ \A t \in Savers : saver[t].inode \in Nat
  BY BoundsAssumption DEF TypeOK, SaveStates, Entries, Inodes, NoInode
<1>1. ASSUME NEW s \in Savers, NEW next \in Steps, Goto(s, next), next # "write",
             UNCHANGED <<file, diskFile, reader>>
      PROVE  WrittenAlone'
  BY <1>0, <1>1, GotoFacts DEF WrittenAlone, At
<1>2. ASSUME NEW s \in Savers, MakeDir(s) \/ Write(s) \/ Sync(s) \/ Close(s)
      PROVE  WrittenAlone'
  <2>1. {"create", "sync", "close", "rename", "remove"} \subseteq Steps
    BY DEF Steps
  <2> QED
    BY <1>1, <1>2, <2>1 DEF MakeDir, Write, Sync, Close, disk
<1>3. ASSUME NEW s \in Savers, Return(s), file' = file, reader' = reader,
             diskFile' \in {diskFile, file}
      PROVE  WrittenAlone'
  <2> SUFFICES ASSUME NEW t \in Savers, At(t, "write")'
               PROVE  /\ saver'[t].inode # file'.inode
                      /\ saver'[t].inode # diskFile'.inode
                      /\ \A r \in Readers : saver'[t].inode # reader'[r]
                      /\ \A u \in Savers : u # t => saver'[t].inode # saver'[u].inode
    BY DEF WrittenAlone
  <2>1. t # s /\ saver'[t] = saver[t] /\ At(t, "write")
    BY <1>0, <1>3, ReturnFacts DEF At, Idle
  <2>2. saver[t].inode # NoInode
    BY <2>1 DEF Fresh, At
  <2> QED
    BY <1>0, <1>3, <2>1, <2>2, ReturnFacts DEF WrittenAlone, Idle
<1>4. ASSUME NEW s \in Savers, CreateTemp(s)
      PROVE  WrittenAlone'
  <2>1. CASE Return(s)
    BY <1>3, <1>4, <2>1 DEF CreateTemp, disk
  <2>2. CASE /\ created' = created + 1
             /\ saver' = [saver EXCEPT ![s] = [pc |-> "write", inode |-> created',
                                               change |-> 0]]
    <3>1. /\ saver'[s].inode = created + 1
          /\ \A t \in Savers : t # s => saver'[t] = saver[t]
      BY <1>0, <2>2
    <3> QED
      BY <1>0, <1>4, <3>1 DEF CreateTemp, disk, Fresh, WrittenAlone, At
  <2> QED
    BY <1>4, <2>1, <2>2 DEF CreateTemp
<1>5. ASSUME NEW s \in Savers, RemoveTemp(s) \/ SyncDir(s)
      PROVE  WrittenAlone'
  BY <1>3, <1>5 DEF RemoveTemp, SyncDir, disk
<1>6. ASSUME NEW s \in Savers, Rename(s)
      PROVE  WrittenAlone'
  <2>1. CASE Goto(s, "remove") /\ UNCHANGED <<changes, file, temps>>
    <3>1. "remove" \in Steps
      BY DEF Steps
    <3> QED
      BY <1>1, <1>6, <2>1, <3>1 DEF Rename, disk
  <2>2. CASE /\ file' = [inode |-> saver[s].inode, change |-> changes']
             /\ saver' = [saver EXCEPT ![s].pc = "syncdir", ![s].change = changes']
    <3>1. /\ saver'[s].inode = saver[s].inode /\ saver'[s].pc = "syncdir"
          /\ \A t \in Savers : t # s => saver'[t] = saver[t]
          /\ file'.inode = saver[s].inode
      BY <1>0, <2>2 DEF SaveStates
    <3> QED
      BY <1>6, <3>1 DEF Rename, disk, WrittenAlone, At
  <2> QED
    BY <1>6, <2>1, <2>2 DEF Rename
<1>7. ASSUME NEW r \in Readers, OpenFile(r) \/ ReadFile(r)
      PROVE  WrittenAlone'
  <2>1. \A q \in Readers : reader'[q] \in {reader[q], file.inode, NoInode}
    BY <1>7 DEF OpenFile, ReadFile, TypeOK
  <2>2. \A t \in Savers : At(t, "write") => saver[t].inode # NoInode
    BY DEF Fresh, At
  <2> QED
    BY <1>7, <2>1, <2>2 DEF OpenFile, ReadFile, disk, WrittenAlone, At
<1>8. CASE Delete
  <2>1. \A t \in Savers : At(t, "write") => saver[t].inode # NoInode
    BY DEF Fresh, At
  <2> QED
    BY <1>8, <2>1 DEF Delete, disk, WrittenAlone, At
<1>9. ASSUME NEW i \in Inodes, WriteBackData(i)
      PROVE  WrittenAlone'
  BY <1>9 DEF WriteBackData, WrittenAlone, At
<1>10. CASE WriteBackEntry
  BY <1>10 DEF WriteBackEntry, WrittenAlone, At
<1>11. CASE WriteBackDir
  BY <1>11 DEF WriteBackDir, disk, WrittenAlone, At
<1>12. CASE Crash
  BY <1>12 DEF Crash, WrittenAlone, At, Idle
<1>13. CASE UNCHANGED vars
  BY <1>13 DEF vars, WrittenAlone, At
<1> QED
  BY <1>2, <1>4, <1>5, <1>6, <1>7, <1>8, <1>9, <1>10, <1>11, <1>12, <1>13 DEF Next

(* What the cache and the disk hold changes only for the inode a Save is    *)
(* writing, and only towards what the cache has: a settled inode that       *)
(* nobody writes stays settled, through a crash as well.                    *)
LEMMA SettledStays ==
    ASSUME TypeOK, Fresh, [Next]_vars, NEW i \in Inodes, Settled(i),
           \A s \in Savers : At(s, "write") => saver[s].inode # i
    PROVE  Settled(i)'
<1>0. /\ content \in [Inodes -> Contents] /\ onDisk \in [Inodes -> Contents]
      /\ \A s \in Savers : saver[s].inode \in Inodes \union {NoInode}
  BY DEF TypeOK, SaveStates
<1>1. ASSUME NEW s \in Savers, Write(s)
      PROVE  Settled(i)'
  BY <1>0, <1>1 DEF Write, Settled, disk, At
<1>2. ASSUME NEW s \in Savers, Sync(s)
      PROVE  Settled(i)'
  BY <1>0, <1>2 DEF Sync, Settled
<1>3. ASSUME NEW j \in Inodes, WriteBackData(j)
      PROVE  Settled(i)'
  BY <1>0, <1>3 DEF WriteBackData, Settled
<1>4. CASE Crash
  BY <1>4 DEF Crash, Settled
<1>5. CASE UNCHANGED <<content, onDisk>>
  BY <1>5 DEF Settled
<1>6. ASSUME NEW s \in Savers,
             MakeDir(s) \/ CreateTemp(s) \/ Close(s) \/ Rename(s) \/ RemoveTemp(s)
                \/ SyncDir(s)
      PROVE  UNCHANGED <<content, onDisk>>
  BY <1>6 DEF MakeDir, CreateTemp, Close, Rename, RemoveTemp, SyncDir, disk
<1>7. ASSUME NEW r \in Readers, OpenFile(r) \/ ReadFile(r)
      PROVE  UNCHANGED <<content, onDisk>>
  BY <1>7 DEF OpenFile, ReadFile, disk
<1>8. Delete \/ WriteBackEntry \/ WriteBackDir \/ UNCHANGED vars
          => UNCHANGED <<content, onDisk>>
  BY DEF Delete, WriteBackEntry, WriteBackDir, disk, vars
<1> QED
  BY <1>1, <1>2, <1>3, <1>4, <1>5, <1>6, <1>7, <1>8 DEF Next

(* The same of the cache alone, which a crash may undo.                     *)
LEMMA CompleteStays ==
    ASSUME TypeOK, [Next]_vars, ~Crash, NEW i \in Inodes, content[i] = "complete",
           \A s \in Savers : At(s, "write") => saver[s].inode # i
    PROVE  content'[i] = "complete"
<1>0. content \in [Inodes -> Contents]
  BY DEF TypeOK
<1>1. ASSUME NEW s \in Savers, Write(s)
      PROVE  content'[i] = "complete"
  BY <1>0, <1>1 DEF Write, At
<1>2. ASSUME NEW s \in Savers,
             MakeDir(s) \/ CreateTemp(s) \/ Sync(s) \/ Close(s) \/ Rename(s)
                \/ RemoveTemp(s) \/ SyncDir(s)
      PROVE  UNCHANGED content
  BY <1>2 DEF MakeDir, CreateTemp, Sync, Close, Rename, RemoveTemp, SyncDir
<1>3. ASSUME NEW r \in Readers, OpenFile(r) \/ ReadFile(r)
      PROVE  UNCHANGED content
  BY <1>3 DEF OpenFile, ReadFile
<1>4. ASSUME NEW j \in Inodes, WriteBackData(j)
      PROVE  UNCHANGED content
  BY <1>4 DEF WriteBackData
<1>5. Delete \/ WriteBackEntry \/ WriteBackDir \/ UNCHANGED vars => UNCHANGED content
  BY DEF Delete, WriteBackEntry, WriteBackDir, vars
<1> QED
  BY <1>1, <1>2, <1>3, <1>4, <1>5 DEF Next

(* Nothing but its own steps and a crash moves a Save.                      *)
OwnStep(s) ==
    \/ MakeDir(s) \/ CreateTemp(s) \/ Write(s) \/ Sync(s) \/ Close(s)
    \/ Rename(s) \/ RemoveTemp(s) \/ SyncDir(s)

LEMMA OnlyOwnSteps ==
    ASSUME TypeOK, [Next]_vars, NEW t \in Savers, saver'[t] # saver[t]
    PROVE  Crash \/ OwnStep(t)
<1>0. saver \in [Savers -> SaveStates]
  BY DEF TypeOK
<1>1. {"create", "sync", "close", "rename", "remove"} \subseteq Steps
  BY DEF Steps
<1>2. ASSUME NEW s \in Savers, s # t, OwnStep(s)
      PROVE  FALSE
  <2>1. CASE MakeDir(s) \/ Write(s) \/ Sync(s) \/ Close(s)
    BY <1>0, <1>1, <1>2, <2>1, GotoFacts DEF MakeDir, Write, Sync, Close
  <2>2. CASE CreateTemp(s)
    BY <1>0, <1>2, <2>2, ReturnFacts DEF CreateTemp
  <2>3. CASE Rename(s)
    BY <1>0, <1>1, <1>2, <2>3, GotoFacts DEF Rename
  <2>4. CASE RemoveTemp(s) \/ SyncDir(s)
    BY <1>0, <1>2, <2>4, ReturnFacts DEF RemoveTemp, SyncDir
  <2> QED
    BY <1>2, <2>1, <2>2, <2>3, <2>4 DEF OwnStep
<1>3. ASSUME NEW r \in Readers, OpenFile(r) \/ ReadFile(r)
      PROVE  FALSE
  BY <1>3 DEF OpenFile, ReadFile
<1>4. ASSUME NEW i \in Inodes, WriteBackData(i)
      PROVE  FALSE
  BY <1>4 DEF WriteBackData
<1>5. ~(Delete \/ WriteBackEntry \/ WriteBackDir \/ UNCHANGED vars)
  BY DEF Delete, WriteBackEntry, WriteBackDir, vars
<1> QED
  BY <1>2, <1>3, <1>4, <1>5 DEF Next, OwnStep

(* A Save reaches its rename only with a settled inode.                     *)
LEMMA SyncedBeforeRenameStep ==
    ASSUME TypeOK, Fresh, WrittenAlone, SyncedBeforeRename, [Next]_vars
    PROVE  SyncedBeforeRename'
<1>0. /\ saver \in [Savers -> SaveStates]
      /\ content \in [Inodes -> Contents] /\ onDisk \in [Inodes -> Contents]
      /\ {"create", "sync", "close", "rename", "remove"} \subseteq Steps
  BY DEF TypeOK, Steps
<1>1. SUFFICES ASSUME NEW t \in Savers
               PROVE  /\ At(t, "sync")' => content'[saver'[t].inode] = "complete"
                      /\ saver'[t].pc \in {"close", "rename", "syncdir"}
                            => Settled(saver[t].inode)'
  BY DEF SyncedBeforeRename, Settled, At
<1>i. PICK i : i = saver[t].inode
  OBVIOUS
<1>2. saver[t].pc \notin {"idle", "create"} => i \in Inodes
  BY <1>0, <1>i DEF Fresh, SaveStates
<1>3. CASE saver'[t] = saver[t]
  <2>1. saver[t].pc \in {"sync", "close", "rename", "syncdir"}
           => \A s \in Savers : At(s, "write") => saver[s].inode # i
    BY <1>i DEF WrittenAlone, At
  <2>2. saver[t].pc # "idle" => ~Crash
    BY <1>3 DEF Crash, Idle
  <2>3. CASE At(t, "sync")
    <3>1. content'[i] = "complete"
      BY <1>i, <1>2, <2>1, <2>2, <2>3, CompleteStays DEF SyncedBeforeRename, At
    <3> QED
      BY <1>i, <1>3, <2>3, <3>1 DEF At
  <2>4. CASE saver[t].pc \in {"close", "rename", "syncdir"}
    <3>1. Settled(i)'
      <4>1. Settled(i) /\ i \in Inodes
        BY <1>i, <1>2, <2>4 DEF SyncedBeforeRename
      <4> QED
        BY <2>1, <2>4, <4>1, SettledStays
    <3> QED
      BY <1>i, <1>3, <2>4, <3>1 DEF At, Settled
  <2> QED
    BY <1>3, <2>3, <2>4 DEF At
<1>4. CASE saver'[t] # saver[t]
  <2>1. CASE MakeDir(t) \/ CreateTemp(t)
    <3>1. saver'[t].pc \in {"idle", "create", "write"}
      BY <1>0, <2>1, GotoFacts, ReturnFacts DEF MakeDir, CreateTemp, Idle
    <3> QED
      BY <3>1 DEF At
  <2>2. CASE Write(t)
    BY <1>0, <1>i, <1>2, <2>2, GotoFacts DEF Write, At
  <2>3. CASE Sync(t)
    <3>1. i \in Inodes /\ content[i] = "complete"
      BY <1>i, <1>2, <2>3 DEF Sync, At, SyncedBeforeRename
    <3> QED
      BY <1>0, <1>i, <2>3, <3>1, GotoFacts DEF Sync, At, Settled
  <2>4. CASE Close(t) \/ Rename(t)
    <3>1. Settled(i) /\ UNCHANGED <<content, onDisk>>
      BY <1>i, <2>4 DEF Close, Rename, At, SyncedBeforeRename, disk
    <3>2. saver'[t].inode = i /\ saver'[t].pc # "sync"
      <4>1. CASE Goto(t, "rename") \/ Goto(t, "remove")
        BY <1>0, <1>i, <4>1, GotoFacts
      <4>2. CASE saver' = [saver EXCEPT ![t].pc = "syncdir", ![t].change = changes']
        BY <1>0, <1>i, <4>2 DEF SaveStates
      <4> QED
        BY <2>4, <4>1, <4>2 DEF Close, Rename
    <3> QED
      BY <1>i, <3>1, <3>2 DEF Settled, At
  <2>5. CASE RemoveTemp(t) \/ SyncDir(t) \/ Crash
    <3>1. saver'[t] = Idle
      BY <1>0, <2>5, ReturnFacts DEF RemoveTemp, SyncDir, Crash
    <3> QED
      BY <3>1 DEF Idle, At
  <2> QED
    BY <1>4, <2>1, <2>2, <2>3, <2>4, <2>5, OnlyOwnSteps DEF OwnStep
<1> QED
  BY <1>3, <1>4

(* The inodes somebody can open now, later or after a crash come from those *)
(* that could be opened before the step and from a Save that renames.       *)
Reachable(i) ==
    i = file.inode \/ i = diskFile.inode \/ \E r \in Readers : reader[r] = i

Renaming(i) == \E s \in Savers : At(s, "rename") /\ saver[s].inode = i

LEMMA ReachableGrows ==
    ASSUME TypeOK, [Next]_vars, NEW i \in Inodes, Reachable(i)'
    PROVE  Reachable(i) \/ Renaming(i)
<1>0. i # NoInode
  BY BoundsAssumption DEF Inodes, NoInode
<1>1. ASSUME NEW s \in Savers,
             MakeDir(s) \/ CreateTemp(s) \/ Write(s) \/ Sync(s) \/ Close(s)
                \/ RemoveTemp(s)
      PROVE  UNCHANGED <<file, diskFile, reader>>
  BY <1>1 DEF MakeDir, CreateTemp, Write, Sync, Close, RemoveTemp, disk
<1>2. ASSUME NEW s \in Savers, Rename(s)
      PROVE  Reachable(i) \/ Renaming(i)
  BY <1>2 DEF Rename, disk, Reachable, Renaming
<1>3. ASSUME NEW s \in Savers, SyncDir(s)
      PROVE  Reachable(i)
  BY <1>3 DEF SyncDir, Reachable
<1>4. ASSUME NEW r \in Readers, OpenFile(r) \/ ReadFile(r)
      PROVE  Reachable(i)
  BY <1>0, <1>4 DEF TypeOK, OpenFile, ReadFile, disk, Reachable
<1>5. CASE Delete
  BY <1>0, <1>5 DEF Delete, disk, Reachable
<1>6. ASSUME NEW j \in Inodes, WriteBackData(j)
      PROVE  UNCHANGED <<file, diskFile, reader>>
  BY <1>6 DEF WriteBackData
<1>7. CASE WriteBackEntry
  BY <1>7 DEF WriteBackEntry, Reachable
<1>8. WriteBackDir \/ UNCHANGED vars => UNCHANGED <<file, diskFile, reader>>
  BY DEF WriteBackDir, disk, vars
<1>9. CASE Crash
  BY <1>0, <1>9 DEF Crash, Reachable, NoFile
<1>10. CASE UNCHANGED <<file, diskFile, reader>>
  BY <1>10 DEF Reachable
<1> QED
  BY <1>1, <1>2, <1>3, <1>4, <1>5, <1>6, <1>7, <1>8, <1>9, <1>10 DEF Next

LEMMA ReachableSettledStep ==
    ASSUME TypeOK, TypeOK', Fresh, Whole, [Next]_vars
    PROVE  ReachableSettled'
<1>1. ASSUME NEW i \in Inodes, Reachable(i)'
      PROVE  Settled(i)'
  <2>1. Reachable(i) \/ Renaming(i)
    BY <1>1, ReachableGrows
  <2>2. i # NoInode
    BY BoundsAssumption DEF Inodes, NoInode
  <2>3. Settled(i)
    BY <2>1, <2>2
       DEF Reachable, Renaming, At, Whole, ReachableSettled, SyncedBeforeRename
  <2>4. \A s \in Savers : At(s, "write") => saver[s].inode # i
    BY <2>1 DEF Reachable, Renaming, At, Whole, WrittenAlone
  <2> QED
    BY <2>3, <2>4, SettledStays
<1>2. /\ file'.inode \in Inodes \union {NoInode}
      /\ diskFile'.inode \in Inodes \union {NoInode}
      /\ \A r \in Readers : reader'[r] \in Inodes \union {NoInode}
  BY DEF TypeOK, Entries
<1>3. \A i \in Inodes : Reachable(i)' => Settled(i)'
  BY <1>1
<1> QED
  BY <1>2, <1>3 DEF ReachableSettled, Reachable, Settled

(* Whatever Savers, Readers and number of files there are, nobody finds less *)
(* than a whole conversation under <id>.json, not even after a crash: Save  *)
(* writes a file nobody else knows, syncs it, and only then renames it.     *)
THEOREM WholeFiles == Spec => []NeverPartial
<1>1. Init => Whole
  BY DEF Init, Whole, WrittenAlone, SyncedBeforeRename, ReachableSettled, At, Idle,
         NoFile, NoInode
<1>2. TypeOK /\ TypeOK' /\ Fresh /\ Whole /\ [Next]_vars => Whole'
  <2> SUFFICES ASSUME TypeOK, TypeOK', Fresh, Whole, [Next]_vars
               PROVE  Whole'
    OBVIOUS
  <2>1. WrittenAlone'
    BY WrittenAloneStep DEF Whole
  <2>2. SyncedBeforeRename'
    BY SyncedBeforeRenameStep DEF Whole
  <2>3. ReachableSettled'
    BY ReachableSettledStep
  <2> QED
    BY <2>1, <2>2, <2>3 DEF Whole
<1>3. Whole => NeverPartial
  BY DEF Whole, ReachableSettled, Settled, NeverPartial
<1> QED
  BY <1>1, <1>2, <1>3, TypeCorrect, FreshInvariant, PTL DEF Spec

------------------------------------------------------------------------------

(* What the disk has is never newer than what the processes see, never older *)
(* than what has been promised, and the change of a Save that has renamed   *)
(* but not synced yet is in the file until a crash ends that Save.          *)
Durable ==
    /\ promised <= diskFile.change
    /\ diskFile.change <= file.change
    /\ file.change <= changes
    /\ \A s \in Savers : At(s, "syncdir") => saver[s].change <= file.change

LEMMA DurableStep ==
    ASSUME TypeOK, Durable, [Next]_vars
    PROVE  Durable'
<1>0. /\ saver \in [Savers -> SaveStates]
      /\ promised \in Nat /\ diskFile.change \in Nat /\ file.change \in Nat
      /\ changes \in Nat /\ \A s \in Savers : saver[s].change \in Nat
      /\ {"create", "sync", "close", "rename", "remove"} \subseteq Steps
  BY DEF TypeOK, SaveStates, Entries, Steps
<1>1. ASSUME NEW s \in Savers, NEW next \in Steps, Goto(s, next), next # "syncdir",
             UNCHANGED <<file, diskFile, changes, promised>>
      PROVE  Durable'
  BY <1>1, <1>0, GotoFacts DEF Durable, At
<1>2. ASSUME NEW s \in Savers, MakeDir(s) \/ Write(s) \/ Sync(s) \/ Close(s)
      PROVE  Durable'
  BY <1>0, <1>1, <1>2 DEF MakeDir, Write, Sync, Close, disk, history, Durable
<1>3. ASSUME NEW s \in Savers, Return(s),
             UNCHANGED <<file, diskFile, changes, promised>>
      PROVE  Durable'
  BY <1>0, <1>3, ReturnFacts DEF Durable, At, Idle
<1>4. ASSUME NEW s \in Savers, CreateTemp(s)
      PROVE  Durable'
  <2>1. CASE saver' = [saver EXCEPT ![s] = [pc |-> "write", inode |-> created',
                                            change |-> 0]]
    BY <1>0, <1>4, <2>1 DEF CreateTemp, disk, history, Durable, At
  <2> QED
    BY <1>3, <1>4, <2>1 DEF CreateTemp, disk, history
<1>5. ASSUME NEW s \in Savers, Rename(s)
      PROVE  Durable'
  <2>1. CASE /\ changes' = changes + 1
             /\ file' = [inode |-> saver[s].inode, change |-> changes']
             /\ saver' = [saver EXCEPT ![s].pc = "syncdir", ![s].change = changes']
    <3>1. /\ file'.change = changes + 1 /\ saver'[s].change = changes + 1
          /\ \A t \in Savers : t # s => saver'[t] = saver[t]
      BY <1>0, <2>1 DEF SaveStates
    <3> QED
      BY <1>0, <1>5, <2>1, <3>1 DEF Rename, disk, Durable, At
  <2> QED
    BY <1>0, <1>1, <1>5, <2>1 DEF Rename, disk, Durable
<1>6. ASSUME NEW s \in Savers, RemoveTemp(s)
      PROVE  Durable'
  BY <1>3, <1>6 DEF RemoveTemp, disk, history
<1>7. ASSUME NEW s \in Savers, SyncDir(s)
      PROVE  Durable'
  <2>1. CASE diskFile' = file /\ promised' = Later(promised, saver[s].change)
    <3>1. \A t \in Savers : At(t, "syncdir")' => At(t, "syncdir") /\ saver'[t] = saver[t]
      BY <1>0, <1>7, ReturnFacts DEF SyncDir, At, Idle
    <3> QED
      BY <1>0, <1>7, <2>1, <3>1 DEF SyncDir, Later, Durable, At
  <2> QED
    BY <1>3, <1>7, <2>1 DEF SyncDir
<1>8. ASSUME NEW r \in Readers, OpenFile(r) \/ ReadFile(r)
      PROVE  Durable'
  BY <1>8 DEF OpenFile, ReadFile, disk, history, Durable, At
<1>9. CASE Delete
  BY <1>0, <1>9 DEF Delete, disk, Durable, At
<1>10. ASSUME NEW i \in Inodes, WriteBackData(i)
       PROVE  Durable'
  BY <1>10 DEF WriteBackData, history, Durable, At
<1>11. CASE WriteBackEntry
  BY <1>0, <1>11 DEF WriteBackEntry, history, Durable, At
<1>12. CASE WriteBackDir
  BY <1>12 DEF WriteBackDir, disk, history, Durable, At
<1>13. CASE Crash
  <2>1. \A s \in Savers : ~At(s, "syncdir")'
    BY <1>13 DEF Crash, At, Idle
  <2>2. /\ file'.change \in Nat /\ diskFile'.change = file'.change
        /\ promised' <= file'.change /\ file'.change <= changes'
    BY <1>0, <1>13 DEF Crash, NoFile, Durable
  <2> QED
    BY <2>1, <2>2 DEF Durable
<1>14. CASE UNCHANGED vars
  BY <1>14 DEF vars, Durable, At
<1> QED
  BY <1>2, <1>4, <1>5, <1>6, <1>7, <1>8, <1>9, <1>10, <1>11, <1>12, <1>13, <1>14
     DEF Next

(* No crash undoes a Save that has synced the directory and returned, with  *)
(* any number of Saves at once, unless it loses the directory itself.       *)
THEOREM SavesAreDurable == Spec => []SavedSurvivesCrash
<1>1. Init => Durable
  BY DEF Init, Durable, NoFile, At, Idle
<1>2. TypeOK /\ Durable /\ [Next]_vars => Durable'
  BY DurableStep
<1>3. TypeOK /\ Durable => SavedSurvivesCrash
  BY DEF TypeOK, Entries, Durable, SavedSurvivesCrash
<1> QED
  BY <1>1, <1>2, <1>3, TypeCorrect, PTL DEF Spec

------------------------------------------------------------------------------

(* The temporary name goes with the rename, so a Save that has renamed has   *)
(* nothing left to remove.                                                  *)
NameGone == \A s \in Savers : At(s, "syncdir") => saver[s].inode \notin temps

LEMMA NameGoneStep ==
    ASSUME TypeOK, Fresh, NameGone, [Next]_vars
    PROVE  NameGone'
<1>0. /\ saver \in [Savers -> SaveStates]
      /\ created \in Nat /\ \A s \in Savers : saver[s].inode \in Nat
      /\ {"create", "sync", "close", "rename", "remove"} \subseteq Steps
  BY BoundsAssumption DEF TypeOK, SaveStates, Inodes, NoInode, Steps
<1>1. ASSUME NEW s \in Savers, NEW next \in Steps, Goto(s, next), next # "syncdir",
             temps' \subseteq temps
      PROVE  NameGone'
  BY <1>0, <1>1, GotoFacts DEF NameGone, At
<1>2. ASSUME NEW s \in Savers, Return(s), temps' \subseteq temps
      PROVE  NameGone'
  BY <1>0, <1>2, ReturnFacts DEF NameGone, At, Idle
<1>3. ASSUME NEW s \in Savers, MakeDir(s) \/ Write(s) \/ Sync(s) \/ Close(s)
      PROVE  NameGone'
  BY <1>0, <1>1, <1>3 DEF MakeDir, Write, Sync, Close, disk
<1>4. ASSUME NEW s \in Savers, CreateTemp(s)
      PROVE  NameGone'
  <2>1. CASE /\ temps' = temps \union {created + 1}
             /\ saver' = [saver EXCEPT ![s] = [pc |-> "write", inode |-> created',
                                               change |-> 0]]
    BY <1>0, <2>1 DEF NameGone, At, Fresh
  <2> QED
    BY <1>2, <1>4, <2>1 DEF CreateTemp
<1>5. ASSUME NEW s \in Savers, Rename(s)
      PROVE  NameGone'
  <2>1. CASE /\ temps' = temps \ {saver[s].inode}
             /\ saver' = [saver EXCEPT ![s].pc = "syncdir", ![s].change = changes']
    <3>1. saver'[s].inode = saver[s].inode /\ \A t \in Savers : t # s => saver'[t] = saver[t]
      BY <1>0, <2>1 DEF SaveStates
    <3>2. ASSUME NEW t \in Savers, saver'[t].pc = "syncdir" PROVE saver'[t].inode \notin temps'
      <4>1. temps' = temps \ {saver[s].inode}
        BY <2>1
      <4> QED
        BY <4>1, <3>1, <3>2 DEF NameGone, At
    <3> QED
      BY <3>2 DEF NameGone, At
  <2> QED
    BY <1>0, <1>1, <1>5, <2>1 DEF Rename
<1>6. ASSUME NEW s \in Savers, RemoveTemp(s) \/ SyncDir(s)
      PROVE  NameGone'
  BY <1>2, <1>6 DEF RemoveTemp, SyncDir
<1>7. CASE Crash
  BY <1>7 DEF Crash, NameGone, At, Idle
<1>8. CASE UNCHANGED <<saver, temps>>
  BY <1>8 DEF NameGone, At
<1> QED
  BY <1>3, <1>4, <1>5, <1>6, <1>7, <1>8
     DEF Next, OpenFile, ReadFile, Delete, WriteBackData, WriteBackEntry, WriteBackDir, vars

(* A name is left behind neither by the Save that has it nor by another.     *)
LEMMA TempsKept ==
    ASSUME TypeOK, Fresh, NameGone, [Next]_vars, ~Crash,
           NEW i \in temps', i \notin temps \/ InUse(i)
    PROVE  InUse(i)'
<1>0. /\ saver \in [Savers -> SaveStates] /\ created \in Nat
      /\ {"create", "sync", "close", "rename", "remove"} \subseteq Steps
  BY BoundsAssumption DEF TypeOK, Steps
<1>1. ASSUME NEW s \in Savers, NEW next \in Steps, Goto(s, next), temps' \subseteq temps
      PROVE  InUse(i)'
  BY <1>0, <1>1, GotoFacts DEF InUse
<1>2. ASSUME NEW s \in Savers, Return(s), temps' \subseteq temps, saver[s].inode # i
      PROVE  InUse(i)'
  BY <1>0, <1>2, ReturnFacts DEF InUse
<1>3. ASSUME NEW s \in Savers, MakeDir(s) \/ Write(s) \/ Sync(s) \/ Close(s)
      PROVE  InUse(i)'
  BY <1>0, <1>1, <1>3 DEF MakeDir, Write, Sync, Close, disk
<1>4. ASSUME NEW s \in Savers, CreateTemp(s)
      PROVE  InUse(i)'
  <2>1. saver[s].inode = NoInode /\ NoInode \notin temps
    BY <1>4, BoundsAssumption DEF CreateTemp, At, Fresh, TypeOK, Inodes, NoInode
  <2>2. CASE /\ temps' = temps \union {created'}
             /\ saver' = [saver EXCEPT ![s] = [pc |-> "write", inode |-> created',
                                               change |-> 0]]
    BY <1>0, <2>1, <2>2 DEF InUse
  <2>3. CASE Return(s) /\ UNCHANGED temps
    BY <1>2, <2>1, <2>3
  <2> QED
    BY <1>4, <2>2, <2>3 DEF CreateTemp
<1>5. ASSUME NEW s \in Savers, Rename(s)
      PROVE  InUse(i)'
  <2>1. CASE saver' = [saver EXCEPT ![s].pc = "syncdir", ![s].change = changes']
    BY <1>0, <1>5, <2>1 DEF Rename, InUse, SaveStates
  <2> QED
    BY <1>0, <1>1, <1>5, <2>1 DEF Rename
<1>6. ASSUME NEW s \in Savers, RemoveTemp(s)
      PROVE  InUse(i)'
  BY <1>2, <1>6 DEF RemoveTemp
<1>7. ASSUME NEW s \in Savers, SyncDir(s)
      PROVE  InUse(i)'
  BY <1>2, <1>7 DEF SyncDir, NameGone
<1>8. CASE UNCHANGED <<saver, temps>>
  BY <1>8 DEF InUse
<1> QED
  BY <1>3, <1>4, <1>5, <1>6, <1>7, <1>8
     DEF Next, OpenFile, ReadFile, Delete, WriteBackData, WriteBackEntry, WriteBackDir, vars

(* However many Saves there are and whichever of their system calls fail,   *)
(* a temporary file that no Save is busy with is one that a crash has left.  *)
THEOREM TempsAreRemoved == Spec => TempsCleanedUp
<1>1. Init => NameGone
  BY DEF Init, NameGone
<1>2. TypeOK /\ Fresh /\ NameGone /\ [Next]_vars => NameGone'
  BY NameGoneStep
<1>3. TypeOK /\ Fresh /\ NameGone /\ [Next]_vars
        => [Crash \/ \A i \in temps' : InUse(i)' \/ (i \in temps /\ ~InUse(i))]_vars
  BY TempsKept
<1> QED
  BY <1>1, <1>2, <1>3, TypeCorrect, FreshInvariant, PTL DEF Spec, TempsCleanedUp
==============================================================================
