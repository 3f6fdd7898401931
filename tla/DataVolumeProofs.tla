-------------------------- MODULE DataVolumeProofs --------------------------
(***************************************************************************)
(* Proofs about DataVolume, for any number of sessions, attempts, commits  *)
(* and kills, whether starts overlap or not.                               *)
(***************************************************************************)
EXTENDS DataVolume, TLAPS

-----------------------------------------------------------------------------
(***************************************************************************)
(* The lock.  The session that made the lock file is the only one past     *)
(* acquire, so what it unlocks is its own.                                 *)
(***************************************************************************)
\* The inductive invariant: VolumeInv, and that who asks for the lock may ask again.
LockInv ==
  /\ VolumeInv
  /\ \A s \in Sessions : pc[s] = "acquire" => tries[s] < LockAttempts

\* An empty archive and an empty directory are of their types.
LEMMA Empty ==
  /\ NoData \in [Data -> Absent .. MaxCommits + 1]
  /\ Nothing \in [Entries -> Absent .. MaxCommits + 1]
<1>1. Absent \in Absent .. MaxCommits + 1
  BY ConstantsAssumption DEF Absent
<1> QED
  BY <1>1 DEF NoData, Nothing

\* An entry that is there is in a directory that is there.
LEMMA EntryInDir == ASSUME TypeOK, NEW e \in Entries, Is(e) PROVE dir
BY DEF TypeOK, Is, Nothing

\* VolumeStore: create and remove.
LEMMA StoreInv ==
  ASSUME LockInv, quiet' \in BOOLEAN, NEW s \in Sessions,
         CreateDir(s) \/ WriteMarker(s) \/ Remove(s) \/ RemoveDir(s) \/ RemoveFails(s)
  PROVE  LockInv'
<1> USE ConstantsAssumption DEF Absent, LockInv, VolumeInv, TypeOK, WriterHoldsLock,
  OnlyKillsLeaveLocks, Goto, Step, volume, backup, StartPCs, BackupPCs
<1>1. CASE CreateDir(s)
  BY <1>1 DEF CreateDir
<1>2. CASE WriteMarker(s)
  BY <1>2 DEF WriteMarker, Put, Entries
<1>3. CASE Remove(s)
  BY <1>3 DEF Remove
<1>4. CASE RemoveDir(s)
  BY <1>4 DEF RemoveDir
<1>5. CASE RemoveFails(s)
  BY <1>5 DEF RemoveFails
<1> QED
  BY <1>1, <1>2, <1>3, <1>4, <1>5

\* What a start does to the volume.
LEMMA StartInv ==
  ASSUME LockInv, quiet' \in BOOLEAN, NEW s \in Sessions,
         Start(s) \/ Probe(s) \/ Install(s) \/ InstallEnds(s) \/ InitFails(s)
         \/ WriteInitSql(s) \/ ChownTree(s) \/ Spawn(s) \/ Waited(s)
  PROVE  LockInv'
<1> USE ConstantsAssumption DEF Absent, LockInv, VolumeInv, TypeOK, WriterHoldsLock,
  OnlyKillsLeaveLocks, Goto, Step, volume, backup, StartPCs, BackupPCs
<1>1. CASE Start(s)
  BY <1>1 DEF Start
<1>2. CASE Probe(s)
  BY <1>2 DEF Probe
<1>3. CASE Install(s)
  BY <1>3 DEF Install, Put, Entries, Installing
<1>4. CASE InstallEnds(s)
  BY <1>4, EntryInDir DEF InstallEnds, Entries, Data, Installed
<1>5. CASE InitFails(s)
  BY <1>5 DEF InitFails
<1>6. CASE WriteInitSql(s)
  BY <1>6 DEF WriteInitSql, Put, Entries
<1>7. CASE ChownTree(s)
  BY <1>7 DEF ChownTree
<1>8. CASE Spawn(s)
  BY <1>8 DEF Spawn
<1>9. CASE Waited(s)
  BY <1>9 DEF Waited
<1> QED
  BY <1>1, <1>2, <1>3, <1>4, <1>5, <1>6, <1>7, <1>8, <1>9

\* Backups: only the writer has a lock to give back.
LEMMA BackupInv ==
  ASSUME LockInv, quiet' \in BOOLEAN, NEW s \in Sessions,
         Backup(s) \/ acquire(s) \/ OpenArchive(s) \/ FinishBackup(s) \/ BackupFails(s)
  PROVE  LockInv'
<1> USE ConstantsAssumption DEF Absent, LockInv, VolumeInv, TypeOK, WriterHoldsLock,
  OnlyKillsLeaveLocks, Goto, Step, volume, backup, StartPCs, BackupPCs
<1>1. CASE Backup(s)
  BY <1>1 DEF Backup, Forget
<1>2. CASE acquire(s)
  BY <1>2 DEF acquire
<1>3. CASE OpenArchive(s)
  BY <1>3, Empty DEF OpenArchive
<1>4. CASE FinishBackup(s)
  BY <1>4 DEF FinishBackup, Forget, Unlock
<1>5. CASE BackupFails(s)
  BY <1>5 DEF BackupFails, Forget, Unlock
<1> QED
  BY <1>1, <1>2, <1>3, <1>4, <1>5

\* An entry is removed, cleared or copied.
LEMMA EntryInv ==
  ASSUME LockInv, quiet' \in BOOLEAN, NEW s \in Sessions, NEW e \in Entries,
         RemoveEntry(s, e) \/ ClearEntry(s, e) \/ CopyEntry(s, e)
  PROVE  LockInv'
<1> USE ConstantsAssumption DEF Absent, LockInv, VolumeInv, TypeOK, WriterHoldsLock,
  OnlyKillsLeaveLocks, Goto, Step, volume, backup, StartPCs, BackupPCs
<1>1. CASE RemoveEntry(s, e)
  BY <1>1, EntryInDir DEF RemoveEntry, Put
<1>2. CASE ClearEntry(s, e)
  BY <1>2, EntryInDir DEF ClearEntry, Removable, Put
<1>3. CASE CopyEntry(s, e)
  BY <1>3 DEF CopyEntry, Entries
<1> QED
  BY <1>1, <1>2, <1>3

\* The engine writes its log and pages.
LEMMA EngineInv ==
  ASSUME LockInv, quiet' \in BOOLEAN, Engine
  PROVE  LockInv'
<1> USE ConstantsAssumption DEF Absent, LockInv, VolumeInv, TypeOK, WriterHoldsLock,
  OnlyKillsLeaveLocks, Goto, Step, volume, backup, StartPCs, BackupPCs
<1>1. CASE CommitLog
  BY <1>1, EntryInDir DEF CommitLog, Put, Entries, Data, Is
<1>2. CASE FlushPages
  BY <1>2, EntryInDir DEF FlushPages, Put, Entries, Data, Is
<1>3. CASE EngineDies
  BY <1>3 DEF EngineDies
<1> QED
  BY <1>1, <1>2, <1>3 DEF Engine

\* A kill may leave a lock, and is counted.
LEMMA KilledInv ==
  ASSUME LockInv, quiet' \in BOOLEAN, NEW s \in Sessions, Killed(s)
  PROVE  LockInv'
BY ConstantsAssumption DEF Killed, Forget, Absent, LockInv, VolumeInv, TypeOK, WriterHoldsLock,
  OnlyKillsLeaveLocks, Goto, Step, volume, backup, StartPCs, BackupPCs

\* Every step keeps the invariant.
LEMMA LockStep == LockInv /\ [Next]_vars => LockInv'
<1> SUFFICES ASSUME LockInv, [Next]_vars PROVE LockInv'
  OBVIOUS
<1>1. CASE UNCHANGED vars
  BY <1>1 DEF vars, Absent, LockInv, VolumeInv, TypeOK, WriterHoldsLock, OnlyKillsLeaveLocks, Goto,
    Step, volume, backup, StartPCs, BackupPCs
<1>2. CASE Next
  <2>1. quiet' \in BOOLEAN
    BY <1>2 DEF Next, History
  <2>2. CASE Engine
    BY <2>1, <2>2, EngineInv
  <2>3. ASSUME NEW s \in Sessions, Command(s) PROVE LockInv'
    BY <2>1, <2>3, StoreInv, StartInv, BackupInv, EntryInv DEF Command
  <2>4. ASSUME NEW s \in Sessions, Issued(s) PROVE LockInv'
    BY <2>1, <2>4, StoreInv, StartInv, BackupInv DEF Issued
  <2>5. ASSUME NEW s \in Sessions, Killed(s) PROVE LockInv'
    BY <2>1, <2>5, KilledInv
  <2> QED
    BY <1>2, <2>2, <2>3, <2>4, <2>5 DEF Next
<1> QED
  BY <1>1, <1>2

\* There is no lock at first.
LEMMA InitLock == Init => LockInv
<1> SUFFICES ASSUME Init PROVE LockInv
  OBVIOUS
<1>1. dir \/ file = Nothing
  BY DEF Init
<1>2. TypeOK
  <2>1. 0 \in 0 .. LockAttempts /\ 0 \in 0 .. MaxKills
    BY ConstantsAssumption
  <2>2. pc \in [Sessions -> {"idle", "mark", "remove"} \cup StartPCs \cup BackupPCs]
    BY DEF Init
  <2>3. tries \in [Sessions -> 0 .. LockAttempts] /\ visited \in [Sessions -> SUBSET Data]
    BY <2>1 DEF Init
  <2> QED
    BY <1>1, <2>1, <2>2, <2>3, Empty DEF Init, TypeOK
<1>3. WriterHoldsLock /\ OnlyKillsLeaveLocks
  BY DEF Init, WriterHoldsLock, OnlyKillsLeaveLocks
<1>4. \A s \in Sessions : tries[s] < LockAttempts
  BY ConstantsAssumption DEF Init
<1> QED
  BY <1>2, <1>3, <1>4 DEF LockInv, VolumeInv

\* No two backups write one archive, and a lock that nobody holds is a killed backup's
\* (VolumeLock: acquire and Drop).
THEOREM LocksExclude == Spec => []VolumeInv
<1>1. LockInv => VolumeInv
  BY DEF LockInv
<1> QED
  BY <1>1, InitLock, LockStep, PTL DEF Spec

-----------------------------------------------------------------------------
(***************************************************************************)
(* What is in an archive: while nothing happens in the volume, what a      *)
(* backup has come by is what is there.  It needs the lock, as the archive *)
(* of two backups at once would be neither's.                              *)
(***************************************************************************)
\* The inductive invariant.
QuietInv ==
  /\ LockInv
  /\ \A s \in Sessions : pc[s] \in {"acquire", "open"} => visited[s] = {}
  /\ \A s \in Sessions : quiet /\ pc[s] = "copy" => \A e \in visited[s] : archive[e] = file[e]

\* Who does not write the archive disturbs it only by changing the volume, which History
\* notes.
LEMMA ElsewhereQuiet ==
  ASSUME QuietInv, LockInv', History, UNCHANGED <<archive, visited>>,
         \A t \in Sessions : pc'[t] \in {"acquire", "open", "copy"} => pc'[t] = pc[t]
  PROVE  QuietInv'
BY DEF QuietInv, History

\* A backup: it opens the archive when no other copies.
LEMMA BackupQuiet ==
  ASSUME QuietInv, LockInv', History, NEW s \in Sessions,
         Backup(s) \/ acquire(s) \/ OpenArchive(s) \/ FinishBackup(s) \/ BackupFails(s) \/ Killed(s)
  PROVE  QuietInv'
<1> USE DEF QuietInv, History, LockInv, VolumeInv, TypeOK, WriterHoldsLock, Goto, Step, Forget, volume
<1>1. CASE Backup(s)
  BY <1>1 DEF Backup
<1>2. CASE acquire(s)
  BY <1>2 DEF acquire
<1>3. CASE OpenArchive(s)
  BY <1>3 DEF OpenArchive
<1>4. CASE FinishBackup(s)
  BY <1>4 DEF FinishBackup
<1>5. CASE BackupFails(s)
  BY <1>5 DEF BackupFails
<1>6. CASE Killed(s)
  BY <1>6 DEF Killed
<1> QED
  BY <1>1, <1>2, <1>3, <1>4, <1>5, <1>6

\* One entry is copied, as it is.
LEMMA CopyQuiet ==
  ASSUME QuietInv, LockInv', History, NEW s \in Sessions, NEW e \in Entries, CopyEntry(s, e)
  PROVE  QuietInv'
<1>1. \A t \in Sessions \ {s} : pc[t] # "copy"
  BY DEF CopyEntry, QuietInv, LockInv, VolumeInv, WriterHoldsLock
<1>2. archive'[e] = file[e] /\ \A d \in visited[s] : archive[d] = file[d] => archive'[d] = file[d]
  BY DEF CopyEntry, QuietInv, LockInv, VolumeInv, TypeOK
<1>3. visited'[s] = visited[s] \cup {e} /\ \A t \in Sessions \ {s} : visited'[t] = visited[t]
  BY DEF CopyEntry, QuietInv, LockInv, VolumeInv, TypeOK
<1> QED
  BY <1>1, <1>2, <1>3 DEF CopyEntry, QuietInv, History, volume

\* Every step keeps the invariant.
LEMMA QuietStep == QuietInv /\ [Next]_vars => QuietInv'
<1> SUFFICES ASSUME QuietInv, [Next]_vars PROVE QuietInv'
  OBVIOUS
<1>1. LockInv'
  BY LockStep DEF QuietInv
<1>2. CASE UNCHANGED vars
  BY <1>1, <1>2 DEF vars, volume, backup, QuietInv
<1>3. CASE Next
  <2>1. History
    BY <1>3 DEF Next
  <2> USE DEF Goto, Step, volume, backup
  <2>2. CASE Engine
    BY <1>1, <2>1, <2>2, ElsewhereQuiet DEF Engine, CommitLog, FlushPages, EngineDies
  <2>3. ASSUME NEW s \in Sessions, Issued(s) PROVE QuietInv'
    <3>1. pc \in [Sessions -> {"idle", "mark", "remove"} \cup StartPCs \cup BackupPCs]
      BY DEF QuietInv, LockInv, VolumeInv, TypeOK
    <3>2. CASE Backup(s)
      BY <1>1, <2>1, <3>2, BackupQuiet
    <3>3. CASE CreateDir(s) \/ Remove(s) \/ Start(s)
      BY <1>1, <2>1, <3>1, <3>3, ElsewhereQuiet DEF CreateDir, Remove, Start
    <3> QED
      BY <2>3, <3>2, <3>3 DEF Issued
  <2>4. ASSUME NEW s \in Sessions, Killed(s) PROVE QuietInv'
    BY <1>1, <2>1, <2>4, BackupQuiet
  <2>5. ASSUME NEW s \in Sessions, Command(s) PROVE QuietInv'
    <3>1. pc \in [Sessions -> {"idle", "mark", "remove"} \cup StartPCs \cup BackupPCs]
      BY DEF QuietInv, LockInv, VolumeInv, TypeOK
    <3>2. CASE WriteMarker(s) \/ RemoveDir(s) \/ RemoveFails(s)
      BY <1>1, <2>1, <3>1, <3>2, ElsewhereQuiet DEF WriteMarker, RemoveDir, RemoveFails
    <3>3. ASSUME NEW e \in Entries, RemoveEntry(s, e) \/ ClearEntry(s, e) PROVE QuietInv'
      BY <1>1, <2>1, <3>3, ElsewhereQuiet DEF RemoveEntry, ClearEntry
    <3>4. ASSUME NEW e \in Entries, CopyEntry(s, e) PROVE QuietInv'
      BY <1>1, <2>1, <3>4, CopyQuiet
    <3>5. CASE Probe(s) \/ Install(s) \/ InstallEnds(s) \/ InitFails(s) \/ WriteInitSql(s)
               \/ ChownTree(s) \/ Spawn(s) \/ Waited(s)
      BY <1>1, <2>1, <3>1, <3>5, ElsewhereQuiet
      DEF Probe, Install, InstallEnds, InitFails, WriteInitSql, ChownTree, Spawn, Waited
    <3>6. CASE acquire(s) \/ OpenArchive(s) \/ FinishBackup(s) \/ BackupFails(s)
      BY <1>1, <2>1, <3>6, BackupQuiet
    <3> QED
      BY <2>5, <3>2, <3>3, <3>4, <3>5, <3>6 DEF Command
  <2> QED
    BY <1>3, <2>2, <2>3, <2>4, <2>5 DEF Next
<1> QED
  BY <1>2, <1>3

\* A backup reports success only with FinishBackup.
LEMMA FinishIsExact ==
  ASSUME QuietInv, [Next]_vars, quiet, ~complete, complete'
  PROVE  \A e \in Data : archive'[e] = file[e]
<1>1. PICK s \in Sessions : FinishBackup(s)
  BY DEF Next, Engine, CommitLog, FlushPages, EngineDies, Command, Issued, vars, volume, backup,
     CreateDir, WriteMarker, Remove, RemoveEntry, RemoveDir, RemoveFails, Start, Probe, ClearEntry,
     Install, InstallEnds, InitFails, WriteInitSql, ChownTree, Spawn, Waited, Backup, acquire,
     OpenArchive, CopyEntry, BackupFails, Killed
<1> QED
  BY <1>1 DEF FinishBackup, QuietInv, Step

\* The archive of a volume in which nothing happened is the volume, however many backups
\* there are (backup_volume under VolumeLock).
THEOREM BackupsAreExact == Spec => FinishedBackupIsExact
<1>1. Init => QuietInv
  BY InitLock DEF Init, QuietInv
<1>2. QuietInv /\ [Next]_vars =>
        [quiet /\ ~complete /\ complete' => \A e \in Data : archive'[e] = file[e]]_vars
  BY FinishIsExact
<1> QED
  BY <1>1, <1>2, QuietStep, PTL DEF Spec, FinishedBackupIsExact

-----------------------------------------------------------------------------
(***************************************************************************)
(* What a start does to a volume that has been used: nothing, because an   *)
(* engine has its log and pages only where it has its system tables, and   *)
(* by these a start knows the volume.                                      *)
(***************************************************************************)
\* One start at a time, and until its engine is up there is none.
OneStart ==
  /\ \A s, t \in Sessions : pc[s] \in StartPCs /\ pc[t] \in StartPCs => s = t
  /\ \A s \in Sessions : pc[s] \in StartPCs \ {"running"} => engine = "down"

\* As long as no removal is unfinished.
Known ==
  /\ \A e \in Data : Is(e) => Is("system")
  /\ \A s \in Sessions : pc[s] = "clear" => ~Is("system")
  /\ \A s \in Sessions : pc[s] = "installing" => \A e \in Data : ~Is(e)

\* As long as no installation is, either.
Ready ==
  /\ Is("system") => file["system"] = Installed /\ \A e \in Data : Is(e)
  /\ \A s \in Sessions : pc[s] \in {"sql", "chown", "spawn"} => Is("system")
  /\ \A s \in Sessions : pc[s] \in {"chown", "spawn"} => Is("sql")
  /\ \A s \in Sessions : pc[s] = "spawn" => ~foreign

\* The inductive invariant.
StartsInv ==
  /\ LockInv
  /\ \A s \in Sessions : pc[s] = "remove" => "removal" \in unfinished
  /\ Serial => /\ OneStart
               /\ "removal" \notin unfinished => Known
               /\ unfinished = {} => Ready

\* A step that leaves the files, and lets no start and no removal go on.
LEMMA ElsewhereStarts ==
  ASSUME StartsInv, LockInv', UNCHANGED <<file, foreign, unfinished>>, engine' \in {engine, "down"},
         \A t \in Sessions : pc'[t] \in StartPCs \cup {"remove"} => pc'[t] = pc[t]
  PROVE  StartsInv'
<1> USE DEF StartsInv, StartPCs
<1>1. Serial => OneStart'
  BY DEF OneStart
<1>2. Serial /\ "removal" \notin unfinished => Known'
  BY DEF Known, Is
<1>3. Serial /\ unfinished = {} => Ready'
  BY DEF Ready, Is
<1> QED
  BY <1>1, <1>2, <1>3

\* VolumeStore: a removal is noted as long as it, or a start beside it, goes on.
LEMMA StoreStarts ==
  ASSUME StartsInv, LockInv', NEW s \in Sessions,
         \/ CreateDir(s) \/ WriteMarker(s) \/ Remove(s) \/ RemoveDir(s) \/ RemoveFails(s)
         \/ \E e \in Entries : RemoveEntry(s, e)
  PROVE  StartsInv'
<1>0. /\ pc \in [Sessions -> {"idle", "mark", "remove"} \cup StartPCs \cup BackupPCs]
      /\ file \in [Entries -> Absent .. MaxCommits + 1]
  BY DEF StartsInv, LockInv, VolumeInv, TypeOK
<1> USE DEF Goto, Step, volume, backup
<1>1. CASE CreateDir(s) \/ RemoveFails(s)
  BY <1>0, <1>1, ElsewhereStarts DEF CreateDir, RemoveFails, StartPCs
<1>2. CASE WriteMarker(s)
  <2>1. /\ UNCHANGED <<foreign, unfinished, engine>>
        /\ \A t \in Sessions : pc'[t] \in StartPCs \cup {"remove"} => pc'[t] = pc[t]
        /\ \A e \in Entries \ {"marker"} : file'[e] = file[e]
    BY <1>0, <1>2 DEF WriteMarker, Put, StartPCs
  <2> USE <2>1 DEF StartsInv, Entries, Data, StartPCs
  <2>2. Serial => OneStart'
    BY DEF OneStart
  <2>3. Serial /\ "removal" \notin unfinished => Known'
    BY DEF Known, Is
  <2>4. Serial /\ unfinished = {} => Ready'
    BY DEF Ready, Is
  <2> QED
    BY <2>2, <2>3, <2>4
<1>3. CASE Remove(s)
  <2>1. /\ "removal" \in unfinished' /\ engine' = engine
        /\ \A t \in Sessions : pc'[t] \in StartPCs => pc'[t] = pc[t]
    BY <1>0, <1>3 DEF Remove, StartPCs
  <2> QED
    BY <2>1 DEF StartsInv, OneStart, StartPCs
<1>4. ASSUME NEW e \in Entries, RemoveEntry(s, e) PROVE StartsInv'
  <2>1. "removal" \in unfinished' /\ UNCHANGED <<engine, pc>>
    BY <1>4 DEF RemoveEntry, StartsInv
  <2> QED
    BY <2>1 DEF StartsInv, OneStart
<1>5. CASE RemoveDir(s)
  <2>1. file' = Nothing /\ pc' = [pc EXCEPT ![s] = "idle"] /\ pc[s] = "remove"
    BY <1>5 DEF RemoveDir
  <2>2. /\ \A e \in Entries : ~Is(e)'
        /\ \A t \in Sessions : pc'[t] \in StartPCs \cup {"remove"} => pc'[t] = pc[t]
    BY <1>0, <2>1 DEF Nothing, Is, StartPCs
  <2>3. Serial => OneStart'
    <3>1. engine = "down" => engine' = "down"
      BY <1>5 DEF RemoveDir
    <3> QED
      BY <2>2, <3>1 DEF StartsInv, OneStart, StartPCs
  <2>4. CASE \E t \in Sessions \ {s} : pc[t] \in StartPCs \cup {"remove"}
    <3>1. "removal" \in unfinished'
      BY <1>5, <2>1, <2>4 DEF RemoveDir, StartsInv
    <3> QED
      BY <2>3, <3>1 DEF StartsInv
  <2>5. CASE \A t \in Sessions \ {s} : pc[t] \notin StartPCs \cup {"remove"}
    <3>1. \A t \in Sessions : pc'[t] \notin StartPCs \cup {"remove"}
      BY <1>0, <2>1, <2>5 DEF StartPCs
    <3> QED
      BY <2>2, <2>3, <3>1 DEF StartsInv, Known, Ready, StartPCs, Entries, Data
  <2> QED
    BY <2>4, <2>5
<1> QED
  BY <1>1, <1>2, <1>3, <1>4, <1>5

\* A start: what it clears holds no tables, what it installs is whole, and what it hands to
\* the engine is the engine's.
LEMMA StartStarts ==
  ASSUME StartsInv, LockInv', NEW s \in Sessions,
         \/ Start(s) \/ Probe(s) \/ Install(s) \/ InstallEnds(s) \/ InitFails(s)
         \/ WriteInitSql(s) \/ ChownTree(s) \/ Spawn(s) \/ Waited(s)
         \/ \E e \in Entries : ClearEntry(s, e)
  PROVE  StartsInv'
<1>0. /\ pc \in [Sessions -> {"idle", "mark", "remove"} \cup StartPCs \cup BackupPCs]
      /\ file \in [Entries -> Absent .. MaxCommits + 1]
      /\ dir \/ \A e \in Entries : ~Is(e)
  BY DEF StartsInv, LockInv, VolumeInv, TypeOK, Is, Nothing
<1> USE DEF Goto, Step, volume, backup
<1>1. CASE InitFails(s) \/ Waited(s)
  BY <1>0, <1>1, ElsewhereStarts DEF InitFails, Waited, StartPCs
<1>2. \A t \in Sessions : pc'[t] = "remove" => "removal" \in unfinished
  BY <1>0 DEF StartsInv, Start, Probe, Install, InstallEnds, InitFails, WriteInitSql, ChownTree, Spawn,
              Waited, ClearEntry
<1>3. CASE Start(s)
  <2>1. /\ Serial => engine = "down" /\ \A t \in Sessions : pc[t] \notin StartPCs
        /\ pc' = [pc EXCEPT ![s] = "probe"] /\ UNCHANGED <<file, foreign, engine, unfinished>>
    BY <1>3 DEF Start
  <2> QED
    BY <1>0, <1>2, <2>1 DEF StartsInv, OneStart, Known, Ready, StartPCs, Is
<1>4. ASSUME Serial, pc[s] \in StartPCs, NEW label, pc' = [pc EXCEPT ![s] = label],
             engine' = engine \/ label = "running", label \in StartPCs \cup {"idle"},
             label # "running" => pc[s] # "running"
      PROVE  OneStart' /\ \A t \in Sessions \ {s} : pc'[t] \notin StartPCs
  <2>1. \A t \in Sessions \ {s} : pc'[t] \notin StartPCs
    BY <1>0, <1>4 DEF StartsInv, OneStart
  <2> QED
    BY <1>0, <1>4, <2>1 DEF StartsInv, OneStart, StartPCs
<1>5. CASE Probe(s)
  <2>1. PICK label \in {"idle", "sql", "clear"} :
          /\ pc' = [pc EXCEPT ![s] = label]
          /\ label = "sql" => Is("system")
          /\ label = "clear" => ~Is("system")
    BY <1>5 DEF Probe
  <2>2. pc[s] = "probe" /\ UNCHANGED <<file, foreign, engine, unfinished>>
    BY <1>5 DEF Probe
  <2>3. Serial => OneStart' /\ \A t \in Sessions \ {s} : pc'[t] \notin StartPCs
    BY <1>4, <2>1, <2>2 DEF StartPCs
  <2>4. Serial /\ "removal" \notin unfinished => Known'
    BY <1>0, <2>1, <2>2, <2>3 DEF StartsInv, Known, Is, StartPCs
  <2>5. Serial /\ unfinished = {} => Ready'
    BY <1>0, <2>1, <2>2, <2>3 DEF StartsInv, Ready, Is, StartPCs
  <2> QED
    BY <1>2, <2>2, <2>3, <2>4, <2>5 DEF StartsInv
<1>6. ASSUME NEW e \in Entries, ClearEntry(s, e) PROVE StartsInv'
  <2>1. /\ pc[s] = "clear" /\ UNCHANGED <<pc, foreign, engine, unfinished>>
        /\ file' = [file EXCEPT ![e] = Absent]
    BY <1>6 DEF ClearEntry, Put
  <2>2. \A d \in Entries : Is(d)' => Is(d)
    BY <1>0, <2>1 DEF Is
  <2>3. Serial => OneStart' /\ \A t \in Sessions \ {s} : pc'[t] \notin StartPCs
    BY <2>1 DEF StartsInv, OneStart, StartPCs
  <2>4. Serial /\ "removal" \notin unfinished => Known' /\ ~Is("system")'
    BY <2>1, <2>2, <2>3 DEF StartsInv, Known, Entries, Data, StartPCs
  <2>5. Serial /\ unfinished = {} => Ready'
    BY <2>1, <2>3, <2>4 DEF StartsInv, Ready, StartPCs
  <2> QED
    BY <1>2, <2>1, <2>3, <2>4, <2>5 DEF StartsInv
<1>7. CASE Install(s)
  <2>1. /\ pc[s] = "clear" /\ pc' = [pc EXCEPT ![s] = "installing"] /\ UNCHANGED engine
        /\ file' = [file EXCEPT !["system"] = Installing] /\ unfinished' = unfinished \cup {"install"}
        /\ \A e \in Data : ~Is(e)
    BY <1>7 DEF Install, Put, Removable, Entries, Data
  <2>2. Is("system")' /\ \A e \in Data : ~Is(e)'
    BY <1>0, <2>1 DEF Is, Entries, Data, Installing, Absent
  <2>3. Serial => OneStart' /\ \A t \in Sessions \ {s} : pc'[t] \notin StartPCs
    BY <1>4, <2>1 DEF StartPCs
  <2>4. Serial => Known'
    BY <1>0, <2>1, <2>2, <2>3 DEF Known, StartPCs
  <2> QED
    BY <1>2, <2>1, <2>3, <2>4 DEF StartsInv
<1>8. CASE InstallEnds(s)
  <2>1. /\ pc[s] = "installing" /\ pc' = [pc EXCEPT ![s] = "sql"] /\ UNCHANGED engine
        /\ file' = [file EXCEPT !["system"] = Installed, !["log"] = 0, !["pages"] = 0]
        /\ unfinished' = unfinished \ {"install"}
    BY <1>8 DEF InstallEnds
  <2>2. Is("system")' /\ file'["system"] = Installed /\ \A e \in Data : Is(e)'
    BY <1>0, <2>1 DEF Is, Entries, Data, Installed, Absent
  <2>3. Serial => OneStart' /\ \A t \in Sessions \ {s} : pc'[t] \notin StartPCs
    BY <1>4, <2>1 DEF StartPCs
  <2>4. Serial => Known' /\ Ready'
    BY <1>0, <2>1, <2>2, <2>3 DEF Known, Ready, StartPCs
  <2> QED
    BY <1>2, <2>1, <2>3, <2>4 DEF StartsInv
<1>9. CASE WriteInitSql(s)
  <2>1. PICK label \in {"chown", "idle"} :
          pc' = [pc EXCEPT ![s] = label] /\ (label = "chown" <=> dir)
    BY <1>9 DEF WriteInitSql
  <2>2. /\ pc[s] = "sql" /\ UNCHANGED <<engine, unfinished>>
        /\ file' = IF dir THEN [file EXCEPT !["sql"] = 0] ELSE file
    BY <1>9 DEF WriteInitSql, Put
  <2>3. /\ \A e \in Entries \ {"sql"} : file'[e] = file[e]
        /\ label = "chown" => Is("sql")'
    BY <1>0, <2>1, <2>2 DEF Is, Entries, Absent
  <2>4. Serial => OneStart' /\ \A t \in Sessions \ {s} : pc'[t] \notin StartPCs
    BY <1>4, <2>1, <2>2 DEF StartPCs
  <2>5. Serial /\ "removal" \notin unfinished => Known'
    BY <1>0, <2>1, <2>2, <2>3, <2>4 DEF StartsInv, Known, Is, StartPCs, Entries, Data
  <2>6. Serial /\ unfinished = {} => Ready'
    BY <1>0, <2>1, <2>2, <2>3, <2>4 DEF StartsInv, Ready, Is, StartPCs, Entries, Data
  <2> QED
    BY <1>2, <2>2, <2>4, <2>5, <2>6 DEF StartsInv
<1>10. CASE ChownTree(s) \/ Spawn(s)
  <2>1. PICK label \in {"spawn", "running", "idle"} :
          /\ pc' = [pc EXCEPT ![s] = label]
          /\ label = "spawn" => pc[s] = "chown" /\ ~foreign'
          /\ engine' = engine \/ label = "running" \/ ~Serial
    BY <1>10 DEF ChownTree, Spawn, StartsInv, OneStart, StartPCs
  <2>2. pc[s] \in {"chown", "spawn"} /\ UNCHANGED <<file, unfinished>>
    BY <1>10 DEF ChownTree, Spawn
  <2>3. Serial => OneStart' /\ \A t \in Sessions \ {s} : pc'[t] \notin StartPCs
    BY <1>4, <2>1, <2>2 DEF StartPCs
  <2>4. Serial /\ "removal" \notin unfinished => Known'
    BY <1>0, <2>1, <2>2, <2>3 DEF StartsInv, Known, Is, StartPCs
  <2>5. Serial /\ unfinished = {} => Ready'
    BY <1>0, <2>1, <2>2, <2>3 DEF StartsInv, Ready, Is, StartPCs
  <2> QED
    BY <1>2, <2>2, <2>3, <2>4, <2>5 DEF StartsInv
<1> QED
  BY <1>1, <1>3, <1>5, <1>6, <1>7, <1>8, <1>9, <1>10

\* The engine writes where it has read.
LEMMA EngineStarts ==
  ASSUME StartsInv, LockInv', Engine
  PROVE  StartsInv'
<1>0. file \in [Entries -> Absent .. MaxCommits + 1] /\ MaxCommits \in Nat
  BY ConstantsAssumption DEF StartsInv, LockInv, VolumeInv, TypeOK
<1>1. CASE EngineDies
  BY <1>1, ElsewhereStarts DEF EngineDies, volume
<1>2. CASE CommitLog \/ FlushPages
  <2>1. UNCHANGED <<foreign, engine, pc, unfinished>> /\ file'["system"] = file["system"] /\ file'["sql"] = file["sql"]
    BY <1>0, <1>2 DEF CommitLog, FlushPages, Put, Entries, Data
  <2>2. \A e \in Data : Is(e)' <=> Is(e)
    <3>1. CASE CommitLog
      BY <1>0, <3>1 DEF CommitLog, Put, Is, Entries, Data, Absent
    <3>2. CASE FlushPages
      BY <1>0, <3>2 DEF FlushPages, Put, Is, Entries, Data, Absent
    <3> QED
      BY <1>2, <3>1, <3>2
  <2>3. Serial => OneStart'
    BY <2>1 DEF StartsInv, OneStart
  <2>4. Serial /\ "removal" \notin unfinished => Known'
    BY <2>1, <2>2 DEF StartsInv, Known, Is
  <2>5. Serial /\ unfinished = {} => Ready'
    BY <2>1, <2>2 DEF StartsInv, Ready, Is
  <2> QED
    BY <2>1, <2>3, <2>4, <2>5 DEF StartsInv
<1> QED
  BY <1>1, <1>2 DEF Engine

LEMMA StartsStep == StartsInv /\ [Next]_vars => StartsInv'
<1> SUFFICES ASSUME StartsInv, [Next]_vars PROVE StartsInv'
  OBVIOUS
<1>1. LockInv'
  BY LockStep DEF StartsInv
<1>2. pc \in [Sessions -> {"idle", "mark", "remove"} \cup StartPCs \cup BackupPCs]
  BY DEF StartsInv, LockInv, VolumeInv, TypeOK
<1>3. CASE UNCHANGED vars
  BY <1>1, <1>3, ElsewhereStarts DEF vars, volume
<1>4. ASSUME NEW s \in Sessions,
             \/ Backup(s) \/ acquire(s) \/ OpenArchive(s) \/ FinishBackup(s) \/ BackupFails(s)
             \/ Killed(s) \/ \E e \in Entries : CopyEntry(s, e)
      PROVE  StartsInv'
  BY <1>1, <1>2, <1>4, ElsewhereStarts
  DEF Backup, acquire, OpenArchive, FinishBackup, BackupFails, Killed, CopyEntry, Goto, Step, volume, StartPCs
<1>5. CASE Next
  BY <1>1, <1>4, <1>5, StoreStarts, StartStarts, EngineStarts DEF Next, Command, Issued
<1> QED
  BY <1>3, <1>5

LEMMA InitStarts == Init => StartsInv
<1>1. Init => \A e \in Entries : ~Is(e)
  BY DEF Init, Is, Nothing
<1> QED
  BY <1>1, InitLock DEF Init, StartsInv, OneStart, Known, Ready, StartPCs, Entries, Data

\* No start clears a directory an engine has run on: where starts do not overlap, what the
\* engine has committed is lost only to a removal of the volume, finished or not, whatever
\* is killed (maybe_init_data_directory).
THEOREM CommitsSurvive == Spec => CommitsSurviveStarts
<1>1. ASSUME StartsInv, [Next]_vars, Serial, NEW e \in {"log", "pages"}, file'[e] < file[e]
      PROVE  "removal" \in unfinished
  <2>0. file \in [Entries -> Absent .. MaxCommits + 1] /\ MaxCommits \in Nat /\ e \in Data /\ e \in Entries
    BY <1>1, ConstantsAssumption DEF StartsInv, LockInv, VolumeInv, TypeOK, Entries, Data
  <2>1. file'[e] # file[e]
    BY <1>1, <2>0 DEF Absent
  <2>2. CASE Engine
    <3>1. \A d \in Data : d \in Entries /\ file[d] \in Int
      BY <2>0 DEF Absent, Entries, Data
    <3>2. CASE CommitLog
      <4>1. file' = [file EXCEPT !["log"] = file["log"] + 1] /\ file["log"] \in Int
        BY <3>1, <3>2 DEF CommitLog, Put, Data
      <4>2. file'[e] = IF e = "log" THEN file["log"] + 1 ELSE file[e]
        BY <2>0, <4>1
      <4> QED
        BY <1>1, <3>1, <2>0, <4>1, <4>2
    <3>3. CASE FlushPages
      <4>1. /\ file' = [file EXCEPT !["pages"] = file["log"]] /\ file["pages"] < file["log"]
            /\ file["log"] \in Int /\ file["pages"] \in Int
        BY <3>1, <3>3 DEF FlushPages, Put, Data
      <4>2. file'[e] = IF e = "pages" THEN file["log"] ELSE file[e]
        BY <2>0, <4>1
      <4> QED
        BY <1>1, <3>1, <2>0, <4>1, <4>2
    <3>4. CASE EngineDies
      BY <2>1, <3>4 DEF EngineDies, volume
    <3> QED
      BY <2>2, <3>2, <3>3, <3>4 DEF Engine
  <2>3. ASSUME NEW s \in Sessions, RemoveEntry(s, e) PROVE "removal" \in unfinished
    BY <1>1, <2>3 DEF RemoveEntry, StartsInv
  <2>4. ASSUME NEW s \in Sessions, ClearEntry(s, e) PROVE "removal" \in unfinished
    BY <1>1, <2>0, <2>4 DEF ClearEntry, Removable, StartsInv, Known
  <2>5. ASSUME NEW s \in Sessions, InstallEnds(s) PROVE "removal" \in unfinished
    <3>1. Is(e)
      <4>1. file[e] \in Int /\ file'[e] = 0
        BY <2>0, <2>5 DEF InstallEnds, Entries, Data, Absent
      <4> QED
        BY <1>1, <4>1 DEF Is, Absent
    <3> QED
      BY <1>1, <2>0, <2>5, <3>1 DEF InstallEnds, Step, StartsInv, Known
  <2>6. \/ Engine
        \/ \E s \in Sessions : RemoveEntry(s, e) \/ ClearEntry(s, e) \/ InstallEnds(s)
    <3>1. ASSUME NEW s \in Sessions, NEW d \in Entries, RemoveEntry(s, d) \/ ClearEntry(s, d) PROVE d = e
      BY <2>0, <2>1, <3>1 DEF RemoveEntry, ClearEntry, Put
    <3>2. ASSUME NEW s \in Sessions, WriteMarker(s) \/ Install(s) \/ WriteInitSql(s) PROVE FALSE
      BY <2>0, <2>1, <3>2 DEF WriteMarker, Install, WriteInitSql, Put, Data
    <3> QED
      BY <1>1, <2>1, <3>1, <3>2
      DEF Next, Command, Issued, vars, volume, CreateDir, Remove, RemoveDir, RemoveFails, Start, Probe, InitFails,
          ChownTree, Spawn, Waited, Backup, acquire, OpenArchive, CopyEntry, FinishBackup, BackupFails, Killed
  <2> QED
    BY <2>2, <2>3, <2>4, <2>5, <2>6
<1>2. StartsInv /\ [Next]_vars =>
        [Serial => \A e \in {"log", "pages"} : file'[e] < file[e] => "removal" \in unfinished]_vars
  BY <1>1
<1> QED
  BY <1>2, InitStarts, StartsStep, PTL DEF Spec, CommitsSurviveStarts

\* The order of init, tokedb-init.sql and chown_tree in start_impl: where starts do not
\* overlap and nothing was left half done, the engine that a start runs finds whole tables
\* and the statements that make the user, and may write all of it.
THEOREM EnginesAreReady == Spec => EngineFindsAll
<1>1. ASSUME StartsInv, [Next]_vars, Serial, unfinished = {}, engine # "up", engine' = "up"
      PROVE  file["system"] = Installed /\ (\A e \in Data \cup {"sql"} : Is(e)) /\ ~foreign
  <2>1. PICK s \in Sessions : Spawn(s)
    BY <1>1
    DEF Next, Engine, CommitLog, FlushPages, EngineDies, Command, Issued, vars, volume, CreateDir, WriteMarker,
        Remove, RemoveEntry, RemoveDir, RemoveFails, Start, Probe, ClearEntry, Install, InstallEnds, InitFails,
        WriteInitSql, ChownTree, Waited, Backup, acquire, OpenArchive, CopyEntry, FinishBackup, BackupFails, Killed
  <2>2. pc[s] = "spawn" /\ Ready
    BY <1>1, <2>1 DEF Spawn, Step, StartsInv
  <2> QED
    BY <2>2 DEF Ready
<1>2. StartsInv /\ [Next]_vars =>
        [Serial /\ unfinished = {} /\ engine # "up" /\ engine' = "up" =>
           /\ file["system"] = Installed
           /\ \A e \in Data \cup {"sql"} : Is(e)
           /\ ~foreign]_vars
  BY <1>1
<1> QED
  BY <1>2, InitStarts, StartsStep, PTL DEF Spec, EngineFindsAll
=============================================================================
