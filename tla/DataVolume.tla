----------------------------- MODULE DataVolume -----------------------------
(***************************************************************************)
(* One volume, <name>-data, and the commands that touch it: VolumeStore    *)
(* (create, get, remove), backup_volume with its VolumeLock, and what      *)
(* start does to the volume of a MariaDB or MySQL container before the     *)
(* engine runs: maybe_init_data_directory, tokedb-init.sql, chown_tree.    *)
(*                                                                         *)
(* The lock is a file that only backups look at: start, remove and the     *)
(* engine itself go about the directory whether it is there or not.        *)
(***************************************************************************)
EXTENDS Integers, FiniteSets

CONSTANTS
  Sessions,      \* commands that can be in flight together
  NoOne,         \* no session
  LockAttempts,  \* LOCK_ATTEMPTS
  Serial,        \* whether no start is issued before the engine of the last has gone
  MaxCommits,    \* bound on what the engine commits
  MaxKills       \* bound on the sessions killed

ASSUME ConstantsAssumption ==
  /\ NoOne \notin Sessions
  /\ LockAttempts \in Nat \ {0}
  /\ Serial \in BOOLEAN
  /\ MaxCommits \in Nat /\ MaxKills \in Nat

VARIABLES
  dir,         \* volumes/<name>/ exists
  file,        \* what is in it
  foreign,     \* something in it has been made by root since the last chown_tree
  lock,        \* whose lock file there is; the file itself does not tell
  archive,     \* the data in <name>.tar
  complete,    \* whether the archive has been finished
  engine,      \* "detached": runs on a directory that is no longer there
  pc,          \* where each session is
  tries,       \* its attempts at the lock
  visited,     \* the data its backup has come by
  quiet,       \* nothing has changed in the volume since the archive was opened
  unfinished,  \* an installation, or a removal, has been begun and not ended, or a
               \* volume removed under a start
  kills

volume == <<dir, file, foreign>>
backup == <<lock, archive, complete, tries, visited>>
vars == <<volume, backup, engine, pc, quiet, unfinished, kills>>

(***************************************************************************)
(* The entries of the directory: the marker of VolumeStore, the system     *)
(* tables (the directory mysql), the engine's log and pages, and           *)
(* tokedb-init.sql.  Log and pages are numbered by the last commit in them;*)
(* of an archive only these two are followed.                              *)
(***************************************************************************)
Data == {"log", "pages"}
Entries == Data \cup {"system", "marker", "sql"}
Absent == -1
Installing == 0
Installed == 1
Nothing == [e \in Entries |-> Absent]
NoData == [e \in Data |-> Absent]

Is(e) == file[e] # Absent
IsVolume == dir /\ Is("marker")

StartPCs == {"probe", "clear", "installing", "sql", "chown", "spawn", "running"}
BackupPCs == {"acquire", "open", "copy"}

TypeOK ==
  /\ dir \in BOOLEAN
  /\ file \in [Entries -> Absent .. MaxCommits + 1]
  /\ foreign \in BOOLEAN
  /\ lock \in Sessions \cup {NoOne}
  /\ archive \in [Data -> Absent .. MaxCommits + 1]
  /\ complete \in BOOLEAN
  /\ engine \in {"down", "up", "detached"}
  /\ pc \in [Sessions -> {"idle", "mark", "remove"} \cup StartPCs \cup BackupPCs]
  /\ tries \in [Sessions -> 0 .. LockAttempts]
  /\ visited \in [Sessions -> SUBSET Data]
  /\ quiet \in BOOLEAN
  /\ unfinished \subseteq {"install", "removal"}
  /\ kills \in 0 .. MaxKills
  /\ dir \/ file = Nothing

Init ==
  /\ dir = FALSE
  /\ file = Nothing
  /\ foreign = FALSE
  /\ lock = NoOne
  /\ archive = NoData
  /\ complete = FALSE
  /\ engine = "down"
  /\ pc = [s \in Sessions |-> "idle"]
  /\ tries = [s \in Sessions |-> 0]
  /\ visited = [s \in Sessions |-> {}]
  /\ quiet = TRUE
  /\ unfinished = {}
  /\ kills = 0

Goto(s, label) == pc' = [pc EXCEPT ![s] = label]
Step(s, from, to) == pc[s] = from /\ Goto(s, to)
Put(e, value) == file' = [file EXCEPT ![e] = value]

-----------------------------------------------------------------------------
(***************************************************************************)
(* VolumeStore::create and VolumeStore::remove.                            *)
(***************************************************************************)
CreateDir(s) ==
  /\ Step(s, "idle", IF IsVolume THEN "idle" ELSE "mark")
  /\ dir' = TRUE
  /\ UNCHANGED <<file, foreign, backup, engine, unfinished, kills>>

\* The marker, of no interest to the engine, cannot be written once a remove has
\* taken the directory.
WriteMarker(s) ==
  /\ Step(s, "mark", "idle")
  /\ IF dir THEN Put("marker", 0) ELSE UNCHANGED file
  /\ UNCHANGED <<dir, foreign, backup, engine, unfinished, kills>>

\* Neither the marker nor an engine is looked for.
Remove(s) ==
  /\ dir
  /\ Step(s, "idle", "remove")
  /\ unfinished' = unfinished \cup {"removal"}
  /\ UNCHANGED <<volume, backup, engine, kills>>

RemoveEntry(s, e) ==
  /\ pc[s] = "remove"
  /\ Is(e)
  /\ Put(e, Absent)
  /\ UNCHANGED <<dir, foreign, backup, engine, pc, unfinished, kills>>

RemoveDir(s) ==
  /\ Step(s, "remove", "idle")
  /\ file = Nothing
  /\ dir' = FALSE
  /\ engine' = IF engine = "up" THEN "detached" ELSE engine
  /\ unfinished' = IF \E t \in Sessions \ {s} : pc[t] \in StartPCs \cup {"remove"} THEN unfinished
                   ELSE unfinished \ {"removal"}
  /\ UNCHANGED <<file, foreign, backup, kills>>

\* Somebody put a file into the directory after it had been read, or took it away.
RemoveFails(s) ==
  /\ Step(s, "remove", "idle")
  /\ dir => file # Nothing
  /\ UNCHANGED <<volume, backup, engine, unfinished, kills>>

-----------------------------------------------------------------------------
(***************************************************************************)
(* start, from the first volumes.get to the engine.                        *)
(***************************************************************************)
Start(s) ==
  /\ Serial => engine = "down" /\ \A t \in Sessions : pc[t] \notin StartPCs
  /\ IsVolume
  /\ Step(s, "idle", "probe")
  /\ UNCHANGED <<volume, backup, engine, unfinished, kills>>

\* Mutant: the directory is taken for new whatever is in it.
ProbeNothing(s) ==
  /\ Step(s, "probe", IF IsVolume THEN "clear" ELSE "idle")
  /\ UNCHANGED <<volume, backup, engine, unfinished, kills>>

\* After a second get: is there a directory mysql?  Else there is content, if only
\* the marker of the volume, which dir_has_content counts and clear_dir keeps.
Probe(s) ==
  /\ Step(s, "probe", IF ~IsVolume THEN "idle" ELSE IF Is("system") THEN "sql" ELSE "clear")
  /\ UNCHANGED <<volume, backup, engine, unfinished, kills>>

Removable == {e \in Entries \ {"marker"} : Is(e)}

ClearEntry(s, e) ==
  /\ pc[s] = "clear" /\ e \in Removable
  /\ Put(e, Absent)
  /\ UNCHANGED <<dir, foreign, backup, engine, pc, unfinished, kills>>

\* mariadb-install-db begins with mysql.
Install(s) ==
  /\ Removable = {} /\ dir
  /\ Step(s, "clear", "installing")
  /\ Put("system", Installing)
  /\ foreign' = TRUE
  /\ unfinished' = unfinished \cup {"install"}
  /\ UNCHANGED <<dir, backup, engine, kills>>

InstallEnds(s) ==
  /\ Is("system")
  /\ Step(s, "installing", "sql")
  /\ file' = [file EXCEPT !["system"] = Installed, !["log"] = 0, !["pages"] = 0]
  /\ foreign' = TRUE
  /\ unfinished' = unfinished \ {"install"}
  /\ UNCHANGED <<dir, backup, engine, kills>>

\* A file goes before clear_dir comes to it, or the installation fails: what was done
\* so far stays.
InitFails(s) ==
  /\ pc[s] \in {"clear", "installing"}
  /\ Goto(s, "idle")
  /\ UNCHANGED <<volume, backup, engine, unfinished, kills>>

WriteInitSql(s) ==
  /\ Step(s, "sql", IF dir THEN "chown" ELSE "idle")
  /\ IF dir THEN Put("sql", 0) ELSE UNCHANGED file
  /\ foreign' = (foreign \/ (dir /\ ~Is("sql")))
  /\ UNCHANGED <<dir, backup, engine, unfinished, kills>>

\* Mutant: only the directory itself.
ChownDir(s) ==
  /\ Step(s, "chown", IF dir THEN "spawn" ELSE "idle")
  /\ UNCHANGED <<volume, backup, engine, unfinished, kills>>

ChownTree(s) ==
  /\ Step(s, "chown", IF dir THEN "spawn" ELSE "idle")
  /\ foreign' = (foreign /\ ~dir)
  /\ UNCHANGED <<dir, file, backup, engine, unfinished, kills>>

\* The mount fails without a directory, and the engine if another has its files.
Spawn(s) ==
  /\ Step(s, "spawn", IF dir /\ engine # "up" THEN "running" ELSE "idle")
  /\ engine' = IF dir THEN "up" ELSE engine
  /\ UNCHANGED <<volume, backup, unfinished, kills>>

Waited(s) ==
  /\ engine = "down"
  /\ Step(s, "running", "idle")
  /\ UNCHANGED <<volume, backup, engine, unfinished, kills>>

-----------------------------------------------------------------------------
(***************************************************************************)
(* The engine: a commit goes to the log, and some time later to the pages. *)
(***************************************************************************)
CommitLog ==
  /\ engine = "up"
  /\ file["log"] \in 0 .. MaxCommits - 1
  /\ Put("log", file["log"] + 1)
  /\ UNCHANGED <<dir, foreign, backup, engine, pc, unfinished, kills>>

FlushPages ==
  /\ engine = "up"
  /\ Is("log") /\ Is("pages") /\ file["pages"] < file["log"]
  /\ Put("pages", file["log"])
  /\ UNCHANGED <<dir, foreign, backup, engine, pc, unfinished, kills>>

EngineDies ==
  /\ engine # "down"
  /\ engine' = "down"
  /\ UNCHANGED <<volume, backup, pc, unfinished, kills>>

-----------------------------------------------------------------------------
(***************************************************************************)
(* volume_backup: get, then VolumeLock::acquire and backup_volume.         *)
(***************************************************************************)
Forget(s) ==
  /\ tries' = [tries EXCEPT ![s] = 0]
  /\ visited' = [visited EXCEPT ![s] = {}]

Backup(s) ==
  /\ IsVolume
  /\ Step(s, "idle", "acquire")
  /\ Forget(s)
  /\ UNCHANGED <<volume, lock, archive, complete, engine, unfinished, kills>>

\* Mutant: the lock file is opened, whether it was there or not.
OpenLock(s) ==
  /\ Step(s, "acquire", "open")
  /\ lock' = s
  /\ UNCHANGED <<volume, archive, complete, tries, visited, engine, unfinished, kills>>

\* Mutant: let _ = ... in place of let _lock = ..., which drops the lock at once.
AcquireAndDrop(s) ==
  /\ Step(s, "acquire", IF lock = NoOne THEN "open" ELSE "acquire")
  /\ UNCHANGED <<volume, backup, engine, unfinished, kills>>

acquire(s) ==
  /\ pc[s] = "acquire"
  /\ tries' = [tries EXCEPT ![s] = @ + 1]
  /\ IF lock = NoOne THEN lock' = s /\ Goto(s, "open")
     ELSE UNCHANGED lock /\ Goto(s, IF tries'[s] = LockAttempts THEN "idle" ELSE "acquire")
  /\ UNCHANGED <<volume, archive, complete, visited, engine, unfinished, kills>>

\* File::create truncates the archive of the last backup.
OpenArchive(s) ==
  /\ Step(s, "open", "copy")
  /\ archive' = NoData
  /\ complete' = FALSE
  /\ UNCHANGED <<volume, lock, tries, visited, engine, unfinished, kills>>

\* append_dir_all takes the entries as it finds them.
CopyEntry(s, e) ==
  /\ pc[s] = "copy" /\ dir
  /\ e \in Data \ visited[s]
  /\ visited' = [visited EXCEPT ![s] = @ \cup {e}]
  /\ archive' = [archive EXCEPT ![e] = file[e]]
  /\ UNCHANGED <<volume, lock, complete, tries, engine, pc, unfinished, kills>>

\* Drop for VolumeLock.
Unlock(s) == NoOne

FinishBackup(s) ==
  /\ visited[s] = Data
  /\ Step(s, "copy", "idle")
  /\ complete' = TRUE
  /\ lock' = Unlock(s)
  /\ Forget(s)
  /\ UNCHANGED <<volume, archive, engine, unfinished, kills>>

\* The archive cannot be made, or a file goes while it is being read; what has been
\* written of the archive stays.
BackupFails(s) ==
  /\ pc[s] \in {"open", "copy"}
  /\ Goto(s, "idle")
  /\ lock' = Unlock(s)
  /\ Forget(s)
  /\ UNCHANGED <<volume, archive, complete, engine, unfinished, kills>>

-----------------------------------------------------------------------------
\* A killed session takes back nothing: a lock, half of a directory or of an archive
\* stay, and so does an engine.
Killed(s) ==
  /\ kills < MaxKills
  /\ pc[s] # "idle"
  /\ Goto(s, "idle")
  /\ Forget(s)
  /\ kills' = kills + 1
  /\ UNCHANGED <<volume, lock, archive, complete, engine, unfinished>>

Command(s) ==
  \/ WriteMarker(s) \/ RemoveDir(s) \/ RemoveFails(s)
  \/ \E e \in Entries : RemoveEntry(s, e) \/ ClearEntry(s, e) \/ CopyEntry(s, e)
  \/ Probe(s) \/ Install(s) \/ InstallEnds(s) \/ InitFails(s)
  \/ WriteInitSql(s) \/ ChownTree(s) \/ Spawn(s) \/ Waited(s)
  \/ acquire(s) \/ OpenArchive(s) \/ FinishBackup(s) \/ BackupFails(s)

Issued(s) == CreateDir(s) \/ Remove(s) \/ Start(s) \/ Backup(s)

Engine == CommitLog \/ FlushPages \/ EngineDies

\* Kept on the side, for FinishedBackupIsExact.
History ==
  quiet' = \/ \A s \in Sessions : pc[s] # "copy"
           \/ quiet /\ UNCHANGED <<dir, file>>

Next == (Engine \/ \E s \in Sessions : Command(s) \/ Issued(s) \/ Killed(s)) /\ History

Spec == Init /\ [][Next]_vars

-----------------------------------------------------------------------------
(***************************************************************************)
(* Properties.                                                             *)
(***************************************************************************)
\* Who writes an archive holds the lock, so that no two backups write one archive
\* (VolumeLock).
WriterHoldsLock == \A s \in Sessions : pc[s] \in {"open", "copy"} => lock = s

\* A lock without a backup is left by one that was killed, never by one that failed
\* (Drop for VolumeLock).
OnlyKillsLeaveLocks ==
  lock # NoOne => kills > 0 \/ pc[lock] \in {"open", "copy"}

\* A backup that reports success of a volume in which nothing happened while it was
\* copied has in its archive what is in the volume (backup_volume), whatever other
\* backups did meanwhile.
FinishedBackupIsExact ==
  [][quiet /\ ~complete /\ complete' => \A e \in Data : archive'[e] = file[e]]_vars

\* When starts do not overlap, what the engine has committed is lost only to a removal
\* of the volume, be it one that was not brought to its end: no start clears a
\* directory an engine has run on (maybe_init_data_directory).
CommitsSurviveStarts ==
  [][Serial => \A e \in {"log", "pages"} : file'[e] < file[e] => "removal" \in unfinished]_vars

\* When starts do not overlap, and no installation or removal was left half done, an
\* engine finds its system tables whole and the statements that make the user, and may
\* write all of it (the order of init, tokedb-init.sql and chown_tree in start_impl).
EngineFindsAll ==
  [][Serial /\ unfinished = {} /\ engine # "up" /\ engine' = "up" =>
       /\ file["system"] = Installed
       /\ \A e \in Data \cup {"sql"} : Is(e)
       /\ ~foreign]_vars

\* docs/container-runtime.md: "consistent tar snapshot via append_dir_all while holding
\* the lock".  Pages that are ahead of the log cannot be recovered.
ConsistentBackup == complete => archive["pages"] <= archive["log"]

\* The types, and the lock of a volume (VolumeLock): one writer of an archive, and no lock
\* left but by a kill.
VolumeInv == TypeOK /\ WriterHoldsLock /\ OnlyKillsLeaveLocks
=============================================================================
