-------------------------- MODULE ContainerRuntime --------------------------
(***************************************************************************)
(* The container commands of tokedb: create, start, stop and destroy.      *)
(*                                                                         *)
(* There is no daemon.  Every command runs in a session of its own (an OS  *)
(* process, or a thread of the console), and the sessions share only the   *)
(* files under the data root and the kernel's process table.  A session    *)
(* reads a container's metadata once, works on that snapshot and writes    *)
(* the whole record back without looking at the file again, so the order   *)
(* of the saves of two sessions is what this module is about.              *)
(*                                                                         *)
(* One action stands for the code between two points at which another      *)
(* session can observe or change the shared state.  LayerStore::ensure and *)
(* LayerStore::release are single actions here; LayerStore.tla takes them  *)
(* apart.                                                                  *)
(***************************************************************************)
EXTENDS Naturals, FiniteSets

CONSTANTS
  Containers,        \* container ids; create draws each of them at most once
  NoContainer,       \* the container of an idle session or an unused pid
  NameOf,            \* the name an id is created under
  Layers,            \* layer digests
  LayersOf,          \* the layers of the image an id is created from
  Limited,           \* the ids created with a resource limit (a cgroup)
  Sessions,          \* command invocations that can be in flight together
  Pids,              \* host pids of engines; the kernel never reuses one here
  NoPid,             \* Container.pid = None
  Discipline,        \* how commands are issued, see MayBegin
  CrashableCommands, \* the commands whose session may be killed
  MaxFaults          \* bound on kills, reboots, lost helpers and failed saves

Commands == {"create", "start", "stop", "destroy"}

ASSUME ConstantsAssumption ==
  /\ NoContainer \notin Containers
  /\ NoPid \notin Pids
  /\ LayersOf \in [Containers -> SUBSET Layers]
  /\ Limited \subseteq Containers
  /\ Discipline \in {"script", "terminal", "concurrent"}
  /\ CrashableCommands \subseteq Commands
  /\ MaxFaults \in Nat

VARIABLES
  dirs,      \* ids whose directory exists under containers/
  meta,      \* metadata.json of each id
  refcount,  \* references counted for each layer; 0: not materialised
  tmp,       \* how far the save of each session has got, see SaveDir
  stray,     \* ids with a temporary file whose session is gone
  engine,    \* the engine process behind each pid
  wired,     \* the engine that owns the host veth and cgroup named after an id
  drawn,     \* ids create has drawn
  pc,        \* where each session is
  job,       \* what each session has in memory
  faults     \* faults that have happened

temps == <<tmp, stray>>
disk == <<dirs, meta, refcount, drawn, temps>>
kernel == <<engine, wired>>
vars == <<dirs, meta, temps, refcount, engine, wired, drawn, pc, job, faults>>

-----------------------------------------------------------------------------
(***************************************************************************)
(* Types.                                                                  *)
(***************************************************************************)
\* ContainerState, with "NoFile" for a container without metadata.json.
ContainerState == {"NoFile", "Created", "Starting", "Running", "Stopping", "Stopped"}

Container == [state: ContainerState, pid: Pids \cup {NoPid}, acquired: SUBSET Layers]

NoFile == [state |-> "NoFile", pid |-> NoPid, acquired |-> {}]

\* The program points of each command; the error paths of start are last.
CreatePCs == {"mkdir", "create_save", "create_volume"}
StartPCs == {"save_starting", "layers", "save_acquired", "prepare", "wire",
             "save_running", "wait", "save_stopped", "cleanup",
             "abort_wait", "abort_cleanup", "abort_save", "drop_wait"}
StopPCs == {"save_stopping", "term_wait", "kill_wait", "stop_save"}
DestroyPCs == {"release", "remove", "rm_files", "rmdir"}
PCs == {"idle"} \cup CreatePCs \cup StartPCs \cup StopPCs \cup DestroyPCs

\* The program points that stand in ContainerStore::save.
SavePCs == {"create_save", "save_starting", "save_acquired", "save_running",
            "save_stopped", "abort_save", "save_stopping", "stop_save"}

\* "gone": somebody removed the temporary file before it was renamed.
SaveStage == {"none", "dir", "file", "gone"}

\* What a session holds: the container it found, the snapshot it will save,
\* the layers left to ensure or release, the ones ensured since the last save,
\* the engine it spawned or stops, and NetworkSetup.host_veth.is_some().
Job == [c: Containers \cup {NoContainer}, snap: Container, todo: SUBSET Layers,
        fresh: SUBSET Layers, pid: Pids \cup {NoPid}, net: BOOLEAN]

NoJob == [c |-> NoContainer, snap |-> NoFile, todo |-> {}, fresh |-> {},
          pid |-> NoPid, net |-> FALSE]

JobOn(c, snap) == [NoJob EXCEPT !.c = c, !.snap = snap, !.pid = snap.pid]

\* "killed": SIGKILL was sent and the process has not been reaped yet.
\* "taken": gone, and the status of its helper was reaped by another start.
EngineRun == {"unused", "up", "killed", "gone", "taken"}
Engine == [c: Containers \cup {NoContainer}, run: EngineRun]

\* The program points at which job.pid is an engine's.
PidPCs == {"wire", "save_running", "wait", "abort_wait", "drop_wait"} \cup StopPCs

DiskOK ==
  /\ dirs \subseteq Containers
  /\ meta \in [Containers -> Container]
  /\ refcount \in [Layers -> Nat]
  /\ drawn \subseteq Containers
  /\ tmp \in [Sessions -> SaveStage]
  /\ stray \subseteq Containers

KernelOK ==
  /\ engine \in [Pids -> Engine]
  /\ wired \in [Containers -> Pids \cup {NoPid}]

SessionOK(s) ==
  /\ pc[s] # "idle" => job[s].c \in Containers
  /\ pc[s] \in PidPCs => job[s].pid \in Pids

SessionsOK ==
  /\ pc \in [Sessions -> PCs]
  /\ job \in [Sessions -> Job]
  /\ \A s \in Sessions : SessionOK(s)

TypeOK == DiskOK /\ KernelOK /\ SessionsOK /\ faults \in Nat

-----------------------------------------------------------------------------
(***************************************************************************)
(* Helpers.                                                                *)
(***************************************************************************)
\* A process /proc still lists: running, or killed and not reaped.
Alive(p) == engine[p].run \in {"up", "killed"}

Removable == {"Created", "Stopped"}

\* ContainerStore::list loads every directory and fails on one it cannot load;
\* find, and so every command, begins with it.
ListSucceeds == \A c \in dirs : meta[c].state # "NoFile"

Goto(s, label) == pc' = [pc EXCEPT ![s] = label]

Hold(s, j) == job' = [job EXCEPT ![s] = j]

\* The command returns, successfully or with an error.
End(s) == Goto(s, "idle") /\ Hold(s, NoJob)

\* Assignments to the fields of a Container.
InState(record, state) == [record EXCEPT !.state = state]
Acquired(record, layers) == [record EXCEPT !.acquired = @ \cup layers]
RunningAs(record, pid) == [record EXCEPT !.state = "Running", !.pid = pid]
Halted(record) == [record EXCEPT !.state = "Stopped", !.pid = NoPid]

Kill(p) == engine' = [engine EXCEPT ![p].run = IF @ = "up" THEN "killed" ELSE @]

-----------------------------------------------------------------------------
(***************************************************************************)
(* ContainerStore::save, the last three steps of which other sessions can  *)
(* see: it creates the directory if it is missing, writes a temporary file *)
(* in it, and renames that file over metadata.json.                        *)
(***************************************************************************)
At(s, stage) == tmp' = [tmp EXCEPT ![s] = stage]

\* create_dir_all.
SaveDir(s) ==
  /\ pc[s] \in SavePCs
  /\ tmp[s] = "none"
  /\ dirs' = dirs \cup {job[s].c}
  /\ At(s, "dir")
  /\ UNCHANGED <<meta, stray, refcount, kernel, drawn, pc, job, faults>>

\* File::create, under a name of its own, write_all and sync_all.
SaveFile(s) ==
  /\ tmp[s] = "dir"
  /\ job[s].c \in dirs
  /\ At(s, "file")
  /\ UNCHANGED <<dirs, meta, stray, refcount, kernel, drawn, pc, job, faults>>

\* rename: the last step of the save, taken with what its caller does next.
Save(s, record) ==
  /\ tmp[s] = "file"
  /\ At(s, "none")
  /\ meta' = [meta EXCEPT ![job[s].c] = record]
  /\ UNCHANGED <<dirs, stray>>

\* A save that fails: `?` returns at once, with no cleanup.  Between spawn and
\* wait that drops the SpawnedProcess, which kills the engine.
SaveError(s) ==
  /\ IF pc[s] = "save_running"
     THEN Kill(job[s].pid) /\ Goto(s, "drop_wait") /\ UNCHANGED <<job, wired>>
     ELSE End(s) /\ UNCHANGED kernel
  /\ At(s, "none")
  /\ UNCHANGED <<dirs, meta, refcount, drawn>>

\* A removal took the directory or the temporary file away.
SaveLost(s) ==
  /\ pc[s] \in SavePCs
  /\ tmp[s] = "gone" \/ (tmp[s] = "dir" /\ job[s].c \notin dirs)
  /\ SaveError(s)
  /\ UNCHANGED <<stray, faults>>

\* What a session leaves on the disk when it goes away in the middle of a save.
Abandon(s) ==
  stray' = IF tmp[s] = "file" THEN stray \cup {job[s].c} ELSE stray

\* A start that has printed its banner blocks in process.wait() and returns by
\* itself; every other busy session is one whose outcome its caller awaits.
Detached == {"wait", "save_stopped", "cleanup"}

(***************************************************************************)
(* How commands are issued.                                                *)
(*   concurrent: any time (several users, the console's start threads).    *)
(*   terminal:   one operator with several terminals, who waits for every  *)
(*               command but start to return.                              *)
(*   script:     as test_lifecycle.sh and the integration tests do: after  *)
(*               stop, wait for the start session to return as well.       *)
(***************************************************************************)
MayBegin(s, c, command) ==
  /\ pc[s] = "idle"
  /\ Discipline # "concurrent" =>
       \A t \in Sessions : pc[t] \in Detached \cup {"idle"}
  /\ Discipline = "script" /\ command # "stop" =>
       \A t \in Sessions : job[t].c # c

-----------------------------------------------------------------------------
Init ==
  /\ dirs = {}
  /\ meta = [c \in Containers |-> NoFile]
  /\ refcount = [l \in Layers |-> 0]
  /\ engine = [p \in Pids |-> [c |-> NoContainer, run |-> "unused"]]
  /\ wired = [c \in Containers |-> NoPid]
  /\ drawn = {}
  /\ tmp = [s \in Sessions |-> "none"]
  /\ stray = {}
  /\ pc = [s \in Sessions |-> "idle"]
  /\ job = [s \in Sessions |-> NoJob]
  /\ faults = 0

(***************************************************************************)
(* create: RuntimeService::create, ContainerStore::create.                 *)
(***************************************************************************)
\* List the containers, refuse a duplicate name, draw an id.
CreateFind(s, c) ==
  /\ MayBegin(s, c, "create")
  /\ ListSucceeds
  /\ \A d \in dirs : NameOf[d] # NameOf[c]
  /\ c \notin drawn
  /\ drawn' = drawn \cup {c}
  /\ Goto(s, "mkdir")
  /\ Hold(s, JobOn(c, InState(NoFile, "Created")))
  /\ UNCHANGED <<dirs, meta, temps, refcount, kernel, faults>>

CreateDir(s) ==
  /\ pc[s] = "mkdir"
  /\ dirs' = dirs \cup {job[s].c}
  /\ Goto(s, "create_save")
  /\ UNCHANGED <<meta, temps, refcount, kernel, drawn, job, faults>>

CreateSave(s) ==
  /\ pc[s] = "create_save"
  /\ Save(s, job[s].snap)
  /\ Goto(s, "create_volume")
  /\ UNCHANGED <<refcount, kernel, drawn, job, faults>>

\* The data volume is created, or creating it fails and the container is
\* removed again.
CreateVolume(s) ==
  /\ pc[s] = "create_volume"
  /\ \/ End(s)
     \/ Goto(s, "remove") /\ UNCHANGED job
  /\ UNCHANGED <<disk, kernel, faults>>

-----------------------------------------------------------------------------
(***************************************************************************)
(* start: run::start_impl.                                                 *)
(***************************************************************************)
\* Mutant: transition() also allows Running -> Starting.
StartFindRunning(s, c) ==
  /\ MayBegin(s, c, "start")
  /\ ListSucceeds
  /\ meta[c].state \in {"Created", "Stopped", "Running"}
  /\ Goto(s, "save_starting")
  /\ Hold(s, JobOn(c, InState(meta[c], "Starting")))
  /\ UNCHANGED <<disk, kernel, faults>>

\* find and transition(Starting), which only Created and Stopped allow.
StartFind(s, c) ==
  /\ MayBegin(s, c, "start")
  /\ ListSucceeds
  /\ meta[c].state \in {"Created", "Stopped"}
  /\ Goto(s, "save_starting")
  /\ Hold(s, JobOn(c, InState(meta[c], "Starting")))
  /\ UNCHANGED <<disk, kernel, faults>>

SaveStarting(s) ==
  /\ pc[s] = "save_starting"
  /\ Save(s, job[s].snap)
  /\ Goto(s, "layers")
  /\ Hold(s, [job[s] EXCEPT !.todo = LayersOf[job[s].c] \ job[s].snap.acquired])
  /\ UNCHANGED <<refcount, kernel, drawn, faults>>

\* Mutant: ensure returns early, without counting, when the diff exists.
EnsureLayerOnce(s, l) ==
  /\ pc[s] = "layers"
  /\ l \in job[s].todo
  /\ refcount' = [refcount EXCEPT ![l] = IF @ = 0 THEN 1 ELSE @]
  /\ Hold(s, [job[s] EXCEPT !.todo = @ \ {l}, !.fresh = @ \cup {l}])
  /\ UNCHANGED <<dirs, meta, temps, kernel, drawn, pc, faults>>

\* LayerStore::ensure of one layer the snapshot does not hold yet.
EnsureLayer(s, l) ==
  /\ pc[s] = "layers"
  /\ l \in job[s].todo
  /\ refcount' = [refcount EXCEPT ![l] = @ + 1]
  /\ Hold(s, [job[s] EXCEPT !.todo = @ \ {l}, !.fresh = @ \cup {l}])
  /\ UNCHANGED <<dirs, meta, temps, kernel, drawn, pc, faults>>

LayersEnsured(s) ==
  /\ pc[s] = "layers"
  /\ job[s].todo = {}
  /\ Goto(s, IF job[s].fresh = {} THEN "prepare" ELSE "save_acquired")
  /\ Hold(s, [job[s] EXCEPT !.snap = Acquired(@, job[s].fresh), !.fresh = {}])
  /\ UNCHANGED <<disk, kernel, faults>>

SaveAcquired(s) ==
  /\ pc[s] = "save_acquired"
  /\ Save(s, job[s].snap)
  /\ Goto(s, "prepare")
  /\ UNCHANGED <<refcount, kernel, drawn, job, faults>>

\* Any `?` before the engine exists: a missing image, a layer that does not
\* unpack, a missing volume, an install-db that fails, a spawn that fails.
\* Nothing is undone.
StartFails(s) ==
  /\ pc[s] \in {"layers", "prepare"}
  /\ End(s)
  /\ UNCHANGED <<disk, kernel, faults>>

\* A spawn whose helper dies early reaps with waitpid(-1): in the console, whose
\* sessions are threads of one process, that may be the helper of another start.
StartFailsReaping(s, p) ==
  /\ Discipline = "concurrent"
  /\ pc[s] = "prepare"
  /\ engine[p].run = "gone"
  /\ \E t \in Sessions :
       pc[t] \in {"wire", "save_running", "wait"} /\ job[t].pid = p
  /\ engine' = [engine EXCEPT ![p].run = "taken"]
  /\ End(s)
  /\ UNCHANGED <<disk, wired, faults>>

\* Rootfs, volumes, data directory and logs are ready: the engine is spawned.
Spawn(s, p) ==
  /\ pc[s] = "prepare"
  /\ engine[p].run = "unused"
  /\ engine' = [engine EXCEPT ![p] = [c |-> job[s].c, run |-> "up"]]
  /\ Goto(s, "wire")
  /\ Hold(s, [job[s] EXCEPT !.pid = p])
  /\ UNCHANGED <<disk, wired, faults>>

\* wire_up succeeds.  Creating the veth fails if one of that name exists.
WireUp(s) ==
  LET c == job[s].c  p == job[s].pid IN
  /\ pc[s] = "wire"
  /\ Alive(p)
  /\ wired[c] = NoPid
  /\ wired' = [wired EXCEPT ![c] = p]
  /\ Goto(s, "save_running")
  /\ Hold(s, [job[s] EXCEPT !.net = TRUE])
  /\ UNCHANGED <<disk, engine, faults>>

\* Mutant: the engine is awaited but not killed.
WireUpFailsNoKill(s) ==
  /\ pc[s] = "wire"
  /\ Alive(job[s].pid)
  /\ Goto(s, "abort_wait")
  /\ UNCHANGED <<disk, kernel, job, faults>>

\* Mutant: the error is returned and the engine forgotten.
WireUpFailsForgets(s) ==
  /\ pc[s] = "wire"
  /\ Alive(job[s].pid)
  /\ End(s)
  /\ UNCHANGED <<disk, kernel, faults>>

\* wire_up fails and the engine is alive: kill it.  It may have failed before
\* or after the veth was attached.
WireUpFails(s) ==
  LET c == job[s].c  p == job[s].pid IN
  /\ pc[s] = "wire"
  /\ Alive(p)
  /\ \/ UNCHANGED <<wired, job>>
     \/ /\ wired[c] = NoPid
        /\ wired' = [wired EXCEPT ![c] = p]
        /\ Hold(s, [job[s] EXCEPT !.net = TRUE])
  /\ Kill(p)
  /\ Goto(s, "abort_wait")
  /\ UNCHANGED <<disk, faults>>

\* Mutant: every wiring error is only a warning.
WiringErrorIsWarning(s) ==
  /\ pc[s] = "wire"
  /\ Goto(s, "save_running")
  /\ UNCHANGED <<disk, kernel, job, faults>>

\* Delete the veth of c's name and remove its cgroup, which kills what runs in
\* it, whoever owns them by now.
Unwire(c) ==
  /\ wired' = [wired EXCEPT ![c] = NoPid]
  /\ engine' = [p \in Pids |->
       IF c \in Limited /\ wired[c] = p /\ engine[p].run = "up"
       THEN [engine[p] EXCEPT !.run = "killed"]
       ELSE engine[p]]

Cleanup(s) == IF job[s].net THEN Unwire(job[s].c) ELSE UNCHANGED kernel

\* wire_up fails because the engine is gone: a warning, the cleanup of what
\* wire_up had made by then, and start goes on.
EngineGoneBeforeWiring(s) ==
  /\ pc[s] = "wire"
  /\ ~Alive(job[s].pid)
  /\ Unwire(job[s].c) \/ UNCHANGED kernel
  /\ Goto(s, "save_running")
  /\ UNCHANGED <<disk, job, faults>>

AbortReaped(s) ==
  /\ pc[s] = "abort_wait"
  /\ ~Alive(job[s].pid)
  /\ Goto(s, "abort_cleanup")
  /\ UNCHANGED <<disk, kernel, job, faults>>

AbortCleanup(s) ==
  /\ pc[s] = "abort_cleanup"
  /\ Cleanup(s)
  /\ Goto(s, "abort_save")
  /\ Hold(s, [job[s] EXCEPT !.snap = Halted(@), !.net = FALSE])
  /\ UNCHANGED <<disk, faults>>

AbortSave(s) ==
  /\ pc[s] = "abort_save"
  /\ Save(s, job[s].snap)
  /\ End(s)
  /\ UNCHANGED <<refcount, kernel, drawn, faults>>

SaveRunning(s) ==
  LET running == RunningAs(job[s].snap, job[s].pid) IN
  /\ pc[s] = "save_running"
  /\ Save(s, running)
  /\ Goto(s, "wait")
  /\ Hold(s, [job[s] EXCEPT !.snap = running])
  /\ UNCHANGED <<refcount, kernel, drawn, faults>>

\* Mutant: the pid is left in the record.
WaitReturnsKeepsPid(s) ==
  /\ pc[s] = "wait"
  /\ ~Alive(job[s].pid)
  /\ Goto(s, "save_stopped")
  /\ Hold(s, [job[s] EXCEPT !.snap = InState(@, "Stopped")])
  /\ UNCHANGED <<disk, kernel, faults>>

\* Mutant: try_wait() in place of wait().
WaitDoesNotBlock(s) ==
  /\ pc[s] = "wait"
  /\ Goto(s, "save_stopped")
  /\ Hold(s, [job[s] EXCEPT !.snap = Halted(@)])
  /\ UNCHANGED <<disk, kernel, faults>>

\* process.wait(): the helper reaped the engine and forwarded its status.
WaitReturns(s) ==
  /\ pc[s] = "wait"
  /\ engine[job[s].pid].run = "gone"
  /\ Goto(s, "save_stopped")
  /\ Hold(s, [job[s] EXCEPT !.snap = Halted(@)])
  /\ UNCHANGED <<disk, kernel, faults>>

\* process.wait() finds no child, for another start has reaped it: `?` returns,
\* with nothing saved and nothing cleaned up.
WaitFails(s) ==
  /\ pc[s] = "wait"
  /\ engine[job[s].pid].run = "taken"
  /\ End(s)
  /\ UNCHANGED <<disk, kernel, faults>>

\* Mutant: the last save of start does not rename its file.
SaveStoppedMissing(s) ==
  /\ pc[s] = "save_stopped"
  /\ tmp[s] = "file"
  /\ At(s, "none")
  /\ Goto(s, "cleanup")
  /\ UNCHANGED <<dirs, meta, stray, refcount, drawn, kernel, job, faults>>

SaveStopped(s) ==
  /\ pc[s] = "save_stopped"
  /\ Save(s, job[s].snap)
  /\ Goto(s, "cleanup")
  /\ UNCHANGED <<refcount, kernel, drawn, job, faults>>

StartReturns(s) ==
  /\ pc[s] = "cleanup"
  /\ Cleanup(s)
  /\ End(s)
  /\ UNCHANGED <<disk, faults>>

\* SpawnedProcess::drop after a failed save: SIGKILL was sent; wait for it.
DropReaped(s) ==
  /\ pc[s] = "drop_wait"
  /\ ~Alive(job[s].pid)
  /\ End(s)
  /\ UNCHANGED <<disk, kernel, faults>>

-----------------------------------------------------------------------------
(***************************************************************************)
(* stop: run::stop_impl.                                                   *)
(***************************************************************************)
StopFind(s, c) ==
  /\ MayBegin(s, c, "stop")
  /\ ListSucceeds
  /\ meta[c].state = "Running"
  /\ meta[c].pid # NoPid
  /\ Goto(s, "save_stopping")
  /\ Hold(s, JobOn(c, InState(meta[c], "Stopping")))
  /\ UNCHANGED <<disk, kernel, faults>>

\* Then SIGTERM, which an engine may obey at any time or ignore.
SaveStopping(s) ==
  /\ pc[s] = "save_stopping"
  /\ Save(s, job[s].snap)
  /\ Goto(s, "term_wait")
  /\ UNCHANGED <<refcount, kernel, drawn, job, faults>>

\* wait_for_exit(STOP_GRACE_SECS) sees the process gone.
ExitSeen(s) ==
  /\ pc[s] = "term_wait"
  /\ ~Alive(job[s].pid)
  /\ Goto(s, "stop_save")
  /\ Hold(s, [job[s] EXCEPT !.snap = Halted(@)])
  /\ UNCHANGED <<disk, kernel, faults>>

\* Mutant: no SIGKILL after the grace period.
GraceEndsNoKill(s) ==
  /\ pc[s] = "term_wait"
  /\ Goto(s, "kill_wait")
  /\ UNCHANGED <<disk, kernel, job, faults>>

\* The grace period ends: SIGKILL.
GraceEnds(s) ==
  /\ pc[s] = "term_wait"
  /\ Kill(job[s].pid)
  /\ Goto(s, "kill_wait")
  /\ UNCHANGED <<disk, wired, job, faults>>

\* wait_for_exit(KILL_GRACE_SECS) returns; its result is not looked at.
KillGraceEnds(s) ==
  /\ pc[s] = "kill_wait"
  /\ Goto(s, "stop_save")
  /\ Hold(s, [job[s] EXCEPT !.snap = Halted(@)])
  /\ UNCHANGED <<disk, kernel, faults>>

\* Mutant: the last save of stop does not rename its file.
StopSaveMissing(s) ==
  /\ pc[s] = "stop_save"
  /\ tmp[s] = "file"
  /\ At(s, "none")
  /\ End(s)
  /\ UNCHANGED <<dirs, meta, stray, refcount, drawn, kernel, faults>>

StopSave(s) ==
  /\ pc[s] = "stop_save"
  /\ Save(s, job[s].snap)
  /\ End(s)
  /\ UNCHANGED <<refcount, kernel, drawn, faults>>

-----------------------------------------------------------------------------
(***************************************************************************)
(* destroy: RuntimeService::destroy, ContainerStore::remove.               *)
(***************************************************************************)
\* The state is not looked at here.  The script discipline looks first, as the
\* desktop client's destroy button does.
DestroyFind(s, c) ==
  /\ MayBegin(s, c, "destroy")
  /\ ListSucceeds
  /\ meta[c].state # "NoFile"
  /\ Discipline = "script" => meta[c].state \in Removable
  /\ Goto(s, "release")
  /\ Hold(s, [JobOn(c, meta[c]) EXCEPT !.todo = meta[c].acquired])
  /\ UNCHANGED <<disk, kernel, faults>>

\* Mutant: the count is decremented without looking at it.
ReleaseUnchecked(s, l) ==
  /\ pc[s] = "release"
  /\ l \in job[s].todo
  /\ refcount' = [refcount EXCEPT ![l] = @ - 1]
  /\ Hold(s, [job[s] EXCEPT !.todo = @ \ {l}])
  /\ UNCHANGED <<dirs, meta, temps, kernel, drawn, pc, faults>>

\* LayerStore::release: the last reference removes the layer, and releasing a
\* layer that is not there does nothing.
Release(s, l) ==
  /\ pc[s] = "release"
  /\ l \in job[s].todo
  /\ refcount' = [refcount EXCEPT ![l] = IF @ = 0 THEN 0 ELSE @ - 1]
  /\ Hold(s, [job[s] EXCEPT !.todo = @ \ {l}])
  /\ UNCHANGED <<dirs, meta, temps, kernel, drawn, pc, faults>>

LayersReleased(s) ==
  /\ pc[s] = "release"
  /\ job[s].todo = {}
  /\ Goto(s, "remove")
  /\ UNCHANGED <<disk, kernel, job, faults>>

\* ContainerStore::remove loads the metadata again and refuses a container
\* that is not Created or Stopped.
RemoveAccepts(s) ==
  /\ pc[s] = "remove"
  /\ meta[job[s].c].state \in Removable
  /\ Goto(s, "rm_files")
  /\ UNCHANGED <<disk, kernel, job, faults>>

RemoveRefuses(s) ==
  /\ pc[s] = "remove"
  /\ meta[job[s].c].state \notin Removable
  /\ End(s)
  /\ UNCHANGED <<disk, kernel, faults>>

\* The temporary files of c are removed with the others.
TempsRemoved(c) ==
  /\ tmp' = [t \in Sessions |->
       IF job[t].c = c /\ tmp[t] = "file" THEN "gone" ELSE tmp[t]]
  /\ stray' = stray \ {c}

\* Mutant: the files are removed, the directory is left behind.
RemoveFilesOnly(s) ==
  /\ pc[s] = "rm_files"
  /\ meta' = [meta EXCEPT ![job[s].c] = NoFile]
  /\ TempsRemoved(job[s].c)
  /\ End(s)
  /\ UNCHANGED <<dirs, refcount, kernel, drawn, faults>>

\* remove_dir_all: first the files, then the directory, which must be empty.
RemoveFiles(s) ==
  /\ pc[s] = "rm_files"
  /\ meta' = [meta EXCEPT ![job[s].c] = NoFile]
  /\ TempsRemoved(job[s].c)
  /\ Goto(s, "rmdir")
  /\ UNCHANGED <<dirs, refcount, kernel, drawn, job, faults>>

\* No metadata.json and no temporary file.
IsEmpty(c) ==
  /\ meta[c].state = "NoFile"
  /\ c \notin stray
  /\ \A t \in Sessions : job[t].c = c => tmp[t] # "file"

RemoveDir(s) ==
  LET c == job[s].c IN
  /\ pc[s] = "rmdir"
  /\ dirs' = IF IsEmpty(c) THEN dirs \ {c} ELSE dirs
  /\ End(s)
  /\ UNCHANGED <<meta, temps, refcount, kernel, drawn, faults>>

-----------------------------------------------------------------------------
(***************************************************************************)
(* The environment: engines that exit, and faults.                         *)
(***************************************************************************)
\* An engine exits, by itself or by a signal, and is reaped.  Its network
\* namespace goes, and the veth with it.
EngineExits(p) ==
  /\ Alive(p)
  /\ engine' = [engine EXCEPT ![p].run = "gone"]
  /\ wired' = [c \in Containers |-> IF wired[c] = p THEN NoPid ELSE wired[c]]
  /\ UNCHANGED <<disk, pc, job, faults>>

CommandOf(label) ==
  CASE label \in CreatePCs -> "create"
    [] label \in StartPCs -> "start"
    [] label \in StopPCs -> "stop"
    [] OTHER -> "destroy"

MayCrash(s) == pc[s] = "idle" \/ CommandOf(pc[s]) \in CrashableCommands

Fault ==
  /\ faults < MaxFaults
  /\ faults' = faults + 1

\* The session is killed (Ctrl-C, SIGKILL): its engine may outlive it.
Crash(s) ==
  /\ Fault
  /\ pc[s] # "idle"
  /\ MayCrash(s)
  /\ End(s)
  /\ At(s, "none")
  /\ Abandon(s)
  /\ UNCHANGED <<dirs, meta, refcount, drawn, kernel>>

\* The host restarts: the files stay.
Reboot ==
  /\ Fault
  /\ \A s \in Sessions : MayCrash(s)
  /\ engine' = [p \in Pids |-> IF Alive(p) THEN [engine[p] EXCEPT !.run = "gone"] ELSE engine[p]]
  /\ wired' = [c \in Containers |-> NoPid]
  /\ pc' = [s \in Sessions |-> "idle"]
  /\ job' = [s \in Sessions |-> NoJob]
  /\ tmp' = [s \in Sessions |-> "none"]
  /\ stray' = stray \cup {c \in Containers : \E s \in Sessions : job[s].c = c /\ tmp[s] = "file"}
  /\ UNCHANGED <<dirs, meta, refcount, drawn>>

\* process.wait() fails: the helper died without forwarding a status.
HelperLost(s) ==
  /\ Fault
  /\ pc[s] = "wait"
  /\ "start" \in CrashableCommands
  /\ End(s)
  /\ UNCHANGED <<disk, kernel>>

\* Any step of a save fails (a full disk).
SaveFails(s) ==
  /\ Fault
  /\ pc[s] \in SavePCs
  /\ MayCrash(s)
  /\ SaveError(s)
  /\ Abandon(s)

-----------------------------------------------------------------------------
Create(s) ==
  \/ CreateDir(s)
  \/ CreateSave(s)
  \/ CreateVolume(s)

Start(s) ==
  \/ SaveStarting(s)
  \/ \E l \in Layers : EnsureLayer(s, l)
  \/ LayersEnsured(s)
  \/ SaveAcquired(s)
  \/ StartFails(s)
  \/ \E p \in Pids : StartFailsReaping(s, p) \/ Spawn(s, p)
  \/ WireUp(s)
  \/ WireUpFails(s)
  \/ EngineGoneBeforeWiring(s)
  \/ AbortReaped(s)
  \/ AbortCleanup(s)
  \/ AbortSave(s)
  \/ SaveRunning(s)
  \/ WaitReturns(s)
  \/ WaitFails(s)
  \/ SaveStopped(s)
  \/ StartReturns(s)
  \/ DropReaped(s)

Stop(s) ==
  \/ SaveStopping(s)
  \/ ExitSeen(s)
  \/ GraceEnds(s)
  \/ KillGraceEnds(s)
  \/ StopSave(s)

Destroy(s) ==
  \/ \E l \in Layers : Release(s, l)
  \/ LayersReleased(s)
  \/ RemoveAccepts(s)
  \/ RemoveRefuses(s)
  \/ RemoveFiles(s)
  \/ RemoveDir(s)

\* The steps of a save before its rename, and its failure.
Saving(s) ==
  \/ SaveDir(s)
  \/ SaveFile(s)
  \/ SaveLost(s)

\* A session that has begun a command goes on with it.
Proceed(s) == Create(s) \/ Start(s) \/ Stop(s) \/ Destroy(s) \/ Saving(s)

Begin(s) ==
  \E c \in Containers :
    CreateFind(s, c) \/ StartFind(s, c) \/ StopFind(s, c) \/ DestroyFind(s, c)

Next ==
  \/ \E s \in Sessions : Begin(s) \/ Proceed(s)
  \/ \E p \in Pids : EngineExits(p)
  \/ \E s \in Sessions : Crash(s) \/ HelperLost(s) \/ SaveFails(s)
  \/ Reboot

Spec == Init /\ [][Next]_vars

\* The scheduler runs every session, and the kernel delivers SIGKILL.  No
\* command need ever be issued, and no engine need exit unless it is killed.
Fairness ==
  /\ \A s \in Sessions : WF_vars(Proceed(s))
  /\ \A p \in Pids : WF_vars(engine[p].run = "killed" /\ EngineExits(p))

FairSpec == Spec /\ Fairness

-----------------------------------------------------------------------------
(***************************************************************************)
(* Properties.                                                             *)
(***************************************************************************)
\* A record on disk, and every snapshot that may be written there, carries a
\* pid exactly while it says Running or Stopping: the CorruptState branch of
\* stop ("running container without a recorded pid") is never taken, whatever
\* the interleaving of blind saves.
PidMatchesState(record) == record.pid # NoPid <=> record.state \in {"Running", "Stopping"}

PidIffActive ==
  /\ \A c \in Containers : PidMatchesState(meta[c])
  /\ \A s \in Sessions : PidMatchesState(job[s].snap)

\* The types, and the pids of the records, on disk and in memory.
RecordInv == TypeOK /\ PidIffActive

\* Two engines never run on one data volume, <name>-data.
OneEnginePerVolume ==
  \A p, q \in Pids :
    engine[p].run = "up" /\ engine[q].run = "up" /\ p # q
      => NameOf[engine[p].c] # NameOf[engine[q].c]

\* A container that start or destroy would accept, or that is destroyed, has
\* no engine but one that SIGKILL has already been sent to.
StoppedMeansDead ==
  \A p \in Pids :
    engine[p].run = "up" => meta[engine[p].c].state \notin Removable \cup {"NoFile"}

\* A running container's engine owns the veth and cgroup of its name: no
\* earlier session's cleanup has taken them away.
RunningIsWired ==
  \A c \in Containers :
    meta[c].state = "Running" /\ engine[meta[c].pid].run = "up" => wired[c] = meta[c].pid

\* The containers on disk that hold a layer and have not released it yet.
Holders(l) ==
  {c \in Containers :
     /\ l \in meta[c].acquired
     /\ \A s \in Sessions : pc[s] \in DestroyPCs /\ job[s].c = c => l \in job[s].todo}

\* A layer's count never falls below the containers that hold it, so release
\* never deletes a layer another container still needs.
NeverUndercounted == \A l \in Layers : refcount[l] >= Cardinality(Holders(l))

\* Between a directory and its metadata: create, save and remove.
AtWorkOn(s, c) ==
  /\ job[s].c = c
  /\ \/ pc[s] \in {"create_save", "rmdir"} /\ tmp[s] = "none"
     \/ tmp[s] \in {"dir", "file"}

BareDirsAtWork ==
  \A c \in dirs : meta[c].state = "NoFile" => \E s \in Sessions : AtWorkOn(s, c)

\* A directory without metadata, which makes every list and find fail, exists
\* only while a create, a save or a removal is at work on it, unless one was
\* cut short.  A start or stop that saves over a container that another session
\* destroys makes one too, and ends it with its rename; a removal that finds a
\* temporary file in the directory leaves it to the save.
BareDirIsTransient == faults = 0 => BareDirsAtWork

\* Every live engine has a session that will record its exit, unless that
\* session was killed: no error path of start forgets the process it spawned.
EngineHasWaiter ==
  faults = 0 =>
    \A p \in Pids :
      engine[p].run = "up"
        => \E s \in Sessions : job[s].pid = p /\ pc[s] \in {"wire", "save_running", "wait"}

\* When stop reports success the engine it found is dead or SIGKILLed.
StopLeavesNothingAlive ==
  [][\A s \in Sessions :
       pc[s] = "stop_save" /\ pc'[s] = "idle" => engine[job[s].pid].run # "up"]_vars

\* Every command returns: none hangs on an engine that will not die.  A start
\* counts as returned once it has printed its banner.
CommandReturns ==
  \A s \in Sessions :
    pc[s] \notin Detached \cup {"idle"} ~> pc[s] \in Detached \cup {"idle"}

\* A stop that has persisted Stopping gets the container out of Stopping.
StopCompletes ==
  \A c \in Containers : meta[c].state = "Stopping" ~> meta[c].state # "Stopping"

\* The death of an engine is recorded, so that no record keeps a dead pid
\* forever, unless another start has reaped the status its session waits for.
ExitIsRecorded ==
  \A c \in Containers, p \in Pids :
    (meta[c].pid = p /\ engine[p].run = "gone")
      ~> (meta[c].pid # p \/ engine[p].run = "taken")

\* Said of the program, and not true of it (the run that refutes it says how).

\* "`Destroyed` is the only terminal state" (docs/container-runtime.md): a
\* container in a state no command accepts has a session taking it out of it.
OnlyDestroyedIsTerminal ==
  \A c \in Containers :
    meta[c].state \in {"Starting", "Stopping"}
      => \E s \in Sessions : job[s].c = c

-----------------------------------------------------------------------------
(***************************************************************************)
(* The lifecycle a reader of the data root sees.                           *)
(***************************************************************************)
Visible == [c \in Containers |-> IF meta[c].state = "NoFile" THEN "Absent" ELSE meta[c].state]

Served == [c \in Containers |-> \E p \in Pids : engine[p].c = c /\ engine[p].run = "up"]

\* The edges ContainerState::transition allows, with "Absent" for Destroyed,
\* which is never persisted.
TransitionEdges ==
  { <<"Created", "Starting">>, <<"Starting", "Running">>, <<"Starting", "Stopping">>,
    <<"Running", "Stopping">>, <<"Running", "Stopped">>, <<"Stopping", "Stopped">>,
    <<"Stopped", "Starting">>, <<"Stopped", "Absent">> }

\* The edges that reach the disk without passing through transition():
\* create and the removal of a container that never started; the rollback of
\* a failed wiring; and a stop whose snapshot says Running when the engine has
\* just exited by itself and the start session has saved Stopped.
UncheckedEdges ==
  { <<"Absent", "Created">>, <<"Created", "Absent">>,
    <<"Starting", "Stopped">>, <<"Stopped", "Stopping">> }

KnownEdges == TransitionEdges \cup UncheckedEdges

L == INSTANCE Lifecycle WITH
       state <- Visible, serving <- Served,
       Edges <- KnownEdges

\* Under the script discipline the commands implement the lifecycle: the disk
\* moves along the edges of transition() and the four above and no other, and
\* an engine serves a container only between Starting and Stopped.
ImplementsLifecycle == L!Spec

=============================================================================
