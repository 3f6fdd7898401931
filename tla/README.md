# tokedb in TLA+

tokedb runs database engines in containers of its own: images are bundles of
layers, a container is a directory with a `metadata.json`, an engine is a
process behind a fork helper in fresh namespaces. There is **no daemon**. Every
command (`tokedb create`, `start`, ...) is a process, or a thread of the console
or of the desktop client; what they share is the data root on disk and the
kernel. `start` blocks for the whole life of the engine. All the hard behaviour
follows from that: commands read a snapshot, work for seconds or days, and
write whole files back.

## 1. Inventory

Paths are below `src/tokedb-runtime/src/`.

| Component | State | Operations | Hard behaviour | What makes it correct |
|---|---|---|---|---|
| Container commands (`runtime/run.rs`, `runtime/container_store.rs`, `runtime/lifecycle.rs`, `service/mod.rs`) | `containers/<id>/metadata.json`, the engine process, veth and cgroup named after the id | create, start, stop, destroy, list, find | blind saves of stale snapshots; a start session that outlives stop; crash at any step; a find that fails on any broken directory | pid recorded exactly while active; one engine per data volume; Stopped means dead; nothing resurrected or lost |
| Layer store (`storage/layer_store.rs`) | `layers/<hex>/diff`, `refcount` | ensure, release | read-modify-write of a file; a mutex that every command creates anew; crash between rename and count | a layer is there, complete, while a container holds it |
| Image store (`image/storage.rs`, `image/manifest.rs`, `image/reference.rs`) | `images/<reference>/` | import, pull, export, get, verify, remove, list | staging + rename; remove racing create; two imports of one reference; one image under two spellings of its reference | a visible image is complete and verified |
| Registries (`image/registry/`) | blobs and `index.json` of a local registry; HTTP | publish, fetch, list | lost update of the index; partial publish | what the index names can be fetched |
| Volumes and backups (`storage/volume.rs`, `storage/backup.rs`) | `volumes/<name>/`, lock file, archives | create, get, list, remove, backup | lock left by a crash; the engine does not take the lock | one backup at a time; a data directory is not cleared while in use |
| Data directory initialisation (`run.rs`) | files of the volume | probe, clear, install-db | interrupted install | an initialised directory is never cleared |
| Process helper (`runtime/process.rs`) | fork helper, status pipe | spawn, wait, kill, drop | `waitpid(-1)`, partial reads, parent death | the exit status waited for is the container's own; no orphans |
| Network (`network/`) | bridge, veth pairs, TCP/UDP proxies | attach, detach, proxy | names and addresses derived from a hash; proxies that stop and start again; retries; binds and removals that fail in silence | one address per container; what a start made is taken away again; a port is lost only to who has it |
| Isolation (`isolation/`, `filesystem/`) | cgroup files, mounts, capabilities, seccomp | apply, remove, pivot | order of the pre-exec steps | limits apply before the engine runs |
| Console (`console/`) | prompt, command threads, log offsets | run_detached, follow_logs, split | a log truncated between two polls | no line lost or repeated |
| CLI, desktop client (`cli/`, `src-tauri/`, `frontend/`) | a mutex around the service | dispatch | start holds the mutex for the life of the container | other commands stay possible |
| Databases, metrics, config | constants, `/proc` readings | - | - | - |

The components meet in the data root: `create` and `start` read the image
store, `start` takes layers (`ensure`) and `destroy` gives them back
(`release`), `start` mounts a volume and `create` makes it, `remove_image`
looks at the containers first. The start session and the stop session of one
container meet in its metadata file and in the engine's pid.

## 2. Modules

| Module | What it is |
|---|---|
| `ContainerRuntime` | The core: create, start, stop and destroy over the container store, the engines, the layer counts, and the faults. |
| `Lifecycle` | Abstract: the states of one container, the edges between them, and when an engine may serve it. `ContainerRuntime` is shown to implement it. |
| `LayerStore` | `ensure` and `release` of one layer, file operation by file operation; takes apart what `ContainerRuntime` does in one step. |
| `LayerCount` | Abstract: a counter of the callers that hold a reference. `LayerStore` is shown to implement it when calls exclude each other. |
| `ImageStore` | Images and the local registry: import, pull, remove, publish, and the containers made from images. |
| `Confinement` | What the child of a start does between fork and exec: namespaces, mounts, filter, capabilities, user. |
| `SpawnHelper` | Extends `Confinement`: threads, fork helpers, status and log pipes, wait, kill and drop. Takes apart the spawn and the wait of `ContainerRuntime`. |
| `NetworkWiring` | `wire_up` and `cleanup`, request by request: bridge, veth, proxies' ports, cgroup. Takes apart `wired` of `ContainerRuntime`. |
| `PortProxy` | The TCP and UDP proxies in front of an engine that starts late. |
| `DatagramRelay` | Abstract: a line there and back for each client, that may lose datagrams. The UDP part of `PortProxy` is shown to implement it. |
| `DataVolume` | One volume: create, remove, backup with its lock, and what a start does to it before the engine runs. |
| `Frontends` | Console, batch mode, `logs -f`, desktop client: what lies between an operator and the commands. |
| `ContainerRuntimeProofs`, `SpawnHelperProofs` (and of `Confinement`), `NetworkWiringProofs`, `DataVolumeProofs`, `PortProxyProofs`, `LayerStoreProofs`, `ImageStoreProofs`, `FrontendsProofs` | Theorems, for every value of the constants. |
| `MC...` | Small instances for TLC. |

### ContainerRuntime

**Sessions.** A session is one command in flight: a process of the command
line, a start thread of the console, a call of the desktop client. `pc[s]` is
where it is, `job[s]` what it has in memory. `job[s].snap` is the local
variable `container` of `start_impl` and `stop_impl`: it is read once, by
`find`, and every save writes it back whole, without reading the file again.
Most of what can go wrong, and most of what the properties say, is about those
blind saves.

**State.** `dirs` and `meta` are `containers/<id>/` and its `metadata.json`;
`refcount` the layers' counts; `engine` the process table; `wired` the veth and
cgroup, which are named after the container and so belong to whichever engine
got them last. `drawn` only keeps `create` from drawing an id twice.

**Grain.** One action is the code between two points at which another session
could see or change something shared. What a session computes after a read stays
with the read: `StartFind` is `find` and `transition(Starting)`. A save is three
steps: `SaveDir` (`create_dir_all`), `SaveFile` (a temporary file), and the
`rename`, `Save`, which is part of the action named after the save
(`SaveStarting`, `StopSave`, ...) together with what its session does next. A start
or stop that saves over a destroyed container so makes its directory first and its
record later. `tmp[s]` is how far a save has got, and `stray` the containers in
whose directory a dead session has left a temporary file. `remove_dir_all` is two
steps, the files and then the directory, because a `list` in between fails; it takes
the temporary files along (`TempsRemoved`), and its last step fails if a save has put
a new one there (`RemoveDir`). `create` is list, `create_dir_all`, save, volume.

**Errors.** Every `?` is an action or a disjunct. Those of `start_impl` before
the spawn undo nothing and share `StartFails`; a failed wiring goes through
`WireUpFails`, `AbortReaped`, `AbortCleanup`, `AbortSave`, and if the engine is gone
by then it is a warning and a cleanup (`EngineGoneBeforeWiring`). A save that fails
returns at once, and between spawn and wait this drops the `SpawnedProcess`, which
kills (`SaveError`, `DropReaped`). It fails because a removal has taken its directory
or its file (`SaveLost`, no fault) or for a reason of the host (`SaveFails`, a fault).
A start whose spawn fails early calls `waitpid(-1)`, and where sessions are threads of
the console that may take the status another start waits for: `StartFailsReaping`
makes that engine `"taken"`, and the other start then returns from a failed `wait()`
with nothing saved (`WaitFails`). This needs no fault either. A command that fails in
its `find` or is refused there changes nothing and is not a step.

**Faults.** `Crash` kills a session, not its engine: the fork helper and the
engine live on, and so does the temporary file of a save (`Abandon`). `Reboot` ends
everything but the files. `HelperLost` is `process.wait()` failing because the helper
died. `MaxFaults` bounds them and `CrashableCommands` says whom they may hit.

**How commands are issued** (`Discipline`) decides what can be promised, since
nothing in the code keeps sessions apart:

- `"concurrent"`: any command at any time. The console allows it: its `start`
  returns to the prompt and runs on in a thread.
- `"terminal"`: one operator who waits for each command but `start`, which
  blocks and is left in another terminal (README: "En otra terminal").
- `"script"`: as `test_lifecycle.sh` does (`start &`, `stop`, `wait $START_PID`,
  `destroy`) and the integration tests do: after `stop`, the start session has
  returned before the next command on that container. `destroy` is only issued
  on a container that is Created or Stopped, as the desktop client's buttons
  (`ContainersView.tsx`) have it.

**Abstracted.** `list` and `find` read all metadata in one step. Pids are never
reused. The order in which an image's layers are taken is left open. Ports,
proxies, logs, environment and rootfs content do not influence the control
above and are left out; that preparing them can fail is in `StartFails`.

### Lifecycle

`state[c]` moves along `Edges`, an engine begins to serve only in Starting, and
no container enters Absent, Created or Stopped while one serves it. The
refinement takes `meta[c].state` for `state`, and for `serving` whether an
engine of `c` is up and not yet killed. `Edges` is `TransitionEdges`, the graph
of `ContainerState::transition`, and `UncheckedEdges`, four edges that reach the
disk around it. The last of those is a real divergence from the documented
graph: `transition()` is applied to the snapshot and not to the record it
replaces, so a `stop` that read Running saves Stopping after the start session
has saved Stopped (docs/container-runtime.md draws no edge Stopped -> Stopping).
The `stop` then always goes on to Stopped.

### LayerStore

`ensure` is find, stage, unpack, rename, (or read the count,) truncate, write;
`release` is find, read, truncate, write, or a removal in several steps.
`file` is `"torn"` between the truncation and the write of `fs::write`.
`opened` has the writers whose open file is still the one in the directory: the
others write in vain. The mutex is in `LayerStore`, and `shared` says whether all
callers have the same one: as in the unit tests, and in effect when commands do
not overlap; or each its own, because `RuntimeService::layer_store` makes a new
`LayerStore` for every command. It is chosen in `Init`, so one run has both.

`CountsReferences` is the link to the core: with one mutex,
`LayerStore` implements `LayerCount`, whose `Ensure` and `Release` are what
`EnsureLayer` and `Release` of `ContainerRuntime` do to `refcount` and to the
set of holders. Under the script and terminal disciplines no two commands are
in `ensure` or `release` together, so the single steps of the core are justified
there. Under `"concurrent"` they are optimistic about layers, which is why no
property about layers is checked there: section 6 tells what happens.

### ImageStore

An image directory is a manifest, a set of layer files and which of them are
`bad`; a manifest is known by its digest, which fixes its reference and its
layers. Users write a reference with its tag or, for `latest`, without
(`Spellings`). `Parse` is `parse_reference`: it gives the directory, and is what
a manifest's reference is compared with. Containers keep the spelling they were
created with (`used`), `remove_image` compares spellings (`RemoveImage`), and the
registry's index is keyed by them. `import` verifies a staging directory that is its own and renames it, so
verification is one step and the check that the reference is free and the rename
are two. `rename` replaces an empty directory and nothing else, which is where an
import can meet a removal that has got that far. `remove_dir_all` works on the
directory it opens (`OpenDir`), which need not be the one `is_dir` saw: an image
imported before that is removed, and one that replaces the directory after it is not,
for the removal finds no more files and its last `rmdir` fails (`Orphaned`).

`publish` copies with `fs::copy`, which truncates and then writes: the manifest
file is `NoVersion` and a layer file `"torn"` in between, also for a pull that
copies at that moment. The index is read and written by two steps, the write
being atomic. A pull reads the manifest's file twice, once to check the
reference and once to copy it.

A remote registry may have any version under a reference by the time it is
asked. It is not trusted: a layer is kept only if its bytes have the digest, so a
pull from it either has each layer right or ends (`GetBlob`).

`serial`, chosen in `Init`, says whether commands wait for each other. Kills are
bounded by it: a file left torn by a kill looks to the others like one whose
writer is slow, so overlapping commands are run without kills. Errors of reading
and writing are not modelled apart from missing files; they end a command as a
kill does.

### Confinement

One record for each child: the rights it still has, the namespaces, root and
mounts it has got, who owns what it may write to, and the step it is at, in the
order of the `pre_exec` closure, `prepare_container_root` and `apply_security`.
A step that the kernel would refuse, for a capability that is gone or a system
call that is filtered, sets `refused`; `StepFails` is every other error. A mount
in a tree that is still shared with the host's shows in `hostMounts`. Directory
trees are one thing each: `chown_tree` gives what is there to the engine's user
and passes over what is not. `Known` is what the program's capability table ends
at (`LAST_CAPABILITY`), `Kernel` what the kernel has; on a kernel older than the
table the first unknown capability ends the start, which is `failed`.

### SpawnHelper

A thread per start. `writers` and `loggers` say which processes hold a writing
end of each pipe: end of file is `writers[t] = {}`, and a helper, which forks
and never execs, inherits the ends that other threads had open at that moment.
Reads return any number of bytes of a word of `Width`. After the spawn a start
waits, gives up with the container killed (`KillAndWait`, the error path of
`start_impl`), or drops its `SpawnedProcess` (`Drop`); a `waitpid` that answers
ECHILD is `HelperGone`. `setuid` clears the parent-death signal that the child
has just set, so a killed helper leaves its engine running: `DeathSignal`
follows the record of `Confinement`, and `NoOrphans` speaks of helpers that are
not killed. The wait status itself is not followed, only whose it is. Not in the
model: the kill of a helper that has not spawned its container yet, children of the
process that are not helpers, descriptors that a failed start leaks, and a read that
is interrupted, which the status loop would take for the end of the file (handlers
here restart calls).

### NetworkWiring

A session is one start, from the spawn to its end. A veth is known by its name,
which is the container's address, and remembers who made it and what has been
done to it; an operation by name goes to whatever has the name. The kernel drops
a veth when the namespace of its peer goes, which is some time after the engine
dies (`NamespaceGoes`), and not while `attach_impl` has it open. `record` is as
much of `metadata.json` as says whether a container may be started; it is saved
blindly, as in `ContainerRuntime`. `WaitReturns` saves Stopped *before* `cleanup`,
so a start may be at work while the last one cleans up; and a `stop` may save
Stopped after that start has been recorded (`StopSave`), so a third can begin.
A request is one step with the kernel's answer; `RequestFails` is every answer that
has nothing to do with the state. `RemovalFails` is the same of `delete_link` in the
undo and in `cleanup`, and of the removal of the cgroup: the code throws those errors
away and goes on, and the thing stays. Proxies bind when their task runs (`Bind`),
and one that cannot ends without a word, because another session has the port or
because the host refuses it (`BindFails`: a process of the host has it, or a right or
a descriptor is missing). `setup[s].unbound` and `setup[s].left` remember for the
properties which proxies were refused and which removals failed; no action looks at
them. The record is found and claimed in one step (`Spawn`): starts of one container
that overlap come from late saves of Stopped only, not from two finds before either's
save. Left out: the ARP and routing between bridge and host, which tokedb sets up
nothing for, and the name `eth0`, private to each namespace.

### PortProxy

TCP connections are `connecting`, `sleeping` after an attempt, `relaying` or
given up. A UDP client has a sink: a task, its channel, and a socket connected
to the engine, on which a datagram nobody listens to becomes an error of the
next call, of `send` (logged) or of `recv` (ends the task). The sink of a task
that has ended stays in the map and loses what it is given. `arrived`, `replies`
and `answered` follow each datagram there and back. Channels and the kernel's
buffers are unbounded and lose nothing; the container's bridge is a wire.
`DatagramRelay` has neither tasks nor sockets; the refinement takes the channel
of a client's sink for what is under way, and the replies its socket holds for what
is on the way back.

### DataVolume

The directory of one volume is five entries: the marker file, the directory
`mysql` by which an installation is known, `tokedb-init.sql`, and the engine's
log and pages, numbered by the last commit in them. A recursive removal takes
the entries one by one, and so do `clear_dir` and the tar builder. `foreign`
says that something in the directory still belongs to root. `lock` has the
session that made the lock file, which the code cannot know and does not ask.
`unfinished` and `quiet` are history variables for the properties. One engine at
a time can have the files (InnoDB locks them): a second one fails at its spawn.

### Frontends

One process, whose kind is chosen in `Init`. The console has one command in the
foreground, its starts in the background, `PENDING` (all entries have the label
of the one container), and `INTERRUPT`. The two `logs -f` are taken in detail: a
log grows by fragments, two to a line, and may end in the middle of a character,
which `read_log_content` turns into an empty string. The desktop client is a
queue of requests that its main thread serves; in front of WSL a start is a
process of its own. Starting and stopping are as `ContainerRuntime` has them,
cut down to what the front sees: start blocks while the engine is up, stop until
it is down.

## 3. Runs

All sizes are distinct states. Everything below is finite because ids, pids and
faults run out.

| Run | Instance | Shows |
|---|---|---|
| `core_concurrent` | 1 container with a cgroup, 3 sessions, 2 pids, any command at any time; any command killable, 2 faults, after the first of which 2 sessions (2.7 M) | `RecordInv`, that is `TypeOK` and `PidIffActive`: no order of blind saves separates a pid from Running and Stopping; `StopLeavesNothingAlive`: stop reports success only over an engine that is dead or has been sent SIGKILL; and, as long as nothing was killed, `BareDirIsTransient` (a directory without metadata has a create, a save or a removal at work on it, also where saves run into removals) and `EngineHasWaiter` (no error path forgets an engine) |
| `core_script` | 3 containers, two of one name, 3 sessions, 2 pids, one layer, script discipline, kills of create, start and stop, 1 fault (319 k) | `OneEnginePerVolume`, `StoppedMeansDead`, `RunningIsWired`, `NeverUndercounted`, and `ImplementsLifecycle`, the refinement of `Lifecycle` |
| `core_liveness` | 1 container, 2 sessions, 2 pids, any command at any time, no faults (99 k) | `StopCompletes`, `CommandReturns`, and `ExitIsRecorded`: an engine's death is recorded unless another start has reaped its helper; under `FairSpec` |
| `layers` | 3 containers, with one mutex and an ensure killed anywhere, or with a mutex each and any call killed (384 k) | `LayerInv`: with one mutex, `HeldIsComplete` and `Reclaimed`, and in both cases `TypeOK`: the unsigned count does not underflow; `CountsReferences`, the refinement of `LayerCount`, with one mutex |
| `images` | 2 versions of one reference, which has two spellings, and one of another that shares their layers, 2 sessions; serially with a kill, or overlapping and with one spelling (6.8 M) | `AppearsWhole`: an image directory appears verified or loses files, nothing else, whatever bundles hold and publishes do. Serially, `OnlyAnotherSpellingTakesIt`, kills included: a container loses its image to a removal that spells the reference differently and to nothing else; and in `ImageInv` that what the index names can be fetched, without kills (a publish killed over a layer that the index names leaves it torn) |
| `helper` | 2 threads, words of 2 bytes, 1 fault (a helper killed or the process dead), a kernel with a capability the program does not know | `ConfinedWhenRunning`, `NeverRefused`; `HelperInv`: no mount on the host, whole words, log pipes that end; `NoOrphans`; `LostToAnEarlyFailure`: a wait status gets lost only to `waitpid(-1)` of another start; `HelperDeathIsSeen` under `FairSpec` |
| `network` | 2 containers of one address and port and one with a bad port list, one limited; 2 sessions with 2 faults (kills, requests, removals or binds that fail), or 3 of the limited one without (1.64 M) | `OnNetwork`: a wired engine stays so, until another session of its address gives up, and so `UniqueAddresses`; `NothingLeft`: a session that has returned has no proxy, veth or cgroup on the host but what it could not remove, or a cgroup that another session of the container will; `LimitsHold`, `OnlyLateCleanupDisconnects`; `WiringInv`: the bridge works, a port is lost to another session or the host only |
| `proxies` | 1 TCP and 2 UDP clients of 2 datagrams, 5 attempts | `ProxyInv`: all attempts made, no reordering or duplication, answers to the asker only; `ImplementsRelay`, the refinement of `DatagramRelay`; `Reaches`, under `FairSpec`: who keeps trying gets through to an engine that listens |
| `volumes` | 2 sessions, 2 attempts at the lock, 2 commits, 1 kill | `VolumeInv`: one writer of an archive, no lock left but by a kill; `FinishedBackupIsExact`, `CommitsSurviveStarts`, `EngineFindsAll` |
| `frontends` | each kind of process, 2 background starts, a line and a half of stdout, half a line of stderr, 2 requests (229 k) | `FollowInv`: both `logs -f` show what was written; `FollowEnds`: they end for the Ctrl-C that was meant for them; `ExitTellsOfTasks`; `OnlyANativeStartBlocks` |

The names that end in `Inv` are conjunctions: the module's `TypeOK` and the
named invariants below it.

Runs that TLC must refute; each states what the documentation says:

| Run | Property | What the trace shows |
|---|---|---|
| `doc_only_terminal` | `OnlyDestroyedIsTerminal` | a start that fails before the spawn leaves Starting, which start, stop and destroy all refuse |
| `doc_consistent_backup` | `ConsistentBackup` | a backup copies the log, the engine commits and flushes, the backup copies the pages: the archive's pages are ahead of its log |

**Why these bounds.** A race needs two sessions on one container, and a third
for the command that profits from it (destroy or a second start): three
sessions. Two pids are two engines in succession, or at once if the code
allowed it. Two containers of one name, and one of another, are what a shared
volume and a shared layer need. One fault at any step finds every state a single
crash can leave behind, `Reboot` among them; two, in `core_concurrent`, find what
is made of it by a session that is hit itself. Its third session is looked at until
the first fault (`FewAfterFaults`), which is as far as `BareDirIsTransient` and
`EngineHasWaiter` say anything. Three containers take a count to
3 and back, past the boundaries at 0, 1 and 2. An image race is between two
commands; a second version of a reference lets an image change under a publish,
and the layers shared with another reference let a pull read a file that is being
written for another image; the second spelling matters to commands that wait for each
other, and is used only there (`OneSpellingAtOnce`). Two threads are enough for one helper to inherit the
other's pipes or to be reaped in its place; words of two bytes can be read in
halves. In `network` two faults let a session be killed and another's request
fail over what it left, or a request fail and its undo as well; two sessions reach every pair of a late clean-up and a
new start, the third (`FewStarts` says where) is one that makes the cgroup between
two steps of another, and a container of each kind (limited or not, good ports or bad) is
among the three. Two datagrams of two clients can be swapped, and two commits
let pages be one behind the log. A line and a half is enough for stdout's
unfinished line to run into stderr's. Symmetry is used over sessions
and pids only, in runs of safety properties only. Deadlock is not checked where
the system may stop: all ids drawn and destroyed or stuck, all pids used, or, in
`layers`, the count at `MaxCount`; in the other modules, all sessions done, or a
process gone.

**Fairness.** `FairSpec` has weak fairness of every session's `Proceed`: an OS
thread that can go on does, and the two waits of `stop` are bounded by timers;
and of the exit of an engine that SIGKILL was sent to. Nothing makes anybody
issue a command, makes an engine exit by itself, or makes it obey SIGTERM.
`CommandReturns` therefore does not ask a start that has printed its banner to
return. In the same way the threads and helpers of `SpawnHelper` and the tasks of
`PortProxy` run (tokio polls what is ready), and the loops and the main thread
of `Frontends` go on, with an engine that was asked to stop and stops or is
killed; in all of them engines live as long as they like and nobody has to issue
a request.

Every property has a mutant: an operator next to the one it replaces, commented
"Mutant", with the bug spelled out (a missing kill, a forgotten save, a test off
by one). The property must fail with it.

## 4. Proofs

`ContainerRuntimeProofs`, from `ConstantsAssumption` alone (any number of
containers, sessions, pids, layers and faults, any discipline):

- `TypeCorrect`: `Spec => []TypeOK`. `TypeOK` is inductive as it stands because
  `SessionOK` is part of it: a busy session works on a container, and at the
  program points of `PidPCs` its job has an engine's pid. The count stays a
  natural number because `release` looks before it subtracts.
- `PidsMatchStates`: `Spec => []PidIffActive`. The property quantifies over the
  records on disk *and* over the snapshots in memory, which is what makes it
  inductive: a blind save moves a well-formed snapshot to the disk, and `find`
  moves a well-formed record to memory, so it does not matter in which order
  they happen. This is why the code gets away with saves that look at nothing.
  `RecordsWellFormed`, `Spec => []RecordInv`, is the two together.
- `StopKills`: `Spec => StopLeavesNothingAlive`. An action property, from the
  invariant `PidsSeen /\ GraceIsOver`: no record or session names a pid that has
  never been an engine, and past the grace period the engine that stop found is
  not up. `PidsSeen` is needed because a pid named before it is spawned could
  come up afterwards; `StepNeverAgain` says that one that has been used cannot.

- `EnginesAreAwaited`: `Spec => []EngineHasWaiter`, inductive with the types: the
  steps by which a session leaves `wire`, `save_running` or `wait` for good are
  those that kill the engine or find it dead.
- `BareDirsGo`: `Spec => []BareDirIsTransient`. The inductive invariant, `BareInv`,
  adds that a session that may save has a record to save, that a save between its
  steps stands at one of the program points of a save (`Savers`), and that without
  faults no temporary file is a dead session's (`NoStrays`). The lemmas `BareKept` and
  `BareSaving` say what a step, and a step of a save, may do to a directory without
  metadata: whoever removes the record or empties the directory either goes on to
  remove it, or leaves it to the save whose file made the removal fail.

Each is by one lemma per command (`CreatePid`, `StartPid`, ...), and one step per
action under it.

The rest of `ContainerRuntimeProofs`, from `Discipline = "script"` besides: a start or
destroy is issued when no session is at work on the container, a destroy for one
that is Created or Stopped, and one command at a time besides the starts that have
printed their banner. Kills, failed saves, lost helpers and reboots are all in it.
Without that assumption the properties are not true of the code: section 6 says how.

- The inductive invariant is `ScriptInv`. `Alone` says which two sessions may share
  a container (a start in its last wait, and a stop). `Names`: directories have
  different names. `Engines`: an engine that is up is its container's only one,
  the container is Starting, Running or Stopping, and past Starting the record has
  its pid. `Wires`: the same of the veth. `Fits` says for every program point what
  a session finds in the record, what it will write there, and whose engine is up.
  None of them is inductive without the others: that a save of Stopped is true
  takes the session's own reading of the engine, that nobody spawns another one
  meanwhile takes `Alone`, and that a new start may trust Stopped takes `Engines`.
- `QuietStep`, `WriteStep` and `BeginStep` say, of a step that saves nothing, that
  saves a record, and that begins a command, what it takes to keep all of it and to
  be a step of `Lifecycle`; one lemma per command shows that each action does.
- `EnginesDoNotShare`, `StoppedIsDead` and `RunningKeepsItsWire` follow from the
  invariant, and `ImplementsTheLifecycle`, the refinement, from the same lemmas:
  `ScriptStep` is `ScriptInv'` and `[L!Next]_(L!vars)` together.
- `LayersAreCounted` also assumes `"destroy" \notin CrashableCommands`, as its run
  does: a destroy that is killed half-way has given back what its record still
  names. `NeverUndercounted` is not inductive: a start has counted a layer before
  its record says so. `CountInv` counts those with the holders (`Claimants`), and
  `Tracked` relates each session's snapshot to the record, because a blind save of
  a stale snapshot would add or lose a holder.

`SpawnHelperProofs`, from `ConfinementAssumption` (kernel and program both know the
four capabilities the hook uses, and no system directory is a volume), first about
`Confinement` and then about `SpawnHelper`:

- `EnginesAreConfined`, `NothingIsRefused`, `HostIsUntouched`: of every behaviour
  of children that only do what the hook does. The invariant, `Good`, says for
  every step of the hook what a child at that step has already given up and what
  it still has; each step follows from the one before it. That the filter comes
  after the mounts, and the bounding set before `capset`, is where the order is
  used; the mutants in the module exchange such steps.
- `SpawningConfines`: `Spec => ConfinementSpec`. Every step of threads, helpers
  and faults is a step of the children or leaves them alone. `SpawnedAreConfined`
  and `SpawnedAreNotRefused` carry the theorems above over to `SpawnHelper`.
- `NothingIsOrphaned`: `Spec => []NoOrphans`. The inductive invariant is
  `OrphanInv`, whose part for each thread, `Attended`, says that a helper that
  lives holds a writing end of its status pipe, that a thread that has seen the
  end of that pipe has no helper left, and that an engine that runs has one.
- `StatusesAreLostToFailures`: `Spec => []LostToAnEarlyFailure`. `ReadsInv` says of
  each start that what it has of a word and what is in the pipe are consecutive
  parts of one text of two words (`Part`, `Letter`), of which the helper has written
  none, one or both according to where it is (`Written`); with no fault a helper that
  is dead has written none or both, so a start that waits for the status gets it,
  unless another has reaped the helper. The lemmas `ReadOn`, `WriteOn` and
  `WholeWord` are about the text alone and hold for every width.
- `PipesAreUsed`: `Spec => []HelperInv`. Whole words follow from `ReadsInv`; the end
  of the log pipes from `LogsInv`, which says who may hold a writing end when
  (`Copies`): the process until it has the pid, the helper while it lives, the
  engine while it runs.

`DataVolumeProofs`, from `ConstantsAssumption`:

- `LocksExclude`: `Spec => []VolumeInv`. `LockInv` is `VolumeInv` with the
  attempts that a session in `acquire` has left. The code never looks at who made
  the lock file; the proof shows that whoever unlocks does unlock its own.
- `BackupsAreExact`: `Spec => FinishedBackupIsExact`. `QuietInv`: while the
  volume has been quiet, what has been copied is what is there.
- `CommitsSurvive`: `Spec => CommitsSurviveStarts`, and `EnginesAreReady`:
  `Spec => EngineFindsAll`. `StartsInv` says why a start that looks for the system
  tables alone is enough: log and pages are there only where the tables are
  (`Known`), because an engine is only ever run where they are, unless a removal
  has been left half done; and where nothing is, what lies behind the point a start
  has come to has been done (`Ready`). Both parts are under `Serial`, from which
  it follows that at most one start is under way (`OneStart`); kills are included.

`PortProxyProofs`, from `ProxyAssumption`:

- `AttemptsAndOrder`: `Spec => []ProxyInv`. The inductive invariant, `FlowInv`,
  follows a client's datagrams all the way: what waits in the channel comes after
  what has arrived, both in growing order, and all of it, and all replies, are the
  client's own, because the socket of a sink is made for the client whose sink it
  is. `InOrder` alone is not inductive: it takes the order of the channel.
- `ImplementsTheRelay`: `Spec => ImplementsRelay`, step by step from `FlowInv`: a
  datagram for a task that has ended is one lost at once, a task that ends loses
  its channel, and a reply returns on the line it came from because of `socket`.

`LayerStoreProofs`, from `ConstantsAssumption` and, as in the run, from
`"release" \notin Killable[TRUE]`: a release that is killed half-way leaves half a
layer, with one mutex too, and nothing is claimed after it.

- `HeldAndReclaimed`: `Spec => []LayerInv`. `HeldIsComplete` needs to know that a
  release that reads 1 is the last holder's, so the inductive invariant `StoreInv`
  has `Counted`: `refcount` is the number of those who hold the layer, whatever
  ensures were killed between the truncation of the file and its writing. The
  mutex (`Alone`) lets the rest of it be stated, and each step be proved, for the
  one caller that is in a call (`Local`, by the lemma `Localise`).
- `ImplementsLayerCount`: `Spec => CountsReferences`. Every step takes a
  reference, gives one back or keeps them all, which is what the lemmas
  `EnsureSound`, `ReleaseSound`, `CountSound` and `CrashSound` say.

`ImageStoreProofs`, from `ConstantsAssumption`; the inductive invariant, `WholeInv`,
has three parts, for three disciplines:

- `StoreInv`, whatever interleaves: an image directory never holds more than a
  version of its reference has (`Sound`), and a session that is about to rename has
  verified what it will rename (`Staged`). `ImagesAppearWhole`, the action property
  `AppearsWhole`, needs no more: only a rename and a removal touch `images`.
- `SerialInv`, one command at a time: a container's image is visible, and the one
  session at work, if it removes an image, removes one no container uses (`Keeps`).
  `ContainersKeepTheirImage` (`OnlyAnotherSpellingTakesIt`) follows, kills included: a
  removal that is killed half-way has broken an image of nobody who spells it so.
- `PublishInv`, one at a time and none killed: what the index names is in the
  registry but for the file being written (`Indexed`), and a publish that has come
  to a given point has written what lies behind it (`Publishing`), among which that
  its source cannot fail to open. `IndexStaysFetchable` is that of a quiet registry.

`NetworkWiringProofs`, from `WiringAssumption` (limited containers are containers,
ports are lists of numbers) and `NoOneAssumption` (the value for nobody is no veth,
cgroup or proxy); the inductive invariant, `HostInv`, has a part for each thing on
the host:

- `Owned`: a veth is there only while its maker is where it can still take it away,
  or has failed to, or has been killed; with `Kept`, on when the name and a failed
  removal are remembered, the veth's part of `SessionsCleanUp` (`NothingLeft`) follows.
  That a veth with its address belongs to nobody in
  `attach_impl` gives `OnlyCleanupDisconnects`: an action property, one case per
  action that changes `link`.
- `Listening` and `Proxying`: a port, and the list of a session's proxies, are those
  of a valid port list, from which it follows that a port that a proxy has not got is
  taken by another session or refused by the host (`Served`).
- `BridgeMade`: whoever has found or made the bridge is right that it is there, and
  the one who made it finishes it. With `Served` this is `BridgeAndPorts`.
- `Bounded`: between `apply` and the end an engine's cgroup is limited, or somebody
  who has come past the cgroup has removed it (`Overtaker`) and somebody else made it
  again (`Overtaken`). That `cgroup.kill` precedes the removal is where it is used
  that no engine in the cgroup outlives it. `LimitedEnginesAreLimited` follows.
  With two sessions `Overtaken` is never true and the limits are simply set; the
  attempt to prove that for any number of them is how the third start was found.

`Became` says what a step of one session leaves alone, `SessionStep`, `LinkStep`,
`PortStep`, `LimitQuiet` and `BridgeQuiet` what such a step takes to keep each part;
one lemma per action or group of actions (`AttachKeeps`, `RemoveKeeps`, ...) cites
them.

The cgroup's part of `SessionsCleanUp` is a second invariant, `GroupInv`: a cgroup that
is there has a session that answers for it (`Answered`), one that has yet to remove it,
or could not, or was killed; and so has every process in it. A session that removes it by
name ends the processes of all others in it, and if the removal fails over one that is
still there, that one's session answers. `Grouped` says where a session still has it to
remove; at the end it has not, so whoever answers then is another.

A third invariant, `NetInv`, is about the network of one engine and uses the first:

- `Holding`: a session whose engine is up and that is at some label of `attach_impl`
  or past it has the veth of its name, with all that the requests before that label
  do to it (`DoneBy`), or some other session of that name has given up (`Disturbed`).
  It is kept because who removes a veth by its name gives up by that very step
  (`RemovedNet`), and who finds the name taken touches nothing (`CreateNet`).
  `Knows`, that a session past `attach_impl` with an engine that is up remembers its
  veth, is what makes giving up final (`StaysDisturbed`): one that runs and has none
  any more has an engine that is dead, so it is no engine at all when it is orphaned.
- `EnginesStayOnTheNetwork` (`OnNetwork`) is `Holding` at the end of `attach_impl`.
  `OneEngineAnAddress` (`UniqueAddresses`) follows: of two engines with one address one
  has not got the veth, and neither of them has given up, so a third has.

`FrontendsProofs`, from `ConstantsAssumption`:

- `FollowedAsWritten`: `Spec => []FollowInv`. `ReadInv` says that what the console has
  read last are the lines of a beginning of each log (`Combined`) and that it has shown
  each as often as it is there, at every point and not only after a poll. That a poll
  keeps it takes two lemmas: `NothingMissed`, for any two texts, that a line of the new
  one is in the old or in `delta_lines`, as often; and `CombinedLines`, that no line is
  there more than twice, however long the logs, which is why a count may stop at
  `MaxShown`. `PrintedInv` is the same for `logs -f` of the command line, whose logs are
  read by length.
- `TheExitTells`: `Spec => ExitTellsOfTasks`. `PendingInv`: PENDING never has more
  entries than there are starts, and while no two have been there together it has an
  entry as long as there is a start.
- `OnlyAKeyOfNow`: `Spec => EndsOnlyWhenAsked`, the safety half of `FollowEnds`, from
  `AskedInv`: while something is followed INTERRUPT is of this command.

Only model-checked: liveness under fairness (`StopCompletes`, `ExitIsRecorded`,
`CommandReturns`, `HelperDeathIsSeen`, `Reaches`, `OnlyANativeStartBlocks`, the half
`InterruptEnds` of `FollowEnds`, ...), which is beyond this prover, as are uses of
ENABLED. Every safety invariant and action property of a run is proved.

## 5. Not modelled, and the plan

Not modelled:

- the text of things: tar, gzip, JSON and HTTP, netlink messages, the BPF
  program's instructions, mount flags, manifests and references as strings. A
  request or a conversion is one step, with every outcome it can have;
- argument parsing, output, tables, completion and the line editor, and the
  rendering of the desktop client;
- metrics (readings of `/proc` and of the cgroup that nothing acts upon), the
  defaults of the engines, the configuration's paths;
- `network/iptables.rs`, an optional feature that nothing calls, and
  `LocalRegistry::remove` and `has`, which no command calls;
- reuse of pids. `stop` signals the number in the record; after a reboot the
  number may be another process's, and nothing in the code or in the kernel
  excludes it, so there is no promise to state.

Nothing of the plan is left.

## 6. Disagreements that no run is spent on

Most of these are behaviours of the model; the properties are stated so as to be true of
the code, with the condition under which they hold. Paths are below
`src/tokedb-runtime/src/` unless they begin with `src/`.

Between the code and a document or comment:

- The parent-death signal (`runtime/process.rs:358`) is set before
  `apply_security` changes the user, and the kernel clears it at that change. The
  engine of a helper that is killed lives on; `src/README.md:419` says "Sin
  huérfanos" and names this signal.
- `chown_tree` of the upper and work directories comes before they are made
  (`runtime/run.rs:450`; it passes over what is not there), so on the first start
  they are root's. `src/docs/container-runtime.md:205` has the writable layers
  owned by the container's user.
- The console's warning about pending tasks at the exit (`src/README.md:419`) is
  given by the prompt only: batch mode (`src/README.md:444`) exits at the end of
  its commands without waiting and without a word; the start threads end with it,
  and their engines go on with nobody to record their exit.

Of the program alone:

- `remove_image` compares references as they were spelled (`service/mod.rs:107`), and
  `create` keeps the spelling it was given (`service/mod.rs:144`), but the directory is
  that of the parsed reference, whose tag defaults to `latest` (`image/reference.rs:28`).
  After `create c mariadb`, `rmi mariadb:latest` removes the image of `c`, one command at
  a time. `OnlyAnotherSpellingTakesIt` says that nothing else does. In the same way an
  image published under both spellings has two entries in the registry's index.
- In the console a start whose helper dies early reaps with `waitpid(-1)`
  (`runtime/process.rs:453`), and may get the wait status of another start. That one's
  `wait()` fails (`runtime/process.rs:205`), and it returns (`runtime/run.rs:508`) without
  the save of Stopped and the cleanup that `src/docs/container-runtime.md:213` has after
  the wait: the record stays Running with a dead pid, and the cgroup stays.
  `ExitIsRecorded` makes this exception and no other.
- The errors of `delete_link` and of the removal of the cgroup are thrown away
  (`network/namespace.rs:20`, `runtime/run.rs:571` and `575`): a start that has failed, or
  returned, may have left either on the host, and a veth that stays refuses its name to
  the next start until the namespace of its peer goes.
- A start or stop that saves while another session destroys the container can make the
  removal fail half-way, or fail itself with its file taken away
  (`runtime/container_store.rs:65`); a temporary file of a killed session stays.
- `destroy` releases the layers before `remove` checks the state
  (`service/mod.rs:199`): a refused destroy has given back references of a
  container that stays.
- A start session saves its snapshot when the engine exits
  (`runtime/run.rs:513`), through a `save` that makes the directory: a container
  destroyed between the two comes back as Stopped.
- Two creates of one name that overlap both succeed
  (`runtime/container_store.rs:24`), and a create that is killed leaves a
  directory without metadata, over which every later `list` and `find` fails.
- `LayerStore` is made anew for each command (`service/mod.rs:60`), so its mutex
  excludes nobody: two ensures can leave a count of 1, and a release that has read
  1 removes the layer under an ensure.
- A removal of an image that is killed can leave a directory without a manifest,
  over which every `images` fails (`image/storage.rs:211`); an import of a bad
  bundle leaves its staging directory (`image/storage.rs:53`).
- Two publishes can lose an entry of `index.json`
  (`image/registry/local.rs:71`).
- A late save of Stopped (`runtime/run.rs:513`, or `stop`) lets a third start begin
  while a second is at work. A late `cleanup` between the second's `apply` and
  `attach` and the third's `create` make it join a cgroup that has no limits yet
  (`isolation/cgroups.rs:124`).
- `cleanup` works by the container's name (`runtime/run.rs:570`): late, it deletes
  the veth of a newer start and kills what is in its cgroup. The name is free then, so
  a third start of that address comes up beside the second: two engines with one
  address, of which one is cut off (`UniqueAddresses` allows for no other way).
- A proxy whose port is still bound, by another session or a process of the host, ends
  silently (`network/port.rs:153`), so a quick restart may come up without its port; the sink of a UDP client whose task
  has ended loses all that the client sends from then on.
- A kill in the middle of `ensure_bridge` leaves a bridge without an address,
  which later starts take for finished.
- `start`, `volume remove` and the engine do not ask for the lock that `backup`
  takes: a volume under backup can be started, written and removed. A killed
  backup leaves the lock, and every later one answers `VolumeBusy`.
- A backup truncates the previous archive of that name when it begins: one that
  fails or is killed leaves a torn archive in its place.
- A killed `mysql_install_db` may leave the directory `mysql`, by which the next
  start takes the volume for installed.
- Native desktop client: `start_container` keeps the mutex for the engine's life
  (`src/src-tauri/src/main.rs:140`), so the button that would stop the engine
  waits for it; in front of WSL a start that fails is not reported.
- A kernel whose last capability is below `LAST_CAPABILITY`
  (`isolation/capabilities.rs:68`) ends every start.
- Two background commands of one label leave `PENDING` together
  (`console/mod.rs:290`): the warning at the exit counts too few.
- The loop that reads the wait status stops at any error
  (`runtime/process.rs:230`) and its branch for EINTR is not reached.
