---------------------------- MODULE SpawnHelper ----------------------------
(***************************************************************************)
(* spawn_with_prep and SpawnedProcess: the threads of one tokedb process   *)
(* start containers, each through a helper that it forks.                  *)
(*                                                                         *)
(* A helper sends two words through the status pipe: the pid of the        *)
(* container when it has been spawned, and its wait status when it has     *)
(* ended.  The descriptors close on exec, but a helper never execs: it     *)
(* holds every pipe the process had open when it was forked, those of      *)
(* other threads included, until it ends.                                  *)
(***************************************************************************)
EXTENDS Confinement, Sequences, Naturals

CONSTANTS
  Width,      \* bytes of a word
  MaxFaults   \* bound on helpers killed, and on deaths of the process

ASSUME SpawnAssumption == Width \in Nat \ {0} /\ MaxFaults \in Nat

Threads == Children

VARIABLES
  up,       \* the tokedb process is there
  pc,       \* where each start is
  got,      \* bytes of the word it is reading
  pipe,     \* bytes in its status pipe
  writers,  \* the processes that have the writing end of its status pipe
  loggers,  \* the processes that have a writing end of its stdout and stderr
  helper,   \* its helper
  why,      \* how a start ended: with the wait status, or with which error
  faults

parent == <<up, pc, got, why>>
pipes == <<pipe, writers, loggers>>
vars == <<confinement, parent, pipes, helper, faults>>

Main == <<"main">>
Helper(t) == <<"helper", t>>
Engine(t) == <<"engine", t>>
Processes == {Main} \cup {Helper(t) : t \in Threads} \cup {Engine(t) : t \in Threads}

Word(name) == [i \in 1 .. Width |-> <<name, i>>]
Bytes == {"pid", "status"} \X (1 .. Width)

PCs == {"idle", "logs_open", "open", "forked", "read_pid", "early", "spawned", "wait",
        "read_status", "done"}

\* zombie: dead and not yet waited for; reaped: waited for.
Helpers == {"none", "born", "spawning", "spawned", "waiting", "zombie", "reaped"}

\* status: the word the helper forwarded; failed: no container; lost: no status to
\* be had for a container; aborted: the start gave the container up.
Ends == {"", "status", "failed", "lost", "aborted"}

TypeOK ==
  /\ ConfinementTypeOK
  /\ up \in BOOLEAN
  /\ pc \in [Threads -> PCs]
  /\ got \in [Threads -> UNION {[1 .. n -> Bytes] : n \in 0 .. Width}]
  /\ pipe \in [Threads -> UNION {[1 .. n -> Bytes] : n \in 0 .. 2 * Width}]
  /\ writers \in [Threads -> SUBSET Processes]
  /\ loggers \in [Threads -> SUBSET Processes]
  /\ helper \in [Threads -> Helpers]
  /\ why \in [Threads -> Ends]
  /\ faults \in Nat

Init ==
  /\ ConfinementInit
  /\ up = TRUE
  /\ pc = [t \in Threads |-> "idle"]
  /\ got = [t \in Threads |-> <<>>]
  /\ pipe = [t \in Threads |-> <<>>]
  /\ writers = [t \in Threads |-> {}]
  /\ loggers = [t \in Threads |-> {}]
  /\ helper = [t \in Threads |-> "none"]
  /\ why = [t \in Threads |-> ""]
  /\ faults = 0

Goto(t, label) == pc' = [pc EXCEPT ![t] = label]

Return(t, end) == Goto(t, "done") /\ why' = [why EXCEPT ![t] = end]

\* The descriptors of processes that end.
Close(ps) ==
  /\ writers' = [t \in Threads |-> writers[t] \ ps]
  /\ loggers' = [t \in Threads |-> loggers[t] \ ps]

Alive(t) == helper[t] \in {"born", "spawning", "spawned", "waiting"}
EngineUp(t) == child[t].at = "running"

-----------------------------------------------------------------------------
(***************************************************************************)
(* spawn_isolated_impl, in the process.                                    *)
(***************************************************************************)
\* start_impl prepares the directories.
PrepareRootfs(t) ==
  /\ up /\ pc[t] = "idle"
  /\ build_rootfs(t) \/ chown_tree(t)
  /\ UNCHANGED <<parent, pipes, helper, faults>>

OpenLogPipes(t) ==
  /\ up /\ pc[t] = "idle" /\ At(t, "ready")
  /\ Goto(t, "logs_open")
  /\ loggers' = [loggers EXCEPT ![t] = {Main}]
  /\ UNCHANGED <<confinement, up, got, why, pipe, writers, helper, faults>>

OpenStatusPipe(t) ==
  /\ up /\ pc[t] = "logs_open"
  /\ Goto(t, "open")
  /\ writers' = [writers EXCEPT ![t] = {Main}]
  /\ UNCHANGED <<confinement, up, got, why, pipe, loggers, helper, faults>>

Inherit(held, t) == [u \in Threads |-> IF Main \in held[u] THEN held[u] \cup {Helper(t)} ELSE held[u]]

ForkHelper(t) ==
  /\ up /\ pc[t] = "open"
  /\ Goto(t, "forked")
  /\ helper' = [helper EXCEPT ![t] = "born"]
  /\ writers' = Inherit(writers, t)
  /\ loggers' = Inherit(loggers, t)
  /\ UNCHANGED <<confinement, up, got, why, pipe, faults>>

\* Mutant: the process keeps its copy of the writing end.
KeepStatusPipe(t) ==
  /\ up /\ pc[t] = "forked"
  /\ Goto(t, "read_pid")
  /\ UNCHANGED <<confinement, up, got, why, pipes, helper, faults>>

CloseStatusPipe(t) ==
  /\ up /\ pc[t] = "forked"
  /\ Goto(t, "read_pid")
  /\ writers' = [writers EXCEPT ![t] = @ \ {Main}]
  /\ UNCHANGED <<confinement, up, got, why, pipe, loggers, helper, faults>>

\* Mutant: any bytes will do.
ShortRead(t, n) ==
  /\ n \in 1 .. Len(pipe[t])
  /\ pipe' = [pipe EXCEPT ![t] = SubSeq(@, n + 1, Len(@))]
  /\ got' = [got EXCEPT ![t] = [i \in 1 .. Width |-> pipe[t][1]]]

\* read() returns between one byte and what there is and is asked for.
Read(t, n) ==
  /\ n \in 1 .. Len(pipe[t])
  /\ Len(got[t]) + n <= Width
  /\ got' = [got EXCEPT ![t] = @ \o SubSeq(pipe[t], 1, n)]
  /\ pipe' = [pipe EXCEPT ![t] = SubSeq(@, n + 1, Len(@))]

AtEnd(t) == pipe[t] = <<>> /\ writers[t] = {}

\* The function returns when it has the pid; `command`, and with it the writing
\* ends of the log pipes, is dropped.
ReadPid(t) ==
  /\ up /\ pc[t] = "read_pid"
  /\ \E n \in 1 .. Width : Read(t, n)
  /\ IF Len(got'[t]) = Width
       THEN Goto(t, "spawned") /\ loggers' = [loggers EXCEPT ![t] = @ \ {Main}]
       ELSE UNCHANGED <<pc, loggers>>
  /\ UNCHANGED <<confinement, up, why, writers, helper, faults>>

NoPid(t) ==
  /\ up /\ pc[t] = "read_pid"
  /\ AtEnd(t)
  /\ Goto(t, "early")
  /\ UNCHANGED <<confinement, up, got, why, pipes, helper, faults>>

\* reap_helper_exit_code: waitpid(-1) takes any child of the process that is dead.  There
\* is one, since every start waits for one helper and no more.
ReapAnyHelper(t) ==
  /\ up /\ pc[t] = "early"
  /\ \E u \in Threads :
       /\ helper[u] = "zombie"
       /\ helper' = [helper EXCEPT ![u] = "reaped"]
  /\ Return(t, "failed")
  /\ loggers' = [loggers EXCEPT ![t] = @ \ {Main}]
  /\ UNCHANGED <<confinement, up, got, pipe, writers, faults>>

Spawn(t) ==
  \/ PrepareRootfs(t) \/ OpenLogPipes(t) \/ OpenStatusPipe(t) \/ ForkHelper(t) \/ CloseStatusPipe(t)
  \/ ReadPid(t) \/ NoPid(t) \/ ReapAnyHelper(t)

-----------------------------------------------------------------------------
(***************************************************************************)
(* helper_main, and the container's process.                               *)
(***************************************************************************)
HelperEnds(t) ==
  /\ helper' = [helper EXCEPT ![t] = "zombie"]
  /\ Close({Helper(t)})

\* unshare(CLONE_NEWPID), then command.spawn().
HelperUnshares(t) ==
  /\ helper[t] = "born"
  /\ helper' = [helper EXCEPT ![t] = "spawning"]
  /\ Fork(t)
  /\ UNCHANGED <<parent, pipes, faults>>

UnshareFails(t) ==
  /\ helper[t] = "born"
  /\ HelperEnds(t)
  /\ UNCHANGED <<confinement, parent, pipe, faults>>

\* The child runs the hook; spawn waits until it has succeeded or failed.
ChildSteps(t) ==
  /\ helper[t] = "spawning"
  /\ \/ Prepare(t) \/ Secure(t) \/ StepFails(t)
  /\ UNCHANGED <<parent, pipes, helper, faults>>

\* From here on the engine has its own stdout and stderr, and no other pipe.
Spawned(t) ==
  /\ helper[t] = "spawning"
  /\ Exec(t)
  /\ helper' = [helper EXCEPT ![t] = "spawned"]
  /\ loggers' = [loggers EXCEPT ![t] = @ \cup {Engine(t)}]
  /\ UNCHANGED <<parent, pipe, writers, faults>>

SpawnFails(t) ==
  /\ helper[t] = "spawning"
  /\ child[t].at \in {"refused", "failed"}
  /\ HelperEnds(t)
  /\ UNCHANGED <<confinement, parent, pipe, faults>>

\* It writes the pid and closes its own log pipes.
WritePid(t) ==
  /\ helper[t] = "spawned"
  /\ helper' = [helper EXCEPT ![t] = "waiting"]
  /\ pipe' = [pipe EXCEPT ![t] = @ \o Word("pid")]
  /\ loggers' = [loggers EXCEPT ![t] = @ \ {Helper(t)}]
  /\ UNCHANGED <<confinement, parent, writers, faults>>

ForwardStatus(t) ==
  /\ helper[t] = "waiting"
  /\ Reaped(t)
  /\ HelperEnds(t)
  /\ pipe' = [pipe EXCEPT ![t] = @ \o Word("status")]
  /\ UNCHANGED <<parent, faults>>

HelperMain(t) ==
  \/ HelperUnshares(t) \/ UnshareFails(t) \/ ChildSteps(t) \/ Spawned(t) \/ SpawnFails(t)
  \/ WritePid(t) \/ ForwardStatus(t)

\* An engine may end at any time after exec.
EngineEnds(t) ==
  /\ EngineUp(t)
  /\ Dies(t)
  /\ Close({Engine(t)})
  /\ UNCHANGED <<parent, pipe, helper, faults>>

-----------------------------------------------------------------------------
(***************************************************************************)
(* SpawnedProcess: wait, kill and drop, as start_impl uses them.           *)
(***************************************************************************)
\* start_impl waits for the container.
BeginWait(t) ==
  /\ up /\ pc[t] = "spawned"
  /\ Goto(t, "wait")
  /\ got' = [got EXCEPT ![t] = <<>>]
  /\ UNCHANGED <<confinement, up, why, pipes, helper, faults>>

\* kill(SIGKILL), which a container that is already dead does not mind.
Kill(t) ==
  IF EngineUp(t) THEN Dies(t) /\ Close({Engine(t)})
                 ELSE UNCHANGED <<confinement, writers, loggers>>

\* The wiring failed under a container that is there: kill, then wait, and whatever
\* wait says the start fails.
KillAndWait(t) ==
  /\ up /\ pc[t] = "spawned"
  /\ child[t].at \in {"running", "zombie"}
  /\ Kill(t)
  /\ Goto(t, "wait")
  /\ got' = [got EXCEPT ![t] = <<>>]
  /\ why' = [why EXCEPT ![t] = "aborted"]
  /\ UNCHANGED <<up, pipe, helper, faults>>

\* Mutant: a container that still runs is left alone.
DropLeaves(t) ==
  /\ up /\ pc[t] = "spawned"
  /\ Return(t, "aborted")
  /\ UNCHANGED <<confinement, up, got, pipes, helper, faults>>

\* The save failed: drop looks whether the helper is dead, and if not kills the
\* container and waits.
Drop(t) ==
  /\ up /\ pc[t] = "spawned"
  /\ why' = [why EXCEPT ![t] = "aborted"]
  /\ got' = [got EXCEPT ![t] = <<>>]
  /\ Goto(t, "wait")
  /\ IF helper[t] = "zombie" THEN UNCHANGED <<confinement, writers, loggers>> ELSE Kill(t)
  /\ UNCHANGED <<up, pipe, helper, faults>>

\* Mutant: waitpid takes whatever child is dead.
WaitAny(t) ==
  /\ up /\ pc[t] = "wait"
  /\ \E u \in Threads : helper[u] = "zombie" /\ helper' = [helper EXCEPT ![u] = "reaped"]
  /\ Goto(t, "read_status")
  /\ UNCHANGED <<confinement, up, got, why, pipes, faults>>

WaitHelper(t) ==
  /\ up /\ pc[t] = "wait"
  /\ helper[t] = "zombie"
  /\ helper' = [helper EXCEPT ![t] = "reaped"]
  /\ Goto(t, "read_status")
  /\ UNCHANGED <<confinement, up, got, why, pipes, faults>>

\* ECHILD: another start of this process has reaped it.  The error drops the
\* SpawnedProcess, which kills what may be left of the container.
HelperGone(t) ==
  /\ up /\ pc[t] = "wait"
  /\ helper[t] = "reaped"
  /\ Kill(t)
  /\ Return(t, IF why[t] = "aborted" THEN "aborted" ELSE "lost")
  /\ UNCHANGED <<up, got, pipe, helper, faults>>

ReadStatus(t) ==
  /\ up /\ pc[t] = "read_status"
  /\ \E n \in 1 .. Width : Read(t, n)
  /\ IF Len(got'[t]) = Width
       THEN Return(t, IF why[t] = "aborted" THEN "aborted" ELSE "status")
       ELSE UNCHANGED <<pc, why>>
  /\ UNCHANGED <<confinement, up, writers, loggers, helper, faults>>

NoStatus(t) ==
  /\ up /\ pc[t] = "read_status"
  /\ AtEnd(t)
  /\ Return(t, IF why[t] = "aborted" THEN "aborted" ELSE "lost")
  /\ UNCHANGED <<confinement, up, got, pipes, helper, faults>>

Finish(t) == BeginWait(t) \/ KillAndWait(t) \/ Drop(t)

Wait(t) == WaitHelper(t) \/ HelperGone(t) \/ ReadStatus(t) \/ NoStatus(t)

-----------------------------------------------------------------------------
(***************************************************************************)
(* Faults.                                                                 *)
(***************************************************************************)
\* The container's process has the parent-death signal, if it still has it, from
\* its helper.
DeathSignal(t) ==
  IF child[t].deathsig /\ child[t].at \in Steps \cup {"running"}
    THEN Dies(t) /\ Close({Helper(t), Engine(t)})
    ELSE UNCHANGED confinement /\ Close({Helper(t)})

HelperKilled(t) ==
  /\ faults < MaxFaults
  /\ helper[t] \in {"spawned", "waiting"}
  /\ helper' = [helper EXCEPT ![t] = "zombie"]
  /\ DeathSignal(t)
  /\ faults' = faults + 1
  /\ UNCHANGED <<parent, pipe>>

\* The tokedb process dies: its threads with it, its helpers not.
ProcessDies ==
  /\ faults < MaxFaults
  /\ up
  /\ up' = FALSE
  /\ Close({Main})
  /\ faults' = faults + 1
  /\ UNCHANGED <<confinement, pc, got, why, pipe, helper>>

Next ==
  \/ \E t \in Threads : Spawn(t) \/ HelperMain(t) \/ EngineEnds(t) \/ Finish(t) \/ Wait(t)
  \/ \E t \in Threads : HelperKilled(t)
  \/ ProcessDies

\* Threads and helpers run.  How long an engine runs is its own affair.
Fairness ==
  \A t \in Threads :
    WF_vars(Spawn(t)) /\ WF_vars(HelperMain(t)) /\ WF_vars(Finish(t)) /\ WF_vars(Wait(t))

Spec == Init /\ [][Next]_vars
FairSpec == Spec /\ Fairness

-----------------------------------------------------------------------------
\* Neither short reads nor the two words in one pipe confuse a start: the pid it
\* goes on with is all of the first word, the status it reports all of the second.
WordsAreWhole ==
  \A t \in Threads :
    /\ pc[t] = "spawned" => got[t] = Word("pid")
    /\ why[t] = "status" => got[t] = Word("status")

\* Whatever way a start takes, no container outlives it, as long as no helper is
\* killed ("no orphans", docs/container-runtime.md).
NoOrphans == faults = 0 => \A t \in Threads : pc[t] = "done" => ~EngineUp(t)

\* The one thing that can take a wait status away from a start is another start of
\* the same process that has failed early and reaps with waitpid(-1).
LostToAnEarlyFailure ==
  faults = 0 =>
    \A t \in Threads : why[t] = "lost" => \E u \in Threads \ {t} : why[u] = "failed"

\* When a start is over, the threads that copy its container's output come to the
\* end of the pipes, unless a helper forked meanwhile has them.
LogsEnd ==
  faults = 0 =>
    \A t \in Threads : pc[t] = "done" => loggers[t] \subseteq {Helper(u) : u \in Threads \ {t}}

\* A start does not hang on a helper that has died, at whichever point, unless
\* another helper has inherited the pipe it reads.
HelperDeathIsSeen ==
  \A t \in Threads :
    helper[t] \in {"zombie", "reaped"} ~>
      pc[t] = "done" \/ ~up \/ \E u \in Threads \ {t} : Helper(u) \in writers[t]

\* The types, and what the children, the status pipe and the log pipes are never seen in:
\* a mount on the host, half a word, an end that is not let go of.
HelperInv == TypeOK /\ HostUntouched /\ WordsAreWhole /\ LogsEnd
=============================================================================
