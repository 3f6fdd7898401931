----------------------- MODULE ContainerRuntimeProofs -----------------------
(***************************************************************************)
(* Proofs about ContainerRuntime, for any number of containers, layers,    *)
(* sessions, pids and faults: first under every discipline, then under     *)
(* the script discipline.                                                  *)
(***************************************************************************)
EXTENDS ContainerRuntime, FiniteSetTheorems, TLAPS

-----------------------------------------------------------------------------
(***************************************************************************)
(* The records of the model.                                               *)
(***************************************************************************)
\* Assigning to the fields of a Container yields a Container.
LEMMA ContainerFields ==
  ASSUME NEW record \in Container
  PROVE  /\ \A state \in ContainerState :
              /\ InState(record, state) \in Container
              /\ InState(record, state).state = state
              /\ InState(record, state).pid = record.pid
         /\ \A layers \in SUBSET Layers :
              /\ Acquired(record, layers) \in Container
              /\ Acquired(record, layers).state = record.state
              /\ Acquired(record, layers).pid = record.pid
         /\ \A pid \in Pids :
              /\ RunningAs(record, pid) \in Container
              /\ RunningAs(record, pid).state = "Running"
              /\ RunningAs(record, pid).pid = pid
         /\ Halted(record) \in Container
         /\ Halted(record).state = "Stopped"
         /\ Halted(record).pid = NoPid
  BY DEF Container, ContainerState, InState, Acquired, RunningAs, Halted

\* The empty record and the empty job are of their types.
LEMMA EmptyRecords == NoFile \in Container /\ NoJob \in Job /\ NoJob.snap = NoFile
  BY DEF NoFile, Container, ContainerState, NoJob, Job

\* A command begins with the container and the pid it found.
LEMMA JobOnFields ==
  ASSUME NEW c \in Containers, NEW snap \in Container
  PROVE  /\ JobOn(c, snap) \in Job
         /\ JobOn(c, snap).c = c
         /\ JobOn(c, snap).snap = snap
         /\ JobOn(c, snap).pid = snap.pid
  <1>1. snap.pid \in Pids \cup {NoPid}
    BY DEF Container
  <1> QED
    BY <1>1 DEF JobOn, NoJob, Job

\* Assigning to one field of a job leaves the others alone.
LEMMA JobFields ==
  ASSUME NEW j \in Job
  PROVE  /\ \A snap \in Container, net \in BOOLEAN :
              /\ [j EXCEPT !.snap = snap, !.net = net] \in Job
              /\ [j EXCEPT !.snap = snap, !.net = net].c = j.c
              /\ [j EXCEPT !.snap = snap, !.net = net].pid = j.pid
              /\ [j EXCEPT !.snap = snap, !.net = net].snap = snap
         /\ \A snap \in Container, fresh \in SUBSET Layers :
              /\ [j EXCEPT !.snap = snap, !.fresh = fresh] \in Job
              /\ [j EXCEPT !.snap = snap, !.fresh = fresh].c = j.c
              /\ [j EXCEPT !.snap = snap, !.fresh = fresh].snap = snap
         /\ \A snap \in Container :
              /\ [j EXCEPT !.snap = snap] \in Job
              /\ [j EXCEPT !.snap = snap].c = j.c
              /\ [j EXCEPT !.snap = snap].pid = j.pid
              /\ [j EXCEPT !.snap = snap].snap = snap
         /\ \A todo, fresh \in SUBSET Layers :
              /\ [j EXCEPT !.todo = todo, !.fresh = fresh] \in Job
              /\ [j EXCEPT !.todo = todo, !.fresh = fresh].c = j.c
              /\ [j EXCEPT !.todo = todo, !.fresh = fresh].snap = j.snap
         /\ \A todo \in SUBSET Layers :
              /\ [j EXCEPT !.todo = todo] \in Job
              /\ [j EXCEPT !.todo = todo].c = j.c
              /\ [j EXCEPT !.todo = todo].snap = j.snap
         /\ \A pid \in Pids :
              /\ [j EXCEPT !.pid = pid] \in Job
              /\ [j EXCEPT !.pid = pid].c = j.c
              /\ [j EXCEPT !.pid = pid].pid = pid
              /\ [j EXCEPT !.pid = pid].snap = j.snap
         /\ \A net \in BOOLEAN :
              /\ [j EXCEPT !.net = net] \in Job
              /\ [j EXCEPT !.net = net].c = j.c
              /\ [j EXCEPT !.net = net].pid = j.pid
              /\ [j EXCEPT !.net = net].snap = j.snap
  BY DEF Job

-----------------------------------------------------------------------------
(***************************************************************************)
(* The three ways a session moves, and the one way metadata is written.    *)
(***************************************************************************)
\* A session that goes to a label with a new job.
LEMMA HoldStep ==
  ASSUME TypeOK, NEW s \in Sessions, NEW label \in PCs, NEW j \in Job,
         Goto(s, label), Hold(s, j),
         label # "idle" => j.c \in Containers,
         label \in PidPCs => j.pid \in Pids
  PROVE  SessionsOK'
  BY DEF TypeOK, SessionsOK, SessionOK, Goto, Hold

\* A session that goes on with the job it has.
LEMMA GotoStep ==
  ASSUME TypeOK, NEW s \in Sessions, NEW label \in PCs,
         Goto(s, label), UNCHANGED job,
         pc[s] # "idle",
         label \in PidPCs => pc[s] \in PidPCs
  PROVE  SessionsOK'
  BY DEF TypeOK, SessionsOK, SessionOK, Goto

\* A session whose command returns.
LEMMA EndStep ==
  ASSUME TypeOK, NEW s \in Sessions, End(s)
  PROVE  SessionsOK'
  BY HoldStep, EmptyRecords DEF End, PCs, PidPCs, StopPCs

\* A save of a well-formed record keeps the disk well-formed.
LEMMA SaveStep ==
  ASSUME DiskOK, NEW s \in Sessions, job[s].c \in Containers, NEW record \in Container,
         Save(s, record), UNCHANGED <<refcount, drawn>>
  PROVE  DiskOK'
  BY DEF DiskOK, Save, At, SaveStage

\* What a session that is not idle holds.
LEMMA BusyJob ==
  ASSUME TypeOK, NEW s \in Sessions
  PROVE  /\ job[s] \in Job
         /\ job[s].snap \in Container
         /\ job[s].todo \in SUBSET Layers
         /\ job[s].fresh \in SUBSET Layers
         /\ pc[s] # "idle" => job[s].c \in Containers
         /\ pc[s] \in PidPCs => job[s].pid \in Pids
  BY DEF TypeOK, SessionsOK, SessionOK, Job

-----------------------------------------------------------------------------
(***************************************************************************)
(* Type correctness, one lemma for each command.                           *)
(***************************************************************************)
LEMMA CreateType ==
  ASSUME TypeOK, NEW s \in Sessions, Create(s) \/ \E c \in Containers : CreateFind(s, c)
  PROVE  TypeOK'
<1> USE DEF disk, kernel, temps
<1>1. ASSUME NEW c \in Containers, CreateFind(s, c)
      PROVE  TypeOK'
  <2>1. InState(NoFile, "Created") \in Container
    BY ContainerFields, EmptyRecords DEF ContainerState
  <2>2. /\ JobOn(c, InState(NoFile, "Created")) \in Job
        /\ JobOn(c, InState(NoFile, "Created")).c = c
    BY <2>1, JobOnFields
  <2>3. SessionsOK'
    BY <1>1, <2>2, HoldStep DEF CreateFind, PCs, CreatePCs, PidPCs, StopPCs
  <2> QED
    BY <1>1, <2>3 DEF CreateFind, TypeOK, DiskOK, KernelOK
<1>2. CASE CreateDir(s)
  <2>1. job[s].c \in Containers
    BY <1>2, BusyJob DEF CreateDir
  <2>2. SessionsOK'
    BY <1>2, GotoStep DEF CreateDir, PCs, CreatePCs, PidPCs, StopPCs
  <2> QED
    BY <1>2, <2>1, <2>2 DEF CreateDir, TypeOK, DiskOK, KernelOK
<1>3. CASE CreateSave(s)
  <2>1. SessionsOK'
    BY <1>3, GotoStep DEF CreateSave, PCs, CreatePCs, PidPCs, StopPCs
  <2>2. DiskOK'
    BY <1>3, BusyJob, SaveStep DEF CreateSave, TypeOK
  <2> QED
    BY <1>3, <2>1, <2>2 DEF CreateSave, TypeOK, KernelOK
<1>4. CASE CreateVolume(s)
  <2>1. CASE End(s)
    BY <1>4, <2>1, EndStep DEF CreateVolume, TypeOK, DiskOK, KernelOK
  <2>2. CASE Goto(s, "remove") /\ UNCHANGED job
    <3>1. SessionsOK'
      BY <1>4, <2>2, GotoStep DEF CreateVolume, PCs, DestroyPCs, PidPCs, StopPCs
    <3> QED
      BY <1>4, <3>1 DEF CreateVolume, TypeOK, DiskOK, KernelOK
  <2> QED
    BY <1>4, <2>1, <2>2 DEF CreateVolume
<1> QED
  BY <1>1, <1>2, <1>3, <1>4 DEF Create

LEMMA StartType ==
  ASSUME ConstantsAssumption, TypeOK, NEW s \in Sessions,
         Start(s) \/ \E c \in Containers : StartFind(s, c)
  PROVE  TypeOK'
<1> USE DEF disk, kernel, temps
<1>1. ASSUME NEW c \in Containers, StartFind(s, c)
      PROVE  TypeOK'
  <2>1. InState(meta[c], "Starting") \in Container /\ InState(meta[c], "Starting").pid = meta[c].pid
    BY ContainerFields DEF TypeOK, DiskOK, ContainerState
  <2>2. /\ JobOn(c, InState(meta[c], "Starting")) \in Job
        /\ JobOn(c, InState(meta[c], "Starting")).c = c
        /\ JobOn(c, InState(meta[c], "Starting")).pid = meta[c].pid
    BY <2>1, JobOnFields
  <2>3. meta[c].pid \in Pids \cup {NoPid}
    BY DEF TypeOK, DiskOK, Container
  <2>4. SessionsOK'
    BY <1>1, <2>2, <2>3, HoldStep DEF StartFind, PCs, StartPCs, PidPCs, StopPCs
  <2> QED
    BY <1>1, <2>4 DEF StartFind, TypeOK, DiskOK, KernelOK
<1>2. CASE SaveStarting(s)
  <2>1. /\ [job[s] EXCEPT !.todo = LayersOf[job[s].c] \ job[s].snap.acquired] \in Job
        /\ [job[s] EXCEPT !.todo = LayersOf[job[s].c] \ job[s].snap.acquired].c = job[s].c
    BY <1>2, BusyJob, JobFields DEF SaveStarting, PidPCs, StopPCs, ConstantsAssumption
  <2>2. SessionsOK'
    BY <1>2, <2>1, BusyJob, HoldStep DEF SaveStarting, PCs, StartPCs, PidPCs, StopPCs
  <2>3. DiskOK'
    BY <1>2, BusyJob, SaveStep DEF SaveStarting, TypeOK
  <2> QED
    BY <1>2, <2>2, <2>3 DEF SaveStarting, TypeOK, KernelOK
<1>3. ASSUME NEW l \in Layers, EnsureLayer(s, l)
      PROVE  TypeOK'
  <2>1. job[s].todo \ {l} \in SUBSET Layers /\ job[s].fresh \cup {l} \in SUBSET Layers
    BY BusyJob
  <2> DEFINE j == [job[s] EXCEPT !.todo = @ \ {l}, !.fresh = @ \cup {l}]
  <2>2. j \in Job /\ j.c = job[s].c
    <3>1. job[s] \in Job
      BY BusyJob
    <3>2. j = [job[s] EXCEPT !.todo = job[s].todo \ {l}, !.fresh = job[s].fresh \cup {l}]
      OBVIOUS
    <3> QED
      BY <2>1, <3>1, <3>2 DEF Job
  <2>3. pc[s] = "layers" /\ job' = [job EXCEPT ![s] = j] /\ pc' = pc
    BY <1>3 DEF EnsureLayer, Hold
  <2>4. SessionsOK'
    BY <2>2, <2>3, BusyJob DEF TypeOK, SessionsOK, SessionOK, PidPCs, StopPCs
  <2> QED
    BY <1>3, <2>4 DEF EnsureLayer, TypeOK, DiskOK, KernelOK
<1>4. CASE LayersEnsured(s)
  <2>1. Acquired(job[s].snap, job[s].fresh) \in Container
    BY <1>4, BusyJob, ContainerFields
  <2>2. /\ [job[s] EXCEPT !.snap = Acquired(@, job[s].fresh), !.fresh = {}] \in Job
        /\ [job[s] EXCEPT !.snap = Acquired(@, job[s].fresh), !.fresh = {}].c = job[s].c
    <3>1. job[s] \in Job
      BY BusyJob
    <3> QED
      BY <2>1, <3>1 DEF Job
  <2>3. SessionsOK'
    BY <1>4, <2>2, BusyJob, HoldStep DEF LayersEnsured, PCs, StartPCs, PidPCs, StopPCs
  <2> QED
    BY <1>4, <2>3 DEF LayersEnsured, TypeOK, DiskOK, KernelOK
<1>5. CASE SaveAcquired(s)
  <2>1. SessionsOK'
    BY <1>5, GotoStep DEF SaveAcquired, PCs, StartPCs, PidPCs, StopPCs
  <2>2. DiskOK'
    BY <1>5, <2>1, BusyJob, SaveStep DEF SaveAcquired, TypeOK
  <2> QED
    BY <1>5, <2>1, <2>2 DEF SaveAcquired, TypeOK, KernelOK
<1>6. CASE StartFails(s)
  <2>1. SessionsOK'
    BY <1>6, EndStep DEF StartFails
  <2> QED
    BY <1>6, <2>1 DEF StartFails, TypeOK, DiskOK, KernelOK
<1>7. ASSUME NEW p \in Pids, Spawn(s, p)
      PROVE  TypeOK'
  <2>1. /\ [job[s] EXCEPT !.pid = p] \in Job
        /\ [job[s] EXCEPT !.pid = p].c = job[s].c
        /\ [job[s] EXCEPT !.pid = p].pid = p
    <3>1. job[s] \in Job
      BY BusyJob
    <3> QED
      BY <1>7, <3>1 DEF Job
  <2>2. SessionsOK'
    BY <1>7, <2>1, BusyJob, HoldStep DEF Spawn, PCs, StartPCs, PidPCs, StopPCs
  <2> QED
    <3>1. [c |-> job[s].c, run |-> "up"] \in Engine
      BY <1>7, BusyJob DEF Spawn, Engine, EngineRun
    <3> QED
      BY <1>7, <2>2, <3>1 DEF Spawn, TypeOK, DiskOK, KernelOK
<1>8. CASE WireUp(s)
  <2>1. /\ [job[s] EXCEPT !.net = TRUE] \in Job
        /\ [job[s] EXCEPT !.net = TRUE].c = job[s].c
        /\ [job[s] EXCEPT !.net = TRUE].pid = job[s].pid
    BY <1>8, BusyJob, JobFields DEF WireUp, PidPCs, StopPCs
  <2>2. SessionsOK'
    BY <1>8, <2>1, BusyJob, HoldStep DEF WireUp, PCs, StartPCs, PidPCs, StopPCs
  <2> QED
    <3>1. job[s].pid \in Pids
      BY <1>8, BusyJob DEF WireUp, PidPCs
    <3> QED
      BY <1>8, <2>2, <3>1 DEF WireUp, TypeOK, DiskOK, KernelOK
<1>9. CASE WireUpFails(s)
  <2>1. /\ [job[s] EXCEPT !.net = TRUE] \in Job
        /\ [job[s] EXCEPT !.net = TRUE].c = job[s].c
        /\ [job[s] EXCEPT !.net = TRUE].pid = job[s].pid
    BY BusyJob, JobFields
  <2>2. SessionsOK'
    <3>1. CASE UNCHANGED job
      BY <1>9, <3>1, GotoStep DEF WireUpFails, PCs, StartPCs, PidPCs, StopPCs
    <3>2. CASE Hold(s, [job[s] EXCEPT !.net = TRUE])
      BY <1>9, <2>1, <3>2, BusyJob, HoldStep DEF WireUpFails, PCs, StartPCs, PidPCs, StopPCs
    <3> QED
      BY <1>9, <3>1, <3>2 DEF WireUpFails
  <2>3. KernelOK'
    BY <1>9, BusyJob DEF WireUpFails, TypeOK, KernelOK, Kill, Engine, EngineRun, PidPCs
  <2> QED
    BY <1>9, <2>2, <2>3 DEF WireUpFails, TypeOK, DiskOK
<1>10. CASE EngineGoneBeforeWiring(s)
  <2>1. SessionsOK'
    BY <1>10, GotoStep DEF EngineGoneBeforeWiring, PCs, StartPCs, PidPCs, StopPCs
  <2>2. KernelOK'
    BY <1>10 DEF EngineGoneBeforeWiring, Unwire, TypeOK, KernelOK, Engine, EngineRun
  <2> QED
    BY <1>10, <2>1, <2>2 DEF EngineGoneBeforeWiring, TypeOK, DiskOK
<1>11. CASE AbortReaped(s)
  <2>1. SessionsOK'
    BY <1>11, GotoStep DEF AbortReaped, PCs, StartPCs, PidPCs, StopPCs
  <2> QED
    BY <1>11, <2>1 DEF AbortReaped, TypeOK, DiskOK, KernelOK
<1>12. CASE AbortCleanup(s)
  <2>1. Halted(job[s].snap) \in Container
    BY <1>12, BusyJob, ContainerFields
  <2>2. /\ [job[s] EXCEPT !.snap = Halted(@), !.net = FALSE] \in Job
        /\ [job[s] EXCEPT !.snap = Halted(@), !.net = FALSE].c = job[s].c
    BY <1>12, <2>1, BusyJob, JobFields DEF AbortCleanup, PidPCs, StopPCs
  <2>3. SessionsOK'
    BY <1>12, <2>2, BusyJob, HoldStep DEF AbortCleanup, PCs, StartPCs, PidPCs, StopPCs
  <2> QED
    BY <1>12, <2>3 DEF AbortCleanup, TypeOK, DiskOK, KernelOK, Cleanup, Unwire, Engine, EngineRun
<1>13. CASE AbortSave(s)
  <2>1. SessionsOK'
    BY <1>13, EndStep DEF AbortSave
  <2>2. DiskOK'
    BY <1>13, BusyJob, SaveStep DEF AbortSave, TypeOK
  <2> QED
    BY <1>13, <2>1, <2>2 DEF AbortSave, TypeOK, KernelOK
<1>14. CASE SaveRunning(s)
  <2>1. RunningAs(job[s].snap, job[s].pid) \in Container
    BY <1>14, BusyJob, ContainerFields DEF SaveRunning, PidPCs
  <2>2. /\ [job[s] EXCEPT !.snap = RunningAs(job[s].snap, job[s].pid)] \in Job
        /\ [job[s] EXCEPT !.snap = RunningAs(job[s].snap, job[s].pid)].c = job[s].c
        /\ [job[s] EXCEPT !.snap = RunningAs(job[s].snap, job[s].pid)].pid = job[s].pid
    BY <1>14, <2>1, BusyJob, JobFields DEF SaveRunning, PidPCs, StopPCs
  <2>3. SessionsOK'
    BY <1>14, <2>2, BusyJob, HoldStep DEF SaveRunning, PCs, StartPCs, PidPCs, StopPCs
  <2>4. DiskOK'
    BY <1>14, <2>1, BusyJob, SaveStep DEF SaveRunning, TypeOK
  <2> QED
    BY <1>14, <2>3, <2>4 DEF SaveRunning, TypeOK, KernelOK
<1>15. CASE WaitReturns(s)
  <2>1. Halted(job[s].snap) \in Container
    BY <1>15, BusyJob, ContainerFields
  <2>2. /\ [job[s] EXCEPT !.snap = Halted(@)] \in Job
        /\ [job[s] EXCEPT !.snap = Halted(@)].c = job[s].c
    BY <1>15, <2>1, BusyJob, JobFields DEF WaitReturns, PidPCs, StopPCs
  <2>3. SessionsOK'
    BY <1>15, <2>2, BusyJob, HoldStep DEF WaitReturns, PCs, StartPCs, PidPCs, StopPCs
  <2> QED
    BY <1>15, <2>3 DEF WaitReturns, TypeOK, DiskOK, KernelOK
<1>16. CASE SaveStopped(s)
  <2>1. SessionsOK'
    BY <1>16, GotoStep DEF SaveStopped, PCs, StartPCs, PidPCs, StopPCs
  <2>2. DiskOK'
    BY <1>16, <2>1, BusyJob, SaveStep DEF SaveStopped, TypeOK
  <2> QED
    BY <1>16, <2>1, <2>2 DEF SaveStopped, TypeOK, KernelOK
<1>17. CASE StartReturns(s)
  <2>1. SessionsOK'
    BY <1>17, EndStep DEF StartReturns
  <2> QED
    BY <1>17, <2>1 DEF StartReturns, TypeOK, DiskOK, KernelOK, Cleanup, Unwire, Engine, EngineRun
<1>18. CASE DropReaped(s)
  <2>1. SessionsOK'
    BY <1>18, EndStep DEF DropReaped
  <2> QED
    BY <1>18, <2>1 DEF DropReaped, TypeOK, DiskOK, KernelOK
<1>19. ASSUME NEW p \in Pids, StartFailsReaping(s, p)
       PROVE  TypeOK'
  <2>1. SessionsOK'
    BY <1>19, EndStep DEF StartFailsReaping
  <2>2. KernelOK'
    BY <1>19 DEF StartFailsReaping, TypeOK, KernelOK, Engine, EngineRun
  <2> QED
    BY <1>19, <2>1, <2>2 DEF StartFailsReaping, TypeOK, DiskOK
<1>20. CASE WaitFails(s)
  <2>1. SessionsOK'
    BY <1>20, EndStep DEF WaitFails
  <2> QED
    BY <1>20, <2>1 DEF WaitFails, TypeOK, DiskOK, KernelOK
<1> QED
  BY <1>1, <1>2, <1>3, <1>4, <1>5, <1>6, <1>7, <1>8, <1>9, <1>10, <1>11, <1>12, <1>13, <1>14, <1>15, <1>16, <1>17, <1>18, <1>19, <1>20 DEF Start

LEMMA StopType ==
  ASSUME TypeOK, NEW s \in Sessions, Stop(s) \/ \E c \in Containers : StopFind(s, c)
  PROVE  TypeOK'
<1> USE DEF disk, kernel, temps
<1>1. ASSUME NEW c \in Containers, StopFind(s, c)
      PROVE  TypeOK'
  <2>1. InState(meta[c], "Stopping") \in Container /\ InState(meta[c], "Stopping").pid = meta[c].pid
    BY ContainerFields DEF TypeOK, DiskOK, ContainerState
  <2>2. /\ JobOn(c, InState(meta[c], "Stopping")) \in Job
        /\ JobOn(c, InState(meta[c], "Stopping")).c = c
        /\ JobOn(c, InState(meta[c], "Stopping")).pid = meta[c].pid
    BY <2>1, JobOnFields
  <2>3. meta[c].pid \in Pids \cup {NoPid}
    BY DEF TypeOK, DiskOK, Container
  <2>4. SessionsOK'
    BY <1>1, <2>2, <2>3, HoldStep DEF StopFind, PCs, StopPCs, PidPCs, StopPCs
  <2> QED
    BY <1>1, <2>4 DEF StopFind, TypeOK, DiskOK, KernelOK
<1>2. CASE SaveStopping(s)
  <2>1. SessionsOK'
    BY <1>2, GotoStep DEF SaveStopping, PCs, StopPCs, PidPCs, StopPCs
  <2>2. DiskOK'
    BY <1>2, <2>1, BusyJob, SaveStep DEF SaveStopping, TypeOK
  <2> QED
    BY <1>2, <2>1, <2>2 DEF SaveStopping, TypeOK, KernelOK
<1>3. CASE ExitSeen(s)
  <2>1. Halted(job[s].snap) \in Container
    BY <1>3, BusyJob, ContainerFields
  <2>2. /\ [job[s] EXCEPT !.snap = Halted(@)] \in Job
        /\ [job[s] EXCEPT !.snap = Halted(@)].c = job[s].c
        /\ [job[s] EXCEPT !.snap = Halted(@)].pid = job[s].pid
    BY <1>3, <2>1, BusyJob, JobFields DEF ExitSeen, PidPCs, StopPCs
  <2>3. SessionsOK'
    BY <1>3, <2>2, BusyJob, HoldStep DEF ExitSeen, PCs, PidPCs, StopPCs
  <2> QED
    BY <1>3, <2>3 DEF ExitSeen, TypeOK, DiskOK, KernelOK
<1>4. CASE GraceEnds(s)
  <2>1. SessionsOK'
    BY <1>4, GotoStep DEF GraceEnds, PCs, PidPCs, StopPCs
  <2>2. KernelOK'
    BY <1>4, BusyJob DEF GraceEnds, TypeOK, KernelOK, Kill, Engine, EngineRun, PidPCs
  <2> QED
    BY <1>4, <2>1, <2>2 DEF GraceEnds, TypeOK, DiskOK
<1>5. CASE KillGraceEnds(s)
  <2>1. Halted(job[s].snap) \in Container
    BY <1>5, BusyJob, ContainerFields
  <2>2. /\ [job[s] EXCEPT !.snap = Halted(@)] \in Job
        /\ [job[s] EXCEPT !.snap = Halted(@)].c = job[s].c
        /\ [job[s] EXCEPT !.snap = Halted(@)].pid = job[s].pid
    BY <1>5, <2>1, BusyJob, JobFields DEF KillGraceEnds, PidPCs, StopPCs
  <2>3. SessionsOK'
    BY <1>5, <2>2, BusyJob, HoldStep DEF KillGraceEnds, PCs, StopPCs, PidPCs, StopPCs
  <2> QED
    BY <1>5, <2>3 DEF KillGraceEnds, TypeOK, DiskOK, KernelOK
<1>6. CASE StopSave(s)
  <2>1. SessionsOK'
    BY <1>6, EndStep DEF StopSave
  <2>2. DiskOK'
    BY <1>6, BusyJob, SaveStep DEF StopSave, TypeOK
  <2> QED
    BY <1>6, <2>1, <2>2 DEF StopSave, TypeOK, KernelOK
<1> QED
  BY <1>1, <1>2, <1>3, <1>4, <1>5, <1>6 DEF Stop

LEMMA DestroyType ==
  ASSUME TypeOK, NEW s \in Sessions, Destroy(s) \/ \E c \in Containers : DestroyFind(s, c)
  PROVE  TypeOK'
<1> USE DEF disk, kernel, temps
<1>1. ASSUME NEW c \in Containers, DestroyFind(s, c)
      PROVE  TypeOK'
  <2>1. meta[c] \in Container /\ meta[c].acquired \in SUBSET Layers
    BY DEF TypeOK, DiskOK, Container
  <2>2. JobOn(c, meta[c]) \in Job /\ JobOn(c, meta[c]).c = c
    BY <2>1, JobOnFields
  <2>3. /\ [JobOn(c, meta[c]) EXCEPT !.todo = meta[c].acquired] \in Job
        /\ [JobOn(c, meta[c]) EXCEPT !.todo = meta[c].acquired].c = c
    BY <2>1, <2>2, JobFields
  <2>4. SessionsOK'
    BY <1>1, <2>3, HoldStep DEF DestroyFind, PCs, DestroyPCs, PidPCs, StopPCs
  <2> QED
    BY <1>1, <2>4 DEF DestroyFind, TypeOK, DiskOK, KernelOK
<1>2. ASSUME NEW l \in Layers, Release(s, l)
      PROVE  TypeOK'
  <2> DEFINE j == [job[s] EXCEPT !.todo = @ \ {l}]
  <2>1. j \in Job /\ j.c = job[s].c
    BY BusyJob, JobFields
  <2>2. pc[s] = "release" /\ job' = [job EXCEPT ![s] = j] /\ pc' = pc
    BY <1>2 DEF Release, Hold
  <2>3. SessionsOK'
    BY <2>1, <2>2, BusyJob DEF TypeOK, SessionsOK, SessionOK, PidPCs, StopPCs
  <2> QED
    BY <1>2, <2>3 DEF Release, TypeOK, DiskOK, KernelOK
<1>3. CASE LayersReleased(s)
  <2>1. SessionsOK'
    BY <1>3, GotoStep DEF LayersReleased, PCs, DestroyPCs, PidPCs, StopPCs
  <2> QED
    BY <1>3, <2>1 DEF LayersReleased, TypeOK, DiskOK, KernelOK
<1>4. CASE RemoveAccepts(s)
  <2>1. SessionsOK'
    BY <1>4, GotoStep DEF RemoveAccepts, PCs, DestroyPCs, PidPCs, StopPCs
  <2> QED
    BY <1>4, <2>1 DEF RemoveAccepts, TypeOK, DiskOK, KernelOK
<1>5. CASE RemoveRefuses(s)
  <2>1. SessionsOK'
    BY <1>5, EndStep DEF RemoveRefuses
  <2> QED
    BY <1>5, <2>1 DEF RemoveRefuses, TypeOK, DiskOK, KernelOK
<1>6. CASE RemoveFiles(s)
  <2>1. SessionsOK'
    BY <1>6, GotoStep DEF RemoveFiles, PCs, DestroyPCs, PidPCs, StopPCs
  <2> QED
    BY <1>6, <2>1, EmptyRecords DEF RemoveFiles, TempsRemoved, SaveStage, TypeOK, DiskOK, KernelOK
<1>7. CASE RemoveDir(s)
  <2>1. SessionsOK'
    BY <1>7, EndStep DEF RemoveDir
  <2> QED
    BY <1>7, <2>1 DEF RemoveDir, TypeOK, DiskOK, KernelOK
<1> QED
  BY <1>1, <1>2, <1>3, <1>4, <1>5, <1>6, <1>7 DEF Destroy

LEMMA EnvironmentType ==
  ASSUME TypeOK,
         \/ \E p \in Pids : EngineExits(p)
         \/ \E s \in Sessions : Saving(s) \/ Crash(s) \/ HelperLost(s) \/ SaveFails(s)
         \/ Reboot
  PROVE  TypeOK'
<1> USE DEF disk, kernel, temps
<1>1. ASSUME NEW p \in Pids, EngineExits(p)
      PROVE  TypeOK'
  <2>1. DiskOK' /\ SessionsOK' /\ faults' \in Nat
    BY <1>1 DEF EngineExits, TypeOK, DiskOK, SessionsOK, SessionOK
  <2>2. KernelOK'
    BY <1>1 DEF EngineExits, TypeOK, KernelOK, Engine, EngineRun
  <2> QED
    BY <2>1, <2>2 DEF TypeOK
<1>2. ASSUME NEW s \in Sessions, Crash(s) \/ HelperLost(s)
      PROVE  TypeOK'
  <2>1. SessionsOK'
    BY <1>2, EndStep DEF Crash, HelperLost
  <2>2. KernelOK' /\ faults' \in Nat
    BY <1>2 DEF Crash, HelperLost, Fault, TypeOK, KernelOK
  <2>3. CASE Crash(s)
    <3>1. job[s].c \in Containers
      BY <2>3, BusyJob DEF Crash
    <3>2. DiskOK'
      BY <2>3, <3>1 DEF Crash, At, Abandon, SaveStage, TypeOK, DiskOK
    <3> QED
      BY <2>1, <2>2, <3>2 DEF TypeOK
  <2>4. CASE HelperLost(s)
    BY <2>1, <2>2, <2>4 DEF HelperLost, TypeOK, DiskOK
  <2> QED
    BY <1>2, <2>3, <2>4
<1>3. ASSUME NEW s \in Sessions, SaveFails(s) \/ SaveLost(s)
      PROVE  TypeOK'
  <2>1. SaveError(s) /\ pc[s] \in SavePCs /\ faults' \in Nat
    BY <1>3 DEF SaveFails, SaveLost, Fault, TypeOK
  <2>2. job[s].c \in Containers
    BY <2>1, BusyJob DEF SavePCs
  <2>3. stray' \subseteq Containers
    BY <1>3, <2>2 DEF SaveFails, SaveLost, Abandon, TypeOK, DiskOK
  <2>4. DiskOK'
    BY <2>1, <2>3 DEF SaveError, At, SaveStage, TypeOK, DiskOK
  <2>5. SessionsOK'
    <3>1. CASE pc[s] = "save_running"
      BY <2>1, <3>1, GotoStep DEF SaveError, PCs, StartPCs, PidPCs, StopPCs
    <3>2. CASE pc[s] # "save_running"
      BY <2>1, <3>2, EndStep DEF SaveError
    <3> QED
      BY <3>1, <3>2
  <2>6. KernelOK'
    BY <2>1, BusyJob DEF SaveError, TypeOK, KernelOK, Kill, Engine, EngineRun, PidPCs
  <2> QED
    BY <2>1, <2>4, <2>5, <2>6 DEF TypeOK
<1>5. ASSUME NEW s \in Sessions, SaveDir(s) \/ SaveFile(s)
      PROVE  TypeOK'
  <2>1. SessionsOK' /\ KernelOK' /\ faults' \in Nat
    BY <1>5 DEF SaveDir, SaveFile, TypeOK, SessionsOK, SessionOK, KernelOK
  <2>2. SaveDir(s) => job[s].c \in Containers
    BY BusyJob DEF SaveDir, SavePCs
  <2>3. DiskOK'
    BY <1>5, <2>2 DEF SaveDir, SaveFile, At, SaveStage, TypeOK, DiskOK
  <2> QED
    BY <2>1, <2>3 DEF TypeOK
<1>4. CASE Reboot
  <2>1. KernelOK'
    BY <1>4 DEF Reboot, TypeOK, KernelOK, Engine, EngineRun
  <2>2. SessionsOK'
    BY <1>4, EmptyRecords DEF Reboot, TypeOK, SessionsOK, SessionOK, PCs, PidPCs, StopPCs
  <2> QED
    BY <1>4, <2>1, <2>2 DEF Reboot, Fault, SaveStage, TypeOK, DiskOK
<1> QED
  BY <1>1, <1>2, <1>3, <1>4, <1>5 DEF Saving

\* Every behaviour keeps every variable in its type: in particular a session
\* that will signal a pid has one.
THEOREM TypeCorrect == Spec => []TypeOK
<1>1. Init => TypeOK
  BY EmptyRecords DEF Init, TypeOK, DiskOK, KernelOK, SessionsOK, SessionOK,
     PCs, PidPCs, StopPCs, Engine, EngineRun, SaveStage
<1>2. TypeOK /\ [Next]_vars => TypeOK'
  <2> SUFFICES ASSUME TypeOK, [Next]_vars
               PROVE  TypeOK'
    OBVIOUS
  <2>1. ASSUME NEW s \in Sessions, Begin(s) \/ Proceed(s)
        PROVE  TypeOK'
    BY <2>1, ConstantsAssumption, CreateType, StartType, StopType, DestroyType, EnvironmentType
       DEF Begin, Proceed
  <2>2. CASE UNCHANGED vars
    BY <2>2 DEF vars, temps, TypeOK, DiskOK, KernelOK, SessionsOK, SessionOK
  <2> QED
    BY <2>1, <2>2, EnvironmentType DEF Next
<1>3. QED
  BY <1>1, <1>2, PTL DEF Spec

-----------------------------------------------------------------------------
(***************************************************************************)
(* What the sessions may write.                                            *)
(***************************************************************************)
\* If every record that a step writes, on disk or in a session, carries a pid
\* exactly while it is Running or Stopping, all of them still do.
LEMMA PidKept ==
  ASSUME PidIffActive,
         \A c \in Containers : meta'[c] = meta[c] \/ PidMatchesState(meta'[c]),
         \A s \in Sessions : job'[s].snap = job[s].snap \/ PidMatchesState(job'[s].snap)
  PROVE  PidIffActive'
  BY DEF PidIffActive, PidMatchesState

\* What Save does to the records.
LEMMA SaveWrites ==
  ASSUME TypeOK, NEW s \in Sessions, job[s].c \in Containers, NEW record, Save(s, record)
  PROVE  \A d \in Containers : meta'[d] = meta[d] \/ meta'[d] = record
  BY DEF Save, TypeOK, DiskOK

\* What Hold and End do to the snapshots.
LEMMA HoldWrites ==
  ASSUME TypeOK, NEW s \in Sessions, NEW j, Hold(s, j)
  PROVE  \A t \in Sessions : job'[t].snap = job[t].snap \/ job'[t].snap = j.snap
  BY DEF Hold, TypeOK, SessionsOK

\* The record of a container without metadata has no pid.
LEMMA NoFilePid == PidMatchesState(NoFile)
  BY DEF PidMatchesState, NoFile

\* A step of a command keeps pids where they belong.
LEMMA EndPid ==
  ASSUME TypeOK, PidIffActive, NEW s \in Sessions, End(s),
         \/ UNCHANGED meta
         \/ /\ pc[s] # "idle"
            /\ Save(s, job[s].snap)
         \/ /\ pc[s] # "idle"
            /\ meta' = [meta EXCEPT ![job[s].c] = NoFile]
  PROVE  PidIffActive'
<1>1. \A t \in Sessions : job'[t].snap = job[t].snap \/ job'[t].snap = NoFile
  BY HoldWrites, EmptyRecords DEF End
<1>2. \A c \in Containers :
        meta'[c] = meta[c] \/ meta'[c] = job[s].snap \/ meta'[c] = NoFile
  BY BusyJob, SaveWrites DEF TypeOK, DiskOK
<1>3. PidMatchesState(job[s].snap)
  BY DEF PidIffActive
<1> QED
  BY <1>1, <1>2, <1>3, NoFilePid, PidKept

\* A step that writes one snapshot and at most one record, both of which carry
\* a pid exactly while Running or Stopping.
LEMMA PidStep ==
  ASSUME TypeOK, PidIffActive, NEW s \in Sessions, NEW j,
         Hold(s, j), PidMatchesState(j.snap),
         \/ UNCHANGED meta
         \/ pc[s] # "idle" /\ Save(s, j.snap)
         \/ pc[s] # "idle" /\ Save(s, job[s].snap)
  PROVE  PidIffActive'
<1>1. \A t \in Sessions : job'[t].snap = job[t].snap \/ job'[t].snap = j.snap
  BY HoldWrites
<1>2. \A c \in Containers :
        meta'[c] = meta[c] \/ meta'[c] = j.snap \/ meta'[c] = job[s].snap
  BY BusyJob, SaveWrites
<1>3. PidMatchesState(job[s].snap)
  BY DEF PidIffActive
<1> QED
  BY <1>1, <1>2, <1>3, PidKept

\* A step that writes no record, and one that saves the snapshot as it is.
LEMMA PidSame ==
  ASSUME PidIffActive, UNCHANGED <<meta, job>>
  PROVE  PidIffActive'
  BY DEF PidIffActive, PidMatchesState

LEMMA SavePid ==
  ASSUME TypeOK, PidIffActive, NEW s \in Sessions, pc[s] # "idle",
         Save(s, job[s].snap), UNCHANGED job
  PROVE  PidIffActive'
<1>1. \A c \in Containers : meta'[c] = meta[c] \/ meta'[c] = job[s].snap
  BY BusyJob, SaveWrites
<1> QED
  BY <1>1, PidKept DEF PidIffActive

LEMMA BusySnap ==
  ASSUME PidIffActive, NEW s \in Sessions
  PROVE  PidMatchesState(job[s].snap)
  BY DEF PidIffActive

LEMMA CreatePid ==
  ASSUME TypeOK, PidIffActive, NEW s \in Sessions,
         Create(s) \/ \E c \in Containers : CreateFind(s, c)
  PROVE  PidIffActive'
<1> USE DEF disk, kernel, temps
<1>1. ASSUME NEW c \in Containers, CreateFind(s, c)
      PROVE  PidIffActive'
  <2>1. InState(NoFile, "Created") \in Container
    BY ContainerFields, EmptyRecords DEF TypeOK, DiskOK, ContainerState
  <2>2. PidMatchesState(InState(NoFile, "Created"))
    BY <1>1, EmptyRecords, ContainerFields DEF PidMatchesState, NoFile, ContainerState
  <2>3. JobOn(c, InState(NoFile, "Created")).snap = InState(NoFile, "Created")
    BY <2>1, JobOnFields
  <2> QED
    BY <1>1, <2>2, <2>3, PidStep DEF CreateFind
<1>2. CASE CreateDir(s)
  BY <1>2, PidSame DEF CreateDir
<1>3. CASE CreateSave(s)
  BY <1>3, SavePid DEF CreateSave
<1>4. CASE CreateVolume(s)
  <2>1. CASE End(s)
    BY <1>4, <2>1, EndPid DEF CreateVolume
  <2>2. CASE UNCHANGED job
    BY <1>4, <2>2, PidSame DEF CreateVolume
  <2> QED
    BY <1>4, <2>1, <2>2 DEF CreateVolume
<1> QED
  BY <1>1, <1>2, <1>3, <1>4 DEF Create

LEMMA StartPid ==
  ASSUME ConstantsAssumption, TypeOK, PidIffActive, NEW s \in Sessions,
         Start(s) \/ \E c \in Containers : StartFind(s, c)
  PROVE  PidIffActive'
<1> USE DEF disk, kernel, temps
<1>1. ASSUME NEW c \in Containers, StartFind(s, c)
      PROVE  PidIffActive'
  <2>1. InState(meta[c], "Starting") \in Container
    BY ContainerFields, EmptyRecords DEF TypeOK, DiskOK, ContainerState
  <2>2. PidMatchesState(InState(meta[c], "Starting"))
    BY <1>1, ContainerFields DEF PidMatchesState, PidIffActive, StartFind, TypeOK, DiskOK, ContainerState
  <2>3. JobOn(c, InState(meta[c], "Starting")).snap = InState(meta[c], "Starting")
    BY <2>1, JobOnFields
  <2> QED
    BY <1>1, <2>2, <2>3, PidStep DEF StartFind
<1>2. CASE SaveStarting(s)
  <2>1. [job[s] EXCEPT !.todo = LayersOf[job[s].c] \ job[s].snap.acquired].snap = job[s].snap
    BY BusyJob DEF Job
  <2> QED
    BY <1>2, <2>1, PidStep, BusySnap DEF SaveStarting
<1>3. ASSUME NEW l \in Layers, EnsureLayer(s, l)
      PROVE  PidIffActive'
  <2>1. [job[s] EXCEPT !.todo = @ \ {l}, !.fresh = @ \cup {l}].snap = job[s].snap
    BY BusyJob DEF Job
  <2> QED
    BY <1>3, <2>1, PidStep, BusySnap DEF EnsureLayer
<1>4. CASE LayersEnsured(s)
  <2>1. Acquired(job[s].snap, job[s].fresh) \in Container /\ PidMatchesState(Acquired(job[s].snap, job[s].fresh))
    BY <1>4, BusyJob, BusySnap, ContainerFields DEF PidMatchesState
  <2>2. [job[s] EXCEPT !.snap = Acquired(@, job[s].fresh), !.fresh = {}].snap = Acquired(job[s].snap, job[s].fresh)
    BY <2>1, BusyJob DEF Job
  <2> QED
    BY <1>4, <2>1, <2>2, PidStep DEF LayersEnsured
<1>5. CASE SaveAcquired(s)
  BY <1>5, SavePid DEF SaveAcquired
<1>6. CASE StartFails(s)
  BY <1>6, EndPid DEF StartFails
<1>7. ASSUME NEW p \in Pids, Spawn(s, p)
      PROVE  PidIffActive'
  <2>1. [job[s] EXCEPT !.pid = p].snap = job[s].snap
    BY BusyJob DEF Job
  <2> QED
    BY <1>7, <2>1, PidStep, BusySnap DEF Spawn
<1>8. CASE WireUp(s)
  <2>1. [job[s] EXCEPT !.net = TRUE].snap = job[s].snap
    BY BusyJob DEF Job
  <2> QED
    BY <1>8, <2>1, PidStep, BusySnap DEF WireUp
<1>9. CASE WireUpFails(s)
  <2>1. CASE UNCHANGED job
    BY <1>9, <2>1, PidSame DEF WireUpFails
  <2>2. CASE Hold(s, [job[s] EXCEPT !.net = TRUE])
    <3>1. [job[s] EXCEPT !.net = TRUE].snap = job[s].snap
      BY BusyJob DEF Job
    <3> QED
      BY <1>9, <2>2, <3>1, PidStep, BusySnap DEF WireUpFails
  <2> QED
    BY <1>9, <2>1, <2>2 DEF WireUpFails
<1>10. CASE EngineGoneBeforeWiring(s)
  BY <1>10, PidSame DEF EngineGoneBeforeWiring
<1>19. CASE WaitFails(s) \/ \E p \in Pids : StartFailsReaping(s, p)
  BY <1>19, EndPid DEF WaitFails, StartFailsReaping
<1>11. CASE AbortReaped(s)
  BY <1>11, PidSame DEF AbortReaped
<1>12. CASE AbortCleanup(s)
  <2>1. Halted(job[s].snap) \in Container /\ PidMatchesState(Halted(job[s].snap))
    BY <1>12, BusyJob, ContainerFields DEF PidMatchesState
  <2>2. [job[s] EXCEPT !.snap = Halted(@), !.net = FALSE].snap = Halted(job[s].snap)
    BY <2>1, BusyJob DEF Job
  <2> QED
    BY <1>12, <2>1, <2>2, PidStep DEF AbortCleanup
<1>13. CASE AbortSave(s)
  BY <1>13, EndPid DEF AbortSave
<1>14. CASE SaveRunning(s)
  <2>1. RunningAs(job[s].snap, job[s].pid) \in Container /\ PidMatchesState(RunningAs(job[s].snap, job[s].pid))
    BY <1>14, BusyJob, ContainerFields DEF SaveRunning, PidMatchesState, PidPCs, ConstantsAssumption
  <2>2. [job[s] EXCEPT !.snap = RunningAs(job[s].snap, job[s].pid)].snap = RunningAs(job[s].snap, job[s].pid)
    BY <2>1, BusyJob DEF Job
  <2> QED
    BY <1>14, <2>1, <2>2, PidStep DEF SaveRunning
<1>15. CASE WaitReturns(s)
  <2>1. Halted(job[s].snap) \in Container /\ PidMatchesState(Halted(job[s].snap))
    BY <1>15, BusyJob, ContainerFields DEF PidMatchesState
  <2>2. [job[s] EXCEPT !.snap = Halted(@)].snap = Halted(job[s].snap)
    BY <2>1, BusyJob DEF Job
  <2> QED
    BY <1>15, <2>1, <2>2, PidStep DEF WaitReturns
<1>16. CASE SaveStopped(s)
  BY <1>16, SavePid DEF SaveStopped
<1>17. CASE StartReturns(s)
  BY <1>17, EndPid DEF StartReturns
<1>18. CASE DropReaped(s)
  BY <1>18, EndPid DEF DropReaped
<1> QED
  BY <1>1, <1>2, <1>3, <1>4, <1>5, <1>6, <1>7, <1>8, <1>9, <1>10, <1>11, <1>12, <1>13, <1>14, <1>15, <1>16, <1>17, <1>18, <1>19 DEF Start

LEMMA StopPid ==
  ASSUME TypeOK, PidIffActive, NEW s \in Sessions,
         Stop(s) \/ \E c \in Containers : StopFind(s, c)
  PROVE  PidIffActive'
<1> USE DEF disk, kernel, temps
<1>1. ASSUME NEW c \in Containers, StopFind(s, c)
      PROVE  PidIffActive'
  <2>1. InState(meta[c], "Stopping") \in Container
    BY ContainerFields, EmptyRecords DEF TypeOK, DiskOK, ContainerState
  <2>2. PidMatchesState(InState(meta[c], "Stopping"))
    BY <1>1, ContainerFields DEF PidMatchesState, StopFind, TypeOK, DiskOK, ContainerState
  <2>3. JobOn(c, InState(meta[c], "Stopping")).snap = InState(meta[c], "Stopping")
    BY <2>1, JobOnFields
  <2> QED
    BY <1>1, <2>2, <2>3, PidStep DEF StopFind
<1>2. CASE SaveStopping(s)
  BY <1>2, SavePid DEF SaveStopping
<1>3. CASE ExitSeen(s)
  <2>1. Halted(job[s].snap) \in Container /\ PidMatchesState(Halted(job[s].snap))
    BY <1>3, BusyJob, ContainerFields DEF PidMatchesState
  <2>2. [job[s] EXCEPT !.snap = Halted(@)].snap = Halted(job[s].snap)
    BY <2>1, BusyJob DEF Job
  <2> QED
    BY <1>3, <2>1, <2>2, PidStep DEF ExitSeen
<1>4. CASE GraceEnds(s)
  BY <1>4, PidSame DEF GraceEnds
<1>5. CASE KillGraceEnds(s)
  <2>1. Halted(job[s].snap) \in Container /\ PidMatchesState(Halted(job[s].snap))
    BY <1>5, BusyJob, ContainerFields DEF PidMatchesState
  <2>2. [job[s] EXCEPT !.snap = Halted(@)].snap = Halted(job[s].snap)
    BY <2>1, BusyJob DEF Job
  <2> QED
    BY <1>5, <2>1, <2>2, PidStep DEF KillGraceEnds
<1>6. CASE StopSave(s)
  BY <1>6, EndPid DEF StopSave
<1> QED
  BY <1>1, <1>2, <1>3, <1>4, <1>5, <1>6 DEF Stop

LEMMA DestroyPid ==
  ASSUME TypeOK, PidIffActive, NEW s \in Sessions,
         Destroy(s) \/ \E c \in Containers : DestroyFind(s, c)
  PROVE  PidIffActive'
<1> USE DEF disk, kernel, temps
<1>1. ASSUME NEW c \in Containers, DestroyFind(s, c)
      PROVE  PidIffActive'
  <2>1. meta[c] \in Container /\ PidMatchesState(meta[c])
    BY DEF TypeOK, DiskOK, PidIffActive
  <2>2. [JobOn(c, meta[c]) EXCEPT !.todo = meta[c].acquired].snap = meta[c]
    BY <2>1, JobOnFields DEF Job
  <2> QED
    BY <1>1, <2>1, <2>2, PidStep DEF DestroyFind
<1>2. ASSUME NEW l \in Layers, Release(s, l)
      PROVE  PidIffActive'
  <2>1. [job[s] EXCEPT !.todo = @ \ {l}].snap = job[s].snap
    BY BusyJob DEF Job
  <2> QED
    BY <1>2, <2>1, PidStep, BusySnap DEF Release
<1>3. CASE LayersReleased(s)
  BY <1>3, PidSame DEF LayersReleased
<1>4. CASE RemoveAccepts(s)
  BY <1>4, PidSame DEF RemoveAccepts
<1>5. CASE RemoveRefuses(s)
  BY <1>5, EndPid DEF RemoveRefuses
<1>6. CASE RemoveFiles(s)
  <2>1. \A c \in Containers : meta'[c] = meta[c] \/ meta'[c] = NoFile
    BY <1>6 DEF RemoveFiles, TypeOK, DiskOK
  <2> QED
    BY <1>6, <2>1, NoFilePid, PidKept DEF RemoveFiles
<1>7. CASE RemoveDir(s)
  BY <1>7, EndPid DEF RemoveDir
<1> QED
  BY <1>1, <1>2, <1>3, <1>4, <1>5, <1>6, <1>7 DEF Destroy

LEMMA EnvironmentPid ==
  ASSUME TypeOK, PidIffActive,
         \/ \E p \in Pids : EngineExits(p)
         \/ \E s \in Sessions : Saving(s) \/ Crash(s) \/ HelperLost(s) \/ SaveFails(s)
         \/ Reboot
  PROVE  PidIffActive'
<1> USE DEF disk, kernel, temps
<1>1. ASSUME NEW p \in Pids, EngineExits(p)
      PROVE  PidIffActive'
  BY <1>1, PidSame DEF EngineExits
<1>2. ASSUME NEW s \in Sessions, Crash(s) \/ HelperLost(s)
      PROVE  PidIffActive'
  BY <1>2, EndPid DEF Crash, HelperLost
<1>3. ASSUME NEW s \in Sessions, Saving(s) \/ SaveFails(s)
      PROVE  PidIffActive'
  <2>1. UNCHANGED meta /\ (End(s) \/ UNCHANGED job)
    BY <1>3 DEF Saving, SaveDir, SaveFile, SaveLost, SaveFails, SaveError
  <2> QED
    BY <2>1, EndPid, PidSame
<1>4. CASE Reboot
  <2>1. \A s \in Sessions : job'[s].snap = NoFile
    BY <1>4, EmptyRecords DEF Reboot
  <2> QED
    BY <1>4, <2>1, NoFilePid, PidKept DEF Reboot
<1> QED
  BY <1>1, <1>2, <1>3, <1>4

\* No interleaving of blind saves, crashes and failed saves, under any
\* discipline, leaves a Running or Stopping record without a pid, or a pid in
\* any other record: stop never meets "running container without a recorded
\* pid".
THEOREM PidsMatchStates == Spec => []PidIffActive
<1>1. Init => PidIffActive
  BY NoFilePid, EmptyRecords DEF Init, PidIffActive
<1>2. TypeOK /\ PidIffActive /\ [Next]_vars => PidIffActive'
  <2> SUFFICES ASSUME TypeOK, PidIffActive, [Next]_vars
               PROVE  PidIffActive'
    OBVIOUS
  <2>1. ASSUME NEW s \in Sessions, Begin(s) \/ Proceed(s)
        PROVE  PidIffActive'
    BY <2>1, ConstantsAssumption, CreatePid, StartPid, StopPid, DestroyPid, EnvironmentPid
       DEF Begin, Proceed
  <2>2. CASE UNCHANGED vars
    BY <2>2, PidSame DEF vars
  <2> QED
    BY <2>1, <2>2, EnvironmentPid DEF Next
<1>3. QED
  BY <1>1, <1>2, TypeCorrect, PTL DEF Spec

\* Records stay well formed, in their types and in their pids, whatever the commands do.
THEOREM RecordsWellFormed == Spec => []RecordInv
BY TypeCorrect, PidsMatchStates, PTL DEF RecordInv

-----------------------------------------------------------------------------
(***************************************************************************)
(* stop kills what it found.                                               *)
(***************************************************************************)
\* The pids that are, or have been, engines.
Seen == {NoPid} \cup {p \in Pids : engine[p].run # "unused"}

\* No record or session names a pid that has never been an engine.
PidsSeen ==
  /\ \A c \in Containers : meta[c].pid \in Seen
  /\ \A s \in Sessions : job[s].pid \in Seen /\ job[s].snap.pid \in Seen

\* After the grace period the engine that stop found is not up.
GraceIsOver ==
  \A s \in Sessions : pc[s] \in {"kill_wait", "stop_save"} => engine[job[s].pid].run # "up"

\* An engine never comes back: a pid that has been used is never up again.
NeverAgain ==
  \A p \in Pids :
    /\ engine'[p].run = "up" => engine[p].run \in {"up", "unused"}
    /\ engine[p].run # "unused" => engine'[p].run # "unused"

LEMMA KillNeverAgain ==
  ASSUME TypeOK, NEW p \in Pids, Kill(p)
  PROVE  NeverAgain
  BY DEF NeverAgain, Kill, TypeOK, KernelOK, Engine

LEMMA CleanupNeverAgain ==
  ASSUME TypeOK, NEW s \in Sessions, Cleanup(s)
  PROVE  NeverAgain
  BY DEF NeverAgain, Cleanup, Unwire, TypeOK, KernelOK, Engine, kernel

LEMMA SameNeverAgain ==
  ASSUME UNCHANGED engine
  PROVE  NeverAgain
  BY DEF NeverAgain

\* Every step leaves the dead dead.
LEMMA StepNeverAgain ==
  ASSUME TypeOK, [Next]_vars
  PROVE  NeverAgain
<1> USE SameNeverAgain DEF kernel
<1>1. ASSUME NEW s \in Sessions, Begin(s)
      PROVE  NeverAgain
  BY <1>1 DEF Begin, CreateFind, StartFind, StopFind, DestroyFind
<1>2. ASSUME NEW s \in Sessions, Create(s) \/ Destroy(s)
      PROVE  NeverAgain
  BY <1>2 DEF Create, CreateDir, CreateSave, CreateVolume,
     Destroy, Release, LayersReleased, RemoveAccepts, RemoveRefuses, RemoveFiles, RemoveDir
<1>3. ASSUME NEW s \in Sessions, Start(s)
      PROVE  NeverAgain
  <2>1. ASSUME NEW p \in Pids, Spawn(s, p)
        PROVE  NeverAgain
    BY <2>1 DEF NeverAgain, Spawn, TypeOK, KernelOK
  <2>2. CASE WireUpFails(s)
    BY <2>2, BusyJob, KillNeverAgain DEF WireUpFails, PidPCs
  <2>3. CASE AbortCleanup(s) \/ StartReturns(s)
    BY <2>3, CleanupNeverAgain DEF AbortCleanup, StartReturns
  <2>4. CASE \/ SaveStarting(s) \/ LayersEnsured(s) \/ SaveAcquired(s) \/ StartFails(s)
             \/ WireUp(s) \/ AbortReaped(s) \/ AbortSave(s) \/ SaveRunning(s)
             \/ WaitReturns(s) \/ WaitFails(s) \/ SaveStopped(s) \/ DropReaped(s)
             \/ \E l \in Layers : EnsureLayer(s, l)
    BY <2>4 DEF SaveStarting, LayersEnsured, SaveAcquired, StartFails, WireUp,
       AbortReaped, AbortSave, SaveRunning, WaitReturns, WaitFails,
       SaveStopped, DropReaped, EnsureLayer
  <2>5. CASE EngineGoneBeforeWiring(s)
    BY <2>5 DEF EngineGoneBeforeWiring, Unwire, NeverAgain, TypeOK, KernelOK, Engine
  <2>6. ASSUME NEW p \in Pids, StartFailsReaping(s, p)
        PROVE  NeverAgain
    BY <2>6 DEF StartFailsReaping, NeverAgain, TypeOK, KernelOK, Engine
  <2> QED
    BY <1>3, <2>1, <2>2, <2>3, <2>4, <2>5, <2>6 DEF Start
<1>4. ASSUME NEW s \in Sessions, Stop(s)
      PROVE  NeverAgain
  <2>1. CASE GraceEnds(s)
    BY <2>1, BusyJob, KillNeverAgain DEF GraceEnds, PidPCs, StopPCs
  <2>2. CASE SaveStopping(s) \/ ExitSeen(s) \/ KillGraceEnds(s) \/ StopSave(s)
    BY <2>2 DEF SaveStopping, ExitSeen, KillGraceEnds, StopSave
  <2> QED
    BY <1>4, <2>1, <2>2 DEF Stop
<1>5. ASSUME NEW p \in Pids, EngineExits(p)
      PROVE  NeverAgain
  BY <1>5 DEF NeverAgain, EngineExits, TypeOK, KernelOK, Engine
<1>6. ASSUME NEW s \in Sessions, Saving(s) \/ Crash(s) \/ HelperLost(s) \/ SaveFails(s)
      PROVE  NeverAgain
  <2>1. CASE pc[s] = "save_running" /\ SaveError(s)
    BY <2>1, BusyJob, KillNeverAgain DEF SaveError, PidPCs
  <2>2. CASE pc[s] # "save_running" /\ SaveError(s)
    BY <2>2 DEF SaveError
  <2> QED
    BY <1>6, <2>1, <2>2 DEF Crash, HelperLost, SaveFails, Saving, SaveDir, SaveFile, SaveLost
<1>7. CASE Reboot
  BY <1>7 DEF NeverAgain, Reboot, Alive, TypeOK, KernelOK, Engine
<1>8. CASE UNCHANGED vars
  BY <1>8 DEF vars
<1> QED
  BY <1>1, <1>2, <1>3, <1>4, <1>5, <1>6, <1>7, <1>8 DEF Next, Proceed

\* A used pid stays used.
LEMMA SeenGrows == NeverAgain => Seen \subseteq Seen'
  BY DEF NeverAgain, Seen

\* A step that writes one job and at most one record, all naming seen pids.
LEMMA SeenStep ==
  ASSUME TypeOK, PidsSeen, NeverAgain, NEW s \in Sessions, NEW j,
         Hold(s, j), j.pid \in Seen, j.snap.pid \in Seen,
         \/ UNCHANGED meta
         \/ pc[s] # "idle" /\ Save(s, j.snap)
         \/ pc[s] # "idle" /\ Save(s, job[s].snap)
  PROVE  PidsSeen'
<1>1. \A t \in Sessions : job'[t] = job[t] \/ job'[t] = j
  BY DEF Hold, TypeOK, SessionsOK
<1>2. \A c \in Containers :
        meta'[c] = meta[c] \/ meta'[c] = j.snap \/ meta'[c] = job[s].snap
  BY BusyJob, SaveWrites
<1> QED
  BY <1>1, <1>2, SeenGrows DEF PidsSeen

LEMMA SeenJob ==
  ASSUME PidsSeen, NEW s \in Sessions
  PROVE  job[s].pid \in Seen /\ job[s].snap.pid \in Seen
  BY DEF PidsSeen

LEMMA SeenSame ==
  ASSUME PidsSeen, NeverAgain, UNCHANGED <<meta, job>>
  PROVE  PidsSeen'
  BY SeenGrows DEF PidsSeen

LEMMA SeenSave ==
  ASSUME TypeOK, PidsSeen, NeverAgain, NEW s \in Sessions, pc[s] # "idle",
         Save(s, job[s].snap), UNCHANGED job
  PROVE  PidsSeen'
<1>1. \A c \in Containers : meta'[c] = meta[c] \/ meta'[c] = job[s].snap
  BY BusyJob, SaveWrites
<1> QED
  BY <1>1, SeenGrows DEF PidsSeen

LEMMA SeenEnd ==
  ASSUME TypeOK, PidsSeen, NeverAgain, NEW s \in Sessions, End(s),
         UNCHANGED meta \/ (pc[s] # "idle" /\ Save(s, job[s].snap))
  PROVE  PidsSeen'
<1>1. NoJob.pid \in Seen /\ NoJob.snap.pid \in Seen
  BY DEF NoJob, NoFile, Seen
<1> QED
  BY <1>1, SeenStep DEF End

LEMMA CreateSeen ==
  ASSUME TypeOK, PidsSeen, NeverAgain, NEW s \in Sessions,
         Create(s) \/ \E c \in Containers : CreateFind(s, c)
  PROVE  PidsSeen'
<1> USE DEF disk, kernel, temps
<1>1. ASSUME NEW c \in Containers, CreateFind(s, c)
      PROVE  PidsSeen'
  <2>1. InState(NoFile, "Created") \in Container /\ InState(NoFile, "Created").pid = NoPid
    BY ContainerFields, EmptyRecords DEF TypeOK, DiskOK, ContainerState, NoFile
  <2>2. JobOn(c, InState(NoFile, "Created")).snap = InState(NoFile, "Created") /\ JobOn(c, InState(NoFile, "Created")).pid = NoPid
    BY <2>1, JobOnFields
  <2>3. NoPid \in Seen
    BY DEF PidsSeen, Seen
  <2> QED
    BY <1>1, <2>1, <2>2, <2>3, SeenStep DEF CreateFind
<1>2. CASE CreateDir(s)
  BY <1>2, SeenSame DEF CreateDir
<1>3. CASE CreateSave(s)
  BY <1>3, SeenSave DEF CreateSave
<1>4. CASE CreateVolume(s)
  BY <1>4, SeenEnd, SeenSame DEF CreateVolume
<1> QED
  BY <1>1, <1>2, <1>3, <1>4 DEF Create

LEMMA StartSeen ==
  ASSUME TypeOK, PidsSeen, NeverAgain, NEW s \in Sessions,
         Start(s) \/ \E c \in Containers : StartFind(s, c)
  PROVE  PidsSeen'
<1> USE DEF disk, kernel, temps
<1>1. ASSUME NEW c \in Containers, StartFind(s, c)
      PROVE  PidsSeen'
  <2>1. InState(meta[c], "Starting") \in Container /\ InState(meta[c], "Starting").pid = meta[c].pid
    BY ContainerFields, EmptyRecords DEF TypeOK, DiskOK, ContainerState, NoFile
  <2>2. JobOn(c, InState(meta[c], "Starting")).snap = InState(meta[c], "Starting") /\ JobOn(c, InState(meta[c], "Starting")).pid = meta[c].pid
    BY <2>1, JobOnFields
  <2>3. meta[c].pid \in Seen
    BY DEF PidsSeen, Seen
  <2> QED
    BY <1>1, <2>1, <2>2, <2>3, SeenStep DEF StartFind
<1>2. CASE SaveStarting(s)
  <2>1. [job[s] EXCEPT !.todo = LayersOf[job[s].c] \ job[s].snap.acquired].snap = job[s].snap /\ [job[s] EXCEPT !.todo = LayersOf[job[s].c] \ job[s].snap.acquired].pid = job[s].pid
    BY BusyJob DEF Job
  <2> QED
    BY <1>2, <2>1, SeenStep, SeenJob DEF SaveStarting
<1>3. ASSUME NEW l \in Layers, EnsureLayer(s, l)
      PROVE  PidsSeen'
  <2>1. [job[s] EXCEPT !.todo = @ \ {l}, !.fresh = @ \cup {l}].snap = job[s].snap /\ [job[s] EXCEPT !.todo = @ \ {l}, !.fresh = @ \cup {l}].pid = job[s].pid
    BY BusyJob DEF Job
  <2> QED
    BY <1>3, <2>1, SeenStep, SeenJob DEF EnsureLayer
<1>4. CASE LayersEnsured(s)
  <2>1. Acquired(job[s].snap, job[s].fresh) \in Container /\ Acquired(job[s].snap, job[s].fresh).pid = job[s].snap.pid
    BY <1>4, BusyJob, ContainerFields DEF LayersEnsured, PidPCs
  <2>2. [job[s] EXCEPT !.snap = Acquired(@, job[s].fresh), !.fresh = {}].snap = Acquired(job[s].snap, job[s].fresh) /\ [job[s] EXCEPT !.snap = Acquired(@, job[s].fresh), !.fresh = {}].pid = job[s].pid
    BY <2>1, BusyJob DEF Job
  <2>3. job[s].snap.pid \in Seen /\ job[s].pid \in Seen
    BY DEF PidsSeen, Seen
  <2> QED
    BY <1>4, <2>1, <2>2, <2>3, SeenStep DEF LayersEnsured
<1>5. CASE SaveAcquired(s)
  BY <1>5, SeenSave DEF SaveAcquired
<1>6. CASE StartFails(s)
  BY <1>6, SeenEnd DEF StartFails
<1>7. ASSUME NEW p \in Pids, Spawn(s, p)
      PROVE  PidsSeen'
  <2> DEFINE j == [job[s] EXCEPT !.pid = p]
  <2>1. j.snap = job[s].snap /\ j.pid = p
    BY BusyJob DEF Job
  <2>2. p \in Seen'
    BY <1>7 DEF Spawn, Seen, TypeOK, KernelOK
  <2>3. \A t \in Sessions : job'[t] = job[t] \/ job'[t] = j
    BY <1>7 DEF Spawn, Hold, TypeOK, SessionsOK
  <2>4. UNCHANGED meta
    BY <1>7 DEF Spawn
  <2> QED
    BY <2>1, <2>2, <2>3, <2>4, SeenGrows DEF PidsSeen
<1>8. CASE WireUp(s)
  <2>1. [job[s] EXCEPT !.net = TRUE].snap = job[s].snap /\ [job[s] EXCEPT !.net = TRUE].pid = job[s].pid
    BY BusyJob DEF Job
  <2> QED
    BY <1>8, <2>1, SeenStep, SeenJob DEF WireUp
<1>9. CASE WireUpFails(s)
  <2>1. CASE UNCHANGED job
    BY <1>9, <2>1, SeenSame DEF WireUpFails
  <2>2. CASE Hold(s, [job[s] EXCEPT !.net = TRUE])
    <3>1. /\ [job[s] EXCEPT !.net = TRUE].snap = job[s].snap
          /\ [job[s] EXCEPT !.net = TRUE].pid = job[s].pid
      BY BusyJob DEF Job
    <3> QED
      BY <1>9, <2>2, <3>1, SeenStep, SeenJob DEF WireUpFails
  <2> QED
    BY <1>9, <2>1, <2>2 DEF WireUpFails
<1>10. CASE EngineGoneBeforeWiring(s)
  BY <1>10, SeenSame DEF EngineGoneBeforeWiring
<1>11. CASE AbortReaped(s)
  BY <1>11, SeenSame DEF AbortReaped
<1>12. CASE AbortCleanup(s)
  <2>1. Halted(job[s].snap) \in Container /\ Halted(job[s].snap).pid = NoPid
    BY <1>12, BusyJob, ContainerFields DEF AbortCleanup, PidPCs
  <2>2. [job[s] EXCEPT !.snap = Halted(@), !.net = FALSE].snap = Halted(job[s].snap) /\ [job[s] EXCEPT !.snap = Halted(@), !.net = FALSE].pid = job[s].pid
    BY <2>1, BusyJob DEF Job
  <2>3. NoPid \in Seen /\ job[s].pid \in Seen
    BY DEF PidsSeen, Seen
  <2> QED
    BY <1>12, <2>1, <2>2, <2>3, SeenStep DEF AbortCleanup
<1>13. CASE AbortSave(s)
  BY <1>13, SeenEnd DEF AbortSave
<1>14. CASE SaveRunning(s)
  <2>1. RunningAs(job[s].snap, job[s].pid) \in Container /\ RunningAs(job[s].snap, job[s].pid).pid = job[s].pid
    BY <1>14, BusyJob, ContainerFields DEF SaveRunning, PidPCs
  <2>2. [job[s] EXCEPT !.snap = RunningAs(job[s].snap, job[s].pid)].snap = RunningAs(job[s].snap, job[s].pid) /\ [job[s] EXCEPT !.snap = RunningAs(job[s].snap, job[s].pid)].pid = job[s].pid
    BY <2>1, BusyJob DEF Job
  <2>3. job[s].pid \in Seen /\ job[s].pid \in Seen
    BY DEF PidsSeen, Seen
  <2> QED
    BY <1>14, <2>1, <2>2, <2>3, SeenStep DEF SaveRunning
<1>15. CASE WaitReturns(s)
  <2>1. Halted(job[s].snap) \in Container /\ Halted(job[s].snap).pid = NoPid
    BY <1>15, BusyJob, ContainerFields DEF WaitReturns, PidPCs
  <2>2. [job[s] EXCEPT !.snap = Halted(@)].snap = Halted(job[s].snap) /\ [job[s] EXCEPT !.snap = Halted(@)].pid = job[s].pid
    BY <2>1, BusyJob DEF Job
  <2>3. NoPid \in Seen /\ job[s].pid \in Seen
    BY DEF PidsSeen, Seen
  <2> QED
    BY <1>15, <2>1, <2>2, <2>3, SeenStep DEF WaitReturns
<1>16. CASE SaveStopped(s)
  BY <1>16, SeenSave DEF SaveStopped
<1>17. CASE StartReturns(s)
  BY <1>17, SeenEnd DEF StartReturns
<1>18. CASE DropReaped(s)
  BY <1>18, SeenEnd DEF DropReaped
<1>19. CASE WaitFails(s) \/ \E p \in Pids : StartFailsReaping(s, p)
  BY <1>19, SeenEnd DEF WaitFails, StartFailsReaping
<1> QED
  BY <1>1, <1>2, <1>3, <1>4, <1>5, <1>6, <1>7, <1>8, <1>9, <1>10, <1>11, <1>12, <1>13, <1>14, <1>15, <1>16, <1>17, <1>18, <1>19 DEF Start

LEMMA StopSeen ==
  ASSUME TypeOK, PidsSeen, NeverAgain, NEW s \in Sessions,
         Stop(s) \/ \E c \in Containers : StopFind(s, c)
  PROVE  PidsSeen'
<1> USE DEF disk, kernel, temps
<1>1. ASSUME NEW c \in Containers, StopFind(s, c)
      PROVE  PidsSeen'
  <2>1. InState(meta[c], "Stopping") \in Container /\ InState(meta[c], "Stopping").pid = meta[c].pid
    BY ContainerFields, EmptyRecords DEF TypeOK, DiskOK, ContainerState, NoFile
  <2>2. JobOn(c, InState(meta[c], "Stopping")).snap = InState(meta[c], "Stopping") /\ JobOn(c, InState(meta[c], "Stopping")).pid = meta[c].pid
    BY <2>1, JobOnFields
  <2>3. meta[c].pid \in Seen
    BY DEF PidsSeen, Seen
  <2> QED
    BY <1>1, <2>1, <2>2, <2>3, SeenStep DEF StopFind
<1>2. CASE SaveStopping(s)
  BY <1>2, SeenSave DEF SaveStopping
<1>3. CASE ExitSeen(s)
  <2>1. Halted(job[s].snap) \in Container /\ Halted(job[s].snap).pid = NoPid
    BY <1>3, BusyJob, ContainerFields DEF ExitSeen, PidPCs
  <2>2. [job[s] EXCEPT !.snap = Halted(@)].snap = Halted(job[s].snap) /\ [job[s] EXCEPT !.snap = Halted(@)].pid = job[s].pid
    BY <2>1, BusyJob DEF Job
  <2>3. NoPid \in Seen /\ job[s].pid \in Seen
    BY DEF PidsSeen, Seen
  <2> QED
    BY <1>3, <2>1, <2>2, <2>3, SeenStep DEF ExitSeen
<1>4. CASE GraceEnds(s)
  BY <1>4, SeenSame DEF GraceEnds
<1>5. CASE KillGraceEnds(s)
  <2>1. Halted(job[s].snap) \in Container /\ Halted(job[s].snap).pid = NoPid
    BY <1>5, BusyJob, ContainerFields DEF KillGraceEnds, PidPCs
  <2>2. [job[s] EXCEPT !.snap = Halted(@)].snap = Halted(job[s].snap) /\ [job[s] EXCEPT !.snap = Halted(@)].pid = job[s].pid
    BY <2>1, BusyJob DEF Job
  <2>3. NoPid \in Seen /\ job[s].pid \in Seen
    BY DEF PidsSeen, Seen
  <2> QED
    BY <1>5, <2>1, <2>2, <2>3, SeenStep DEF KillGraceEnds
<1>6. CASE StopSave(s)
  BY <1>6, SeenEnd DEF StopSave
<1> QED
  BY <1>1, <1>2, <1>3, <1>4, <1>5, <1>6 DEF Stop

LEMMA DestroySeen ==
  ASSUME TypeOK, PidsSeen, NeverAgain, NEW s \in Sessions,
         Destroy(s) \/ \E c \in Containers : DestroyFind(s, c)
  PROVE  PidsSeen'
<1> USE DEF disk, kernel, temps
<1>1. ASSUME NEW c \in Containers, DestroyFind(s, c)
      PROVE  PidsSeen'
  <2> DEFINE j == [JobOn(c, meta[c]) EXCEPT !.todo = meta[c].acquired]
  <2>1. meta[c] \in Container
    BY DEF TypeOK, DiskOK
  <2>2. j.snap = meta[c] /\ j.pid = meta[c].pid
    BY <2>1, JobOnFields DEF Job
  <2>3. Hold(s, j) /\ UNCHANGED meta
    BY <1>1 DEF DestroyFind
  <2> QED
    BY <2>2, <2>3, SeenStep DEF PidsSeen
<1>2. ASSUME NEW l \in Layers, Release(s, l)
      PROVE  PidsSeen'
  <2>1. [job[s] EXCEPT !.todo = @ \ {l}].snap = job[s].snap /\ [job[s] EXCEPT !.todo = @ \ {l}].pid = job[s].pid
    BY BusyJob DEF Job
  <2> QED
    BY <1>2, <2>1, SeenStep, SeenJob DEF Release
<1>3. CASE LayersReleased(s)
  BY <1>3, SeenSame DEF LayersReleased
<1>4. CASE RemoveAccepts(s)
  BY <1>4, SeenSame DEF RemoveAccepts
<1>5. CASE RemoveRefuses(s)
  BY <1>5, SeenEnd DEF RemoveRefuses
<1>6. CASE RemoveFiles(s)
  <2>1. \A c \in Containers : meta'[c] = meta[c] \/ meta'[c] = NoFile
    BY <1>6 DEF RemoveFiles, TypeOK, DiskOK
  <2>2. NoFile.pid \in Seen
    BY DEF NoFile, Seen
  <2> QED
    BY <1>6, <2>1, <2>2, SeenGrows DEF RemoveFiles, PidsSeen
<1>7. CASE RemoveDir(s)
  BY <1>7, SeenEnd DEF RemoveDir
<1> QED
  BY <1>1, <1>2, <1>3, <1>4, <1>5, <1>6, <1>7 DEF Destroy

LEMMA EnvironmentSeen ==
  ASSUME TypeOK, PidsSeen, NeverAgain,
         \/ \E p \in Pids : EngineExits(p)
         \/ \E s \in Sessions : Saving(s) \/ Crash(s) \/ HelperLost(s) \/ SaveFails(s)
         \/ Reboot
  PROVE  PidsSeen'
<1> USE DEF disk, kernel, temps
<1>1. ASSUME NEW p \in Pids, EngineExits(p)
      PROVE  PidsSeen'
  BY <1>1, SeenSame DEF EngineExits
<1>2. ASSUME NEW s \in Sessions, Saving(s) \/ Crash(s) \/ HelperLost(s) \/ SaveFails(s)
      PROVE  PidsSeen'
  <2>1. UNCHANGED meta /\ (End(s) \/ UNCHANGED job)
    BY <1>2 DEF Crash, HelperLost, Saving, SaveDir, SaveFile, SaveLost, SaveFails, SaveError
  <2> QED
    BY <2>1, SeenEnd, SeenSame
<1>3. CASE Reboot
  <2>1. \A s \in Sessions : job'[s].pid \in Seen' /\ job'[s].snap.pid \in Seen'
    BY <1>3 DEF Reboot, NoJob, NoFile, Seen
  <2> QED
    BY <1>3, <2>1, SeenGrows DEF Reboot, PidsSeen
<1> QED
  BY <1>1, <1>2, <1>3

\* A session that was past the grace period, with the pid it had then, still
\* is; the step must see to those that have just got there.
LEMMA GraceKept ==
  ASSUME ConstantsAssumption, TypeOK, PidsSeen, GraceIsOver, NeverAgain,
         \A s \in Sessions : pc'[s] \in {"kill_wait", "stop_save"} =>
           \/ pc[s] \in {"kill_wait", "stop_save"} /\ job'[s].pid = job[s].pid
           \/ engine'[job'[s].pid].run # "up"
  PROVE  GraceIsOver'
<1> SUFFICES ASSUME NEW s \in Sessions, pc'[s] \in {"kill_wait", "stop_save"}
             PROVE  engine'[job'[s].pid].run # "up"
  BY DEF GraceIsOver
<1> USE DEF PidsSeen, Seen
<1>1. CASE pc[s] \in {"kill_wait", "stop_save"} /\ job'[s].pid = job[s].pid
  <2>1. job[s].pid \in Pids /\ engine[job[s].pid].run # "unused"
    BY <1>1, BusyJob DEF PidPCs, StopPCs, ConstantsAssumption
  <2>2. engine[job[s].pid].run # "up"
    BY <1>1 DEF GraceIsOver
  <2> QED
    BY <1>1, <2>1, <2>2 DEF NeverAgain
<1> QED
  BY <1>1

\* A session that goes to a point before or outside the end of a stop.
LEMMA GraceOther ==
  ASSUME ConstantsAssumption, TypeOK, PidsSeen, GraceIsOver, NeverAgain,
         NEW s \in Sessions, NEW label, label \notin {"kill_wait", "stop_save"},
         Goto(s, label),
         \A t \in Sessions \ {s} : job'[t] = job[t]
  PROVE  GraceIsOver'
<1>1. \A t \in Sessions : pc'[t] = IF t = s THEN label ELSE pc[t]
  BY DEF Goto, TypeOK, SessionsOK
<1> QED
  BY <1>1, GraceKept

\* The two ways a session disposes of its job leave the others' alone.
LEMMA OtherJobs ==
  ASSUME TypeOK, NEW s \in Sessions, NEW j, Hold(s, j) \/ UNCHANGED job
  PROVE  \A t \in Sessions \ {s} : job'[t] = job[t]
  BY DEF Hold, TypeOK, SessionsOK

LEMMA GraceEnd ==
  ASSUME ConstantsAssumption, TypeOK, PidsSeen, GraceIsOver, NeverAgain,
         NEW s \in Sessions, End(s)
  PROVE  GraceIsOver'
  BY GraceOther, OtherJobs DEF End

LEMMA GraceStep ==
  ASSUME ConstantsAssumption, TypeOK, PidsSeen, GraceIsOver, NeverAgain, [Next]_vars
  PROVE  GraceIsOver'
<1> USE GraceOther, OtherJobs DEF disk, kernel, temps
<1>1. ASSUME NEW s \in Sessions, Begin(s)
      PROVE  GraceIsOver'
  BY <1>1 DEF Begin, CreateFind, StartFind, StopFind, DestroyFind
<1>2. ASSUME NEW s \in Sessions, Create(s)
      PROVE  GraceIsOver'
  BY <1>2, GraceEnd DEF Create, CreateDir, CreateSave, CreateVolume
<1>3. ASSUME NEW s \in Sessions, Destroy(s)
      PROVE  GraceIsOver'
  <2>1. ASSUME NEW l \in Layers, Release(s, l)
        PROVE  GraceIsOver'
    <3>1. Goto(s, "release")
      BY <2>1 DEF Release, Goto, TypeOK, SessionsOK
    <3> QED
      BY <2>1, <3>1 DEF Release
  <2> QED
    BY <1>3, <2>1, GraceEnd DEF Destroy, LayersReleased, RemoveAccepts, RemoveRefuses,
       RemoveFiles, RemoveDir
<1>4. ASSUME NEW s \in Sessions, Start(s)
      PROVE  GraceIsOver'
  <2>1. ASSUME NEW l \in Layers, EnsureLayer(s, l)
        PROVE  GraceIsOver'
    <3>1. Goto(s, "layers")
      BY <2>1 DEF EnsureLayer, Goto, TypeOK, SessionsOK
    <3> QED
      BY <2>1, <3>1 DEF EnsureLayer
  <2>2. CASE \/ StartFails(s) \/ AbortSave(s) \/ StartReturns(s) \/ DropReaped(s)
             \/ WaitFails(s) \/ \E p \in Pids : StartFailsReaping(s, p)
    BY <2>2, GraceEnd DEF StartFails, AbortSave, StartReturns, DropReaped, WaitFails, StartFailsReaping
  <2>3. CASE SaveStarting(s) \/ SaveAcquired(s) \/ \E p \in Pids : Spawn(s, p)
    BY <2>3 DEF SaveStarting, SaveAcquired, Spawn
  <2>4. CASE LayersEnsured(s)
    <3>1. CASE Goto(s, "prepare")
      BY <2>4, <3>1 DEF LayersEnsured
    <3>2. CASE Goto(s, "save_acquired")
      BY <2>4, <3>2 DEF LayersEnsured
    <3> QED
      BY <2>4, <3>1, <3>2 DEF LayersEnsured
  <2>5. CASE WireUp(s) \/ WireUpFails(s) \/ EngineGoneBeforeWiring(s) \/ AbortReaped(s)
    BY <2>5 DEF WireUp, WireUpFails, EngineGoneBeforeWiring, AbortReaped
  <2>6. CASE AbortCleanup(s) \/ SaveRunning(s) \/ WaitReturns(s) \/ SaveStopped(s)
    BY <2>6 DEF AbortCleanup, SaveRunning, WaitReturns, SaveStopped
  <2> QED
    BY <1>4, <2>1, <2>2, <2>3, <2>4, <2>5, <2>6 DEF Start
<1>5. ASSUME NEW s \in Sessions, Stop(s)
      PROVE  GraceIsOver'
  <2>1. CASE SaveStopping(s)
    BY <2>1 DEF SaveStopping
  <2>2. CASE ExitSeen(s) \/ GraceEnds(s) \/ KillGraceEnds(s)
    <3>1. \A t \in Sessions \ {s} : pc'[t] = pc[t] /\ job'[t] = job[t]
      BY <2>2 DEF ExitSeen, GraceEnds, KillGraceEnds, Goto, Hold, TypeOK, SessionsOK
    <3>2. job'[s].pid = job[s].pid
      BY <2>2, BusyJob DEF ExitSeen, GraceEnds, KillGraceEnds, Hold, TypeOK, SessionsOK, Job
    <3>3. CASE ExitSeen(s) \/ GraceEnds(s)
      <4>1. job[s].pid \in Pids
        BY <3>3, BusyJob DEF ExitSeen, GraceEnds, PidPCs, StopPCs
      <4>2. engine'[job[s].pid].run # "up"
        BY <3>3, <4>1 DEF ExitSeen, GraceEnds, Alive, Kill, TypeOK, KernelOK, Engine
      <4> QED
        BY <3>1, <3>2, <4>2, GraceKept
    <3>4. CASE KillGraceEnds(s)
      BY <3>1, <3>2, <3>4, GraceKept DEF KillGraceEnds
    <3> QED
      BY <2>2, <3>3, <3>4
  <2>3. CASE StopSave(s)
    BY <2>3, GraceEnd DEF StopSave
  <2> QED
    BY <1>5, <2>1, <2>2, <2>3 DEF Stop
<1>6. ASSUME NEW s \in Sessions, SaveLost(s) \/ Crash(s) \/ HelperLost(s) \/ SaveFails(s)
      PROVE  GraceIsOver'
  BY <1>6, GraceEnd DEF Crash, HelperLost, SaveLost, SaveFails, SaveError
<1>7. CASE UNCHANGED <<pc, job>>
  BY <1>7, GraceKept
<1>8. CASE Reboot
  BY <1>8, GraceKept DEF Reboot
<1> QED
  BY <1>1, <1>2, <1>3, <1>4, <1>5, <1>6, <1>7, <1>8
     DEF Next, Proceed, Saving, SaveDir, SaveFile, EngineExits, vars

\* stop never reports success on an engine it has neither seen exit nor sent
\* SIGKILL, whatever the other sessions do to the container meanwhile.
THEOREM StopKills == Spec => StopLeavesNothingAlive
<1> DEFINE Inv == PidsSeen /\ GraceIsOver
<1>1. Init => Inv
  BY DEF Init, PidsSeen, Seen, GraceIsOver, NoFile, NoJob
<1>2. TypeOK /\ Inv /\ [Next]_vars => Inv'
  <2> SUFFICES ASSUME TypeOK, Inv, [Next]_vars
               PROVE  Inv'
    OBVIOUS
  <2>1. NeverAgain
    BY StepNeverAgain
  <2>2. ASSUME NEW s \in Sessions, Begin(s) \/ Proceed(s)
        PROVE  PidsSeen'
    BY <2>1, <2>2, CreateSeen, StartSeen, StopSeen, DestroySeen, EnvironmentSeen DEF Begin, Proceed
  <2>3. ASSUME UNCHANGED vars
        PROVE  PidsSeen'
    BY <2>1, <2>3, SeenSame DEF vars
  <2>4. PidsSeen'
    BY <2>1, <2>2, <2>3, EnvironmentSeen DEF Next
  <2>5. GraceIsOver'
    BY <2>1, ConstantsAssumption, GraceStep
  <2> QED
    BY <2>4, <2>5
<1>3. TypeOK /\ Inv /\ [Next]_vars =>
        [\A s \in Sessions :
           pc[s] = "stop_save" /\ pc'[s] = "idle" => engine[job[s].pid].run # "up"]_vars
  BY DEF GraceIsOver
<1> QED
  BY <1>1, <1>2, <1>3, TypeCorrect, PTL DEF Spec, StopLeavesNothingAlive

-----------------------------------------------------------------------------
(***************************************************************************)
(* How sessions, jobs and engines change.                                  *)
(***************************************************************************)
Busy(s) == pc[s] # "idle"

\* The other sessions stay where they are.
OthersStay(s) == \A t \in Sessions \ {s} : pc'[t] = pc[t] /\ job'[t] = job[t]

\* Engines exit, are killed, or stay up.
Fade == \A p \in Pids : engine'[p].c = engine[p].c /\ (engine'[p].run = "up" => engine[p].run = "up")
                        /\ (engine'[p].run = "unused" => engine[p].run = "unused")

LEMMA Held ==
  ASSUME TypeOK, NEW s \in Sessions, NEW j, Hold(s, j)
  PROVE  job'[s] = j /\ \A t \in Sessions \ {s} : job'[t] = job[t]
  BY DEF Hold, TypeOK, SessionsOK

LEMMA Gone ==
  ASSUME TypeOK, NEW s \in Sessions, NEW label, Goto(s, label)
  PROVE  pc'[s] = label /\ \A t \in Sessions \ {s} : pc'[t] = pc[t]
  BY DEF Goto, TypeOK, SessionsOK

\* Engines fade when one is killed, when a cgroup is removed, when one exits.
LEMMA KillFades ==
  ASSUME TypeOK, NEW p \in Pids, Kill(p)
  PROVE  Fade /\ engine'[p].run # "up"
  BY DEF Fade, Kill, TypeOK, KernelOK, Engine

LEMMA UnwireFades ==
  ASSUME TypeOK, NEW c \in Containers, Unwire(c) \/ UNCHANGED kernel
  PROVE  Fade /\ \A d \in Containers \ {c} : wired'[d] = wired[d]
BY DEF Fade, Unwire, kernel, TypeOK, KernelOK, Engine

LEMMA CleanupFades ==
  ASSUME TypeOK, NEW s \in Sessions, NEW c \in Containers, job[s].c = c, Cleanup(s)
  PROVE  Fade /\ \A d \in Containers \ {c} : wired'[d] = wired[d]
  BY DEF Fade, Cleanup, Unwire, kernel, TypeOK, KernelOK, Engine

LEMMA SameFades == UNCHANGED engine => Fade
  BY DEF Fade

-----------------------------------------------------------------------------
(***************************************************************************)
(* No start forgets its engine.                                            *)
(***************************************************************************)
Awaiting == {"wire", "save_running", "wait"}

LEMMA WaiterKept ==
  ASSUME EngineHasWaiter, UNCHANGED faults, NEW s \in Sessions, OthersStay(s), Fade,
         pc[s] \in Awaiting /\ engine'[job[s].pid].run = "up" =>
           pc'[s] \in Awaiting /\ job'[s].pid = job[s].pid
  PROVE  EngineHasWaiter'
<1> SUFFICES ASSUME faults = 0, NEW p \in Pids, engine'[p].run = "up"
             PROVE  \E t \in Sessions : job'[t].pid = p /\ pc'[t] \in Awaiting
  BY DEF EngineHasWaiter, Awaiting
<1>1. PICK t \in Sessions : job[t].pid = p /\ pc[t] \in Awaiting
  BY DEF EngineHasWaiter, Fade, Awaiting
<1> QED
  BY <1>1 DEF OthersStay

LEMMA WaiterStart ==
  ASSUME TypeOK, EngineHasWaiter, NEW s \in Sessions, Start(s)
  PROVE  EngineHasWaiter'
<1> USE DEF disk, kernel, temps
<1> DEFINE own == job[s].pid
           snap == job[s].snap
<1>1. job[s] \in Job /\ snap \in Container
  BY BusyJob
<1>2. ASSUME OthersStay(s), UNCHANGED <<engine, faults>>, pc[s] \notin Awaiting \/ engine[own].run # "up"
      PROVE  EngineHasWaiter'
  BY <1>2, WaiterKept, SameFades
<1>3. ASSUME NEW l \in Layers, EnsureLayer(s, l) PROVE EngineHasWaiter'
  BY <1>2, <1>3, Held DEF EnsureLayer, OthersStay, Awaiting
<1>4. ASSUME NEW p \in Pids, Spawn(s, p) PROVE EngineHasWaiter'
  <2>1. OthersStay(s) /\ pc'[s] = "wire" /\ job'[s] = [job[s] EXCEPT !.pid = p]
    BY <1>4, Gone, Held DEF Spawn, OthersStay
  <2>2. job'[s].pid = p
    BY <1>1, <2>1 DEF Job
  <2>3. pc[s] = "prepare" /\ UNCHANGED faults /\ \A q \in Pids \ {p} : engine'[q] = engine[q]
    BY <1>4 DEF Spawn, TypeOK, KernelOK
  <2> SUFFICES ASSUME faults = 0, NEW q \in Pids, engine'[q].run = "up"
               PROVE  \E t \in Sessions : job'[t].pid = q /\ pc'[t] \in Awaiting
    BY <2>3 DEF EngineHasWaiter, Awaiting
  <2>4. CASE q = p
    BY <2>1, <2>2, <2>4 DEF Awaiting
  <2>5. CASE q # p
    <3>1. PICK t \in Sessions : job[t].pid = q /\ pc[t] \in Awaiting
      BY <2>3, <2>5 DEF EngineHasWaiter, Awaiting
    <3> QED
      BY <2>1, <2>3, <3>1 DEF OthersStay, Awaiting
  <2> QED
    BY <2>4, <2>5
<1>5. CASE SaveStarting(s) \/ LayersEnsured(s) \/ SaveAcquired(s) \/ SaveStopped(s)
  BY <1>2, <1>5, Gone, Held DEF SaveStarting, LayersEnsured, SaveAcquired, SaveStopped, OthersStay, Awaiting
<1>6. CASE StartFails(s) \/ AbortSave(s) \/ DropReaped(s) \/ AbortReaped(s)
  BY <1>2, <1>6, Gone, Held DEF StartFails, AbortSave, DropReaped, AbortReaped, End, OthersStay, Awaiting
<1>7. CASE WaitReturns(s) \/ WaitFails(s)
  BY <1>2, <1>7, Gone, Held DEF WaitReturns, WaitFails, End, OthersStay
<1>11. CASE EngineGoneBeforeWiring(s)
  <2>1. OthersStay(s) /\ UNCHANGED faults /\ Fade
    BY <1>11, Gone DEF EngineGoneBeforeWiring, Unwire, OthersStay, Fade, TypeOK, KernelOK, Engine
  <2>2. own \in Pids /\ engine[own].run # "up"
    BY <1>11, BusyJob DEF EngineGoneBeforeWiring, PidPCs, Alive
  <2> QED
    BY <2>1, <2>2, WaiterKept DEF Fade
<1>12. ASSUME NEW p \in Pids, StartFailsReaping(s, p) PROVE EngineHasWaiter'
  <2>1. OthersStay(s) /\ UNCHANGED faults /\ pc[s] \notin Awaiting
    BY <1>12, Gone, Held DEF StartFailsReaping, End, OthersStay, Awaiting
  <2>2. Fade
    BY <1>12 DEF StartFailsReaping, Fade, TypeOK, KernelOK, Engine
  <2> QED
    BY <2>1, <2>2, WaiterKept
<1>8. CASE WireUp(s) \/ SaveRunning(s)
  <2>1. OthersStay(s) /\ pc'[s] \in Awaiting /\ UNCHANGED <<engine, faults>>
    BY <1>8, Gone, Held DEF WireUp, SaveRunning, OthersStay, Awaiting
  <2>2. job'[s].pid = own
    <3>1. CASE WireUp(s)
      <4>1. job'[s] = [job[s] EXCEPT !.net = TRUE]
        BY <3>1, Held DEF WireUp
      <4> QED
        BY <1>1, <4>1 DEF Job
    <3>2. CASE SaveRunning(s)
      <4>1. job'[s] = [job[s] EXCEPT !.snap = RunningAs(snap, own)]
        BY <3>2, Held DEF SaveRunning
      <4> QED
        BY <1>1, <4>1 DEF Job
    <3> QED
      BY <1>8, <3>1, <3>2
  <2> QED
    BY <2>1, <2>2, WaiterKept, SameFades
<1>9. CASE WireUpFails(s)
  <2>1. OthersStay(s) /\ UNCHANGED faults
    BY <1>9, Gone, Held DEF WireUpFails, OthersStay
  <2>2. own \in Pids /\ Kill(own)
    BY <1>9, BusyJob DEF WireUpFails, PidPCs
  <2> QED
    BY <2>1, <2>2, KillFades, WaiterKept
<1>10. CASE AbortCleanup(s) \/ StartReturns(s)
  <2>1. OthersStay(s) /\ UNCHANGED faults /\ pc[s] \notin Awaiting /\ Cleanup(s)
    BY <1>10, Gone, Held DEF AbortCleanup, StartReturns, End, OthersStay, Awaiting
  <2>2. Fade
    BY <2>1 DEF Cleanup, Unwire, Fade, TypeOK, KernelOK, Engine
  <2> QED
    BY <2>1, <2>2, WaiterKept
<1> QED
  BY <1>3, <1>4, <1>5, <1>6, <1>7, <1>8, <1>9, <1>10, <1>11, <1>12 DEF Start

LEMMA WaiterStep ==
  ASSUME TypeOK, EngineHasWaiter, [Next]_vars
  PROVE  EngineHasWaiter'
<1> USE DEF disk, kernel, temps
<1>1. ASSUME NEW s \in Sessions, OthersStay(s), pc[s] \notin Awaiting, UNCHANGED <<engine, faults>>
      PROVE  EngineHasWaiter'
  BY <1>1, WaiterKept, SameFades
<1>2. ASSUME NEW s \in Sessions, Begin(s) PROVE EngineHasWaiter'
  BY <1>1, <1>2, Gone, Held DEF Begin, CreateFind, StartFind, StopFind, DestroyFind, MayBegin, OthersStay, Awaiting
<1>3. ASSUME NEW s \in Sessions, Create(s) PROVE EngineHasWaiter'
  BY <1>1, <1>3, Gone, Held DEF Create, CreateDir, CreateSave, CreateVolume, End, OthersStay, Awaiting
<1>4. ASSUME NEW s \in Sessions, Stop(s) PROVE EngineHasWaiter'
  <2>1. CASE GraceEnds(s)
    <3>1. job[s].pid \in Pids /\ pc[s] \notin Awaiting /\ OthersStay(s) /\ Kill(job[s].pid) /\ UNCHANGED faults
      BY <2>1, BusyJob, Gone DEF GraceEnds, PidPCs, StopPCs, Awaiting, OthersStay
    <3> QED
      BY <3>1, KillFades, WaiterKept
  <2> QED
    BY <1>1, <1>4, <2>1, Gone, Held DEF Stop, SaveStopping, ExitSeen, KillGraceEnds, StopSave, End, OthersStay, Awaiting
<1>5. ASSUME NEW s \in Sessions, Destroy(s) PROVE EngineHasWaiter'
  BY <1>1, <1>5, Gone, Held DEF Destroy, Release, LayersReleased, RemoveAccepts, RemoveRefuses, RemoveFiles, RemoveDir,
     End, OthersStay, Awaiting
<1>6. ASSUME NEW p \in Pids, EngineExits(p) PROVE EngineHasWaiter'
  BY <1>6 DEF EngineExits, EngineHasWaiter, TypeOK, KernelOK, Engine
<1>7. CASE Fault
  BY <1>7 DEF Fault, EngineHasWaiter, TypeOK
<1>8. CASE UNCHANGED <<engine, pc, job, faults>>
  BY <1>8 DEF EngineHasWaiter
<1>9. ASSUME NEW s \in Sessions, SaveLost(s) PROVE EngineHasWaiter'
  <2>1. CASE pc[s] = "save_running"
    <3>1. OthersStay(s) /\ UNCHANGED faults /\ job[s].pid \in Pids /\ Kill(job[s].pid)
      BY <1>9, <2>1, BusyJob, Gone DEF SaveLost, SaveError, PidPCs, OthersStay
    <3> QED
      BY <3>1, KillFades, WaiterKept
  <2>2. CASE pc[s] # "save_running"
    BY <1>1, <1>9, <2>2, Gone, Held DEF SaveLost, SaveError, SavePCs, End, OthersStay, Awaiting
  <2> QED
    BY <2>1, <2>2
<1> QED
  BY <1>2, <1>3, <1>4, <1>5, <1>6, <1>7, <1>8, <1>9, WaiterStart DEF vars, Saving, SaveDir, SaveFile, Next, Proceed, Crash, HelperLost, SaveFails, Reboot

\* However the commands interleave, a live engine has a session that will
\* record its exit, unless something was killed: no error path of start
\* returns without having killed the engine it spawned.
THEOREM EnginesAreAwaited == Spec => []EngineHasWaiter
<1>1. Init => EngineHasWaiter
  BY DEF Init, EngineHasWaiter
<1> QED
  BY <1>1, WaiterStep, TypeCorrect, PTL DEF Spec

-----------------------------------------------------------------------------
(***************************************************************************)
(* No directory is left without metadata.                                  *)
(***************************************************************************)
\* A session that may save has a record to save.
RecordsToSave ==
  \A s \in Sessions : pc[s] \in CreatePCs \cup StartPCs \cup StopPCs => job[s].snap.state # "NoFile"

\* A session has a temporary file, or is about to write one, only while it saves.
Savers == \A s \in Sessions : tmp[s] # "none" => pc[s] \in SavePCs

\* Every temporary file has its session, unless something was killed.
NoStrays == faults = 0 => stray = {}

BareInv == RecordsToSave /\ Savers /\ NoStrays /\ BareDirIsTransient

\* A step that makes a directory without metadata, or is at work on one, goes on
\* with it or leaves it with a record, gone, or to another session's work.  It
\* may take the temporary files of others if it then is at work on the directory.
LEMMA BareKept ==
  ASSUME TypeOK, BareInv, UNCHANGED faults, NEW s \in Sessions, OthersStay(s),
         stray' \subseteq stray,
         tmp'[s] # "none" => pc'[s] \in SavePCs,
         \A t \in Sessions \ {s} :
           tmp'[t] = tmp[t] \/ (tmp[t] = "file" /\ AtWorkOn(s, job[t].c)'),
         pc'[s] \in CreatePCs \cup StartPCs \cup StopPCs => job'[s].snap.state # "NoFile",
         \A c \in dirs' : meta'[c].state = "NoFile" =>
            \/ AtWorkOn(s, c)'
            \/ c \in dirs /\ meta[c].state = "NoFile" /\ ~AtWorkOn(s, c)
            \/ \E t \in Sessions \ {s} : AtWorkOn(t, c)
  PROVE  BareInv'
<1>1. RecordsToSave' /\ NoStrays' /\ Savers'
  BY DEF BareInv, RecordsToSave, NoStrays, Savers, OthersStay
<1>2. BareDirIsTransient'
  <2> SUFFICES ASSUME faults = 0, NEW c \in dirs', meta'[c].state = "NoFile"
               PROVE  \E t \in Sessions : AtWorkOn(t, c)'
    BY DEF BareDirIsTransient, BareDirsAtWork, AtWorkOn
  <2>1. CASE AtWorkOn(s, c)'
    BY <2>1
  <2>2. ASSUME NEW t \in Sessions \ {s}, AtWorkOn(t, c)
        PROVE  \E u \in Sessions : AtWorkOn(u, c)'
    <3>1. job[t].c = c
      BY <2>2 DEF AtWorkOn
    <3>2. CASE tmp'[t] = tmp[t]
      BY <2>2, <3>2 DEF OthersStay, AtWorkOn
    <3>3. CASE AtWorkOn(s, job[t].c)'
      BY <3>1, <3>3 DEF OthersStay
    <3> QED
      BY <3>2, <3>3
  <2>3. CASE c \in dirs /\ meta[c].state = "NoFile" /\ ~AtWorkOn(s, c)
    <3>1. PICK t \in Sessions : AtWorkOn(t, c)
      BY <2>3 DEF BareInv, BareDirIsTransient, BareDirsAtWork
    <3> QED
      BY <2>2, <2>3, <3>1
  <2> QED
    BY <2>1, <2>2, <2>3
<1> QED
  BY <1>1, <1>2 DEF BareInv

LEMMA BareBegin ==
  ASSUME TypeOK, BareInv, NEW s \in Sessions, Begin(s)
  PROVE  BareInv'
<1> USE DEF disk, kernel, temps
<1>1. UNCHANGED <<dirs, meta, tmp, stray, faults>> /\ pc[s] = "idle"
  BY DEF Begin, CreateFind, StartFind, StopFind, DestroyFind, MayBegin
<1>2. OthersStay(s) /\ (pc'[s] \in CreatePCs \cup StartPCs \cup StopPCs => job'[s].snap.state # "NoFile")
  <2>1. ASSUME NEW c \in Containers, NEW record \in Container, NEW state \in ContainerState \ {"NoFile"}, NEW label,
               Goto(s, label), Hold(s, JobOn(c, InState(record, state)))
        PROVE  OthersStay(s) /\ job'[s].snap.state # "NoFile"
    <3>1. InState(record, state) \in Container /\ InState(record, state).state = state
      BY ContainerFields
    <3>2. OthersStay(s) /\ job'[s] = JobOn(c, InState(record, state))
      BY <2>1, Held, Gone DEF OthersStay
    <3>3. job'[s].snap.state = state
      BY <3>1, <3>2, JobOnFields
    <3> QED
      BY <3>2, <3>3
  <2>2. \A c \in Containers : meta[c] \in Container
    BY DEF TypeOK, DiskOK
  <2>3. ASSUME NEW c \in Containers, CreateFind(s, c) \/ StartFind(s, c) \/ StopFind(s, c)
        PROVE  OthersStay(s) /\ job'[s].snap.state # "NoFile"
    BY <2>1, <2>2, <2>3, EmptyRecords DEF CreateFind, StartFind, StopFind, ContainerState
  <2>4. ASSUME NEW c \in Containers, DestroyFind(s, c)
        PROVE  OthersStay(s) /\ pc'[s] = "release"
    BY <2>4, Held, Gone DEF DestroyFind, OthersStay
  <2> QED
    BY <2>3, <2>4 DEF Begin, CreatePCs, StartPCs, StopPCs
<1>3. tmp[s] = "none"
  BY <1>1 DEF BareInv, Savers, SavePCs
<1> QED
  BY <1>1, <1>2, <1>3, BareKept DEF AtWorkOn

\* A step that leaves the directories and the records alone, and is not at work
\* on a directory without metadata.
LEMMA BareQuiet ==
  ASSUME TypeOK, BareInv, NEW s \in Sessions, pc[s] \notin SavePCs \cup {"rmdir"}, OthersStay(s),
         UNCHANGED <<dirs, meta, tmp, stray, faults>>,
         \/ pc'[s] \in DestroyPCs \cup {"idle"}
         \/ job'[s].snap.state \in {"Stopped", "Running"}
         \/ pc[s] \in CreatePCs \cup StartPCs \cup StopPCs /\ job'[s].snap.state = job[s].snap.state
  PROVE  BareInv'
<1>1. pc'[s] \in CreatePCs \cup StartPCs \cup StopPCs => job'[s].snap.state # "NoFile"
  <2>1. CASE pc'[s] \in DestroyPCs \cup {"idle"}
    BY <2>1 DEF CreatePCs, StartPCs, StopPCs, DestroyPCs
  <2> QED
    BY <2>1 DEF BareInv, RecordsToSave
<1>2. tmp[s] = "none"
  BY DEF BareInv, Savers
<1>3. \A c : ~AtWorkOn(s, c)
  BY <1>2 DEF AtWorkOn, SavePCs
<1> QED
  BY <1>1, <1>2, <1>3, BareKept

\* A step that saves a record.
LEMMA BareSave ==
  ASSUME TypeOK, BareInv, NEW s \in Sessions, pc[s] \in CreatePCs \cup StartPCs \cup StopPCs, OthersStay(s),
         NEW c \in Containers, job[s].c = c, UNCHANGED faults,
         NEW record \in Container, Save(s, record), record.state # "NoFile",
         pc'[s] = "idle" \/ job'[s].snap = job[s].snap \/ job'[s].snap = record
  PROVE  BareInv'
<1>1. pc'[s] \in CreatePCs \cup StartPCs \cup StopPCs => job'[s].snap.state # "NoFile"
  BY DEF BareInv, RecordsToSave, CreatePCs, StartPCs, StopPCs
<1>2. /\ meta'[c].state # "NoFile" /\ dirs' = dirs
      /\ \A d \in Containers \ {c} : meta'[d] = meta[d] /\ ~AtWorkOn(s, d)
  BY DEF Save, TypeOK, DiskOK, AtWorkOn
<1>3. dirs' \subseteq Containers
  BY <1>2 DEF TypeOK, DiskOK
<1>4. stray' = stray /\ tmp'[s] = "none" /\ \A t \in Sessions \ {s} : tmp'[t] = tmp[t]
  BY DEF Save, At, TypeOK, DiskOK
<1> QED
  BY <1>1, <1>2, <1>3, <1>4, BareKept

\* The other steps of a save: the directory is made and used, or it, or the
\* file in it, is lost.
LEMMA BareSaving ==
  ASSUME TypeOK, BareInv, NEW s \in Sessions, Saving(s)
  PROVE  BareInv'
<1> DEFINE c == job[s].c
<1>1. pc[s] \in SavePCs /\ c \in Containers
  <2>1. pc[s] \in SavePCs
    BY DEF Saving, SaveDir, SaveFile, SaveLost, BareInv, Savers
  <2> QED
    BY <2>1, BusyJob DEF SavePCs
<1>2. UNCHANGED <<meta, stray, faults>> /\ \A t \in Sessions \ {s} : tmp'[t] = tmp[t]
  BY DEF Saving, SaveDir, SaveFile, SaveLost, SaveError, At, TypeOK, DiskOK
<1>3. CASE SaveDir(s) \/ SaveFile(s)
  <2>1. UNCHANGED <<pc, job>> /\ tmp'[s] \in {"dir", "file"} /\ dirs' \subseteq dirs \cup {c}
    BY <1>3 DEF SaveDir, SaveFile, At, TypeOK, DiskOK
  <2>2. OthersStay(s) /\ AtWorkOn(s, c)'
    BY <2>1 DEF OthersStay, AtWorkOn
  <2>3. \A d : d # c => ~AtWorkOn(s, d)
    BY DEF AtWorkOn
  <2>4. pc[s] \in CreatePCs \cup StartPCs \cup StopPCs => job[s].snap.state # "NoFile"
    BY DEF BareInv, RecordsToSave
  <2> QED
    BY <1>1, <1>2, <2>1, <2>2, <2>3, <2>4, BareKept
<1>4. CASE SaveLost(s)
  <2>1. tmp'[s] = "none" /\ dirs' = dirs
    BY <1>4 DEF SaveLost, SaveError, At, TypeOK, DiskOK
  <2>2. OthersStay(s) /\ (pc'[s] = "idle" \/ (pc[s] = "save_running" /\ job' = job))
    BY <1>4, Gone, Held DEF SaveLost, SaveError, End, OthersStay
  <2>3. pc'[s] \in CreatePCs \cup StartPCs \cup StopPCs => job'[s].snap.state # "NoFile"
    BY <2>2 DEF BareInv, RecordsToSave, CreatePCs, StartPCs, StopPCs
  <2>4. \A d \in dirs : ~AtWorkOn(s, d)
    BY <1>4 DEF SaveLost, AtWorkOn
  <2> QED
    BY <1>2, <2>1, <2>2, <2>3, <2>4, BareKept
<1> QED
  BY <1>3, <1>4 DEF Saving

LEMMA BareCreate ==
  ASSUME TypeOK, BareInv, NEW s \in Sessions, Create(s)
  PROVE  BareInv'
<1> USE DEF disk, kernel, temps
<1>1. PICK c \in Containers : job[s].c = c /\ job[s].snap \in Container
  BY BusyJob DEF Create, CreateDir, CreateSave, CreateVolume
<1>2. job[s].snap.state # "NoFile"
  BY DEF BareInv, RecordsToSave, Create, CreateDir, CreateSave, CreateVolume, CreatePCs
<1>3. CASE CreateDir(s)
  <2>0. tmp[s] = "none" /\ UNCHANGED <<tmp, stray>>
    BY <1>3 DEF CreateDir, BareInv, Savers, SavePCs
  <2>1. pc[s] = "mkdir" /\ pc'[s] = "create_save" /\ job' = job /\ OthersStay(s)
    BY <1>3, Gone DEF CreateDir, OthersStay
  <2>2. UNCHANGED <<meta, faults>> /\ dirs' = dirs \cup {c}
    BY <1>1, <1>3 DEF CreateDir
  <2>3. \A d : AtWorkOn(s, d)' <=> d = c
    BY <1>1, <2>0, <2>1 DEF AtWorkOn
  <2>4. \A d : ~AtWorkOn(s, d)
    BY <2>0, <2>1 DEF AtWorkOn
  <2> QED
    BY <1>2, <2>0, <2>1, <2>2, <2>3, <2>4, BareKept
<1>4. CASE CreateSave(s)
  <2>1. pc[s] = "create_save" /\ job' = job /\ OthersStay(s) /\ UNCHANGED faults /\ Save(s, job[s].snap)
    BY <1>1, <1>4, Gone DEF CreateSave, OthersStay
  <2> QED
    BY <1>1, <1>2, <2>1, BareSave DEF CreatePCs
<1>5. CASE CreateVolume(s)
  <2>1. pc[s] = "create_volume" /\ OthersStay(s) /\ UNCHANGED <<dirs, meta, tmp, stray, faults>> /\ pc'[s] \in {"remove", "idle"}
    BY <1>5, Gone, Held DEF CreateVolume, End, OthersStay
  <2> QED
    BY <2>1, BareQuiet DEF DestroyPCs, SavePCs
<1> QED
  BY <1>3, <1>4, <1>5 DEF Create

LEMMA BareStart ==
  ASSUME TypeOK, BareInv, NEW s \in Sessions, Start(s)
  PROVE  BareInv'
<1> USE DEF disk, kernel, temps
<1> DEFINE snap == job[s].snap
<1>1. PICK c \in Containers : job[s].c = c /\ job[s] \in Job /\ snap \in Container
  BY BusyJob DEF Start, SaveStarting, EnsureLayer, LayersEnsured, SaveAcquired, StartFails, Spawn, WireUp,
     WireUpFails, EngineGoneBeforeWiring, AbortReaped, AbortCleanup, AbortSave, SaveRunning, WaitReturns,
     WaitFails, StartFailsReaping, SaveStopped, StartReturns, DropReaped
<1>2. pc[s] \in StartPCs /\ UNCHANGED faults
  BY DEF Start, SaveStarting, EnsureLayer, LayersEnsured, SaveAcquired, StartFails, Spawn, WireUp,
     WireUpFails, EngineGoneBeforeWiring, AbortReaped, AbortCleanup, AbortSave, SaveRunning, WaitReturns,
     WaitFails, StartFailsReaping, SaveStopped, StartReturns, DropReaped, StartPCs
<1>3. snap.state # "NoFile"
  BY <1>2 DEF BareInv, RecordsToSave
<1>4. ASSUME OthersStay(s), UNCHANGED <<dirs, meta, tmp, stray>>, pc[s] \notin SavePCs,
             pc'[s] = "idle" \/ job'[s].snap.state \in {snap.state, "Stopped"}
      PROVE  BareInv'
  BY <1>2, <1>4, BareQuiet DEF StartPCs
<1>5. ASSUME OthersStay(s), NEW record \in Container, Save(s, record), record.state # "NoFile",
             pc'[s] = "idle" \/ job'[s].snap = snap \/ job'[s].snap = record
      PROVE  BareInv'
  BY <1>1, <1>2, <1>5, BareSave
<1>6. ASSUME NEW l \in Layers, EnsureLayer(s, l) PROVE BareInv'
  <2>1. OthersStay(s) /\ job'[s] = [job[s] EXCEPT !.todo = @ \ {l}, !.fresh = @ \cup {l}]
    BY <1>6, Held DEF EnsureLayer, OthersStay
  <2>2. job'[s].snap = snap
    BY <1>1, <2>1 DEF Job
  <2> QED
    BY <1>4, <1>6, <2>1, <2>2 DEF EnsureLayer, SavePCs
<1>7. CASE LayersEnsured(s)
  <2>1. OthersStay(s) /\ job'[s] = [job[s] EXCEPT !.snap = Acquired(@, job[s].fresh), !.fresh = {}]
    BY <1>7, Held, Gone DEF LayersEnsured, OthersStay
  <2>2. job'[s].snap = Acquired(snap, job[s].fresh)
    BY <1>1, <2>1 DEF Job
  <2>3. Acquired(snap, job[s].fresh).state = snap.state
    BY <1>1, BusyJob, ContainerFields
  <2> QED
    BY <1>4, <1>7, <2>1, <2>2, <2>3 DEF LayersEnsured, SavePCs
<1>8. CASE \/ StartFails(s) \/ DropReaped(s) \/ StartReturns(s) \/ WaitFails(s)
           \/ \E p \in Pids : StartFailsReaping(s, p)
  BY <1>4, <1>8, Gone, Held DEF StartFails, DropReaped, StartReturns, WaitFails, StartFailsReaping,
     End, OthersStay, SavePCs
<1>9. CASE \E p \in Pids : Spawn(s, p)
  <2>1. PICK p \in Pids : job'[s] = [job[s] EXCEPT !.pid = p]
    BY <1>9, Held DEF Spawn
  <2>2. OthersStay(s) /\ job'[s].snap = snap
    BY <1>1, <1>9, <2>1, Gone, Held DEF Spawn, OthersStay, Job
  <2> QED
    BY <1>4, <1>9, <2>2 DEF Spawn, SavePCs
<1>10. CASE WireUp(s) \/ WireUpFails(s)
  <2>1. OthersStay(s) /\ job'[s] \in {job[s], [job[s] EXCEPT !.net = TRUE]}
    BY <1>10, Gone, Held DEF WireUp, WireUpFails, OthersStay
  <2>2. job'[s].snap = snap
    BY <1>1, <2>1 DEF Job
  <2> QED
    BY <1>4, <1>10, <2>1, <2>2 DEF WireUp, WireUpFails, SavePCs
<1>11. CASE EngineGoneBeforeWiring(s) \/ AbortReaped(s)
  BY <1>4, <1>11, Gone DEF EngineGoneBeforeWiring, AbortReaped, OthersStay, SavePCs
<1>12. CASE AbortCleanup(s) \/ WaitReturns(s)
  <2>1. OthersStay(s) /\ \E net \in BOOLEAN : job'[s] = [job[s] EXCEPT !.snap = Halted(@), !.net = net]
    <3>1. job[s] = [job[s] EXCEPT !.net = @] /\ job[s].net \in BOOLEAN
      BY <1>1 DEF Job
    <3>2. [job[s] EXCEPT !.snap = Halted(@)] = [job[s] EXCEPT !.snap = Halted(@), !.net = job[s].net]
      BY <1>1 DEF Job
    <3> QED
      BY <1>12, <3>1, <3>2, Gone, Held DEF AbortCleanup, WaitReturns, OthersStay
  <2>2. job'[s].snap = Halted(snap)
    BY <1>1, <2>1 DEF Job
  <2>3. Halted(snap).state = "Stopped"
    BY <1>1, ContainerFields
  <2> QED
    BY <1>4, <1>12, <2>1, <2>2, <2>3 DEF AbortCleanup, WaitReturns, SavePCs
<1>13. CASE SaveStarting(s)
  <2>1. OthersStay(s) /\ job'[s] = [job[s] EXCEPT !.todo = LayersOf[job[s].c] \ job[s].snap.acquired]
    BY <1>13, Gone, Held DEF SaveStarting, OthersStay
  <2>2. job'[s].snap = snap /\ Save(s, snap)
    BY <1>1, <1>13, <2>1 DEF Job, SaveStarting
  <2> QED
    BY <1>1, <1>3, <1>5, <2>1, <2>2
<1>14. CASE SaveAcquired(s) \/ SaveStopped(s)
  BY <1>1, <1>3, <1>5, <1>14, Gone DEF SaveAcquired, SaveStopped, OthersStay
<1>15. CASE AbortSave(s)
  BY <1>1, <1>3, <1>5, <1>15, Gone, Held DEF AbortSave, End, OthersStay
<1>16. CASE SaveRunning(s)
  <2> DEFINE running == RunningAs(snap, job[s].pid)
  <2>1. OthersStay(s) /\ job'[s] = [job[s] EXCEPT !.snap = running]
    BY <1>16, Gone, Held DEF SaveRunning, OthersStay
  <2>2. job'[s].snap = running /\ Save(s, running)
    BY <1>1, <1>16, <2>1 DEF Job, SaveRunning
  <2>3. running \in Container /\ running.state = "Running"
    BY <1>1, <1>16, BusyJob, ContainerFields DEF SaveRunning, PidPCs
  <2> QED
    BY <1>5, <2>1, <2>2, <2>3
<1> QED
  BY <1>6, <1>7, <1>8, <1>9, <1>10, <1>11, <1>12, <1>13, <1>14, <1>15, <1>16 DEF Start

LEMMA BareStop ==
  ASSUME TypeOK, BareInv, NEW s \in Sessions, Stop(s)
  PROVE  BareInv'
<1> USE DEF disk, kernel, temps
<1> DEFINE snap == job[s].snap
<1>1. PICK c \in Containers : job[s].c = c /\ job[s] \in Job /\ snap \in Container
  BY BusyJob DEF Stop, SaveStopping, ExitSeen, GraceEnds, KillGraceEnds, StopSave
<1>2. pc[s] \in StopPCs /\ UNCHANGED faults
  BY DEF Stop, SaveStopping, ExitSeen, GraceEnds, KillGraceEnds, StopSave, StopPCs
<1>3. snap.state # "NoFile"
  BY <1>2 DEF BareInv, RecordsToSave
<1>4. CASE SaveStopping(s) \/ StopSave(s)
  <2>1. OthersStay(s) /\ Save(s, snap) /\ (pc'[s] = "idle" \/ job'[s].snap = snap)
    BY <1>1, <1>4, Gone, Held DEF SaveStopping, StopSave, End, OthersStay
  <2> QED
    BY <1>1, <1>2, <1>3, <2>1, BareSave
<1>5. CASE ExitSeen(s) \/ KillGraceEnds(s)
  <2>1. OthersStay(s) /\ job'[s] = [job[s] EXCEPT !.snap = Halted(@)]
    BY <1>5, Gone, Held DEF ExitSeen, KillGraceEnds, OthersStay
  <2>2. job'[s].snap.state = "Stopped"
    BY <1>1, <2>1, ContainerFields DEF Job
  <2> QED
    BY <1>2, <1>5, <2>1, <2>2, BareQuiet DEF ExitSeen, KillGraceEnds, StopPCs, SavePCs
<1>6. CASE GraceEnds(s)
  BY <1>2, <1>6, Gone, BareQuiet DEF GraceEnds, OthersStay, StopPCs, SavePCs
<1> QED
  BY <1>4, <1>5, <1>6 DEF Stop

LEMMA BareDestroy ==
  ASSUME TypeOK, BareInv, NEW s \in Sessions, Destroy(s)
  PROVE  BareInv'
<1> USE DEF disk, kernel, temps
<1>1. PICK c \in Containers : job[s].c = c /\ job[s] \in Job
  BY BusyJob DEF Destroy, Release, LayersReleased, RemoveAccepts, RemoveRefuses, RemoveFiles, RemoveDir
<1>2. CASE (\E l \in Layers : Release(s, l)) \/ LayersReleased(s) \/ RemoveAccepts(s) \/ RemoveRefuses(s)
  <2>1. pc[s] \in {"release", "remove"} /\ pc'[s] \in DestroyPCs \cup {"idle"} /\ OthersStay(s)
        /\ UNCHANGED <<dirs, meta, tmp, stray, faults>>
    BY <1>2, Gone, Held DEF Release, LayersReleased, RemoveAccepts, RemoveRefuses, End, OthersStay, DestroyPCs
  <2> QED
    BY <2>1, BareQuiet DEF SavePCs
<1>3. CASE RemoveFiles(s)
  <2>1. pc[s] = "rm_files" /\ pc'[s] = "rmdir" /\ job' = job /\ OthersStay(s) /\ UNCHANGED <<dirs, faults>>
    BY <1>3, Gone DEF RemoveFiles, OthersStay
  <2>2. \A d \in Containers \ {c} : meta'[d] = meta[d] /\ ~AtWorkOn(s, d)
    BY <1>1, <1>3 DEF RemoveFiles, TypeOK, DiskOK, AtWorkOn
  <2>6. tmp'[s] = "none"
    BY <1>3, <2>1 DEF RemoveFiles, TempsRemoved, BareInv, Savers, SavePCs
  <2>3. AtWorkOn(s, c)'
    BY <1>1, <2>1, <2>6 DEF AtWorkOn
  <2>7. stray' \subseteq stray /\ \A t \in Sessions \ {s} : tmp'[t] = tmp[t] \/ (tmp[t] = "file" /\ job[t].c = c)
    BY <1>1, <1>3 DEF RemoveFiles, TempsRemoved
  <2>4. dirs \subseteq Containers
    BY DEF TypeOK, DiskOK
  <2>5. pc'[s] \notin CreatePCs \cup StartPCs \cup StopPCs
    BY <2>1 DEF CreatePCs, StartPCs, StopPCs
  <2> QED
    BY <2>1, <2>2, <2>3, <2>4, <2>5, <2>6, <2>7, BareKept
<1>4. CASE RemoveDir(s)
  <2>0. pc[s] = "rmdir" /\ tmp[s] = "none"
    BY <1>4 DEF RemoveDir, BareInv, Savers, SavePCs
  <2>1. pc'[s] = "idle" /\ OthersStay(s) /\ UNCHANGED <<meta, tmp, stray, faults>>
    BY <1>4, Gone, Held DEF RemoveDir, End, OthersStay
  <2>4. ASSUME faults = 0, c \in dirs', meta[c].state = "NoFile"
        PROVE  \E t \in Sessions \ {s} : AtWorkOn(t, c)
    <3>1. ~IsEmpty(c) /\ c \notin stray
      BY <1>1, <1>4, <2>4 DEF RemoveDir, BareInv, NoStrays
    <3>2. PICK t \in Sessions : job[t].c = c /\ tmp[t] = "file"
      BY <2>4, <3>1 DEF IsEmpty
    <3> QED
      BY <2>0, <3>2 DEF AtWorkOn
  <2>2. \A d \in dirs' : d \in dirs /\ (d # c => ~AtWorkOn(s, d))
    BY <1>1, <1>4 DEF RemoveDir, AtWorkOn
  <2>3. pc'[s] \notin CreatePCs \cup StartPCs \cup StopPCs
    BY <2>1 DEF CreatePCs, StartPCs, StopPCs
  <2>5. CASE faults = 0
    BY <2>0, <2>1, <2>2, <2>3, <2>4, <2>5, BareKept
  <2>6. CASE faults # 0
    <3>1. RecordsToSave' /\ Savers'
      BY <2>0, <2>1, <2>3 DEF BareInv, RecordsToSave, Savers, OthersStay
    <3> QED
      BY <2>1, <2>6, <3>1 DEF BareInv, NoStrays, BareDirIsTransient
  <2> QED
    BY <2>5, <2>6
<1> QED
  BY <1>2, <1>3, <1>4 DEF Destroy

LEMMA BareFault ==
  ASSUME TypeOK, BareInv, Fault,
         Reboot \/ \E s \in Sessions : Crash(s) \/ HelperLost(s) \/ SaveFails(s)
  PROVE  BareInv'
<1> USE DEF disk, kernel, temps
<1>1. BareDirIsTransient' /\ NoStrays'
  BY DEF Fault, BareDirIsTransient, NoStrays, TypeOK
<1>2. \A s \in Sessions :
        \/ job'[s] = job[s] /\ pc[s] \in StartPCs
        \/ job'[s] = job[s] /\ pc'[s] = pc[s]
        \/ pc'[s] = "idle"
  <2>1. CASE Reboot
    BY <2>1 DEF Reboot
  <2>2. ASSUME NEW t \in Sessions, Crash(t) \/ HelperLost(t) \/ SaveFails(t)
        PROVE  OthersStay(t) /\ (pc'[t] = "idle" \/ (job' = job /\ pc[t] \in StartPCs))
    <3>1. CASE End(t)
      <4>1. pc'[t] = "idle" /\ \A u \in Sessions \ {t} : pc'[u] = pc[u]
        BY <3>1, Gone DEF End
      <4>2. \A u \in Sessions \ {t} : job'[u] = job[u]
        BY <3>1, Held DEF End
      <4> QED
        BY <4>1, <4>2 DEF OthersStay
    <3>2. CASE ~End(t)
      BY <2>2, <3>2, Gone DEF Crash, HelperLost, SaveFails, SaveError, OthersStay, StartPCs
    <3> QED
      BY <3>1, <3>2
  <2> QED
    BY <2>1, <2>2 DEF OthersStay
<1>3. RecordsToSave'
  BY <1>2 DEF BareInv, RecordsToSave, CreatePCs, StartPCs, StopPCs
<1>4. Savers'
  <2>1. CASE Reboot
    BY <2>1 DEF Reboot, Savers
  <2>2. ASSUME NEW t \in Sessions, Crash(t) \/ SaveFails(t)
        PROVE  Savers'
    <3>1. tmp'[t] = "none" /\ \A u \in Sessions \ {t} : tmp'[u] = tmp[u] /\ pc'[u] = pc[u]
      BY <2>2, Gone DEF Crash, SaveFails, SaveError, End, At, TypeOK, DiskOK
    <3> QED
      BY <3>1 DEF BareInv, Savers
  <2>3. ASSUME NEW t \in Sessions, HelperLost(t)
        PROVE  Savers'
    <3>1. pc[t] = "wait" /\ tmp' = tmp /\ \A u \in Sessions \ {t} : pc'[u] = pc[u]
      BY <2>3, Gone DEF HelperLost, End
    <3> QED
      BY <3>1 DEF BareInv, Savers, SavePCs
  <2> QED
    BY <2>1, <2>2, <2>3
<1> QED
  BY <1>1, <1>3, <1>4 DEF BareInv

\* However the commands interleave, a directory without metadata, over which
\* every list and find stumbles, exists only while the create, the save or the
\* removal that is at work on it goes on, unless something was killed or a save
\* failed for a reason of its own.
THEOREM BareDirsGo == Spec => []BareDirIsTransient
<1>1. Init => BareInv
  BY DEF Init, BareInv, RecordsToSave, Savers, NoStrays, BareDirIsTransient, BareDirsAtWork,
     CreatePCs, StartPCs, StopPCs
<1>2. TypeOK /\ BareInv /\ [Next]_vars => BareInv'
  <2> SUFFICES ASSUME TypeOK, BareInv, [Next]_vars PROVE BareInv'
    OBVIOUS
  <2>1. CASE UNCHANGED <<dirs, meta, tmp, stray, pc, job, faults>>
    BY <2>1 DEF BareInv, RecordsToSave, Savers, NoStrays, BareDirIsTransient, BareDirsAtWork, AtWorkOn
  <2> QED
    BY <2>1, BareSaving, BareBegin, BareCreate, BareStart, BareStop, BareDestroy, BareFault
    DEF Next, Proceed, EngineExits, Crash, HelperLost, SaveFails, Reboot, vars, disk, temps
<1> QED
  BY <1>1, <1>2, TypeCorrect, PTL DEF Spec, BareInv

-----------------------------------------------------------------------------
(***************************************************************************)
(* The script discipline: the inductive invariant.                         *)
(***************************************************************************)
State(c) == meta[c].state

Serves(p, c) == engine[p].run = "up" /\ engine[p].c = c

\* One session at a time is at work; a start that has printed its banner, and
\* it alone, shares its container, and only with a stop.
Alone ==
  \A s, t \in Sessions :
    s # t =>
      /\ pc[s] \in Detached \cup {"idle"} \/ pc[t] \in Detached \cup {"idle"}
      /\ Busy(s) /\ Busy(t) /\ job[s].c = job[t].c =>
           \/ pc[s] \in Detached /\ pc[t] \in StopPCs
           \/ pc[t] \in Detached /\ pc[s] \in StopPCs

\* Containers on disk have different names.
Names ==
  /\ \A c, d \in dirs : NameOf[c] = NameOf[d] => c = d
  /\ \A c \in Containers : State(c) # "NoFile" => c \in dirs
  /\ dirs \subseteq drawn

\* An engine that is up is its container's only one, and the record names it
\* unless the container is still Starting.
Engines ==
  \A p \in Pids : engine[p].run = "up" =>
    LET c == engine[p].c IN
    /\ c \in Containers
    /\ State(c) \in {"Starting", "Running", "Stopping"}
    /\ State(c) # "Starting" => meta[c].pid = p
    /\ \A q \in Pids : Serves(q, c) => q = p

\* A running container's engine is its own and wired.
Wires ==
  \A c \in Containers : State(c) = "Running" =>
    LET p == meta[c].pid IN
    /\ p \in Pids
    /\ engine[p].c = c
    /\ engine[p].run # "unused"
    /\ engine[p].run = "up" => wired[c] = p

\* Where the directory of a session's container is.
DirFits(s) ==
  LET c == job[s].c IN
  /\ pc[s] = "idle" => c = NoContainer
  /\ Busy(s) /\ pc[s] # "mkdir" => c \in dirs
  /\ pc[s] = "mkdir" => c \in drawn /\ c \notin dirs /\ \A d \in dirs : NameOf[d] # NameOf[c]

\* What a session finds in its container's record ...
StateFits(s) ==
  LET c == job[s].c IN
  /\ pc[s] \in {"mkdir", "create_save", "rmdir"} => State(c) = "NoFile"
  /\ pc[s] = "create_volume" => State(c) = "Created"
  /\ pc[s] \in {"save_starting", "release", "remove", "rm_files"} => State(c) \in Removable
  /\ pc[s] \in {"layers", "save_acquired", "prepare", "wire", "save_running",
                "abort_wait", "abort_cleanup", "abort_save", "drop_wait"} => State(c) = "Starting"
  /\ pc[s] \in Detached => State(c) \in {"Running", "Stopping", "Stopped"}
  /\ pc[s] = "save_stopping" => State(c) \in {"Running", "Stopped"}
  /\ pc[s] \in {"term_wait", "kill_wait", "stop_save"} => State(c) \in {"Stopping", "Stopped"}

\* ... and what its next save will write there.
SnapFits(s) ==
  LET snap == job[s].snap IN
  /\ pc[s] \in {"mkdir", "create_save"} => snap.state = "Created"
  /\ pc[s] \in {"save_starting", "layers", "save_acquired", "prepare"} => snap.state = "Starting"
  /\ pc[s] \in {"abort_save", "save_stopped", "stop_save"} => snap.state = "Stopped"
  /\ pc[s] = "save_stopping" => snap.state = "Stopping" /\ snap.pid = job[s].pid

\* The program points at which the container's engine, if it is up, is the
\* session's; at the others of a busy session none is up.
Owning == {"wire", "save_running", "wait", "save_stopping", "term_wait"}

EngineFits(s) ==
  LET c == job[s].c  own == job[s].pid IN
  /\ pc[s] \in Owning => \A p \in Pids : Serves(p, c) => p = own
  /\ Busy(s) /\ pc[s] \notin Owning => \A p \in Pids : ~Serves(p, c)
  /\ pc[s] \in {"wire", "save_running"} => engine[own].c = c /\ engine[own].run # "unused"
  /\ pc[s] = "save_running" /\ engine[own].run = "up" => wired[c] = own

Fits(s) == DirFits(s) /\ StateFits(s) /\ SnapFits(s) /\ EngineFits(s)

ScriptInv == Alone /\ Names /\ Engines /\ Wires /\ \A s \in Sessions : Fits(s)

-----------------------------------------------------------------------------
(***************************************************************************)
(* The kinds of steps.                                                     *)
(***************************************************************************)
\* The commands that may share a container stay what they are.
SharersStay(s) ==
  /\ pc[s] \in Detached => pc'[s] \in Detached \cup {"idle"}
  /\ pc[s] \in StopPCs => pc'[s] \in StopPCs \cup {"idle"}

\* The lifecycle takes a step or stutters.
Lives == [L!Next]_(L!vars)

Kept == ScriptInv' /\ Lives

\* The session goes on with its container or returns.
Proceeds(s) ==
  /\ Busy(s)
  /\ OthersStay(s) /\ SharersStay(s)
  /\ pc'[s] # "idle" => job'[s].c = job[s].c
  /\ Fits(s)'

LEMMA AloneKept ==
  ASSUME Alone, NEW s \in Sessions, Proceeds(s)
  PROVE  Alone'
<1> SUFFICES ASSUME NEW t \in Sessions, NEW u \in Sessions, t # u
             PROVE  /\ pc'[t] \in Detached \cup {"idle"} \/ pc'[u] \in Detached \cup {"idle"}
                    /\ Busy(t)' /\ Busy(u)' /\ job'[t].c = job'[u].c =>
                         \/ pc'[t] \in Detached /\ pc'[u] \in StopPCs
                         \/ pc'[u] \in Detached /\ pc'[t] \in StopPCs
  BY DEF Alone
<1> USE DEF Alone, Proceeds, OthersStay, SharersStay, Busy, Detached, StopPCs
<1>1. CASE t # s /\ u # s
  BY <1>1
<1>2. CASE t = s
  BY <1>2
<1>3. CASE u = s
  BY <1>3
<1> QED
  BY <1>1, <1>2, <1>3

\* Another session that is at work on the same container is one of the two
\* that may share it.
LEMMA Sharers ==
  ASSUME Alone, NEW s \in Sessions, NEW t \in Sessions, s # t, Busy(s), Busy(t), job[s].c = job[t].c
  PROVE  \/ pc[s] \in Detached /\ pc[t] \in StopPCs
         \/ pc[t] \in Detached /\ pc[s] \in StopPCs
  BY DEF Alone

LEMMA FadeServes ==
  ASSUME Fade, NEW p \in Pids, NEW c, Serves(p, c)'
  PROVE  Serves(p, c)
  BY DEF Fade, Serves

\* A step that writes no record.
LEMMA QuietStep ==
  ASSUME TypeOK, ScriptInv, NEW s \in Sessions, Proceeds(s), Fade,
         UNCHANGED <<meta, dirs>>, drawn \subseteq drawn',
         NEW c \in Containers, job[s].c = c,
         \A d \in Containers \ {c} : wired'[d] = wired[d],
         State(c) = "Running" => wired'[c] = wired[c] \/ \A p \in Pids : ~Serves(p, c)'
  PROVE  Kept
<1>1. Alone'
  BY AloneKept DEF ScriptInv
<1>2. Names'
  BY DEF ScriptInv, Names, State
<1>3. Engines'
  BY FadeServes DEF ScriptInv, Engines, Fade, State, Serves
<1>4. Wires'
  <2> SUFFICES ASSUME NEW d \in Containers, State(d) = "Running",
                      meta[d].pid \in Pids, engine[meta[d].pid].c = d, engine[meta[d].pid].run # "unused",
                      engine[meta[d].pid].run = "up" => wired[d] = meta[d].pid
               PROVE  LET p == meta'[d].pid IN
                      /\ p \in Pids
                      /\ engine'[p].c = d
                      /\ engine'[p].run # "unused"
                      /\ engine'[p].run = "up" => wired'[d] = p
    BY DEF ScriptInv, Wires, State
  <2>1. CASE d = c
    BY <2>1 DEF Fade, Serves
  <2>2. CASE d # c
    BY <2>2 DEF Fade
  <2> QED
    BY <2>1, <2>2
<1>5. ASSUME NEW t \in Sessions, t # s
      PROVE  Fits(t)'
  <2>1. pc'[t] = pc[t] /\ job'[t] = job[t] /\ Fits(t)
    BY <1>5 DEF Proceeds, OthersStay, ScriptInv
  <2>2. DirFits(t)' /\ StateFits(t)' /\ SnapFits(t)'
    BY <2>1 DEF Fits, DirFits, StateFits, SnapFits, State, Busy
  <2>3. pc[t] \in {"wire", "save_running"} => job[t].c # job[s].c /\ job[t].c \in Containers /\ job[t].pid \in Pids
    BY <1>5, Sharers, BusyJob DEF ScriptInv, Proceeds, Detached, StopPCs, Busy, PidPCs
  <2>4. EngineFits(t)'
    BY <2>1, <2>3, FadeServes DEF Fits, EngineFits, Fade, Busy
  <2> QED
    BY <2>2, <2>4 DEF Fits
<1>6. Lives
  <2> DEFINE S == {d \in Containers : \A p \in Pids : ~Serves(p, d)'}
  <2>1. Visible' = Visible
    BY DEF Visible
  <2>2. Served' = [d \in Containers |-> Served[d] /\ d \notin S]
    BY FadeServes DEF Served, Serves
  <2>3. L!Die(S)
    BY <2>1, <2>2 DEF L!Die
  <2> QED
    BY <2>3 DEF Lives, L!Next
<1> QED
  BY <1>1, <1>2, <1>3, <1>4, <1>5 , <1>6 DEF Kept, ScriptInv, Proceeds

\* What a reader sees for a state.
Seeing(state) == IF state = "NoFile" THEN "Absent" ELSE state

\* A container moves along an edge or stays in its state, and comes to rest
\* only without an engine.
MovesTo(c, to) ==
  /\ to \in ContainerState
  /\ to = State(c) \/ <<Seeing(State(c)), Seeing(to)>> \in KnownEdges
  /\ to \in {"NoFile", "Created", "Stopped"} => \A p \in Pids : ~Serves(p, c)

LEMMA MoveLives ==
  ASSUME TypeOK, NEW c \in Containers, NEW to, MovesTo(c, to), State(c)' = to,
         \A d \in Containers \ {c} : meta'[d] = meta[d], UNCHANGED engine
  PROVE  Lives
<1>1. Served' = Served
  BY DEF Served
<1>2. CASE to = State(c)
  <2>1. Visible' = Visible
    BY <1>2 DEF Visible, State
  <2> QED
    BY <1>1, <2>1 DEF Lives, L!vars
<1>3. CASE <<Seeing(State(c)), Seeing(to)>> \in KnownEdges
  <2>1. Visible' = [Visible EXCEPT ![c] = Seeing(to)]
    BY DEF Visible, State, Seeing
  <2>2. Visible[c] = Seeing(State(c))
    BY DEF Visible, State, Seeing
  <2>3. Seeing(to) \in L!States
    BY DEF MovesTo, ContainerState, Seeing, L!States
  <2>4. Seeing(to) \in L!Quiet => ~Served[c]
    BY DEF MovesTo, ContainerState, Seeing, L!Quiet, Served, Serves
  <2>5. L!Move(c)
    BY <1>1, <1>3, <2>1, <2>2, <2>3, <2>4 DEF L!Move
  <2> QED
    BY <2>5 DEF Lives, L!Next
<1> QED
  BY <1>2, <1>3 DEF MovesTo

\* A step that saves a record.
LEMMA WriteStep ==
  ASSUME TypeOK, ScriptInv, NEW s \in Sessions, Proceeds(s), pc[s] # "mkdir",
         NEW c \in Containers, job[s].c = c,
         NEW record \in Container, Save(s, record), UNCHANGED <<kernel, drawn>>,
         record.state # "NoFile", MovesTo(c, record.state),
         pc[s] \in Detached => record.state = "Stopped",
         pc[s] \in StopPCs => record.state \in {"Stopping", "Stopped"},
         record.state = "Running" => pc[s] = "save_running" /\ record.pid = job[s].pid,
         record.state \in {"Running", "Stopping"} => \A p \in Pids : Serves(p, c) => record.pid = p
  PROVE  Kept
<1> USE DEF kernel
<1>1. Alone' /\ Fits(s)'
  BY AloneKept DEF ScriptInv, Proceeds
<1>2. /\ meta'[c] = record /\ State(c)' = record.state
      /\ \A d \in Containers \ {c} : meta'[d] = meta[d]
  BY DEF Save, State, TypeOK, DiskOK
<1>3. dirs' = dirs
  BY DEF Save
<1>4. Names'
  BY <1>2, <1>3 DEF ScriptInv, Names, State, Proceeds, Fits, DirFits
<1>5. Engines'
  <2> SUFFICES ASSUME NEW p \in Pids, engine[p].run = "up"
               PROVE  LET d == engine[p].c IN
                      /\ d \in Containers
                      /\ State(d)' \in {"Starting", "Running", "Stopping"}
                      /\ State(d)' # "Starting" => meta'[d].pid = p
                      /\ \A q \in Pids : Serves(q, d) => q = p
    BY DEF Engines, Serves, State
  <2>1. CASE engine[p].c = c
    BY <1>2, <2>1 DEF ScriptInv, Engines, Serves, MovesTo, ContainerState
  <2>2. CASE engine[p].c # c
    BY <1>2, <2>2 DEF ScriptInv, Engines, State
  <2> QED
    BY <2>1, <2>2
<1>6. Wires'
  <2>1. record.state = "Running" =>
          /\ record.pid \in Pids
          /\ engine[record.pid].c = c
          /\ engine[record.pid].run # "unused"
          /\ engine[record.pid].run = "up" => wired[c] = record.pid
    BY BusyJob DEF ScriptInv, Fits, EngineFits, PidPCs
  <2> QED
    BY <1>2, <2>1 DEF ScriptInv, Wires, State
<1>7. ASSUME NEW t \in Sessions, t # s
      PROVE  Fits(t)'
  <2>1. pc'[t] = pc[t] /\ job'[t] = job[t] /\ Fits(t)
    BY <1>7 DEF Proceeds, OthersStay, ScriptInv
  <2>2. DirFits(t)' /\ SnapFits(t)' /\ EngineFits(t)'
    BY <1>3, <2>1 DEF Fits, DirFits, SnapFits, EngineFits, Serves, Busy
  <2>3. CASE Busy(t) /\ job[t].c = c
    <3>1. \/ pc[s] \in Detached /\ pc[t] \in StopPCs
          \/ pc[t] \in Detached /\ pc[s] \in StopPCs
      BY <1>7, <2>3, Sharers DEF ScriptInv, Proceeds
    <3>2. StateFits(t)'
      BY <1>2, <2>1, <2>3, <3>1 DEF StateFits, State, Detached, StopPCs
    <3> QED
      BY <2>2, <3>2 DEF Fits
  <2>4. CASE ~(Busy(t) /\ job[t].c = c)
    <3>1. pc[t] = "idle" \/ (job[t].c \in Containers /\ job[t].c # c)
      BY <2>4, BusyJob DEF Busy
    <3>2. StateFits(t)'
      BY <1>2, <2>1, <3>1 DEF StateFits, Fits, State, Detached, Busy
    <3> QED
      BY <2>2, <3>2 DEF Fits
  <2> QED
    BY <2>3, <2>4
<1>8. Lives
  BY <1>2, MoveLives
<1> QED
  BY <1>1, <1>4, <1>5, <1>6, <1>7, <1>8 DEF Kept, ScriptInv

\* A step that begins a command.
LEMMA BeginStep ==
  ASSUME Discipline = "script", TypeOK, ScriptInv, NEW s \in Sessions, NEW c \in Containers,
         NEW command, MayBegin(s, c, command), OthersStay(s),
         pc'[s] \notin Detached, job'[s].c = c, Fits(s)',
         command # "stop" \/ pc'[s] \in StopPCs,
         UNCHANGED <<meta, dirs, kernel>>, drawn \subseteq drawn'
  PROVE  Kept
<1> USE DEF kernel
<1>1. \A t \in Sessions \ {s} :
        /\ pc[t] \in Detached \cup {"idle"} /\ pc'[t] = pc[t] /\ job'[t] = job[t]
        /\ pc'[s] \in StopPCs \/ job[t].c # c
  BY DEF MayBegin, OthersStay
<1>2. Alone'
  <2> SUFFICES ASSUME NEW t \in Sessions, NEW u \in Sessions, t # u
               PROVE  /\ pc'[t] \in Detached \cup {"idle"} \/ pc'[u] \in Detached \cup {"idle"}
                      /\ Busy(t)' /\ Busy(u)' /\ job'[t].c = job'[u].c =>
                           \/ pc'[t] \in Detached /\ pc'[u] \in StopPCs
                           \/ pc'[u] \in Detached /\ pc'[t] \in StopPCs
    BY DEF Alone
  <2>1. CASE t # s /\ u # s
    BY <1>1, <2>1 DEF ScriptInv, Alone, Busy
  <2>2. CASE t = s
    BY <1>1, <2>2 DEF Busy
  <2>3. CASE u = s
    BY <1>1, <2>3 DEF Busy
  <2> QED
    BY <2>1, <2>2, <2>3
<1>3. Names' /\ Engines' /\ Wires'
  BY DEF ScriptInv, Names, Engines, Wires, State, Serves
<1>4. ASSUME NEW t \in Sessions, t # s
      PROVE  Fits(t)'
  BY <1>1, <1>4 DEF ScriptInv, Fits, DirFits, StateFits, SnapFits, EngineFits, State, Serves, Busy, Detached
<1>5. Lives
  BY DEF Lives, L!vars, Visible, Served
<1> QED
  BY <1>2, <1>3, <1>4, <1>5 DEF Kept, ScriptInv

-----------------------------------------------------------------------------
(***************************************************************************)
(* How sessions go on and return.                                          *)
(***************************************************************************)
\* A command that returns fits, and so does every step of one that goes on.
LEMMA Ended ==
  ASSUME TypeOK, NEW s \in Sessions, Busy(s), End(s)
  PROVE  Proceeds(s) /\ pc'[s] = "idle"
<1>1. pc'[s] = "idle" /\ job'[s] = NoJob /\ OthersStay(s)
  BY Held, Gone DEF End, OthersStay
<1>2. job'[s].c = NoContainer
  BY <1>1 DEF NoJob
<1>3. Fits(s)'
  BY <1>1, <1>2 DEF Fits, DirFits, StateFits, SnapFits, EngineFits, Busy, Detached, Owning
<1> QED
  BY <1>1, <1>3 DEF Proceeds, SharersStay

LEMMA Went ==
  ASSUME TypeOK, NEW s \in Sessions, Busy(s), NEW label, Goto(s, label),
         UNCHANGED job \/ \E j \in Job : Hold(s, j) /\ j.c = job[s].c,
         pc[s] \in Detached => label \in Detached,
         pc[s] \in StopPCs => label \in StopPCs,
         Fits(s)'
  PROVE  Proceeds(s) /\ pc'[s] = label
<1>1. pc'[s] = label /\ \A t \in Sessions \ {s} : pc'[t] = pc[t]
  BY Gone
<1>2. CASE UNCHANGED job
  BY <1>1, <1>2 DEF Proceeds, SharersStay, OthersStay
<1>3. ASSUME NEW j \in Job, Hold(s, j), j.c = job[s].c
      PROVE  Proceeds(s)
  BY <1>1, <1>3, Held DEF Proceeds, SharersStay, OthersStay
<1> QED
  BY <1>1, <1>2, <1>3

-----------------------------------------------------------------------------
(***************************************************************************)
(* create.                                                                 *)
(***************************************************************************)
\* A session at work that is neither a start in its last wait nor a stop has
\* its container to itself.
LEMMA Sole ==
  ASSUME TypeOK, ScriptInv, NEW s \in Sessions, pc[s] \notin Detached \cup StopPCs \cup {"idle"}
  PROVE  \A t \in Sessions \ {s} :
           pc[t] \in Detached \cup {"idle"} /\ (Busy(t) => job[t].c # job[s].c)
  BY DEF ScriptInv, Alone, Busy, Detached, StopPCs

LEMMA CreateDirKeeps ==
  ASSUME TypeOK, ScriptInv, NEW s \in Sessions, CreateDir(s)
  PROVE  Kept
<1> USE DEF kernel
<1> DEFINE c == job[s].c
<1>1. c \in Containers /\ Busy(s) /\ Fits(s)
  BY BusyJob DEF CreateDir, Busy, ScriptInv
<1>2. pc'[s] = "create_save" /\ job' = job /\ dirs' = dirs \cup {c}
  BY Gone DEF CreateDir
<1>3. /\ State(c) = "NoFile" /\ job[s].snap.state = "Created"
      /\ c \in drawn /\ c \notin dirs /\ \A d \in dirs : NameOf[d] # NameOf[c]
      /\ \A p \in Pids : ~Serves(p, c)
  BY <1>1 DEF CreateDir, Fits, DirFits, StateFits, SnapFits, EngineFits, Owning
<1>4. Fits(s)'
  BY <1>2, <1>3 DEF CreateDir, Fits, DirFits, StateFits, SnapFits, EngineFits, Busy, Detached, Owning, Serves, State
<1>5. Proceeds(s)
  BY <1>1, <1>4, Went DEF CreateDir, Detached, StopPCs
<1>6. Alone'
  BY <1>5, AloneKept DEF ScriptInv
<1>7. Names'
  BY <1>2, <1>3 DEF CreateDir, ScriptInv, Names, State
<1>8. Engines' /\ Wires'
  BY DEF CreateDir, ScriptInv, Engines, Wires, State, Serves
<1>9. ASSUME NEW t \in Sessions, t # s
      PROVE  Fits(t)'
  <2>1. pc'[t] = pc[t] /\ pc[t] \in Detached \cup {"idle"}
    BY <1>5, <1>9, Sole DEF CreateDir, Proceeds, OthersStay, Detached, StopPCs
  <2> QED
    BY <1>2, <2>1, <1>9 DEF CreateDir, ScriptInv, Fits, DirFits, StateFits, SnapFits, EngineFits, State, Serves, Busy, Detached
<1>10. Lives
  BY DEF CreateDir, Lives, L!vars, Visible, Served
<1> QED
  BY <1>4, <1>6, <1>7, <1>8, <1>9, <1>10 DEF Kept, ScriptInv

LEMMA CreateKeeps ==
  ASSUME Discipline = "script", TypeOK, ScriptInv, NEW s \in Sessions,
         Create(s) \/ \E c \in Containers : CreateFind(s, c)
  PROVE  Kept
<1> USE DEF disk, kernel, temps
<1>1. ASSUME NEW c \in Containers, CreateFind(s, c)
      PROVE  Kept
  <2> DEFINE j == JobOn(c, InState(NoFile, "Created"))
  <2>1. j \in Job /\ j.c = c /\ j.snap.state = "Created"
    BY EmptyRecords, ContainerFields, JobOnFields DEF ContainerState
  <2>2. OthersStay(s) /\ pc'[s] = "mkdir" /\ job'[s] = j
    BY <1>1, Held, Gone DEF CreateFind, OthersStay
  <2>3. c \in drawn' /\ c \notin dirs' /\ drawn \subseteq drawn' /\ \A d \in dirs' : NameOf[d] # NameOf[c]
    BY <1>1 DEF CreateFind, ScriptInv, Names
  <2>4. State(c)' = "NoFile"
    BY <1>1, <2>3 DEF CreateFind, ScriptInv, Names, State
  <2>5. \A p \in Pids : ~Serves(p, c)'
    BY <1>1, <2>4 DEF CreateFind, ScriptInv, Engines, Serves, State
  <2>6. Fits(s)'
    BY <2>1, <2>2, <2>3, <2>4, <2>5 DEF Fits, DirFits, StateFits, SnapFits, EngineFits, Busy, Detached, Owning
  <2> QED
    BY <1>1, <2>1, <2>2, <2>3, <2>6, BeginStep DEF CreateFind, Detached
<1>3. CASE CreateSave(s)
  <2> DEFINE c == job[s].c
             snap == job[s].snap
  <2>1. c \in Containers /\ snap \in Container /\ Busy(s) /\ Fits(s)
    BY <1>3, BusyJob DEF CreateSave, Busy, ScriptInv
  <2>2. /\ State(c) = "NoFile" /\ snap.state = "Created" /\ c \in dirs
        /\ \A p \in Pids : ~Serves(p, c)
    BY <1>3, <2>1 DEF CreateSave, Fits, StateFits, SnapFits, DirFits, EngineFits, Owning, Detached
  <2>3. State(c)' = "Created" /\ c \in dirs'
    BY <1>3, <2>1, <2>2 DEF CreateSave, Save, State, TypeOK, DiskOK
  <2>4. pc'[s] = "create_volume" /\ job'[s] = job[s]
    BY <1>3, Gone DEF CreateSave
  <2>5. Fits(s)'
    BY <1>3, <2>1, <2>2, <2>3, <2>4 DEF CreateSave, Fits, DirFits, StateFits, SnapFits, EngineFits, Busy, Detached, Owning, Serves, State
  <2>6. Proceeds(s)
    BY <1>3, <2>1, <2>5, Went DEF CreateSave, Detached, StopPCs
  <2>7. MovesTo(c, "Created")
    BY <2>2 DEF MovesTo, ContainerState, Seeing, KnownEdges, UncheckedEdges
  <2> QED
    BY <1>3, <2>1, <2>2, <2>6, <2>7, WriteStep DEF CreateSave, Detached, StopPCs
<1>4. CASE CreateVolume(s)
  <2> DEFINE c == job[s].c
  <2>1. c \in Containers /\ Busy(s) /\ Fits(s)
    BY <1>4, BusyJob DEF CreateVolume, Busy, ScriptInv
  <2>2. CASE End(s)
    BY <1>4, <2>1, <2>2, Ended, QuietStep, SameFades DEF CreateVolume
  <2>3. CASE Goto(s, "remove") /\ UNCHANGED job
    <3>1. pc'[s] = "remove"
      BY <2>3, Gone
    <3>2. Fits(s)'
      BY <1>4, <2>1, <2>3, <3>1 DEF CreateVolume, Fits, DirFits, StateFits, SnapFits, EngineFits, Busy, Detached, Owning, Serves, State, Removable
    <3>3. Proceeds(s)
      BY <1>4, <2>1, <2>3, <3>2, Went DEF CreateVolume, Detached, StopPCs
    <3> QED
      BY <1>4, <2>1, <3>3, QuietStep, SameFades DEF CreateVolume
  <2> QED
    BY <1>4, <2>2, <2>3 DEF CreateVolume
<1> QED
  BY <1>1, <1>3, <1>4, CreateDirKeeps DEF Create

-----------------------------------------------------------------------------
(***************************************************************************)
(* start.                                                                  *)
(***************************************************************************)
LEMMA AtWork ==
  ASSUME TypeOK, ScriptInv, NEW s \in Sessions, pc[s] # "idle"
  PROVE  /\ Busy(s) /\ Fits(s)
         /\ job[s] \in Job /\ job[s].c \in Containers /\ job[s].snap \in Container
         /\ pc[s] \in PidPCs => job[s].pid \in Pids
  BY BusyJob DEF ScriptInv, Busy

LEMMA StartBeginKeeps ==
  ASSUME Discipline = "script", TypeOK, ScriptInv, NEW s \in Sessions, NEW c \in Containers,
         StartFind(s, c)
  PROVE  Kept
<1> USE DEF disk, kernel, temps
<1> DEFINE j == JobOn(c, InState(meta[c], "Starting"))
<1>1. j \in Job /\ j.c = c /\ j.snap.state = "Starting"
  BY ContainerFields, JobOnFields DEF ContainerState, TypeOK, DiskOK
<1>2. OthersStay(s) /\ pc'[s] = "save_starting" /\ job'[s] = j
  BY Held, Gone DEF StartFind, OthersStay
<1>3. State(c)' \in Removable /\ c \in dirs'
  BY DEF StartFind, ScriptInv, Names, State, Removable
<1>4. \A p \in Pids : ~Serves(p, c)'
  BY <1>3 DEF StartFind, ScriptInv, Engines, Serves, State, Removable
<1>5. Fits(s)'
  BY <1>1, <1>2, <1>3, <1>4 DEF Fits, DirFits, StateFits, SnapFits, EngineFits, Busy, Detached, Owning
<1> QED
  BY <1>1, <1>2, <1>5, BeginStep DEF StartFind, Detached

\* The saves of start.
LEMMA StartSaveKeeps ==
  ASSUME TypeOK, ScriptInv, NEW s \in Sessions,
         SaveStarting(s) \/ SaveAcquired(s) \/ AbortSave(s) \/ SaveRunning(s) \/ SaveStopped(s)
  PROVE  Kept
<1> USE DEF disk, kernel, temps
<1> DEFINE c == job[s].c
           snap == job[s].snap
<1>1. Busy(s) /\ Fits(s) /\ job[s] \in Job /\ c \in Containers /\ snap \in Container
  BY AtWork DEF SaveStarting, SaveAcquired, AbortSave, SaveRunning, SaveStopped
<1> USE DEF Fits, DirFits, StateFits, SnapFits, EngineFits, Busy, Detached, Owning, Serves, State
<1>2. CASE SaveStarting(s)
  <2> DEFINE j == [job[s] EXCEPT !.todo = LayersOf[c] \ snap.acquired]
  <2>1. j \in Job /\ j.c = c /\ j.snap = snap
    <3>1. LayersOf[c] \ snap.acquired \in SUBSET Layers
      BY <1>1, ConstantsAssumption
    <3> QED
      BY <1>1, <3>1, JobFields
  <2>2. pc[s] = "save_starting" /\ pc'[s] = "layers" /\ job'[s] = j
    BY <1>2, Gone, Held DEF SaveStarting
  <2>3. State(c) \in Removable /\ snap.state = "Starting" /\ \A p \in Pids : ~Serves(p, c)
    BY <1>1, <2>2
  <2>4. State(c)' = "Starting" /\ c \in dirs'
    BY <1>1, <1>2, <2>1, <2>2, <2>3 DEF SaveStarting, Save, TypeOK, DiskOK
  <2>5. Fits(s)'
    BY <1>2, <2>1, <2>2, <2>3, <2>4 DEF SaveStarting
  <2>6. Proceeds(s)
    BY <1>1, <1>2, <2>1, <2>2, <2>5, Went DEF SaveStarting, StopPCs
  <2>7. MovesTo(c, "Starting")
    BY <2>3 DEF MovesTo, Removable, ContainerState, Seeing, KnownEdges, UncheckedEdges, TransitionEdges
  <2> QED
    BY <1>1, <1>2, <2>2, <2>3, <2>6, <2>7, WriteStep DEF SaveStarting, StopPCs
<1>3. CASE SaveAcquired(s)
  <2>1. pc[s] = "save_acquired" /\ pc'[s] = "prepare" /\ job'[s] = job[s]
    BY <1>3, Gone DEF SaveAcquired
  <2>2. State(c) = "Starting" /\ snap.state = "Starting" /\ \A p \in Pids : ~Serves(p, c)
    BY <1>1, <2>1
  <2>3. State(c)' = "Starting" /\ c \in dirs'
    BY <1>1, <1>3, <2>1, <2>2 DEF SaveAcquired, Save, TypeOK, DiskOK
  <2>4. Fits(s)'
    BY <1>3, <2>1, <2>2, <2>3 DEF SaveAcquired
  <2>5. Proceeds(s)
    BY <1>1, <1>3, <2>1, <2>4, Went DEF SaveAcquired, StopPCs
  <2>6. MovesTo(c, "Starting")
    BY <2>2 DEF MovesTo, ContainerState
  <2> QED
    BY <1>1, <1>3, <2>1, <2>2, <2>5, <2>6, WriteStep DEF SaveAcquired, StopPCs
<1>4. CASE AbortSave(s)
  <2>1. Proceeds(s) /\ pc[s] = "abort_save"
    BY <1>1, <1>4, Ended DEF AbortSave
  <2>2. State(c) = "Starting" /\ snap.state = "Stopped" /\ \A p \in Pids : ~Serves(p, c)
    BY <1>1, <2>1
  <2>3. MovesTo(c, "Stopped")
    BY <2>2 DEF MovesTo, ContainerState, Seeing, KnownEdges, UncheckedEdges
  <2> QED
    BY <1>1, <1>4, <2>1, <2>2, <2>3, WriteStep DEF AbortSave, StopPCs
<1>5. CASE SaveRunning(s)
  <2> DEFINE running == RunningAs(snap, job[s].pid)
             j == [job[s] EXCEPT !.snap = running]
  <2>1. pc[s] = "save_running" /\ pc'[s] = "wait" /\ job[s].pid \in Pids
    BY <1>5, Gone, AtWork DEF SaveRunning, PidPCs
  <2>2. running \in Container /\ running.state = "Running" /\ running.pid = job[s].pid
    BY <1>1, <2>1, ContainerFields
  <2>3. j \in Job /\ j.c = c /\ j.pid = job[s].pid /\ job'[s] = j
    <3>1. j \in Job /\ j.c = c /\ j.pid = job[s].pid
      BY <1>1, <2>2, JobFields
    <3>2. Hold(s, j)
      BY <1>5 DEF SaveRunning
    <3> QED
      BY <3>1, <3>2, Held
  <2>4. State(c) = "Starting" /\ \A p \in Pids : Serves(p, c) => p = job[s].pid
    BY <1>1, <2>1
  <2>5. State(c)' = "Running" /\ c \in dirs'
    <3>1. Save(s, running)
      BY <1>5 DEF SaveRunning
    <3> QED
      BY <1>1, <2>1, <2>2, <2>3, <3>1 DEF Save, TypeOK, DiskOK
  <2>6. Fits(s)'
    BY <1>5, <2>1, <2>3, <2>4, <2>5 DEF SaveRunning
  <2>7. Proceeds(s)
    BY <1>1, <1>5, <2>1, <2>3, <2>6, Went DEF SaveRunning, StopPCs
  <2>8. MovesTo(c, "Running")
    BY <2>4 DEF MovesTo, ContainerState, Seeing, KnownEdges, TransitionEdges
  <2> QED
    BY <1>1, <1>5, <2>1, <2>2, <2>4, <2>7, <2>8, WriteStep DEF SaveRunning, StopPCs
<1>6. CASE SaveStopped(s)
  <2>1. pc[s] = "save_stopped" /\ pc'[s] = "cleanup" /\ job'[s] = job[s]
    BY <1>6, Gone DEF SaveStopped
  <2>2. State(c) \in {"Running", "Stopping", "Stopped"} /\ snap.state = "Stopped" /\ \A p \in Pids : ~Serves(p, c)
    BY <1>1, <2>1
  <2>3. State(c)' = "Stopped" /\ c \in dirs'
    BY <1>1, <1>6, <2>1, <2>2 DEF SaveStopped, Save, TypeOK, DiskOK
  <2>4. Fits(s)'
    BY <1>6, <2>1, <2>2, <2>3 DEF SaveStopped
  <2>5. Proceeds(s)
    BY <1>1, <1>6, <2>1, <2>4, Went DEF SaveStopped, StopPCs
  <2>6. MovesTo(c, "Stopped")
    BY <2>2 DEF MovesTo, ContainerState, Seeing, KnownEdges, TransitionEdges
  <2> QED
    BY <1>1, <1>6, <2>1, <2>2, <2>5, <2>6, WriteStep DEF SaveStopped, StopPCs
<1> QED
  BY <1>2, <1>3, <1>4, <1>5, <1>6

\* The steps of start before its engine exists.
LEMMA StartLayersKeep ==
  ASSUME TypeOK, ScriptInv, NEW s \in Sessions,
         (\E l \in Layers : EnsureLayer(s, l)) \/ LayersEnsured(s) \/ StartFails(s)
  PROVE  Kept
<1> USE DEF disk, kernel, temps
<1> DEFINE c == job[s].c
           snap == job[s].snap
<1>1. Busy(s) /\ Fits(s) /\ job[s] \in Job /\ c \in Containers /\ snap \in Container
  BY AtWork DEF EnsureLayer, LayersEnsured, StartFails
<1> USE SameFades DEF Fits, DirFits, StateFits, SnapFits, EngineFits, Busy, Detached, Owning, Serves, State
<1>2. ASSUME NEW l \in Layers, EnsureLayer(s, l)
      PROVE  Kept
  <2> DEFINE j == [job[s] EXCEPT !.todo = @ \ {l}, !.fresh = @ \cup {l}]
  <2>1. j \in Job /\ j.c = c /\ j.snap = snap
    BY <1>1 DEF Job
  <2>2. pc[s] = "layers" /\ pc'[s] = "layers" /\ Goto(s, "layers") /\ job'[s] = j
    BY <1>2, Held DEF EnsureLayer, Goto, TypeOK, SessionsOK
  <2>3. Fits(s)'
    <3>1. job'[s].c = c /\ job'[s].snap = snap /\ UNCHANGED <<dirs, meta, engine>>
      BY <1>2, <2>1, <2>2 DEF EnsureLayer
    <3>2. State(c) = "Starting" /\ snap.state = "Starting" /\ c \in dirs /\ \A p \in Pids : ~Serves(p, c)
      BY <1>1, <2>2
    <3> QED
      BY <2>2, <3>1, <3>2
  <2>4. Proceeds(s)
    BY <1>1, <1>2, <2>1, <2>2, <2>3, Went DEF EnsureLayer, StopPCs
  <2> QED
    BY <1>1, <1>2, <2>4, QuietStep DEF EnsureLayer
<1>3. CASE LayersEnsured(s)
  <2> DEFINE j == [job[s] EXCEPT !.snap = Acquired(@, job[s].fresh), !.fresh = {}]
             label == IF job[s].fresh = {} THEN "prepare" ELSE "save_acquired"
  <2>1. Acquired(snap, job[s].fresh) \in Container /\ Acquired(snap, job[s].fresh).state = snap.state
    BY <1>1, BusyJob, ContainerFields
  <2>2. j \in Job /\ j.c = c /\ j.snap.state = snap.state
    BY <1>1, <2>1 DEF Job
  <2>3. pc[s] = "layers" /\ pc'[s] = label /\ job'[s] = j
    BY <1>3, Held, Gone DEF LayersEnsured
  <2>4. Fits(s)'
    BY <1>1, <1>3, <2>2, <2>3 DEF LayersEnsured
  <2>5. Proceeds(s)
    BY <1>1, <1>3, <2>2, <2>3, <2>4, Went DEF LayersEnsured, StopPCs
  <2> QED
    BY <1>1, <1>3, <2>5, QuietStep DEF LayersEnsured
<1>4. CASE StartFails(s)
  BY <1>1, <1>4, Ended, QuietStep DEF StartFails
<1> QED
  BY <1>2, <1>3, <1>4

\* The engine of start is the first of its container that is up.
LEMMA SpawnKeeps ==
  ASSUME TypeOK, ScriptInv, NEW s \in Sessions, NEW p \in Pids, Spawn(s, p)
  PROVE  Kept
<1> USE DEF disk, kernel, temps
<1> DEFINE c == job[s].c
           j == [job[s] EXCEPT !.pid = p]
<1>1. Busy(s) /\ Fits(s) /\ job[s] \in Job /\ c \in Containers
  BY AtWork DEF Spawn
<1>2. j \in Job /\ j.c = c /\ j.pid = p
  BY <1>1, JobFields
<1>3. pc[s] = "prepare" /\ pc'[s] = "wire" /\ job'[s] = j
  BY Held, Gone DEF Spawn
<1>4. engine'[p].c = c /\ engine'[p].run = "up" /\ engine[p].run = "unused"
      /\ \A q \in Pids \ {p} : engine'[q] = engine[q]
  BY DEF Spawn, TypeOK, KernelOK
<1>5. State(c) = "Starting" /\ c \in dirs /\ \A q \in Pids : ~Serves(q, c)
  BY <1>1, <1>3 DEF Fits, DirFits, StateFits, EngineFits, Owning, Detached, Busy
<1>6. Fits(s)'
  BY <1>2, <1>3, <1>4, <1>5 DEF Spawn, Fits, DirFits, StateFits, SnapFits, EngineFits, Busy, Detached, Owning, Serves, State
<1>7. Proceeds(s)
  BY <1>1, <1>2, <1>3, <1>6, Went DEF Spawn, Detached, StopPCs
<1>8. Alone'
  BY <1>7, AloneKept DEF ScriptInv
<1>9. Names'
  BY DEF Spawn, ScriptInv, Names, State
<1>10. Engines'
  BY <1>1, <1>4, <1>5 DEF Spawn, ScriptInv, Engines, State, Serves
<1>11. Wires'
  BY <1>4 DEF Spawn, ScriptInv, Wires, State
<1>12. ASSUME NEW t \in Sessions, t # s
       PROVE  Fits(t)'
  <2>1. pc'[t] = pc[t] /\ job'[t] = job[t] /\ Fits(t) /\ (Busy(t) => job[t].c # c)
    BY <1>3, <1>7, <1>12, Sole DEF Proceeds, OthersStay, ScriptInv, Detached, StopPCs
  <2>2. Busy(t) => job[t].c \in Containers /\ (pc[t] \in Owning => job[t].pid \in Pids)
    BY BusyJob DEF Busy, Owning, PidPCs, StopPCs
  <2>3. \A q \in Pids, d \in Containers \ {c} : Serves(q, d)' => Serves(q, d)
    BY <1>4 DEF Serves
  <2>4. DirFits(t)' /\ StateFits(t)' /\ SnapFits(t)'
    BY <2>1 DEF Spawn, Fits, DirFits, StateFits, SnapFits, State, Busy
  <2>5. \A q \in Pids : ~(Busy(t) /\ engine'[q].run = "up" /\ engine'[q].c = job[t].c) \/ Serves(q, job[t].c)
    BY <2>1, <1>4 DEF Serves
  <2>6. EngineFits(t)'
    BY <1>4, <2>1, <2>2, <2>5 DEF Spawn, Fits, EngineFits, Busy, Serves, Owning
  <2> QED
    BY <2>4, <2>6 DEF Fits
<1>13. Lives
  <2>1. Visible' = Visible /\ Visible[c] = "Starting"
    BY <1>1, <1>5 DEF Spawn, Visible, State
  <2>2. Served' = [Served EXCEPT ![c] = TRUE] /\ ~Served[c]
    BY <1>1, <1>4, <1>5 DEF Served, Serves
  <2> QED
    BY <1>1, <2>1, <2>2 DEF Lives, L!Next, L!Serve
<1> QED
  BY <1>6, <1>8, <1>9, <1>10, <1>11, <1>12, <1>13 DEF Kept, ScriptInv

\* The wiring of the engine.
LEMMA WiringKeeps ==
  ASSUME TypeOK, ScriptInv, NEW s \in Sessions,
         WireUp(s) \/ WireUpFails(s) \/ EngineGoneBeforeWiring(s)
  PROVE  Kept
<1> USE DEF disk, kernel, temps
<1> DEFINE c == job[s].c
           own == job[s].pid
           j == [job[s] EXCEPT !.net = TRUE]
<1>1. Busy(s) /\ Fits(s) /\ job[s] \in Job /\ c \in Containers /\ own \in Pids /\ pc[s] = "wire"
  BY AtWork DEF WireUp, WireUpFails, EngineGoneBeforeWiring, PidPCs
<1>2. j \in Job /\ j.c = c /\ j.pid = own /\ j.snap = job[s].snap
  BY <1>1, JobFields
<1>3. State(c) = "Starting" /\ c \in dirs /\ engine[own].c = c /\ engine[own].run # "unused"
      /\ \A p \in Pids : Serves(p, c) => p = own
  BY <1>1 DEF Fits, DirFits, StateFits, EngineFits, Owning, Busy
<1> USE SameFades DEF Fits, DirFits, StateFits, SnapFits, EngineFits, Busy, Detached, Owning, Serves, State
<1>4. CASE WireUp(s)
  <2>1. pc'[s] = "save_running" /\ job'[s] = j
    BY <1>4, Held, Gone DEF WireUp
  <2>2. wired'[c] = own /\ \A d \in Containers \ {c} : wired'[d] = wired[d]
    BY <1>1, <1>4 DEF WireUp, TypeOK, KernelOK
  <2>3. Fits(s)'
    BY <1>2, <1>3, <1>4, <2>1, <2>2 DEF WireUp
  <2>4. Proceeds(s)
    BY <1>1, <1>2, <1>4, <2>1, <2>3, Went DEF WireUp, StopPCs
  <2> QED
    BY <1>1, <1>3, <1>4, <2>2, <2>4, QuietStep DEF WireUp
<1>5. CASE WireUpFails(s)
  <2>1. pc'[s] = "abort_wait" /\ (job'[s] = job[s] \/ job'[s] = j)
    BY <1>5, Held, Gone DEF WireUpFails
  <2>2. \A d \in Containers \ {c} : wired'[d] = wired[d]
    BY <1>1, <1>5 DEF WireUpFails, TypeOK, KernelOK
  <2>3. Fade /\ engine'[own].run # "up"
    BY <1>1, <1>5, KillFades DEF WireUpFails
  <2>4. Fits(s)'
    <3>1. job'[s].c = c /\ UNCHANGED <<dirs, meta>>
      BY <1>2, <1>5, <2>1 DEF WireUpFails
    <3>2. \A p \in Pids : ~(engine'[p].run = "up" /\ engine'[p].c = c)
      BY <1>3, <2>3 DEF Fade
    <3> QED
      BY <1>3, <2>1, <3>1, <3>2
  <2>5. Proceeds(s)
    BY <1>1, <1>2, <1>5, <2>1, <2>4, Went DEF WireUpFails, StopPCs
  <2> QED
    BY <1>1, <1>3, <1>5, <2>2, <2>3, <2>5, QuietStep DEF WireUpFails
<1>6. CASE EngineGoneBeforeWiring(s)
  <2>1. pc'[s] = "save_running" /\ job'[s] = job[s]
    BY <1>6, Gone DEF EngineGoneBeforeWiring
  <2>2. Fade /\ \A d \in Containers \ {c} : wired'[d] = wired[d]
    BY <1>1, <1>6, UnwireFades DEF EngineGoneBeforeWiring
  <2>5. engine'[own].run # "up"
    BY <1>1, <1>6, <2>2 DEF EngineGoneBeforeWiring, Alive, Fade
  <2>3. Fits(s)'
    BY <1>1, <1>3, <1>6, <2>1, <2>2, <2>5 DEF EngineGoneBeforeWiring, Fade
  <2>4. Proceeds(s)
    BY <1>1, <1>6, <2>1, <2>3, Went DEF EngineGoneBeforeWiring, StopPCs
  <2> QED
    BY <1>1, <1>3, <1>6, <2>2, <2>4, QuietStep DEF EngineGoneBeforeWiring
<1> QED
  BY <1>4, <1>5, <1>6

\* What start does once its engine has gone, or been killed.
LEMMA StartEndKeeps ==
  ASSUME TypeOK, ScriptInv, NEW s \in Sessions,
         AbortReaped(s) \/ AbortCleanup(s) \/ WaitReturns(s) \/ WaitFails(s)
         \/ StartReturns(s) \/ DropReaped(s)
  PROVE  Kept
<1> USE DEF disk, kernel, temps
<1> DEFINE c == job[s].c
           snap == job[s].snap
<1>1. Busy(s) /\ Fits(s) /\ job[s] \in Job /\ c \in Containers /\ snap \in Container
  BY AtWork DEF AbortReaped, AbortCleanup, WaitReturns, WaitFails, StartReturns, DropReaped
<1>2. Halted(snap) \in Container /\ Halted(snap).state = "Stopped"
  BY <1>1, ContainerFields
<1> USE SameFades DEF Fits, DirFits, StateFits, SnapFits, EngineFits, Busy, Detached, Owning, Serves, State
<1>3. CASE AbortReaped(s)
  <2>1. pc[s] = "abort_wait" /\ pc'[s] = "abort_cleanup" /\ job'[s] = job[s]
    BY <1>3, Gone DEF AbortReaped
  <2>2. Fits(s)'
    BY <1>1, <1>3, <2>1 DEF AbortReaped
  <2>3. Proceeds(s)
    BY <1>1, <1>3, <2>1, <2>2, Went DEF AbortReaped, StopPCs
  <2> QED
    BY <1>1, <1>3, <2>3, QuietStep DEF AbortReaped
<1>4. CASE AbortCleanup(s)
  <2> DEFINE j == [job[s] EXCEPT !.snap = Halted(@), !.net = FALSE]
  <2>1. j \in Job /\ j.c = c /\ j.snap = Halted(snap)
    BY <1>1, <1>2, JobFields
  <2>2. pc[s] = "abort_cleanup" /\ pc'[s] = "abort_save" /\ job'[s] = j
    BY <1>4, Gone, Held DEF AbortCleanup
  <2>3. Fade /\ \A d \in Containers \ {c} : wired'[d] = wired[d]
    BY <1>1, <1>4, CleanupFades DEF AbortCleanup
  <2>4. Fits(s)'
    BY <1>1, <1>2, <1>4, <2>1, <2>2, <2>3 DEF AbortCleanup, Fade
  <2>5. Proceeds(s)
    BY <1>1, <1>4, <2>1, <2>2, <2>4, Went DEF AbortCleanup, StopPCs
  <2>6. State(c) = "Starting"
    BY <1>1, <2>2
  <2> QED
    BY <1>1, <1>4, <2>3, <2>5, <2>6, QuietStep DEF AbortCleanup
<1>5. CASE WaitReturns(s)
  <2> DEFINE j == [job[s] EXCEPT !.snap = Halted(@)]
  <2>1. j \in Job /\ j.c = c /\ j.snap = Halted(snap)
    BY <1>1, <1>2, JobFields
  <2>2. pc[s] = "wait" /\ pc'[s] = "save_stopped" /\ job'[s] = j
    BY <1>5, Gone, Held DEF WaitReturns
  <2>3. engine[job[s].pid].run # "up"
    BY <1>5 DEF WaitReturns, Alive
  <2>4. Fits(s)'
    BY <1>1, <1>2, <1>5, <2>1, <2>2, <2>3 DEF WaitReturns
  <2>5. Proceeds(s)
    BY <1>1, <1>5, <2>1, <2>2, <2>4, Went DEF WaitReturns, StopPCs
  <2> QED
    BY <1>1, <1>5, <2>5, QuietStep DEF WaitReturns
<1>6. CASE StartReturns(s)
  <2>1. Proceeds(s) /\ pc[s] = "cleanup"
    BY <1>1, <1>6, Ended DEF StartReturns
  <2>2. Fade /\ \A d \in Containers \ {c} : wired'[d] = wired[d]
    BY <1>1, <1>6, CleanupFades DEF StartReturns
  <2>3. \A p \in Pids : ~(engine'[p].run = "up" /\ engine'[p].c = c)
    BY <1>1, <2>1, <2>2 DEF Fade
  <2> QED
    BY <1>1, <1>6, <2>1, <2>2, <2>3, QuietStep DEF StartReturns
<1>7. CASE DropReaped(s) \/ WaitFails(s)
  BY <1>1, <1>7, Ended, QuietStep DEF DropReaped, WaitFails
<1> QED
  BY <1>3, <1>4, <1>5, <1>6, <1>7

-----------------------------------------------------------------------------
(***************************************************************************)
(* stop.                                                                   *)
(***************************************************************************)
LEMMA StopBeginKeeps ==
  ASSUME Discipline = "script", TypeOK, ScriptInv, NEW s \in Sessions, NEW c \in Containers,
         StopFind(s, c)
  PROVE  Kept
<1> USE DEF disk, kernel, temps
<1> DEFINE snap == InState(meta[c], "Stopping")
           j == JobOn(c, snap)
<1>1. snap \in Container /\ snap.state = "Stopping" /\ snap.pid = meta[c].pid
  BY ContainerFields DEF ContainerState, TypeOK, DiskOK
<1>2. j \in Job /\ j.c = c /\ j.snap = snap /\ j.pid = meta[c].pid
  BY <1>1, JobOnFields
<1>3. OthersStay(s) /\ pc'[s] = "save_stopping" /\ job'[s] = j
  BY Held, Gone DEF StopFind, OthersStay
<1>4. State(c)' = "Running" /\ c \in dirs'
  BY DEF StopFind, ScriptInv, Names, State
<1>5. \A p \in Pids : engine'[p].run = "up" /\ engine'[p].c = c => p = meta[c].pid
  BY DEF StopFind, ScriptInv, Engines, State
<1>6. Fits(s)'
  BY <1>1, <1>2, <1>3, <1>4, <1>5 DEF Fits, DirFits, StateFits, SnapFits, EngineFits, Busy, Detached, Owning, Serves
<1> QED
  BY <1>2, <1>3, <1>6, BeginStep DEF StopFind, Detached, StopPCs

LEMMA StopKeeps ==
  ASSUME TypeOK, ScriptInv, NEW s \in Sessions, Stop(s)
  PROVE  Kept
<1> USE DEF disk, kernel, temps
<1> DEFINE c == job[s].c
           snap == job[s].snap
           own == job[s].pid
<1>1. Busy(s) /\ Fits(s) /\ job[s] \in Job /\ c \in Containers /\ snap \in Container /\ own \in Pids
  BY AtWork DEF Stop, SaveStopping, ExitSeen, GraceEnds, KillGraceEnds, StopSave, PidPCs, StopPCs
<1>2. Halted(snap) \in Container /\ Halted(snap).state = "Stopped"
  BY <1>1, ContainerFields
<1> USE SameFades DEF Fits, DirFits, StateFits, SnapFits, EngineFits, Busy, Detached, Owning, Serves, State
<1>3. CASE SaveStopping(s)
  <2>1. pc[s] = "save_stopping" /\ pc'[s] = "term_wait" /\ job'[s] = job[s]
    BY <1>3, Gone DEF SaveStopping
  <2>2. /\ State(c) \in {"Running", "Stopped"} /\ snap.state = "Stopping" /\ snap.pid = own
        /\ \A p \in Pids : Serves(p, c) => p = own
    BY <1>1, <2>1
  <2>3. State(c)' = "Stopping" /\ c \in dirs'
    BY <1>1, <1>3, <2>1, <2>2 DEF SaveStopping, Save, TypeOK, DiskOK
  <2>4. Fits(s)'
    BY <1>3, <2>1, <2>2, <2>3 DEF SaveStopping
  <2>5. Proceeds(s)
    BY <1>1, <1>3, <2>1, <2>4, Went DEF SaveStopping, StopPCs
  <2>6. MovesTo(c, "Stopping")
    BY <2>2 DEF MovesTo, ContainerState, Seeing, KnownEdges, TransitionEdges, UncheckedEdges
  <2> QED
    BY <1>1, <1>3, <2>1, <2>2, <2>5, <2>6, WriteStep DEF SaveStopping
<1>4. CASE ExitSeen(s) \/ KillGraceEnds(s)
  <2> DEFINE j == [job[s] EXCEPT !.snap = Halted(@)]
  <2>1. j \in Job /\ j.c = c /\ j.snap = Halted(snap)
    BY <1>1, <1>2, JobFields
  <2>2. pc[s] \in {"term_wait", "kill_wait"} /\ pc'[s] = "stop_save" /\ job'[s] = j
    BY <1>4, Gone, Held DEF ExitSeen, KillGraceEnds
  <2>3. \A p \in Pids : ~Serves(p, c)
    BY <1>1, <1>4 DEF ExitSeen, KillGraceEnds, Alive
  <2>4. Fits(s)'
    BY <1>1, <1>2, <1>4, <2>1, <2>2, <2>3 DEF ExitSeen, KillGraceEnds
  <2>5. Proceeds(s)
    BY <1>1, <1>4, <2>1, <2>2, <2>4, Went DEF ExitSeen, KillGraceEnds, StopPCs
  <2> QED
    BY <1>1, <1>4, <2>5, QuietStep DEF ExitSeen, KillGraceEnds
<1>5. CASE GraceEnds(s)
  <2>1. pc[s] = "term_wait" /\ pc'[s] = "kill_wait" /\ job'[s] = job[s]
    BY <1>5, Gone DEF GraceEnds
  <2>2. Fade /\ engine'[own].run # "up"
    BY <1>1, <1>5, KillFades DEF GraceEnds
  <2>3. \A p \in Pids : ~(engine'[p].run = "up" /\ engine'[p].c = c)
    BY <1>1, <2>1, <2>2 DEF Fade
  <2>4. Fits(s)'
    BY <1>1, <1>5, <2>1, <2>3 DEF GraceEnds
  <2>5. Proceeds(s)
    BY <1>1, <1>5, <2>1, <2>4, Went DEF GraceEnds, StopPCs
  <2> QED
    BY <1>1, <1>5, <2>2, <2>5, QuietStep DEF GraceEnds
<1>6. CASE StopSave(s)
  <2>1. Proceeds(s) /\ pc[s] = "stop_save"
    BY <1>1, <1>6, Ended DEF StopSave
  <2>2. State(c) \in {"Stopping", "Stopped"} /\ snap.state = "Stopped" /\ \A p \in Pids : ~Serves(p, c)
    BY <1>1, <2>1
  <2>3. MovesTo(c, "Stopped")
    BY <2>2 DEF MovesTo, ContainerState, Seeing, KnownEdges, TransitionEdges
  <2> QED
    BY <1>1, <1>6, <2>1, <2>2, <2>3, WriteStep DEF StopSave
<1> QED
  BY <1>3, <1>4, <1>5, <1>6 DEF Stop

-----------------------------------------------------------------------------
(***************************************************************************)
(* destroy.                                                                *)
(***************************************************************************)
LEMMA DestroyBeginKeeps ==
  ASSUME Discipline = "script", TypeOK, ScriptInv, NEW s \in Sessions, NEW c \in Containers,
         DestroyFind(s, c)
  PROVE  Kept
<1> USE DEF disk, kernel, temps
<1> DEFINE j == [JobOn(c, meta[c]) EXCEPT !.todo = meta[c].acquired]
<1>1. JobOn(c, meta[c]) \in Job /\ JobOn(c, meta[c]).c = c /\ meta[c].acquired \in SUBSET Layers
  BY JobOnFields DEF TypeOK, DiskOK, Container
<1>2. j \in Job /\ j.c = c
  BY <1>1, JobFields
<1>3. OthersStay(s) /\ pc'[s] = "release" /\ job'[s] = j
  BY Held, Gone DEF DestroyFind, OthersStay
<1>4. State(c)' \in Removable /\ c \in dirs'
  BY DEF DestroyFind, ScriptInv, Names, State
<1>5. \A p \in Pids : ~Serves(p, c)'
  BY <1>4 DEF DestroyFind, ScriptInv, Engines, Serves, State, Removable
<1>6. Fits(s)'
  BY <1>2, <1>3, <1>4, <1>5 DEF Fits, DirFits, StateFits, SnapFits, EngineFits, Busy, Detached, Owning
<1> QED
  BY <1>2, <1>3, <1>6, BeginStep DEF DestroyFind, Detached

\* The steps of destroy that remove nothing from the container's directory.
LEMMA ReleasingKeeps ==
  ASSUME TypeOK, ScriptInv, NEW s \in Sessions,
         (\E l \in Layers : Release(s, l)) \/ LayersReleased(s) \/ RemoveAccepts(s) \/ RemoveRefuses(s)
  PROVE  Kept
<1> USE DEF disk, kernel, temps
<1> DEFINE c == job[s].c
<1>1. Busy(s) /\ Fits(s) /\ job[s] \in Job /\ c \in Containers
  BY AtWork DEF Release, LayersReleased, RemoveAccepts, RemoveRefuses
<1> USE SameFades DEF Fits, DirFits, StateFits, SnapFits, EngineFits, Busy, Detached, Owning, Serves, State
<1>2. ASSUME NEW l \in Layers, Release(s, l)
      PROVE  Kept
  <2> DEFINE j == [job[s] EXCEPT !.todo = @ \ {l}]
  <2>1. j \in Job /\ j.c = c
    BY <1>1 DEF Job
  <2>2. pc[s] = "release" /\ pc'[s] = "release" /\ Goto(s, "release") /\ job'[s] = j
    BY <1>2, Held DEF Release, Goto, TypeOK, SessionsOK
  <2>3. Fits(s)'
    <3>1. job'[s].c = c /\ UNCHANGED <<dirs, meta, engine>>
      BY <1>2, <2>1, <2>2 DEF Release
    <3>2. State(c) \in Removable /\ c \in dirs /\ \A p \in Pids : ~Serves(p, c)
      BY <1>1, <2>2
    <3> QED
      BY <2>2, <3>1, <3>2
  <2>4. Proceeds(s)
    BY <1>1, <1>2, <2>1, <2>2, <2>3, Went DEF Release, StopPCs
  <2> QED
    BY <1>1, <1>2, <2>4, QuietStep DEF Release
<1>3. CASE LayersReleased(s) \/ RemoveAccepts(s)
  <2>1. /\ pc[s] \in {"release", "remove"} /\ pc'[s] \in {"remove", "rm_files"} /\ job'[s] = job[s]
        /\ \E label \in {"remove", "rm_files"} : Goto(s, label)
    BY <1>3, Gone DEF LayersReleased, RemoveAccepts
  <2>2. Fits(s)'
    BY <1>1, <1>3, <2>1 DEF LayersReleased, RemoveAccepts
  <2>3. Proceeds(s)
    BY <1>1, <1>3, <2>1, <2>2, Went DEF LayersReleased, RemoveAccepts, StopPCs
  <2> QED
    BY <1>1, <1>3, <2>3, QuietStep DEF LayersReleased, RemoveAccepts
<1>4. CASE RemoveRefuses(s)
  BY <1>1, <1>4, Ended, QuietStep DEF RemoveRefuses
<1> QED
  BY <1>2, <1>3, <1>4

LEMMA RemovingKeeps ==
  ASSUME TypeOK, ScriptInv, NEW s \in Sessions, RemoveFiles(s) \/ RemoveDir(s)
  PROVE  Kept
<1> USE DEF disk, kernel, temps
<1> DEFINE c == job[s].c
<1>1. Busy(s) /\ Fits(s) /\ job[s] \in Job /\ c \in Containers
  BY AtWork DEF RemoveFiles, RemoveDir
<1>2. /\ c \in dirs /\ \A p \in Pids : ~Serves(p, c)
      /\ pc[s] = "rm_files" => State(c) \in Removable
      /\ pc[s] = "rmdir" => State(c) = "NoFile"
  BY <1>1 DEF RemoveFiles, RemoveDir, Fits, DirFits, StateFits, EngineFits, Owning, Busy
<1>3. \A t \in Sessions \ {s} : pc[t] \in Detached \cup {"idle"} /\ (Busy(t) => job[t].c # c)
  BY Sole DEF RemoveFiles, RemoveDir, Detached, StopPCs
<1>4. CASE RemoveFiles(s)
  <2>1. pc[s] = "rm_files" /\ pc'[s] = "rmdir" /\ job' = job
    BY <1>4, Gone DEF RemoveFiles
  <2>2. State(c)' = "NoFile" /\ \A d \in Containers \ {c} : meta'[d] = meta[d]
    BY <1>1, <1>4, <2>1 DEF RemoveFiles, NoFile, State, TypeOK, DiskOK
  <2>3. Fits(s)'
    BY <1>2, <1>4, <2>1, <2>2 DEF RemoveFiles, Fits, DirFits, StateFits, SnapFits, EngineFits, Busy, Detached, Owning, Serves
  <2>4. Proceeds(s)
    BY <1>1, <1>4, <2>1, <2>3, Went DEF RemoveFiles, Detached, StopPCs
  <2>5. Alone'
    BY <2>4, AloneKept DEF ScriptInv
  <2>6. Names' /\ Engines' /\ Wires'
    BY <1>2, <1>4, <2>2 DEF RemoveFiles, ScriptInv, Names, Engines, Wires, Serves, State
  <2>7. ASSUME NEW t \in Sessions, t # s
        PROVE  Fits(t)'
    <3>1. pc'[t] = pc[t] /\ job'[t] = job[t] /\ Fits(t) /\ pc[t] \in Detached \cup {"idle"} /\ (Busy(t) => job[t].c \in Containers \ {c})
      BY <1>3, <2>4, <2>7, BusyJob DEF Proceeds, OthersStay, ScriptInv, Busy
    <3> QED
      BY <1>4, <2>2, <3>1 DEF RemoveFiles, Fits, DirFits, StateFits, SnapFits, EngineFits, Busy, Detached, Serves, State
  <2>8. MovesTo(c, "NoFile")
    BY <1>2, <2>1 DEF MovesTo, Removable, ContainerState, Seeing, KnownEdges, TransitionEdges, UncheckedEdges
  <2>9. Lives
    BY <1>1, <1>4, <2>2, <2>8, MoveLives DEF RemoveFiles
  <2> QED
    BY <2>3, <2>5, <2>6, <2>7, <2>9 DEF Kept, ScriptInv
<1>5. CASE RemoveDir(s)
  <2>1. pc[s] = "rmdir" /\ dirs' \in {dirs, dirs \ {c}}
    BY <1>2, <1>5 DEF RemoveDir, State
  <2>2. Proceeds(s)
    BY <1>1, <1>5, Ended DEF RemoveDir
  <2>3. Alone'
    BY <2>2, AloneKept DEF ScriptInv
  <2>4. Names' /\ Engines' /\ Wires'
    BY <1>2, <1>5, <2>1 DEF RemoveDir, ScriptInv, Names, Engines, Wires, Serves, State
  <2>5. ASSUME NEW t \in Sessions, t # s
        PROVE  Fits(t)'
    <3>1. pc'[t] = pc[t] /\ job'[t] = job[t] /\ Fits(t) /\ pc[t] \in Detached \cup {"idle"} /\ (Busy(t) => job[t].c # c)
      BY <1>3, <2>2, <2>5 DEF Proceeds, OthersStay, ScriptInv
    <3> QED
      BY <1>5, <2>1, <3>1 DEF RemoveDir, Fits, DirFits, StateFits, SnapFits, EngineFits, Busy, Detached, Serves, State
  <2>6. Lives
    BY <1>5 DEF RemoveDir, Lives, L!vars, Visible, Served
  <2> QED
    BY <2>2, <2>3, <2>4, <2>5, <2>6 DEF Kept, ScriptInv, Proceeds
<1> QED
  BY <1>4, <1>5

-----------------------------------------------------------------------------
(***************************************************************************)
(* Engines that exit, and faults.                                          *)
(***************************************************************************)
LEMMA DieLives ==
  ASSUME Fade, UNCHANGED meta
  PROVE  Lives
<1> DEFINE S == {c \in Containers : \A p \in Pids : ~Serves(p, c)'}
<1>1. Visible' = Visible
  BY DEF Visible
<1>2. Served' = [c \in Containers |-> Served[c] /\ c \notin S]
  BY FadeServes DEF Served, Serves
<1>3. L!Die(S)
  BY <1>1, <1>2 DEF L!Die
<1> QED
  BY <1>3 DEF Lives, L!Next

LEMMA EngineExitsKeeps ==
  ASSUME TypeOK, ScriptInv, NEW p \in Pids, EngineExits(p)
  PROVE  Kept
<1> USE DEF disk
<1>1. Fade /\ engine'[p].run # "up"
  BY DEF EngineExits, Fade, Alive, TypeOK, KernelOK, Engine
<1>2. \A c \in Containers : wired'[c] = wired[c] \/ wired[c] = p
  BY DEF EngineExits
<1>3. Alone' /\ Names'
  BY DEF EngineExits, ScriptInv, Alone, Names, Busy, State
<1>4. Engines'
  BY <1>1, FadeServes DEF EngineExits, ScriptInv, Engines, Fade, State, Serves
<1>5. Wires'
  BY <1>1, <1>2 DEF EngineExits, ScriptInv, Wires, Fade, State
<1>6. ASSUME NEW t \in Sessions
      PROVE  Fits(t)'
  <2>1. Fits(t) /\ (pc[t] \in {"wire", "save_running"} => job[t].pid \in Pids /\ job[t].c \in Containers)
    BY BusyJob DEF ScriptInv, PidPCs
  <2>2. DirFits(t)' /\ StateFits(t)' /\ SnapFits(t)'
    BY <2>1 DEF EngineExits, Fits, DirFits, StateFits, SnapFits, State, Busy
  <2>3. EngineFits(t)'
    BY <1>1, <1>2, <2>1 DEF EngineExits, Fits, EngineFits, Fade, Serves, Busy
  <2> QED
    BY <2>2, <2>3 DEF Fits
<1>7. Lives
  BY <1>1, DieLives DEF EngineExits
<1> QED
  BY <1>3, <1>4, <1>5, <1>6, <1>7 DEF Kept, ScriptInv

\* A save that fails, or that a kill cuts short, and a helper lost.
LEMMA FaultKeeps ==
  ASSUME TypeOK, ScriptInv, NEW s \in Sessions,
         Crash(s) \/ HelperLost(s) \/ SaveFails(s) \/ SaveLost(s)
  PROVE  Kept
<1> USE DEF disk, kernel
<1>1. Busy(s) /\ Fits(s) /\ job[s].c \in Containers
  BY AtWork DEF Crash, HelperLost, SaveFails, SaveLost, SavePCs
<1>2. CASE End(s) /\ UNCHANGED <<dirs, meta, drawn, kernel>>
  BY <1>1, <1>2, Ended, QuietStep, SameFades
<1>3. CASE SaveError(s) /\ pc[s] = "save_running"
  <2> DEFINE own == job[s].pid
  <2>1. own \in Pids /\ pc'[s] = "drop_wait" /\ job' = job
    BY <1>3, AtWork, Gone DEF SaveError, PidPCs
  <2>2. Fade /\ engine'[own].run # "up"
    BY <1>3, <2>1, KillFades DEF SaveError
  <2>3. /\ State(job[s].c) = "Starting" /\ job[s].c \in dirs
        /\ \A p \in Pids : ~(engine'[p].run = "up" /\ engine'[p].c = job[s].c)
    BY <1>1, <1>3, <2>2 DEF Fits, DirFits, StateFits, EngineFits, Owning, Serves, Busy, Fade
  <2>4. Fits(s)'
    BY <1>3, <2>1, <2>3 DEF SaveError, Fits, DirFits, StateFits, SnapFits, EngineFits, Busy, Detached, Owning, Serves, State
  <2>5. Proceeds(s)
    BY <1>1, <1>3, <2>1, <2>4, Went DEF SaveError, Detached, StopPCs
  <2> QED
    BY <1>1, <1>3, <2>2, <2>3, <2>5, QuietStep DEF SaveError
<1> QED
  BY <1>2, <1>3 DEF Crash, HelperLost, SaveFails, SaveLost, SaveError

\* A save up to its rename: the directory it would make is there.
LEMMA SavingKeeps ==
  ASSUME TypeOK, ScriptInv, NEW s \in Sessions, Saving(s)
  PROVE  Kept
<1>1. CASE SaveDir(s) \/ SaveFile(s)
  <2>1. UNCHANGED <<dirs, meta, kernel, drawn, pc, job>>
    <3>1. SaveDir(s) => job[s].c \in dirs
      BY DEF SaveDir, SavePCs, ScriptInv, Fits, DirFits, Busy
    <3> QED
      BY <1>1, <3>1 DEF SaveDir, SaveFile
  <2>2. ScriptInv'
    BY <2>1 DEF kernel, ScriptInv, Alone, Names, Engines, Wires, Fits, DirFits, StateFits, SnapFits, EngineFits,
       Busy, Serves, State
  <2>3. Lives
    BY <2>1 DEF kernel, Lives, L!vars, Visible, Served
  <2> QED
    BY <2>2, <2>3 DEF Kept
<1> QED
  BY <1>1, FaultKeeps DEF Saving

LEMMA RebootKeeps ==
  ASSUME TypeOK, ScriptInv, Reboot
  PROVE  Kept
<1> USE DEF disk
<1>1. Fade /\ \A p \in Pids : engine'[p].run # "up"
  BY DEF Reboot, Fade, Alive, TypeOK, KernelOK, Engine
<1>2. \A s \in Sessions : pc'[s] = "idle" /\ job'[s].c = NoContainer
  BY DEF Reboot, NoJob
<1>3. Alone' /\ Names'
  BY <1>2 DEF Reboot, ScriptInv, Alone, Names, Busy, State
<1>4. Engines' /\ Wires'
  BY <1>1 DEF Reboot, ScriptInv, Engines, Wires, Fade, State
<1>5. \A s \in Sessions : Fits(s)'
  BY <1>2 DEF Fits, DirFits, StateFits, SnapFits, EngineFits, Busy, Detached, Owning
<1>6. Lives
  BY <1>1, DieLives DEF Reboot
<1> QED
  BY <1>3, <1>4, <1>5, <1>6 DEF Kept, ScriptInv

-----------------------------------------------------------------------------
(***************************************************************************)
(* The invariant is inductive, and every step is one of the lifecycle's.   *)
(***************************************************************************)
LEMMA ScriptInit == Init => ScriptInv /\ L!Init
<1> SUFFICES ASSUME Init PROVE ScriptInv /\ L!Init
  OBVIOUS
<1>1. /\ \A c \in Containers : State(c) = "NoFile"
      /\ \A s \in Sessions : pc[s] = "idle" /\ job[s].c = NoContainer
      /\ \A p \in Pids : engine[p].run = "unused"
  BY DEF Init, State, NoFile, NoJob
<1>2. ScriptInv
  BY <1>1 DEF Init, ScriptInv, Alone, Names, Engines, Wires, Fits, DirFits, StateFits, SnapFits, EngineFits,
     Busy, Detached, Owning
<1>3. L!Init
  BY <1>1 DEF L!Init, Visible, Served, State
<1> QED
  BY <1>2, <1>3

LEMMA ScriptStep ==
  ASSUME Discipline = "script"
  PROVE  TypeOK /\ ScriptInv /\ [Next]_vars => Kept
<1> SUFFICES ASSUME TypeOK, ScriptInv, [Next]_vars PROVE Kept
  OBVIOUS
<1>1. ASSUME NEW s \in Sessions, Begin(s) PROVE Kept
  BY <1>1, CreateKeeps, StartBeginKeeps, StopBeginKeeps, DestroyBeginKeeps DEF Begin
<1>2. ASSUME NEW s \in Sessions, Create(s) \/ Stop(s) PROVE Kept
  BY <1>2, CreateKeeps, StopKeeps
<1>3. ASSUME NEW s \in Sessions, Start(s) PROVE Kept
  BY <1>3, StartSaveKeeps, StartLayersKeep, SpawnKeeps, WiringKeeps, StartEndKeeps DEF Start, StartFailsReaping
<1>4. ASSUME NEW s \in Sessions, Destroy(s) PROVE Kept
  BY <1>4, ReleasingKeeps, RemovingKeeps DEF Destroy
<1>5. CASE UNCHANGED vars
  <2>1. ScriptInv'
    BY <1>5 DEF vars, ScriptInv, Alone, Names, Engines, Wires, Fits, DirFits, StateFits, SnapFits, EngineFits,
       Busy, Serves, State
  <2>2. Lives
    BY <1>5 DEF vars, Lives, L!vars, Visible, Served
  <2> QED
    BY <2>1, <2>2 DEF Kept
<1> QED
  BY <1>1, <1>2, <1>3, <1>4, <1>5, EngineExitsKeeps, SavingKeeps, FaultKeeps, RebootKeeps DEF Next, Proceed

-----------------------------------------------------------------------------
(***************************************************************************)
(* The theorems.                                                           *)
(***************************************************************************)
\* The invariant holds in every reachable state, and every step is one of the
\* lifecycle's.
LEMMA ScriptHolds ==
  ASSUME Discipline = "script"
  PROVE  Spec => []ScriptInv /\ L!Init /\ [][L!Next]_(L!vars)
<1>1. Init => ScriptInv /\ L!Init
  BY ScriptInit
<1>2. TypeOK /\ ScriptInv /\ [Next]_vars => ScriptInv' /\ [L!Next]_(L!vars)
  BY ScriptStep DEF Kept, Lives
<1> QED
  BY <1>1, <1>2, TypeCorrect, PTL DEF Spec

\* When nobody starts or destroys a container another session is at work on,
\* two engines never run on one data volume: create refuses a name that is
\* taken, and start a container that has not been recorded Stopped.
THEOREM EnginesDoNotShare ==
  ASSUME Discipline = "script"
  PROVE  Spec => []OneEnginePerVolume
<1>1. ScriptInv => OneEnginePerVolume
  <2> SUFFICES ASSUME ScriptInv, NEW p \in Pids, NEW q \in Pids,
                      engine[p].run = "up", engine[q].run = "up", p # q
               PROVE  NameOf[engine[p].c] # NameOf[engine[q].c]
    BY DEF OneEnginePerVolume
  <2>1. engine[p].c \in dirs /\ engine[q].c \in dirs
    BY DEF ScriptInv, Engines, Names, State
  <2>2. engine[p].c # engine[q].c
    BY DEF ScriptInv, Engines, Serves
  <2> QED
    BY <2>1, <2>2 DEF ScriptInv, Names
<1> QED
  BY <1>1, ScriptHolds, PTL

\* The state that start and destroy look at is true of the engine: one that is
\* recorded Created or Stopped, or whose record is gone, is not running.
THEOREM StoppedIsDead ==
  ASSUME Discipline = "script"
  PROVE  Spec => []StoppedMeansDead
<1>1. ScriptInv => StoppedMeansDead
  BY DEF ScriptInv, Engines, StoppedMeansDead, State, Removable
<1> QED
  BY <1>1, ScriptHolds, PTL

\* The cleanup of a start never takes the veth and cgroup of a later start of
\* the same container, which have the same names.
THEOREM RunningKeepsItsWire ==
  ASSUME Discipline = "script"
  PROVE  Spec => []RunningIsWired
<1>1. ScriptInv => RunningIsWired
  BY DEF ScriptInv, Wires, RunningIsWired, State
<1> QED
  BY <1>1, ScriptHolds, PTL

\* The commands, with their blind saves and their crashes, implement the
\* lifecycle of Lifecycle.tla: no save takes a container along an edge that is
\* not known, none brings it to rest over a live engine, and an engine is
\* spawned only for a Starting container that has none.
THEOREM ImplementsTheLifecycle ==
  ASSUME Discipline = "script"
  PROVE  Spec => ImplementsLifecycle
BY ScriptHolds, PTL DEF ImplementsLifecycle, L!Spec

-----------------------------------------------------------------------------
(***************************************************************************)
(* Reference counts.  A start that has ensured a layer it has not recorded *)
(* yet is entitled to it as much as a container that holds it.             *)
(***************************************************************************)
Taking(s, l) ==
  \/ pc[s] = "layers" /\ l \in job[s].fresh
  \/ pc[s] = "save_acquired" /\ l \in job[s].snap.acquired

Claimants(l) == Holders(l) \cup {c \in Containers : \E s \in Sessions : job[s].c = c /\ Taking(s, l)}

Covered(l) == IsFiniteSet(Claimants(l)) /\ Cardinality(Claimants(l)) <= refcount[l]

\* What a session knows of the layers its container holds.
Tracked(s) ==
  LET held == meta[job[s].c].acquired  snap == job[s].snap IN
  /\ pc[s] \in {"mkdir", "create_save"} => snap.acquired = {}
  /\ pc[s] = "save_acquired" => held \subseteq snap.acquired
  /\ pc[s] \in (StartPCs \ {"save_acquired"}) \cup StopPCs => snap.acquired = held
  /\ pc[s] = "save_starting" => job[s].fresh = {}
  /\ pc[s] = "release" => job[s].todo \subseteq held
  /\ pc[s] = "rmdir" => held = {}

CountInv == (\A s \in Sessions : Tracked(s)) /\ (\A l \in Layers : Covered(l))

\* What session s makes of container c's claim to a layer.
Claims(s, c, l) ==
  \/ l \in meta[c].acquired /\ (pc[s] \in DestroyPCs => l \in job[s].todo)
  \/ Taking(s, l)

\* A session goes on with its container or returns, and writes no other
\* record's layers; one that may share its container does not even write its own.
Touches(s, c) ==
  /\ Busy(s) /\ job[s].c = c /\ OthersStay(s)
  /\ pc'[s] = "idle" \/ job'[s].c = c
  /\ \A d \in Containers : d # c \/ pc[s] \in Detached \cup StopPCs => meta'[d].acquired = meta[d].acquired

LEMMA TrackedKept ==
  ASSUME TypeOK, ScriptInv, NEW s \in Sessions, NEW c \in Containers, Touches(s, c),
         \A t \in Sessions : Tracked(t), Tracked(s)'
  PROVE  \A t \in Sessions : Tracked(t)'
<1> SUFFICES ASSUME NEW t \in Sessions, t # s PROVE Tracked(t)'
  OBVIOUS
<1>1. pc'[t] = pc[t] /\ job'[t] = job[t] /\ Tracked(t)
  BY DEF Touches, OthersStay
<1>2. CASE Busy(t)
  <2>1. job[t].c \in Containers
    BY <1>2, BusyJob DEF Busy
  <2>2. meta'[job[t].c].acquired = meta[job[t].c].acquired \/ pc[t] = "mkdir"
    <3>1. CASE job[t].c = c
      BY <1>2, <2>1, <3>1, Sharers DEF Touches, ScriptInv
    <3> QED
      BY <2>1, <3>1 DEF Touches
  <2>3. job'[t].c = job[t].c
    BY <1>1
  <2> QED
    BY <1>1, <2>2, <2>3 DEF Tracked, StartPCs, StopPCs
<1>3. CASE ~Busy(t)
  BY <1>1, <1>3 DEF Tracked, Busy, StartPCs, StopPCs
<1> QED
  BY <1>2, <1>3

LEMMA ClaimantsStep ==
  ASSUME TypeOK, ScriptInv, NEW s \in Sessions, NEW c \in Containers, Touches(s, c), NEW l \in Layers
  PROVE  /\ Claimants(l)' \subseteq Claimants(l) \cup {c}
         /\ c \in Claimants(l)' => Claims(s, c, l)'
         /\ Claims(s, c, l) => c \in Claimants(l)
<1>1. \A t \in Sessions \ {s} : pc'[t] = pc[t] /\ job'[t] = job[t]
  BY DEF Touches, OthersStay
<1>2. \A t \in Sessions \ {s} : job[t].c = c => pc[t] \in Detached \cup StopPCs
  <2> SUFFICES ASSUME NEW t \in Sessions, t # s, job[t].c = c PROVE pc[t] \in Detached \cup StopPCs
    OBVIOUS
  <2>1. Busy(t)
    BY ConstantsAssumption DEF ScriptInv, Fits, DirFits, Busy
  <2> QED
    BY <2>1, Sharers DEF Touches, ScriptInv
<1>3. \A t \in Sessions \ {s} : job[t].c = c => pc[t] \notin DestroyPCs /\ ~Taking(t, l)
  BY <1>2 DEF Detached, StopPCs, DestroyPCs, Taking
<1>4. ASSUME NEW d \in Containers, d # c, d \in Claimants(l)'
      PROVE  d \in Claimants(l)
  <2>1. meta'[d].acquired = meta[d].acquired
    BY <1>4 DEF Touches
  <2>2. pc'[s] = "idle" \/ job'[s].c # d
    BY <1>4 DEF Touches
  <2>3. CASE d \in Holders(l)'
    <3>1. l \in meta[d].acquired
      BY <2>1, <2>3 DEF Holders
    <3>2. ASSUME NEW t \in Sessions, pc[t] \in DestroyPCs, job[t].c = d PROVE l \in job[t].todo
      <4>1. t # s
        BY <1>4, <3>2 DEF Touches
      <4> QED
        BY <1>1, <2>3, <3>2, <4>1 DEF Holders
    <3> QED
      BY <3>1, <3>2 DEF Holders, Claimants
  <2>4. ASSUME NEW t \in Sessions, job'[t].c = d, Taking(t, l)' PROVE d \in Claimants(l)
    <3>1. t # s
      BY <2>2, <2>4 DEF Taking
    <3> QED
      BY <1>1, <2>4, <3>1 DEF Taking, Claimants
  <2> QED
    BY <1>4, <2>3, <2>4 DEF Claimants
<1>5. ASSUME c \in Claimants(l)'
      PROVE  Claims(s, c, l)'
  <2>1. CASE c \in Holders(l)'
    <3>1. CASE pc'[s] = "idle"
      BY <2>1, <3>1 DEF Holders, Claims, DestroyPCs
    <3>2. CASE job'[s].c = c
      BY <2>1, <3>2 DEF Holders, Claims
    <3> QED
      BY <3>1, <3>2 DEF Touches
  <2>2. ASSUME NEW t \in Sessions, job'[t].c = c, Taking(t, l)' PROVE Claims(s, c, l)'
    <3>1. CASE t = s
      BY <2>2, <3>1 DEF Claims
    <3>2. CASE t # s
      BY <1>1, <1>3, <2>2, <3>2 DEF Taking
    <3> QED
      BY <3>1, <3>2
  <2> QED
    BY <1>5, <2>1, <2>2 DEF Claimants
<1>6. ASSUME Claims(s, c, l)
      PROVE  c \in Claimants(l)
  <2>1. CASE Taking(s, l)
    BY <2>1 DEF Touches, Claimants
  <2>2. CASE l \in meta[c].acquired /\ (pc[s] \in DestroyPCs => l \in job[s].todo)
    BY <1>3, <2>2 DEF Holders, Claimants
  <2> QED
    BY <1>6, <2>1, <2>2 DEF Claims
<1>7. Claimants(l)' \subseteq Containers
  BY DEF Claimants, Holders
<1> QED
  BY <1>4, <1>5, <1>6, <1>7

\* Cardinality, with a claimant more and with one less.
LEMMA Counting ==
  ASSUME NEW S, NEW T, NEW c, NEW n \in Nat, IsFiniteSet(S), Cardinality(S) <= n
  PROVE  /\ T \subseteq S => IsFiniteSet(T) /\ Cardinality(T) <= n
         /\ T \subseteq S \cup {c} => IsFiniteSet(T) /\ Cardinality(T) <= n + 1
         /\ c \in S /\ T \subseteq S \ {c} => n > 0 /\ IsFiniteSet(T) /\ Cardinality(T) <= n - 1
<1>1. Cardinality(S) \in Nat
  BY FS_CardinalityType
<1>2. ASSUME T \subseteq S PROVE IsFiniteSet(T) /\ Cardinality(T) <= n
  <2>1. IsFiniteSet(T) /\ Cardinality(T) <= Cardinality(S)
    BY <1>2, FS_Subset
  <2>2. Cardinality(T) \in Nat
    BY <2>1, FS_CardinalityType
  <2> QED
    BY <1>1, <2>1, <2>2
<1>3. ASSUME T \subseteq S \cup {c} PROVE IsFiniteSet(T) /\ Cardinality(T) <= n + 1
  <2>1. IsFiniteSet(S \cup {c}) /\ Cardinality(S \cup {c}) <= Cardinality(S) + 1
    BY <1>1, FS_AddElement
  <2>2. IsFiniteSet(T) /\ Cardinality(T) <= Cardinality(S \cup {c})
    BY <1>3, <2>1, FS_Subset
  <2>3. Cardinality(T) \in Nat /\ Cardinality(S \cup {c}) \in Nat
    BY <2>1, <2>2, FS_CardinalityType
  <2> QED
    BY <1>1, <2>1, <2>2, <2>3
<1>4. ASSUME c \in S, T \subseteq S \ {c} PROVE n > 0 /\ IsFiniteSet(T) /\ Cardinality(T) <= n - 1
  <2>1. IsFiniteSet(S \ {c}) /\ Cardinality(S \ {c}) = Cardinality(S) - 1
    BY <1>4, FS_RemoveElement
  <2>2. IsFiniteSet(T) /\ Cardinality(T) <= Cardinality(S \ {c})
    BY <1>4, <2>1, FS_Subset
  <2>3. Cardinality(T) \in Nat /\ Cardinality(S \ {c}) \in Nat
    BY <2>1, <2>2, FS_CardinalityType
  <2> QED
    BY <1>1, <2>1, <2>2, <2>3
<1> QED
  BY <1>2, <1>3, <1>4

\* A step that counts nothing.
LEMMA CoveredKept ==
  ASSUME TypeOK, ScriptInv, CountInv, NEW s \in Sessions, NEW c \in Containers, Touches(s, c),
         Tracked(s)', UNCHANGED refcount,
         \A l \in Layers : Claims(s, c, l)' => Claims(s, c, l)
  PROVE  CountInv'
<1>1. \A t \in Sessions : Tracked(t)'
  BY TrackedKept DEF CountInv
<1>2. ASSUME NEW l \in Layers PROVE Covered(l)'
  <2>1. Claimants(l)' \subseteq Claimants(l)
    BY ClaimantsStep
  <2>2. refcount[l] \in Nat /\ refcount'[l] = refcount[l]
    BY DEF TypeOK, DiskOK
  <2> QED
    BY <2>1, <2>2, Counting DEF CountInv, Covered
<1> QED
  BY <1>1, <1>2 DEF CountInv

\* The program points of start and stop at which the snapshot and the record
\* name the same layers and none is being ensured.
Settled == (StartPCs \ {"save_starting", "layers", "save_acquired"}) \cup StopPCs

LEMMA CountSettled ==
  ASSUME TypeOK, ScriptInv, CountInv, NEW s \in Sessions, NEW c \in Containers, job[s].c = c,
         pc[s] \in Settled, OthersStay(s), UNCHANGED refcount,
         UNCHANGED meta \/ \E record \in Container : Save(s, record) /\ record.acquired = job[s].snap.acquired,
         \/ pc'[s] = "idle"
         \/ pc'[s] \in Settled /\ job'[s].c = c /\ job'[s].snap.acquired = job[s].snap.acquired
  PROVE  CountInv'
<1>1. job[s].snap.acquired = meta[c].acquired
  BY DEF CountInv, Tracked, Settled
<1>2. \A d \in Containers : meta'[d].acquired = meta[d].acquired
  BY <1>1 DEF Save, TypeOK, DiskOK
<1>3. Touches(s, c)
  BY <1>2 DEF Touches, Busy, Settled, StartPCs, StopPCs
<1>4. Tracked(s)'
  BY <1>1, <1>2 DEF Tracked, Settled, StartPCs, StopPCs
<1>5. \A l \in Layers : Claims(s, c, l)' => Claims(s, c, l)
  BY <1>2 DEF Claims, Taking, Settled, StartPCs, StopPCs, DestroyPCs
<1> QED
  BY <1>3, <1>4, <1>5, CoveredKept

\* A command that returns without a save, destroy excepted.
LEMMA CountEnd ==
  ASSUME TypeOK, ScriptInv, CountInv, NEW s \in Sessions, Busy(s), pc[s] \notin DestroyPCs,
         End(s), UNCHANGED <<meta, refcount>>
  PROVE  CountInv'
<1>1. PICK c \in Containers : job[s].c = c
  BY BusyJob DEF Busy
<1>2. pc'[s] = "idle" /\ OthersStay(s)
  BY Ended DEF Proceeds
<1>3. Touches(s, c) /\ Tracked(s)'
  BY <1>1, <1>2 DEF Touches, Tracked, StartPCs, StopPCs
<1>4. \A l \in Layers : Claims(s, c, l)' => Claims(s, c, l)
  BY <1>2 DEF Claims, Taking
<1> QED
  BY <1>1, <1>3, <1>4, CoveredKept

\* A command that begins.
LEMMA CountBegin ==
  ASSUME Discipline = "script", TypeOK, ScriptInv, CountInv, NEW s \in Sessions, Begin(s)
  PROVE  CountInv'
<1> USE DEF disk, kernel, temps
<1>1. UNCHANGED <<meta, refcount>> /\ pc[s] = "idle"
  BY DEF Begin, CreateFind, StartFind, StopFind, DestroyFind, MayBegin
<1>2. OthersStay(s) /\ Tracked(s)' /\ pc'[s] \notin {"layers", "save_acquired"}
  <2>1. ASSUME NEW c \in Containers, CreateFind(s, c)
        PROVE  OthersStay(s) /\ Tracked(s)' /\ pc'[s] = "mkdir"
    <3>1. InState(NoFile, "Created") \in Container /\ InState(NoFile, "Created").acquired = {}
      BY EmptyRecords, ContainerFields DEF ContainerState, InState, NoFile
    <3>2. OthersStay(s) /\ pc'[s] = "mkdir" /\ job'[s] = JobOn(c, InState(NoFile, "Created"))
      BY <2>1, Held, Gone DEF CreateFind, OthersStay
    <3>3. job'[s].snap.acquired = {}
      BY <3>1, <3>2, JobOnFields
    <3> QED
      BY <3>2, <3>3 DEF Tracked, StartPCs, StopPCs
  <2>2. ASSUME NEW c \in Containers, NEW state \in ContainerState, NEW label \in {"save_starting", "save_stopping"},
               Goto(s, label), Hold(s, JobOn(c, InState(meta[c], state)))
        PROVE  OthersStay(s) /\ Tracked(s)' /\ pc'[s] = label
    <3>1. InState(meta[c], state) \in Container /\ InState(meta[c], state).acquired = meta[c].acquired
      BY ContainerFields DEF InState, TypeOK, DiskOK, Container
    <3>2. OthersStay(s) /\ pc'[s] = label /\ job'[s] = JobOn(c, InState(meta[c], state))
      BY <2>2, Held, Gone DEF OthersStay
    <3>3. job'[s].c = c /\ job'[s].snap.acquired = meta[c].acquired
      BY <3>1, <3>2, JobOnFields
    <3>4. job'[s].fresh = {}
      BY <3>2 DEF JobOn, NoJob
    <3> QED
      BY <1>1, <3>2, <3>3, <3>4 DEF Tracked, StartPCs, StopPCs
  <2>3. ASSUME NEW c \in Containers, DestroyFind(s, c)
        PROVE  OthersStay(s) /\ Tracked(s)' /\ pc'[s] = "release"
    <3>1. OthersStay(s) /\ pc'[s] = "release" /\ job'[s] = [JobOn(c, meta[c]) EXCEPT !.todo = meta[c].acquired]
      BY <2>3, Held, Gone DEF DestroyFind, OthersStay
    <3>2. job'[s].c = c /\ job'[s].todo = meta[c].acquired
      BY <3>1 DEF JobOn, NoJob
    <3> QED
      BY <1>1, <3>1, <3>2 DEF Tracked, StartPCs, StopPCs
  <2> QED
    BY <2>1, <2>2, <2>3 DEF Begin, StartFind, StopFind, ContainerState
<1>3. \A t \in Sessions : Tracked(t)'
  <2> SUFFICES ASSUME NEW t \in Sessions, t # s PROVE Tracked(t)'
    BY <1>2
  <2>1. pc'[t] = pc[t] /\ job'[t] = job[t] /\ Tracked(t)
    BY <1>2 DEF OthersStay, CountInv
  <2> QED
    BY <1>1, <2>1 DEF Tracked
<1>4. ASSUME NEW l \in Layers PROVE Claimants(l)' \subseteq Claimants(l)
  <2>1. ASSUME NEW t \in Sessions, Taking(t, l)' PROVE job'[t].c = job[t].c /\ Taking(t, l)
    BY <1>2, <2>1 DEF Taking, OthersStay
  <2>2. Holders(l)' \subseteq Holders(l)
    BY <1>1, <1>2 DEF Holders, OthersStay, DestroyPCs
  <2> QED
    BY <2>1, <2>2 DEF Claimants
<1>5. ASSUME NEW l \in Layers PROVE Covered(l)'
  BY <1>1, <1>4, Counting DEF CountInv, Covered, TypeOK, DiskOK
<1> QED
  BY <1>3, <1>5 DEF CountInv

LEMMA CountCreate ==
  ASSUME TypeOK, ScriptInv, CountInv, NEW s \in Sessions, Create(s)
  PROVE  CountInv'
<1> USE DEF disk, kernel, temps
<1> DEFINE snap == job[s].snap
<1>1. PICK c \in Containers : job[s].c = c /\ Busy(s) /\ snap \in Container /\ pc[s] \in CreatePCs
  BY AtWork DEF Create, CreateDir, CreateSave, CreateVolume, CreatePCs
<1>2. ASSUME pc[s] \in {"mkdir", "create_save"} PROVE snap.acquired = {}
  BY <1>2 DEF CountInv, Tracked
<1>3. CASE CreateDir(s)
  <2>1. pc[s] = "mkdir" /\ pc'[s] = "create_save" /\ job' = job /\ OthersStay(s)
    BY <1>3, Gone DEF CreateDir, OthersStay
  <2>2. Touches(s, c) /\ Tracked(s)'
    BY <1>1, <1>2, <1>3, <2>1 DEF CreateDir, Touches, Tracked, StartPCs, StopPCs
  <2>3. \A l \in Layers : Claims(s, c, l)' => Claims(s, c, l)
    BY <1>3, <2>1 DEF CreateDir, Claims, Taking, DestroyPCs
  <2> QED
    BY <1>1, <1>3, <2>2, <2>3, CoveredKept DEF CreateDir
<1>4. CASE CreateSave(s)
  <2>1. pc[s] = "create_save" /\ pc'[s] = "create_volume" /\ job' = job /\ OthersStay(s)
    BY <1>4, Gone DEF CreateSave, OthersStay
  <2>2. meta'[c].acquired = {} /\ \A d \in Containers \ {c} : meta'[d] = meta[d]
    BY <1>1, <1>2, <1>4, <2>1 DEF CreateSave, Save, TypeOK, DiskOK
  <2>3. Touches(s, c) /\ Tracked(s)'
    BY <1>1, <2>1, <2>2 DEF Touches, Tracked, StartPCs, StopPCs, Detached
  <2>4. \A l \in Layers : Claims(s, c, l)' => Claims(s, c, l)
    BY <2>1, <2>2 DEF Claims, Taking
  <2> QED
    BY <1>1, <1>4, <2>3, <2>4, CoveredKept DEF CreateSave
<1>5. CASE CreateVolume(s) /\ Goto(s, "remove") /\ UNCHANGED job
  <2>1. pc[s] = "create_volume" /\ pc'[s] = "remove" /\ job' = job /\ OthersStay(s)
    BY <1>5, Gone DEF CreateVolume, OthersStay
  <2>2. Touches(s, c) /\ Tracked(s)'
    BY <1>1, <1>5, <2>1 DEF CreateVolume, Touches, Tracked, StartPCs, StopPCs
  <2>3. \A l \in Layers : Claims(s, c, l)' => Claims(s, c, l)
    BY <1>5, <2>1 DEF CreateVolume, Claims, Taking, DestroyPCs
  <2> QED
    BY <1>1, <1>5, <2>2, <2>3, CoveredKept DEF CreateVolume
<1>6. CASE CreateVolume(s) /\ End(s)
  BY <1>1, <1>6, CountEnd DEF CreateVolume, DestroyPCs
<1> QED
  BY <1>3, <1>4, <1>5, <1>6 DEF Create, CreateVolume

LEMMA CountStartLayers ==
  ASSUME TypeOK, ScriptInv, CountInv, NEW s \in Sessions,
         SaveStarting(s) \/ (\E l \in Layers : EnsureLayer(s, l)) \/ LayersEnsured(s) \/ SaveAcquired(s)
  PROVE  CountInv'
<1> USE DEF disk, kernel, temps
<1> DEFINE snap == job[s].snap
<1>1. PICK c \in Containers : job[s].c = c /\ Busy(s) /\ job[s] \in Job /\ snap \in Container
  BY AtWork DEF SaveStarting, EnsureLayer, LayersEnsured, SaveAcquired
<1> DEFINE held == meta[c].acquired
<1>2. Tracked(s)
  BY DEF CountInv
<1>3. CASE SaveStarting(s)
  <2> DEFINE j == [job[s] EXCEPT !.todo = LayersOf[c] \ snap.acquired]
  <2>1. j.c = c /\ j.snap = snap /\ j.fresh = job[s].fresh
    BY <1>1 DEF Job
  <2>2. pc[s] = "save_starting" /\ pc'[s] = "layers" /\ job'[s] = j /\ OthersStay(s)
    BY <1>1, <1>3, Gone, Held DEF SaveStarting, OthersStay
  <2>3. snap.acquired = held /\ job[s].fresh = {}
    BY <1>1, <1>2, <2>2 DEF Tracked, StartPCs
  <2>4. \A d \in Containers : meta'[d].acquired = meta[d].acquired
    <3>1. Save(s, snap)
      BY <1>1, <1>3 DEF SaveStarting
    <3> QED
      BY <1>1, <2>3, <3>1 DEF Save, TypeOK, DiskOK
  <2>5. Touches(s, c)
    BY <1>1, <2>1, <2>2, <2>4 DEF Touches
  <2>6. Tracked(s)'
    <3>1. job'[s].c = c /\ job'[s].snap = snap
      BY <2>1, <2>2
    <3> QED
      BY <1>1, <2>2, <2>3, <2>4, <3>1 DEF Tracked, StartPCs, StopPCs
  <2>7. \A l \in Layers : Claims(s, c, l)' => Claims(s, c, l)
    BY <1>1, <2>1, <2>2, <2>3, <2>4 DEF Claims, Taking, DestroyPCs
  <2> QED
    BY <1>1, <1>3, <2>5, <2>6, <2>7, CoveredKept DEF SaveStarting
<1>4. ASSUME NEW k \in Layers, EnsureLayer(s, k)
      PROVE  CountInv'
  <2> DEFINE j == [job[s] EXCEPT !.todo = @ \ {k}, !.fresh = @ \cup {k}]
  <2>1. j.c = c /\ j.snap = snap /\ j.fresh = job[s].fresh \cup {k}
    BY <1>1 DEF Job
  <2>2. pc[s] = "layers" /\ pc'[s] = "layers" /\ job'[s] = j /\ OthersStay(s)
    BY <1>4, Held DEF EnsureLayer, OthersStay
  <2>3. Touches(s, c)
    BY <1>1, <1>4, <2>1, <2>2 DEF EnsureLayer, Touches
  <2>4. Tracked(s)'
    <3>1. job'[s].c = c /\ job'[s].snap = snap /\ UNCHANGED meta
      BY <1>4, <2>1, <2>2 DEF EnsureLayer
    <3> QED
      BY <1>2, <2>2, <3>1 DEF Tracked, StartPCs, StopPCs
  <2>5. ASSUME NEW l \in Layers PROVE Covered(l)'
    <3>1. Covered(l) /\ refcount[l] \in Nat
      BY DEF CountInv, TypeOK, DiskOK
    <3>2. Claimants(l)' \subseteq Claimants(l) \cup {c}
      BY <1>1, <2>3, ClaimantsStep
    <3>3. CASE l = k
      <4>1. refcount'[l] = refcount[l] + 1
        BY <1>4, <3>3 DEF EnsureLayer, TypeOK, DiskOK
      <4>2. IsFiniteSet(Claimants(l)') /\ Cardinality(Claimants(l)') <= refcount[l] + 1
        BY <3>1, <3>2, Counting DEF Covered
      <4> QED
        BY <4>1, <4>2 DEF Covered
    <3>4. CASE l # k
      <4>1. refcount'[l] = refcount[l]
        BY <1>4, <3>4 DEF EnsureLayer, TypeOK, DiskOK
      <4>2. Claims(s, c, l)' => Claims(s, c, l)
        BY <1>4, <2>1, <2>2, <3>4 DEF EnsureLayer, Claims, Taking, DestroyPCs
      <4>3. Claimants(l)' \subseteq Claimants(l)
        BY <1>1, <2>3, <4>2, ClaimantsStep
      <4> QED
        BY <3>1, <4>1, <4>3, Counting DEF Covered
    <3> QED
      BY <3>3, <3>4
  <2> QED
    BY <1>1, <2>3, <2>4, <2>5, TrackedKept DEF CountInv
<1>5. CASE LayersEnsured(s)
  <2> DEFINE j == [job[s] EXCEPT !.snap = Acquired(@, job[s].fresh), !.fresh = {}]
             label == IF job[s].fresh = {} THEN "prepare" ELSE "save_acquired"
  <2>1. Acquired(snap, job[s].fresh).acquired = snap.acquired \cup job[s].fresh
    BY <1>1 DEF Acquired, Container
  <2>2. j.c = c /\ j.snap.acquired = snap.acquired \cup job[s].fresh
    BY <1>1, <2>1 DEF Job
  <2>3. pc[s] = "layers" /\ pc'[s] = label /\ job'[s] = j /\ OthersStay(s)
    BY <1>5, Held, Gone DEF LayersEnsured, OthersStay
  <2>4. snap.acquired = held
    BY <1>1, <1>2, <2>3 DEF Tracked, StartPCs
  <2>5. UNCHANGED meta
    BY <1>5 DEF LayersEnsured
  <2>6. Touches(s, c)
    BY <1>1, <2>2, <2>3, <2>5 DEF Touches
  <2>7. Tracked(s)'
    <3>1. job'[s].c = c /\ job'[s].snap.acquired = held \cup job[s].fresh
      BY <2>2, <2>3, <2>4
    <3> QED
      BY <2>3, <2>5, <3>1 DEF Tracked, StartPCs, StopPCs
  <2>8. \A l \in Layers : Claims(s, c, l)' => Claims(s, c, l)
    BY <2>2, <2>3, <2>4, <2>5 DEF Claims, Taking, DestroyPCs
  <2> QED
    BY <1>1, <1>5, <2>6, <2>7, <2>8, CoveredKept DEF LayersEnsured
<1>6. CASE SaveAcquired(s)
  <2>1. pc[s] = "save_acquired" /\ pc'[s] = "prepare" /\ job' = job /\ OthersStay(s)
    BY <1>6, Gone DEF SaveAcquired, OthersStay
  <2>2. meta'[c].acquired = snap.acquired /\ \A d \in Containers \ {c} : meta'[d] = meta[d]
    BY <1>1, <1>6 DEF SaveAcquired, Save, TypeOK, DiskOK
  <2>3. Touches(s, c)
    BY <1>1, <2>1, <2>2 DEF Touches, Detached, StopPCs
  <2>4. Tracked(s)'
    BY <1>1, <2>1, <2>2 DEF Tracked, StartPCs, StopPCs
  <2>5. \A l \in Layers : Claims(s, c, l)' => Claims(s, c, l)
    BY <2>1, <2>2 DEF Claims, Taking, DestroyPCs
  <2> QED
    BY <1>1, <1>6, <2>3, <2>4, <2>5, CoveredKept DEF SaveAcquired
<1> QED
  BY <1>3, <1>4, <1>5, <1>6

LEMMA CountStart ==
  ASSUME TypeOK, ScriptInv, CountInv, NEW s \in Sessions, Start(s)
  PROVE  CountInv'
<1> USE DEF disk, kernel, temps
<1> DEFINE snap == job[s].snap
<1> SUFFICES ASSUME Busy(s) PROVE CountInv'
  BY CountStartLayers DEF Start, Busy, SaveStarting, EnsureLayer, LayersEnsured, SaveAcquired, StartFails, Spawn, WireUp,
     WireUpFails, EngineGoneBeforeWiring, AbortReaped, AbortCleanup, AbortSave, SaveRunning, WaitReturns,
     WaitFails, StartFailsReaping, SaveStopped, StartReturns, DropReaped
<1>1. PICK c \in Containers : job[s].c = c /\ job[s] \in Job /\ snap \in Container
  BY AtWork DEF Busy
<1>2. ASSUME UNCHANGED <<meta, refcount>>, NEW label \in Settled, Goto(s, label), pc[s] \in Settled,
             UNCHANGED job \/ \E j \in Job : Hold(s, j) /\ j.c = c /\ j.snap.acquired = snap.acquired
      PROVE  CountInv'
  <2>1. OthersStay(s) /\ pc'[s] = label /\ job'[s].c = c /\ job'[s].snap.acquired = snap.acquired
    BY <1>1, <1>2, Gone, Held DEF OthersStay
  <2> QED
    BY <1>1, <1>2, <2>1, CountSettled
<1>3. CASE \/ StartFails(s) \/ StartReturns(s) \/ DropReaped(s) \/ WaitFails(s)
           \/ \E p \in Pids : StartFailsReaping(s, p)
  BY <1>3, CountEnd DEF StartFails, StartReturns, DropReaped, WaitFails, StartFailsReaping, DestroyPCs
<1>4. CASE \E p \in Pids : Spawn(s, p)
  <2> PICK p \in Pids : Spawn(s, p)
    BY <1>4
  <2> DEFINE j == [job[s] EXCEPT !.pid = p]
  <2>1. j \in Job /\ j.c = c /\ j.snap = snap /\ Hold(s, j)
    BY <1>1, JobFields DEF Spawn
  <2> QED
    BY <1>2, <2>1 DEF Spawn, Settled, StartPCs
<1>5. CASE WireUp(s) \/ WireUpFails(s)
  <2> DEFINE j == [job[s] EXCEPT !.net = TRUE]
  <2>1. j \in Job /\ j.c = c /\ j.snap = snap
    BY <1>1, JobFields
  <2>2. UNCHANGED job \/ Hold(s, j)
    BY <1>5 DEF WireUp, WireUpFails
  <2>3. UNCHANGED <<meta, refcount>> /\ pc[s] = "wire" /\ \E label \in {"save_running", "abort_wait"} : Goto(s, label)
    BY <1>5 DEF WireUp, WireUpFails
  <2> QED
    BY <1>2, <2>1, <2>2, <2>3 DEF Settled, StartPCs
<1>6. CASE EngineGoneBeforeWiring(s) \/ AbortReaped(s)
  BY <1>2, <1>6 DEF EngineGoneBeforeWiring, AbortReaped, Settled, StartPCs
<1>7. Halted(snap) \in Container /\ Halted(snap).acquired = snap.acquired
  BY <1>1, ContainerFields DEF Halted, Container
<1>8. CASE AbortCleanup(s)
  <2> DEFINE j == [job[s] EXCEPT !.snap = Halted(@), !.net = FALSE]
  <2>1. j \in Job /\ j.c = c /\ j.snap = Halted(snap) /\ Hold(s, j)
    BY <1>1, <1>7, <1>8, JobFields DEF AbortCleanup
  <2> QED
    BY <1>2, <1>7, <1>8, <2>1 DEF AbortCleanup, Settled, StartPCs
<1>9. CASE WaitReturns(s)
  <2> DEFINE j == [job[s] EXCEPT !.snap = Halted(@)]
  <2>1. j \in Job /\ j.c = c /\ j.snap = Halted(snap) /\ Hold(s, j)
    BY <1>1, <1>7, <1>9, JobFields DEF WaitReturns
  <2> QED
    BY <1>2, <1>7, <1>9, <2>1 DEF WaitReturns, Settled, StartPCs
<1>10. CASE AbortSave(s) \/ SaveStopped(s)
  <2>1. Save(s, snap) /\ UNCHANGED refcount /\ pc[s] \in Settled
    BY <1>1, <1>10 DEF AbortSave, SaveStopped, Settled, StartPCs
  <2>2. AbortSave(s) => OthersStay(s) /\ pc'[s] = "idle"
    BY Ended DEF AbortSave, Proceeds
  <2>3. SaveStopped(s) => OthersStay(s) /\ pc'[s] \in Settled /\ job' = job
    BY Gone DEF SaveStopped, OthersStay, Settled, StartPCs
  <2> QED
    BY <1>1, <1>10, <2>1, <2>2, <2>3, CountSettled
<1>11. CASE SaveRunning(s)
  <2> DEFINE running == RunningAs(snap, job[s].pid)
             j == [job[s] EXCEPT !.snap = running]
  <2>1. running \in Container /\ running.acquired = snap.acquired
    BY <1>1, <1>11, AtWork, ContainerFields DEF SaveRunning, RunningAs, Container, PidPCs
  <2>2. j \in Job /\ j.c = c /\ j.snap = running
    BY <1>1, <2>1, JobFields
  <2>3. Save(s, running) /\ UNCHANGED refcount /\ pc[s] = "save_running" /\ Goto(s, "wait") /\ Hold(s, j)
    BY <1>1, <1>11 DEF SaveRunning
  <2>4. OthersStay(s) /\ pc'[s] = "wait" /\ job'[s] = j
    BY <2>3, Gone, Held DEF OthersStay
  <2>5. job'[s].c = c /\ job'[s].snap.acquired = snap.acquired
    BY <2>1, <2>2, <2>4
  <2> QED
    BY <1>1, <2>1, <2>3, <2>4, <2>5, CountSettled DEF Settled, StartPCs
<1> QED
  BY <1>3, <1>4, <1>5, <1>6, <1>8, <1>9, <1>10, <1>11, CountStartLayers DEF Start

LEMMA CountStop ==
  ASSUME TypeOK, ScriptInv, CountInv, NEW s \in Sessions, Stop(s)
  PROVE  CountInv'
<1> USE DEF disk, kernel, temps
<1> DEFINE snap == job[s].snap
<1>1. PICK c \in Containers : job[s].c = c /\ Busy(s) /\ job[s] \in Job /\ snap \in Container
  BY AtWork DEF Stop, SaveStopping, ExitSeen, GraceEnds, KillGraceEnds, StopSave
<1>2. pc[s] \in Settled /\ UNCHANGED refcount
  BY DEF Stop, SaveStopping, ExitSeen, GraceEnds, KillGraceEnds, StopSave, Settled, StopPCs
<1>3. CASE SaveStopping(s) \/ StopSave(s)
  <2>1. Save(s, snap)
    BY <1>1, <1>3 DEF SaveStopping, StopSave
  <2>2. StopSave(s) => OthersStay(s) /\ pc'[s] = "idle"
    BY <1>1, Ended DEF StopSave, Proceeds
  <2>3. SaveStopping(s) => OthersStay(s) /\ pc'[s] \in Settled /\ job' = job
    BY Gone DEF SaveStopping, OthersStay, Settled, StopPCs
  <2> QED
    BY <1>1, <1>2, <1>3, <2>1, <2>2, <2>3, CountSettled
<1>4. CASE ExitSeen(s) \/ KillGraceEnds(s)
  <2> DEFINE j == [job[s] EXCEPT !.snap = Halted(@)]
  <2>1. Halted(snap) \in Container /\ Halted(snap).acquired = snap.acquired
    BY <1>1, ContainerFields DEF Halted, Container
  <2>2. j.c = c /\ j.snap = Halted(snap)
    BY <1>1, <2>1, JobFields
  <2>3. OthersStay(s) /\ pc'[s] = "stop_save" /\ job'[s] = j
    BY <1>4, Gone, Held DEF ExitSeen, KillGraceEnds, OthersStay
  <2>4. job'[s].c = c /\ job'[s].snap.acquired = snap.acquired
    BY <2>1, <2>2, <2>3
  <2> QED
    BY <1>1, <1>2, <1>4, <2>3, <2>4, CountSettled DEF ExitSeen, KillGraceEnds, Settled, StopPCs
<1>5. CASE GraceEnds(s)
  <2>1. OthersStay(s) /\ pc'[s] = "kill_wait" /\ job' = job
    BY <1>5, Gone DEF GraceEnds, OthersStay
  <2> QED
    BY <1>1, <1>2, <1>5, <2>1, CountSettled DEF GraceEnds, Settled, StopPCs
<1> QED
  BY <1>3, <1>4, <1>5 DEF Stop

LEMMA CountDestroy ==
  ASSUME TypeOK, ScriptInv, CountInv, NEW s \in Sessions, Destroy(s)
  PROVE  CountInv'
<1> USE DEF disk, kernel, temps
<1>1. PICK c \in Containers : job[s].c = c /\ Busy(s) /\ Fits(s) /\ job[s] \in Job
  BY AtWork DEF Destroy, Release, LayersReleased, RemoveAccepts, RemoveRefuses, RemoveFiles, RemoveDir
<1>2. Tracked(s)
  BY DEF CountInv
<1>3. ASSUME NEW k \in Layers, Release(s, k)
      PROVE  CountInv'
  <2> DEFINE j == [job[s] EXCEPT !.todo = @ \ {k}]
  <2>1. j.c = c /\ j.todo = job[s].todo \ {k}
    BY <1>1 DEF Job
  <2>2. pc[s] = "release" /\ pc' = pc /\ job'[s] = j /\ OthersStay(s) /\ UNCHANGED meta /\ k \in job[s].todo
    BY <1>3, Held DEF Release, OthersStay
  <2>3. Touches(s, c)
    BY <1>1, <2>1, <2>2 DEF Touches
  <2>4. Tracked(s)'
    BY <1>1, <1>2, <2>1, <2>2 DEF Tracked, StartPCs, StopPCs
  <2>5. ASSUME NEW l \in Layers PROVE Covered(l)'
    <3>1. Covered(l) /\ refcount[l] \in Nat
      BY DEF CountInv, TypeOK, DiskOK
    <3>2. Claims(s, c, l)' => Claims(s, c, l) /\ l # k
      BY <2>1, <2>2 DEF Claims, Taking, DestroyPCs
    <3>3. Claimants(l)' \subseteq Claimants(l)
      BY <2>3, <3>2, ClaimantsStep
    <3>4. CASE l = k
      <4>1. Claims(s, c, l)
        BY <1>1, <1>2, <2>2, <3>4 DEF Tracked, Claims, DestroyPCs
      <4>2. c \in Claimants(l) /\ c \notin Claimants(l)'
        BY <2>3, <3>2, <3>4, <4>1, ClaimantsStep
      <4>3. Claimants(l)' \subseteq Claimants(l) \ {c}
        BY <3>3, <4>2
      <4>4. refcount[l] > 0 /\ IsFiniteSet(Claimants(l)') /\ Cardinality(Claimants(l)') <= refcount[l] - 1
        BY <3>1, <4>2, <4>3, Counting DEF Covered
      <4>5. refcount'[l] = refcount[l] - 1
        BY <1>3, <3>4, <3>1, <4>4 DEF Release, TypeOK, DiskOK
      <4> QED
        BY <4>4, <4>5 DEF Covered
    <3>5. CASE l # k
      <4>1. refcount'[l] = refcount[l]
        BY <1>3, <3>5 DEF Release, TypeOK, DiskOK
      <4> QED
        BY <3>1, <3>3, <4>1, Counting DEF Covered
    <3> QED
      BY <3>4, <3>5
  <2> QED
    BY <2>3, <2>4, <2>5, TrackedKept DEF CountInv
<1>4. CASE LayersReleased(s) \/ RemoveAccepts(s)
  <2>1. /\ pc[s] \in DestroyPCs /\ pc'[s] \in {"remove", "rm_files"}
        /\ UNCHANGED <<job, meta, refcount>> /\ OthersStay(s)
    BY <1>4, Gone DEF LayersReleased, RemoveAccepts, DestroyPCs, OthersStay
  <2>2. Touches(s, c) /\ Tracked(s)'
    BY <1>1, <2>1 DEF Touches, Tracked, StartPCs, StopPCs
  <2>3. \A l \in Layers : Claims(s, c, l)' => Claims(s, c, l)
    BY <2>1 DEF Claims, Taking, DestroyPCs
  <2> QED
    BY <2>1, <2>2, <2>3, CoveredKept
<1>5. CASE RemoveRefuses(s)
  BY <1>1, <1>5 DEF RemoveRefuses, Fits, StateFits, State
<1>6. CASE RemoveFiles(s)
  <2>1. pc[s] = "rm_files" /\ pc'[s] = "rmdir" /\ UNCHANGED <<job, refcount>> /\ OthersStay(s)
    BY <1>6, Gone DEF RemoveFiles, OthersStay
  <2>2. meta'[c].acquired = {} /\ \A d \in Containers \ {c} : meta'[d] = meta[d]
    BY <1>1, <1>6 DEF RemoveFiles, NoFile, TypeOK, DiskOK
  <2>3. Touches(s, c) /\ Tracked(s)'
    BY <1>1, <2>1, <2>2 DEF Touches, Tracked, StartPCs, StopPCs, Detached
  <2>4. \A l \in Layers : Claims(s, c, l)' => Claims(s, c, l)
    BY <2>1, <2>2 DEF Claims, Taking
  <2> QED
    BY <2>1, <2>3, <2>4, CoveredKept
<1>7. CASE RemoveDir(s)
  <2>1. pc[s] = "rmdir" /\ pc'[s] = "idle" /\ UNCHANGED <<meta, refcount>> /\ OthersStay(s)
    BY <1>1, <1>7, Ended DEF RemoveDir, Proceeds
  <2>2. Touches(s, c) /\ Tracked(s)'
    BY <1>1, <2>1 DEF Touches, Tracked, StartPCs, StopPCs
  <2>3. \A l \in Layers : Claims(s, c, l)' => Claims(s, c, l)
    BY <1>1, <1>2, <2>1 DEF Tracked, Claims, Taking
  <2> QED
    BY <2>1, <2>2, <2>3, CoveredKept
<1> QED
  BY <1>3, <1>4, <1>5, <1>6, <1>7 DEF Destroy

\* Killed sessions and failed saves, where no destroy can be killed.
LEMMA CountFault ==
  ASSUME TypeOK, ScriptInv, CountInv, "destroy" \notin CrashableCommands,
         NEW s \in Sessions, Crash(s) \/ HelperLost(s) \/ SaveFails(s) \/ SaveLost(s)
  PROVE  CountInv'
<1> USE DEF disk, kernel, temps
<1>1. UNCHANGED <<meta, refcount>> /\ Busy(s) /\ pc[s] \notin DestroyPCs
  BY DEF Crash, HelperLost, SaveFails, SaveLost, SaveError, SavePCs, Busy, MayCrash, CommandOf, CreatePCs, StartPCs, StopPCs, DestroyPCs
<1>2. CASE End(s)
  BY <1>1, <1>2, CountEnd
<1>3. CASE ~End(s)
  <2>1. PICK c \in Containers : job[s].c = c
    BY <1>1, AtWork DEF Busy
  <2>2. pc[s] = "save_running" /\ pc'[s] = "drop_wait" /\ job' = job /\ OthersStay(s)
    BY <1>3, Gone DEF Crash, HelperLost, SaveFails, SaveLost, SaveError, OthersStay
  <2> QED
    BY <1>1, <2>1, <2>2, CountSettled DEF Settled, StartPCs
<1> QED
  BY <1>2, <1>3

LEMMA CountReboot ==
  ASSUME TypeOK, ScriptInv, CountInv, "destroy" \notin CrashableCommands, Reboot
  PROVE  CountInv'
<1> USE DEF disk, kernel, temps
<1>1. UNCHANGED <<meta, refcount>> /\ \A s \in Sessions : pc'[s] = "idle" /\ pc[s] \notin DestroyPCs
  BY DEF Reboot, MayCrash, CommandOf, CreatePCs, StartPCs, StopPCs, DestroyPCs
<1>2. \A s \in Sessions : Tracked(s)'
  BY <1>1 DEF Tracked, StartPCs, StopPCs
<1>3. ASSUME NEW l \in Layers PROVE Covered(l)'
  <2>1. Claimants(l)' \subseteq Claimants(l)
    BY <1>1 DEF Claimants, Holders, Taking
  <2>2. Covered(l) /\ refcount[l] \in Nat /\ refcount'[l] = refcount[l]
    BY <1>1 DEF CountInv, TypeOK, DiskOK
  <2> QED
    BY <2>1, <2>2, Counting DEF Covered
<1> QED
  BY <1>2, <1>3 DEF CountInv

\* When no destroy is killed between its releases and the removal of the
\* record, a layer's count never falls below the containers that hold it:
\* no release takes a layer away from a container that still needs it.
THEOREM LayersAreCounted ==
  ASSUME Discipline = "script", "destroy" \notin CrashableCommands
  PROVE  Spec => []NeverUndercounted
<1>1. Init => CountInv
  <2> SUFFICES ASSUME Init PROVE CountInv
    OBVIOUS
  <2>1. \A s \in Sessions : pc[s] = "idle"
    BY DEF Init
  <2>2. \A l \in Layers : Claimants(l) = {}
    BY <2>1 DEF Init, Claimants, Holders, Taking, NoFile
  <2>3. \A l \in Layers : Covered(l)
    BY <2>2, FS_EmptySet DEF Init, Covered
  <2> QED
    BY <2>1, <2>3 DEF CountInv, Tracked, StartPCs, StopPCs
<1>2. TypeOK /\ ScriptInv /\ CountInv /\ [Next]_vars => CountInv'
  <2> SUFFICES ASSUME TypeOK, ScriptInv, CountInv, [Next]_vars PROVE CountInv'
    OBVIOUS
  <2>1. ASSUME NEW s \in Sessions, Begin(s) \/ Proceed(s), ~(SaveDir(s) \/ SaveFile(s)) PROVE CountInv'
    BY <2>1, CountBegin, CountCreate, CountStart, CountStop, CountDestroy, CountFault DEF Proceed, Saving
  <2>2. CASE UNCHANGED <<meta, refcount, pc, job>>
    <3>1. \A s \in Sessions : Tracked(s)'
      BY <2>2 DEF CountInv, Tracked
    <3>2. \A l \in Layers : Claimants(l)' = Claimants(l)
      BY <2>2 DEF Claimants, Holders, Taking
    <3> QED
      BY <2>2, <3>1, <3>2 DEF CountInv, Covered
  <2> QED
    BY <2>1, <2>2, CountFault, CountReboot
    DEF Next, Proceed, Saving, SaveDir, SaveFile, EngineExits, vars, disk, temps
<1>3. TypeOK /\ CountInv => NeverUndercounted
  <2> SUFFICES ASSUME TypeOK, CountInv, NEW l \in Layers PROVE refcount[l] >= Cardinality(Holders(l))
    BY DEF NeverUndercounted
  <2>1. refcount[l] \in Nat /\ Covered(l) /\ Holders(l) \subseteq Claimants(l)
    BY DEF TypeOK, DiskOK, CountInv, Claimants
  <2>2. IsFiniteSet(Holders(l)) /\ Cardinality(Holders(l)) <= refcount[l]
    BY <2>1, Counting DEF Covered
  <2>3. Cardinality(Holders(l)) \in Nat
    BY <2>2, FS_CardinalityType
  <2> QED
    BY <2>1, <2>2, <2>3
<1> QED
  BY <1>1, <1>2, <1>3, TypeCorrect, ScriptHolds, PTL DEF Spec
=============================================================================
