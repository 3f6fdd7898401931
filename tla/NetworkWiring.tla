--------------------------- MODULE NetworkWiring ---------------------------
(***************************************************************************)
(* wire_up and cleanup: what a start session makes on the host for its     *)
(* engine, and takes away afterwards.                                      *)
(*                                                                         *)
(* The bridge is shared by all.  A container's veth is named after its     *)
(* address, a hash of the container's id; its cgroup is named after the    *)
(* id; both are removed by name.  Each host port has a proxy, a task of    *)
(* the session.  The kernel removes a veth when the namespace of its peer  *)
(* goes, some time after the last process or open file of it.              *)
(***************************************************************************)
EXTENDS Naturals, FiniteSets, Sequences, Functions, SequencesExt

CONSTANTS
  Sessions,     \* start sessions
  Containers,
  Address,      \* container_ipv4 of each container
  Ports,        \* its host ports, a sequence
  Limited,      \* containers with resource limits
  NoOne,
  MaxAttempts,  \* of open_netns_fd
  MaxFaults     \* bound on requests that fail for no reason, and on sessions killed

\* What a session may fail to remove.
Removals == {"veth", "cgroup"}

ASSUME WiringAssumption ==
  /\ Limited \subseteq Containers
  /\ Ports \in [Containers -> Seq(Nat)]
  /\ NoOne \notin Sessions \cup Containers
  /\ MaxAttempts \in Nat \ {0} /\ MaxFaults \in Nat

VARIABLES
  pc,       \* where each session is
  of,       \* the container it starts
  record,   \* the session by which a container is recorded as started, or NoOne
  engine,   \* the engine of each session
  ns,       \* its network namespace
  bridge,   \* what has been done to the bridge
  link,     \* the veth of each name
  cgroup,   \* the cgroup of each container
  bound,    \* the proxy that listens on each host port
  setup,    \* NetworkSetup and CgroupSetup
  attempts,
  faults

vars == <<pc, of, record, engine, ns, bridge, link, cgroup, bound, setup, attempts, faults>>

\* A proxy is known by its place in the container's list.
Proxies == UNION {DOMAIN Ports[c] : c \in Containers}
HostPorts == (UNION {ToSet(Ports[c]) : c \in Containers}) \ {0}
Addresses == {Address[c] : c \in Containers}

\* Mutant: a name for each container.
NameById(c) == c

veth_host_name(c) == Address[c]

Names == Containers \cup Addresses
Name(s) == veth_host_name(of[s])

\* What the steps of attach_impl do to a veth, the last three to its peer.
Done == {"moved", "up", "master", "eth0", "peer_up", "addr"}

Veth == [by: Sessions, has: SUBSET Done]
Cgroup == [limits: BOOLEAN, procs: SUBSET Sessions]

\* None is nothing else.
ASSUME NoOneAssumption ==
  NoOne \notin Veth /\ NoOne \notin Cgroup /\ NoOne \notin Sessions \X Proxies

InNamespace == {"move", "up", "master", "eth0", "peer_up", "addr"}
Requests == {"bridge", "create_bridge", "bridge_up", "bridge_addr", "veth", "indices", "cgroup",
             "apply", "attach", "proxies"} \cup InNamespace
PCs == Requests \cup {"idle", "netns", "undo", "save", "running", "failed", "detach",
                      "drop", "remove", "reset", "done", "killed", "orphaned"}

\* What wire_up has made so far, the proxies that are there or still to begin, and
\* where cleanup returns to; and, for the properties, the proxies that were refused
\* their port by the host, and what could not be removed.
Setup == [veth: BOOLEAN, cgroup: BOOLEAN, proxies: SUBSET Proxies, then: PCs,
          unbound: SUBSET Proxies, left: SUBSET Removals]

TypeOK ==
  /\ pc \in [Sessions -> PCs]
  /\ of \in [Sessions -> Containers \cup {NoOne}]
  /\ record \in [Containers -> Sessions \cup {NoOne}]
  /\ engine \in [Sessions -> {"none", "up", "dead"}]
  /\ ns \in [Sessions -> {"none", "there", "gone"}]
  /\ bridge \subseteq {"link", "up", "addr"}
  /\ \A n \in Names : link[n] = NoOne \/ link[n] \in Veth
  /\ \A c \in Containers : cgroup[c] = NoOne \/ cgroup[c] \in Cgroup
  /\ bound \in [HostPorts -> (Sessions \X Proxies) \cup {NoOne}]
  /\ setup \in [Sessions -> Setup]
  /\ attempts \in [Sessions -> 0 .. MaxAttempts]
  /\ faults \in 0 .. MaxFaults

NoSetup == [veth |-> FALSE, cgroup |-> FALSE, proxies |-> {}, then |-> "idle",
            unbound |-> {}, left |-> {}]

Init ==
  /\ pc = [s \in Sessions |-> "idle"]
  /\ of = [s \in Sessions |-> NoOne]
  /\ record = [c \in Containers |-> NoOne]
  /\ engine = [s \in Sessions |-> "none"]
  /\ ns = [s \in Sessions |-> "none"]
  /\ bridge = {}
  /\ link = [n \in Names |-> NoOne]
  /\ cgroup = [c \in Containers |-> NoOne]
  /\ bound = [p \in HostPorts |-> NoOne]
  /\ setup = [s \in Sessions |-> NoSetup]
  /\ attempts = [s \in Sessions |-> 0]
  /\ faults = 0

Goto(s, label) == pc' = [pc EXCEPT ![s] = label]

\* A request to the kernel, on a netlink socket of its own: the answer with its
\* sequence number says whether it was done.
Ask(s, from, ok, to, otherwise) ==
  /\ pc[s] = from
  /\ Goto(s, IF ok THEN to ELSE otherwise)

Exists(n) == link[n] # NoOne

\* delete_link, by name, whoever made it; a name that is not there is an error
\* nobody looks at.
delete_link(n) == link' = [link EXCEPT ![n] = NoOne]

-----------------------------------------------------------------------------
(***************************************************************************)
(* start_impl spawns the engine; then ensure_bridge.                       *)
(***************************************************************************)
Spawn(s, c) ==
  /\ pc[s] = "idle" /\ record[c] = NoOne
  /\ Goto(s, "bridge")
  /\ of' = [of EXCEPT ![s] = c]
  /\ record' = [record EXCEPT ![c] = s]
  /\ engine' = [engine EXCEPT ![s] = "up"]
  /\ ns' = [ns EXCEPT ![s] = "there"]
  /\ UNCHANGED <<bridge, link, cgroup, bound, setup, attempts, faults>>

BridgeUnchanged == UNCHANGED <<of, record, engine, ns, link, cgroup, bound, setup, attempts, faults>>

FindBridge(s) ==
  /\ Ask(s, "bridge", "link" \in bridge, "veth", "create_bridge")
  /\ UNCHANGED bridge /\ BridgeUnchanged

\* NLM_F_EXCL: a bridge that another session has made meanwhile is an error.
create_bridge(s) ==
  /\ Ask(s, "create_bridge", "link" \notin bridge, "bridge_up", "failed")
  /\ bridge' = bridge \cup {"link"} /\ BridgeUnchanged

\* Mutant: the bridge stays down.
BridgeDown(s) ==
  /\ Ask(s, "bridge_up", TRUE, "bridge_addr", "failed")
  /\ UNCHANGED bridge /\ BridgeUnchanged

BridgeUp(s) ==
  /\ Ask(s, "bridge_up", TRUE, "bridge_addr", "failed")
  /\ bridge' = bridge \cup {"up"} /\ BridgeUnchanged

BridgeAddress(s) ==
  /\ Ask(s, "bridge_addr", TRUE, "veth", "failed")
  /\ bridge' = bridge \cup {"addr"} /\ BridgeUnchanged

ensure_bridge(s) == FindBridge(s) \/ create_bridge(s) \/ BridgeUp(s) \/ BridgeAddress(s)

-----------------------------------------------------------------------------
(***************************************************************************)
(* attach_container.                                                       *)
(***************************************************************************)
LinkUnchanged == UNCHANGED <<of, record, engine, ns, bridge, cgroup, bound, faults>>

\* Mutant: a pair that could not be made is deleted like one that was.
DeleteTaken(s) ==
  /\ Ask(s, "veth", ~Exists(Name(s)), "indices", "failed")
  /\ link' = [link EXCEPT ![Name(s)] = IF @ = NoOne THEN [by |-> s, has |-> {}] ELSE NoOne]
  /\ UNCHANGED <<setup, attempts>> /\ LinkUnchanged

\* Mutant: a name that is taken is as good as made.
TakenWillDo(s) ==
  /\ Ask(s, "veth", ~Exists(Name(s)), "indices", "proxies")
  /\ link' = [link EXCEPT ![Name(s)] = IF @ = NoOne THEN [by |-> s, has |-> {}] ELSE @]
  /\ UNCHANGED <<setup, attempts>> /\ LinkUnchanged

\* The kernel refuses a name that is taken: by a container of the same address, or
\* by an earlier engine of this one whose namespace is not gone yet.
create_veth_pair(s) ==
  /\ Ask(s, "veth", ~Exists(Name(s)), "indices", "failed")
  /\ link' = [link EXCEPT ![Name(s)] = IF @ = NoOne THEN [by |-> s, has |-> {}] ELSE @]
  /\ UNCHANGED <<setup, attempts>> /\ LinkUnchanged

\* link_index of the bridge, and of the peer, which is still on the host.
link_index(s) ==
  /\ Ask(s, "indices", "link" \in bridge /\ Exists(Name(s)), "netns", "undo")
  /\ UNCHANGED <<link, setup, attempts>> /\ LinkUnchanged

\* /proc/<pid>/ns/net of an engine that is gone is tried again some times.
open_netns_fd(s) ==
  /\ pc[s] = "netns"
  /\ IF engine[s] = "up"
       THEN Goto(s, "move") /\ UNCHANGED attempts
       ELSE IF attempts[s] < MaxAttempts
              THEN attempts' = [attempts EXCEPT ![s] = @ + 1] /\ UNCHANGED pc
              ELSE Goto(s, "undo") /\ UNCHANGED attempts
  /\ UNCHANGED <<link, setup>> /\ LinkUnchanged

\* A request about the veth of that name, whoever made it.
OnLink(s, from, does, ok, to) ==
  /\ Ask(s, from, ok, to, "undo")
  /\ link' = IF ok THEN [link EXCEPT ![Name(s)].has = @ \cup {does}] ELSE link
  /\ LinkUnchanged

move_link_to_netns(s) ==
  /\ OnLink(s, "move", "moved", Exists(Name(s)), "up")
  /\ UNCHANGED <<setup, attempts>>

set_link_up_by_name(s) ==
  /\ OnLink(s, "up", "up", Exists(Name(s)), "master")
  /\ UNCHANGED <<setup, attempts>>

set_link_master(s) ==
  /\ OnLink(s, "master", "master", Exists(Name(s)), "eth0")
  /\ UNCHANGED <<setup, attempts>>

\* The thread that has entered the namespace finds the session's own peer or none.
with_netns(s) == Exists(Name(s)) /\ link[Name(s)].by = s

rename_link_by_index(s) ==
  /\ OnLink(s, "eth0", "eth0", with_netns(s), "peer_up")
  /\ UNCHANGED <<setup, attempts>>

PeerUp(s) ==
  /\ OnLink(s, "peer_up", "peer_up", with_netns(s), "addr")
  /\ UNCHANGED <<setup, attempts>>

\* ... after which the name of the veth is kept for cleanup.
add_addr4(s) ==
  /\ OnLink(s, "addr", "addr", with_netns(s), "proxies")
  /\ setup' = IF with_netns(s) THEN [setup EXCEPT ![s].veth = TRUE] ELSE setup
  /\ UNCHANGED attempts

attach_impl(s) ==
  \/ link_index(s) \/ open_netns_fd(s) \/ move_link_to_netns(s) \/ set_link_up_by_name(s)
  \/ set_link_master(s) \/ rename_link_by_index(s) \/ PeerUp(s) \/ add_addr4(s)

\* Mutant: the veth stays.
NoUndo(s) ==
  /\ pc[s] = "undo"
  /\ Goto(s, "failed")
  /\ UNCHANGED <<link, setup, attempts>> /\ LinkUnchanged

Undo(s) ==
  /\ pc[s] = "undo"
  /\ Goto(s, "failed")
  /\ delete_link(Name(s))
  /\ UNCHANGED <<setup, attempts>> /\ LinkUnchanged

attach_container(s) == create_veth_pair(s) \/ attach_impl(s) \/ Undo(s)

-----------------------------------------------------------------------------
(***************************************************************************)
(* Port proxies and the cgroup.                                            *)
(***************************************************************************)
validate_port_maps(ports) == 0 \notin ToSet(ports) /\ IsInjective(ports)

\* A task for each port.  Whether it can bind shows later, and not here.
spawn_port_proxies(s) ==
  LET ports == Ports[of[s]] IN
  /\ Ask(s, "proxies", validate_port_maps(ports), "cgroup", "failed")
  /\ setup' = IF validate_port_maps(ports) THEN [setup EXCEPT ![s].proxies = DOMAIN ports]
                                           ELSE setup
  /\ UNCHANGED <<of, record, engine, ns, bridge, link, cgroup, bound, attempts, faults>>

\* A task that starts listens, or ends for good if another proxy has the port.
Bind(s, i) ==
  LET p == Ports[of[s]][i] IN
  /\ bound[p] # <<s, i>>
  /\ IF bound[p] = NoOne
       THEN bound' = [bound EXCEPT ![p] = <<s, i>>] /\ UNCHANGED setup
       ELSE setup' = [setup EXCEPT ![s].proxies = @ \ {i}] /\ UNCHANGED bound
  /\ UNCHANGED <<pc, of, record, engine, ns, bridge, link, cgroup, attempts, faults>>

\* So it does if the host refuses the port: one of its own processes listens there, or
\* the session has no right or no file descriptor left.
BindFails(s, i) ==
  /\ faults < MaxFaults
  /\ bound[Ports[of[s]][i]] # <<s, i>>
  /\ setup' = [setup EXCEPT ![s].proxies = @ \ {i}, ![s].unbound = @ \cup {i}]
  /\ faults' = faults + 1
  /\ UNCHANGED <<pc, of, record, engine, ns, bridge, link, cgroup, bound, attempts>>

CgroupUnchanged == UNCHANGED <<of, record, engine, ns, bridge, link, bound, attempts, faults>>

NoLimits(s) ==
  /\ pc[s] = "cgroup" /\ of[s] \notin Limited
  /\ Goto(s, "save")
  /\ UNCHANGED <<cgroup, setup>> /\ CgroupUnchanged

\* A directory that is there already will do.
create_cgroup(s) ==
  LET c == of[s] IN
  /\ c \in Limited
  /\ Ask(s, "cgroup", TRUE, "apply", "failed")
  /\ cgroup' = [cgroup EXCEPT ![c] = IF @ = NoOne THEN [limits |-> FALSE, procs |-> {}] ELSE @]
  /\ setup' = [setup EXCEPT ![s].cgroup = TRUE]
  /\ CgroupUnchanged

apply(s) ==
  LET c == of[s] IN
  /\ Ask(s, "apply", cgroup[c] # NoOne, "attach", "failed")
  /\ cgroup' = IF cgroup[c] = NoOne THEN cgroup ELSE [cgroup EXCEPT ![c].limits = TRUE]
  /\ UNCHANGED setup /\ CgroupUnchanged

Attachable(s) == cgroup[of[s]] # NoOne /\ engine[s] = "up"

attach(s) ==
  LET c == of[s] IN
  /\ Ask(s, "attach", Attachable(s), "save", "failed")
  /\ cgroup' = IF Attachable(s) THEN [cgroup EXCEPT ![c].procs = @ \cup {s}] ELSE cgroup
  /\ UNCHANGED setup /\ CgroupUnchanged

-----------------------------------------------------------------------------
(***************************************************************************)
(* The rest of start_impl.                                                 *)
(***************************************************************************)
Unlisten(s) == bound' = [p \in HostPorts |-> IF bound[p] \in {s} \X Proxies THEN NoOne ELSE bound[p]]

WithoutProcess(s) ==
  [c \in Containers |-> IF cgroup[c] = NoOne THEN NoOne ELSE [cgroup[c] EXCEPT !.procs = @ \ {s}]]

EngineDead(s) ==
  /\ engine' = [engine EXCEPT ![s] = "dead"]
  /\ cgroup' = WithoutProcess(s)

\* Like every save, it does not look at what is recorded by now.
SaveRunning(s) ==
  /\ pc[s] = "save"
  /\ Goto(s, "running")
  /\ record' = [record EXCEPT ![of[s]] = s]
  /\ UNCHANGED <<of, engine, ns, bridge, link, cgroup, bound, setup, attempts, faults>>

\* wire_up failed: kill an engine that is there, clean up, record Stopped; one that
\* has ended is recorded Running all the same, and its exit seen next.
WireUpFails(s) ==
  /\ pc[s] = "failed"
  /\ Goto(s, "detach")
  /\ setup' = [setup EXCEPT ![s].then = IF engine[s] = "up" THEN "reset" ELSE "save"]
  /\ IF engine[s] = "up" THEN EngineDead(s) ELSE UNCHANGED <<engine, cgroup>>
  /\ UNCHANGED <<of, record, ns, bridge, link, bound, attempts, faults>>

\* The container is recorded Stopped before anything is cleaned up.
WaitReturns(s) ==
  /\ pc[s] = "running" /\ engine[s] = "dead"
  /\ Goto(s, "detach")
  /\ record' = [record EXCEPT ![of[s]] = NoOne]
  /\ setup' = [setup EXCEPT ![s].then = "done"]
  /\ UNCHANGED <<of, engine, ns, bridge, link, cgroup, bound, attempts, faults>>

Detach(s) ==
  /\ pc[s] = "detach"
  /\ Goto(s, "drop")
  /\ IF setup[s].veth THEN delete_link(Name(s)) ELSE UNCHANGED link
  /\ setup' = [setup EXCEPT ![s].veth = FALSE]
  /\ UNCHANGED <<of, record, engine, ns, bridge, cgroup, bound, attempts, faults>>

DropProxies(s) ==
  /\ pc[s] = "drop"
  /\ Goto(s, "remove")
  /\ setup' = [setup EXCEPT ![s].proxies = {}]
  /\ Unlisten(s)
  /\ UNCHANGED <<of, record, engine, ns, bridge, link, cgroup, attempts, faults>>

\* Mutant: the processes are moved out first, instead of killed.
MoveOut(s) ==
  LET c == of[s] IN
  /\ pc[s] = "remove"
  /\ Goto(s, setup[s].then)
  /\ setup' = [setup EXCEPT ![s].cgroup = FALSE]
  /\ cgroup' = IF setup[s].cgroup THEN [cgroup EXCEPT ![c] = NoOne] ELSE cgroup
  /\ UNCHANGED <<of, record, engine, ns, bridge, link, bound, attempts, faults>>

\* cgroup.kill, then rmdir, which fails while a killed process is still there.
RemoveCgroup(s) ==
  LET c == of[s]
      procs == IF cgroup[c] = NoOne THEN {} ELSE cgroup[c].procs
  IN
  /\ pc[s] = "remove"
  /\ Goto(s, setup[s].then)
  /\ setup' = [setup EXCEPT ![s].cgroup = FALSE]
  /\ IF setup[s].cgroup
       THEN /\ engine' = [t \in Sessions |-> IF t \in procs THEN "dead" ELSE engine[t]]
            /\ \/ cgroup' = [cgroup EXCEPT ![c] = NoOne]
               \/ procs # {} /\ cgroup' = [cgroup EXCEPT ![c].procs = {}]
       ELSE UNCHANGED <<engine, cgroup>>
  /\ UNCHANGED <<of, record, ns, bridge, link, bound, attempts, faults>>

cleanup(s) == Detach(s) \/ DropProxies(s) \/ RemoveCgroup(s)

AbortSave(s) ==
  /\ pc[s] = "reset"
  /\ Goto(s, "done")
  /\ record' = [record EXCEPT ![of[s]] = NoOne]
  /\ UNCHANGED <<of, engine, ns, bridge, link, cgroup, bound, setup, attempts, faults>>

\* stop, in another process, has found the container Running, and records Stopped
\* when the engine is dead, or later.
StopSave(s) ==
  /\ engine[s] = "dead"
  /\ pc[s] \in {"running", "orphaned"} \/ setup[s].then = "done"
  /\ record' = [record EXCEPT ![of[s]] = NoOne]
  /\ UNCHANGED <<pc, of, engine, ns, bridge, link, cgroup, bound, setup, attempts, faults>>

-----------------------------------------------------------------------------
(***************************************************************************)
(* The kernel, and faults.                                                 *)
(***************************************************************************)
EngineDies(s) ==
  /\ engine[s] = "up"
  /\ EngineDead(s)
  /\ UNCHANGED <<pc, of, record, ns, bridge, link, bound, setup, attempts, faults>>

\* attach_impl holds the namespace by an open file.
NamespaceGoes(s) ==
  /\ ns[s] = "there" /\ engine[s] = "dead" /\ pc[s] \notin InNamespace
  /\ ns' = [ns EXCEPT ![s] = "gone"]
  /\ link' = [n \in Names |-> IF Exists(n) /\ link[n].by = s /\ "moved" \in link[n].has
                                THEN NoOne ELSE link[n]]
  /\ UNCHANGED <<pc, of, record, engine, bridge, cgroup, bound, setup, attempts, faults>>

\* A socket that cannot be opened, a message the kernel refuses, a file that cannot
\* be written, a thread pool that cannot be made.
RequestFails(s) ==
  /\ faults < MaxFaults
  /\ pc[s] \in Requests
  /\ Goto(s, IF pc[s] \in InNamespace \cup {"indices"} THEN "undo" ELSE "failed")
  /\ faults' = faults + 1
  /\ UNCHANGED <<of, record, engine, ns, bridge, link, cgroup, bound, setup, attempts>>

\* The same of what is to be removed, in the undo or in cleanup: the error is thrown
\* away, and the session goes on as if it had been.
RemovalFails(s) ==
  /\ faults < MaxFaults
  /\ \/ /\ pc[s] = "undo"
        /\ Goto(s, "failed")
        /\ setup' = [setup EXCEPT ![s].left = @ \cup {"veth"}]
     \/ /\ pc[s] = "detach" /\ setup[s].veth
        /\ Goto(s, "drop")
        /\ setup' = [setup EXCEPT ![s].veth = FALSE, ![s].left = @ \cup {"veth"}]
     \/ /\ pc[s] = "remove" /\ setup[s].cgroup
        /\ Goto(s, setup[s].then)
        /\ setup' = [setup EXCEPT ![s].cgroup = FALSE, ![s].left = @ \cup {"cgroup"}]
  /\ faults' = faults + 1
  /\ UNCHANGED <<of, record, engine, ns, bridge, link, cgroup, bound, attempts>>

\* The session dies, and its proxies with it; its engine lives on.
Killed(s) ==
  /\ faults < MaxFaults
  /\ pc[s] \notin {"idle", "done", "killed", "orphaned"}
  /\ Goto(s, IF pc[s] = "running" THEN "orphaned" ELSE "killed")
  /\ setup' = [setup EXCEPT ![s] = NoSetup]
  /\ Unlisten(s)
  /\ faults' = faults + 1
  /\ UNCHANGED <<of, record, engine, ns, bridge, link, cgroup, attempts>>

Session(s) ==
  \/ ensure_bridge(s) \/ attach_container(s) \/ spawn_port_proxies(s)
  \/ NoLimits(s) \/ create_cgroup(s) \/ apply(s) \/ attach(s)
  \/ SaveRunning(s) \/ WireUpFails(s) \/ WaitReturns(s) \/ cleanup(s) \/ AbortSave(s)

Next ==
  \E s \in Sessions :
    \/ \E c \in Containers : Spawn(s, c)
    \/ Session(s) \/ StopSave(s) \/ EngineDies(s) \/ NamespaceGoes(s)
    \/ RequestFails(s) \/ RemovalFails(s) \/ Killed(s)
    \/ \E i \in setup[s].proxies : Bind(s, i) \/ BindFails(s, i)

Spec == Init /\ [][Next]_vars
-----------------------------------------------------------------------------
\* s has its veth: on the bridge, in its namespace, with its address.
Connected(s) == pc[s] # "idle" /\ Exists(Name(s)) /\ link[Name(s)].by = s /\ link[Name(s)].has = Done

\* s has been told that its network is there, and its engine is up.
Attached(s) ==
  pc[s] \in {"proxies", "cgroup", "apply", "attach", "save", "running"} /\ engine[s] = "up"

\* s has no veth to give back any more: it has done so, by name, or never got one.
GaveBack(s) ==
  \/ /\ ~setup[s].veth
     /\ pc[s] \in {"failed", "detach", "drop", "remove", "reset", "save", "running", "done", "killed"}
  \/ pc[s] = "orphaned" /\ engine[s] = "dead"

\* An engine whose start has got past attach_container keeps the whole of its network,
\* though others remove veths by that name, until another session of that name has
\* given up.
OnNetwork ==
  \A s \in Sessions : Attached(s) =>
    Connected(s) \/ \E t \in Sessions \ {s} : GaveBack(t) /\ Name(t) = Name(s)

\* Two engines with one address, which a hash may give, are not up side by side: the
\* second is refused the name of the veth, unless a third session of that address
\* has taken the veth of the first away.
UniqueAddresses ==
  \A s, t \in Sessions :
    s # t /\ Attached(s) /\ Attached(t) /\ Address[of[s]] = Address[of[t]] =>
      \E u \in Sessions \ {s, t} : GaveBack(u) /\ Name(u) = Name(s)

\* Another session of the container has yet to remove its cgroup, or could not.
LeftToAnother(s) ==
  \E t \in Sessions \ {s} :
    /\ of[t] = of[s]
    /\ setup[t].cgroup \/ "cgroup" \in setup[t].left \/ pc[t] \in {"killed", "orphaned"}

\* A session that has returned, whichever step had failed, has left on the host no
\* proxy, no veth and no cgroup but one that is for another session of the container to
\* remove; unless the removal itself fails, which the code does not look at.
NothingLeft ==
  \A s \in Sessions : pc[s] = "done" =>
    /\ \A p \in HostPorts : bound[p] \notin {s} \X Proxies
    /\ "veth" \in setup[s].left \/ \A n \in Names : Exists(n) => link[n].by # s
    /\ "cgroup" \in setup[s].left \/ cgroup[of[s]] = NoOne \/ LeftToAnother(s)

\* A veth on the bridge means a bridge that works, or will once the session that
\* makes it is through with it, unless a request failed or a session was killed.
BridgeWorks ==
  faults = 0 =>
    \A s \in Sessions : Connected(s) =>
      \/ bridge = {"link", "up", "addr"}
      \/ \E t \in Sessions : pc[t] \in {"bridge_up", "bridge_addr"}

\* Two other sessions of the same container have got to its cgroup, and one of them past
\* it (or they have failed or been killed on the way).
AtCgroup == {"apply", "attach", "failed"}
PastCgroup == {"detach", "drop", "remove", "reset", "save", "running", "done", "killed", "orphaned"}

Overtaken(s) ==
  \E t, u \in Sessions \ {s} :
    /\ t # u /\ of[t] = of[s] /\ of[u] = of[s]
    /\ pc[t] \in PastCgroup /\ pc[u] \in AtCgroup \cup PastCgroup

\* Whoever cleans up meanwhile, an engine that runs in a limited container is in its
\* cgroup, and the limits are set unless one session has removed it and another has made
\* it again: it takes three starts, for a start that finds the container started is
\* refused, but the last one's late save of Stopped lets a third begin.
LimitsHold ==
  \A s \in Sessions :
    LET c == of[s] IN
    pc[s] = "running" /\ engine[s] = "up" /\ c \in Limited =>
      /\ cgroup[c] # NoOne /\ s \in cgroup[c].procs
      /\ cgroup[c].limits \/ Overtaken(s)

\* A running container lacks the proxy of a port only if another session had the
\* port, or the host refused it.
PortLostToAnother ==
  \A s \in Sessions : pc[s] = "running" =>
    \A i \in DOMAIN Ports[of[s]] \ setup[s].proxies :
      \/ engine[s] = "dead" \/ i \in setup[s].unbound
      \/ \E t \in Sessions \ {s} : pc[t] # "idle" /\ Ports[of[s]][i] \in ToSet(Ports[of[t]])

\* Nobody takes the network of an engine that runs but a session that once had the
\* same name and gives it back late; least of all a start that finds it taken.
OnlyLateCleanupDisconnects ==
  [][\A s \in Sessions :
       Connected(s) /\ ~Connected(s)' /\ engine'[s] = "up" =>
         \E t \in Sessions \ {s} : pc[t] \in {"detach", "undo"} /\ Name(t) = Name(s)]_vars

\* The types, and what holds of the parts the containers share: a bridge that works, and
\* ports that are lost to nobody but another session or the host (ensure_bridge,
\* spawn_port_proxies).
WiringInv == TypeOK /\ BridgeWorks /\ PortLostToAnother
=============================================================================
