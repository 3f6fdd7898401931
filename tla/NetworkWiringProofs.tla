------------------------ MODULE NetworkWiringProofs ------------------------
(***************************************************************************)
(* Proofs about NetworkWiring, for any numbers of sessions and containers, *)
(* any addresses and ports, and any number of attempts and faults.         *)
(***************************************************************************)
EXTENDS NetworkWiring, TLAPS

-----------------------------------------------------------------------------
(***************************************************************************)
(* The inductive invariant.                                                *)
(***************************************************************************)

Shape ==
  /\ link \in [Names -> Veth \cup {NoOne}]
  /\ cgroup \in [Containers -> Cgroup \cup {NoOne}]

\* Where a session has a veth that it would undo, where it would clean one up, where its
\* proxies may be, and where it may have failed to remove something.
Linking == {"indices", "netns", "undo"} \cup InNamespace
Wired == {"proxies", "cgroup", "apply", "attach", "failed", "save", "running"}
Proxied == {"cgroup", "apply", "attach", "failed", "save", "running", "detach", "drop"}
Cleaning == {"detach", "drop", "remove"}
Leaving == {"failed", "reset", "save", "running", "done"} \cup Cleaning

\* A session knows its container from the spawn on, and cleans up after a dead engine.
SessionOK(s) ==
  /\ pc[s] = "idle" => engine[s] # "up"
  /\ pc[s] # "idle" => of[s] \in Containers /\ engine[s] # "none"
  /\ pc[s] \in Cleaning \cup {"reset", "done"} => engine[s] = "dead"
  /\ pc[s] \in Cleaning => setup[s].then \in {"save", "reset", "done"}

\* A veth is there only while its maker can still take it away, or could not, or has been
\* killed.
Owned(n) ==
  LET s == link[n].by IN
  Exists(n) =>
    /\ pc[s] # "idle" /\ n = Name(s)
    /\ pc[s] \in Linking \cup {"killed", "orphaned"} \/ setup[s].veth \/ "veth" \in setup[s].left
    /\ "addr" \in link[n].has => pc[s] \notin Linking
    /\ "link" \in bridge

Kept(s) ==
  /\ setup[s].veth => pc[s] \in Wired \cup {"detach"}
  /\ setup[s].left # {} => pc[s] \in Leaving

\* So is a port.
Listening(p) ==
  LET s == bound[p][1]  i == bound[p][2] IN
  bound[p] # NoOne =>
    /\ pc[s] \in Proxied /\ validate_port_maps(Ports[of[s]])
    /\ i \in DOMAIN Ports[of[s]] /\ p = Ports[of[s]][i]

Proxying(s) ==
  setup[s].proxies # {} =>
    /\ pc[s] \in Proxied /\ validate_port_maps(Ports[of[s]])
    /\ setup[s].proxies \subseteq DOMAIN Ports[of[s]]

Lost(s, i) == \E t \in Sessions \ {s} : pc[t] # "idle" /\ Ports[of[s]][i] \in ToSet(Ports[of[t]])

Served(s) ==
  pc[s] \in {"cgroup", "apply", "attach", "save", "running"} =>
    \A i \in DOMAIN Ports[of[s]] \ setup[s].proxies :
      engine[s] = "dead" \/ i \in setup[s].unbound \/ Lost(s, i)

Overtaker(s) == \E t \in Sessions \ {s} : of[t] = of[s] /\ pc[t] \in PastCgroup

Bounded(s) ==
  LET group == cgroup[of[s]] IN
  of[s] \in Limited =>
    /\ pc[s] = "attach" => IF group = NoOne THEN Overtaker(s) ELSE group.limits \/ Overtaken(s)
    /\ pc[s] \in {"save", "running"} /\ engine[s] = "up" =>
         group # NoOne /\ s \in group.procs /\ (group.limits \/ Overtaken(s))

BridgeMade ==
  /\ \A s \in Sessions : pc[s] \in {"bridge_up", "bridge_addr", "veth"} => "link" \in bridge
  /\ \A s \in Sessions : pc[s] = "bridge_addr" => "up" \in bridge
  /\ faults = 0 /\ "link" \in bridge =>
       \/ bridge = {"link", "up", "addr"}
       \/ \E t \in Sessions : pc[t] \in {"bridge_up", "bridge_addr"}

SessionInv == \A s \in Sessions : SessionOK(s) /\ Kept(s) /\ Proxying(s) /\ Served(s)
LinkInv == \A n \in Names : Owned(n)
PortInv == \A p \in HostPorts : Listening(p)
LimitInv == \A s \in Sessions : Bounded(s)

Typed == TypeOK /\ Shape
Rest == SessionInv /\ LinkInv /\ PortInv /\ LimitInv /\ BridgeMade
HostInv == Typed /\ Rest

-----------------------------------------------------------------------------
(***************************************************************************)
(* Types.                                                                  *)
(***************************************************************************)
LEMMA AddressNames ==
  /\ \A s \in Sessions : of[s] \in Containers => Name(s) \in Names
  /\ \A c \in Containers : DOMAIN Ports[c] \subseteq Proxies
BY DEF Name, Names, Addresses, veth_host_name, Proxies

LEMMA PortNames ==
  ASSUME NEW c \in Containers, validate_port_maps(Ports[c]), NEW i \in DOMAIN Ports[c]
  PROVE  Ports[c][i] \in HostPorts
<1>1. Ports[c][i] \in ToSet(Ports[c])
  BY DEF ToSet
<1>2. Ports[c][i] # 0
  BY <1>1 DEF validate_port_maps
<1>3. HostPorts = {p \in UNION {ToSet(Ports[d]) : d \in Containers} : p # 0}
  BY DEF HostPorts
<1> QED
  BY <1>1, <1>2, <1>3

\* What a change of one part of a session's setup makes.
LEMMA SetupChange ==
  ASSUME setup \in [Sessions -> Setup], NEW s \in Sessions
  PROVE  /\ [setup EXCEPT ![s].veth = TRUE] \in [Sessions -> Setup]
         /\ [setup EXCEPT ![s].veth = FALSE] \in [Sessions -> Setup]
         /\ [setup EXCEPT ![s].cgroup = TRUE] \in [Sessions -> Setup]
         /\ [setup EXCEPT ![s].cgroup = FALSE] \in [Sessions -> Setup]
         /\ \A ps \in SUBSET Proxies : [setup EXCEPT ![s].proxies = ps] \in [Sessions -> Setup]
         /\ \A label \in PCs : [setup EXCEPT ![s].then = label] \in [Sessions -> Setup]
         /\ \A ps, qs \in SUBSET Proxies :
              [setup EXCEPT ![s].proxies = ps, ![s].unbound = qs] \in [Sessions -> Setup]
         /\ \A rs \in SUBSET Removals :
              /\ [setup EXCEPT ![s].left = rs] \in [Sessions -> Setup]
              /\ [setup EXCEPT ![s].veth = FALSE, ![s].left = rs] \in [Sessions -> Setup]
              /\ [setup EXCEPT ![s].cgroup = FALSE, ![s].left = rs] \in [Sessions -> Setup]
<1>1. setup[s] \in Setup
  OBVIOUS
<1>2. ASSUME NEW ps \in SUBSET Proxies PROVE [setup EXCEPT ![s].proxies = ps] \in [Sessions -> Setup]
  BY <1>1 DEF Setup
<1>3. ASSUME NEW label \in PCs PROVE [setup EXCEPT ![s].then = label] \in [Sessions -> Setup]
  BY <1>1 DEF Setup
<1>4. /\ [setup EXCEPT ![s].veth = TRUE] \in [Sessions -> Setup]
      /\ [setup EXCEPT ![s].veth = FALSE] \in [Sessions -> Setup]
  BY <1>1 DEF Setup
<1>5. /\ [setup EXCEPT ![s].cgroup = TRUE] \in [Sessions -> Setup]
      /\ [setup EXCEPT ![s].cgroup = FALSE] \in [Sessions -> Setup]
  BY <1>1 DEF Setup
<1>6. ASSUME NEW ps \in SUBSET Proxies, NEW qs \in SUBSET Proxies
      PROVE  [setup EXCEPT ![s].proxies = ps, ![s].unbound = qs] \in [Sessions -> Setup]
  BY <1>1 DEF Setup
<1>7. ASSUME NEW rs \in SUBSET Removals
      PROVE  /\ [setup EXCEPT ![s].left = rs] \in [Sessions -> Setup]
             /\ [setup EXCEPT ![s].veth = FALSE, ![s].left = rs] \in [Sessions -> Setup]
             /\ [setup EXCEPT ![s].cgroup = FALSE, ![s].left = rs] \in [Sessions -> Setup]
  BY <1>1 DEF Setup
<1> QED
  BY <1>2, <1>3, <1>4, <1>5, <1>6, <1>7

LEMMA TypeStep ==
  ASSUME TypeOK, Shape, [Next]_vars, \A s \in Sessions : SessionOK(s) /\ Proxying(s)
  PROVE  TypeOK' /\ Shape'
<1> USE DEF PCs, Requests, InNamespace, Goto, Ask
<1>0. setup \in [Sessions -> Setup]
  BY DEF TypeOK, Setup
<1>1. CASE UNCHANGED vars
  BY <1>1 DEF vars, TypeOK, Shape, Exists
<1>2. ASSUME NEW s \in Sessions, NEW c \in Containers, Spawn(s, c) PROVE TypeOK' /\ Shape'
  BY <1>2 DEF Spawn, TypeOK, Shape
<1>3. ASSUME NEW s \in Sessions, ensure_bridge(s) PROVE TypeOK' /\ Shape'
  <2> USE DEF TypeOK, Shape, BridgeUnchanged
  <2>1. CASE FindBridge(s)
    BY <2>1 DEF FindBridge
  <2>2. CASE create_bridge(s)
    BY <2>2 DEF create_bridge
  <2>3. CASE BridgeUp(s)
    BY <2>3 DEF BridgeUp
  <2>4. CASE BridgeAddress(s)
    BY <2>4 DEF BridgeAddress
  <2> QED
    BY <1>3, <2>1, <2>2, <2>3, <2>4 DEF ensure_bridge
<1>4. ASSUME NEW s \in Sessions, attach_container(s) PROVE TypeOK' /\ Shape'
  <2>1. pc[s] # "idle" /\ Name(s) \in Names
    BY <1>4, AddressNames
    DEF attach_container, create_veth_pair, attach_impl, link_index, open_netns_fd, Undo, OnLink,
        move_link_to_netns, set_link_up_by_name, set_link_master, rename_link_by_index, PeerUp, add_addr4, SessionOK
  <2> HIDE DEF Name
  <2> USE DEF TypeOK, Shape, LinkUnchanged
  <2>2. CASE create_veth_pair(s)
    BY <2>1, <2>2 DEF create_veth_pair, Veth
  <2>3. CASE link_index(s)
    BY <2>3 DEF link_index
  <2>4. CASE open_netns_fd(s)
    <3>1. attempts' \in [Sessions -> 0 .. MaxAttempts]
      <4>1. attempts[s] \in Nat /\ MaxAttempts \in Nat /\ attempts \in [Sessions -> 0 .. MaxAttempts]
        BY WiringAssumption
      <4> HIDE DEF TypeOK, Shape, PCs
      <4> QED
        BY <2>4, <4>1 DEF open_netns_fd
    <3>2. pc' \in [Sessions -> PCs]
      BY <2>4 DEF open_netns_fd
    <3> QED
      BY <2>4, <3>1, <3>2 DEF open_netns_fd
  <2>5. CASE Undo(s)
    BY <2>1, <2>5 DEF Undo, delete_link
  <2>6. ASSUME NEW from \in InNamespace, NEW does \in Done, NEW ok \in BOOLEAN, NEW to \in PCs,
               OnLink(s, from, does, ok, to), ok => Exists(Name(s)), UNCHANGED attempts,
               UNCHANGED setup \/ setup' = [setup EXCEPT ![s].veth = TRUE]
        PROVE  TypeOK' /\ Shape'
    <3>1. ok => link' = [link EXCEPT ![Name(s)].has = @ \cup {does}] /\ link[Name(s)] \in Veth
      BY <2>1, <2>6 DEF OnLink, Exists
    <3>2. link' \in [Names -> Veth \cup {NoOne}]
      BY <2>1, <2>6, <3>1 DEF OnLink, Veth
    <3>3. setup' \in [Sessions -> Setup]
      <4>1. CASE UNCHANGED setup
        BY <1>0, <4>1
      <4>2. CASE setup' = [setup EXCEPT ![s].veth = TRUE]
        BY <1>0, <4>2, SetupChange
      <4> QED
        BY <2>6, <4>1, <4>2
    <3> QED
      BY <2>6, <3>2, <3>3 DEF OnLink, Setup
  <2> QED
    BY <1>4, <2>2, <2>3, <2>4, <2>5, <2>6
    DEF attach_container, attach_impl, move_link_to_netns, set_link_up_by_name, set_link_master,
        rename_link_by_index, PeerUp, add_addr4, with_netns, Exists, Done
<1>5. ASSUME NEW s \in Sessions, spawn_port_proxies(s) PROVE TypeOK' /\ Shape'
  <2>1. of[s] \in Containers
    BY <1>5 DEF spawn_port_proxies, SessionOK
  <2>2. setup' \in [Sessions -> Setup]
    BY <1>0, <1>5, <2>1, AddressNames, SetupChange DEF spawn_port_proxies
  <2> QED
    BY <1>5, <2>1, <2>2 DEF spawn_port_proxies, TypeOK, Shape, Setup
<1>6. ASSUME NEW s \in Sessions,
             NoLimits(s) \/ create_cgroup(s) \/ apply(s) \/ attach(s) \/ RemoveCgroup(s)
      PROVE  TypeOK' /\ Shape'
  <2>1. of[s] \in Containers
    BY <1>6 DEF NoLimits, create_cgroup, apply, attach, RemoveCgroup, SessionOK
  <2> USE DEF TypeOK, Shape, CgroupUnchanged
  <2>2. CASE NoLimits(s)
    BY <2>2 DEF NoLimits
  <2>3. CASE create_cgroup(s)
    <3>1. setup' \in [Sessions -> Setup]
      BY <1>0, <2>3, SetupChange DEF create_cgroup
    <3>2. cgroup' \in [Containers -> Cgroup \cup {NoOne}]
      BY <2>1, <2>3 DEF create_cgroup, Cgroup
    <3> QED
      BY <2>3, <3>1, <3>2 DEF create_cgroup, Setup
  <2>4. CASE apply(s)
    BY <2>1, <2>4 DEF apply, Cgroup
  <2>5. CASE attach(s)
    BY <2>1, <2>5 DEF attach, Attachable, Cgroup
  <2>6. CASE RemoveCgroup(s)
    <3> DEFINE c == of[s]
    <3>1. cgroup' \in [Containers -> Cgroup \cup {NoOne}]
      <4>1. CASE UNCHANGED cgroup \/ cgroup' = [cgroup EXCEPT ![c] = NoOne]
        BY <2>1, <4>1
      <4>2. CASE cgroup[c] # NoOne /\ cgroup' = [cgroup EXCEPT ![c].procs = {}]
        <5>1. cgroup[c] \in Cgroup /\ [cgroup[c] EXCEPT !.procs = {}] \in Cgroup
          BY <2>1, <4>2 DEF Cgroup
        <5>2. cgroup' = [cgroup EXCEPT ![c] = [cgroup[c] EXCEPT !.procs = {}]]
          BY <4>2
        <5> QED
          BY <5>1, <5>2
      <4> QED
        BY <2>6, <4>1, <4>2 DEF RemoveCgroup
    <3>2. setup' \in [Sessions -> Setup] /\ setup[s].then \in PCs
      <4>1. setup[s].then \in PCs
        BY <1>0 DEF Setup
      <4> QED
        BY <1>0, <2>6, <4>1, SetupChange DEF RemoveCgroup
    <3>3. pc' \in [Sessions -> PCs]
      BY <2>6, <3>2 DEF RemoveCgroup
    <3>4. engine' \in [Sessions -> {"none", "up", "dead"}]
      BY <2>6 DEF RemoveCgroup
    <3> QED
      BY <2>6, <3>1, <3>2, <3>3, <3>4 DEF RemoveCgroup, Setup
  <2> QED
    BY <1>6, <2>2, <2>3, <2>4, <2>5, <2>6
<1>7. ASSUME NEW s \in Sessions,
             SaveRunning(s) \/ WireUpFails(s) \/ WaitReturns(s) \/ Detach(s) \/ DropProxies(s) \/ AbortSave(s)
      PROVE  TypeOK' /\ Shape'
  <2>1. of[s] \in Containers /\ Name(s) \in Names
    BY <1>7, AddressNames DEF SaveRunning, WireUpFails, WaitReturns, Detach, DropProxies, AbortSave, SessionOK
  <2> HIDE DEF Name
  <2> USE DEF TypeOK, Shape
  <2>2. CASE SaveRunning(s)
    BY <2>1, <2>2 DEF SaveRunning
  <2>3. CASE WireUpFails(s)
    <3>1. setup' \in [Sessions -> Setup]
      <4>1. "reset" \in PCs /\ "save" \in PCs
        OBVIOUS
      <4> QED
        BY <1>0, <2>3, <4>1, SetupChange DEF WireUpFails
    <3>2. cgroup' \in [Containers -> Cgroup \cup {NoOne}]
      BY <2>3 DEF WireUpFails, EngineDead, WithoutProcess, Cgroup
    <3>3. engine' \in [Sessions -> {"none", "up", "dead"}]
      BY <2>3 DEF WireUpFails, EngineDead
    <3> QED
      BY <2>3, <3>1, <3>2, <3>3 DEF WireUpFails, Setup
  <2>4. CASE WaitReturns(s)
    <3>1. setup' \in [Sessions -> Setup]
      <4>1. "done" \in PCs
        OBVIOUS
      <4> QED
        BY <1>0, <2>4, <4>1, SetupChange DEF WaitReturns
    <3> QED
      BY <2>1, <2>4, <3>1 DEF WaitReturns, Setup
  <2>5. CASE Detach(s)
    <3>1. setup' \in [Sessions -> Setup]
      BY <1>0, <2>5, SetupChange DEF Detach
    <3>2. link' \in [Names -> Veth \cup {NoOne}]
      BY <2>1, <2>5 DEF Detach, delete_link
    <3> QED
      BY <2>5, <3>1, <3>2 DEF Detach, Setup
  <2>6. CASE DropProxies(s)
    <3>1. setup' \in [Sessions -> Setup]
      BY <1>0, <2>6, SetupChange DEF DropProxies
    <3> QED
      BY <2>6, <3>1 DEF DropProxies, Unlisten
  <2>7. CASE AbortSave(s)
    BY <2>1, <2>7 DEF AbortSave
  <2> QED
    BY <1>7, <2>2, <2>3, <2>4, <2>5, <2>6, <2>7
<1>8. ASSUME NEW s \in Sessions, StopSave(s) PROVE TypeOK' /\ Shape'
  BY <1>8 DEF StopSave, TypeOK, Shape
<1>9. ASSUME NEW s \in Sessions,
             EngineDies(s) \/ NamespaceGoes(s) \/ RequestFails(s) \/ RemovalFails(s) \/ Killed(s)
      PROVE  TypeOK' /\ Shape'
  <2> USE DEF TypeOK, Shape
  <2>1. CASE EngineDies(s)
    BY <2>1 DEF EngineDies, EngineDead, WithoutProcess, Cgroup
  <2>2. CASE NamespaceGoes(s)
    BY <2>2 DEF NamespaceGoes
  <2>3. CASE RequestFails(s)
    BY <2>3, WiringAssumption DEF RequestFails
  <2>4. CASE Killed(s)
    BY <2>4, WiringAssumption DEF Killed, Unlisten, NoSetup, Setup
  <2>5. CASE RemovalFails(s)
    <3> HIDE DEF TypeOK, Shape
    <3>1. faults' \in 0 .. MaxFaults
      BY <2>5, WiringAssumption DEF RemovalFails, TypeOK
    <3>2. /\ setup[s].left \cup {"veth"} \in SUBSET Removals /\ setup[s].left \cup {"cgroup"} \in SUBSET Removals
          /\ setup[s].then \in PCs
      <4> HIDE DEF PCs
      <4> QED
        BY <1>0 DEF Setup, Removals
    <3>3. CASE pc[s] = "undo"
      <4>1. setup' = [setup EXCEPT ![s].left = setup[s].left \cup {"veth"}]
        BY <1>0, <2>5, <3>3 DEF RemovalFails
      <4>2. setup' \in [Sessions -> Setup]
        BY <1>0, <3>2, <4>1, SetupChange
      <4> QED
        BY <2>5, <3>1, <3>3, <4>2 DEF RemovalFails, TypeOK, Shape
    <3>4. CASE pc[s] = "detach"
      <4>1. setup' = [setup EXCEPT ![s].veth = FALSE, ![s].left = setup[s].left \cup {"veth"}]
        BY <1>0, <2>5, <3>4 DEF RemovalFails
      <4>2. setup' \in [Sessions -> Setup]
        BY <1>0, <3>2, <4>1, SetupChange
      <4> QED
        BY <2>5, <3>1, <3>4, <4>2 DEF RemovalFails, TypeOK, Shape
    <3>5. CASE pc[s] = "remove"
      <4>1. /\ setup' = [setup EXCEPT ![s].cgroup = FALSE, ![s].left = setup[s].left \cup {"cgroup"}]
            /\ pc' = [pc EXCEPT ![s] = setup[s].then]
        BY <1>0, <2>5, <3>5 DEF RemovalFails
      <4>2. setup' \in [Sessions -> Setup]
        BY <1>0, <3>2, <4>1, SetupChange
      <4>3. pc' \in [Sessions -> PCs]
        <5> HIDE DEF PCs
        <5> QED
          BY <3>2, <4>1 DEF TypeOK
      <4> QED
        BY <2>5, <3>1, <4>2, <4>3 DEF RemovalFails, TypeOK, Shape
    <3> QED
      BY <2>5, <3>3, <3>4, <3>5 DEF RemovalFails
  <2> QED
    BY <1>9, <2>1, <2>2, <2>3, <2>4, <2>5
<1>10. ASSUME NEW s \in Sessions, NEW i \in setup[s].proxies, Bind(s, i) PROVE TypeOK' /\ Shape'
  <2>1. /\ of[s] \in Containers /\ i \in DOMAIN Ports[of[s]] /\ i \in Proxies
        /\ Ports[of[s]][i] \in HostPorts
    BY <1>10, PortNames, AddressNames DEF SessionOK, Proxying, Proxied
  <2> DEFINE p == Ports[of[s]][i]
  <2>2. CASE bound' = [bound EXCEPT ![p] = <<s, i>>] /\ UNCHANGED setup
    BY <1>10, <2>1, <2>2 DEF Bind, TypeOK, Shape
  <2>3. CASE setup' = [setup EXCEPT ![s].proxies = @ \ {i}] /\ UNCHANGED bound
    <3>1. setup[s].proxies \ {i} \in SUBSET Proxies
      BY <1>0 DEF Setup
    <3>2. setup' = [setup EXCEPT ![s].proxies = setup[s].proxies \ {i}]
      BY <1>0, <2>3
    <3>3. setup' \in [Sessions -> Setup]
      BY <1>0, <3>1, <3>2, SetupChange
    <3> QED
      BY <1>10, <2>3, <3>3 DEF Bind, TypeOK, Shape, Setup
  <2> QED
    BY <1>10, <2>2, <2>3 DEF Bind
<1>11. ASSUME NEW s \in Sessions, NEW i \in setup[s].proxies, BindFails(s, i) PROVE TypeOK' /\ Shape'
  <2>1. /\ setup[s].proxies \ {i} \in SUBSET Proxies
        /\ setup[s].unbound \cup {i} \in SUBSET Proxies
    BY <1>0 DEF Setup
  <2>2. setup' = [setup EXCEPT ![s].proxies = setup[s].proxies \ {i}, ![s].unbound = setup[s].unbound \cup {i}]
    BY <1>0, <1>11 DEF BindFails
  <2>3. setup' \in [Sessions -> Setup]
    BY <1>0, <2>1, <2>2, SetupChange
  <2>4. faults' \in 0 .. MaxFaults
    BY <1>11, WiringAssumption DEF BindFails, TypeOK
  <2> QED
    BY <1>11, <2>3, <2>4 DEF BindFails, TypeOK, Shape
<1> QED
  BY <1>1, <1>2, <1>3, <1>4, <1>5, <1>6, <1>7, <1>8, <1>9, <1>10, <1>11 DEF Next, Session, cleanup

-----------------------------------------------------------------------------
(***************************************************************************)
(* What a step of a session past its spawn takes to keep each part.        *)
(***************************************************************************)
Labels == PCs \ {"idle"}

\* Where the session is, what it has set up, and that engines do no more than die.
Becomes(s, label, su) ==
  /\ pc[s] # "idle"
  /\ pc' = [pc EXCEPT ![s] = label]
  /\ setup' = [setup EXCEPT ![s] = su]
  /\ UNCHANGED of
  /\ \A t \in Sessions : engine'[t] = engine[t] \/ engine'[t] = "dead"

LEMMA Became ==
  ASSUME Typed, NEW s \in Sessions, NEW label \in Labels, NEW su \in Setup, Becomes(s, label, su)
  PROVE  /\ pc'[s] = label /\ setup'[s] = su /\ of' = of
         /\ \A t \in Sessions \ {s} : pc'[t] = pc[t] /\ setup'[t] = setup[t]
         /\ \A t \in Sessions : engine'[t] = engine[t] \/ engine'[t] = "dead"
         /\ \A t \in Sessions : pc[t] # "idle" => pc'[t] # "idle"
         /\ \A t \in Sessions : pc'[t] # "idle" => pc[t] # "idle"
BY DEF Typed, TypeOK, Becomes, Labels

LEMMA SessionStep ==
  ASSUME Typed, SessionInv, NEW s \in Sessions, NEW label \in Labels, NEW su \in Setup, Becomes(s, label, su),
         label \in Cleaning \cup {"reset", "done"} => engine'[s] = "dead",
         label \in Cleaning => su.then \in {"save", "reset", "done"},
         su.veth => label \in Wired \cup {"detach"},
         su.left # {} => label \in Leaving,
         su.proxies # {} =>
           /\ label \in Proxied /\ validate_port_maps(Ports[of[s]])
           /\ su.proxies \subseteq DOMAIN Ports[of[s]],
         label \in {"cgroup", "apply", "attach", "save", "running"} =>
           \A i \in DOMAIN Ports[of[s]] \ su.proxies :
             engine'[s] = "dead" \/ i \in su.unbound \/ Lost(s, i)
  PROVE  SessionInv'
<1> SUFFICES ASSUME NEW t \in Sessions PROVE SessionOK(t)' /\ Kept(t)' /\ Proxying(t)' /\ Served(t)'
  BY DEF SessionInv
<1>0. SessionOK(t) /\ Kept(t) /\ Proxying(t) /\ Served(t) /\ pc[s] # "idle"
  BY DEF SessionInv, Becomes
<1>1. \A i : Lost(t, i) => Lost(t, i)'
  BY Became DEF Lost
<1>2. CASE t = s
  BY <1>0, <1>1, <1>2, Became DEF SessionOK, Kept, Proxying, Served, Labels
<1>3. CASE t # s
  BY <1>0, <1>1, <1>3, Became DEF SessionOK, Kept, Proxying, Served
<1> QED
  BY <1>2, <1>3

LEMMA LinkStep ==
  ASSUME Typed, LinkInv, NEW s \in Sessions, NEW label \in Labels, NEW su \in Setup, Becomes(s, label, su),
         "link" \in bridge => "link" \in bridge',
         \A n \in Names : link'[n] # NoOne =>
           IF link'[n].by = s
           THEN /\ n = Name(s) /\ "link" \in bridge
                /\ label \in Linking \cup {"killed", "orphaned"} \/ su.veth \/ "veth" \in su.left
                /\ "addr" \in link'[n].has => label \notin Linking
           ELSE /\ Exists(n) /\ link'[n].by = link[n].by
                /\ "addr" \in link'[n].has => "addr" \in link[n].has
  PROVE  LinkInv'
<1> SUFFICES ASSUME NEW n \in Names, Exists(n)' PROVE Owned(n)'
  BY DEF LinkInv, Owned
<1>0. Owned(n)
  BY DEF LinkInv
<1>1. link'[n] # NoOne /\ \A t : Name(t)' = Name(t)
  BY Became DEF Exists, Name
<1>2. CASE link'[n].by = s
  BY <1>1, <1>2, Became DEF Owned, Labels
<1>3. CASE link'[n].by # s
  <2>1. link[n].by \in Sessions \ {s} /\ link'[n].by = link[n].by /\ Exists(n)
    BY <1>1, <1>3 DEF Typed, Shape, Exists, Veth
  <2> QED
    BY <1>0, <1>1, <1>3, <2>1, Became DEF Owned
<1> QED
  BY <1>2, <1>3

LEMMA LinkQuiet ==
  ASSUME Typed, LinkInv, NEW s \in Sessions, NEW label \in Labels, NEW su \in Setup, Becomes(s, label, su),
         UNCHANGED <<link, bridge>>,
         pc[s] \in Linking \cup {"killed", "orphaned"} \/ setup[s].veth \/ "veth" \in setup[s].left =>
           label \in Linking \cup {"killed", "orphaned"} \/ su.veth \/ "veth" \in su.left,
         label \in Linking => pc[s] \in Linking
  PROVE  LinkInv'
<1>1. ASSUME NEW n \in Names, link'[n] # NoOne
      PROVE  IF link'[n].by = s
             THEN /\ n = Name(s) /\ "link" \in bridge
                  /\ label \in Linking \cup {"killed", "orphaned"} \/ su.veth \/ "veth" \in su.left
                  /\ "addr" \in link'[n].has => label \notin Linking
             ELSE /\ Exists(n) /\ link'[n].by = link[n].by
                  /\ "addr" \in link'[n].has => "addr" \in link[n].has
  BY <1>1 DEF LinkInv, Owned, Exists
<1> QED
  BY <1>1, LinkStep

LEMMA PortStep ==
  ASSUME Typed, PortInv, NEW s \in Sessions, NEW label \in Labels, NEW su \in Setup, Becomes(s, label, su),
         \A p \in HostPorts : bound'[p] \in {bound[p], NoOne},
         \/ label \in Proxied \/ pc[s] \notin Proxied
         \/ \A p \in HostPorts : bound'[p] = NoOne \/ bound'[p][1] # s
  PROVE  PortInv'
<1> SUFFICES ASSUME NEW p \in HostPorts, bound'[p] # NoOne PROVE Listening(p)'
  BY DEF PortInv, Listening
<1>1. bound'[p] = bound[p] /\ Listening(p) /\ bound[p] \in Sessions \X Proxies
  BY DEF PortInv, Typed, TypeOK
<1>2. bound[p][1] \in Sessions
  BY <1>1
<1>3. pc'[bound[p][1]] \in Proxied
  BY <1>1, <1>2, Became DEF Listening
<1> QED
  BY <1>1, <1>2, <1>3, Became DEF Listening

LEMMA Monotone ==
  ASSUME Typed, NEW s \in Sessions, NEW label \in Labels, NEW su \in Setup, Becomes(s, label, su),
         pc[s] \in PastCgroup => label \in PastCgroup,
         pc[s] \in AtCgroup \cup PastCgroup => label \in AtCgroup \cup PastCgroup
  PROVE  \A t \in Sessions : /\ Overtaken(t) => Overtaken(t)'
                             /\ Overtaker(t) => Overtaker(t)'
<1>1. \A t \in Sessions : /\ pc[t] \in PastCgroup => pc'[t] \in PastCgroup
                          /\ pc[t] \in AtCgroup \cup PastCgroup => pc'[t] \in AtCgroup \cup PastCgroup
                          /\ of'[t] = of[t]
  BY Became
<1> QED
  BY <1>1 DEF Overtaken, Overtaker

LEMMA LimitQuiet ==
  ASSUME Typed, LimitInv, NEW s \in Sessions, NEW label \in Labels, NEW su \in Setup, Becomes(s, label, su),
         pc[s] \in PastCgroup => label \in PastCgroup,
         pc[s] \in AtCgroup \cup PastCgroup => label \in AtCgroup \cup PastCgroup,
         UNCHANGED cgroup, label = "attach" => pc[s] = "attach",
         label \in {"save", "running"} /\ engine'[s] = "up" =>
           pc[s] \in {"save", "running"} \/ of[s] \notin Limited
  PROVE  LimitInv'
<1> SUFFICES ASSUME NEW t \in Sessions PROVE Bounded(t)'
  BY DEF LimitInv
<1>1. Bounded(t) /\ cgroup' = cgroup /\ of' = of
  BY Became DEF LimitInv
<1>2. (Overtaken(t) => Overtaken(t)') /\ (Overtaker(t) => Overtaker(t)')
  BY Monotone
<1>3. (pc'[t] = "attach" => pc[t] = "attach")
  BY Became
<1>4. pc'[t] \in {"save", "running"} /\ engine'[t] = "up" =>
        (pc[t] \in {"save", "running"} /\ engine[t] = "up") \/ of[t] \notin Limited
  BY Became
<1> QED
  BY <1>1, <1>2, <1>3, <1>4 DEF Bounded

LEMMA BridgeQuiet ==
  ASSUME Typed, BridgeMade, NEW s \in Sessions, NEW label \in Labels, NEW su \in Setup, Becomes(s, label, su),
         UNCHANGED bridge, label \notin {"bridge_up", "bridge_addr"} \/ label = pc[s],
         label = "veth" => pc[s] = "veth" \/ "link" \in bridge,
         pc[s] \in {"bridge_up", "bridge_addr"} /\ label # pc[s] => faults' # 0,
         faults' = 0 => faults = 0
  PROVE  BridgeMade'
<1>1. \A t \in Sessions : pc'[t] = pc[t] \/ (t = s /\ pc'[t] = label)
  BY Became
<1>2. \A t \in Sessions : pc[t] \in {"bridge_up", "bridge_addr"} /\ faults' = 0 => pc'[t] = pc[t]
  BY Became
<1> QED
  BY <1>1, <1>2 DEF BridgeMade

\* What a session may do next, or what may happen to it.
Turn(s) ==
  \/ \E c \in Containers : Spawn(s, c)
  \/ Session(s) \/ StopSave(s) \/ EngineDies(s) \/ NamespaceGoes(s)
  \/ RequestFails(s) \/ RemovalFails(s) \/ Killed(s)
  \/ \E i \in setup[s].proxies : Bind(s, i) \/ BindFails(s, i)

\* All of it, for a step that does not touch bridge, links, ports or cgroups.
LEMMA QuietStep ==
  ASSUME HostInv, NEW s \in Sessions, NEW label \in Labels, NEW su \in Setup, Becomes(s, label, su),
         UNCHANGED <<bridge, link, cgroup, bound>>, SessionInv',
         pc[s] \in Linking \cup {"killed", "orphaned"} \/ setup[s].veth \/ "veth" \in setup[s].left =>
           label \in Linking \cup {"killed", "orphaned"} \/ su.veth \/ "veth" \in su.left,
         label \in Linking => pc[s] \in Linking,
         label \in Proxied \/ pc[s] \notin Proxied,
         pc[s] \in PastCgroup => label \in PastCgroup,
         pc[s] \in AtCgroup \cup PastCgroup => label \in AtCgroup \cup PastCgroup,
         label = "attach" => pc[s] = "attach",
         label \in {"save", "running"} /\ engine'[s] = "up" =>
           pc[s] \in {"save", "running"} \/ of[s] \notin Limited,
         label \notin {"bridge_up", "bridge_addr"},
         label = "veth" => pc[s] = "veth" \/ "link" \in bridge,
         pc[s] \in {"bridge_up", "bridge_addr"} => faults' # 0,
         faults' = 0 => faults = 0
  PROVE  Rest'
<1>1. Typed /\ SessionInv /\ LinkInv /\ PortInv /\ LimitInv /\ BridgeMade
  BY DEF HostInv, Rest
<1>2. LinkInv'
  BY <1>1, LinkQuiet
<1>3. PortInv'
  BY <1>1, PortStep
<1>4. LimitInv'
  BY <1>1, LimitQuiet
<1>5. BridgeMade'
  BY <1>1, BridgeQuiet
<1> QED
  BY <1>2, <1>3, <1>4, <1>5 DEF Rest

LEMMA Here ==
  ASSUME HostInv, NEW s \in Sessions
  PROVE  /\ setup[s] \in Setup /\ pc[s] \in PCs
         /\ UNCHANGED setup => setup' = [setup EXCEPT ![s] = setup[s]]
         /\ UNCHANGED pc => pc' = [pc EXCEPT ![s] = pc[s]]
         /\ SessionOK(s) /\ Kept(s) /\ Proxying(s) /\ Served(s)
         /\ Typed /\ SessionInv /\ LinkInv /\ PortInv /\ LimitInv /\ BridgeMade
         /\ pc[s] # "idle" => Name(s) \in Names
BY AddressNames DEF HostInv, Rest, SessionInv, Typed, TypeOK, Setup, SessionOK

\* A session's own veth has its name.
LEMMA OwnName ==
  ASSUME HostInv, NEW n \in Names, Exists(n)
  PROVE  /\ n = Name(link[n].by) /\ Owned(n) /\ link[n] \in Veth
BY DEF HostInv, Typed, Shape, Rest, LinkInv, Owned, Exists

-----------------------------------------------------------------------------
(***************************************************************************)
(* ensure_bridge.                                                          *)
(***************************************************************************)
Early == {"bridge", "create_bridge", "bridge_up", "bridge_addr", "veth"}

LEMMA EarlyStep ==
  ASSUME HostInv, NEW s \in Sessions, pc[s] \in Early, NEW label \in Early \cup {"failed"},
         Becomes(s, label, setup[s]), UNCHANGED <<link, cgroup, bound, engine>>,
         "link" \in bridge => "link" \in bridge'
  PROVE  SessionInv' /\ LinkInv' /\ PortInv' /\ LimitInv'
<1> USE DEF Early, Labels, PCs, Requests, InNamespace, Linking, Wired, Proxied, Cleaning, Leaving,
            AtCgroup, PastCgroup
<1>1. ~setup[s].veth /\ setup[s].left = {} /\ setup[s].proxies = {} /\ label \in Labels
  BY Here DEF Kept, Proxying
<1>2. SessionInv'
  BY <1>1, Here, SessionStep
<1>3. LinkInv'
  <2>1. ASSUME NEW n \in Names, link'[n] # NoOne
        PROVE  link'[n].by # s /\ Exists(n) /\ link'[n] = link[n]
    BY <1>1, <2>1, OwnName DEF Owned, Exists
  <2> QED
    BY <1>1, <2>1, Here, LinkStep
<1>4. PortInv'
  BY <1>1, Here, PortStep
<1>5. LimitInv'
  BY <1>1, Here, LimitQuiet
<1> QED
  BY <1>2, <1>3, <1>4, <1>5

LEMMA BridgeKeeps ==
  ASSUME HostInv, NEW s \in Sessions, ensure_bridge(s)
  PROVE  Rest'
<1> USE DEF Early, Labels, PCs, Requests, InNamespace, Goto, Ask, BridgeUnchanged
<1>1. ASSUME NEW label \in Early \cup {"failed"}, pc[s] \in Early, Goto(s, label), BridgeUnchanged
      PROVE  Becomes(s, label, setup[s]) /\ label \in Labels
  BY <1>1, Here DEF Becomes
<1>2. CASE FindBridge(s)
  <2>1. PICK label \in {"veth", "create_bridge"} :
          Goto(s, label) /\ BridgeUnchanged /\ (label = "veth" => "link" \in bridge)
    BY <1>2 DEF FindBridge
  <2>2. pc[s] = "bridge" /\ bridge' = bridge
    BY <1>2 DEF FindBridge
  <2>3. Becomes(s, label, setup[s])
    BY <1>1, <2>1, <2>2
  <2>4. BridgeMade'
    BY <2>1, <2>2, <2>3, Here, BridgeQuiet
  <2> QED
    BY <2>1, <2>2, <2>3, <2>4, EarlyStep DEF Rest
<1>3. CASE create_bridge(s)
  <2>1. PICK label \in {"bridge_up", "failed"} :
          /\ Goto(s, label) /\ BridgeUnchanged /\ bridge' = bridge \cup {"link"}
          /\ label = "bridge_up" <=> "link" \notin bridge
    BY <1>3 DEF create_bridge
  <2>2. pc[s] = "create_bridge"
    BY <1>3 DEF create_bridge
  <2>3. Becomes(s, label, setup[s])
    BY <1>1, <2>1, <2>2
  <2>4. BridgeMade'
    <3>1. pc'[s] = label /\ \A t \in Sessions \ {s} : pc'[t] = pc[t]
      BY <2>1, <2>3, Here, Became
    <3> QED
      BY <2>1, <2>2, <3>1, Here DEF BridgeMade
  <2> QED
    BY <2>1, <2>2, <2>3, <2>4, EarlyStep DEF Rest
<1>4. CASE BridgeUp(s)
  <2>1. pc[s] = "bridge_up" /\ Goto(s, "bridge_addr") /\ BridgeUnchanged /\ bridge' = bridge \cup {"up"}
    BY <1>4 DEF BridgeUp
  <2>2. Becomes(s, "bridge_addr", setup[s])
    BY <1>1, <2>1
  <2>3. BridgeMade'
    <3>1. pc'[s] = "bridge_addr" /\ \A t \in Sessions \ {s} : pc'[t] = pc[t]
      BY <2>2, Here, Became
    <3> QED
      BY <2>1, <3>1, Here DEF BridgeMade
  <2> QED
    BY <2>1, <2>2, <2>3, EarlyStep DEF Rest
<1>5. CASE BridgeAddress(s)
  <2>1. pc[s] = "bridge_addr" /\ Goto(s, "veth") /\ BridgeUnchanged /\ bridge' = bridge \cup {"addr"}
    BY <1>5 DEF BridgeAddress
  <2>2. Becomes(s, "veth", setup[s])
    BY <1>1, <2>1
  <2>3. BridgeMade'
    <3>1. pc'[s] = "veth" /\ \A t \in Sessions \ {s} : pc'[t] = pc[t]
      BY <2>2, Here, Became
    <3>2. "link" \in bridge /\ "up" \in bridge /\ bridge \subseteq {"link", "up", "addr"}
      BY <2>1, Here DEF BridgeMade, Typed, TypeOK
    <3> QED
      BY <2>1, <3>1, <3>2, Here DEF BridgeMade
  <2> QED
    BY <2>1, <2>2, <2>3, EarlyStep DEF Rest
<1> QED
  BY <1>2, <1>3, <1>4, <1>5 DEF ensure_bridge

-----------------------------------------------------------------------------
(***************************************************************************)
(* attach_container.                                                       *)
(***************************************************************************)
LEMMA AttachStep ==
  ASSUME HostInv, NEW s \in Sessions, pc[s] \in Linking \cup {"veth"},
         NEW label \in Linking \cup {"proxies", "failed"}, NEW su \in Setup, Becomes(s, label, su),
         su.proxies = setup[s].proxies, su.left = setup[s].left, su.veth => label = "proxies",
         UNCHANGED <<bridge, cgroup, bound, engine, faults>>
  PROVE  SessionInv' /\ PortInv' /\ LimitInv' /\ BridgeMade'
<1> USE DEF Labels, PCs, Requests, InNamespace, Linking, Wired, Proxied, Cleaning, Leaving, AtCgroup, PastCgroup
<1>1. su.proxies = {} /\ su.left = {} /\ label \in Labels
  BY Here DEF Proxying, Kept
<1>2. SessionInv'
  BY <1>1, Here, SessionStep
<1>3. PortInv'
  BY <1>1, Here, PortStep
<1>4. LimitInv'
  BY <1>1, Here, LimitQuiet
<1>5. BridgeMade'
  BY <1>1, Here, BridgeQuiet
<1> QED
  BY <1>2, <1>3, <1>4, <1>5

LEMMA OnLinkKeeps ==
  ASSUME HostInv, NEW s \in Sessions, NEW from \in InNamespace, NEW does \in Done, NEW ok \in BOOLEAN,
         NEW to \in InNamespace \cup {"proxies"}, OnLink(s, from, does, ok, to),
         ok => Exists(Name(s)), does = "addr" <=> to = "proxies", ok /\ does = "addr" => with_netns(s),
         setup' = IF ok /\ does = "addr" THEN [setup EXCEPT ![s].veth = TRUE] ELSE setup
  PROVE  Rest'
<1> USE DEF InNamespace, Linking, Requests, PCs, Labels
<1> DEFINE label == IF ok THEN to ELSE "undo"
           su == IF ok /\ does = "addr" THEN [setup[s] EXCEPT !.veth = TRUE] ELSE setup[s]
<1>1. pc[s] = from /\ label \in Labels /\ label \in Linking \cup {"proxies", "failed"}
  BY DEF OnLink, Ask
<1>2. ~setup[s].veth /\ setup[s] \in Setup
  BY <1>1, Here DEF Kept, Wired
<1>3. /\ su \in Setup /\ su.proxies = setup[s].proxies /\ su.left = setup[s].left
      /\ su.veth <=> label = "proxies"
  BY <1>2 DEF Setup
<1>4. setup' = [setup EXCEPT ![s] = su]
  BY Here
<1>5. Becomes(s, label, su)
  BY <1>1, <1>4 DEF Becomes, OnLink, Ask, Goto, LinkUnchanged
<1>6. UNCHANGED <<bridge, cgroup, bound, engine, faults>>
  BY DEF OnLink, LinkUnchanged
<1> HIDE DEF label, su
<1>7. SessionInv' /\ PortInv' /\ LimitInv' /\ BridgeMade'
  BY <1>1, <1>3, <1>5, <1>6, AttachStep
<1>8. LinkInv'
  <2>1. CASE ~ok
    <3>1. UNCHANGED <<link, bridge>> /\ label = "undo"
      BY <1>6, <2>1 DEF OnLink, label
    <3> QED
      BY <1>1, <1>3, <1>5, <3>1, Here, LinkQuiet
  <2>2. CASE ok
    <3>1. Name(s) \in Names /\ Exists(Name(s)) /\ label = to
      BY <1>1, <2>2, Here DEF label
    <3>2. link \in [Names -> Veth \cup {NoOne}] /\ link[Name(s)] \in Veth
      BY <3>1, Here DEF Typed, Shape, Exists
    <3>3. link' = [link EXCEPT ![Name(s)].has = @ \cup {does}]
      BY <2>2 DEF OnLink
    <3>4. /\ \A n \in Names \ {Name(s)} : link'[n] = link[n]
          /\ link'[Name(s)].by = link[Name(s)].by
          /\ link'[Name(s)].has = link[Name(s)].has \cup {does}
      BY <3>1, <3>2, <3>3 DEF Veth
    <3>5. ASSUME NEW n \in Names, link'[n] # NoOne
          PROVE  IF link'[n].by = s
                 THEN /\ n = Name(s) /\ "link" \in bridge
                      /\ label \in Linking \cup {"killed", "orphaned"} \/ su.veth \/ "veth" \in su.left
                      /\ "addr" \in link'[n].has => label \notin Linking
                 ELSE /\ Exists(n) /\ link'[n].by = link[n].by
                      /\ "addr" \in link'[n].has => "addr" \in link[n].has
      <4>1. CASE n = Name(s)
        <5>1. Owned(n) /\ "link" \in bridge
          BY <3>1, <4>1, OwnName DEF Owned
        <5>2. CASE link[n].by = s
          <6>1. "addr" \notin link[n].has
            BY <1>1, <3>1, <4>1, <5>1, <5>2 DEF Owned
          <6> QED
            BY <1>3, <3>1, <3>4, <4>1, <5>1, <5>2, <6>1
        <5>3. CASE link[n].by # s
          BY <2>2, <3>1, <3>4, <4>1, <5>3 DEF with_netns
        <5> QED
          BY <5>2, <5>3
      <4>2. CASE n # Name(s)
        BY <3>4, <3>5, <4>2, OwnName DEF Exists
      <4> QED
        BY <4>1, <4>2
    <3>6. Typed /\ LinkInv /\ bridge' = bridge /\ label \in Labels /\ su \in Setup
      BY <1>1, <1>3, <1>6, Here
    <3> HIDE DEF InNamespace, Linking, Requests, PCs, Labels
    <3> QED
      BY <1>5, <3>5, <3>6, LinkStep
  <2> QED
    BY <2>1, <2>2
<1> QED
  BY <1>7, <1>8 DEF Rest

LEMMA AttachKeeps ==
  ASSUME HostInv, NEW s \in Sessions, attach_container(s)
  PROVE  Rest'
<1> USE DEF InNamespace, Linking, Requests, PCs, Labels, Ask, Goto, LinkUnchanged
<1>0. pc[s] # "idle" /\ Name(s) \in Names
  BY Here
  DEF attach_container, create_veth_pair, attach_impl, link_index, open_netns_fd, Undo, OnLink,
      move_link_to_netns, set_link_up_by_name, set_link_master, rename_link_by_index, PeerUp, add_addr4
<1>1. pc[s] \in Linking \cup {"veth"} => ~setup[s].veth /\ setup[s].left = {}
  BY Here DEF Kept, Wired, Leaving, Cleaning
<1>2. CASE create_veth_pair(s)
  <2>1. PICK label \in {"indices", "failed"} :
          pc' = [pc EXCEPT ![s] = label] /\ (label = "indices" <=> ~Exists(Name(s)))
    BY <1>2 DEF create_veth_pair
  <2>2. pc[s] = "veth" /\ UNCHANGED <<of, record, engine, ns, bridge, cgroup, bound, faults, setup>>
    BY <1>2 DEF create_veth_pair
  <2>3. Becomes(s, label, setup[s]) /\ label \in Labels /\ ~setup[s].veth
    BY <1>1, <2>1, <2>2, Here DEF Becomes
  <2>4. SessionInv' /\ PortInv' /\ LimitInv' /\ BridgeMade'
    BY <2>1, <2>2, <2>3, Here, AttachStep
  <2>5. LinkInv'
    <3> HIDE DEF Name
    <3>1. "link" \in bridge
      BY <2>2, Here DEF BridgeMade
    <3>2. link \in [Names -> Veth \cup {NoOne}]
      BY Here DEF Typed, Shape
    <3>3. /\ \A n \in Names \ {Name(s)} : link'[n] = link[n]
          /\ ~Exists(Name(s)) => link'[Name(s)] = [by |-> s, has |-> {}]
          /\ Exists(Name(s)) => link'[Name(s)] = link[Name(s)]
      BY <1>0, <1>2, <3>2 DEF create_veth_pair, Exists
    <3>4. ASSUME NEW n \in Names, Exists(n) PROVE link[n].by # s
      BY <1>1, <2>2, <3>4, OwnName DEF Owned
    <3>5. ASSUME NEW n \in Names, link'[n] # NoOne
          PROVE  IF link'[n].by = s
                 THEN /\ n = Name(s) /\ "link" \in bridge
                      /\ label \in Linking \cup {"killed", "orphaned"} \/ setup[s].veth \/ "veth" \in setup[s].left
                      /\ "addr" \in link'[n].has => label \notin Linking
                 ELSE /\ Exists(n) /\ link'[n].by = link[n].by
                      /\ "addr" \in link'[n].has => "addr" \in link[n].has
      <4>1. CASE n = Name(s) /\ ~Exists(n)
        BY <2>1, <3>1, <3>3, <4>1
      <4>2. CASE n # Name(s) \/ Exists(n)
        BY <3>3, <3>4, <3>5, <4>2 DEF Exists
      <4> QED
        BY <4>1, <4>2
    <3> QED
      BY <2>2, <2>3, <3>5, Here, LinkStep
  <2> QED
    BY <2>4, <2>5 DEF Rest
<1>3. CASE link_index(s) \/ open_netns_fd(s)
  <2>1. PICK label \in {"netns", "move", "undo"} : pc' = [pc EXCEPT ![s] = label]
    BY <1>3, Here DEF link_index, open_netns_fd
  <2>2. /\ pc[s] \in {"indices", "netns"}
        /\ UNCHANGED <<link, of, record, engine, ns, bridge, cgroup, bound, faults, setup>>
    BY <1>3 DEF link_index, open_netns_fd
  <2>3. Becomes(s, label, setup[s]) /\ label \in Labels
    BY <2>1, <2>2, Here DEF Becomes
  <2>4. SessionInv' /\ PortInv' /\ LimitInv' /\ BridgeMade'
    BY <1>1, <2>1, <2>2, <2>3, Here, AttachStep
  <2>5. LinkInv'
    BY <2>1, <2>2, <2>3, Here, LinkQuiet
  <2> QED
    BY <2>4, <2>5 DEF Rest
<1>4. CASE Undo(s)
  <2>1. /\ pc[s] = "undo" /\ pc' = [pc EXCEPT ![s] = "failed"]
        /\ UNCHANGED <<of, record, engine, ns, bridge, cgroup, bound, faults, setup>>
    BY <1>4 DEF Undo
  <2>2. Becomes(s, "failed", setup[s])
    BY <2>1, Here DEF Becomes
  <2>3. SessionInv' /\ PortInv' /\ LimitInv' /\ BridgeMade'
    BY <1>1, <2>1, <2>2, Here, AttachStep
  <2>4. LinkInv'
    <3>1. \A n \in Names : link'[n] = NoOne \/ (link'[n] = link[n] /\ n # Name(s))
      BY <1>0, <1>4, Here DEF Undo, delete_link, Typed, Shape
    <3>2. \A n \in Names : link'[n] # NoOne => Exists(n) /\ link'[n] = link[n] /\ link[n].by # s
      BY <3>1, OwnName DEF Exists
    <3>3. Typed /\ LinkInv /\ bridge' = bridge /\ "failed" \in Labels /\ setup[s] \in Setup
      BY <2>1, Here
    <3> HIDE DEF InNamespace, Linking, Requests, PCs, Labels, Name
    <3> QED
      BY <2>2, <3>2, <3>3, LinkStep
  <2> QED
    BY <2>3, <2>4 DEF Rest
<1>5. CASE /\ \/ move_link_to_netns(s) \/ set_link_up_by_name(s) \/ set_link_master(s)
              \/ rename_link_by_index(s) \/ PeerUp(s)
  <2>1. PICK from \in InNamespace, does \in Done \ {"addr"}, ok \in BOOLEAN, to \in InNamespace :
          OnLink(s, from, does, ok, to) /\ (ok => Exists(Name(s))) /\ UNCHANGED setup
    <3> HIDE DEF Ask, Goto, LinkUnchanged
    <3> QED
      BY <1>5
      DEF move_link_to_netns, set_link_up_by_name, set_link_master, rename_link_by_index, PeerUp,
          with_netns, Exists, Done
  <2> HIDE DEF Ask, Goto, LinkUnchanged
  <2> QED
    BY <2>1, OnLinkKeeps
<1>6. CASE add_addr4(s)
  <2>1. /\ OnLink(s, "addr", "addr", with_netns(s), "proxies") /\ with_netns(s) \in BOOLEAN
        /\ setup' = IF with_netns(s) THEN [setup EXCEPT ![s].veth = TRUE] ELSE setup
        /\ with_netns(s) => Exists(Name(s))
    BY <1>6 DEF add_addr4, with_netns, Exists
  <2> HIDE DEF Ask, Goto, LinkUnchanged
  <2> QED
    BY <2>1, OnLinkKeeps DEF Done
<1> QED
  BY <1>2, <1>3, <1>4, <1>5, <1>6 DEF attach_container, attach_impl

-----------------------------------------------------------------------------
(***************************************************************************)
(* Port proxies and the cgroup.                                            *)
(***************************************************************************)
LEMMA ProxiesKeep ==
  ASSUME HostInv, NEW s \in Sessions, spawn_port_proxies(s)
  PROVE  Rest'
<1> USE DEF Labels, PCs, Requests, InNamespace, Linking, Wired, Proxied, Cleaning, Leaving, AtCgroup, PastCgroup
<1> DEFINE ports == Ports[of[s]]
           ok == validate_port_maps(ports)
           label == IF ok THEN "cgroup" ELSE "failed"
           su == IF ok THEN [setup[s] EXCEPT !.proxies = DOMAIN ports] ELSE setup[s]
<1>1. /\ pc[s] = "proxies" /\ pc' = [pc EXCEPT ![s] = label]
      /\ UNCHANGED <<of, record, engine, ns, bridge, link, cgroup, bound, attempts, faults>>
      /\ setup' = IF ok THEN [setup EXCEPT ![s].proxies = DOMAIN ports] ELSE setup
  BY DEF spawn_port_proxies, Ask, Goto, validate_port_maps
<1>2. setup[s] \in Setup /\ setup[s].proxies = {} /\ setup[s].left = {} /\ of[s] \in Containers
  BY <1>1, Here DEF Proxying, Kept, SessionOK
<1>3. DOMAIN ports \in SUBSET Proxies
  BY <1>2, AddressNames
<1>4. /\ su \in Setup /\ su.veth = setup[s].veth /\ setup' = [setup EXCEPT ![s] = su]
      /\ su.left = setup[s].left /\ su.left = {}
      /\ su.proxies = IF ok THEN DOMAIN ports ELSE {}
  BY <1>1, <1>2, <1>3, Here DEF Setup
<1>5. Becomes(s, label, su)
  BY <1>1, <1>4 DEF Becomes
<1>6. label \in {"cgroup", "failed"} /\ (label = "cgroup" <=> ok)
  OBVIOUS
<1> HIDE DEF su, label
<1>7. SessionInv'
  BY <1>4, <1>5, <1>6, Here, SessionStep
<1> QED
  BY <1>1, <1>4, <1>5, <1>6, <1>7, QuietStep

LEMMA CgroupStep ==
  ASSUME HostInv, NEW s \in Sessions, pc[s] \in {"cgroup", "apply", "attach"},
         NEW label \in {"apply", "attach", "save", "failed"}, NEW su \in Setup, Becomes(s, label, su),
         su.veth = setup[s].veth, su.proxies = setup[s].proxies,
         su.left = setup[s].left, su.unbound = setup[s].unbound, UNCHANGED <<bridge, link, bound, engine, faults>>
  PROVE  /\ SessionInv' /\ LinkInv' /\ PortInv' /\ BridgeMade'
         /\ \A t \in Sessions : (Overtaken(t) => Overtaken(t)') /\ (Overtaker(t) => Overtaker(t)')
<1> USE DEF Labels, PCs, Requests, InNamespace, Linking, Wired, Proxied, Cleaning, Leaving, AtCgroup, PastCgroup
<1>1. label \in Labels /\ of[s] \in Containers
  BY Here DEF SessionOK
<1>2. SessionInv'
  BY <1>1, Here, SessionStep DEF Kept, Proxying, Served
<1>3. LinkInv'
  BY <1>1, Here, LinkQuiet
<1>4. PortInv'
  BY <1>1, Here, PortStep
<1>5. BridgeMade'
  BY <1>1, Here, BridgeQuiet
<1>6. \A t \in Sessions : (Overtaken(t) => Overtaken(t)') /\ (Overtaker(t) => Overtaker(t)')
  BY <1>1, Here, Monotone
<1> QED
  BY <1>2, <1>3, <1>4, <1>5, <1>6

LEMMA CgroupKeeps ==
  ASSUME HostInv, NEW s \in Sessions, NoLimits(s) \/ create_cgroup(s) \/ apply(s) \/ attach(s)
  PROVE  Rest'
<1> USE DEF Labels, PCs, Requests, InNamespace, Goto, Ask, CgroupUnchanged
<1>0. pc[s] # "idle" /\ of[s] \in Containers /\ setup[s] \in Setup
  BY Here DEF SessionOK, NoLimits, create_cgroup, apply, attach
<1>1. cgroup \in [Containers -> Cgroup \cup {NoOne}] /\ NoOne \notin Cgroup
  BY NoOneAssumption, Here DEF Typed, Shape
<1>2. CASE NoLimits(s)
  <2>1. pc[s] = "cgroup" /\ UNCHANGED <<bridge, link, cgroup, bound, engine, faults>> /\ of[s] \notin Limited
    BY <1>2 DEF NoLimits
  <2>2. Becomes(s, "save", setup[s])
    BY <1>2, Here DEF NoLimits, Becomes
  <2>3. SessionInv'
    BY <1>0, <2>1, <2>2, CgroupStep
  <2> QED
    BY <1>0, <2>1, <2>2, <2>3, QuietStep DEF Linking, Proxied, PastCgroup, AtCgroup
<1>3. CASE create_cgroup(s)
  <2> DEFINE c == of[s]  su == [setup[s] EXCEPT !.cgroup = TRUE]
  <2>1. pc[s] = "cgroup" /\ UNCHANGED <<bridge, link, bound, engine, faults, of>>
    BY <1>3 DEF create_cgroup
  <2>2. /\ su \in Setup /\ su.left = setup[s].left /\ su.unbound = setup[s].unbound
        /\ su.veth = setup[s].veth /\ su.proxies = setup[s].proxies
        /\ setup' = [setup EXCEPT ![s] = su]
    BY <1>0, <1>3 DEF Setup, create_cgroup
  <2>3. Becomes(s, "apply", su)
    BY <1>0, <1>3, <2>1, <2>2 DEF create_cgroup, Becomes
  <2> HIDE DEF su
  <2>4. /\ SessionInv' /\ LinkInv' /\ PortInv' /\ BridgeMade'
        /\ \A t \in Sessions : (Overtaken(t) => Overtaken(t)') /\ (Overtaker(t) => Overtaker(t)')
    BY <2>1, <2>2, <2>3, CgroupStep
  <2>5. pc'[s] = "apply" /\ \A t \in Sessions \ {s} : pc'[t] = pc[t]
    BY <2>2, <2>3, Here, Became
  <2>6. LimitInv'
    <3> SUFFICES ASSUME NEW t \in Sessions, of[t] \in Limited PROVE Bounded(t)'
      BY <2>1 DEF LimitInv, Bounded
    <3>1. Bounded(t) /\ of[t] \in Containers
      BY WiringAssumption, Here DEF LimitInv
    <3>2. CASE t = s
      BY <2>5, <3>2 DEF Bounded
    <3>3. CASE t # s /\ cgroup'[of[t]] = cgroup[of[t]]
      BY <2>1, <2>4, <2>5, <3>1, <3>3 DEF Bounded
    <3>4. CASE t # s /\ cgroup'[of[t]] # cgroup[of[t]]
      <4>1. of[t] = c /\ cgroup[c] = NoOne /\ cgroup'[c] # NoOne
        BY <1>0, <1>1, <1>3, <3>1, <3>4 DEF create_cgroup, Cgroup
      <4>2. ~(pc[t] \in {"save", "running"} /\ engine[t] = "up")
        BY <3>1, <4>1 DEF Bounded
      <4>3. pc[t] = "attach" => Overtaken(t)'
        <5> SUFFICES ASSUME pc[t] = "attach" PROVE Overtaken(t)'
          OBVIOUS
        <5>1. PICK u \in Sessions \ {t} : of[u] = of[t] /\ pc[u] \in PastCgroup
          BY <3>1, <4>1 DEF Bounded, Overtaker
        <5>2. u # s
          BY <2>1, <5>1 DEF PastCgroup
        <5> QED
          BY <2>1, <2>5, <3>4, <4>1, <5>1, <5>2 DEF Overtaken, AtCgroup
      <4> QED
        BY <2>1, <2>5, <3>4, <4>1, <4>2, <4>3 DEF Bounded
    <3> QED
      BY <3>2, <3>3, <3>4
  <2> QED
    BY <2>4, <2>6 DEF Rest
<1>4. CASE apply(s) \/ attach(s)
  <2> DEFINE c == of[s]
  <2>1. PICK label \in {"attach", "save", "failed"} :
          /\ pc' = [pc EXCEPT ![s] = label]
          /\ label = "attach" => apply(s) /\ cgroup[c] # NoOne
          /\ label = "save" => attach(s) /\ Attachable(s)
          /\ label = "failed" => cgroup' = cgroup
    BY <1>4 DEF apply, attach
  <2>2. pc[s] \in {"apply", "attach"} /\ UNCHANGED <<bridge, link, bound, engine, faults, of>>
    BY <1>4 DEF apply, attach
  <2>3. Becomes(s, label, setup[s])
    BY <1>4, <2>1, <2>2, Here DEF apply, attach, Becomes
  <2>4. /\ SessionInv' /\ LinkInv' /\ PortInv' /\ BridgeMade'
        /\ \A t \in Sessions : (Overtaken(t) => Overtaken(t)') /\ (Overtaker(t) => Overtaker(t)')
    BY <1>0, <2>1, <2>2, <2>3, CgroupStep
  <2>5. pc'[s] = label /\ \A t \in Sessions \ {s} : pc'[t] = pc[t]
    BY <1>0, <2>1, <2>3, Here, Became
  <2>6. \A d \in Containers :
          /\ cgroup'[d] = NoOne <=> cgroup[d] = NoOne
          /\ cgroup[d] # NoOne => /\ cgroup[d].limits => cgroup'[d].limits
                                 /\ cgroup[d].procs \subseteq cgroup'[d].procs
          /\ d = c /\ label = "attach" => cgroup'[d].limits
          /\ d = c /\ label = "save" => s \in cgroup'[d].procs /\ cgroup[d] # NoOne
    <3>1. CASE label = "failed"
      BY <2>1, <3>1
    <3>2. CASE label = "attach"
      <4>1. cgroup[c] \in Cgroup /\ cgroup' = [cgroup EXCEPT ![c].limits = TRUE]
        BY <1>0, <1>1, <2>1, <3>2 DEF apply
      <4>2. cgroup'[c] = [cgroup[c] EXCEPT !.limits = TRUE] /\ cgroup'[c] \in Cgroup
        BY <1>0, <1>1, <4>1 DEF Cgroup
      <4>3. \A d \in Containers \ {c} : cgroup'[d] = cgroup[d]
        BY <1>1, <4>1
      <4>4. cgroup'[c].limits /\ cgroup'[c].procs = cgroup[c].procs
        BY <4>1, <4>2 DEF Cgroup
      <4> QED
        BY <1>1, <3>2, <4>1, <4>2, <4>3, <4>4
    <3>3. CASE label = "save"
      <4>1. cgroup[c] \in Cgroup /\ cgroup' = [cgroup EXCEPT ![c].procs = @ \cup {s}]
        BY <1>0, <1>1, <2>1, <3>3 DEF attach, Attachable
      <4>2. cgroup'[c] = [cgroup[c] EXCEPT !.procs = @ \cup {s}] /\ cgroup'[c] \in Cgroup
        BY <1>0, <1>1, <4>1 DEF Cgroup
      <4>3. \A d \in Containers \ {c} : cgroup'[d] = cgroup[d]
        BY <1>1, <4>1
      <4>4. cgroup'[c].limits = cgroup[c].limits /\ cgroup'[c].procs = cgroup[c].procs \cup {s}
        BY <4>1, <4>2 DEF Cgroup
      <4> QED
        BY <1>1, <3>3, <4>1, <4>2, <4>3, <4>4
    <3> QED
      BY <3>1, <3>2, <3>3
  <2>7. LimitInv'
    <3> SUFFICES ASSUME NEW t \in Sessions, of[t] \in Limited PROVE Bounded(t)'
      BY <2>2 DEF LimitInv, Bounded
    <3>1. Bounded(t) /\ of[t] \in Containers
      BY WiringAssumption, Here DEF LimitInv
    <3>2. CASE t = s
      <4>1. label = "save" => pc[s] = "attach"
        BY <2>1 DEF attach
      <4> QED
        BY <2>1, <2>2, <2>4, <2>5, <2>6, <3>1, <3>2, <4>1 DEF Bounded
    <3>3. CASE t # s
      BY <2>2, <2>4, <2>5, <2>6, <3>1, <3>3 DEF Bounded
    <3> QED
      BY <3>2, <3>3
  <2> QED
    BY <2>4, <2>7 DEF Rest
<1> QED
  BY <1>2, <1>3, <1>4

-----------------------------------------------------------------------------
(***************************************************************************)
(* The rest of start_impl, and the cleanup.                                *)
(***************************************************************************)
LEMMA StartKeeps ==
  ASSUME HostInv, NEW s \in Sessions, SaveRunning(s) \/ WaitReturns(s) \/ AbortSave(s)
  PROVE  Rest'
<1> USE DEF Labels, PCs, Requests, InNamespace, Linking, Wired, Proxied, Cleaning, Leaving, AtCgroup, PastCgroup, Goto
<1>0. setup[s] \in Setup
  BY Here
<1>1. CASE SaveRunning(s)
  <2>1. pc[s] = "save" /\ UNCHANGED <<bridge, link, cgroup, bound, engine, setup, faults>>
    BY <1>1 DEF SaveRunning
  <2>2. Becomes(s, "running", setup[s])
    BY <1>1, <2>1, Here DEF SaveRunning, Becomes
  <2>3. SessionInv'
    BY <1>0, <2>1, <2>2, Here, SessionStep DEF Kept, Proxying, Served
  <2> QED
    BY <1>0, <2>1, <2>2, <2>3, QuietStep
<1>2. CASE WaitReturns(s)
  <2> DEFINE su == [setup[s] EXCEPT !.then = "done"]
  <2>1. pc[s] = "running" /\ UNCHANGED <<bridge, link, cgroup, bound, engine, faults>> /\ engine[s] = "dead"
    BY <1>2 DEF WaitReturns
  <2>2. /\ su \in Setup /\ su.left = setup[s].left /\ su.unbound = setup[s].unbound
        /\ su.veth = setup[s].veth /\ su.proxies = setup[s].proxies
        /\ su.then = "done" /\ setup' = [setup EXCEPT ![s] = su]
    BY <1>0, <1>2 DEF WaitReturns, Setup
  <2>3. Becomes(s, "detach", su)
    BY <1>2, <2>1, <2>2 DEF WaitReturns, Becomes
  <2> HIDE DEF su
  <2>4. SessionInv'
    BY <2>1, <2>2, <2>3, Here, SessionStep DEF Kept, Proxying
  <2> QED
    BY <2>1, <2>2, <2>3, <2>4, QuietStep
<1>3. CASE AbortSave(s)
  <2>1. pc[s] = "reset" /\ UNCHANGED <<bridge, link, cgroup, bound, engine, setup, faults>>
    BY <1>3 DEF AbortSave
  <2>2. Becomes(s, "done", setup[s])
    BY <1>3, <2>1, Here DEF AbortSave, Becomes
  <2>3. SessionInv'
    BY <1>0, <2>1, <2>2, Here, SessionStep DEF Kept, Proxying, SessionOK
  <2> QED
    BY <1>0, <2>1, <2>2, <2>3, QuietStep
<1> QED
  BY <1>1, <1>2, <1>3

\* An engine that is dead leaves its cgroup; the cgroup stays.
LEMMA WithoutLimit ==
  ASSUME HostInv, NEW s \in Sessions, NEW label \in Labels, NEW su \in Setup, Becomes(s, label, su),
         label = "attach" => pc[s] = "attach",
         pc[s] \in PastCgroup => label \in PastCgroup,
         pc[s] \in AtCgroup \cup PastCgroup => label \in AtCgroup \cup PastCgroup,
         engine'[s] = "dead", UNCHANGED cgroup \/ cgroup' = WithoutProcess(s)
  PROVE  LimitInv'
<1>0. cgroup \in [Containers -> Cgroup \cup {NoOne}] /\ NoOne \notin Cgroup
  BY NoOneAssumption, Here DEF Typed, Shape
<1> SUFFICES ASSUME NEW t \in Sessions, of[t] \in Limited PROVE Bounded(t)'
  BY DEF LimitInv, Bounded, Becomes
<1>1. Bounded(t) /\ of[t] \in Containers /\ of' = of
  BY WiringAssumption, Here DEF LimitInv, Becomes
<1>2. /\ \A u \in Sessions \ {s} : pc'[u] = pc[u]
      /\ engine'[t] = "up" => engine[t] = "up" /\ t # s
      /\ pc'[t] = "attach" => pc[t] = "attach"
  BY Here, Became
<1>3. (Overtaken(t) => Overtaken(t)') /\ (Overtaker(t) => Overtaker(t)')
  BY Here, Monotone
<1>4. LET c == of[t] IN
      /\ cgroup'[c] = NoOne <=> cgroup[c] = NoOne
      /\ cgroup[c] # NoOne => /\ cgroup'[c].limits = cgroup[c].limits
                             /\ cgroup[c].procs \ {s} \subseteq cgroup'[c].procs
  <2>1. CASE cgroup' = WithoutProcess(s) /\ cgroup[of[t]] # NoOne
    <3>1. cgroup[of[t]] \in Cgroup
      BY <1>0, <1>1, <2>1
    <3>2. cgroup'[of[t]] = [cgroup[of[t]] EXCEPT !.procs = @ \ {s}]
      BY <1>1, <2>1 DEF WithoutProcess
    <3> QED
      BY <1>0, <3>1, <3>2 DEF Cgroup
  <2>2. CASE cgroup' = WithoutProcess(s) /\ cgroup[of[t]] = NoOne
    BY <1>1, <2>2 DEF WithoutProcess
  <2>3. CASE cgroup' = cgroup
    BY <2>3
  <2> QED
    BY <2>1, <2>2, <2>3
<1>5. pc'[t] = "attach" =>
        IF cgroup'[of[t]] = NoOne THEN Overtaker(t)' ELSE cgroup'[of[t]].limits \/ Overtaken(t)'
  BY <1>1, <1>2, <1>3, <1>4 DEF Bounded
<1>6. pc'[t] \in {"save", "running"} /\ engine'[t] = "up" =>
        /\ cgroup'[of[t]] # NoOne /\ t \in cgroup'[of[t]].procs
        /\ cgroup'[of[t]].limits \/ Overtaken(t)'
  BY <1>1, <1>2, <1>3, <1>4 DEF Bounded
<1> QED
  BY <1>1, <1>5, <1>6 DEF Bounded

LEMMA FailKeeps ==
  ASSUME HostInv, NEW s \in Sessions, WireUpFails(s)
  PROVE  Rest'
<1> USE DEF Labels, PCs, Requests, InNamespace, Linking, Wired, Proxied, Cleaning, Leaving, AtCgroup, PastCgroup
<1> DEFINE then == IF engine[s] = "up" THEN "reset" ELSE "save"
           su == [setup[s] EXCEPT !.then = then]
<1>1. pc[s] = "failed" /\ UNCHANGED <<of, bridge, link, bound, faults>> /\ pc' = [pc EXCEPT ![s] = "detach"]
  BY DEF WireUpFails, Goto
<1>2. engine \in [Sessions -> {"none", "up", "dead"}] /\ engine[s] # "none" /\ setup[s] \in Setup
  BY <1>1, Here DEF Typed, TypeOK, SessionOK
<1>3. /\ engine'[s] = "dead"
      /\ \A t \in Sessions : engine'[t] = engine[t] \/ engine'[t] = "dead"
      /\ UNCHANGED cgroup \/ cgroup' = WithoutProcess(s)
  BY <1>2 DEF WireUpFails, EngineDead
<1>4. then \in {"reset", "save"}
  OBVIOUS
<1>5. setup' = [setup EXCEPT ![s].then = then]
  BY DEF WireUpFails
<1> HIDE DEF then
<1>6. /\ su \in Setup /\ su.left = setup[s].left /\ su.unbound = setup[s].unbound
      /\ su.veth = setup[s].veth /\ su.proxies = setup[s].proxies
      /\ su.then \in {"reset", "save"} /\ setup' = [setup EXCEPT ![s] = su]
  BY <1>2, <1>4, <1>5 DEF Setup
<1>7. Becomes(s, "detach", su)
  BY <1>1, <1>3, <1>6 DEF Becomes
<1> HIDE DEF su
<1>8. SessionInv'
  BY <1>1, <1>3, <1>6, <1>7, Here, SessionStep DEF Kept, Proxying
<1>9. LinkInv'
  BY <1>1, <1>6, <1>7, Here, LinkQuiet
<1>10. PortInv'
  BY <1>1, <1>6, <1>7, Here, PortStep
<1>11. LimitInv'
  BY <1>1, <1>3, <1>6, <1>7, WithoutLimit
<1>12. BridgeMade'
  BY <1>1, <1>6, <1>7, Here, BridgeQuiet
<1> QED
  BY <1>8, <1>9, <1>10, <1>11, <1>12 DEF Rest

LEMMA DetachKeeps ==
  ASSUME HostInv, NEW s \in Sessions, Detach(s)
  PROVE  Rest'
<1> USE DEF Labels, PCs, Requests, InNamespace, Linking, Wired, Proxied, Cleaning, Leaving, AtCgroup, PastCgroup
<1> DEFINE su == [setup[s] EXCEPT !.veth = FALSE]
<1>1. /\ pc[s] = "detach" /\ UNCHANGED <<of, engine, bridge, cgroup, bound, faults>>
      /\ pc' = [pc EXCEPT ![s] = "drop"] /\ setup[s] \in Setup
  BY Here DEF Detach, Goto
<1>2. /\ su \in Setup /\ ~su.veth /\ su.proxies = setup[s].proxies /\ su.then = setup[s].then
      /\ su.left = setup[s].left /\ su.unbound = setup[s].unbound
      /\ setup' = [setup EXCEPT ![s] = su]
  BY <1>1 DEF Setup, Detach
<1>3. Becomes(s, "drop", su) /\ engine[s] = "dead" /\ Name(s) \in Names
  BY <1>1, <1>2, Here DEF Becomes, SessionOK
<1> HIDE DEF su
<1>4. SessionInv'
  BY <1>1, <1>2, <1>3, Here, SessionStep DEF Proxying, SessionOK
<1>5. LinkInv'
  <2>1. ASSUME NEW n \in Names, link'[n] # NoOne
        PROVE  /\ Exists(n) /\ link'[n] = link[n]
               /\ link[n].by = s => n = Name(s) /\ "link" \in bridge /\ "veth" \in su.left
    <3>1. CASE setup[s].veth
      <4>1. link' = [link EXCEPT ![Name(s)] = NoOne] /\ link \in [Names -> Veth \cup {NoOne}]
        BY <3>1, Here DEF Detach, delete_link, Typed, Shape
      <4>2. n # Name(s) /\ link'[n] = link[n] /\ Exists(n)
        BY <1>3, <2>1, <4>1 DEF Exists
      <4> QED
        BY <4>2, OwnName
    <3>2. CASE ~setup[s].veth
      <4>1. link' = link /\ Exists(n)
        BY <2>1, <3>2 DEF Detach, Exists
      <4> QED
        BY <1>1, <1>2, <3>2, <4>1, OwnName DEF Owned
    <3> QED
      BY <3>1, <3>2
  <2>2. Typed /\ LinkInv /\ bridge' = bridge /\ "drop" \in Labels \ Linking /\ su \in Setup
    BY <1>1, <1>2, Here
  <2> HIDE DEF Labels, PCs, Requests, InNamespace, Linking
  <2> QED
    BY <1>3, <2>1, <2>2, LinkStep
<1>6. PortInv'
  BY <1>1, <1>2, <1>3, Here, PortStep
<1>7. LimitInv'
  BY <1>1, <1>2, <1>3, Here, LimitQuiet
<1>8. BridgeMade'
  BY <1>1, <1>2, <1>3, Here, BridgeQuiet
<1> QED
  BY <1>4, <1>5, <1>6, <1>7, <1>8 DEF Rest

LEMMA Unlistened ==
  ASSUME HostInv, NEW s \in Sessions, Unlisten(s)
  PROVE  \A p \in HostPorts : bound'[p] \in {bound[p], NoOne} /\ (bound'[p] = NoOne \/ bound'[p][1] # s)
BY Here DEF Unlisten, Typed, TypeOK

LEMMA DropKeeps ==
  ASSUME HostInv, NEW s \in Sessions, DropProxies(s)
  PROVE  Rest'
<1> USE DEF Labels, PCs, Requests, InNamespace, Linking, Wired, Proxied, Cleaning, Leaving, AtCgroup, PastCgroup
<1> DEFINE su == [setup[s] EXCEPT !.proxies = {}]
<1>1. /\ pc[s] = "drop" /\ UNCHANGED <<of, engine, bridge, link, cgroup, faults>>
      /\ pc' = [pc EXCEPT ![s] = "remove"] /\ setup[s] \in Setup
  BY Here DEF DropProxies, Goto
<1>2. /\ su \in Setup /\ su.left = setup[s].left /\ su.unbound = setup[s].unbound
      /\ su.veth = setup[s].veth /\ su.proxies = {} /\ su.then = setup[s].then
      /\ setup' = [setup EXCEPT ![s] = su]
  BY <1>1 DEF Setup, DropProxies
<1>3. Becomes(s, "remove", su) /\ engine[s] = "dead" /\ ~setup[s].veth
  BY <1>1, <1>2, Here DEF Becomes, SessionOK, Kept
<1> HIDE DEF su
<1>4. SessionInv'
  BY <1>1, <1>2, <1>3, Here, SessionStep DEF SessionOK
<1>5. LinkInv'
  BY <1>1, <1>2, <1>3, Here, LinkQuiet
<1>6. PortInv'
  <2>1. \A p \in HostPorts : bound'[p] \in {bound[p], NoOne} /\ (bound'[p] = NoOne \/ bound'[p][1] # s)
    BY Unlistened DEF DropProxies
  <2> QED
    BY <1>1, <1>2, <1>3, <2>1, Here, PortStep
<1>7. LimitInv'
  BY <1>1, <1>2, <1>3, Here, LimitQuiet
<1>8. BridgeMade'
  BY <1>1, <1>2, <1>3, Here, BridgeQuiet
<1> QED
  BY <1>4, <1>5, <1>6, <1>7, <1>8 DEF Rest

LEMMA RemoveKeeps ==
  ASSUME HostInv, NEW s \in Sessions, RemoveCgroup(s)
  PROVE  Rest'
<1> USE DEF Labels, PCs, Requests, InNamespace
<1> DEFINE c == of[s]
           label == setup[s].then
           su == [setup[s] EXCEPT !.cgroup = FALSE]
           procs == IF cgroup[c] = NoOne THEN {} ELSE cgroup[c].procs
<1>1. /\ pc[s] = "remove" /\ UNCHANGED <<of, bridge, link, bound, faults>>
      /\ pc' = [pc EXCEPT ![s] = label]
  BY DEF RemoveCgroup, Goto
<1>2. label \in {"save", "reset", "done"} /\ engine[s] = "dead" /\ setup[s] \in Setup /\ c \in Containers
  BY <1>1, Here DEF SessionOK, Cleaning
<1>3. /\ su \in Setup /\ su.left = setup[s].left /\ su.unbound = setup[s].unbound
      /\ su.veth = setup[s].veth /\ su.proxies = setup[s].proxies
      /\ setup' = [setup EXCEPT ![s] = su]
  BY <1>2 DEF Setup, RemoveCgroup
<1>4. /\ \A t \in Sessions : engine'[t] = engine[t] \/ engine'[t] = "dead"
      /\ engine'[s] = "dead"
  BY <1>2, Here DEF RemoveCgroup, Typed, TypeOK
<1>5. Becomes(s, label, su)
  BY <1>1, <1>3, <1>4 DEF Becomes
<1>6. ~su.veth /\ su.proxies = {}
  BY <1>1, <1>3, Here DEF Kept, Proxying, Wired, Proxied
<1> HIDE DEF label, su
<1>7. SessionInv'
  BY <1>1, <1>2, <1>3, <1>4, <1>5, <1>6, Here, SessionStep DEF Cleaning, Leaving, Kept
<1>8. LinkInv'
  BY <1>1, <1>2, <1>3, <1>5, <1>6, Here, LinkQuiet DEF Linking
<1>9. PortInv'
  BY <1>1, <1>2, <1>3, <1>5, Here, PortStep DEF Proxied
<1>10. BridgeMade'
  BY <1>1, <1>2, <1>3, <1>5, Here, BridgeQuiet
<1>11. LimitInv'
  <2>1. CASE UNCHANGED cgroup
    BY <1>2, <1>3, <1>4, <1>5, <2>1, Here, LimitQuiet DEF AtCgroup, PastCgroup
  <2>2. CASE cgroup' # cgroup
    <3>1. /\ engine' = [t \in Sessions |-> IF t \in procs THEN "dead" ELSE engine[t]]
          /\ \/ cgroup' = [cgroup EXCEPT ![c] = NoOne]
             \/ procs # {} /\ cgroup' = [cgroup EXCEPT ![c].procs = {}]
      BY <2>2 DEF RemoveCgroup
    <3>2. cgroup \in [Containers -> Cgroup \cup {NoOne}] /\ NoOne \notin Cgroup
      BY NoOneAssumption, Here DEF Typed, Shape
    <3>3. /\ \A d \in Containers \ {c} : cgroup'[d] = cgroup[d]
          /\ cgroup'[c] = NoOne \/ (/\ cgroup[c] # NoOne /\ cgroup'[c] # NoOne
                                   /\ cgroup'[c].limits = cgroup[c].limits)
      <4>1. CASE cgroup' = [cgroup EXCEPT ![c] = NoOne]
        BY <1>2, <3>2, <4>1
      <4>2. CASE procs # {} /\ cgroup' = [cgroup EXCEPT ![c].procs = {}]
        <5>1. cgroup[c] # NoOne /\ cgroup[c] \in Cgroup
          BY <1>2, <3>2, <4>2
        <5>2. cgroup'[c] = [cgroup[c] EXCEPT !.procs = {}] /\ \A d \in Containers \ {c} : cgroup'[d] = cgroup[d]
          BY <1>2, <3>2, <4>2
        <5>3. cgroup'[c] \in Cgroup /\ cgroup'[c].limits = cgroup[c].limits
          BY <5>1, <5>2 DEF Cgroup
        <5> QED
          BY <3>2, <5>1, <5>2, <5>3
      <4> QED
        BY <3>1, <4>1, <4>2
    <3>4. pc'[s] = label /\ \A t \in Sessions \ {s} : pc'[t] = pc[t]
      BY <1>2, <1>3, <1>5, Here, Became
    <3>5. \A t \in Sessions : (Overtaken(t) => Overtaken(t)') /\ (Overtaker(t) => Overtaker(t)')
      BY <1>1, <1>2, <1>3, <1>5, Here, Monotone DEF PastCgroup
    <3> SUFFICES ASSUME NEW t \in Sessions, of[t] \in Limited PROVE Bounded(t)'
      BY <1>1 DEF LimitInv, Bounded
    <3>6. Bounded(t)
      BY Here DEF LimitInv
    <3>7. CASE t = s
      BY <1>2, <1>4, <3>4, <3>7 DEF Bounded
    <3>8. CASE t # s /\ of[t] # c
      <4>1. of[t] \in Containers \ {c} /\ (engine'[t] = "up" => engine[t] = "up")
        BY <1>4, <3>8, WiringAssumption
      <4> QED
        BY <1>1, <3>3, <3>4, <3>5, <3>6, <3>8, <4>1 DEF Bounded
    <3>9. CASE t # s /\ of[t] = c
      <4>1. Overtaker(t)'
        BY <1>1, <1>2, <3>4, <3>9 DEF Overtaker, PastCgroup
      <4>2. ~(pc'[t] \in {"save", "running"} /\ engine'[t] = "up")
        BY <3>1, <3>4, <3>6, <3>9 DEF Bounded
      <4> QED
        BY <1>1, <3>3, <3>4, <3>5, <3>6, <3>9, <4>1, <4>2 DEF Bounded
    <3> QED
      BY <3>7, <3>8, <3>9
  <2> QED
    BY <2>1, <2>2
<1> QED
  BY <1>7, <1>8, <1>9, <1>10, <1>11 DEF Rest

-----------------------------------------------------------------------------
(***************************************************************************)
(* The kernel, and faults.                                                 *)
(***************************************************************************)
LEMMA DeathKeeps ==
  ASSUME HostInv, NEW s \in Sessions, EngineDies(s)
  PROVE  Rest'
<1>1. /\ engine[s] = "up" /\ UNCHANGED <<pc, of, setup, bridge, link, bound, faults>>
      /\ cgroup' = WithoutProcess(s) /\ engine' = [engine EXCEPT ![s] = "dead"]
  BY DEF EngineDies, EngineDead
<1>2. pc[s] \in Labels /\ setup[s] \in Setup
  BY <1>1, Here DEF SessionOK, Labels
<1>3. engine'[s] = "dead" /\ \A t \in Sessions : engine'[t] = engine[t] \/ engine'[t] = "dead"
  BY <1>1, Here DEF Typed, TypeOK
<1>4. Becomes(s, pc[s], setup[s])
  BY <1>1, <1>2, <1>3, Here DEF Becomes, Labels
<1>5. SessionInv'
  BY <1>2, <1>3, <1>4, Here, SessionStep DEF SessionOK, Kept, Proxying
<1>6. LinkInv'
  BY <1>1, <1>2, <1>4, Here, LinkQuiet
<1>7. PortInv'
  BY <1>1, <1>2, <1>4, Here, PortStep
<1>8. LimitInv'
  BY <1>1, <1>2, <1>3, <1>4, WithoutLimit
<1>9. BridgeMade'
  BY <1>1, <1>2, <1>4, Here, BridgeQuiet
<1> QED
  BY <1>5, <1>6, <1>7, <1>8, <1>9 DEF Rest

LEMMA NamespaceKeeps ==
  ASSUME HostInv, NEW s \in Sessions, NamespaceGoes(s)
  PROVE  Rest'
<1>1. UNCHANGED <<pc, of, record, engine, bridge, cgroup, bound, setup, faults>>
  BY DEF NamespaceGoes
<1>2. LinkInv'
  <2> SUFFICES ASSUME NEW n \in Names, Exists(n)' PROVE Owned(n)'
    BY DEF LinkInv, Owned
  <2>1. link'[n] = link[n] /\ Exists(n)
    BY DEF NamespaceGoes, Exists
  <2>2. Owned(n)
    BY Here DEF LinkInv
  <2>3. \A t : Name(t)' = Name(t)
    BY <1>1 DEF Name
  <2> QED
    BY <1>1, <2>1, <2>2, <2>3 DEF Owned
<1>3. SessionInv'
  BY <1>1, Here DEF SessionInv, SessionOK, Kept, Proxying, Served, Lost
<1>4. PortInv' /\ BridgeMade'
  BY <1>1, Here DEF PortInv, Listening, BridgeMade
<1>5. LimitInv'
  BY <1>1, Here DEF LimitInv, Bounded, Overtaken, Overtaker
<1> QED
  BY <1>2, <1>3, <1>4, <1>5 DEF Rest

LEMMA FaultKeeps ==
  ASSUME HostInv, NEW s \in Sessions, RequestFails(s) \/ Killed(s)
  PROVE  Rest'
<1> USE DEF Labels, PCs, Requests, InNamespace, Linking, Wired, Proxied, Cleaning, Leaving, AtCgroup, PastCgroup
<1>0. setup[s] \in Setup /\ faults \in Nat
  BY WiringAssumption, Here DEF Typed, TypeOK
<1>1. CASE RequestFails(s)
  <2>1. PICK label \in {"undo", "failed"} :
          /\ pc' = [pc EXCEPT ![s] = label]
          /\ label = "undo" <=> pc[s] \in InNamespace \cup {"indices"}
    BY <1>1 DEF RequestFails, Goto
  <2>2. pc[s] \in Requests /\ UNCHANGED <<of, engine, bridge, link, cgroup, bound, setup>>
    BY <1>1 DEF RequestFails
  <2>3. faults' # 0
    BY <1>0, <1>1 DEF RequestFails
  <2>4. Becomes(s, label, setup[s])
    BY <2>1, <2>2, Here DEF Becomes
  <2>5. setup[s].proxies # {} => label = "failed"
    BY <2>1, <2>2, Here DEF Proxying
  <2>6. (setup[s].veth => label = "failed") /\ setup[s].left = {}
    BY <2>1, <2>2, Here DEF Kept
  <2>7. SessionInv'
    BY <1>0, <2>1, <2>2, <2>4, <2>5, <2>6, Here, SessionStep DEF Kept, Proxying
  <2> QED
    BY <1>0, <2>1, <2>2, <2>3, <2>4, <2>5, <2>7, QuietStep
<1>2. CASE Killed(s)
  <2>1. PICK label \in {"killed", "orphaned"} : pc' = [pc EXCEPT ![s] = label]
    BY <1>2 DEF Killed, Goto
  <2>2. /\ pc[s] # "idle" /\ UNCHANGED <<of, engine, bridge, link, cgroup>>
        /\ setup' = [setup EXCEPT ![s] = NoSetup]
    BY <1>2 DEF Killed
  <2>3. faults' # 0
    BY <1>0, <1>2 DEF Killed
  <2>4. NoSetup \in Setup /\ ~NoSetup.veth /\ NoSetup.proxies = {} /\ NoSetup.left = {}
    BY DEF NoSetup, Setup
  <2>5. Becomes(s, label, NoSetup)
    BY <2>1, <2>2 DEF Becomes
  <2>6. SessionInv'
    BY <2>1, <2>4, <2>5, Here, SessionStep
  <2>7. LinkInv'
    BY <2>1, <2>2, <2>4, <2>5, Here, LinkQuiet
  <2>8. PortInv'
    <3>1. \A p \in HostPorts : bound'[p] \in {bound[p], NoOne} /\ (bound'[p] = NoOne \/ bound'[p][1] # s)
      BY <1>2, Unlistened DEF Killed
    <3> QED
      BY <2>1, <2>4, <2>5, <3>1, Here, PortStep
  <2>9. LimitInv'
    BY <2>1, <2>2, <2>4, <2>5, Here, LimitQuiet
  <2>10. BridgeMade'
    BY <2>1, <2>2, <2>3, <2>4, <2>5, Here, BridgeQuiet
  <2> QED
    BY <2>6, <2>7, <2>8, <2>9, <2>10 DEF Rest
<1> QED
  BY <1>1, <1>2

LEMMA BindKeeps ==
  ASSUME HostInv, NEW s \in Sessions, NEW i \in setup[s].proxies, Bind(s, i)
  PROVE  Rest'
<1> DEFINE p == Ports[of[s]][i]
           su == [setup[s] EXCEPT !.proxies = @ \ {i}]
<1>1. /\ pc[s] \in Proxied /\ validate_port_maps(Ports[of[s]]) /\ of[s] \in Containers
      /\ setup[s].proxies \subseteq DOMAIN Ports[of[s]] /\ setup[s] \in Setup /\ pc[s] \in Labels
  BY Here DEF Proxying, SessionOK, Proxied, Labels
<1>2. p \in HostPorts /\ i \in Proxies
  BY <1>1, PortNames, AddressNames
<1>3. UNCHANGED <<pc, of, record, engine, ns, bridge, link, cgroup, faults>> /\ bound[p] # <<s, i>>
  BY DEF Bind
<1>4. CASE bound[p] = NoOne
  <2>1. bound' = [bound EXCEPT ![p] = <<s, i>>] /\ setup' = setup
    BY <1>4 DEF Bind
  <2>2. PortInv'
    <3> SUFFICES ASSUME NEW q \in HostPorts PROVE Listening(q)'
      BY DEF PortInv
    <3>1. CASE q = p
      <4>1. bound'[q] = <<s, i>>
        BY <1>2, <2>1, <3>1, Here DEF Typed, TypeOK
      <4> QED
        BY <1>1, <1>3, <3>1, <4>1 DEF Listening
    <3>2. CASE q # p
      <4>1. bound'[q] = bound[q] /\ Listening(q)
        BY <2>1, <3>2, Here DEF Typed, TypeOK, PortInv
      <4> QED
        BY <1>3, <4>1 DEF Listening
    <3> QED
      BY <3>1, <3>2
  <2>3. SessionInv'
    BY <1>3, <2>1, Here DEF SessionInv, SessionOK, Kept, Proxying, Served, Lost
  <2>4. LinkInv'
    <3>1. \A n \in Names : Owned(n) => Owned(n)'
      BY <1>3, <2>1 DEF Owned, Exists, Name
    <3> QED
      BY <3>1, Here DEF LinkInv
  <2>5. LimitInv'
    BY <1>3, <2>1, Here DEF LimitInv, Bounded, Overtaken, Overtaker
  <2>6. BridgeMade'
    BY <1>3, Here DEF BridgeMade
  <2> QED
    BY <2>2, <2>3, <2>4, <2>5, <2>6 DEF Rest
<1>5. CASE bound[p] # NoOne
  <2>1. setup' = [setup EXCEPT ![s].proxies = @ \ {i}] /\ bound' = bound
    BY <1>5 DEF Bind
  <2>2. /\ su \in Setup /\ su.left = setup[s].left /\ su.unbound = setup[s].unbound
        /\ su.veth = setup[s].veth /\ su.proxies = setup[s].proxies \ {i}
        /\ su.then = setup[s].then /\ setup' = [setup EXCEPT ![s] = su]
    BY <1>1, <2>1 DEF Setup
  <2>3. Becomes(s, pc[s], su)
    BY <1>1, <1>3, <2>2, Here DEF Becomes, Labels
  <2>4. Lost(s, i)
    <3>1. PICK t \in Sessions, j \in Proxies : bound[p] = <<t, j>>
      BY <1>2, <1>5, Here DEF Typed, TypeOK
    <3>2. /\ pc[t] \in Proxied /\ j \in DOMAIN Ports[of[t]] /\ p = Ports[of[t]][j]
      <4> HIDE DEF p
      <4>1. Listening(p)
        BY <1>2, Here DEF PortInv
      <4>2. bound[p][1] = t /\ bound[p][2] = j
        BY <3>1
      <4> QED
        BY <1>5, <4>1, <4>2 DEF Listening
    <3>3. t # s
      BY <1>1, <1>3, <3>1, <3>2 DEF validate_port_maps, IsInjective
    <3> QED
      BY <3>2, <3>3 DEF Lost, Proxied, ToSet
  <2> HIDE DEF su, p
  <2>5. SessionInv'
    BY <1>1, <1>3, <2>2, <2>3, <2>4, Here, SessionStep DEF SessionOK, Kept, Proxying, Served
  <2> QED
    BY <1>1, <1>3, <2>1, <2>2, <2>3, <2>5, QuietStep DEF Proxied
<1> QED
  BY <1>4, <1>5

\* What cannot be removed stays, and the session knows nothing of it any more.
LEMMA RemovalKeeps ==
  ASSUME HostInv, NEW s \in Sessions, RemovalFails(s)
  PROVE  Rest'
<1> USE DEF Labels, PCs, Requests, InNamespace, Linking, Wired, Proxied, Cleaning, Leaving, AtCgroup, PastCgroup
<1>0. setup[s] \in Setup /\ faults \in Nat /\ setup \in [Sessions -> Setup]
  BY WiringAssumption, Here DEF Typed, TypeOK
<1>1. /\ UNCHANGED <<of, engine, bridge, link, cgroup, bound>> /\ faults' # 0
      /\ pc[s] \in {"undo", "detach", "remove"}
  BY <1>0 DEF RemovalFails
<1>2. PICK label \in {"failed", "drop", "save", "reset", "done"}, su \in Setup :
        /\ pc' = [pc EXCEPT ![s] = label] /\ setup' = [setup EXCEPT ![s] = su] /\ ~su.veth
        /\ su.proxies = setup[s].proxies /\ su.unbound = setup[s].unbound /\ su.then = setup[s].then
        /\ "veth" \in setup[s].left => "veth" \in su.left
        /\ pc[s] = "undo" => label = "failed" /\ "veth" \in su.left
        /\ pc[s] = "detach" => label = "drop" /\ "veth" \in su.left
        /\ pc[s] = "remove" => label \in {"save", "reset", "done"}
  <2>1. ~setup[s].veth \/ pc[s] = "detach"
    BY <1>1, Here DEF Kept
  <2>2. pc[s] = "remove" => setup[s].then \in {"save", "reset", "done"}
    BY Here DEF SessionOK
  <2> HIDE DEF Labels, PCs, Requests, InNamespace, Linking, Wired, Proxied, Cleaning, Leaving, AtCgroup, PastCgroup
  <2>3. CASE pc[s] = "undo"
    <3> DEFINE su == [setup[s] EXCEPT !.left = @ \cup {"veth"}]
    <3>1. /\ su \in Setup /\ su.veth = setup[s].veth /\ su.left = setup[s].left \cup {"veth"}
          /\ su.proxies = setup[s].proxies /\ su.unbound = setup[s].unbound /\ su.then = setup[s].then
      BY <1>0 DEF Setup, Removals
    <3>2. pc' = [pc EXCEPT ![s] = "failed"] /\ setup' = [setup EXCEPT ![s] = su]
      BY <1>0, <2>3 DEF RemovalFails, Goto
    <3> QED
      BY <2>1, <2>3, <3>1, <3>2
  <2>4. CASE pc[s] = "detach"
    <3> DEFINE su == [setup[s] EXCEPT !.veth = FALSE, !.left = @ \cup {"veth"}]
    <3>1. /\ su \in Setup /\ ~su.veth /\ su.left = setup[s].left \cup {"veth"}
          /\ su.proxies = setup[s].proxies /\ su.unbound = setup[s].unbound /\ su.then = setup[s].then
      BY <1>0 DEF Setup, Removals
    <3>2. pc' = [pc EXCEPT ![s] = "drop"] /\ setup' = [setup EXCEPT ![s] = su]
      BY <1>0, <2>4 DEF RemovalFails, Goto
    <3> QED
      BY <2>4, <3>1, <3>2
  <2>5. CASE pc[s] = "remove"
    <3> DEFINE su == [setup[s] EXCEPT !.cgroup = FALSE, !.left = @ \cup {"cgroup"}]
    <3>1. /\ su \in Setup /\ su.veth = setup[s].veth /\ su.left = setup[s].left \cup {"cgroup"}
          /\ su.proxies = setup[s].proxies /\ su.unbound = setup[s].unbound /\ su.then = setup[s].then
      BY <1>0 DEF Setup, Removals
    <3>2. pc' = [pc EXCEPT ![s] = setup[s].then] /\ setup' = [setup EXCEPT ![s] = su]
      BY <1>0, <2>5 DEF RemovalFails, Goto
    <3> QED
      BY <2>1, <2>2, <2>5, <3>1, <3>2
  <2> QED
    BY <1>1, <2>3, <2>4, <2>5
<1>3. Becomes(s, label, su)
  BY <1>1, <1>2 DEF Becomes
<1>4. /\ label \notin Cleaning \/ su.then \in {"save", "reset", "done"}
      /\ label # "failed" => engine[s] = "dead"
      /\ pc[s] # "detach" => setup[s].proxies = {} /\ ~setup[s].veth
  BY <1>1, <1>2, Here DEF SessionOK, Proxying, Kept
<1>5. SessionInv'
  BY <1>1, <1>2, <1>3, <1>4, Here, SessionStep DEF Proxying
<1> QED
  BY <1>1, <1>2, <1>3, <1>4, <1>5, QuietStep

LEMMA RefusalKeeps ==
  ASSUME HostInv, NEW s \in Sessions, NEW i \in setup[s].proxies, BindFails(s, i)
  PROVE  Rest'
<1> DEFINE su == [setup[s] EXCEPT !.proxies = @ \ {i}, !.unbound = @ \cup {i}]
<1>1. /\ pc[s] \in Proxied /\ validate_port_maps(Ports[of[s]])
      /\ setup[s].proxies \subseteq DOMAIN Ports[of[s]] /\ setup[s] \in Setup /\ pc[s] \in Labels
      /\ i \in Proxies /\ faults \in Nat
  BY WiringAssumption, Here DEF Proxying, Proxied, Labels, Typed, TypeOK, Setup
<1>2. UNCHANGED <<pc, of, engine, bridge, link, cgroup, bound>> /\ faults' # 0
  BY <1>1 DEF BindFails
<1>3. /\ su \in Setup /\ su.left = setup[s].left /\ su.unbound = setup[s].unbound \cup {i}
      /\ su.veth = setup[s].veth /\ su.proxies = setup[s].proxies \ {i}
      /\ su.then = setup[s].then /\ setup' = [setup EXCEPT ![s] = su]
  BY <1>1 DEF Setup, BindFails
<1>4. Becomes(s, pc[s], su)
  BY <1>1, <1>2, <1>3, Here DEF Becomes, Labels
<1> HIDE DEF su
<1>5. SessionInv'
  BY <1>1, <1>2, <1>3, <1>4, Here, SessionStep DEF SessionOK, Kept, Proxying, Served
<1> QED
  BY <1>1, <1>2, <1>3, <1>4, <1>5, QuietStep DEF Proxied

LEMMA SpawnKeeps ==
  ASSUME HostInv, NEW s \in Sessions, NEW c \in Containers, Spawn(s, c)
  PROVE  Rest'
<1>1. /\ pc[s] = "idle" /\ pc' = [pc EXCEPT ![s] = "bridge"] /\ of' = [of EXCEPT ![s] = c]
      /\ engine' = [engine EXCEPT ![s] = "up"]
      /\ UNCHANGED <<bridge, link, cgroup, bound, setup, attempts, faults>>
  BY DEF Spawn, Goto
<1>2. /\ pc'[s] = "bridge" /\ of'[s] = c /\ engine'[s] = "up"
      /\ \A t \in Sessions \ {s} : pc'[t] = pc[t] /\ of'[t] = of[t] /\ engine'[t] = engine[t]
  BY <1>1, Here DEF Typed, TypeOK
<1>3. ~setup[s].veth /\ setup[s].proxies = {} /\ setup[s].left = {}
  BY <1>1, Here DEF Kept, Proxying, Wired, Proxied, Leaving, Cleaning
<1>4. SessionInv'
  <2> SUFFICES ASSUME NEW t \in Sessions PROVE SessionOK(t)' /\ Kept(t)' /\ Proxying(t)' /\ Served(t)'
    BY DEF SessionInv
  <2>1. SessionOK(t) /\ Kept(t) /\ Proxying(t) /\ Served(t)
    BY Here
  <2>2. CASE t = s
    BY <1>1, <1>2, <1>3, <2>2 DEF SessionOK, Kept, Proxying, Served, Cleaning
  <2>3. CASE t # s
    <3>1. \A i : Lost(t, i) => Lost(t, i)'
      BY <1>1, <1>2, <2>3 DEF Lost
    <3> QED
      BY <1>1, <1>2, <2>1, <2>3, <3>1 DEF SessionOK, Kept, Proxying, Served
  <2> QED
    BY <2>2, <2>3
<1>5. LinkInv'
  <2> SUFFICES ASSUME NEW n \in Names, Exists(n)' PROVE Owned(n)'
    BY DEF LinkInv, Owned
  <2>1. Exists(n) /\ link' = link
    BY <1>1 DEF Exists
  <2>2. Owned(n) /\ link[n].by \in Sessions
    BY <2>1, OwnName DEF Veth
  <2>3. link[n].by # s
    BY <1>1, <2>1, <2>2 DEF Owned
  <2> QED
    BY <1>1, <1>2, <2>1, <2>2, <2>3 DEF Owned, Name, Exists
<1>6. PortInv'
  <2> SUFFICES ASSUME NEW p \in HostPorts, bound[p] # NoOne PROVE Listening(p)'
    BY <1>1 DEF PortInv, Listening
  <2>1. Listening(p) /\ bound[p] \in Sessions \X Proxies
    BY Here DEF PortInv, Typed, TypeOK
  <2>2. bound[p][1] \in Sessions \ {s}
    BY <1>1, <2>1 DEF Listening, Proxied
  <2> QED
    BY <1>1, <1>2, <2>1, <2>2 DEF Listening
<1>7. LimitInv'
  <2> SUFFICES ASSUME NEW t \in Sessions PROVE Bounded(t)'
    BY DEF LimitInv
  <2>1. Bounded(t)
    BY Here DEF LimitInv
  <2>2. CASE t = s
    BY <1>2, <2>2 DEF Bounded
  <2>3. CASE t # s
    <3>1. (Overtaken(t) => Overtaken(t)') /\ (Overtaker(t) => Overtaker(t)')
      BY <1>1, <1>2, <2>3 DEF Overtaken, Overtaker, AtCgroup, PastCgroup
    <3> QED
      BY <1>1, <1>2, <2>1, <2>3, <3>1 DEF Bounded
  <2> QED
    BY <2>2, <2>3
<1>8. BridgeMade'
  BY <1>1, <1>2, Here DEF BridgeMade
<1> QED
  BY <1>4, <1>5, <1>6, <1>7, <1>8 DEF Rest

-----------------------------------------------------------------------------
(***************************************************************************)
(* The invariant of the whole.                                             *)
(***************************************************************************)
LEMMA HostInit == Init => HostInv
<1> SUFFICES ASSUME Init PROVE HostInv
  OBVIOUS
<1>1. TypeOK
  BY WiringAssumption DEF Init, TypeOK, PCs, NoSetup, Setup
<1>2. Shape
  BY DEF Init, Shape
<1>3. SessionInv
  BY DEF Init, SessionInv, SessionOK, Kept, Proxying, Served, NoSetup, Cleaning
<1>4. LinkInv /\ PortInv
  BY DEF Init, LinkInv, PortInv, Owned, Listening, Exists
<1>5. LimitInv /\ BridgeMade
  BY DEF Init, LimitInv, Bounded, BridgeMade
<1> QED
  BY <1>1, <1>2, <1>3, <1>4, <1>5 DEF HostInv, Typed, Rest

LEMMA HostNext == HostInv /\ [Next]_vars => HostInv'
<1> SUFFICES ASSUME HostInv, [Next]_vars PROVE HostInv'
  OBVIOUS
<1>1. Typed'
  BY TypeStep DEF HostInv, Typed, Rest, SessionInv
<1>2. CASE UNCHANGED vars
  <2>1. SessionInv' /\ PortInv'
    BY <1>2 DEF vars, HostInv, Rest, SessionInv, SessionOK, Kept, Proxying, Served, Lost, PortInv, Listening
  <2>2. LinkInv'
    BY <1>2 DEF vars, HostInv, Rest, LinkInv, Owned, Exists, Name
  <2>3. LimitInv' /\ BridgeMade'
    BY <1>2 DEF vars, HostInv, Rest, LimitInv, Bounded, Overtaken, Overtaker, BridgeMade
  <2> QED
    BY <1>1, <2>1, <2>2, <2>3 DEF HostInv, Rest
<1>3. ASSUME NEW s \in Sessions, Session(s) PROVE Rest'
  BY <1>3, BridgeKeeps, AttachKeeps, ProxiesKeep, CgroupKeeps, StartKeeps, FailKeeps, DetachKeeps, DropKeeps, RemoveKeeps
  DEF Session, cleanup
<1>4. ASSUME NEW s \in Sessions, StopSave(s) PROVE Rest'
  <2>1. UNCHANGED <<pc, of, engine, ns, bridge, link, cgroup, bound, setup, attempts, faults>>
    BY <1>4 DEF StopSave
  <2>2. SessionInv' /\ PortInv'
    BY <2>1 DEF HostInv, Rest, SessionInv, SessionOK, Kept, Proxying, Served, Lost, PortInv, Listening
  <2>3. LinkInv'
    BY <2>1 DEF HostInv, Rest, LinkInv, Owned, Exists, Name
  <2>4. LimitInv' /\ BridgeMade'
    BY <2>1 DEF HostInv, Rest, LimitInv, Bounded, Overtaken, Overtaker, BridgeMade
  <2> QED
    BY <2>2, <2>3, <2>4 DEF Rest
<1>5. CASE Next
  <2>1. PICK s \in Sessions : Turn(s)
    BY <1>5 DEF Next, Turn
  <2>2. Rest'
    BY <1>3, <1>4, <2>1, SpawnKeeps, DeathKeeps, NamespaceKeeps, FaultKeeps, RemovalKeeps, BindKeeps,
       RefusalKeeps DEF Turn
  <2> QED
    BY <1>1, <2>2 DEF HostInv
<1> QED
  BY <1>1, <1>2, <1>5 DEF HostInv

LEMMA HostHolds == Spec => []HostInv
BY HostInit, HostNext, PTL DEF Spec

\* A session past its spawn stays so, with its container; and what may change a veth.
LEMMA Stays ==
  ASSUME HostInv, NEW s \in Sessions, pc[s] # "idle", NEW t \in Sessions, Turn(t)
  PROVE  pc'[s] # "idle" /\ of'[s] = of[s]
<1>0. pc \in [Sessions -> PCs] /\ of \in [Sessions -> Containers \cup {NoOne}]
  BY Here DEF Typed, TypeOK
<1>1. CASE \E c \in Containers : Spawn(t, c)
  BY <1>0, <1>1 DEF Spawn, Goto
<1>2. ASSUME NEW label, label # "idle", Goto(t, label), UNCHANGED of PROVE pc'[s] # "idle" /\ of'[s] = of[s]
  BY <1>0, <1>2 DEF Goto
<1>3. CASE ensure_bridge(t)
  BY <1>2, <1>3
  DEF ensure_bridge, FindBridge, create_bridge, BridgeUp, BridgeAddress, BridgeUnchanged, Ask
<1>4. CASE attach_container(t)
  BY <1>2, <1>4
  DEF attach_container, create_veth_pair, attach_impl, link_index, open_netns_fd, Undo, OnLink, Ask,
      LinkUnchanged, move_link_to_netns, set_link_up_by_name, set_link_master, rename_link_by_index,
      PeerUp, add_addr4
<1>5. CASE spawn_port_proxies(t) \/ NoLimits(t) \/ create_cgroup(t) \/ apply(t) \/ attach(t)
  BY <1>2, <1>5 DEF spawn_port_proxies, NoLimits, create_cgroup, apply, attach, Ask, CgroupUnchanged
<1>6. CASE SaveRunning(t) \/ WireUpFails(t) \/ WaitReturns(t) \/ Detach(t) \/ DropProxies(t) \/ AbortSave(t)
  BY <1>2, <1>6 DEF SaveRunning, WireUpFails, WaitReturns, Detach, DropProxies, AbortSave
<1>7. CASE RemoveCgroup(t)
  <2>1. setup[t].then # "idle"
    BY <1>7, Here DEF RemoveCgroup, SessionOK, Cleaning
  <2> QED
    BY <1>2, <1>7, <2>1 DEF RemoveCgroup
<1>8. CASE \/ StopSave(t) \/ EngineDies(t) \/ NamespaceGoes(t)
           \/ \E i \in setup[t].proxies : Bind(t, i) \/ BindFails(t, i)
  BY <1>8 DEF StopSave, EngineDies, NamespaceGoes, Bind, BindFails
<1>9. CASE RequestFails(t) \/ Killed(t)
  BY <1>2, <1>9 DEF RequestFails, Killed
<1>10. CASE RemovalFails(t)
  <2>1. pc[t] = "remove" => setup[t].then # "idle"
    BY Here DEF SessionOK, Cleaning
  <2> QED
    BY <1>2, <1>10, <2>1 DEF RemovalFails
<1> QED
  BY <1>1, <1>3, <1>4, <1>5, <1>6, <1>7, <1>8, <1>9, <1>10 DEF Turn, Session, cleanup

LEMMA LinkRests ==
  ASSUME NEW t \in Sessions, Turn(t)
  PROVE  link' = link \/ attach_container(t) \/ Detach(t) \/ NamespaceGoes(t)
BY DEF Turn, Spawn, Session, StopSave, EngineDies, RequestFails, RemovalFails, Killed, Bind, BindFails, ensure_bridge, FindBridge,
       create_bridge, BridgeUp, BridgeAddress, BridgeUnchanged, spawn_port_proxies, NoLimits, create_cgroup,
       apply, attach, CgroupUnchanged, SaveRunning, WireUpFails, WaitReturns, cleanup, DropProxies,
       RemoveCgroup, AbortSave

-----------------------------------------------------------------------------
(***************************************************************************)
(* The network of an engine: what of its veth is done at each label, and   *)
(* who may undo it.  Another invariant, beside HostInv.                    *)
(***************************************************************************)
Complete == {"proxies", "cgroup", "apply", "attach", "save", "running"}
Held == {"indices", "netns"} \cup InNamespace \cup Complete

DoneBy(label) ==
  CASE label = "up" -> {"moved"}
    [] label = "master" -> {"moved", "up"}
    [] label = "eth0" -> {"moved", "up", "master"}
    [] label = "peer_up" -> {"moved", "up", "master", "eth0"}
    [] label = "addr" -> {"moved", "up", "master", "eth0", "peer_up"}
    [] label \in Complete -> Done
    [] OTHER -> {}

HasLink(s, does) == Exists(Name(s)) /\ link[Name(s)].by = s /\ does \subseteq link[Name(s)].has

Disturbed(s) == \E t \in Sessions \ {s} : GaveBack(t) /\ Name(t) = Name(s)

Holding(s) == pc[s] \in Held /\ engine[s] = "up" => HasLink(s, DoneBy(pc[s])) \/ Disturbed(s)

\* A session that has not given back still knows that it has a veth.
Knows(s) == Attached(s) => setup[s].veth

NetInv == \A s \in Sessions : Holding(s) /\ Knows(s)

\* What a step of s leaves alone.
Only(s) ==
  /\ pc[s] # "idle" /\ of' = of
  /\ \A t \in Sessions \ {s} : pc'[t] = pc[t] /\ setup'[t].veth = setup[t].veth
  /\ \A t \in Sessions : engine'[t] = engine[t] \/ engine'[t] = "dead"

\* A session of a name that has given its veth back does not take it up again.
LEMMA StaysDisturbed ==
  ASSUME NEW s \in Sessions, Only(s), GaveBack(s) => GaveBack(s)'
  PROVE  \A t \in Sessions : Disturbed(t) => Disturbed(t)'
<1>1. \A t : Name(t)' = Name(t)
  BY DEF Only, Name
<1>2. \A t \in Sessions : GaveBack(t) => GaveBack(t)'
  BY DEF Only, GaveBack
<1> QED
  BY <1>1, <1>2 DEF Disturbed

LEMMA NetStep ==
  ASSUME HostInv, NetInv, NEW s \in Sessions, Only(s),
         GaveBack(s) => GaveBack(s)', Knows(s)',
         pc'[s] \in Held /\ engine'[s] = "up" => HasLink(s, DoneBy(pc[s]))' \/ Disturbed(s),
         \A n \in Names : Exists(n) /\ link[n].by # s =>
           \/ Exists(n)' /\ link'[n].by = link[n].by /\ link[n].has \subseteq link'[n].has
           \/ n = Name(s) /\ GaveBack(s)'
  PROVE  NetInv'
<1> SUFFICES ASSUME NEW t \in Sessions PROVE Holding(t)' /\ Knows(t)'
  BY DEF NetInv
<1>1. Disturbed(t) => Disturbed(t)'
  BY StaysDisturbed
<1>2. CASE t = s
  BY <1>1, <1>2 DEF Holding
<1>3. CASE t # s
  <2>1. pc'[t] = pc[t] /\ (engine'[t] = "up" => engine[t] = "up") /\ setup'[t].veth = setup[t].veth
    BY <1>3 DEF Only
  <2>2. Knows(t)'
    BY <2>1 DEF NetInv, Knows, Attached
  <2>3. Name(t)' = Name(t) /\ Name(s)' = Name(s)
    BY DEF Only, Name
  <2>4. ASSUME pc[t] \in Held, engine[t] = "up", HasLink(t, DoneBy(pc[t]))
        PROVE  HasLink(t, DoneBy(pc[t]))' \/ Disturbed(t)'
    <3>1. Name(t) \in Names
      BY <2>4, Here DEF Held, InNamespace, Complete
    <3>2. Exists(Name(t)) /\ link[Name(t)].by # s
      BY <1>3, <2>4 DEF HasLink
    <3>3. \/ /\ Exists(Name(t))' /\ link'[Name(t)].by = link[Name(t)].by
             /\ link[Name(t)].has \subseteq link'[Name(t)].has
          \/ Name(t) = Name(s) /\ GaveBack(s)'
      BY <2>3, <3>1, <3>2 DEF Exists
    <3> QED
      BY <1>3, <2>1, <2>3, <2>4, <3>3 DEF HasLink, Disturbed
  <2> QED
    BY <1>1, <2>1, <2>2, <2>4 DEF Holding, NetInv
<1> QED
  BY <1>2, <1>3

\* A step that does not touch links.
LEMMA NetQuiet ==
  ASSUME HostInv, NetInv, NEW s \in Sessions, Only(s), UNCHANGED link,
         GaveBack(s) => GaveBack(s)', Knows(s)',
         pc'[s] \in Held /\ engine'[s] = "up" => pc[s] \in Held /\ DoneBy(pc'[s]) \subseteq DoneBy(pc[s])
  PROVE  NetInv'
<1>1. \A n : Exists(n)' = Exists(n)
  BY DEF Exists
<1>2. Name(s)' = Name(s) /\ DoneBy(pc[s])' = DoneBy(pc'[s])
  BY DEF Only, Name, DoneBy, Complete, Done
<1>3. ASSUME pc'[s] \in Held, engine'[s] = "up" PROVE HasLink(s, DoneBy(pc[s]))' \/ Disturbed(s)
  <2>1. engine[s] = "up"
    BY <1>3 DEF Only
  <2> QED
    BY <1>1, <1>2, <1>3, <2>1 DEF NetInv, Holding, HasLink
<1> QED
  BY <1>1, <1>3, NetStep

\* Nothing changes that the network depends on.
LEMMA NetRests ==
  ASSUME NetInv, UNCHANGED <<pc, of, engine, link>>, \A t \in Sessions : setup'[t].veth = setup[t].veth
  PROVE  NetInv'
<1>1. \A t : Name(t)' = Name(t)
  BY DEF Name
<1>2. \A t \in Sessions : GaveBack(t)' = GaveBack(t) /\ Attached(t)' = Attached(t)
  BY DEF GaveBack, Attached
<1>3. \A t \in Sessions : Disturbed(t) => Disturbed(t)'
  BY <1>1, <1>2 DEF Disturbed
<1>4. \A t \in Sessions : HasLink(t, DoneBy(pc[t]))' = HasLink(t, DoneBy(pc[t]))
  BY <1>1 DEF HasLink, Exists
<1> QED
  BY <1>2, <1>3, <1>4 DEF NetInv, Holding, Knows

\* What a step changes of its own session, when it changes nothing but that.
LEMMA OnlyOwn ==
  ASSUME HostInv, NEW s \in Sessions, pc[s] # "idle", NEW label, NEW su \in Setup,
         pc' = [pc EXCEPT ![s] = label], setup' = [setup EXCEPT ![s] = su], UNCHANGED of,
         \A t \in Sessions : engine'[t] = engine[t] \/ engine'[t] = "dead"
  PROVE  Only(s) /\ pc'[s] = label /\ setup'[s] = su
BY Here DEF Only, Typed, TypeOK

\* Places of a session.
LEMMA Places ==
  /\ \A label \in Linking \cup {"veth"} \cup Early : label \notin Complete
  /\ \A label \in Complete : label \in Held /\ DoneBy(label) = Done
  /\ DoneBy("indices") = {} /\ DoneBy("netns") = {} /\ DoneBy("move") = {}
  /\ \A label \in Held : DoneBy(label) \subseteq Done
BY DEF Linking, InNamespace, Early, Complete, Held, DoneBy, Done

LEMMA BridgeNet ==
  ASSUME HostInv, NetInv, NEW s \in Sessions, ensure_bridge(s)
  PROVE  NetInv'
<1>1. PICK label \in {"veth", "create_bridge", "bridge_up", "bridge_addr", "failed"} :
        pc' = [pc EXCEPT ![s] = label]
  BY DEF ensure_bridge, FindBridge, create_bridge, BridgeUp, BridgeAddress, Ask, Goto
<1>2. pc[s] \in Early /\ UNCHANGED <<of, engine, link, setup>>
  BY DEF ensure_bridge, FindBridge, create_bridge, BridgeUp, BridgeAddress, Ask, BridgeUnchanged, Early
<1>3. Only(s) /\ pc'[s] = label
  BY <1>1, <1>2, Here, OnlyOwn DEF Early
<1>4. ~GaveBack(s) /\ Knows(s)' /\ pc'[s] \notin Held
  BY <1>1, <1>2, <1>3 DEF GaveBack, Knows, Attached, Early, Held, InNamespace, Complete
<1> QED
  BY <1>2, <1>3, <1>4, NetQuiet

\* A name that is free is now the session's own; one that is taken stays as it is.
LEMMA CreateNet ==
  ASSUME HostInv, NetInv, NEW s \in Sessions, create_veth_pair(s)
  PROVE  NetInv'
<1>1. PICK label \in {"indices", "failed"} :
        pc' = [pc EXCEPT ![s] = label] /\ (label = "indices" <=> ~Exists(Name(s)))
  BY DEF create_veth_pair, Ask, Goto
<1>2. pc[s] = "veth" /\ UNCHANGED <<of, engine, setup>> /\ Name(s) \in Names
  BY Here DEF create_veth_pair, Ask, LinkUnchanged
<1>3. Only(s) /\ pc'[s] = label
  BY <1>1, <1>2, Here, OnlyOwn
<1>4. ~GaveBack(s) /\ Knows(s)'
  BY <1>1, <1>2, <1>3 DEF GaveBack, Knows, Attached
<1>5. link \in [Names -> Veth \cup {NoOne}]
  BY Here DEF Typed, Shape
<1>6. /\ \A n \in Names \ {Name(s)} : link'[n] = link[n]
      /\ ~Exists(Name(s)) => link'[Name(s)] = [by |-> s, has |-> {}]
      /\ Exists(Name(s)) => link'[Name(s)] = link[Name(s)]
  <2> HIDE DEF Name
  <2> QED
    BY <1>2, <1>5 DEF create_veth_pair, Exists
<1>7. pc'[s] \in Held => HasLink(s, DoneBy(pc[s]))'
  <2> SUFFICES ASSUME label = "indices" PROVE HasLink(s, DoneBy(pc[s]))'
    BY <1>1, <1>3 DEF Held, InNamespace, Complete
  <2>1. link'[Name(s)] = [by |-> s, has |-> {}] /\ [by |-> s, has |-> {}] \in Veth
    BY <1>1, <1>6 DEF Veth
  <2>2. DoneBy(pc[s])' = {}
    BY <1>3, Places DEF DoneBy, Complete
  <2>3. Name(s)' = Name(s)
    BY <1>3 DEF Only, Name
  <2> QED
    BY <2>1, <2>2, <2>3, NoOneAssumption DEF HasLink, Exists
<1>8. ASSUME NEW n \in Names, Exists(n), link[n].by # s
      PROVE  Exists(n)' /\ link'[n].by = link[n].by /\ link[n].has \subseteq link'[n].has
  BY <1>6, <1>8 DEF Exists
<1> QED
  BY <1>3, <1>4, <1>7, <1>8, NetStep

\* Each request of attach_impl does its part on the veth of that name; those in the
\* namespace find none but the session's own.
LEMMA OnLinkNet ==
  ASSUME HostInv, NetInv, NEW s \in Sessions, NEW from \in InNamespace, NEW does \in Done, NEW ok \in BOOLEAN,
         NEW to \in InNamespace \cup {"proxies"}, OnLink(s, from, does, ok, to),
         ok => Exists(Name(s)), DoneBy(to) \subseteq DoneBy(from) \cup {does},
         setup' = IF ok /\ to = "proxies" THEN [setup EXCEPT ![s].veth = TRUE] ELSE setup
  PROVE  NetInv'
<1> DEFINE label == IF ok THEN to ELSE "undo"
           su == IF ok /\ to = "proxies" THEN [setup[s] EXCEPT !.veth = TRUE] ELSE setup[s]
<1>1. pc[s] = from /\ pc' = [pc EXCEPT ![s] = label] /\ UNCHANGED <<of, engine>>
  BY DEF OnLink, Ask, Goto, LinkUnchanged
<1>2. setup[s] \in Setup /\ from # "idle" /\ Name(s) \in Names
  BY <1>1, Here DEF InNamespace
<1>3. /\ su \in Setup /\ (ok /\ to = "proxies" => su.veth)
      /\ setup' = [setup EXCEPT ![s] = su]
  BY <1>2, Here DEF Setup
<1> HIDE DEF su
<1>4. Only(s) /\ pc'[s] = label /\ setup'[s] = su
  BY <1>1, <1>2, <1>3, OnlyOwn
<1>5. ~GaveBack(s) /\ Knows(s)'
  BY <1>1, <1>3, <1>4 DEF GaveBack, Knows, Attached, InNamespace
<1>6. link \in [Names -> Veth \cup {NoOne}]
  BY Here DEF Typed, Shape
<1>7. /\ \A n \in Names \ {Name(s)} : link'[n] = link[n]
      /\ ~ok => link' = link
      /\ ok => /\ link'[Name(s)] \in Veth /\ link'[Name(s)].by = link[Name(s)].by
               /\ link'[Name(s)].has = link[Name(s)].has \cup {does}
  <2>1. CASE ~ok
    BY <2>1 DEF OnLink
  <2>2. CASE ok
    <3>1. link[Name(s)] \in Veth /\ link' = [link EXCEPT ![Name(s)].has = @ \cup {does}]
      BY <1>2, <1>6, <2>2 DEF OnLink, Exists
    <3> HIDE DEF Name
    <3> QED
      BY <1>2, <1>6, <2>2, <3>1 DEF Veth
  <2> QED
    BY <2>1, <2>2
<1>8. pc'[s] \in Held /\ engine'[s] = "up" => HasLink(s, DoneBy(pc[s]))' \/ Disturbed(s)
  <2> SUFFICES ASSUME ok, engine[s] = "up", ~Disturbed(s) PROVE HasLink(s, DoneBy(pc[s]))'
    BY <1>1, <1>4 DEF Held, InNamespace, Complete
  <2>1. HasLink(s, DoneBy(from))
    BY <1>1 DEF NetInv, Holding, Held
  <2>2. Name(s)' = Name(s) /\ DoneBy(pc[s])' = DoneBy(to)
    BY <1>4 DEF Only, Name, DoneBy, Complete, Done
  <2>3. Exists(Name(s))'
    BY <1>7, <2>2, NoOneAssumption DEF Exists
  <2> QED
    BY <1>7, <2>1, <2>2, <2>3 DEF HasLink
<1>9. ASSUME NEW n \in Names, Exists(n), link[n].by # s
      PROVE  Exists(n)' /\ link'[n].by = link[n].by /\ link[n].has \subseteq link'[n].has
  BY <1>7, <1>9, NoOneAssumption DEF Exists
<1> QED
  BY <1>4, <1>5, <1>8, <1>9, NetStep

\* A session that removes a veth by its name has none itself afterwards.
LEMMA RemovedNet ==
  ASSUME HostInv, NetInv, NEW s \in Sessions, Undo(s) \/ Detach(s)
  PROVE  NetInv'
<1>0. setup[s] \in Setup /\ link \in [Names -> Veth \cup {NoOne}]
  BY Here DEF Typed, Shape
<1>1. PICK label \in {"failed", "drop"}, su \in Setup :
        /\ pc' = [pc EXCEPT ![s] = label] /\ setup' = [setup EXCEPT ![s] = su] /\ ~su.veth
  <2>1. CASE Undo(s)
    <3>1. ~setup[s].veth
      BY <2>1, Here DEF Undo, Kept, Wired
    <3> QED
      BY <1>0, <2>1, <3>1, Here DEF Undo, Goto
  <2>2. CASE Detach(s)
    <3>1. [setup[s] EXCEPT !.veth = FALSE] \in Setup /\ ~[setup[s] EXCEPT !.veth = FALSE].veth
      BY <1>0 DEF Setup
    <3> QED
      BY <2>2, <3>1 DEF Detach, Goto
  <2> QED
    BY <2>1, <2>2
<1>2. pc[s] \in {"undo", "detach"} /\ UNCHANGED <<of, engine>> /\ Name(s) \in Names
  BY Here DEF Undo, Detach, LinkUnchanged
<1>3. Only(s) /\ pc'[s] = label /\ setup'[s] = su
  BY <1>1, <1>2, OnlyOwn
<1>4. GaveBack(s)' /\ Knows(s)' /\ pc'[s] \notin Held
  BY <1>1, <1>3 DEF GaveBack, Knows, Attached, Held, InNamespace, Complete
<1>5. \A n \in Names \ {Name(s)} : link'[n] = link[n]
  BY <1>0, <1>2 DEF Undo, Detach, delete_link
<1>6. ASSUME NEW n \in Names, Exists(n)
      PROVE  \/ Exists(n)' /\ link'[n].by = link[n].by /\ link[n].has \subseteq link'[n].has
             \/ n = Name(s) /\ GaveBack(s)'
  BY <1>4, <1>5, <1>6 DEF Exists
<1> QED
  BY <1>3, <1>4, <1>6, NetStep

LEMMA AttachNet ==
  ASSUME HostInv, NetInv, NEW s \in Sessions, attach_container(s)
  PROVE  NetInv'
<1>1. CASE link_index(s) \/ open_netns_fd(s)
  <2>1. PICK label \in {"netns", "move", "undo"} : pc' = [pc EXCEPT ![s] = label]
    BY <1>1, Here DEF link_index, open_netns_fd, Ask, Goto
  <2>2. pc[s] \in {"indices", "netns"} /\ UNCHANGED <<of, engine, link, setup>>
    BY <1>1 DEF link_index, open_netns_fd, Ask, LinkUnchanged
  <2>3. Only(s) /\ pc'[s] = label
    BY <2>1, <2>2, Here, OnlyOwn
  <2>4. ~GaveBack(s) /\ Knows(s)'
    BY <2>1, <2>2, <2>3 DEF GaveBack, Knows, Attached
  <2>5. pc'[s] \in Held => pc[s] \in Held /\ DoneBy(pc'[s]) = {}
    BY <2>1, <2>2, <2>3, Places DEF Held, InNamespace, Complete
  <2> QED
    BY <2>2, <2>3, <2>4, <2>5, NetQuiet
<1>2. CASE move_link_to_netns(s) \/ set_link_up_by_name(s) \/ set_link_master(s)
  <2>1. PICK from \in InNamespace, does \in Done, to \in InNamespace :
          /\ OnLink(s, from, does, Exists(Name(s)), to) /\ UNCHANGED setup
          /\ DoneBy(to) \subseteq DoneBy(from) \cup {does}
    BY <1>2 DEF move_link_to_netns, set_link_up_by_name, set_link_master, InNamespace, Done, DoneBy, Complete
  <2>2. to # "proxies" /\ Exists(Name(s)) \in BOOLEAN
    BY DEF InNamespace, Exists
  <2> QED
    BY <2>1, <2>2, OnLinkNet
<1>3. CASE rename_link_by_index(s) \/ PeerUp(s)
  <2>1. PICK from \in InNamespace, does \in Done, to \in InNamespace :
          /\ OnLink(s, from, does, with_netns(s), to) /\ UNCHANGED setup
          /\ DoneBy(to) \subseteq DoneBy(from) \cup {does}
    BY <1>3 DEF rename_link_by_index, PeerUp, InNamespace, Done, DoneBy, Complete
  <2>2. to # "proxies" /\ with_netns(s) \in BOOLEAN /\ (with_netns(s) => Exists(Name(s)))
    BY DEF InNamespace, Exists, with_netns
  <2> QED
    BY <2>1, <2>2, OnLinkNet
<1>4. CASE add_addr4(s)
  <2>1. /\ OnLink(s, "addr", "addr", with_netns(s), "proxies")
        /\ setup' = IF with_netns(s) THEN [setup EXCEPT ![s].veth = TRUE] ELSE setup
    BY <1>4 DEF add_addr4
  <2>2. with_netns(s) \in BOOLEAN /\ (with_netns(s) => Exists(Name(s)))
    BY DEF Exists, with_netns
  <2>3. "addr" \in InNamespace /\ "addr" \in Done /\ DoneBy("proxies") \subseteq DoneBy("addr") \cup {"addr"}
    BY DEF InNamespace, Done, DoneBy, Complete
  <2> QED
    BY <2>1, <2>2, <2>3, OnLinkNet
<1> QED
  BY <1>1, <1>2, <1>3, <1>4, CreateNet, RemovedNet DEF attach_container, attach_impl

\* The rest of a start: it keeps what it knows of the veth.
LEMMA StartNet ==
  ASSUME HostInv, NetInv, NEW s \in Sessions,
         \/ spawn_port_proxies(s) \/ NoLimits(s) \/ create_cgroup(s) \/ apply(s) \/ attach(s)
         \/ SaveRunning(s)
  PROVE  NetInv'
<1> DEFINE ports == Ports[of[s]]
<1>1. PICK label \in {"cgroup", "apply", "attach", "save", "running", "failed"} : pc' = [pc EXCEPT ![s] = label]
  BY DEF spawn_port_proxies, NoLimits, create_cgroup, apply, attach, SaveRunning, Ask, Goto
<1>2. /\ pc[s] \in {"proxies", "cgroup", "apply", "attach", "save"} /\ UNCHANGED <<of, engine, link>>
      /\ pc[s] = "save" => label = "running"
      /\ label = "running" => pc[s] = "save"
  BY <1>1, Here DEF spawn_port_proxies, NoLimits, create_cgroup, apply, attach, SaveRunning, Ask, Goto,
     CgroupUnchanged, Typed, TypeOK
<1>3. PICK su \in Setup : setup' = [setup EXCEPT ![s] = su] /\ su.veth = setup[s].veth
  <2>0. setup[s] \in Setup /\ (UNCHANGED setup => setup' = [setup EXCEPT ![s] = setup[s]])
    BY Here
  <2>1. CASE spawn_port_proxies(s) /\ validate_port_maps(ports)
    <3>1. of[s] \in Containers
      BY <1>2, Here DEF SessionOK
    <3>2. DOMAIN ports \in SUBSET Proxies
      BY <3>1, AddressNames
    <3>3. /\ [setup[s] EXCEPT !.proxies = DOMAIN ports] \in Setup
          /\ [setup[s] EXCEPT !.proxies = DOMAIN ports].veth = setup[s].veth
      BY <2>0, <3>2 DEF Setup
    <3>4. setup' = [setup EXCEPT ![s] = [setup[s] EXCEPT !.proxies = DOMAIN ports]]
      BY <2>1 DEF spawn_port_proxies
    <3> QED
      BY <3>3, <3>4
  <2>2. CASE create_cgroup(s)
    <3>1. /\ [setup[s] EXCEPT !.cgroup = TRUE] \in Setup
          /\ [setup[s] EXCEPT !.cgroup = TRUE].veth = setup[s].veth
      BY <2>0 DEF Setup
    <3> QED
      BY <2>2, <3>1 DEF create_cgroup
  <2>3. CASE UNCHANGED setup
    BY <2>0, <2>3
  <2> QED
    BY <2>1, <2>2, <2>3 DEF spawn_port_proxies, NoLimits, apply, attach, SaveRunning
<1>4. Only(s) /\ pc'[s] = label /\ setup'[s] = su
  BY <1>1, <1>2, <1>3, OnlyOwn
<1>5. GaveBack(s) => GaveBack(s)'
  BY <1>1, <1>2, <1>3, <1>4 DEF GaveBack
<1>6. Knows(s)'
  BY <1>1, <1>2, <1>3, <1>4 DEF NetInv, Knows, Attached
<1>7. pc'[s] \in Held => pc[s] \in Held /\ DoneBy(pc'[s]) \subseteq DoneBy(pc[s])
  <2>1. pc[s] \in Complete /\ (pc'[s] \in Held => pc'[s] \in Complete)
    BY <1>1, <1>2, <1>4 DEF Complete, Held, InNamespace
  <2> QED
    BY <2>1, Places
<1> QED
  BY <1>2, <1>4, <1>5, <1>6, <1>7, NetQuiet

\* What follows the end of an engine is no part of the network.
LEMMA EndNet ==
  ASSUME HostInv, NetInv, NEW s \in Sessions,
         WireUpFails(s) \/ WaitReturns(s) \/ DropProxies(s) \/ RemoveCgroup(s) \/ AbortSave(s)
  PROVE  NetInv'
<1>0. setup[s] \in Setup /\ (UNCHANGED setup => setup' = [setup EXCEPT ![s] = setup[s]])
  BY Here
<1>1. engine'[s] = "dead" /\ (\A t \in Sessions : engine'[t] = engine[t] \/ engine'[t] = "dead")
  BY Here DEF WireUpFails, WaitReturns, DropProxies, RemoveCgroup, AbortSave, EngineDead, SessionOK, Cleaning,
     Typed, TypeOK
<1>2. UNCHANGED <<of, link>> /\ pc[s] \in {"failed", "running", "drop", "remove", "reset"}
  BY DEF WireUpFails, WaitReturns, DropProxies, RemoveCgroup, AbortSave
<1>3. PICK label \in {"detach", "remove", "save", "reset", "done"} :
        pc' = [pc EXCEPT ![s] = label] /\ (label = "detach" \/ pc[s] \in {"drop", "remove", "reset"})
  BY Here DEF WireUpFails, WaitReturns, DropProxies, RemoveCgroup, AbortSave, Goto, SessionOK, Cleaning
<1>4. PICK su \in Setup : setup' = [setup EXCEPT ![s] = su] /\ su.veth = setup[s].veth
  <2>1. ASSUME NEW then \in PCs
        PROVE  [setup[s] EXCEPT !.then = then] \in Setup /\ [setup[s] EXCEPT !.then = then].veth = setup[s].veth
    BY <1>0 DEF Setup
  <2>2. /\ [setup[s] EXCEPT !.proxies = {}] \in Setup /\ [setup[s] EXCEPT !.proxies = {}].veth = setup[s].veth
        /\ [setup[s] EXCEPT !.cgroup = FALSE] \in Setup
        /\ [setup[s] EXCEPT !.cgroup = FALSE].veth = setup[s].veth
    BY <1>0 DEF Setup
  <2>3. "reset" \in PCs /\ "save" \in PCs /\ "done" \in PCs
    BY DEF PCs
  <2>4. CASE WireUpFails(s) \/ WaitReturns(s)
    <3>1. PICK then \in PCs : setup' = [setup EXCEPT ![s] = [setup[s] EXCEPT !.then = then]]
      BY <2>3, <2>4 DEF WireUpFails, WaitReturns
    <3> QED
      BY <2>1, <3>1
  <2>5. CASE DropProxies(s) \/ RemoveCgroup(s)
    BY <2>2, <2>5 DEF DropProxies, RemoveCgroup
  <2> QED
    BY <1>0, <2>4, <2>5 DEF AbortSave
<1>5. Only(s) /\ pc'[s] = label /\ setup'[s] = su
  BY <1>1, <1>2, <1>3, <1>4, OnlyOwn
<1>6. GaveBack(s) => GaveBack(s)'
  BY <1>2, <1>3, <1>4, <1>5 DEF GaveBack
<1>7. Knows(s)'
  BY <1>1 DEF Knows, Attached
<1> QED
  BY <1>1, <1>2, <1>5, <1>6, <1>7, NetQuiet

\* An engine may die, a request fail, a session be killed.  A session that runs and
\* has no veth any more has an engine that is dead, so it has given back as an orphan, too.
LEMMA FaultNet ==
  ASSUME HostInv, NetInv, NEW s \in Sessions, EngineDies(s) \/ RequestFails(s) \/ Killed(s)
  PROVE  NetInv'
<1>0. setup[s] \in Setup /\ engine \in [Sessions -> {"none", "up", "dead"}]
  BY Here DEF Typed, TypeOK
<1>1. CASE EngineDies(s)
  <2>1. /\ pc[s] # "idle" /\ UNCHANGED <<pc, of, link, setup>> /\ engine'[s] = "dead"
        /\ \A t \in Sessions : engine'[t] = engine[t] \/ engine'[t] = "dead"
    BY <1>0, <1>1, Here DEF EngineDies, EngineDead, SessionOK
  <2>2. Only(s)
    BY <2>1 DEF Only
  <2>3. (GaveBack(s) => GaveBack(s)') /\ Knows(s)'
    BY <2>1 DEF GaveBack, Knows, Attached
  <2> QED
    BY <2>1, <2>2, <2>3, NetQuiet
<1>2. CASE RequestFails(s)
  <2>1. PICK label \in {"undo", "failed"} : pc' = [pc EXCEPT ![s] = label]
    BY <1>2 DEF RequestFails, Goto
  <2>2. pc[s] \in Requests /\ UNCHANGED <<of, engine, link, setup>>
    BY <1>2 DEF RequestFails
  <2>3. Only(s) /\ pc'[s] = label
    BY <1>0, <2>1, <2>2, Here, OnlyOwn DEF Requests, InNamespace
  <2>4. ~GaveBack(s) /\ Knows(s)' /\ pc'[s] \notin Held
    BY <2>1, <2>2, <2>3 DEF GaveBack, Knows, Attached, Requests, InNamespace, Held, Complete
  <2> QED
    BY <2>2, <2>3, <2>4, NetQuiet
<1>3. CASE Killed(s)
  <2>1. /\ pc' = [pc EXCEPT ![s] = IF pc[s] = "running" THEN "orphaned" ELSE "killed"]
        /\ setup' = [setup EXCEPT ![s] = NoSetup] /\ UNCHANGED <<of, engine, link>>
        /\ pc[s] \notin {"idle", "orphaned"}
    BY <1>3 DEF Killed, Goto
  <2>2. NoSetup \in Setup /\ ~NoSetup.veth
    BY DEF NoSetup, Setup, PCs
  <2>3. /\ Only(s) /\ setup'[s] = NoSetup
        /\ pc'[s] = IF pc[s] = "running" THEN "orphaned" ELSE "killed"
    BY <2>1, <2>2, OnlyOwn
  <2>4. GaveBack(s) => GaveBack(s)'
    <3>1. pc[s] = "running" /\ ~setup[s].veth => engine[s] = "dead"
      BY <1>0, Here DEF NetInv, Knows, Attached, SessionOK
    <3> QED
      BY <2>1, <2>2, <2>3, <3>1 DEF GaveBack
  <2>5. Knows(s)' /\ pc'[s] \notin Held
    BY <2>3 DEF Knows, Attached, Held, InNamespace, Complete
  <2> QED
    BY <2>1, <2>3, <2>4, <2>5, NetQuiet
<1> QED
  BY <1>1, <1>2, <1>3

\* A session that cannot remove its veth has none to give back any more either.
LEMMA RemovalNet ==
  ASSUME HostInv, NetInv, NEW s \in Sessions, RemovalFails(s)
  PROVE  NetInv'
<1>1. setup[s] \in Setup /\ UNCHANGED <<of, engine, link>> /\ pc[s] \in {"undo", "detach", "remove"}
  BY Here DEF RemovalFails
<1>2. PICK label \in {"failed", "drop", "save", "reset", "done"}, su \in Setup :
        /\ pc' = [pc EXCEPT ![s] = label] /\ setup' = [setup EXCEPT ![s] = su] /\ ~su.veth
        /\ label \in {"failed", "drop"} \/ pc[s] = "remove"
  <2>1. /\ pc[s] \in {"undo", "remove"} => ~setup[s].veth
        /\ pc[s] = "remove" => setup[s].then \in {"save", "reset", "done"}
    BY Here DEF Kept, Wired, SessionOK, Cleaning
  <2>2. CASE pc[s] = "undo"
    <3>1. /\ [setup[s] EXCEPT !.left = @ \cup {"veth"}] \in Setup
          /\ [setup[s] EXCEPT !.left = @ \cup {"veth"}].veth = setup[s].veth
      BY <1>1 DEF Setup, Removals
    <3> QED
      BY <2>1, <2>2, <3>1 DEF RemovalFails, Goto
  <2>3. CASE pc[s] = "detach"
    <3>1. /\ [setup[s] EXCEPT !.veth = FALSE, !.left = @ \cup {"veth"}] \in Setup
          /\ ~[setup[s] EXCEPT !.veth = FALSE, !.left = @ \cup {"veth"}].veth
      BY <1>1 DEF Setup, Removals
    <3> QED
      BY <2>3, <3>1 DEF RemovalFails, Goto
  <2>4. CASE pc[s] = "remove"
    <3>1. /\ [setup[s] EXCEPT !.cgroup = FALSE, !.left = @ \cup {"cgroup"}] \in Setup
          /\ [setup[s] EXCEPT !.cgroup = FALSE, !.left = @ \cup {"cgroup"}].veth = setup[s].veth
      BY <1>1 DEF Setup, Removals
    <3> QED
      BY <2>1, <2>4, <3>1 DEF RemovalFails, Goto
  <2> QED
    BY <1>1, <2>2, <2>3, <2>4
<1>3. Only(s) /\ pc'[s] = label /\ setup'[s] = su
  BY <1>1, <1>2, OnlyOwn
<1>4. GaveBack(s)' /\ (pc'[s] \in Held => engine'[s] # "up")
  BY <1>1, <1>2, <1>3, Here DEF GaveBack, Held, InNamespace, Complete, SessionOK, Cleaning
<1>5. Knows(s)'
  BY <1>3, <1>4 DEF Knows, Attached, Held, Complete
<1> QED
  BY <1>1, <1>3, <1>4, <1>5, NetQuiet

\* A namespace takes the veth of an engine that is dead.
LEMMA NamespaceNet ==
  ASSUME HostInv, NetInv, NEW s \in Sessions, NamespaceGoes(s)
  PROVE  NetInv'
<1>1. UNCHANGED <<pc, of, setup, engine>> /\ engine[s] = "dead"
  BY DEF NamespaceGoes
<1>2. ASSUME NEW n \in Names, Exists(n), link[n].by # s PROVE link'[n] = link[n]
  BY <1>2 DEF NamespaceGoes, Exists
<1>3. CASE pc[s] = "idle"
  <2>1. link \in [Names -> Veth \cup {NoOne}]
    BY Here DEF Typed, Shape
  <2>2. \A n \in Names : Exists(n) => link[n].by # s
    BY <1>3, OwnName DEF Owned
  <2>3. \A n \in Names : link'[n] = link[n]
    BY <1>2, <2>2 DEF NamespaceGoes, Exists
  <2>4. link' = link
    BY <2>1, <2>3 DEF NamespaceGoes
  <2> QED
    BY <1>1, <2>4, NetRests
<1>4. CASE pc[s] # "idle"
  <2>1. Only(s)
    BY <1>1, <1>4 DEF Only
  <2>2. (GaveBack(s) => GaveBack(s)') /\ Knows(s)'
    BY <1>1 DEF GaveBack, Knows, Attached
  <2> QED
    BY <1>1, <1>2, <2>1, <2>2, NetStep DEF Exists
<1> QED
  BY <1>3, <1>4

LEMMA SpawnNet ==
  ASSUME HostInv, NetInv, NEW s \in Sessions, NEW c \in Containers, Spawn(s, c)
  PROVE  NetInv'
<1>1. /\ pc[s] = "idle" /\ pc' = [pc EXCEPT ![s] = "bridge"] /\ of' = [of EXCEPT ![s] = c]
      /\ engine' = [engine EXCEPT ![s] = "up"] /\ UNCHANGED <<link, setup>>
  BY DEF Spawn, Goto
<1>2. /\ pc'[s] = "bridge"
      /\ \A t \in Sessions \ {s} : pc'[t] = pc[t] /\ of'[t] = of[t] /\ engine'[t] = engine[t]
  BY <1>1, Here DEF Typed, TypeOK
<1> SUFFICES ASSUME NEW t \in Sessions PROVE Holding(t)' /\ Knows(t)'
  BY DEF NetInv
<1>3. CASE t = s
  BY <1>2, <1>3 DEF Holding, Knows, Attached, Held, InNamespace, Complete
<1>4. CASE t # s
  <2>1. Knows(t)'
    BY <1>1, <1>2, <1>4 DEF NetInv, Knows, Attached
  <2>2. Name(t)' = Name(t) /\ (HasLink(t, DoneBy(pc[t])) => HasLink(t, DoneBy(pc[t]))')
    BY <1>1, <1>2, <1>4 DEF Name, HasLink, Exists
  <2>3. Disturbed(t) => Disturbed(t)'
    <3> SUFFICES ASSUME NEW u \in Sessions \ {t}, GaveBack(u), Name(u) = Name(t) PROVE Disturbed(t)'
      BY DEF Disturbed
    <3>1. u # s
      BY <1>1 DEF GaveBack
    <3>2. GaveBack(u)' /\ Name(u)' = Name(u)
      BY <1>1, <1>2, <3>1 DEF GaveBack, Name
    <3> QED
      BY <2>2, <3>2 DEF Disturbed
  <2> QED
    BY <1>2, <1>4, <2>1, <2>2, <2>3 DEF NetInv, Holding
<1> QED
  BY <1>3, <1>4

LEMMA NetNext == HostInv /\ NetInv /\ [Next]_vars => NetInv'
<1> SUFFICES ASSUME HostInv, NetInv, [Next]_vars PROVE NetInv'
  OBVIOUS
<1>2. CASE UNCHANGED vars
  BY <1>2, NetRests DEF vars
<1>3. ASSUME NEW s \in Sessions, StopSave(s) PROVE NetInv'
  BY <1>3, NetRests DEF StopSave
<1>4. ASSUME NEW s \in Sessions, NEW i \in setup[s].proxies, Bind(s, i) \/ BindFails(s, i) PROVE NetInv'
  <2>1. UNCHANGED <<pc, of, engine, link>>
    BY <1>4 DEF Bind, BindFails
  <2>2. \A t \in Sessions : setup'[t].veth = setup[t].veth
    BY <1>4, Here DEF Bind, BindFails, Setup, Typed, TypeOK
  <2> QED
    BY <2>1, <2>2, NetRests
<1>5. ASSUME NEW s \in Sessions, Session(s) PROVE NetInv'
  BY <1>5, BridgeNet, AttachNet, StartNet, EndNet, RemovedNet DEF Session, cleanup
<1>6. CASE Next
  <2>1. PICK s \in Sessions : Turn(s)
    BY <1>6 DEF Next, Turn
  <2> QED
    BY <1>3, <1>4, <1>5, <2>1, SpawnNet, NamespaceNet, FaultNet, RemovalNet DEF Turn
<1> QED
  BY <1>2, <1>6

LEMMA NetHolds == Spec => [](HostInv /\ NetInv)
<1>1. Init => NetInv
  BY DEF Init, NetInv, Holding, Knows, Attached, Held, InNamespace, Complete
<1> QED
  BY <1>1, HostInit, HostNext, NetNext, PTL DEF Spec

-----------------------------------------------------------------------------
(***************************************************************************)
(* Whose a cgroup is: somebody has yet to remove it, or could not.  A      *)
(* third invariant, beside HostInv.                                        *)
(***************************************************************************)
Away == {"killed", "orphaned"}

Answers(t, c) == of[t] = c /\ (setup[t].cgroup \/ "cgroup" \in setup[t].left \/ pc[t] \in Away)

Grouped(s) ==
  /\ pc[s] \in {"apply", "attach"} => setup[s].cgroup
  /\ pc[s] \in {"reset", "done"} => ~setup[s].cgroup
  /\ setup[s].cgroup => pc[s] # "idle"

Answered(c) ==
  cgroup[c] # NoOne =>
    /\ \E t \in Sessions : Answers(t, c)
    /\ \A t \in cgroup[c].procs : Answers(t, c) /\ engine[t] = "up"

GroupInv == (\A s \in Sessions : Grouped(s)) /\ (\A c \in Containers : Answered(c))

LEMMA GroupTypes ==
  ASSUME HostInv
  PROVE  /\ pc \in [Sessions -> PCs] /\ setup \in [Sessions -> Setup]
         /\ engine \in [Sessions -> {"none", "up", "dead"}]
         /\ cgroup \in [Containers -> Cgroup \cup {NoOne}] /\ NoOne \notin Cgroup
BY NoOneAssumption DEF HostInv, Typed, TypeOK, Shape

\* A step of s changes who answers for no cgroup but that of its own container, and adds
\* nobody to a cgroup but itself.
LEMMA GroupStep ==
  ASSUME HostInv, GroupInv, NEW s \in Sessions, pc[s] # "idle", UNCHANGED of,
         \A t \in Sessions \ {s} : pc'[t] = pc[t] /\ setup'[t] = setup[t],
         Grouped(s)',
         \/ Answers(s, of[s]) => Answers(s, of[s])'
         \/ cgroup'[of[s]] = NoOne
         \/ \E t \in Sessions \ {s} : Answers(t, of[s]),
         \A c \in Containers : cgroup'[c] # NoOne =>
           /\ cgroup[c] # NoOne \/ Answers(s, c)'
           /\ \A t \in cgroup'[c].procs :
                \/ cgroup[c] # NoOne /\ t \in cgroup[c].procs /\ engine'[t] = engine[t]
                \/ t = s /\ Answers(s, c)' /\ engine'[t] = "up",
         \A c \in Containers : cgroup'[c] # NoOne /\ s \in cgroup'[c].procs => Answers(s, c)'
  PROVE  GroupInv'
<1>1. ASSUME NEW t \in Sessions PROVE Grouped(t)'
  BY <1>1 DEF GroupInv, Grouped
<1>2. ASSUME NEW c \in Containers, NEW t \in Sessions \ {s}, Answers(t, c) PROVE Answers(t, c)'
  BY <1>2 DEF Answers
<1>3. ASSUME NEW c \in Containers, cgroup'[c] # NoOne PROVE \E t \in Sessions : Answers(t, c)'
  <2>1. CASE Answers(s, c)'
    BY <2>1
  <2>2. CASE ~Answers(s, c)'
    <3>1. PICK t \in Sessions : Answers(t, c)
      BY <1>3, <2>2 DEF GroupInv, Answered
    <3>2. CASE t = s
      <4>1. c = of[s]
        BY <3>1, <3>2 DEF Answers
      <4>2. PICK u \in Sessions \ {s} : Answers(u, c)
        BY <1>3, <2>2, <3>1, <3>2, <4>1
      <4> QED
        BY <1>2, <4>2
    <3>3. CASE t # s
      BY <1>2, <3>1, <3>3
    <3> QED
      BY <3>2, <3>3
  <2> QED
    BY <2>1, <2>2
<1>4. ASSUME NEW c \in Containers, cgroup'[c] # NoOne, NEW t \in cgroup'[c].procs
      PROVE  Answers(t, c)' /\ engine'[t] = "up"
  <2>1. CASE t = s
    BY <1>4, <2>1 DEF GroupInv, Answered
  <2>2. CASE t # s
    <3>1. cgroup[c] # NoOne /\ t \in cgroup[c].procs /\ engine'[t] = engine[t]
      BY <1>4, <2>2
    <3>2. t \in Sessions
      BY <1>4, <3>1, Here DEF Typed, Shape, Cgroup
    <3> QED
      BY <1>2, <1>4, <2>2, <3>1, <3>2 DEF GroupInv, Answered
  <2> QED
    BY <2>1, <2>2
<1> QED
  BY <1>1, <1>3, <1>4 DEF GroupInv, Answered

\* Most steps have nothing to do with cgroups.
LEMMA GroupRests ==
  ASSUME HostInv, GroupInv, UNCHANGED <<of, engine, cgroup>>,
         \A t \in Sessions :
           /\ setup'[t].cgroup = setup[t].cgroup
           /\ "cgroup" \in setup[t].left => "cgroup" \in setup'[t].left
           /\ pc'[t] = pc[t] \/ (pc[t] \notin Away /\ pc'[t] \notin {"apply", "attach", "reset", "idle"})
           /\ pc'[t] = "done" => pc[t] \in {"reset", "done"}
  PROVE  GroupInv'
<1>1. \A t \in Sessions : Grouped(t)'
  BY DEF GroupInv, Grouped
<1>2. \A t \in Sessions, c \in Containers : Answers(t, c) => Answers(t, c)'
  BY DEF Answers
<1>3. ASSUME NEW c \in Containers PROVE Answered(c)'
  <2>1. cgroup[c] # NoOne => cgroup[c].procs \subseteq Sessions
    BY GroupTypes DEF Cgroup
  <2> QED
    BY <1>2, <2>1 DEF GroupInv, Answered
<1> QED
  BY <1>1, <1>3 DEF GroupInv

LEMMA GroupWire ==
  ASSUME HostInv, GroupInv, NEW s \in Sessions,
         ensure_bridge(s) \/ attach_container(s) \/ spawn_port_proxies(s) \/ NoLimits(s) \/ SaveRunning(s)
  PROVE  GroupInv'
<1>1. pc \in [Sessions -> PCs] /\ setup \in [Sessions -> Setup]
  BY GroupTypes
<1> DEFINE Wiring == {"create_bridge", "bridge_up", "bridge_addr", "veth", "indices", "netns", "undo", "proxies",
                      "cgroup", "save", "running", "failed"} \cup InNamespace
<1>2. /\ \E label \in Wiring : pc' = [pc EXCEPT ![s] = label]
      /\ UNCHANGED <<of, engine, cgroup>> /\ pc[s] \notin Away
  <2>1. CASE ensure_bridge(s)
    BY <2>1 DEF ensure_bridge, FindBridge, create_bridge, BridgeUp, BridgeAddress, Ask, Goto, BridgeUnchanged, Away
  <2>2. CASE create_veth_pair(s) \/ link_index(s) \/ Undo(s)
    BY <2>2 DEF create_veth_pair, link_index, Undo, Ask, Goto, LinkUnchanged, Away
  <2>3. CASE open_netns_fd(s)
    BY <1>1, <2>3 DEF open_netns_fd, Goto, LinkUnchanged, Away, InNamespace
  <2>4. ASSUME NEW from \in InNamespace, NEW does, NEW ok, NEW to \in InNamespace \cup {"proxies"},
               OnLink(s, from, does, ok, to)
        PROVE  /\ \E label \in Wiring : pc' = [pc EXCEPT ![s] = label]
               /\ UNCHANGED <<of, engine, cgroup>> /\ pc[s] \notin Away
    BY <2>4 DEF OnLink, Ask, Goto, LinkUnchanged, Away, InNamespace
  <2>5. CASE attach_impl(s) /\ ~link_index(s) /\ ~open_netns_fd(s)
    <3>1. PICK from \in InNamespace, does \in Done, ok \in {Exists(Name(s)), with_netns(s)},
               to \in InNamespace \cup {"proxies"} : OnLink(s, from, does, ok, to)
      BY <2>5 DEF attach_impl, move_link_to_netns, set_link_up_by_name, set_link_master, rename_link_by_index,
         PeerUp, add_addr4, InNamespace, Done
    <3> QED
      BY <2>4, <3>1
  <2>6. CASE spawn_port_proxies(s) \/ NoLimits(s) \/ SaveRunning(s)
    BY <2>6 DEF spawn_port_proxies, NoLimits, SaveRunning, Ask, Goto, CgroupUnchanged, Away
  <2> QED
    BY <2>1, <2>2, <2>3, <2>5, <2>6 DEF attach_container, attach_impl
<1>3. ASSUME NEW t \in Sessions
      PROVE  /\ setup'[t].cgroup = setup[t].cgroup
             /\ "cgroup" \in setup[t].left => "cgroup" \in setup'[t].left
  <2>1. \/ UNCHANGED setup
        \/ setup' = [setup EXCEPT ![s].veth = TRUE]
        \/ setup' = [setup EXCEPT ![s].proxies = DOMAIN Ports[of[s]]]
    BY DEF ensure_bridge, FindBridge, create_bridge, BridgeUp, BridgeAddress, BridgeUnchanged, attach_container,
       create_veth_pair, attach_impl, link_index, open_netns_fd, Undo, move_link_to_netns, set_link_up_by_name,
       set_link_master, rename_link_by_index, PeerUp, add_addr4, spawn_port_proxies, NoLimits, SaveRunning
  <2> QED
    BY <1>1, <2>1 DEF Setup
<1>4. ASSUME NEW t \in Sessions
      PROVE  /\ pc'[t] = pc[t] \/ (pc[t] \notin Away /\ pc'[t] \notin {"apply", "attach", "reset", "idle"})
             /\ pc'[t] = "done" => pc[t] \in {"reset", "done"}
  BY <1>1, <1>2 DEF InNamespace
<1> QED
  BY <1>2, <1>3, <1>4, GroupRests

\* What cleanup does besides, what others do, and what a fault does.
LEMMA GroupOther ==
  ASSUME HostInv, GroupInv, NEW s \in Sessions,
         \/ WaitReturns(s) \/ Detach(s) \/ DropProxies(s) \/ AbortSave(s) \/ StopSave(s) \/ NamespaceGoes(s)
         \/ RequestFails(s) \/ (RemovalFails(s) /\ pc[s] # "remove")
         \/ \E i \in setup[s].proxies : Bind(s, i) \/ BindFails(s, i)
  PROVE  GroupInv'
<1>1. pc \in [Sessions -> PCs] /\ setup \in [Sessions -> Setup]
  BY GroupTypes
<1>2. UNCHANGED <<of, engine, cgroup>>
  BY DEF WaitReturns, Detach, DropProxies, AbortSave, StopSave, NamespaceGoes, RequestFails, RemovalFails, Bind,
     BindFails
<1>3. \/ UNCHANGED pc
      \/ /\ pc[s] \notin Away
         /\ \E label \in {"detach", "drop", "remove", "undo", "failed"} : pc' = [pc EXCEPT ![s] = label]
      \/ pc[s] = "reset" /\ pc' = [pc EXCEPT ![s] = "done"]
  BY DEF WaitReturns, Detach, DropProxies, AbortSave, StopSave, NamespaceGoes, RequestFails, RemovalFails, Bind,
     BindFails, Goto, Away, Requests, InNamespace
<1>4. ASSUME NEW t \in Sessions
      PROVE  /\ pc'[t] = pc[t] \/ (pc[t] \notin Away /\ pc'[t] \notin {"apply", "attach", "reset", "idle"})
             /\ pc'[t] = "done" => pc[t] \in {"reset", "done"}
  BY <1>1, <1>3 DEF Away
<1>5. ASSUME NEW t \in Sessions
      PROVE  /\ setup'[t].cgroup = setup[t].cgroup
             /\ "cgroup" \in setup[t].left => "cgroup" \in setup'[t].left
  <2>1. CASE UNCHANGED setup
    BY <2>1
  <2>2. CASE WaitReturns(s) \/ Detach(s) \/ DropProxies(s)
    BY <1>1, <2>2 DEF WaitReturns, Detach, DropProxies, Setup
  <2>3. CASE \E i \in setup[s].proxies : Bind(s, i) \/ BindFails(s, i)
    BY <1>1, <2>3 DEF Bind, BindFails, Setup
  <2>4. CASE RemovalFails(s) /\ pc[s] # "remove"
    BY <1>1, <2>4 DEF RemovalFails, Setup
  <2> QED
    BY <2>1, <2>2, <2>3, <2>4 DEF AbortSave, StopSave, NamespaceGoes, RequestFails
<1> QED
  BY <1>2, <1>4, <1>5, GroupRests

LEMMA GroupMake ==
  ASSUME HostInv, GroupInv, NEW s \in Sessions, create_cgroup(s) \/ apply(s) \/ attach(s)
  PROVE  GroupInv'
<1> DEFINE c == of[s]
<1>1. /\ pc \in [Sessions -> PCs] /\ setup \in [Sessions -> Setup]
      /\ cgroup \in [Containers -> Cgroup \cup {NoOne}] /\ NoOne \notin Cgroup
  BY GroupTypes
<1>2. /\ pc[s] \in {"cgroup", "apply", "attach"} /\ UNCHANGED <<of, engine>> /\ c \in Containers
      /\ pc[s] # "cgroup" => setup[s].cgroup
  BY Here DEF create_cgroup, apply, attach, Ask, CgroupUnchanged, SessionOK, GroupInv, Grouped
<1>3. /\ \A t \in Sessions \ {s} : pc'[t] = pc[t] /\ setup'[t] = setup[t]
      /\ pc'[s] \in {"apply", "attach", "save", "failed"} /\ setup'[s].cgroup
  BY <1>1, <1>2 DEF create_cgroup, apply, attach, Ask, Goto, Setup
<1>4. Grouped(s)' /\ Answers(s, c)'
  BY <1>2, <1>3 DEF Grouped, Answers
<1>5. \A d \in Containers \ {c} : cgroup'[d] = cgroup[d]
  BY <1>1, <1>2 DEF create_cgroup, apply, attach
<1>6. cgroup'[c] # NoOne =>
        \A t \in cgroup'[c].procs :
          \/ cgroup[c] # NoOne /\ t \in cgroup[c].procs
          \/ t = s /\ engine[s] = "up"
  <2>1. CASE create_cgroup(s)
    BY <1>1, <1>2, <2>1 DEF create_cgroup
  <2>2. CASE apply(s)
    <3>1. cgroup[c] = NoOne \/ cgroup[c] \in Cgroup
      BY <1>1, <1>2
    <3> QED
      BY <1>1, <1>2, <2>2, <3>1 DEF apply, Cgroup
  <2>3. CASE attach(s)
    <3>1. cgroup[c] = NoOne \/ cgroup[c] \in Cgroup
      BY <1>1, <1>2
    <3> QED
      BY <1>1, <1>2, <2>3, <3>1 DEF attach, Attachable, Cgroup
  <2> QED
    BY <2>1, <2>2, <2>3
<1>7. ASSUME NEW d \in Containers, cgroup'[d] # NoOne, s \in cgroup'[d].procs PROVE Answers(s, d)'
  <2>1. CASE d = c
    BY <1>2, <1>4, <2>1
  <2>2. CASE d # c
    BY <1>5, <1>7, <2>2 DEF GroupInv, Answered, Answers
  <2> QED
    BY <2>1, <2>2
<1>8. ASSUME NEW d \in Containers, cgroup'[d] # NoOne
      PROVE  /\ cgroup[d] # NoOne \/ Answers(s, d)'
             /\ \A t \in cgroup'[d].procs :
                  \/ cgroup[d] # NoOne /\ t \in cgroup[d].procs /\ engine'[t] = engine[t]
                  \/ t = s /\ Answers(s, d)' /\ engine'[t] = "up"
  BY <1>2, <1>4, <1>5, <1>6, <1>8
<1> HIDE DEF c
<1>9. pc[s] # "idle" /\ (Answers(s, of[s]) => Answers(s, of[s])')
  BY <1>2, <1>4 DEF c
<1> QED
  BY <1>2, <1>3, <1>4, <1>7, <1>8, <1>9, GroupStep

\* An engine that dies leaves its cgroup; a session that is killed still answers for it.
LEMMA GroupDeath ==
  ASSUME HostInv, GroupInv, NEW s \in Sessions, EngineDies(s) \/ WireUpFails(s) \/ Killed(s)
  PROVE  GroupInv'
<1>1. /\ pc \in [Sessions -> PCs] /\ setup \in [Sessions -> Setup]
      /\ engine \in [Sessions -> {"none", "up", "dead"}]
      /\ cgroup \in [Containers -> Cgroup \cup {NoOne}] /\ NoOne \notin Cgroup
  BY GroupTypes
<1>2. /\ UNCHANGED of /\ pc[s] # "idle" /\ (\A t \in Sessions \ {s} : engine'[t] = engine[t])
      /\ UNCHANGED <<engine, cgroup>> \/ cgroup' = WithoutProcess(s)
  BY <1>1, Here DEF EngineDies, WireUpFails, Killed, EngineDead, SessionOK
<1>3. /\ \A t \in Sessions \ {s} : pc'[t] = pc[t] /\ setup'[t] = setup[t]
      /\ \/ setup'[s].cgroup = setup[s].cgroup /\ setup'[s].left = setup[s].left
            /\ (pc'[s] = pc[s] \/ (pc[s] = "failed" /\ pc'[s] = "detach"))
         \/ pc'[s] \in Away /\ ~setup'[s].cgroup
  BY <1>1 DEF EngineDies, WireUpFails, Killed, Goto, Setup, NoSetup, Away
<1>4. Grouped(s)' /\ (Answers(s, of[s]) => Answers(s, of[s])')
  BY <1>2, <1>3 DEF GroupInv, Grouped, Answers, Away
<1>5. ASSUME NEW c \in Containers, cgroup'[c] # NoOne
      PROVE  /\ cgroup[c] # NoOne
             /\ \A t \in cgroup'[c].procs : t \in cgroup[c].procs /\ engine'[t] = engine[t]
  <2>1. CASE UNCHANGED <<engine, cgroup>>
    BY <1>5, <2>1
  <2>2. CASE cgroup' = WithoutProcess(s)
    <3>1. cgroup[c] \in Cgroup /\ cgroup'[c] = [cgroup[c] EXCEPT !.procs = @ \ {s}]
      BY <1>1, <1>5, <2>2 DEF WithoutProcess
    <3> QED
      BY <1>1, <1>2, <3>1 DEF Cgroup
  <2> QED
    BY <1>2, <2>1, <2>2
<1>6. ASSUME NEW c \in Containers, cgroup'[c] # NoOne, s \in cgroup'[c].procs PROVE Answers(s, c)'
  <2>1. Answers(s, c) /\ c = of[s]
    BY <1>5, <1>6 DEF GroupInv, Answered, Answers
  <2> QED
    BY <1>2, <1>4, <2>1
<1> QED
  BY <1>2, <1>3, <1>4, <1>5, <1>6, GroupStep

\* cgroup.kill ends whoever is in the cgroup.  If it cannot be removed for that, the
\* session of the engine killed has yet to remove it.
LEMMA GroupRemove ==
  ASSUME HostInv, GroupInv, NEW s \in Sessions, RemoveCgroup(s) \/ (RemovalFails(s) /\ pc[s] = "remove")
  PROVE  GroupInv'
<1> DEFINE c == of[s]
           procs == IF cgroup[c] = NoOne THEN {} ELSE cgroup[c].procs
<1>1. /\ pc \in [Sessions -> PCs] /\ setup \in [Sessions -> Setup]
      /\ engine \in [Sessions -> {"none", "up", "dead"}]
      /\ cgroup \in [Containers -> Cgroup \cup {NoOne}] /\ NoOne \notin Cgroup
  BY GroupTypes
<1>2. /\ pc[s] = "remove" /\ UNCHANGED of /\ c \in Containers /\ engine[s] = "dead"
      /\ setup[s].then \in {"save", "reset", "done"}
  BY Here DEF RemoveCgroup, RemovalFails, SessionOK, Cleaning
<1>3. /\ \A t \in Sessions \ {s} : pc'[t] = pc[t] /\ setup'[t] = setup[t]
      /\ pc'[s] = setup[s].then /\ ~setup'[s].cgroup
      /\ setup[s].left \subseteq setup'[s].left
      /\ RemovalFails(s) => "cgroup" \in setup'[s].left
  BY <1>1, <1>2 DEF RemoveCgroup, RemovalFails, Goto, Setup
<1>4. Grouped(s)'
  BY <1>2, <1>3 DEF Grouped
<1>5. ASSUME NEW d \in Containers, cgroup[d] # NoOne, NEW t \in cgroup[d].procs
      PROVE  t \in Sessions \ {s} /\ Answers(t, d) /\ engine[t] = "up"
  <2>1. t \in Sessions
    BY <1>1, <1>5 DEF Cgroup
  <2> QED
    BY <1>2, <1>5, <2>1 DEF GroupInv, Answered
<1>6. CASE UNCHANGED <<engine, cgroup>> /\ (RemovalFails(s) \/ ~setup[s].cgroup)
  <2>1. Answers(s, c) => Answers(s, c)'
    BY <1>2, <1>3, <1>6 DEF Answers, Away
  <2> QED
    BY <1>2, <1>3, <1>4, <1>5, <1>6, <2>1, GroupStep
<1>7. CASE /\ engine' = [t \in Sessions |-> IF t \in procs THEN "dead" ELSE engine[t]]
           /\ \/ cgroup' = [cgroup EXCEPT ![c] = NoOne]
              \/ procs # {} /\ cgroup' = [cgroup EXCEPT ![c].procs = {}]
  <2>1. /\ \A d \in Containers \ {c} : cgroup'[d] = cgroup[d]
        /\ cgroup'[c] # NoOne => /\ cgroup[c] # NoOne /\ cgroup'[c].procs = {}
                                /\ \E t \in Sessions \ {s} : Answers(t, c)
    <3>1. CASE cgroup' = [cgroup EXCEPT ![c] = NoOne]
      BY <1>1, <1>2, <3>1
    <3>2. CASE procs # {} /\ cgroup' = [cgroup EXCEPT ![c].procs = {}]
      <4>1. cgroup[c] \in Cgroup /\ (\E t \in Sessions \ {s} : Answers(t, c))
        BY <1>1, <1>2, <1>5, <3>2
      <4>2. cgroup'[c] = [cgroup[c] EXCEPT !.procs = {}] /\ \A d \in Containers \ {c} : cgroup'[d] = cgroup[d]
        BY <1>1, <1>2, <3>2
      <4> QED
        BY <1>1, <4>1, <4>2 DEF Cgroup
    <3> QED
      BY <1>7, <3>1, <3>2
  <2>2. ASSUME NEW d \in Containers, cgroup'[d] # NoOne, NEW t \in cgroup'[d].procs
        PROVE  cgroup[d] # NoOne /\ t \in cgroup[d].procs /\ engine'[t] = engine[t] /\ t # s
    <3>1. d # c /\ cgroup[d] # NoOne /\ t \in cgroup[d].procs
      BY <2>1, <2>2
    <3>2. t \in Sessions \ {s} /\ of[t] = d
      BY <1>5, <3>1 DEF Answers
    <3>3. t \notin procs
      BY <1>2, <1>5, <3>1, <3>2 DEF Answers
    <3> QED
      BY <1>7, <3>1, <3>2, <3>3
  <2>3. cgroup'[c] = NoOne \/ \E t \in Sessions \ {s} : Answers(t, c)
    BY <2>1
  <2> QED
    BY <1>2, <1>3, <1>4, <2>1, <2>2, <2>3, GroupStep
<1> QED
  BY <1>6, <1>7 DEF RemoveCgroup, RemovalFails

LEMMA GroupSpawn ==
  ASSUME HostInv, GroupInv, NEW s \in Sessions, NEW c \in Containers, Spawn(s, c)
  PROVE  GroupInv'
<1>1. /\ pc[s] = "idle" /\ UNCHANGED <<cgroup, setup>> /\ pc'[s] = "bridge"
      /\ \A t \in Sessions \ {s} : pc'[t] = pc[t] /\ of'[t] = of[t] /\ engine'[t] = engine[t]
  BY Here DEF Spawn, Goto, Typed, TypeOK
<1>2. ~setup[s].cgroup /\ setup[s].left = {}
  BY <1>1, Here DEF GroupInv, Grouped, Kept, Leaving, Cleaning
<1>3. ASSUME NEW t \in Sessions PROVE Grouped(t)'
  BY <1>1, <1>2, <1>3 DEF GroupInv, Grouped
<1>4. ASSUME NEW t \in Sessions, NEW d \in Containers, Answers(t, d) PROVE t # s /\ Answers(t, d)'
  BY <1>1, <1>2, <1>4 DEF Answers, Away
<1>5. ASSUME NEW d \in Containers PROVE Answered(d)'
  <2>1. Answered(d)
    BY DEF GroupInv
  <2>2. cgroup[d] # NoOne => cgroup[d].procs \subseteq Sessions
    BY GroupTypes DEF Cgroup
  <2> QED
    BY <1>1, <1>4, <2>1, <2>2 DEF Answered
<1> QED
  BY <1>3, <1>5 DEF GroupInv

LEMMA GroupNext == HostInv /\ GroupInv /\ [Next]_vars => GroupInv'
<1> SUFFICES ASSUME HostInv, GroupInv, [Next]_vars PROVE GroupInv'
  OBVIOUS
<1>1. CASE UNCHANGED vars
  BY <1>1, GroupRests DEF vars, GroupInv, Grouped
<1>2. CASE Next
  <2>1. PICK s \in Sessions : Turn(s)
    BY <1>2 DEF Next, Turn
  <2> QED
    BY <2>1, GroupWire, GroupOther, GroupMake, GroupDeath, GroupRemove, GroupSpawn DEF Turn, Session, cleanup
<1> QED
  BY <1>1, <1>2

LEMMA GroupHolds == Spec => [](HostInv /\ GroupInv)
<1>1. Init => GroupInv
  BY DEF Init, GroupInv, Grouped, Answered, NoSetup
<1> QED
  BY <1>1, HostInit, HostNext, GroupNext, PTL DEF Spec

-----------------------------------------------------------------------------
(***************************************************************************)
(* What follows.                                                           *)
(***************************************************************************)

\* The types; a veth on the bridge means a bridge that works, or that the session which
\* makes it is about to finish, unless a request failed or a session was killed
\* (ensure_bridge); and a running container lacks a proxy only if another session had
\* the port or the host refused it, though nobody looks whether a proxy could bind
\* (spawn_port_proxies, proxy_tcp, proxy_udp).
THEOREM BridgeAndPorts == Spec => []WiringInv
<1>1. HostInv => WiringInv
  <2> SUFFICES ASSUME HostInv PROVE WiringInv
    OBVIOUS
  <2>1. TypeOK
    BY Here DEF HostInv, Typed
  <2>2. BridgeWorks
    <3>1. ASSUME NEW s \in Sessions, Connected(s) PROVE "link" \in bridge
      BY <3>1, Here, OwnName DEF Connected, Owned
    <3> QED
      BY <3>1, Here DEF BridgeWorks, BridgeMade
  <2>3. PortLostToAnother
    BY Here DEF PortLostToAnother, Served, Lost
  <2> QED
    BY <2>1, <2>2, <2>3 DEF WiringInv
<1> QED
  BY <1>1, HostHolds, PTL

\* An engine whose start has been told that it is on the network is there, with all that
\* attach_impl does to a veth, though every session removes veths by name; unless
\* another session of that name has given up (attach_container, NetworkSetup::cleanup).
THEOREM EnginesStayOnTheNetwork == Spec => []OnNetwork
<1>1. HostInv /\ NetInv => OnNetwork
  <2> SUFFICES ASSUME HostInv, NetInv, NEW s \in Sessions, Attached(s)
               PROVE  Connected(s) \/ Disturbed(s)
    BY DEF OnNetwork, Disturbed
  <2>1. pc[s] \in Complete /\ engine[s] = "up"
    BY DEF Attached, Complete
  <2>2. HasLink(s, Done) \/ Disturbed(s)
    BY <2>1, Places DEF NetInv, Holding
  <2>3. HasLink(s, Done) => Connected(s)
    <3>1. pc[s] # "idle" /\ (Exists(Name(s)) => link[Name(s)] \in Veth)
      BY <2>1, Here, OwnName DEF Complete
    <3> QED
      BY <3>1 DEF HasLink, Connected, Veth
  <2> QED
    BY <2>2, <2>3
<1> QED
  BY <1>1, NetHolds, PTL

\* Two engines with one address, a hash of the container's id, are up side by side only if
\* a third session of that address has removed the veth of the first (create_veth_pair:
\* the name of the veth is made of the address, and a name that is taken is refused).
THEOREM OneEngineAnAddress == Spec => []UniqueAddresses
<1>1. HostInv /\ NetInv => UniqueAddresses
  <2> SUFFICES ASSUME HostInv, NetInv, NEW s \in Sessions, NEW t \in Sessions \ {s},
                      Attached(s), Attached(t), Address[of[s]] = Address[of[t]]
               PROVE  \E u \in Sessions \ {s, t} : GaveBack(u) /\ Name(u) = Name(s)
    BY DEF UniqueAddresses
  <2>1. Name(s) = Name(t)
    BY DEF Name, veth_host_name
  <2>2. ~GaveBack(s) /\ ~GaveBack(t)
    BY DEF NetInv, Knows, Attached, GaveBack
  <2>3. Disturbed(s) \/ Disturbed(t)
    <3>1. ASSUME NEW r \in {s, t} PROVE HasLink(r, Done) \/ Disturbed(r)
      <4>1. pc[r] \in Complete /\ engine[r] = "up"
        BY DEF Attached, Complete
      <4> QED
        BY <4>1, Places DEF NetInv, Holding
    <3> QED
      BY <2>1, <3>1 DEF HasLink
  <2> QED
    BY <2>1, <2>2, <2>3 DEF Disturbed
<1> QED
  BY <1>1, NetHolds, PTL

\* Whatever step of wire_up or of the cleanup failed, a session that has returned has left
\* no proxy of its own on the host, no veth, and no cgroup but one that another session of
\* the container answers for; unless the kernel or the file system refused the removal
\* itself, whose error is thrown away (delete_link, NetworkSetup::cleanup,
\* CgroupSetup::cleanup).
THEOREM SessionsCleanUp == Spec => []NothingLeft
<1>1. HostInv /\ GroupInv => NothingLeft
  <2> SUFFICES ASSUME HostInv, GroupInv, NEW s \in Sessions, pc[s] = "done"
               PROVE  /\ \A p \in HostPorts : bound[p] \notin {s} \X Proxies
                      /\ "veth" \in setup[s].left \/ \A n \in Names : Exists(n) => link[n].by # s
                      /\ "cgroup" \in setup[s].left \/ cgroup[of[s]] = NoOne \/ LeftToAnother(s)
    BY DEF NothingLeft
  <2>1. ASSUME NEW n \in Names, Exists(n), link[n].by = s PROVE "veth" \in setup[s].left
    BY <2>1, Here, OwnName DEF Owned, Kept, Linking, InNamespace, Wired
  <2>2. ASSUME NEW p \in HostPorts PROVE bound[p] \notin {s} \X Proxies
    <3>1. bound[p] # NoOne => pc[bound[p][1]] \in Proxied
      BY <2>2, Here DEF PortInv, Listening
    <3> QED
      BY <3>1, NoOneAssumption DEF Proxied
  <2>3. ASSUME "cgroup" \notin setup[s].left, cgroup[of[s]] # NoOne PROVE LeftToAnother(s)
    <3>1. of[s] \in Containers /\ ~setup[s].cgroup
      BY Here DEF SessionOK, GroupInv, Grouped
    <3>2. PICK t \in Sessions : Answers(t, of[s])
      BY <2>3, <3>1 DEF GroupInv, Answered
    <3>3. t # s
      BY <2>3, <3>1, <3>2 DEF Answers, Away
    <3> QED
      BY <3>2, <3>3 DEF Answers, Away, LeftToAnother
  <2> QED
    BY <2>1, <2>2, <2>3
<1> QED
  BY <1>1, GroupHolds, PTL

\* An engine that runs in a limited container is in its cgroup, and the limits are set,
\* whoever removes the cgroup meanwhile, unless two other sessions of the container have
\* overtaken it: one removed the cgroup and the other made it again (cleanup, wire_up).
THEOREM LimitedEnginesAreLimited == Spec => []LimitsHold
<1>1. HostInv => LimitsHold
  BY Here DEF LimitInv, Bounded, LimitsHold
<1> QED
  BY <1>1, HostHolds, PTL

\* The network of an engine that runs is taken away by nobody but a session of the same
\* name that gives its own back late; least of all by a start that finds the name taken
\* (create_veth_pair, delete_link).
THEOREM OnlyCleanupDisconnects == Spec => OnlyLateCleanupDisconnects
<1> DEFINE Safe ==
      \A s \in Sessions :
       Connected(s) /\ ~Connected(s)' /\ engine'[s] = "up" =>
         \E t \in Sessions \ {s} : pc[t] \in {"detach", "undo"} /\ Name(t) = Name(s)
<1>1. HostInv /\ [Next]_vars => [Safe]_vars
  <2> SUFFICES ASSUME HostInv, Next, NEW s \in Sessions, Connected(s), ~Connected(s)', engine'[s] = "up"
               PROVE  \E t \in Sessions \ {s} : pc[t] \in {"detach", "undo"} /\ Name(t) = Name(s)
    OBVIOUS
  <2> DEFINE n == Name(s)
  <2>1. /\ pc[s] # "idle" /\ Exists(n) /\ link[n].by = s /\ link[n].has = Done
        /\ n \in Names /\ of[s] \in Containers
    BY Here DEF Connected, SessionOK
  <2>2. pc[s] \notin Linking
    BY <2>1, OwnName DEF Owned, Done
  <2>3. link \in [Names -> Veth \cup {NoOne}] /\ link[n] \in Veth
    BY <2>1, Here DEF Typed, Shape, Exists
  <2>4. ~(pc'[s] # "idle" /\ of'[s] = of[s] /\ link'[n] \in Veth /\ link'[n].by = s /\ link'[n].has = Done)
    BY NoOneAssumption DEF Connected, Exists, Name
  <2>5. PICK t \in Sessions : Turn(t)
    BY DEF Next, Turn
  <2>6. pc'[s] # "idle" /\ of'[s] = of[s]
    BY <2>1, <2>5, Stays
  <2>7. link'[n] # link[n]
    BY <2>1, <2>3, <2>4, <2>6
  <2>8. attach_container(t) \/ Detach(t) \/ NamespaceGoes(t)
    BY <2>5, <2>7, LinkRests
  <2> HIDE DEF n
  <2>9. CASE create_veth_pair(t) \/ link_index(t) \/ open_netns_fd(t)
    BY <2>1, <2>3, <2>7, <2>9 DEF create_veth_pair, link_index, open_netns_fd, Exists
  <2>10. ASSUME NEW from, NEW does \in Done, NEW ok, NEW to, OnLink(t, from, does, ok, to) PROVE FALSE
    <3>1. link' = [link EXCEPT ![Name(t)].has = @ \cup {does}] /\ n = Name(t)
      BY <2>1, <2>3, <2>7, <2>10 DEF OnLink
    <3>2. link'[n] = [link[n] EXCEPT !.has = @ \cup {does}]
      BY <2>1, <2>3, <3>1
    <3>3. link[n].has \cup {does} = link[n].has
      BY <2>1, <2>10
    <3> QED
      BY <2>3, <2>7, <3>2, <3>3 DEF Veth
  <2>11. CASE Undo(t)
    <3>1. Name(t) = n /\ pc[t] = "undo"
      BY <2>1, <2>3, <2>7, <2>11 DEF Undo, delete_link
    <3> QED
      BY <2>2, <3>1 DEF Linking, n
  <2>12. CASE Detach(t)
    <3>1. Name(t) = n /\ pc[t] = "detach" /\ engine' = engine
      BY <2>1, <2>3, <2>7, <2>12 DEF Detach, delete_link
    <3>2. t # s
      BY <3>1, Here DEF SessionOK, Cleaning
    <3> QED
      BY <3>1, <3>2 DEF n
  <2>13. CASE NamespaceGoes(t)
    BY <2>1, <2>7, <2>13 DEF NamespaceGoes
  <2> QED
    BY <2>8, <2>9, <2>10, <2>11, <2>12, <2>13
    DEF attach_container, attach_impl, move_link_to_netns, set_link_up_by_name, set_link_master,
        rename_link_by_index, PeerUp, add_addr4, Done
<1> QED
  BY <1>1, HostHolds, PTL DEF Spec, OnlyLateCleanupDisconnects
=============================================================================
