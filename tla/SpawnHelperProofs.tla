------------------------- MODULE SpawnHelperProofs -------------------------
(***************************************************************************)
(* Proofs about Confinement, for every set of children, every kernel and   *)
(* every set of directories, and about SpawnHelper, for any number of      *)
(* threads and faults and any width of a word.                             *)
(***************************************************************************)
EXTENDS SpawnHelper, SequenceTheorems, TLAPS

-----------------------------------------------------------------------------
(***************************************************************************)
(* Confinement.  The invariant says what a child has given up and what it  *)
(* has left, by the step it is at; with it, no call is ever refused and    *)
(* every engine that runs is confined.                                     *)
(***************************************************************************)
\* The steps, from the last to the first.
Programs == {"exec", "running"}
Users == {"user"} \cup Programs
Filtered == {"capabilities"} \cup Users
Stuck == {"seccomp"} \cup Filtered
Pivoted == {"deathsig", "no_new_privs"} \cup Stuck
Bound == {"pivot"} \cup Pivoted
Overlaid == {"system", "seed", "bind"} \cup Bound
Private == {"overlay"} \cup Overlaid
Apart == {"make_private"} \cup Private
Chowned == {"ready", "unshare"} \cup Apart
Whole == {"none", "built"} \cup (Chowned \ Users)
Unfiltered == Whole \ Filtered

\* What the record of a child is like at each step.
Good(r) ==
  /\ r.at # "refused"
  /\ r.at \in Whole => r.effective = Kernel
  /\ r.at \in Unfiltered => r.filter = {}
  /\ r.at \in {"none", "built"} => \A v \in Volumes : r.owner[v] # "none"
  /\ r.at \in Chowned => \A v \in Volumes : r.owner[v] = "engine"
  /\ r.at \in Apart => r.namespaces = {"net", "mnt"}
  /\ r.at \in Private => r.private
  /\ r.at \in Overlaid => "overlay" \in r.mounts
  /\ r.at \in Bound => r.readonly = SystemDirs /\ Volumes \subseteq r.mounts
  /\ r.at \in Pivoted => r.root = "own" /\ ~r.oldRoot
  /\ r.at \in Stuck => r.nnp
  /\ r.at \in Filtered => r.filter = default_denylist
  /\ r.at \in Users => r.bounding \cap Known \subseteq default_allowlist
  /\ r.at = "user" => r.effective = Kernel \cap default_allowlist
  /\ r.at \in Programs => r.user = "engine" /\ r.effective = {}

\* The inductive invariant.
ConfinementInv ==
  /\ ConfinementTypeOK
  /\ hostMounts = {}
  /\ \A c \in Children : Good(child[c])

-----------------------------------------------------------------------------
(***************************************************************************)
(* A step replaces one record, by one that is good.                        *)
(***************************************************************************)
LEMMA Update ==
  ASSUME ConfinementInv, NEW c \in Children, NEW r \in Child, Good(r),
         child' = [child EXCEPT ![c] = r], hostMounts' = hostMounts
  PROVE  ConfinementInv'
<1>1. child \in [Children -> Child]
  BY DEF ConfinementInv, ConfinementTypeOK
<1>2. child' \in [Children -> Child]
  BY <1>1
<1>3. \A d \in Children : Good(child'[d])
  <2>1. TAKE d \in Children
  <2>2. child'[d] = IF d = c THEN r ELSE child[d]
    BY <1>1
  <2> QED
    BY <2>2 DEF ConfinementInv
<1>4. \A d \in Children : Good(child[d])'
  BY <1>3 DEF Good
<1> QED
  BY <1>2, <1>4 DEF ConfinementInv, ConfinementTypeOK

\* build_rootfs.
LEMMA BuildInv ==
  ASSUME ConfinementInv, NEW c \in Children, build_rootfs(c)
  PROVE  ConfinementInv'
<1> DEFINE r == [child[c] EXCEPT !.at = "built",
                            !.owner = [d \in Writable |-> IF d \in Volumes THEN @[d] ELSE "none"]]
<1>1. child[c] \in Child /\ Good(child[c])
  BY DEF ConfinementInv, ConfinementTypeOK
<1>2. child' = [child EXCEPT ![c] = r] /\ hostMounts' = hostMounts
  BY <1>1 DEF build_rootfs, Becomes, HostSees, Good, At, Whole, Unfiltered, Chowned, Apart, Private, Overlaid, Bound, Pivoted, Stuck, Filtered, Users, Programs
<1>3. r \in Child
  BY <1>1 DEF Child, Mounts, Steps, Writable, Writable
<1>4. Good(r)
  BY <1>1, ConfinementAssumption DEF build_rootfs, At, Good, Child, Whole, Unfiltered, Chowned, Apart, Private, Overlaid, Bound, Pivoted, Stuck, Filtered, Users, Programs, Writable
<1> QED
  BY <1>2, <1>3, <1>4, Update

\* chown_tree: a volume is always there.
LEMMA ChownInv ==
  ASSUME ConfinementInv, NEW c \in Children, chown_tree(c)
  PROVE  ConfinementInv'
<1> DEFINE r == [child[c] EXCEPT !.at = "ready",
                            !.owner = [d \in Writable |-> IF @[d] = "none" THEN "none" ELSE "engine"]]
<1>1. child[c] \in Child /\ Good(child[c])
  BY DEF ConfinementInv, ConfinementTypeOK
<1>2. child' = [child EXCEPT ![c] = r] /\ hostMounts' = hostMounts
  BY <1>1 DEF chown_tree, Becomes, HostSees, Good, At, Whole, Unfiltered, Chowned, Apart, Private, Overlaid, Bound, Pivoted, Stuck, Filtered, Users, Programs
<1>3. r \in Child
  BY <1>1 DEF Child, Mounts, Steps, Writable, Writable
<1>4. Good(r)
  BY <1>1, ConfinementAssumption DEF chown_tree, At, Good, Child, Whole, Unfiltered, Chowned, Apart, Private, Overlaid, Bound, Pivoted, Stuck, Filtered, Users, Programs, Writable
<1> QED
  BY <1>2, <1>3, <1>4, Update

\* The fork of the child.
LEMMA ForkInv ==
  ASSUME ConfinementInv, NEW c \in Children, Fork(c)
  PROVE  ConfinementInv'
<1> DEFINE r == [child[c] EXCEPT !.at = "unshare"]
<1>1. child[c] \in Child /\ Good(child[c])
  BY DEF ConfinementInv, ConfinementTypeOK
<1>2. child' = [child EXCEPT ![c] = r] /\ hostMounts' = hostMounts
  BY <1>1 DEF Fork, Becomes, HostSees, Good, At, Whole, Unfiltered, Chowned, Apart, Private, Overlaid, Bound, Pivoted, Stuck, Filtered, Users, Programs
<1>3. r \in Child
  BY <1>1 DEF Child, Mounts, Steps, Writable
<1>4. Good(r)
  BY <1>1, ConfinementAssumption DEF Fork, At, Good, Child, Whole, Unfiltered, Chowned, Apart, Private, Overlaid, Bound, Pivoted, Stuck, Filtered, Users, Programs
<1> QED
  BY <1>2, <1>3, <1>4, Update

\* The two namespaces.
LEMMA UnshareInv ==
  ASSUME ConfinementInv, NEW c \in Children, Unshare(c)
  PROVE  ConfinementInv'
<1> DEFINE r == [child[c] EXCEPT !.at = "make_private", !.namespaces = {"net", "mnt"}]
<1>1. child[c] \in Child /\ Good(child[c])
  BY DEF ConfinementInv, ConfinementTypeOK
<1>2. Permitted(c, {"SYS_ADMIN"}, {})
  BY <1>1, ConfinementAssumption DEF Unshare, At, Permitted, Good, Whole, Unfiltered, Chowned, Apart, Private, Overlaid, Bound, Pivoted, Stuck, Filtered, Users, Programs
<1>3. child' = [child EXCEPT ![c] = r] /\ hostMounts' = hostMounts
  BY <1>1, <1>2 DEF Unshare, Becomes, HostSees, Good, At, Whole, Unfiltered, Chowned, Apart, Private, Overlaid, Bound, Pivoted, Stuck, Filtered, Users, Programs
<1>4. r \in Child
  BY <1>1 DEF Child, Mounts, Steps, Writable
<1>5. Good(r)
  BY <1>1, <1>2, ConfinementAssumption DEF Unshare, At, Good, Child, Whole, Unfiltered, Chowned, Apart, Private, Overlaid, Bound, Pivoted, Stuck, Filtered, Users, Programs
<1> QED
  BY <1>3, <1>4, <1>5, Update

\* The mounts become private.
LEMMA MakePrivateInv ==
  ASSUME ConfinementInv, NEW c \in Children, MakePrivate(c)
  PROVE  ConfinementInv'
<1> DEFINE r == [child[c] EXCEPT !.at = "overlay", !.private = TRUE]
<1>1. child[c] \in Child /\ Good(child[c])
  BY DEF ConfinementInv, ConfinementTypeOK
<1>2. Permitted(c, {"SYS_ADMIN"}, {"mount"})
  BY <1>1, ConfinementAssumption DEF MakePrivate, At, Permitted, Good, Whole, Unfiltered, Chowned, Apart, Private, Overlaid, Bound, Pivoted, Stuck, Filtered, Users, Programs
<1>a. ("mnt" \in child[c].namespaces) = TRUE
  BY <1>1 DEF MakePrivate, At, Good, Apart
<1>3. child' = [child EXCEPT ![c] = r] /\ hostMounts' = hostMounts
  BY <1>1, <1>2, <1>a DEF MakePrivate, Becomes, HostSees, Good, At, Whole, Unfiltered, Chowned, Apart, Private, Overlaid, Bound, Pivoted, Stuck, Filtered, Users, Programs
<1>4. r \in Child
  BY <1>1 DEF Child, Mounts, Steps, Writable
<1>5. Good(r)
  BY <1>1, <1>2, ConfinementAssumption DEF MakePrivate, At, Good, Child, Whole, Unfiltered, Chowned, Apart, Private, Overlaid, Bound, Pivoted, Stuck, Filtered, Users, Programs
<1> QED
  BY <1>3, <1>4, <1>5, Update

\* mount_overlay.
LEMMA OverlayInv ==
  ASSUME ConfinementInv, NEW c \in Children, mount_overlay(c)
  PROVE  ConfinementInv'
<1> DEFINE r == [child[c] EXCEPT !.at = "system", !.mounts = @ \cup {"overlay"},
                            !.owner = [d \in Writable |-> IF @[d] = "none" THEN "root" ELSE @[d]]]
<1>1. child[c] \in Child /\ Good(child[c])
  BY DEF ConfinementInv, ConfinementTypeOK
<1>2. Permitted(c, {"SYS_ADMIN"}, {"mount"})
  BY <1>1, ConfinementAssumption DEF mount_overlay, At, Permitted, Good, Whole, Unfiltered, Chowned, Apart, Private, Overlaid, Bound, Pivoted, Stuck, Filtered, Users, Programs
<1>3. child' = [child EXCEPT ![c] = r] /\ hostMounts' = hostMounts
  BY <1>1, <1>2 DEF mount_overlay, Becomes, HostSees, Good, At, Whole, Unfiltered, Chowned, Apart, Private, Overlaid, Bound, Pivoted, Stuck, Filtered, Users, Programs
<1>4. r \in Child
  BY <1>1 DEF Child, Mounts, Steps, Writable, Writable
<1>5. Good(r)
  BY <1>1, <1>2, ConfinementAssumption DEF mount_overlay, At, Good, Child, Whole, Unfiltered, Chowned, Apart, Private, Overlaid, Bound, Pivoted, Stuck, Filtered, Users, Programs, Writable
<1> QED
  BY <1>3, <1>4, <1>5, Update

\* The system mounts.
LEMMA SystemInv ==
  ASSUME ConfinementInv, NEW c \in Children, mount_system(c)
  PROVE  ConfinementInv'
<1> DEFINE r == [child[c] EXCEPT !.at = "seed", !.mounts = @ \cup {"devtmpfs", "proc", "sysfs"}]
<1>1. child[c] \in Child /\ Good(child[c])
  BY DEF ConfinementInv, ConfinementTypeOK
<1>2. Permitted(c, {"SYS_ADMIN"}, {"mount"})
  BY <1>1, ConfinementAssumption DEF mount_system, At, Permitted, Good, Whole, Unfiltered, Chowned, Apart, Private, Overlaid, Bound, Pivoted, Stuck, Filtered, Users, Programs
<1>3. child' = [child EXCEPT ![c] = r] /\ hostMounts' = hostMounts
  BY <1>1, <1>2 DEF mount_system, Becomes, HostSees, Good, At, Whole, Unfiltered, Chowned, Apart, Private, Overlaid, Bound, Pivoted, Stuck, Filtered, Users, Programs
<1>4. r \in Child
  BY <1>1 DEF Child, Mounts, Steps, Writable
<1>5. Good(r)
  BY <1>1, <1>2, ConfinementAssumption DEF mount_system, At, Good, Child, Whole, Unfiltered, Chowned, Apart, Private, Overlaid, Bound, Pivoted, Stuck, Filtered, Users, Programs
<1> QED
  BY <1>3, <1>4, <1>5, Update

\* Files below the overlay.
LEMMA SeedInv ==
  ASSUME ConfinementInv, NEW c \in Children, seed_root(c)
  PROVE  ConfinementInv'
<1> DEFINE r == [child[c] EXCEPT !.at = "bind"]
<1>1. child[c] \in Child /\ Good(child[c])
  BY DEF ConfinementInv, ConfinementTypeOK
<1>2. child' = [child EXCEPT ![c] = r] /\ hostMounts' = hostMounts
  BY <1>1 DEF seed_root, Becomes, HostSees, Good, At, Whole, Unfiltered, Chowned, Apart, Private, Overlaid, Bound, Pivoted, Stuck, Filtered, Users, Programs
<1>3. r \in Child
  BY <1>1 DEF Child, Mounts, Steps, Writable
<1>4. Good(r)
  BY <1>1, ConfinementAssumption DEF seed_root, At, Good, Child, Whole, Unfiltered, Chowned, Apart, Private, Overlaid, Bound, Pivoted, Stuck, Filtered, Users, Programs
<1> QED
  BY <1>2, <1>3, <1>4, Update

\* The bind mounts.
LEMMA BindInv ==
  ASSUME ConfinementInv, NEW c \in Children, bind_mount(c)
  PROVE  ConfinementInv'
<1> DEFINE r == [child[c] EXCEPT !.at = "pivot", !.readonly = SystemDirs,
                            !.mounts = @ \cup SystemDirs \cup Volumes]
<1>1. child[c] \in Child /\ Good(child[c])
  BY DEF ConfinementInv, ConfinementTypeOK
<1>2. Permitted(c, {"SYS_ADMIN"}, {"mount"})
  BY <1>1, ConfinementAssumption DEF bind_mount, At, Permitted, Good, Whole, Unfiltered, Chowned, Apart, Private, Overlaid, Bound, Pivoted, Stuck, Filtered, Users, Programs
<1>3. child' = [child EXCEPT ![c] = r] /\ hostMounts' = hostMounts
  BY <1>1, <1>2 DEF bind_mount, Becomes, HostSees, Good, At, Whole, Unfiltered, Chowned, Apart, Private, Overlaid, Bound, Pivoted, Stuck, Filtered, Users, Programs
<1>4. r \in Child
  BY <1>1 DEF Child, Mounts, Steps, Writable
<1>5. Good(r)
  BY <1>1, <1>2, ConfinementAssumption DEF bind_mount, At, Good, Child, Whole, Unfiltered, Chowned, Apart, Private, Overlaid, Bound, Pivoted, Stuck, Filtered, Users, Programs
<1> QED
  BY <1>3, <1>4, <1>5, Update

\* pivot_root: the tree is private and has the overlay.
LEMMA PivotInv ==
  ASSUME ConfinementInv, NEW c \in Children, pivot_root(c)
  PROVE  ConfinementInv'
<1> DEFINE r == [child[c] EXCEPT !.at = "deathsig", !.root = "own", !.oldRoot = FALSE]
<1>1. child[c] \in Child /\ Good(child[c])
  BY DEF ConfinementInv, ConfinementTypeOK
<1>2. /\ Permitted(c, {"SYS_ADMIN"}, {"pivot_root", "umount2"})
      /\ child[c].private /\ "overlay" \in child[c].mounts
  BY <1>1, ConfinementAssumption DEF pivot_root, At, Permitted, Good, Whole, Unfiltered, Chowned, Apart, Private, Overlaid, Bound, Pivoted, Stuck, Filtered, Users, Programs
<1>3. child' = [child EXCEPT ![c] = r] /\ hostMounts' = hostMounts
  BY <1>1, <1>2 DEF pivot_root, Becomes, HostSees, Good, At, Whole, Unfiltered, Chowned, Apart, Private, Overlaid, Bound, Pivoted, Stuck, Filtered, Users, Programs
<1>4. r \in Child
  BY <1>1 DEF Child, Mounts, Steps, Writable
<1>5. Good(r)
  BY <1>1, <1>2, ConfinementAssumption DEF pivot_root, At, Good, Child, Whole, Unfiltered, Chowned, Apart, Private, Overlaid, Bound, Pivoted, Stuck, Filtered, Users, Programs
<1> QED
  BY <1>3, <1>4, <1>5, Update

\* The parent-death signal.
LEMMA DeathsigInv ==
  ASSUME ConfinementInv, NEW c \in Children, set_pdeathsig(c)
  PROVE  ConfinementInv'
<1> DEFINE r == [child[c] EXCEPT !.at = "no_new_privs", !.deathsig = TRUE]
<1>1. child[c] \in Child /\ Good(child[c])
  BY DEF ConfinementInv, ConfinementTypeOK
<1>2. child' = [child EXCEPT ![c] = r] /\ hostMounts' = hostMounts
  BY <1>1 DEF set_pdeathsig, Becomes, HostSees, Good, At, Whole, Unfiltered, Chowned, Apart, Private, Overlaid, Bound, Pivoted, Stuck, Filtered, Users, Programs
<1>3. r \in Child
  BY <1>1 DEF Child, Mounts, Steps, Writable
<1>4. Good(r)
  BY <1>1, ConfinementAssumption DEF set_pdeathsig, At, Good, Child, Whole, Unfiltered, Chowned, Apart, Private, Overlaid, Bound, Pivoted, Stuck, Filtered, Users, Programs
<1> QED
  BY <1>2, <1>3, <1>4, Update

\* no_new_privs.
LEMMA NoNewPrivsInv ==
  ASSUME ConfinementInv, NEW c \in Children, set_no_new_privs(c)
  PROVE  ConfinementInv'
<1> DEFINE r == [child[c] EXCEPT !.at = "seccomp", !.nnp = TRUE]
<1>1. child[c] \in Child /\ Good(child[c])
  BY DEF ConfinementInv, ConfinementTypeOK
<1>2. child' = [child EXCEPT ![c] = r] /\ hostMounts' = hostMounts
  BY <1>1 DEF set_no_new_privs, Becomes, HostSees, Good, At, Whole, Unfiltered, Chowned, Apart, Private, Overlaid, Bound, Pivoted, Stuck, Filtered, Users, Programs
<1>3. r \in Child
  BY <1>1 DEF Child, Mounts, Steps, Writable
<1>4. Good(r)
  BY <1>1, ConfinementAssumption DEF set_no_new_privs, At, Good, Child, Whole, Unfiltered, Chowned, Apart, Private, Overlaid, Bound, Pivoted, Stuck, Filtered, Users, Programs
<1> QED
  BY <1>2, <1>3, <1>4, Update

\* The filter: no_new_privs is set.
LEMMA SeccompInv ==
  ASSUME ConfinementInv, NEW c \in Children, apply_seccomp(c)
  PROVE  ConfinementInv'
<1> DEFINE r == [child[c] EXCEPT !.at = "capabilities", !.filter = default_denylist]
<1>1. child[c] \in Child /\ Good(child[c])
  BY DEF ConfinementInv, ConfinementTypeOK
<1>2. child[c].nnp
  BY <1>1, ConfinementAssumption DEF apply_seccomp, At, Permitted, Good, Whole, Unfiltered, Chowned, Apart, Private, Overlaid, Bound, Pivoted, Stuck, Filtered, Users, Programs
<1>3. child' = [child EXCEPT ![c] = r] /\ hostMounts' = hostMounts
  BY <1>1, <1>2 DEF apply_seccomp, Becomes, HostSees, Good, At, Whole, Unfiltered, Chowned, Apart, Private, Overlaid, Bound, Pivoted, Stuck, Filtered, Users, Programs
<1>4. r \in Child
  BY <1>1 DEF Child, Mounts, Steps, Writable
<1>5. Good(r)
  BY <1>1, <1>2, ConfinementAssumption DEF apply_seccomp, At, Good, Child, Whole, Unfiltered, Chowned, Apart, Private, Overlaid, Bound, Pivoted, Stuck, Filtered, Users, Programs
<1> QED
  BY <1>3, <1>4, <1>5, Update

\* setgid and setuid: the allowlist has their capabilities.
LEMMA PrivilegesInv ==
  ASSUME ConfinementInv, NEW c \in Children, drop_privileges(c)
  PROVE  ConfinementInv'
<1> DEFINE r == [child[c] EXCEPT !.at = "exec", !.user = "engine", !.effective = {}, !.deathsig = FALSE]
<1>1. child[c] \in Child /\ Good(child[c])
  BY DEF ConfinementInv, ConfinementTypeOK
<1>2. Permitted(c, {"SETGID", "SETUID"}, {})
  BY <1>1, ConfinementAssumption
  DEF drop_privileges, At, Permitted, Good, default_allowlist, Whole, Unfiltered, Chowned, Apart, Private, Overlaid, Bound, Pivoted, Stuck, Filtered, Users, Programs
<1>3. child' = [child EXCEPT ![c] = r] /\ hostMounts' = hostMounts
  BY <1>1, <1>2 DEF drop_privileges, Becomes, HostSees, Good, At, Whole, Unfiltered, Chowned, Apart, Private, Overlaid, Bound, Pivoted, Stuck, Filtered, Users, Programs
<1>4. r \in Child
  BY <1>1 DEF Child, Mounts, Steps, Writable
<1>5. Good(r)
  BY <1>1, <1>2, ConfinementAssumption DEF drop_privileges, At, Good, Child, Whole, Unfiltered, Chowned, Apart, Private, Overlaid, Bound, Pivoted, Stuck, Filtered, Users, Programs
<1> QED
  BY <1>3, <1>4, <1>5, Update

\* exec: an engine without root gains nothing.
LEMMA ExecInv ==
  ASSUME ConfinementInv, NEW c \in Children, Exec(c)
  PROVE  ConfinementInv'
<1> DEFINE r == [child[c] EXCEPT !.at = "running",
                            !.effective = IF child[c].user = "root" THEN child[c].bounding ELSE @]
<1>1. child[c] \in Child /\ Good(child[c])
  BY DEF ConfinementInv, ConfinementTypeOK
<1>2. child' = [child EXCEPT ![c] = r] /\ hostMounts' = hostMounts
  BY <1>1 DEF Exec, Becomes, HostSees, Good, At, Whole, Unfiltered, Chowned, Apart, Private, Overlaid, Bound, Pivoted, Stuck, Filtered, Users, Programs
<1>3. r \in Child
  BY <1>1 DEF Child, Mounts, Steps, Writable
<1>4. Good(r)
  BY <1>1, ConfinementAssumption DEF Exec, At, Good, Child, Whole, Unfiltered, Chowned, Apart, Private, Overlaid, Bound, Pivoted, Stuck, Filtered, Users, Programs
<1> QED
  BY <1>2, <1>3, <1>4, Update

\* A step fails.
LEMMA StepFailsInv ==
  ASSUME ConfinementInv, NEW c \in Children, StepFails(c)
  PROVE  ConfinementInv'
<1> DEFINE r == [child[c] EXCEPT !.at = "failed"]
<1>1. child[c] \in Child /\ Good(child[c])
  BY DEF ConfinementInv, ConfinementTypeOK
<1>2. child' = [child EXCEPT ![c] = r] /\ hostMounts' = hostMounts
  BY <1>1 DEF StepFails, Becomes, HostSees, Good, At, Whole, Unfiltered, Chowned, Apart, Private, Overlaid, Bound, Pivoted, Stuck, Filtered, Users, Programs
<1>3. r \in Child
  BY <1>1 DEF Child, Mounts, Steps, Writable
<1>4. Good(r)
  BY <1>1, ConfinementAssumption DEF StepFails, At, Good, Child, Whole, Unfiltered, Chowned, Apart, Private, Overlaid, Bound, Pivoted, Stuck, Filtered, Users, Programs
<1> QED
  BY <1>2, <1>3, <1>4, Update

\* An engine ends.
LEMMA DiesInv ==
  ASSUME ConfinementInv, NEW c \in Children, Dies(c)
  PROVE  ConfinementInv'
<1> DEFINE r == [Unborn EXCEPT !.at = "zombie"]
<1>1. child[c] \in Child /\ Good(child[c])
  BY DEF ConfinementInv, ConfinementTypeOK
<1>2. child' = [child EXCEPT ![c] = r] /\ hostMounts' = hostMounts
  BY <1>1 DEF Dies, Becomes, HostSees, Good, At, Whole, Unfiltered, Chowned, Apart, Private, Overlaid, Bound, Pivoted, Stuck, Filtered, Users, Programs
<1>3. r \in Child
  BY <1>1 DEF Child, Mounts, Steps, Writable, Unborn
<1>4. Good(r)
  BY <1>1, ConfinementAssumption DEF Dies, At, Good, Child, Whole, Unfiltered, Chowned, Apart, Private, Overlaid, Bound, Pivoted, Stuck, Filtered, Users, Programs, Unborn
<1> QED
  BY <1>2, <1>3, <1>4, Update

\* It is reaped.
LEMMA ReapedInv ==
  ASSUME ConfinementInv, NEW c \in Children, Reaped(c)
  PROVE  ConfinementInv'
<1> DEFINE r == [Unborn EXCEPT !.at = "reaped"]
<1>1. child[c] \in Child /\ Good(child[c])
  BY DEF ConfinementInv, ConfinementTypeOK
<1>2. child' = [child EXCEPT ![c] = r] /\ hostMounts' = hostMounts
  BY <1>1 DEF Reaped, Becomes, HostSees, Good, At, Whole, Unfiltered, Chowned, Apart, Private, Overlaid, Bound, Pivoted, Stuck, Filtered, Users, Programs
<1>3. r \in Child
  BY <1>1 DEF Child, Mounts, Steps, Writable, Unborn
<1>4. Good(r)
  BY <1>1, ConfinementAssumption DEF Reaped, At, Good, Child, Whole, Unfiltered, Chowned, Apart, Private, Overlaid, Bound, Pivoted, Stuck, Filtered, Users, Programs, Unborn
<1> QED
  BY <1>2, <1>3, <1>4, Update

\* restrict_caps: the bounding set shrinks while the child still has SETPCAP, or, where
\* the kernel lacks a capability, the start fails.
LEMMA RestrictInv ==
  ASSUME ConfinementInv, NEW c \in Children, restrict_caps(c)
  PROVE  ConfinementInv'
<1> DEFINE fewer == [child[c] EXCEPT !.at = "user", !.effective = @ \cap default_allowlist,
                                     !.bounding = @ \ (Known \ default_allowlist)]
           fails == [child[c] EXCEPT !.at = "failed"]
           r == IF Known \ default_allowlist \subseteq Kernel THEN fewer ELSE fails
<1>1. child[c] \in Child /\ Good(child[c]) /\ child[c].at = "capabilities"
  BY DEF ConfinementInv, ConfinementTypeOK, restrict_caps, At
<1>2. child[c].effective = Kernel
  BY <1>1 DEF Good, Whole, Unfiltered, Chowned, Apart, Private, Overlaid, Bound, Pivoted, Stuck, Filtered, Users, Programs
<1>3. Permitted(c, {"SETPCAP"}, {})
  BY <1>2, ConfinementAssumption DEF Permitted
<1>4. child' = [child EXCEPT ![c] = r] /\ hostMounts' = hostMounts
  BY <1>3 DEF restrict_caps, Becomes
<1>5. fewer \in Child /\ fails \in Child
  BY <1>1 DEF Child, Steps
<1>6. Good(fewer)
  BY <1>1, <1>2 DEF Good, Child, Whole, Unfiltered, Chowned, Apart, Private, Overlaid, Bound, Pivoted, Stuck, Filtered, Users, Programs
<1>7. Good(fails)
  BY <1>1 DEF Good, Child, Whole, Unfiltered, Chowned, Apart, Private, Overlaid, Bound, Pivoted, Stuck, Filtered, Users, Programs
<1> QED
  BY <1>4, <1>5, <1>6, <1>7, Update

-----------------------------------------------------------------------------
\* The children are unborn, with all the rights of the process.
LEMMA ConfinementInitInv == ConfinementInit => ConfinementInv
<1>1. Unborn \in Child
  BY DEF Unborn, Child
<1>2. Good(Unborn)
  BY DEF Unborn, Good, Writable, Whole, Unfiltered, Chowned, Apart, Private, Overlaid, Bound, Pivoted, Stuck, Filtered, Users, Programs
<1> QED
  BY <1>1, <1>2 DEF ConfinementInit, ConfinementInv, ConfinementTypeOK

\* Every step keeps the invariant.
LEMMA ConfinementStepInv == ConfinementInv /\ [ConfinementNext]_confinement => ConfinementInv'
<1> SUFFICES ASSUME ConfinementInv, [ConfinementNext]_confinement PROVE ConfinementInv'
  OBVIOUS
<1>1. CASE UNCHANGED confinement
  BY <1>1 DEF confinement, ConfinementInv, ConfinementTypeOK, Good
<1>2. CASE ConfinementNext
  <2>1. PICK c \in Children :
          build_rootfs(c) \/ chown_tree(c) \/ Fork(c) \/ Prepare(c) \/ Secure(c) \/ Exec(c) \/ StepFails(c) \/ Dies(c) \/ Reaped(c)
    BY <1>2 DEF ConfinementNext
  <2>2. CASE build_rootfs(c) \/ chown_tree(c) \/ Fork(c)
    BY <2>2, BuildInv, ChownInv, ForkInv
  <2>3. CASE Prepare(c)
    BY <2>3, UnshareInv, MakePrivateInv, OverlayInv, SystemInv, SeedInv, BindInv, PivotInv, DeathsigInv
    DEF Prepare
  <2>4. CASE Secure(c)
    BY <2>4, NoNewPrivsInv, SeccompInv, RestrictInv, PrivilegesInv DEF Secure
  <2>5. CASE Exec(c) \/ StepFails(c) \/ Dies(c) \/ Reaped(c)
    BY <2>5, ExecInv, StepFailsInv, DiesInv, ReapedInv
  <2> QED
    BY <2>1, <2>2, <2>3, <2>4, <2>5
<1> QED
  BY <1>1, <1>2

\* The invariant holds of every behaviour.
THEOREM ConfinementInvariant == ConfinementSpec => []ConfinementInv
<1> QED
  BY ConfinementInitInv, ConfinementStepInv, PTL DEF ConfinementSpec

\* An engine that runs is fully confined, whatever the kernel and the directories
\* (the order of apply_security and prepare_container_root).
THEOREM EnginesAreConfined == ConfinementSpec => []ConfinedWhenRunning
<1>1. ConfinementInv => ConfinedWhenRunning
  BY ConfinementAssumption
  DEF ConfinementInv, ConfinedWhenRunning, At, Good, Whole, Unfiltered, Chowned, Apart, Private, Overlaid, Bound, Pivoted, Stuck, Filtered, Users, Programs
<1> QED
  BY <1>1, ConfinementInvariant, PTL

\* No call of the child is refused for a right it has given up before.
THEOREM NothingIsRefused == ConfinementSpec => []NeverRefused
<1>1. ConfinementInv => NeverRefused
  BY DEF ConfinementInv, NeverRefused, At, Good
<1> QED
  BY <1>1, ConfinementInvariant, PTL

\* No mount of a child shows on the host.
THEOREM HostIsUntouched == ConfinementSpec => []HostUntouched
<1>1. ConfinementInv => HostUntouched
  BY DEF ConfinementInv, HostUntouched
<1> QED
  BY <1>1, ConfinementInvariant, PTL

-----------------------------------------------------------------------------
(***************************************************************************)
(* SpawnHelper.  The threads, the helpers and the faults drive the         *)
(* children, and never make one do what Confinement does not allow, so     *)
(* what is proved above holds of them.                                     *)
(***************************************************************************)
\* Wherever a child or the mounts change, a child has made a step of Confinement.
LEMMA StepConfined == [Next]_vars => [ConfinementNext]_confinement
<1> SUFFICES ASSUME [Next]_vars PROVE [ConfinementNext]_confinement
  OBVIOUS
<1> USE DEF Threads, confinement, pipes
<1>1. ASSUME NEW t \in Threads, Spawn(t) PROVE [ConfinementNext]_confinement
  BY <1>1 DEF Spawn, PrepareRootfs, OpenLogPipes, OpenStatusPipe, ForkHelper, CloseStatusPipe, ReadPid,
              NoPid, ReapAnyHelper, ConfinementNext
<1>2. ASSUME NEW t \in Threads, HelperMain(t) PROVE [ConfinementNext]_confinement
  BY <1>2 DEF HelperMain, HelperUnshares, UnshareFails, ChildSteps, Spawned, SpawnFails, WritePid,
              ForwardStatus, ConfinementNext
<1>3. ASSUME NEW t \in Threads, Kill(t) PROVE [ConfinementNext]_confinement
  BY <1>3 DEF Kill, ConfinementNext
<1>4. ASSUME NEW t \in Threads, Finish(t) PROVE [ConfinementNext]_confinement
  BY <1>3, <1>4 DEF Finish, BeginWait, KillAndWait, Drop
<1>5. ASSUME NEW t \in Threads, Wait(t) PROVE [ConfinementNext]_confinement
  BY <1>3, <1>5 DEF Wait, WaitHelper, HelperGone, ReadStatus, NoStatus
<1>6. ASSUME NEW t \in Threads, EngineEnds(t) PROVE [ConfinementNext]_confinement
  BY <1>6 DEF EngineEnds, ConfinementNext
<1>7. ASSUME NEW t \in Threads, HelperKilled(t) PROVE [ConfinementNext]_confinement
  BY <1>7 DEF HelperKilled, DeathSignal, ConfinementNext
<1>8. ASSUME ProcessDies PROVE [ConfinementNext]_confinement
  BY <1>8 DEF ProcessDies
<1>9. ASSUME UNCHANGED vars PROVE [ConfinementNext]_confinement
  BY <1>9 DEF vars
<1> QED
  BY <1>1, <1>2, <1>4, <1>5, <1>6, <1>7, <1>8, <1>9 DEF Next

\* spawn_isolated_impl implements the confinement of its children.
THEOREM SpawningConfines == Spec => ConfinementSpec
<1>1. Init => ConfinementInit
  BY DEF Init
<1> QED
  BY <1>1, StepConfined, PTL DEF Spec, ConfinementSpec

\* An engine that runs is confined, whatever threads, helpers and faults do.
THEOREM SpawnedAreConfined == Spec => []ConfinedWhenRunning
BY SpawningConfines, EnginesAreConfined, PTL

\* No child is refused a call for a right it has given up.
THEOREM SpawnedAreNotRefused == Spec => []NeverRefused
BY SpawningConfines, NothingIsRefused, PTL

-----------------------------------------------------------------------------
(***************************************************************************)
(* No orphans: a start that is over has seen its helper end, and a helper  *)
(* that is not killed ends after its container.                            *)
(***************************************************************************)
Started == {"forked", "read_pid", "early", "spawned", "wait", "read_status", "done"}
SeenTheEnd == {"early", "read_status", "done"}

\* What a start, its helper and its container have to do with each other.
Attended(t) ==
  /\ pc[t] \notin Started => helper[t] = "none"
  /\ pc[t] \in Started => helper[t] # "none"
  /\ up /\ pc[t] = "open" => Main \in writers[t]
  /\ Alive(t) => Helper(t) \in writers[t]
  /\ pc[t] \in SeenTheEnd => ~Alive(t)
  /\ faults = 0 /\ EngineUp(t) => helper[t] \in {"spawned", "waiting"}

\* The inductive invariant.
OrphanInv ==
  /\ ConfinementInv
  /\ pc \in [Threads -> PCs]
  /\ helper \in [Threads -> Helpers]
  /\ writers \in [Threads -> SUBSET Processes]
  /\ faults \in Nat
  /\ \A t \in Threads : Attended(t)

\* Processes are told apart.
LEMMA Distinct ==
  ASSUME NEW t, NEW u
  PROVE  /\ Main # Helper(t) /\ Main # Engine(t) /\ Helper(t) # Engine(u)
         /\ t # u => Helper(t) # Helper(u) /\ Engine(t) # Engine(u)
BY DEF Main, Helper, Engine

\* A step other than exec leaves a child that is not an engine.
LEMMA OnlyExecStarts ==
  ASSUME ConfinementInv, NEW c \in Children,
         \/ build_rootfs(c) \/ chown_tree(c) \/ Fork(c) \/ Prepare(c) \/ Secure(c) \/ StepFails(c)
         \/ Dies(c) \/ Reaped(c)
  PROVE  child'[c].at # "running" /\ \A d \in Children \ {c} : child'[d] = child[d]
<1>1. child \in [Children -> Child]
  BY DEF ConfinementInv, ConfinementTypeOK
<1>2. child[c] \in Child
  BY <1>1
<1>3. ASSUME NEW r, Becomes(c, r), r.at # "running"
      PROVE  child'[c].at # "running" /\ \A d \in Children \ {c} : child'[d] = child[d]
  BY <1>1, <1>3 DEF Becomes
<1>4. CASE build_rootfs(c) \/ chown_tree(c) \/ Fork(c) \/ StepFails(c) \/ Dies(c) \/ Reaped(c)
  BY <1>2, <1>3, <1>4 DEF build_rootfs, chown_tree, Fork, StepFails, Dies, Reaped, Unborn, Child
<1>5. CASE Unshare(c) \/ MakePrivate(c) \/ mount_overlay(c) \/ mount_system(c)
  BY <1>2, <1>3, <1>5 DEF Unshare, MakePrivate, mount_overlay, mount_system, Refuse, Child
<1>6. CASE seed_root(c) \/ bind_mount(c) \/ pivot_root(c) \/ set_pdeathsig(c)
  BY <1>2, <1>3, <1>6 DEF seed_root, bind_mount, pivot_root, set_pdeathsig, Refuse, Child
<1>7. CASE set_no_new_privs(c) \/ apply_seccomp(c) \/ drop_privileges(c)
  BY <1>2, <1>3, <1>7 DEF set_no_new_privs, apply_seccomp, drop_privileges, Refuse, Child
<1>8. CASE restrict_caps(c)
  BY <1>2, <1>3, <1>8 DEF restrict_caps, Refuse, Child
<1> QED
  BY <1>4, <1>5, <1>6, <1>7, <1>8 DEF Prepare, Secure

\* exec makes one engine.
LEMMA ExecStartsOne ==
  ASSUME ConfinementInv, NEW c \in Children, Exec(c)
  PROVE  \A d \in Children \ {c} : child'[d] = child[d]
BY DEF Exec, Becomes, ConfinementInv, ConfinementTypeOK

\* spawn_isolated_impl, in the process.
LEMMA SpawnAttends ==
  ASSUME OrphanInv, ConfinementInv', NEW t \in Threads, Spawn(t)
  PROVE  OrphanInv'
<1> USE Distinct DEF OrphanInv, Attended, Started, SeenTheEnd, Alive, EngineUp, PCs, Helpers, Goto, Return, parent, pipes, confinement
<1>1. CASE PrepareRootfs(t)
  <2>1. \A u \in Threads : child'[u].at = "running" => child[u].at = "running"
    BY <1>1, OnlyExecStarts DEF PrepareRootfs, Threads
  <2> QED
    BY <1>1, <2>1 DEF PrepareRootfs
<1>2. CASE OpenLogPipes(t)
  BY <1>2 DEF OpenLogPipes
<1>3. CASE OpenStatusPipe(t)
  BY <1>3 DEF OpenStatusPipe, Processes
<1>4. CASE ForkHelper(t)
  BY <1>4 DEF ForkHelper, Inherit, Processes
<1>5. CASE CloseStatusPipe(t)
  BY <1>5 DEF CloseStatusPipe
<1>6. CASE ReadPid(t)
  BY <1>6 DEF ReadPid
<1>7. CASE NoPid(t)
  BY <1>7 DEF NoPid, AtEnd
<1>8. CASE ReapAnyHelper(t)
  BY <1>8 DEF ReapAnyHelper
<1> QED
  BY <1>1, <1>2, <1>3, <1>4, <1>5, <1>6, <1>7, <1>8 DEF Spawn

\* helper_main: it ends after its container.
LEMMA HelperAttends ==
  ASSUME OrphanInv, ConfinementInv', NEW t \in Threads, HelperMain(t)
  PROVE  OrphanInv'
<1> USE Distinct DEF OrphanInv, Attended, Started, SeenTheEnd, Alive, EngineUp, PCs, Helpers, Goto, Return, parent, pipes, confinement, HelperEnds, Close
<1>1. CASE HelperUnshares(t)
  <2>1. \A u \in Threads : child'[u].at = "running" => child[u].at = "running"
    BY <1>1, OnlyExecStarts DEF HelperUnshares, Threads
  <2> QED
    BY <1>1, <2>1 DEF HelperUnshares
<1>2. CASE UnshareFails(t)
  BY <1>2 DEF UnshareFails
<1>3. CASE ChildSteps(t)
  <2>1. \A u \in Threads : child'[u].at = "running" => child[u].at = "running"
    BY <1>3, OnlyExecStarts DEF ChildSteps, Threads
  <2> QED
    BY <1>3, <2>1 DEF ChildSteps
<1>4. CASE Spawned(t)
  <2>1. \A u \in Threads \ {t} : child'[u].at = "running" => child[u].at = "running"
    BY <1>4, ExecStartsOne DEF Spawned, Threads
  <2> QED
    BY <1>4, <2>1 DEF Spawned
<1>5. CASE SpawnFails(t)
  BY <1>5 DEF SpawnFails
<1>6. CASE WritePid(t)
  BY <1>6 DEF WritePid
<1>7. CASE ForwardStatus(t)
  <2>1. child'[t].at # "running" /\ \A u \in Threads : child'[u].at = "running" => child[u].at = "running"
    BY <1>7, OnlyExecStarts DEF ForwardStatus, Threads
  <2> QED
    BY <1>7, <2>1 DEF ForwardStatus
<1> QED
  BY <1>1, <1>2, <1>3, <1>4, <1>5, <1>6, <1>7 DEF HelperMain

\* wait, kill and drop: they report an end that they have seen.
LEMMA WaitAttends ==
  ASSUME OrphanInv, ConfinementInv', NEW t \in Threads, Finish(t) \/ Wait(t)
  PROVE  OrphanInv'
<1> USE Distinct DEF OrphanInv, Attended, Started, SeenTheEnd, Alive, EngineUp, PCs, Helpers, Goto, Return, parent, pipes, confinement, Close
<1>1. ASSUME Kill(t) 
      PROVE  /\ \A u \in Threads : child'[u].at = "running" => child[u].at = "running"
             /\ writers' \in [Threads -> SUBSET Processes]
             /\ \A u \in Threads : /\ Main \in writers[u] => Main \in writers'[u]
                                   /\ \A v \in Threads : Helper(v) \in writers[u] => Helper(v) \in writers'[u]
  BY <1>1, OnlyExecStarts DEF Kill, Threads
<1>2. CASE BeginWait(t)
  BY <1>2 DEF BeginWait
<1>3. CASE KillAndWait(t)
  BY <1>1, <1>3 DEF KillAndWait
<1>4. CASE Drop(t)
  BY <1>1, <1>4 DEF Drop
<1>5. CASE WaitHelper(t)
  BY <1>5 DEF WaitHelper
<1>6. CASE HelperGone(t)
  BY <1>1, <1>6 DEF HelperGone
<1>7. CASE ReadStatus(t)
  BY <1>7 DEF ReadStatus
<1>8. CASE NoStatus(t)
  BY <1>8 DEF NoStatus
<1> QED
  BY <1>2, <1>3, <1>4, <1>5, <1>6, <1>7, <1>8 DEF Finish, Wait

\* Engines end; faults are counted.
LEMMA EndsAttend ==
  ASSUME OrphanInv, ConfinementInv', NEW t \in Threads, EngineEnds(t) \/ HelperKilled(t)
  PROVE  OrphanInv'
<1> USE Distinct DEF OrphanInv, Attended, Started, SeenTheEnd, Alive, EngineUp, PCs, Helpers, Goto, Return, parent, pipes, confinement, Close
<1>1. CASE EngineEnds(t)
  <2>1. \A u \in Threads : child'[u].at = "running" => child[u].at = "running"
    BY <1>1, OnlyExecStarts DEF EngineEnds, Threads
  <2> QED
    BY <1>1, <2>1 DEF EngineEnds
<1>2. CASE HelperKilled(t)
  <2>1. faults' \in Nat /\ faults' # 0
    BY <1>2 DEF HelperKilled
  <2>2. /\ writers' \in [Threads -> SUBSET Processes]
        /\ \A u \in Threads : Main \in writers[u] => Main \in writers'[u]
        /\ \A u \in Threads \ {t} : Helper(u) \in writers[u] => Helper(u) \in writers'[u]
    BY <1>2 DEF HelperKilled, DeathSignal
  <2> QED
    BY <1>2, <2>1, <2>2 DEF HelperKilled
<1> QED
  BY <1>1, <1>2

\* Every step keeps the invariant.
LEMMA OrphanStep == OrphanInv /\ [Next]_vars => OrphanInv'
<1> SUFFICES ASSUME OrphanInv, [Next]_vars PROVE OrphanInv'
  OBVIOUS
<1>1. ConfinementInv'
  BY StepConfined, ConfinementStepInv DEF OrphanInv
<1>2. CASE UNCHANGED vars
  BY <1>1, <1>2 DEF OrphanInv, Attended, Alive, EngineUp, vars, parent, pipes, confinement
<1>3. ASSUME NEW t \in Threads, Spawn(t) \/ HelperMain(t) \/ EngineEnds(t) \/ Finish(t) \/ Wait(t)
      PROVE  OrphanInv'
  BY <1>1, <1>3, SpawnAttends, HelperAttends, EndsAttend, WaitAttends
<1>4. ASSUME NEW t \in Threads, HelperKilled(t) PROVE OrphanInv'
  BY <1>1, <1>4, EndsAttend
<1>5. CASE ProcessDies
  <2>1. faults' \in Nat /\ faults' # 0
    BY <1>5 DEF ProcessDies, OrphanInv
  <2>2. /\ writers' \in [Threads -> SUBSET Processes]
        /\ \A u \in Threads : Helper(u) \in writers[u] => Helper(u) \in writers'[u]
    BY <1>5, Distinct DEF ProcessDies, Close, OrphanInv
  <2> QED
    BY <1>1, <1>5, <2>1, <2>2 DEF ProcessDies, OrphanInv, Attended, Alive
<1> QED
  BY <1>2, <1>3, <1>4, <1>5 DEF Next

\* The first state, but for the empty string, which only Zenon can read.
LEMMA InitParts ==
  Init => /\ ConfinementInit
          /\ up
          /\ pc = [t \in Threads |-> "idle"]
          /\ got = [t \in Threads |-> <<>>] /\ pipe = [t \in Threads |-> <<>>]
          /\ writers = [t \in Threads |-> {}] /\ loggers = [t \in Threads |-> {}]
          /\ helper = [t \in Threads |-> "none"]
          /\ \A t \in Threads : why[t] \in Ends \ {"status", "failed", "lost"}
          /\ why \in [Threads -> Ends]
          /\ faults = 0
<1>1. Init => why = [t \in Threads |-> ""]
  BY Zenon DEF Init
<1>2. "" \in Ends \ {"status", "failed", "lost"}
  BY Zenon DEF Ends
<1>3. Init => \A t \in Threads : why[t] \in Ends \ {"status", "failed", "lost"}
  BY <1>1, <1>2, Zenon
<1>4. Init => why \in [Threads -> Ends]
  BY <1>1, <1>2, Zenon
<1> QED
  BY <1>3, <1>4, Zenon DEF Init

\* Nobody has started.
LEMMA OrphanInit == Init => OrphanInv
<1> SUFFICES ASSUME Init PROVE OrphanInv
  OBVIOUS
<1>1. ConfinementInv
  BY ConfinementInitInv DEF Init
<1>2. \A t \in Threads : ~EngineUp(t)
  BY InitParts DEF ConfinementInit, Unborn, EngineUp, Threads
<1>3. \A t \in Threads : Attended(t)
  BY <1>2, InitParts DEF Attended, Started, SeenTheEnd, Alive
<1> QED
  BY <1>1, <1>3, InitParts DEF OrphanInv, PCs, Helpers

\* No container outlives the start that made it, however that start ends
\* (SpawnedProcess::wait and drop).
THEOREM NothingIsOrphaned == Spec => []NoOrphans
<1>1. OrphanInv => NoOrphans
  BY DEF OrphanInv, Attended, SeenTheEnd, Alive, NoOrphans
<1> QED
  BY <1>1, OrphanInit, OrphanStep, PTL DEF Spec

-----------------------------------------------------------------------------
(***************************************************************************)
(* The status pipe: a helper writes one text of two words, and a start     *)
(* reads it from the first byte to the last, in whatever pieces.           *)
(***************************************************************************)
Letter(i) == IF i <= Width THEN <<"pid", i>> ELSE <<"status", i - Width>>

\* s is what the text has after its first k bytes.
Part(s, k) ==
  /\ s \in Seq(Bytes)
  /\ \A i \in 1 .. Len(s) : s[i] = Letter(k + i)

\* Bytes that a start has behind it when it begins the word it is reading.
Before(t) == IF pc[t] \in {"wait", "read_status"} THEN Width ELSE 0

\* How much its helper may have written.
Written(t) ==
  IF helper[t] = "waiting" THEN {Width}
  ELSE IF helper[t] \notin {"zombie", "reaped"} THEN {0}
  ELSE IF faults = 0 THEN {0, 2 * Width} ELSE {0, Width, 2 * Width}

\* While it reads, what it has of the word and what is in the pipe follow each other.
Reads(t) ==
  pc[t] # "done" =>
    /\ Part(got[t], Before(t))
    /\ Part(pipe[t], Before(t) + Len(got[t]))
    /\ Before(t) + (Len(got[t]) + Len(pipe[t])) \in Written(t)
    /\ pc[t] = "spawned" => Len(got[t]) = Width
    /\ pc[t] # "spawned" => Len(got[t]) < Width

\* What it reports is what it has come by.
Ended(t) ==
  /\ why[t] \in {"status", "failed", "lost"} => pc[t] = "done"
  /\ why[t] = "status" => got[t] = Word("status")
  /\ helper[t] = "reaped" => \/ pc[t] \in {"read_status", "done"}
                             \/ \E u \in Threads \ {t} : why[u] = "failed"
  /\ faults = 0 /\ why[t] = "lost" => \E u \in Threads \ {t} : why[u] = "failed"

\* The inductive invariant.
ReadsInv ==
  /\ OrphanInv
  /\ got \in [Threads -> Seq(Bytes)]
  /\ pipe \in [Threads -> Seq(Bytes)]
  /\ why \in [Threads -> Ends]
  /\ \A t \in Threads : /\ Len(got[t]) <= Width
                        /\ Len(pipe[t]) <= 2 * Width
                        /\ Reads(t)
                        /\ Ended(t)

\* The two words, and the text they make.
LEMMA Spelling ==
  /\ \A name \in {"pid", "status"} : Word(name) \in Seq(Bytes) /\ Len(Word(name)) = Width
  /\ \A i \in 1 .. Width : Word("pid")[i] = Letter(i) /\ Word("status")[i] = Letter(Width + i)
<1> USE SpawnAssumption
<1>1. \A name \in {"pid", "status"} : Word(name) \in [1 .. Width -> Bytes]
  BY DEF Word, Bytes
<1>2. \A name \in {"pid", "status"} : Word(name) \in Seq(Bytes) /\ Len(Word(name)) = Width
  BY <1>1
<1>3. \A i \in 1 .. Width : Word("pid")[i] = Letter(i)
  BY DEF Word, Letter
<1>4. \A i \in 1 .. Width : Word("status")[i] = Letter(Width + i)
  BY DEF Word, Letter
<1> QED
  BY <1>2, <1>3, <1>4

\* The word after a read of n bytes, and the pipe.
Taken(g, p, n) == g \o SubSeq(p, 1, n)
Rest(p, n) == SubSeq(p, n + 1, Len(p))

\* Bytes go from the pipe to the word.
LEMMA ReadOn ==
  ASSUME NEW k \in Nat, NEW g, NEW p, Part(g, k), Part(p, k + Len(g)), NEW n \in 1 .. Len(p)
  PROVE  /\ Part(Taken(g, p, n), k) /\ Len(Taken(g, p, n)) = Len(g) + n
         /\ Part(Rest(p, n), k + Len(Taken(g, p, n))) /\ Len(Rest(p, n)) = Len(p) - n
<1> DEFINE h == Taken(g, p, n)
           q == Rest(p, n)
<1>1. g \in Seq(Bytes) /\ p \in Seq(Bytes) /\ Len(g) \in Nat /\ Len(p) \in Nat /\ n \in Nat
  BY DEF Part
<1> DEFINE s == SubSeq(p, 1, n)
<1>2. s \in Seq(Bytes) /\ Len(s) = n /\ \A i \in 1 .. n : s[i] = p[i]
  BY <1>1
<1>3. /\ q \in Seq(Bytes) /\ Len(q) = Len(p) - n
      /\ \A i \in 1 .. Len(p) - n : q[i] = p[n + i]
  <2>1. q = SubSeq(p, n + 1, Len(p))
    BY DEF Rest
  <2> HIDE DEF q
  <2> QED
    BY <1>1, <2>1
<1>a. h = g \o s
  BY DEF Taken
<1> HIDE DEF s, h, q
<1>4. h \in Seq(Bytes) /\ Len(h) = Len(g) + n
  BY <1>1, <1>2, <1>a, ConcatProperties
<1>5. \A i \in 1 .. Len(g) + n : h[i] = IF i <= Len(g) THEN g[i] ELSE s[i - Len(g)]
  BY <1>1, <1>2, <1>a, ConcatProperties
<1>6. ASSUME NEW i \in 1 .. Len(h) PROVE h[i] = Letter(k + i)
  <2>1. i \in Nat /\ i \in 1 .. Len(g) + n
    BY <1>1, <1>4
  <2>2. CASE i <= Len(g)
    BY <1>1, <1>5, <2>1, <2>2 DEF Part
  <2>3. CASE i > Len(g)
    <3>1. i - Len(g) \in 1 .. n /\ i - Len(g) \in 1 .. Len(p)
      BY <1>1, <1>4, <2>1, <2>3
    <3>2. h[i] = p[i - Len(g)]
      BY <1>1, <1>2, <1>5, <2>1, <2>3, <3>1
    <3>3. p[i - Len(g)] = Letter(k + Len(g) + (i - Len(g)))
      BY <3>1 DEF Part
    <3>4. k + Len(g) + (i - Len(g)) = k + i
      BY <1>1, <2>1
    <3> QED
      BY <3>2, <3>3, <3>4
  <2>4. i <= Len(g) \/ i > Len(g)
    BY <1>1, <2>1
  <2> QED
    BY <2>2, <2>3, <2>4
<1>7. \A i \in 1 .. Len(q) : q[i] = Letter(k + Len(h) + i)
  <2>1. TAKE i \in 1 .. Len(q)
  <2>2. n + i \in 1 .. Len(p) /\ q[i] = p[n + i]
    BY <1>1, <1>3
  <2>3. p[n + i] = Letter(k + Len(g) + (n + i))
    BY <2>2 DEF Part
  <2>4. k + Len(g) + (n + i) = k + Len(h) + i
    BY <1>1, <1>4
  <2> QED
    BY <2>2, <2>3, <2>4
<1>8. Part(h, k) /\ Part(q, k + Len(h)) /\ Len(q) = Len(p) - n
  BY <1>3, <1>4, <1>6, <1>7 DEF Part
<1> QED
  BY <1>4, <1>8 DEF h, q

\* The helper writes its next word.
LEMMA WriteOn ==
  ASSUME NEW k \in Nat, NEW p, Part(p, k), NEW name \in {"pid", "status"},
         k + Len(p) = IF name = "pid" THEN 0 ELSE Width
  PROVE  Part(p \o Word(name), k) /\ Len(p \o Word(name)) = Len(p) + Width
<1> USE SpawnAssumption
<1> DEFINE w == Word(name)  q == p \o w
<1>1. p \in Seq(Bytes) /\ Len(p) \in Nat /\ w \in Seq(Bytes) /\ Len(w) = Width
  BY Spelling DEF Part
<1>2. \A i \in 1 .. Width : w[i] = Letter(k + Len(p) + i)
  BY Spelling
<1> HIDE DEF w
<1>3. q \in Seq(Bytes) /\ Len(q) = Len(p) + Width
  BY <1>1
<1>4. \A i \in 1 .. Len(q) : q[i] = IF i <= Len(p) THEN p[i] ELSE w[i - Len(p)]
  BY <1>1
<1> HIDE DEF q
<1>5. \A i \in 1 .. Len(q) : q[i] = Letter(k + i)
  <2>1. TAKE i \in 1 .. Len(q)
  <2>2. CASE i <= Len(p)
    BY <1>1, <1>4, <2>2 DEF Part
  <2>3. CASE i > Len(p)
    <3>1. i - Len(p) \in 1 .. Width
      BY <1>1, <1>3, <2>3
    <3>2. q[i] = Letter(k + Len(p) + (i - Len(p)))
      BY <1>1, <1>2, <1>4, <2>3, <3>1
    <3>3. k + Len(p) + (i - Len(p)) = k + i
      BY <1>1
    <3> QED
      BY <3>2, <3>3
  <2> QED
    BY <1>1, <1>3, <2>2, <2>3
<1> QED
  BY <1>3, <1>5 DEF Part, q, w

\* A word of full length is the whole word.
LEMMA WholeWord ==
  ASSUME NEW g, Len(g) = Width
  PROVE  /\ Part(g, 0) => g = Word("pid")
         /\ Part(g, Width) => g = Word("status")
<1> USE SpawnAssumption
<1>1. ASSUME Part(g, 0) PROVE g = Word("pid")
  <2>1. g \in Seq(Bytes) /\ \A i \in 1 .. Width : g[i] = Word("pid")[i]
    BY <1>1, Spelling DEF Part
  <2> QED
    BY <2>1, Spelling, SeqEqual
<1>2. ASSUME Part(g, Width) PROVE g = Word("status")
  <2>1. g \in Seq(Bytes) /\ \A i \in 1 .. Width : g[i] = Word("status")[i]
    BY <1>2, Spelling DEF Part
  <2> QED
    BY <2>1, Spelling, SeqEqual
<1> QED
  BY <1>1, <1>2

\* The empty text, and the empty word.
LEMMA EmptyPart == \A k \in Nat : Part(<<>>, k) /\ Len(<<>>) = 0
BY DEF Part

\* A step of one thread, its helper or its container, that may reap another helper if it
\* fails.
LEMMA ReadsStep ==
  ASSUME ReadsInv, OrphanInv', faults' \in {faults, faults + 1}, NEW t \in Threads,
         got' \in [Threads -> Seq(Bytes)], pipe' \in [Threads -> Seq(Bytes)], why' \in [Threads -> Ends],
         \A u \in Threads \ {t} : /\ pc'[u] = pc[u] /\ got'[u] = got[u]
                                  /\ pipe'[u] = pipe[u] /\ why'[u] = why[u],
         \A u \in Threads \ {t} : \/ helper'[u] = helper[u]
                                  \/ helper[u] = "zombie" /\ helper'[u] = "reaped" /\ why'[t] = "failed",
         why[t] = "failed" => why'[t] = "failed",
         Len(got'[t]) <= Width, Len(pipe'[t]) <= 2 * Width, Reads(t)', Ended(t)'
  PROVE  ReadsInv'
<1>1. faults \in Nat /\ faults' \in Nat /\ (faults' = 0 => faults = 0)
  BY DEF ReadsInv, OrphanInv
<1>2. \A u \in Threads : why[u] = "failed" => why'[u] = "failed"
  OBVIOUS
<1>3. ASSUME NEW u \in Threads \ {t}
      PROVE  Len(got'[u]) <= Width /\ Len(pipe'[u]) <= 2 * Width /\ Reads(u)' /\ Ended(u)'
  <2>1. /\ pc'[u] = pc[u] /\ got'[u] = got[u] /\ pipe'[u] = pipe[u] /\ why'[u] = why[u]
        /\ helper'[u] = helper[u] \/ (helper[u] = "zombie" /\ helper'[u] = "reaped" /\ why'[t] = "failed")
        /\ Reads(u) /\ Ended(u)
    BY DEF ReadsInv
  <2>2. Before(u)' = Before(u) /\ Written(u) \subseteq Written(u)'
    BY <1>1, <2>1 DEF Before, Written
  <2>3. Reads(u)'
    BY <2>1, <2>2 DEF Reads, Part
  <2>4. (\E v \in Threads \ {u} : why[v] = "failed") => \E v \in Threads \ {u} : why'[v] = "failed"
    BY <1>2
  <2>5. why'[t] = "failed" => \E v \in Threads \ {u} : why'[v] = "failed"
    OBVIOUS
  <2>6. Ended(u)'
    BY <1>1, <2>1, <2>4, <2>5 DEF Ended
  <2> QED
    BY <2>1, <2>3, <2>6 DEF ReadsInv
<1> QED
  BY <1>3 DEF ReadsInv

\* A start that has no pid.
Early == {"idle", "logs_open", "open", "forked", "read_pid", "early"}

LEMMA QuietReads ==
  ASSUME ReadsInv, OrphanInv', faults' \in {faults, faults + 1}, UNCHANGED <<got, pipe, why>>,
         \A u \in Threads : pc'[u] = pc[u] \/ (pc[u] \in Early /\ pc'[u] \in Early),
         \A u \in Threads :
           \/ helper'[u] = helper[u]
           \/ helper[u] \notin {"waiting", "zombie", "reaped"} /\ helper'[u] \notin {"waiting", "reaped"}
           \/ helper[u] = "waiting" /\ helper'[u] = "zombie" /\ faults' # 0
  PROVE  ReadsInv'
<1>1. faults \in Nat /\ faults' \in Nat /\ (faults' = 0 => faults = 0)
  BY DEF ReadsInv, OrphanInv
<1>2. ASSUME NEW u \in Threads
      PROVE  Reads(u)' /\ Ended(u)'
  <2>1. Before(u)' = Before(u)
    BY DEF Before, Early
  <2>2. Written(u) \subseteq Written(u)'
    BY <1>1 DEF Written
  <2>3. Reads(u)'
    BY <2>1, <2>2 DEF ReadsInv, Reads, Part, Early
  <2>4. Ended(u)'
    BY <1>1 DEF ReadsInv, Ended, Early
  <2> QED
    BY <2>3, <2>4
<1> QED
  BY <1>2 DEF ReadsInv

\* The steps that leave the pipe alone.
LEMMA QuietSteps ==
  ASSUME ReadsInv, OrphanInv', NEW t \in Threads,
         \/ PrepareRootfs(t) \/ OpenLogPipes(t) \/ OpenStatusPipe(t) \/ ForkHelper(t)
         \/ CloseStatusPipe(t) \/ NoPid(t) \/ HelperUnshares(t) \/ UnshareFails(t)
         \/ ChildSteps(t) \/ Spawned(t) \/ SpawnFails(t) \/ EngineEnds(t) \/ HelperKilled(t)
  PROVE  ReadsInv'
<1>1. /\ pc \in [Threads -> PCs] /\ helper \in [Threads -> Helpers] /\ faults \in Nat
      /\ pc[t] \notin Started => helper[t] = "none"
  BY DEF ReadsInv, OrphanInv, Attended
<1>2. faults' \in {faults, faults + 1} /\ UNCHANGED <<got, pipe, why>>
  BY DEF PrepareRootfs, OpenLogPipes, OpenStatusPipe, ForkHelper, CloseStatusPipe, NoPid, HelperUnshares,
         UnshareFails, ChildSteps, Spawned, SpawnFails, EngineEnds, HelperKilled, parent, pipes
<1>3. \A u \in Threads : pc'[u] = pc[u] \/ (pc[u] \in Early /\ pc'[u] \in Early)
  BY <1>1 DEF PrepareRootfs, OpenLogPipes, OpenStatusPipe, ForkHelper, CloseStatusPipe, NoPid, HelperUnshares,
         UnshareFails, ChildSteps, Spawned, SpawnFails, EngineEnds, HelperKilled, parent, pipes, Goto, Early
<1>4. \A u \in Threads :
           \/ helper'[u] = helper[u]
           \/ helper[u] \notin {"waiting", "zombie", "reaped"} /\ helper'[u] \notin {"waiting", "reaped"}
           \/ helper[u] = "waiting" /\ helper'[u] = "zombie" /\ faults' # 0
  BY <1>1 DEF PrepareRootfs, OpenLogPipes, OpenStatusPipe, ForkHelper, CloseStatusPipe, NoPid, HelperUnshares,
         UnshareFails, ChildSteps, Spawned, SpawnFails, EngineEnds, HelperKilled, HelperEnds, Started
<1> QED
  BY <1>2, <1>3, <1>4, QuietReads

\* What a read takes from the pipe, the word has more.
LEMMA ReadKeeps ==
  ASSUME ReadsInv, NEW t \in Threads, pc[t] \in {"read_pid", "read_status"}, NEW n \in 1 .. Width, Read(t, n)
  PROVE  /\ got' \in [Threads -> Seq(Bytes)] /\ pipe' \in [Threads -> Seq(Bytes)]
         /\ Part(got'[t], Before(t)) /\ Part(pipe'[t], Before(t) + Len(got'[t]))
         /\ Len(got'[t]) + Len(pipe'[t]) = Len(got[t]) + Len(pipe[t])
         /\ Len(got'[t]) <= Width /\ Len(pipe'[t]) <= 2 * Width
         /\ \A u \in Threads \ {t} : got'[u] = got[u] /\ pipe'[u] = pipe[u]
<1> USE SpawnAssumption
<1> DEFINE k == Before(t)  g == got[t]  p == pipe[t]  h == Taken(g, p, n)  q == Rest(p, n)
<1>1. k \in Nat /\ Part(g, k) /\ Part(p, k + Len(g)) /\ Len(p) <= 2 * Width
  BY DEF ReadsInv, Reads, Before
<1>2. /\ got \in [Threads -> Seq(Bytes)] /\ pipe \in [Threads -> Seq(Bytes)]
      /\ n \in 1 .. Len(p) /\ Len(g) + n <= Width
      /\ got' = [got EXCEPT ![t] = h] /\ pipe' = [pipe EXCEPT ![t] = q]
  BY DEF ReadsInv, Read, Taken, Rest
<1> HIDE DEF k, g, p
<1>3. Part(h, k) /\ Len(h) = Len(g) + n /\ Part(q, k + Len(h)) /\ Len(q) = Len(p) - n
  <2>1. n \in 1 .. Len(p)
    BY <1>2
  <2> QED
    BY <1>1, <2>1, ReadOn
<1> HIDE DEF h, q
<1>4. h \in Seq(Bytes) /\ q \in Seq(Bytes) /\ got'[t] = h /\ pipe'[t] = q
  BY <1>2, <1>3 DEF Part
<1>5. Len(g) \in Nat /\ Len(p) \in Nat
  BY <1>1 DEF Part
<1>6. /\ Len(h) + Len(q) = Len(g) + Len(p) /\ Len(h) <= Width /\ Len(q) <= 2 * Width
      /\ got' \in [Threads -> Seq(Bytes)] /\ pipe' \in [Threads -> Seq(Bytes)]
      /\ \A u \in Threads \ {t} : got'[u] = got[u] /\ pipe'[u] = pipe[u]
  BY <1>1, <1>2, <1>3, <1>4, <1>5
<1> QED
  BY <1>3, <1>4, <1>6 DEF k, g, p

\* The pid is read, and the status (spawn_isolated_impl, read_status_pipe).
LEMMA ReadReads ==
  ASSUME ReadsInv, OrphanInv', NEW t \in Threads, ReadPid(t) \/ ReadStatus(t)
  PROVE  ReadsInv'
<1> USE SpawnAssumption
<1>0. /\ pc \in [Threads -> PCs] /\ why \in [Threads -> Ends] /\ helper' = helper /\ faults' = faults
      /\ Reads(t) /\ Ended(t) /\ Written(t)' = Written(t)
  BY DEF ReadsInv, OrphanInv, ReadPid, ReadStatus, Written
<1>1. PICK n \in 1 .. Width : Read(t, n)
  BY DEF ReadPid, ReadStatus
<1>2. /\ got' \in [Threads -> Seq(Bytes)] /\ pipe' \in [Threads -> Seq(Bytes)]
      /\ Part(got'[t], Before(t)) /\ Part(pipe'[t], Before(t) + Len(got'[t]))
      /\ Len(got'[t]) + Len(pipe'[t]) = Len(got[t]) + Len(pipe[t])
      /\ Len(got'[t]) <= Width /\ Len(pipe'[t]) <= 2 * Width
      /\ \A u \in Threads \ {t} : got'[u] = got[u] /\ pipe'[u] = pipe[u]
  BY <1>1, ReadKeeps DEF ReadPid, ReadStatus
<1>3. Len(got[t]) \in Nat /\ Len(pipe[t]) \in Nat /\ Len(got'[t]) \in Nat /\ Len(pipe'[t]) \in Nat
  BY <1>2 DEF ReadsInv
<1>s. Len(got'[t]) + Len(pipe'[t]) = Len(got[t]) + Len(pipe[t])
  BY <1>2
<1>4. CASE ReadPid(t)
  <2>1. /\ pc[t] = "read_pid" /\ pc'[t] = IF Len(got'[t]) = Width THEN "spawned" ELSE "read_pid"
        /\ why' = why /\ \A u \in Threads \ {t} : pc'[u] = pc[u]
    BY <1>0, <1>4 DEF ReadPid, Goto
  <2>2. Before(t) = 0 /\ Before(t)' = 0
    BY <2>1 DEF Before
  <2>3. Reads(t)'
    <3>1. Part(got'[t], Before(t)') /\ Part(pipe'[t], Before(t)' + Len(got'[t]))
      BY <1>2, <2>2
    <3>2. Before(t)' + (Len(got'[t]) + Len(pipe'[t])) \in Written(t)'
      <4>1. Before(t) + (Len(got[t]) + Len(pipe[t])) \in Written(t)
        BY <1>0, <2>1 DEF Reads
      <4> QED
        BY <1>0, <1>s, <2>2, <4>1
    <3>3. (pc'[t] = "spawned" => Len(got'[t]) = Width) /\ (pc'[t] # "spawned" => Len(got'[t]) < Width)
      BY <1>2, <1>3, <2>1
    <3> QED
      BY <3>1, <3>2, <3>3 DEF Reads, Part
  <2>4. Ended(t)'
    BY <1>0, <2>1 DEF Ended
  <2> QED
    BY <1>0, <1>2, <2>1, <2>3, <2>4, ReadsStep
<1>5. CASE ReadStatus(t)
  <2>1. /\ pc[t] = "read_status" /\ pc'[t] = IF Len(got'[t]) = Width THEN "done" ELSE "read_status"
        /\ why' \in [Threads -> Ends]
        /\ IF Len(got'[t]) = Width THEN why'[t] \in {"status", "aborted"} ELSE why' = why
        /\ \A u \in Threads \ {t} : pc'[u] = pc[u] /\ why'[u] = why[u]
    <3>1. CASE Len(got'[t]) = Width
      <4>1. PICK e \in {"status", "aborted"} :
              pc' = [pc EXCEPT ![t] = "done"] /\ why' = [why EXCEPT ![t] = e]
        BY <1>5, <3>1 DEF ReadStatus, Return, Goto
      <4>2. {"status", "aborted"} \subseteq Ends
        BY DEF Ends
      <4>3. pc[t] = "read_status"
        BY <1>5 DEF ReadStatus
      <4> QED
        BY <1>0, <3>1, <4>1, <4>2, <4>3
    <3>2. CASE Len(got'[t]) # Width
      BY <1>0, <1>5, <3>2 DEF ReadStatus
    <3> QED
      BY <3>1, <3>2
  <2>2. Before(t) = Width
    BY <2>1 DEF Before
  <2>3. Reads(t)'
    <3>1. CASE Len(got'[t]) = Width
      BY <2>1, <3>1 DEF Reads
    <3>2. CASE Len(got'[t]) # Width
      <4>1. pc'[t] = "read_status" /\ Before(t)' = Width
        BY <2>1, <3>2 DEF Before
      <4>2. Part(got'[t], Before(t)') /\ Part(pipe'[t], Before(t)' + Len(got'[t]))
        BY <1>2, <2>2, <4>1
      <4>3. Before(t)' + (Len(got'[t]) + Len(pipe'[t])) \in Written(t)'
        <5>1. Before(t) + (Len(got[t]) + Len(pipe[t])) \in Written(t)
          BY <1>0, <2>1 DEF Reads
        <5> QED
          BY <1>0, <1>s, <2>2, <4>1, <5>1
      <4>4. Len(got'[t]) < Width
        BY <1>2, <1>3, <3>2
      <4> QED
        BY <4>1, <4>2, <4>3, <4>4 DEF Reads, Part
    <3> QED
      BY <3>1, <3>2
  <2>4. why'[t] = "status" => got'[t] = Word("status")
    BY <1>0, <1>2, <2>1, <2>2, WholeWord DEF Ended
  <2>5. Ended(t)'
    <3>1. why[t] # "failed" /\ why[t] # "lost"
      BY <1>0, <2>1 DEF Ended
    <3> QED
      BY <1>0, <2>1, <2>4, <3>1 DEF Ended
  <2>6. why[t] # "failed"
    BY <1>0, <2>1 DEF Ended
  <2> QED
    BY <1>0, <1>2, <2>1, <2>3, <2>5, <2>6, ReadsStep
<1> QED
  BY <1>4, <1>5

\* The helper's two writes.
LEMMA WriteReads ==
  ASSUME ReadsInv, OrphanInv', NEW t \in Threads, WritePid(t) \/ ForwardStatus(t)
  PROVE  ReadsInv'
<1> USE SpawnAssumption
<1> DEFINE name == IF helper[t] = "spawned" THEN "pid" ELSE "status"
           k == Before(t) + Len(got[t])
<1>0. /\ pc \in [Threads -> PCs] /\ helper \in [Threads -> Helpers] /\ pc' = pc /\ got' = got /\ why' = why
      /\ faults' = faults /\ faults \in Nat /\ helper[t] \in {"spawned", "waiting"}
      /\ helper' = [helper EXCEPT ![t] = IF helper[t] = "spawned" THEN "waiting" ELSE "zombie"]
      /\ pipe' = [pipe EXCEPT ![t] = @ \o Word(name)]
      /\ Reads(t) /\ Ended(t) /\ Attended(t)
      /\ got \in [Threads -> Seq(Bytes)] /\ pipe \in [Threads -> Seq(Bytes)]
      /\ why \in [Threads -> Ends] /\ Len(got[t]) <= Width
  BY DEF ReadsInv, OrphanInv, WritePid, ForwardStatus, HelperEnds, parent
<1>1. pc[t] # "done"
  BY <1>0 DEF Attended, SeenTheEnd, Alive
<1>2. Before(t) \in {0, Width} /\ Before(t)' = Before(t)
  BY <1>0 DEF Before
<1>3. Len(got[t]) \in Nat /\ Len(pipe[t]) \in Nat /\ k \in Nat
  BY <1>0, <1>2
<1>4. /\ k + Len(pipe[t]) = IF name = "pid" THEN 0 ELSE Width
      /\ Part(pipe[t], k) /\ name \in {"pid", "status"}
  BY <1>0, <1>1, <1>2, <1>3 DEF Reads, Written
<1>a. k + Len(pipe[t]) = IF helper[t] = "spawned" THEN 0 ELSE Width
  BY <1>4
<1>5. Part(pipe'[t], k) /\ Len(pipe'[t]) = Len(pipe[t]) + Width /\ pipe' \in [Threads -> Seq(Bytes)]
  <2> HIDE DEF k, name
  <2>1. Part(pipe[t] \o Word(name), k) /\ Len(pipe[t] \o Word(name)) = Len(pipe[t]) + Width
    BY <1>3, <1>4, WriteOn
  <2>2. pipe[t] \o Word(name) \in Seq(Bytes)
    BY <2>1 DEF Part
  <2> QED
    BY <1>0, <2>1, <2>2
<1>6. k + Len(pipe'[t]) \in Written(t)'
  <2>1. helper'[t] = IF helper[t] = "spawned" THEN "waiting" ELSE "zombie"
    BY <1>0
  <2>2. k + Len(pipe'[t]) = IF helper[t] = "spawned" THEN Width ELSE 2 * Width
    <3>1. Len(pipe'[t]) = Len(pipe[t]) + Width
      BY <1>5
    <3> HIDE DEF k
    <3> QED
      BY <1>3, <1>a, <3>1
  <2> QED
    BY <1>0, <2>1, <2>2 DEF Written
<1>7. Reads(t)'
  <2>1. Part(got'[t], Before(t)') /\ Part(pipe'[t], Before(t)' + Len(got'[t]))
    BY <1>0, <1>1, <1>2, <1>5 DEF Reads
  <2>2. (pc'[t] = "spawned" => Len(got'[t]) = Width) /\ (pc'[t] # "spawned" => Len(got'[t]) < Width)
    BY <1>0, <1>1 DEF Reads
  <2>3. Before(t)' + (Len(got'[t]) + Len(pipe'[t])) \in Written(t)'
    BY <1>0, <1>2, <1>6
  <2> QED
    BY <2>1, <2>2, <2>3 DEF Reads, Part
<1>8. Ended(t)'
  BY <1>0 DEF Ended
<1>9. Len(pipe'[t]) <= 2 * Width
  BY <1>3, <1>4, <1>5
<1>10. \A u \in Threads \ {t} : pipe'[u] = pipe[u] /\ helper'[u] = helper[u]
  BY <1>0
<1> HIDE DEF k, name
<1> QED
  BY <1>0, <1>5, <1>7, <1>8, <1>9, <1>10, ReadsStep

\* A start that has the pid goes on to wait for the status.
LEMMA FinishReads ==
  ASSUME ReadsInv, OrphanInv', NEW t \in Threads, Finish(t)
  PROVE  ReadsInv'
<1> USE SpawnAssumption
<1>0. /\ pc \in [Threads -> PCs] /\ Reads(t) /\ Ended(t) /\ faults' = faults /\ helper' = helper /\ pipe' = pipe
      /\ got \in [Threads -> Seq(Bytes)] /\ pipe \in [Threads -> Seq(Bytes)] /\ why \in [Threads -> Ends]
      /\ Len(pipe[t]) <= 2 * Width
  BY DEF ReadsInv, OrphanInv, Finish, BeginWait, KillAndWait, Drop, pipes
<1>1. /\ pc[t] = "spawned" /\ pc' = [pc EXCEPT ![t] = "wait"] /\ got' = [got EXCEPT ![t] = <<>>]
      /\ why' \in [Threads -> Ends] /\ why'[t] \in {why[t], "aborted"}
      /\ \A u \in Threads \ {t} : why'[u] = why[u]
  <2>1. CASE BeginWait(t)
    BY <1>0, <2>1 DEF BeginWait, Goto
  <2>2. CASE KillAndWait(t) \/ Drop(t)
    <3>1. /\ pc[t] = "spawned" /\ pc' = [pc EXCEPT ![t] = "wait"] /\ got' = [got EXCEPT ![t] = <<>>]
          /\ why' = [why EXCEPT ![t] = "aborted"]
      BY <2>2 DEF KillAndWait, Drop, Goto
    <3>2. "aborted" \in Ends
      BY DEF Ends
    <3> QED
      BY <1>0, <3>1, <3>2
  <2> QED
    BY <2>1, <2>2 DEF Finish
<1>2. got' \in [Threads -> Seq(Bytes)] /\ got'[t] = <<>> /\ \A u \in Threads \ {t} : got'[u] = got[u]
  BY <1>0, <1>1
<1>3. pc'[t] = "wait" /\ \A u \in Threads \ {t} : pc'[u] = pc[u]
  BY <1>0, <1>1
<1>4. Before(t) = 0 /\ Before(t)' = Width /\ Len(got[t]) = Width /\ Len(pipe[t]) \in Nat /\ Written(t)' = Written(t)
  BY <1>0, <1>1, <1>3 DEF Before, Reads, Written
<1>5. why[t] \notin {"status", "failed", "lost"}
  BY <1>0, <1>1 DEF Ended
<1>6. Reads(t)'
  <2>1. Part(pipe[t], Width) /\ Width + Len(pipe[t]) \in Written(t)
    BY <1>0, <1>1, <1>4 DEF Reads
  <2>2. Part(got'[t], Before(t)') /\ Len(got'[t]) = 0
    BY <1>2, <1>4, EmptyPart
  <2>3. Part(pipe'[t], Before(t)' + Len(got'[t])) /\ Before(t)' + (Len(got'[t]) + Len(pipe'[t])) \in Written(t)'
    BY <1>0, <1>4, <2>1, <2>2
  <2> QED
    BY <1>3, <2>2, <2>3 DEF Reads, Part
<1>7. Ended(t)'
  BY <1>0, <1>1, <1>3, <1>5 DEF Ended
<1>8. Len(got'[t]) <= Width
  BY <1>2
<1> QED
  BY <1>0, <1>1, <1>2, <1>3, <1>5, <1>6, <1>7, <1>8, ReadsStep

\* A start that waits sees its helper dead, or reaped by another, and one that fails early
\* reaps whatever helper is dead.
LEMMA WaitReads ==
  ASSUME ReadsInv, OrphanInv', NEW t \in Threads,
         WaitHelper(t) \/ HelperGone(t) \/ NoStatus(t) \/ ReapAnyHelper(t)
  PROVE  ReadsInv'
<1> USE SpawnAssumption
<1>0. /\ pc \in [Threads -> PCs] /\ helper \in [Threads -> Helpers] /\ Reads(t) /\ Ended(t) /\ Attended(t)
      /\ faults' = faults /\ faults \in Nat /\ pipe' = pipe /\ got' = got
      /\ got \in [Threads -> Seq(Bytes)] /\ pipe \in [Threads -> Seq(Bytes)] /\ why \in [Threads -> Ends]
      /\ Len(got[t]) <= Width /\ Len(pipe[t]) <= 2 * Width
  BY DEF ReadsInv, OrphanInv, WaitHelper, HelperGone, NoStatus, ReapAnyHelper, pipes
<1>1. /\ why' \in [Threads -> Ends] /\ pc[t] # "done"
      /\ \A u \in Threads \ {t} : pc'[u] = pc[u] /\ why'[u] = why[u]
  <2>1. CASE WaitHelper(t)
    BY <1>0, <2>1 DEF WaitHelper, Goto
  <2>2. CASE HelperGone(t) \/ NoStatus(t) \/ ReapAnyHelper(t)
    <3>1. pc[t] \in {"wait", "read_status", "early"}
          /\ (Return(t, "failed") \/ Return(t, "aborted") \/ Return(t, "lost"))
      BY <2>2 DEF HelperGone, NoStatus, ReapAnyHelper
    <3>2. {"failed", "aborted", "lost"} \subseteq Ends
      BY DEF Ends
    <3> QED
      BY <1>0, <3>1, <3>2 DEF Return, Goto
  <2> QED
    BY <2>1, <2>2
<1>2. why[t] \notin {"status", "failed", "lost"}
  BY <1>0, <1>1 DEF Ended
<1>3. CASE WaitHelper(t)
  <2>1. /\ pc[t] = "wait" /\ pc'[t] = "read_status" /\ why' = why /\ helper[t] = "zombie" /\ helper'[t] = "reaped"
        /\ \A u \in Threads \ {t} : helper'[u] = helper[u]
    BY <1>0, <1>3 DEF WaitHelper, Goto
  <2>2. Before(t)' = Before(t) /\ Written(t)' = Written(t)
    BY <1>0, <2>1 DEF Before, Written
  <2>3. Reads(t)'
    BY <1>0, <2>1, <2>2 DEF Reads, Part
  <2>4. Ended(t)'
    BY <1>0, <1>2, <2>1 DEF Ended
  <2> QED
    BY <1>0, <1>1, <1>2, <2>1, <2>3, <2>4, ReadsStep
<1>4. CASE HelperGone(t)
  <2>1. /\ pc[t] = "wait" /\ pc'[t] = "done" /\ why'[t] \in {"aborted", "lost"} /\ helper[t] = "reaped" /\ helper' = helper
    BY <1>0, <1>4 DEF HelperGone, Return, Goto
  <2>2. Reads(t)'
    BY <2>1 DEF Reads
  <2>3. Ended(t)'
    BY <1>0, <1>1, <2>1 DEF Ended
  <2> QED
    BY <1>0, <1>1, <1>2, <2>1, <2>2, <2>3, ReadsStep
<1>5. CASE NoStatus(t)
  <2>1. pc[t] = "read_status" /\ pc'[t] = "done" /\ why'[t] \in {"aborted", "lost"} /\ helper' = helper /\ pipe[t] = <<>>
    BY <1>0, <1>5 DEF NoStatus, AtEnd, Return, Goto, pipes
  <2>2. faults # 0
    <3>1. SUFFICES ASSUME faults = 0 PROVE FALSE
      OBVIOUS
    <3>2. helper[t] \in {"zombie", "reaped"}
      BY <1>0, <2>1 DEF Attended, Started, SeenTheEnd, Alive, Helpers
    <3>3. Width + Len(got[t]) \in {0, 2 * Width} /\ Len(got[t]) < Width /\ Len(got[t]) \in Nat
      BY <1>0, <2>1, <3>1, <3>2 DEF Reads, Before, Written
    <3> QED
      BY <3>3
  <2>3. Reads(t)'
    BY <2>1 DEF Reads
  <2>4. Ended(t)'
    BY <1>0, <2>1, <2>2 DEF Ended
  <2> QED
    BY <1>0, <1>1, <1>2, <2>1, <2>3, <2>4, ReadsStep
<1>6. CASE ReapAnyHelper(t)
  <2>1. /\ pc'[t] = "done" /\ why'[t] = "failed"
        /\ \A u \in Threads \ {t} : helper'[u] = helper[u] \/ (helper[u] = "zombie" /\ helper'[u] = "reaped")
    BY <1>0, <1>6 DEF ReapAnyHelper, Return, Goto
  <2>2. Reads(t)'
    BY <2>1 DEF Reads
  <2>3. Ended(t)'
    BY <2>1 DEF Ended
  <2> QED
    BY <1>0, <1>1, <2>1, <2>2, <2>3, ReadsStep
<1> QED
  BY <1>3, <1>4, <1>5, <1>6

\* Every step keeps the invariant.
LEMMA ReadsInvStep == ReadsInv /\ [Next]_vars => ReadsInv'
<1> SUFFICES ASSUME ReadsInv, [Next]_vars PROVE ReadsInv'
  OBVIOUS
<1>1. OrphanInv'
  BY OrphanStep DEF ReadsInv
<1>2. CASE UNCHANGED vars
  BY <1>1, <1>2, QuietReads DEF vars, parent, pipes
<1>3. ASSUME NEW t \in Threads, Spawn(t) \/ HelperMain(t) \/ EngineEnds(t) \/ Finish(t) \/ Wait(t) \/ HelperKilled(t)
      PROVE  ReadsInv'
  BY <1>1, <1>3, QuietSteps, ReadReads, WriteReads, FinishReads, WaitReads DEF Spawn, HelperMain, Wait
<1>4. CASE ProcessDies
  BY <1>1, <1>4, QuietReads DEF ProcessDies
<1> QED
  BY <1>2, <1>3, <1>4 DEF Next

\* Nobody reads.
LEMMA ReadsInit == Init => ReadsInv
<1> SUFFICES ASSUME Init PROVE ReadsInv
  OBVIOUS
<1>1. ASSUME NEW t \in Threads PROVE Reads(t) /\ Ended(t) /\ Len(got[t]) <= Width /\ Len(pipe[t]) <= 2 * Width
  <2>1. /\ pc[t] = "idle" /\ got[t] = <<>> /\ pipe[t] = <<>> /\ helper[t] = "none"
        /\ why[t] \notin {"status", "failed", "lost"} /\ faults = 0
    BY InitParts
  <2>2. Before(t) = 0 /\ Written(t) = {0} /\ Len(got[t]) = 0 /\ Len(pipe[t]) = 0
    BY <2>1 DEF Before, Written
  <2>3. Part(got[t], Before(t)) /\ Part(pipe[t], Before(t) + Len(got[t]))
    BY <2>1, <2>2, EmptyPart
  <2>4. Reads(t)
    BY <2>1, <2>2, <2>3, SpawnAssumption DEF Reads
  <2> QED
    BY <2>1, <2>2, <2>4, SpawnAssumption DEF Ended
<1>2. got \in [Threads -> Seq(Bytes)] /\ pipe \in [Threads -> Seq(Bytes)]
  <2>1. <<>> \in Seq(Bytes)
    BY EmptySeq
  <2> QED
    BY <2>1, InitParts
<1> QED
  BY <1>1, <1>2, OrphanInit, InitParts DEF ReadsInv

\* The one thing that takes a wait status away from a start is another start of the
\* process that failed early (reap_helper_exit_code).
THEOREM StatusesAreLostToFailures == Spec => []LostToAnEarlyFailure
<1>1. ReadsInv => LostToAnEarlyFailure
  BY DEF ReadsInv, Ended, LostToAnEarlyFailure
<1> QED
  BY <1>1, ReadsInit, ReadsInvStep, PTL DEF Spec

-----------------------------------------------------------------------------
(***************************************************************************)
(* The log pipes: a container and its helper let go of them when they end, *)
(* and the process before it is done.                                      *)
(***************************************************************************)
Opened == {"logs_open", "open", "forked", "read_pid", "early"}

\* Who may have a writing end of t's log pipes.
Copies(t) ==
  /\ Main \in loggers[t] => pc[t] \in Opened
  /\ Helper(t) \in loggers[t] => Alive(t)
  /\ Engine(t) \in loggers[t] => EngineUp(t)
  /\ \A u \in Threads \ {t} : Engine(u) \notin loggers[t]

\* The inductive invariant.
LogsInv ==
  /\ OrphanInv
  /\ up \in BOOLEAN
  /\ loggers \in [Threads -> SUBSET Processes]
  /\ \A t \in Threads : Copies(t)

\* An engine makes no step but its last.
LEMMA EnginesOnlyDie ==
  ASSUME NEW c \in Children,
         build_rootfs(c) \/ chown_tree(c) \/ Fork(c) \/ Prepare(c) \/ Secure(c) \/ StepFails(c) \/ Exec(c) \/ Reaped(c)
  PROVE  child[c].at # "running"
BY DEF build_rootfs, chown_tree, Fork, Prepare, Secure, StepFails, Exec, Reaped, Unshare, MakePrivate,
       mount_overlay, mount_system, seed_root, bind_mount, pivot_root, set_pdeathsig, set_no_new_privs,
       apply_seccomp, restrict_caps, drop_privileges, At, Steps

\* A step that opens no log pipe, of one thread, its helper or its container.
LEMMA LogsStep ==
  ASSUME LogsInv, OrphanInv', up' \in BOOLEAN, NEW t \in Threads, loggers' \in [Threads -> SUBSET Processes],
         \A u \in Threads : loggers'[u] \subseteq loggers[u],
         \A u \in Threads \ {t} : /\ pc'[u] = pc[u]
                                  /\ child'[u] = child[u]
                                  /\ helper'[u] = helper[u] \/ helper[u] \notin {"born", "spawning", "spawned", "waiting"},
         Copies(t)'
  PROVE  LogsInv'
<1>1. ASSUME NEW u \in Threads \ {t} PROVE Copies(u)'
  <2>1. Copies(u) /\ (Alive(u) => Alive(u)') /\ (EngineUp(u) => EngineUp(u)')
    BY DEF LogsInv, Alive, EngineUp
  <2> QED
    BY <2>1 DEF Copies
<1> QED
  BY <1>1 DEF LogsInv

\* spawn_isolated_impl, in the process.
LEMMA SpawnLogs ==
  ASSUME LogsInv, OrphanInv', NEW t \in Threads, Spawn(t)
  PROVE  LogsInv'
<1> USE Distinct
<1>0. /\ pc \in [Threads -> PCs] /\ helper \in [Threads -> Helpers] /\ loggers \in [Threads -> SUBSET Processes]
      /\ \A u \in Threads : Copies(u) /\ Attended(u)
      /\ ConfinementInv /\ up \in BOOLEAN /\ Main \in Processes /\ Helper(t) \in Processes
  BY DEF LogsInv, OrphanInv, Processes
<1>1. CASE PrepareRootfs(t)
  <2>1. /\ child[t].at # "running" /\ \A u \in Threads \ {t} : child'[u] = child[u]
        /\ pc' = pc /\ helper' = helper /\ loggers' = loggers /\ up' = up
    BY <1>0, <1>1, OnlyExecStarts, EnginesOnlyDie DEF PrepareRootfs, Threads, parent, pipes
  <2>2. Copies(t)'
    BY <1>0, <2>1 DEF Copies, Alive, EngineUp
  <2> QED
    BY <1>0, <2>1, <2>2, LogsStep
<1>2. CASE OpenLogPipes(t)
  <2>1. /\ pc' = [pc EXCEPT ![t] = "logs_open"] /\ loggers' = [loggers EXCEPT ![t] = {Main}]
        /\ child' = child /\ helper' = helper /\ up' = up
    BY <1>2 DEF OpenLogPipes, Goto, confinement
  <2>2. loggers' \in [Threads -> SUBSET Processes]
    BY <1>0, <2>1
  <2>3. ASSUME NEW u \in Threads PROVE Copies(u)'
    BY <1>0, <2>1 DEF Copies, Alive, EngineUp, Opened
  <2> QED
    BY <1>0, <2>1, <2>2, <2>3 DEF LogsInv
<1>3. CASE ForkHelper(t)
  <2>1. /\ pc' = [pc EXCEPT ![t] = "forked"] /\ pc[t] = "open" /\ loggers' = Inherit(loggers, t)
        /\ child' = child /\ helper' = [helper EXCEPT ![t] = "born"] /\ up' = up
    BY <1>3 DEF ForkHelper, Goto, confinement
  <2>2. loggers' \in [Threads -> SUBSET Processes]
    BY <1>0, <2>1 DEF Inherit
  <2>3. helper[t] = "none"
    BY <1>0, <2>1 DEF Attended, Started
  <2>4. ASSUME NEW u \in Threads PROVE Copies(u)'
    <3>1. loggers'[u] \subseteq loggers[u] \cup {Helper(t)}
      BY <2>1 DEF Inherit
    <3>2. Copies(u) /\ (Main \in loggers'[u] => pc'[u] \in Opened)
      BY <1>0, <2>1, <3>1 DEF Copies, Opened
    <3>3. Helper(u) \in loggers'[u] => Alive(u)'
      BY <1>0, <2>1, <3>1, <3>2 DEF Copies, Alive
    <3>4. (Engine(u) \in loggers'[u] => EngineUp(u)') /\ \A v \in Threads \ {u} : Engine(v) \notin loggers'[u]
      BY <2>1, <3>1, <3>2 DEF Copies, EngineUp
    <3> QED
      BY <3>2, <3>3, <3>4 DEF Copies
  <2> QED
    BY <1>0, <2>1, <2>2, <2>4 DEF LogsInv
<1>4. CASE OpenStatusPipe(t) \/ CloseStatusPipe(t) \/ NoPid(t)
  <2>1. /\ pc[t] \in Opened /\ pc'[t] \in Opened /\ \A u \in Threads \ {t} : pc'[u] = pc[u]
        /\ child' = child /\ helper' = helper /\ loggers' = loggers /\ up' = up
    BY <1>0, <1>4 DEF OpenStatusPipe, CloseStatusPipe, NoPid, Goto, Opened, confinement, pipes
  <2>2. Copies(t)'
    BY <1>0, <2>1 DEF Copies, Alive, EngineUp
  <2> QED
    BY <1>0, <2>1, <2>2, LogsStep
<1>5. CASE ReadPid(t)
  <2>1. /\ \/ pc' = [pc EXCEPT ![t] = "spawned"] /\ loggers' = [loggers EXCEPT ![t] = @ \ {Main}]
           \/ pc' = pc /\ loggers' = loggers
        /\ child' = child /\ helper' = helper /\ up' = up
    BY <1>5 DEF ReadPid, Goto, confinement
  <2>2. /\ loggers' \in [Threads -> SUBSET Processes]
        /\ \A u \in Threads : loggers'[u] \subseteq loggers[u]
        /\ \A u \in Threads \ {t} : pc'[u] = pc[u]
    BY <1>0, <2>1
  <2>3. Copies(t)'
    BY <1>0, <2>1, <2>2 DEF Copies, Alive, EngineUp
  <2> QED
    BY <1>0, <2>1, <2>2, <2>3, LogsStep
<1>6. CASE ReapAnyHelper(t)
  <2>1. /\ pc' = [pc EXCEPT ![t] = "done"] /\ loggers' = [loggers EXCEPT ![t] = @ \ {Main}]
        /\ child' = child /\ up' = up
        /\ \E u \in Threads : helper[u] = "zombie" /\ helper' = [helper EXCEPT ![u] = "reaped"]
    BY <1>6 DEF ReapAnyHelper, Return, Goto, confinement
  <2>2. /\ loggers' \in [Threads -> SUBSET Processes]
        /\ \A u \in Threads : loggers'[u] \subseteq loggers[u]
        /\ \A u \in Threads \ {t} : pc'[u] = pc[u]
        /\ \A u \in Threads : helper'[u] = helper[u] \/ helper[u] = "zombie"
    BY <1>0, <2>1
  <2>3. Copies(t)'
    BY <1>0, <2>1, <2>2 DEF Copies, Alive, EngineUp
  <2> QED
    BY <1>0, <2>1, <2>2, <2>3, LogsStep
<1> QED
  BY <1>1, <1>2, <1>3, <1>4, <1>5, <1>6 DEF Spawn

\* helper_main: the container is born with the log pipes, and the helper lets go of them.
LEMMA HelperLogs ==
  ASSUME LogsInv, OrphanInv', NEW t \in Threads, HelperMain(t)
  PROVE  LogsInv'
<1> USE Distinct
<1>0. /\ helper \in [Threads -> Helpers] /\ loggers \in [Threads -> SUBSET Processes]
      /\ \A u \in Threads : Copies(u)
      /\ ConfinementInv /\ up \in BOOLEAN /\ pc' = pc /\ up' = up /\ Engine(t) \in Processes
  BY DEF LogsInv, OrphanInv, Processes, HelperMain, HelperUnshares, UnshareFails, ChildSteps, Spawned, SpawnFails,
         WritePid, ForwardStatus, parent
<1>1. CASE HelperUnshares(t) \/ ChildSteps(t)
  <2>1. child[t].at # "running" /\ \A u \in Threads \ {t} : child'[u] = child[u]
    BY <1>0, <1>1, OnlyExecStarts, EnginesOnlyDie DEF HelperUnshares, ChildSteps, Threads
  <2>2. loggers' = loggers /\ Alive(t)' /\ \A u \in Threads \ {t} : helper'[u] = helper[u]
    BY <1>0, <1>1 DEF HelperUnshares, ChildSteps, pipes, Alive
  <2>3. Copies(t)'
    BY <1>0, <2>1, <2>2 DEF Copies, EngineUp
  <2> QED
    BY <1>0, <2>1, <2>2, <2>3, LogsStep
<1>2. CASE UnshareFails(t) \/ SpawnFails(t)
  <2>1. /\ child' = child /\ helper' = [helper EXCEPT ![t] = "zombie"]
        /\ loggers' = [u \in Threads |-> loggers[u] \ {Helper(t)}]
    BY <1>2 DEF UnshareFails, SpawnFails, HelperEnds, Close, confinement
  <2>2. loggers' \in [Threads -> SUBSET Processes] /\ \A u \in Threads : loggers'[u] \subseteq loggers[u]
    BY <1>0, <2>1
  <2>3. Copies(t)'
    BY <1>0, <2>1, <2>2 DEF Copies, EngineUp
  <2> QED
    BY <1>0, <2>1, <2>2, <2>3, LogsStep
<1>3. CASE Spawned(t)
  <2>1. /\ helper' = [helper EXCEPT ![t] = "spawned"]
        /\ loggers' = [loggers EXCEPT ![t] = loggers[t] \cup {Engine(t)}]
    BY <1>3 DEF Spawned
  <2>2. child'[t].at = "running" /\ \A u \in Threads \ {t} : child'[u] = child[u]
    <3> DEFINE r == IF child[t].user = "root" THEN child[t].bounding ELSE child[t].effective
               new == [child[t] EXCEPT !.at = "running", !.effective = r]
    <3>1. child' = [child EXCEPT ![t] = new]
      BY <1>3 DEF Spawned, Exec, Becomes
    <3>2. child \in [Children -> Child] /\ child[t] \in Child
      BY <1>0 DEF ConfinementInv, ConfinementTypeOK, Threads
    <3>3. new.at = "running"
      BY <3>2 DEF Child
    <3> HIDE DEF new
    <3>4. child'[t].at = "running"
      BY <3>1, <3>2, <3>3 DEF Threads
    <3> QED
      BY <1>0, <1>3, <3>4, ExecStartsOne DEF Spawned, Threads
  <2>3. loggers' \in [Threads -> SUBSET Processes]
    BY <1>0, <2>1
  <2>4. Copies(t)'
    BY <1>0, <2>1, <2>2 DEF Copies, EngineUp, Alive
  <2>5. ASSUME NEW u \in Threads \ {t} PROVE Copies(u)'
    BY <1>0, <2>1, <2>2 DEF Copies, EngineUp, Alive
  <2> QED
    BY <1>0, <2>3, <2>4, <2>5 DEF LogsInv
<1>4. CASE WritePid(t)
  <2>1. /\ child' = child /\ helper' = [helper EXCEPT ![t] = "waiting"]
        /\ loggers' = [loggers EXCEPT ![t] = @ \ {Helper(t)}]
    BY <1>4 DEF WritePid, confinement
  <2>2. loggers' \in [Threads -> SUBSET Processes] /\ \A u \in Threads : loggers'[u] \subseteq loggers[u]
    BY <1>0, <2>1
  <2>3. Copies(t)'
    BY <1>0, <2>1, <2>2 DEF Copies, EngineUp
  <2> QED
    BY <1>0, <2>1, <2>2, <2>3, LogsStep
<1>5. CASE ForwardStatus(t)
  <2>1. /\ helper' = [helper EXCEPT ![t] = "zombie"]
        /\ loggers' = [u \in Threads |-> loggers[u] \ {Helper(t)}]
    BY <1>5 DEF ForwardStatus, HelperEnds, Close
  <2>2. child[t].at # "running" /\ \A u \in Threads \ {t} : child'[u] = child[u]
    BY <1>0, <1>5, OnlyExecStarts, EnginesOnlyDie DEF ForwardStatus, Threads
  <2>3. loggers' \in [Threads -> SUBSET Processes] /\ \A u \in Threads : loggers'[u] \subseteq loggers[u]
    BY <1>0, <2>1
  <2>4. Copies(t)'
    BY <1>0, <2>1, <2>2, <2>3 DEF Copies, EngineUp
  <2> QED
    BY <1>0, <2>1, <2>2, <2>3, <2>4, LogsStep
<1> QED
  BY <1>1, <1>2, <1>3, <1>4, <1>5 DEF HelperMain

\* An engine that is killed, or ends, lets go of its pipes.
LEMMA EndLogs ==
  ASSUME LogsInv, NEW t \in Threads, NEW ps, Dies(t), Close(ps), ps \in {{Engine(t)}, {Helper(t), Engine(t)}}
  PROVE  /\ loggers' \in [Threads -> SUBSET Processes]
         /\ \A u \in Threads : loggers'[u] \subseteq loggers[u]
         /\ \A u \in Threads \ {t} : child'[u] = child[u]
         /\ Engine(t) \notin loggers'[t]
         /\ Helper(t) \in ps => Helper(t) \notin loggers'[t]
<1>1. \A u \in Threads \ {t} : child'[u] = child[u]
  BY OnlyExecStarts DEF LogsInv, OrphanInv, Threads
<1>2. loggers \in [Threads -> SUBSET Processes] /\ loggers' = [u \in Threads |-> loggers[u] \ ps] /\ Engine(t) \in ps
  BY DEF LogsInv, Close
<1> QED
  BY <1>1, <1>2

\* wait, kill and drop; the end of an engine, and of a helper.
LEMMA WaitLogs ==
  ASSUME LogsInv, OrphanInv', NEW t \in Threads, Finish(t) \/ Wait(t) \/ EngineEnds(t) \/ HelperKilled(t)
  PROVE  LogsInv'
<1> USE Distinct
<1>0. /\ pc \in [Threads -> PCs] /\ helper \in [Threads -> Helpers] /\ loggers \in [Threads -> SUBSET Processes]
      /\ \A u \in Threads : Copies(u)
      /\ ConfinementInv /\ up \in BOOLEAN
  BY DEF LogsInv, OrphanInv
<1>1. CASE HelperKilled(t)
  <2>1. /\ pc' = pc /\ up' = up /\ helper' = [helper EXCEPT ![t] = "zombie"] /\ DeathSignal(t)
    BY <1>1 DEF HelperKilled, parent
  <2>2. /\ loggers' \in [Threads -> SUBSET Processes] /\ \A u \in Threads : loggers'[u] \subseteq loggers[u]
        /\ \A u \in Threads \ {t} : child'[u] = child[u]
        /\ Helper(t) \notin loggers'[t]
        /\ Engine(t) \in loggers'[t] => child' = child
    <3>1. CASE Dies(t) /\ Close({Helper(t), Engine(t)})
      BY <3>1, EndLogs
    <3>2. CASE UNCHANGED confinement /\ Close({Helper(t)})
      BY <1>0, <3>2 DEF Close, confinement
    <3> QED
      BY <2>1, <3>1, <3>2 DEF DeathSignal
  <2>3. Copies(t)'
    BY <1>0, <2>1, <2>2 DEF Copies, EngineUp
  <2> QED
    BY <1>0, <2>1, <2>2, <2>3, LogsStep
<1>2. CASE Finish(t) \/ Wait(t) \/ EngineEnds(t)
  <2>1. /\ up' = up /\ (pc' = pc \/ pc[t] \notin Opened) /\ (\A u \in Threads \ {t} : pc'[u] = pc[u])
        /\ helper' = helper \/ (helper[t] = "zombie" /\ \A u \in Threads \ {t} : helper'[u] = helper[u])
    BY <1>0, <1>2 DEF Finish, BeginWait, KillAndWait, Drop, Wait, WaitHelper, HelperGone, ReadStatus, NoStatus,
                      EngineEnds, Return, Goto, Opened, parent
  <2>2. \/ Dies(t) /\ Close({Engine(t)})
        \/ child' = child /\ loggers' = loggers
    BY <1>2 DEF Finish, BeginWait, KillAndWait, Drop, Kill, Wait, WaitHelper, HelperGone, ReadStatus, NoStatus,
                EngineEnds, confinement, pipes
  <2>3. /\ loggers' \in [Threads -> SUBSET Processes] /\ \A u \in Threads : loggers'[u] \subseteq loggers[u]
        /\ \A u \in Threads \ {t} : child'[u] = child[u]
        /\ Engine(t) \in loggers'[t] => child' = child
    BY <1>0, <2>2, EndLogs
  <2>4. Copies(t)'
    <3>1. Main \notin loggers'[t] \/ pc' = pc
      BY <1>0, <2>1, <2>3 DEF Copies
    <3>2. Helper(t) \in loggers'[t] => Alive(t)'
      BY <1>0, <2>1, <2>3 DEF Copies, Alive
    <3> QED
      BY <1>0, <2>3, <3>1, <3>2 DEF Copies, EngineUp
  <2> QED
    BY <1>0, <2>1, <2>3, <2>4, LogsStep
<1> QED
  BY <1>1, <1>2

\* Every step keeps the invariant.
LEMMA LogsInvStep == LogsInv /\ [Next]_vars => LogsInv'
<1> SUFFICES ASSUME LogsInv, [Next]_vars PROVE LogsInv'
  OBVIOUS
<1>1. OrphanInv'
  BY OrphanStep DEF LogsInv
<1>2. CASE UNCHANGED vars
  BY <1>1, <1>2 DEF LogsInv, Copies, Alive, EngineUp, vars, parent, pipes, confinement
<1>3. ASSUME NEW t \in Threads, Spawn(t) \/ HelperMain(t) \/ EngineEnds(t) \/ Finish(t) \/ Wait(t) \/ HelperKilled(t)
      PROVE  LogsInv'
  BY <1>1, <1>3, SpawnLogs, HelperLogs, WaitLogs
<1>4. CASE ProcessDies
  <2>1. /\ loggers' = [u \in Threads |-> loggers[u] \ {Main}] /\ up' = FALSE
        /\ pc' = pc /\ helper' = helper /\ child' = child
    BY <1>4 DEF ProcessDies, Close, confinement
  <2>2. loggers' \in [Threads -> SUBSET Processes]
    BY <2>1 DEF LogsInv
  <2>3. ASSUME NEW u \in Threads PROVE Copies(u)'
    BY <2>1 DEF LogsInv, Copies, Alive, EngineUp
  <2> QED
    BY <1>1, <2>1, <2>2, <2>3 DEF LogsInv
<1> QED
  BY <1>2, <1>3, <1>4 DEF Next

\* Nobody has a log pipe.
LEMMA LogsInit == Init => LogsInv
<1> SUFFICES ASSUME Init PROVE LogsInv
  OBVIOUS
<1>1. ASSUME NEW t \in Threads PROVE Copies(t)
  <2>1. loggers[t] = {}
    BY InitParts
  <2> QED
    BY <2>1 DEF Copies
<1>2. loggers \in [Threads -> SUBSET Processes] /\ up \in BOOLEAN
  BY InitParts
<1> QED
  BY <1>1, <1>2, OrphanInit DEF LogsInv

\* A sequence of so many bytes at most.
LEMMA Lengths ==
  ASSUME NEW s \in Seq(Bytes), NEW n \in Nat, Len(s) <= n
  PROVE  s \in UNION {[1 .. k -> Bytes] : k \in 0 .. n}
<1>1. Len(s) \in 0 .. n /\ s \in [1 .. Len(s) -> Bytes]
  OBVIOUS
<1> QED
  BY <1>1

\* The types, no mount on the host, whole words, and log pipes that come to an end
\* (spawn_isolated_impl, read_status_pipe, helper_main).
THEOREM PipesAreUsed == Spec => []HelperInv
<1>1. ReadsInv /\ LogsInv => HelperInv
  <2> SUFFICES ASSUME ReadsInv, LogsInv PROVE HelperInv
    OBVIOUS
  <2>1. TypeOK
    <3>1. \A t \in Threads : /\ got[t] \in UNION {[1 .. n -> Bytes] : n \in 0 .. Width}
                             /\ pipe[t] \in UNION {[1 .. n -> Bytes] : n \in 0 .. 2 * Width}
      BY Lengths, SpawnAssumption DEF ReadsInv
    <3>2. /\ got \in [Threads -> UNION {[1 .. n -> Bytes] : n \in 0 .. Width}]
          /\ pipe \in [Threads -> UNION {[1 .. n -> Bytes] : n \in 0 .. 2 * Width}]
      BY <3>1 DEF ReadsInv
    <3> QED
      BY <3>2 DEF TypeOK, ReadsInv, LogsInv, OrphanInv, ConfinementInv
  <2>2. HostUntouched
    BY DEF HostUntouched, ReadsInv, OrphanInv, ConfinementInv
  <2>3. ASSUME NEW t \in Threads
        PROVE  (pc[t] = "spawned" => got[t] = Word("pid")) /\ (why[t] = "status" => got[t] = Word("status"))
    <3>1. Reads(t) /\ Ended(t)
      BY DEF ReadsInv
    <3>2. pc[t] = "spawned" => Part(got[t], 0) /\ Len(got[t]) = Width
      BY <3>1 DEF Reads, Before
    <3> QED
      BY <3>1, <3>2, WholeWord DEF Ended
  <2>4. WordsAreWhole
    BY <2>3 DEF WordsAreWhole
  <2>5. ASSUME faults = 0, NEW t \in Threads, pc[t] = "done"
        PROVE  loggers[t] \subseteq {Helper(u) : u \in Threads \ {t}}
    <3>1. ~Alive(t) /\ ~EngineUp(t)
      BY <2>5 DEF LogsInv, OrphanInv, Attended, SeenTheEnd, Alive
    <3>2. Main \notin loggers[t] /\ Helper(t) \notin loggers[t] /\ \A u \in Threads : Engine(u) \notin loggers[t]
      BY <2>5, <3>1 DEF LogsInv, Copies, Opened
    <3>3. loggers[t] \subseteq Processes
      BY DEF LogsInv
    <3> QED
      BY <3>2, <3>3 DEF Processes
  <2>6. LogsEnd
    BY <2>5 DEF LogsEnd
  <2> QED
    BY <2>1, <2>2, <2>4, <2>6 DEF HelperInv
<1> QED
  BY <1>1, ReadsInit, ReadsInvStep, LogsInit, LogsInvStep, PTL DEF Spec
=============================================================================
