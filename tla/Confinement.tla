---------------------------- MODULE Confinement ----------------------------
(***************************************************************************)
(* How a container's process is confined: what its child does between fork *)
(* and exec, in the pre_exec hook of spawn_isolated_impl.  The child       *)
(* starts as root among the host's mounts with all capabilities; each call *)
(* takes away something that a later one may still need.                   *)
(***************************************************************************)
EXTENDS FiniteSets

CONSTANTS
  Children,    \* children that helpers fork
  Kernel,      \* capabilities of the kernel
  Known,       \* capabilities numbered up to LAST_CAPABILITY
  SystemDirs,  \* directories of the host an engine sees, read-only
  Volumes      \* volumes of a container, mounted read-write

ASSUME ConfinementAssumption ==
  /\ {"SYS_ADMIN", "SETPCAP", "SETUID", "SETGID"} \subseteq Known \cap Kernel
  /\ SystemDirs \cap Volumes = {}

VARIABLES
  child,       \* each child
  hostMounts   \* what the host sees of their mounts

confinement == <<child, hostMounts>>

default_allowlist == {"CHOWN", "DAC_OVERRIDE", "FOWNER", "SETGID", "SETUID", "NET_BIND_SERVICE"}

default_denylist ==
  {"ptrace", "process_vm_readv", "process_vm_writev", "kexec_load", "reboot", "mount", "umount2",
   "pivot_root", "chroot", "init_module", "finit_module", "delete_module", "bpf", "userfaultfd",
   "swapon", "swapoff", "acct", "ioperm", "iopl"}

Mounts == {"overlay", "devtmpfs", "proc", "sysfs"} \cup SystemDirs \cup Volumes

Writable == {"upper", "work"} \cup Volumes

Steps == {"unshare", "make_private", "overlay", "system", "seed", "bind", "pivot", "deathsig",
          "no_new_privs", "seccomp", "capabilities", "user", "exec"}

\* owner: of the directories it may write to, if they are there.  refused: a call
\* failed for a right the child had given up; failed: some other error; running:
\* the engine; zombie: it has ended; reaped: and is forgotten.
Child == [at: {"none", "built", "ready", "refused", "failed", "running", "zombie", "reaped"} \cup Steps,
          owner: [Writable -> {"none", "root", "engine"}],
          namespaces: SUBSET {"net", "mnt"}, private: BOOLEAN, mounts: SUBSET Mounts,
          readonly: SUBSET Mounts, root: {"host", "own"}, oldRoot: BOOLEAN, deathsig: BOOLEAN,
          nnp: BOOLEAN, filter: SUBSET default_denylist, bounding: SUBSET Kernel,
          effective: SUBSET Kernel, user: {"root", "engine"}]

ConfinementTypeOK ==
  /\ child \in [Children -> Child]
  /\ hostMounts \subseteq Mounts

Unborn == [at |-> "none", owner |-> [d \in Writable |-> "root"], namespaces |-> {},
           private |-> FALSE, mounts |-> {}, readonly |-> {}, root |-> "host", oldRoot |-> TRUE, deathsig |-> FALSE, nnp |-> FALSE, filter |-> {},
           bounding |-> Kernel, effective |-> Kernel, user |-> "root"]

ConfinementInit ==
  /\ child = [c \in Children |-> Unborn]
  /\ hostMounts = {}

At(c, step) == child[c].at = step

Becomes(c, new) == child' = [child EXCEPT ![c] = new]

\* May c make this call with these capabilities?
Permitted(c, caps, calls) ==
  /\ caps \subseteq child[c].effective
  /\ calls \cap child[c].filter = {}

\* The hook's error reaches the helper, and there is no engine.
Refuse(c) == Becomes(c, [child[c] EXCEPT !.at = "refused"]) /\ UNCHANGED hostMounts

\* A mount in a tree that is shared with the host's appears there too.
HostSees(c, mounts) == hostMounts' = IF child[c].private THEN hostMounts ELSE hostMounts \cup mounts

\* The directory of an earlier start goes, with upper and work in it.
build_rootfs(c) ==
  /\ At(c, "none")
  /\ Becomes(c, [child[c] EXCEPT !.at = "built",
                                 !.owner = [d \in Writable |-> IF d \in Volumes THEN @[d] ELSE "none"]])
  /\ UNCHANGED hostMounts

\* What start_impl gives to the engine's user; a directory that is not there is
\* passed over.
chown_tree(c) ==
  /\ At(c, "built")
  /\ Becomes(c, [child[c] EXCEPT !.at = "ready",
                                 !.owner = [d \in Writable |-> IF @[d] = "none" THEN "none" ELSE "engine"]])
  /\ UNCHANGED hostMounts

Fork(c) ==
  /\ At(c, "ready")
  /\ Becomes(c, [child[c] EXCEPT !.at = "unshare"])
  /\ UNCHANGED hostMounts

\* pre_exec: a network namespace, then a mount namespace.
Unshare(c) ==
  /\ At(c, "unshare")
  /\ IF Permitted(c, {"SYS_ADMIN"}, {})
       THEN /\ Becomes(c, [child[c] EXCEPT !.at = "make_private", !.namespaces = {"net", "mnt"}])
            /\ UNCHANGED hostMounts
       ELSE Refuse(c)

-----------------------------------------------------------------------------
(***************************************************************************)
(* prepare_container_root.                                                 *)
(***************************************************************************)
MakePrivate(c) ==
  /\ At(c, "make_private")
  /\ IF Permitted(c, {"SYS_ADMIN"}, {"mount"})
       THEN /\ Becomes(c, [child[c] EXCEPT !.at = "overlay", !.private = "mnt" \in child[c].namespaces])
            /\ UNCHANGED hostMounts
       ELSE Refuse(c)

\* It makes the directories it lacks, then mounts.
mount_overlay(c) ==
  /\ At(c, "overlay")
  /\ IF Permitted(c, {"SYS_ADMIN"}, {"mount"})
       THEN /\ Becomes(c, [child[c] EXCEPT !.at = "system", !.mounts = @ \cup {"overlay"},
                            !.owner = [d \in Writable |-> IF @[d] = "none" THEN "root" ELSE @[d]]])
            /\ HostSees(c, {"overlay"})
       ELSE Refuse(c)

mount_system(c) ==
  /\ At(c, "system")
  /\ IF Permitted(c, {"SYS_ADMIN"}, {"mount"})
       THEN /\ Becomes(c, [child[c] EXCEPT !.at = "seed", !.mounts = @ \cup {"devtmpfs", "proc", "sysfs"}])
            /\ HostSees(c, {"devtmpfs", "proc", "sysfs"})
       ELSE Refuse(c)

\* create_root_dirs and seed_host_etc write below the overlay.
seed_root(c) ==
  /\ At(c, "seed")
  /\ Becomes(c, [child[c] EXCEPT !.at = "bind"])
  /\ UNCHANGED hostMounts

\* Each is mounted, and a read-only one is mounted again to make it so.
bind_mount(c) ==
  /\ At(c, "bind")
  /\ IF Permitted(c, {"SYS_ADMIN"}, {"mount"})
       THEN /\ Becomes(c, [child[c] EXCEPT !.at = "pivot", !.readonly = SystemDirs,
                                           !.mounts = @ \cup SystemDirs \cup Volumes])
            /\ HostSees(c, SystemDirs \cup Volumes)
       ELSE Refuse(c)

\* pivot_root, chdir, umount2; the kernel wants a mount that is not shared.
pivot_root(c) ==
  /\ At(c, "pivot")
  /\ IF /\ Permitted(c, {"SYS_ADMIN"}, {"pivot_root", "umount2"})
        /\ child[c].private
        /\ "overlay" \in child[c].mounts
       THEN /\ Becomes(c, [child[c] EXCEPT !.at = "deathsig", !.root = "own", !.oldRoot = FALSE])
            /\ UNCHANGED hostMounts
       ELSE Refuse(c)

set_pdeathsig(c) ==
  /\ At(c, "deathsig")
  /\ Becomes(c, [child[c] EXCEPT !.at = "no_new_privs", !.deathsig = TRUE])
  /\ UNCHANGED hostMounts

-----------------------------------------------------------------------------
(***************************************************************************)
(* apply_security, and the exec that follows.                              *)
(***************************************************************************)
set_no_new_privs(c) ==
  /\ At(c, "no_new_privs")
  /\ Becomes(c, [child[c] EXCEPT !.at = "seccomp", !.nnp = TRUE])
  /\ UNCHANGED hostMounts

\* The kernel takes a filter from a process that can gain no privilege, or is root.
apply_seccomp(c) ==
  /\ At(c, "seccomp")
  /\ IF child[c].nnp \/ Permitted(c, {"SYS_ADMIN"}, {})
       THEN /\ Becomes(c, [child[c] EXCEPT !.at = "capabilities", !.filter = default_denylist])
            /\ UNCHANGED hostMounts
       ELSE Refuse(c)

\* Mutant: capset first, then the bounding set.
restrict_caps_backwards(c) ==
  /\ At(c, "capabilities")
  /\ IF "SETPCAP" \in child[c].effective \cap default_allowlist
       THEN /\ Becomes(c, [child[c] EXCEPT !.at = "user", !.effective = @ \cap default_allowlist,
                                           !.bounding = @ \ (Known \ default_allowlist)])
            /\ UNCHANGED hostMounts
       ELSE Refuse(c)

\* Drop every capability up to LAST_CAPABILITY from the bounding set, which needs
\* SETPCAP and that the kernel has it, then capset.
restrict_caps(c) ==
  /\ At(c, "capabilities")
  /\ IF Permitted(c, {"SETPCAP"}, {})
       THEN /\ Becomes(c, IF Known \ default_allowlist \subseteq Kernel
                            THEN [child[c] EXCEPT !.at = "user", !.effective = @ \cap default_allowlist,
                                                  !.bounding = @ \ (Known \ default_allowlist)]
                            ELSE [child[c] EXCEPT !.at = "failed"])
            /\ UNCHANGED hostMounts
       ELSE Refuse(c)

\* Mutant: only the group changes.
drop_group(c) ==
  /\ At(c, "user")
  /\ Becomes(c, [child[c] EXCEPT !.at = "exec"])
  /\ UNCHANGED hostMounts

\* setgroups, setgid, setuid.  The last one clears the capabilities and, as every
\* change of user does, the parent-death signal.
drop_privileges(c) ==
  /\ At(c, "user")
  /\ IF Permitted(c, {"SETGID", "SETUID"}, {})
       THEN /\ Becomes(c, [child[c] EXCEPT !.at = "exec", !.user = "engine", !.effective = {},
                                           !.deathsig = FALSE])
            /\ UNCHANGED hostMounts
       ELSE Refuse(c)

\* The program of a root process gets what the bounding set has.
Exec(c) ==
  /\ At(c, "exec")
  /\ Becomes(c, [child[c] EXCEPT !.at = "running",
                                 !.effective = IF child[c].user = "root" THEN child[c].bounding ELSE @])
  /\ UNCHANGED hostMounts

\* Any call may also fail for reasons of its own.
StepFails(c) ==
  /\ child[c].at \in Steps
  /\ Becomes(c, [child[c] EXCEPT !.at = "failed"])
  /\ UNCHANGED hostMounts

\* The end of an engine: its namespaces, and the mounts in them, go with it.
Dies(c) ==
  /\ child[c].at \in Steps \cup {"running"}
  /\ Becomes(c, [Unborn EXCEPT !.at = "zombie"])
  /\ UNCHANGED hostMounts

Reaped(c) ==
  /\ At(c, "zombie")
  /\ Becomes(c, [Unborn EXCEPT !.at = "reaped"])
  /\ UNCHANGED hostMounts

Prepare(c) ==
  \/ Unshare(c) \/ MakePrivate(c) \/ mount_overlay(c) \/ mount_system(c) \/ seed_root(c)
  \/ bind_mount(c) \/ pivot_root(c) \/ set_pdeathsig(c)

Secure(c) ==
  \/ set_no_new_privs(c) \/ apply_seccomp(c) \/ restrict_caps(c) \/ drop_privileges(c)

ConfinementNext ==
  \E c \in Children :
    build_rootfs(c) \/ chown_tree(c) \/ Fork(c) \/ Prepare(c) \/ Secure(c) \/ Exec(c) \/ StepFails(c) \/ Dies(c) \/ Reaped(c)

ConfinementSpec == ConfinementInit /\ [][ConfinementNext]_confinement

-----------------------------------------------------------------------------
\* Nothing a child mounts shows on the host, however far it gets: what it makes
\* goes away with it, and a failed start needs no clean-up of mounts.
HostUntouched == hostMounts = {}

\* An engine that runs has lost everything it must not have: the host's tree, the
\* root user, every capability, and the way back to any it was not allowed
\* ("a database process never runs as root", docs/container-runtime.md).
ConfinedWhenRunning ==
  \A c \in Children : At(c, "running") =>
    /\ child[c].namespaces = {"net", "mnt"}
    /\ child[c].root = "own" /\ ~child[c].oldRoot
    /\ SystemDirs \subseteq child[c].readonly /\ Volumes \subseteq child[c].mounts \ child[c].readonly
    /\ child[c].nnp /\ child[c].filter = default_denylist
    /\ child[c].user = "engine" /\ child[c].effective = {}
    /\ child[c].bounding \cap Known \subseteq default_allowlist
    /\ \A v \in Volumes : child[c].owner[v] = "engine"

\* No step is refused for a right that an earlier step has given up: mounts come
\* before the filter that forbids them, the bounding set before capset, and the
\* allowlist keeps what setgid and setuid need.
NeverRefused == \A c \in Children : ~At(c, "refused")

=============================================================================
