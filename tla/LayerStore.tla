----------------------------- MODULE LayerStore -----------------------------
(***************************************************************************)
(* LayerStore::ensure and LayerStore::release of one layer, step by step.  *)
(*                                                                         *)
(* layers/<hex>/ holds diff/, the unpacked layer, refcount, a decimal, and *)
(* the staging directories of unpackings in progress.  A LayerStore has a  *)
(* mutex that its calls hold throughout, but the service makes a new       *)
(* LayerStore for every command.                                           *)
(***************************************************************************)
EXTENDS Integers

CONSTANTS
  Callers,   \* the containers that take and give back the layer
  Sharing,   \* whether the callers share one LayerStore: a set of cases
  Killable,  \* the calls a process may be killed in, in either case
  MaxCount,  \* bound on the count
  MaxKills   \* bound on the kills

Calls == {"ensure", "release"}

ASSUME ConstantsAssumption ==
  /\ Sharing \subseteq BOOLEAN
  /\ Killable \in [BOOLEAN -> SUBSET Calls]
  /\ MaxCount \in Nat
  /\ MaxKills \in Nat

VARIABLES
  dir,      \* the layer's directory exists
  diff,     \* "partial": part of it has been removed
  file,     \* refcount: "torn" from its truncation until it is written
  count,    \* what was last written to refcount
  opened,   \* the writers whose file is the one there is now
  staged,   \* the callers whose staging directory exists
  shared,   \* all callers use one LayerStore
  pc,       \* where each caller is
  next,     \* the count a caller is about to write
  holds,    \* the callers whose container has acquired the layer
  kills     \* processes killed in the middle of a call

refcount == <<file, count, opened>>
files == <<dir, diff, refcount, staged>>
vars == <<files, shared, pc, next, holds, kills>>

EnsurePCs == {"find", "stage", "unpack", "rename", "read", "truncate", "write"}
ReleasePCs == {"rel_find", "rel_read", "rel_truncate", "rel_write", "remove"}

TypeOK ==
  /\ dir \in BOOLEAN
  /\ diff \in {"absent", "complete", "partial"}
  /\ file \in {"none", "torn", "whole"}
  /\ count \in Nat
  /\ opened \subseteq Callers
  /\ staged \subseteq Callers
  /\ shared \in BOOLEAN
  /\ pc \in [Callers -> {"idle"} \cup EnsurePCs \cup ReleasePCs]
  /\ next \in [Callers -> Nat]
  /\ holds \subseteq Callers
  /\ kills \in Nat

Quiet == \A c \in Callers : pc[c] = "idle"

Goto(c, label) == pc' = [pc EXCEPT ![c] = label]

\* read_refcount: no file counts as zero, an unreadable one is an error.
Readable == file # "torn"

ReadCount == count

-----------------------------------------------------------------------------
Init ==
  /\ dir = FALSE
  /\ diff = "absent"
  /\ file = "none"
  /\ count = 0
  /\ opened = {}
  /\ staged = {}
  /\ shared \in Sharing
  /\ pc = [c \in Callers |-> "idle"]
  /\ next = [c \in Callers |-> 0]
  /\ holds = {}
  /\ kills = 0

\* A call begins by locking the mutex of its store, which another caller has
\* only if they share it.  A container that is being destroyed does not need the
\* layer any more.
Lock(c, label) ==
  /\ pc[c] = "idle"
  /\ shared => Quiet
  /\ Goto(c, label)
  /\ holds' = holds \ {c}
  /\ UNCHANGED <<files, shared, next, kills>>

\* A call returns, and its guard is dropped.
Return(c, held) ==
  /\ Goto(c, "idle")
  /\ next' = [next EXCEPT ![c] = 0]
  /\ holds' = IF held THEN holds \cup {c} ELSE holds \ {c}
  /\ UNCHANGED <<shared, kills>>

\* An error return.  A container whose destroy failed still lists the layer.
Fail(c) == Return(c, pc[c] \in ReleasePCs)

Continue(c, label) ==
  /\ Goto(c, label)
  /\ UNCHANGED <<shared, next, holds, kills>>

Write(c, label, value) ==
  /\ Goto(c, label)
  /\ next' = [next EXCEPT ![c] = value]
  /\ UNCHANGED <<shared, holds, kills>>

(***************************************************************************)
(* ensure                                                                  *)
(***************************************************************************)
BeginEnsure(c) == c \notin holds /\ Lock(c, "find")

EnsureFind(c) ==
  /\ pc[c] = "find"
  /\ Continue(c, IF diff = "absent" THEN "stage" ELSE "read")
  /\ UNCHANGED files

Stage(c) ==
  /\ pc[c] = "stage"
  /\ dir' = TRUE
  /\ staged' = staged \cup {c}
  /\ Continue(c, "unpack")
  /\ UNCHANGED <<diff, refcount>>

\* Mutant: the archive is unpacked in place.
UnpackInPlace(c) ==
  /\ pc[c] = "unpack"
  /\ c \in staged
  /\ diff' = IF diff = "absent" THEN "partial" ELSE diff
  /\ Continue(c, "rename")
  /\ UNCHANGED <<dir, refcount, staged>>

Unpack(c) ==
  /\ pc[c] = "unpack"
  /\ c \in staged
  /\ Continue(c, "rename")
  /\ UNCHANGED files

\* The archive is bad, or the staging directory has been removed.
UnpackFails(c) ==
  /\ pc[c] = "unpack"
  /\ Fail(c)
  /\ UNCHANGED files

Rename(c) ==
  /\ pc[c] = "rename"
  /\ c \in staged /\ diff # "complete"
  /\ diff' = "complete"
  /\ staged' = staged \ {c}
  /\ Write(c, "truncate", 1)
  /\ UNCHANGED <<dir, refcount>>

\* The staging directory is gone, or a diff that is not empty is in the way: a
\* partial one may be empty by now, and is then replaced.
RenameFails(c) ==
  /\ pc[c] = "rename"
  /\ c \notin staged \/ diff # "absent"
  /\ Fail(c)
  /\ UNCHANGED files

EnsureRead(c) ==
  /\ pc[c] = "read"
  /\ Readable /\ ReadCount < MaxCount
  /\ Write(c, "truncate", ReadCount + 1)
  /\ UNCHANGED files

(***************************************************************************)
(* release                                                                 *)
(***************************************************************************)
BeginRelease(c) == c \in holds /\ Lock(c, "rel_find")

ReleaseFind(c) ==
  /\ pc[c] = "rel_find"
  /\ IF diff = "absent" THEN Return(c, FALSE) ELSE Continue(c, "rel_read")
  /\ UNCHANGED files

\* The last reference removes the layer.
ReleaseRead(c) ==
  /\ pc[c] = "rel_read"
  /\ Readable
  /\ IF ReadCount <= 1
     THEN Continue(c, "remove")
     ELSE Write(c, "rel_truncate", ReadCount - 1)
  /\ UNCHANGED files

\* remove_dir_all removes what it finds in some order, and the directory once
\* it is empty.
RemoveSome(c) ==
  /\ pc[c] = "remove"
  /\ \/ /\ diff # "absent"
        /\ diff' = IF diff = "complete" THEN "partial" ELSE "absent"
        /\ UNCHANGED <<refcount, staged>>
     \/ /\ file # "none"
        /\ file' = "none" /\ count' = 0 /\ opened' = {}
        /\ UNCHANGED <<diff, staged>>
     \/ \E d \in staged :
          /\ staged' = staged \ {d}
          /\ UNCHANGED <<diff, refcount>>
  /\ UNCHANGED <<dir, shared, pc, next, holds, kills>>

RemoveDone(c) ==
  /\ pc[c] = "remove"
  /\ diff = "absent" /\ file = "none" /\ staged = {}
  /\ dir' = FALSE
  /\ Return(c, FALSE)
  /\ UNCHANGED <<diff, refcount, staged>>

\* Another caller has put something into the directory meanwhile.
RemoveFails(c) ==
  /\ pc[c] = "remove"
  /\ \E d \in Callers \ {c} : pc[d] # "idle"
  /\ Fail(c)
  /\ UNCHANGED files

(***************************************************************************)
(* Both: fs::write truncates the file, or creates it, and then writes.     *)
(***************************************************************************)
CountUnreadable(c) ==
  /\ pc[c] \in {"read", "rel_read"}
  /\ ~Readable
  /\ Fail(c)
  /\ UNCHANGED files

Truncate(c) ==
  /\ pc[c] \in {"truncate", "rel_truncate"}
  /\ dir
  /\ file' = "torn" /\ opened' = opened \cup {c}
  /\ Continue(c, IF pc[c] = "truncate" THEN "write" ELSE "rel_write")
  /\ UNCHANGED <<dir, diff, count, staged>>

TruncateFails(c) ==
  /\ pc[c] \in {"truncate", "rel_truncate"}
  /\ ~dir
  /\ Fail(c)
  /\ UNCHANGED files

WriteValue(c, value) ==
  /\ pc[c] \in {"write", "rel_write"}
  /\ IF c \in opened
     THEN file' = "whole" /\ count' = value
     ELSE UNCHANGED <<file, count>>
  /\ opened' = opened \ {c}
  /\ Return(c, pc[c] = "write")
  /\ UNCHANGED <<dir, diff, staged>>

\* Mutant: ensure writes the count it has read.
WriteSameCount(c) ==
  WriteValue(c, IF pc[c] = "write" /\ count > 0 THEN next[c] - 1 ELSE next[c])

\* A file removed since it was opened is written in vain.
WriteCount(c) == WriteValue(c, next[c])

CallOf(label) == IF label \in EnsurePCs THEN "ensure" ELSE "release"

\* The process is killed; a mutex dies with it.
Crash(c) ==
  /\ kills < MaxKills
  /\ pc[c] # "idle"
  /\ CallOf(pc[c]) \in Killable[shared]
  /\ Goto(c, "idle")
  /\ next' = [next EXCEPT ![c] = 0]
  /\ holds' = IF pc[c] \in ReleasePCs THEN holds \cup {c} ELSE holds
  /\ kills' = kills + 1
  /\ opened' = opened \ {c}
  /\ UNCHANGED <<dir, diff, file, count, staged, shared>>

-----------------------------------------------------------------------------
ensure(c) ==
  \/ EnsureFind(c) \/ Stage(c) \/ Unpack(c) \/ UnpackFails(c)
  \/ Rename(c) \/ RenameFails(c) \/ EnsureRead(c)

release(c) ==
  \/ ReleaseFind(c) \/ ReleaseRead(c) \/ RemoveSome(c)
  \/ RemoveDone(c) \/ RemoveFails(c)

write_refcount(c) == Truncate(c) \/ TruncateFails(c) \/ WriteCount(c)

Next ==
  \E c \in Callers :
    \/ BeginEnsure(c) \/ BeginRelease(c)
    \/ ensure(c) \/ release(c) \/ write_refcount(c) \/ CountUnreadable(c)
    \/ Crash(c)

Spec == Init /\ [][Next]_vars

-----------------------------------------------------------------------------
(***************************************************************************)
(* Properties.                                                             *)
(***************************************************************************)
\* With one LayerStore, a container that holds the layer has all of it: release
\* removes the layer only with the last reference, and no ensure, completed or
\* killed anywhere, leaves a part of a layer for the next one to share.
HeldIsComplete == shared /\ holds # {} => diff = "complete"

\* "layer must be reclaimed once no container references it"
\* (tests/run_container.rs): with one LayerStore and no kills, nothing of a
\* layer that nobody holds or is taking is left.
Reclaimed ==
  shared /\ kills = 0 /\ Quiet /\ holds = {} => diff = "absent" /\ file = "none"

\* The types, with a count that never goes below zero, and that a layer is there as long as
\* it is held and no longer (ensure, release).
LayerInv == TypeOK /\ HeldIsComplete /\ Reclaimed

-----------------------------------------------------------------------------
(***************************************************************************)
(* The counter that ContainerRuntime takes the layer store for.            *)
(***************************************************************************)
\* The count, none while the layer is being removed.  Callers that do not share
\* a store are not counted.
References ==
  IF ~shared \/ \E c \in Callers : pc[c] = "remove" THEN 0 ELSE count

\* A caller has its reference until its release has taken it away.
Users ==
  IF shared THEN holds \cup {c \in Callers : pc[c] \in ReleasePCs \ {"remove"}} ELSE {}

C == INSTANCE LayerCount WITH refcount <- References, users <- Users

\* Calls that do not overlap are the single steps ContainerRuntime takes them
\* for: an ensure that succeeds counts its caller, a release discounts it, and
\* one that fails or is killed changes nothing that is counted.
CountsReferences == C!Spec

=============================================================================
