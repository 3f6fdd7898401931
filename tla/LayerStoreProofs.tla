-------------------------- MODULE LayerStoreProofs --------------------------
(***************************************************************************)
(* Proofs about LayerStore, for any number of callers and kills: callers   *)
(* of one store, in which ensure may be killed, count what they hold, and  *)
(* whoever holds the layer has all of it.                                  *)
(***************************************************************************)
EXTENDS LayerStore, FiniteSetTheorems, TLAPS

-----------------------------------------------------------------------------
(***************************************************************************)
(* The types, whether callers share a store or not.                        *)
(***************************************************************************)
LEMMA TypeInit == Init => TypeOK
<1> SUFFICES ASSUME Init PROVE TypeOK
  OBVIOUS
<1>1. shared \in BOOLEAN
  BY ConstantsAssumption DEF Init
<1> QED
  BY <1>1 DEF Init, TypeOK

LEMMA TypeStep == TypeOK /\ [Next]_vars => TypeOK'
<1> SUFFICES ASSUME TypeOK, [Next]_vars PROVE TypeOK'
  OBVIOUS
<1> USE DEF TypeOK, EnsurePCs, ReleasePCs, Goto, Continue, Write, Fail, Return, refcount, files
<1>1. ASSUME NEW c \in Callers, BeginEnsure(c) \/ BeginRelease(c) \/ Crash(c) PROVE TypeOK'
  <2>1. CASE BeginEnsure(c) \/ BeginRelease(c)
    BY <2>1 DEF BeginEnsure, BeginRelease, Lock
  <2>2. CASE Crash(c)
    BY <2>2 DEF Crash
  <2> QED
    BY <1>1, <2>1, <2>2
<1>2. ASSUME NEW c \in Callers, ensure(c) PROVE TypeOK'
  <2>1. CASE EnsureFind(c) \/ Stage(c)
    BY <2>1 DEF EnsureFind, Stage
  <2>3. CASE Unpack(c) \/ UnpackFails(c)
    BY <2>3 DEF Unpack, UnpackFails
  <2>2. CASE Rename(c) \/ RenameFails(c) \/ EnsureRead(c)
    BY <2>2 DEF Rename, RenameFails, EnsureRead, ReadCount
  <2> QED
    BY <1>2, <2>1, <2>2, <2>3 DEF ensure
<1>3. ASSUME NEW c \in Callers, release(c) PROVE TypeOK'
  <2>1. CASE ReleaseFind(c)
    BY <2>1 DEF ReleaseFind
  <2>3. CASE ReleaseRead(c)
    BY <2>3 DEF ReleaseRead, ReadCount
  <2>2. CASE RemoveSome(c)
    BY <2>2 DEF RemoveSome
  <2>4. CASE RemoveDone(c)
    BY <2>4 DEF RemoveDone
  <2>5. CASE RemoveFails(c)
    BY <2>5 DEF RemoveFails
  <2> QED
    BY <1>3, <2>1, <2>2, <2>3, <2>4, <2>5 DEF release
<1>4. ASSUME NEW c \in Callers, write_refcount(c) \/ CountUnreadable(c) PROVE TypeOK'
  BY <1>4 DEF write_refcount, CountUnreadable, Truncate, TruncateFails, WriteCount, WriteValue
<1>5. CASE UNCHANGED vars
  BY <1>5 DEF vars
<1> QED
  BY <1>1, <1>2, <1>3, <1>4, <1>5 DEF Next

-----------------------------------------------------------------------------
(***************************************************************************)
(* The invariant of callers that share a store.                            *)
(***************************************************************************)
\* The mutex: one call at a time.
Alone == \A c, d \in Callers : pc[c] # "idle" /\ pc[d] # "idle" => c = d

Removing == \E c \in Callers : pc[c] = "remove"

\* What a caller in the middle of a call may rely on.
InCall(c) ==
  /\ pc[c] # "idle" => c \notin holds
  /\ pc[c] \in {"stage", "unpack", "rename"} => diff = "absent"
  /\ pc[c] \in {"unpack", "rename"} => dir
  /\ pc[c] \in {"read", "truncate", "write"} => diff = "complete"
  /\ pc[c] \in {"truncate", "write"} => next[c] = count + 1
  /\ pc[c] \in {"rel_truncate", "rel_write"} => count > 1 /\ next[c] = count - 1
  /\ pc[c] \in {"write", "rel_write"} => c \in opened

\* What the directory holds.
OnDisk ==
  /\ Users # {} => diff = "complete"
  /\ diff = "partial" => Removing
  /\ file = "none" => count = 0
  /\ diff = "absent" /\ ~Removing => file = "none"
  /\ diff # "absent" => dir

\* As long as nobody is killed, a count is torn, or a layer without users, only on the way.
Unharmed ==
  kills = 0 =>
    /\ file = "torn" => \E c \in Callers : pc[c] \in {"write", "rel_write"}
    /\ Users = {} /\ diff # "absent" => \E c \in Callers : pc[c] \in {"truncate", "write", "remove"}

\* The count is right.
Counted == IsFiniteSet(Users) /\ Cardinality(Users) = References

Locked == Alone /\ OnDisk /\ Unharmed /\ \A c \in Callers : InCall(c)

\* The inductive invariant.
StoreInv == TypeOK /\ (shared => Locked /\ Counted)

-----------------------------------------------------------------------------
(***************************************************************************)
(* The invariant as the one caller sees it that is in a call.              *)
(***************************************************************************)
Others(c) == \A d \in Callers \ {c} : pc[d] = "idle"

HeldBy(c) == IF pc[c] \in ReleasePCs \ {"remove"} THEN holds \cup {c} ELSE holds

CountOf(c) == IF pc[c] = "remove" THEN 0 ELSE count

Local(c) ==
  /\ InCall(c)
  /\ HeldBy(c) # {} => diff = "complete"
  /\ diff = "partial" => pc[c] = "remove"
  /\ file = "none" => count = 0
  /\ diff = "absent" /\ pc[c] # "remove" => file = "none"
  /\ diff # "absent" => dir
  /\ kills = 0 =>
       /\ file = "torn" => pc[c] \in {"write", "rel_write"}
       /\ HeldBy(c) = {} /\ diff # "absent" => pc[c] \in {"truncate", "write", "remove"}

\* Of callers that share a store, one at most is in a call.
LEMMA Localise ==
  TypeOK /\ shared => \A c \in Callers :
    Others(c) => /\ Users = HeldBy(c) /\ References = CountOf(c)
                 /\ Locked <=> Local(c)
<1> SUFFICES ASSUME TypeOK, shared, NEW c \in Callers, Others(c)
             PROVE  /\ Users = HeldBy(c) /\ References = CountOf(c)
                    /\ Locked <=> Local(c)
  OBVIOUS
<1>1. Users = HeldBy(c)
  BY DEF Users, HeldBy, Others, ReleasePCs, TypeOK
<1>2. References = CountOf(c)
  BY DEF References, CountOf, Others
<1>3. Removing <=> pc[c] = "remove"
  BY DEF Removing, Others
<1>4. \A S \in SUBSET {"write", "rel_write", "truncate", "remove"} :
        (\E d \in Callers : pc[d] \in S) <=> pc[c] \in S
  BY DEF Others
<1>5. Alone /\ \A d \in Callers \ {c} : InCall(d)
  BY DEF Alone, Others, InCall
<1>6. Locked <=> Local(c)
  <2>1. (\E d \in Callers : pc[d] \in {"write", "rel_write"}) <=> pc[c] \in {"write", "rel_write"}
    BY DEF Others
  <2>2. (\E d \in Callers : pc[d] \in {"truncate", "write", "remove"}) <=> pc[c] \in {"truncate", "write", "remove"}
    BY DEF Others
  <2>3. Unharmed <=> (kills = 0 =>
          /\ file = "torn" => pc[c] \in {"write", "rel_write"}
          /\ HeldBy(c) = {} /\ diff # "absent" => pc[c] \in {"truncate", "write", "remove"})
    BY <1>1, <2>1, <2>2 DEF Unharmed
  <2> QED
    BY <1>1, <1>3, <1>5, <2>3 DEF Locked, OnDisk, Local
<1> QED
  BY <1>1, <1>2, <1>6

LEMMA LocaliseNext ==
  (TypeOK /\ shared => \A c \in Callers :
     Others(c) => /\ Users = HeldBy(c) /\ References = CountOf(c)
                  /\ Locked <=> Local(c))'
BY Localise, PTL

\* In a call, or with all idle, the caller is the one.
LEMMA TheOne ==
  ASSUME Locked, NEW c \in Callers, pc[c] # "idle" \/ Quiet
  PROVE  Others(c)
BY DEF Locked, Alone, Quiet, Others

-----------------------------------------------------------------------------
(***************************************************************************)
(* What a step does to the count.                                          *)
(***************************************************************************)
Takes(c) == c \notin Users /\ Users' = Users \cup {c} /\ References' = References + 1
Gives(c) == c \in Users /\ Users' = Users \ {c} /\ References' = References - 1
Keeps == Users' = Users /\ References' = References

LEMMA CountedStep ==
  ASSUME Counted, NEW c \in Callers, Takes(c) \/ Gives(c) \/ Keeps
  PROVE  Counted'
<1>1. IsFiniteSet(Users) /\ Cardinality(Users) = References
  BY DEF Counted
<1>2. CASE Takes(c)
  BY <1>1, <1>2, FS_AddElement DEF Takes, Counted
<1>3. CASE Gives(c)
  BY <1>1, <1>3, FS_RemoveElement DEF Gives, Counted
<1>4. CASE Keeps
  BY <1>1, <1>4 DEF Keeps, Counted
<1> QED
  BY <1>2, <1>3, <1>4

LEMMA CountFacts ==
  ASSUME Counted
  PROVE  /\ References \in Nat
         /\ Users = {} => References = 0
         /\ \A c \in Users : References <= 1 => References = 1 /\ Users = {c}
         /\ \A c \in Users : References > 1 => Users # {c}
<1>1. IsFiniteSet(Users) /\ Cardinality(Users) = References
  BY DEF Counted
<1>2. References \in Nat /\ (Users = {} <=> References = 0)
  BY <1>1, FS_CardinalityType, FS_EmptySet
<1>3. ASSUME NEW c \in Users, References <= 1 PROVE References = 1 /\ Users = {c}
  <2>1. References = 1
    BY <1>2, <1>3
  <2>2. IsFiniteSet(Users \ {c}) /\ Cardinality(Users \ {c}) = 0
    BY <1>1, <2>1, FS_RemoveElement
  <2>3. Users \ {c} = {}
    BY <2>2, FS_EmptySet
  <2> QED
    BY <2>1, <2>3
<1>4. ASSUME NEW c \in Users, References > 1 PROVE Users # {c}
  BY <1>1, <1>4, FS_Singleton
<1> QED
  BY <1>2, <1>3, <1>4

-----------------------------------------------------------------------------
(***************************************************************************)
(* The steps of callers that share a store.  Each keeps Locked, and takes  *)
(* or gives a reference of its caller or leaves them all.                  *)
(***************************************************************************)
\* A step of the caller in the call, or of one that begins a call with all idle.
Moves(c) == (pc[c] # "idle" \/ Quiet) /\ \E label : Goto(c, label)

LEMMA OneMoves ==
  ASSUME StoreInv, shared, TypeOK', shared' = shared, NEW c \in Callers, Moves(c)
  PROVE  /\ Local(c) /\ Users = HeldBy(c) /\ References = CountOf(c)
         /\ Users' = HeldBy(c)' /\ References' = CountOf(c)'
         /\ Local(c)' => Locked'
<1>1. TypeOK /\ Locked
  BY DEF StoreInv
<1>2. Others(c)
  BY <1>1, TheOne DEF Moves
<1>3. Others(c)'
  BY <1>1, <1>2 DEF Others, Moves, Goto, TypeOK
<1>4. Local(c) /\ Users = HeldBy(c) /\ References = CountOf(c)
  BY <1>1, <1>2, Localise
<1>5. Users' = HeldBy(c)' /\ References' = CountOf(c)' /\ (Local(c)' => Locked')
  BY <1>3, LocaliseNext
<1> QED
  BY <1>4, <1>5

\* What a step is to do.
Sound(c) == Locked' /\ (Takes(c) \/ Gives(c) \/ Keeps)

LEMMA BeginSound ==
  ASSUME StoreInv, shared, TypeOK', NEW c \in Callers, BeginEnsure(c) \/ BeginRelease(c)
  PROVE  Sound(c)
<1> USE DEF Lock, Goto, files, refcount, Local, InCall, HeldBy, CountOf, ReleasePCs
<1>1. Moves(c) /\ shared' = shared /\ pc[c] = "idle"
  BY DEF BeginEnsure, BeginRelease, Moves
<1>2. TypeOK /\ Local(c) /\ Users = HeldBy(c) /\ References = CountOf(c)
      /\ Users' = HeldBy(c)' /\ References' = CountOf(c)' /\ (Local(c)' => Locked')
  BY <1>1, OneMoves DEF StoreInv
<1>3. CASE BeginEnsure(c)
  <2>1. pc'[c] = "find" /\ holds' = holds
    BY <1>2, <1>3 DEF BeginEnsure, TypeOK
  <2>2. Local(c)'
    BY <1>1, <1>2, <1>3, <2>1 DEF BeginEnsure
  <2>3. Keeps
    BY <1>1, <1>2, <1>3, <2>1 DEF BeginEnsure, Keeps
  <2> QED
    BY <1>2, <2>2, <2>3 DEF Sound
<1>4. CASE BeginRelease(c)
  <2>1. pc'[c] = "rel_find" /\ holds' = holds \ {c} /\ c \in holds
    BY <1>2, <1>4 DEF BeginRelease, TypeOK
  <2>2. HeldBy(c)' = HeldBy(c)
    BY <1>1, <2>1
  <2>3. Local(c)'
    BY <1>1, <1>2, <1>4, <2>1, <2>2 DEF BeginRelease
  <2>4. Keeps
    BY <1>1, <1>2, <1>4, <2>1, <2>2 DEF BeginRelease, Keeps
  <2> QED
    BY <1>2, <2>3, <2>4 DEF Sound
<1> QED
  BY <1>3, <1>4

LEMMA EnsureSound ==
  ASSUME StoreInv, shared, TypeOK', NEW c \in Callers, ensure(c)
  PROVE  Sound(c)
<1> USE DEF Goto, Continue, Write, Return, Fail, files, refcount, EnsurePCs, ReleasePCs
<1>1. Moves(c) /\ shared' = shared /\ pc[c] # "idle"
  BY DEF ensure, EnsureFind, Stage, Unpack, UnpackFails, Rename, RenameFails, EnsureRead, Moves
<1>2. TypeOK /\ Counted /\ Local(c) /\ Users = HeldBy(c) /\ References = CountOf(c)
      /\ Users' = HeldBy(c)' /\ References' = CountOf(c)' /\ (Local(c)' => Locked')
  BY <1>1, OneMoves DEF StoreInv
<1>3. CASE EnsureFind(c)
  <2>1. pc[c] = "find" /\ pc'[c] = IF diff = "absent" THEN "stage" ELSE "read"
    BY <1>2, <1>3 DEF EnsureFind, TypeOK
  <2>3. Local(c)'
    BY <1>2, <1>3, <2>1 DEF EnsureFind, TypeOK, Local, InCall, HeldBy
  <2>4. Keeps
    BY <1>2, <1>3, <2>1 DEF EnsureFind, TypeOK, Keeps, Local, InCall, HeldBy, CountOf
  <2> QED
    BY <1>2, <2>3, <2>4 DEF Sound
<1>4. CASE Stage(c)
  <2>1. pc[c] = "stage" /\ pc'[c] = "unpack"
    BY <1>2, <1>4 DEF Stage, TypeOK
  <2>3. Local(c)'
    BY <1>2, <1>4, <2>1 DEF Stage, TypeOK, Local, InCall, HeldBy
  <2>4. Keeps
    BY <1>2, <1>4, <2>1 DEF Stage, TypeOK, Keeps, Local, InCall, HeldBy, CountOf
  <2> QED
    BY <1>2, <2>3, <2>4 DEF Sound
<1>5. CASE Unpack(c)
  <2>1. pc[c] = "unpack" /\ pc'[c] = "rename"
    BY <1>2, <1>5 DEF Unpack, TypeOK
  <2>3. Local(c)'
    BY <1>2, <1>5, <2>1 DEF Unpack, TypeOK, Local, InCall, HeldBy
  <2>4. Keeps
    BY <1>2, <1>5, <2>1 DEF Unpack, TypeOK, Keeps, Local, InCall, HeldBy, CountOf
  <2> QED
    BY <1>2, <2>3, <2>4 DEF Sound
<1>6. CASE UnpackFails(c)
  <2>1. pc[c] = "unpack" /\ pc'[c] = "idle" /\ holds' = holds \ {c}
    BY <1>2, <1>6 DEF UnpackFails, TypeOK
  <2>2. holds' = holds
    BY <1>2, <1>6, <2>1, CountFacts DEF UnpackFails, TypeOK, Local, InCall, HeldBy, CountOf
  <2>3. Local(c)'
    BY <1>2, <1>6, <2>1, <2>2 DEF UnpackFails, TypeOK, Local, InCall, HeldBy
  <2>4. Keeps
    BY <1>2, <1>6, <2>1, <2>2 DEF UnpackFails, TypeOK, Keeps, Local, InCall, HeldBy, CountOf
  <2> QED
    BY <1>2, <2>3, <2>4 DEF Sound
<1>7. CASE Rename(c)
  <2>1. pc[c] = "rename" /\ pc'[c] = "truncate" /\ next'[c] = 1
    BY <1>2, <1>7 DEF Rename, TypeOK
  <2>2. count = 0
    BY <1>2, <1>7, <2>1, CountFacts DEF Rename, TypeOK, Local, InCall, HeldBy, CountOf
  <2>3. Local(c)'
    BY <1>2, <1>7, <2>1, <2>2 DEF Rename, TypeOK, Local, InCall, HeldBy
  <2>4. Keeps
    BY <1>2, <1>7, <2>1, <2>2 DEF Rename, TypeOK, Keeps, Local, InCall, HeldBy, CountOf
  <2> QED
    BY <1>2, <2>3, <2>4 DEF Sound
<1>8. CASE RenameFails(c)
  <2>1. pc[c] = "rename" /\ pc'[c] = "idle" /\ holds' = holds \ {c}
    BY <1>2, <1>8 DEF RenameFails, TypeOK
  <2>2. holds' = holds
    BY <1>2, <1>8, <2>1, CountFacts DEF RenameFails, TypeOK, Local, InCall, HeldBy, CountOf
  <2>3. Local(c)'
    BY <1>2, <1>8, <2>1, <2>2 DEF RenameFails, TypeOK, Local, InCall, HeldBy
  <2>4. Keeps
    BY <1>2, <1>8, <2>1, <2>2 DEF RenameFails, TypeOK, Keeps, Local, InCall, HeldBy, CountOf
  <2> QED
    BY <1>2, <2>3, <2>4 DEF Sound
<1>9. CASE EnsureRead(c)
  <2>1. pc[c] = "read" /\ pc'[c] = "truncate" /\ next'[c] = count + 1
    BY <1>2, <1>9 DEF EnsureRead, ReadCount, TypeOK
  <2>3. Local(c)'
    BY <1>2, <1>9, <2>1 DEF EnsureRead, ReadCount, TypeOK, Local, InCall, HeldBy
  <2>4. Keeps
    BY <1>2, <1>9, <2>1 DEF EnsureRead, ReadCount, TypeOK, Keeps, Local, InCall, HeldBy, CountOf
  <2> QED
    BY <1>2, <2>3, <2>4 DEF Sound
<1> QED
  BY <1>3, <1>4, <1>5, <1>6, <1>7, <1>8, <1>9 DEF ensure

LEMMA ReleaseSound ==
  ASSUME StoreInv, shared, TypeOK', NEW c \in Callers, release(c)
  PROVE  Sound(c)
<1> USE DEF Goto, Continue, Write, Return, Fail, files, refcount, EnsurePCs, ReleasePCs
<1>1. Moves(c) /\ shared' = shared /\ pc[c] # "idle"
  BY DEF release, ReleaseFind, ReleaseRead, RemoveSome, RemoveDone, RemoveFails, Moves, TypeOK, StoreInv
<1>2. TypeOK /\ Counted /\ Local(c) /\ Users = HeldBy(c) /\ References = CountOf(c)
      /\ Users' = HeldBy(c)' /\ References' = CountOf(c)' /\ (Local(c)' => Locked')
  BY <1>1, OneMoves DEF StoreInv
<1>3. CASE ReleaseFind(c)
  <2>1. pc[c] = "rel_find" /\ pc'[c] = "rel_read"
    BY <1>2, <1>3 DEF ReleaseFind, Local, HeldBy, TypeOK
  <2>3. Local(c)'
    BY <1>2, <1>3, <2>1 DEF ReleaseFind, Local, HeldBy, TypeOK, Local, InCall, HeldBy
  <2>4. Keeps
    BY <1>2, <1>3, <2>1 DEF ReleaseFind, Local, HeldBy, TypeOK, Keeps, Local, InCall, HeldBy, CountOf
  <2> QED
    BY <1>2, <2>3, <2>4 DEF Sound
<1>4. CASE ReleaseRead(c) /\ count <= 1
  <2>1. pc[c] = "rel_read" /\ pc'[c] = "remove" /\ holds' = holds
    BY <1>2, <1>4 DEF ReleaseRead, ReadCount, TypeOK
  <2>2. count = 1 /\ holds = {} /\ c \notin holds
    BY <1>2, <1>4, <2>1, CountFacts DEF ReleaseRead, ReadCount, TypeOK, Local, InCall, HeldBy, CountOf
  <2>3. Local(c)'
    BY <1>2, <1>4, <2>1, <2>2 DEF ReleaseRead, ReadCount, TypeOK, Local, InCall, HeldBy
  <2>4. Gives(c)
    BY <1>2, <1>4, <2>1, <2>2 DEF ReleaseRead, ReadCount, TypeOK, Gives, Local, InCall, HeldBy, CountOf
  <2> QED
    BY <1>2, <2>3, <2>4 DEF Sound
<1>5. CASE ReleaseRead(c) /\ count > 1
  <2>1. pc[c] = "rel_read" /\ pc'[c] = "rel_truncate" /\ next'[c] = count - 1 /\ holds' = holds
    <3>1. count \in Nat /\ ~(count <= 1)
      BY <1>2, <1>5 DEF TypeOK
    <3>2. pc[c] = "rel_read" /\ Write(c, "rel_truncate", count - 1)
      BY <3>1, <1>5 DEF ReleaseRead, ReadCount
    <3> QED
      BY <1>2, <3>2 DEF TypeOK
  <2>3. Local(c)'
    BY <1>2, <1>5, <2>1 DEF ReleaseRead, ReadCount, TypeOK, Local, InCall, HeldBy
  <2>4. Keeps
    BY <1>2, <1>5, <2>1 DEF ReleaseRead, ReadCount, TypeOK, Keeps, Local, InCall, HeldBy, CountOf
  <2> QED
    BY <1>2, <2>3, <2>4 DEF Sound
<1>6. CASE RemoveSome(c)
  <2>1. pc[c] = "remove" /\ pc' = pc /\ holds' = holds
    BY <1>2, <1>6 DEF RemoveSome, TypeOK
  <2>2. HeldBy(c)' = {} /\ c \notin holds
    BY <1>2, <2>1, CountFacts DEF CountOf, Local, InCall, HeldBy
  <2>3. Local(c)'
    <3>1. diff' = "absent" \/ dir'
      BY <1>2, <1>6 DEF RemoveSome, Local, TypeOK
    <3>2. file' = "none" => count' = 0
      BY <1>2, <1>6 DEF RemoveSome, Local, TypeOK
    <3>3. kills = 0 => file' # "torn"
      BY <1>2, <1>6, <2>1 DEF RemoveSome, Local, TypeOK
    <3> QED
      BY <1>2, <1>6, <2>1, <2>2, <3>1, <3>2, <3>3 DEF RemoveSome, TypeOK, Local, InCall
  <2>4. Keeps
    BY <1>2, <1>6, <2>1 DEF RemoveSome, TypeOK, Keeps, Local, InCall, HeldBy, CountOf
  <2> QED
    BY <1>2, <2>3, <2>4 DEF Sound
<1>7. CASE RemoveDone(c)
  <2>1. pc[c] = "remove" /\ pc'[c] = "idle" /\ holds' = holds \ {c}
    BY <1>2, <1>7 DEF RemoveDone, TypeOK
  <2>2. holds' = holds /\ count = 0
    BY <1>2, <1>7, <2>1, CountFacts DEF RemoveDone, TypeOK, Local, InCall, HeldBy, CountOf
  <2>3. Local(c)'
    BY <1>2, <1>7, <2>1, <2>2 DEF RemoveDone, TypeOK, Local, InCall, HeldBy
  <2>4. Keeps
    BY <1>2, <1>7, <2>1, <2>2 DEF RemoveDone, TypeOK, Keeps, Local, InCall, HeldBy, CountOf
  <2> QED
    BY <1>2, <2>3, <2>4 DEF Sound
<1>8. ~RemoveFails(c)
  BY <1>1 DEF RemoveFails, StoreInv, Locked, Alone
<1>9. ReleaseRead(c) => count <= 1 \/ count > 1
  BY <1>2 DEF TypeOK
<1> QED
  BY <1>3, <1>4, <1>5, <1>6, <1>7, <1>8, <1>9 DEF release

LEMMA CountSound ==
  ASSUME StoreInv, shared, TypeOK', NEW c \in Callers, write_refcount(c) \/ CountUnreadable(c)
  PROVE  Sound(c)
<1> USE DEF Goto, Continue, Write, Return, Fail, files, refcount, EnsurePCs, ReleasePCs
<1>1. Moves(c) /\ shared' = shared /\ pc[c] # "idle"
  BY DEF write_refcount, Truncate, TruncateFails, WriteCount, WriteValue, CountUnreadable, Moves
<1>2. TypeOK /\ Counted /\ Local(c) /\ Users = HeldBy(c) /\ References = CountOf(c)
      /\ Users' = HeldBy(c)' /\ References' = CountOf(c)' /\ (Local(c)' => Locked')
  BY <1>1, OneMoves DEF StoreInv
<1>3. CASE CountUnreadable(c) /\ pc[c] = "read"
  <2>1. pc'[c] = "idle" /\ holds' = holds \ {c}
    BY <1>2, <1>3 DEF CountUnreadable, TypeOK
  <2>2. holds' = holds
    BY <1>2, <1>3, <2>1, CountFacts DEF CountUnreadable, TypeOK, Local, InCall, HeldBy, CountOf
  <2>3. Local(c)'
    BY <1>2, <1>3, <2>1, <2>2 DEF CountUnreadable, TypeOK, Local, InCall, HeldBy
  <2>4. Keeps
    BY <1>2, <1>3, <2>1, <2>2 DEF CountUnreadable, TypeOK, Keeps, Local, InCall, HeldBy, CountOf
  <2> QED
    BY <1>2, <2>3, <2>4 DEF Sound
<1>4. CASE CountUnreadable(c) /\ pc[c] = "rel_read"
  <2>1. pc'[c] = "idle" /\ holds' = holds \cup {c}
    BY <1>2, <1>4 DEF CountUnreadable, TypeOK
  <2>3. Local(c)'
    BY <1>2, <1>4, <2>1 DEF CountUnreadable, TypeOK, Local, InCall, HeldBy
  <2>4. Keeps
    BY <1>2, <1>4, <2>1 DEF CountUnreadable, TypeOK, Keeps, Local, InCall, HeldBy, CountOf
  <2> QED
    BY <1>2, <2>3, <2>4 DEF Sound
<1>5. CASE Truncate(c) /\ pc[c] = "truncate"
  <2>1. pc'[c] = "write" /\ next' = next /\ holds' = holds
    BY <1>2, <1>5 DEF Truncate, TypeOK
  <2>3. Local(c)'
    BY <1>2, <1>5, <2>1 DEF Truncate, TypeOK, Local, InCall, HeldBy
  <2>4. Keeps
    BY <1>2, <1>5, <2>1 DEF Truncate, TypeOK, Keeps, Local, InCall, HeldBy, CountOf
  <2> QED
    BY <1>2, <2>3, <2>4 DEF Sound
<1>6. CASE Truncate(c) /\ pc[c] = "rel_truncate"
  <2>1. pc'[c] = "rel_write" /\ next' = next /\ holds' = holds
    BY <1>2, <1>6 DEF Truncate, TypeOK
  <2>3. Local(c)'
    BY <1>2, <1>6, <2>1 DEF Truncate, TypeOK, Local, InCall, HeldBy
  <2>4. Keeps
    BY <1>2, <1>6, <2>1 DEF Truncate, TypeOK, Keeps, Local, InCall, HeldBy, CountOf
  <2> QED
    BY <1>2, <2>3, <2>4 DEF Sound
<1>7. CASE WriteCount(c) /\ pc[c] = "write"
  <2>1. pc'[c] = "idle" /\ holds' = holds \cup {c} /\ count' = count + 1
    BY <1>2, <1>7 DEF WriteCount, WriteValue, Local, InCall, TypeOK
  <2>2. c \notin holds
    BY <1>2, <1>7, <2>1, CountFacts DEF WriteCount, WriteValue, TypeOK, Local, InCall, HeldBy, CountOf
  <2>3. Local(c)'
    BY <1>2, <1>7, <2>1, <2>2 DEF WriteCount, WriteValue, TypeOK, Local, InCall, HeldBy
  <2>4. Takes(c)
    BY <1>2, <1>7, <2>1, <2>2 DEF WriteCount, WriteValue, TypeOK, Takes, Local, InCall, HeldBy, CountOf
  <2> QED
    BY <1>2, <2>3, <2>4 DEF Sound
<1>8. CASE WriteCount(c) /\ pc[c] = "rel_write"
  <2>1. pc'[c] = "idle" /\ holds' = holds \ {c} /\ count' = count - 1
    BY <1>2, <1>8 DEF WriteCount, WriteValue, Local, InCall, TypeOK
  <2>2. c \notin holds /\ holds # {}
    BY <1>2, <1>8, <2>1, CountFacts DEF WriteCount, WriteValue, TypeOK, Local, InCall, HeldBy, CountOf
  <2>3. Local(c)'
    BY <1>2, <1>8, <2>1, <2>2 DEF WriteCount, WriteValue, TypeOK, Local, InCall, HeldBy
  <2>4. Gives(c)
    BY <1>2, <1>8, <2>1, <2>2 DEF WriteCount, WriteValue, TypeOK, Gives, Local, InCall, HeldBy, CountOf
  <2> QED
    BY <1>2, <2>3, <2>4 DEF Sound
<1>9. ~TruncateFails(c)
  BY <1>2 DEF TruncateFails, Local, InCall, HeldBy
<1> QED
  BY <1>3, <1>4, <1>5, <1>6, <1>7, <1>8, <1>9 DEF write_refcount, CountUnreadable, Truncate, WriteCount, WriteValue

LEMMA CrashSound ==
  ASSUME StoreInv, shared, "release" \notin Killable[TRUE], TypeOK', NEW c \in Callers, Crash(c)
  PROVE  Sound(c)
<1> USE DEF Goto, Continue, Write, Return, Fail, files, refcount, EnsurePCs, ReleasePCs
<1>1. Moves(c) /\ shared' = shared /\ pc[c] # "idle"
  BY DEF Crash, Moves
<1>2. TypeOK /\ Counted /\ Local(c) /\ Users = HeldBy(c) /\ References = CountOf(c)
      /\ Users' = HeldBy(c)' /\ References' = CountOf(c)' /\ (Local(c)' => Locked')
  BY <1>1, OneMoves DEF StoreInv
<1>3. CASE Crash(c)
  <2>1. pc[c] \in EnsurePCs /\ pc'[c] = "idle" /\ holds' = holds /\ kills' > 0
    <3>1. shared = TRUE
      BY <1>2 DEF TypeOK
    <3>2. pc[c] \in EnsurePCs
      BY <1>3, <3>1 DEF Crash, CallOf
    <3> QED
      BY <1>2, <1>3, <3>2 DEF Crash, TypeOK
  <2>3. Local(c)'
    BY <1>2, <1>3, <2>1 DEF Crash, CallOf, StoreInv, TypeOK, Local, InCall, HeldBy
  <2>4. Keeps
    BY <1>2, <1>3, <2>1 DEF Crash, CallOf, StoreInv, TypeOK, Keeps, Local, InCall, HeldBy, CountOf
  <2> QED
    BY <1>2, <2>3, <2>4 DEF Sound
<1> QED
  BY <1>3 DEF Crash

-----------------------------------------------------------------------------
(***************************************************************************)
(* The invariant is inductive, and every step is one of the counter's.     *)
(***************************************************************************)
LEMMA StoreInit == Init => StoreInv
<1> SUFFICES ASSUME Init PROVE StoreInv
  OBVIOUS
<1>1. TypeOK
  BY TypeInit
<1>2. Users = {} /\ References = 0 /\ ~Removing
  BY DEF Init, Users, References, Removing, ReleasePCs
<1>3. Counted
  BY <1>2, FS_EmptySet DEF Counted
<1>4. Locked
  BY <1>2 DEF Init, Locked, Alone, OnDisk, Unharmed, InCall
<1> QED
  BY <1>1, <1>3, <1>4 DEF StoreInv

LEMMA SharedStep ==
  ASSUME "release" \notin Killable[TRUE], StoreInv, shared, Next
  PROVE  \E c \in Callers : Sound(c)
<1>1. TypeOK'
  BY TypeStep DEF StoreInv
<1>2. PICK c \in Callers :
        \/ BeginEnsure(c) \/ BeginRelease(c)
        \/ ensure(c) \/ release(c) \/ write_refcount(c) \/ CountUnreadable(c)
        \/ Crash(c)
  BY DEF Next
<1>3. Sound(c)
  BY <1>1, <1>2, BeginSound, EnsureSound, ReleaseSound, CountSound, CrashSound
<1> QED
  BY <1>3

LEMMA SharedStays == [Next]_vars => shared' = shared
<1> USE DEF Goto, Continue, Write, Fail, Return, refcount, files
<1>1. ASSUME NEW c \in Callers, BeginEnsure(c) \/ BeginRelease(c) \/ Crash(c) PROVE shared' = shared
  BY <1>1 DEF BeginEnsure, BeginRelease, Lock, Crash
<1>2. ASSUME NEW c \in Callers, ensure(c) PROVE shared' = shared
  BY <1>2 DEF ensure, EnsureFind, Stage, Unpack, UnpackFails, Rename, RenameFails, EnsureRead
<1>3. ASSUME NEW c \in Callers, release(c) PROVE shared' = shared
  BY <1>3 DEF release, ReleaseFind, ReleaseRead, RemoveSome, RemoveDone, RemoveFails
<1>4. ASSUME NEW c \in Callers, write_refcount(c) \/ CountUnreadable(c) PROVE shared' = shared
  BY <1>4 DEF write_refcount, CountUnreadable, Truncate, TruncateFails, WriteCount, WriteValue
<1> QED
  BY <1>1, <1>2, <1>3, <1>4 DEF Next, vars

LEMMA Stutters ==
  ASSUME StoreInv, shared, UNCHANGED vars
  PROVE  Keeps /\ Locked'
<1> USE DEF vars, files, refcount
<1>1. Keeps
  BY DEF Keeps, Users, References
<1>2. Alone' /\ OnDisk' /\ Unharmed'
  BY <1>1 DEF StoreInv, Locked, Alone, OnDisk, Unharmed, Removing, Keeps
<1>3. \A c \in Callers : InCall(c)'
  BY DEF StoreInv, Locked, InCall
<1> QED
  BY <1>1, <1>2, <1>3 DEF Locked

LEMMA StoreStep ==
  ASSUME "release" \notin Killable[TRUE]
  PROVE  StoreInv /\ [Next]_vars => StoreInv'
<1> SUFFICES ASSUME StoreInv, [Next]_vars PROVE StoreInv'
  OBVIOUS
<1>1. TypeOK' /\ shared' = shared
  BY TypeStep, SharedStays DEF StoreInv
<1>2. ASSUME shared PROVE Locked' /\ Counted'
  <2>1. CASE Next
    <3>1. PICK c \in Callers : Sound(c)
      BY <1>2, <2>1, SharedStep
    <3>2. Counted
      BY <1>2 DEF StoreInv
    <3> QED
      BY <3>1, <3>2, CountedStep DEF Sound
  <2>2. CASE UNCHANGED vars
    <3>1. Keeps /\ Locked'
      BY <1>2, <2>2, Stutters
    <3> QED
      BY <1>2, <3>1 DEF StoreInv, Counted, Keeps
  <2> QED
    BY <2>1, <2>2
<1> QED
  BY <1>1, <1>2 DEF StoreInv

LEMMA StoreInvImplies == StoreInv => LayerInv
<1> SUFFICES ASSUME StoreInv PROVE LayerInv
  OBVIOUS
<1>1. HeldIsComplete
  BY DEF HeldIsComplete, StoreInv, Locked, OnDisk, Users
<1>2. Reclaimed
  <2> SUFFICES ASSUME shared, kills = 0, Quiet, holds = {} PROVE diff = "absent" /\ file = "none"
    BY DEF Reclaimed
  <2>1. Users = {} /\ ~Removing
    BY DEF Quiet, Users, Removing, ReleasePCs
  <2>2. diff = "absent"
    BY <2>1 DEF StoreInv, Locked, Unharmed, Quiet
  <2> QED
    BY <2>1, <2>2 DEF StoreInv, Locked, OnDisk
<1> QED
  BY <1>1, <1>2 DEF LayerInv, StoreInv

LEMMA CounterInit == Init => C!Init
BY DEF Init, C!Init, Users, References, ReleasePCs

LEMMA CounterStep ==
  ASSUME "release" \notin Killable[TRUE]
  PROVE  StoreInv /\ [Next]_vars => [C!Next]_C!vars
<1> SUFFICES ASSUME StoreInv, [Next]_vars PROVE [C!Next]_C!vars
  OBVIOUS
<1>1. shared \in BOOLEAN /\ shared' = shared
  BY SharedStays DEF StoreInv, TypeOK
<1>2. CASE ~shared
  BY <1>1, <1>2 DEF Users, References, C!vars
<1>3. CASE UNCHANGED vars /\ shared
  BY <1>3, Stutters DEF Keeps, C!vars
<1>4. CASE Next /\ shared
  <2>1. PICK c \in Callers : Takes(c) \/ Gives(c) \/ Keeps
    BY <1>4, SharedStep DEF Sound
  <2>2. References \in Nat /\ (c \in Users => References # 0)
    BY <1>4, CountFacts DEF StoreInv
  <2>3. CASE Takes(c)
    BY <2>3 DEF Takes, C!Next, C!Ensure
  <2>4. CASE Gives(c)
    BY <2>2, <2>4 DEF Gives, C!Next, C!Release
  <2>5. CASE Keeps
    BY <2>5 DEF Keeps, C!vars
  <2> QED
    BY <2>1, <2>3, <2>4, <2>5
<1> QED
  BY <1>1, <1>2, <1>3, <1>4

-----------------------------------------------------------------------------
(***************************************************************************)
(* The theorems.                                                           *)
(***************************************************************************)
\* LayerStore::ensure and release, in which only ensure is killed: a held layer
\* is whole, and what nobody holds is removed.
THEOREM HeldAndReclaimed ==
  ASSUME "release" \notin Killable[TRUE]
  PROVE  Spec => []LayerInv
<1>1. Init => StoreInv
  BY StoreInit
<1>2. StoreInv /\ [Next]_vars => StoreInv'
  BY StoreStep
<1>3. StoreInv => LayerInv
  BY StoreInvImplies
<1> QED
  BY <1>1, <1>2, <1>3, PTL DEF Spec

\* The ten steps of LayerStore::ensure, and those of release, are one step each
\* of the counter that ContainerRuntime puts in their place.
THEOREM ImplementsLayerCount ==
  ASSUME "release" \notin Killable[TRUE]
  PROVE  Spec => CountsReferences
<1>1. Init => StoreInv /\ C!Init
  BY StoreInit, CounterInit
<1>2. StoreInv /\ [Next]_vars => StoreInv' /\ [C!Next]_C!vars
  BY StoreStep, CounterStep
<1> QED
  BY <1>1, <1>2, PTL DEF Spec, CountsReferences, C!Spec

=============================================================================
