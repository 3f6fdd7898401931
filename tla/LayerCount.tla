----------------------------- MODULE LayerCount -----------------------------
(***************************************************************************)
(* What LayerStore promises of one layer: each ensure that succeeds adds   *)
(* its caller's reference and each release takes it away, in single steps. *)
(***************************************************************************)
EXTENDS Naturals

CONSTANT Callers

VARIABLES
  refcount,  \* references counted
  users      \* the callers that have one

vars == <<refcount, users>>

Init == refcount = 0 /\ users = {}

Ensure(c) ==
  /\ c \notin users
  /\ users' = users \cup {c}
  /\ refcount' = refcount + 1

Release(c) ==
  /\ c \in users
  /\ users' = users \ {c}
  /\ refcount' = IF refcount = 0 THEN 0 ELSE refcount - 1

Next == \E c \in Callers : Ensure(c) \/ Release(c)

Spec == Init /\ [][Next]_vars
=============================================================================
