---------------------------- MODULE MCImageStore ----------------------------
(***************************************************************************)
(* Small instances of ImageStore for TLC: two versions of one reference,   *)
(* each with a layer, and a version of a second one that has both layers.  *)
(* The first reference has two spellings, with its tag and without; the    *)
(* second spelling is used only where commands wait for each other.        *)
(***************************************************************************)
EXTENDS ImageStore, TLC

CONSTANTS r1, r2, plain, tagged, other, v1, v2, w1, a, b

TwoOfOne == [w \in Spellings |-> IF w = other THEN r2 ELSE r1]

TwoRefs == [v \in Versions |-> IF v = w1 THEN r2 ELSE r1]

SharedLayer == [v \in Versions |-> IF v = v1 THEN {a} ELSE IF v = v2 THEN {b} ELSE {a, b}]

Both == BOOLEAN
OneKillIfSerial == [serially \in BOOLEAN |-> IF serially THEN 1 ELSE 0]

\* The spelling `tagged` is for commands that wait for each other.
OneSpellingAtOnce ==
  serial \/ \A s \in Sessions : job[s].w # tagged

\* Sessions are interchangeable; for safety only.
Symmetry == Permutations(Sessions)
=============================================================================
