---------------------------- MODULE MCDataVolume ----------------------------
(***************************************************************************)
(* Small instances of DataVolume for TLC.                                  *)
(***************************************************************************)
EXTENDS DataVolume, TLC

\* Sessions are interchangeable; for safety only.
Symmetry == Permutations(Sessions)
=============================================================================
