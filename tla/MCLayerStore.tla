---------------------------- MODULE MCLayerStore ----------------------------
(***************************************************************************)
(* Small instances of LayerStore for TLC.                                  *)
(***************************************************************************)
EXTENDS LayerStore, TLC

\* Sharing a LayerStore as its unit tests do, which stands as well for commands
\* that do not overlap; or not, as RuntimeService::layer_store has it.
Both == BOOLEAN

\* A kill of release leaves a half-removed layer, and nothing is claimed of it
\* with one LayerStore either.
EnsureWhenShared == [b \in BOOLEAN |-> IF b THEN {"ensure"} ELSE Calls]

\* Callers are interchangeable; for safety only.
Symmetry == Permutations(Callers)
=============================================================================
