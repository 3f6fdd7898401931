------------------------ MODULE MCContainerRuntime ------------------------
(***************************************************************************)
(* Small instances of ContainerRuntime for TLC.                            *)
(***************************************************************************)
EXTENDS ContainerRuntime, TLC

CONSTANTS c1, c2, c3

\* Two containers of different names, or two drawn for the same name.
TwoOfOneName == [c \in Containers |-> IF c = c3 THEN "db2" ELSE "db1"]

\* All containers come from one image and share its layers.
SharedLayers == [c \in Containers |-> Layers]

\* A third session is looked at while nothing has been killed.
Busy == {s \in Sessions : pc[s] # "idle"}
FewAfterFaults == faults = 0 \/ Cardinality(Busy) < 3

\* Sessions and pids are interchangeable; for safety only.
Symmetry == Permutations(Sessions) \cup Permutations(Pids)
=============================================================================
