-------------------------- MODULE MCNetworkWiring --------------------------
(***************************************************************************)
(* A small instance of NetworkWiring for TLC: two containers with the same *)
(* address and port, and one whose port list is no good.  A third session  *)
(* matters where it starts the container of the other two, and is looked   *)
(* at there only, without faults.                                          *)
(***************************************************************************)
EXTENDS NetworkWiring, TLC

FewContainers == {"db", "twin", "twice"}
OneAddress == [c \in FewContainers |-> "10.20.0.7"]
SomePorts == [c \in FewContainers |-> IF c = "twice" THEN <<3306, 3306>> ELSE <<3306>>]

Started == {s \in Sessions : pc[s] # "idle"}
FewStarts == Cardinality(Started) < 3 \/ (faults = 0 /\ \A s \in Started : of[s] \in Limited)

AnySession == Permutations(Sessions)
=============================================================================
