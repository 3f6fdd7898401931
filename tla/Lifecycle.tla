------------------------------ MODULE Lifecycle ------------------------------
(***************************************************************************)
(* What the runtime promises about one container, without sessions or      *)
(* files: its state moves along the edges of a graph, one engine at most   *)
(* serves it, an engine is spawned only while it is Starting, and none is  *)
(* left once it is Stopped or gone.                                        *)
(***************************************************************************)
CONSTANTS
  Containers,
  Edges       \* the edges a container may move along, as pairs of states

VARIABLES
  state,      \* the state a reader of the container's metadata sees
  serving     \* whether an engine that has not been killed serves it

vars == <<state, serving>>

\* A container that was never created or has been destroyed is "Absent".
States == {"Absent", "Created", "Starting", "Running", "Stopping", "Stopped"}

TypeOK ==
  /\ state \in [Containers -> States]
  /\ serving \in [Containers -> BOOLEAN]

Quiet == {"Absent", "Created", "Stopped"}

Init ==
  /\ state = [c \in Containers |-> "Absent"]
  /\ serving = [c \in Containers |-> FALSE]

Move(c) ==
  \E to \in States :
    /\ <<state[c], to>> \in Edges
    /\ to \in Quiet => ~serving[c]
    /\ state' = [state EXCEPT ![c] = to]
    /\ UNCHANGED serving

Serve(c) ==
  /\ state[c] = "Starting"
  /\ ~serving[c]
  /\ serving' = [serving EXCEPT ![c] = TRUE]
  /\ UNCHANGED state

\* Engines exit or are killed; all of them at once when the host restarts.
Die(S) ==
  /\ serving' = [c \in Containers |-> serving[c] /\ c \notin S]
  /\ UNCHANGED state

Next ==
  \/ \E c \in Containers : Move(c) \/ Serve(c)
  \/ \E S \in SUBSET Containers : Die(S)

Spec == Init /\ [][Next]_vars
=============================================================================
