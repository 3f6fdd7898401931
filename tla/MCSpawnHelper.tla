--------------------------- MODULE MCSpawnHelper ---------------------------
(***************************************************************************)
(* Small instances of SpawnHelper and Confinement for TLC.                 *)
(***************************************************************************)
EXTENDS SpawnHelper

\* The capabilities that matter, and one that is newer than the program.
FewCaps == {"CHOWN", "SETUID", "SETGID", "SETPCAP", "SYS_ADMIN"}
NewerKernel == FewCaps \cup {"NEWER"}
=============================================================================
