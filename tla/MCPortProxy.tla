---------------------------- MODULE MCPortProxy ----------------------------
(***************************************************************************)
(* A small instance of PortProxy for TLC.                                  *)
(***************************************************************************)
EXTENDS PortProxy
=============================================================================
