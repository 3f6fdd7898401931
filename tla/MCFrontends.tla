---------------------------- MODULE MCFrontends ----------------------------
(* The frontends with two starts in the background, a line and a half on     *)
(* stdout, an unfinished one on stderr, and two requests.                   *)
EXTENDS Frontends
=============================================================================
