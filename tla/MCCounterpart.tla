--------------------------- MODULE MCCounterpart ---------------------------
(***************************************************************************)
(* Two servers: a workstation that is pointed away and back, fresh or      *)
(* enrolled before there was a seal.                                       *)
(***************************************************************************)
EXTENDS Counterpart
=============================================================================
