------------------------------- MODULE MCKeySet -------------------------------
(***************************************************************************)
(* KeySet on small instances.                                              *)
(***************************************************************************)
EXTENDS KeySet
===============================================================================
