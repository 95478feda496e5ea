---------------------------- MODULE MCReconcile ----------------------------
(***************************************************************************)
(* Reconcile on small instances: documents 1 and 2 in a case file 3 in the *)
(* fixed folder 4, and the root 5.                                         *)
(***************************************************************************)
EXTENDS Reconcile

MCParent == <<3, 3, 4, 5, 5>>
MCFolders == {3, 4}
=============================================================================
