----------------------------- MODULE MCNamespace -----------------------------
(***************************************************************************)
(* Namespace on a small tree: an archive 4 with a case file 3, and a saved *)
(* search 5; document "d" in the case file and in the search.              *)
(***************************************************************************)
EXTENDS Namespace

MCParent == <<3, 5, 4, 6, 6, 6>>
MCLooks == <<{"a", "b"}, {"a"}, {"a"}, {"a"}, {"a"}>>
MCDocOf == <<"d", "d", "none", "none", "none">>
=============================================================================
