------------------------------ MODULE MCOpening ------------------------------
(***************************************************************************)
(* Opening on a small instance: a document whose first version is a chunk  *)
(* and a rest, and whose second is a rest only.                            *)
(***************************************************************************)
EXTENDS Opening

TwoVersions == <<3, 1>>
===============================================================================
