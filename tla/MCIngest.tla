------------------------------- MODULE MCIngest -------------------------------
(***************************************************************************)
(* Ingest on small instances: one place in the baskets, with all the       *)
(* faults of the configuration, or every place, with one fault.            *)
(***************************************************************************)
EXTENDS Ingest

VARIABLE places

InScope ==
  IF Cardinality(places) = 1 THEN \A p \in Paths \ places : lies[p] = 0
  ELSE faults <= 1

MCInit == Init /\ places \in {{CHOOSE p \in Paths : TRUE}, Paths}

MCNext == Next /\ UNCHANGED places /\ InScope'

\* No step that has to be taken is a fault or a file of the user's.
MCSpec == MCInit /\ [][MCNext]_<<vars, places>> /\ Fairness
===============================================================================
