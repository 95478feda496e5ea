------------------------------ MODULE MCMirror ------------------------------
(***************************************************************************)
(* Mirror on small instances: a behaviour is about one document, within    *)
(* the bounds of the configuration, or about several of one version, with  *)
(* one listing adopted and no restart.                                     *)
(***************************************************************************)
EXTENDS Mirror, TLC

VARIABLE about

\* No document is told from another.
Symmetry == Permutations(Docs)

Untouched(d) == entry[d] = Absent /\ disk[d] = Absent /\ erasing # d

First == CHOOSE v \in Versions : TRUE

InScope ==
    IF Cardinality(about) = 1
    THEN \A d \in Docs \ about : Untouched(d)
    ELSE /\ changes <= 1 /\ restarts = 0
         /\ \A d \in Docs : /\ entry[d] \in {First, Absent}
                            /\ disk[d] = Absent \/ disk[d].look = First
                            /\ loading[d] = Nothing

MCInit == Init /\ about \in {{d} : d \in Docs} \cup {Docs} /\ InScope

MCNext == Next /\ UNCHANGED about /\ InScope'

MCSpec == MCInit /\ [][MCNext]_<<vars, about>>
=============================================================================
