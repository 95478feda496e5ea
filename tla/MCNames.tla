------------------------------- MODULE MCNames -------------------------------
(***************************************************************************)
(* Names and RateLimit, which share nothing, side by side: a behaviour is  *)
(* one of the two.                                                         *)
(***************************************************************************)
EXTENDS Names, RateLimit

VARIABLE part

\* The hint and a document may want one name; the last title reads like a short form.
MCTitles   == {<<"h">>, <<"y">>, <<"h", 1>>}
MCUserNames == {<<"h">>, <<"y">>}
MCHintName == <<"h">>

MCInit == part \in {"names", "rate"} /\ NamesInit /\ RateInit

MCNext ==
    \/ part = "names" /\ NamesNext /\ UNCHANGED <<rateVars, part>>
    \/ part = "rate" /\ RateNext /\ UNCHANGED <<namesVars, part>>

MCSpec == MCInit /\ [][MCNext]_<<namesVars, rateVars, part>>
=============================================================================
