--------------------------- MODULE CommandContract ---------------------------
(***************************************************************************)
(* What the delivery channel promises the server about each command,       *)
(* whatever gets lost and however often the client is restarted:           *)
(* delivered at least once, effective once, and never a final word to the  *)
(* server that is not the client's own.                                    *)
(***************************************************************************)
EXTENDS Integers

CONSTANTS N, Genuine   \* Genuine: the commands signed for this device

Commands == 1 .. N
Outcomes == {"APPLIED", "NOT_APPLICABLE", "REJECTED", "FAILED"}
Final == Outcomes \ {"FAILED"}

VARIABLES
    issued,    \* commands 1..issued exist
    settled,   \* the client's outcome for each command, "none" while open
    runs,      \* how often a command took effect
    verdict    \* the outcome the server holds

vars == <<issued, settled, runs, verdict>>

Init ==
    /\ issued = 0
    /\ settled = [c \in Commands |-> "none"]
    /\ runs = [c \in Commands |-> 0]
    /\ verdict = [c \in Commands |-> "none"]

Issue ==
    /\ issued < N
    /\ issued' = issued + 1
    /\ UNCHANGED <<settled, runs, verdict>>

\* A command may run again only while its outcome is open.
Run(c) ==
    /\ c <= issued
    /\ c \in Genuine
    /\ settled[c] = "none"
    /\ runs' = [runs EXCEPT ![c] = @ + 1]
    /\ UNCHANGED <<issued, settled, verdict>>

\* The outcome tells what happened: done means it ran, rejected means it
\* never could.
Settle(c, o) ==
    /\ c <= issued
    /\ settled[c] = "none"
    /\ o \in {"APPLIED", "NOT_APPLICABLE"} => runs[c] > 0
    /\ o = "REJECTED" => c \notin Genuine
    /\ settled' = [settled EXCEPT ![c] = o]
    /\ UNCHANGED <<issued, runs, verdict>>

\* Only a failure is taken back.
Retry(c) ==
    /\ settled[c] = "FAILED"
    /\ settled' = [settled EXCEPT ![c] = "none"]
    /\ UNCHANGED <<issued, runs, verdict>>

\* A final word reaches the server once, and only the one that stands;
\* an old failure may arrive late.
Report(c, o) ==
    /\ c <= issued
    /\ verdict[c] \notin Final
    /\ o \in Final => settled[c] = o
    /\ verdict' = [verdict EXCEPT ![c] = o]
    /\ UNCHANGED <<issued, settled, runs>>

Next ==
    \/ Issue
    \/ \E c \in Commands :
        \/ Run(c)
        \/ Retry(c)
        \/ \E o \in Outcomes : Settle(c, o) \/ Report(c, o)

Spec == Init /\ [][Next]_vars
=============================================================================
