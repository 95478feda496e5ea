------------------------------ MODULE RateLimit ------------------------------
(***************************************************************************)
(* The rate limit of the delivery channel, on a clock that people set.     *)
(*                                                                         *)
(* The queue of times is a set of commands with their times: the code      *)
(* never looks at its order. The limit lives as long as the channel; a     *)
(* restart begins with an empty one and is left out.                       *)
(***************************************************************************)
EXTENDS Integers, FiniteSets

CONSTANTS
    Limit,      \* MAX_COMMANDS_PER_MINUTE
    Window,     \* RATE_WINDOW
    MaxElapsed, \* bound on the time that passes
    MaxSet      \* bound on how far the clock is set in all, either way

ASSUME RateAssumption ==
    /\ {Limit, Window} \subseteq Nat \ {0}
    /\ {MaxElapsed, MaxSet} \subseteq Nat

VARIABLES
    elapsed,     \* the time that has really passed
    back, ahead, \* how far the clock was set back and ahead, in all
    applied,     \* the commands in the window
    taken        \* every command that took a place (not in the code)

rateVars == <<elapsed, back, ahead, applied, taken>>

\* Where a place was taken: by the clock on the wall, and really.
PlacesInWindow == [serial : Nat, wall : Int, real : Nat, back : Nat]

RateTypeOK ==
    /\ {elapsed, back, ahead} \subseteq Nat
    /\ taken \subseteq PlacesInWindow
    /\ applied \subseteq taken
    /\ IsFiniteSet(taken)
    /\ Cardinality(applied) <= Limit

RateInit ==
    /\ elapsed = 0 /\ back = 0 /\ ahead = 0
    /\ applied = {} /\ taken = {}

-----------------------------------------------------------------------------
Clock == elapsed - back + ahead

\* Mutant: what is newer than now falls out, too.
RetainPast(places, now) ==
    {c \in places : c.wall <= now /\ now - c.wall < Window}

\* Everything that does not lie in the window around now falls out.
Retain(places, now) ==
    {c \in places : now - c.wall < Window /\ c.wall - now < Window}

Free(places) == Cardinality(places) < Limit

Place == [serial |-> Cardinality(taken), wall |-> Clock, real |-> elapsed, back |-> back]

Take ==
    LET left == Retain(applied, Clock)
    IN  /\ IF Free(left)
           THEN /\ applied' = left \cup {Place}
                /\ taken' = taken \cup {Place}
           ELSE /\ applied' = left
                /\ UNCHANGED taken
        /\ UNCHANGED <<elapsed, back, ahead>>

TimePasses ==
    /\ elapsed < MaxElapsed
    /\ elapsed' = elapsed + 1
    /\ UNCHANGED <<back, ahead, applied, taken>>

SetBack ==
    /\ back < MaxSet
    /\ back' = back + 1
    /\ UNCHANGED <<elapsed, ahead, applied, taken>>

SetAhead ==
    /\ ahead < MaxSet
    /\ ahead' = ahead + 1
    /\ UNCHANGED <<elapsed, back, applied, taken>>

RateNext == Take \/ TimePasses \/ SetBack \/ SetAhead

RateSpec == RateInit /\ [][RateNext]_rateVars

-----------------------------------------------------------------------------
(* Properties *)

\* The commands carried out in the window that ends now, in real time.
Recent == {c \in taken : elapsed - c.real < Window}

\* No more than Limit commands are carried out in any stretch of the length of
\* the window, as long as the clock is never set ahead and is set back by less
\* than the window in all (RateLimit::take).
LimitHolds == (ahead = 0 /\ back < Window) => Cardinality(Recent) <= Limit
=============================================================================
