------------------------------- MODULE Names -------------------------------
(***************************************************************************)
(* What the entries of one folder are called, and how a folder on Windows  *)
(* follows when their names change.                                        *)
(*                                                                         *)
(* A title is free text of the server.  Entries whose names would be equal *)
(* are told apart by the short form of their identifiers; the store takes  *)
(* a listing only without equal names; a report becomes a plan in which    *)
(* every entry that is renamed goes through a staging name; after a        *)
(* restart a folder is compared with the listing by name.                  *)
(*                                                                         *)
(* A name is what a file system takes of a title, and the short forms      *)
(* behind it; a title may itself read like a name that was made up.        *)
(* Spelling, kinds and sizes are left out.  Reports, erasures and listings *)
(* that run side by side are in module Mirror.                             *)
(***************************************************************************)
EXTENDS Naturals, Sequences

CONSTANTS Siblings,      \* the entries of the folder, in their order
          Titles,        \* what a title is without what no file system takes
          HintFile,      \* the hint of a list that was cut short
          HintName,      \* what the hint is called
          None,          \* not there
          TheUser,       \* whose file a file is that is no placeholder
          UserNames,     \* what the user calls his files
          MaxListings, MaxOpen, MaxDropped, MaxEnds

ASSUME NamesAssumption ==
    /\ Siblings \subseteq Nat /\ HintFile \in Nat \ Siblings
    /\ HintName \in Titles /\ Len(HintName) = 1
    /\ \A t \in Titles : Len(t) \in Nat \ {0} /\ t = [i \in 1 .. Len(t) |-> t[i]] /\ t[1] # None
    /\ UserNames \subseteq Titles
    /\ None \notin Titles /\ {None, TheUser} \cap (Siblings \cup {HintFile}) = {}
    /\ TheUser # None
    /\ {MaxListings, MaxOpen, MaxDropped, MaxEnds} \subseteq Nat

Shown == Siblings \cup {HintFile}

VARIABLES
    titles,     \* the answer the stored listing came from
    listed,     \* the stored listing: the name of each entry
    under,      \* what lies under each name: whose placeholder
    placed,     \* the map in memory: the name of each entry
    filled,     \* whether the map knows the folder
    steps,      \* what is left of a report
    listings, opened, dropped, ends,
    (* not in the code *)
    met         \* entries of which a step was refused, and who is to have their name

namesVars == <<titles, listed, under, placed, filled, steps, listings, opened, dropped, ends, met>>
-----------------------------------------------------------------------------
(* Mutant: the first of two equal names is kept as it is. *)
ClashesBehind(answer, e) ==
    \E f \in Shown \ {e} : answer[f] = answer[e] /\ f < e

(* Another entry would be called the same, or the hint is. *)
Clashes(answer, e) == \E f \in Shown \ {e} : answer[f] = answer[e]

(* All parties to a clash get their short form; the name of the hint stands. *)
NameOf(answer, e) ==
    IF answer[e] # None /\ e # HintFile /\ Clashes(answer, e)
    THEN Append(answer[e], e) ELSE answer[e]

NamesOf(answer) == [e \in Shown |-> NameOf(answer, e)]

(* The check of the store. *)
Accepted(listing) ==
    \A e, f \in Shown : e # f /\ listing[e] # None => listing[e] # listing[f]

Answers == {a \in [Shown -> Titles \cup {None}] : a[HintFile] \in {HintName, None}}
ListedNames  == Titles \cup {Append(t, e) : t \in Titles, e \in Siblings}
Staging == {<<None, e, p>> : e \in Shown, p \in 0..MaxEnds}  \* of each run of the process
Spots   == ListedNames \cup Staging

ASSUME SpotsAssumption == None \notin Spots

InNames == [e \in Shown |-> None]

NamesInit ==
    /\ titles = InNames /\ listed = InNames
    /\ under = [n \in Spots |-> None]
    /\ placed = InNames /\ filled = FALSE /\ steps = {}
    /\ listings = 0 /\ opened = 0 /\ dropped = 0 /\ ends = 0
    /\ met = {}
-----------------------------------------------------------------------------
(* The plan of a report: removals, both stages of every rename, creations. *)
ToDo(do, ids) == {[do |-> do, id |-> e] : e \in ids}

Gone(old, new)    == {e \in Shown : old[e] # None /\ new[e] = None /\ placed[e] # None}
Wanted(old, new)  == {e \in Shown : new[e] \notin {old[e], None}}
Renamed(old, new) == {e \in Wanted(old, new) : placed[e] \notin {None, new[e]}}
Created(old, new) == {e \in Wanted(old, new) : placed[e] = None}

(* Mutant: a rename in one stage. *)
PlanDirect(old, new) ==
    ToDo("remove", Gone(old, new)) \cup ToDo("final", Renamed(old, new))
        \cup ToDo("create", Created(old, new))

Planned(old, new) ==
    ToDo("remove", Gone(old, new)) \cup ToDo("stage", Renamed(old, new))
        \cup ToDo("final", Renamed(old, new)) \cup ToDo("create", Created(old, new))

Turn == [remove |-> 0, stage |-> 1, final |-> 2, create |-> 3]

(* The step that comes next: kind by kind, and in the order of the entries. *)
IsNext(s) ==
    /\ s \in steps
    /\ \A t \in steps \ {s} : Turn[s.do] < Turn[t.do] \/ (s.do = t.do /\ s.id < t.id)

(* The places that entries in met hold, in the map or on disk, are wanted: *)
(* who is to have them is not shown for certain either.                    *)
Wanting(new) ==
    {e \in Shown : new[e] # None /\ (under[new[e]] \in met \/ \E f \in met : placed[f] = new[e])}

(* A listing is fetched, named and stored, or refused as a whole. *)
AdoptListing(answer) ==
    /\ steps = {} /\ listings < MaxListings
    /\ listings' = listings + 1
    /\ answer # titles
    /\ LET new == NamesOf(answer)
       IN IF Accepted(new)
          THEN /\ titles' = answer /\ listed' = new
               /\ steps' = IF filled THEN Planned(listed, new) ELSE {}
               /\ met' = met \cup Wanting(new)
          ELSE UNCHANGED <<titles, listed, steps, met>>
    /\ UNCHANGED <<under, placed, filled, opened, dropped, ends>>

Moved(from, to) ==
    IF from = to THEN under ELSE [under EXCEPT ![to] = under[from], ![from] = None]

StepDone(s) ==
    /\ steps' = steps \ {s}
    /\ UNCHANGED <<titles, listed, filled, listings, dropped, ends>>

(* Windows refuses a placeholder under a name that is not free. *)
Create(e) ==
    IF under[listed[e]] = None
    THEN /\ under' = [under EXCEPT ![listed[e]] = e]
         /\ placed' = [placed EXCEPT ![e] = listed[e]]
    ELSE UNCHANGED <<under, placed>>

(* A rename replaces what lies under the new name, and moves whatever lies *)
(* under the old one; with nothing there it fails and the map stays.       *)
Rename(e, to) ==
    IF under[placed[e]] = None THEN UNCHANGED <<under, placed>>
    ELSE under' = Moved(placed[e], to) /\ placed' = [placed EXCEPT ![e] = to]

RunStep(s) ==
    /\ IsNext(s)
    /\ \/ /\ s.do = "remove"
          /\ under' = [under EXCEPT ![placed[s.id]] = None]
          /\ placed' = [placed EXCEPT ![s.id] = None]
       \/ s.do = "stage"  /\ Rename(s.id, <<None, s.id, ends>>)
       \/ s.do = "final"  /\ Rename(s.id, listed[s.id])
       \/ s.do = "create" /\ Create(s.id)
    /\ StepDone(s)
    /\ UNCHANGED <<opened, met>>

(* A program holds a file open, or Windows refuses the placeholder; the     *)
(* step is lost and the next one is run.                                    *)
StepLost(s) ==
    /\ IsNext(s)
    /\ opened < MaxOpen
    /\ opened' = opened + 1
    /\ met' = met \cup {s.id} \cup {f \in Shown : listed[f] # None /\ listed[f] = placed[s.id]}
    /\ StepDone(s)
    /\ UNCHANGED <<under, placed>>
-----------------------------------------------------------------------------
(* Mutant: what is no placeholder goes, too. *)
ReconciledAll(n) ==
    LET wanted == {e \in Shown : listed[e] = n}
    IN  IF wanted = {} THEN None ELSE CHOOSE e \in wanted : TRUE

(* What is free is handed over; a placeholder under a name of the listing   *)
(* becomes that entry; other placeholders go; what is no placeholder stays. *)
Reconciled(n) ==
    LET wanted == {e \in Shown : listed[e] = n}
    IN  IF under[n] = TheUser THEN TheUser
        ELSE IF wanted = {} THEN None
        ELSE CHOOSE e \in wanted : TRUE

(* Where something is to be changed: a program may hold the placeholder     *)
(* there open, or Windows refuse the new one.                               *)
Refusable ==
    {n \in Spots : under[n] \in Shown \/ (under[n] = None /\ \E e \in Shown : listed[e] = n)}

(* The entries whose placeholder was refused its change, or whose name holds *)
(* what was.                                                                 *)
HeldUp(refused) ==
    {e \in Shown : \E n \in refused : under[n] = e \/ listed[e] = n}

(* The folder is opened and Windows asks for its listing; a refusal is only *)
(* logged. The map carries what was listed, whether the name was free or    *)
(* not, and whether it was refused or not.                                  *)
OpenFolder ==
    /\ ~filled
    /\ filled' = TRUE
    /\ \E refused \in SUBSET Refusable :
           /\ \/ refused = {} /\ UNCHANGED opened
              \/ refused # {} /\ opened < MaxOpen /\ opened' = opened + 1
           /\ under' = [n \in Spots |-> IF n \in refused THEN under[n] ELSE Reconciled(n)]
           /\ met' = HeldUp(refused)
    /\ placed' = listed
    /\ UNCHANGED <<titles, listed, steps, listings, dropped, ends>>

(* The user puts a file of his own into the folder: nothing prevents it. *)
DropFile(n) ==
    /\ under[n] = None /\ dropped < MaxDropped
    /\ dropped' = dropped + 1
    /\ under' = [under EXCEPT ![n] = TheUser]
    /\ UNCHANGED <<titles, listed, placed, filled, steps, listings, opened, ends, met>>

(* The process ends, also in the middle of a report. *)
ProcessEnds ==
    /\ ends < MaxEnds /\ filled
    /\ ends' = ends + 1
    /\ filled' = FALSE /\ placed' = InNames /\ steps' = {}
    /\ UNCHANGED <<titles, listed, under, listings, opened, dropped, met>>

NamesNext ==
    \/ \E a \in Answers : AdoptListing(a)
    \/ \E s \in steps : RunStep(s) \/ StepLost(s)
    \/ OpenFolder \/ ProcessEnds
    \/ \E n \in UserNames : DropFile(n)

NamesSpec == NamesInit /\ [][NamesNext]_namesVars
-----------------------------------------------------------------------------
NamesTypeOK ==
    /\ titles \in Answers
    /\ listed \in [Shown -> ListedNames \cup {None}]
    /\ under \in [Spots -> Shown \cup {None, TheUser}]
    /\ placed \in [Shown -> Spots \cup {None}]
    /\ filled \in BOOLEAN
    /\ steps \subseteq [do : DOMAIN Turn, id : Shown]
    /\ met \subseteq Shown

NamesAtRest == filled /\ steps = {}

(* Once a report is worked off every entry lies under its name, through     *)
(* swaps and chains of names, restarts and folders opened again: except     *)
(* those of which a step was refused, and those whose name is taken by such *)
(* an entry, by its placeholder or by a file of the user's.                 *)
ShownAsListed ==
    NamesAtRest => \A e \in Shown \ met :
        listed[e] # None =>
            under[listed[e]] \in {e, TheUser}

(* No placeholder lies where no listing has it, with the same exceptions. *)
NothingElse ==
    NamesAtRest =>
        \A n \in Spots : under[n] \in Shown \ met => listed[under[n]] = n

(* What holds of the folder: the names lie where the listing puts them. *)
NamesInv == NamesTypeOK /\ ShownAsListed /\ NothingElse

(* A file of the user's stays: "it stays, it belongs to them" (callback.rs).*)
(* Two things take it away all the same: a rename onto its name, and a step *)
(* for an entry that a listing placed under its name.                       *)
UserFileStays ==
    [][\A n \in Spots : under[n] = TheUser /\ under'[n] # TheUser =>
           \E s \in steps : IsNext(s) /\ (placed[s.id] = n \/ (s.do = "final" /\ listed[s.id] = n))
    ]_namesVars

(* The same without the exceptions. *)
EveryUserFileStays == [][\A n \in Spots : under[n] = TheUser => under'[n] = TheUser]_namesVars

(* A name does not wander from one entry to another that keeps its title:   *)
(* "all parties involved get the short form" (filename.rs, rule 6). Only a  *)
(* title that reads like a made-up name can bring that about.               *)
PlainTitles(a) == \A e \in Siblings : a[e] = None \/ Len(a[e]) = 1
NamesStay ==
    [][PlainTitles(titles) /\ PlainTitles(titles') =>
           \A e, f \in Siblings :
               e # f /\ titles[f] # None /\ titles'[f] = titles[f] /\ listed[e] # None
               => listed'[f] # listed[e]]_namesVars
=============================================================================
