-------------------------------- MODULE Mirror --------------------------------
(***************************************************************************)
(* The mirror on Windows: how one folder on disk follows the store.        *)
(*                                                                         *)
(* The engine changes its table under a lock and reports the difference    *)
(* afterwards, outside it; the mirror plans its steps under the lock of    *)
(* its map and carries them out without it. Windows asks for the listing   *)
(* of the folder once, when it is opened for the first time. An erasure    *)
(* releases and removes the document where it lies, then erases it from    *)
(* the table, reports that and answers the server.                         *)
(*                                                                         *)
(* Opening a file reads the listed version, fetches it from the server and *)
(* delivers it afterwards, while the tasks go on. What Windows refuses (a  *)
(* step on an open file, a placeholder) is logged and not tried again.     *)
(*                                                                         *)
(* Abstracted: an entry looks like the version of its document; the names  *)
(* and the two stages of a rename are left out, and so are subfolders,     *)
(* pins, and files that are no placeholders.                               *)
(***************************************************************************)
EXTENDS Integers, FiniteSets

CONSTANTS
    Docs,
    Versions,
    Absent,
    Nothing,      \* no content is loaded
    Adopters,     \* the tasks that adopt listings side by side
    Delivery,     \* the task that carries out erasures
    OpenedBefore, \* whether the folder starts opened
    AsksAgain,    \* whether Windows asks for it again after a restart
    MaxChanges,   \* bound on the listings adopted
    MaxRefusals,  \* bound on what Windows refuses
    MaxRestarts

Tasks == Adopters \cup {Delivery}
Looks == Versions \cup {Absent}
Placeholder == [look : Versions, content : Versions \cup {Nothing}]

ASSUME MirrorAssumption ==
    /\ Absent \notin Versions
    /\ Nothing \notin Versions
    /\ \A p \in Placeholder : p # Absent
    /\ Delivery \notin Adopters
    /\ {OpenedBefore, AsksAgain} \subseteq BOOLEAN
    /\ {MaxChanges, MaxRefusals, MaxRestarts} \subseteq Nat

VARIABLES
    (* the store *)
    entry, erased,
    (* the folder on disk, and whether Windows asks for its listing *)
    disk, asks,
    (* the map in memory *)
    known, populated,
    (* the tasks: what each has to report, and its steps *)
    at, before, after, step,
    (* the callback that hands a listing over *)
    listing, should, follow,
    (* the erasures *)
    erasing, clean, order,
    (* the loads: the version each is fetching *)
    loading,
    (* not in the code: the documents two tasks were at together or of     *)
    (* which Windows refused something; those changed while the folder was *)
    (* not populated; those whose load an update overtook                  *)
    disturbed, unheard, overtaken,
    (* the bounds *)
    changes, refusals, restarts

storeVars == <<entry, erased>>
diskVars == <<disk, asks, loading>>
mapVars == <<known, populated>>
taskVars == <<at, before, after, step>>
listVars == <<listing, should, follow>>
erasureVars == <<erasing, clean, order>>
ghostVars == <<disturbed, unheard, overtaken>>
boundVars == <<changes, refusals, restarts>>
vars == <<storeVars, diskVars, mapVars, taskVars, listVars, erasureVars, ghostVars,
          boundVars>>

Steps == {"none", "remove", "removed", "update", "discard", "create", "created"}

TypeOK ==
    /\ entry \in [Docs -> Looks]
    /\ erased \subseteq {d \in Docs : entry[d] = Absent}
    /\ disk \in [Docs -> Placeholder \cup {Absent}]
    /\ asks \in BOOLEAN
    /\ loading \in [Docs -> Versions \cup {Nothing}]
    /\ known \subseteq Docs
    /\ populated \in BOOLEAN
    /\ at \in [Tasks -> {"idle", "release", "remove", "removed", "erase", "report", "steps"}]
    /\ {before, after} \subseteq [Tasks -> [Docs -> Looks]]
    /\ step \in [Tasks -> [Docs -> Steps]]
    /\ listing \in {"idle", "read", "handed", "following"}
    /\ should \in [Docs -> Looks]
    /\ follow \subseteq Docs
    /\ erasing \in Docs
    /\ clean \in BOOLEAN
    /\ order \in [Docs -> {"none", "failed", "applied"}]

NoEntries == [d \in Docs |-> Absent]

\* Opened before: disk, map and table agree. Otherwise the folder may still
\* hold what an earlier session left, and the map is empty.
Init ==
    /\ entry \in [Docs -> Looks]
    /\ erased = {}
    /\ IF OpenedBefore
       THEN /\ disk \in [Docs -> Placeholder \cup {Absent}]
            /\ \A d \in Docs : IF entry[d] = Absent THEN disk[d] = Absent
                               ELSE disk[d] # Absent /\ disk[d].look = entry[d]
                                        /\ disk[d].content \in {entry[d], Nothing}
            /\ known = {d \in Docs : entry[d] # Absent}
       ELSE /\ disk \in [Docs -> [look : Versions, content : {Nothing}] \cup {Absent}]
            /\ known = {}
    /\ populated = OpenedBefore
    /\ asks = ~OpenedBefore
    /\ at = [r \in Tasks |-> "idle"]
    /\ before = [r \in Tasks |-> NoEntries]
    /\ after = [r \in Tasks |-> NoEntries]
    /\ step = [r \in Tasks |-> [d \in Docs |-> "none"]]
    /\ listing = "idle" /\ should = NoEntries /\ follow = {}
    /\ erasing \in Docs /\ clean = TRUE
    /\ order = [d \in Docs |-> "none"]
    /\ loading = [d \in Docs |-> Nothing]
    /\ disturbed = {} /\ unheard = {} /\ overtaken = {}
    /\ changes = 0 /\ refusals = 0 /\ restarts = 0

-----------------------------------------------------------------------------
(* The store changes, and a task has something to report *)

\* The task has a difference in d to report or to carry out.
Changes(r, d) == at[r] \in {"report", "steps"} /\ before[r][d] # after[r][d]

\* The documents a task other than r is at.
BusyWith(r) ==
    (UNION {{d \in Docs : before[q][d] # after[q][d]} : q \in {t \in Tasks \ {r} : at[t] # "idle"}})
    \cup (IF r # Delivery /\ at[Delivery] # "idle" THEN {erasing} ELSE {})
    \cup (IF listing # "idle" THEN Docs ELSE {})

Reports(r, new) ==
    /\ entry' = new
    /\ before' = [before EXCEPT ![r] = entry]
    /\ after' = [after EXCEPT ![r] = new]
    /\ at' = [at EXCEPT ![r] = "report"]
    /\ disturbed' = disturbed \cup {d \in BusyWith(r) : entry[d] # new[d]}
    /\ unheard' = IF populated THEN unheard ELSE unheard \cup {d \in Docs : entry[d] # new[d]}
    /\ UNCHANGED overtaken

\* What replace_container leaves of a listing: nothing of what was erased.
Listings == {new \in [Docs -> Looks] : \A d \in erased : new[d] = Absent}

\* adopt: replace_container, then report what has changed.
Adopt(r) ==
    /\ at[r] = "idle"
    /\ changes < MaxChanges
    /\ changes' = changes + 1
    /\ \E new \in Listings \ {entry} : Reports(r, new)
    /\ UNCHANGED <<erased, diskVars, mapVars, step, listVars, erasureVars, refusals, restarts>>

-----------------------------------------------------------------------------
(* The mirror: a report becomes a plan, and the plan its steps *)

\* Mutant: a new version keeps the content.
StepForKeeping(d, old, new) ==
    IF ~populated \/ old = new THEN "none"
    ELSE IF new = Absent THEN IF d \in known THEN "remove" ELSE "none"
    ELSE IF d \in known THEN "update" ELSE "create"

\* plan: only for a populated folder, and measured against the map.
StepFor(d, old, new) ==
    IF ~populated \/ old = new THEN "none"
    ELSE IF new = Absent THEN IF d \in known THEN "remove" ELSE "none"
    ELSE IF d \notin known THEN "create"
    ELSE IF old = Absent THEN "update" ELSE "discard"

Plan(r) ==
    /\ at[r] = "report"
    /\ at' = [at EXCEPT ![r] = "steps"]
    /\ step' = [step EXCEPT ![r] = [d \in Docs |-> StepFor(d, before[r][d], after[r][d])]]
    /\ UNCHANGED <<storeVars, diskVars, mapVars, before, after, listVars, erasureVars,
                   ghostVars, boundVars>>

Rank == [none |-> 9, remove |-> 0, removed |-> 0, update |-> 1, discard |-> 1,
         create |-> 2, created |-> 2]
\* One step after the other: removals, updates, creations.
InTurn(r, d) ==
    /\ at[r] = "steps"
    /\ \A e \in Docs \ {d} : Rank[step[r][e]] >= Rank[step[r][d]]
    /\ \A e \in Docs \ {d} : step[r][e] \notin {"removed", "created"}

StepIs(r, d, s) == step' = [step EXCEPT ![r][d] = s]

Content(p, s) == IF s = "discard" THEN Nothing ELSE p.content

\* With the file goes the load that was to fill it.
WithoutFile(d) ==
    /\ disk' = [disk EXCEPT ![d] = Absent]
    /\ loading' = [loading EXCEPT ![d] = Nothing]

Reachable(d) == d \in known /\ disk[d] # Absent

\* delete: an unknown entry is an error; what has gone already counts as deleted.
RemoveStep(r, d) ==
    /\ step[r][d] = "remove"
    /\ IF d \in known
       THEN WithoutFile(d) /\ StepIs(r, d, "removed")
       ELSE UNCHANGED <<disk, loading>> /\ StepIs(r, d, "none")
    /\ UNCHANGED overtaken

\* A load of another version goes on all the same.
UpdateStep(r, d) ==
    /\ step[r][d] \in {"update", "discard"}
    /\ IF Reachable(d)
       THEN /\ disk' = [disk EXCEPT ![d] = [look |-> after[r][d],
                                           content |-> Content(disk[d], step[r][d])]]
            /\ overtaken' = IF loading[d] \in {Nothing, after[r][d]} THEN overtaken
                            ELSE overtaken \cup {d}
       ELSE UNCHANGED <<disk, overtaken>>
    /\ StepIs(r, d, "none")
    /\ UNCHANGED loading

CreateStep(r, d) ==
    /\ step[r][d] = "create"
    /\ IF disk[d] = Absent
       THEN /\ disk' = [disk EXCEPT ![d] = [look |-> after[r][d], content |-> Nothing]]
            /\ StepIs(r, d, "created")
       ELSE UNCHANGED disk /\ StepIs(r, d, "none")
    /\ UNCHANGED <<loading, overtaken>>

\* The step on disk. An error is logged; the map is not touched then.
StepOnDisk(r, d) ==
    /\ InTurn(r, d)
    /\ RemoveStep(r, d) \/ UpdateStep(r, d) \/ CreateStep(r, d)
    /\ UNCHANGED <<storeVars, asks, mapVars, at, before, after, listVars, erasureVars,
                   disturbed, unheard, boundVars>>

\* Mutant: the map keeps what was removed.
MapWithoutKept(d) == known

MapWithout(d) == known \ {d}

StepInMap(r, d) ==
    /\ at[r] = "steps"
    /\ \/ step[r][d] = "removed" /\ known' = MapWithout(d)
       \/ step[r][d] = "created" /\ known' = known \cup {d}
    /\ StepIs(r, d, "none")
    /\ UNCHANGED <<storeVars, diskVars, populated, at, before, after, listVars, erasureVars,
                   ghostVars, boundVars>>

Refuses(d) ==
    /\ refusals < MaxRefusals
    /\ refusals' = refusals + 1
    /\ disturbed' = disturbed \cup {d}
    /\ UNCHANGED <<unheard, overtaken, changes, restarts>>

\* A program holds the file open, or Windows does not accept the placeholder:
\* the step is logged and does not come again.
StepRefused(r, d) ==
    /\ InTurn(r, d)
    /\ step[r][d] \in {"remove", "update", "discard", "create"}
    /\ Refuses(d)
    /\ StepIs(r, d, "none")
    /\ UNCHANGED <<storeVars, diskVars, mapVars, at, before, after, listVars, erasureVars>>

\* The report is worked off; an erasure is answered now.
Answer == IF clean THEN "applied" ELSE "failed"

ReportDone(r) ==
    /\ at[r] = "steps"
    /\ \A d \in Docs : step[r][d] = "none"
    /\ at' = [at EXCEPT ![r] = "idle"]
    /\ order' = IF r = Delivery THEN [order EXCEPT ![erasing] = Answer] ELSE order
    /\ UNCHANGED <<storeVars, diskVars, mapVars, before, after, step, listVars, erasing, clean,
                   ghostVars, boundVars>>

-----------------------------------------------------------------------------
(* The erasure *)

\* The server orders it, or again after a failure; the places are read.
EraseBegins(d) ==
    /\ at[Delivery] = "idle"
    /\ order[d] # "applied"
    /\ erasing' = d
    /\ clean' = TRUE
    /\ at' = [at EXCEPT ![Delivery] = IF entry[d] = Absent THEN "erase" ELSE "release"]
    /\ disturbed' = IF d \in BusyWith(Delivery) THEN disturbed \cup {d} ELSE disturbed
    /\ UNCHANGED <<storeVars, diskVars, mapVars, before, after, step, listVars, order, unheard,
                   overtaken, boundVars>>

\* give_location_free: release the content; an unknown place is an error.
Release ==
    /\ at[Delivery] = "release"
    /\ at' = [at EXCEPT ![Delivery] = "remove"]
    /\ disk' = IF Reachable(erasing) THEN [disk EXCEPT ![erasing].content = Nothing] ELSE disk
    /\ clean' = Reachable(erasing)
    /\ UNCHANGED <<storeVars, asks, loading, mapVars, before, after, step, listVars, erasing, order,
                   ghostVars, boundVars>>

\* remove_entry, on disk and then in the map: as in RemoveStep.
RemoveOnDisk ==
    /\ at[Delivery] = "remove"
    /\ IF erasing \in known
       THEN /\ WithoutFile(erasing)
            /\ at' = [at EXCEPT ![Delivery] = "removed"]
            /\ UNCHANGED clean
       ELSE /\ at' = [at EXCEPT ![Delivery] = "erase"]
            /\ clean' = FALSE
            /\ UNCHANGED <<disk, loading>>
    /\ UNCHANGED <<storeVars, asks, mapVars, before, after, step, listVars, erasing, order,
                   ghostVars, boundVars>>

\* A program holds the file open: the failure is remembered, and the erasure
\* goes on, without removing what it could not even look at (state). What was
\* not released can still be removed once it is closed.
EraseRefused ==
    /\ at[Delivery] \in {"release", "remove"}
    /\ Reachable(erasing)
    /\ \E next \in {"remove", "erase"} :
           /\ next # at[Delivery]
           /\ at' = [at EXCEPT ![Delivery] = next]
    /\ clean' = FALSE
    /\ Refuses(erasing)
    /\ UNCHANGED <<storeVars, diskVars, mapVars, before, after, step, listVars, erasing, order>>

RemoveInMap ==
    /\ at[Delivery] = "removed"
    /\ known' = MapWithout(erasing)
    /\ at' = [at EXCEPT ![Delivery] = "erase"]
    /\ UNCHANGED <<storeVars, diskVars, populated, before, after, step, listVars, erasureVars,
                   ghostVars, boundVars>>

\* remove_document_everywhere, then report what has changed.
EraseFromStore ==
    /\ at[Delivery] = "erase"
    /\ erased' = erased \cup {erasing}
    /\ Reports(Delivery, [entry EXCEPT ![erasing] = Absent])
    /\ UNCHANGED <<diskVars, mapVars, step, listVars, erasureVars, boundVars>>

-----------------------------------------------------------------------------
(* Windows asks for the listing of the folder *)

\* A populated folder is asked for again only where a placeholder was refused:
\* tasks have steps there already.
ReadListing ==
    /\ asks
    /\ listing = "idle"
    /\ listing' = "read"
    /\ should' = entry
    /\ disturbed' = disturbed
           \cup (IF at[Delivery] # "idle" THEN {erasing} ELSE {})
           \cup (IF populated THEN {d \in Docs : \E r \in Tasks : Changes(r, d)} ELSE {})
    /\ UNCHANGED <<storeVars, diskVars, mapVars, taskVars, follow, erasureVars, unheard,
                   overtaken, boundVars>>

\* The window is closed again, or the source had no listing.
ListingWithdrawn ==
    /\ listing = "read"
    /\ listing' = "idle"
    /\ UNCHANGED <<storeVars, diskVars, mapVars, taskVars, should, follow, erasureVars,
                   ghostVars, boundVars>>

Free == {d \in Docs : disk[d] = Absent /\ should[d] # Absent}

\* What has a free name is handed over; what lies there already is left for
\* afterwards. From now on Windows does not ask any more, unless it refused a
\* placeholder: then it may.
HandOver ==
    /\ listing = "read"
    /\ \E refused \in SUBSET Free :
           /\ disk' = [d \in Docs |-> IF d \in Free \ refused
                                     THEN [look |-> should[d], content |-> Nothing]
                                     ELSE disk[d]]
           /\ \/ refused = {} /\ asks' = FALSE /\ UNCHANGED refusals
              \/ /\ refused # {} /\ asks' \in BOOLEAN
                 /\ refusals < MaxRefusals
                 /\ refusals' = refusals + 1
           /\ disturbed' = disturbed \cup refused
    /\ follow' = {d \in Docs : disk[d] # Absent}
    /\ listing' = "handed"
    /\ UNCHANGED <<storeVars, loading, mapVars, taskVars, should, erasureVars, unheard,
                   overtaken, changes, restarts>>

\* The map carries the whole listing: what lay there already and, all the same,
\* what Windows refused.
Entered == {d \in Docs : should[d] # Absent}

Populate ==
    /\ listing = "handed"
    /\ known' = known \cup Entered
    /\ populated' = TRUE
    /\ listing' = "following"
    /\ UNCHANGED <<storeVars, diskVars, taskVars, should, follow, erasureVars, ghostVars,
                   boundVars>>

\* Mutant: what no listing names stays where it is.
FollowedUpKept(d) ==
    IF disk[d] = Absent \/ should[d] = Absent THEN disk[d]
    ELSE [disk[d] EXCEPT !.look = should[d]]

\* work_after: delete what is in no listing; content is not discarded here.
FollowedUp(d) ==
    IF disk[d] = Absent \/ should[d] = Absent THEN Absent
    ELSE [disk[d] EXCEPT !.look = should[d]]

NextToFollow(d) ==
    /\ listing = "following"
    /\ d \in follow
    /\ should[d] # Absent => \A e \in follow : should[e] # Absent
    /\ follow' = follow \ {d}

FollowUp(d) ==
    /\ NextToFollow(d)
    /\ disk' = [disk EXCEPT ![d] = FollowedUp(d)]
    /\ loading' = IF disk'[d] = Absent THEN [loading EXCEPT ![d] = Nothing] ELSE loading
    /\ UNCHANGED <<storeVars, asks, mapVars, taskVars, listing, should, erasureVars, ghostVars,
                   boundVars>>

\* An open file can be neither deleted nor updated; that is logged, and the
\* next one is taken up.
FollowUpRefused(d) ==
    /\ NextToFollow(d)
    /\ Refuses(d)
    /\ UNCHANGED <<storeVars, diskVars, mapVars, taskVars, listing, should, erasureVars>>

ListingDone ==
    /\ listing = "following"
    /\ follow = {}
    /\ listing' = "idle"
    /\ UNCHANGED <<storeVars, diskVars, mapVars, taskVars, should, follow, erasureVars,
                   ghostVars, boundVars>>

-----------------------------------------------------------------------------
(* The user and the process *)

\* Opening a file: the entry of the store says which version is fetched
\* (load_document), before the first await.
LoadBegins(d) ==
    /\ disk[d] # Absent /\ disk[d].content = Nothing
    /\ entry[d] # Absent
    /\ loading[d] = Nothing
    /\ loading' = [loading EXCEPT ![d] = entry[d]]
    /\ UNCHANGED <<storeVars, disk, asks, mapVars, taskVars, listVars, erasureVars, ghostVars,
                   boundVars>>

\* What was fetched and checked is delivered (hand_over); nobody looks at the
\* entry again.
LoadDelivers(d) ==
    /\ loading[d] # Nothing
    /\ disk' = [disk EXCEPT ![d].content = loading[d]]
    /\ loading' = [loading EXCEPT ![d] = Nothing]
    /\ UNCHANGED <<storeVars, asks, mapVars, taskVars, listVars, erasureVars, ghostVars,
                   boundVars>>

\* The server does not answer, or the program closes the file.
LoadFails(d) ==
    /\ loading[d] # Nothing
    /\ loading' = [loading EXCEPT ![d] = Nothing]
    /\ UNCHANGED <<storeVars, disk, asks, mapVars, taskVars, listVars, erasureVars, ghostVars,
                   boundVars>>

\* The process ends and starts again: map, tasks and loads are gone, the disk
\* stays.
\* An erasure without an answer is delivered again.
Restart ==
    /\ restarts < MaxRestarts
    /\ restarts' = restarts + 1
    /\ known' = {} /\ populated' = FALSE
    /\ asks' = (asks \/ AsksAgain)
    /\ at' = [r \in Tasks |-> "idle"]
    /\ before' = [r \in Tasks |-> NoEntries]
    /\ after' = [r \in Tasks |-> NoEntries]
    /\ step' = [r \in Tasks |-> [d \in Docs |-> "none"]]
    /\ listing' = "idle" /\ should' = NoEntries /\ follow' = {}
    /\ loading' = [d \in Docs |-> Nothing]
    /\ unheard' = unheard \cup {d \in Docs : \E r \in Tasks : before[r][d] # after[r][d]}
    /\ UNCHANGED <<storeVars, disk, erasureVars, disturbed, overtaken, changes, refusals>>

-----------------------------------------------------------------------------
TaskGoesOn(r) ==
    \/ Plan(r) \/ ReportDone(r)
    \/ \E d \in Docs : StepOnDisk(r, d) \/ StepInMap(r, d)

ErasureGoesOn == Release \/ RemoveOnDisk \/ RemoveInMap \/ EraseFromStore

ListingGoesOn == HandOver \/ Populate \/ ListingDone \/ \E d \in Docs : FollowUp(d)

Environment ==
    \/ \E r \in Adopters : Adopt(r)
    \/ \E r \in Tasks, d \in Docs : StepRefused(r, d)
    \/ EraseRefused
    \/ \E d \in Docs : EraseBegins(d) \/ FollowUpRefused(d)
    \/ \E d \in Docs : LoadBegins(d) \/ LoadDelivers(d) \/ LoadFails(d)
    \/ ReadListing \/ ListingWithdrawn
    \/ Restart

Next ==
    \/ \E r \in Tasks : TaskGoesOn(r)
    \/ ErasureGoesOn \/ ListingGoesOn
    \/ Environment

Spec == Init /\ [][Next]_vars

-----------------------------------------------------------------------------
(* Properties *)

AtRest == listing = "idle" /\ \A r \in Tasks : at[r] = "idle"
Shows(d) == IF disk[d] = Absent THEN Absent ELSE disk[d].look

\* When everything is worked off, an opened folder shows what the store holds,
\* in every document that no two tasks were at together and of which Windows
\* refused nothing: after reports, listings, erasures and restarts
\* (report_change).
MirrorTrue ==
    (AtRest /\ populated) => \A d \in Docs \ disturbed : Shows(d) = entry[d]

\* The map knows exactly what lies in an opened folder: what it does not know
\* it can neither remove nor release (remove_entry, dehydrate).
MapTrue ==
    (AtRest /\ populated) => \A d \in Docs \ disturbed : d \in known <=> disk[d] # Absent

\* What holds of the books of the mirror: their types and the truth of the map.
MirrorInv == TypeOK /\ MapTrue

\* Loaded content is the version the store holds, also when the version changed
\* while it was being fetched, in every document whose changes the folder was
\* told about, but for an update carried out in the middle of the load
\* (Change::content_stale, load_document).
LoadedIsCurrent ==
    (AtRest /\ populated) =>
        \A d \in Docs \ (disturbed \cup unheard \cup overtaken) :
            disk[d] # Absent => disk[d].content \in {Nothing, entry[d]}

\* "Not even the name may stay behind": what was erased, and answered so, is
\* not on disk.
ErasedIsGone == \A d \in Docs : order[d] = "applied" /\ AtRest => disk[d] = Absent
=============================================================================
