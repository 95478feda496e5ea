---------------------------- MODULE WindowsProofs ----------------------------
(***************************************************************************)
(* Proofs about a folder on Windows: that it follows the store (module     *)
(* Mirror), for any documents, versions and tasks, and that its names      *)
(* follow the listing (module Names), for any entries and titles.          *)
(***************************************************************************)
EXTENDS Mirror, Names, TLAPS

-----------------------------------------------------------------------------
(* Mirror: what is true of every document that nothing disturbed, at every *)
(* step of tasks, callbacks, loads and commands.                           *)

\* The channel is erasing d and has not reported it yet.
Erases(d) == at[Delivery] \in {"release", "remove", "removed", "erase"} /\ erasing = d

Agrees(d) == d \in known <=> disk[d] # Absent

\* When the map knows the folder; steps are what tasks carry out there, and only what lies
\* on disk is being loaded.
Folder ==
    /\ ~populated => known = {}
    /\ listing = "following" => populated
    /\ \A d \in Docs : disk[d] = Absent => loading[d] = Nothing
    /\ \A r \in Tasks, d \in Docs :
           step[r][d] # "none" => at[r] = "steps" /\ Changes(r, d) /\ populated
    /\ \A r \in Tasks, d \in Docs :
           step[r][d] \in {"update", "discard", "create"} => after[r][d] # Absent

\* One task at a time has to do with d, and the last one knows the last entry.
Alone(d) ==
    /\ \A r \in Tasks : Changes(r, d) => after[r][d] = entry[d]
    /\ \A r, q \in Tasks : Changes(r, d) /\ Changes(q, d) => r = q
    /\ Erases(d) => listing = "idle" /\ \A r \in Tasks : ~Changes(r, d)
    /\ listing # "idle" => should[d] = entry[d]
    /\ populated /\ listing \in {"read", "handed"} => \A r \in Tasks : ~Changes(r, d)

\* What was planned for d still fits map and disk.
StepFits(r, d) ==
    /\ step[r][d] = "remove" => after[r][d] = Absent /\ d \in known /\ disk[d] # Absent
    /\ step[r][d] = "removed" => after[r][d] = Absent /\ d \in known /\ disk[d] = Absent
    /\ step[r][d] \in {"update", "discard"} =>
           after[r][d] # Absent /\ d \in known /\ disk[d] # Absent
    /\ step[r][d] = "create" => after[r][d] # Absent /\ d \notin known /\ disk[d] = Absent
    /\ step[r][d] = "created" =>
           after[r][d] # Absent /\ d \notin known /\ Shows(d) = after[r][d]

\* Nothing is left to be done for d but what a task has reported.
Settled(d) == \A r \in Tasks : Changes(r, d) => at[r] = "steps" /\ step[r][d] = "none"

\* What the opened folder shows of d while no listing is followed up.
Resting(d) ==
    populated /\ listing # "following" =>
        /\ \A r \in Tasks : Changes(r, d) /\ at[r] = "report" =>
               Agrees(d) /\ Shows(d) \in {before[r][d], after[r][d]}
        /\ Settled(d) =>
               IF Erases(d) /\ at[Delivery] = "removed"
               THEN d \in known /\ disk[d] = Absent
               ELSE /\ Agrees(d)
                    /\ Shows(d) = entry[d]
                           \/ (Erases(d) /\ at[Delivery] = "erase" /\ Shows(d) = Absent)

\* What the callback knows of d once the listing is handed over.
Listed(d) ==
    /\ listing \in {"handed", "following"} =>
           /\ should[d] # Absent => disk[d] # Absent
           /\ d \notin follow => Shows(d) = should[d]
    /\ listing = "following" => (d \in known <=> should[d] # Absent)

Kept(d) == Alone(d) /\ Resting(d) /\ Listed(d) /\ \A r \in Tasks : StepFits(r, d)

\* No step is left that has to discard the content of d.
NothingToDiscard(d) ==
    \A r \in Tasks : Changes(r, d) => at[r] = "steps" /\ step[r][d] \notin {"remove", "discard"}

\* What is loaded, or about to be, is of the version of the store, or about to go.
Fresh(d) ==
    /\ \A r \in Tasks : Changes(r, d) =>
           /\ populated /\ listing = "idle"
           /\ at[r] = "report" /\ after[r][d] # Absent => Shows(d) = before[r][d]
           /\ step[r][d] # "update"
    /\ NothingToDiscard(d) /\ disk[d] # Absent =>
           {disk[d].content, loading[d]} \subseteq {Nothing, entry[d]}

FolderInv ==
    /\ TypeOK
    /\ Folder
    /\ \A d \in Docs \ disturbed : Kept(d)
    /\ \A d \in Docs \ (disturbed \cup unheard \cup overtaken) : Fresh(d)

-----------------------------------------------------------------------------

\* The process begins with the folder opened before or not, and nothing in hand.
LEMMA InitKeeps == Init => FolderInv
<1> SUFFICES ASSUME Init PROVE FolderInv
    OBVIOUS
<1> USE MirrorAssumption
<1>1. TypeOK
  <2>1. \A d \in Docs : [look : Versions, content : {Nothing}] \subseteq Placeholder
    BY DEF Placeholder
  <2>2. disk \in [Docs -> Placeholder \cup {Absent}]
    BY <2>1 DEF Init
  <2> QED
    BY <2>2 DEF Init, TypeOK, Tasks, Looks, NoEntries, Steps
<1>2. Folder
  BY DEF Init, Folder, Changes
<1>3. ASSUME NEW d \in Docs PROVE Kept(d)
  <2>1. \A r \in Tasks : ~Changes(r, d) /\ step[r][d] = "none"
    BY DEF Init, Changes
  <2>2. ~Erases(d) /\ listing = "idle"
    BY DEF Init, Erases, Tasks
  <2>3. Alone(d) /\ Listed(d) /\ \A r \in Tasks : StepFits(r, d)
    BY <2>1, <2>2 DEF Alone, Listed, StepFits
  <2>4. Resting(d)
    BY <2>1, <2>2 DEF Init, Resting, Agrees, Shows
  <2> QED
    BY <2>3, <2>4 DEF Kept
<1>4. ASSUME NEW d \in Docs PROVE Fresh(d)
  <2>1. \A r \in Tasks : ~Changes(r, d)
    BY DEF Init, Changes
  <2>2. disk[d] # Absent => {disk[d].content, loading[d]} \subseteq {Nothing, entry[d]}
    <3>1. CASE OpenedBefore
      BY <3>1 DEF Init
    <3>2. CASE ~OpenedBefore
      BY <3>2 DEF Init
    <3> QED
      BY <3>1, <3>2
  <2> QED
    BY <2>1, <2>2 DEF Fresh
<1> QED
  BY <1>1, <1>2, <1>3, <1>4 DEF FolderInv

-----------------------------------------------------------------------------
\* A document stays as it is whenever a step leaves alone what is its own.
LEMMA Untouched ==
    ASSUME NEW d \in Docs,
           entry'[d] = entry[d], disk'[d] = disk[d], loading'[d] = loading[d], d \in known' <=> d \in known,
           populated' = populated, listing' = listing, should'[d] = should[d],
           d \in follow' <=> d \in follow,
           \A r \in Tasks : Changes(r, d)' <=> Changes(r, d),
           \A r \in Tasks : Changes(r, d) =>
               at'[r] = at[r] /\ before'[r][d] = before[r][d] /\ after'[r][d] = after[r][d],
           \A r \in Tasks : step'[r][d] = step[r][d],
           \A r \in Tasks : step[r][d] # "none" => Changes(r, d),
           Erases(d)' <=> Erases(d), Erases(d) => at'[Delivery] = at[Delivery]
    PROVE  /\ Kept(d) => Kept(d)'
           /\ Fresh(d) => Fresh(d)'
<1>1. Shows(d)' = Shows(d) /\ (Agrees(d)' <=> Agrees(d))
  BY DEF Shows, Agrees
<1>2. Settled(d)' <=> Settled(d)
  BY DEF Settled
<1>3. NothingToDiscard(d)' <=> NothingToDiscard(d)
  BY DEF NothingToDiscard
<1>4. Alone(d) => Alone(d)'
  BY DEF Alone
<1>5. \A r \in Tasks : StepFits(r, d) => StepFits(r, d)'
  BY <1>1 DEF StepFits
<1>6. Resting(d) => Resting(d)'
  BY <1>1, <1>2 DEF Resting
<1>7. Listed(d) => Listed(d)'
  BY <1>1 DEF Listed
<1>8. Fresh(d) => Fresh(d)'
  BY <1>1, <1>3 DEF Fresh
<1> QED
  BY <1>4, <1>5, <1>6, <1>7, <1>8 DEF Kept

-----------------------------------------------------------------------------
\* A document none of the others is at.
LEMMA NotBusy ==
    ASSUME NEW r \in Tasks, NEW d \in Docs, d \notin BusyWith(r)
    PROVE  /\ \A q \in Tasks \ {r} : at[q] # "idle" => before[q][d] = after[q][d]
           /\ r # Delivery /\ at[Delivery] # "idle" => d # erasing
           /\ listing = "idle"
<1>1. ASSUME NEW q \in Tasks \ {r}, at[q] # "idle", before[q][d] # after[q][d] PROVE FALSE
  <2> DEFINE At(t) == {c \in Docs : before[t][c] # after[t][c]}
  <2>1. d \in At(q)
    BY <1>1
  <2>2. At(q) \in {At(t) : t \in {u \in Tasks \ {r} : at[u] # "idle"}}
    BY <1>1
  <2>3. d \in UNION {At(t) : t \in {u \in Tasks \ {r} : at[u] # "idle"}}
    BY <2>1, <2>2
  <2> QED
    BY <2>3 DEF BusyWith
<1>2. ASSUME r # Delivery, at[Delivery] # "idle", d = erasing PROVE FALSE
  BY <1>2 DEF BusyWith
<1>3. ASSUME listing # "idle" PROVE FALSE
  BY <1>3 DEF BusyWith
<1> QED
  BY <1>1, <1>2, <1>3

\* What a report changes, for the tasks that adopt and for the channel.
LEMMA ReportKeeps ==
    ASSUME FolderInv, NEW r \in Tasks, NEW new \in Listings, Reports(r, new),
           at[r] = "idle" \/ (r = Delivery /\ at[r] = "erase" /\ new = [entry EXCEPT ![erasing] = Absent]),
           UNCHANGED <<diskVars, mapVars, step, listVars, erasureVars>>,
           erased' = erased \/ (r = Delivery /\ erased' = erased \cup {erasing} /\ new[erasing] = Absent)
    PROVE  FolderInv'
<1> USE MirrorAssumption
<1>0. TypeOK /\ Folder
  BY DEF FolderInv
<1>1. TypeOK'
  <2>1. entry' \in [Docs -> Looks] /\ new \in [Docs -> Looks]
    BY DEF Reports, Listings
  <2>2. before' \in [Tasks -> [Docs -> Looks]] /\ after' \in [Tasks -> [Docs -> Looks]]
    BY <1>0, <2>1 DEF Reports, TypeOK
  <2>3. erased' \subseteq {d \in Docs : entry'[d] = Absent}
    BY <1>0 DEF Reports, Listings, TypeOK
  <2>4. at' \in [Tasks -> {"idle", "release", "remove", "removed", "erase", "report", "steps"}]
    BY <1>0 DEF Reports, TypeOK
  <2> QED
    BY <1>0, <2>1, <2>2, <2>3, <2>4 DEF TypeOK, diskVars, mapVars, listVars, erasureVars
<1>2. /\ entry' = new /\ at'[r] = "report" /\ before'[r] = entry /\ after'[r] = new
      /\ \A q \in Tasks \ {r} : at'[q] = at[q] /\ before'[q] = before[q] /\ after'[q] = after[q]
      /\ UNCHANGED <<disk, asks, loading, known, populated, step, listing, should, follow, erasing>>
  BY <1>0 DEF Reports, TypeOK, diskVars, mapVars, listVars, erasureVars
<1>3. /\ \A d \in Docs : ~Changes(r, d) /\ (Changes(r, d)' <=> entry[d] # new[d])
      /\ \A q \in Tasks \ {r}, d \in Docs : Changes(q, d)' <=> Changes(q, d)
  BY <1>2 DEF Changes
<1>4. Folder'
  BY <1>2, <1>3 DEF FolderInv, Folder
<1>5. ASSUME NEW d \in Docs, Kept(d), d \notin disturbed', entry[d] # new[d]
      PROVE  /\ listing = "idle"
             /\ \A q \in Tasks \ {r} : ~Changes(q, d)
             /\ Erases(d) => r = Delivery
             /\ at[r] # "idle" => d = erasing
  <2>1. d \notin BusyWith(r)
    BY <1>2, <1>5 DEF Reports
  <2>2. listing = "idle"
    BY <2>1, NotBusy
  <2>3. \A q \in Tasks \ {r} : ~Changes(q, d)
    BY <2>1, NotBusy DEF Changes
  <2>4. Erases(d) => r = Delivery
    BY <2>1, NotBusy DEF Erases
  <2>5. at[r] # "idle" => d = erasing
    BY <1>0, <1>5 DEF TypeOK
  <2> QED
    BY <2>2, <2>3, <2>4, <2>5
<1>6. \A d \in Docs : step[r][d] = "none"
  BY <1>3 DEF FolderInv, Folder
<1>7. ASSUME NEW d \in Docs, Kept(d), d \notin disturbed', entry[d] # new[d]
      PROVE  /\ Kept(d)'
             /\ d \notin unheard' => Fresh(d)'
  <2>1. /\ listing = "idle"
        /\ \A q \in Tasks : ~Changes(q, d) /\ step[q][d] = "none"
        /\ ~Erases(d)'
    <3>1. listing = "idle" /\ \A q \in Tasks : ~Changes(q, d)
      BY <1>3, <1>5, <1>7
    <3>2. \A q \in Tasks : step[q][d] = "none"
      BY <1>0, <1>7, <3>1 DEF Folder
    <3>3. ~Erases(d)'
      BY <1>2, <1>5, <1>7 DEF Erases, Tasks
    <3> QED
      BY <3>1, <3>2, <3>3
  <2>2. Alone(d)' /\ Listed(d)' /\ \A q \in Tasks : StepFits(q, d)'
    BY <1>2, <1>3, <2>1 DEF Alone, Listed, StepFits
  <2>3. populated => Agrees(d) /\ (Shows(d) = entry[d] \/ (Shows(d) = Absent /\ new[d] = Absent))
    <3>1. Settled(d)
      BY <2>1 DEF Settled
    <3>2. Erases(d) => at[Delivery] = "erase" /\ new[d] = Absent
      BY <1>5, <1>7 DEF Erases, FolderInv, TypeOK
    <3> QED
      BY <1>7, <2>1, <3>1, <3>2 DEF Kept, Resting
  <2>4. Resting(d)'
    BY <1>2, <1>3, <2>1, <2>3 DEF Resting, Agrees, Shows, Settled
  <2>5. ASSUME d \notin unheard' PROVE Fresh(d)'
    <3>1. populated
      BY <2>5, <1>7 DEF Reports
    <3>2. ~NothingToDiscard(d)'
      BY <1>2, <1>3, <1>7 DEF NothingToDiscard
    <3> QED
      BY <1>2, <1>3, <2>1, <2>3, <3>1, <3>2 DEF Fresh, Shows
  <2> QED
    BY <2>2, <2>4, <2>5 DEF Kept
<1>8. ASSUME NEW d \in Docs, Kept(d), entry[d] = new[d], d \notin disturbed'
      PROVE  Kept(d)'
  <2>1. CASE Erases(d) /\ r = Delivery
    <3>1. ~Erases(d)' /\ listing = "idle" /\ \A q \in Tasks : ~Changes(q, d) /\ ~Changes(q, d)'
      BY <1>2, <1>3, <1>8, <2>1 DEF Kept, Alone, Erases
    <3>2. new[d] = Absent /\ at[Delivery] = "erase"
      BY <2>1 DEF Erases, FolderInv, TypeOK
    <3>3. Alone(d)' /\ Listed(d)' /\ \A q \in Tasks : StepFits(q, d)'
      BY <1>2, <3>1, <1>8 DEF Alone, Kept, Listed, StepFits, FolderInv, Folder, Shows
    <3>4. Resting(d)'
      BY <1>2, <1>8, <3>1, <3>2 DEF Kept, Resting, Settled, Agrees, Shows
    <3> QED
      BY <3>3, <3>4 DEF Kept
  <2>2. CASE ~(Erases(d) /\ r = Delivery)
    <3>1. Erases(d)' <=> Erases(d)
      BY <1>2, <2>2 DEF Erases, Tasks
    <3>2. Erases(d) => at'[Delivery] = at[Delivery]
      BY <1>2, <2>2 DEF Tasks
    <3> QED
      BY <1>2, <1>3, <1>8, <3>1, <3>2, Untouched DEF FolderInv, Folder
  <2> QED
    BY <2>1, <2>2
<1>9. ASSUME NEW d \in Docs, Fresh(d), entry[d] = new[d]
      PROVE  Fresh(d)'
  <2>1. \A q \in Tasks : Changes(q, d)' <=> Changes(q, d)
    BY <1>3, <1>9
  <2>2. NothingToDiscard(d)' <=> NothingToDiscard(d)
    BY <1>2, <1>3, <2>1 DEF NothingToDiscard
  <2> QED
    BY <1>2, <1>3, <1>9, <2>1, <2>2 DEF Fresh, Shows
<1>10. disturbed \subseteq disturbed' /\ unheard \subseteq unheard' /\ overtaken' = overtaken
  BY DEF Reports
<1> QED
  BY <1>1, <1>4, <1>7, <1>8, <1>9, <1>10 DEF FolderInv

-----------------------------------------------------------------------------
\* A listing or an event is adopted: the store has it, and the task is to report it.
LEMMA AdoptKeeps ==
    ASSUME FolderInv, NEW r \in Adopters, Adopt(r) PROVE FolderInv'
<1>1. PICK new \in Listings \ {entry} : Reports(r, new)
  BY DEF Adopt
<1> QED
  BY <1>1, ReportKeeps DEF Adopt, Tasks, mapVars, diskVars, listVars, erasureVars

\* What plan makes of a difference.
LEMMA PlannedStep ==
    ASSUME NEW d, NEW old, NEW new
    PROVE  /\ ~populated \/ old = new => StepFor(d, old, new) = "none"
           /\ populated /\ old # new /\ new = Absent =>
                  StepFor(d, old, new) = IF d \in known THEN "remove" ELSE "none"
           /\ populated /\ old # new /\ new # Absent /\ d \notin known =>
                  StepFor(d, old, new) = "create"
           /\ populated /\ old # new /\ new # Absent /\ d \in known =>
                  StepFor(d, old, new) = IF old = Absent THEN "update" ELSE "discard"
  BY DEF StepFor

\* A report becomes a plan.
LEMMA PlanKeeps ==
    ASSUME FolderInv, NEW r \in Tasks, Plan(r) PROVE FolderInv'
<1> USE MirrorAssumption
<1>0. TypeOK /\ Folder
  BY DEF FolderInv
<1>1. /\ UNCHANGED <<entry, erased, disk, asks, loading, known, populated, before, after, listing, should,
                     follow, erasing, clean, order, disturbed, unheard, overtaken>>
      /\ at[r] = "report" /\ at' = [at EXCEPT ![r] = "steps"]
      /\ step' = [step EXCEPT ![r] = [d \in Docs |-> StepFor(d, before[r][d], after[r][d])]]
  BY DEF Plan, storeVars, diskVars, mapVars, listVars, erasureVars, ghostVars
<1>2. at'[r] = "steps" /\ \A q \in Tasks \ {r} : at'[q] = at[q] /\ step'[q] = step[q]
  BY <1>0, <1>1 DEF TypeOK
<1>3. \A d \in Docs : step'[r][d] = StepFor(d, before[r][d], after[r][d])
  BY <1>0, <1>1 DEF TypeOK
<1>4. \A q \in Tasks, d \in Docs : Changes(q, d)' <=> Changes(q, d)
  BY <1>1, <1>2 DEF Changes
<1>5. TypeOK'
  <2>1. \A d \in Docs : StepFor(d, before[r][d], after[r][d]) \in Steps
    BY PlannedStep DEF Steps
  <2> QED
    BY <1>0, <1>1, <2>1 DEF TypeOK
<1>6. \A d \in Docs : step'[r][d] # "none" => Changes(r, d) /\ populated
  BY <1>1, <1>3, PlannedStep DEF Changes
<1>7. Folder'
  <2>1. \A d \in Docs :
            step'[r][d] \in {"update", "discard", "create"} => after'[r][d] # Absent
    BY <1>1, <1>3, PlannedStep
  <2> QED
    BY <1>0, <1>1, <1>2, <1>4, <1>6, <2>1 DEF Folder
<1>8. ASSUME NEW d \in Docs, ~Changes(r, d)
      PROVE  (Kept(d) => Kept(d)') /\ (Fresh(d) => Fresh(d)')
  <2>1. step'[r][d] = "none" /\ step[r][d] = "none"
    BY <1>0, <1>6, <1>8 DEF Folder
  <2>2. (Erases(d)' <=> Erases(d)) /\ (Erases(d) => at'[Delivery] = at[Delivery])
    BY <1>1, <1>2 DEF Erases, Tasks
  <2> QED
    BY <1>0, <1>1, <1>2, <1>4, <1>8, <2>1, <2>2, Untouched DEF Folder
<1>9. ASSUME NEW d \in Docs, Changes(r, d), Kept(d)
      PROVE  Kept(d)' /\ (Fresh(d) => Fresh(d)')
  <2>1. /\ after[r][d] = entry[d]
        /\ \A q \in Tasks \ {r} : ~Changes(q, d) /\ step[q][d] = "none"
        /\ ~Erases(d) /\ ~Erases(d)'
    BY <1>0, <1>1, <1>2, <1>9 DEF Kept, Alone, Folder, Erases, Tasks
  <2>2. Shows(d)' = Shows(d) /\ (Agrees(d)' <=> Agrees(d))
    BY <1>1 DEF Shows, Agrees
  <2>3. Alone(d)' /\ Listed(d)'
    BY <1>1, <1>4, <1>9, <2>1, <2>2 DEF Kept, Alone, Listed
  <2>4. populated =>
          /\ listing # "following" => Agrees(d) /\ Shows(d) \in {before[r][d], after[r][d]}
          /\ listing = "following" => /\ d \in known <=> after[r][d] # Absent
                                      /\ after[r][d] # Absent => disk[d] # Absent
    <3>1. listing = "following" => should[d] = after[r][d]
      BY <1>9, <2>1 DEF Kept, Alone
    <3> QED
      BY <1>1, <1>9, <3>1 DEF Kept, Resting, Listed
  <2>5. \A q \in Tasks : StepFits(q, d)'
    <3>1. ASSUME NEW q \in Tasks \ {r} PROVE StepFits(q, d)'
      BY <1>2, <2>1 DEF StepFits
    <3>2. StepFits(r, d)'
      BY <1>1, <1>3, <2>4, PlannedStep DEF StepFits, Agrees
    <3> QED
      BY <3>1, <3>2
  <2>6. Resting(d)'
    BY <1>1, <1>2, <1>3, <1>4, <1>9, <2>1, <2>2, <2>4, PlannedStep
       DEF Resting, Settled, Agrees, Shows, Changes
  <2>7. ASSUME Fresh(d) PROVE Fresh(d)'
    <3>1. populated /\ listing = "idle" /\ (after[r][d] # Absent => Shows(d) = before[r][d])
      BY <1>1, <1>9, <2>7 DEF Fresh
    <3>2. disk[d] # Absent => Shows(d) # Absent
      BY <1>0 DEF TypeOK, Placeholder, Shows
    <3>3. step'[r][d] # "update"
      BY <1>3, <2>4, <3>1, <3>2, PlannedStep DEF Agrees
    <3>4. step'[r][d] \notin {"remove", "discard"} => disk[d] = Absent
      BY <1>3, <1>9, <2>4, <3>1, <3>3, PlannedStep DEF Agrees, Changes
    <3> QED
      BY <1>1, <1>2, <1>4, <1>9, <2>1, <3>1, <3>3, <3>4 DEF Fresh, NothingToDiscard, Shows
  <2> QED
    BY <2>3, <2>5, <2>6, <2>7 DEF Kept
<1> QED
  BY <1>1, <1>5, <1>7, <1>8, <1>9 DEF FolderInv

\* What every step of a task leaves alone, and what it may change of one document.
LEMMA OneStep ==
    ASSUME FolderInv, NEW r \in Tasks, NEW d \in Docs, NEW s \in {"none", "removed", "created"}, StepIs(r, d, s),
           UNCHANGED <<entry, erased, asks, populated, at, before, after, listing, should,
                       follow, erasing, unheard>>,
           disk' \in [Docs -> Placeholder \cup {Absent}], known' \subseteq Docs,
           loading' \in [Docs -> Versions \cup {Nothing}],
           disk'[d] = Absent => loading'[d] = Nothing,
           disturbed \subseteq disturbed', disturbed' \subseteq Docs \cup disturbed,
           overtaken \subseteq overtaken',
           clean' \in BOOLEAN, order' = order,
           \A e \in Docs \ {d} :
               disk'[e] = disk[e] /\ loading'[e] = loading[e] /\ (e \in known' <=> e \in known),
           Changes(r, d), at[r] = "steps", populated,
           d \in Docs \ disturbed /\ Kept(d) => (d \in disturbed' \/ Kept(d)'),
           d \in Docs \ (disturbed \cup unheard \cup overtaken) /\ Kept(d) /\ Fresh(d) =>
               (d \in disturbed' \/ d \in overtaken' \/ Fresh(d)')
    PROVE  FolderInv'
<1>0. TypeOK /\ Folder
  BY DEF FolderInv
<1>1. /\ step'[r][d] = s
      /\ \A e \in Docs \ {d} : step'[r][e] = step[r][e]
      /\ \A q \in Tasks \ {r} : step'[q] = step[q]
  BY <1>0 DEF StepIs, TypeOK
<1>2. TypeOK'
  BY <1>0 DEF TypeOK, StepIs, Steps
<1>3. \A q \in Tasks, e \in Docs : Changes(q, e)' <=> Changes(q, e)
  BY DEF Changes
<1>4. Folder'
  <2>1. \A q \in Tasks, e \in Docs : step'[q][e] # "none" =>
            at'[q] = "steps" /\ Changes(q, e)' /\ populated'
    BY <1>0, <1>1, <1>3 DEF Folder
  <2>2. \A q \in Tasks, e \in Docs : step'[q][e] \in {"update", "discard", "create"} =>
            after'[q][e] # Absent
    BY <1>0, <1>1 DEF Folder
  <2> QED
    BY <1>0, <2>1, <2>2 DEF Folder
<1>5. ASSUME NEW e \in Docs \ {d} PROVE (Kept(e) => Kept(e)') /\ (Fresh(e) => Fresh(e)')
  <2>1. \A q \in Tasks : step'[q][e] = step[q][e]
    BY <1>1
  <2>2. Erases(e)' <=> Erases(e)
    BY DEF Erases
  <2>3. \A q \in Tasks : step[q][e] # "none" => Changes(q, e)
    BY <1>0 DEF Folder
  <2> QED
    BY <1>3, <2>1, <2>2, <2>3, Untouched
<1> QED
  BY <1>2, <1>4, <1>5 DEF FolderInv

\* A step on disk.
LEMMA StepOnDiskKeeps ==
    ASSUME FolderInv, NEW r \in Tasks, NEW d \in Docs, StepOnDisk(r, d) PROVE FolderInv'
<1> USE MirrorAssumption
<1>0. TypeOK /\ Folder
  BY DEF FolderInv
<1>1. UNCHANGED <<entry, erased, asks, known, populated, at, before, after, listing, should,
                  follow, erasing, clean, order, disturbed, unheard>>
  BY DEF StepOnDisk, storeVars, mapVars, listVars, erasureVars
<1>2. /\ at[r] = "steps"
      /\ step[r][d] \in {"remove", "update", "discard", "create"}
  BY DEF StepOnDisk, InTurn, RemoveStep, UpdateStep, CreateStep
<1>3. Changes(r, d) /\ populated
  BY <1>0, <1>2 DEF Folder
<1>4. PICK x \in Placeholder \cup {Absent}, s \in {"none", "removed", "created"},
           l \in Versions \cup {Nothing} :
          /\ disk' = [disk EXCEPT ![d] = x] /\ StepIs(r, d, s)
          /\ loading' = [loading EXCEPT ![d] = l] /\ l \in {Nothing, loading[d]}
          /\ x = Absent => l = Nothing
          /\ overtaken' = overtaken \/ overtaken' = overtaken \cup {d}
          /\ step[r][d] = "remove" /\ d \in known =>
                 x = Absent /\ s = "removed"
          /\ step[r][d] = "create" /\ disk[d] = Absent =>
                 /\ s = "created" /\ x # Absent /\ l = Nothing
                 /\ x = [look |-> after[r][d], content |-> Nothing]
          /\ step[r][d] \in {"update", "discard"} /\ d \in known /\ disk[d] # Absent =>
                 /\ s = "none" /\ x # Absent /\ x.look = after[r][d]
                 /\ x.content = IF step[r][d] = "discard" THEN Nothing ELSE disk[d].content
                 /\ l \in {Nothing, after[r][d]} \/ d \in overtaken'
  <2>1. /\ disk[d] \in Placeholder \cup {Absent} /\ disk = [disk EXCEPT ![d] = disk[d]]
        /\ loading[d] \in Versions \cup {Nothing} /\ loading = [loading EXCEPT ![d] = loading[d]]
        /\ disk[d] = Absent => loading[d] = Nothing
    BY <1>0 DEF TypeOK, Folder
  <2>2. step[r][d] # "remove" => after[r][d] \in Versions
    BY <1>0, <1>2 DEF Folder, TypeOK, Looks
  <2>3. CASE step[r][d] = "remove"
    <3>1. RemoveStep(r, d)
      BY <2>3 DEF StepOnDisk, UpdateStep, CreateStep
    <3>2. CASE d \in known
      BY <2>1, <2>3, <3>1, <3>2 DEF RemoveStep, WithoutFile
    <3>3. CASE d \notin known
      BY <2>1, <2>3, <3>1, <3>3 DEF RemoveStep
    <3> QED
      BY <3>2, <3>3
  <2>4. CASE step[r][d] = "create"
    <3>1. CreateStep(r, d)
      BY <2>4 DEF StepOnDisk, UpdateStep, RemoveStep
    <3>2. [look |-> after[r][d], content |-> Nothing] \in Placeholder
      BY <2>2, <2>4 DEF Placeholder
    <3>3. CASE disk[d] = Absent
      BY <2>1, <2>4, <3>1, <3>2, <3>3 DEF CreateStep
    <3>4. CASE disk[d] # Absent
      BY <2>1, <2>4, <3>1, <3>4 DEF CreateStep
    <3> QED
      BY <3>3, <3>4
  <2>5. CASE step[r][d] \in {"update", "discard"}
    <3> DEFINE y == [look |-> after[r][d], content |-> Content(disk[d], step[r][d])]
    <3>1. UpdateStep(r, d)
      BY <2>5 DEF StepOnDisk, CreateStep, RemoveStep
    <3>2. CASE d \in known /\ disk[d] # Absent
      <4>1. y \in Placeholder
        BY <2>1, <2>2, <2>5, <3>2 DEF Placeholder, Content
      <4>2. y.look = after[r][d]
            /\ y.content = IF step[r][d] = "discard" THEN Nothing ELSE disk[d].content
        BY DEF Content
      <4>3. /\ disk' = [disk EXCEPT ![d] = y] /\ StepIs(r, d, "none") /\ loading' = loading
            /\ overtaken' = IF loading[d] \in {Nothing, after[r][d]} THEN overtaken
                            ELSE overtaken \cup {d}
        BY <3>1, <3>2 DEF UpdateStep, Reachable
      <4>4. y # Absent
        BY <4>1
      <4> QED
        BY <2>1, <2>5, <4>1, <4>2, <4>3, <4>4
    <3>3. CASE ~(d \in known /\ disk[d] # Absent)
      <4>1. disk' = disk /\ StepIs(r, d, "none") /\ loading' = loading /\ overtaken' = overtaken
        BY <3>1, <3>3 DEF UpdateStep, Reachable
      <4> QED
        BY <2>1, <2>5, <3>3, <4>1
    <3> QED
      BY <3>2, <3>3
  <2> QED
    BY <1>2, <2>3, <2>4, <2>5
<1>5. /\ disk' \in [Docs -> Placeholder \cup {Absent}]
      /\ loading' \in [Docs -> Versions \cup {Nothing}]
      /\ \A e \in Docs \ {d} : disk'[e] = disk[e] /\ loading'[e] = loading[e]
      /\ disk'[d] = x /\ loading'[d] = l
      /\ step'[r][d] = s
      /\ \A q \in Tasks \ {r} : step'[q] = step[q]
  BY <1>0, <1>4 DEF TypeOK, StepIs
<1>6. \A q \in Tasks : Changes(q, d)' <=> Changes(q, d)
  BY <1>1 DEF Changes
<1>7. ASSUME Kept(d) PROVE Kept(d)'
  <2>1. /\ after[r][d] = entry[d]
        /\ \A q \in Tasks \ {r} : ~Changes(q, d) /\ step'[q][d] = "none"
        /\ ~Erases(d) /\ ~Erases(d)'
    BY <1>0, <1>1, <1>3, <1>5, <1>7 DEF Kept, Alone, Folder, Erases
  <2>2. Alone(d)'
    BY <1>1, <1>6, <1>7, <2>1 DEF Kept, Alone
  <2>3. /\ step[r][d] = "remove" => after[r][d] = Absent /\ d \in known /\ x = Absent /\ s = "removed"
        /\ step[r][d] = "create" => after[r][d] # Absent /\ d \notin known /\ x # Absent /\ x.look = after[r][d] /\ s = "created"
        /\ step[r][d] \in {"update", "discard"} =>
               after[r][d] # Absent /\ d \in known /\ x # Absent /\ x.look = after[r][d] /\ s = "none"
    BY <1>4, <1>7, MirrorAssumption DEF Kept, StepFits
  <2>4. Shows(d)' = after[r][d]
    BY <1>2, <1>5, <2>3 DEF Shows
  <2>5. \A q \in Tasks : StepFits(q, d)'
    BY <1>1, <1>2, <1>5, <2>1, <2>3, <2>4 DEF StepFits
  <2>6. Resting(d)'
    BY <1>1, <1>2, <1>3, <1>5, <1>6, <2>1, <2>3, <2>4 DEF Resting, Settled, Agrees
  <2>7. Listed(d)'
    BY <1>1, <1>2, <1>5, <1>7, <2>1, <2>3, <2>4 DEF Kept, Listed, Alone
  <2> QED
    BY <2>2, <2>5, <2>6, <2>7 DEF Kept
<1>8. ASSUME Kept(d), Fresh(d), d \notin overtaken' PROVE Fresh(d)'
  <2>1. /\ \A q \in Tasks \ {r} : ~Changes(q, d)
        /\ listing = "idle" /\ after[r][d] = entry[d]
    BY <1>3, <1>8 DEF Kept, Alone, Fresh
  <2>2. step[r][d] \in {"remove", "discard", "create"}
    BY <1>2, <1>3, <1>8 DEF Fresh
  <2>3. x = Absent \/ (x.content = Nothing /\ l \in {Nothing, after[r][d]})
    BY <1>4, <1>8, <2>2 DEF Kept, StepFits
  <2> QED
    BY <1>1, <1>2, <1>3, <1>5, <1>6, <2>1, <2>3 DEF Fresh
<1>9. /\ StepIs(r, d, s)
      /\ disk'[d] = Absent => loading'[d] = Nothing
      /\ overtaken \subseteq overtaken' /\ disturbed' = disturbed
      /\ known' \subseteq Docs /\ clean' \in BOOLEAN /\ order' = order
  BY <1>0, <1>1, <1>4, <1>5 DEF TypeOK
<1>10. \A e \in Docs \ {d} :
           disk'[e] = disk[e] /\ loading'[e] = loading[e] /\ (e \in known' <=> e \in known)
  BY <1>1, <1>5
<1> QED
  BY <1>1, <1>2, <1>3, <1>5, <1>7, <1>8, <1>9, <1>10, OneStep

\* A step in the map.
LEMMA StepInMapKeeps ==
    ASSUME FolderInv, NEW r \in Tasks, NEW d \in Docs, StepInMap(r, d) PROVE FolderInv'
<1> USE MirrorAssumption
<1>0. TypeOK /\ Folder
  BY DEF FolderInv
<1>1. UNCHANGED <<entry, erased, disk, asks, loading, populated, at, before, after, listing, should,
                  follow, erasing, clean, order, disturbed, unheard, overtaken>>
  BY DEF StepInMap, storeVars, diskVars, listVars, erasureVars, ghostVars
<1>2. /\ at[r] = "steps" /\ StepIs(r, d, "none")
      /\ \/ step[r][d] = "removed" /\ known' = known \ {d}
         \/ step[r][d] = "created" /\ known' = known \cup {d}
  BY DEF StepInMap, MapWithout
<1>3. Changes(r, d) /\ populated
  BY <1>0, <1>2 DEF Folder
<1>4. step'[r][d] = "none" /\ \A q \in Tasks \ {r} : step'[q] = step[q]
  BY <1>0, <1>2 DEF StepIs, TypeOK
<1>5. \A q \in Tasks : Changes(q, d)' <=> Changes(q, d)
  BY <1>1 DEF Changes
<1>6. ASSUME Kept(d) PROVE Kept(d)'
  <2>1. /\ after[r][d] = entry[d]
        /\ \A q \in Tasks \ {r} : ~Changes(q, d) /\ step'[q][d] = "none"
        /\ ~Erases(d) /\ ~Erases(d)'
    BY <1>0, <1>1, <1>3, <1>4, <1>6 DEF Kept, Alone, Folder, Erases
  <2>2. Alone(d)'
    BY <1>1, <1>5, <1>6, <2>1 DEF Kept, Alone
  <2>3. Shows(d)' = after[r][d] /\ Agrees(d)' /\ (d \in known' <=> after[r][d] # Absent)
    <3>1. disk[d] # Absent => Shows(d) # Absent
      BY <1>0 DEF TypeOK, Placeholder, Shows
    <3> QED
      BY <1>1, <1>2, <1>6, <3>1 DEF Kept, StepFits, Shows, Agrees
  <2>4. \A q \in Tasks : StepFits(q, d)'
    BY <1>4, <2>1 DEF StepFits
  <2>5. Resting(d)'
    BY <1>1, <1>2, <1>4, <1>5, <2>1, <2>3 DEF Resting, Settled
  <2>6. Listed(d)'
    BY <1>1, <1>6, <2>1, <2>3 DEF Kept, Listed, Alone, Shows
  <2> QED
    BY <2>2, <2>4, <2>5, <2>6 DEF Kept
<1>7. ASSUME Kept(d), Fresh(d) PROVE Fresh(d)'
  <2>1. \A q \in Tasks \ {r} : ~Changes(q, d)
    BY <1>3, <1>7 DEF Kept, Alone
  <2>2. disk[d] # Absent => {disk[d].content, loading[d]} \subseteq {Nothing, entry[d]}
    BY <1>2, <2>1, <1>7 DEF Fresh, NothingToDiscard
  <2> QED
    BY <1>1, <1>2, <1>3, <1>4, <1>5, <1>7, <2>1, <2>2 DEF Fresh
<1>8. /\ known' \subseteq Docs
      /\ \A e \in Docs \ {d} : disk'[e] = disk[e] /\ (e \in known' <=> e \in known)
  BY <1>0, <1>1, <1>2 DEF TypeOK
<1> QED
  BY <1>0, <1>1, <1>2, <1>3, <1>6, <1>7, <1>8, OneStep DEF TypeOK, Folder

\* A step that Windows refuses: nothing is owed of that document any more.
LEMMA StepRefusedKeeps ==
    ASSUME FolderInv, NEW r \in Tasks, NEW d \in Docs, StepRefused(r, d) PROVE FolderInv'
<1>0. TypeOK /\ Folder
  BY DEF FolderInv
<1>1. /\ UNCHANGED <<entry, erased, disk, asks, loading, known, populated, at, before, after, listing,
                     should, follow, erasing, clean, order, unheard, overtaken>>
      /\ disturbed' = disturbed \cup {d}
      /\ StepIs(r, d, "none")
      /\ at[r] = "steps" /\ step[r][d] # "none"
  BY DEF StepRefused, Refuses, InTurn, storeVars, diskVars, mapVars, listVars, erasureVars
<1>2. Changes(r, d) /\ populated
  BY <1>0, <1>1 DEF Folder
<1> QED
  BY <1>0, <1>1, <1>2, OneStep DEF TypeOK, Folder

\* The report is worked off.
LEMMA ReportDoneKeeps ==
    ASSUME FolderInv, NEW r \in Tasks, ReportDone(r) PROVE FolderInv'
<1> USE MirrorAssumption
<1>0. TypeOK /\ Folder
  BY DEF FolderInv
<1>1. /\ UNCHANGED <<entry, erased, disk, asks, loading, known, populated, before, after, step, listing,
                     should, follow, erasing, clean, disturbed, unheard, overtaken>>
      /\ at[r] = "steps" /\ \A d \in Docs : step[r][d] = "none"
      /\ at' = [at EXCEPT ![r] = "idle"]
  BY DEF ReportDone, storeVars, diskVars, mapVars, listVars, ghostVars
<1>2. at'[r] = "idle" /\ \A q \in Tasks \ {r} : at'[q] = at[q]
  BY <1>0, <1>1 DEF TypeOK
<1>3. TypeOK'
  <2>1. order' \in [Docs -> {"none", "failed", "applied"}]
    BY <1>0 DEF ReportDone, TypeOK, Answer
  <2> QED
    BY <1>0, <1>1, <2>1 DEF TypeOK
<1>4. \A d \in Docs : /\ ~Changes(r, d)'
                      /\ \A q \in Tasks \ {r} : Changes(q, d)' <=> Changes(q, d)
  BY <1>1, <1>2 DEF Changes
<1>5. Folder'
  <2>1. \A q \in Tasks, d \in Docs : step'[q][d] # "none" =>
            q # r /\ at'[q] = "steps" /\ Changes(q, d)' /\ populated'
    BY <1>0, <1>1, <1>2, <1>4 DEF Folder
  <2> QED
    BY <1>0, <1>1, <2>1 DEF Folder
<1>6. ASSUME NEW d \in Docs PROVE (Kept(d) => Kept(d)') /\ (Fresh(d) => Fresh(d)')
  <2>1. Erases(d)' <=> Erases(d)
    BY <1>1, <1>2 DEF Erases, Tasks
  <2>2. Erases(d) => at'[Delivery] = at[Delivery]
    BY <1>1, <1>2 DEF Erases, Tasks
  <2>3. CASE ~Changes(r, d)
    <3>1. \A q \in Tasks : Changes(q, d)' <=> Changes(q, d)
      BY <1>4, <2>3
    <3>2. \A q \in Tasks : Changes(q, d) => at'[q] = at[q]
      BY <1>2, <2>3
    <3> QED
      BY <1>0, <1>1, <2>1, <2>2, <3>1, <3>2, Untouched DEF Folder
  <2>4. CASE Changes(r, d)
    <3>1. Shows(d)' = Shows(d) /\ (Agrees(d)' <=> Agrees(d))
      BY <1>1 DEF Shows, Agrees
    <3>2. ASSUME Kept(d) PROVE Kept(d)'
      <4>1. \A q \in Tasks : ~Changes(q, d)'
        BY <1>4, <2>4, <3>2 DEF Kept, Alone
      <4>2. Settled(d)
        BY <1>1, <2>4, <3>2 DEF Kept, Alone, Settled
      <4>3. Alone(d)' /\ Listed(d)' /\ \A q \in Tasks : StepFits(q, d)'
        BY <1>1, <2>1, <3>1, <3>2, <4>1 DEF Kept, Alone, Listed, StepFits
      <4>4. Resting(d)'
        BY <1>1, <2>1, <2>2, <3>1, <3>2, <4>1, <4>2 DEF Kept, Resting
      <4> QED
        BY <4>3, <4>4 DEF Kept
    <3>3. ASSUME Fresh(d) PROVE Fresh(d)'
      <4>1. NothingToDiscard(d)' => NothingToDiscard(d)
        BY <1>1, <1>2, <1>4 DEF NothingToDiscard
      <4> QED
        BY <1>1, <1>2, <1>4, <3>1, <3>3, <4>1 DEF Fresh
    <3> QED
      BY <3>2, <3>3
  <2> QED
    BY <2>3, <2>4
<1> QED
  BY <1>1, <1>3, <1>5, <1>6 DEF FolderInv

-----------------------------------------------------------------------------
\* Until it reports, the channel has to do with one document only.
LEMMA EraseStep ==
    ASSUME FolderInv, at[Delivery] \in {"release", "remove", "removed"},
           NEW s \in {"remove", "removed", "erase"}, at' = [at EXCEPT ![Delivery] = s],
           NEW d \in Docs, d = erasing,
           UNCHANGED <<entry, erased, asks, populated, before, after, step, listing, should,
                       follow, erasing, order, unheard, overtaken>>,
           disk' \in [Docs -> Placeholder \cup {Absent}], known' \subseteq known, clean' \in BOOLEAN,
           loading' \in [Docs -> Versions \cup {Nothing}],
           disturbed \subseteq disturbed', disturbed' \subseteq Docs \cup disturbed,
           \A e \in Docs \ {d} :
               disk'[e] = disk[e] /\ loading'[e] = loading[e] /\ (e \in known' <=> e \in known),
           disk'[d] # Absent =>
               disk[d] # Absent /\ disk'[d].content \in {Nothing, disk[d].content},
           loading'[d] \in {Nothing, loading[d]}, disk'[d] = Absent => loading'[d] = Nothing,
           Kept(d) /\ d \notin disturbed' /\ populated =>
               IF s = "removed" THEN d \in known' /\ disk'[d] = Absent
               ELSE /\ d \in known' <=> disk'[d] # Absent
                    /\ Shows(d)' = entry[d] \/ (s = "erase" /\ Shows(d)' = Absent)
    PROVE  FolderInv'
<1> USE MirrorAssumption
<1>0. TypeOK /\ Folder
  BY DEF FolderInv
<1>1. at'[Delivery] = s /\ \A q \in Tasks \ {Delivery} : at'[q] = at[q]
  BY <1>0 DEF TypeOK, Tasks
<1>2. TypeOK'
  BY <1>0 DEF TypeOK
<1>3. \A q \in Tasks, e \in Docs : Changes(q, e)' <=> Changes(q, e)
  BY <1>1 DEF Changes
<1>4. Folder'
  <2>1. \A q \in Tasks, e \in Docs : step'[q][e] # "none" =>
            at'[q] = "steps" /\ Changes(q, e)' /\ populated'
    BY <1>0, <1>1, <1>3 DEF Folder
  <2> QED
    BY <1>0, <2>1 DEF Folder
<1>5. ASSUME NEW e \in Docs \ {d} PROVE (Kept(e) => Kept(e)') /\ (Fresh(e) => Fresh(e)')
  <2>1. ~Erases(e) /\ ~Erases(e)'
    BY DEF Erases
  <2>2. \A q \in Tasks : Changes(q, e) => at'[q] = at[q]
    BY <1>1 DEF Changes
  <2> QED
    BY <1>0, <1>3, <2>1, <2>2, Untouched DEF Folder
<1>6. Erases(d) /\ Erases(d)'
  BY <1>1 DEF Erases
<1>7. ASSUME Kept(d), d \notin disturbed' PROVE Kept(d)'
  <2>1. listing = "idle" /\ \A q \in Tasks : ~Changes(q, d) /\ step[q][d] = "none"
    BY <1>0, <1>6, <1>7 DEF Kept, Alone, Folder
  <2>2. Alone(d)' /\ Listed(d)' /\ \A q \in Tasks : StepFits(q, d)'
    BY <1>3, <2>1 DEF Alone, Listed, StepFits
  <2>3. Resting(d)'
    BY <1>1, <1>3, <1>6, <1>7, <2>1 DEF Resting, Agrees
  <2> QED
    BY <2>2, <2>3 DEF Kept
<1>8. ASSUME Kept(d), Fresh(d) PROVE Fresh(d)'
  <2>1. \A q \in Tasks : ~Changes(q, d)
    BY <1>6, <1>8 DEF Kept, Alone
  <2> QED
    BY <1>3, <1>8, <2>1 DEF Fresh, NothingToDiscard
<1> QED
  BY <1>2, <1>4, <1>5, <1>7, <1>8 DEF FolderInv

\* What is known of the document while the channel erases it.
LEMMA WhileErasing ==
    ASSUME FolderInv, Kept(erasing), populated, at[Delivery] \in {"release", "remove", "removed"}
    PROVE  IF at[Delivery] = "removed" THEN erasing \in known /\ disk[erasing] = Absent
           ELSE Agrees(erasing) /\ Shows(erasing) = entry[erasing]
<1>1. Erases(erasing)
  BY DEF Erases
<1>2. listing = "idle" /\ Settled(erasing)
  BY <1>1 DEF Kept, Alone, Settled
<1> QED
  BY <1>1, <1>2 DEF Kept, Resting

\* A command takes the key of a document away (keyring.release).
LEMMA ReleaseKeeps ==
    ASSUME FolderInv, Release PROVE FolderInv'
<1> USE MirrorAssumption
<1>0. TypeOK /\ Folder /\ erasing \in Docs
  BY DEF FolderInv, TypeOK
<1>1. /\ UNCHANGED <<entry, erased, asks, loading, known, populated, before, after, step, listing, should,
                     follow, erasing, order, disturbed, unheard, overtaken>>
      /\ at[Delivery] = "release" /\ at' = [at EXCEPT ![Delivery] = "remove"]
      /\ clean' \in BOOLEAN
  BY DEF Release, storeVars, mapVars, listVars, ghostVars, Reachable
<1>2. /\ disk' \in [Docs -> Placeholder \cup {Absent}]
      /\ \A e \in Docs \ {erasing} : disk'[e] = disk[e]
      /\ disk[erasing] = Absent => disk'[erasing] = Absent
      /\ disk[erasing] # Absent =>
             /\ disk'[erasing] # Absent /\ disk'[erasing].look = disk[erasing].look
             /\ disk'[erasing].content \in {Nothing, disk[erasing].content}
  <2>1. CASE Reachable(erasing)
    <3>1. disk' = [disk EXCEPT ![erasing] = [disk[erasing] EXCEPT !.content = Nothing]]
      BY <2>1 DEF Release
    <3>2. disk[erasing] \in Placeholder
      BY <1>0, <2>1 DEF TypeOK, Reachable
    <3>3. [disk[erasing] EXCEPT !.content = Nothing] \in Placeholder
      BY <3>2 DEF Placeholder
    <3> QED
      BY <1>0, <2>1, <3>1, <3>2, <3>3 DEF TypeOK, Reachable, Placeholder
  <2>2. CASE ~Reachable(erasing)
    BY <1>0, <2>2 DEF Release, TypeOK
  <2> QED
    BY <2>1, <2>2
<1>3. Kept(erasing) /\ populated =>
          /\ erasing \in known' <=> disk'[erasing] # Absent
          /\ Shows(erasing)' = entry[erasing]
  BY <1>1, <1>2, WhileErasing DEF Agrees, Shows
<1> QED
  BY <1>0, <1>1, <1>2, <1>3, EraseStep DEF TypeOK, Folder

\* The erasure removes the placeholder, and the map does not know of it yet.
LEMMA RemoveOnDiskKeeps ==
    ASSUME FolderInv, RemoveOnDisk PROVE FolderInv'
<1> USE MirrorAssumption
<1>0. TypeOK /\ Folder /\ erasing \in Docs
  BY DEF FolderInv, TypeOK
<1>1. /\ UNCHANGED <<entry, erased, asks, known, populated, before, after, step, listing, should,
                     follow, erasing, order, disturbed, unheard, overtaken>>
      /\ at[Delivery] = "remove"
  BY DEF RemoveOnDisk, storeVars, mapVars, listVars, ghostVars
<1>2. CASE erasing \in known
  <2>1. /\ disk' = [disk EXCEPT ![erasing] = Absent] /\ clean' = clean
        /\ loading' = [loading EXCEPT ![erasing] = Nothing]
        /\ at' = [at EXCEPT ![Delivery] = "removed"]
    BY <1>2 DEF RemoveOnDisk, WithoutFile
  <2>2. /\ disk' \in [Docs -> Placeholder \cup {Absent}] /\ disk'[erasing] = Absent
        /\ loading' \in [Docs -> Versions \cup {Nothing}] /\ loading'[erasing] = Nothing
        /\ \A e \in Docs \ {erasing} : disk'[e] = disk[e] /\ loading'[e] = loading[e]
    BY <1>0, <2>1 DEF TypeOK
  <2> QED
    BY <1>0, <1>1, <1>2, <2>1, <2>2, EraseStep DEF TypeOK
<1>3. CASE erasing \notin known
  <2>1. /\ disk' = disk /\ loading' = loading /\ clean' = FALSE
        /\ at' = [at EXCEPT ![Delivery] = "erase"]
    BY <1>3 DEF RemoveOnDisk
  <2>2. Kept(erasing) /\ populated => erasing \notin known /\ disk[erasing] = Absent
    BY <1>1, <1>3, WhileErasing DEF Agrees
  <2>3. Kept(erasing) /\ populated => Shows(erasing)' = Absent
    BY <1>1, <2>1, <2>2 DEF Shows
  <2> QED
    BY <1>0, <1>1, <2>1, <2>2, <2>3, EraseStep DEF TypeOK, Folder
<1> QED
  BY <1>2, <1>3

\* What the erasure finds open is disturbed.
LEMMA EraseRefusedKeeps ==
    ASSUME FolderInv, EraseRefused PROVE FolderInv'
<1>0. TypeOK /\ Folder /\ erasing \in Docs
  BY DEF FolderInv, TypeOK
<1>1. /\ UNCHANGED <<entry, erased, disk, asks, loading, known, populated, before, after, step,
                     listing, should, follow, erasing, order, unheard, overtaken>>
      /\ at[Delivery] \in {"release", "remove"} /\ clean' = FALSE
      /\ disturbed' = disturbed \cup {erasing}
  BY DEF EraseRefused, Refuses, storeVars, diskVars, mapVars, listVars
<1>2. PICK s \in {"remove", "erase"} : at' = [at EXCEPT ![Delivery] = s]
  BY DEF EraseRefused
<1> QED
  BY <1>0, <1>1, <1>2, EraseStep DEF TypeOK, Folder

\* The map forgets the placeholder that the erasure removed.
LEMMA RemoveInMapKeeps ==
    ASSUME FolderInv, RemoveInMap PROVE FolderInv'
<1>0. TypeOK /\ Folder /\ erasing \in Docs
  BY DEF FolderInv, TypeOK
<1>1. /\ UNCHANGED <<entry, erased, disk, asks, loading, populated, before, after, step, listing, should,
                     follow, erasing, clean, order, disturbed, unheard, overtaken>>
      /\ at[Delivery] = "removed" /\ at' = [at EXCEPT ![Delivery] = "erase"]
      /\ known' = known \ {erasing}
  BY DEF RemoveInMap, MapWithout, storeVars, diskVars, listVars, erasureVars, ghostVars
<1>2. Kept(erasing) /\ populated => disk[erasing] = Absent
  BY <1>1, WhileErasing
<1>3. Kept(erasing) /\ populated => Shows(erasing)' = Absent
  BY <1>1, <1>2 DEF Shows
<1> QED
  BY <1>0, <1>1, <1>2, <1>3, EraseStep DEF TypeOK, Folder

\* The entry leaves the store; that is what the erasure reports.
LEMMA EraseFromStoreKeeps ==
    ASSUME FolderInv, EraseFromStore PROVE FolderInv'
<1> DEFINE new == [entry EXCEPT ![erasing] = Absent]
<1>0. TypeOK /\ Folder /\ erasing \in Docs
  BY DEF FolderInv, TypeOK
<1>1. /\ Reports(Delivery, new) /\ at[Delivery] = "erase" /\ erased' = erased \cup {erasing}
      /\ UNCHANGED <<diskVars, mapVars, step, listVars, erasureVars>>
  BY DEF EraseFromStore
<1>2. new \in Listings /\ new[erasing] = Absent
  <2>1. entry \in [Docs -> Looks] /\ Absent \in Looks
    BY <1>0 DEF TypeOK, Looks
  <2>2. new \in [Docs -> Looks] /\ \A d \in Docs : new[d] \in {entry[d], Absent}
    BY <1>0, <2>1
  <2>3. \A d \in erased : new[d] = Absent
    BY <1>0, <2>2 DEF TypeOK
  <2> QED
    BY <1>0, <2>1, <2>2, <2>3 DEF Listings
<1> HIDE DEF new
<1>3. new = [entry EXCEPT ![erasing] = Absent]
  BY DEF new
<1> QED
  BY <1>1, <1>2, <1>3, ReportKeeps DEF Tasks

\* The channel begins to erase a document: it is disturbed if somebody else is at it.
LEMMA EraseBeginsKeeps ==
    ASSUME FolderInv, NEW d \in Docs, EraseBegins(d) PROVE FolderInv'
<1> USE MirrorAssumption
<1>0. TypeOK /\ Folder
  BY DEF FolderInv
<1>1. /\ UNCHANGED <<entry, erased, disk, asks, loading, known, populated, before, after, step, listing,
                     should, follow, order, unheard, overtaken>>
      /\ at[Delivery] = "idle" /\ erasing' = d /\ clean' = TRUE
      /\ at' = [at EXCEPT ![Delivery] = IF entry[d] = Absent THEN "erase" ELSE "release"]
      /\ disturbed' = IF d \in BusyWith(Delivery) THEN disturbed \cup {d} ELSE disturbed
  BY DEF EraseBegins, storeVars, diskVars, mapVars, listVars
<1>2. /\ at'[Delivery] = IF entry[d] = Absent THEN "erase" ELSE "release"
      /\ \A q \in Tasks \ {Delivery} : at'[q] = at[q]
  BY <1>0, <1>1 DEF TypeOK, Tasks
<1>3. TypeOK'
  BY <1>0, <1>1 DEF TypeOK
<1>4. \A q \in Tasks, e \in Docs : Changes(q, e)' <=> Changes(q, e)
  BY <1>1, <1>2 DEF Changes
<1>5. Folder'
  <2>1. \A q \in Tasks, e \in Docs : step'[q][e] # "none" =>
            at'[q] = "steps" /\ Changes(q, e)' /\ populated'
    BY <1>0, <1>1, <1>2, <1>4 DEF Folder
  <2> QED
    BY <1>0, <1>1, <2>1 DEF Folder
<1>6. \A e \in Docs : ~Erases(e) /\ (e # d => ~Erases(e)')
  BY <1>1 DEF Erases
<1>7. \A q \in Tasks, e \in Docs : Changes(q, e) => at'[q] = at[q]
  BY <1>1, <1>2 DEF Changes
<1>8. ASSUME NEW e \in Docs \ {d} PROVE (Kept(e) => Kept(e)') /\ (Fresh(e) => Fresh(e)')
  BY <1>0, <1>1, <1>4, <1>6, <1>7, Untouched DEF Folder
<1>9. ASSUME Kept(d), d \notin disturbed' PROVE Kept(d)'
  <2>1. d \notin BusyWith(Delivery)
    BY <1>1, <1>9
  <2>2. /\ listing = "idle"
        /\ \A q \in Tasks : ~Changes(q, d) /\ step[q][d] = "none"
    BY <1>0, <1>1, <2>1, NotBusy DEF Changes, Folder, Tasks
  <2>3. Alone(d)' /\ Listed(d)' /\ \A q \in Tasks : StepFits(q, d)'
    BY <1>1, <1>4, <2>2 DEF Alone, Listed, StepFits
  <2>4. populated => Agrees(d) /\ Shows(d) = entry[d]
    BY <1>6, <1>9, <2>2 DEF Kept, Resting, Settled
  <2>5. Resting(d)'
    BY <1>1, <1>2, <1>4, <2>2, <2>4 DEF Resting, Settled, Agrees, Shows, Erases
  <2> QED
    BY <2>3, <2>5 DEF Kept
<1>10. ASSUME Fresh(d) PROVE Fresh(d)'
  <2>1. NothingToDiscard(d)' <=> NothingToDiscard(d)
    BY <1>1, <1>4, <1>7 DEF NothingToDiscard
  <2> QED
    BY <1>1, <1>4, <1>7, <1>10, <2>1 DEF Fresh, Shows
<1> QED
  BY <1>1, <1>3, <1>5, <1>8, <1>9, <1>10 DEF FolderInv

-----------------------------------------------------------------------------
\* While the folder is not opened no task has steps to carry out in it.
LEMMA NoStepsYet ==
    ASSUME Folder, ~populated
    PROVE  /\ known = {}
           /\ \A r \in Tasks, d \in Docs : step[r][d] = "none"
  BY DEF Folder

\* Windows asks for the listing, and the callback reads it from the store.
LEMMA ReadListingKeeps ==
    ASSUME FolderInv, ReadListing PROVE FolderInv'
<1>0. TypeOK /\ Folder
  BY DEF FolderInv
<1>1. /\ UNCHANGED <<entry, erased, disk, asks, loading, known, populated, at, before, after, step,
                     follow, erasing, clean, order, unheard, overtaken>>
      /\ asks /\ listing = "idle" /\ listing' = "read" /\ should' = entry
      /\ disturbed \subseteq disturbed'
      /\ at[Delivery] # "idle" => erasing \in disturbed'
      /\ populated => \A d \in Docs, r \in Tasks : Changes(r, d) => d \in disturbed'
  BY DEF ReadListing, storeVars, diskVars, mapVars, taskVars, erasureVars
<1>2. \A r \in Tasks, d \in Docs : Changes(r, d)' <=> Changes(r, d)
  BY <1>1 DEF Changes
<1>3. TypeOK' /\ Folder'
  BY <1>0, <1>1, <1>2 DEF TypeOK, Folder
<1>4. ASSUME NEW d \in Docs, Kept(d), d \notin disturbed' PROVE Kept(d)'
  <2>1. ~Erases(d) /\ ~Erases(d)'
    BY <1>1, <1>4 DEF Erases
  <2>2. populated => \A r \in Tasks : ~Changes(r, d)
    BY <1>1, <1>4
  <2>3. Alone(d)'
    BY <1>1, <1>2, <1>4, <2>1, <2>2 DEF Kept, Alone
  <2>4. Settled(d)' <=> Settled(d)
    BY <1>1, <1>2 DEF Settled
  <2>5. Resting(d)'
    BY <1>1, <1>2, <1>4, <2>1, <2>4 DEF Kept, Resting, Agrees, Shows
  <2>6. Listed(d)' /\ \A r \in Tasks : StepFits(r, d)'
    BY <1>1, <1>4 DEF Kept, Listed, StepFits, Shows
  <2> QED
    BY <2>3, <2>5, <2>6 DEF Kept
<1>5. ASSUME NEW d \in Docs, Fresh(d), d \notin disturbed' PROVE Fresh(d)'
  <2>1. \A r \in Tasks : ~Changes(r, d)
    BY <1>1, <1>5 DEF Fresh
  <2> QED
    BY <1>1, <1>2, <1>5, <2>1 DEF Fresh, NothingToDiscard
<1> QED
  BY <1>1, <1>3, <1>4, <1>5 DEF FolderInv

\* No task has a difference to report that the folder is to hear of while a listing is
\* handed over, and steps only once it is.
LEMMA WhileListing ==
    ASSUME FolderInv, listing # "idle", NEW d \in Docs
    PROVE  /\ Kept(d) => ~Erases(d) /\ should[d] = entry[d]
           /\ Fresh(d) =>
                  /\ \A r \in Tasks : ~Changes(r, d)
                  /\ disk[d] # Absent => {disk[d].content, loading[d]} \subseteq {Nothing, entry[d]}
  BY DEF Kept, Alone, Fresh, NothingToDiscard

\* Windows gives up its request before it has the answer.
LEMMA ListingWithdrawnKeeps ==
    ASSUME FolderInv, ListingWithdrawn PROVE FolderInv'
<1>0. TypeOK /\ Folder
  BY DEF FolderInv
<1>1. /\ UNCHANGED <<entry, erased, disk, asks, loading, known, populated, at, before, after, step, should,
                     follow, erasing, clean, order, disturbed, unheard, overtaken>>
      /\ listing = "read" /\ listing' = "idle"
  BY DEF ListingWithdrawn, storeVars, diskVars, mapVars, taskVars, erasureVars, ghostVars
<1>2. \A r \in Tasks, d \in Docs : Changes(r, d)' <=> Changes(r, d)
  BY <1>1 DEF Changes
<1>3. TypeOK' /\ Folder'
  BY <1>0, <1>1, <1>2 DEF TypeOK, Folder
<1>4. ASSUME NEW d \in Docs, Kept(d) PROVE Kept(d)'
  <2>1. ~Erases(d) /\ ~Erases(d)'
    BY <1>1, <1>4, WhileListing DEF Erases
  <2>2. Alone(d)'
    BY <1>1, <1>2, <1>4, <2>1 DEF Kept, Alone
  <2>3. Settled(d)' <=> Settled(d)
    BY <1>1, <1>2 DEF Settled
  <2>4. Resting(d)'
    BY <1>1, <1>2, <1>4, <2>1, <2>3 DEF Kept, Resting, Agrees, Shows
  <2>5. Listed(d)' /\ \A r \in Tasks : StepFits(r, d)'
    BY <1>1, <1>4 DEF Kept, Listed, StepFits, Shows
  <2> QED
    BY <2>2, <2>4, <2>5 DEF Kept
<1>5. ASSUME NEW d \in Docs, Fresh(d) PROVE Fresh(d)'
  BY <1>1, <1>2, <1>5, WhileListing DEF Fresh
<1> QED
  BY <1>1, <1>3, <1>4, <1>5 DEF FolderInv

\* A folder that was opened before shows a document that no task is at while Windows asks
\* for it again.
LEMMA WhileAskedAgain ==
    ASSUME FolderInv, populated, listing \in {"read", "handed"}, NEW d \in Docs, Kept(d)
    PROVE  /\ \A r \in Tasks : ~Changes(r, d) /\ step[r][d] = "none"
           /\ Agrees(d) /\ Shows(d) = entry[d]
           /\ disk[d] # Absent <=> should[d] # Absent
<1>0. TypeOK /\ Folder
  BY DEF FolderInv
<1>1. \A r \in Tasks : ~Changes(r, d) /\ step[r][d] = "none"
  BY <1>0 DEF Kept, Alone, Folder
<1>2. ~Erases(d) /\ should[d] = entry[d]
  BY WhileListing
<1>3. Agrees(d) /\ Shows(d) = entry[d]
  BY <1>1, <1>2 DEF Kept, Resting, Settled
<1>4. disk[d] # Absent <=> Shows(d) # Absent
  BY <1>0, MirrorAssumption DEF TypeOK, Placeholder, Shows
<1> QED
  BY <1>1, <1>2, <1>3, <1>4

\* What has a free name is handed over, but for what Windows refuses.
LEMMA HandOverKeeps ==
    ASSUME FolderInv, HandOver PROVE FolderInv'
<1> USE MirrorAssumption
<1>0. TypeOK /\ Folder
  BY DEF FolderInv
<1>1. /\ UNCHANGED <<entry, erased, loading, known, populated, at, before, after, step, should,
                     erasing, clean, order, unheard, overtaken>>
      /\ listing = "read" /\ listing' = "handed"
      /\ follow' = {d \in Docs : disk[d] # Absent}
  BY DEF HandOver, storeVars, mapVars, taskVars, erasureVars
<1>2. PICK refused \in SUBSET Free :
          /\ disk' = [d \in Docs |-> IF d \in Free \ refused
                                    THEN [look |-> should[d], content |-> Nothing]
                                    ELSE disk[d]]
          /\ asks' \in BOOLEAN /\ disturbed' = disturbed \cup refused
  BY DEF HandOver
<1>3. /\ disk' \in [Docs -> Placeholder \cup {Absent}]
      /\ \A d \in Docs \ disturbed' :
             IF disk[d] = Absent /\ should[d] # Absent
             THEN /\ disk'[d] # Absent
                  /\ disk'[d].look = should[d] /\ disk'[d].content = Nothing
             ELSE disk'[d] = disk[d]
      /\ \A d \in Docs : disk[d] # Absent => disk'[d] = disk[d]
  <2>1. \A d \in Docs :
            should[d] # Absent => [look |-> should[d], content |-> Nothing] \in Placeholder
    BY <1>0 DEF TypeOK, Looks, Placeholder
  <2> QED
    BY <1>0, <1>2, <2>1 DEF TypeOK, Free
<1>4. \A r \in Tasks, d \in Docs : Changes(r, d)' <=> Changes(r, d)
  BY <1>1 DEF Changes
<1>5. TypeOK'
  BY <1>0, <1>1, <1>2, <1>3 DEF TypeOK
<1>6. Folder'
  <2>1. \A d \in Docs : disk'[d] = Absent => loading'[d] = Nothing
    BY <1>0, <1>1, <1>3 DEF Folder
  <2> QED
    BY <1>0, <1>1, <1>4, <2>1 DEF Folder
<1>7. ASSUME NEW d \in Docs, d \notin disturbed', Kept(d) PROVE Kept(d)'
  <2>1. ~Erases(d) /\ ~Erases(d)'
    BY <1>1, <1>7, WhileListing DEF Erases
  <2>2. Alone(d)'
    BY <1>1, <1>4, <1>7, <2>1 DEF Kept, Alone
  <2>3. Listed(d)'
    BY <1>1, <1>3, <1>7 DEF Listed, Shows
  <2>4. ASSUME ~populated PROVE Resting(d)' /\ \A r \in Tasks : StepFits(r, d)'
    BY <1>0, <1>1, <2>4, NoStepsYet DEF Resting, StepFits
  <2>5. ASSUME populated PROVE Resting(d)' /\ \A r \in Tasks : StepFits(r, d)'
    <3>1. /\ \A r \in Tasks : ~Changes(r, d) /\ step[r][d] = "none"
          /\ Agrees(d) /\ Shows(d) = entry[d] /\ disk'[d] = disk[d]
      BY <1>1, <1>3, <1>7, <2>5, WhileAskedAgain
    <3> QED
      BY <1>1, <1>4, <2>1, <3>1 DEF Resting, StepFits, Agrees, Shows
  <2> QED
    BY <2>2, <2>3, <2>4, <2>5 DEF Kept
<1>8. ASSUME NEW d \in Docs, d \notin disturbed', Fresh(d) PROVE Fresh(d)'
  <2>1. \A r \in Tasks : ~Changes(r, d)
    BY <1>1, <1>8, WhileListing
  <2>2. disk'[d] # Absent => {disk'[d].content, loading'[d]} \subseteq {Nothing, entry[d]}
    BY <1>0, <1>1, <1>3, <1>8, WhileListing DEF Folder
  <2> QED
    BY <1>1, <1>4, <2>1, <2>2 DEF Fresh
<1> QED
  BY <1>1, <1>2, <1>5, <1>6, <1>7, <1>8 DEF FolderInv

\* The map knows the listing, what was refused included.
LEMMA PopulateKeeps ==
    ASSUME FolderInv, Populate PROVE FolderInv'
<1>0. TypeOK /\ Folder
  BY DEF FolderInv
<1>1. /\ UNCHANGED <<entry, erased, disk, asks, loading, at, before, after, step, should, follow,
                     erasing, clean, order, disturbed, unheard, overtaken>>
      /\ listing = "handed" /\ listing' = "following" /\ populated' = TRUE
      /\ known' = known \cup Entered
  BY DEF Populate, storeVars, diskVars, taskVars, erasureVars, ghostVars
<1>2. \A r \in Tasks, d \in Docs : Changes(r, d)' <=> Changes(r, d)
  BY <1>1 DEF Changes
<1>3. TypeOK' /\ Folder'
  BY <1>0, <1>1, <1>2 DEF TypeOK, Folder, Entered
<1>4. ASSUME NEW d \in Docs, Kept(d) PROVE Kept(d)'
  <2>1. ~Erases(d) /\ ~Erases(d)'
    BY <1>1, <1>4, WhileListing DEF Erases
  <2>2. Alone(d)'
    BY <1>1, <1>2, <1>4, <2>1 DEF Kept, Alone
  <2>3. \A r \in Tasks : step[r][d] = "none"
    BY <1>0, <1>1, <1>4, NoStepsYet, WhileAskedAgain
  <2>4. d \in known' <=> should[d] # Absent
    <3>1. populated => (d \in known <=> should[d] # Absent)
      BY <1>1, <1>4, WhileAskedAgain DEF Agrees
    <3>2. ~populated => d \notin known
      BY <1>0 DEF Folder
    <3> QED
      BY <1>1, <3>1, <3>2 DEF Entered
  <2>5. Listed(d)'
    BY <1>1, <1>4, <2>4 DEF Kept, Listed, Shows
  <2>6. Resting(d)' /\ \A r \in Tasks : StepFits(r, d)'
    BY <1>1, <2>3 DEF Resting, StepFits
  <2> QED
    BY <2>2, <2>5, <2>6 DEF Kept
<1>5. ASSUME NEW d \in Docs, Fresh(d) PROVE Fresh(d)'
  BY <1>1, <1>2, <1>5, WhileListing DEF Fresh
<1> QED
  BY <1>1, <1>3, <1>4, <1>5 DEF FolderInv

\* What lay there already is made what the listing says.
LEMMA FollowUpKeeps ==
    ASSUME FolderInv, NEW d \in Docs, FollowUp(d) PROVE FolderInv'
<1> USE MirrorAssumption
<1>0. TypeOK /\ Folder
  BY DEF FolderInv
<1>1. /\ UNCHANGED <<entry, erased, asks, known, populated, at, before, after, step, listing,
                     should, erasing, clean, order, disturbed, unheard, overtaken>>
      /\ listing = "following" /\ follow' = follow \ {d}
      /\ disk' = [disk EXCEPT ![d] = FollowedUp(d)]
      /\ loading' = IF disk'[d] = Absent THEN [loading EXCEPT ![d] = Nothing] ELSE loading
  BY DEF FollowUp, NextToFollow, storeVars, mapVars, taskVars, erasureVars, ghostVars
<1>2. /\ FollowedUp(d) \in Placeholder \cup {Absent}
      /\ disk[d] = Absent \/ should[d] = Absent => FollowedUp(d) = Absent
      /\ disk[d] # Absent /\ should[d] # Absent =>
             /\ FollowedUp(d) # Absent /\ FollowedUp(d).look = should[d]
             /\ FollowedUp(d).content = disk[d].content
  BY <1>0 DEF TypeOK, Looks, Placeholder, FollowedUp
<1>3. /\ disk' \in [Docs -> Placeholder \cup {Absent}] /\ disk'[d] = FollowedUp(d)
      /\ loading' \in [Docs -> Versions \cup {Nothing}]
      /\ loading'[d] = IF disk'[d] = Absent THEN Nothing ELSE loading[d]
      /\ \A e \in Docs \ {d} : disk'[e] = disk[e] /\ loading'[e] = loading[e]
  BY <1>0, <1>1, <1>2 DEF TypeOK
<1>4. TypeOK' /\ Folder'
  <2>1. \A r \in Tasks, e \in Docs : Changes(r, e)' <=> Changes(r, e)
    BY <1>1 DEF Changes
  <2> QED
    BY <1>0, <1>1, <1>3, <2>1 DEF TypeOK, Folder
<1>5. \A r \in Tasks, e \in Docs : Changes(r, e)' <=> Changes(r, e)
  BY <1>1 DEF Changes
<1>6. \A e \in Docs : Erases(e)' <=> Erases(e)
  BY <1>1 DEF Erases
<1>7. ASSUME NEW e \in Docs \ {d} PROVE (Kept(e) => Kept(e)') /\ (Fresh(e) => Fresh(e)')
  BY <1>0, <1>1, <1>3, <1>5, <1>6, <1>7, Untouched DEF Folder
<1>8. ASSUME Kept(d) PROVE Kept(d)'
  <2>1. should[d] = entry[d]
    BY <1>1, <1>8, WhileListing
  <2>2. Alone(d)'
    BY <1>1, <1>5, <1>6, <1>8 DEF Kept, Alone
  <2>3. should[d] # Absent => disk[d] # Absent
    BY <1>1, <1>8 DEF Kept, Listed
  <2>4. Shows(d)' = should[d]
    BY <1>2, <1>3, <2>3 DEF Shows
  <2>5. d \in known <=> should[d] # Absent
    BY <1>1, <1>8 DEF Kept, Listed
  <2>6. Listed(d)' /\ Resting(d)'
    BY <1>1, <1>2, <1>3, <2>3, <2>4, <2>5 DEF Listed, Resting
  <2>7. ASSUME NEW r \in Tasks PROVE StepFits(r, d)'
    <3>1. step[r][d] # "none" => after[r][d] = should[d]
      BY <1>0, <1>8, <2>1 DEF Folder, Kept, Alone
    <3>2. StepFits(r, d)
      BY <1>8 DEF Kept
    <3> QED
      BY <1>1, <1>2, <1>3, <2>5, <3>1, <3>2 DEF StepFits
  <2> QED
    BY <2>2, <2>6, <2>7 DEF Kept
<1>9. ASSUME Fresh(d) PROVE Fresh(d)'
  <2>1. \A r \in Tasks : ~Changes(r, d)
    BY <1>1, <1>9, WhileListing
  <2>2. disk'[d] # Absent => {disk'[d].content, loading'[d]} \subseteq {Nothing, entry[d]}
    BY <1>1, <1>2, <1>3, <1>9, WhileListing
  <2> QED
    BY <1>1, <1>5, <2>1, <2>2 DEF Fresh
<1> QED
  BY <1>1, <1>4, <1>7, <1>8, <1>9 DEF FolderInv

\* A follow-up that Windows refuses: nothing is owed of that document any more.
LEMMA FollowUpRefusedKeeps ==
    ASSUME FolderInv, NEW d \in Docs, FollowUpRefused(d) PROVE FolderInv'
<1>0. TypeOK /\ Folder
  BY DEF FolderInv
<1>1. /\ UNCHANGED <<entry, erased, disk, asks, loading, known, populated, at, before, after, step,
                     listing, should, erasing, clean, order, unheard, overtaken>>
      /\ follow' = follow \ {d} /\ disturbed' = disturbed \cup {d}
  BY DEF FollowUpRefused, NextToFollow, Refuses, storeVars, diskVars, mapVars, taskVars,
         erasureVars
<1>2. \A r \in Tasks, e \in Docs : Changes(r, e)' <=> Changes(r, e)
  BY <1>1 DEF Changes
<1>3. TypeOK' /\ Folder'
  BY <1>0, <1>1, <1>2 DEF TypeOK, Folder
<1>4. ASSUME NEW e \in Docs \ {d} PROVE (Kept(e) => Kept(e)') /\ (Fresh(e) => Fresh(e)')
  <2>1. Erases(e)' <=> Erases(e)
    BY <1>1 DEF Erases
  <2> QED
    BY <1>0, <1>1, <1>2, <2>1, Untouched DEF Folder
<1> QED
  BY <1>1, <1>3, <1>4 DEF FolderInv

\* The callback returns: the folder shows the listing.
LEMMA ListingDoneKeeps ==
    ASSUME FolderInv, ListingDone PROVE FolderInv'
<1> USE MirrorAssumption
<1>0. TypeOK /\ Folder
  BY DEF FolderInv
<1>1. /\ UNCHANGED <<entry, erased, disk, asks, loading, known, populated, at, before, after, step, should,
                     follow, erasing, clean, order, disturbed, unheard, overtaken>>
      /\ listing = "following" /\ listing' = "idle" /\ follow = {}
  BY DEF ListingDone, storeVars, diskVars, mapVars, taskVars, erasureVars, ghostVars
<1>2. \A r \in Tasks, d \in Docs : Changes(r, d)' <=> Changes(r, d)
  BY <1>1 DEF Changes
<1>3. TypeOK' /\ Folder'
  BY <1>0, <1>1, <1>2 DEF TypeOK, Folder
<1>4. ASSUME NEW d \in Docs, Kept(d) PROVE Kept(d)'
  <2>1. ~Erases(d)' /\ should[d] = entry[d]
    BY <1>1, <1>4, WhileListing DEF Erases
  <2>2. Alone(d)'
    BY <1>1, <1>2, <1>4, <2>1 DEF Kept, Alone
  <2>3. Shows(d) = entry[d] /\ (d \in known <=> entry[d] # Absent)
    BY <1>1, <1>4, <2>1 DEF Kept, Listed
  <2>4. disk[d] # Absent <=> Shows(d) # Absent
    BY <1>0 DEF TypeOK, Placeholder, Shows
  <2>5. Shows(d)' = entry'[d] /\ Agrees(d)'
    BY <1>1, <2>3, <2>4 DEF Shows, Agrees
  <2>6. Resting(d)'
    BY <1>1, <1>2, <1>4, <2>1, <2>5 DEF Kept, Alone, Resting
  <2>7. Listed(d)' /\ \A r \in Tasks : StepFits(r, d)'
    BY <1>1, <1>4 DEF Kept, Listed, StepFits, Shows
  <2> QED
    BY <2>2, <2>6, <2>7 DEF Kept
<1>5. ASSUME NEW d \in Docs, Fresh(d) PROVE Fresh(d)'
  BY <1>1, <1>2, <1>5, WhileListing DEF Fresh
<1> QED
  BY <1>1, <1>3, <1>4, <1>5 DEF FolderInv

-----------------------------------------------------------------------------
\* What a load may change of one document: what is being fetched, and the content.
LEMMA LoadStep ==
    ASSUME FolderInv, NEW d \in Docs,
           UNCHANGED <<entry, erased, asks, known, populated, at, before, after, step, listing,
                       should, follow, erasing, clean, order, disturbed, unheard, overtaken>>,
           NEW l \in Versions \cup {Nothing}, NEW c \in Versions \cup {Nothing},
           disk[d] # Absent, loading' = [loading EXCEPT ![d] = l],
           disk' = [disk EXCEPT ![d] = [disk[d] EXCEPT !.content = c]],
           {l, c} \subseteq {Nothing, entry[d], disk[d].content, loading[d]}
    PROVE  FolderInv'
<1> USE MirrorAssumption
<1>0. TypeOK /\ Folder
  BY DEF FolderInv
<1>1. /\ [disk[d] EXCEPT !.content = c] \in Placeholder
      /\ [disk[d] EXCEPT !.content = c].look = disk[d].look
      /\ [disk[d] EXCEPT !.content = c].content = c
  BY <1>0 DEF TypeOK, Placeholder
<1>2. /\ disk' \in [Docs -> Placeholder \cup {Absent}]
      /\ disk'[d] # Absent /\ disk'[d].look = disk[d].look /\ disk'[d].content = c
      /\ loading' \in [Docs -> Versions \cup {Nothing}] /\ loading'[d] = l
      /\ \A e \in Docs \ {d} : disk'[e] = disk[e] /\ loading'[e] = loading[e]
  BY <1>0, <1>1 DEF TypeOK
<1>3. \A r \in Tasks, e \in Docs : Changes(r, e)' <=> Changes(r, e)
  BY DEF Changes
<1>4. TypeOK' /\ Folder'
  BY <1>0, <1>2, <1>3 DEF TypeOK, Folder
<1>5. \A e \in Docs : Erases(e)' <=> Erases(e)
  BY DEF Erases
<1>6. ASSUME NEW e \in Docs \ {d} PROVE (Kept(e) => Kept(e)') /\ (Fresh(e) => Fresh(e)')
  BY <1>0, <1>2, <1>3, <1>5, Untouched DEF Folder
<1>7. /\ Shows(d)' = Shows(d) /\ (Agrees(d)' <=> Agrees(d))
      /\ Settled(d)' <=> Settled(d)
  BY <1>2, <1>3 DEF Shows, Agrees, Settled
<1>8. Kept(d) => Kept(d)'
  <2>1. Alone(d) => Alone(d)'
    BY <1>3, <1>5 DEF Alone
  <2>2. Resting(d) => Resting(d)'
    BY <1>2, <1>3, <1>5, <1>7 DEF Resting
  <2>3. Listed(d) => Listed(d)'
    BY <1>2, <1>7 DEF Listed
  <2>4. \A r \in Tasks : StepFits(r, d) => StepFits(r, d)'
    BY <1>2, <1>7 DEF StepFits
  <2> QED
    BY <2>1, <2>2, <2>3, <2>4 DEF Kept
<1>9. Fresh(d) => Fresh(d)'
  <2>1. NothingToDiscard(d)' <=> NothingToDiscard(d)
    BY <1>3 DEF NothingToDiscard
  <2> QED
    BY <1>2, <1>3, <1>7, <2>1 DEF Fresh
<1> QED
  BY <1>4, <1>6, <1>8, <1>9 DEF FolderInv

\* A load begins with the version of the store, is delivered as it was fetched, or fails.
LEMMA LoadKeeps ==
    ASSUME FolderInv, NEW d \in Docs, LoadBegins(d) \/ LoadDelivers(d) \/ LoadFails(d)
    PROVE  FolderInv'
<1>0. TypeOK /\ Folder
  BY DEF FolderInv
<1>1. UNCHANGED <<entry, erased, asks, known, populated, at, before, after, step, listing,
                  should, follow, erasing, clean, order, disturbed, unheard, overtaken>>
  BY DEF LoadBegins, LoadDelivers, LoadFails, storeVars, mapVars, taskVars, listVars,
         erasureVars, ghostVars
<1>2. disk[d] # Absent /\ disk[d] \in Placeholder
  BY <1>0 DEF LoadBegins, LoadDelivers, LoadFails, Folder, TypeOK
<1>3. disk = [disk EXCEPT ![d] = [disk[d] EXCEPT !.content = disk[d].content]]
  BY <1>0, <1>2 DEF TypeOK, Placeholder
<1>4. disk[d].content \in Versions \cup {Nothing} /\ loading[d] \in Versions \cup {Nothing}
  BY <1>0, <1>2 DEF TypeOK, Placeholder
<1>5. CASE LoadBegins(d)
  <2>1. entry[d] \in Versions
    BY <1>0, <1>5 DEF LoadBegins, TypeOK, Looks
  <2>2. disk' = disk /\ loading' = [loading EXCEPT ![d] = entry[d]]
    BY <1>5 DEF LoadBegins
  <2> QED
    BY <1>1, <1>2, <1>3, <1>4, <2>1, <2>2, LoadStep
<1>6. CASE LoadDelivers(d)
  <2>1. /\ disk' = [disk EXCEPT ![d] = [disk[d] EXCEPT !.content = loading[d]]]
        /\ loading' = [loading EXCEPT ![d] = Nothing]
    BY <1>6 DEF LoadDelivers
  <2> QED
    BY <1>1, <1>2, <1>4, <2>1, LoadStep
<1>7. CASE LoadFails(d)
  <2>1. disk' = disk /\ loading' = [loading EXCEPT ![d] = Nothing]
    BY <1>7 DEF LoadFails
  <2> QED
    BY <1>1, <1>2, <1>3, <1>4, <2>1, LoadStep
<1> QED
  BY <1>5, <1>6, <1>7

\* The process ends and starts again.
LEMMA RestartKeeps ==
    ASSUME FolderInv, Restart PROVE FolderInv'
<1> USE MirrorAssumption
<1>0. TypeOK
  BY DEF FolderInv
<1>1. /\ UNCHANGED <<entry, erased, disk, erasing, clean, order, disturbed, overtaken>>
      /\ loading' = [d \in Docs |-> Nothing]
      /\ known' = {} /\ populated' = FALSE /\ listing' = "idle"
      /\ asks' = (asks \/ AsksAgain)
      /\ at' = [r \in Tasks |-> "idle"]
      /\ before' = [r \in Tasks |-> NoEntries] /\ after' = [r \in Tasks |-> NoEntries]
      /\ step' = [r \in Tasks |-> [d \in Docs |-> "none"]]
      /\ should' = NoEntries /\ follow' = {}
      /\ unheard' = unheard \cup {d \in Docs : \E r \in Tasks : before[r][d] # after[r][d]}
  BY DEF Restart, storeVars, erasureVars
<1>2. TypeOK'
  <2>1. NoEntries \in [Docs -> Looks]
    BY DEF NoEntries, Looks
  <2>2. before' \in [Tasks -> [Docs -> Looks]] /\ after' \in [Tasks -> [Docs -> Looks]]
    BY <1>1, <2>1
  <2>3. step' \in [Tasks -> [Docs -> Steps]]
    BY <1>1 DEF Steps
  <2> QED
    BY <1>0, <1>1, <2>1, <2>2, <2>3 DEF TypeOK
<1>3. \A r \in Tasks, d \in Docs : step'[r][d] = "none" /\ ~Changes(r, d)'
  BY <1>1 DEF Changes
<1>4. Folder'
  BY <1>1, <1>3 DEF Folder
<1>5. ASSUME NEW d \in Docs PROVE Kept(d)'
  <2>1. ~Erases(d)'
    BY <1>1 DEF Erases, Tasks
  <2> QED
    BY <1>1, <1>3, <2>1 DEF Kept, Alone, Resting, Listed, StepFits
<1>6. ASSUME NEW d \in Docs, d \notin unheard', Fresh(d) PROVE Fresh(d)'
  <2>1. \A r \in Tasks : ~Changes(r, d)
    BY <1>1, <1>6 DEF Changes
  <2> QED
    BY <1>1, <1>3, <1>6, <2>1 DEF Fresh, NothingToDiscard
<1> QED
  BY <1>1, <1>2, <1>4, <1>5, <1>6 DEF FolderInv

-----------------------------------------------------------------------------
\* What touches none of the variables leaves the folder as it is.
LEMMA StutterKeeps ==
    ASSUME FolderInv, UNCHANGED vars PROVE FolderInv'
<1>1. /\ UNCHANGED <<entry, erased, disk, asks, loading, known, populated, at, before, after, step, listing,
                     should, follow, erasing, clean, order, disturbed, unheard, overtaken>>
  BY DEF vars, storeVars, diskVars, mapVars, taskVars, listVars, erasureVars, ghostVars
<1>2. TypeOK' /\ Folder'
  BY <1>1 DEF FolderInv, TypeOK, Folder, Changes
<1>3. ASSUME NEW d \in Docs PROVE (Kept(d) => Kept(d)') /\ (Fresh(d) => Fresh(d)')
  <2>1. (\A r \in Tasks : Changes(r, d)' <=> Changes(r, d)) /\ (Erases(d)' <=> Erases(d))
    BY <1>1 DEF Changes, Erases
  <2> QED
    BY <1>1, <2>1, Untouched DEF FolderInv, Folder
<1> QED
  BY <1>1, <1>2, <1>3 DEF FolderInv

\* Every step of tasks, callbacks, channel, user and restart keeps the folder.
LEMMA NextKeeps == FolderInv /\ [Next]_vars => FolderInv'
<1> SUFFICES ASSUME FolderInv, [Next]_vars PROVE FolderInv'
    OBVIOUS
<1>1. ASSUME NEW r \in Tasks, TaskGoesOn(r) PROVE FolderInv'
  BY <1>1, PlanKeeps, ReportDoneKeeps, StepOnDiskKeeps, StepInMapKeeps DEF TaskGoesOn
<1>2. CASE ErasureGoesOn
  BY <1>2, ReleaseKeeps, RemoveOnDiskKeeps, RemoveInMapKeeps, EraseFromStoreKeeps
     DEF ErasureGoesOn
<1>3. CASE ListingGoesOn
  BY <1>3, HandOverKeeps, PopulateKeeps, ListingDoneKeeps, FollowUpKeeps DEF ListingGoesOn
<1>4. CASE Environment
  BY <1>4, AdoptKeeps, StepRefusedKeeps, FollowUpRefusedKeeps, EraseRefusedKeeps, EraseBeginsKeeps, LoadKeeps,
     ReadListingKeeps, ListingWithdrawnKeeps, RestartKeeps DEF Environment
<1>5. CASE UNCHANGED vars
  BY <1>5, StutterKeeps
<1> QED
  BY <1>1, <1>2, <1>3, <1>4, <1>5 DEF Next

\* The invariant holds: between a report and its last step, while a document is erased and
\* while a listing is handed over, it is known of each document what the folder shows of it.
THEOREM FolderHolds == Spec => []FolderInv
<1>1. Init => FolderInv
  BY InitKeeps
<1>2. FolderInv /\ [Next]_vars => FolderInv'
  BY NextKeeps
<1> QED
  BY <1>1, <1>2, PTL DEF Spec

\* Between reports nothing is left to be done for any document.
LEMMA RestIsSettled ==
    ASSUME FolderInv, AtRest, NEW d \in Docs
    PROVE  Settled(d) /\ ~Erases(d) /\ NothingToDiscard(d) /\ listing = "idle"
  BY DEF AtRest, Settled, Erases, NothingToDiscard, Changes, Tasks

\* The map of the mirror knows what lies in an opened folder (remove_entry, dehydrate).
THEOREM MirrorHolds == Spec => []MirrorInv
<1>1. FolderInv => MirrorInv
  BY RestIsSettled DEF FolderInv, MirrorInv, MapTrue, Kept, Resting, Agrees
<1> QED
  BY <1>1, FolderHolds, PTL

\* A folder at rest shows what the store holds (report_change).
THEOREM MirrorTrueHolds == Spec => []MirrorTrue
<1>1. FolderInv => MirrorTrue
  BY RestIsSettled DEF FolderInv, MirrorTrue, Kept, Resting
<1> QED
  BY <1>1, FolderHolds, PTL

\* Loaded content is of the version of the store (Change::content_stale).
THEOREM LoadedHolds == Spec => []LoadedIsCurrent
<1>1. FolderInv => LoadedIsCurrent
  BY RestIsSettled DEF FolderInv, LoadedIsCurrent, Fresh
<1> QED
  BY <1>1, FolderHolds, PTL

-----------------------------------------------------------------------------
(* Names: what is true of every entry of which no step was refused, at     *)
(* every step of a report.                                                 *)

\* What is left of the report for an entry.
Pending(do, e) == [do |-> do, id |-> e] \in steps
Leaves(e) == Pending("remove", e) \/ Pending("stage", e)
Waits(e) == \E do \in DOMAIN Turn : Pending(do, e)

\* Where an entry is put between the two stages of its rename.
StagingOf(e) == <<None, e, ends>>

\* The stored listing was named after its titles, and the store took it.
ListingTrue == listed = NamesOf(titles) /\ Accepted(listed)

\* The map knows names of listings, and staging names of this run.
PlacesKnown ==
    /\ \A e \in Shown : placed[e] \in ListedNames \cup {None, StagingOf(e)}
    /\ ~filled => steps = {} /\ placed = InNames

\* What is left of a report fits the map and the listing, whatever met an open file.
PlanTrue == \A e \in Shown :
    /\ Pending("remove", e) => placed[e] # None /\ listed[e] = None
    /\ Pending("stage", e) => Pending("final", e)
    /\ Pending("final", e) => placed[e] # None /\ listed[e] # None
    /\ Pending("create", e) => placed[e] = None /\ listed[e] # None

\* A file of the user's lies under a staging name only if the map has its entry there.
UsersFiles ==
    /\ filled => \A e \in Shown : under[StagingOf(e)] = TheUser => placed[e] = StagingOf(e)
    /\ \A e \in Shown, p \in 0 .. MaxEnds :
           p > ends \/ (p = ends /\ ~filled) => under[<<None, e, p>>] # TheUser

\* The place of an entry is certain: it was refused no step, or who is to have the
\* place was not held up by one that did.
Firm(e) == e \notin met \/ \E f \in Shown \ met : listed[f] # None /\ listed[f] = placed[e]

\* Nobody else is placed under the name of such an entry, and it lies there, unless
\* a file of the user's does.
PlacedApart == \A e \in Shown : Firm(e) /\ placed[e] # None =>
    /\ under[placed[e]] \in {e, TheUser}
    /\ \A f \in Shown \ {e} : placed[e] # placed[f]

\* Who is placed under a name that is another's now is still to leave it.
InTheWay == \A e, f \in Shown :
    e # f /\ ~(e \in met /\ f \in met) /\ listed[f] # None /\ listed[f] = placed[e] => Leaves(e)

\* A placeholder lies where the map has its entry; one of an entry of which a step was
\* refused at least where the map has another such entry, or else where none is to lie.
Lies == \A n \in Spots : under[n] \in Shown =>
    IF under[n] \in met THEN \/ \E h \in met : placed[h] = n
                            \/ \A e \in Shown \ met : listed[e] # n
                       ELSE placed[under[n]] = n

\* An entry without steps left is placed under its name, or a file of the user's keeps it out.
ShownTrue(e) ==
    /\ ~Waits(e) => placed[e] \in {None, listed[e]}
    /\ placed[e] = None /\ listed[e] # None /\ ~Waits(e) =>
           under[listed[e]] = TheUser /\ \A h \in Shown : placed[h] # listed[e]

FilledTrue == PlanTrue /\ PlacedApart /\ InTheWay /\ Lies /\ \A e \in Shown \ met : ShownTrue(e)

BookInv == NamesTypeOK /\ ends \in 0 .. MaxEnds /\ ListingTrue /\ PlacesKnown /\ UsersFiles
NamesBooks == BookInv /\ (filled => FilledTrue)

-----------------------------------------------------------------------------
\* A made-up name ends in its entry, and begins like its title.
LEMMA MadeUpName ==
    ASSUME NEW t \in Titles, NEW e \in Nat
    PROVE  /\ Len(Append(t, e)) = Len(t) + 1
           /\ Append(t, e)[Len(t) + 1] = e
           /\ Append(t, e)[1] = t[1]
           /\ Len(t) \in Nat \ {0}
<1> DEFINE S == {t[i] : i \in 1 .. Len(t)} \cup {e}
<1>1. Len(t) \in Nat \ {0} /\ t = [i \in 1 .. Len(t) |-> t[i]]
  BY NamesAssumption
<1>2. [i \in 1 .. Len(t) |-> t[i]] \in [1 .. Len(t) -> S]
  OBVIOUS
<1>3. t \in Seq(S)
  BY <1>1, <1>2
<1> HIDE DEF S
<1>4. e \in S
  BY DEF S
<1> QED
  BY <1>1, <1>3, <1>4

\* Entries are told apart from a free name and from a file of the user's.
LEMMA ShownAreNumbers == Shown \subseteq Nat /\ None \notin Shown /\ TheUser \notin Shown
  BY NamesAssumption DEF Shown

\* No listing has a staging name, and every staging name is of one entry and one run.
LEMMA StagingApart ==
    /\ \A n \in ListedNames : \A e, p : n # <<None, e, p>>
    /\ \A e, f, p, q : <<None, e, p>> = <<None, f, q>> => e = f /\ p = q
<1>1. ASSUME NEW n \in ListedNames, NEW e, NEW p, n = <<None, e, p>> PROVE FALSE
  <2>1. n[1] = None
    BY <1>1
  <2>2. CASE n \in Titles
    BY <2>1, <2>2, NamesAssumption
  <2>3. ASSUME NEW t \in Titles, NEW f \in Siblings, n = Append(t, f) PROVE FALSE
    BY <2>1, <2>3, MadeUpName, NamesAssumption
  <2> QED
    BY <2>2, <2>3 DEF ListedNames
<1> QED
  BY <1>1

\* What an answer is made of fits a listing.
LEMMA NamesTyped ==
    ASSUME NEW answer \in Answers PROVE NamesOf(answer) \in [Shown -> ListedNames \cup {None}]
  BY DEF Answers, NamesOf, NameOf, ListedNames, Shown

-----------------------------------------------------------------------------
\* The folder begins empty and unopened.
LEMMA NamesInitBooks == NamesInit => NamesBooks
<1> SUFFICES ASSUME NamesInit PROVE NamesBooks
    OBVIOUS
<1>1. /\ titles = InNames /\ listed = InNames /\ placed = InNames
      /\ under = [n \in Spots |-> None] /\ filled = FALSE /\ steps = {} /\ ends = 0 /\ met = {}
  BY DEF NamesInit
<1>2. InNames \in Answers
  BY NamesAssumption DEF InNames, Answers, Shown
<1>3. NamesTypeOK
  BY <1>1, <1>2 DEF NamesTypeOK, InNames
<1>4. ListingTrue
  BY <1>1 DEF ListingTrue, NamesOf, NameOf, Accepted, InNames
<1>5. PlacesKnown
  BY <1>1 DEF PlacesKnown, InNames
<1>6. UsersFiles
  <2>1. \A e \in Shown, p \in 0 .. MaxEnds : <<None, e, p>> \in Spots
    BY DEF Spots, Staging
  <2> QED
    BY <1>1, <2>1, NamesAssumption DEF UsersFiles
<1> QED
  BY <1>1, <1>3, <1>4, <1>5, <1>6, NamesAssumption DEF NamesBooks, BookInv

-----------------------------------------------------------------------------
\* What touches none of these variables leaves the names as they are.
LEMMA NamesUnchanged ==
    ASSUME NamesBooks, UNCHANGED <<titles, listed, under, placed, filled, steps, ends, met>>
    PROVE  NamesBooks'
<1>1. /\ \A do, e : Pending(do, e)' <=> Pending(do, e)
      /\ \A e : Leaves(e)' <=> Leaves(e)
      /\ \A e : Waits(e)' <=> Waits(e)
  BY DEF Pending, Leaves, Waits
<1>2. BookInv'
  BY DEF NamesBooks, BookInv, NamesTypeOK, ListingTrue, PlacesKnown, UsersFiles, StagingOf
<1>3. ASSUME FilledTrue PROVE FilledTrue'
  <2>1. PlanTrue'
    BY <1>1, <1>3 DEF FilledTrue, PlanTrue
  <2>2. PlacedApart' /\ Lies'
    BY <1>3 DEF FilledTrue, PlacedApart, Firm, Lies
  <2>3. InTheWay'
    BY <1>1, <1>3 DEF FilledTrue, InTheWay
  <2>4. \A e \in Shown \ met : ShownTrue(e)'
    BY <1>1, <1>3 DEF FilledTrue, ShownTrue
  <2> QED
    BY <2>1, <2>2, <2>3, <2>4 DEF FilledTrue
<1> QED
  BY <1>2, <1>3 DEF NamesBooks

\* What a plan has to do for an entry.
LEMMA PlannedIs ==
    ASSUME NEW old, NEW new, steps' = Planned(old, new), NEW e \in Shown
    PROVE  /\ Pending("remove", e)' <=> e \in Gone(old, new)
           /\ Pending("stage", e)' <=> e \in Renamed(old, new)
           /\ Pending("final", e)' <=> e \in Renamed(old, new)
           /\ Pending("create", e)' <=> e \in Created(old, new)
  BY DEF Planned, ToDo, Pending, Gone, Renamed, Created, Wanted

\* A listing is adopted: what a plan is made of is what the map has.
LEMMA AdoptListingKeeps ==
    ASSUME NamesBooks, NEW answer \in Answers, AdoptListing(answer) PROVE NamesBooks'
<1> USE NamesAssumption, ShownAreNumbers
<1> DEFINE new == NamesOf(answer)
<1>0. BookInv
  BY DEF NamesBooks
<1>1. steps = {} /\ UNCHANGED <<under, placed, filled, ends>>
  BY DEF AdoptListing
<1>2. CASE Accepted(new)
  <2>1. /\ titles' = answer /\ listed' = new /\ met' = met \cup Wanting(new)
        /\ steps' = IF filled THEN Planned(listed, new) ELSE {}
    BY <1>2 DEF AdoptListing
  <2>2. new \in [Shown -> ListedNames \cup {None}]
    BY NamesTyped
  <2> HIDE DEF new
  <2>3. NamesTypeOK'
    <3>1. Planned(listed, new) \subseteq [do : DOMAIN Turn, id : Shown]
      BY DEF Planned, ToDo, Turn, Gone, Renamed, Created, Wanted
    <3> QED
      BY <1>0, <1>1, <2>1, <2>2, <3>1 DEF BookInv, NamesTypeOK, Wanting
  <2>4. ListingTrue'
    BY <1>2, <2>1 DEF ListingTrue, Accepted, new
  <2>5. PlacesKnown' /\ UsersFiles'
    BY <1>0, <1>1, <2>1 DEF BookInv, PlacesKnown, UsersFiles, StagingOf
  <2>6. ASSUME filled PROVE FilledTrue'
    <3>0. FilledTrue /\ steps' = Planned(listed, new)
      BY <2>1, <2>6 DEF NamesBooks
    <3>1. \A e \in Shown :
              /\ Pending("remove", e)' <=> e \in Gone(listed, new)
              /\ Pending("stage", e)' <=> e \in Renamed(listed, new)
              /\ Pending("final", e)' <=> e \in Renamed(listed, new)
              /\ Pending("create", e)' <=> e \in Created(listed, new)
      BY <3>0, PlannedIs
    <3>2. PlanTrue'
      BY <1>1, <2>1, <3>1 DEF PlanTrue, Gone, Renamed, Created, Wanted
    <3>3. \A e \in Shown \ met : ~Waits(e) /\ placed[e] \in {None, listed[e]}
      BY <1>1, <3>0 DEF FilledTrue, ShownTrue, Waits, Pending
    <3>4. met \subseteq met'
      BY <2>1
    <3>5. PlacedApart' /\ Lies'
      <4>1. \A e \in Shown : Firm(e)' => Firm(e)
        BY <1>1, <2>1 DEF Firm, Wanting
      <4>3. PlacedApart'
        BY <1>1, <3>0, <4>1 DEF FilledTrue, PlacedApart
      <4>2. ASSUME NEW n \in Spots, under[n] \in Shown
            PROVE  IF under[n] \in met'
                   THEN \/ \E h \in met' : placed[h] = n
                        \/ \A e \in Shown \ met' : new[e] # n
                   ELSE placed[under[n]] = n
        <5>1. IF under[n] \in met THEN \/ \E h \in met : placed[h] = n
                                      \/ \A e \in Shown \ met : listed[e] # n
                                 ELSE placed[under[n]] = n
          BY <3>0, <4>2 DEF FilledTrue, Lies
        <5>2. under[n] \in met => \A e \in Shown \ met' : new[e] # n
          BY <2>1, <4>2, SpotsAssumption DEF Wanting
        <5> QED
          BY <3>4, <5>1, <5>2
      <4>4. Lies'
        BY <1>1, <2>1, <4>2 DEF Lies
      <4> QED
        BY <4>3, <4>4
    <3>6. InTheWay'
      <4>1. SUFFICES ASSUME NEW e \in Shown, NEW f \in Shown, e # f,
                            ~(e \in met' /\ f \in met'), new[f] # None, new[f] = placed[e]
                     PROVE  Leaves(e)'
        BY <1>1, <2>1 DEF InTheWay
      <4>2. e \notin met
        BY <2>1, <4>1 DEF Wanting
      <4>3. placed[e] = listed[e] /\ listed[e] # None
        BY <3>3, <4>1, <4>2
      <4>4. new[e] # listed[e]
        BY <1>2, <4>1, <4>3 DEF Accepted
      <4>5. e \in Gone(listed, new) \/ e \in Renamed(listed, new)
        BY <4>1, <4>3, <4>4 DEF Gone, Renamed, Wanted
      <4> QED
        BY <3>1, <4>5 DEF Leaves
    <3>7. ASSUME NEW e \in Shown \ met' PROVE ShownTrue(e)'
      <4>1. e \notin met /\ ShownTrue(e)
        BY <3>0, <3>4, <3>7 DEF FilledTrue
      <4>2. ~Waits(e)' => new[e] = listed[e] \/ (new[e] = None /\ placed[e] = None)
        <5>1. ~Waits(e)' => e \notin Gone(listed, new) /\ e \notin Renamed(listed, new)
                            /\ e \notin Created(listed, new)
          BY <3>1 DEF Waits, Turn
        <5> QED
          BY <3>3, <4>1, <5>1 DEF Gone, Renamed, Created, Wanted
      <4> QED
        BY <1>1, <2>1, <3>3, <4>1, <4>2 DEF ShownTrue
    <3> QED
      BY <3>2, <3>5, <3>6, <3>7 DEF FilledTrue
  <2> QED
    BY <1>0, <1>1, <2>3, <2>4, <2>5, <2>6 DEF NamesBooks, BookInv
<1>3. CASE ~Accepted(new)
  <2>1. UNCHANGED <<titles, listed, under, placed, filled, steps, ends, met>>
    BY <1>3 DEF AdoptListing
  <2> QED
    BY <2>1, NamesUnchanged
<1> QED
  BY <1>2, <1>3

-----------------------------------------------------------------------------
\* A step that is done is done, and nothing else.
LEMMA StepTaken ==
    ASSUME NamesTypeOK, NEW s \in steps, steps' = steps \ {s}
    PROVE  /\ s.id \in Shown /\ s.do \in {"remove", "stage", "final", "create"}
           /\ Pending(s.do, s.id) /\ ~Pending(s.do, s.id)'
           /\ \A do \in DOMAIN Turn, e \in Shown :
                  do # s.do \/ e # s.id => (Pending(do, e)' <=> Pending(do, e))
           /\ \A e \in Shown : e # s.id =>
                  (Leaves(e)' <=> Leaves(e)) /\ (Waits(e)' <=> Waits(e))
<1>1. s \in [do : DOMAIN Turn, id : Shown] /\ s = [do |-> s.do, id |-> s.id]
  BY DEF NamesTypeOK
<1>2. s.id \in Shown /\ s.do \in {"remove", "stage", "final", "create"}
  BY <1>1 DEF Turn
<1>3. Pending(s.do, s.id) /\ ~Pending(s.do, s.id)'
  BY <1>1 DEF Pending
<1>4. \A do \in DOMAIN Turn, e \in Shown :
          do # s.do \/ e # s.id => (Pending(do, e)' <=> Pending(do, e))
  BY <1>1 DEF Pending
<1>5. \A e \in Shown : e # s.id =>
          (Leaves(e)' <=> Leaves(e)) /\ (Waits(e)' <=> Waits(e))
  BY <1>4 DEF Leaves, Waits, Turn
<1> QED
  BY <1>2, <1>3, <1>4, <1>5

\* Names are given once every name is left that is to be left.
LEMMA LeftFirst ==
    ASSUME NamesTypeOK, NEW s \in steps, IsNext(s), s.do \in {"final", "create"}
    PROVE  \A e \in Shown : ~Leaves(e)
<1>1. ASSUME NEW do \in {"remove", "stage"}, NEW e \in Shown, Pending(do, e) PROVE FALSE
  <2> DEFINE t == [do |-> do, id |-> e]
  <2>1. t \in steps \ {s} /\ t.do = do
    BY <1>1 DEF Pending
  <2>2. Turn[s.do] < Turn[t.do] \/ s.do = t.do
    BY <2>1 DEF IsNext
  <2> QED
    BY <2>1, <2>2 DEF Turn
<1> QED
  BY <1>1 DEF Leaves

\* A step changes the place of one entry at most, and no more than two names.
LEMMA StepKeepsBooks ==
    ASSUME BookInv, filled, NEW s \in steps, StepDone(s), met' \subseteq Shown,
           under' \in [Spots -> Shown \cup {None, TheUser}],
           placed' \in [Shown -> Spots \cup {None}],
           \A e \in Shown : placed'[e] \in ListedNames \cup {None, StagingOf(e)},
           \A e \in Shown : under'[StagingOf(e)] = TheUser => placed'[e] = StagingOf(e),
           \A e \in Shown, p \in 0 .. MaxEnds :
               p > ends => under'[<<None, e, p>>] # TheUser
    PROVE  BookInv'
<1>1. UNCHANGED <<titles, listed, filled, ends>> /\ steps' = steps \ {s}
  BY DEF StepDone
<1>2. NamesTypeOK'
  BY <1>1 DEF BookInv, NamesTypeOK
<1>3. ListingTrue' /\ PlacesKnown'
  BY <1>1 DEF BookInv, ListingTrue, PlacesKnown, StagingOf
<1>4. UsersFiles'
  BY <1>1 DEF UsersFiles, StagingOf
<1> QED
  BY <1>1, <1>2, <1>3, <1>4 DEF BookInv

\* The step was refused.
LEMMA StepLostKeeps ==
    ASSUME NamesBooks, NEW s \in steps, StepLost(s) PROVE NamesBooks'
<1> USE ShownAreNumbers
<1>0. BookInv /\ NamesTypeOK
  BY DEF NamesBooks, BookInv
<1>1. filled /\ FilledTrue
  BY <1>0 DEF NamesBooks, BookInv, PlacesKnown
<1>2. /\ UNCHANGED <<under, placed, listed, filled, ends>> /\ StepDone(s) /\ steps' = steps \ {s}
      /\ met' = met \cup {s.id} \cup {f \in Shown : listed[f] # None /\ listed[f] = placed[s.id]}
  BY DEF StepLost, StepDone
<1>3. /\ s.id \in Shown /\ s.do \in {"remove", "stage", "final", "create"}
      /\ ~Pending(s.do, s.id)'
      /\ \A do \in DOMAIN Turn, e \in Shown :
             do # s.do \/ e # s.id => (Pending(do, e)' <=> Pending(do, e))
      /\ \A e \in Shown : e # s.id =>
             (Leaves(e)' <=> Leaves(e)) /\ (Waits(e)' <=> Waits(e))
  BY <1>0, <1>2, StepTaken
<1>4. met' \subseteq Shown /\ met \subseteq met' /\ s.id \in met'
  BY <1>0, <1>2, <1>3 DEF NamesTypeOK
<1>5. BookInv'
  <2>1. \A e \in Shown, p \in 0 .. MaxEnds : p > ends => under[<<None, e, p>>] # TheUser
    BY <1>0 DEF BookInv, UsersFiles
  <2>2. \A e \in Shown : under[StagingOf(e)] = TheUser => placed[e] = StagingOf(e)
    BY <1>0, <1>1 DEF BookInv, UsersFiles
  <2>3. \A e \in Shown : placed[e] \in ListedNames \cup {None, StagingOf(e)}
    BY <1>0 DEF BookInv, PlacesKnown
  <2> QED
    BY <1>0, <1>1, <1>2, <1>4, <2>1, <2>2, <2>3, StepKeepsBooks DEF NamesTypeOK
<1>6. PlanTrue'
  <2>1. ASSUME NEW e \in Shown PROVE Pending("stage", e)' => Pending("final", e)'
    <3>1. CASE s.do = "final" /\ e = s.id
      <4>1. \A f \in Shown : ~Leaves(f)
        BY <1>0, <3>1, LeftFirst DEF StepLost
      <4> QED
        BY <1>3, <3>1, <4>1 DEF Leaves, Turn
    <3>2. CASE ~(s.do = "final" /\ e = s.id)
      BY <1>1, <1>3, <3>2 DEF FilledTrue, PlanTrue, Turn
    <3> QED
      BY <3>1, <3>2
  <2>2. \A e \in Shown, do \in DOMAIN Turn : Pending(do, e)' => Pending(do, e)
    BY <1>2 DEF Pending
  <2> QED
    BY <1>1, <1>2, <2>1, <2>2 DEF FilledTrue, PlanTrue, Turn
<1>7. PlacedApart'
  <2>1. ASSUME NEW e \in Shown, Firm(e)' PROVE Firm(e)
    BY <1>2, <1>4, <2>1 DEF Firm
  <2> QED
    BY <1>1, <1>2, <2>1 DEF FilledTrue, PlacedApart
<1>8. InTheWay'
  BY <1>1, <1>2, <1>3, <1>4 DEF FilledTrue, InTheWay
<1>9. Lies'
  BY <1>1, <1>2, <1>4 DEF FilledTrue, Lies
<1>10. ASSUME NEW e \in Shown \ met' PROVE ShownTrue(e)'
  BY <1>1, <1>2, <1>3, <1>4 DEF FilledTrue, ShownTrue
<1> QED
  BY <1>5, <1>6, <1>7, <1>8, <1>9, <1>10 DEF NamesBooks, FilledTrue

-----------------------------------------------------------------------------
\* Every entry has a staging name of its own, which no listing has.
LEMMA StagingSpots ==
    ASSUME ends \in 0 .. MaxEnds, NEW e \in Shown
    PROVE  /\ StagingOf(e) \in Spots /\ StagingOf(e) # None
           /\ StagingOf(e) \notin ListedNames
           /\ \A f : StagingOf(f) = StagingOf(e) => f = e
           /\ \A f, p : <<None, f, p>> = StagingOf(e) => f = e /\ p = ends
<1>1. StagingOf(e) \in Spots
  BY DEF Spots, Staging, StagingOf
<1> QED
  BY <1>1, StagingApart, SpotsAssumption DEF StagingOf

\* While a step is run the folder is known to the map, and the step is of the plan.
LEMMA StepRun ==
    ASSUME NamesBooks, NEW s \in steps, RunStep(s)
    PROVE  /\ BookInv /\ NamesTypeOK /\ filled /\ FilledTrue
           /\ StepDone(s) /\ steps' = steps \ {s}
           /\ UNCHANGED <<titles, listed, filled, ends, met>> /\ IsNext(s)
           /\ \A e \in Shown : Firm(e)' /\ placed'[e] = placed[e] => Firm(e)
           /\ s.id \in Shown /\ s.do \in {"remove", "stage", "final", "create"}
           /\ Pending(s.do, s.id) /\ ~Pending(s.do, s.id)'
           /\ \A do \in DOMAIN Turn, e \in Shown :
                  do # s.do \/ e # s.id => (Pending(do, e)' <=> Pending(do, e))
           /\ \A e \in Shown : e # s.id =>
                  (Leaves(e)' <=> Leaves(e)) /\ (Waits(e)' <=> Waits(e))
<1>1. BookInv /\ NamesTypeOK
  BY DEF NamesBooks, BookInv
<1>2. filled /\ FilledTrue
  BY <1>1 DEF NamesBooks, BookInv, PlacesKnown
<1>3. /\ StepDone(s) /\ steps' = steps \ {s} /\ IsNext(s)
      /\ UNCHANGED <<titles, listed, filled, ends, met>>
  BY DEF RunStep, StepDone
<1>4. \A e \in Shown : Firm(e)' /\ placed'[e] = placed[e] => Firm(e)
  BY <1>3 DEF Firm
<1> QED
  BY <1>1, <1>2, <1>3, <1>4, StepTaken

\* A placeholder is removed from disk, and from the map.
LEMMA RemoveKeeps ==
    ASSUME NamesBooks, NEW s \in steps, RunStep(s), s.do = "remove" PROVE NamesBooks'
<1> USE NamesAssumption, ShownAreNumbers, SpotsAssumption
<1> DEFINE e == s.id
           spot == placed[e]
<1>1. /\ BookInv /\ NamesTypeOK /\ filled /\ FilledTrue
      /\ StepDone(s) /\ steps' = steps \ {s}
      /\ UNCHANGED <<titles, listed, filled, ends, met>>
      /\ \A f \in Shown : Firm(f)' /\ placed'[f] = placed[f] => Firm(f)
      /\ e \in Shown /\ Pending("remove", e)
      /\ \A do \in DOMAIN Turn, f \in Shown :
             do # "remove" \/ f # e => (Pending(do, f)' <=> Pending(do, f))
      /\ \A f \in Shown : f # e =>
             (Leaves(f)' <=> Leaves(f)) /\ (Waits(f)' <=> Waits(f))
  BY StepRun
<1>2. under' = [under EXCEPT ![spot] = None] /\ placed' = [placed EXCEPT ![e] = None]
  BY DEF RunStep
<1>3. spot # None /\ listed[e] = None /\ spot \in Spots
  BY <1>1 DEF FilledTrue, PlanTrue, NamesTypeOK
<1>4. /\ \A n \in Spots : under'[n] = IF n = spot THEN None ELSE under[n]
      /\ \A f \in Shown : placed'[f] = IF f = e THEN None ELSE placed[f]
  BY <1>1, <1>2 DEF NamesTypeOK
<1>5. BookInv'
  <2>1. /\ under' \in [Spots -> Shown \cup {None, TheUser}]
        /\ placed' \in [Shown -> Spots \cup {None}]
    BY <1>1, <1>2 DEF NamesTypeOK
  <2>2. \A f \in Shown : placed'[f] \in ListedNames \cup {None, StagingOf(f)}
    BY <1>1, <1>4 DEF BookInv, PlacesKnown
  <2>3. ASSUME NEW f \in Shown, under'[StagingOf(f)] = TheUser PROVE placed'[f] = StagingOf(f)
    <3>1. StagingOf(f) \in Spots
      BY <1>1, StagingSpots DEF BookInv
    <3>2. StagingOf(f) # spot /\ under[StagingOf(f)] = TheUser
      BY <1>4, <2>3, <3>1
    <3> QED
      BY <1>1, <1>4, <3>2 DEF BookInv, UsersFiles
  <2>4. ASSUME NEW f \in Shown, NEW p \in 0 .. MaxEnds, p > ends PROVE under'[<<None, f, p>>] # TheUser
    <3>1. <<None, f, p>> \in Spots
      BY DEF Spots, Staging
    <3> QED
      BY <1>1, <1>4, <2>4, <3>1 DEF BookInv, UsersFiles
  <2> QED
    BY <1>1, <2>1, <2>2, <2>3, <2>4, StepKeepsBooks DEF NamesTypeOK
<1> HIDE DEF spot
<1>6. PlanTrue'
  <2>1. \A f \in Shown : f # e => placed'[f] = placed[f] /\ listed'[f] = listed[f]
    BY <1>1, <1>4
  <2>2. ~Pending("stage", e) /\ ~Pending("final", e) /\ ~Pending("create", e)
    BY <1>1, <1>3 DEF FilledTrue, PlanTrue
  <2>3. ~Pending("remove", e)'
    BY StepRun
  <2> QED
    BY <1>1, <2>1, <2>2, <2>3 DEF FilledTrue, PlanTrue, Turn
<1>7. PlacedApart'
  <2>1. ASSUME NEW f \in Shown, Firm(f)', placed'[f] # None
        PROVE  /\ under'[placed'[f]] \in {f, TheUser}
               /\ \A g \in Shown \ {f} : placed'[f] # placed'[g]
    <3>1. f # e /\ placed'[f] = placed[f] /\ Firm(f) /\ placed[f] \in Spots
      BY <1>1, <1>4, <2>1 DEF NamesTypeOK
    <3>2. under[placed[f]] \in {f, TheUser} /\ \A g \in Shown \ {f} : placed[f] # placed[g]
      BY <1>1, <2>1, <3>1 DEF FilledTrue, PlacedApart
    <3> QED
      BY <1>1, <1>4, <2>1, <3>1, <3>2 DEF spot
  <2> QED
    BY <2>1 DEF PlacedApart
<1>8. InTheWay'
  BY <1>1, <1>4 DEF FilledTrue, InTheWay
<1>9. Lies'
  <2>1. ASSUME NEW n \in Spots, under'[n] \in Shown PROVE n # spot /\ under[n] = under'[n]
    BY <1>4, <2>1
  <2>2. \A f \in Shown, n \in Spots : n # spot /\ placed[f] = n => placed'[f] = n
    BY <1>4 DEF spot
  <2>3. met \subseteq Shown /\ met' = met
    BY <1>1 DEF NamesTypeOK
  <2>4. Lies /\ listed' = listed
    BY <1>1 DEF FilledTrue, StepDone
  <2>5. ASSUME NEW n \in Spots, under'[n] \in Shown
        PROVE  IF under'[n] \in met THEN \/ \E h \in met : placed'[h] = n
                                         \/ \A f \in Shown \ met : listed[f] # n
                                    ELSE placed'[under'[n]] = n
    <3>1. n # spot /\ under[n] = under'[n]
      BY <2>1, <2>5
    <3>2. CASE under[n] \in met
      BY <2>2, <2>3, <2>4, <2>5, <3>1, <3>2 DEF Lies
    <3>3. CASE under[n] \notin met
      BY <2>2, <2>4, <2>5, <3>1, <3>3 DEF Lies
    <3> QED
      BY <3>1, <3>2, <3>3
  <2> QED
    BY <2>3, <2>4, <2>5 DEF Lies
<1>10. ASSUME NEW f \in Shown \ met' PROVE ShownTrue(f)'
  <2>1. ShownTrue(f) /\ f \notin met
    BY <1>1, <1>10 DEF FilledTrue
  <2>2. CASE f = e
    BY <1>1, <1>3, <1>4, <2>2 DEF ShownTrue
  <2>3. CASE f # e
    <3>1. listed[f] # None => listed[f] \in Spots
      BY <1>1 DEF NamesTypeOK, Spots
    <3> QED
      BY <1>1, <1>4, <2>1, <2>3, <3>1 DEF ShownTrue, spot
  <2> QED
    BY <2>2, <2>3
<1> QED
  BY <1>5, <1>6, <1>7, <1>8, <1>9, <1>10 DEF NamesBooks, FilledTrue

\* Where a rename in turn puts its entry no other one is placed, and no other one is
\* to be: but for what was refused a step.
LEMMA RenameTarget ==
    ASSUME NamesBooks, NEW s \in steps, RunStep(s), s.do \in {"stage", "final"},
           NEW to, to = IF s.do = "stage" THEN StagingOf(s.id) ELSE listed[s.id]
    PROVE  /\ to \in Spots /\ to # None /\ to \in ListedNames \cup {StagingOf(s.id)}
           /\ Pending("final", s.id) /\ placed[s.id] \in Spots /\ placed[s.id] # None
           /\ listed[s.id] # None
           /\ \A f \in Shown \ {s.id} : Firm(f) => placed[f] # to
           /\ \A f \in Shown \ {s.id} : listed[f] # None => listed[f] # to
           /\ s.id \notin met => \A f \in Shown \ {s.id} : placed[f] # to
           /\ Firm(s.id)' /\ placed'[s.id] = to => s.id \notin met
           /\ Firm(s.id) => under[placed[s.id]] \in {s.id, TheUser}
<1> USE NamesAssumption, ShownAreNumbers, SpotsAssumption
<1> DEFINE e == s.id
<1>1. /\ BookInv /\ NamesTypeOK /\ FilledTrue /\ ends \in 0 .. MaxEnds
      /\ UNCHANGED <<listed, ends, met>> /\ IsNext(s)
      /\ e \in Shown /\ Pending(s.do, e)
  BY StepRun DEF BookInv
<1>2. Pending("final", e) /\ placed[e] # None /\ listed[e] # None
  BY <1>1 DEF FilledTrue, PlanTrue
<1>3. placed[e] \in Spots /\ listed[e] \in Spots /\ listed[e] \in ListedNames
  BY <1>1, <1>2 DEF NamesTypeOK, Spots
<1>4. \A f \in Shown : placed[f] \in ListedNames \cup {None, StagingOf(f)}
  BY <1>1 DEF BookInv, PlacesKnown
<1>5. Firm(e) => under[placed[e]] \in {e, TheUser}
  BY <1>1, <1>2 DEF FilledTrue, PlacedApart
<1>6. \A f \in Shown \ {e} : listed[f] # None => listed[f] # listed[e]
  BY <1>1 DEF BookInv, ListingTrue, Accepted
<1>7. CASE s.do = "stage"
  <2>1. /\ to = StagingOf(e) /\ to \in Spots /\ to # None /\ to \notin ListedNames
        /\ \A f : StagingOf(f) = to => f = e
    BY <1>1, <1>7, StagingSpots
  <2>2. \A f \in Shown \ {e} : placed[f] # to
    BY <1>4, <2>1
  <2>3. \A f \in Shown : listed[f] # None => listed[f] # to
    BY <1>1, <2>1 DEF NamesTypeOK
  <2>4. Firm(e)' /\ placed'[e] = to => e \notin met
    BY <1>1, <2>3 DEF Firm
  <2> QED
    BY <1>2, <1>3, <1>5, <2>1, <2>2, <2>3, <2>4
<1>8. CASE s.do = "final"
  <2>1. to = listed[e]
    BY <1>8
  <2>2. \A f \in Shown : ~Leaves(f)
    BY <1>1, <1>8, LeftFirst
  <2>3. \A f \in Shown \ {e} : placed[f] = to => f \in met /\ e \in met
    BY <1>1, <1>2, <2>1, <2>2 DEF FilledTrue, InTheWay
  <2>4. ASSUME NEW f \in Shown \ {e}, Firm(f) PROVE placed[f] # to
    BY <1>6, <2>1, <2>3, <2>4 DEF Firm
  <2>5. Firm(e)' /\ placed'[e] = to => e \notin met
    BY <1>1, <1>6, <2>1 DEF Firm
  <2> QED
    BY <1>2, <1>3, <1>5, <1>6, <2>1, <2>3, <2>4, <2>5
<1> QED
  BY <1>7, <1>8

\* What a rename does to disk and map.
LEMMA RenameIs ==
    ASSUME NamesTypeOK, NEW e \in Shown, NEW to \in Spots, placed[e] \in Spots, Rename(e, to)
    PROVE  \/ under[placed[e]] = None /\ UNCHANGED <<under, placed>>
           \/ /\ under[placed[e]] # None
              /\ \A n \in Spots : under'[n] =
                    IF n = to THEN under[placed[e]]
                    ELSE IF n = placed[e] THEN None ELSE under[n]
              /\ \A f \in Shown : placed'[f] = IF f = e THEN to ELSE placed[f]
              /\ under' \in [Spots -> Shown \cup {None, TheUser}]
              /\ placed' \in [Shown -> Spots \cup {None}]
<1>1. CASE under[placed[e]] = None
  BY <1>1 DEF Rename
<1>2. CASE under[placed[e]] # None
  <2>1. under' = Moved(placed[e], to) /\ placed' = [placed EXCEPT ![e] = to]
    BY <1>2 DEF Rename
  <2>2. under[placed[e]] \in Shown \cup {None, TheUser}
    BY DEF NamesTypeOK
  <2> QED
    BY <1>2, <2>1, <2>2 DEF Moved, NamesTypeOK
<1> QED
  BY <1>1, <1>2

\* The first or the second stage of a rename: what lies under the old name goes along,
\* what lay under the new one is gone.
LEMMA RenameKeeps ==
    ASSUME NamesBooks, NEW s \in steps, RunStep(s), s.do \in {"stage", "final"} PROVE NamesBooks'
<1> USE NamesAssumption, ShownAreNumbers, SpotsAssumption
<1> DEFINE e == s.id
           spot == placed[e]
           to == IF s.do = "stage" THEN StagingOf(e) ELSE listed[e]
<1>1. /\ BookInv /\ NamesTypeOK /\ filled /\ FilledTrue
      /\ StepDone(s) /\ steps' = steps \ {s} /\ IsNext(s)
      /\ UNCHANGED <<titles, listed, filled, ends, met>>
      /\ \A f \in Shown : Firm(f)' /\ placed'[f] = placed[f] => Firm(f)
      /\ e \in Shown /\ Pending(s.do, e) /\ ~Pending(s.do, e)'
      /\ \A do \in DOMAIN Turn, f \in Shown :
             do # s.do \/ f # e => (Pending(do, f)' <=> Pending(do, f))
      /\ \A f \in Shown : f # e =>
             (Leaves(f)' <=> Leaves(f)) /\ (Waits(f)' <=> Waits(f))
  BY StepRun
<1>2. /\ to \in Spots /\ to # None /\ to \in ListedNames \cup {StagingOf(e)}
      /\ Pending("final", e) /\ spot \in Spots /\ spot # None /\ listed[e] # None
      /\ \A f \in Shown \ {e} : Firm(f) => placed[f] # to
      /\ \A f \in Shown \ {e} : listed[f] # None => listed[f] # to
      /\ e \notin met => \A f \in Shown \ {e} : placed[f] # to
      /\ Firm(e)' /\ placed'[e] = to => e \notin met
      /\ Firm(e) => under[spot] \in {e, TheUser}
  BY RenameTarget
<1>3. Rename(e, to)
  <2>1. CASE s.do = "stage"
    BY <2>1 DEF RunStep, StagingOf
  <2>2. CASE s.do = "final"
    BY <2>2 DEF RunStep
  <2> QED
    BY <2>1, <2>2
<1>4. s.do = "final" => to = listed[e] /\ \A f \in Shown : ~Leaves(f)
  BY <1>1, LeftFirst
<1>5. s.do = "stage" => to = StagingOf(e) /\ Waits(e)'
  BY <1>1, <1>2 DEF Waits, Turn
<1> HIDE DEF to
<1>6. \/ under[spot] = None /\ UNCHANGED <<under, placed>>
      \/ /\ under[spot] # None
         /\ \A n \in Spots : under'[n] =
               IF n = to THEN under[spot] ELSE IF n = spot THEN None ELSE under[n]
         /\ \A f \in Shown : placed'[f] = IF f = e THEN to ELSE placed[f]
         /\ under' \in [Spots -> Shown \cup {None, TheUser}]
         /\ placed' \in [Shown -> Spots \cup {None}]
  BY <1>1, <1>2, <1>3, RenameIs
<1>7. placed'[e] # None
  BY <1>1, <1>2, <1>6
<1>8. PlanTrue'
  <2>1. \A f \in Shown : f # e => placed'[f] = placed[f] /\ listed'[f] = listed[f]
    BY <1>1, <1>6
  <2>2. ~Pending("remove", e) /\ ~Pending("create", e)
    BY <1>1, <1>2 DEF FilledTrue, PlanTrue
  <2>3. Pending("stage", e)' => Pending("final", e)'
    BY <1>1, <1>2, <1>4 DEF Leaves, Turn
  <2>4. PlanTrue
    BY <1>1 DEF FilledTrue
  <2>5. ASSUME NEW f \in Shown \ {e}, NEW do \in DOMAIN Turn PROVE Pending(do, f)' <=> Pending(do, f)
    BY <1>1, <2>5
  <2>6. ~Pending("remove", e)' /\ ~Pending("create", e)'
    BY <1>1, <2>2 DEF Turn
  <2> QED
    BY <1>1, <1>2, <1>7, <2>1, <2>3, <2>4, <2>5, <2>6 DEF PlanTrue, Turn
<1>9. CASE under[spot] = None /\ UNCHANGED <<under, placed>>
  <2>1. e \in met /\ ~Firm(e)
    BY <1>1, <1>2, <1>9 DEF Firm
  <2>2. BookInv'
    <3>1. /\ \A f \in Shown, p \in 0 .. MaxEnds : p > ends => under[<<None, f, p>>] # TheUser
          /\ \A f \in Shown : under[StagingOf(f)] = TheUser => placed[f] = StagingOf(f)
      BY <1>1 DEF BookInv, UsersFiles
    <3>2. \A f \in Shown : placed[f] \in ListedNames \cup {None, StagingOf(f)}
      BY <1>1 DEF BookInv, PlacesKnown
    <3> QED
      BY <1>1, <1>9, <3>1, <3>2, StepKeepsBooks DEF NamesTypeOK
  <2>3. PlacedApart' /\ Lies'
    BY <1>1, <1>9 DEF FilledTrue, PlacedApart, Lies
  <2>4. InTheWay'
    <3>1. ASSUME NEW f \in Shown, e # f, ~(e \in met /\ f \in met), listed[f] # None,
                 listed[f] = placed[e]
          PROVE FALSE
      BY <2>1, <3>1 DEF Firm
    <3> QED
      BY <1>1, <1>9, <3>1 DEF FilledTrue, InTheWay
  <2>5. \A f \in Shown \ met : ShownTrue(f)'
    BY <1>1, <1>9, <2>1 DEF FilledTrue, ShownTrue
  <2> QED
    BY <1>1, <1>8, <2>2, <2>3, <2>4, <2>5 DEF NamesBooks, FilledTrue
<1>10. CASE /\ under[spot] # None
            /\ \A n \in Spots : under'[n] =
                  IF n = to THEN under[spot] ELSE IF n = spot THEN None ELSE under[n]
            /\ \A f \in Shown : placed'[f] = IF f = e THEN to ELSE placed[f]
            /\ under' \in [Spots -> Shown \cup {None, TheUser}]
            /\ placed' \in [Shown -> Spots \cup {None}]
  <2>2. BookInv'
    <3>1. \A f \in Shown : placed'[f] \in ListedNames \cup {None, StagingOf(f)}
      BY <1>1, <1>2, <1>10 DEF BookInv, PlacesKnown
    <3>2. ASSUME NEW f \in Shown, under'[StagingOf(f)] = TheUser PROVE placed'[f] = StagingOf(f)
      <4>1. /\ StagingOf(f) \in Spots /\ StagingOf(f) # None /\ StagingOf(f) \notin ListedNames
            /\ \A g : StagingOf(g) = StagingOf(f) => g = f
        BY <1>1, StagingSpots DEF BookInv
      <4>2. under[StagingOf(f)] = TheUser => placed[f] = StagingOf(f)
        BY <1>1 DEF BookInv, UsersFiles
      <4>3. spot \in ListedNames \cup {None, StagingOf(e)}
        BY <1>1 DEF BookInv, PlacesKnown
      <4>4. CASE f = e
        BY <1>10, <3>2, <4>1, <4>2, <4>4
      <4>5. CASE f # e
        BY <1>2, <1>10, <3>2, <4>1, <4>2, <4>3, <4>5
      <4> QED
        BY <4>4, <4>5
    <3>3. ASSUME NEW f \in Shown, NEW p \in 0 .. MaxEnds, p > ends
          PROVE under'[<<None, f, p>>] # TheUser
      <4>1. <<None, f, p>> \in Spots /\ under[<<None, f, p>>] # TheUser
        BY <1>1, <3>3 DEF Spots, Staging, BookInv, UsersFiles
      <4>2. <<None, f, p>> # to
        BY <1>1, <1>2, <3>3, StagingApart DEF StagingOf, BookInv
      <4> QED
        BY <1>10, <4>1, <4>2
    <3> QED
      BY <1>1, <1>10, <3>1, <3>2, <3>3, StepKeepsBooks DEF NamesTypeOK
  <2>3. PlacedApart'
    <3>1. ASSUME NEW f \in Shown, Firm(f)', placed'[f] # None
          PROVE  /\ under'[placed'[f]] \in {f, TheUser}
                 /\ \A g \in Shown \ {f} : placed'[f] # placed'[g]
      <4>1. CASE f = e
        <5>1. e \notin met /\ placed'[e] = to
          BY <1>2, <1>10, <3>1, <4>1
        <5>2. Firm(e)
          BY <5>1 DEF Firm
        <5> QED
          BY <1>2, <1>10, <4>1, <5>1, <5>2
      <4>2. CASE f # e
        <5>1. placed'[f] = placed[f] /\ Firm(f) /\ placed[f] \in Spots
          BY <1>1, <1>10, <3>1, <4>2 DEF NamesTypeOK
        <5>2. under[placed[f]] \in {f, TheUser} /\ \A g \in Shown \ {f} : placed[f] # placed[g]
          BY <1>1, <3>1, <5>1 DEF FilledTrue, PlacedApart
        <5>3. placed[f] # spot /\ placed[f] # to
          BY <1>1, <1>2, <4>2, <5>1, <5>2
        <5> QED
          BY <1>10, <4>2, <5>1, <5>2, <5>3
      <4> QED
        BY <4>1, <4>2
    <3> QED
      BY <3>1 DEF PlacedApart
  <2>4. InTheWay'
    <3>1. SUFFICES ASSUME NEW a \in Shown, NEW b \in Shown, a # b, ~(a \in met /\ b \in met),
                          listed[b] # None, listed[b] = placed'[a]
                   PROVE  Leaves(a)'
      BY <1>1 DEF InTheWay
    <3>2. a # e
      <4>1. listed[b] \in ListedNames
        BY <1>1, <3>1 DEF NamesTypeOK
      <4> QED
        BY <1>2, <1>10, <3>1, <4>1
    <3> QED
      BY <1>1, <1>10, <3>1, <3>2 DEF FilledTrue, InTheWay
  <2>5. Lies'
    <3>1. SUFFICES ASSUME NEW n \in Spots, under'[n] \in Shown
                   PROVE  IF under'[n] \in met THEN \/ \E h \in met : placed'[h] = n
                                                    \/ \A f \in Shown \ met : listed[f] # n
                                               ELSE placed'[under'[n]] = n
      BY <1>1 DEF Lies
    <3>2. met \subseteq Shown /\ Lies
      BY <1>1 DEF NamesTypeOK, FilledTrue
    <3>3. CASE n = to
      <4>1. under'[n] = under[spot] /\ placed'[e] = to
        BY <1>1, <1>10, <3>3
      <4>2. CASE under[spot] \in met
        <5>1. ASSUME e \notin met PROVE FALSE
          <6>1. Firm(e) /\ under[spot] # e /\ under[spot] # TheUser
            BY <3>2, <4>2, <5>1 DEF Firm
          <6> QED
            BY <1>1, <1>2, <6>1 DEF FilledTrue, PlacedApart
        <5> QED
          BY <3>3, <4>1, <4>2, <5>1
      <4>3. CASE under[spot] \notin met
        <5>1. placed[under[spot]] = spot /\ under[spot] \in Shown
          BY <1>2, <3>1, <3>2, <4>1, <4>3 DEF Lies
        <5>2. Firm(under[spot])
          BY <4>3 DEF Firm
        <5>3. under[spot] = e
          BY <1>1, <1>2, <5>1, <5>2 DEF FilledTrue, PlacedApart
        <5> QED
          BY <3>3, <4>1, <4>3, <5>3
      <4> QED
        BY <4>2, <4>3
    <3>4. CASE n # to
      <4>1. n # spot /\ under'[n] = under[n]
        BY <1>10, <3>1, <3>4
      <4>2. \A f \in Shown : placed[f] = n => placed'[f] = n
        BY <1>10, <4>1
      <4>3. CASE under[n] \in met
        BY <3>1, <3>2, <4>1, <4>2, <4>3 DEF Lies
      <4>4. CASE under[n] \notin met
        BY <3>1, <3>2, <4>1, <4>2, <4>4 DEF Lies
      <4> QED
        BY <4>1, <4>3, <4>4
    <3> QED
      BY <3>3, <3>4
  <2>6. ASSUME NEW f \in Shown \ met' PROVE ShownTrue(f)'
    <3>1. ShownTrue(f) /\ f \notin met
      BY <1>1, <2>6 DEF FilledTrue
    <3>2. CASE f = e
      <4>1. ~Waits(e)' => placed'[e] = listed[e]
        BY <1>1, <1>4, <1>5, <1>10
      <4> QED
        BY <1>1, <1>7, <3>2, <4>1 DEF ShownTrue
    <3>3. CASE f # e
      <4>1. listed[f] # None => listed[f] \in Spots /\ listed[f] # to
        BY <1>1, <1>2, <3>3 DEF NamesTypeOK, Spots
      <4> QED
        BY <1>1, <1>10, <3>1, <3>3, <4>1 DEF ShownTrue
    <3> QED
      BY <3>2, <3>3
  <2> QED
    BY <1>1, <1>8, <2>2, <2>3, <2>4, <2>5, <2>6 DEF NamesBooks, FilledTrue
<1> QED
  BY <1>6, <1>9, <1>10

\* A placeholder is created where its name is free; where it is not, it stays away.
LEMMA CreateKeeps ==
    ASSUME NamesBooks, NEW s \in steps, RunStep(s), s.do = "create" PROVE NamesBooks'
<1> USE NamesAssumption, ShownAreNumbers, SpotsAssumption
<1> DEFINE e == s.id
           to == listed[e]
<1>1. /\ BookInv /\ NamesTypeOK /\ filled /\ FilledTrue
      /\ StepDone(s) /\ steps' = steps \ {s} /\ IsNext(s)
      /\ UNCHANGED <<titles, listed, filled, ends, met>>
      /\ \A f \in Shown : Firm(f)' /\ placed'[f] = placed[f] => Firm(f)
      /\ e \in Shown /\ Pending("create", e) /\ ~Pending("create", e)'
      /\ \A do \in DOMAIN Turn, f \in Shown :
             do # "create" \/ f # e => (Pending(do, f)' <=> Pending(do, f))
      /\ \A f \in Shown : f # e =>
             (Leaves(f)' <=> Leaves(f)) /\ (Waits(f)' <=> Waits(f))
  BY StepRun
<1>2. placed[e] = None /\ to # None /\ to \in ListedNames /\ to \in Spots
  BY <1>1 DEF FilledTrue, PlanTrue, NamesTypeOK, Spots
<1>3. \A f \in Shown : ~Leaves(f)
  BY <1>1, LeftFirst
<1>4. \A f \in Shown \ {e} : listed[f] # None => listed[f] # to
  BY <1>1 DEF BookInv, ListingTrue, Accepted
<1>5. \A f \in Shown : placed[f] = to => f \in met /\ e \in met
  BY <1>1, <1>2, <1>3 DEF FilledTrue, InTheWay
<1>6. \A f \in Shown \ {e} : Firm(f) => placed[f] # to
  BY <1>2, <1>4, <1>5 DEF Firm
<1>7. PlanTrue'
  <2>1. PlanTrue
    BY <1>1 DEF FilledTrue
  <2>2. ~Pending("remove", e) /\ ~Pending("stage", e) /\ ~Pending("final", e)
    BY <1>1, <1>2, <2>1 DEF PlanTrue
  <2>3. \A do \in DOMAIN Turn : ~Pending(do, e)'
    BY <1>1, <2>2 DEF Turn
  <2>4. \A f \in Shown \ {e} : placed'[f] = placed[f]
    BY <1>1 DEF RunStep, Create, NamesTypeOK
  <2> QED
    BY <1>1, <2>1, <2>3, <2>4 DEF PlanTrue, Turn
<1>8. CASE under[to] = None
  <2>1. under' = [under EXCEPT ![to] = e] /\ placed' = [placed EXCEPT ![e] = to]
    BY <1>8 DEF RunStep, Create
  <2>2. /\ \A n \in Spots : under'[n] = IF n = to THEN e ELSE under[n]
        /\ \A f \in Shown : placed'[f] = IF f = e THEN to ELSE placed[f]
        /\ under' \in [Spots -> Shown \cup {None, TheUser}]
        /\ placed' \in [Shown -> Spots \cup {None}]
    BY <1>1, <1>2, <2>1 DEF NamesTypeOK
  <2>3. BookInv'
    <3>1. \A f \in Shown : placed'[f] \in ListedNames \cup {None, StagingOf(f)}
      BY <1>1, <1>2, <2>2 DEF BookInv, PlacesKnown
    <3>2. ASSUME NEW f \in Shown, under'[StagingOf(f)] = TheUser PROVE placed'[f] = StagingOf(f)
      <4>1. /\ StagingOf(f) \in Spots /\ StagingOf(f) # None /\ StagingOf(f) # to
        BY <1>1, <1>2, StagingSpots DEF BookInv
      <4>2. placed[f] = StagingOf(f)
        BY <1>1, <2>2, <3>2, <4>1 DEF BookInv, UsersFiles
      <4> QED
        BY <1>2, <2>2, <4>1, <4>2
    <3>3. ASSUME NEW f \in Shown, NEW p \in 0 .. MaxEnds, p > ends
          PROVE under'[<<None, f, p>>] # TheUser
      <4>1. <<None, f, p>> \in Spots /\ under[<<None, f, p>>] # TheUser
        BY <1>1, <3>3 DEF Spots, Staging, BookInv, UsersFiles
      <4> QED
        BY <1>1, <2>2, <4>1
    <3> QED
      BY <1>1, <2>2, <3>1, <3>2, <3>3, StepKeepsBooks DEF NamesTypeOK
  <2>4. PlacedApart'
    <3>1. ASSUME NEW f \in Shown, Firm(f)', placed'[f] # None
          PROVE  /\ under'[placed'[f]] \in {f, TheUser}
                 /\ \A g \in Shown \ {f} : placed'[f] # placed'[g]
      <4>1. CASE f = e
        <5>1. e \notin met /\ placed'[e] = to
          BY <1>1, <1>4, <2>2, <3>1, <4>1 DEF Firm
        <5> QED
          BY <1>2, <1>5, <2>2, <4>1, <5>1
      <4>2. CASE f # e
        <5>1. placed'[f] = placed[f] /\ Firm(f) /\ placed[f] \in Spots
          BY <1>1, <2>2, <3>1, <4>2 DEF NamesTypeOK
        <5>2. under[placed[f]] \in {f, TheUser} /\ \A g \in Shown \ {f} : placed[f] # placed[g]
          BY <1>1, <3>1, <5>1 DEF FilledTrue, PlacedApart
        <5> QED
          BY <1>6, <2>2, <4>2, <5>1, <5>2
      <4> QED
        BY <4>1, <4>2
    <3> QED
      BY <3>1 DEF PlacedApart
  <2>5. InTheWay'
    <3>1. SUFFICES ASSUME NEW a \in Shown, NEW b \in Shown, a # b, ~(a \in met /\ b \in met),
                          listed[b] # None, listed[b] = placed'[a]
                   PROVE  Leaves(a)'
      BY <1>1 DEF InTheWay
    <3>2. a # e
      BY <1>4, <2>2, <3>1
    <3> QED
      BY <1>1, <2>2, <3>1, <3>2 DEF FilledTrue, InTheWay
  <2>6. Lies'
    <3>1. met \subseteq Shown /\ Lies
      BY <1>1 DEF NamesTypeOK, FilledTrue
    <3>2. \A f \in Shown, n \in Spots : placed[f] = n => placed'[f] = n
      BY <1>2, <2>2
    <3>3. placed'[e] = to
      BY <1>1, <2>2
    <3> QED
      BY <1>1, <2>2, <3>1, <3>2, <3>3 DEF Lies
  <2>7. ASSUME NEW f \in Shown \ met' PROVE ShownTrue(f)'
    <3>1. ShownTrue(f) /\ f \notin met
      BY <1>1, <2>7 DEF FilledTrue
    <3>2. CASE f = e
      BY <1>1, <1>2, <2>2, <3>2 DEF ShownTrue
    <3>3. CASE f # e
      <4>1. listed[f] # None => listed[f] \in Spots /\ listed[f] # to
        BY <1>1, <1>4, <3>3 DEF NamesTypeOK, Spots
      <4> QED
        BY <1>1, <2>2, <3>1, <3>3, <4>1 DEF ShownTrue
    <3> QED
      BY <3>2, <3>3
  <2> QED
    BY <1>1, <1>7, <2>3, <2>4, <2>5, <2>6, <2>7 DEF NamesBooks, FilledTrue
<1>9. CASE under[to] # None
  <2>1. UNCHANGED <<under, placed>>
    BY <1>9 DEF RunStep, Create
  <2>2. BookInv'
    <3>1. /\ \A f \in Shown, p \in 0 .. MaxEnds : p > ends => under[<<None, f, p>>] # TheUser
          /\ \A f \in Shown : under[StagingOf(f)] = TheUser => placed[f] = StagingOf(f)
      BY <1>1 DEF BookInv, UsersFiles
    <3>2. \A f \in Shown : placed[f] \in ListedNames \cup {None, StagingOf(f)}
      BY <1>1 DEF BookInv, PlacesKnown
    <3> QED
      BY <1>1, <2>1, <3>1, <3>2, StepKeepsBooks DEF NamesTypeOK
  <2>3. PlacedApart' /\ Lies'
    BY <1>1, <2>1 DEF FilledTrue, PlacedApart, Lies
  <2>4. InTheWay'
    BY <1>1, <1>3, <2>1 DEF FilledTrue, InTheWay
  <2>5. ASSUME e \notin met PROVE under[to] = TheUser /\ \A h \in Shown : placed[h] # to
    <3>1. \A h \in Shown : placed[h] # to
      BY <1>5, <2>5
    <3>2. met \subseteq Shown /\ Lies
      BY <1>1 DEF FilledTrue, NamesTypeOK
    <3>3. ASSUME under[to] \in Shown PROVE FALSE
      <4>1. CASE under[to] \in met
        <5>1. listed[e] = to /\ e \in Shown \ met /\ to \in Spots
          BY <1>1, <1>2, <2>5
        <5>2. ~(\E h \in met : placed[h] = to) /\ ~(\A f \in Shown \ met : listed[f] # to)
          BY <3>1, <3>2, <5>1
        <5> QED
          BY <3>2, <3>3, <4>1, <5>1, <5>2 DEF Lies
      <4>2. CASE under[to] \notin met
        BY <1>2, <3>1, <3>2, <3>3, <4>2 DEF Lies
      <4> QED
        BY <4>1, <4>2
    <3> QED
      BY <1>1, <1>2, <1>9, <3>1, <3>3 DEF NamesTypeOK
  <2>6. ASSUME NEW f \in Shown \ met' PROVE ShownTrue(f)'
    <3>1. ShownTrue(f) /\ f \notin met
      BY <1>1, <2>6 DEF FilledTrue
    <3>2. CASE f = e
      BY <1>1, <1>2, <2>1, <2>5, <3>1, <3>2 DEF ShownTrue
    <3>3. CASE f # e
      BY <1>1, <2>1, <3>1, <3>3 DEF ShownTrue
    <3> QED
      BY <3>2, <3>3
  <2> QED
    BY <1>1, <1>7, <2>2, <2>3, <2>4, <2>6 DEF NamesBooks, FilledTrue
<1> QED
  BY <1>8, <1>9

-----------------------------------------------------------------------------
\* What a folder that is opened shows under a name: the entry that is called so, or
\* the file of the user's that was there.
LEMMA ReconciledIs ==
    ASSUME NamesTypeOK, Accepted(listed), NEW n \in Spots
    PROVE  /\ under[n] = TheUser => Reconciled(n) = TheUser
           /\ under[n] # TheUser => \A e \in Shown : listed[e] = n => Reconciled(n) = e
           /\ under[n] # TheUser /\ (\A e \in Shown : listed[e] # n) => Reconciled(n) = None
<1> USE ShownAreNumbers, SpotsAssumption
<1>1. ASSUME under[n] # TheUser, NEW e \in Shown, listed[e] = n PROVE Reconciled(n) = e
  <2>1. {f \in Shown : listed[f] = n} = {e}
    BY <1>1 DEF Accepted
  <2> QED
    BY <1>1, <2>1 DEF Reconciled
<1>2. ASSUME under[n] # TheUser, \A e \in Shown : listed[e] # n PROVE Reconciled(n) = None
  <2>1. {f \in Shown : listed[f] = n} = {}
    BY <1>2
  <2> QED
    BY <1>2, <2>1 DEF Reconciled
<1> QED
  BY <1>1, <1>2 DEF Reconciled

\* A folder is opened: the map becomes what is listed, and the disk but for what was
\* refused.
LEMMA OpenFolderKeeps ==
    ASSUME NamesBooks, OpenFolder PROVE NamesBooks'
<1> USE NamesAssumption, ShownAreNumbers, SpotsAssumption
<1>1. BookInv /\ NamesTypeOK /\ Accepted(listed) /\ steps = {} /\ ~filled
  BY DEF NamesBooks, BookInv, PlacesKnown, ListingTrue, OpenFolder
<1>2. PICK refused \in SUBSET Refusable :
          /\ under' = [n \in Spots |-> IF n \in refused THEN under[n] ELSE Reconciled(n)]
          /\ met' = HeldUp(refused)
  BY DEF OpenFolder
<1>3. filled' /\ placed' = listed /\ UNCHANGED <<titles, listed, steps, ends>>
  BY DEF OpenFolder
<1>4. /\ refused \subseteq Spots /\ \A n \in refused : under[n] # TheUser /\ under'[n] = under[n]
      /\ \A e \in Shown : e \in met' <=> \E n \in refused : under[n] = e \/ listed[e] = n
  BY <1>2 DEF Refusable, HeldUp
<1>5. \A n \in Spots \ refused :
          /\ under[n] = TheUser => under'[n] = TheUser
          /\ under[n] # TheUser => \A e \in Shown : listed[e] = n => under'[n] = e
          /\ under[n] # TheUser /\ (\A e \in Shown : listed[e] # n) => under'[n] = None
  BY <1>1, <1>2, ReconciledIs
<1>6. \A n \in Spots : under'[n] = TheUser => under[n] = TheUser
  BY <1>4, <1>5
<1>7. \A e \in Shown : listed[e] # None => listed[e] \in Spots
  BY <1>1 DEF NamesTypeOK, Spots
<1>8. BookInv'
  <2>1. under' \in [Spots -> Shown \cup {None, TheUser}]
    <3>1. \A n \in Spots : under'[n] \in Shown \cup {None, TheUser}
      BY <1>1, <1>4, <1>5 DEF NamesTypeOK
    <3> QED
      BY <1>2, <3>1
  <2>2. NamesTypeOK'
    <3>1. met' \subseteq Shown
      BY <1>2 DEF HeldUp
    <3> QED
      BY <1>1, <1>3, <2>1, <3>1 DEF NamesTypeOK, Spots
  <2>3. ListingTrue' /\ PlacesKnown'
    BY <1>1, <1>3 DEF BookInv, ListingTrue, PlacesKnown, NamesTypeOK
  <2>4. UsersFiles'
    <3>1. \A e \in Shown, p \in 0 .. MaxEnds : <<None, e, p>> \in Spots
      BY DEF Spots, Staging
    <3>2. \A e \in Shown, p \in 0 .. MaxEnds : p >= ends => under'[<<None, e, p>>] # TheUser
      BY <1>1, <1>6, <3>1 DEF BookInv, UsersFiles
    <3>3. ends \in 0 .. MaxEnds /\ ends \in Nat /\ MaxEnds \in Nat
      BY <1>1 DEF BookInv
    <3>4. \A e \in Shown : under'[<<None, e, ends>>] # TheUser
      BY <3>2, <3>3
    <3>5. \A e \in Shown, p \in 0 .. MaxEnds : p > ends => under'[<<None, e, p>>] # TheUser
      BY <3>2, <3>3
    <3> QED
      BY <1>3, <3>4, <3>5 DEF UsersFiles, StagingOf
  <2> QED
    BY <1>1, <1>3, <2>2, <2>3, <2>4 DEF BookInv
<1>9. PlanTrue'
  BY <1>1, <1>3 DEF PlanTrue, Pending
<1>10. PlacedApart'
  <2>1. ASSUME NEW e \in Shown, Firm(e)', listed[e] # None PROVE e \notin met'
    <3>1. ASSUME NEW f \in Shown \ met', listed[f] # None, listed[f] = listed[e] PROVE e = f
      BY <1>1, <3>1 DEF Accepted
    <3> QED
      BY <1>3, <2>1, <3>1 DEF Firm
  <2>2. ASSUME NEW e \in Shown, Firm(e)', listed[e] # None
        PROVE under'[listed[e]] \in {e, TheUser}
    BY <1>4, <1>5, <1>7, <2>1, <2>2
  <2>3. ASSUME NEW e \in Shown, NEW f \in Shown \ {e}, listed[e] # None
        PROVE listed[e] # listed[f]
    BY <1>1, <2>3 DEF Accepted
  <2> QED
    BY <1>3, <2>2, <2>3 DEF PlacedApart
<1>11. InTheWay'
  BY <1>1, <1>3 DEF InTheWay, Accepted
<1>12. Lies'
  <2>1. ASSUME NEW n \in Spots, under'[n] \in Shown
        PROVE  IF under'[n] \in met' THEN \/ \E h \in met' : listed[h] = n
                                          \/ \A e \in Shown \ met' : listed[e] # n
                                     ELSE listed[under'[n]] = n
    <3>1. CASE n \in refused
      BY <1>4, <2>1, <3>1
    <3>2. CASE n \notin refused
      <4>1. listed[under'[n]] = n
        BY <1>5, <2>1, <3>2
      <4> QED
        BY <4>1
    <3> QED
      BY <3>1, <3>2
  <2> QED
    BY <1>3, <2>1 DEF Lies
<1>13. \A e \in Shown : ShownTrue(e)'
  BY <1>3 DEF ShownTrue
<1> QED
  BY <1>8, <1>9, <1>10, <1>11, <1>12, <1>13 DEF NamesBooks, FilledTrue

\* The user puts a file of his own under a name that is free.
LEMMA DropFileKeeps ==
    ASSUME NamesBooks, NEW n \in ListedNames, DropFile(n) PROVE NamesBooks'
<1> USE NamesAssumption, ShownAreNumbers, SpotsAssumption
<1>1. BookInv /\ NamesTypeOK /\ n \in Spots
  BY DEF NamesBooks, BookInv, Spots
<1>2. /\ under[n] = None /\ under' = [under EXCEPT ![n] = TheUser]
      /\ UNCHANGED <<titles, listed, placed, filled, steps, ends, met>>
  BY DEF DropFile
<1>3. \A m \in Spots : under'[m] = IF m = n THEN TheUser ELSE under[m]
  BY <1>1, <1>2 DEF NamesTypeOK
<1>4. /\ \A do, e : Pending(do, e)' <=> Pending(do, e)
      /\ \A e : Leaves(e)' <=> Leaves(e)
      /\ \A e : Waits(e)' <=> Waits(e)
      /\ \A e : Firm(e)' <=> Firm(e)
  BY <1>2 DEF Pending, Leaves, Waits, Firm
<1>5. BookInv'
  <2>1. NamesTypeOK' /\ ListingTrue' /\ PlacesKnown'
    BY <1>1, <1>2 DEF BookInv, NamesTypeOK, ListingTrue, PlacesKnown, StagingOf
  <2>2. \A e \in Shown, p \in 0 .. MaxEnds : under'[<<None, e, p>>] = under[<<None, e, p>>]
    <3>1. \A e \in Shown, p \in 0 .. MaxEnds : <<None, e, p>> \in Spots /\ <<None, e, p>> # n
      BY StagingApart DEF Spots, Staging
    <3> QED
      BY <1>3, <3>1
  <2>3. UsersFiles'
    BY <1>1, <1>2, <2>2 DEF BookInv, UsersFiles, StagingOf
  <2> QED
    BY <1>1, <1>2, <2>1, <2>3 DEF BookInv
<1>6. ASSUME FilledTrue PROVE FilledTrue'
  <2>1. PlanTrue' /\ InTheWay'
    BY <1>2, <1>4, <1>6 DEF FilledTrue, PlanTrue, InTheWay
  <2>2. PlacedApart'
    <3>1. \A e \in Shown : placed[e] # None => placed[e] \in Spots
      BY <1>1 DEF NamesTypeOK
    <3> QED
      BY <1>2, <1>3, <1>4, <1>6, <3>1 DEF FilledTrue, PlacedApart
  <2>3. Lies'
    BY <1>2, <1>3, <1>6 DEF FilledTrue, Lies
  <2>4. \A e \in Shown \ met : ShownTrue(e)'
    <3>1. \A e \in Shown : listed[e] # None => listed[e] \in Spots
      BY <1>1 DEF NamesTypeOK, Spots
    <3> QED
      BY <1>2, <1>3, <1>4, <1>6, <3>1 DEF FilledTrue, ShownTrue
  <2> QED
    BY <1>2, <2>1, <2>2, <2>3, <2>4 DEF FilledTrue
<1> QED
  BY <1>2, <1>5, <1>6 DEF NamesBooks

\* The process ends: the map is gone, the disk and the listing stay.
LEMMA ProcessEndsKeeps ==
    ASSUME NamesBooks, ProcessEnds PROVE NamesBooks'
<1> USE NamesAssumption, ShownAreNumbers
<1>1. BookInv /\ NamesTypeOK
  BY DEF NamesBooks, BookInv
<1>2. /\ ends < MaxEnds /\ ends' = ends + 1 /\ filled' = FALSE /\ placed' = InNames /\ steps' = {}
      /\ UNCHANGED <<titles, listed, under, met>>
  BY DEF ProcessEnds
<1>3. NamesTypeOK' /\ ListingTrue' /\ PlacesKnown'
  BY <1>1, <1>2 DEF BookInv, NamesTypeOK, ListingTrue, PlacesKnown, InNames, Turn
<1>4. UsersFiles' /\ ends' \in 0 .. MaxEnds
  BY <1>1, <1>2 DEF BookInv, UsersFiles
<1> QED
  BY <1>2, <1>3, <1>4 DEF NamesBooks, BookInv

\* Every step of listings, reports, openings, restarts and the user keeps the names.
LEMMA NamesNextKeeps == NamesBooks /\ [NamesNext]_namesVars => NamesBooks'
<1> SUFFICES ASSUME NamesBooks, [NamesNext]_namesVars PROVE NamesBooks'
    OBVIOUS
<1>1. ASSUME NEW a \in Answers, AdoptListing(a) PROVE NamesBooks'
  BY <1>1, AdoptListingKeeps
<1>2. ASSUME NEW s \in steps, RunStep(s) PROVE NamesBooks'
  <2>1. s.do \in {"remove", "stage", "final", "create"}
    BY <1>2, StepRun
  <2> QED
    BY <1>2, <2>1, RemoveKeeps, RenameKeeps, CreateKeeps
<1>3. ASSUME NEW s \in steps, StepLost(s) PROVE NamesBooks'
  BY <1>3, StepLostKeeps
<1>4. CASE OpenFolder
  BY <1>4, OpenFolderKeeps
<1>5. CASE ProcessEnds
  BY <1>5, ProcessEndsKeeps
<1>6. ASSUME NEW n \in UserNames, DropFile(n) PROVE NamesBooks'
  BY <1>6, DropFileKeeps, NamesAssumption DEF ListedNames
<1>7. CASE UNCHANGED namesVars
  BY <1>7, NamesUnchanged DEF namesVars
<1> QED
  BY <1>1, <1>2, <1>3, <1>4, <1>5, <1>6, <1>7 DEF NamesNext

\* Through listings, reports, open files, restarts and the user's own files the names
\* of the disk, the map and the store fit each other.
THEOREM NamesBooksHold == NamesSpec => []NamesBooks
<1> QED
  BY NamesInitBooks, NamesNextKeeps, PTL DEF NamesSpec

\* Every entry lies under its name once a report is worked off, and nothing else lies
\* in the folder: but for what was refused a step, and what a file of the user's keeps out.
THEOREM NamesHold == NamesSpec => []NamesInv
<1>1. NamesBooks => NamesInv
  <2> SUFFICES ASSUME NamesBooks PROVE NamesInv
      OBVIOUS
  <2> USE ShownAreNumbers, SpotsAssumption
  <2>1. NamesTypeOK
    BY DEF NamesBooks, BookInv
  <2>2. NamesAtRest => FilledTrue /\ \A e \in Shown : ~Waits(e)
    BY DEF NamesBooks, NamesAtRest, Waits, Pending
  <2>3. ShownAsListed
    <3>1. SUFFICES ASSUME NamesAtRest, NEW e \in Shown \ met, listed[e] # None
                   PROVE  under[listed[e]] \in {e, TheUser}
      BY DEF ShownAsListed
    <3>2. ShownTrue(e) /\ ~Waits(e) /\ PlacedApart /\ Firm(e)
      BY <2>2, <3>1 DEF FilledTrue, Firm
    <3> QED
      BY <3>1, <3>2 DEF ShownTrue, PlacedApart
  <2>4. NothingElse
    <3>1. SUFFICES ASSUME NamesAtRest, NEW n \in Spots, under[n] \in Shown \ met
                   PROVE  listed[under[n]] = n
      BY DEF NothingElse
    <3>2. placed[under[n]] = n /\ ShownTrue(under[n]) /\ ~Waits(under[n])
      BY <2>2, <3>1 DEF FilledTrue, Lies
    <3> QED
      BY <3>2 DEF ShownTrue
  <2> QED
    BY <2>1, <2>3, <2>4 DEF NamesInv
<1> QED
  BY <1>1, NamesBooksHold, PTL

\* A file of the user's goes only by a rename onto its name, or by a step for an entry
\* that the map has under its name.
THEOREM UserFileStaysHolds == NamesSpec => UserFileStays
<1> DEFINE Taken(n) == \E s \in steps :
               IsNext(s) /\ (placed[s.id] = n \/ (s.do = "final" /\ listed[s.id] = n))
           Stays == \A n \in Spots : under[n] = TheUser /\ under'[n] # TheUser => Taken(n)
<1>1. NamesBooks /\ [NamesNext]_namesVars => Stays
  <2> SUFFICES ASSUME NamesBooks, [NamesNext]_namesVars,
                      NEW n \in Spots, under[n] = TheUser, under'[n] # TheUser
               PROVE  Taken(n)
      OBVIOUS
  <2> USE NamesAssumption, ShownAreNumbers, SpotsAssumption
  <2>1. BookInv /\ NamesTypeOK
    BY DEF NamesBooks, BookInv
  <2>2. ASSUME NEW s \in steps, RunStep(s) PROVE Taken(n)
    <3> DEFINE e == s.id
               to == IF s.do = "stage" THEN StagingOf(e) ELSE listed[e]
    <3>1. /\ e \in Shown /\ s.do \in {"remove", "stage", "final", "create"}
          /\ IsNext(s) /\ filled
      BY <2>2, StepRun
    <3>2. CASE s.do = "remove"
      BY <2>1, <2>2, <3>1, <3>2 DEF RunStep, NamesTypeOK
    <3>3. CASE s.do = "create"
      BY <2>1, <2>2, <3>1, <3>3 DEF RunStep, Create, NamesTypeOK
    <3>4. CASE s.do \in {"stage", "final"}
      <4>1. to \in Spots /\ placed[e] \in Spots
        BY <2>2, <3>4, RenameTarget
      <4>2. Rename(e, to)
        BY <2>2, <3>4 DEF RunStep, StagingOf
      <4>3. n = to \/ n = placed[e]
        <5> HIDE DEF to
        <5> QED
          BY <2>1, <3>1, <4>1, <4>2, RenameIs
      <4>4. s.do = "stage" /\ n = to => placed[e] = n
        BY <2>1, <3>1 DEF BookInv, UsersFiles
      <4>5. s.do = "final" => to = listed[e]
        OBVIOUS
      <4> QED
        BY <3>1, <3>4, <4>3, <4>4, <4>5
    <3> QED
      BY <3>1, <3>2, <3>3, <3>4
  <2>3. CASE OpenFolder
    <3>1. PICK refused \in SUBSET Refusable :
              under' = [m \in Spots |-> IF m \in refused THEN under[m] ELSE Reconciled(m)]
      BY <2>3 DEF OpenFolder
    <3> QED
      BY <3>1 DEF Reconciled
  <2>4. CASE \E m \in UserNames : DropFile(m)
    BY <2>1, <2>4 DEF DropFile, NamesTypeOK
  <2>5. CASE UNCHANGED under
    BY <2>5
  <2> QED
    BY <2>2, <2>3, <2>4, <2>5 DEF NamesNext, AdoptListing, StepLost, ProcessEnds, namesVars
<1>2. Stays => (\A n \in Spots : under[n] = TheUser /\ under'[n] # TheUser =>
           \E s \in steps : IsNext(s) /\ (placed[s.id] = n \/ (s.do = "final" /\ listed[s.id] = n)))
  OBVIOUS
<1> HIDE DEF Stays
<1> QED
  BY <1>1, <1>2, NamesBooksHold, PTL DEF NamesSpec, UserFileStays

\* While titles do not read like made-up names, none wanders from an entry to another.
THEOREM NamesStayHolds == NamesSpec => NamesStay
<1> DEFINE Stay == PlainTitles(titles) /\ PlainTitles(titles') =>
               \A e, f \in Siblings :
                   e # f /\ titles[f] # None /\ titles'[f] = titles[f] /\ listed[e] # None
                   => listed'[f] # listed[e]
<1>1. NamesBooks /\ NamesBooks' => Stay
  <2> SUFFICES ASSUME NamesBooks, NamesBooks', PlainTitles(titles), PlainTitles(titles'),
                      NEW e \in Siblings, NEW f \in Siblings, e # f, titles[f] # None,
                      titles'[f] = titles[f], listed[e] # None, listed'[f] = listed[e]
               PROVE  FALSE
      OBVIOUS
  <2> USE NamesAssumption, ShownAreNumbers
  <2>1. /\ listed[e] = NameOf(titles, e) /\ listed'[f] = NameOf(titles', f)
        /\ titles \in Answers /\ titles' \in Answers /\ {e, f} \subseteq Shown
    BY DEF NamesBooks, BookInv, NamesTypeOK, ListingTrue, NamesOf, Shown
  <2>2. titles[e] # None /\ titles[e] \in Titles /\ titles[f] \in Titles
    BY <2>1 DEF Answers, NameOf
  <2>3. Len(titles[e]) = 1 /\ Len(titles[f]) = 1
    BY <2>2 DEF PlainTitles
  <2>4. /\ Len(Append(titles[e], e)) = 2 /\ Append(titles[e], e)[2] = e
        /\ Len(Append(titles[f], f)) = 2 /\ Append(titles[f], f)[2] = f
    <3>1. ASSUME NEW t \in Titles, NEW g \in Nat, Len(t) = 1
          PROVE  Len(Append(t, g)) = 2 /\ Append(t, g)[2] = g
      <4>1. Append(t, g)[Len(t) + 1] = g /\ Len(Append(t, g)) = Len(t) + 1
        BY MadeUpName
      <4>2. Len(t) + 1 = 2
        BY <3>1
      <4> QED
        BY <4>1, <4>2
    <3> QED
      BY <2>2, <2>3, <3>1
  <2>5. listed[e] = titles[e] /\ listed'[f] = titles[f]
    <3>1. listed[e] \in {titles[e], Append(titles[e], e)}
      BY <2>1 DEF NameOf
    <3>2. listed'[f] \in {titles[f], Append(titles[f], f)}
      BY <2>1 DEF NameOf
    <3>3. listed[e] # Append(titles[e], e)
      BY <2>3, <2>4, <3>2
    <3> QED
      BY <2>3, <2>4, <3>1, <3>2, <3>3
  <2>6. Clashes(titles, e)
    BY <2>1, <2>5 DEF Clashes
  <2>7. e # HintFile
    OBVIOUS
  <2> QED
    BY <2>1, <2>2, <2>3, <2>4, <2>5, <2>6, <2>7 DEF NameOf
<1> HIDE DEF Stay
<1>2. NamesBooks /\ [NamesNext]_namesVars => [Stay]_namesVars
  BY <1>1, NamesNextKeeps
<1>3. NamesSpec => [][Stay]_namesVars
  BY <1>2, NamesBooksHold, PTL DEF NamesSpec
<1> QED
  BY <1>3 DEF NamesStay, Stay
=============================================================================
