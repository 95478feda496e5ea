------------------------------ MODULE Namespace ------------------------------
(***************************************************************************)
(* The namespace in the store: the entries of the tree, the change journal *)
(* and the tombstones; and the platform that follows it by enumerating     *)
(* once and then catching up from its anchor (the macOS working set).      *)
(*                                                                         *)
(* Covered: listings that replace a container, containers that disappear   *)
(* with everything below them, erasures and their redaction, the trimming  *)
(* of the journal, sign-outs, and changes between any two pages the        *)
(* platform reads.                                                         *)
(*                                                                         *)
(* Abstracted: what an entry shows (name, size, version) is one value;     *)
(* the order of siblings (rank) is left out, it is not journalled; the     *)
(* time a tombstone takes effect is the time until it lapses.              *)
(***************************************************************************)
EXTENDS Integers, FiniteSets

CONSTANTS
    Size,         \* the entries are 1..Size, a child before its container
    Parent,       \* the container an entry stands in
    DocOf,        \* the document an entry places; NoDoc for a folder
    Documents,
    NoDoc,
    Looks,        \* what each entry can look like (name, size, version)
    Absent,
    JournalMax,   \* entries the journal keeps (JOURNAL_MAX)
    PageMax,      \* entries or changes in one page of the platform
    MaxSequence   \* bound on the sequence numbers

Entries == 1 .. Size
Root == Size + 1
Folders == {e \in Entries : DocOf[e] = NoDoc}
Containers == Folders \cup {Root}

ASSUME NamespaceAssumption ==
    /\ Size \in Nat
    /\ DocOf \in [Entries -> Documents \cup {NoDoc}]
    /\ NoDoc \notin Documents
    /\ Parent \in [1 .. Root -> Containers]
    /\ Parent[Root] = Root
    /\ \A e \in Entries : Parent[e] > e
    /\ \A e \in Entries : Parent[Parent[Parent[Parent[e]]]] = Root
    /\ \A e \in Entries : Absent \notin Looks[e]
    /\ JournalMax \in Nat \ {0}
    /\ PageMax \in Nat \ {0}

VARIABLES
    (* the store *)
    entry,     \* what the table `entry` holds
    fetched,   \* the containers with a row in `container_state`
    erased,    \* the documents with a tombstone in effect
    journal,   \* the table `journal`, by sequence number
    last,      \* the highest sequence number handed out
    lower,     \* everything up to here is trimmed
    (* the platform *)
    phase,     \* what it does: begins, asks for the plan, reads, catches up
    anchor,    \* the sequence number it has seen
    view,      \* what it shows
    marker     \* where its enumeration stands

storeVars == <<entry, fetched, erased, journal, last, lower>>
platformVars == <<phase, anchor, view, marker>>
vars == <<entry, fetched, erased, journal, last, lower, phase, anchor, view, marker>>

KidsOf(c) == {e \in Entries : Parent[e] = c}

Shown == (UNION {Looks[e] : e \in Entries}) \cup {Absent}

\* The listings a container can get.
Listings(c) ==
    {l \in [KidsOf(c) -> Shown] : \A e \in KidsOf(c) : l[e] \in Looks[e] \cup {Absent}}

\* `after` is what the entry looks like from then on, `named` whether the row
\* carries the entry's name and details.
JournalRow == [entry : Entries, after : Shown, named : BOOLEAN]

Phases == {"begin", "plan", "read", "changes", "gone"}

\* plan, at, given and children travel with the page; found is the plan as far as
\* this call has asked for it, open what it has still to ask.
Marker == [plan : SUBSET Containers, at : Containers,
           given : SUBSET Entries, children : SUBSET Entries,
           found : SUBSET Containers, open : SUBSET Containers]

TypeOK ==
    /\ entry \in [Entries -> Shown]
    /\ fetched \subseteq Containers
    /\ erased \subseteq Documents
    /\ last \in Nat
    /\ lower \in Nat
    /\ DOMAIN journal \subseteq Nat
    /\ journal \in [DOMAIN journal -> JournalRow]
    /\ phase \in Phases
    /\ anchor \in Nat
    /\ view \in [Entries -> Shown]
    /\ marker \in Marker
    /\ marker.open \subseteq marker.found

NoMarker == [plan |-> {}, at |-> Root, given |-> {}, children |-> {},
             found |-> {Root}, open |-> {Root}]

Init ==
    /\ entry = [e \in Entries |-> Absent]
    /\ fetched = {}
    /\ erased = {}
    /\ journal = [s \in {} |-> 0]
    /\ last = 0
    /\ lower = 0
    /\ phase = "begin"
    /\ anchor = 0
    /\ view = [e \in Entries |-> Absent]
    /\ marker = NoMarker

-----------------------------------------------------------------------------
(* The tree *)

\* The tree is four levels deep: archives folder, archive, case file, document.
Above(e) == {Parent[e], Parent[Parent[e]], Parent[Parent[Parent[e]]]}

Present(e) == e # Root => entry[e] # Absent
Kids(c) == {e \in KidsOf(c) : Present(e)}

-----------------------------------------------------------------------------
(* Writing the journal *)

Changed(new) == {e \in Entries : new[e] # entry[e]}

\* Removed first, a child before its container; then changed; then new.
Stage(e, new) == IF new[e] = Absent THEN 0 ELSE IF entry[e] # Absent THEN 1 ELSE 2
Precedes(d, e, new) ==
    \/ Stage(d, new) < Stage(e, new)
    \/ Stage(d, new) = Stage(e, new) /\ d < e

Place(e, new) == 1 + Cardinality({d \in Changed(new) : Precedes(d, e, new)})

\* truncate_journal: the newest JournalMax rows stay.
Trimmed(top) == IF top - lower <= JournalMax THEN lower ELSE top - JournalMax

\* The rows after appending the change from `entry` to `new` to `rows`.
Appended(rows, new, named) ==
    LET top == last + Cardinality(Changed(new))
    IN  [s \in {t \in DOMAIN rows \cup (last + 1 .. top) : t > Trimmed(top)} |->
            IF s <= last THEN rows[s]
            ELSE LET e == CHOOSE e \in Changed(new) : Place(e, new) = s - last
                 IN  [entry |-> e, after |-> new[e], named |-> named]]

\* journal(): one transaction writes the entries, the rows and the bounds.
Write(rows, new, named) ==
    LET top == last + Cardinality(Changed(new))
    IN  /\ top <= MaxSequence
        /\ entry' = new
        /\ journal' = Appended(rows, new, named)
        /\ last' = top
        /\ lower' = Trimmed(top)

-----------------------------------------------------------------------------
(* The operations of the store *)

\* Tombstones filter erased documents out before the comparison.
Fresh(e, listing) == IF DocOf[e] \in erased THEN Absent ELSE listing[e]

\* What a listing of c makes of the entries: a container that disappears
\* takes everything below it along (remove_descendant).
Replaced(c, listing) ==
    LET leaves == {e \in Kids(c) : Fresh(e, listing) = Absent}
    IN  [e \in Entries |-> IF Parent[e] = c THEN Fresh(e, listing)
                           ELSE IF Above(e) \cap leaves # {} THEN Absent
                           ELSE entry[e]]

\* Mutant: the state of a container that disappears stays.
ForgottenNone(new) == {}

Forgotten(new) == {e \in Folders : entry[e] # Absent /\ new[e] = Absent}

\* replace_container: c has to be known.
ReplaceContainer(c, listing) ==
    /\ Present(c)
    /\ Write(journal, Replaced(c, listing), TRUE)
    /\ fetched' = (fetched \cup {c}) \ Forgotten(Replaced(c, listing))
    /\ UNCHANGED <<erased, platformVars>>

\* redact_journal: every row of the document becomes a nameless removal.
Redacted(d) ==
    [s \in DOMAIN journal |->
        IF DocOf[journal[s].entry] = d
        THEN [journal[s] EXCEPT !.after = Absent, !.named = FALSE]
        ELSE journal[s]]

\* remove_document_everywhere.
RemoveDocumentEverywhere(d) ==
    /\ Write(Redacted(d), [e \in Entries |-> IF DocOf[e] = d THEN Absent ELSE entry[e]],
             FALSE)
    /\ erased' = erased \cup {d}
    /\ UNCHANGED <<fetched, platformVars>>

\* Thirty days later the tombstone is without effect.
TombstoneLapses(d) ==
    /\ d \in erased
    /\ erased' = erased \ {d}
    /\ UNCHANGED <<entry, fetched, journal, last, lower, platformVars>>

\* Mutant: the counting does not consume a number.
AfterEmptyingSame == last

AfterEmptying == last + 1

\* empty_namespace, at the sign-out; the tombstones stay.
EmptyNamespace ==
    /\ AfterEmptying <= MaxSequence
    /\ entry' = [e \in Entries |-> Absent]
    /\ fetched' = {}
    /\ journal' = [s \in {} |-> 0]
    /\ last' = AfterEmptying
    /\ lower' = AfterEmptying
    /\ UNCHANGED <<erased, platformVars>>

-----------------------------------------------------------------------------
(* The platform *)

\* currentSyncAnchor; then the enumeration starts at the first page.  That the
\* system asks again after "no such item" is its own affair.
TakeAnchor ==
    /\ phase \in {"begin", "gone"}
    /\ anchor' = last
    /\ view' = [e \in Entries |-> Absent]
    /\ marker' = NoMarker
    /\ phase' = "plan"
    /\ UNCHANGED storeVars

\* The containers that hold folders.
Branching == {c \in Containers : KidsOf(c) \cap Folders # {}}

\* folders_in: the plan is asked for container by container, each call for itself;
\* one that has gone since it was found ends the page with "no such item".
AskFolders(c) ==
    /\ phase = "plan"
    /\ c \in marker.open
    /\ IF Present(c)
       THEN /\ marker' = [marker EXCEPT !.found = @ \cup (Kids(c) \cap Folders),
                                        !.open = (@ \ {c}) \cup (Kids(c) \cap Branching)]
            /\ UNCHANGED phase
       ELSE phase' = "gone" /\ marker' = NoMarker
    /\ UNCHANGED <<storeVars, anchor, view>>

\* read_page has its plan; a marker of another plan has expired.
ComputePlan ==
    /\ phase = "plan"
    /\ marker.open = {}
    /\ IF marker.plan \in {{}, marker.found}
       THEN /\ phase' = "read"
            /\ marker' = [marker EXCEPT !.plan = marker.found]
       ELSE phase' = "begin" /\ marker' = NoMarker
    /\ UNCHANGED <<storeVars, anchor, view>>

\* The next page of the container in turn, in a fixed order.
Chunk ==
    LET rest == Kids(marker.at) \ marker.given
    IN  {e \in rest : Cardinality({d \in rest : d < e}) < PageMax}

\* The container is gone, or its children are not those of the page before.
ReadExpired ==
    /\ phase = "read"
    /\ ~Present(marker.at) \/ (marker.given # {} /\ marker.children # Kids(marker.at))
    /\ phase' = "begin"
    /\ marker' = NoMarker
    /\ UNCHANGED <<storeVars, anchor, view>>

\* The marker of the next page; its call asks for the plan anew.
Turned(c, given, children) ==
    [NoMarker EXCEPT !.plan = marker.plan, !.at = c, !.given = given, !.children = children]

ReadPage ==
    /\ phase = "read"
    /\ Present(marker.at)
    /\ marker.given = {} \/ marker.children = Kids(marker.at)
    /\ view' = [e \in Entries |-> IF e \in Chunk THEN entry[e] ELSE view[e]]
    /\ LET ahead == {c \in marker.plan : c < marker.at}
       IN  \/ /\ marker.given \cup Chunk # Kids(marker.at)
              /\ marker' = Turned(marker.at, marker.given \cup Chunk, Kids(marker.at))
              /\ phase' = "plan"
           \/ /\ marker.given \cup Chunk = Kids(marker.at)
              /\ \E c \in ahead :
                    /\ \A d \in ahead : d <= c
                    /\ marker' = Turned(c, {}, {})
              /\ phase' = "plan"
           \/ /\ marker.given \cup Chunk = Kids(marker.at)
              /\ ahead = {}
              /\ marker' = NoMarker
              /\ phase' = "changes"
    /\ UNCHANGED <<storeVars, anchor>>

\* changes_since answers an anchor within the journal.
Answerable == lower <= anchor /\ anchor <= last

\* AnchorExpired: the platform enumerates afresh.
AnchorExpired ==
    /\ phase = "changes"
    /\ ~Answerable
    /\ phase' = "begin"
    /\ UNCHANGED <<storeVars, anchor, view, marker>>

\* read_change: a page of changes, collapsed per entry to the latest.
ReadChange ==
    /\ phase = "changes"
    /\ Answerable
    /\ anchor < last
    /\ LET until == IF anchor + PageMax < last THEN anchor + PageMax ELSE last
           rows(e) == {s \in DOMAIN journal : anchor < s /\ s <= until /\ journal[s].entry = e}
       IN  /\ anchor' = until
           /\ view' = [e \in Entries |->
                        IF rows(e) = {} THEN view[e]
                        ELSE journal[CHOOSE s \in rows(e) : \A t \in rows(e) : t <= s].after]
    /\ UNCHANGED <<storeVars, phase, marker>>

-----------------------------------------------------------------------------
StoreWrites ==
    \/ \E c \in Containers : \E listing \in Listings(c) : ReplaceContainer(c, listing)
    \/ \E d \in Documents : RemoveDocumentEverywhere(d) \/ TombstoneLapses(d)
    \/ EmptyNamespace

PlatformFollows ==
    \/ TakeAnchor
    \/ \E c \in Containers : AskFolders(c)
    \/ ComputePlan \/ ReadExpired \/ ReadPage
    \/ AnchorExpired \/ ReadChange

Next == StoreWrites \/ PlatformFollows

Spec == Init /\ [][Next]_vars

\* The system keeps asking as long as there is something to ask for.
FairSpec == Spec /\ WF_vars(PlatformFollows)

-----------------------------------------------------------------------------
(* Properties *)

\* changes_since never meets a gap: the journal holds exactly what lies
\* between its bounds, and never more than it may.
JournalComplete ==
    /\ DOMAIN journal = lower + 1 .. last
    /\ last - lower <= JournalMax

\* No entry without its folder, and no state of a container that is gone: one
\* that comes back would appear fetched, and empty (replace_container).
NoOrphans ==
    /\ \A e \in Entries : Present(e) => Present(Parent[e])
    /\ \A c \in fetched : Present(c)

\* While a tombstone is in effect, neither the table nor the journal holds the
\* document's name (remove_document_everywhere, redact_journal).
ErasedNameless ==
    \A d \in erased :
        /\ \A e \in Entries : DocOf[e] = d => entry[e] = Absent
        /\ \A s \in DOMAIN journal : DocOf[journal[s].entry] = d => ~journal[s].named

\* In the journal a folder's removal comes after those of everything below it:
\* the platform never touches a child of a folder already removed.
ChildrenLeaveFirst ==
    \A s, t \in DOMAIN journal :
        (s < t /\ journal[s].after = Absent /\ journal[s].entry \in Above(journal[t].entry))
            => \E u \in s + 1 .. t - 1 : /\ journal[u].entry = journal[s].entry
                                         /\ journal[u].after # Absent

\* What the journal still has to tell about e ends in what the store holds;
\* and if it has nothing to tell, the platform already shows it.
CatchesUp(e) ==
    \/ /\ \A s \in anchor + 1 .. last : journal[s].entry # e
       /\ view[e] = entry[e]
    \/ \E s \in anchor + 1 .. last :
        /\ journal[s].entry = e /\ journal[s].after = entry[e]
        /\ \A t \in s + 1 .. last : journal[t].entry # e

\* The last row about an entry tells what the store holds of it.
RowsTell ==
    \A e \in Entries :
        \/ \A s \in DOMAIN journal : journal[s].entry # e
        \/ \E s \in DOMAIN journal :
            /\ journal[s].entry = e /\ journal[s].after = entry[e]
            /\ \A t \in DOMAIN journal : t > s => journal[t].entry # e

\* What the enumeration has still ahead of it.
Unread(e) ==
    /\ Parent[e] <= marker.at
    /\ e \notin marker.given
    /\ phase = "read" => Parent[e] \in marker.plan
    /\ phase = "plan" => \/ Parent[e] \in marker.found
                         \/ (Above(e) \cup {Root}) \cap marker.open # {}

\* What a running enumeration has read is caught up with later, and what it
\* has not read is not shown yet.
EnumerationIsTrue ==
    (phase \in {"plan", "read"} /\ lower <= anchor) =>
        \A e \in Entries : CatchesUp(e) \/ (view[e] = Absent /\ Unread(e))

\* Whatever the store went through between its pages: a platform whose anchor
\* is answered ends up with exactly the store's entries (changes_since).
AnsweredAnchorIsTrue ==
    (phase = "changes" /\ Answerable) => \A e \in Entries : CatchesUp(e)

\* The inductive invariant: everything above together.
NamespaceInv ==
    /\ TypeOK
    /\ JournalComplete
    /\ NoOrphans
    /\ ErasedNameless
    /\ RowsTell
    /\ ChildrenLeaveFirst
    /\ anchor <= last
    /\ EnumerationIsTrue
    /\ AnsweredAnchorIsTrue

\* A folder that has disappeared means "listing changed", never that the working
\* set does not exist (in_the_working_set_a_vanished_folder_means_enumerate_afresh).
VanishedMeansAfresh == phase # "gone"

\* When the store rests, the platform shows what it holds.
EventuallyShown == <>[](view = entry)
=============================================================================
