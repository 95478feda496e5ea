------------------------------ MODULE Reconcile ------------------------------
(***************************************************************************)
(* The reconcile: who fetches which listing when, and what an answer that  *)
(* was asked for earlier does to the store.                                *)
(*                                                                         *)
(* A run is the beat (everything once, from top to bottom) or a pull-up    *)
(* (one container: an opened folder, a delivered order, a stale listing).  *)
(* Runs work side by side; no lock is held while the server is awaited. A  *)
(* listing is fetched page by page, and every page is awaited.             *)
(*                                                                         *)
(* Abstracted: an etag is the listing it names; a listing is the set of    *)
(* its entries, in their order; the server chooses where a page ends, and  *)
(* the limit of a hundred pages is left out; tombstones and the journal    *)
(* are those of Namespace; the staggering and the gate for four downloads  *)
(* only restrict the order; `connected` is left out.                       *)
(***************************************************************************)
EXTENDS Integers, FiniteSets

CONSTANTS
    Size,          \* the entries are 1..Size, a child before its container
    Parent,        \* the container an entry stands in
    Folders,       \* the entries that are containers
    Users,
    NoUser,
    NoEtag,
    Unchanged,     \* the answer 304
    Beats,         \* the runs that reconcile everything
    PullUps,       \* the runs that reconcile one container
    MaxChanges,    \* bound on the changes at the server
    MaxFailures,   \* bound on the requests that fail
    MaxSessions    \* bound on sign-ins and sign-outs

Entries == 1 .. Size
Root == Size + 1
Containers == Folders \cup {Root}
Runs == Beats \cup PullUps

ASSUME ReconcileAssumption ==
    /\ Size \in Nat
    /\ Folders \subseteq Entries
    /\ Parent \in [1 .. Root -> Containers]
    /\ Parent[Root] = Root
    /\ \A e \in Entries : Parent[e] > e
    /\ \A e \in Entries : Parent[e] = Root => e \in Folders
    /\ \A e \in Entries : Parent[Parent[Parent[Parent[e]]]] = Root
    /\ NoUser \notin Users
    /\ \A list \in SUBSET Entries : list # NoEtag /\ list # Unchanged
    /\ Beats \cap PullUps = {}
    /\ {MaxChanges, MaxFailures, MaxSessions} \subseteq Nat

VARIABLES
    (* the store *)
    listing,   \* what the table `entry` holds of a container
    fetched,   \* the containers with a row in `container_state`
    etag,      \* the etag in that row
    owner,     \* whose listing it is (not in the code)
    (* the session and the server *)
    user,
    offers,    \* the listings the server holds
    (* the runs *)
    phase,     \* of a run: idle, one container in turn, all together
    due,       \* of a run: the containers still to do
    task,      \* of a run and a container: where the fetch stands
    (* not in the code: the containers two fetches of which overlapped, and *)
    (* those whose stored listing the server changed between its pages       *)
    crossed, mixed,
    (* the bounds *)
    changes, failures, sessions

storeVars == <<listing, fetched, etag, owner>>
runVars == <<phase, due, task, crossed, mixed>>
boundVars == <<changes, failures, sessions>>
vars == <<storeVars, user, offers, runVars, boundVars>>

KidsOf(c) == {e \in Entries : Parent[e] = c}
Tops == KidsOf(Root)
Line(c) == {c, Parent[c], Parent[Parent[c]], Parent[Parent[Parent[c]]]}
Below(c) == {b \in Containers \ {c} : c \in Line(b)}

Etags == (SUBSET Entries) \cup {NoEtag}

\* A fetch: the etag it was asked with, the pages so far and the etag of the
\* first, how far they reach; whether the server changed since the first.
Task == [at : {"none", "ready", "asked", "paging", "answered"},
         sent : Etags, by : Users \cup {NoUser},
         reply : (SUBSET Entries) \cup {Unchanged}, tag : Etags, upTo : 0 .. Size,
         torn : BOOLEAN]
NoTask == [at |-> "none", sent |-> NoEtag, by |-> NoUser, reply |-> {}, tag |-> NoEtag,
           upTo |-> 0, torn |-> FALSE]

TypeOK ==
    /\ listing \in [Containers -> SUBSET Entries]
    /\ \A c \in Containers : listing[c] \subseteq KidsOf(c)
    /\ fetched \subseteq Containers
    /\ etag \in [Containers -> Etags]
    /\ \A c \in Containers \ fetched : listing[c] = {} /\ etag[c] = NoEtag
    /\ owner \in [Containers -> Users \cup {NoUser}]
    /\ user \in Users \cup {NoUser}
    /\ offers \in [Containers -> SUBSET Entries]
    /\ phase \in [Runs -> {"idle", "inTurn", "together"}]
    /\ due \in [Runs -> SUBSET Containers]
    /\ task \in [Runs -> [Containers -> Task]]
    /\ crossed \subseteq Containers /\ mixed \subseteq Containers

\* The device starts signed in, with nothing fetched yet.
Init ==
    /\ listing = [c \in Containers |-> {}]
    /\ fetched = {}
    /\ etag = [c \in Containers |-> NoEtag]
    /\ owner = [c \in Containers |-> NoUser]
    /\ user \in Users
    /\ offers = [c \in Containers |-> KidsOf(c)]
    /\ phase = [r \in Runs |-> "idle"]
    /\ due = [r \in Runs |-> {}]
    /\ task = [r \in Runs |-> [c \in Containers |-> NoTask]]
    /\ crossed = {} /\ mixed = {}
    /\ changes = 0 /\ failures = 0 /\ sessions = 0

-----------------------------------------------------------------------------
(* The store *)

Known(c) == c = Root \/ c \in listing[Parent[c]]

OnItsWay(r, c) == task[r][c].at \in {"asked", "paging", "answered"}
UnderWay(c, r) == \E q \in Runs \ {r} : OnItsWay(q, c)
AnyUnderWay(c) == \E q \in Runs : OnItsWay(q, c)

\* What goes with the containers in gone: their children and their states.
Without(gone, list) == [c \in Containers |-> IF c \in gone THEN {} ELSE list[c]]

\* The containers that go when c's children become new (remove_descendant).
Gone(c, new) == UNION {{b} \cup Below(b) : b \in (listing[c] \ new) \cap Folders}

\* replace_container with the state of this fetch.
Replace(r, c, new, tag, by) ==
    LET gone == Gone(c, new)
    IN  /\ listing' = Without(gone, [listing EXCEPT ![c] = new])
        /\ fetched' = (fetched \cup {c}) \ gone
        /\ etag' = [b \in Containers |->
                        IF b \in gone THEN NoEtag ELSE IF b = c THEN tag ELSE etag[b]]
        /\ owner' = [b \in Containers |->
                        IF b \in gone THEN NoUser ELSE IF b = c THEN by ELSE owner[b]]
        /\ crossed' = (crossed \ {b \in gone \cup {c} : ~UnderWay(b, r)})
                        \cup {b \in gone : AnyUnderWay(b)}
        /\ mixed' = (mixed \ (gone \cup {c})) \cup (IF task[r][c].torn THEN {c} ELSE {})

-----------------------------------------------------------------------------
(* The runs *)

NoneDue(r) == due[r] = {}
Working(r) == \E c \in Containers : task[r][c].at # "none"

\* reconcile_everything: first the root, then what stands directly below it.
BeatBegins(r) ==
    /\ phase[r] = "idle"
    /\ phase' = [phase EXCEPT ![r] = "inTurn"]
    /\ due' = [due EXCEPT ![r] = {Root} \cup Tops]
    /\ UNCHANGED <<storeVars, user, offers, task, crossed, mixed, boundVars>>

\* Mutant: without descending.
AlreadyFetchedTops == fetched \cap Tops

\* already_fetched: what hangs in a fetched container and was fetched itself.
AlreadyFetched == {c \in fetched \ ({Root} \cup Tops) : Known(c)}

BeatGoesOn(r) ==
    /\ phase[r] = "inTurn"
    /\ NoneDue(r)
    /\ phase' = [phase EXCEPT ![r] = "together"]
    /\ due' = [due EXCEPT ![r] = AlreadyFetched]
    /\ UNCHANGED <<storeVars, user, offers, task, crossed, mixed, boundVars>>

RunEnds(r) ==
    /\ NoneDue(r)
    /\ phase[r] = IF r \in Beats THEN "together" ELSE "inTurn"
    /\ phase' = [phase EXCEPT ![r] = "idle"]
    /\ UNCHANGED <<storeVars, user, offers, due, task, crossed, mixed, boundVars>>

\* reconcile_container, called for one container.
PullUp(r, c) ==
    /\ phase[r] = "idle"
    /\ phase' = [phase EXCEPT ![r] = "inTurn"]
    /\ due' = [due EXCEPT ![r] = {c}]
    /\ UNCHANGED <<storeVars, user, offers, task, crossed, mixed, boundVars>>

\* fetch_if_needed: c and the containers above it without a state.
Open(r, c) ==
    /\ phase[r] = "idle"
    /\ c \notin fetched
    /\ phase' = [phase EXCEPT ![r] = "inTurn"]
    /\ due' = [due EXCEPT ![r] =
                {a \in Line(c) : \A b \in Line(c) : b <= a => b \notin fetched}]
    /\ UNCHANGED <<storeVars, user, offers, task, crossed, mixed, boundVars>>

\* The fetch of c is done; a run that only wanted c, and failed, ends.
Finished(r, c) ==
    /\ task' = [task EXCEPT ![r][c] = NoTask]
    /\ due' = [due EXCEPT ![r] = @ \ {c}]
Failed(r, c) ==
    /\ task' = [task EXCEPT ![r][c] = NoTask]
    /\ due' = [due EXCEPT ![r] = IF r \in Beats THEN @ \ {c} ELSE {}]

InTurn(r, c) ==
    phase[r] = "inTurn" => ~Working(r) /\ \A a \in Line(c) \ {c} : a \notin due[r]

\* ensure_for_token: somebody is signed in.
Begin(r, c) ==
    /\ c \in due[r]
    /\ task[r][c].at = "none"
    /\ InTurn(r, c)
    /\ user # NoUser
    /\ task' = [task EXCEPT ![r][c].at = "ready"]
    /\ UNCHANGED <<storeVars, user, offers, phase, due, crossed, mixed, boundVars>>

\* Nobody is signed in: nothing is asked; the beat ends before its root.
NobodySignedIn(r, c) ==
    /\ c \in due[r]
    /\ task[r][c].at = "none"
    /\ InTurn(r, c)
    /\ user = NoUser
    /\ due' = [due EXCEPT ![r] = IF c = Root THEN {} ELSE @ \ {c}]
    /\ UNCHANGED <<storeVars, user, offers, phase, task, crossed, mixed, boundVars>>

\* The root is fixed and needs no server.
AdoptRoot(r) ==
    /\ task[r][Root].at = "ready"
    /\ Replace(r, Root, Tops, NoEtag, NoUser)
    /\ Finished(r, Root)
    /\ UNCHANGED <<user, offers, phase, boundVars>>

\* fetch_and_adopt reads the etag and asks under the token at hand.
Ask(r, c) ==
    /\ task[r][c].at = "ready"
    /\ c # Root
    /\ user # NoUser
    /\ task' = [task EXCEPT ![r][c] = [NoTask EXCEPT !.at = "asked", !.sent = etag[c],
                                                     !.by = user]]
    /\ crossed' = IF AnyUnderWay(c) THEN crossed \cup {c} ELSE crossed
    /\ UNCHANGED <<storeVars, user, offers, phase, due, mixed, boundVars>>

\* Signed out in between: the request, or that for the next page, carries no
\* token.
AskWithoutToken(r, c) ==
    /\ task[r][c].at \in {"ready", "paging"}
    /\ c # Root
    /\ user = NoUser
    /\ Failed(r, c)
    /\ UNCHANGED <<storeVars, user, offers, phase, crossed, mixed, boundVars>>

\* A page: what the listing holds behind the cursor and up to where the page ends.
Beyond(from, to, list) == {e \in list : from < e /\ e <= to}

\* The server answers with a page of what it holds now; it is the last one if
\* nothing is left behind it. The first one brings the etag.
PageRead(t, to, listed) ==
    [t EXCEPT !.at = IF \E e \in listed : e > to THEN "paging" ELSE "answered",
              !.reply = @ \cup Beyond(t.upTo, to, listed),
              !.tag = IF t.at = "asked" THEN listed ELSE @,
              !.upTo = to]

Page(r, c, to) ==
    /\ task[r][c].upTo <= to
    /\ task' = [task EXCEPT ![r][c] = PageRead(@, to, offers[c])]
    /\ UNCHANGED <<storeVars, user, offers, phase, due, crossed, mixed, boundVars>>

\* 304, or the first page.
Serve(r, c) ==
    /\ task[r][c].at = "asked"
    /\ IF task[r][c].sent = offers[c]
       THEN /\ task' = [task EXCEPT ![r][c].at = "answered", ![r][c].reply = Unchanged]
            /\ UNCHANGED <<storeVars, user, offers, phase, due, crossed, mixed, boundVars>>
       ELSE \E to \in offers[c] \cup {Size} : Page(r, c, to)

\* Any further page is asked for without an etag.
ServeMore(r, c) ==
    /\ task[r][c].at = "paging"
    /\ user # NoUser
    /\ \E to \in offers[c] \cup {Size} : task[r][c].upTo < to /\ Page(r, c, to)

\* No answer, or a refusal.
Fail(r, c) ==
    /\ task[r][c].at \in {"asked", "paging"}
    /\ failures < MaxFailures
    /\ failures' = failures + 1
    /\ Failed(r, c)
    /\ UNCHANGED <<storeVars, user, offers, phase, crossed, mixed, changes, sessions>>

\* 401: renew the token and ask once more.
AskOnceMore(r, c) ==
    /\ task[r][c].at \in {"asked", "paging"}
    /\ failures < MaxFailures
    /\ failures' = failures + 1
    /\ IF user = NoUser
       THEN Finished(r, c)
       ELSE task' = [task EXCEPT ![r][c] = [NoTask EXCEPT !.at = "ready"]] /\ UNCHANGED due
    /\ UNCHANGED <<storeVars, user, offers, phase, crossed, mixed, changes, sessions>>

\* Mutant: the etag that is current when the answer arrives.
EtagOfAnswerLate(r, c) == offers[c]

\* The etag that came with the first page.
EtagOfAnswer(r, c) == task[r][c].tag

\* adopt, after a 200.
Adopt(r, c) ==
    /\ task[r][c].at = "answered"
    /\ task[r][c].reply # Unchanged
    /\ Known(c)
    /\ Replace(r, c, task[r][c].reply, EtagOfAnswer(r, c), task[r][c].by)
    /\ Finished(r, c)
    /\ UNCHANGED <<user, offers, phase, boundVars>>

\* unchanged, after a 304: only the state is written, with the etag of the
\* answer or, if it carries none, with the stored one.
Confirm(r, c) ==
    /\ task[r][c].at = "answered"
    /\ task[r][c].reply = Unchanged
    /\ Known(c)
    /\ \E carried \in BOOLEAN :
        etag' = IF carried THEN [etag EXCEPT ![c] = task[r][c].sent] ELSE etag
    /\ fetched' = fetched \cup {c}
    /\ Finished(r, c)
    /\ UNCHANGED <<listing, owner, user, offers, phase, crossed, mixed, boundVars>>

\* ContainerUnknown: c is no longer in its parent's listing.
AdoptUnknown(r, c) ==
    /\ task[r][c].at = "answered"
    /\ ~Known(c)
    /\ Failed(r, c)
    /\ UNCHANGED <<storeVars, user, offers, phase, crossed, mixed, boundVars>>

-----------------------------------------------------------------------------
(* The environment *)

ServerChanges(c) ==
    /\ changes < MaxChanges
    /\ changes' = changes + 1
    /\ \E new \in SUBSET KidsOf(c) \ {offers[c]} : offers' = [offers EXCEPT ![c] = new]
    /\ task' = [r \in Runs |-> [task[r] EXCEPT ![c].torn = @ \/ task[r][c].at = "paging"]]
    /\ UNCHANGED <<storeVars, user, phase, due, crossed, mixed, failures, sessions>>

\* empty_namespace and the session row, under one lock.
SignOut ==
    /\ user # NoUser
    /\ sessions < MaxSessions
    /\ sessions' = sessions + 1
    /\ user' = NoUser
    /\ listing' = [c \in Containers |-> {}]
    /\ fetched' = {}
    /\ etag' = [c \in Containers |-> NoEtag]
    /\ owner' = [c \in Containers |-> NoUser]
    /\ crossed' = {c \in Containers : AnyUnderWay(c)} /\ mixed' = {}
    /\ UNCHANGED <<offers, phase, due, task, changes, failures>>

SignIn ==
    /\ user = NoUser
    /\ user' \in Users
    /\ UNCHANGED <<storeVars, offers, runVars, boundVars>>

-----------------------------------------------------------------------------
Fetches(r, c) ==
    \/ Begin(r, c) \/ NobodySignedIn(r, c) \/ Ask(r, c) \/ AskWithoutToken(r, c)
    \/ Serve(r, c) \/ ServeMore(r, c) \/ Adopt(r, c) \/ Confirm(r, c) \/ AdoptUnknown(r, c)

Proceeds(r) ==
    \/ r \in Beats /\ (BeatBegins(r) \/ BeatGoesOn(r))
    \/ RunEnds(r)
    \/ AdoptRoot(r)
    \/ \E c \in Containers : Fetches(r, c)

Environment ==
    \/ \E r \in PullUps, c \in Containers : PullUp(r, c) \/ Open(r, c)
    \/ \E r \in Runs, c \in Containers : Fail(r, c) \/ AskOnceMore(r, c)
    \/ \E c \in Folders : ServerChanges(c)
    \/ SignOut
    \/ SignIn

Next == (\E r \in Runs : Proceeds(r)) \/ Environment

Spec == Init /\ [][Next]_vars

\* The beat ticks and every task on the runtime gets its turn; a request that
\* does not fail is answered. Nobody has to open a folder or to sign in.
FairSpec == Spec /\ \A r \in Runs : WF_vars(Proceeds(r))

-----------------------------------------------------------------------------
(* Properties *)

\* As long as no two fetches of a container overlapped, and the server did not
\* change its listing between two pages, its stored etag names its stored
\* listing, however many pages that had: only then is a later 304 a
\* confirmation of what is stored (all_pages, update_container_state).
EtagNamesListing ==
    \A c \in fetched \ (crossed \cup mixed) : etag[c] # NoEtag => listing[c] = etag[c]

\* A container without an entry in its parent's listing has neither children
\* nor a state, whichever answers arrive after it has gone (replace_container).
NothingWithoutParent ==
    \A c \in Containers : ~Known(c) => c \notin fetched /\ listing[c] = {}

\* What holds of the store itself: its types, no container without a place, and
\* no etag beside a listing it does not name.
ReconcileInv == TypeOK /\ NothingWithoutParent /\ EtagNamesListing

\* When the server rests, the store of somebody signed in ends up with what it
\* offers, in every container that has been fetched once: also after a listing
\* that changed between its pages, unless the server came back to the one its
\* first page was of (reconcile_everything, all_pages).
EventuallyCurrent ==
    <>[](user # NoUser =>
            /\ Tops \subseteq fetched
            /\ \A c \in fetched \ (crossed \cup {Root}) :
                   listing[c] = offers[c] \/ (c \in mixed /\ etag[c] = offers[c]))

\* "the listing is the same, but it has now been confirmed": a stored etag
\* names the stored listing (update_container_state).
ConfirmedIsSame ==
    \A c \in fetched : etag[c] # NoEtag => listing[c] = etag[c]

\* "no name of the old user stands on the disk any more" (sign_out).
NoOldName == \A c \in Containers : owner[c] \in {user, NoUser}
=============================================================================
