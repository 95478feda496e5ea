-------------------------- MODULE ReconcileProofs --------------------------
(***************************************************************************)
(* Reconcile for any tree of four levels, any users, any number of beats   *)
(* and pull-ups, and any number of changes, failures and sign-outs.        *)
(***************************************************************************)
EXTENDS Reconcile, TLAPS

\* What is not crossed is asked for by one run, whose If-None-Match is stored.
OneAtATime ==
  \A c \in Containers \ crossed : \A q, r \in Runs : OnItsWay(q, c) /\ OnItsWay(r, c) => q = r
SentIsStored ==
  \A c \in Containers \ crossed : \A r \in Runs : OnItsWay(r, c) => task[r][c].sent = etag[c]

\* Nobody asks the server for the root.
RootStaysHome == \A r \in Runs : ~OnItsWay(r, Root)

\* What may be answered: the children of a container, or a 304 to who has an etag;
\* an answer whose pages are of one listing is that of its etag.
Fitting(t, c) ==
  /\ t.reply = Unchanged => t.sent # NoEtag
  /\ t.reply # Unchanged => t.reply \subseteq KidsOf(c)
  /\ t.at = "asked" => t.reply = {} /\ t.upTo = 0 /\ ~t.torn
  /\ t.at = "paging" => t.reply # Unchanged
  /\ t.at = "answered" /\ t.reply # Unchanged /\ ~t.torn => t.reply = t.tag
RepliesFit == \A r \in Runs, c \in Containers : Fitting(task[r][c], c)

\* While the pages come, they are those of the listing the server still holds.
Paged(t, list) ==
  t.at = "paging" /\ ~t.torn => t.tag = list /\ t.reply = Beyond(0, t.upTo, list)
PagesTrue == \A r \in Runs, c \in Containers : Paged(task[r][c], offers[c])
OffersFit == \A c \in Containers : offers[c] \subseteq KidsOf(c)

StoreTypes ==
  /\ listing \in [Containers -> SUBSET Entries]
  /\ \A c \in Containers : listing[c] \subseteq KidsOf(c)
  /\ fetched \subseteq Containers
  /\ etag \in [Containers -> Etags]
  /\ \A c \in Containers \ fetched : listing[c] = {} /\ etag[c] = NoEtag
  /\ owner \in [Containers -> Users \cup {NoUser}]
OtherTypes ==
  /\ user \in Users \cup {NoUser}
  /\ offers \in [Containers -> SUBSET Entries]
  /\ phase \in [Runs -> {"idle", "inTurn", "together"}]
  /\ due \in [Runs -> SUBSET Containers]
TaskTypes == task \in [Runs -> [Containers -> Task]]
GhostTypes == crossed \subseteq Containers /\ mixed \subseteq Containers
Types == StoreTypes /\ OtherTypes /\ TaskTypes /\ GhostTypes

StoreInv == StoreTypes /\ NothingWithoutParent /\ EtagNamesListing
FetchInv == OneAtATime /\ SentIsStored /\ RootStaysHome /\ RepliesFit /\ PagesTrue

ListingInv == Types /\ NothingWithoutParent /\ EtagNamesListing /\ FetchInv /\ OffersFit

-----------------------------------------------------------------------------
(* The tree *)

\* The type invariant is the named parts the lemmas below keep apart.
LEMMA TypesAre == TypeOK <=> Types
BY DEF TypeOK, Types, StoreTypes, OtherTypes, TaskTypes, GhostTypes

\* Every container stands in one, and above itself (resource.parent).
LEMMA Tree ==
  /\ Root \in Containers /\ Root \notin Entries /\ Folders \subseteq Entries
  /\ Parent[Root] = Root
  /\ \A c \in Containers : Parent[c] \in Containers
  /\ \A e \in Entries : Parent[e] \in Containers
  /\ \A e \in Entries : Parent[e] > e /\ e \in Int
  /\ \A c \in Containers : c \in Int /\ (c # Root => c \in Entries)
  /\ \A c \in Containers : Parent[c] >= c /\ Line(c) \subseteq Containers
<1>1. Size \in Nat /\ Folders \subseteq 1 .. Size /\ Parent \in [1 .. Size + 1 -> Containers]
  BY ReconcileAssumption DEF Entries, Root
<1>2. /\ Root \in Containers /\ Root \notin Entries /\ Folders \subseteq Entries
      /\ Parent[Root] = Root
      /\ \A c \in Containers : c \in Int /\ (c # Root => c \in Entries) /\ c \in 1 .. Size + 1
  BY <1>1, ReconcileAssumption DEF Entries, Root, Containers
<1>3. \A c \in Containers : Parent[c] \in Containers
  BY <1>1, <1>2
<1>4. \A e \in Entries : Parent[e] > e /\ e \in Int /\ Parent[e] \in Containers
  BY <1>1, ReconcileAssumption DEF Entries
<1>5. \A c \in Containers : Parent[c] >= c
  BY <1>2, <1>4
<1>. QED
  BY <1>2, <1>3, <1>4, <1>5 DEF Line

\* Above a container stands nothing smaller, and whoever is below a folder's
\* child is below the folder.
LEMMA Upwards ==
  ASSUME NEW c \in Containers, NEW b \in Containers
  PROVE  /\ b \in Line(c) => b >= c
         /\ Parent[c] \in Line(c)
         /\ b # Root /\ b \in Line(Parent[c]) => b \in Line(c)
<1>1. /\ Parent[c] \in Containers /\ Parent[Parent[c]] \in Containers
      /\ Parent[Parent[Parent[c]]] \in Containers
  BY Tree
<1>2. c \in Int /\ Parent[c] \in Int /\ Parent[Parent[c]] \in Int /\ Parent[Parent[Parent[c]]] \in Int
  BY <1>1, Tree
<1>3. Parent[c] >= c /\ Parent[Parent[c]] >= Parent[c] /\ Parent[Parent[Parent[c]]] >= Parent[Parent[c]]
  BY <1>1, Tree
<1>4. b \in Line(c) => b >= c
  BY <1>2, <1>3 DEF Line
<1>5. Parent[Parent[Parent[Parent[c]]]] = Root
  <2>1. CASE c = Root
    BY <2>1, Tree
  <2>2. CASE c # Root
    BY <2>2, Tree, ReconcileAssumption
  <2>. QED
    BY <2>1, <2>2
<1>. QED
  BY <1>4, <1>5 DEF Line

\* remove_descendant: what goes when c's children change lies below c, and goes
\* with all that is below it.
LEMMA GoneBelow ==
  ASSUME StoreTypes, NEW c \in Containers, NEW new
  PROVE  /\ Gone(c, new) \subseteq Containers
         /\ Root \notin Gone(c, new)
         /\ c \notin Gone(c, new) /\ Parent[c] \notin Gone(c, new)
         /\ \A b \in Folders : b \in listing[c] \ new => b \in Gone(c, new)
         /\ \A b \in Containers \ {Root} : Parent[b] \in Gone(c, new) => b \in Gone(c, new)
<1> DEFINE top == (listing[c] \ new) \cap Folders
<1>1. \A e \in top : e \in Containers /\ e \in Entries /\ Parent[e] = c /\ e < c /\ e # Root
  BY Tree DEF StoreTypes, KidsOf, Containers
<1>2. \A b : b \in Gone(c, new) <=> \E e \in top : b \in {e} \cup Below(e)
  BY DEF Gone
<1>3. \A e \in top : \A b \in Below(e) : b \in Containers /\ e \in Line(b)
  BY DEF Below
<1>4. \A b \in Gone(c, new) : b \in Containers /\ \E e \in top : e \in Line(b)
  BY <1>1, <1>2, <1>3 DEF Line
<1>5. \A b \in Gone(c, new) : b \in Int /\ b < c
  BY <1>1, <1>4, Tree, Upwards
<1>6. Parent[c] >= c /\ Root >= c /\ c \in Int /\ Parent[c] \in Int /\ Root \in Int
  <2>1. Root >= c
    BY Tree, ReconcileAssumption DEF Root, Entries, Containers
  <2>. QED
    BY <2>1, Tree
<1>7. Root \notin Gone(c, new) /\ c \notin Gone(c, new) /\ Parent[c] \notin Gone(c, new)
  BY <1>5, <1>6
<1>8. ASSUME NEW b \in Containers \ {Root}, Parent[b] \in Gone(c, new)
      PROVE  b \in Gone(c, new)
  <2>1. PICK e \in top : e \in Line(Parent[b])
    BY <1>4, <1>8
  <2>2. e \in Line(b)
    BY <2>1, <1>1, Upwards
  <2>. QED
    BY <2>2, <1>1, <1>2 DEF Below
<1>. QED
  BY <1>2, <1>4, <1>7, <1>8

-----------------------------------------------------------------------------
(* The store *)

\* replace_container: whatever is replaced, no container is left without a
\* place, and the etag that is written names the listing that is written.
LEMMA ReplaceKeepsStore ==
  ASSUME StoreInv, GhostTypes,
         NEW r \in Runs, NEW c \in Containers, Known(c),
         NEW new \in SUBSET KidsOf(c), NEW tag \in Etags,
         tag # NoEtag /\ ~task[r][c].torn => tag = new,
         NEW by \in Users \cup {NoUser}, Replace(r, c, new, tag, by)
  PROVE  StoreInv' /\ GhostTypes'
<1> DEFINE gone == Gone(c, new)
<1> USE DEF StoreInv
<1>1. /\ gone \subseteq Containers /\ Root \notin gone
      /\ c \notin gone /\ Parent[c] \notin gone
      /\ \A b \in Folders : b \in listing[c] \ new => b \in gone
      /\ \A b \in Containers \ {Root} : Parent[b] \in gone => b \in gone
  BY GoneBelow
<1>2. /\ listing' = [b \in Containers |-> IF b \in gone THEN {} ELSE IF b = c THEN new ELSE listing[b]]
      /\ fetched' = (fetched \cup {c}) \ gone
      /\ etag' = [b \in Containers |-> IF b \in gone THEN NoEtag ELSE IF b = c THEN tag ELSE etag[b]]
      /\ owner' = [b \in Containers |-> IF b \in gone THEN NoUser ELSE IF b = c THEN by ELSE owner[b]]
      /\ \A b \in Containers : b \notin gone \cup {c} /\ b \in crossed => b \in crossed'
      /\ \A b \in Containers : b \notin gone \cup {c} /\ b \in mixed => b \in mixed'
      /\ task[r][c].torn => c \in mixed'
      /\ GhostTypes'
  BY <1>1 DEF Replace, Without, StoreTypes, GhostTypes
<1> HIDE DEF gone
<1>3. KidsOf(c) \subseteq Entries /\ NoEtag \in Etags
  BY DEF KidsOf, Etags
<1>4. StoreTypes'
  BY <1>1, <1>2, <1>3 DEF StoreTypes
<1>5. EtagNamesListing'
  BY <1>1, <1>2 DEF EtagNamesListing, StoreTypes
<1>6. NothingWithoutParent'
  <2> SUFFICES ASSUME NEW b \in Containers, ~Known(b)'
               PROVE  b \notin fetched' /\ listing'[b] = {}
    BY DEF NothingWithoutParent
  <2>1. b # Root /\ Parent[b] \in Containers /\ b \notin listing'[Parent[b]]
    BY Tree DEF Known
  <2>2. CASE Parent[b] \in gone
    BY <2>1, <2>2, <1>1, <1>2
  <2>3. CASE Parent[b] \notin gone /\ Parent[b] = c
    <3>1. b \notin new /\ b # c
      BY <2>1, <2>3, <1>2, Tree
    <3>2. CASE b \in listing[c]
      BY <3>1, <3>2, <2>1, <1>1, <1>2 DEF Containers
    <3>3. CASE b \notin listing[c]
      BY <3>1, <3>3, <2>1, <2>3, <1>2 DEF Known, NothingWithoutParent
    <3>. QED
      BY <3>2, <3>3
  <2>4. CASE Parent[b] \notin gone /\ Parent[b] # c
    <3>1. b \notin listing[Parent[b]]
      BY <2>1, <2>4, <1>2
    <3>2. ~Known(b) /\ b # c
      BY <3>1, <2>1 DEF Known
    <3>. QED
      BY <3>2, <1>2 DEF NothingWithoutParent
  <2>. QED
    BY <2>2, <2>3, <2>4
<1>. QED
  BY <1>2, <1>4, <1>5, <1>6

-----------------------------------------------------------------------------
(* The fetches *)

\* A step that touches one fetch leaves every other as it is.
LEMMA OneFetch ==
  ASSUME TaskTypes, NEW r \in Runs, NEW c \in Containers, NEW t \in Task,
         task' = [task EXCEPT ![r][c] = t]
  PROVE  /\ TaskTypes'
         /\ \A q \in Runs, b \in Containers :
              task'[q][b] = IF q = r /\ b = c THEN t ELSE task[q][b]
BY DEF TaskTypes

\* The fields of a fetch.
LEMMA FetchHas ==
  ASSUME TaskTypes, NEW r \in Runs, NEW c \in Containers
  PROVE  task[r][c] \in Task
BY DEF TaskTypes

\* NoTask stands for no fetch.
LEMMA NoFetch ==
  ASSUME NEW c \in Containers
  PROVE  NoTask \in Task /\ NoTask.at = "none" /\ Fitting(NoTask, c)
<1>1. {} \in SUBSET Entries /\ {} # Unchanged
  BY ReconcileAssumption
<1>. QED
  BY <1>1, ReconcileAssumption DEF NoTask, Task, Etags, Fitting

\* A fetch that ends, or has yet to ask, disturbs no other.
LEMMA FetchRests ==
  ASSUME FetchInv, TaskTypes, NEW r \in Runs, NEW c \in Containers, NEW t \in Task,
         task' = [task EXCEPT ![r][c] = t], t.at \notin {"asked", "paging", "answered"}, Fitting(t, c),
         UNCHANGED <<etag, crossed, offers>>
  PROVE  FetchInv' /\ TaskTypes'
<1>1. TaskTypes' /\ \A q \in Runs, b \in Containers :
              task'[q][b] = IF q = r /\ b = c THEN t ELSE task[q][b]
  BY OneFetch
<1>2. \A q \in Runs, b \in Containers : OnItsWay(q, b)' => OnItsWay(q, b) /\ task'[q][b] = task[q][b]
  BY <1>1 DEF OnItsWay
<1>3. OneAtATime'
  BY <1>2 DEF OneAtATime, FetchInv
<1>4. SentIsStored'
  BY <1>2 DEF SentIsStored, FetchInv
<1>5. RootStaysHome'
  BY <1>2, Tree DEF RootStaysHome, FetchInv
<1>6. RepliesFit'
  BY <1>1 DEF RepliesFit, FetchInv
<1>7. PagesTrue'
  BY <1>1 DEF PagesTrue, Paged, FetchInv
<1>. QED
  BY <1>1, <1>3, <1>4, <1>5, <1>6, <1>7 DEF FetchInv

\* replace_container: whoever asked for what is replaced or removed meanwhile
\* counts as crossed.
LEMMA ReplaceKeepsFetches ==
  ASSUME FetchInv, TaskTypes, StoreTypes, NEW r \in Runs, NEW c \in Containers,
         NEW new, NEW tag, NEW by, Replace(r, c, new, tag, by),
         OnItsWay(r, c) \/ c = Root, task' = [task EXCEPT ![r][c] = NoTask],
         UNCHANGED offers
  PROVE  FetchInv' /\ TaskTypes'
<1> DEFINE gone == Gone(c, new)
<1>0. NoTask \in Task
  BY NoFetch
<1>1. TaskTypes' /\ \A q \in Runs, b \in Containers :
              task'[q][b] = IF q = r /\ b = c THEN NoTask ELSE task[q][b]
  BY <1>0, OneFetch
<1>2. /\ \A q \in Runs, b \in Containers : OnItsWay(q, b)' => OnItsWay(q, b) /\ task'[q][b] = task[q][b]
      /\ ~OnItsWay(r, c)'
  BY <1>1, NoFetch DEF OnItsWay
<1>3. ASSUME NEW b \in Containers \ crossed', NEW q \in Runs, OnItsWay(q, b)'
      PROVE  b \notin crossed /\ b \notin gone /\ b # c
  <2>1. AnyUnderWay(b)
    BY <1>2, <1>3 DEF AnyUnderWay, OnItsWay
  <2>2. b = c => UnderWay(b, r)
    BY <1>2, <1>3 DEF UnderWay, OnItsWay
  <2>3. b \notin gone
    BY <1>3, <2>1 DEF Replace
  <2>4. b \notin crossed
    BY <1>3, <2>2, <2>3 DEF Replace
  <2>5. b # c
    <3>1. CASE b = c
      <4>1. PICK p \in Runs \ {r} : OnItsWay(p, c)
        BY <2>2, <3>1 DEF UnderWay, OnItsWay
      <4>2. OnItsWay(r, c)
        BY <4>1 DEF FetchInv, RootStaysHome
      <4>. QED
        BY <4>1, <4>2, <2>4, <3>1 DEF FetchInv, OneAtATime
    <3>. QED
      BY <3>1
  <2>. QED
    BY <2>3, <2>4, <2>5
<1>4. \A b \in Containers : b \notin gone /\ b # c => etag'[b] = etag[b]
  BY DEF Replace
<1>5. OneAtATime'
  BY <1>2, <1>3 DEF OneAtATime, FetchInv
<1>6. SentIsStored'
  BY <1>2, <1>3, <1>4 DEF SentIsStored, FetchInv
<1>7. RootStaysHome'
  BY <1>2, Tree DEF RootStaysHome, FetchInv
<1>8. RepliesFit'
  BY <1>1, NoFetch DEF RepliesFit, FetchInv
<1>9. PagesTrue'
  BY <1>1, NoFetch DEF PagesTrue, Paged, FetchInv
<1>. QED
  BY <1>1, <1>5, <1>6, <1>7, <1>8, <1>9 DEF FetchInv

-----------------------------------------------------------------------------
(* The actions *)

\* Nothing that FetchInv speaks of changes when a run begins, goes on or ends.
LEMMA FetchesUnchanged ==
  ASSUME FetchInv, UNCHANGED <<task, etag, crossed, offers>>
  PROVE  FetchInv'
BY DEF FetchInv, OneAtATime, SentIsStored, RootStaysHome, RepliesFit, PagesTrue, OnItsWay

\* The store as it was, whoever fetches.
LEMMA StoreUnchanged ==
  ASSUME StoreInv, crossed \subseteq crossed', mixed \subseteq mixed', UNCHANGED storeVars
  PROVE  StoreInv'
BY DEF StoreInv, StoreTypes, NothingWithoutParent, EtagNamesListing, Known, storeVars

\* After its sign-out the store is empty, and who has asked is crossed.
LEMMA SignOutKeeps ==
  ASSUME ListingInv, SignOut
  PROVE  ListingInv'
<1>1. StoreInv' /\ GhostTypes'
  BY DEF SignOut, GhostTypes, StoreInv, StoreTypes, NothingWithoutParent, EtagNamesListing, Etags
<1>2. OtherTypes' /\ TaskTypes' /\ OffersFit'
  BY DEF ListingInv, Types, OtherTypes, TaskTypes, SignOut, OffersFit
<1>3. \A c \in Containers \ crossed', r \in Runs : ~OnItsWay(r, c)'
  BY DEF SignOut, AnyUnderWay, OnItsWay
<1>4. OneAtATime' /\ SentIsStored'
  BY <1>3 DEF OneAtATime, SentIsStored
<1>5. RootStaysHome' /\ RepliesFit' /\ PagesTrue'
  BY DEF SignOut, RootStaysHome, RepliesFit, PagesTrue, ListingInv, FetchInv, OnItsWay
<1>. QED
  BY <1>1, <1>2, <1>4, <1>5 DEF ListingInv, StoreInv, Types, FetchInv

\* A run begins, goes on or ends, without touching store or fetches.
LEMMA RunsKeep ==
  ASSUME ListingInv, NEW r \in Runs, NEW c \in Containers,
         BeatBegins(r) \/ BeatGoesOn(r) \/ RunEnds(r) \/ PullUp(r, c) \/ Open(r, c)
           \/ NobodySignedIn(r, c)
  PROVE  ListingInv'
<1>1. /\ UNCHANGED <<storeVars, user, offers, task, crossed, mixed>>
      /\ phase' \in [Runs -> {"idle", "inTurn", "together"}]
  BY DEF BeatBegins, BeatGoesOn, RunEnds, PullUp, Open, NobodySignedIn, ListingInv, Types, OtherTypes
<1>2. due' \in [Runs -> SUBSET Containers]
  <2>1. {Root} \cup Tops \subseteq Containers /\ AlreadyFetched \subseteq Containers
    BY Tree, ReconcileAssumption DEF Containers, AlreadyFetched, ListingInv, Types, StoreTypes, Tops, KidsOf
  <2>. QED
    BY <2>1, Tree DEF BeatBegins, BeatGoesOn, RunEnds, PullUp, Open, NobodySignedIn, ListingInv,
                      Types, OtherTypes
<1>3. StoreInv' /\ FetchInv'
  BY <1>1, StoreUnchanged, FetchesUnchanged DEF ListingInv, Types, StoreInv, storeVars
<1>. QED
  BY <1>1, <1>2, <1>3 DEF ListingInv, StoreInv, Types, OtherTypes, TaskTypes, OffersFit, GhostTypes

\* A fetch that begins, is given up or asks once more leaves the store alone.
LEMMA GivingUpKeeps ==
  ASSUME ListingInv, NEW r \in Runs, NEW c \in Containers,
         Begin(r, c) \/ AskWithoutToken(r, c) \/ Fail(r, c) \/ AskOnceMore(r, c)
           \/ AdoptUnknown(r, c)
  PROVE  ListingInv'
<1> DEFINE ready == [NoTask EXCEPT !.at = "ready"]
           begun == [task[r][c] EXCEPT !.at = "ready"]
<1>1. NoTask \in Task /\ NoTask.at = "none" /\ Fitting(NoTask, c) /\ task[r][c] \in Task
      /\ Fitting(task[r][c], c)
  BY NoFetch, FetchHas DEF ListingInv, Types, FetchInv, RepliesFit
<1>2. /\ ready \in Task /\ ready.at = "ready" /\ Fitting(ready, c)
      /\ begun \in Task /\ begun.at = "ready" /\ Fitting(begun, c)
  BY <1>1 DEF Task, Fitting
<1>3. PICK t \in {NoTask, ready, begun} : task' = [task EXCEPT ![r][c] = t]
  BY DEF Begin, AskWithoutToken, Fail, AskOnceMore, AdoptUnknown, Finished, Failed
<1>4. t \in Task /\ t.at \notin {"asked", "paging", "answered"} /\ Fitting(t, c)
  BY <1>1, <1>2
<1>5. UNCHANGED <<storeVars, user, offers, phase, crossed, mixed>>
  BY DEF Begin, AskWithoutToken, Fail, AskOnceMore, AdoptUnknown
<1>6. FetchInv' /\ TaskTypes'
  BY <1>3, <1>4, <1>5, FetchRests DEF ListingInv, Types, storeVars
<1>7. due' \in [Runs -> SUBSET Containers]
  BY DEF Begin, AskWithoutToken, Fail, AskOnceMore, AdoptUnknown, Finished, Failed, ListingInv,
         Types, OtherTypes
<1>8. StoreInv'
  BY <1>5, StoreUnchanged DEF ListingInv, Types, StoreInv
<1>. QED
  BY <1>5, <1>6, <1>7, <1>8 DEF ListingInv, StoreInv, Types, OtherTypes, OffersFit, GhostTypes

\* fetch_and_adopt: whoever asks while another is on its way counts as crossed.
LEMMA AskKeeps ==
  ASSUME ListingInv, NEW r \in Runs, NEW c \in Containers, Ask(r, c)
  PROVE  ListingInv'
<1> DEFINE t == [NoTask EXCEPT !.at = "asked", !.sent = etag[c], !.by = user]
<1>1. {} \in SUBSET Entries /\ {} # Unchanged
  BY ReconcileAssumption
<1>2. t \in Task /\ Fitting(t, c)
  BY <1>1, NoFetch DEF NoTask, Task, Fitting, ListingInv, Types, StoreTypes, OtherTypes
<1>11. t.at = "asked" /\ t.sent = etag[c]
  BY NoFetch DEF Task
<1> HIDE DEF t
<1>3. TaskTypes' /\ \A q \in Runs, b \in Containers :
              task'[q][b] = IF q = r /\ b = c THEN t ELSE task[q][b]
  <2>1. task' = [task EXCEPT ![r][c] = t]
    BY DEF Ask, t
  <2>. QED
    BY <2>1, <1>2, OneFetch DEF ListingInv, Types
<1>4. \A q \in Runs, b \in Containers : q # r \/ b # c => (OnItsWay(q, b)' <=> OnItsWay(q, b))
  BY <1>3 DEF OnItsWay
<1>5. /\ crossed \subseteq crossed' /\ crossed' \subseteq Containers
      /\ c \notin crossed' => \A q \in Runs : ~OnItsWay(q, c)
  BY DEF Ask, AnyUnderWay, OnItsWay, ListingInv, Types, GhostTypes
<1>6. OneAtATime'
  BY <1>4, <1>5 DEF OneAtATime, ListingInv, FetchInv
<1>7. SentIsStored'
  <2> SUFFICES ASSUME NEW b \in Containers \ crossed', NEW q \in Runs, OnItsWay(q, b)'
               PROVE  task'[q][b].sent = etag[b]
    BY DEF SentIsStored, Ask, storeVars
  <2>1. CASE q = r /\ b = c
    BY <2>1, <1>3, <1>11
  <2>2. CASE q # r \/ b # c
    BY <2>2, <1>3, <1>4, <1>5 DEF SentIsStored, ListingInv, FetchInv
  <2>. QED
    BY <2>1, <2>2
<1>8. RootStaysHome'
  BY <1>4, Tree DEF RootStaysHome, ListingInv, FetchInv, Ask
<1>9. RepliesFit'
  BY <1>2, <1>3 DEF RepliesFit, ListingInv, FetchInv
<1>10. StoreInv'
  BY <1>5, StoreUnchanged DEF ListingInv, Types, StoreInv, Ask
<1>12. PagesTrue'
  BY <1>3, <1>11 DEF PagesTrue, Paged, ListingInv, FetchInv, Ask
<1>. QED
  BY <1>3, <1>5, <1>6, <1>7, <1>8, <1>9, <1>10, <1>12
     DEF ListingInv, StoreInv, FetchInv, Types, OtherTypes, OffersFit, GhostTypes, Ask

\* An answer that comes, in part or whole, leaves everything else as it is.
LEMMA AnswerKeeps ==
  ASSUME ListingInv, NEW r \in Runs, NEW c \in Containers, OnItsWay(r, c),
         NEW t \in Task, t.at \in {"paging", "answered"}, t.sent = task[r][c].sent,
         Fitting(t, c), Paged(t, offers[c]), task' = [task EXCEPT ![r][c] = t],
         UNCHANGED <<storeVars, user, offers, phase, due, crossed, mixed>>
  PROVE  ListingInv'
<1>1. TaskTypes' /\ \A q \in Runs, b \in Containers :
              task'[q][b] = IF q = r /\ b = c THEN t ELSE task[q][b]
  BY OneFetch DEF ListingInv, Types
<1>2. \A q \in Runs, b \in Containers :
        OnItsWay(q, b)' => OnItsWay(q, b) /\ task'[q][b].sent = task[q][b].sent
  BY <1>1 DEF OnItsWay
<1>3. OneAtATime' /\ SentIsStored' /\ RootStaysHome'
  <2>1. etag' = etag
    BY DEF storeVars
  <2>. QED
    BY <1>2, <2>1, Tree DEF OneAtATime, SentIsStored, RootStaysHome, ListingInv, FetchInv
<1>4. RepliesFit' /\ PagesTrue'
  BY <1>1 DEF RepliesFit, PagesTrue, ListingInv, FetchInv
<1>5. StoreInv'
  BY StoreUnchanged DEF ListingInv, Types, StoreInv
<1>. QED
  BY <1>1, <1>3, <1>4, <1>5
     DEF ListingInv, StoreInv, FetchInv, Types, OtherTypes, OffersFit, GhostTypes

\* all_pages: a page goes on where the one before ended.
LEMMA PageKeeps ==
  ASSUME ListingInv, NEW r \in Runs, NEW c \in Containers, NEW to \in 0 .. Size,
         task[r][c].at \in {"asked", "paging"}, Page(r, c, to)
  PROVE  ListingInv'
<1> DEFINE from == task[r][c].upTo
           first == task[r][c].at = "asked"
           more == \E e \in offers[c] : e > to
           at == IF more THEN "paging" ELSE "answered"
           reply == task[r][c].reply \cup Beyond(from, to, offers[c])
           tag == IF first THEN offers[c] ELSE task[r][c].tag
           t == [task[r][c] EXCEPT !.at = at, !.reply = reply, !.tag = tag, !.upTo = to]
<1>1. /\ task[r][c] \in Task /\ offers[c] \in SUBSET Entries /\ offers[c] \subseteq KidsOf(c)
      /\ Fitting(task[r][c], c) /\ Paged(task[r][c], offers[c])
  BY FetchHas DEF ListingInv, Types, OtherTypes, OffersFit, FetchInv, RepliesFit, PagesTrue
<1>2. /\ task[r][c].reply # Unchanged /\ task[r][c].reply \subseteq KidsOf(c)
      /\ KidsOf(c) \subseteq Entries
  <2>1. {} # Unchanged
    BY ReconcileAssumption
  <2>. QED
    BY <1>1, <2>1 DEF Fitting, KidsOf
<1>3. Beyond(from, to, offers[c]) \subseteq offers[c]
  BY DEF Beyond
<1>4. reply \subseteq KidsOf(c) /\ reply \in SUBSET Entries /\ reply # Unchanged
  <2>1. reply \subseteq KidsOf(c) /\ reply \in SUBSET Entries
    BY <1>1, <1>2, <1>3
  <2>. QED
    BY <2>1, ReconcileAssumption
<1>5. tag \in Etags
  BY <1>1 DEF Task, Etags
<1> HIDE DEF at
<1>6. t \in Task /\ t.at = at /\ t.sent = task[r][c].sent /\ t.reply = reply
      /\ t.tag = tag /\ t.upTo = to /\ t.torn = task[r][c].torn
  <2> HIDE DEF reply, tag
  <2>1. at \in {"none", "ready", "asked", "paging", "answered"}
    BY DEF at
  <2>. QED
    BY <1>1, <1>4, <1>5, <2>1 DEF Task
<1>7. ~task[r][c].torn => tag = offers[c] /\ reply = Beyond(0, to, offers[c])
  <2>0. from \in 0 .. Size /\ from <= to /\ Size \in Nat
    BY <1>1, ReconcileAssumption DEF Task, Page
  <2>1. \A e \in offers[c] : e \in 1 .. Size
    BY <1>1 DEF Entries
  <2>2. CASE first
    BY <1>1, <2>2 DEF Fitting
  <2>3. CASE task[r][c].at = "paging" /\ ~task[r][c].torn
    <3>1. tag = offers[c] /\ task[r][c].reply = Beyond(0, from, offers[c])
      BY <1>1, <2>3 DEF Paged
    <3>2. Beyond(0, from, offers[c]) \cup Beyond(from, to, offers[c]) = Beyond(0, to, offers[c])
      BY <2>0, <2>1 DEF Beyond
    <3>. QED
      BY <3>1, <3>2
  <2>. QED
    BY <2>2, <2>3
<1>8. at = "answered" => Beyond(0, to, offers[c]) = offers[c]
  <2>1. \A e \in offers[c] : e \in 1 .. Size
    BY <1>1 DEF Entries
  <2>2. at = "answered" => \A e \in offers[c] : ~(e > to)
    BY DEF at
  <2>3. Size \in Nat
    BY ReconcileAssumption
  <2>. QED
    BY <2>1, <2>2, <2>3 DEF Beyond
<1>9. at \in {"paging", "answered"}
  BY DEF at
<1>10. task' = [task EXCEPT ![r][c] = t]
  <2>1. task \in [Runs -> [Containers -> Task]]
    BY DEF ListingInv, Types, TaskTypes
  <2>2. task' = [task EXCEPT ![r][c] = PageRead(task[r][c], to, offers[c])]
    BY <2>1 DEF Page
  <2>3. PageRead(task[r][c], to, offers[c]) = t
    BY DEF PageRead, at
  <2>. QED
    BY <2>2, <2>3
<1> HIDE DEF t, reply, tag
<1>11. Fitting(t, c)
  BY <1>4, <1>6, <1>7, <1>8, <1>9 DEF Fitting
<1>12. Paged(t, offers[c])
  BY <1>6, <1>7 DEF Paged
<1>13. OnItsWay(r, c)
  BY DEF OnItsWay
<1>14. UNCHANGED <<storeVars, user, offers, phase, due, crossed, mixed>>
  BY DEF Page
<1>. QED
  BY <1>6, <1>9, <1>10, <1>11, <1>12, <1>13, <1>14, AnswerKeeps

\* The server answers with its own listing, or with 304 to who named it.
LEMMA ServeKeeps ==
  ASSUME ListingInv, NEW r \in Runs, NEW c \in Containers, Serve(r, c) \/ ServeMore(r, c)
  PROVE  ListingInv'
<1>1. /\ task[r][c] \in Task /\ offers[c] \in SUBSET Entries /\ offers[c] # NoEtag
      /\ Fitting(task[r][c], c) /\ offers[c] \cup {Size} \subseteq 0 .. Size
  <2>1. task[r][c] \in Task /\ offers[c] \in SUBSET Entries /\ Fitting(task[r][c], c)
    BY FetchHas DEF ListingInv, Types, OtherTypes, FetchInv, RepliesFit
  <2>2. Size \in Nat /\ offers[c] # NoEtag
    BY <2>1, ReconcileAssumption
  <2>. QED
    BY <2>1, <2>2 DEF Entries
<1>2. CASE Serve(r, c) /\ task[r][c].sent = offers[c]
  <2> DEFINE t == [task[r][c] EXCEPT !.at = "answered", !.reply = Unchanged]
  <2>1. t \in Task /\ t.at = "answered" /\ t.sent = task[r][c].sent /\ t.reply = Unchanged
    BY <1>1 DEF Task
  <2>2. task' = [task EXCEPT ![r][c] = t]
    <3>1. task' = [task EXCEPT ![r] = [task[r] EXCEPT ![c] = t]]
      BY <1>1, <1>2 DEF Serve, ListingInv, Types, TaskTypes, Task
    <3>. QED
      BY <3>1
  <2> HIDE DEF t
  <2>3. Fitting(t, c) /\ Paged(t, offers[c])
    BY <1>1, <1>2, <2>1 DEF Fitting, Paged
  <2>4. OnItsWay(r, c) /\ UNCHANGED <<storeVars, user, offers, phase, due, crossed, mixed>>
    BY <1>2 DEF OnItsWay, Serve
  <2>. QED
    BY <2>1, <2>2, <2>3, <2>4, AnswerKeeps
<1>3. CASE Serve(r, c) /\ task[r][c].sent # offers[c]
  BY <1>1, <1>3, PageKeeps DEF Serve
<1>4. CASE ServeMore(r, c)
  BY <1>1, <1>4, PageKeeps DEF ServeMore
<1>. QED
  BY <1>2, <1>3, <1>4

\* adopt: a listing, of the server or of the root, takes the stored one's place.
LEMMA AdoptKeeps ==
  ASSUME ListingInv, NEW r \in Runs, NEW c \in Containers,
         Adopt(r, c) \/ (c = Root /\ AdoptRoot(r))
  PROVE  ListingInv'
<1>1. UNCHANGED <<user, offers, phase>> /\ task' = [task EXCEPT ![r][c] = NoTask]
      /\ due' = [due EXCEPT ![r] = @ \ {c}]
  BY DEF Adopt, AdoptRoot, Finished
<1>2. task[r][c] \in Task /\ Fitting(task[r][c], c)
  BY FetchHas DEF ListingInv, Types, FetchInv, RepliesFit
<1>3. PICK new \in SUBSET KidsOf(c), tag \in Etags, by \in Users \cup {NoUser} :
        /\ Replace(r, c, new, tag, by)
        /\ tag # NoEtag /\ ~task[r][c].torn => tag = new
        /\ Known(c)
        /\ OnItsWay(r, c) \/ c = Root
  <2>1. CASE Adopt(r, c)
    <3>1. /\ task[r][c].reply \in SUBSET KidsOf(c) /\ task[r][c].tag \in Etags
          /\ ~task[r][c].torn => task[r][c].tag = task[r][c].reply
      BY <2>1, <1>2 DEF Adopt, Fitting, Task
    <3>. QED
      BY <2>1, <3>1, <1>2 DEF Adopt, EtagOfAnswer, Task, OnItsWay
  <2>2. CASE c = Root /\ AdoptRoot(r)
    BY <2>2 DEF AdoptRoot, Tops, Etags, Known
  <2>. QED
    BY <2>1, <2>2
<1>4. StoreInv' /\ GhostTypes'
  BY <1>3, ReplaceKeepsStore DEF ListingInv, Types, StoreInv
<1>5. FetchInv' /\ TaskTypes'
  BY <1>1, <1>3, ReplaceKeepsFetches DEF ListingInv, Types
<1>6. OtherTypes' /\ OffersFit'
  BY <1>1 DEF ListingInv, Types, OtherTypes, OffersFit
<1>. QED
  BY <1>4, <1>5, <1>6 DEF ListingInv, StoreInv, Types

\* unchanged: what a 304 confirms is the listing the request named, unless
\* another answer came in between.
LEMMA ConfirmKeeps ==
  ASSUME ListingInv, NEW r \in Runs, NEW c \in Containers, Confirm(r, c)
  PROVE  ListingInv'
<1>1. /\ UNCHANGED <<listing, owner, user, offers, phase, crossed, mixed>>
      /\ task' = [task EXCEPT ![r][c] = NoTask] /\ due' = [due EXCEPT ![r] = @ \ {c}]
      /\ fetched' = fetched \cup {c} /\ Known(c) /\ OnItsWay(r, c)
      /\ etag' = etag \/ etag' = [etag EXCEPT ![c] = task[r][c].sent]
  BY DEF Confirm, Finished, OnItsWay
<1>2. task[r][c] \in Task /\ task[r][c].sent # NoEtag
  BY FetchHas DEF ListingInv, Types, FetchInv, RepliesFit, Fitting, Confirm
<1>3. c \notin crossed => task[r][c].sent = etag[c] /\ c \in fetched
  BY <1>1, <1>2 DEF ListingInv, FetchInv, SentIsStored, Types, StoreTypes
<1>4. \A b \in Containers \ crossed : etag'[b] = etag[b]
  BY <1>1, <1>3 DEF ListingInv, Types, StoreTypes
<1>5. StoreTypes'
  BY <1>1, <1>2 DEF ListingInv, Types, StoreTypes, Task
<1>6. NothingWithoutParent'
  BY <1>1 DEF ListingInv, NothingWithoutParent, Known
<1>7. EtagNamesListing'
  BY <1>1, <1>3, <1>4, <1>5 DEF ListingInv, EtagNamesListing, StoreTypes
<1>8. NoTask \in Task
  BY NoFetch
<1>9. TaskTypes' /\ \A q \in Runs, b \in Containers :
              task'[q][b] = IF q = r /\ b = c THEN NoTask ELSE task[q][b]
  BY <1>1, <1>8, OneFetch DEF ListingInv, Types
<1>10. \A q \in Runs, b \in Containers : OnItsWay(q, b)' => OnItsWay(q, b) /\ task'[q][b] = task[q][b]
  BY <1>9, NoFetch DEF OnItsWay
<1>11. FetchInv'
  BY <1>1, <1>4, <1>9, <1>10, NoFetch, Tree
     DEF FetchInv, OneAtATime, SentIsStored, RootStaysHome, RepliesFit, PagesTrue, Paged, ListingInv
<1>. QED
  BY <1>1, <1>5, <1>6, <1>7, <1>9, <1>11 DEF ListingInv, Types, OtherTypes, OffersFit, GhostTypes

\* The server changes a listing: who is in the middle of its pages has a torn one.
LEMMA ServerChangesKeeps ==
  ASSUME ListingInv, NEW c \in Folders, ServerChanges(c)
  PROVE  ListingInv'
<1>0. c \in Containers /\ UNCHANGED <<storeVars, user, phase, due, crossed, mixed>>
  BY DEF ServerChanges, Containers
<1> DEFINE torn(r) == task[r][c].torn \/ task[r][c].at = "paging"
           t(r) == [task[r][c] EXCEPT !.torn = torn(r)]
<1>1. \A r \in Runs : /\ task[r][c] \in Task /\ t(r) \in Task /\ t(r).torn = torn(r)
                      /\ t(r).at = task[r][c].at /\ t(r).sent = task[r][c].sent
                      /\ t(r).reply = task[r][c].reply /\ t(r).tag = task[r][c].tag
                      /\ t(r).upTo = task[r][c].upTo
  BY <1>0, FetchHas DEF ListingInv, Types, Task
<1>2. \A r \in Runs, b \in Containers : task'[r][b] = IF b = c THEN t(r) ELSE task[r][b]
  BY <1>0 DEF ServerChanges, ListingInv, Types, TaskTypes
<1>3. TaskTypes'
  <2>1. task' = [r \in Runs |-> [task[r] EXCEPT ![c] = t(r)]]
    BY <1>0 DEF ServerChanges, ListingInv, Types, TaskTypes
  <2> HIDE DEF t
  <2>. QED
    BY <1>0, <1>1, <2>1 DEF ListingInv, Types, TaskTypes
<1> HIDE DEF t
<1>4. \A r \in Runs, b \in Containers :
        (OnItsWay(r, b)' <=> OnItsWay(r, b)) /\ task'[r][b].sent = task[r][b].sent
  BY <1>1, <1>2 DEF OnItsWay
<1>5. OneAtATime' /\ SentIsStored' /\ RootStaysHome'
  <2>1. etag' = etag /\ crossed' = crossed
    BY <1>0 DEF storeVars
  <2>. QED
    BY <1>4, <2>1, Tree DEF OneAtATime, SentIsStored, RootStaysHome, ListingInv, FetchInv
<1>6. /\ offers' \in [Containers -> SUBSET Entries] /\ OffersFit'
      /\ \A b \in Containers \ {c} : offers'[b] = offers[b]
  <2>1. \A b \in Containers : KidsOf(b) \subseteq Entries
    BY DEF KidsOf
  <2>. QED
    BY <1>0, <2>1 DEF ServerChanges, ListingInv, Types, OtherTypes, OffersFit
<1>7. RepliesFit'
  <2>1. ASSUME NEW r \in Runs PROVE Fitting(t(r), c)
    <3>1. Fitting(task[r][c], c)
      BY <1>0 DEF ListingInv, FetchInv, RepliesFit
    <3>. QED
      BY <1>1, <3>1 DEF Fitting
  <2>. QED
    BY <1>2, <2>1 DEF RepliesFit, ListingInv, FetchInv
<1>8. PagesTrue'
  <2>1. \A r \in Runs : Paged(t(r), offers'[c])
    BY <1>1 DEF Paged
  <2>. QED
    BY <1>2, <1>6, <2>1 DEF PagesTrue, ListingInv, FetchInv
<1>9. StoreInv'
  BY <1>0, StoreUnchanged DEF ListingInv, Types, StoreInv
<1>. QED
  BY <1>0, <1>3, <1>5, <1>6, <1>7, <1>8, <1>9
     DEF ListingInv, StoreInv, FetchInv, Types, OtherTypes, GhostTypes

\* A sign-in concerns no listing.
LEMMA OutsideKeeps ==
  ASSUME ListingInv, SignIn \/ UNCHANGED vars
  PROVE  ListingInv'
<1>1. /\ UNCHANGED <<storeVars, offers, phase, due, task, crossed, mixed>>
      /\ user' \in Users \cup {NoUser}
  BY DEF SignIn, vars, runVars, ListingInv, Types, OtherTypes
<1>2. StoreInv' /\ FetchInv'
  BY <1>1, StoreUnchanged, FetchesUnchanged DEF ListingInv, Types, StoreInv, storeVars
<1>. QED
  BY <1>1, <1>2 DEF ListingInv, StoreInv, Types, OtherTypes, TaskTypes, OffersFit, GhostTypes

-----------------------------------------------------------------------------
(* The theorems *)

\* On a device with nothing fetched yet.
LEMMA InitListing == Init => ListingInv
<1> SUFFICES ASSUME Init PROVE ListingInv
  OBVIOUS
<1>1. NoTask \in Task /\ NoTask.at = "none" /\ \A c \in Containers : Fitting(NoTask, c)
  BY NoFetch, Tree
<1>2. Types
  BY <1>1 DEF Init, Types, StoreTypes, OtherTypes, TaskTypes, GhostTypes, Etags, KidsOf
<1>3. FetchInv /\ OffersFit
  BY <1>1, Tree DEF Init, FetchInv, OneAtATime, SentIsStored, RootStaysHome, RepliesFit, PagesTrue,
                    Paged, OnItsWay, OffersFit
<1>4. NothingWithoutParent /\ EtagNamesListing
  BY DEF Init, NothingWithoutParent, EtagNamesListing
<1>. QED
  BY <1>2, <1>3, <1>4 DEF ListingInv

\* The inductive invariant behind what follows.
THEOREM ListingInvariant == Spec => []ListingInv
<1>1. ListingInv /\ [Next]_vars => ListingInv'
  <2> SUFFICES ASSUME ListingInv, [Next]_vars PROVE ListingInv'
    OBVIOUS
  <2>1. ASSUME NEW r \in Runs, Proceeds(r) PROVE ListingInv'
    <3>1. CASE BeatBegins(r) \/ BeatGoesOn(r) \/ RunEnds(r)
      BY <3>1, RunsKeep, Tree
    <3>2. CASE AdoptRoot(r)
      BY <3>2, AdoptKeeps, Tree
    <3>3. ASSUME NEW c \in Containers, Fetches(r, c) PROVE ListingInv'
      BY <3>3, RunsKeep, GivingUpKeeps, AskKeeps, ServeKeeps, AdoptKeeps, ConfirmKeeps DEF Fetches
    <3>. QED
      BY <2>1, <3>1, <3>2, <3>3 DEF Proceeds
  <2>2. CASE Environment
    BY <2>2, RunsKeep, GivingUpKeeps, ServerChangesKeeps, OutsideKeeps, SignOutKeeps
       DEF Environment, Runs
  <2>3. CASE UNCHANGED vars
    BY <2>3, OutsideKeeps
  <2>. QED
    BY <2>1, <2>2, <2>3 DEF Next
<1>. QED
  BY <1>1, InitListing, PTL DEF Spec

\* For any tree, users, beats and pull-ups: no container without an entry in its
\* parent's listing keeps children or a state, and where no two fetches
\* overlapped and the server changed nothing between two pages a stored etag
\* names the stored listing (all_pages, replace_container,
\* update_container_state).
THEOREM ReconcileHolds == Spec => []ReconcileInv
<1>1. ListingInv => ReconcileInv
  BY TypesAre DEF ListingInv, ReconcileInv
<1>. QED
  BY <1>1, ListingInvariant, PTL
=============================================================================
