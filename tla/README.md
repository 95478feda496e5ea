# A verification of eDMS desktop in TLA+

eDMS desktop puts a company's document archive into the file manager of a
workstation: as placeholders on Windows (Cloud Files API), as a File Provider on
macOS. Documents are read-only, their content is fetched when they are opened, new
files are taken in through mail baskets, and the server can order a device to
release, revoke or erase documents or to sign the user out.

This directory holds TLA+ modules of that program, TLC configurations that check
them on small instances, and theorems about them that TLAPS checks. Everything is
translated from the Rust source; `PROJECT.json` names the lines of every definition.
Paths below are relative to `src/crates/`.

## The system

| Component | State | Operations | Talks to |
|---|---|---|---|
| Delivery channel (`engine/src/delivery.rs`, `store/src/delivery.rs`) | table of commands with outcome and acknowledgement, cursor, interval | a round: empty the outbox, ask for pages, accept, check, execute, store the outcome, acknowledge | server, session, store, file system |
| Namespace store (`store/src/namespace.rs`, `core/src/change.rs`) | entries, container states (etag, time, truncation), tombstones, change journal | replace a container, confirm it (304), remove a document everywhere, empty, read changes since an anchor | reconcile, delivery, session, both platforms |
| macOS enumerator (`fileprovider/src/enumerator.rs`, `anchor.rs`) | none of its own: page and anchor are handed to the system and back | plan, page, changes, current anchor | source over the bridge |
| Reconcile and source (`engine/src/reconcile.rs`, `source.rs`) | none of its own, tasks in flight | beat, fetch and adopt one container, first fetch of an opened folder, pull-up of an old one | server, session, store, file system |
| Session (`engine/src/session.rs`, `store/src/session.rs`) | access token and expiry in memory, refresh token and device token in the vault, session row | sign in, refresh, stop the session, sign out, start-up | server, vault, store, file system |
| Windows mirror (`cfapi/src/platform`, `plan.rs`, `path_map.rs`) | map of placeholders and populated folders, the folder on disk | report a change (plan, then steps), answer a listing, release, remove, clear | source, engine, Windows |
| Hydration (`engine/src/hydration.rs`) | a `.part` file, the load gate | token, permit, download, check, hand over | server, session, platform, log |
| Windows callbacks and pool (`cfapi/src/platform/callback.rs`, `worker_pool.rs`, `cancel.rs`, `blocks.rs`) | queue, threads, switches of running transfers, the block that is not full yet | take a request, run it, cancel it, stop and start again | Windows, hydration, reconcile |
| Ingest (`engine/src/ingest.rs`, `store/src/ingest.rs`) | announced paths, samples, pending notes with their keys, held files | announce, wait until stable, create, upload, complete, hold, retry | server, session, store, baskets on disk |
| Key set and anchor (`crypto/src/key_set.rs`, `key_set/`) | anchors, evidence keys, revocations, the state of the anchor | anchor at the enrolment, confirm after the approval, adopt a refresh, verify a command | session, delivery |
| Bridge (`bridge/src`, `fileprovider/src/extension.rs`) | rendezvous file, accepted connections and their places, requests of the system | start, accept, serve, cancel, stop | app and extension: two processes |
| App (`app/src/setup.rs`, `wiring.rs`, `awaiting.rs`, `event_loop.rs`) | addresses from environment and set-up, the seal, the note of a move | resolve, compare, move to another server, start, set up, stop | everything above |
| Network, wire, crypto primitives, core values, schema, translations, windows and tray | values, connections, presentation | conversions, one HTTP exchange, drawing | |

One process runs an asynchronous runtime of two worker threads. The store stands
behind a mutex that is never held across an `await`; the session behind an
asynchronous mutex (`login_lock`); at most four downloads run at once. So whatever
a handler read from the store before it waited for the server may be old when it
writes. Windows calls from its own threads, whose work a pool takes over; macOS asks from another
process, page by page, over a socket that is there only as long as the app is.

**What is hard here.** The server speaks at least once and the device at most as
often as it can: outcomes have to be stored before they are acknowledged and
survive a stop at any line. Platform and store move independently, and the
platform must end up with what the store holds. Erasures have to win against
listings that were asked for before them. A sign-out has to win against everything
in flight. Sessions rotate a refresh token whose loss or double use ends them.
`PROJECT.json` lists these hazards, each with its line and the properties about it.

### What makes each component correct

* Delivery: no command has two outcomes; the server holds the word the device holds;
  a command is settled in the end; acceptance decides, not the order of deliveries.
* Namespace: the journal has no gap between its bounds; an answered anchor leads to
  the store's entries; no name of an erased document; no entry without its folder.
* Reconcile: a stored etag belongs to the stored listing; the store follows the server.
* Session: one use of every refresh token; after a sign-out nothing of the user remains.
* Windows mirror: at rest, an opened folder shows what the store holds, every entry under its name.
* Hydration, callbacks and pool: no byte reaches a file before size and checksum were right; a
  failure names exactly what is missing; every accepted job comes to its end, also at a disconnect.
* Ingest: a file leads to one document however often it is attempted, none is deleted, and
  what lies in a basket is ingested at last.
* Key set: nothing counts that an anchor of the enrolment does not vouch for; no step backwards.
* Bridge: every request is answered, nobody is told of a cancellation that did not happen, no
  place is lost, the shutdown waits for nobody.
* App: a token goes only to the server that issued it; nothing of an old server stands beside the
  engine of a new one; nobody is signed out by a false alarm.

## The modules

### `CommandContract` and `Delivery`

`CommandContract` is what the channel promises for one command after another: issued,
run, settled with one outcome, possibly tried again after a failure, reported.
`Delivery` is the channel itself. Its variables are the server's side (what was issued,
what it heard), the device token, the table of commands (`row`), the cursor, what is
on the wire, and where the round stands (`pc` and the items in hand). One action is
one step between two points at which the program can stop: `BeginRound`,
`FetchDeviceToken`, `TakeFromOutbox`, `OutboxEmpty`, `Poll`, `PollFails`,
`AcceptToRun`, `AcceptDone`, `AcceptFails`, `RejectUnreadable`, `Refuse`, `HoldBack`,
`Execute`, `RecordOutcome`, `OutcomeNotRecorded`, `SendAck`, `AckWaits`,
`MarkAcknowledged`, `AckFails`, `PageDone`, `Restart`; the environment issues
commands, delivers or loses answers and signs the user out. What a command does to the
documents is one step with any of its possible results.

Checked by `delivery_channel`: `AcknowledgedIsKnown` (what is noted as acknowledged stands at the
server under the same word); `HonestVerdict` (the server never believes "applied" of what did not
run, nor "rejected" of what did); `EffectiveOnce` (once a final outcome is stored nothing runs again
and it stays); `KeepsContract` (the refinement); `EverySettled` (every readable command ends with an
outcome at the server). Types are proved (`TypeCorrect`).

*Bounds.* Four commands, one of each class that takes its own path, two per page, so
that a page can be cut in the middle and a second page follows; three disturbances
(lost answers, errors, restarts and sign-outs together), so that a disturbance can
hit the recovery from an earlier one and that one's recovery as well.

*Fairness.* Weak fairness of the channel's own steps: the task loops for ever
(`channel`), and the disturbances are bounded; an acknowledgement on the wire arrives. The server answers again once they
are used up. Nothing is assumed of the user or of new commands.

*Disagreements* (`MCDelivery_cursor.cfg`): the cursor of a page is stored before the page is
processed. Against a server that delivers what is open this is harmless, and `delivery_channel`
shows it. Against one that leaves out what lies at or below the cursor, as the repository's own test
server does, a stop in mid-page loses the rest of it.

Visible in the module: an entry with a readable identifier
that is no envelope is called "acknowledgeable as `REJECTED`" (`wire/src/delivery.rs:157`), but
`process` goes to `complete()` without having accepted it, the store refuses an outcome for
an unknown command (`RejectUnreadable`), and nothing is ever acknowledged. `EverySettled`
is therefore about readable commands.

### `Namespace`

The tree is four levels deep: the archives folder, an archive, a case file, a document. Entries
are numbers, a child's smaller than its container's, which is the order in which the
journal has to put removals. The variables are the tables (`entry`, `fetched`,
`erased`, `journal` with `last` and `lower`) and a platform that
enumerates page by page and then follows the journal (`phase`, `anchor`, `view`,
`marker`). Every store operation is one transaction and therefore one action:
`ReplaceContainer`, `RemoveDocumentEverywhere`, `EmptyNamespace`; a tombstone loses
its effect by `TombstoneLapses`. The platform asks page by page, and every page computes its plan
anew, container by container (`AskFolders`; `marker` keeps what was found and who is still to be
asked), before it reads (`ComputePlan`, `ReadPage`, `ReadExpired`); then it follows the journal
(`ReadChange`, `AnchorExpired`). Between any two of these calls the store may go through any of its
operations. The three fixed folders of the program are the root here, and the order in which
`plan` asks siblings is left open.

Checked by `store_namespace`: `NamespaceInv`, whose parts are `JournalComplete` (exactly the rows
between the bounds, never too many), `NoOrphans`, `ErasedNameless` (while a tombstone is in effect
neither table nor journal holds the name, not even in a row written before), `RowsTell`,
`ChildrenLeaveFirst` (no removal of a folder before those of what stands in it) and
`EnumerationIsTrue`; `AnsweredAnchorIsTrue` (an anchor that is answered ends in exactly the store's
entries, whatever happened between the pages); `EventuallyShown` (when the store rests, the
platform shows it).

*Bounds.* Five entries over three levels, one document in two places, one of them in a
search; a journal of three rows, pages of two, five sequence numbers: listings, removals and a sign-out
overflow the journal, an enumeration takes several pages with several calls for the plan of each, and
an anchor lies below, at and above the oldest row.

*Fairness.* Weak fairness of the platform's own steps: the system keeps asking as long
as it is told that there is something. The store is not fair; the bound on the
sequence numbers lets it come to rest.

*Disagreement* (`MCNamespace_gone.cfg`): in the working set a folder that disappears "means 'listing
changed', not 'the working set does not exist' - the system would otherwise delete the working
set" (`enumerator.rs:180`). That is so where a page reads its container, but every page computes the
plan before, and `plan` hands on the "no such item" of an archive that goes between being found and
being asked (`:153`). The module has the phase `gone` for it. What the system makes of that answer
is not in this code; `EventuallyShown` assumes that it enumerates afresh.

### `Reconcile`

Runs work side by side: beats (everything once, from the top, the levels one after the
other) and pull-ups (one container). For each run and container `task` says where a fetch
stands: asked for and with which etag, the pages so far and the etag of the first, answered and by
whom, about to be adopted. A listing comes in pages, each of which is awaited; the server
chooses where a page ends and may change in between, and the etag kept is that of the first page. An
etag is modelled as the listing it names, so that "the etag fits the listing" is an
equation; `owner` remembers whose listing a stored one is, and `crossed` which containers
were fetched twice at once, `mixed` whose stored listing changed at the server between its pages. Actions: `BeatBegins`, `BeatGoesOn`, `PullUp`, `Open`, `Begin`,
`Ask`, `AskWithoutToken`, `AskOnceMore`, `Serve`, `Adopt`, `AdoptRoot`, `AdoptUnknown`,
`Confirm`, `Fail`, `NobodySignedIn`, `RunEnds`; the server changes (`ServerChanges`), the user
signs in and out.

Checked by `reconcile`: `ReconcileInv` (types; `NothingWithoutParent`: nothing is
stored for a container that has left its parent's listing, however late an answer comes;
`EtagNamesListing`: without overlapping fetches, and where the server did not change between the
pages of one answer, a stored etag names the stored listing); `EventuallyCurrent` (when the
server rests, the store ends up with what it offers; a mixed listing may stay only if the server came
back to the state of its first page).

*Bounds.* Two documents in a case file in a fixed folder, so that a fetched container can vanish with
its parent and come back, and a listing has up to three pages; two changes, one failed request, one
sign-out and one beat beside one pull-up: enough for two overlapping fetches of one container with a third
one after them, and for a listing that changes between two pages and back again, which is what the
violations need. The limit of a hundred pages is left out.

*Fairness.* Weak fairness of every run's own steps: the beat is a timer, a fetch a task of
the runtime, and a request that does not fail is answered. Nobody has to open a folder.

*Disagreements*: a 304 writes its etag over a listing that another, older answer has replaced in
between; from then on every fetch is answered 304 and the stale listing stays until the server
changes (`ConfirmedIsSame`; the comment of `MCReconcile_signout.cfg` says how to see it). A mixed
listing is stored under the etag of its first page (`net/src/access.rs:249`), with the same
consequence if the server goes back to that state. A listing asked for before a sign-out is adopted after it,
as soon as another run has adopted the root again (`MCReconcile_signout.cfg`). `crossed`, `mixed` and the
single user of `reconcile` keep these out of its properties.

### `Mirror`

One folder on Windows. The store has its entries and tombstones; `disk` is what lies in the
folder, `known` and `populated` the map of the mirror; each task carries what it has to
report (`before`, `after`) and its planned steps (`step`). A report is three stretches with no
lock held over them: `Adopt` changes the store, `Plan` makes the steps under the lock of the map,
and each step is carried out on disk (`StepOnDisk`) and then in the map (`StepInMap`), removals
before updates before creations. The first opening reads the listing (`ReadListing`), hands
it over (`HandOver`), marks the folder as populated (`Populate`) and follows up, file by file, what
differs (`FollowUp`). Windows can refuse any of it, a step (`StepRefused`), a placeholder of the listing
(part of `HandOver`: the map gets the entry all the same, and Windows may ask again), a follow-up
(`FollowUpRefused`) or what an erasure does (`EraseRefused`); a refusal is logged and the next one is
taken up. A file that is not there any more counts as removed. An erasure releases, removes and then erases from the store
(`EraseBegins`, `Release`, `RemoveOnDisk`, `RemoveInMap`, `EraseFromStore`), and answers.
The user opens files: a load reads the listed version (`LoadBegins`), awaits the server while everything
else goes on, and delivers without looking again (`LoadDelivers`) or fails (`LoadFails`). The process
stops and starts (`Restart`).

Checked by `mirror`: `MirrorInv` (types, and `MapTrue`: the map knows exactly what lies there);
`MirrorTrue` (at rest an opened folder shows what the store holds); `LoadedIsCurrent` (loaded content is
the current version). Each leaves out the documents in `disturbed`:
those at which two tasks were at once and those of which Windows refused something. `unheard` are the
documents that changed while the folder was not populated, whose loaded content nobody told Windows to
drop, and `overtaken` those that an update met while another version was being loaded. These
exclusions are what the code does not guarantee, and each was found by a violated run:

* a step that meets an open file is logged and never tried again
  (`engine/src/reconcile.rs:309`), and so is a follow-up (`callback.rs:359`);
* an entry Windows refuses as a placeholder enters the map like the others (`callback.rs:343-357`);
* two tasks can change the store in one order and report in the other (`adopt` locks only
  the store, `report_change` only the map);
* the listing of a first opening is read before the folder is marked as populated
  (`callback.rs:277`, `:356`), and a report in between is dropped: `plan.rs:106` counts on the
  listing being asked for again, which it is not;
* content loaded earlier stays when such a listing brings a new version
  (`callback.rs:404`, `placeholder.rs:233`);
* an update that is carried out while an older version is on its way discards what is there, and the
  older version is delivered behind it (`hydration.rs`; the entry is read before the first await).

*Bounds.* A behaviour of `MCMirror` is about one document of two versions, with three listings, one
refusal and one restart, beside an adopter, the delivery channel and the callback: every exclusion above
needs two of these actors at one document. Or it is about two documents of one version, with one listing,
one refusal, and neither load nor restart: what is refused of one must not touch the other, also where
Windows asks again for a folder that is populated. Nothing is fair, so the run checks safety only; when the
bounds are used up the system may stop, hence `CHECK_DEADLOCK FALSE`.

*Disagreement* (`MCMirror_restart.cfg`): the map lives in memory. After a restart the first delivery of an
erasure finds no path, empties the store and answers `FAILED`; the second finds no
placement and answers `APPLIED`, while the file is still on disk.

### `Names`

What the entries of one folder are called, and how a folder on Windows follows. A title is a model
value; titles that clash get the short form behind them (`NamesOf`), also against the hint of a list
that was cut short, and a title may itself read like such a made-up name. The store takes a listing
only without equal names (`Accepted`, `AdoptListing`). A report becomes removals, both stages of every
rename and creations (`Planned`), a set of steps that are taken in turn (`IsNext`: kind by kind, and
within a kind in the order of the entries), each a step on the folder (`RunStep`) or lost on an open
file (`StepLost`). `OpenFolder` is the listing after a start, compared by name with what lies there;
any placeholder it hands over and any follow-up it takes up can be refused, which is logged and no more
(`Refusable`, `HeldUp`);
the user puts a file of his own into the folder (`DropFile`, under the names in `UserNames`); the process ends, also between the two
stages (`ProcessEnds`). What `Mirror` has beside this, tasks that run side by side and content, is left
out here, as names are left out there.

Checked by `names_and_rate`: `NamesInv` (`ShownAsListed`: after a report there lies under the name of
every entry its placeholder or a file of the user's, through swaps, chains and restarts; `NothingElse`:
no placeholder lies anywhere else); `NamesStay` (rule 6
of `filename.rs`: no name wanders to an entry that keeps its title); `UserFileStays` (a file of the
user's stays, `callback.rs:382`). Their exceptions are what the code does not guarantee:

* an entry of which a step, a placeholder or a follow-up was refused, and whoever is to have the name it holds on to, by this
  report or a later one (`met`): the second stage of a swap of which the first was lost moves the
  other's file instead, and a creation that fails on a name that is still held is not tried again
  until the folder is opened anew, for the next report plans only what differs from this one;
* a title that reads like a made-up name: three documents, two titled alike and one like the short
  form of the first, get two equal names, and the store refuses the whole listing
  (`store/src/namespace.rs:454`); the folder stays as it was. `cfapi/src/plan.rs:236` counts on listings
  without collisions;
* a rename onto the user's file replaces it (`win.rs:267`; `plan.rs:10` takes it that a rename onto an
  occupied name fails), and an entry whose name the user's file had when the folder was opened stands
  in the map as placed, so that its removal or rename takes the user's file
  (`MCNames_file.cfg`).

Seen by reading: after a plain rename the write protection is not set again (`callback.rs:425`); a folder
opened after a restart is compared by name, so a placeholder with content becomes the entry that has its
name now and keeps the content of the other.

*Bounds.* Two documents and the hint, three titles, so that two clash with each other, with the hint and
with a made-up name; three listings (one to open the folder with, a swap, one after it), one refusal
(or one opening of a folder in which any number is refused at once),
one file of the user's, one restart. Nothing is fair; when the bounds are used up the folder is at
rest, hence `CHECK_DEADLOCK FALSE`.

### `RateLimit`

The window of times of `RateLimit::take`, on a clock that is set back and ahead. `names_and_rate`
(which it shares with `Names` and nothing else) checks `LimitHolds`: as long as the clock is never set ahead
and is set back by less than the window in all, no stretch of real time of that length sees
more commands than the limit. Set back by a minute or more the limit is lifted, because what
lies too far in the future falls out of the window too (`delivery.rs:771-774`).

### `Session`

One refresh token that rotates. Tokens are numbered as the server issues them; `vault` holds the
stored one, `access` the number of the one the access token came with, `row` the state of the
session row. Each task has a place (`at`), the token it redeems (`hand`) and the answer
(`reply`). A task that needs a token asks (`Ask`), waits for the login lock, looks
again (`Enter`), redeems (`Redeem`) and adopts the answer in three steps a stop can part:
the vault (`Store`), the memory (`TakeOver`), the row (`WriteRow`). The user's sign-in renews first
and then asks the human (`SignIn`, `LoginDecided`); a renewal can fail before it left
(`NothingHappened`), be refused, or break off with nobody knowing what the server did
(`BreaksOff`, `StopsSession`); vault and store can fail (`AdoptionFails`). Signing out revokes, clears
the row and forgets the secrets (`SignOut`, `Revoke`, `Clear`, `Forget`); the server's order
does so without the lock (`Order`). Tokens expire, the server ends sessions, the process stops.

Not in the code: `reused` (rotated tokens redeemed again), `doubtful` (tokens whose fate is unknown
here, or that were dropped), `uncertain` (those `RefreshUncertain` was said of), `out`
(signed out, and nobody signed in since) and `overlapped` (an order to sign out
while somebody held the lock).

Checked by `session`: `NoReuse` (no token is redeemed twice unless its fate is unknown);
`RotationBeforeUse` (the access token is never newer than the stored refresh token);
`ValidIsKept` (the token the server would renew is in the vault whenever the lock is free and
nothing broke); `SignedOutStaysOut` (who waited for the lock brings nothing back);
`WaitersAreAnswered`.

*Bounds.* Two tasks beside the user and the channel, so that one waits while another renews and
a third signs out; three tokens: one sign-in and two rotations, the second of which makes the first
token reusable; one fault, one order, one restart.

*Fairness.* Weak fairness of each task's own steps: requests have time limits, and the device flow ends
with its code. Strong fairness of `Enter`: the lock is tokio's mutex, which is handed on in the
order of asking. `SignIn` is not fair.

*Disagreements*: "never repeated", but the token stays in the vault and the row still carries a
login, so the next task redeems it again (`MCSession_uncertain.cfg`). An order to sign out during a
renewal is undone by it: token and row are written behind the clearing. This is the run
`session_order`, the one run of the project that ends in a violation.

### `WorkerPool`, `Blocks` and `Opening`

Opening a document or a folder on Windows. `WorkerPool` is the pool by itself: `Give`, `Created`,
`Refused`, one action per turn of the inner loop of `work` (`TakesJob`, `Leaves`, `Waits`), the
idle time that runs out beside it, the sentry, `stop` in its two halves, `accept_again`.
`Blocks` is the buffer that cuts what the engine writes into aligned chunks, and the range that is
reported as failed, as operators on a record. `Opening` composes them: a callback gives a job
(`on_content`, `on_list`), the job registers its switch (`Begin`), logs in, waits for the load
gate (`Admitted`), streams into the scratch file with one second attempt after a 401
(`StreamBegins`, `SecondAttempt`, `StreamEnds`), checks (`Check`), hands over piece by piece with
a look at the switch before each (`HandLooks`, `HandPiece`), completes (scratch file and permit go first, then the
rest of the buffer is handed over: `Complete`) or fails. Beside it: CANCEL
callbacks (`on_abort`), the disconnect (`all_abort`, `Stop`, `Stopped`) and the next connect, a
process that ends without warning (`Crash`), a listing with a newer version (`Relisted`). The
server may send any version, damaged or short, whatever its headers say; Windows may refuse any chunk.

Checked by `opening`: `OpeningInv`, the books: what the counters say is what the threads do
(`BooksBalance`), every job is in one place (`RunsOnce`), a running job can be cancelled and
nobody else is in the list (`Cancellable`), permit and scratch file belong to a running load
(`NothingLeftBehind`), nothing runs after a disconnect (`QuietAfterStop`), data means the whole
file (`DataIsWhole`), in aligned chunks (`Aligned`), no job lies behind a sleeping thread
(`NotHeldUp`), and a failure names exactly what has not arrived (`FailureNamesTheRest`). Further
`DeliveredIsListed` (what Windows gets, also of a load that failed, is a beginning of the version the
listing named), `CancelStops` (after a cancel at most the piece under way), `EveryJobEnds` and
`DisconnectEnds`.

*Bounds.* Two threads, a document and a folder, one permit; the document has two versions of sizes
three and one with chunks of two, so that a file is a chunk and a rest, or a rest only, and the
versions differ in size; one refused thread per life of the process, any number of crashes. Two
jobs are what the races of `give` with an idle thread and of a disconnect with a queued job need;
which free name a new thread gets makes no difference (`Created`).

*Fairness.* Of the pool's threads, of a thread under creation, of a disconnect that has begun.
None of the user, the server, a crash or the next connect.

Seen by reading and left out: a file of length zero that is asked for up to its end gets no answer
at all when its load fails (`error_domain` is `None`, nothing is reported); a refused thread with
none alive leaves its job in the queue until the next callback (`worker_pool.rs:133`), which
`EveryJobEnds` exempts.

### `Ingest`

A file in a mail basket. The server of this module is the one of `mock/src/api.rs`, whose three
calls are `Creates`, `Sends` and `Completes`. A hand-in is a number that stands for content and
modification time; `lies` says what is at each path, `announced`, `sample`, `ripe` and `resting` are
the watch, `note` the stored key and upload per path, `task` the running batch. One ingest is the steps
`Begins`, `Stats`, `Hashes`, `Notes`, `Creates` (which records the grant before the bytes go out,
`GetsGrant`), `Sends`, `Completes`, `Renames` or `Copies` and `Removes`, `Forgets` (after which the check of
the address for the browser may still fail, stage `foreign`); between any two of them an answer can be
lost, the store can refuse, the process can stop (`Restart`), the line can go down, the user can be signed
out with files in the baskets (`SignsOut`), a grant can expire, and the user can drop, replace or take
back files.

Not in the code: `withdrawn` (what the user took back or wrote over), `cleared` (what a sign-out found in the
baskets: the mirror is emptied, `cfapi/src/lib.rs:71-79`, and they stand in it), `heard` (the uploads whose completion
the program has heard of) and `raced`. The modification time is read before the bytes are hashed, and the
path is not looked at again between the upload and the move: a hand-in that is put over a file in
one of these windows is noted under another's stamp or put aside for another. Both windows are
open in the model; `raced` are the hand-ins put into them, and of those alone the properties promise nothing.

Checked by `ingest`: `IngestInv` (what was put aside is what the server has, nothing handed in
disappears but for a sign-out, no capture page opens before its document); `OneDocumentEach` (however often a
file is attempted, the server gets one document of it); `IngestedAtLast` (what lies in a basket is ingested
unless its grant expired).

*Bounds.* A behaviour of `MCIngest` has two paths and one fault (an expired grant is one), or one path and
three faults, so that a fault can hit the recovery from another; two hand-ins, so that one file can
replace another or lie beside it; one ingest at a time.

*Fairness.* Of the announcement, the timers (`Ripens`, `RestIsOver`), the steps of the
ingest, the batch, and of the line coming back. None of these is a fault, so the bounds on the
faults take nothing from it.

*Disagreements.* `ingest.rs:48` promises that what lies in a basket is ingested by itself. With an
expired grant it is not: the noted key is kept (`ingest.rs:514`), the server answers every repetition
with the same dead grant (`mock/src/api.rs:943`) and refuses its content (`MCIngest_expired.cfg`).
`store/src/ingest.rs:15-18` promises that after a stop between the completion and the move the engine "finds
the identifier again and puts the file there instead of uploading it a second time". Nothing reads the
recorded identifier: the file is sent and completed once more under the grant it has
(`MCIngest_again.cfg`). No second document comes of it.

Left out: a copy into the holding directory that breaks off midway may leave a part of the file there
(`hold`, where the baskets are on another volume).

### `KeySet`

Anchors, keys and revocations as the server publishes them (`Publishes…`, `Revokes`; the number of
publications is the version and the clock) and as the device takes them in: the enrolment whose answer
is anchored (`Registers`, `TakesBlock`, `MarksEnrolled`), the approval and the token that confirm
it (`Approves`, `FetchesToken`, `Confirms`), the REFRESH_KEYS whose answer may be an older one or
leave things out (`Refreshes`, with `Adopted` for the rules of the merge), stops in between. A
command is the key it was signed with and the time; `Holds` is the verification.

Checked by `key_set`: `KeySetInv` (`Rooted`: nothing in the set that no anchor of it vouches for;
`StateTrue`: revoked exactly when no anchor counts any more, confirmed only after a human
approved); `NeverBack` (a signature that lost its force never gets it back, whatever a
stale or partial answer says); `CatchesUp` (a device the server can reach learns every key its
anchors vouch for, also through an anchor of the same answer).

*Bounds.* Two first anchors and a third, two evidence keys, two publications after the first, one
fault: a chain of counter-signatures, a revocation and a key of a new anchor fit into it.

*Fairness.* Of a refresh that is answered with the newest set, and of nothing else: the command is
delivered until it is acknowledged, and acknowledged when the set was adopted.

*Disagreements*, seen while translating:

1. A 412 without a device object ends the enrolment as "already enrolled", to be "read afterwards
   with `device_status`" (`net/src/access.rs:351`, `net/tests/contract.rs:504`). Nothing reads it
   afterwards: the device is marked as enrolled without an anchor and rejects every command.
2. An unknown key should trigger a reconciliation of the keys (`crypto/src/key_set.rs:872`);
   the channel rejects the command instead (`delivery.rs:349`), and a rejected command
   is final.
3. "Listing and opening need no server key and keep running" (`key_set.rs:24`); but with every
   anchor revoked `confirm_anchor` fails, and with it every sign-in (`session.rs:683`).
4. Of several revocations of one key the first that arrives stays; a later retroactive one
   is passed over (`Merge`). The same holds for a key stated anew by another anchor.
5. A stop between anchor and mark, followed by a published anchor, makes every further
   enrolment fail (`FingerprintChanged`): the answer names more anchors than the stored set.
6. Two anchors that revoke each other are both out only if both revocations come in one answer.

### `Bridge`

Two processes on macOS. A request of the system (`req`, `wish`) asks for an entry or for an entry
and its content; each question is a connection with its two ends in `conn`. The app has an
acceptance thread (`WaitsOnSpace`, `Accepts`, `Checks`, `Inserts`) with `Places` places, one thread per
connection (`Welcomes`, `TakesRequest`, `AnswersEntry`, `WritesChunk`, `SeesTorn`, `LoadEnds`,
`SendsResult`, `ChecksOut`), and a shutdown in six steps (`RemovesFile`, `SetsHold`, `Knocks`,
`Joins`, `ClosesAll`, `Waited`) that meets the other threads at any point. The
call by which it wakes its own acceptance thread may fail (`Knocks`, in the runs of the app named by
`Deaf`): then the thread is left where it is and not joined, and what it still accepts is let go with the
process. The process can end
without any of them (`ProcessEnds`) and start again under another run.

Checked by `bridge`: `BridgeInv` (the threads that serve are the ones that hold a place,
`PlacesTrue`; after the farewell no accepted line is open, `FarewellToAll`,
unless the acceptance thread was left behind; a request is answered
"cancelled" only if somebody cancelled it, `CancelledIsWish`: an app that goes in the middle of a load
must not look like it); `EveryRequestAnswered`; `StopEnds`.

*Bounds.* Two requests, one of them a load, and one place, so that one waits for the other's place;
one data chunk, two runs of the app, so that a request can find the file of the other run; the first of them
may be unable to call itself. When all
requests are answered and the runs are used up nothing happens any more, hence
`CHECK_DEADLOCK FALSE`.

*Fairness.* Of the client and its deadlines, the acceptance thread, the connection threads, the steps
of a shutdown. None of the engine, which may never answer, of the user, or of the life of the app.

*Disagreement* seen while translating: `app/src/platform.rs:168-170` says that the file a crashed
run left behind is cleared at the next start; `remove_own` removes only a file with the own
process id, which the next start has written itself.

### `Counterpart`

Which server a workstation belongs to. `env` and `setting` are the two sources of an address
(three addresses in the code; one question in the set-up answers all three, so they change together),
`seal` the three stored ones it was enrolled against, `at` where the process stands. `Compare` at
every start finds a device that was pointed elsewhere; then `start_afresh` in ten steps, each its own
action: an engine for the old addresses (`BuildOld`), revoke, folder, namespace, session row,
vault (`RevokeOld`, `ClearFolder`, `EmptyNames`, `ClearRow`, `ForgetSecrets`), mark and key set
(`DropMark`, `DropKeys`), the note and the set-up that is owed again (`NoteMove`,
`ReopenSetup`). Then the seal (`WriteSeal`, three times), the engine and the sign-in: enrolment in
two writes (`Enrol`, `MarkEnrolled`), device token, renewal or login; then the beat and the
sign-out. A step of the sign-out that fails, in the vault, the store or the folder, is only logged and the move
goes on (`EmptyNames`, `ClearRow`, `ForgetSecrets`, `ClearFolder`); so may the mark fail when the key set
is written (`MarkEnrolled`). The running app signs out in the same steps, any of which can fail
(`SignOut`), and shows documents it finds in the store (`Children`). The process can end between any two
steps, and be pointed elsewhere again before the next.

Checked by `counterpart`: `MoveInv` (`NoFalseAlarm`: only a device that was really pointed elsewhere
is signed out, whatever half-written seal it has; `SealTrue`; `MoveIsTold`: the note stands until a
page has shown it); `TokensStayHome` (a refresh token is presented to the server that issued it);
`KeepsToItsOwn` (beside a running engine nothing of another server is left: login, documents, key
set); `LeavesAtLast` (a device that points elsewhere leaves its old server, however often the start
is cut off).

*Bounds.* Two servers, two moves (there and back, or twice on before the first is finished), two
faults, each a stop, a failed step, or a time without network. It begins with a fresh workstation, or with one that was enrolled before there was a seal.

*Fairness.* The steps of a start, and that the app is started and ended with the session of the
operating system. None of the sign-in, the server or the user.

*Exceptions in the properties*, each of which the code has: `jammed` (a vault that does not answer
during the move is only logged, `wiring.rs:454`, and the next sign-in presents the old server's token
to the new one), `kept` (login or documents the store refused to clear, or which came without an
enrolment, until a later step clears them), `spared` (a folder that cannot be connected or cleared keeps the
old documents, or is filled from names that were kept), `blind` (moved before there was a seal; the source
calls it a gap), `cut` (a stop, or a write that fails, between mark and key set). The last is a *disagreement* with `wiring.rs:408-412`, "an anchor from another tenant
would silently discard every delivery command of the new one": the comparison asks for the mark
only, so after a stop behind the removed mark nobody removes the anchor, and the enrolment at the new
server is refused for good, or goes through without an anchor of its own
(`MCCounterpart_cut.cfg`). A stop behind the mark also leaves the user untold.

Seen by reading: `start_afresh` leaves the table of commands, the cursor and the notes of the
ingest, so the old outbox is sent to the new server every round; `doctor`, which "changes nothing",
builds an engine whose tasks run and whose `clear_staging` deletes the scratch files of a running app.

### Configurations outside the runs

Each of these checks what a comment, a doc or a test of the repository says and ends in a
counterexample; they are kept because the exemptions in the properties above lean on them.

| Configuration | Property | What the repository says |
|---|---|---|
| `MCDelivery_cursor` | `EverySettled` | the cursor stands for a processed page (`engine/src/delivery.rs:174`, `mock/src/api.rs:767`) |
| `MCNamespace_gone` | `VanishedMeansAfresh` | a folder that has gone means "listing changed" (`fileprovider/src/enumerator.rs:180`, test at `:586`) |
| `MCReconcile_signout`, as its comment says | `ConfirmedIsSame` | a 304 means the stored listing (`engine/src/reconcile.rs:277`, `store/src/namespace.rs:187`) |
| `MCReconcile_signout` | `NoOldName` | nothing of the old user after a sign-out (`engine/src/reconcile.rs:290`, `engine/src/session.rs:924`) |
| `MCMirror_restart` | `ErasedIsGone` | an erasure is applied when the file is gone (`engine/src/delivery.rs:540`, `core/src/delivery.rs:47`) |
| `MCNames_file` | `EveryUserFileStays` | a file of the user's stays where it is (`cfapi/src/platform/callback.rs:382`) |
| `MCSession_uncertain` | `UncertainIsNotRepeated` | an uncertain renewal is never repeated (`engine/src/session.rs:25`, `:713`) |
| `MCIngest_expired` | `IngestedWhatever` | files are ingested by themselves at the next contact (`engine/src/ingest.rs:48`) |
| `MCIngest_again` | `NotSentAgain` | not a second upload after a stop between completion and move (`store/src/ingest.rs:15`) |
| `MCCounterpart_cut` | `NoForeignAnchor` | no anchor from another tenant (`app/src/wiring.rs:408`) |

### How the modules fit together

`Delivery` has one step for what a command does; `Mirror` carries out an erasure in detail,
`Session` a sign-out, `KeySet` a refresh of the keys and the check of a signature, `RateLimit` the
limit. `Reconcile` adopts listings with the rules of `Namespace` (a container without an entry
keeps nothing) and leaves tombstones and journal to it; `Mirror` begins where `Reconcile` ends, with
a listing adopted and a difference to report, and `Names` is the same folder with names in place of
contents. `Opening` composes `WorkerPool` and `Blocks`, and takes
the session's answers and the server's as choices; what becomes of a listing that is fetched there is
`Mirror`'s. On macOS `Bridge` carries what the enumerator of `Namespace` asks. `Counterpart` takes
the sign-in of `Session` and the enrolment of `KeySet` as a few writes each and puts them between
the steps of a move. `KeepsContract` is the refinement that is checked; but for that and `Opening`
the modules are connected by what one takes from the other, as said here, and not by composition: the
product of any two is out of TLC's reach.

## The proofs

Eight modules of theorems, each extending the module it is about; the constants are subject to the
`ASSUME`s of that module and to nothing else. Everywhere the argument is the same: an inductive
invariant made of named parts, one lemma per action that keeps it, and the properties of the run as
consequences. What follows says why the properties are not inductive by themselves.

`DeliveryProofs` proves, for any set of commands and any page size, that every variable
keeps its type (`TypeCorrect`), `AcknowledgedIsKnown` (`Acknowledged`), `HonestVerdict`
(`Honest`), `EffectiveOnce` (`Effective`) and the refinement of `CommandContract`
(`Refinement`). `ChannelInv` adds what the step in progress knows of the row it works on, that a row
with a final outcome was run or refused accordingly, that every message on the wire carries the word
of a row, and that the server heard nothing else: whether an acknowledgement that arrives late is
honest depends on what is on the wire, and that on how the row could have changed since.

The part after it is about `RateLimit`: `RateTypeCorrect` and `RateLimitHolds`, for every limit and every
window. The invariant says that what fell out of the window, on a clock set back by less than the
window, is really older than the window; the places that are recent are then among
those still in the set, of which there are no more than the limit. The argument counts
elements of sets, so `IsFiniteSet` is part of the invariant.

`SessionProofs` proves all five safety properties of `Session` for any number of tasks, tokens,
faults, orders and stops: `SessionTypeCorrect`, `TokensUsedOnce` (`NoReuse`), `RotationFirst`
(`RotationBeforeUse`), `ValidTokenKept` (`ValidIsKept`) and `SignOutStays` (`SignedOutStaysOut`).
`SessionInv` adds: the lock belongs to the one task past it
(`LockTrue`); an answer that is not adopted yet is the newest token and bounds every other
(`NumbersTrue`); what a task redeems is what the vault holds, and if it has been rotated
its fate was unknown before (`HandTrue`); a rotated token lies in the vault only until its successor
is stored (`VaultTrue`); after a sign-out no task is left that could write (`OutTrue`); the token the
server would renew is in the vault or in the answer a task holds (`ValidTrue`).

`NamespaceProofs` proves `NamespaceInv` (`NamespaceHolds`) and `AnsweredAnchorIsTrue`
(`AnsweredAnchorHolds`) for any tree of four levels, any size of the journal and of a page. The
invariant `StoreInv` is the conjunction of the two with the order of the bounds. The two need each
other: whether the platform's entries, caught up with the rows behind its anchor, are those of the
store is decided by what the rows tell, and the rows may be trimmed between any two pages. The weight
lies in lemmas about one operator, the write of a listing's differences into the journal
(`WrittenRows`, `WriteTells`, `WriteChildrenFirst`, `WriteCatchesUp`), which place every changed entry
at a row of its own (`PlaceRange`, `PlaceOrder`). A plan that is asked for container by container may be
of no state the store was ever in; what it must not do is leave out a container whose entries are neither
shown nor told: `Unread` follows what was found and who is still to be asked (`AskFoldersKeeps`,
`TowardsEntry`, `NothingBelow`).

Its second part proves `BridgeInv` (`BridgeHolds`), for any requests, loads, places, chunks and runs of
the app. `BridgeBooks` brings the two ends of a connection together. The app knows where each is: in the
queue, in hand, in the book or let go (`LinePlaced`); the wake-up of its own port reaches the
acceptance thread only after `hold` is set, and a thread that goes on to `accept` has a place left
(`AcceptorTrue`); nothing is left of an earlier life (`LifeTrue`). For the extension `Greeting` and
`Told` bound what can still be on its way to it: no more chunks than were sent, and one end. No message
on the way says "cancelled" (`Said`): a load that ended so has a torn line or an app that goes, and
`Silent` keeps it quiet in both. A wake-up that failed leaves the acceptance thread to
itself, so the invariant speaks of the joined and of the left path separately. A step of the app touches a request only through its line, which the
proof states once (`GoesOn`, `RequestsKeep`).

`ReconcileProofs` proves `ReconcileInv` (`ReconcileHolds`) for any tree, any number of beats and
pull-ups. That a stored etag names the stored listing depends on the requests under way: for a
container that was never fetched twice at once there is at most one (`OneAtATime`), the etag it was
sent with is still the stored one (`SentIsStored`), a 304 is answered only to who sent an etag, and
what is answered are children of the container (`RepliesFit`, `OffersFit`). For an answer in pages it adds
what the pages so far are: the listing of their etag up to the cursor, unless the server changed in between.

`OpeningProofs` proves the three safety properties of `Opening` for any number of threads, requests
and permits, any sizes of the versions and any chunk: `OpeningHolds` (`OpeningInv`), `DeliveredHolds`
(`DeliveredIsListed`), `CancelHolds` (`CancelStops`). `OpenInv` has three parts. The pool in numbers
(`Counted`): the counters of the code against the number of threads at work, awake and asleep, kept
by every critical section (`GiveBooks`, `ThreadBooks`, `ReturnBooks`, `WakeBooks`); `BooksCounted`
shows that this is `BooksBalance` and `NotHeldUp`. The jobs (`JobPart`): queue, stage, thread, switch,
permit and scratch file of a request agree. The content (`Sound`): at each stage of a load, what the
buffer, the scratch file and the delivered units have to do with each other; the lemmas about it
(`TakenWhole`, `PieceSound`, `CompleteSound`, `FailureSound`) are free of state and say what the
operators of `Blocks` do. `CancelStops` for instance is not inductive: a piece that was late is the
only one because afterwards the load stands before a look at a switch that is on, which is in `OneLate`.

A further part of `DeliveryProofs` is about `KeySet`, by which the channel checks its signatures. It
proves `KeySetInv` (`KeySetHolds`) and `NeverBack` (`NothingComesBack`) for any anchors,
keys and publications. `TrustInv` adds that every published set brings the signer of what it
brings (`OffersGrounded`) and that a token goes only to an approved device (`TokenApproved`).
`NeverBack` is an action property; the lemma behind it says that a set that holds no less of
anchors and revocations believes no more of a key it knew (`BelievesNoMore`).

`CounterpartProofs` proves `MoveInv` (`MoveHolds`), `TokensStayHome` (`TokensAtHome`) and
`KeepsToItsOwn` (`NothingForeign`) for any number of servers, moves and faults. `BelongsInv` says at
each step of the start what is known of the server the device really belongs to (`HomeTrue`), of the
half-written seal (`SealFits`), of the note (`ToldTrue`), and that token, login, documents, folder
and anchor belong to it or are gone already. A second move may be asked for at any step of the first, so
none of this follows from the step alone.

`IngestProofs` proves `IngestInv` (`IngestHolds`) and `OneDocumentEach` (`OneDocumentHolds`) for any
paths, keys, uploads, tasks and any limit, whatever the user does. The invariant has two halves. `Books`
(`BrowserHolds`): the types, no more ingests at once than places, what a task between two steps knows
of its note and its upload, and that no capture page opens before its document is there. `Care`
(`CareHolds`): a hand-in is mentioned at one path only (`Apart`), has one upload at most (`OneUploadEach`),
the note of a path leads to the upload of what is still wanted there (`NotesLead`), and what lies over a
file that was read is new (`NewerIsNew`). So a second key is never drawn for the same hand-in: that is
`OneDocumentEach`, which by itself says nothing of the notes from which the key is taken again. Each part of
`Care` excepts the hand-ins in `raced` and nothing else: the point of the proof is that a hand-in put into one
of the two windows harms none but itself, neither what it replaced nor what lies at other paths.

`WindowsProofs` proves what the runs of the Windows folder check of its safety, in two parts.

`Mirror`: `MirrorInv` (`MirrorHolds`), `MirrorTrue` (`MirrorTrueHolds`) and `LoadedIsCurrent`
(`LoadedHolds`), for any documents and versions. The three speak of a folder at rest, so they are not
inductive: `FolderInv` says what holds in between, for every document that two tasks were never at
together and of which Windows refused nothing. At most one task has to do with it, and the last one to have changed it in the store knows its
last entry (`Alone`); the step a task has planned still fits map and disk (`StepFits`); what
the opened folder shows is what the report under way found or leaves (`Resting`); what the callback
that hands a listing over knows of it is true until its follow-up work is done (`Listed`); and content, loaded or on its way, is of the stored version or has a step before it that discards it, but for
a load an update overtook (`Fresh`).

`Names`: `NamesInv` (`NamesHold`), `UserFileStays` (`UserFileStaysHolds`) and `NamesStay`
(`NamesStayHolds`), for any titles, entries and listings. `NamesBooks` says what is
true in the middle of a report. The stored listing has no equal names (`ListingTrue`);
what is left of the report fits the map (`PlanTrue`); an entry whose place is certain (`Firm`) is alone
in it and lies there (`PlacedApart`); an entry that is placed under a name another is to have still has the
step before it that takes it away (`InTheWay`): that is why both stages of every rename come before
the creations, and why `PlanDirect` fails; a placeholder lies where the map has its entry (`Lies`);
an entry without steps left is placed under its name or kept out by a file of the user's (`ShownTrue`);
and such a file lies under a staging name only where the map has an entry (`UsersFiles`). The first
attempt was not inductive, for a reason of the code: an entry of which a step was refused holds on to its
name across reports, so that a listing of much later may want it. `met` follows it.

Assumptions on constants that a proof found missing. `ReconcileAssumption`: what hangs directly below the root is a
container (the three fixed folders, `engine/src/reconcile.rs:95`); without it a beat could have to
fetch a document. `OpeningAssumption`: "nobody" is not the name of a thread. `NamesAssumption` and
`SpotsAssumption`: "not there" is no title and no name. `BridgeAssumption`: the connection the app makes
to its own port is none of the extension's.

**Only model-checked.** The liveness properties (`EverySettled`, `EventuallyShown`,
`EventuallyCurrent`, `WaitersAreAnswered`, `EveryJobEnds`, `DisconnectEnds`, `IngestedAtLast`,
`CatchesUp`, `EveryRequestAnswered`, `StopEnds`, `LeavesAtLast`): fairness and ENABLED are out of the
prover's reach. Every other property the passing runs check is a theorem.

## What is left out

Of the modelled components:

* What DEHYDRATE does document by document (release, unpin, erase, log) is one step of
  `Delivery`; its effect on the store is in `Namespace`, on the folder in `Mirror`.
* The order of siblings in a listing, the wire form of anchors, the enumeration of
  one folder, `clear_erasure` (never called), the checks that refuse a malformed listing other than
  that of equal names.
* Hint files (no network, no check), progress reports, the usage log.
* Frames of the bridge and their limits, breaches of its protocol, the staging file, the held channel.
* The order in which handles are joined, panics beyond what `Sentry` gives back.

### Not modelled

* How a name is spelled (`sanitize`, the reserved names, the limits of length): a pure function on text.
* The single instance (`app/src/single_instance.rs`): a lock of the operating system decides. A
  second start during the end of the first asks an address nobody serves any more, and tells the user
  that elasticdms "is already running but does not answer".
* The uninstaller, `doctor`, the menus, tray and windows: sequential code without shared state, or
  presentation.
* One HTTP exchange with its DPoP nonce and its second attempt (`net/src/transport.rs`): its outcomes are
  the answers that every module chooses from. The wire types: conversions.
* Cryptographic primitives, canonical JSON, the device key in hardware and the vault: what they return
  is a choice or a variable of `Session`, `KeySet` and `Counterpart`; what they compute TLC cannot
  explore. SQLite: a transaction is taken to be atomic and durable.
* Translations, packaging, architecture rules: no state.
* The test server but for the answers `Ingest` and `KeySet` take from it.

Every component is listed in `PROJECT.json` with its status and the reason. About a tenth of the lines of
the source are mapped. The rest is, by size: tests inside the source files, the test server, the
presentation, the wire types, cryptography, the schema; of the engine, the store and the two
platform layers, where the state and the concurrency are, about a fifth of the lines outside tests, comments
included, is mapped.

## The plan

Done: `CommandContract`, `Delivery`, `Namespace`, `RateLimit`, `Reconcile`, `Mirror`, `Names`, `Session`,
`WorkerPool`, `Blocks`, `Opening`, `Ingest`, `KeySet`, `Bridge`, `Counterpart`, with the proofs of
`Delivery`, `RateLimit`, `Session`, `Namespace`, `Reconcile`, `Opening` with its pool and its blocks,
`Ingest`, `KeySet`, `Counterpart`, `Mirror`, `Names` and `Bridge`.

To prove next: the steps on which the liveness properties rest, as safety: that a measure falls with every
fair step (the messages on the way in `Bridge`, the steps of a report in `Mirror`, the stages of an
upload in `Ingest`).

To model next: subfolders, pins and `SPACE_RECLAIM` in `Mirror`, the single
instance.

The runs are one per question: a module's own properties in one run (`Names` and `RateLimit`, both small,
share one: a behaviour of `MCNames` is one of either), and one for the disagreement whose
consequence is the gravest.
