-------------------------------- MODULE Ingest --------------------------------
(***************************************************************************)
(* The mail baskets, engine/src/ingest.rs: a file that appears in a basket *)
(* is announced by the platform, watched until it stands still, noted      *)
(* with an idempotency key, uploaded, completed, put aside in the holding  *)
(* directory and only then forgotten; after the batch the browser opens.   *)
(* The server is the one of mock/src/api.rs.                               *)
(*                                                                         *)
(* A hand-in is a number: every file the user puts into a basket has       *)
(* content and a modification time of its own, and all have the same size. *)
(* A path is a file name in its basket.  The line may be down, an answer   *)
(* may be lost, a grant may expire and the process may end between any two *)
(* steps; each counts as a fault.                                          *)
(*                                                                         *)
(* Left out: names that are passed over, files that grow (a replaced file  *)
(* is the harder case), the usage log, a basket the server has removed.    *)
(***************************************************************************)
EXTENDS Naturals, Sequences, FiniteSets, Functions

CONSTANTS Paths,       \* the files' places in the baskets
          MaxHandIns,  \* bound: how many files the user drops in all
          Ingests,     \* CONCURRENT_INGESTS
          MaxFaults,   \* bound: stops, lost answers, times without line or login and expiries
          MaxExpiries  \* bound: how many grants expire

ASSUME IngestAssumption ==
  /\ IsFiniteSet(Paths) /\ Paths # {}
  /\ MaxHandIns \in Nat /\ Ingests \in Nat \ {0}
  /\ MaxFaults \in Nat /\ MaxExpiries \in Nat

VARIABLES
  lies,      \* per path: the hand-in that lies there, 0 if none
  handed,    \* how many files were handed in
  withdrawn, \* the hand-ins the user himself took back or wrote over
  cleared,   \* the hand-ins a sign-out found in the baskets
  raced,     \* the hand-ins that were put over a file just when the program trusted it
  heard,     \* the uploads whose completion the program has heard of
  announced, \* Announced::files
  sample,    \* Watch::observes: per path the hand-in seen at the last look, 0 if none
  ripe,      \* the paths whose sample is older than STABLE
  resting,   \* Watch::retry_after: the paths that wait for RETRY_AFTER
  task,      \* per path: the ingest of the running batch
  note,      \* the store's notes: per path key and stamp
  keys,      \* how many idempotency keys were made
  holding,   \* the holding directory: per upload the file in it
  opened,    \* the uploads whose capture page was opened
  upload,    \* server: the uploads, in the order of their grants
  grantOf,   \* server: per idempotency key the upload it led to, 0 if none
  online,    \* somebody is signed in and the server can be reached
  faults

pastVars == <<withdrawn, cleared, raced, heard>> \* what only the properties know
diskVars == <<lies, handed, holding, pastVars>>
watchVars == <<announced, sample, ripe, resting>>
serverVars == <<upload, grantOf>>
worldVars == <<online, faults>>
vars == <<diskVars, watchVars, serverVars, worldVars, task, note, keys, opened>>

HandIn == 1 .. MaxHandIns
Stages == {"idle", "waits", "begun", "stat", "checked", "noted", "granted", "sent", "complete",
           "copied", "held", "ok", "bad", "foreign"}
Idle == [stage |-> "idle", stamp |-> 0, sha |-> 0, key |-> 0, upload |-> 0]
NoNote == [key |-> 0, stamp |-> 0, upload |-> 0]

Fault == faults < MaxFaults /\ faults' = faults + 1
Heard == UNCHANGED faults

Batch == {p \in Paths : task[p].stage # "idle"}
At(p, stage) == task[p].stage = stage
Over == {"ok", "bad", "foreign"}
Working == {p \in Batch : task[p].stage \notin {"waits"} \cup Over}

TypeOK ==
  /\ lies \in [Paths -> 0 .. MaxHandIns]
  /\ handed \in 0 .. MaxHandIns
  /\ withdrawn \subseteq HandIn /\ cleared \subseteq HandIn /\ raced \subseteq HandIn
  /\ heard \subseteq DOMAIN upload
  /\ announced \subseteq Paths /\ ripe \subseteq Paths /\ resting \subseteq Paths
  /\ sample \in [Paths -> 0 .. MaxHandIns]
  /\ task \in [Paths -> [stage : Stages, stamp : 0 .. MaxHandIns, sha : 0 .. MaxHandIns,
                         key : 0 .. keys, upload : 0 .. Len(upload)]]
  /\ note \in [Paths -> [key : 0 .. keys, stamp : 0 .. MaxHandIns, upload : 0 .. Len(upload)]]
  /\ upload \in Seq([sha : HandIn, bytes : BOOLEAN, expired : BOOLEAN, done : BOOLEAN])
  /\ grantOf \in [1 .. keys -> 0 .. Len(upload)]
  /\ holding \in [1 .. Len(upload) -> 0 .. MaxHandIns]
  /\ opened \subseteq DOMAIN upload
  /\ online \in BOOLEAN
  /\ faults \in 0 .. MaxFaults
  /\ Cardinality(Working) <= Ingests

Init ==
  /\ lies = [p \in Paths |-> 0]
  /\ handed = 0
  /\ withdrawn = {} /\ cleared = {} /\ raced = {} /\ heard = {}
  /\ announced = {} /\ ripe = {} /\ resting = {}
  /\ sample = [p \in Paths |-> 0]
  /\ task = [p \in Paths |-> Idle]
  /\ note = [p \in Paths |-> NoNote]
  /\ keys = 0
  /\ holding = <<>>
  /\ opened = {}
  /\ upload = <<>>
  /\ grantOf = <<>>
  /\ online = TRUE
  /\ faults = 0

-------------------------------------------------------------------------------
(***************************************************************************)
(* The user and the platform.                                              *)
(***************************************************************************)
Lying == {lies[p] : p \in Paths} \ {0}

\* the file's modification time is read and its bytes are not, or its bytes are at the server and
\* the path is not looked at again before it is moved
Trusted(p) == task[p].stage \in {"stat", "sent", "complete", "copied"}

\* a new file, or one that takes the place of another
Drops(p) ==
  /\ handed < MaxHandIns
  /\ handed' = handed + 1
  /\ lies' = [lies EXCEPT ![p] = handed + 1]
  /\ withdrawn' = withdrawn \cup ({lies[p]} \ {0})
  /\ raced' = IF Trusted(p) THEN raced \cup {handed + 1} ELSE raced
  /\ UNCHANGED <<watchVars, serverVars, worldVars, task, note, keys, opened, holding, cleared,
                 heard>>

PullsOut(p) ==
  /\ lies[p] # 0
  /\ withdrawn' = withdrawn \cup {lies[p]}
  /\ lies' = [lies EXCEPT ![p] = 0]
  /\ UNCHANGED <<watchVars, serverVars, worldVars, task, note, keys, opened, handed, holding,
                 cleared, raced, heard>>

\* clear_after_sign_out: the mirror is emptied, the baskets in it too
SignsOut ==
  /\ cleared' = cleared \cup Lying
  /\ lies' = [p \in Paths |-> 0]
  /\ online' = FALSE
  /\ Fault
  /\ UNCHANGED <<watchVars, serverVars, task, note, keys, opened, handed, withdrawn, raced, heard,
                 holding>>

\* the platform's beat looks into the baskets; Intake::file_appeared
file_appeared(p) ==
  /\ lies[p] # 0
  /\ p \notin announced
  /\ announced' = announced \cup {p}
  /\ UNCHANGED <<diskVars, serverVars, worldVars, task, note, keys, opened, sample, ripe, resting>>

-------------------------------------------------------------------------------
(***************************************************************************)
(* The watch.  Two times pass: STABLE for a sample, RETRY_AFTER for a file *)
(* that failed.                                                            *)
(***************************************************************************)
Ripens(p) ==
  /\ sample[p] # 0
  /\ p \notin ripe
  /\ ripe' = ripe \cup {p}
  /\ UNCHANGED <<diskVars, serverVars, worldVars, task, note, keys, opened, announced, sample,
                 resting>>

RestIsOver(p) ==
  /\ p \in resting
  /\ resting' = resting \ {p}
  /\ UNCHANGED <<diskVars, serverVars, worldVars, task, note, keys, opened, announced, sample, ripe>>

Alive == {p \in announced : lies[p] # 0}
Unchanged == {p \in Alive : sample[p] = lies[p]}
Finished == (Unchanged \cap ripe) \ resting

\* one look at everything that was announced; without a login nothing begins
pass ==
  /\ Batch = {}
  /\ announced' = Alive
  /\ sample' = [p \in Paths |-> IF p \in Alive THEN lies[p] ELSE 0]
  /\ ripe' = ripe \cap Unchanged
  /\ resting' = resting \cap Unchanged
  /\ task' = [p \in Paths |-> IF online /\ p \in Finished THEN [Idle EXCEPT !.stage = "waits"]
                              ELSE Idle]
  /\ UNCHANGED <<diskVars, serverVars, worldVars, note, keys, opened>>

Failed == {p \in Batch : task[p].stage \in {"bad", "foreign"}}

Captures == {task[p].upload : p \in {q \in Batch : At(q, "ok")}}

\* adopt_batch waits for every file of the batch
Joined == Batch # {} /\ \A p \in Batch : task[p].stage \in Over

\* the end of adopt_batch and of pass: the browser opens, and who failed rests
BatchEnds ==
  /\ Joined
  /\ opened' = opened \cup Captures
  /\ resting' = resting \cup Failed
  /\ task' = [p \in Paths |-> Idle]
  /\ UNCHANGED <<diskVars, serverVars, worldVars, note, keys, announced, sample, ripe>>

-------------------------------------------------------------------------------
(***************************************************************************)
(* adopt_file, step by step.                                               *)
(***************************************************************************)
Goes(p, stage) == task' = [task EXCEPT ![p].stage = stage]

localVars == <<diskVars, watchVars, worldVars, opened>>

Begins(p) ==
  /\ At(p, "waits")
  /\ Cardinality(Working) < Ingests
  /\ Goes(p, "begun")
  /\ UNCHANGED <<localVars, serverVars, note, keys>>

\* check_file: first the modification time, then the bytes
Stats(p) ==
  /\ At(p, "begun")
  /\ IF lies[p] = 0 THEN Goes(p, "bad")
     ELSE task' = [task EXCEPT ![p].stage = "stat", ![p].stamp = lies[p]]
  /\ UNCHANGED <<localVars, serverVars, note, keys>>

Hashes(p) ==
  /\ At(p, "stat")
  /\ IF lies[p] = 0 THEN Goes(p, "bad")
     ELSE task' = [task EXCEPT ![p].stage = "checked", ![p].sha = lies[p]]
  /\ UNCHANGED <<localVars, serverVars, note, keys>>

\* Mutant: whatever note there is will do
Fits_Any(p) == note[p].key # 0

\* Mutant: every attempt gets a key of its own
Fits_Never(p) == FALSE

\* InboxPending::matches
Fits(p) == note[p].key # 0 /\ note[p].stamp = task[p].stamp

\* pending: the note that still fits, or a new one
Notes(p) ==
  /\ At(p, "checked")
  /\ IF Fits(p)
     THEN /\ task' = [task EXCEPT ![p].stage = "noted", ![p].key = note[p].key]
          /\ UNCHANGED <<note, keys, grantOf>>
     ELSE /\ keys' = keys + 1
          /\ note' = [note EXCEPT ![p] = [key |-> keys + 1, stamp |-> task[p].stamp, upload |-> 0]]
          /\ task' = [task EXCEPT ![p].stage = "noted", ![p].key = keys + 1]
          /\ grantOf' = Append(grantOf, 0)
  /\ UNCHANGED <<localVars, upload>>

\* set_inbox_upload: before the bytes go out
GetsGrant(p, u) ==
  /\ task' = [task EXCEPT ![p].stage = "granted", ![p].upload = u]
  /\ note' = [note EXCEPT ![p].upload = u]

\* inbox_create; the server's upload_apply_for: a key it knows gets the grant it got before.  The
\* answer may be lost, or the store may refuse to record the grant.
Creates(p) ==
  /\ At(p, "noted") /\ online
  /\ LET k == task[p].key IN
     \/ /\ grantOf[k] = 0
        /\ upload' = Append(upload, [sha |-> task[p].sha, bytes |-> FALSE, expired |-> FALSE,
                                     done |-> FALSE])
        /\ grantOf' = [grantOf EXCEPT ![k] = Len(upload) + 1]
        /\ holding' = Append(holding, 0)
        /\ \/ Heard /\ GetsGrant(p, Len(upload) + 1)
           \/ Fault /\ Goes(p, "bad") /\ UNCHANGED note
     \/ /\ grantOf[k] # 0 /\ upload[grantOf[k]].sha = task[p].sha
        /\ \/ Heard /\ GetsGrant(p, grantOf[k])
           \/ Fault /\ Goes(p, "bad") /\ UNCHANGED note
        /\ UNCHANGED <<serverVars, holding>>
     \/ /\ grantOf[k] # 0 /\ upload[grantOf[k]].sha # task[p].sha
        /\ Heard
        /\ Goes(p, "bad") \* 422 idempotency-key-reuse
        /\ UNCHANGED <<serverVars, holding, note>>
  /\ UNCHANGED <<lies, handed, pastVars, watchVars, online, keys, opened>>

\* load_high opens the file anew; upload_send takes only the bytes that were announced
Sends(p) ==
  /\ At(p, "granted") /\ online
  /\ LET u == task[p].upload IN
     IF lies[p] = upload[u].sha /\ ~upload[u].expired
     THEN /\ upload' = [upload EXCEPT ![u].bytes = TRUE]
          /\ \/ Heard /\ Goes(p, "sent")
             \/ Fault /\ Goes(p, "bad")
     ELSE Heard /\ Goes(p, "bad") /\ UNCHANGED upload
  /\ UNCHANGED <<diskVars, watchVars, online, note, keys, opened, grantOf>>

\* Mutant: whatever the server says to the completion, the file is put aside
Completes_Blind(p) ==
  /\ At(p, "sent")
  /\ LET u == task[p].upload IN
     IF online /\ upload[u].bytes /\ ~upload[u].expired
     THEN upload' = [upload EXCEPT ![u].done = TRUE]
     ELSE UNCHANGED upload
  /\ Goes(p, "complete")
  /\ heard' = heard \cup {task[p].upload}
  /\ UNCHANGED <<lies, handed, holding, withdrawn, cleared, raced, watchVars, worldVars, note, keys,
                 opened, grantOf>>

\* inbox_complete; upload_complete
Completes(p) ==
  /\ At(p, "sent") /\ online
  /\ LET u == task[p].upload IN
     IF upload[u].bytes /\ ~upload[u].expired
     THEN /\ upload' = [upload EXCEPT ![u].done = TRUE]
          /\ \/ Heard /\ Goes(p, "complete") /\ heard' = heard \cup {u}
             \/ Fault /\ Goes(p, "bad") /\ UNCHANGED heard
     ELSE Heard /\ Goes(p, "bad") /\ UNCHANGED <<upload, heard>>
  /\ UNCHANGED <<lies, handed, holding, withdrawn, cleared, raced, watchVars, online, note, keys,
                 opened, grantOf>>

\* without line or login the call in hand fails
NoAnswer(p) ==
  /\ task[p].stage \in {"noted", "granted", "sent"}
  /\ ~online
  /\ Goes(p, "bad")
  /\ UNCHANGED <<localVars, serverVars, note, keys>>

\* hold: rename, or where that fails (another volume) copy first and remove afterwards
holdVars == <<handed, pastVars, watchVars, worldVars, serverVars, note, keys, opened>>

Renames(p) ==
  /\ At(p, "complete") /\ lies[p] # 0
  /\ holding' = [holding EXCEPT ![task[p].upload] = lies[p]]
  /\ lies' = [lies EXCEPT ![p] = 0]
  /\ Goes(p, "held")
  /\ UNCHANGED holdVars

Copies(p) ==
  /\ At(p, "complete")
  /\ IF lies[p] = 0
     THEN Goes(p, "bad") /\ UNCHANGED holding
     ELSE Goes(p, "copied") /\ holding' = [holding EXCEPT ![task[p].upload] = lies[p]]
  /\ UNCHANGED <<holdVars, lies>>

Removes(p) ==
  /\ At(p, "copied")
  /\ Goes(p, IF lies[p] = 0 THEN "bad" ELSE "held")
  /\ lies' = [lies EXCEPT ![p] = 0]
  /\ UNCHANGED <<holdVars, holding>>

\* forget_inbox, and the queue forgets the file too; the store may refuse, and so may the check of
\* the address the server names, when the note has gone already
Forgets(p) ==
  /\ At(p, "held")
  /\ \/ /\ note' = [note EXCEPT ![p] = NoNote]
        /\ announced' = announced \ {p}
        /\ Goes(p, "ok") /\ Heard
     \/ /\ note' = [note EXCEPT ![p] = NoNote]
        /\ Goes(p, "foreign") /\ Fault
        /\ UNCHANGED announced
     \/ Goes(p, "bad") /\ Fault /\ UNCHANGED <<note, announced>>
  /\ UNCHANGED <<diskVars, serverVars, online, keys, opened, sample, ripe, resting>>

Step(p) ==
  \/ Begins(p) \/ Stats(p) \/ Hashes(p) \/ Notes(p) \/ Creates(p) \/ Sends(p)
  \/ Completes(p) \/ NoAnswer(p) \/ Renames(p) \/ Copies(p) \/ Removes(p) \/ Forgets(p)

-------------------------------------------------------------------------------
(***************************************************************************)
(* What may happen to all of it.                                           *)
(***************************************************************************)
\* the process ends and starts again: the queue and the watch were only in memory
Restart ==
  /\ Fault
  /\ announced' = {} /\ ripe' = {} /\ resting' = {}
  /\ sample' = [p \in Paths |-> 0]
  /\ task' = [p \in Paths |-> Idle]
  /\ UNCHANGED <<diskVars, serverVars, online, note, keys, opened>>

GoesOffline ==
  /\ online
  /\ Fault
  /\ online' = FALSE
  /\ UNCHANGED <<diskVars, watchVars, serverVars, task, note, keys, opened>>

ComesBack ==
  /\ ~online
  /\ online' = TRUE
  /\ UNCHANGED <<diskVars, watchVars, serverVars, faults, task, note, keys, opened>>

Expired == Cardinality({u \in DOMAIN upload : upload[u].expired})

Expires(u) ==
  /\ Expired < MaxExpiries
  /\ ~upload[u].expired
  /\ Fault
  /\ upload' = [upload EXCEPT ![u].expired = TRUE]
  /\ UNCHANGED <<diskVars, watchVars, online, task, note, keys, opened, grantOf>>

Next ==
  \/ \E p \in Paths : Drops(p) \/ PullsOut(p) \/ file_appeared(p) \/ Ripens(p) \/ RestIsOver(p)
  \/ pass \/ BatchEnds
  \/ \E p \in Paths : Step(p)
  \/ SignsOut \/ Restart \/ GoesOffline \/ ComesBack
  \/ \E u \in DOMAIN upload : Expires(u)

(***************************************************************************)
(* The beat of the platform, the beat of the watch, the times that pass    *)
(* and the tasks of a batch all go on by themselves; whoever is offline or *)
(* signed out comes back (the faults are bounded).  Nothing is assumed of  *)
(* the user.                                                               *)
(***************************************************************************)
Fairness ==
  /\ \A p \in Paths : /\ WF_vars(file_appeared(p)) /\ WF_vars(Ripens(p))
                      /\ WF_vars(RestIsOver(p)) /\ WF_vars(Step(p))
  /\ WF_vars(pass) /\ WF_vars(BatchEnds)
  /\ WF_vars(ComesBack)

Spec == Init /\ [][Next]_vars /\ Fairness

-------------------------------------------------------------------------------
(***************************************************************************)
(* What the ingest promises.                                               *)
(***************************************************************************)
Done == {u \in DOMAIN upload : upload[u].done}
Held == {u \in DOMAIN upload : holding[u] # 0}

\* However often a hand-in is attempted, after lost answers, restarts and failures anywhere, the
\* server gets at most one document from it (store/ingest.rs: the key stays the same for every
\* repetition, "therefore not a second upload"); unless it was put over another file just when the
\* program trusted that one, and is known under the other's modification time (check_file).
OneDocumentEach ==
  \A u, v \in Done : upload[u].sha = upload[v].sha => u = v \/ upload[u].sha \in raced

\* What lies in the holding directory is what the server has: the file leaves the basket only when
\* its ingest is complete, and it is the file that was uploaded, or one that was put in its place
\* between the upload and the move (ingest.rs, hold).
HeldIsIngested ==
  \A u \in Held : u \in Done /\ (holding[u] = upload[u].sha \/ holding[u] \in raced)

\* Nothing is ever deleted by the ingest: what the user handed in and did not take back himself
\* lies in the basket or in the holding directory (ingest.rs: "Never delete"), unless a sign-out
\* found it in the basket or it took the place of a file between copy and removal.
NothingDeleted ==
  1 .. handed \subseteq
    Lying \cup {holding[u] : u \in Held} \cup withdrawn \cup cleared \cup raced

\* Upload first, then the browser: a capture page is opened only for a document the server has
\* (ingest.rs: "The order is the rule").
BrowserAfterIngest == opened \subseteq Done

\* The books of the ingest: what was put aside is what the server has, nothing that was handed in
\* disappears, no page opens too early.
IngestInv ==
  /\ TypeOK
  /\ HeldIsIngested
  /\ NothingDeleted
  /\ BrowserAfterIngest

\* What lies in a basket is ingested by itself, whatever failed before, unless the user takes it
\* back (ingest.rs: "Offline everything stays lying. The files are ingested by themselves at the
\* next contact").
IngestedWhatever ==
  \A p \in Paths : \A h \in HandIn : (lies[p] = h) ~> (lies[p] # h)

\* "If the machine crashes between :complete and the move, the engine finds the identifier again and
\* puts the file there instead of uploading it a second time" (store/ingest.rs).
NotSentAgain ==
  [][\A p \in Paths : At(p, "granted") /\ At(p, "sent")' => task[p].upload \notin heard]_vars

\* The same for as long as no grant expires.
IngestedAtLast ==
  \A p \in Paths : \A h \in HandIn : (lies[p] = h) ~> (lies[p] # h \/ Expired > 0)

===============================================================================
