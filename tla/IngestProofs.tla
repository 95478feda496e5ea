---------------------------- MODULE IngestProofs ----------------------------
(***************************************************************************)
(* Ingest for any number of baskets and files, any number of ingests at a  *)
(* time, any number of faults and expired grants.                          *)
(*                                                                         *)
(* Whatever the user does, Books and Care hold: a hand-in is mentioned at  *)
(* one path only, has one upload, and as long as it is still wanted the    *)
(* note of its path leads to that upload; so no new key can bring a second *)
(* one.  A hand-in that was put over a file just when the program trusted  *)
(* that one (raced) may have more; it never passes for another.            *)
(***************************************************************************)
EXTENDS Ingest, FiniteSetTheorems, SequenceTheorems, TLAPS

(***************************************************************************)
(* Types, part by part.                                                    *)
(***************************************************************************)
Task == [stage : Stages, stamp : 0 .. MaxHandIns, sha : 0 .. MaxHandIns,
         key : 0 .. keys, upload : 0 .. Len(upload)]
Note == [key : 0 .. keys, stamp : 0 .. MaxHandIns, upload : 0 .. Len(upload)]
Upload == [sha : HandIn, bytes : BOOLEAN, expired : BOOLEAN, done : BOOLEAN]

DiskTypes ==
  /\ lies \in [Paths -> 0 .. MaxHandIns]
  /\ handed \in 0 .. MaxHandIns
  /\ withdrawn \subseteq HandIn /\ cleared \subseteq HandIn /\ raced \subseteq HandIn
WatchTypes ==
  /\ announced \subseteq Paths /\ ripe \subseteq Paths /\ resting \subseteq Paths
  /\ sample \in [Paths -> 0 .. MaxHandIns]
WorldTypes == online \in BOOLEAN /\ faults \in 0 .. MaxFaults
ServerTypes ==
  /\ keys \in Nat
  /\ upload \in Seq(Upload)
  /\ grantOf \in [1 .. keys -> 0 .. Len(upload)]
  /\ holding \in [1 .. Len(upload) -> 0 .. MaxHandIns]
  /\ opened \subseteq DOMAIN upload /\ heard \subseteq DOMAIN upload
NoteTypes == note \in [Paths -> Note]
TaskTypes == task \in [Paths -> Task]
Bounded == Cardinality(Working) <= Ingests

Types == /\ DiskTypes /\ WatchTypes /\ WorldTypes /\ ServerTypes
         /\ NoteTypes /\ TaskTypes /\ Bounded

(***************************************************************************)
(* What a task knows: the note it works under, the upload it was granted,  *)
(* and whether that is complete.                                           *)
(***************************************************************************)
Keyed   == {"noted", "granted", "sent", "complete", "copied", "held"}
Granted == {"granted", "sent", "complete", "copied", "held", "ok"}
Through == {"complete", "copied", "held", "ok"}

Knows(p) ==
  /\ task[p].stage \in {"checked"} \cup Keyed => task[p].sha # 0
  /\ task[p].stage \in Keyed =>
       /\ task[p].key # 0
       /\ note[p].key = task[p].key /\ note[p].stamp = task[p].stamp
  /\ task[p].stage \in Granted =>
       /\ task[p].upload # 0
       /\ upload[task[p].upload].sha = task[p].sha
  /\ task[p].stage \in Through => upload[task[p].upload].done

Books == Types /\ (\A p \in Paths : Knows(p)) /\ BrowserAfterIngest

(***************************************************************************)
(* Which hand-ins the program has read, which of them are whose, and what  *)
(* the server has of them.                                                 *)
(***************************************************************************)
HasRead(p) ==
  /\ task[p].stage \in {"stat", "checked"} \cup Keyed => task[p].stamp # 0
  /\ task[p].stage \in {"checked"} \cup Keyed => task[p].sha \in {task[p].stamp} \cup raced

\* the file the task has read lies there still, or the user took it or a sign-out did
StillThere(p) ==
  \/ lies[p] = task[p].sha
  \/ task[p].sha \in withdrawn \cup cleared /\ lies[p] \in {0} \cup raced

InPlace(p) ==
  /\ At(p, "stat") => lies[p] \in {0, task[p].stamp} \cup raced
  /\ task[p].stage \in {"sent", "complete", "copied"} => StillThere(p)
  /\ At(p, "copied") /\ lies[p] = task[p].sha => holding[task[p].upload] = task[p].sha
  /\ At(p, "held") => lies[p] # task[p].stamp

Mine(p) == {lies[p], task[p].stamp, task[p].sha, note[p].stamp} \ {0}

Apart == \A p, q \in Paths : p # q => Mine(p) \cap Mine(q) = {}
InHand ==
  /\ \A p \in Paths : Mine(p) \subseteq 1 .. handed
  /\ \A u \in DOMAIN upload : upload[u].sha <= handed

OneUploadEach ==
  \A u, v \in DOMAIN upload : upload[u].sha = upload[v].sha => u = v \/ upload[u].sha \in raced

\* the hand-in that lies at p, or that p's task has read and has not put aside
Wanted(p, h) == h = lies[p] \/ (task[p].stage \notin {"ok", "foreign"} /\ h = task[p].stamp)
Leads(p, u) == note[p].key # 0 /\ note[p].stamp = upload[u].sha /\ grantOf[note[p].key] = u
NotesLead ==
  \A u \in DOMAIN upload : upload[u].sha \notin raced =>
    \A p \in Paths : Wanted(p, upload[u].sha) => Leads(p, u)

NewerIsNew ==
  \A p \in Paths : task[p].stamp # 0 /\ lies[p] \notin {task[p].stamp} \cup raced =>
    \A u \in DOMAIN upload : upload[u].sha # lies[p]

Care ==
  /\ \A p \in Paths : HasRead(p) /\ InPlace(p)
  /\ Apart /\ InHand
  /\ OneUploadEach /\ NotesLead /\ NewerIsNew
  /\ HeldIsIngested /\ NothingDeleted

-----------------------------------------------------------------------------
(* Lemmas about the parts *)

\* The type invariant is the named parts.
LEMMA TypesAre == TypeOK /\ keys \in Nat <=> Types
BY DEF TypeOK, Types, DiskTypes, WatchTypes, WorldTypes, ServerTypes, NoteTypes, TaskTypes, Bounded,
       Task, Note, Upload

\* The uploads are numbered in the order of their grants (upload_apply_for).
LEMMA UploadsAre == ServerTypes =>
  /\ Len(upload) \in Nat
  /\ DOMAIN upload = 1 .. Len(upload)
  /\ \A u \in DOMAIN upload : upload[u] \in Upload
BY LenProperties, ElementOfSeq DEF ServerTypes

\* A task that goes on works as before, or a place was free (Semaphore of adopt_batch).
LEMMA WorkersBounded ==
  ASSUME Types, NEW p \in Paths, \A q \in Paths \ {p} : task'[q] = task[q],
         \/ p \in Working
         \/ Cardinality(Working) < Ingests
         \/ task'[p].stage \in {"idle", "waits"} \cup Over
  PROVE  Bounded'
<1>1. IsFiniteSet(Working) /\ IsFiniteSet(Working')
  BY FS_Subset, IngestAssumption DEF Working, Batch
<1>2. Cardinality(Working) \in Nat /\ Cardinality(Working') \in Nat
  BY <1>1, FS_CardinalityType
<1>3. Working' \subseteq Working \cup {p}
  BY DEF Working, Batch
<1>4. IsFiniteSet(Working \cup {p}) /\ Cardinality(Working') <= Cardinality(Working \cup {p})
  BY <1>1, <1>3, FS_AddElement, FS_Subset
<1>5. CASE p \in Working
  <2>1. Working' \subseteq Working
    BY <1>3, <1>5
  <2>. QED
    BY <1>1, <1>2, <2>1, FS_Subset, IngestAssumption DEF Types, Bounded
<1>6. CASE Cardinality(Working) < Ingests
  <2>1. Cardinality(Working \cup {p}) \in {Cardinality(Working), Cardinality(Working) + 1}
    BY <1>1, FS_AddElement
  <2>. QED
    BY <1>2, <1>4, <1>6, <2>1, IngestAssumption DEF Bounded
<1>7. CASE task'[p].stage \in {"idle", "waits"} \cup Over
  <2>1. Working' \subseteq Working
    BY <1>3, <1>7 DEF Working, Batch
  <2>. QED
    BY <1>1, <1>2, <2>1, FS_Subset, IngestAssumption DEF Types, Bounded
<1>. QED
  BY <1>5, <1>6, <1>7

\* Nobody works after a batch or a restart.
LEMMA NobodyWorks ==
  ASSUME \A q \in Paths : task'[q].stage \in {"idle", "waits"}
  PROVE  Bounded'
<1>1. Working' = {}
  BY DEF Working, Batch
<1>2. Cardinality(Working') = 0
  BY <1>1, FS_EmptySet
<1>. QED
  BY <1>2, IngestAssumption DEF Bounded

\* What a task knows stays true as long as its note stands and the uploads only get on.
GetsOn ==
  /\ DOMAIN upload \subseteq DOMAIN upload'
  /\ \A u \in DOMAIN upload : /\ upload'[u].sha = upload[u].sha
                              /\ upload[u].done => upload'[u].done

LEMMA KnowsStill ==
  ASSUME Books, NEW q \in Paths, task'[q] = task[q], note'[q] = note[q], GetsOn
  PROVE  Knows(q)'
<1>1. task[q] \in Task /\ Knows(q)
  BY DEF Books, Types, TaskTypes
<1>2. task[q].stage \in Granted => task[q].upload \in DOMAIN upload
  BY <1>1, UploadsAre DEF Books, Types, Knows, Task
<1>. QED
  BY <1>1, <1>2 DEF Knows, GetsOn, Granted, Through

\* A page that was opened stays one of a document the server has.
LEMMA BrowserStill ==
  ASSUME Books, GetsOn, UNCHANGED opened
  PROVE  BrowserAfterIngest'
BY DEF Books, GetsOn, BrowserAfterIngest, Done

-----------------------------------------------------------------------------
(* The books, step by step, however careless the user. *)

Others(p) == \A q \in Paths \ {p} : task'[q] = task[q] /\ note'[q] = note[q]

\* One task goes on and leaves the others and their notes alone (adopt_file).
LEMMA OneGoesOn ==
  ASSUME Books, NEW p \in Paths, Types', Others(p), GetsOn, UNCHANGED opened, Knows(p)'
  PROVE  Books'
<1>1. \A q \in Paths : Knows(q)'
  <2>1. SUFFICES ASSUME NEW q \in Paths, q # p PROVE Knows(q)'
    OBVIOUS
  <2>. QED
    BY <2>1, KnowsStill DEF Others
<1>. QED
  BY <1>1, BrowserStill DEF Books

\* A step that only leads to another stage.
LEMMA GoesTo ==
  ASSUME TaskTypes, NEW p \in Paths, NEW stage \in Stages, Goes(p, stage)
  PROVE  /\ task' \in [Paths -> Task]
         /\ \A q \in Paths \ {p} : task'[q] = task[q]
         /\ task'[p].stage = stage /\ task'[p].stamp = task[p].stamp
         /\ task'[p].sha = task[p].sha /\ task'[p].key = task[p].key
         /\ task'[p].upload = task[p].upload
BY DEF TaskTypes, Task, Goes

\* Grants and keys become more: what a task knows of them stays in range.
LEMMA TaskGrows ==
  ASSUME NEW k \in Nat, NEW n \in Nat, k >= keys, n >= Len(upload), ServerTypes,
         keys' = k, Len(upload') = n
  PROVE  Task \subseteq Task' /\ Note \subseteq Note'
<1>1. keys \in Nat /\ Len(upload) \in Nat
  BY UploadsAre DEF ServerTypes
<1>2. 0 .. keys \subseteq 0 .. k /\ 0 .. Len(upload) \subseteq 0 .. n
  BY <1>1
<1>3. (0 .. keys)' = 0 .. k /\ (0 .. Len(upload))' = 0 .. n
  OBVIOUS
<1>. QED
  BY <1>2, <1>3 DEF Task, Note

\* Nothing at the server, in the notes or in a task changes.
Quiet == UNCHANGED <<serverVars, task, note, keys, opened, holding, heard>>

\* The user, the watch and the line leave the books as they are.
LEMMA QuietKeepsBooks == Books /\ Quiet /\ DiskTypes' /\ WatchTypes' /\ WorldTypes' => Books'
<1>. SUFFICES ASSUME Books, Quiet, DiskTypes', WatchTypes', WorldTypes' PROVE Books'
  OBVIOUS
<1>1. ServerTypes' /\ NoteTypes' /\ TaskTypes' /\ Bounded'
  <2>1. ServerTypes'
    BY DEF Books, Types, Quiet, ServerTypes, serverVars, Upload
  <2>2. NoteTypes' /\ TaskTypes'
    BY DEF Books, Types, Quiet, NoteTypes, TaskTypes, serverVars, Note, Task
  <2>3. Bounded'
    BY DEF Books, Types, Quiet, Bounded, Working, Batch
  <2>. QED
    BY <2>1, <2>2, <2>3
<1>2. GetsOn
  BY DEF Quiet, GetsOn, serverVars
<1>3. \A q \in Paths : Knows(q)'
  BY <1>2, KnowsStill DEF Quiet
<1>4. BrowserAfterIngest'
  BY <1>2, BrowserStill DEF Quiet
<1>. QED
  BY <1>1, <1>3, <1>4 DEF Books, Types

\* The line comes and goes, and every fault counts.
LEMMA WorldGoesOn ==
  ASSUME WorldTypes, online' \in {TRUE, FALSE, online}, Fault \/ UNCHANGED faults
  PROVE  WorldTypes'
<1>1. online' \in BOOLEAN
  BY DEF WorldTypes
<1>2. faults' \in 0 .. MaxFaults
  BY IngestAssumption DEF WorldTypes, Fault
<1>. QED
  BY <1>1, <1>2 DEF WorldTypes

\* What the user does in his baskets (and the sign-out, clear_after_sign_out).
LEMMA UserKeepsBooks ==
  ASSUME Books, \/ \E p \in Paths : Drops(p) \/ PullsOut(p)
                \/ SignsOut
  PROVE  Books'
<1>1. DiskTypes'
  <2>. USE IngestAssumption DEF Books, Types, DiskTypes, HandIn
  <2>1. ASSUME NEW p \in Paths, Drops(p) PROVE DiskTypes'
    <3>1. handed + 1 \in HandIn /\ handed + 1 \in 0 .. MaxHandIns /\ lies[p] \in 0 .. MaxHandIns
      BY <2>1 DEF Drops
    <3>2. lies' \in [Paths -> 0 .. MaxHandIns] /\ handed' \in 0 .. MaxHandIns
      BY <2>1, <3>1 DEF Drops
    <3>3. withdrawn' \subseteq HandIn /\ cleared' \subseteq HandIn /\ raced' \subseteq HandIn
      <4>1. /\ withdrawn' = withdrawn \cup ({lies[p]} \ {0}) /\ cleared' = cleared
            /\ raced' \subseteq raced \cup {handed + 1}
        BY <2>1 DEF Drops
      <4>2. {lies[p]} \ {0} \subseteq HandIn
        BY <3>1
      <4>. QED
        BY <3>1, <4>1, <4>2
    <3>. QED
      BY <3>2, <3>3
  <2>2. ASSUME NEW p \in Paths, PullsOut(p) PROVE DiskTypes'
    <3>1. lies[p] \in HandIn
      BY <2>2 DEF PullsOut
    <3>2. lies' \in [Paths -> 0 .. MaxHandIns] /\ handed' \in 0 .. MaxHandIns
      BY <2>2 DEF PullsOut
    <3>3. withdrawn' \subseteq HandIn /\ cleared' \subseteq HandIn /\ raced' \subseteq HandIn
      BY <2>2, <3>1 DEF PullsOut
    <3>. QED
      BY <3>2, <3>3
  <2>3. CASE SignsOut
    <3>1. Lying \subseteq HandIn
      BY DEF Lying
    <3>. QED
      BY <2>3, <3>1 DEF SignsOut
  <2>. QED
    BY <2>1, <2>2, <2>3
<1>2. WatchTypes'
  BY DEF Books, Types, WatchTypes, Drops, PullsOut, SignsOut, watchVars
<1>3. WorldTypes'
  BY WorldGoesOn DEF Books, Types, Drops, PullsOut, SignsOut, worldVars
<1>4. Quiet
  BY DEF Quiet, Drops, PullsOut, SignsOut
<1>. QED
  BY <1>1, <1>2, <1>3, <1>4, QuietKeepsBooks

\* The platform's beat, the times that pass, and the line that goes and comes.
LEMMA WatchKeepsBooks ==
  ASSUME Books, \/ \E p \in Paths : file_appeared(p) \/ Ripens(p) \/ RestIsOver(p)
                \/ GoesOffline \/ ComesBack
  PROVE  Books'
<1>1. DiskTypes'
  BY DEF Books, Types, DiskTypes, file_appeared, Ripens, RestIsOver, GoesOffline, ComesBack, diskVars,
         pastVars
<1>2. WatchTypes'
  BY DEF Books, Types, WatchTypes, file_appeared, Ripens, RestIsOver, GoesOffline, ComesBack, watchVars
<1>3. WorldTypes'
  BY WorldGoesOn DEF Books, Types, file_appeared, Ripens, RestIsOver, GoesOffline, ComesBack, worldVars
<1>4. Quiet
  BY DEF Quiet, file_appeared, Ripens, RestIsOver, GoesOffline, ComesBack, diskVars, pastVars
<1>. QED
  BY <1>1, <1>2, <1>3, <1>4, QuietKeepsBooks

\* A batch begins, or the process: nobody has a key, a checksum or an upload yet.
LEMMA AllBegin ==
  ASSUME Books, \A p \in Paths : task'[p] \in {Idle, [Idle EXCEPT !.stage = "waits"]},
         task' = [p \in Paths |-> task'[p]],
         UNCHANGED <<diskVars, serverVars, note, keys, opened>>, WatchTypes', WorldTypes'
  PROVE  Books'
<1>1. \A p \in Paths : /\ task'[p] \in Task /\ task'[p].stage \in {"idle", "waits"}
  BY UploadsAre, IngestAssumption DEF Books, Types, ServerTypes, Task, Idle, Stages
<1>2. DiskTypes' /\ ServerTypes' /\ NoteTypes'
  BY DEF Books, Types, DiskTypes, ServerTypes, NoteTypes, diskVars, pastVars, serverVars, Upload, Note
<1>3. TaskTypes'
  BY <1>1 DEF TaskTypes, Task, serverVars
<1>4. Bounded'
  BY <1>1, NobodyWorks
<1>5. \A p \in Paths : Knows(p)'
  BY <1>1 DEF Knows, Keyed, Granted, Through
<1>6. BrowserAfterIngest'
  BY DEF Books, BrowserAfterIngest, Done, serverVars
<1>. QED
  BY <1>2, <1>3, <1>4, <1>5, <1>6 DEF Books, Types

\* Watch::pass looks at everything and lets the finished files begin.
LEMMA PassKeepsBooks == Books /\ pass => Books'
<1>. SUFFICES ASSUME Books, pass PROVE Books'
  OBVIOUS
<1>1. WatchTypes' /\ WorldTypes'
  <2>1. sample' \in [Paths -> 0 .. MaxHandIns]
    BY IngestAssumption DEF Books, Types, DiskTypes, pass
  <2>2. announced' \subseteq Paths /\ ripe' \subseteq Paths /\ resting' \subseteq Paths
    BY DEF Books, Types, WatchTypes, pass, Alive, Unchanged
  <2>. QED
    BY <2>1, <2>2, WorldGoesOn DEF Books, Types, WatchTypes, pass, worldVars
<1>2. /\ \A p \in Paths : task'[p] \in {Idle, [Idle EXCEPT !.stage = "waits"]}
      /\ task' = [p \in Paths |-> task'[p]]
  BY DEF pass
<1>3. UNCHANGED <<diskVars, serverVars, note, keys, opened>>
  BY DEF pass
<1>. QED
  BY <1>1, <1>2, <1>3, AllBegin

\* After a restart there is no batch.
LEMMA RestartKeepsBooks == Books /\ Restart => Books'
<1>. SUFFICES ASSUME Books, Restart PROVE Books'
  OBVIOUS
<1>1. WatchTypes' /\ WorldTypes'
  BY IngestAssumption DEF Books, Types, WatchTypes, WorldTypes, Restart, Fault
<1>2. /\ \A p \in Paths : task'[p] \in {Idle, [Idle EXCEPT !.stage = "waits"]}
      /\ task' = [p \in Paths |-> task'[p]]
  BY DEF Restart
<1>3. UNCHANGED <<diskVars, serverVars, note, keys, opened>>
  BY DEF Restart
<1>. QED
  BY <1>1, <1>2, <1>3, AllBegin

\* The pages of a batch are those of the uploads that went through (adopt_batch).
LEMMA BatchEndKeepsBooks == Books /\ BatchEnds => Books'
<1>. SUFFICES ASSUME Books, BatchEnds PROVE Books'
  OBVIOUS
<1>1. Captures \subseteq Done
  <2>1. SUFFICES ASSUME NEW p \in Paths, At(p, "ok") PROVE task[p].upload \in Done
    BY DEF Captures, Batch
  <2>2. Knows(p) /\ task[p] \in Task
    BY DEF Books, Types, TaskTypes
  <2>. QED
    BY <2>1, <2>2, UploadsAre DEF Knows, At, Granted, Through, Done, Books, Types, Task
<1>2. WatchTypes' /\ WorldTypes'
  BY DEF Books, Types, WatchTypes, WorldTypes, BatchEnds, Failed, Batch, worldVars
<1>3. \A p \in Paths : task'[p] = Idle
  BY DEF BatchEnds
<1>4. \A p \in Paths : task'[p] \in Task /\ task'[p].stage \in {"idle", "waits"}
  BY <1>3, UploadsAre, IngestAssumption DEF Books, Types, ServerTypes, Task, Idle, Stages
<1>5. DiskTypes' /\ NoteTypes'
  BY DEF Books, Types, DiskTypes, NoteTypes, diskVars, pastVars, serverVars, Note, BatchEnds
<1>6. ServerTypes'
  <2>1. Captures \subseteq DOMAIN upload
    BY <1>1 DEF Done
  <2>. QED
    BY <2>1 DEF Books, Types, ServerTypes, diskVars, pastVars, serverVars, BatchEnds, Upload
<1>7. TaskTypes'
  BY <1>4 DEF TaskTypes, Task, serverVars, BatchEnds
<1>8. Bounded'
  BY <1>4, NobodyWorks
<1>9. \A p \in Paths : Knows(p)'
  BY <1>4 DEF Knows, Keyed, Granted, Through
<1>10. BrowserAfterIngest'
  BY <1>1 DEF Books, BrowserAfterIngest, Done, serverVars, BatchEnds
<1>. QED
  BY <1>2, <1>5, <1>6, <1>7, <1>8, <1>9, <1>10 DEF Books, Types

\* One task goes on: what is left to show of a step.
LEMMA StepKeeps ==
  ASSUME Books, NEW p \in Paths, TaskTypes', NoteTypes', ServerTypes', DiskTypes', WatchTypes',
         WorldTypes', Others(p), GetsOn, UNCHANGED opened, Knows(p)',
         p \in Working \/ task'[p].stage = "bad"
  PROVE  Books'
<1>1. Bounded'
  BY WorkersBounded DEF Books, Others, Over
<1>. QED
  BY <1>1, OneGoesOn DEF Types

\* What a step leaves alone keeps its type.
LEMMA TypesStay ==
  /\ DiskTypes /\ UNCHANGED diskVars => DiskTypes'
  /\ WatchTypes /\ UNCHANGED watchVars => WatchTypes'
  /\ WorldTypes /\ UNCHANGED worldVars => WorldTypes'
  /\ NoteTypes /\ UNCHANGED <<note, keys, upload>> => NoteTypes'
  /\ ServerTypes /\ UNCHANGED <<serverVars, keys, opened, holding, heard>> => ServerTypes'
<1>1. DiskTypes /\ UNCHANGED diskVars => DiskTypes'
  BY DEF DiskTypes, diskVars, pastVars
<1>2. WatchTypes /\ UNCHANGED watchVars => WatchTypes'
  BY DEF WatchTypes, watchVars
<1>3. WorldTypes /\ UNCHANGED worldVars => WorldTypes'
  BY DEF WorldTypes, worldVars
<1>4. NoteTypes /\ UNCHANGED <<note, keys, upload>> => NoteTypes'
  BY DEF NoteTypes, Note
<1>5. ServerTypes /\ UNCHANGED <<serverVars, keys, opened, holding, heard>> => ServerTypes'
  BY DEF ServerTypes, serverVars, Upload
<1>. QED
  BY <1>1, <1>2, <1>3, <1>4, <1>5

\* Steps before the upload, and failures: the task has nothing in hand yet, or nothing any more.
LEMMA LocalKeepsBooks ==
  ASSUME Books, NEW p \in Paths, task' \in [Paths -> Task],
         \A q \in Paths \ {p} : task'[q] = task[q],
         task'[p].stage \in {"begun", "stat", "checked", "bad"},
         task'[p].stage = "checked" => task'[p].sha # 0,
         UNCHANGED <<localVars, serverVars, note, keys>>,
         p \in Working \/ task'[p].stage = "bad" \/ Cardinality(Working) < Ingests
  PROVE  Books'
<1>1. DiskTypes' /\ WatchTypes' /\ WorldTypes' /\ NoteTypes' /\ ServerTypes'
  BY TypesStay DEF Books, Types, localVars, diskVars, pastVars, serverVars
<1>2. TaskTypes'
  BY DEF TaskTypes, Task, serverVars
<1>3. Bounded'
  BY WorkersBounded DEF Books, Over
<1>4. Knows(p)'
  BY DEF Knows, Keyed, Granted, Through
<1>5. GetsOn /\ Others(p) /\ UNCHANGED opened
  BY DEF GetsOn, Others, serverVars, localVars
<1>. QED
  BY <1>1, <1>2, <1>3, <1>4, <1>5, OneGoesOn DEF Types

\* A place is free (the semaphore of adopt_batch).
LEMMA BeginsKeepsBooks == ASSUME Books, NEW p \in Paths, Begins(p) PROVE Books'
<1>1. /\ task' \in [Paths -> Task] /\ task'[p].stage = "begun"
      /\ \A q \in Paths \ {p} : task'[q] = task[q]
  BY GoesTo DEF Begins, Books, Types, Stages
<1>. QED
  BY <1>1, LocalKeepsBooks DEF Begins

\* check_file reads the modification time.
LEMMA StatsKeepsBooks == ASSUME Books, NEW p \in Paths, Stats(p) PROVE Books'
<1>1. /\ task' \in [Paths -> Task] /\ task'[p].stage \in {"stat", "bad"}
      /\ \A q \in Paths \ {p} : task'[q] = task[q]
  <2>1. CASE lies[p] = 0
    BY <2>1, GoesTo DEF Stats, Books, Types, Stages
  <2>2. CASE lies[p] # 0
    <3>1. lies[p] \in 0 .. MaxHandIns
      BY DEF Books, Types, DiskTypes
    <3>2. task' = [task EXCEPT ![p].stage = "stat", ![p].stamp = lies[p]]
      BY <2>2 DEF Stats
    <3>3. task \in [Paths -> Task]
      BY DEF Books, Types, TaskTypes
    <3>. QED
      BY <3>1, <3>2, <3>3 DEF Task, Stages
  <2>. QED
    BY <2>1, <2>2
<1>2. p \in Working
  BY DEF Working, Batch, Over, Stats, At
<1>. QED
  BY <1>1, <1>2, LocalKeepsBooks DEF Stats

\* check_file reads the bytes.
LEMMA HashesKeepsBooks == ASSUME Books, NEW p \in Paths, Hashes(p) PROVE Books'
<1>1. /\ task' \in [Paths -> Task] /\ task'[p].stage \in {"checked", "bad"}
      /\ task'[p].stage = "checked" => task'[p].sha # 0
      /\ \A q \in Paths \ {p} : task'[q] = task[q]
  <2>1. CASE lies[p] = 0
    BY <2>1, GoesTo DEF Hashes, Books, Types, Stages
  <2>2. CASE lies[p] # 0
    <3>1. lies[p] \in 0 .. MaxHandIns
      BY DEF Books, Types, DiskTypes
    <3>2. task' = [task EXCEPT ![p].stage = "checked", ![p].sha = lies[p]]
      BY <2>2 DEF Hashes
    <3>3. task \in [Paths -> Task]
      BY DEF Books, Types, TaskTypes
    <3>4. task' \in [Paths -> Task] /\ \A q \in Paths \ {p} : task'[q] = task[q]
      BY <3>1, <3>2, <3>3 DEF Task, Stages
    <3>5. task'[p].stage = "checked" /\ task'[p].sha = lies[p]
      BY <3>2, <3>3 DEF Task
    <3>. QED
      BY <2>2, <3>4, <3>5
  <2>. QED
    BY <2>1, <2>2
<1>2. p \in Working
  BY DEF Working, Batch, Over, Hashes, At
<1>. QED
  BY <1>1, <1>2, LocalKeepsBooks DEF Hashes

\* Without line or login the call fails.
LEMMA NoAnswerKeepsBooks == ASSUME Books, NEW p \in Paths, NoAnswer(p) PROVE Books'
<1>1. /\ task' \in [Paths -> Task] /\ task'[p].stage = "bad"
      /\ \A q \in Paths \ {p} : task'[q] = task[q]
  BY GoesTo DEF NoAnswer, Books, Types, Stages
<1>. QED
  BY <1>1, LocalKeepsBooks DEF NoAnswer

\* The note that fits is used again, or a new one is written (pending).
LEMMA NotesKeepsBooks == ASSUME Books, NEW p \in Paths, Notes(p) PROVE Books'
<1>. USE DEF Books, Types
<1>1. DiskTypes' /\ WatchTypes' /\ WorldTypes' /\ UNCHANGED <<opened, upload, holding, heard>>
  BY TypesStay DEF Notes, localVars, diskVars, pastVars
<1>2. GetsOn /\ p \in Working
  BY <1>1 DEF GetsOn, Working, Batch, Over, Notes, At
<1>3. task[p] \in Task /\ note[p] \in Note
  BY DEF TaskTypes, NoteTypes
<1>4. task[p].sha # 0
  BY DEF Knows, Notes, At
<1>5. CASE Fits(p)
  <2>1. UNCHANGED <<note, keys, grantOf>>
    BY <1>5 DEF Notes
  <2>2. note[p].key \in 0 .. keys /\ note[p].key # 0 /\ note[p].stamp = task[p].stamp
    BY <1>3, <1>5 DEF Note, Fits
  <2>3. task' = [task EXCEPT ![p].stage = "noted", ![p].key = note[p].key]
    BY <1>5 DEF Notes
  <2>4. /\ task' \in [Paths -> Task] /\ \A q \in Paths \ {p} : task'[q] = task[q]
        /\ task'[p].stage = "noted" /\ task'[p].key = note[p].key
        /\ task'[p].stamp = task[p].stamp /\ task'[p].sha = task[p].sha
    BY <2>2, <2>3 DEF TaskTypes, Task, Stages
  <2>5. NoteTypes' /\ ServerTypes'
    BY <1>1, <2>1, TypesStay DEF serverVars
  <2>6. TaskTypes'
    BY <1>1, <2>1, <2>4 DEF TaskTypes, Task
  <2>7. Knows(p)'
    BY <1>4, <2>1, <2>2, <2>4 DEF Knows, Keyed, Granted, Through
  <2>8. Others(p)
    BY <2>1, <2>4 DEF Others
  <2>. QED
    BY <1>1, <1>2, <2>5, <2>6, <2>7, <2>8, StepKeeps
<1>6. CASE ~Fits(p)
  <2>1. /\ keys' = keys + 1 /\ grantOf' = Append(grantOf, 0)
        /\ note' = [note EXCEPT ![p] = [key |-> keys + 1, stamp |-> task[p].stamp, upload |-> 0]]
        /\ task' = [task EXCEPT ![p].stage = "noted", ![p].key = keys + 1]
    BY <1>6 DEF Notes
  <2>2. keys \in Nat /\ keys' \in Nat /\ Len(upload) \in Nat
    BY <2>1, UploadsAre DEF ServerTypes
  <2>3. Task \subseteq Task' /\ Note \subseteq Note'
    BY <1>1, <2>1, <2>2, TaskGrows
  <2>4. /\ task' \in [Paths -> Task'] /\ \A q \in Paths \ {p} : task'[q] = task[q]
        /\ task'[p].stage = "noted" /\ task'[p].key = keys + 1
        /\ task'[p].stamp = task[p].stamp /\ task'[p].sha = task[p].sha
    <3>1. /\ \A q \in Paths \ {p} : task'[q] = task[q]
          /\ task'[p].stage = "noted" /\ task'[p].key = keys + 1
          /\ task'[p].stamp = task[p].stamp /\ task'[p].sha = task[p].sha
          /\ task'[p].upload = task[p].upload
          /\ task' = [q \in Paths |-> task'[q]]
          /\ task'[p] = [stage |-> "noted", stamp |-> task[p].stamp, sha |-> task[p].sha,
                         key |-> keys + 1, upload |-> task[p].upload]
      BY <2>1, <1>3 DEF TaskTypes, Task
    <3>2. task'[p] \in Task'
      BY <1>1, <1>3, <2>1, <2>2, <3>1 DEF Task, Stages
    <3>3. \A q \in Paths : task'[q] \in Task'
      BY <2>3, <3>1, <3>2 DEF TaskTypes
    <3>. QED
      BY <3>1, <3>3
  <2>5. NoteTypes' /\ note'[p].key = keys + 1 /\ note'[p].stamp = task[p].stamp
        /\ \A q \in Paths \ {p} : note'[q] = note[q]
    <3>1. [key |-> keys + 1, stamp |-> task[p].stamp, upload |-> 0] \in Note'
      BY <1>1, <1>3, <2>1, <2>2 DEF Task, Note
    <3>. QED
      BY <2>1, <2>3, <3>1 DEF NoteTypes
  <2>6. ServerTypes'
    <3>1. grantOf \in Seq(0 .. Len(upload)) /\ Len(grantOf) = keys
      BY <2>2 DEF ServerTypes
    <3>2. /\ grantOf' \in Seq(0 .. Len(upload)) /\ Len(grantOf') = keys + 1
      BY <2>1, <2>2, <3>1, AppendProperties
    <3>3. grantOf' \in [1 .. keys + 1 -> 0 .. Len(upload)]
      BY <3>2, LenProperties
    <3>. QED
      BY <1>1, <2>1, <2>2, <3>3 DEF ServerTypes, Upload
  <2>7. TaskTypes'
    BY <2>4 DEF TaskTypes
  <2>8. Knows(p)'
    BY <1>4, <2>2, <2>4, <2>5 DEF Knows, Keyed, Granted, Through
  <2>9. Others(p)
    BY <2>4, <2>5 DEF Others
  <2>. QED
    BY <1>1, <1>2, <2>5, <2>6, <2>7, <2>8, <2>9, StepKeeps
<1>. QED
  BY <1>5, <1>6

\* A key that led nowhere gets a grant (upload_apply_for).
NewGrant(k, sha) ==
  /\ upload' = Append(upload, [sha |-> sha, bytes |-> FALSE, expired |-> FALSE, done |-> FALSE])
  /\ grantOf' = [grantOf EXCEPT ![k] = Len(upload) + 1]
  /\ holding' = Append(holding, 0)

\* The grants before it stay what they are.
LEMMA GrantGrows ==
  ASSUME ServerTypes, NEW k \in 1 .. keys, NEW sha \in HandIn, NewGrant(k, sha),
         UNCHANGED <<keys, opened, heard>>
  PROVE  /\ ServerTypes' /\ GetsOn
         /\ Len(upload) \in Nat /\ Len(upload') = Len(upload) + 1
         /\ DOMAIN upload' = DOMAIN upload \cup {Len(upload) + 1}
         /\ Len(upload) + 1 \notin DOMAIN upload
         /\ \A u \in DOMAIN upload : upload'[u] = upload[u] /\ holding'[u] = holding[u]
         /\ upload'[Len(upload) + 1].sha = sha /\ ~upload'[Len(upload) + 1].done
         /\ holding'[Len(upload) + 1] = 0
         /\ grantOf'[k] = Len(upload) + 1
         /\ \A j \in 1 .. keys : j # k => grantOf'[j] = grantOf[j]
<1>. DEFINE new == [sha |-> sha, bytes |-> FALSE, expired |-> FALSE, done |-> FALSE]
<1>1. upload \in Seq(Upload) /\ new \in Upload /\ upload' = Append(upload, new)
  BY DEF ServerTypes, Upload, NewGrant
<1>2. new.sha = sha /\ ~new.done
  OBVIOUS
<1>. HIDE DEF new
<1>3. Len(upload) \in Nat /\ DOMAIN upload = 1 .. Len(upload)
  BY UploadsAre
<1>4. /\ upload' \in Seq(Upload) /\ Len(upload') = Len(upload) + 1
      /\ \A u \in 1 .. Len(upload) : upload'[u] = upload[u]
      /\ upload'[Len(upload) + 1] = new
  BY <1>1, AppendProperties
<1>5. DOMAIN upload' = 1 .. Len(upload) + 1
  BY <1>4, LenProperties
<1>6. holding \in Seq(0 .. MaxHandIns) /\ Len(holding) = Len(upload) /\ 0 \in 0 .. MaxHandIns
  BY <1>3, IngestAssumption DEF ServerTypes
<1>7. /\ holding' \in Seq(0 .. MaxHandIns) /\ Len(holding') = Len(upload) + 1
      /\ \A u \in 1 .. Len(upload) : holding'[u] = holding[u]
      /\ holding'[Len(upload) + 1] = 0
  BY <1>6, AppendProperties DEF NewGrant
<1>8. holding' \in [1 .. Len(upload) + 1 -> 0 .. MaxHandIns]
  BY <1>7, LenProperties
<1>9. /\ grantOf' \in [1 .. keys -> 0 .. Len(upload) + 1]
      /\ grantOf'[k] = Len(upload) + 1
      /\ \A j \in 1 .. keys : j # k => grantOf'[j] = grantOf[j]
  <2>1. grantOf' = [grantOf EXCEPT ![k] = Len(upload) + 1]
    BY DEF NewGrant
  <2>2. grantOf \in [1 .. keys -> 0 .. Len(upload) + 1]
    BY <1>3 DEF ServerTypes
  <2>. QED
    BY <1>3, <2>1, <2>2
<1>10. ServerTypes'
  <2>1. Upload' = Upload
    BY DEF Upload
  <2>2. opened' \subseteq DOMAIN upload' /\ heard' \subseteq DOMAIN upload'
    BY <1>3, <1>5 DEF ServerTypes
  <2>. QED
    BY <1>4, <1>8, <1>9, <2>1, <2>2 DEF ServerTypes
<1>11. GetsOn
  BY <1>3, <1>4, <1>5 DEF GetsOn
<1>. QED
  BY <1>2, <1>3, <1>4, <1>5, <1>7, <1>9, <1>10, <1>11

\* What the server changes of a grant it gave is not its checksum (upload_send, upload_complete).
SameGrants ==
  /\ upload' \in Seq(Upload) /\ Len(upload') = Len(upload)
  /\ DOMAIN upload' = DOMAIN upload
  /\ \A u \in DOMAIN upload : /\ upload'[u].sha = upload[u].sha
                              /\ upload[u].done => upload'[u].done

LEMMA GrantsStay ==
  ASSUME ServerTypes
  PROVE  /\ UNCHANGED upload => SameGrants
         /\ \A u \in DOMAIN upload :
              \/ upload' = [upload EXCEPT ![u].bytes = TRUE]
              \/ upload' = [upload EXCEPT ![u].done = TRUE]
              \/ upload' = [upload EXCEPT ![u].expired = TRUE]
              => SameGrants
<1>1. upload \in Seq(Upload) /\ Len(upload) \in Nat /\ DOMAIN upload = 1 .. Len(upload)
  BY UploadsAre DEF ServerTypes
<1>2. UNCHANGED upload => SameGrants
  BY <1>1 DEF SameGrants
<1>3. ASSUME NEW u \in DOMAIN upload, NEW r \in Upload, r.sha = upload[u].sha,
             upload[u].done => r.done, upload' = [upload EXCEPT ![u] = r]
      PROVE SameGrants
  <2>1. upload' \in Seq(Upload) /\ Len(upload') = Len(upload) /\ DOMAIN upload' = DOMAIN upload
    BY <1>1, <1>3, ExceptSeq
  <2>. QED
    BY <1>1, <1>3, <2>1 DEF SameGrants
<1>4. ASSUME NEW u \in DOMAIN upload,
             \/ upload' = [upload EXCEPT ![u].bytes = TRUE]
             \/ upload' = [upload EXCEPT ![u].done = TRUE]
             \/ upload' = [upload EXCEPT ![u].expired = TRUE]
      PROVE SameGrants
  <2>1. upload[u] \in Upload
    BY UploadsAre
  <2>2. CASE upload' = [upload EXCEPT ![u].bytes = TRUE]
    <3>1. [upload[u] EXCEPT !.bytes = TRUE] \in Upload
          /\ [upload[u] EXCEPT !.bytes = TRUE].sha = upload[u].sha
          /\ (upload[u].done => [upload[u] EXCEPT !.bytes = TRUE].done)
      BY <2>1 DEF Upload
    <3>. QED
      BY <1>3, <2>2, <3>1
  <2>3. CASE upload' = [upload EXCEPT ![u].done = TRUE]
    <3>1. [upload[u] EXCEPT !.done = TRUE] \in Upload
          /\ [upload[u] EXCEPT !.done = TRUE].sha = upload[u].sha
          /\ (upload[u].done => [upload[u] EXCEPT !.done = TRUE].done)
      BY <2>1 DEF Upload
    <3>. QED
      BY <1>3, <2>3, <3>1
  <2>4. CASE upload' = [upload EXCEPT ![u].expired = TRUE]
    <3>1. [upload[u] EXCEPT !.expired = TRUE] \in Upload
          /\ [upload[u] EXCEPT !.expired = TRUE].sha = upload[u].sha
          /\ (upload[u].done => [upload[u] EXCEPT !.expired = TRUE].done)
      BY <2>1 DEF Upload
    <3>. QED
      BY <1>3, <2>4, <3>1
  <2>. QED
    BY <1>4, <2>2, <2>3, <2>4
<1>. QED
  BY <1>2, <1>4

\* A step that grants nothing and leaves the other notes alone.
LEMMA GrantedStepKeeps ==
  ASSUME Books, NEW p \in Paths, SameGrants, UNCHANGED <<keys, grantOf, opened>>,
         heard' \subseteq DOMAIN upload, note' \in [Paths -> Note],
         \A q \in Paths \ {p} : note'[q] = note[q],
         holding' \in [1 .. Len(upload) -> 0 .. MaxHandIns],
         DiskTypes', WatchTypes', WorldTypes', task' \in [Paths -> Task],
         \A q \in Paths \ {p} : task'[q] = task[q],
         p \in Working \/ task'[p].stage = "bad", Knows(p)'
  PROVE  Books'
<1>1. ServerTypes'
  <2>1. Upload' = Upload
    BY DEF Upload
  <2>. QED
    BY <2>1 DEF Books, Types, ServerTypes, SameGrants
<1>2. NoteTypes' /\ TaskTypes'
  BY DEF Books, Types, NoteTypes, TaskTypes, Note, Task, SameGrants
<1>3. GetsOn /\ Others(p)
  BY DEF SameGrants, GetsOn, Others
<1>. QED
  BY <1>1, <1>2, <1>3, StepKeeps

\* The grant is recorded with the note and changes nothing else of it (set_inbox_upload).
LEMMA GrantNoted ==
  ASSUME Books, NEW p \in Paths, NEW u \in Nat, GetsGrant(p, u)
  PROVE  /\ task'[p].stage = "granted" /\ task'[p].upload = u
         /\ task'[p].sha = task[p].sha /\ task'[p].key = task[p].key
         /\ task'[p].stamp = task[p].stamp
         /\ note'[p].key = note[p].key /\ note'[p].stamp = note[p].stamp /\ note'[p].upload = u
         /\ \A q \in Paths \ {p} : task'[q] = task[q] /\ note'[q] = note[q]
         /\ DOMAIN task' = Paths /\ DOMAIN note' = Paths
         /\ task' = [q \in Paths |-> task'[q]] /\ note' = [q \in Paths |-> note'[q]]
         /\ task'[p] = [stage |-> "granted", stamp |-> task[p].stamp, sha |-> task[p].sha,
                        key |-> task[p].key, upload |-> u]
         /\ note'[p] = [key |-> note[p].key, stamp |-> note[p].stamp, upload |-> u]
<1>1. task \in [Paths -> Task] /\ note \in [Paths -> Note]
  BY DEF Books, Types, TaskTypes, NoteTypes
<1>2. /\ task' = [task EXCEPT ![p].stage = "granted", ![p].upload = u]
      /\ note' = [note EXCEPT ![p].upload = u]
  BY DEF GetsGrant
<1>3. /\ task'[p].stage = "granted" /\ task'[p].upload = u
      /\ task'[p].sha = task[p].sha /\ task'[p].key = task[p].key
      /\ task'[p].stamp = task[p].stamp
      /\ \A q \in Paths \ {p} : task'[q] = task[q]
      /\ DOMAIN task' = Paths
      /\ task' = [q \in Paths |-> task'[q]]
      /\ task'[p] = [stage |-> "granted", stamp |-> task[p].stamp, sha |-> task[p].sha,
                     key |-> task[p].key, upload |-> u]
  BY <1>1, <1>2 DEF Task
<1>4. /\ note'[p].key = note[p].key /\ note'[p].stamp = note[p].stamp /\ note'[p].upload = u
      /\ \A q \in Paths \ {p} : note'[q] = note[q]
      /\ DOMAIN note' = Paths
      /\ note' = [q \in Paths |-> note'[q]]
      /\ note'[p] = [key |-> note[p].key, stamp |-> note[p].stamp, upload |-> u]
  BY <1>1, <1>2 DEF Note
<1>. QED
  BY <1>3, <1>4

\* The grant is asked for under the key of the note (inbox_create, upload_apply_for).
LEMMA CreatesKeepsBooks == ASSUME Books, NEW p \in Paths, Creates(p) PROVE Books'
<1>. USE DEF Books, Types
<1>1. /\ DiskTypes' /\ WatchTypes' /\ UNCHANGED <<keys, opened, heard>>
      /\ Heard \/ Fault
      /\ UNCHANGED online
  BY TypesStay DEF Creates, DiskTypes, pastVars
<1>2. WorldTypes'
  BY WorldGoesOn DEF Creates, Heard
<1>3. /\ task[p] \in Task /\ Knows(p) /\ At(p, "noted") /\ p \in Working
      /\ task \in [Paths -> Task] /\ note[p] \in Note /\ note \in [Paths -> Note]
  BY DEF TaskTypes, NoteTypes, Creates, Working, Batch, Over, At
<1>4. task[p].key \in 1 .. keys /\ task[p].sha \in HandIn /\ keys \in Nat
  BY <1>3 DEF Knows, At, Keyed, Task, HandIn, ServerTypes
<1>5. ASSUME NewGrant(task[p].key, task[p].sha),
             \/ GetsGrant(p, Len(upload) + 1)
             \/ Goes(p, "bad") /\ UNCHANGED note
      PROVE  Books'
  <2>1. /\ ServerTypes' /\ GetsOn
        /\ Len(upload) \in Nat /\ Len(upload') = Len(upload) + 1
        /\ upload'[Len(upload) + 1].sha = task[p].sha
    BY <1>1, <1>4, <1>5, GrantGrows
  <2>2. Task \subseteq Task' /\ Note \subseteq Note'
    BY <1>1, <1>4, <2>1, TaskGrows
  <2>3. CASE GetsGrant(p, Len(upload) + 1)
    <3>1. Len(upload) + 1 \in Nat
      BY <2>1
    <3>2. /\ \A q \in Paths \ {p} : task'[q] = task[q] /\ note'[q] = note[q]
          /\ task'[p].stage = "granted" /\ task'[p].upload = Len(upload) + 1
          /\ task'[p].sha = task[p].sha /\ task'[p].key = task[p].key
          /\ task'[p].stamp = task[p].stamp
          /\ note'[p].key = note[p].key /\ note'[p].stamp = note[p].stamp
          /\ task' = [q \in Paths |-> task'[q]] /\ note' = [q \in Paths |-> note'[q]]
          /\ task'[p] = [stage |-> "granted", stamp |-> task[p].stamp, sha |-> task[p].sha,
                         key |-> task[p].key, upload |-> Len(upload) + 1]
          /\ note'[p] = [key |-> note[p].key, stamp |-> note[p].stamp, upload |-> Len(upload) + 1]
      BY <2>3, <3>1, GrantNoted
    <3>3. task'[p] \in Task'
      BY <1>1, <1>3, <2>1, <3>2 DEF Task, Stages
    <3>4. note'[p] \in Note'
      BY <1>1, <1>3, <2>1, <3>2 DEF Note
    <3>5. TaskTypes'
      BY <1>3, <2>2, <3>2, <3>3 DEF TaskTypes
    <3>6. NoteTypes'
      BY <1>3, <2>2, <3>2, <3>4 DEF NoteTypes
    <3>7. Knows(p)'
      BY <1>3, <2>1, <3>2 DEF Knows, At, Keyed, Granted, Through
    <3>8. Others(p)
      BY <3>2 DEF Others
    <3>. QED
      BY <1>1, <1>2, <1>3, <2>1, <3>5, <3>6, <3>7, <3>8, StepKeeps
  <2>4. CASE Goes(p, "bad") /\ UNCHANGED note
    <3>1. /\ task' \in [Paths -> Task] /\ \A q \in Paths \ {p} : task'[q] = task[q]
          /\ task'[p].stage = "bad"
      BY <1>3, <2>4, GoesTo DEF TaskTypes, Stages
    <3>2. TaskTypes' /\ NoteTypes'
      BY <1>3, <2>2, <2>4, <3>1 DEF TaskTypes, NoteTypes
    <3>3. Knows(p)'
      BY <3>1 DEF Knows, Keyed, Granted, Through
    <3>4. Others(p)
      BY <2>4, <3>1 DEF Others
    <3>. QED
      BY <1>1, <1>2, <1>3, <2>1, <3>1, <3>2, <3>3, <3>4, StepKeeps
  <2>. QED
    BY <1>5, <2>3, <2>4
<1>6. ASSUME grantOf[task[p].key] # 0, upload[grantOf[task[p].key]].sha = task[p].sha,
             GetsGrant(p, grantOf[task[p].key]),
             UNCHANGED <<serverVars, holding>>
      PROVE  Books'
  <2>. DEFINE g == grantOf[task[p].key]
  <2>1. g \in 0 .. Len(upload) /\ g \in Nat /\ Len(upload) \in Nat
    BY <1>4, UploadsAre DEF ServerTypes
  <2>2. /\ \A q \in Paths \ {p} : task'[q] = task[q] /\ note'[q] = note[q]
        /\ task'[p].stage = "granted" /\ task'[p].upload = g
        /\ task'[p].sha = task[p].sha /\ task'[p].key = task[p].key
        /\ task'[p].stamp = task[p].stamp
        /\ note'[p].key = note[p].key /\ note'[p].stamp = note[p].stamp
        /\ task' = [q \in Paths |-> task'[q]] /\ note' = [q \in Paths |-> note'[q]]
        /\ task'[p] = [stage |-> "granted", stamp |-> task[p].stamp, sha |-> task[p].sha,
                       key |-> task[p].key, upload |-> g]
        /\ note'[p] = [key |-> note[p].key, stamp |-> note[p].stamp, upload |-> g]
    BY <1>6, <2>1, GrantNoted
  <2>3. SameGrants /\ UNCHANGED grantOf
    BY <1>6, GrantsStay DEF serverVars
  <2>4. Knows(p)'
    BY <1>3, <1>6, <2>2, <2>3 DEF Knows, At, Keyed, Granted, Through, serverVars
  <2>5. task'[p] \in Task /\ note'[p] \in Note
    BY <1>3, <2>1, <2>2 DEF Task, Note, Stages
  <2>6. task' \in [Paths -> Task] /\ note' \in [Paths -> Note]
    BY <1>3, <2>2, <2>5
  <2>7. heard' \subseteq DOMAIN upload /\ holding' \in [1 .. Len(upload) -> 0 .. MaxHandIns]
    BY <1>1, <1>6 DEF ServerTypes
  <2>. QED
    BY <1>1, <1>2, <1>3, <2>2, <2>3, <2>4, <2>6, <2>7, GrantedStepKeeps
<1>7. ASSUME Goes(p, "bad"), UNCHANGED <<serverVars, holding, note>> PROVE Books'
  <2>1. /\ task' \in [Paths -> Task] /\ \A q \in Paths \ {p} : task'[q] = task[q]
        /\ task'[p].stage = "bad"
    BY <1>3, <1>7, GoesTo DEF TaskTypes, Stages
  <2>2. SameGrants /\ UNCHANGED grantOf
    BY <1>7, GrantsStay DEF serverVars
  <2>3. Knows(p)'
    BY <2>1 DEF Knows, Keyed, Granted, Through
  <2>4. heard' \subseteq DOMAIN upload /\ holding' \in [1 .. Len(upload) -> 0 .. MaxHandIns]
    BY <1>1, <1>7 DEF ServerTypes
  <2>. QED
    BY <1>1, <1>2, <1>3, <1>7, <2>1, <2>2, <2>3, <2>4, GrantedStepKeeps
<1>. QED
  BY <1>5, <1>6, <1>7 DEF Creates, NewGrant

\* The bytes are sent, and the server takes them or does not (upload_send); the upload is completed,
\* or the server refuses (upload_complete); the answer may be lost.
LEMMA AskingKeepsBooks == ASSUME Books, NEW p \in Paths, Sends(p) \/ Completes(p) PROVE Books'
<1>. USE DEF Books, Types
<1>1. /\ DiskTypes' /\ WatchTypes' /\ UNCHANGED <<note, keys, opened, grantOf, holding>>
      /\ Heard \/ Fault
      /\ UNCHANGED online
  BY TypesStay DEF Sends, Completes, DiskTypes, diskVars, pastVars
<1>2. WorldTypes'
  BY WorldGoesOn DEF Sends, Completes, Heard
<1>3. /\ task[p] \in Task /\ Knows(p) /\ task[p].stage \in {"granted", "sent"} /\ p \in Working
      /\ task \in [Paths -> Task]
  BY DEF TaskTypes, Sends, Completes, Working, Batch, Over, At
<1>4. task[p].upload \in DOMAIN upload
  BY <1>3, UploadsAre DEF Knows, Granted, Task
<1>5. SameGrants
  BY <1>4, GrantsStay DEF Sends, Completes
<1>6. PICK stage \in {"sent", "complete", "bad"} :
        /\ Goes(p, stage)
        /\ stage = "complete" => upload' = [upload EXCEPT ![task[p].upload].done = TRUE]
  BY DEF Sends, Completes
<1>7. /\ task' \in [Paths -> Task] /\ \A q \in Paths \ {p} : task'[q] = task[q]
      /\ task'[p].stage = stage /\ task'[p].stamp = task[p].stamp
      /\ task'[p].sha = task[p].sha /\ task'[p].key = task[p].key
      /\ task'[p].upload = task[p].upload
  BY <1>6, GoesTo DEF Stages
<1>8. stage = "complete" => upload'[task[p].upload].done
  BY <1>4, <1>6, UploadsAre DEF ServerTypes, Upload
<1>9. Knows(p)'
  BY <1>1, <1>3, <1>4, <1>5, <1>7, <1>8 DEF Knows, Keyed, Granted, Through, SameGrants
<1>10. heard' \subseteq DOMAIN upload
  BY <1>4 DEF Sends, Completes, diskVars, pastVars, ServerTypes
<1>11. note' \in [Paths -> Note] /\ \A q \in Paths \ {p} : note'[q] = note[q]
  BY <1>1 DEF NoteTypes
<1>. QED
  BY <1>1, <1>2, <1>3, <1>5, <1>7, <1>9, <1>10, <1>11, GrantedStepKeeps DEF ServerTypes

\* The file is put aside (hold), by a rename or by a copy and a removal.
LEMMA HoldingKeepsBooks ==
  ASSUME Books, NEW p \in Paths, Renames(p) \/ Copies(p) \/ Removes(p) PROVE Books'
<1>. USE DEF Books, Types
<1>1. /\ WatchTypes' /\ WorldTypes' /\ UNCHANGED <<note, keys, opened, grantOf, upload, heard>>
  BY TypesStay DEF Renames, Copies, Removes, holdVars, serverVars, pastVars
<1>2. /\ task[p] \in Task /\ Knows(p) /\ task[p].stage \in {"complete", "copied"} /\ p \in Working
      /\ task \in [Paths -> Task]
  BY DEF TaskTypes, Renames, Copies, Removes, Working, Batch, Over, At
<1>3. task[p].upload \in 1 .. Len(upload) /\ lies[p] \in 0 .. MaxHandIns
  BY <1>2, UploadsAre DEF Knows, Granted, Task, DiskTypes
<1>4. DiskTypes' /\ holding' \in [1 .. Len(upload) -> 0 .. MaxHandIns]
  <2>1. /\ holding' \in {holding, [holding EXCEPT ![task[p].upload] = lies[p]]}
        /\ lies' \in {lies, [lies EXCEPT ![p] = 0]}
        /\ UNCHANGED <<handed, withdrawn, cleared, raced>>
    BY DEF Renames, Copies, Removes, holdVars, pastVars
  <2>2. holding' \in [1 .. Len(upload) -> 0 .. MaxHandIns]
    BY <1>3, <2>1 DEF ServerTypes
  <2>3. lies' \in [Paths -> 0 .. MaxHandIns]
    BY <2>1, IngestAssumption DEF DiskTypes
  <2>. QED
    BY <2>1, <2>2, <2>3 DEF DiskTypes
<1>5. PICK stage \in {"copied", "held", "bad"} : Goes(p, stage)
  BY DEF Renames, Copies, Removes
<1>6. /\ task' \in [Paths -> Task] /\ \A q \in Paths \ {p} : task'[q] = task[q]
      /\ task'[p].stage = stage /\ task'[p].stamp = task[p].stamp
      /\ task'[p].sha = task[p].sha /\ task'[p].key = task[p].key
      /\ task'[p].upload = task[p].upload
  BY <1>5, GoesTo DEF Stages
<1>7. Knows(p)'
  BY <1>1, <1>2, <1>6 DEF Knows, Keyed, Granted, Through
<1>8. SameGrants
  BY <1>1, GrantsStay
<1>9. heard' \subseteq DOMAIN upload /\ note' \in [Paths -> Note]
      /\ \A q \in Paths \ {p} : note'[q] = note[q]
  BY <1>1 DEF ServerTypes, NoteTypes
<1>. QED
  BY <1>1, <1>2, <1>4, <1>6, <1>7, <1>8, <1>9, GrantedStepKeeps

\* The note is forgotten only behind the holding directory (forget_inbox); where the store refuses
\* it stays.
LEMMA ForgetsKeepsBooks == ASSUME Books, NEW p \in Paths, Forgets(p) PROVE Books'
<1>. USE DEF Books, Types
<1>1. /\ DiskTypes' /\ ServerTypes' /\ UNCHANGED <<keys, opened, upload>>
      /\ note' \in {note, [note EXCEPT ![p] = NoNote]}
  BY TypesStay DEF Forgets, diskVars, pastVars, serverVars
<1>2. WatchTypes' /\ WorldTypes'
  <2>1. WatchTypes'
    BY DEF WatchTypes, Forgets
  <2>2. WorldTypes'
    BY WorldGoesOn DEF Forgets, Heard
  <2>. QED
    BY <2>1, <2>2
<1>3. task[p] \in Task /\ Knows(p) /\ task[p].stage = "held" /\ p \in Working
  BY DEF TaskTypes, Forgets, Working, Batch, Over, At
<1>4. PICK stage \in {"ok", "foreign", "bad"} : Goes(p, stage)
  BY DEF Forgets
<1>5. /\ task' \in [Paths -> Task] /\ \A q \in Paths \ {p} : task'[q] = task[q]
      /\ task'[p].stage = stage /\ task'[p].sha = task[p].sha
      /\ task'[p].upload = task[p].upload
  BY <1>4, GoesTo DEF Stages
<1>6. TaskTypes'
  BY <1>1, <1>5 DEF TaskTypes, Task
<1>7. NoteTypes' /\ \A q \in Paths \ {p} : note'[q] = note[q]
  <2>1. NoNote \in Note
    BY UploadsAre, IngestAssumption DEF NoNote, Note, ServerTypes
  <2>. QED
    BY <1>1, <2>1 DEF NoteTypes, Note
<1>8. Knows(p)'
  BY <1>1, <1>3, <1>5 DEF Knows, Keyed, Granted, Through
<1>9. GetsOn /\ Others(p)
  BY <1>1, <1>5, <1>7 DEF GetsOn, Others
<1>. QED
  BY <1>1, <1>2, <1>3, <1>6, <1>7, <1>8, <1>9, StepKeeps

\* A grant expires at the server.
LEMMA ExpiresKeepsBooks == ASSUME Books, NEW u \in DOMAIN upload, Expires(u) PROVE Books'
<1>. USE DEF Books, Types
<1>1. /\ DiskTypes' /\ WatchTypes'
      /\ UNCHANGED <<keys, opened, grantOf, holding, heard, note, task>>
  BY TypesStay DEF Expires, diskVars, pastVars
<1>2. WorldTypes'
  BY WorldGoesOn DEF Expires
<1>3. SameGrants
  BY GrantsStay DEF Expires
<1>4. ServerTypes'
  <2>1. Upload' = Upload
    BY DEF Upload
  <2>. QED
    BY <1>1, <1>3, <2>1 DEF ServerTypes, SameGrants
<1>5. TaskTypes' /\ NoteTypes' /\ Bounded'
  BY <1>1, <1>3 DEF TaskTypes, Task, NoteTypes, Note, SameGrants, Bounded, Working, Batch
<1>6. GetsOn
  BY <1>3 DEF SameGrants, GetsOn
<1>7. \A q \in Paths : Knows(q)'
  BY <1>1, <1>6, KnowsStill
<1>8. BrowserAfterIngest'
  BY <1>1, <1>6, BrowserStill
<1>. QED
  BY <1>1, <1>2, <1>4, <1>5, <1>7, <1>8

\* Before the first file there is nothing in the books.
LEMMA InitBooks == Init => Books
<1>. SUFFICES ASSUME Init PROVE Books
  OBVIOUS
<1>1. DiskTypes /\ WatchTypes /\ WorldTypes
  BY IngestAssumption DEF Init, DiskTypes, WatchTypes, WorldTypes
<1>2. ServerTypes
  <2>1. upload \in Seq(Upload) /\ Len(upload) = 0 /\ DOMAIN upload = {}
    BY EmptySeq, LenProperties DEF Init
  <2>2. 1 .. 0 = {}
    OBVIOUS
  <2>3. grantOf \in [1 .. keys -> 0 .. Len(upload)] /\ holding \in [1 .. Len(upload) -> 0 .. MaxHandIns]
    BY <2>1, <2>2 DEF Init
  <2>. QED
    BY <2>1, <2>3 DEF Init, ServerTypes
<1>3. NoteTypes /\ TaskTypes
  BY <1>2, UploadsAre, IngestAssumption DEF Init, NoteTypes, TaskTypes, Note, Task, NoNote, Idle, Stages
<1>4. Bounded
  <2>1. Working = {}
    BY DEF Init, Working, Batch, Idle
  <2>. QED
    BY <2>1, FS_EmptySet, IngestAssumption DEF Bounded
<1>5. (\A p \in Paths : Knows(p)) /\ BrowserAfterIngest
  BY DEF Init, Knows, Keyed, Granted, Through, Idle, BrowserAfterIngest
<1>. QED
  BY <1>1, <1>2, <1>3, <1>4, <1>5 DEF Books, Types

\* Every step keeps the books.
LEMMA NextKeepsBooks == Books /\ [Next]_vars => Books'
<1>. SUFFICES ASSUME Books, [Next]_vars PROVE Books'
  OBVIOUS
<1>1. ASSUME NEW p \in Paths,
             Drops(p) \/ PullsOut(p) \/ file_appeared(p) \/ Ripens(p) \/ RestIsOver(p)
      PROVE  Books'
  BY <1>1, UserKeepsBooks, WatchKeepsBooks
<1>2. CASE pass \/ BatchEnds
  BY <1>2, PassKeepsBooks, BatchEndKeepsBooks
<1>3. ASSUME NEW p \in Paths, Step(p) PROVE Books'
  BY <1>3, BeginsKeepsBooks, StatsKeepsBooks, HashesKeepsBooks, NotesKeepsBooks, CreatesKeepsBooks,
     AskingKeepsBooks, NoAnswerKeepsBooks, HoldingKeepsBooks, ForgetsKeepsBooks DEF Step
<1>4. CASE SignsOut \/ Restart \/ GoesOffline \/ ComesBack
  BY <1>4, UserKeepsBooks, RestartKeepsBooks, WatchKeepsBooks
<1>5. ASSUME NEW u \in DOMAIN upload, Expires(u) PROVE Books'
  BY <1>5, ExpiresKeepsBooks
<1>6. CASE UNCHANGED vars
  <2>1. Quiet
    BY <1>6 DEF vars, Quiet, diskVars, pastVars, serverVars
  <2>2. DiskTypes' /\ WatchTypes' /\ WorldTypes'
    BY <1>6, TypesStay DEF vars, Books, Types
  <2>. QED
    BY <2>1, <2>2, QuietKeepsBooks
<1>. QED
  BY <1>1, <1>2, <1>3, <1>4, <1>5, <1>6 DEF Next

-----------------------------------------------------------------------------
(* Whose hand-in is whose, step by step. *)

\* Who lies in place and has been read by whom, for a path nobody touches.
LEMMA InPlaceStill ==
  ASSUME Care, NEW q \in Paths, task'[q] = task[q], lies'[q] = lies[q],
         withdrawn \subseteq withdrawn', cleared \subseteq cleared', raced \subseteq raced',
         At(q, "copied") => holding'[task[q].upload] = holding[task[q].upload]
  PROVE  HasRead(q)' /\ InPlace(q)'
<1>1. HasRead(q)'
  BY DEF Care, HasRead
<1>2. InPlace(q)'
  BY DEF Care, InPlace, StillThere, At
<1>. QED
  BY <1>1, <1>2

\* Fewer hand-ins are mentioned at a path, or none that was not.
Fewer(q) == Mine(q)' \subseteq Mine(q)
LEMMA ApartStill ==
  ASSUME Care, \A q \in Paths : Fewer(q), UNCHANGED handed,
         \A u \in DOMAIN upload' : upload'[u].sha <= handed
  PROVE  Apart' /\ InHand'
<1>1. Apart'
  <2>1. SUFFICES ASSUME NEW p \in Paths, NEW q \in Paths, p # q
                 PROVE  Mine(p)' \cap Mine(q)' = {}
    BY DEF Apart
  <2>2. Mine(p) \cap Mine(q) = {}
    BY <2>1 DEF Care, Apart
  <2>. QED
    BY <2>2 DEF Fewer
<1>2. InHand'
  BY DEF Care, InHand, Fewer
<1>. QED
  BY <1>1, <1>2

\* The grants carry the same checksums: one for each hand-in still.
LEMMA UploadsStill ==
  ASSUME Care, SameGrants, raced \subseteq raced'
  PROVE  OneUploadEach' /\ (\A u \in DOMAIN upload' : upload'[u].sha <= handed)
BY DEF Care, OneUploadEach, InHand, SameGrants

\* A note that stands leads where it led.
Noted(q) == note'[q].key = note[q].key /\ note'[q].stamp = note[q].stamp

LEMMA LeadsStill ==
  ASSUME Books, Care, SameGrants, NEW q \in Paths, Noted(q),
         \A k \in 1 .. keys : grantOf'[k] = grantOf[k],
         NEW u \in DOMAIN upload', upload[u].sha \notin raced, Wanted(q, upload[u].sha)
  PROVE  Leads(q, u)'
<1>1. u \in DOMAIN upload /\ Leads(q, u) /\ note[q].key \in 1 .. keys
  BY DEF Care, NotesLead, SameGrants, Leads, Books, Types, NoteTypes, Note
<1>. QED
  BY <1>1 DEF Leads, SameGrants, Noted

\* What is held is what the server has, as long as nothing is put aside.
LEMMA HeldStill ==
  ASSUME Care, SameGrants, UNCHANGED holding, raced \subseteq raced'
  PROVE  HeldIsIngested' /\ Held' = Held
BY DEF Care, HeldIsIngested, Held, Done, SameGrants

\* A task goes on without a new file, or lets go of everything it has read.
OnlyTasks(q) ==
  /\ task'[q].stamp \in {0, task[q].stamp}
  /\ task'[q].sha \in {0, task[q].sha, lies[q]}
  /\ task[q].stage \in {"ok", "foreign"} =>
       task'[q].stamp = 0 \/ task'[q].stage \in {"ok", "foreign"}

\* no file, no note and no grant changes
Same ==
  /\ UNCHANGED <<lies, handed, withdrawn, cleared, raced, holding, grantOf>>
  /\ SameGrants

LEMMA TasksKeepCare ==
  ASSUME Books, Care, Same, \A q \in Paths : Noted(q),
         \A q \in Paths : OnlyTasks(q), \A q \in Paths : HasRead(q)' /\ InPlace(q)'
  PROVE  Care'
<1>. USE DEF Same
<1>1. \A q \in Paths : Fewer(q)
  BY DEF Fewer, Mine, OnlyTasks, Noted
<1>2. Apart' /\ InHand' /\ OneUploadEach'
  BY <1>1, ApartStill, UploadsStill
<1>3. NotesLead'
  <2>1. SUFFICES ASSUME NEW u \in DOMAIN upload', NEW q \in Paths, Wanted(q, upload[u].sha)',
                        upload'[u].sha \notin raced'
                 PROVE  Leads(q, u)'
    BY DEF NotesLead
  <2>2. u \in DOMAIN upload /\ upload'[u].sha = upload[u].sha /\ upload[u].sha # 0
    BY UploadsAre DEF SameGrants, Books, Types, Upload, HandIn
  <2>3. OnlyTasks(q)
    OBVIOUS
  <2>4. Wanted(q, upload[u].sha)
    BY <2>1, <2>2, <2>3 DEF Wanted, OnlyTasks, At
  <2>. QED
    BY <2>1, <2>2, <2>4, LeadsStill
<1>4. NewerIsNew'
  BY DEF Care, NewerIsNew, SameGrants, OnlyTasks
<1>5. HeldIsIngested' /\ NothingDeleted'
  BY HeldStill DEF Care, NothingDeleted, Lying
<1>. QED
  BY <1>2, <1>3, <1>4, <1>5 DEF Care

\* One task goes on over the same files, notes and grants.
LEMMA TaskKeepsCare ==
  ASSUME Books, Care, NEW p \in Paths, Same, \A q \in Paths : Noted(q),
         \A q \in Paths \ {p} : task'[q] = task[q],
         task'[p].stamp = task[p].stamp, task'[p].sha \in {task[p].sha, lies[p]},
         task[p].stage \notin {"ok", "foreign"}, HasRead(p)', InPlace(p)'
  PROVE  Care'
<1>1. ASSUME NEW q \in Paths PROVE OnlyTasks(q) /\ HasRead(q)' /\ InPlace(q)'
  <2>1. CASE q = p
    BY <2>1 DEF OnlyTasks
  <2>2. CASE q # p
    <3>1. task'[q] = task[q]
      BY <2>2
    <3>2. HasRead(q)' /\ InPlace(q)'
      BY <3>1, InPlaceStill DEF Same
    <3>3. OnlyTasks(q)
      BY <3>1 DEF OnlyTasks
    <3>. QED
      BY <3>2, <3>3
  <2>. QED
    BY <2>1, <2>2
<1>. QED
  BY <1>1, TasksKeepCare

\* The watch, the line and the times that pass touch neither file nor task.
LEMMA QuietKeepsCare ==
  ASSUME Books, Care, UNCHANGED <<diskVars, serverVars, task, note>>
  PROVE  Care'
<1>1. Same /\ \A q \in Paths : Noted(q)
  BY GrantsStay DEF Books, Types, serverVars, diskVars, pastVars, Same, Noted
<1>2. ASSUME NEW q \in Paths PROVE OnlyTasks(q) /\ HasRead(q)' /\ InPlace(q)'
  <2>1. HasRead(q)' /\ InPlace(q)'
    BY <1>1, InPlaceStill DEF Same
  <2>. QED
    BY <2>1 DEF OnlyTasks
<1>. QED
  BY <1>1, <1>2, TasksKeepCare

\* A batch that begins or ends, and a restart, let go of everything the tasks have read.
LEMMA BatchKeepsCare ==
  ASSUME Books, Care, pass \/ BatchEnds \/ Restart
  PROVE  Care'
<1>1. Same /\ \A q \in Paths : Noted(q)
  BY GrantsStay
     DEF Books, Types, serverVars, diskVars, pastVars, pass, BatchEnds, Restart, Same, Noted
<1>2. \A q \in Paths : task'[q] \in {Idle, [Idle EXCEPT !.stage = "waits"]}
  BY DEF pass, BatchEnds, Restart
<1>3. \A q \in Paths : /\ task'[q].stamp = 0 /\ task'[q].sha = 0
                       /\ task'[q].stage \in {"idle", "waits"}
  BY <1>2 DEF Idle
<1>4. \A q \in Paths : OnlyTasks(q) /\ HasRead(q)' /\ InPlace(q)'
  BY <1>3 DEF OnlyTasks, HasRead, InPlace, At, Keyed
<1>. QED
  BY <1>1, <1>4, TasksKeepCare

\* Steps that fail, or that only lead to the next stage.
LEMMA FailsKeepsCare ==
  ASSUME Books, Care, NEW p \in Paths, Goes(p, "bad"), task[p].stage \notin {"ok", "foreign"},
         Same, \A q \in Paths : Noted(q)
  PROVE  Care'
<1>1. /\ \A q \in Paths \ {p} : task'[q] = task[q]
      /\ task'[p].stage = "bad" /\ task'[p].stamp = task[p].stamp /\ task'[p].sha = task[p].sha
  BY GoesTo DEF Books, Types, Stages
<1>2. HasRead(p)' /\ InPlace(p)'
  BY <1>1 DEF HasRead, InPlace, At, Keyed
<1>. QED
  BY <1>1, <1>2, TaskKeepsCare

\* A place is free (the semaphore of adopt_batch).
LEMMA BeginsKeepsCare == ASSUME Books, Care, NEW p \in Paths, Begins(p) PROVE Care'
<1>1. /\ \A q \in Paths \ {p} : task'[q] = task[q]
      /\ task'[p].stage = "begun" /\ task'[p].stamp = task[p].stamp /\ task'[p].sha = task[p].sha
  BY GoesTo DEF Books, Types, Stages, Begins
<1>2. HasRead(p)' /\ InPlace(p)'
  BY <1>1 DEF HasRead, InPlace, At, Keyed
<1>3. Same /\ task[p].stage \notin {"ok", "foreign"} /\ \A q \in Paths : Noted(q)
  BY GrantsStay
     DEF Books, Types, serverVars, diskVars, pastVars, localVars, Begins, At, Same, Noted
<1>. QED
  BY <1>1, <1>2, <1>3, TaskKeepsCare

\* The task notes which hand-in lies there (check_file, the modification time).
LEMMA StatsKeepsCare == ASSUME Books, Care, NEW p \in Paths, Stats(p) PROVE Care'
<1>. USE DEF Same
<1>1. Same /\ At(p, "begun") /\ \A q \in Paths : Noted(q)
  BY GrantsStay DEF Books, Types, serverVars, diskVars, pastVars, localVars, Stats, Noted
<1>2. CASE lies[p] = 0
  BY <1>1, <1>2, FailsKeepsCare DEF Stats, At
<1>3. CASE lies[p] # 0
  <2>1. /\ \A q \in Paths \ {p} : task'[q] = task[q]
        /\ task'[p].stage = "stat" /\ task'[p].stamp = lies[p] /\ task'[p].sha = task[p].sha
    BY <1>3 DEF Stats, Books, Types, TaskTypes, Task
  <2>2. ASSUME NEW q \in Paths PROVE Fewer(q) /\ HasRead(q)' /\ InPlace(q)'
    <3>1. CASE q = p
      BY <1>1, <1>3, <2>1, <3>1 DEF Fewer, Mine, Noted, HasRead, InPlace, At, Keyed
    <3>2. CASE q # p
      <4>1. task'[q] = task[q]
        BY <2>1, <3>2
      <4>2. HasRead(q)' /\ InPlace(q)'
        BY <1>1, <4>1, InPlaceStill
      <4>. QED
        BY <1>1, <4>1, <4>2 DEF Fewer, Mine, Noted
    <3>. QED
      BY <3>1, <3>2
  <2>3. Apart' /\ InHand' /\ OneUploadEach'
    BY <1>1, <2>2, ApartStill, UploadsStill
  <2>4. NotesLead'
    <3>1. SUFFICES ASSUME NEW u \in DOMAIN upload', NEW q \in Paths, Wanted(q, upload[u].sha)',
                          upload'[u].sha \notin raced'
                   PROVE  Leads(q, u)'
      BY DEF NotesLead
    <3>2. u \in DOMAIN upload /\ upload'[u].sha = upload[u].sha
      BY <1>1 DEF SameGrants
    <3>3. Wanted(q, upload[u].sha)
      <4>1. CASE q = p
        BY <1>1, <2>1, <3>1, <3>2, <4>1 DEF Wanted, At
      <4>2. CASE q # p
        BY <1>1, <2>1, <3>1, <3>2, <4>2 DEF Wanted, At
      <4>. QED
        BY <4>1, <4>2
    <3>. QED
      BY <1>1, <3>1, <3>2, <3>3, LeadsStill
  <2>5. NewerIsNew'
    BY <1>1, <2>1 DEF Care, NewerIsNew, SameGrants
  <2>6. HeldIsIngested' /\ NothingDeleted'
    BY <1>1, HeldStill DEF Care, NothingDeleted, Lying
  <2>. QED
    BY <2>2, <2>3, <2>4, <2>5, <2>6 DEF Care
<1>. QED
  BY <1>2, <1>3

\* The bytes are those of the file whose time was read, or of one that was put over it.
LEMMA HashesKeepsCare == ASSUME Books, Care, NEW p \in Paths, Hashes(p) PROVE Care'
<1>1. Same /\ At(p, "stat") /\ \A q \in Paths : Noted(q)
  BY GrantsStay DEF Books, Types, serverVars, diskVars, pastVars, localVars, Hashes, Same, Noted
<1>2. CASE lies[p] = 0
  BY <1>1, <1>2, FailsKeepsCare DEF Hashes, At
<1>3. CASE lies[p] # 0
  <2>1. /\ \A q \in Paths \ {p} : task'[q] = task[q]
        /\ task'[p].stage = "checked" /\ task'[p].stamp = task[p].stamp
        /\ task'[p].sha = lies[p]
    BY <1>3 DEF Hashes, Books, Types, TaskTypes, Task
  <2>2. lies[p] \in {task[p].stamp} \cup raced /\ task[p].stamp # 0
    BY <1>1, <1>3 DEF Care, InPlace, HasRead, At
  <2>3. HasRead(p)' /\ InPlace(p)'
    BY <1>1, <2>1, <2>2 DEF HasRead, InPlace, At, Keyed, Same
  <2>. QED
    BY <1>1, <2>1, <2>3, TaskKeepsCare DEF At
<1>. QED
  BY <1>2, <1>3

\* The note of this hand-in is found, or written where no upload came of the old one (pending).
LEMMA NotesKeepsCare == ASSUME Books, Care, NEW p \in Paths, Notes(p) PROVE Care'
<1>1. /\ SameGrants /\ At(p, "checked")
      /\ UNCHANGED <<lies, handed, withdrawn, cleared, raced, holding>>
  BY GrantsStay DEF Books, Types, diskVars, pastVars, localVars, Notes
<1>2. /\ \A q \in Paths \ {p} : task'[q] = task[q]
      /\ task'[p].stage = "noted" /\ task'[p].stamp = task[p].stamp
      /\ task'[p].sha = task[p].sha
  BY DEF Notes, Books, Types, TaskTypes, Task
<1>3. task[p].stamp # 0 /\ task[p].sha \in {task[p].stamp} \cup raced
  BY <1>1 DEF Care, HasRead, At
<1>4. HasRead(p)' /\ InPlace(p)'
  BY <1>1, <1>2, <1>3 DEF HasRead, InPlace, At, Keyed
<1>5. CASE Fits(p)
  <2>1. Same /\ \A q \in Paths : Noted(q)
    BY <1>1, <1>5 DEF Notes, Same, Noted
  <2>. QED
    BY <1>1, <1>2, <1>4, <2>1, TaskKeepsCare DEF At
<1>6. CASE ~Fits(p)
  <2>1. /\ \A q \in Paths \ {p} : note'[q] = note[q]
        /\ note'[p].key = keys + 1 /\ note'[p].stamp = task[p].stamp
        /\ grantOf' = Append(grantOf, 0)
    BY <1>6 DEF Notes, Books, Types, NoteTypes
  <2>2. \A k \in 1 .. keys : grantOf'[k] = grantOf[k]
    <3>1. grantOf \in Seq(0 .. Len(upload)) /\ Len(grantOf) = keys /\ 0 \in 0 .. Len(upload)
      BY UploadsAre DEF Books, Types, ServerTypes
    <3>. QED
      BY <2>1, <3>1, AppendProperties
  <2>3. ASSUME NEW q \in Paths PROVE Fewer(q) /\ HasRead(q)' /\ InPlace(q)'
    <3>1. CASE q = p
      BY <1>1, <1>2, <1>4, <2>1, <3>1 DEF Fewer, Mine
    <3>2. CASE q # p
      <4>1. task'[q] = task[q] /\ note'[q] = note[q]
        BY <1>2, <2>1, <3>2
      <4>2. HasRead(q)' /\ InPlace(q)'
        BY <1>1, <4>1, InPlaceStill
      <4>. QED
        BY <1>1, <4>1, <4>2 DEF Fewer, Mine
    <3>. QED
      BY <3>1, <3>2
  <2>4. Apart' /\ InHand' /\ OneUploadEach'
    BY <1>1, <2>3, ApartStill, UploadsStill
  <2>5. NotesLead'
    <3>1. SUFFICES ASSUME NEW u \in DOMAIN upload', NEW q \in Paths, Wanted(q, upload[u].sha)',
                          upload'[u].sha \notin raced'
                   PROVE  Leads(q, u)'
      BY DEF NotesLead
    <3>2. u \in DOMAIN upload /\ upload'[u].sha = upload[u].sha /\ upload[u].sha # 0
      BY <1>1, UploadsAre DEF SameGrants, Books, Types, Upload, HandIn
    <3>3. Wanted(q, upload[u].sha)
      BY <1>1, <1>2, <3>1, <3>2 DEF Wanted, At
    <3>4. CASE q = p
      <4>1. Wanted(p, task[p].stamp) /\ (upload[u].sha = task[p].stamp => Leads(p, u))
        BY <1>1, <3>1, <3>2 DEF Wanted, At, Care, NotesLead
      <4>2. upload[u].sha # task[p].stamp
        BY <1>6, <4>1 DEF Leads, Fits
      <4>3. upload[u].sha = lies[p] /\ lies[p] # task[p].stamp
        BY <3>3, <3>4, <4>2 DEF Wanted
      <4>. QED
        BY <1>1, <1>3, <3>1, <3>2, <4>3 DEF Care, NewerIsNew
    <3>5. CASE q # p
      <4>1. Noted(q)
        BY <2>1, <3>5 DEF Noted
      <4>. QED
        BY <1>1, <2>2, <3>1, <3>2, <3>3, <4>1, LeadsStill
    <3>. QED
      BY <3>4, <3>5
  <2>6. NewerIsNew'
    BY <1>1, <1>2 DEF Care, NewerIsNew, SameGrants
  <2>7. HeldIsIngested' /\ NothingDeleted'
    BY <1>1, HeldStill DEF Care, NothingDeleted, Lying
  <2>. QED
    BY <2>3, <2>4, <2>5, <2>6, <2>7 DEF Care
<1>. QED
  BY <1>5, <1>6

\* A first grant under this key: no other upload carries this hand-in, unless it was put over a
\* file that the program trusted.
LEMMA FirstGrant ==
  ASSUME Books, Care, NEW p \in Paths, At(p, "noted"), grantOf[task[p].key] = 0,
         NewGrant(task[p].key, task[p].sha), \A q \in Paths : Noted(q),
         UNCHANGED <<lies, handed, withdrawn, cleared, raced, keys, opened, heard>>,
         \A q \in Paths \ {p} : task'[q] = task[q],
         task'[p].stage \in {"granted", "bad"}, task'[p].stamp = task[p].stamp,
         task'[p].sha = task[p].sha
  PROVE  Care'
<1>. USE DEF Noted
<1>1. /\ task[p].stamp # 0 /\ task[p].sha \in {task[p].stamp} \cup raced
      /\ note[p].key = task[p].key /\ note[p].stamp = task[p].stamp
      /\ task[p].key \in 1 .. keys /\ task[p].sha \in HandIn
  <2>1. task[p] \in Task /\ Knows(p) /\ HasRead(p) /\ keys \in Nat
    BY DEF Books, Types, TaskTypes, ServerTypes, Care
  <2>. QED
    BY <2>1 DEF Knows, HasRead, At, Keyed, Task, HandIn
<1>. DEFINE new == Len(upload) + 1
<1>2. /\ Len(upload) \in Nat /\ DOMAIN upload' = DOMAIN upload \cup {new} /\ new \notin DOMAIN upload
      /\ \A u \in DOMAIN upload : upload'[u] = upload[u] /\ holding'[u] = holding[u]
      /\ upload'[new].sha = task[p].sha /\ holding'[new] = 0
      /\ grantOf'[task[p].key] = new
      /\ \A j \in 1 .. keys : j # task[p].key => grantOf'[j] = grantOf[j]
  BY <1>1, GrantGrows DEF Books, Types
<1>. HIDE DEF new
<1>3. \A u \in DOMAIN upload : upload[u].sha # task[p].sha \/ task[p].sha \in raced
  <2>1. SUFFICES ASSUME NEW u \in DOMAIN upload, upload[u].sha = task[p].sha, task[p].sha \notin raced
                 PROVE  FALSE
    OBVIOUS
  <2>2. Leads(p, u)
    BY <1>1, <2>1 DEF Care, NotesLead, Wanted, At
  <2>3. u # 0
    BY <1>2, UploadsAre DEF Books, Types
  <2>. QED
    BY <1>1, <2>2, <2>3 DEF Leads
<1>4. \A q \in Paths : task[q].stamp = task[p].sha \/ lies[q] = task[p].sha => q = p
  BY <1>1 DEF Care, Apart, Mine, HandIn
<1>5. ASSUME NEW q \in Paths PROVE Fewer(q) /\ HasRead(q)' /\ InPlace(q)'
  <2>1. CASE q = p
    BY <1>1, <2>1 DEF Fewer, Mine, HasRead, InPlace, At, Keyed
  <2>2. CASE q # p
    <3>1. task'[q] = task[q]
      BY <2>2
    <3>2. At(q, "copied") => task[q].upload \in DOMAIN upload
      <4>1. task[q] \in Task /\ Knows(q)
        BY DEF Books, Types, TaskTypes
      <4>. QED
        BY <4>1, UploadsAre DEF Knows, At, Granted, Task, Books, Types
    <3>3. HasRead(q)' /\ InPlace(q)'
      BY <1>2, <3>1, <3>2, InPlaceStill
    <3>. QED
      BY <3>1, <3>3 DEF Fewer, Mine
  <2>. QED
    BY <2>1, <2>2
<1>6. Apart' /\ InHand'
  <2>1. task[p].sha <= handed
    BY <1>1 DEF Care, InHand, Mine, HandIn
  <2>2. \A u \in DOMAIN upload' : upload'[u].sha <= handed
    BY <1>2, <2>1 DEF Care, InHand
  <2>. QED
    BY <1>5, <2>2, ApartStill
<1>7. OneUploadEach'
  BY <1>2, <1>3 DEF Care, OneUploadEach
<1>8. NotesLead'
  <2>1. SUFFICES ASSUME NEW u \in DOMAIN upload', NEW q \in Paths, Wanted(q, upload[u].sha)',
                        upload'[u].sha \notin raced'
                 PROVE  Leads(q, u)'
    BY DEF NotesLead
  <2>2. Wanted(q, upload'[u].sha)
    BY <2>1 DEF Wanted, At
  <2>3. CASE u = new
    <3>1. q = p
      BY <1>2, <1>4, <2>2, <2>3 DEF Wanted
    <3>2. task[p].sha = task[p].stamp
      BY <1>1, <1>2, <2>1, <2>3
    <3>. QED
      BY <1>1, <1>2, <2>3, <3>1, <3>2 DEF Leads
  <2>4. CASE u # new
    <3>1. u \in DOMAIN upload /\ upload'[u] = upload[u] /\ u # 0
      BY <1>2, <2>4, UploadsAre DEF Books, Types
    <3>2. Leads(q, u) /\ note[q].key \in 0 .. keys
      BY <2>1, <2>2, <3>1 DEF Care, NotesLead, Books, Types, NoteTypes, Note
    <3>3. grantOf'[note[q].key] = u
      BY <1>1, <1>2, <3>1, <3>2 DEF Leads
    <3>. QED
      BY <3>1, <3>2, <3>3 DEF Leads
  <2>. QED
    BY <2>3, <2>4
<1>9. NewerIsNew'
  <2>1. SUFFICES ASSUME NEW q \in Paths, task'[q].stamp # 0,
                        lies[q] \notin {task'[q].stamp} \cup raced, NEW u \in DOMAIN upload'
                 PROVE  upload'[u].sha # lies[q]
    BY DEF NewerIsNew
  <2>2. task'[q].stamp = task[q].stamp
    OBVIOUS
  <2>3. CASE u = new
    BY <1>1, <1>2, <1>4, <2>1, <2>2, <2>3
  <2>4. CASE u # new
    BY <1>2, <2>1, <2>2, <2>4 DEF Care, NewerIsNew
  <2>. QED
    BY <2>3, <2>4
<1>10. HeldIsIngested' /\ NothingDeleted'
  <2>1. Held' = Held
    BY <1>2 DEF Held
  <2>2. HeldIsIngested'
    BY <1>2, <2>1 DEF Care, HeldIsIngested, Held, Done
  <2>3. \A u \in Held : holding'[u] = holding[u]
    BY <1>2 DEF Held
  <2>. QED
    BY <2>1, <2>2, <2>3 DEF Care, NothingDeleted, Lying
<1>. QED
  BY <1>5, <1>6, <1>7, <1>8, <1>9, <1>10 DEF Care

\* A key the server knows leads to the grant it led to before (upload_apply_for).
LEMMA CreatesKeepsCare == ASSUME Books, Care, NEW p \in Paths, Creates(p) PROVE Care'
<1>1. /\ At(p, "noted")
      /\ UNCHANGED <<lies, handed, withdrawn, cleared, raced, heard, keys, opened>>
      /\ task \in [Paths -> Task]
  BY DEF Creates, pastVars, Books, Types, TaskTypes
<1>2. Len(upload) + 1 \in Nat /\ grantOf[task[p].key] \in Nat
  <2>1. task[p] \in Task /\ Knows(p) /\ Len(upload) \in Nat /\ keys \in Nat
        /\ grantOf \in [1 .. keys -> 0 .. Len(upload)]
    BY UploadsAre DEF Books, Types, TaskTypes, ServerTypes
  <2>2. task[p].key \in 1 .. keys
    BY <1>1, <2>1 DEF Knows, Task, At, Keyed
  <2>. QED
    BY <2>1, <2>2
<1>3. ASSUME NEW u \in Nat, GetsGrant(p, u)
      PROVE  /\ \A q \in Paths \ {p} : task'[q] = task[q]
             /\ task'[p].stage = "granted" /\ task'[p].stamp = task[p].stamp
             /\ task'[p].sha = task[p].sha
             /\ \A q \in Paths : Noted(q)
  BY <1>3, GrantNoted DEF Noted
<1>4. ASSUME grantOf[task[p].key] = 0, NewGrant(task[p].key, task[p].sha),
             GetsGrant(p, Len(upload) + 1) \/ (Goes(p, "bad") /\ UNCHANGED note)
      PROVE  Care'
  <2>1. /\ \A q \in Paths \ {p} : task'[q] = task[q]
        /\ task'[p].stage \in {"granted", "bad"} /\ task'[p].stamp = task[p].stamp
        /\ task'[p].sha = task[p].sha
        /\ \A q \in Paths : Noted(q)
    <3>1. CASE GetsGrant(p, Len(upload) + 1)
      BY <1>2, <1>3, <3>1
    <3>2. CASE Goes(p, "bad") /\ UNCHANGED note
      BY <3>2, GoesTo DEF Books, Types, Stages, Noted
    <3>. QED
      BY <1>4, <3>1, <3>2
  <2>. QED
    BY <1>1, <1>4, <2>1, FirstGrant
<1>5. ASSUME GetsGrant(p, grantOf[task[p].key]), UNCHANGED <<serverVars, holding>> PROVE Care'
  <2>1. Same
    BY <1>1, <1>5, GrantsStay DEF Books, Types, serverVars, Same
  <2>2. /\ \A q \in Paths \ {p} : task'[q] = task[q]
        /\ task'[p].stage = "granted" /\ task'[p].stamp = task[p].stamp
        /\ task'[p].sha = task[p].sha
        /\ \A q \in Paths : Noted(q)
    BY <1>2, <1>3, <1>5
  <2>3. HasRead(p)' /\ InPlace(p)'
    BY <1>1, <2>2 DEF Care, HasRead, InPlace, At, Keyed
  <2>. QED
    BY <1>1, <2>1, <2>2, <2>3, TaskKeepsCare DEF At
<1>6. ASSUME Goes(p, "bad"), UNCHANGED <<serverVars, holding, note>> PROVE Care'
  <2>1. Same /\ \A q \in Paths : Noted(q)
    BY <1>1, <1>6, GrantsStay DEF Books, Types, serverVars, Same, Noted
  <2>. QED
    BY <1>1, <1>6, <2>1, FailsKeepsCare DEF At
<1>. QED
  BY <1>4, <1>5, <1>6 DEF Creates, NewGrant

\* The server takes the bytes only if they are those that were announced (upload_send), so the file
\* in the basket is the one that is then completed (upload_complete).
LEMMA AskingKeepsCare == ASSUME Books, Care, NEW p \in Paths, Sends(p) \/ Completes(p) PROVE Care'
<1>1. /\ UNCHANGED <<lies, handed, withdrawn, cleared, raced, holding, note, grantOf>>
      /\ task[p].stage \in {"granted", "sent"}
  BY DEF Sends, Completes, At, diskVars, pastVars
<1>2. task[p].upload \in DOMAIN upload /\ upload[task[p].upload].sha = task[p].sha
  <2>1. task[p] \in Task /\ Knows(p)
    BY DEF Books, Types, TaskTypes
  <2>. QED
    BY <1>1, <2>1, UploadsAre DEF Knows, Granted, Task, Books, Types
<1>3. Same /\ \A q \in Paths : Noted(q)
  BY <1>1, <1>2, GrantsStay DEF Books, Types, Sends, Completes, Same, Noted
<1>4. CASE Goes(p, "bad")
  BY <1>1, <1>3, <1>4, FailsKeepsCare
<1>5. ASSUME NEW stage \in {"sent", "complete"}, Goes(p, stage), StillThere(p)
      PROVE  Care'
  <2>1. /\ \A q \in Paths \ {p} : task'[q] = task[q]
        /\ task'[p].stage = stage /\ task'[p].stamp = task[p].stamp
        /\ task'[p].sha = task[p].sha
    BY <1>5, GoesTo DEF Books, Types, Stages
  <2>2. HasRead(p)'
    BY <1>1, <1>5, <2>1 DEF Care, HasRead, Keyed
  <2>3. InPlace(p)'
    BY <1>1, <1>5, <2>1 DEF InPlace, StillThere, At
  <2>. QED
    BY <1>1, <1>3, <2>1, <2>2, <2>3, TaskKeepsCare
<1>6. CASE Sends(p) /\ ~Goes(p, "bad")
  <2>1. Goes(p, "sent") /\ StillThere(p)
    BY <1>2, <1>6 DEF Sends, StillThere
  <2>. QED
    BY <1>5, <2>1
<1>7. CASE Completes(p) /\ ~Goes(p, "bad")
  <2>1. Goes(p, "complete") /\ StillThere(p)
    BY <1>7 DEF Completes, At, Care, InPlace
  <2>. QED
    BY <1>5, <2>1
<1>. QED
  BY <1>4, <1>6, <1>7

\* Without line or login the call fails.
LEMMA NoAnswerKeepsCare == ASSUME Books, Care, NEW p \in Paths, NoAnswer(p) PROVE Care'
<1>1. Same /\ \A q \in Paths : Noted(q)
  BY GrantsStay DEF Books, Types, NoAnswer, localVars, diskVars, pastVars, serverVars, Same, Noted
<1>. QED
  BY <1>1, FailsKeepsCare DEF NoAnswer

\* The file goes from its basket to the holding directory.  What lay there under its upload already
\* is the same file, or it is one the user took back or a sign-out cleared (hold).
LEMMA FileMoves ==
  ASSUME Books, Care, NEW p \in Paths, task[p].stage \in {"complete", "copied"},
         UNCHANGED <<handed, withdrawn, cleared, raced, upload, grantOf, note>>,
         \A q \in Paths \ {p} : task'[q] = task[q],
         task'[p].stamp = task[p].stamp, task'[p].sha = task[p].sha,
         task'[p].upload = task[p].upload,
         task'[p].stage \in {"copied", "held", "bad"},
         lies' \in {lies, [lies EXCEPT ![p] = 0]},
         \/ holding' = holding
         \/ lies[p] # 0 /\ holding' = [holding EXCEPT ![task[p].upload] = lies[p]],
         task'[p].stage = "held" => lies'[p] = 0,
         task'[p].stage = "copied" => lies'[p] = lies[p] /\ holding'[task[p].upload] = lies[p],
         lies'[p] # lies[p] => holding'[task[p].upload] = lies[p] \/ lies[p] \in raced
  PROVE  Care'
<1>1. /\ task[p].upload \in DOMAIN upload /\ upload[task[p].upload].sha = task[p].sha
      /\ upload[task[p].upload].done
      /\ task[p].stamp # 0 /\ task[p].sha # 0 /\ StillThere(p)
  <2>1. task[p] \in Task /\ Knows(p) /\ HasRead(p) /\ InPlace(p)
    BY DEF Books, Types, TaskTypes, Care
  <2>. QED
    BY <2>1, UploadsAre DEF Knows, HasRead, InPlace, Granted, Keyed, Through, Task, Books, Types
<1>2. /\ DOMAIN holding = DOMAIN upload /\ DOMAIN holding' = DOMAIN upload
      /\ \A u \in DOMAIN upload : \/ holding'[u] = holding[u]
                                  \/ u = task[p].upload /\ lies[p] # 0 /\ holding'[u] = lies[p]
  BY <1>1, UploadsAre DEF Books, Types, ServerTypes
<1>3. /\ \A q \in Paths \ {p} : lies'[q] = lies[q]
      /\ lies'[p] \in {0, lies[p]}
  BY DEF Books, Types, DiskTypes
<1>4. ASSUME NEW q \in Paths PROVE Fewer(q) /\ HasRead(q)' /\ InPlace(q)'
  <2>1. CASE q = p
    <3>1. Fewer(q)
      BY <1>3, <2>1 DEF Fewer, Mine
    <3>2. HasRead(q)'
      BY <2>1 DEF Care, HasRead, Keyed
    <3>3. InPlace(q)'
      BY <1>1, <1>3, <2>1 DEF InPlace, StillThere, At
    <3>. QED
      BY <3>1, <3>2, <3>3
  <2>2. CASE q # p
    <3>1. task'[q] = task[q] /\ lies'[q] = lies[q]
      BY <1>3, <2>2
    <3>2. ASSUME At(q, "copied") PROVE holding'[task[q].upload] = holding[task[q].upload]
      <4>1. task[q] \in Task /\ Knows(q)
        BY DEF Books, Types, TaskTypes
      <4>2. /\ task[q].upload \in DOMAIN upload /\ upload[task[q].upload].sha = task[q].sha
            /\ task[q].sha # 0
        BY <3>2, <4>1, UploadsAre DEF Knows, At, Granted, Keyed, Task, Books, Types
      <4>3. task[q].sha # task[p].sha
        BY <1>1, <2>2, <4>2 DEF Care, Apart, Mine
      <4>. QED
        BY <1>1, <1>2, <4>2, <4>3
    <3>3. HasRead(q)' /\ InPlace(q)'
      BY <3>1, <3>2, InPlaceStill
    <3>. QED
      BY <3>1, <3>3 DEF Fewer, Mine
  <2>. QED
    BY <2>1, <2>2
<1>5. SameGrants
  BY GrantsStay DEF Books, Types
<1>6. Apart' /\ InHand' /\ OneUploadEach'
  BY <1>4, <1>5, ApartStill, UploadsStill
<1>7. NotesLead'
  <2>1. SUFFICES ASSUME NEW u \in DOMAIN upload', NEW q \in Paths, Wanted(q, upload[u].sha)',
                        upload'[u].sha \notin raced'
                 PROVE  Leads(q, u)'
    BY DEF NotesLead
  <2>2. upload[u].sha # 0
    BY UploadsAre DEF Books, Types, Upload, HandIn
  <2>3. Wanted(q, upload[u].sha)
    BY <1>3, <2>1, <2>2 DEF Wanted, At
  <2>. QED
    BY <1>5, <2>1, <2>3, LeadsStill DEF Noted
<1>8. NewerIsNew'
  <2>1. SUFFICES ASSUME NEW q \in Paths, task'[q].stamp # 0,
                        lies'[q] \notin {task'[q].stamp} \cup raced, NEW u \in DOMAIN upload
                 PROVE  upload[u].sha # lies'[q]
    BY DEF NewerIsNew
  <2>2. upload[u].sha # 0
    BY UploadsAre DEF Books, Types, Upload, HandIn
  <2>3. CASE lies'[q] = 0
    BY <2>2, <2>3
  <2>4. CASE lies'[q] # 0
    <3>1. lies'[q] = lies[q] /\ task'[q].stamp = task[q].stamp
      BY <1>3, <2>4
    <3>. QED
      BY <2>1, <3>1 DEF Care, NewerIsNew
  <2>. QED
    BY <2>3, <2>4
<1>9. HeldIsIngested'
  <2>1. SUFFICES ASSUME NEW u \in DOMAIN upload, holding'[u] # 0
                 PROVE  upload[u].done /\ holding'[u] \in {upload[u].sha} \cup raced
    BY <1>2 DEF HeldIsIngested, Held, Done
  <2>2. CASE holding'[u] = holding[u]
    BY <2>1, <2>2 DEF Care, HeldIsIngested, Held, Done
  <2>3. CASE u = task[p].upload /\ lies[p] # 0 /\ holding'[u] = lies[p]
    BY <1>1, <2>3 DEF StillThere
  <2>. QED
    BY <1>2, <2>2, <2>3
<1>10. NothingDeleted'
  <2>1. SUFFICES ASSUME NEW h \in 1 .. handed, h \notin withdrawn \cup cleared \cup raced,
                        \A q \in Paths : lies'[q] # h
                 PROVE  \E u \in DOMAIN upload : holding'[u] = h
    <3>1. 1 .. handed \subseteq Nat /\ 0 \notin 1 .. handed
      BY DEF Books, Types, DiskTypes
    <3>. QED
      BY <2>1, <3>1 DEF NothingDeleted, Lying, Held
  <2>2. CASE \E q \in Paths : lies[q] = h
    <3>1. lies[p] = h /\ lies'[p] # lies[p]
      BY <1>3, <2>1, <2>2
    <3>. QED
      BY <1>1, <2>1, <3>1
  <2>3. CASE \A q \in Paths : lies[q] # h
    <3>1. PICK u \in DOMAIN upload : holding[u] = h /\ u \in Held
      BY <2>1, <2>3 DEF Care, NothingDeleted, Lying, Held
    <3>2. holding[u] = upload[u].sha
      BY <2>1, <3>1 DEF Care, HeldIsIngested
    <3>3. u # task[p].upload
      BY <1>1, <2>1, <2>3, <3>1, <3>2 DEF StillThere
    <3>. QED
      BY <1>2, <3>1, <3>3
  <2>. QED
    BY <2>2, <2>3
<1>. QED
  BY <1>4, <1>6, <1>7, <1>8, <1>9, <1>10 DEF Care

\* The ways hold puts a file aside.
LEMMA HoldingKeepsCare ==
  ASSUME Books, Care, NEW p \in Paths, Renames(p) \/ Copies(p) \/ Removes(p) PROVE Care'
<1>1. /\ task[p].stage \in {"complete", "copied"}
      /\ UNCHANGED <<handed, withdrawn, cleared, raced, upload, grantOf, note>>
  BY DEF Renames, Copies, Removes, holdVars, pastVars, serverVars, At
<1>2. /\ StillThere(p)
      /\ At(p, "copied") /\ lies[p] = task[p].sha => holding[task[p].upload] = task[p].sha
  BY <1>1 DEF Care, InPlace
<1>3. PICK stage \in {"copied", "held", "bad"} : Goes(p, stage)
  BY DEF Renames, Copies, Removes
<1>4. /\ \A q \in Paths \ {p} : task'[q] = task[q]
      /\ task'[p].stage = stage /\ task'[p].stamp = task[p].stamp
      /\ task'[p].sha = task[p].sha /\ task'[p].upload = task[p].upload
  BY <1>3, GoesTo DEF Books, Types, Stages
<1>5. task[p].upload \in DOMAIN holding /\ p \in DOMAIN lies
  <2>1. task[p] \in Task /\ Knows(p)
    BY DEF Books, Types, TaskTypes
  <2>. QED
    BY <1>1, <2>1, UploadsAre DEF Knows, Granted, Task, Books, Types, ServerTypes, DiskTypes
<1>6. CASE Renames(p)
  <2>1. /\ holding' = [holding EXCEPT ![task[p].upload] = lies[p]] /\ lies[p] # 0
        /\ lies' = [lies EXCEPT ![p] = 0] /\ Goes(p, "held")
    BY <1>6 DEF Renames
  <2>2. holding'[task[p].upload] = lies[p] /\ lies'[p] = 0
    BY <1>5, <2>1
  <2>3. task'[p].stage = "held"
    BY <2>1, GoesTo DEF Books, Types, Stages
  <2>. QED
    BY <1>1, <1>4, <2>1, <2>2, <2>3, FileMoves
<1>7. CASE Copies(p)
  <2>1. CASE lies[p] = 0
    <3>1. Same /\ \A q \in Paths : Noted(q)
      BY <1>1, <1>7, <2>1, GrantsStay DEF Books, Types, Copies, Same, Noted
    <3>. QED
      BY <1>1, <1>7, <2>1, <3>1, FailsKeepsCare DEF Copies
  <2>2. CASE lies[p] # 0
    <3>1. /\ holding' = [holding EXCEPT ![task[p].upload] = lies[p]]
          /\ lies' = lies /\ Goes(p, "copied")
      BY <1>7, <2>2 DEF Copies
    <3>2. holding'[task[p].upload] = lies[p]
      BY <1>5, <3>1
    <3>3. task'[p].stage = "copied"
      BY <3>1, GoesTo DEF Books, Types, Stages
    <3>. QED
      BY <1>1, <1>4, <2>2, <3>1, <3>2, <3>3, FileMoves
  <2>. QED
    BY <2>1, <2>2
<1>8. CASE Removes(p)
  <2>1. /\ holding' = holding /\ lies' = [lies EXCEPT ![p] = 0] /\ lies'[p] = 0
        /\ Goes(p, "bad") \/ Goes(p, "held")
    BY <1>5, <1>8 DEF Removes
  <2>2. lies'[p] # lies[p] => holding'[task[p].upload] = lies[p] \/ lies[p] \in raced
    BY <1>2, <1>8, <2>1 DEF Removes, StillThere
  <2>3. task'[p].stage \in {"bad", "held"}
    BY <2>1, GoesTo DEF Books, Types, Stages
  <2>. QED
    BY <1>1, <1>4, <2>1, <2>2, <2>3, FileMoves
<1>. QED
  BY <1>6, <1>7, <1>8

\* A note is forgotten when its hand-in lies in no basket any more, and what lies there is new.
LEMMA ForgetsKeepsCare == ASSUME Books, Care, NEW p \in Paths, Forgets(p) PROVE Care'
<1>. USE DEF Same
<1>1. /\ Same /\ At(p, "held")
      /\ \/ note' = [note EXCEPT ![p] = NoNote] /\ (Goes(p, "ok") \/ Goes(p, "foreign"))
         \/ note' = note /\ Goes(p, "bad")
  BY GrantsStay DEF Forgets, diskVars, pastVars, serverVars, Books, Types
<1>. SUFFICES ASSUME note' = [note EXCEPT ![p] = NoNote], Goes(p, "ok") \/ Goes(p, "foreign")
              PROVE  Care'
  BY <1>1, FailsKeepsCare DEF At, Noted
<1>2. /\ \A q \in Paths \ {p} : task'[q] = task[q] /\ note'[q] = note[q]
      /\ task'[p].stage \in {"ok", "foreign"} /\ task'[p].stamp = task[p].stamp
      /\ task'[p].sha = task[p].sha
      /\ note'[p].stamp = 0
  <2>1. /\ \A q \in Paths \ {p} : task'[q] = task[q]
        /\ task'[p].stage \in {"ok", "foreign"} /\ task'[p].stamp = task[p].stamp
        /\ task'[p].sha = task[p].sha
    BY GoesTo DEF Books, Types, Stages
  <2>2. note'[p] = NoNote /\ \A q \in Paths \ {p} : note'[q] = note[q]
    BY DEF Books, Types, NoteTypes
  <2>. QED
    BY <2>1, <2>2 DEF NoNote
<1>3. task[p].stamp # 0 /\ lies[p] # task[p].stamp
  BY <1>1 DEF Care, HasRead, InPlace, At, Keyed
<1>4. \A u \in DOMAIN upload : upload[u].sha # lies[p] \/ lies[p] \in raced
  BY <1>3 DEF Care, NewerIsNew
<1>5. ASSUME NEW q \in Paths PROVE Fewer(q) /\ HasRead(q)' /\ InPlace(q)'
  <2>1. CASE q = p
    BY <1>1, <1>2, <2>1 DEF Fewer, Mine, HasRead, InPlace, At, Keyed
  <2>2. CASE q # p
    <3>1. task'[q] = task[q] /\ note'[q] = note[q]
      BY <1>2, <2>2
    <3>2. HasRead(q)' /\ InPlace(q)'
      BY <1>1, <3>1, InPlaceStill
    <3>. QED
      BY <1>1, <3>1, <3>2 DEF Fewer, Mine
  <2>. QED
    BY <2>1, <2>2
<1>6. Apart' /\ InHand' /\ OneUploadEach'
  BY <1>1, <1>5, ApartStill, UploadsStill
<1>7. NotesLead'
  <2>1. SUFFICES ASSUME NEW u \in DOMAIN upload', NEW q \in Paths, Wanted(q, upload[u].sha)',
                        upload'[u].sha \notin raced'
                 PROVE  Leads(q, u)'
    BY DEF NotesLead
  <2>2. u \in DOMAIN upload /\ upload'[u].sha = upload[u].sha
    BY <1>1 DEF SameGrants
  <2>3. q # p
    BY <1>1, <1>2, <1>4, <2>1, <2>2 DEF Wanted, At
  <2>4. task'[q] = task[q] /\ note'[q] = note[q]
    BY <1>2, <2>3
  <2>5. Wanted(q, upload[u].sha)
    BY <1>1, <2>1, <2>2, <2>4 DEF Wanted, At
  <2>. QED
    BY <1>1, <2>1, <2>2, <2>4, <2>5, LeadsStill DEF Noted
<1>8. NewerIsNew'
  BY <1>1, <1>2 DEF Care, NewerIsNew, SameGrants
<1>9. HeldIsIngested' /\ NothingDeleted'
  BY <1>1, HeldStill DEF Care, NothingDeleted, Lying
<1>. QED
  BY <1>5, <1>6, <1>7, <1>8, <1>9 DEF Care

\* A file that the user drops in is one the program has never met; where the program trusts the one
\* that lies there, the new one is remembered as raced.
LEMMA DropsKeepsCare == ASSUME Books, Care, NEW p \in Paths, Drops(p) PROVE Care'
<1>1. /\ UNCHANGED <<task, note, upload, grantOf, holding, cleared>> /\ handed' = handed + 1
      /\ handed \in Nat /\ SameGrants
      /\ withdrawn' = withdrawn \cup ({lies[p]} \ {0})
      /\ raced \subseteq raced' /\ (Trusted(p) => handed + 1 \in raced')
  BY GrantsStay DEF Drops, serverVars, Books, Types, DiskTypes
<1>2. lies'[p] = handed + 1 /\ \A q \in Paths \ {p} : lies'[q] = lies[q]
  BY DEF Drops, Books, Types, DiskTypes
<1>3. \A q \in Paths : /\ Mine(q) \subseteq 1 .. handed
                       /\ Mine(q)' \subseteq Mine(q) \cup (IF q = p THEN {handed + 1} ELSE {})
  BY <1>1, <1>2 DEF Care, InHand, Mine
<1>4. \A u \in DOMAIN upload : upload[u].sha <= handed /\ upload[u].sha \in Nat
  BY UploadsAre DEF Care, InHand, Books, Types, Upload, HandIn
<1>5. ASSUME NEW q \in Paths PROVE HasRead(q)' /\ InPlace(q)'
  <2>1. CASE q = p
    <3>1. HasRead(p) /\ InPlace(p) /\ task[p].stamp <= handed /\ task[p].sha <= handed
      BY <1>1, <1>3 DEF Care, Mine, Books, Types, TaskTypes, Task
    <3>2. HasRead(p)'
      BY <1>1, <3>1 DEF HasRead
    <3>3. task[p].stamp \in Nat
      BY DEF Books, Types, TaskTypes, Task
    <3>4. task[p].sha <= handed /\ task[p].sha \in Nat
      BY <3>1 DEF Books, Types, TaskTypes, Task
    <3>5. InPlace(p)'
      <4>1. task[p].stage \in {"sent", "complete", "copied"} => StillThere(p)'
        <5>1. SUFFICES ASSUME task[p].stage \in {"sent", "complete", "copied"} PROVE StillThere(p)'
          OBVIOUS
        <5>2. handed + 1 \in raced' /\ StillThere(p)
          BY <1>1, <3>1, <5>1 DEF Trusted, InPlace
        <5>3. task[p].sha \in withdrawn' \cup cleared'
          <6>1. task[p].sha # 0
            BY <5>1 DEF Books, Knows, Keyed
          <6>. QED
            BY <1>1, <5>2, <6>1 DEF StillThere
        <5>. QED
          BY <1>1, <1>2, <5>2, <5>3 DEF StillThere
      <4>2. At(p, "stat") => lies'[p] \in {0, task[p].stamp} \cup raced'
        BY <1>1, <1>2 DEF Trusted, At
      <4>3. handed + 1 # task[p].stamp
        BY <1>1, <3>1, <3>3
      <4>4. handed + 1 # task[p].sha
        BY <1>1, <3>4
      <4>. QED
        BY <1>1, <1>2, <4>1, <4>2, <4>3, <4>4 DEF InPlace, At
    <3>. QED
      BY <2>1, <3>2, <3>5
  <2>2. CASE q # p
    BY <1>1, <1>2, <2>2, InPlaceStill
  <2>. QED
    BY <2>1, <2>2
<1>6. Apart'
  <2>1. SUFFICES ASSUME NEW q \in Paths, NEW r \in Paths, q # r, NEW h, h \in Mine(q)', h \in Mine(r)'
                 PROVE  FALSE
    BY DEF Apart
  <2>2. Mine(q) \cap Mine(r) = {}
    BY <2>1 DEF Care, Apart
  <2>3. handed + 1 \notin Mine(q) /\ handed + 1 \notin Mine(r)
    BY <1>1, <1>3
  <2>. QED
    BY <1>3, <2>1, <2>2, <2>3
<1>7. InHand'
  <2>1. \A q \in Paths : Mine(q)' \subseteq 1 .. handed + 1
    BY <1>1, <1>3
  <2>. QED
    BY <1>1, <1>4, <2>1 DEF InHand
<1>8. OneUploadEach'
  BY <1>1, UploadsStill
<1>9. NotesLead'
  <2>1. SUFFICES ASSUME NEW u \in DOMAIN upload', NEW q \in Paths, Wanted(q, upload[u].sha)',
                        upload'[u].sha \notin raced'
                 PROVE  Leads(q, u)'
    BY DEF NotesLead
  <2>2. u \in DOMAIN upload /\ upload'[u].sha = upload[u].sha
    BY <1>1
  <2>3. upload[u].sha # handed + 1
    BY <1>1, <1>4, <2>2
  <2>4. Wanted(q, upload[u].sha)
    BY <1>1, <1>2, <2>1, <2>2, <2>3 DEF Wanted, At
  <2>. QED
    BY <1>1, <2>1, <2>2, <2>4, LeadsStill DEF Noted
<1>10. NewerIsNew'
  <2>1. SUFFICES ASSUME NEW q \in Paths, task[q].stamp # 0,
                        lies'[q] \notin {task[q].stamp} \cup raced', NEW u \in DOMAIN upload
                 PROVE  upload[u].sha # lies'[q]
    BY <1>1 DEF NewerIsNew
  <2>2. CASE q = p
    BY <1>1, <1>2, <1>4, <2>2
  <2>3. CASE q # p
    BY <1>1, <1>2, <2>1, <2>3 DEF Care, NewerIsNew
  <2>. QED
    BY <2>2, <2>3
<1>11. HeldIsIngested' /\ Held' = Held
  BY <1>1, HeldStill
<1>12. NothingDeleted'
  <2>1. SUFFICES ASSUME NEW h \in 1 .. handed + 1, h \notin withdrawn' \cup cleared' \cup raced',
                        \A q \in Paths : lies'[q] # h
                 PROVE  h \in {holding[u] : u \in Held}
    <3>1. 0 \notin 1 .. handed + 1
      BY <1>1
    <3>. QED
      BY <1>1, <1>11, <2>1, <3>1 DEF NothingDeleted, Lying
  <2>2. h \in 1 .. handed
    BY <1>1, <1>2, <2>1
  <2>3. h \notin Lying /\ h \notin withdrawn \cup cleared \cup raced
    BY <1>1, <1>2, <2>1, <2>2 DEF Lying
  <2>. QED
    BY <2>2, <2>3 DEF Care, NothingDeleted
<1>. QED
  BY <1>5, <1>6, <1>7, <1>8, <1>9, <1>10, <1>11, <1>12 DEF Care

\* Files go from the baskets, by the user's hand or with a sign-out.
LEMMA PullsKeepsCare ==
  ASSUME Books, Care, SignsOut \/ \E p \in Paths : PullsOut(p) PROVE Care'
<1>1. /\ UNCHANGED <<task, note, upload, grantOf, holding, handed, raced>> /\ SameGrants
      /\ withdrawn \subseteq withdrawn' /\ cleared \subseteq cleared'
  BY GrantsStay DEF SignsOut, PullsOut, serverVars, Books, Types
<1>2. \A q \in Paths : /\ lies'[q] \in {0, lies[q]}
                       /\ lies[q] # 0 /\ lies'[q] = 0 => lies[q] \in withdrawn' \cup cleared'
  BY DEF SignsOut, PullsOut, Books, Types, DiskTypes, Lying
<1>3. ASSUME NEW q \in Paths PROVE Fewer(q) /\ HasRead(q)' /\ InPlace(q)'
  <2>1. Fewer(q)
    BY <1>1, <1>2 DEF Fewer, Mine
  <2>2. HasRead(q) /\ InPlace(q) /\ lies'[q] \in {0, lies[q]}
    BY <1>2 DEF Care
  <2>3. HasRead(q)'
    BY <1>1, <2>2 DEF HasRead
  <2>4. At(q, "held") => task[q].stamp # 0
    BY <2>2 DEF HasRead, At, Keyed
  <2>5. task[q].stage \in {"sent", "complete", "copied"} => StillThere(q)' /\ task[q].sha # 0
    <3>1. SUFFICES ASSUME task[q].stage \in {"sent", "complete", "copied"}
                   PROVE  StillThere(q)' /\ task[q].sha # 0
      OBVIOUS
    <3>2. StillThere(q) /\ task[q].sha # 0
      BY <2>2, <3>1 DEF InPlace, Books, Knows, Keyed
    <3>. QED
      BY <1>1, <1>2, <3>2 DEF StillThere
  <2>6. InPlace(q)'
    BY <1>1, <2>2, <2>4, <2>5 DEF InPlace, At
  <2>. QED
    BY <2>1, <2>3, <2>6
<1>4. Apart' /\ InHand' /\ OneUploadEach'
  BY <1>1, <1>3, ApartStill, UploadsStill
<1>5. \A u \in DOMAIN upload : upload[u].sha # 0
  BY UploadsAre DEF Books, Types, Upload, HandIn
<1>6. NotesLead'
  <2>1. SUFFICES ASSUME NEW u \in DOMAIN upload', NEW q \in Paths, Wanted(q, upload[u].sha)',
                        upload'[u].sha \notin raced'
                 PROVE  Leads(q, u)'
    BY DEF NotesLead
  <2>2. u \in DOMAIN upload /\ upload'[u].sha = upload[u].sha /\ upload[u].sha # 0
    BY <1>1, <1>5
  <2>3. Wanted(q, upload[u].sha)
    BY <1>1, <1>2, <2>1, <2>2 DEF Wanted, At
  <2>. QED
    BY <1>1, <2>1, <2>2, <2>3, LeadsStill DEF Noted
<1>7. NewerIsNew'
  BY <1>1, <1>2, <1>5 DEF Care, NewerIsNew
<1>8. HeldIsIngested' /\ Held' = Held
  BY <1>1, HeldStill
<1>9. NothingDeleted'
  <2>1. SUFFICES ASSUME NEW h \in 1 .. handed, h \notin withdrawn' \cup cleared' \cup raced',
                        \A q \in Paths : lies'[q] # h
                 PROVE  h \in {holding[u] : u \in Held}
    <3>1. 0 \notin 1 .. handed
      BY DEF Books, Types, DiskTypes
    <3>. QED
      BY <1>1, <1>8, <2>1, <3>1 DEF NothingDeleted, Lying
  <2>2. h # 0
    BY DEF Books, Types, DiskTypes
  <2>3. h \notin Lying /\ h \notin withdrawn \cup cleared \cup raced
    BY <1>1, <1>2, <2>1, <2>2 DEF Lying
  <2>. QED
    BY <2>3 DEF Care, NothingDeleted
<1>. QED
  BY <1>3, <1>4, <1>6, <1>7, <1>8, <1>9 DEF Care

\* A grant that expires is still the one of its hand-in.
LEMMA ExpiresKeepsCare == ASSUME Books, Care, NEW u \in DOMAIN upload, Expires(u) PROVE Care'
<1>1. Same /\ (\A q \in Paths : Noted(q)) /\ UNCHANGED task
  BY GrantsStay DEF Books, Types, Expires, diskVars, pastVars, Same, Noted
<1>2. ASSUME NEW q \in Paths PROVE OnlyTasks(q) /\ HasRead(q)' /\ InPlace(q)'
  <2>1. HasRead(q)' /\ InPlace(q)'
    BY <1>1, InPlaceStill DEF Same
  <2>. QED
    BY <1>1, <2>1 DEF OnlyTasks
<1>. QED
  BY <1>1, <1>2, TasksKeepCare

\* Before the first file there is nothing to take care of.
LEMMA InitCare == Init => Care
<1>. SUFFICES ASSUME Init PROVE Care
  OBVIOUS
<1>1. DOMAIN upload = {}
  BY InitBooks, UploadsAre DEF Init, Books, Types
<1>2. \A p \in Paths : /\ Mine(p) = {} /\ task[p].stamp = 0 /\ task[p].sha = 0
                       /\ task[p].stage = "idle"
  BY DEF Init, Mine, Idle, NoNote
<1>3. \A p \in Paths : HasRead(p) /\ InPlace(p)
  BY <1>2 DEF HasRead, InPlace, At, Keyed
<1>4. Apart /\ InHand /\ OneUploadEach /\ NotesLead /\ NewerIsNew
  BY <1>1, <1>2 DEF Apart, InHand, OneUploadEach, NotesLead, NewerIsNew
<1>5. HeldIsIngested /\ NothingDeleted
  <2>1. 1 .. handed = {}
    BY DEF Init
  <2>. QED
    BY <1>1, <2>1 DEF HeldIsIngested, NothingDeleted, Held
<1>. QED
  BY <1>3, <1>4, <1>5 DEF Care

\* Every step of the user and of the program keeps it.
LEMMA NextKeepsCare == ASSUME Books, Care, [Next]_vars PROVE Care'
<1>1. ASSUME NEW p \in Paths,
             Drops(p) \/ PullsOut(p) \/ file_appeared(p) \/ Ripens(p) \/ RestIsOver(p)
      PROVE  Care'
  <2>1. CASE Drops(p) \/ PullsOut(p)
    BY <2>1, DropsKeepsCare, PullsKeepsCare
  <2>2. CASE file_appeared(p) \/ Ripens(p) \/ RestIsOver(p)
    BY <2>2, QuietKeepsCare DEF file_appeared, Ripens, RestIsOver
  <2>. QED
    BY <1>1, <2>1, <2>2
<1>2. CASE pass \/ BatchEnds
  BY <1>2, BatchKeepsCare
<1>3. ASSUME NEW p \in Paths, Step(p) PROVE Care'
  BY <1>3, BeginsKeepsCare, StatsKeepsCare, HashesKeepsCare, NotesKeepsCare, CreatesKeepsCare,
     AskingKeepsCare, NoAnswerKeepsCare, HoldingKeepsCare, ForgetsKeepsCare DEF Step
<1>4. CASE SignsOut \/ Restart
  BY <1>4, PullsKeepsCare, BatchKeepsCare
<1>5. CASE GoesOffline \/ ComesBack
  BY <1>5, QuietKeepsCare DEF GoesOffline, ComesBack
<1>6. ASSUME NEW u \in DOMAIN upload, Expires(u) PROVE Care'
  BY <1>6, ExpiresKeepsCare
<1>7. CASE UNCHANGED vars
  BY <1>7, QuietKeepsCare DEF vars
<1>. QED
  BY <1>1, <1>2, <1>3, <1>4, <1>5, <1>6, <1>7 DEF Next

-----------------------------------------------------------------------------
(* The theorems. *)

\* Whatever the user does, the line and the server: the program keeps to its limit of ingests, and a
\* task works under the note that stands and the grant its key led to (adopt_file).
THEOREM IngestBooks == Spec => []Books
BY InitBooks, NextKeepsBooks, PTL DEF Spec

\* No capture page opens before the server has the document (ingest.rs: "The order is the rule").
THEOREM BrowserHolds == Spec => []BrowserAfterIngest
<1>1. Books => BrowserAfterIngest
  BY DEF Books
<1>. QED
  BY <1>1, IngestBooks, PTL

\* Every hand-in that was not put over a file the program trusted leads to one upload, and its note
\* to that upload (store/ingest.rs), for any number of failures and restarts.
THEOREM CareHolds == Spec => []Care
<1>1. Init => Books /\ Care
  BY InitBooks, InitCare
<1>2. Books /\ Care /\ [Next]_vars => (Books /\ Care)'
  BY NextKeepsBooks, NextKeepsCare
<1>. QED
  BY <1>1, <1>2, PTL DEF Spec

\* What is put aside is what the server has, nothing that was handed in disappears, no page opens
\* too early (ingest.rs, hold: "Never delete").
THEOREM IngestHolds == Spec => []IngestInv
<1>1. Books /\ Care => IngestInv
  BY TypesAre DEF Books, Care, IngestInv
<1>. QED
  BY <1>1, IngestBooks, CareHolds, PTL

\* The server gets at most one document from a hand-in, however often it is attempted.
THEOREM OneDocumentHolds == Spec => []OneDocumentEach
<1>1. Care => OneDocumentEach
  BY DEF Care, OneUploadEach, OneDocumentEach, Done
<1>. QED
  BY <1>1, CareHolds, PTL
=============================================================================
