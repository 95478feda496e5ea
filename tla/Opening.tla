-------------------------------- MODULE Opening --------------------------------
(***************************************************************************)
(* Opening a document or a folder of the Windows mirror: cldflt asks in a  *)
(* callback, the callback gives a job to the pool, the job asks the engine,*)
(* the engine loads the content into a scratch file, checks it and only    *)
(* then hands it to cldflt piece by piece.  Beside it: CANCEL callbacks,   *)
(* a token that lapses in the middle, a listing with another version, the  *)
(* disconnect of the root and the end of the process.  The session and the *)
(* server have no variables here: their answers are choices at the place   *)
(* where the job asks.                                                     *)
(*                                                                         *)
(* Left out: hint files (no network, no check), empty files, the progress  *)
(* reports, the usage log, what becomes of a listing (Mirror).             *)
(***************************************************************************)
EXTENDS WorkerPool, Blocks, SequencesExt

CONSTANTS Contents,   \* FETCH_DATA requests, each with its transfer key
          Lists,      \* FETCH_PLACEHOLDERS requests
          Size,       \* Size[v] is the size of version v of the document, in units
          Permits,    \* the load gate: CONCURRENT_DOWNLOADS
          MaxRefused  \* bound: threads the system refuses in one life of the process

Requests == Contents \cup Lists
Versions == DOMAIN Size

ASSUME OpeningAssumption ==
  /\ Contents \cap Lists = {}
  /\ "nobody" \notin Threads
  /\ Versions = 1 .. Len(Size)
  /\ Size \in Seq(Nat \ {0}) /\ Size # <<>>
  /\ Permits \in Nat \ {0}
  /\ MaxRefused \in Nat

VARIABLES
  row,      \* the version of the stored entry, i.e. of the last listing
  link,     \* the connection to cldflt: "up" | "aborted" | "ending" | "off"
  request,  \* per request: what cldflt asked for and what it has got
  load,     \* per request: how far the job is
  switch,   \* Cancellations: the registered transfers and their switches
  gate,     \* the requests that hold a permit of the load gate
  parts     \* the requests whose scratch file lies on the disk

openVars == <<row, link, request, load, switch, gate, parts>>
vars == <<openVars, poolVars>>

(***************************************************************************)
(* A unit of content: its version, its place, and whether it is intact.    *)
(***************************************************************************)
Unit == [ver : Versions, at : Nat, intact : BOOLEAN]
Content(v) == [i \in 1 .. Size[v] |-> [ver |-> v, at |-> i, intact |-> TRUE]]

Stages == {"new", "queued", "begun", "gate", "admitted", "stream", "lapsed", "check", "hand",
           "piece", "handed", "failed", "listed", "over"}

NoLoad == [stage |-> "new", by |-> "nobody", row |-> 1, scratch |-> <<>>,
           offset |-> 0, again |-> FALSE, switch |-> FALSE, buffer |-> BlockBuffer(0)]

NoRequest == [offset |-> 0, length |-> 0, size |-> 0, got |-> <<>>, failed |-> <<>>,
              answer |-> "none", late |-> 0]

Load == [stage : Stages, by : Threads \cup {"nobody"}, row : Versions,
         scratch : Seq(Unit), offset : Nat, again : BOOLEAN, switch : BOOLEAN, buffer : Buffer]

Request == [offset : Nat, length : Nat \cup {CF_EOF}, size : Nat, got : Seq(Unit),
            failed : Seq(Nat), answer : {"none", "data", "answered", "error", "silent", "cut"},
            late : Nat]

TypeOK ==
  /\ PoolTypeOK(Requests)
  /\ row \in Versions
  /\ link \in {"up", "aborted", "ending", "off"}
  /\ request \in [Requests -> Request]
  /\ load \in [Requests -> Load]
  /\ switch \subseteq Requests
  /\ gate \subseteq Requests
  /\ parts \subseteq Requests

Init ==
  /\ PoolInit
  /\ row = 1
  /\ link = "up"
  /\ request = [r \in Requests |-> NoRequest]
  /\ load = [r \in Requests |-> NoLoad]
  /\ switch = {}
  /\ gate = {}
  /\ parts = {}

Goes(r, stage) == load' = [load EXCEPT ![r].stage = stage]
Stage(r, stage) == load[r].stage = stage

worldVars == <<row, link>>

-------------------------------------------------------------------------------
(***************************************************************************)
(* The callbacks, on a thread of cldflt.                                   *)
(***************************************************************************)
\* what of the file cldflt may ask for: all up to the end, or the last unit
Ranges(size) == {<<0, CF_EOF>>, <<size - 1, 1>>}

\* the pool has not ended: on_content and on_list give the job
Asked(r, range, size) ==
  /\ link \in {"up", "aborted"}
  /\ Stage(r, "new")
  /\ Goes(r, "queued")
  /\ Give(r)
  /\ request' = [request EXCEPT ![r] = [NoRequest EXCEPT !.offset = range[1],
                                                        !.length = range[2], !.size = size]]
  /\ UNCHANGED <<worldVars, switch, gate, parts>>

\* the placeholder was made from some listing, the last one or another
on_content(r) ==
  \E v \in Versions : \E range \in Ranges(Size[v]) : Asked(r, range, Size[v])

on_list(r) == Asked(r, <<0, 0>>, 0)

\* CANCEL_FETCH_DATA and CANCEL_FETCH_PLACEHOLDERS flip the switch of a registered transfer; one
\* that comes before the job has registered itself, or after it is over, changes nothing
on_abort(r) ==
  /\ link \in {"up", "aborted"}
  /\ r \in switch
  /\ ~load[r].switch
  /\ load' = [load EXCEPT ![r].switch = TRUE]
  /\ UNCHANGED <<worldVars, request, switch, gate, parts, poolVars>>

\* create_thread, still inside the callback
CreateThread(t) == Created(t) /\ UNCHANGED openVars

NoThread == refused < MaxRefused /\ Refused /\ UNCHANGED openVars

-------------------------------------------------------------------------------
(***************************************************************************)
(* The job, on a thread of the pool: fetch_content and fetch_list.         *)
(***************************************************************************)
Mine(t, r) == thread[t] = "running" /\ load[r].by = t

\* the job begins: it registers the transfer, builds the sink and reads the row of the store
Begin(t) ==
  /\ TakesJob(t)
  /\ LET r == Head(jobs) IN
     /\ load' = [load EXCEPT ![r].stage = "begun", ![r].by = t, ![r].row = IF r \in Contents THEN row ELSE @,
                             ![r].buffer = BlockBuffer(request[r].size)]
     /\ switch' = switch \cup {r}
  /\ UNCHANGED <<worldVars, request, gate, parts>>

Ended(r) == [NoLoad EXCEPT !.stage = "over", !.row = load[r].row]

\* the job is over: the transfer leaves the list, the thread goes back to the pool
Over(t, r, answer, failed) ==
  /\ load' = [load EXCEPT ![r] = Ended(r)]
  /\ request' = [request EXCEPT ![r].answer = answer, ![r].failed = failed]
  /\ switch' = switch \ {r}
  /\ JobReturns(t)
  /\ UNCHANGED <<worldVars, gate, parts, jobs, threads, busy, end, creating, refused>>

quiet == <<worldVars, switch, gate, parts, poolVars>>

\* load_and_check: no byte without a login; a token that has lapsed is renewed first
Login(t, r) ==
  /\ Mine(t, r) /\ r \in Contents /\ Stage(r, "begun")
  /\ \/ Goes(r, "gate")
     \/ Goes(r, "failed")
  /\ UNCHANGED <<quiet, request>>

\* a permit of the load gate; whoever was cancelled while waiting goes no further
Admitted(t, r) ==
  /\ Mine(t, r) /\ Stage(r, "gate")
  /\ Cardinality(gate) < Permits
  /\ gate' = gate \cup {r}
  /\ Goes(r, IF load[r].switch THEN "failed" ELSE "admitted")
  /\ UNCHANGED <<worldVars, request, switch, parts, poolVars>>

(***************************************************************************)
(* stream_in_file: the scratch file is created and the request goes out    *)
(* with If-Match; the server answers with a body whose headers agree with  *)
(* the row, or with 401, or refuses (another version, no connection).      *)
(***************************************************************************)
StreamBegins(t, r) ==
  /\ Mine(t, r) /\ Stage(r, "admitted")
  /\ parts' = parts \cup {r}
  /\ \/ Goes(r, "stream")
     \/ load' = [load EXCEPT ![r].stage = IF load[r].again THEN "failed" ELSE "lapsed",
                             ![r].again = TRUE]
     \/ Goes(r, "failed")
  /\ UNCHANGED <<worldVars, request, switch, gate, poolVars>>

\* the one second attempt: renew, throw the scratch file away, load anew
SecondAttempt(t, r) ==
  /\ Mine(t, r) /\ Stage(r, "lapsed")
  /\ \/ parts' = parts \ {r} /\ Goes(r, "admitted")
     \/ Goes(r, "failed") /\ UNCHANGED parts
  /\ UNCHANGED <<worldVars, request, switch, gate, poolVars>>

\* what the server may send, whatever its headers say: a version, a damaged one, one cut short
Bodies(v) == {Content(w) : w \in Versions}
               \cup {[Content(v) EXCEPT ![Size[v]].intact = FALSE], Front(Content(v))}

\* CountingSink::poll_write: the body runs into the scratch file; a cancelled transfer takes no
\* further byte, and the stream may break off
StreamEnds(t, r) ==
  /\ Mine(t, r) /\ Stage(r, "stream")
  /\ \/ /\ ~load[r].switch
        /\ \E body \in Bodies(load[r].row) :
             load' = [load EXCEPT ![r].scratch = body,
                                  ![r].stage = IF Len(body) = Size[load[r].row]
                                               THEN "check" ELSE "failed"]
     \/ Goes(r, "failed")
  /\ UNCHANGED <<quiet, request>>

\* Mutant: only the size is compared
Intact_Size(r) == Len(load[r].scratch) = Size[load[r].row]

\* the checksum over what stands in the scratch file
Intact(r) == load[r].scratch = Content(load[r].row)

Check(t, r) ==
  /\ Mine(t, r) /\ Stage(r, "check")
  /\ Goes(r, IF Intact(r) THEN "hand" ELSE "failed")
  /\ UNCHANGED <<quiet, request>>

\* Mutant: nobody looks at the switch while handing over
HandLooks_Deaf(t, r) ==
  /\ Mine(t, r) /\ Stage(r, "hand")
  /\ Goes(r, IF load[r].offset < Len(load[r].scratch) THEN "piece" ELSE "handed")
  /\ UNCHANGED <<quiet, request>>

(***************************************************************************)
(* hand_over: look at the switch, read a piece, write it.  A CANCEL may    *)
(* come between the look and the write, and cldflt may refuse a transfer.  *)
(***************************************************************************)
HandLooks(t, r) ==
  /\ Mine(t, r) /\ Stage(r, "hand")
  /\ Goes(r, CASE load[r].switch -> "failed"
               [] ~load[r].switch /\ load[r].offset < Len(load[r].scratch) -> "piece"
               [] ~load[r].switch /\ load[r].offset = Len(load[r].scratch) -> "handed")
  /\ UNCHANGED <<quiet, request>>

\* what has gone to cldflt after the buffer sent up to `sent`
Sent(r, sent) ==
  [request EXCEPT ![r].got = SubSeq(load[r].scratch, 1, sent),
                  ![r].late = IF load[r].switch /\ sent > Len(request[r].got) THEN @ + 1 ELSE @]

HandPiece(t, r) ==
  /\ Mine(t, r) /\ Stage(r, "piece")
  /\ LET b == load[r].buffer IN
     \/ /\ Fits(b, load[r].offset, 1)
        /\ load' = [load EXCEPT ![r].stage = "hand", ![r].offset = @ + 1, ![r].buffer = Taken(b, 1)]
        /\ request' = Sent(r, Taken(b, 1).sent)
     \/ /\ Fits(b, load[r].offset, 1) /\ Whole(b, 1) > 0
        /\ load' = [load EXCEPT ![r].stage = "failed", ![r].buffer = Stuck(b, 1)]
        /\ UNCHANGED request \* cldflt refuses the chunk
     \/ /\ ~Fits(b, load[r].offset, 1)
        /\ Goes(r, "failed")
        /\ UNCHANGED request
  /\ UNCHANGED quiet

\* the engine says Ok: its scratch file and its permit go first; then TransferSink::complete, which
\* cldflt may refuse
Complete(t, r) ==
  /\ Mine(t, r) /\ Stage(r, "handed")
  /\ LET b == load[r].buffer IN
     \/ /\ r \in parts \cup gate
        /\ parts' = parts \ {r} /\ gate' = gate \ {r}
        /\ UNCHANGED <<request, load, switch, poolVars>>
     \/ /\ r \notin parts \cup gate
        /\ Arrived(b)
        /\ load' = [load EXCEPT ![r] = Ended(r)]
        /\ request' = [Sent(r, Completed(b).sent) EXCEPT ![r].answer = "data"]
        /\ switch' = switch \ {r}
        /\ JobReturns(t)
        /\ UNCHANGED <<gate, parts, jobs, threads, busy, end, creating, refused>>
     \/ /\ r \notin parts \cup gate
        /\ ~Arrived(b) \/ HasRest(b)
        /\ Goes(r, "failed")
        /\ UNCHANGED <<request, switch, gate, parts, poolVars>>
  /\ UNCHANGED worldVars

\* an error of the engine: scratch file and permit go, the open range is reported as failed
Fail(t, r) ==
  /\ Mine(t, r) /\ Stage(r, "failed")
  /\ IF r \in parts \cup gate
     THEN parts' = parts \ {r} /\ gate' = gate \ {r}
          /\ UNCHANGED <<worldVars, request, load, switch, poolVars>>
     ELSE LET q == request[r]
              open == error_domain(q.offset, q.length, q.size, load[r].buffer.sent)
          IN  Over(t, r, IF open = <<>> THEN "silent" ELSE "error", open)

\* fetch_list: one blocking call, then a look at the switch, then the answer; whether it is a
\* listing or an error makes no difference here
ListArrives(t, r) ==
  /\ Mine(t, r) /\ r \in Lists /\ Stage(r, "begun")
  /\ \/ Goes(r, "listed")
        /\ UNCHANGED <<quiet, request>>
     \/ Over(t, r, "answered", <<>>)

ListAnswers(t, r) ==
  /\ Mine(t, r) /\ Stage(r, "listed")
  /\ \/ load[r].switch /\ Over(t, r, "silent", <<>>)
     \/ ~load[r].switch /\ Over(t, r, "answered", <<>>)

Job(t, r) ==
  \/ Login(t, r) \/ Admitted(t, r) \/ StreamBegins(t, r) \/ SecondAttempt(t, r)
  \/ StreamEnds(t, r) \/ Check(t, r) \/ HandLooks(t, r) \/ HandPiece(t, r)
  \/ Complete(t, r) \/ Fail(t, r) \/ ListArrives(t, r) \/ ListAnswers(t, r)

Worker(t) ==
  \/ Begin(t)
  \/ (Leaves(t) \/ Waits(t) \/ SentryDrops(t)) /\ UNCHANGED openVars
  \/ \E r \in Requests : Job(t, r)

Idles(t) == IdleTimeOver(t) /\ UNCHANGED openVars

-------------------------------------------------------------------------------
(***************************************************************************)
(* disconnect: every switch first, then the connection, then the pool.     *)
(***************************************************************************)
all_abort ==
  /\ link = "up"
  /\ link' = "aborted"
  /\ load' = [r \in Requests |-> [load[r] EXCEPT !.switch = @ \/ r \in switch]]
  /\ switch' = {}
  /\ UNCHANGED <<row, request, gate, parts, poolVars>>

\* CfDisconnectSyncRoot returns once no callback is running any more; the pool accepts no more
Stop ==
  /\ link = "aborted"
  /\ creating = 0
  /\ link' = "ending"
  /\ EndsAccepting
  /\ UNCHANGED <<row, request, load, switch, gate, parts>>

Stopped ==
  /\ link = "ending"
  /\ AllJoined
  /\ link' = "off"
  /\ UNCHANGED <<row, request, load, switch, gate, parts, poolVars>>

\* set_up of the next sign-in
Connect ==
  /\ link = "off"
  /\ link' = "up"
  /\ AcceptAgain
  /\ UNCHANGED <<row, request, load, switch, gate, parts>>

\* the process ends without warning and starts again: Engine::start clears the scratch area
Crash ==
  /\ link' = "up"
  /\ load' = [r \in Requests |-> IF Stage(r, "new") THEN load[r]
                                 ELSE Ended(r)]
  /\ request' = [r \in Requests |->
                   IF load[r].stage \in {"new", "over"} THEN request[r]
                   ELSE [request[r] EXCEPT !.answer = "cut"]]
  /\ switch' = {}
  /\ gate' = {}
  /\ parts' = {}
  /\ jobs' = <<>> /\ threads' = 0 /\ busy' = 0 /\ end' = FALSE /\ creating' = 0
  /\ thread' = [t \in Threads |-> "none"]
  /\ refused' = 0
  /\ UNCHANGED row

\* the engine stores a listing with a newer version of the document
Relisted ==
  /\ row' \in Versions /\ row < row'
  /\ UNCHANGED <<link, request, load, switch, gate, parts, poolVars>>

Next ==
  \/ \E r \in Contents : on_content(r)
  \/ \E r \in Lists : on_list(r)
  \/ \E r \in Requests : on_abort(r)
  \/ \E t \in Threads : CreateThread(t) \/ Worker(t) \/ Idles(t)
  \/ NoThread
  \/ all_abort \/ Stop \/ Stopped \/ Connect
  \/ Crash \/ Relisted

(***************************************************************************)
(* The threads of the pool run, a callback that is creating a thread comes *)
(* back, and a disconnect that has begun goes on (Mirror::disconnect is    *)
(* one straight piece of code).  Nothing is assumed of the user, of the    *)
(* server, of a crash, or that the root is ever connected again.           *)
(***************************************************************************)
Fairness ==
  /\ \A t \in Threads : WF_vars(Worker(t))
  /\ WF_vars(\E t \in Threads : CreateThread(t))
  /\ WF_vars(Stop) /\ WF_vars(Stopped)

Spec == Init /\ [][Next]_vars /\ Fairness

-------------------------------------------------------------------------------
(***************************************************************************)
(* What opening promises.                                                  *)
(***************************************************************************)
Running == {r \in Requests : load[r].by # "nobody"}

\* Loaded, checked, and only then handed over (hydration.rs, load_and_check): what cldflt has got,
\* however the load ended, is a beginning of the version the listing named when the job began, and
\* it never runs over the end of the placeholder.
DeliveredIsListed ==
  \A r \in Contents : /\ IsPrefix(request[r].got, Content(load[r].row))
                       /\ Len(request[r].got) <= request[r].size

\* A request answered with data has the whole file (sink.rs, complete): the placeholder's size,
\* the listed version's last unit.
DataIsWhole ==
  \A r \in Contents :
    request[r].answer = "data" => /\ request[r].got = Content(load[r].row)
                                  /\ Len(request[r].got) = request[r].size

\* cldflt takes aligned chunks only, and the last one up to the end of the file (blocks.rs).
Aligned ==
  \A r \in Contents : LET sent == Len(request[r].got) IN
    sent % Chunk = 0 \/ sent = request[r].size

Wanted(q) == q.offset + 1 .. RangeEnd(q.offset, q.length, q.size)
Reported(q) == IF q.failed = <<>> THEN {} ELSE q.failed[1] + 1 .. q.failed[1] + q.failed[2]

\* A load that failed in the middle leaves nothing open and reports nothing twice: what cldflt
\* asked for has either arrived or is named in the one failure report (callback.rs, fetch_content).
FailureNamesTheRest ==
  \A r \in Contents : LET q == request[r] IN
    Stage(r, "over") /\ q.answer # "cut" => /\ Wanted(q) \subseteq DOMAIN q.got \cup Reported(q)
                                  /\ DOMAIN q.got \cap Reported(q) = {}

\* Whoever cancels a transfer that is under way gets at most the one chunk whose turn it was when
\* the switch flipped (hand_over looks before each piece).
CancelStops == \A r \in Contents : request[r].late <= 1

\* A job that runs can be cancelled, now or already, and the list of switches holds nobody else:
\* a transfer key that comes back finds no old switch (cancel.rs).
Cancellable ==
  /\ switch \subseteq Running
  /\ \A r \in Running : r \in switch \/ load[r].switch

\* Scratch file and permit belong to a load that is running: no way out of load_and_check leaves
\* content in the scratch area or the gate shut.
NothingLeftBehind == parts \cup gate \subseteq Running

\* Every accepted job is in one place: in the queue once, or on one thread that holds no other.
RunsOnce ==
  /\ \A i, j \in DOMAIN jobs : jobs[i] = jobs[j] => i = j
  /\ ToSet(jobs) = {r \in Requests : Stage(r, "queued")}
  /\ \A t \in Threads : thread[t] = "running" <=> \E r \in Running : load[r].by = t
  /\ \A r, s \in Running : load[r].by = load[s].by => r = s

\* After the disconnect nothing runs against the root any more and nothing was left undone, as
\* long as the system gave its threads (worker_pool.rs, stop: "waits until all accepted jobs are
\* done").
QuietAfterStop == link = "off" => Running = {} /\ (refused = 0 => jobs = <<>>)

\* The books of the opening: of the pool, the switches, the permits, the scratch files, the jobs,
\* of what cldflt has been given and
\* what it was told is missing.
OpeningInv ==
  /\ TypeOK
  /\ BooksBalance
  /\ RunsOnce
  /\ Cancellable
  /\ NothingLeftBehind
  /\ QuietAfterStop
  /\ DataIsWhole
  /\ Aligned
  /\ NotHeldUp
  /\ FailureNamesTheRest

\* Every accepted job comes to its end: nobody sleeps beside a queued job, and no load waits
\* forever for a permit.
EveryJobEnds == \A r \in Requests : Stage(r, "queued") ~> (Stage(r, "over") \/ refused > 0)

\* A disconnect comes to its end, whatever was running, queued or registered when it began, and
\* also if a transfer registered itself after every switch had been flipped.
DisconnectEnds == link = "aborted" ~> link \in {"off", "up"}

===============================================================================
