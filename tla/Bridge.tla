-------------------------------- MODULE Bridge --------------------------------
(***************************************************************************)
(* The line between the File Provider extension and the app on macOS: a    *)
(* request of the system (fileprovider/src/extension.rs) becomes one or two*)
(* connections (bridge/src/client.rs), each with one question; the app     *)
(* (bridge/src/server.rs) accepts at most Places of them at a time and     *)
(* lets the engine answer.  The rendezvous file names the app's port.      *)
(*                                                                         *)
(* A run of the app is a number; it stands for process id, port and secret.*)
(* The content of a file is Chunks data chunks.  Every deadline passes     *)
(* sooner or later while nothing comes; what the engine does with a        *)
(* question may take for ever.                                             *)
(*                                                                         *)
(* Left out: frames and their limits, breaches of the protocol, another    *)
(* version or another program at the port (each is an error of its own),   *)
(* the staging file, which goes with every failure, and the held channel,  *)
(* which reads the rendezvous file anew for every question in any case.    *)
(***************************************************************************)
EXTENDS Naturals, Sequences, FiniteSets, SequencesExt

CONSTANTS Requests,   \* requests of the system
          Loads,      \* ... those for a content, load_content; the others are read_entry
          WakeUp,     \* the connection the app makes to its own port when it stops
          Places,     \* MAX_CONNECTION
          Chunks,     \* data chunks of a content
          MaxRuns,    \* bound: starts of the app
          Deaf        \* the runs of the app whose call to their own port may fail

ASSUME BridgeAssumption ==
  /\ IsFiniteSet(Requests) /\ Loads \subseteq Requests
  /\ WakeUp \notin Requests \X {"entry", "content"}
  /\ Places \in Nat \ {0} /\ Chunks \in Nat /\ MaxRuns \in Nat

VARIABLES
  req,      \* per request: where it is, the question it is at, the run it read, what it got
  wish,     \* the requests the user has cancelled (NSProgress)
  conn,     \* per connection: both ends of it
  queue,    \* the operating system's queue of the listening socket
  book,     \* ConnectionBook::open
  acceptor, \* the acceptance thread
  hand,     \* the connection it holds
  hold,     \* Shared::hold
  life,     \* of the app: from start to end
  run,      \* the run of the app
  file      \* the rendezvous file: the run that wrote it, 0 if there is none

clientVars == <<req, wish>>
serverVars == <<book, acceptor, hand, hold>>
appVars == <<life, run, file>>
bridgeVars == <<clientVars, conn, queue, serverVars, appVars>>

\* read_entry asks for the entry, load_content for the entry and then for the content
Question == {"entry", "content"}
Connection == (Requests \X {"entry"}) \cup (Loads \X {"content"})

None == [run |-> 0, at |-> "none", open |-> FALSE, asked |-> FALSE, shut |-> FALSE, out |-> <<>>,
         sent |-> 0, torn |-> FALSE, result |-> "none"]

\* itemForIdentifier:, fetchContentsForItemWithIdentifier: on a thread of their own
Begun == [stage |-> "opens", ask |-> "entry", run |-> 0, got |-> 0, result |-> "none"]

Outcome == {"none", "ok", "unreachable", "cancelled", "internal", "incomplete"}
Message == {"welcome", "data", "ok", "unreachable", "cancelled", "internal"}

\* the farewell with the acceptance thread joined, or without it
Lives == {"down", "starts", "up", "removed", "held", "knocked", "joined", "closed", "over",
          "left", "leftClosed", "leftOver"}

BridgeTypeOK ==
  /\ req \in [Requests -> [stage : {"opens", "found", "greeting", "answer", "done"},
                           ask : Question, run : 0 .. MaxRuns, got : 0 .. Chunks,
                           result : Outcome]]
  /\ wish \subseteq Loads
  /\ DOMAIN conn = Connection
  /\ \A c \in Connection :
       /\ conn[c].run \in 0 .. run
       /\ conn[c].at \in {"none", "queued", "hand", "hello", "request", "works", "result",
                          "ending", "gone"}
       /\ \A i \in 1 .. Len(conn[c].out) : conn[c].out[i] \in Message
       /\ conn[c].sent \in 0 .. Chunks
       /\ conn[c].result \in Outcome
  /\ ToSet(queue) \subseteq Connection \cup {WakeUp}
  /\ book \subseteq Connection /\ Cardinality(book) <= Places
  /\ acceptor \in {"looks", "asleep", "accepts", "checks", "inserts", "ended"}
  /\ hand \in Connection \cup {WakeUp}
  /\ hold \in BOOLEAN
  /\ life \in Lives
  /\ run \in 0 .. MaxRuns /\ file \in 0 .. run

BridgeInit ==
  /\ req = [r \in Requests |-> Begun]
  /\ wish = {}
  /\ conn = [c \in Connection |-> None]
  /\ queue = <<>> /\ book = {}
  /\ acceptor = "ended" /\ hand = WakeUp
  /\ hold = FALSE
  /\ life = "down"
  /\ run = 0 /\ file = 0

-------------------------------------------------------------------------------
(***************************************************************************)
(* The extension.                                                          *)
(***************************************************************************)
Goes(r, stage) == req' = [req EXCEPT ![r].stage = stage]
Done(r, result) == req' = [req EXCEPT ![r] = [Begun EXCEPT !.stage = "done", !.result = result]]

Current(r) == <<r, req[r].ask>>
Closes(r) == conn' = [conn EXCEPT ![Current(r)].open = FALSE, ![Current(r)].out = <<>>]

\* the user, or the system, cancels the progress of a load; that of an entry is not asked for
Cancels(r) ==
  /\ r \in Loads /\ req[r].stage # "done" /\ r \notin wish
  /\ wish' = wish \cup {r}
  /\ UNCHANGED <<req, conn, queue, serverVars, appVars>>

\* BridgeClient::open: first the rendezvous file
Finds(r) ==
  /\ req[r].stage = "opens"
  /\ \/ req[r].ask = "content" /\ r \in wish /\ Done(r, "cancelled")
     \/ /\ ~(req[r].ask = "content" /\ r \in wish)
        /\ IF file = 0 THEN Done(r, "unreachable")
           ELSE req' = [req EXCEPT ![r].stage = "found", ![r].run = file]
  /\ UNCHANGED <<wish, conn, queue, serverVars, appVars>>

Listening(n) == life # "down" /\ run = n /\ acceptor # "ended"

\* ... then the connection, with HELLO at once
Connects(r) ==
  /\ req[r].stage = "found"
  /\ IF Listening(req[r].run)
     THEN /\ conn' = [conn EXCEPT ![Current(r)] = [None EXCEPT !.run = run, !.at = "queued",
                                                               !.open = TRUE]]
          /\ queue' = Append(queue, Current(r))
          /\ Goes(r, "greeting")
     ELSE Done(r, "unreachable") /\ UNCHANGED <<conn, queue>>
  /\ UNCHANGED <<wish, serverVars, appVars>>

Comes(r, message) == conn[Current(r)].out # <<>> /\ Head(conn[Current(r)].out) = message
Reads(r) == conn' = [conn EXCEPT ![Current(r)].out = Tail(@)]

Greeted(r) ==
  /\ req[r].stage = "greeting" /\ Comes(r, "welcome")
  /\ conn' = [conn EXCEPT ![Current(r)].out = Tail(@), ![Current(r)].asked = TRUE]
  /\ Goes(r, "answer")
  /\ UNCHANGED <<wish, queue, serverVars, appVars>>

\* the entry has come: this answers read_entry, and load_content asks on for the content
EntryComes(r) ==
  /\ req[r].stage = "answer" /\ req[r].ask = "entry" /\ Comes(r, "ok")
  /\ Closes(r)
  /\ IF r \in Loads THEN req' = [req EXCEPT ![r].stage = "opens", ![r].ask = "content"]
     ELSE Done(r, "ok")
  /\ UNCHANGED <<wish, queue, serverVars, appVars>>

DataComes(r) ==
  /\ req[r].stage = "answer" /\ Comes(r, "data")
  /\ Reads(r)
  /\ req' = [req EXCEPT ![r].got = @ + 1]
  /\ UNCHANGED <<wish, queue, serverVars, appVars>>

\* END: what has arrived is counted, and whoever has cancelled meanwhile gets nothing
EndComes(r) ==
  /\ req[r].stage = "answer" /\ req[r].ask = "content" /\ Comes(r, "ok")
  /\ Closes(r)
  /\ Done(r, IF req[r].got # Chunks THEN "incomplete" ELSE IF r \in wish THEN "cancelled" ELSE "ok")
  /\ UNCHANGED <<wish, queue, serverVars, appVars>>

ErrorComes(r) ==
  /\ req[r].stage = "answer"
  /\ \E error \in {"unreachable", "cancelled", "internal"} : Comes(r, error) /\ Done(r, error)
  /\ Closes(r)
  /\ UNCHANGED <<wish, queue, serverVars, appVars>>

\* Mutant: the client waits as long as the line is there
NothingComes_NoDeadline(r) ==
  /\ req[r].stage \in {"greeting", "answer"}
  /\ conn[Current(r)].out = <<>> /\ conn[Current(r)].shut
  /\ Closes(r)
  /\ Done(r, "unreachable")
  /\ UNCHANGED <<wish, queue, serverVars, appVars>>

\* nothing comes any more, or nothing has come for READ_DEADLINE
NothingComes(r) ==
  /\ req[r].stage \in {"greeting", "answer"}
  /\ conn[Current(r)].out = <<>>
  /\ Closes(r)
  /\ Done(r, "unreachable")
  /\ UNCHANGED <<wish, queue, serverVars, appVars>>

\* the sink is asked after every frame and in every time slice
SeesCancel(r) ==
  /\ req[r].stage = "answer" /\ req[r].ask = "content" /\ r \in wish
  /\ Closes(r)
  /\ Done(r, "cancelled")
  /\ UNCHANGED <<wish, queue, serverVars, appVars>>

Client(r) ==
  \/ Finds(r) \/ Connects(r) \/ Greeted(r) \/ EntryComes(r) \/ DataComes(r) \/ EndComes(r)
  \/ ErrorComes(r) \/ NothingComes(r) \/ SeesCancel(r)

-------------------------------------------------------------------------------
(***************************************************************************)
(* The acceptance thread of the app.                                       *)
(***************************************************************************)
\* notify_all
Notified == IF acceptor = "asleep" THEN "looks" ELSE acceptor

\* what is left of a connection the app has let go: what the extension has not read yet
Gone(k) == [None EXCEPT !.run = k.run, !.at = "gone", !.open = k.open, !.out = k.out, !.shut = TRUE]

\* the streams that are dropped unserved: the one in hand, and with the listener its queue
Dropped(C) == [c \in Connection |-> IF c \in C THEN Gone(conn[c]) ELSE conn[c]]

AcceptorEnds(C) ==
  /\ acceptor' = "ended" /\ hand' = WakeUp
  /\ conn' = Dropped(C \cup ToSet(queue))
  /\ queue' = <<>>

\* wait_on_space
WaitsOnSpace ==
  /\ acceptor = "looks"
  /\ \/ hold /\ AcceptorEnds({})
     \/ /\ ~hold
        /\ acceptor' = IF Cardinality(book) < Places THEN "accepts" ELSE "asleep"
        /\ UNCHANGED <<conn, queue, hand>>
  /\ UNCHANGED <<clientVars, book, hold, appVars>>

Accepts ==
  /\ acceptor = "accepts" /\ queue # <<>>
  /\ acceptor' = "checks"
  /\ hand' = Head(queue)
  /\ queue' = Tail(queue)
  /\ conn' = IF Head(queue) = WakeUp THEN conn ELSE [conn EXCEPT ![Head(queue)].at = "hand"]
  /\ UNCHANGED <<clientVars, book, hold, appVars>>

Checks ==
  /\ acceptor = "checks"
  /\ IF hold THEN AcceptorEnds({hand}) ELSE acceptor' = "inserts" /\ UNCHANGED <<conn, queue, hand>>
  /\ UNCHANGED <<clientVars, book, hold, appVars>>

\* the connection is entered and gets a thread; without a thread it is dropped and carried out again
Inserts ==
  /\ acceptor = "inserts"
  /\ \/ conn' = [conn EXCEPT ![hand].at = "hello"] /\ book' = book \cup {hand}
     \/ conn' = Dropped({hand}) /\ UNCHANGED book
  /\ acceptor' = "looks" /\ hand' = WakeUp
  /\ UNCHANGED <<clientVars, queue, hold, appVars>>

Acceptor == WaitsOnSpace \/ Accepts \/ Checks \/ Inserts

-------------------------------------------------------------------------------
(***************************************************************************)
(* A connection thread of the app, and the engine behind it.               *)
(***************************************************************************)
others == <<clientVars, queue, serverVars, appVars>>

\* a write reaches an extension that still listens and gets lost on one that does not
Puts(c, at, message) ==
  conn' = [conn EXCEPT ![c].at = at, ![c].out = IF conn[c].open THEN Append(@, message) ELSE @]

\* the read returns without a message: the line is closed, the app stops, the deadline has passed
GivesUp(c) ==
  /\ conn[c].at = "hello" \/ (conn[c].at = "request" /\ (~conn[c].asked \/ conn[c].shut \/ hold))
  /\ conn' = [conn EXCEPT ![c].at = "ending"]
  /\ UNCHANGED others

Welcomes(c) ==
  /\ conn[c].at = "hello" /\ ~conn[c].shut
  /\ Puts(c, "request", "welcome")
  /\ UNCHANGED others

TakesRequest(c) ==
  /\ conn[c].at = "request" /\ conn[c].asked
  /\ conn' = [conn EXCEPT ![c].at = "works"]
  /\ UNCHANGED others

Results(c, result) == conn' = [conn EXCEPT ![c].at = "result", ![c].result = result]

\* the engine's answer, or its panic
AnswersEntry(c) ==
  /\ conn[c].at = "works" /\ c[2] = "entry"
  /\ \E result \in {"ok", "unreachable", "internal"} : Results(c, result)
  /\ UNCHANGED others

\* RemoteSink::write; the look at the line is not repeated for every chunk
WritesChunk(c) ==
  /\ conn[c].at = "works" /\ c[2] = "content" /\ conn[c].sent < Chunks
  /\ ~hold /\ ~conn[c].shut
  /\ conn' = [conn EXCEPT ![c].sent = @ + 1,
                          ![c].out = IF conn[c].open THEN Append(@, "data") ELSE @]
  /\ UNCHANGED others

\* RemoteSink::cancelled, or a write that fails: the engine aborts
SeesTorn(c) ==
  /\ conn[c].at = "works" /\ c[2] = "content"
  /\ hold \/ conn[c].shut \/ ~conn[c].open
  /\ \E torn \in {conn[c].shut \/ ~conn[c].open, ~hold} :
       conn' = [conn EXCEPT ![c].at = "result", ![c].result = "cancelled", ![c].torn = torn]
  /\ UNCHANGED others

LoadEnds(c) ==
  /\ conn[c].at = "works" /\ c[2] = "content"
  /\ \/ conn[c].sent = Chunks /\ Results(c, "ok")
     \/ conn[c].sent = 0 /\ Results(c, "unreachable")
     \/ Results(c, "internal")
  /\ UNCHANGED others

\* Mutant: a load the shutdown has ended is reported like any other
Silent_OnlyTorn(c) == conn[c].torn \/ conn[c].shut

\* deliver_content says nothing to an extension that has cancelled, and nothing when the app goes
Silent(c) == conn[c].torn \/ conn[c].shut \/ (c[2] = "content" /\ hold)

SendsResult(c) ==
  /\ conn[c].at = "result"
  /\ IF Silent(c) THEN conn' = [conn EXCEPT ![c].at = "ending"] ELSE Puts(c, "ending", conn[c].result)
  /\ UNCHANGED others

\* the write direction is shut and the place given back, however the thread ends (Checkout)
ChecksOut(c) ==
  /\ conn[c].at = "ending"
  /\ conn' = [conn EXCEPT ![c] = Gone(@)]
  /\ book' = book \ {c}
  /\ acceptor' = Notified
  /\ UNCHANGED <<clientVars, queue, hand, hold, appVars>>

Thread(c) ==
  Welcomes(c) \/ GivesUp(c) \/ TakesRequest(c) \/ SendsResult(c) \/ ChecksOut(c)

Engine(c) == AnswersEntry(c) \/ WritesChunk(c) \/ SeesTorn(c) \/ LoadEnds(c)

-------------------------------------------------------------------------------
(***************************************************************************)
(* The life of the app.                                                    *)
(***************************************************************************)
appOthers == <<clientVars, run>>

\* BridgeServer::start
Starts ==
  /\ life = "down" /\ run < MaxRuns
  /\ life' = "starts"
  /\ run' = run + 1
  /\ acceptor' = "looks" /\ hold' = FALSE
  /\ UNCHANGED <<clientVars, conn, queue, book, hand, file>>

\* Rendezvous::write: a neighbouring file, renamed
WritesFile ==
  /\ life = "starts"
  /\ life' = "up" /\ file' = run
  /\ UNCHANGED <<appOthers, conn, queue, serverVars>>

\* Platform::stop: remove_own
RemovesFile ==
  /\ life = "up"
  /\ life' = "removed"
  /\ file' = IF file = run THEN 0 ELSE file
  /\ UNCHANGED <<appOthers, conn, queue, serverVars>>

\* Mutant: the acceptance thread is not woken
SetsHold_Quiet ==
  /\ life = "removed"
  /\ life' = "held" /\ hold' = TRUE
  /\ UNCHANGED <<appOthers, file, conn, queue, book, hand, acceptor>>

\* Shared::stop
SetsHold ==
  /\ life = "removed"
  /\ life' = "held" /\ hold' = TRUE
  /\ acceptor' = Notified
  /\ UNCHANGED <<appOthers, file, conn, queue, book, hand>>

\* the call to its own port, which wakes an acceptance thread that waits there; if the call fails
\* and the thread has not ended by itself, the app goes on without it
Knocks ==
  /\ life = "held"
  /\ \/ /\ life' = "knocked"
        /\ queue' = IF acceptor = "ended" THEN queue ELSE Append(queue, WakeUp)
     \/ /\ run \in Deaf /\ acceptor # "ended"
        /\ life' = "left"
        /\ UNCHANGED queue
  /\ UNCHANGED <<appOthers, file, conn, serverVars>>

Joins ==
  /\ life = "knocked" /\ acceptor = "ended"
  /\ life' = "joined"
  /\ UNCHANGED <<appOthers, file, conn, queue, serverVars>>

ClosesAll ==
  /\ life \in {"joined", "left"}
  /\ life' = IF life = "joined" THEN "closed" ELSE "leftClosed"
  /\ conn' = [c \in Connection |-> IF c \in book THEN [conn[c] EXCEPT !.shut = TRUE] ELSE conn[c]]
  /\ UNCHANGED <<appOthers, file, queue, serverVars>>

\* wait_until_empty: not longer than FAREWELL_DEADLINE
Waited ==
  /\ life \in {"closed", "leftClosed"}
  /\ life' = IF life = "closed" THEN "over" ELSE "leftOver"
  /\ UNCHANGED <<appOthers, file, conn, queue, serverVars>>

\* the process ends, in order or anywhere: the operating system closes what is open
ProcessEnds ==
  /\ life # "down"
  /\ life' = "down"
  /\ AcceptorEnds({c \in Connection : conn[c].at # "none"})
  /\ book' = {}
  /\ hold' = FALSE
  /\ UNCHANGED <<appOthers, file>>

Stopping == SetsHold \/ Knocks \/ Joins \/ ClosesAll \/ Waited

BridgeNext ==
  \/ \E r \in Requests : Cancels(r) \/ Client(r)
  \/ Acceptor
  \/ \E c \in Connection : Thread(c) \/ Engine(c)
  \/ Starts \/ WritesFile \/ RemovesFile \/ Stopping \/ ProcessEnds

(***************************************************************************)
(* Threads go on, and deadlines pass.  Nothing is assumed of the engine: a *)
(* question may stay with it for ever; nor of the user and the app's life. *)
(***************************************************************************)
BridgeFairness ==
  /\ \A r \in Requests : WF_bridgeVars(Client(r))
  /\ WF_bridgeVars(Acceptor)
  /\ \A c \in Connection : WF_bridgeVars(Thread(c))
  /\ WF_bridgeVars(Stopping)

BridgeSpec == BridgeInit /\ [][BridgeNext]_bridgeVars /\ BridgeFairness

-------------------------------------------------------------------------------
(***************************************************************************)
(* What the line promises.                                                 *)
(***************************************************************************)
\* A request is answered "cancelled" only if somebody cancelled it, also when the app goes in the
\* middle of a load (server.rs, deliver_content: "in the extension that would mean the user
\* cancelled"): such a request is one the system repeats.
CancelledIsWish == \A r \in Requests : req[r].result = "cancelled" => r \in wish

\* The threads that serve are the ones that hold a place: no place is lost to a thread that ended
\* or never began, and none is served without one (server.rs, Checkout).
PlacesTrue ==
  life # "down" =>
    book = {c \in Connection : conn[c].run = run /\ conn[c].at \notin {"none", "queued", "hand", "gone"}}

\* When the app has said farewell no line it accepted is still open (server.rs, Drop: "closes all
\* open connections"): nobody waits for an answer from an app that is gone.  An acceptance thread
\* that could not be woken may still hold or take a line; the app only says so in its log.
FarewellToAll ==
  life \in {"closed", "over"} =>
    \A c \in Connection : conn[c].run = run /\ conn[c].at # "none" => conn[c].shut

\* What holds of the books of the app: types, places and the lines at the farewell; and that no
\* cancellation is made up.
BridgeInv == BridgeTypeOK /\ PlacesTrue /\ FarewellToAll /\ CancelledIsWish

\* Every request of the system is answered, whatever becomes of the app and however long the engine
\* takes (thread.rs: "A block that is never called would leave the system waiting").
EveryRequestAnswered == \A r \in Requests : <>(req[r].stage = "done")

\* The shutdown comes to its end, whether or not the acceptance thread can be woken and however long
\* the engine takes (server.rs: "an engine stuck in a
\* 60-second read operation is not to hold the app's shutdown up").
StopEnds == hold ~> ~hold \/ life \in {"over", "leftOver"}

===============================================================================
