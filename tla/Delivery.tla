------------------------------ MODULE Delivery ------------------------------
(***************************************************************************)
(* The delivery channel: the server issues signed commands, the client     *)
(* polls for them with its device token, notes each one in the table       *)
(* `delivery`, executes it, notes the outcome, and only then acknowledges. *)
(*                                                                         *)
(* Covered: requests and answers that get lost or arrive late, a stop or a *)
(* crash at any point, storage errors, the device token that a sign-out    *)
(* takes away in mid-round, FAILED commands that come again.               *)
(*                                                                         *)
(* Abstracted: a command is its server sequence number; what its bytes     *)
(* hold is its Class.  The stages that do not touch the table (signature,  *)
(* translation, rate limit) only decide the outcome.  The order in which   *)
(* the outbox is emptied (oldest first) is any order.  The acknowledgement *)
(* retry with another idempotency key is the same message again.           *)
(***************************************************************************)
EXTENDS Integers, FiniteSets

CONSTANTS
    N,                \* how many commands the server issues
    Class,            \* what a command is when the client reads it
    PageSize,         \* most commands in one page (50 in the contract)
    CursorSkips,      \* TRUE: the server hides what lies at or below the cursor
    MaxDisturbances   \* bound on lost answers, errors, restarts and sign-outs

Commands == 1 .. N

\* "order": DEHYDRATE, RECONCILE or REFRESH_KEYS; "signOut": SIGN_OUT;
\* "forged": fails the signature or the closed catalogue;
\* "unreadable": has a commandId, but is no command envelope.
Classes == {"order", "signOut", "forged", "unreadable"}

ASSUME DeliveryAssumption ==
    /\ N \in Nat
    /\ PageSize \in Nat \ {0}
    /\ MaxDisturbances \in Nat
    /\ CursorSkips \in BOOLEAN
    /\ Class \in [Commands -> Classes]

VARIABLES
    (* the server *)
    issued,        \* commands 1..issued exist
    verdict,       \* the outcome the server holds for each command
    acks,          \* acknowledgements on their way to the server
    (* the client's store: survives a restart *)
    table,         \* the table `delivery`
    cursor,        \* SETTING_CURSOR; 0 is "no cursor"
    (* the client's memory: lost at a restart *)
    token,         \* whether a device token lies in the bundle
    at,            \* where the channel task stands
    outbox,        \* what empty_outbox still has to send
    polled,        \* whether this round has its page, and is past the outbox
    page,          \* the items of the page not yet processed
    current,       \* the command in work, 0 for none
    result,        \* the outcome of the command in work
    receipt,       \* whether the answer to the acknowledgement came
    (* bookkeeping of the model *)
    runs,          \* how often a command was executed to an effect
    disturbances   \* disturbances left

serverVars == <<issued, verdict>>
storeVars  == <<table, cursor>>
taskVars   == <<at, outbox, polled, page, current, result, receipt>>
vars == <<issued, verdict, acks, table, cursor, token, at, outbox, polled,
          page, current, result, receipt, runs, disturbances>>

Outcomes == {"APPLIED", "NOT_APPLICABLE", "REJECTED", "FAILED"}
\* Only FAILED lets the server deliver again.
Final == Outcomes \ {"FAILED"}
Row == [outcome : Outcomes \cup {"absent", "none"}, acknowledged : BOOLEAN]
Absent == [outcome |-> "absent", acknowledged |-> FALSE]
Ack == [command : Commands, outcome : Outcomes]

Places == {"round", "outbox", "poll", "items", "accepted", "ran",
           "acknowledge", "acknowledging"}

ServerType ==
    /\ issued \in 0 .. N
    /\ verdict \in [Commands -> Outcomes \cup {"none"}]
    /\ acks \in SUBSET Ack

StoreType ==
    /\ table \in [Commands -> Row]
    /\ cursor \in 0 .. N

TaskType ==
    /\ token \in BOOLEAN
    /\ at \in Places
    /\ outbox \in SUBSET Commands
    /\ polled \in BOOLEAN
    /\ page \in SUBSET Commands
    /\ current \in Commands \cup {0}
    /\ result \in Outcomes \cup {"none"}
    /\ receipt \in BOOLEAN

ModelType ==
    /\ runs \in [Commands -> Nat]
    /\ disturbances \in 0 .. MaxDisturbances

TypeOK == ServerType /\ StoreType /\ TaskType /\ ModelType

Init ==
    /\ issued = 0
    /\ verdict = [c \in Commands |-> "none"]
    /\ acks = {}
    /\ table = [c \in Commands |-> Absent]
    /\ cursor = 0
    /\ token = FALSE
    /\ at = "round"
    /\ outbox = {} /\ polled = FALSE /\ page = {} /\ current = 0
    /\ result = "none" /\ receipt = FALSE
    /\ runs = [c \in Commands |-> 0]
    /\ disturbances = MaxDisturbances

Disturb == disturbances > 0 /\ disturbances' = disturbances - 1

-----------------------------------------------------------------------------
(* The server *)

Issue ==
    /\ issued < N
    /\ issued' = issued + 1
    /\ UNCHANGED <<verdict, acks, storeVars, token, taskVars, runs, disturbances>>

\* What a poll finds: everything without a final verdict.  A server that
\* reads the cursor the way the test server does leaves out what lies behind it.
Deliverable ==
    {c \in 1 .. issued : verdict[c] \notin Final /\ (CursorSkips => c > cursor)}

ServerPage ==
    {c \in Deliverable : Cardinality({d \in Deliverable : d < c}) < PageSize}

\* The first final outcome stands; a later acknowledgement is answered 409,
\* which the client takes for a success as well.
ServerTakesAck(m) ==
    /\ m \in acks
    /\ acks' = acks \ {m}
    /\ verdict' = IF verdict[m.command] \in Final THEN verdict
                  ELSE [verdict EXCEPT ![m.command] = m.outcome]
    /\ receipt' = (receipt \/ (at = "acknowledging" /\ current = m.command
                                                    /\ result = m.outcome))
    /\ UNCHANGED <<issued, storeVars, token, at, outbox, polled, page, current, result,
                   runs, disturbances>>

-----------------------------------------------------------------------------
(* The device token *)

\* fetch_device_token reaches the server and the device is approved.
FetchDeviceToken ==
    /\ at \in {"round", "acknowledge"}
    /\ ~token
    /\ token' = TRUE
    /\ UNCHANGED <<serverVars, acks, storeVars, taskVars, runs, disturbances>>

\* The user signs out meanwhile: forget_session takes the device token too.
UserSignsOut ==
    /\ Disturb
    /\ token
    /\ token' = FALSE
    /\ UNCHANGED <<serverVars, acks, storeVars, taskVars, runs>>

-----------------------------------------------------------------------------
(* One round of the channel *)

\* The command in work is done with: on with the outbox, or with the page.
Continue ==
    /\ at' = IF polled THEN "items" ELSE "outbox"
    /\ current' = 0 /\ result' = "none" /\ receipt' = FALSE

\* Mutant: only what was applied is told.
OpenAcknowledgementApplied ==
    {c \in Commands : table[c].outcome = "APPLIED" /\ ~table[c].acknowledged}

\* unacknowledged: an outcome, and nobody has told it.
OpenAcknowledgement ==
    {c \in Commands : table[c].outcome \in Outcomes /\ ~table[c].acknowledged}

BeginRound ==
    /\ at = "round"
    /\ token
    /\ outbox' = OpenAcknowledgement
    /\ polled' = FALSE
    /\ at' = "outbox"
    /\ UNCHANGED <<serverVars, acks, storeVars, token, page, current, result,
                   receipt, runs, disturbances>>

\* empty_outbox: the stored outcome goes out again.
TakeFromOutbox ==
    /\ at = "outbox"
    /\ \E c \in outbox :
        /\ outbox' = outbox \ {c}
        /\ current' = c
        /\ result' = table[c].outcome
    /\ at' = "acknowledge"
    /\ UNCHANGED <<serverVars, acks, storeVars, token, polled, page, receipt, runs,
                   disturbances>>

OutboxEmpty ==
    /\ at = "outbox"
    /\ outbox = {}
    /\ at' = "poll"
    /\ UNCHANGED <<serverVars, acks, storeVars, token, outbox, polled, page, current,
                   result, receipt, runs, disturbances>>

\* The page is here: the cursor is stored before the first item is looked at.
\* A token that is gone meanwhile is fetched anew (the second attempt after 401).
Poll ==
    /\ at = "poll"
    /\ token' = TRUE
    /\ page' = ServerPage
    /\ \/ ServerPage = {} /\ UNCHANGED cursor
       \/ \E c \in ServerPage : /\ \A d \in ServerPage : d <= c
                                /\ cursor' = c
    /\ polled' = TRUE
    /\ at' = "items"
    /\ UNCHANGED <<serverVars, acks, table, outbox, current, result, receipt,
                   runs, disturbances>>

\* No answer, or a refusal: then the cursor is discarded.
PollFails ==
    /\ at = "poll"
    /\ Disturb
    /\ cursor' \in {cursor, 0}
    /\ at' = "round"
    /\ UNCHANGED <<serverVars, acks, table, token, outbox, polled, page, current,
                   result, receipt, runs>>

PageDone ==
    /\ at = "items"
    /\ page = {}
    /\ at' = "round"
    /\ UNCHANGED <<serverVars, acks, storeVars, token, outbox, polled, page, current,
                   result, receipt, runs, disturbances>>

-----------------------------------------------------------------------------
(* One item of the page *)

IsNextItem(c) ==
    /\ at = "items"
    /\ c \in page
    /\ \A d \in page : c <= d

\* Mutant: what was not applicable is tried again.
RunsAgainAlsoNotApplicable == {"absent", "none", "FAILED", "NOT_APPLICABLE"}

\* accept_command says NEW, INTERRUPTED or REPEAT: the command runs (again).
RunsAgain == {"absent", "none", "FAILED"}

\* Mutant: a failed command is taken up again without clearing its flag.
OpenedKeepingFlag(row) == [row EXCEPT !.outcome = "none"]

\* The row accept_command leaves behind for a command that runs.
Opened(row) == [outcome |-> "none", acknowledged |-> FALSE]

AcceptToRun(c) ==
    /\ IsNextItem(c)
    /\ Class[c] # "unreadable"
    /\ table[c].outcome \in RunsAgain
    /\ table' = [table EXCEPT ![c] = Opened(@)]
    /\ page' = page \ {c}
    /\ current' = c
    /\ at' = "accepted"
    /\ UNCHANGED <<serverVars, acks, cursor, token, outbox, polled, result, receipt,
                   runs, disturbances>>

\* accept_command says DONE: at most the acknowledgement goes out again.
AcceptDone(c) ==
    /\ IsNextItem(c)
    /\ Class[c] # "unreadable"
    /\ table[c].outcome \notin RunsAgain
    /\ page' = page \ {c}
    /\ \/ /\ table[c].acknowledged
          /\ UNCHANGED <<at, current, result>>
       \/ /\ ~table[c].acknowledged
          /\ at' = "acknowledge"
          /\ current' = c
          /\ result' = table[c].outcome
    /\ UNCHANGED <<serverVars, acks, storeVars, token, outbox, polled, receipt, runs,
                   disturbances>>

\* accept_command fails in the store: the item is left alone.
AcceptFails(c) ==
    /\ IsNextItem(c)
    /\ Class[c] # "unreadable"
    /\ Disturb
    /\ page' = page \ {c}
    /\ UNCHANGED <<serverVars, acks, storeVars, token, at, outbox, polled, current,
                   result, receipt, runs>>

\* from_value fails, the identifier is readable: complete(REJECTED) without
\* a preceding accept_command.
RejectUnreadable(c) ==
    /\ IsNextItem(c)
    /\ Class[c] = "unreadable"
    /\ page' = page \ {c}
    /\ current' = c
    /\ result' = "REJECTED"
    /\ at' = "ran"
    /\ UNCHANGED <<serverVars, acks, storeVars, token, outbox, polled, receipt, runs,
                   disturbances>>

\* Mutant: the checks before the execution are left out.
PassesUnchecked(c) == TRUE

\* check_command_signature and CommandEnvelope::command.
Passes(c) == Class[c] # "forged"

Refuse ==
    /\ at = "accepted"
    /\ ~Passes(current)
    /\ result' = "REJECTED"
    /\ at' = "ran"
    /\ UNCHANGED <<serverVars, acks, storeVars, token, outbox, polled, page, current,
                   receipt, runs, disturbances>>

\* Mutant: a command held back counts as rejected.
HeldBackRejected == "REJECTED"

HeldBack == "FAILED"

\* The key set cannot be read, or the rate limit is reached.
HoldBack ==
    /\ at = "accepted"
    /\ Disturb
    /\ result' = HeldBack
    /\ at' = "ran"
    /\ UNCHANGED <<serverVars, acks, storeVars, token, outbox, polled, page, current,
                   receipt, runs>>

\* run_from; SIGN_OUT takes the device token away whatever comes out.
Execute ==
    /\ at = "accepted"
    /\ Passes(current)
    /\ \/ /\ result' \in {"APPLIED", "NOT_APPLICABLE"}
          /\ runs' = [runs EXCEPT ![current] = @ + 1]
          /\ UNCHANGED disturbances
       \/ /\ result' = "FAILED"
          /\ Disturb
          /\ UNCHANGED runs
    /\ token' = (token /\ Class[current] # "signOut")
    /\ at' = "ran"
    /\ UNCHANGED <<serverVars, acks, storeVars, outbox, polled, page, current, receipt>>

\* complete: set_outcome knows the command and its acknowledgement is open.
RecordOutcome ==
    /\ at = "ran"
    /\ table[current].outcome # "absent"
    /\ ~table[current].acknowledged
    /\ table' = [table EXCEPT ![current].outcome = result]
    /\ at' = "acknowledge"
    /\ UNCHANGED <<serverVars, acks, cursor, token, outbox, polled, page, current,
                   result, receipt, runs, disturbances>>

\* complete: set_outcome answers an error, so nothing is acknowledged.
OutcomeNotRecorded ==
    /\ at = "ran"
    /\ \/ /\ table[current].outcome = "absent" \/ table[current].acknowledged
          /\ UNCHANGED disturbances
       \/ Disturb
    /\ Continue
    /\ UNCHANGED <<serverVars, acks, storeVars, token, outbox, polled, page, runs>>

-----------------------------------------------------------------------------
(* The acknowledgement *)

SendAck ==
    /\ at = "acknowledge"
    /\ token
    /\ acks' = acks \cup {[command |-> current, outcome |-> result]}
    /\ at' = "acknowledging"
    /\ UNCHANGED <<serverVars, storeVars, token, outbox, polled, page, current, result,
                   receipt, runs, disturbances>>

\* Without a device token the acknowledgement waits in the table.
AckWaits ==
    /\ at = "acknowledge"
    /\ ~token
    /\ Disturb
    /\ Continue
    /\ UNCHANGED <<serverVars, acks, storeVars, token, outbox, polled, page, runs>>

\* Accepted or AlreadyAcknowledged: mark_acknowledged.
MarkAcknowledged ==
    /\ at = "acknowledging"
    /\ receipt
    /\ table' = [table EXCEPT ![current].acknowledged = TRUE]
    /\ Continue
    /\ UNCHANGED <<serverVars, acks, cursor, token, outbox, polled, page, runs,
                   disturbances>>

\* No answer, another answer, or the note fails: the row stays in the outbox.
\* The request may have been lost, or still be on its way.
AckFails ==
    /\ at = "acknowledging"
    /\ Disturb
    /\ \/ UNCHANGED acks
       \/ acks' = acks \ {[command |-> current, outcome |-> result]}
    /\ Continue
    /\ UNCHANGED <<serverVars, storeVars, token, outbox, polled, page, runs>>

\* The program stops or crashes and starts again: the store is what is left.
Restart ==
    /\ Disturb
    /\ token' = FALSE
    /\ at' = "round"
    /\ outbox' = {} /\ polled' = FALSE /\ page' = {} /\ current' = 0
    /\ result' = "none" /\ receipt' = FALSE
    /\ UNCHANGED <<serverVars, acks, storeVars, runs>>

-----------------------------------------------------------------------------
Item(c) ==
    \/ AcceptToRun(c) \/ AcceptDone(c) \/ AcceptFails(c) \/ RejectUnreadable(c)

\* The steps the channel task takes by itself when nothing disturbs it.
ChannelRuns ==
    \/ FetchDeviceToken \/ BeginRound \/ TakeFromOutbox \/ OutboxEmpty
    \/ Poll \/ PageDone
    \/ \E c \in Commands : Item(c)
    \/ Refuse \/ HoldBack \/ Execute \/ RecordOutcome \/ OutcomeNotRecorded
    \/ SendAck \/ MarkAcknowledged

Next ==
    \/ Issue
    \/ \E m \in acks : ServerTakesAck(m)
    \/ ChannelRuns
    \/ UserSignsOut \/ PollFails \/ AckWaits \/ AckFails \/ Restart

Spec == Init /\ [][Next]_vars

\* The task is scheduled, and a request that is not lost reaches the server.
Fairness ==
    /\ WF_vars(ChannelRuns)
    /\ WF_vars(\E m \in acks : ServerTakesAck(m))

FairSpec == Spec /\ Fairness

-----------------------------------------------------------------------------
(* What every step of the channel keeps: the parts of the invariant the     *)
(* properties rest on.                                                      *)

\* Whatever the client or the network holds was issued before.
OnlyIssued ==
    /\ page \subseteq 1 .. issued
    /\ \A c \in Commands : table[c].outcome # "absent" => c <= issued
    /\ \A m \in acks : m.command <= issued /\ table[m.command].outcome # "absent"

\* A row says what happened; an unreadable command never gets one.
RowsAreTrue ==
    \A c \in Commands :
        /\ Class[c] = "unreadable" => table[c] = Absent
        /\ table[c].acknowledged => table[c].outcome \in Outcomes
        /\ table[c].outcome \in {"APPLIED", "NOT_APPLICABLE"} => runs[c] > 0
        /\ table[c].outcome = "REJECTED" => Class[c] = "forged"
        /\ runs[c] > 0 => Class[c] \in {"order", "signOut"}

\* A final word under way, or at the server, is the one in the table.
WordsAreCurrent ==
    /\ \A m \in acks : m.outcome \in Final => table[m.command].outcome = m.outcome
    /\ \A c \in Commands : verdict[c] \in Final => table[c].outcome = verdict[c]

\* What the task remembers between two steps still holds.
TaskIsCurrent ==
    /\ at \in {"accepted", "ran", "acknowledge", "acknowledging"} => current \in Commands
    /\ at = "accepted" => /\ Class[current] # "unreadable"
                          /\ table[current] = [outcome |-> "none", acknowledged |-> FALSE]
    /\ at = "ran" =>
        /\ result \in Outcomes
        /\ \/ Class[current] = "unreadable" /\ result = "REJECTED"
           \/ /\ Class[current] # "unreadable"
              /\ table[current] = [outcome |-> "none", acknowledged |-> FALSE]
        /\ result \in {"APPLIED", "NOT_APPLICABLE"} => runs[current] > 0
        /\ result = "REJECTED" => Class[current] \in {"forged", "unreadable"}
    /\ at \in {"acknowledge", "acknowledging"} =>
        /\ result \in Outcomes
        /\ table[current].outcome = result
    /\ receipt => at = "acknowledging" /\ verdict[current] = result

\* The outbox is empty before the poll, and its rows have an outcome.
OutboxIsOpen ==
    /\ \A c \in outbox : table[c].outcome \in Outcomes
    /\ at \in {"accepted", "items", "ran"} => polled
    /\ at = "poll" \/ polled => outbox = {}

-----------------------------------------------------------------------------
(* Properties *)

\* The client never counts a command as acknowledged under an outcome the
\* server does not hold, whichever copies of its acknowledgements arrive late
\* (acknowledge, mark_acknowledged).
AcknowledgedIsKnown ==
    \A c \in Commands : table[c].acknowledged => verdict[c] = table[c].outcome

\* The inductive invariant: everything above together.
ChannelInv ==
    /\ TypeOK
    /\ OnlyIssued
    /\ RowsAreTrue
    /\ WordsAreCurrent
    /\ TaskIsCurrent
    /\ OutboxIsOpen
    /\ AcknowledgedIsKnown

\* What the server believes is what happened on the device: "applied" means
\* the command ran, "rejected" means it never ran (process, complete).
HonestVerdict ==
    \A c \in Commands :
        /\ verdict[c] \in {"APPLIED", "NOT_APPLICABLE"} => runs[c] > 0
        /\ verdict[c] = "REJECTED" => runs[c] = 0

\* Effective once: from the moment the outcome is stored, no redelivery,
\* restart or lost acknowledgement makes the command run again, and the
\* outcome never changes (accept_command, set_outcome).
EffectiveOnce ==
    [][\A c \in Commands : table[c].outcome \in Final =>
            /\ runs'[c] = runs[c]
            /\ table'[c].outcome = table[c].outcome]_vars

\* The channel keeps the promise CommandContract states.
Contract == INSTANCE CommandContract WITH
    Genuine <- {c \in Commands : Class[c] \in {"order", "signOut"}},
    settled <- [c \in Commands |-> IF table[c].outcome = "absent" THEN "none"
                                   ELSE table[c].outcome]
KeepsContract == Contract!Spec

\* Once the disturbances end, every command with a readable envelope gets a
\* final verdict and leaves the outbox (channel, empty_outbox).
EverySettled ==
    \A c \in Commands :
        (c <= issued /\ Class[c] # "unreadable") ~>
            (verdict[c] \in Final /\ table[c].acknowledged)
=============================================================================
