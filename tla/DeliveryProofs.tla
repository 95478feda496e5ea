--------------------------- MODULE DeliveryProofs ---------------------------
(***************************************************************************)
(* Proofs about the delivery channel, for any number of commands, any page *)
(* size, either reading of the cursor, and any number of disturbances; and *)
(* about its rate limit, for every limit and window, and the key set its   *)
(* signatures are checked against, for any anchors and publications.       *)
(* ChannelInv is inductive (InitInv, NextInv); what the runs check of the  *)
(* safety of the channel follows from it.                                  *)
(***************************************************************************)
EXTENDS Delivery, RateLimit, KeySet, FiniteSetTheorems, TLAPS

USE DEF Outcomes, Final, RunsAgain, Opened, Passes, HeldBack

\* A page holds commands the server has issued.
LEMMA PageIsIssued == ServerType => ServerPage \subseteq 1 .. issued /\ issued <= N
  BY DeliveryAssumption DEF ServerType, ServerPage, Deliverable

\* Executing a command leaves every row as true as it was.
LEMMA ExecuteRows == ChannelInv /\ Execute => RowsAreTrue'
  <1> SUFFICES ASSUME ChannelInv, Execute, NEW c \in Commands
               PROVE  RowsAreTrue!(c)'
    BY DEF RowsAreTrue
  <1>1. runs \in [Commands -> Nat] /\ current \in Commands /\ UNCHANGED table
    BY DEF ChannelInv, TaskIsCurrent, Execute, TypeOK, ModelType, storeVars
  <1>2. /\ runs[c] \in Nat /\ runs'[c] \in Nat /\ runs'[c] >= runs[c]
        /\ c # current => runs'[c] = runs[c]
    BY <1>1, SMT DEF Execute
  <1>3. c = current => Class[c] \in {"order", "signOut"}
    BY <1>1, DeliveryAssumption DEF ChannelInv, TaskIsCurrent, Execute, Classes
  <1> QED
    BY <1>1, <1>2, <1>3 DEF ChannelInv, RowsAreTrue

\* The outcome that is recorded is true of the command in work.
LEMMA RecordRows == ChannelInv /\ RecordOutcome => RowsAreTrue'
  <1> SUFFICES ASSUME ChannelInv, RecordOutcome, NEW c \in Commands
               PROVE  RowsAreTrue!(c)'
    BY DEF RowsAreTrue
  <1>1. /\ table \in [Commands -> Row] /\ current \in Commands
        /\ Class[current] # "unreadable" /\ UNCHANGED runs
        /\ result \in Outcomes
        /\ result \in {"APPLIED", "NOT_APPLICABLE"} => runs[current] > 0
        /\ result = "REJECTED" => Class[current] = "forged"
    BY DEF ChannelInv, TaskIsCurrent, RowsAreTrue, RecordOutcome, TypeOK,
       StoreType, Absent
  <1>2. table' = [table EXCEPT ![current].outcome = result]
    BY DEF RecordOutcome
  <1> QED
    BY <1>1, <1>2 DEF ChannelInv, RowsAreTrue, Row

\* It is recorded over an open row, so it contradicts no word under way.
LEMMA RecordWords == ChannelInv /\ RecordOutcome => WordsAreCurrent'
  <1> SUFFICES ASSUME ChannelInv, RecordOutcome
               PROVE  WordsAreCurrent'
    OBVIOUS
  <1>1. /\ table \in [Commands -> Row] /\ current \in Commands
        /\ table[current].outcome = "none" /\ acks \subseteq Ack
        /\ UNCHANGED <<acks, verdict>>
    BY DEF ChannelInv, TaskIsCurrent, RowsAreTrue, RecordOutcome, TypeOK,
       StoreType, ServerType, Absent, serverVars
  <1>2. table' = [table EXCEPT ![current].outcome = result]
    BY DEF RecordOutcome
  <1> QED
    BY <1>1, <1>2 DEF ChannelInv, WordsAreCurrent, Row, Ack

\* Marking a row acknowledged changes nothing it says.
LEMMA MarkRows == ChannelInv /\ MarkAcknowledged => RowsAreTrue'
  <1> SUFFICES ASSUME ChannelInv, MarkAcknowledged, NEW c \in Commands
               PROVE  RowsAreTrue!(c)'
    BY DEF RowsAreTrue
  <1>1. /\ table \in [Commands -> Row] /\ current \in Commands
        /\ Class[current] # "unreadable" /\ UNCHANGED runs
        /\ table[current].outcome \in Outcomes
    BY DEF ChannelInv, TaskIsCurrent, RowsAreTrue, MarkAcknowledged, TypeOK,
       StoreType, Absent
  <1>2. table' = [table EXCEPT ![current].acknowledged = TRUE]
    BY DEF MarkAcknowledged
  <1> QED
    BY <1>1, <1>2 DEF ChannelInv, RowsAreTrue, Row

\* The table of a device that has just enrolled is empty, and so is its outbox.
LEMMA InitInv == Init => ChannelInv
  <1> SUFFICES ASSUME Init PROVE ChannelInv
    OBVIOUS
  <1> USE DeliveryAssumption DEF Init
  <1>1. ServerType
    BY DEF ServerType, Commands, Absent, Row, Places
  <1>2. StoreType
    BY DEF StoreType, Commands, Absent, Row, Places
  <1>3. TaskType
    BY DEF TaskType, Commands, Absent, Row, Places
  <1>4. ModelType
    BY DEF ModelType, Commands, Absent, Row, Places
  <1>5. OnlyIssued
    BY DEF OnlyIssued, Commands, Absent
  <1>6. RowsAreTrue
    BY DEF RowsAreTrue, Commands, Absent
  <1>7. WordsAreCurrent
    BY DEF WordsAreCurrent, Commands, Absent
  <1>8. TaskIsCurrent
    BY DEF TaskIsCurrent, Commands, Absent
  <1>9. OutboxIsOpen
    BY DEF OutboxIsOpen, Commands, Absent
  <1>10. AcknowledgedIsKnown
    BY DEF AcknowledgedIsKnown, Commands, Absent
  <1> QED
    BY <1>1, <1>2, <1>3, <1>4, <1>5, <1>6, <1>7, <1>8, <1>9, <1>10 DEF
       ChannelInv, TypeOK

\* One step per action; under it the parts of the invariant the action can
\* disturb, and first, in one step, those it leaves alone.
LEMMA NextInv == ChannelInv /\ [Next]_vars => ChannelInv'
  <1> SUFFICES ASSUME ChannelInv, [Next]_vars
               PROVE  ChannelInv'
    OBVIOUS
  <1> USE DeliveryAssumption DEF ChannelInv, TypeOK, serverVars, storeVars, taskVars
  <1>1. CASE Issue
    <2>1. (StoreType /\ TaskType /\ ModelType /\ RowsAreTrue
       /\ WordsAreCurrent /\ TaskIsCurrent /\ OutboxIsOpen
       /\ AcknowledgedIsKnown)'
      BY <1>1 DEF Issue, StoreType, TaskType, ModelType, RowsAreTrue,
         WordsAreCurrent, TaskIsCurrent, OutboxIsOpen, AcknowledgedIsKnown
    <2>2. ServerType'
      BY <1>1 DEF Issue, ServerType
    <2>3. OnlyIssued'
      BY <1>1 DEF Issue, OnlyIssued, ServerType, StoreType, TaskType,
         Commands, Ack
    <2> QED
      BY <2>1, <2>2, <2>3
  <1>2. ASSUME NEW m \in acks, ServerTakesAck(m) PROVE ChannelInv'
    <2>1. (StoreType /\ ModelType /\ RowsAreTrue /\ OutboxIsOpen)'
      BY <1>2 DEF ServerTakesAck, StoreType, ModelType, RowsAreTrue,
         OutboxIsOpen
    <2>2. ServerType'
      BY <1>2 DEF ServerTakesAck, ServerType, Ack
    <2>3. TaskType'
      BY <1>2 DEF ServerTakesAck, TaskType
    <2>4. OnlyIssued'
      BY <1>2 DEF ServerTakesAck, OnlyIssued
    <2>5. WordsAreCurrent'
      BY <1>2 DEF ServerTakesAck, WordsAreCurrent, ServerType, StoreType,
         TaskType, Ack
    <2>6. TaskIsCurrent'
      BY <1>2 DEF ServerTakesAck, TaskIsCurrent, ServerType, StoreType,
         TaskType, Ack, WordsAreCurrent
    <2>7. AcknowledgedIsKnown'
      BY <1>2 DEF ServerTakesAck, AcknowledgedIsKnown, ServerType, StoreType,
         TaskType, Ack, WordsAreCurrent, RowsAreTrue
    <2> QED
      BY <2>1, <2>2, <2>3, <2>4, <2>5, <2>6, <2>7
  <1>3. CASE FetchDeviceToken
    <2>1. (ServerType /\ StoreType /\ ModelType /\ OnlyIssued /\ RowsAreTrue
       /\ WordsAreCurrent /\ TaskIsCurrent /\ OutboxIsOpen
       /\ AcknowledgedIsKnown)'
      BY <1>3 DEF FetchDeviceToken, ServerType, StoreType, ModelType,
         OnlyIssued, RowsAreTrue, WordsAreCurrent, TaskIsCurrent,
         OutboxIsOpen, AcknowledgedIsKnown
    <2>2. TaskType'
      BY <1>3 DEF FetchDeviceToken, TaskType, Places
    <2> QED
      BY <2>1, <2>2
  <1>4. CASE BeginRound
    <2>1. (ServerType /\ StoreType /\ ModelType /\ OnlyIssued /\ RowsAreTrue
       /\ WordsAreCurrent /\ AcknowledgedIsKnown)'
      BY <1>4 DEF BeginRound, ServerType, StoreType, ModelType, OnlyIssued,
         RowsAreTrue, WordsAreCurrent, AcknowledgedIsKnown
    <2>2. TaskType'
      BY <1>4 DEF BeginRound, TaskType, Places, OpenAcknowledgement
    <2>3. TaskIsCurrent'
      BY <1>4 DEF BeginRound, TaskIsCurrent
    <2>4. OutboxIsOpen'
      BY <1>4 DEF BeginRound, OutboxIsOpen, OpenAcknowledgement
    <2> QED
      BY <2>1, <2>2, <2>3, <2>4
  <1>5. CASE TakeFromOutbox
    <2>1. (ServerType /\ StoreType /\ ModelType /\ OnlyIssued /\ RowsAreTrue
       /\ WordsAreCurrent /\ AcknowledgedIsKnown)'
      BY <1>5 DEF TakeFromOutbox, ServerType, StoreType, ModelType,
         OnlyIssued, RowsAreTrue, WordsAreCurrent, AcknowledgedIsKnown
    <2>2. TaskType'
      BY <1>5 DEF TakeFromOutbox, TaskType, Places, OutboxIsOpen
    <2>3. TaskIsCurrent'
      BY <1>5 DEF TakeFromOutbox, TaskIsCurrent, ServerType, StoreType,
         TaskType, OutboxIsOpen
    <2>4. OutboxIsOpen'
      BY <1>5 DEF TakeFromOutbox, OutboxIsOpen
    <2> QED
      BY <2>1, <2>2, <2>3, <2>4
  <1>6. CASE OutboxEmpty
    <2>1. (ServerType /\ StoreType /\ ModelType /\ OnlyIssued /\ RowsAreTrue
       /\ WordsAreCurrent /\ AcknowledgedIsKnown)'
      BY <1>6 DEF OutboxEmpty, ServerType, StoreType, ModelType, OnlyIssued,
         RowsAreTrue, WordsAreCurrent, AcknowledgedIsKnown
    <2>2. TaskType'
      BY <1>6 DEF OutboxEmpty, TaskType, Places
    <2>3. TaskIsCurrent'
      BY <1>6 DEF OutboxEmpty, TaskIsCurrent
    <2>4. OutboxIsOpen'
      BY <1>6 DEF OutboxEmpty, OutboxIsOpen
    <2> QED
      BY <2>1, <2>2, <2>3, <2>4
  <1>7. CASE Poll
    <2>1. (ServerType /\ ModelType /\ RowsAreTrue /\ WordsAreCurrent
       /\ AcknowledgedIsKnown)'
      BY <1>7 DEF Poll, ServerType, ModelType, RowsAreTrue, WordsAreCurrent,
         AcknowledgedIsKnown
    <2>2. StoreType'
      BY <1>7, PageIsIssued DEF Poll, StoreType, ServerType
    <2>3. TaskType'
      BY <1>7, PageIsIssued DEF Poll, TaskType, Places, Commands, ServerType
    <2>4. OnlyIssued'
      BY <1>7, PageIsIssued DEF Poll, OnlyIssued
    <2>5. TaskIsCurrent'
      BY <1>7 DEF Poll, TaskIsCurrent
    <2>6. OutboxIsOpen'
      BY <1>7 DEF Poll, OutboxIsOpen
    <2> QED
      BY <2>1, <2>2, <2>3, <2>4, <2>5, <2>6
  <1>8. CASE PageDone
    <2>1. (ServerType /\ StoreType /\ ModelType /\ OnlyIssued /\ RowsAreTrue
       /\ WordsAreCurrent /\ AcknowledgedIsKnown)'
      BY <1>8 DEF PageDone, ServerType, StoreType, ModelType, OnlyIssued,
         RowsAreTrue, WordsAreCurrent, AcknowledgedIsKnown
    <2>2. TaskType'
      BY <1>8 DEF PageDone, TaskType, Places
    <2>3. TaskIsCurrent'
      BY <1>8 DEF PageDone, TaskIsCurrent
    <2>4. OutboxIsOpen'
      BY <1>8 DEF PageDone, OutboxIsOpen
    <2> QED
      BY <2>1, <2>2, <2>3, <2>4
  <1>9. ASSUME NEW c \in Commands, AcceptToRun(c) PROVE ChannelInv'
    <2>1. (ServerType /\ ModelType)'
      BY <1>9 DEF AcceptToRun, ServerType, ModelType
    <2>2. StoreType'
      BY <1>9 DEF AcceptToRun, IsNextItem, StoreType, Row
    <2>3. TaskType'
      BY <1>9 DEF AcceptToRun, IsNextItem, TaskType, Places
    <2>4. OnlyIssued'
      BY <1>9 DEF AcceptToRun, IsNextItem, OnlyIssued, ServerType, StoreType,
         TaskType, Row
    <2>5. RowsAreTrue'
      BY <1>9 DEF AcceptToRun, IsNextItem, RowsAreTrue, ServerType, StoreType,
         TaskType, Row
    <2>6. WordsAreCurrent'
      BY <1>9 DEF AcceptToRun, IsNextItem, WordsAreCurrent, ServerType,
         StoreType, TaskType, Row, Ack
    <2>7. TaskIsCurrent'
      BY <1>9 DEF AcceptToRun, IsNextItem, TaskIsCurrent, ServerType,
         StoreType, TaskType, Row
    <2>8. OutboxIsOpen'
      BY <1>9 DEF AcceptToRun, IsNextItem, OutboxIsOpen
    <2>9. AcknowledgedIsKnown'
      BY <1>9 DEF AcceptToRun, IsNextItem, AcknowledgedIsKnown, ServerType,
         StoreType, TaskType, Row
    <2> QED
      BY <2>1, <2>2, <2>3, <2>4, <2>5, <2>6, <2>7, <2>8, <2>9
  <1>10. ASSUME NEW c \in Commands, AcceptDone(c) PROVE ChannelInv'
    <2>1. (ServerType /\ StoreType /\ ModelType /\ RowsAreTrue
       /\ WordsAreCurrent /\ AcknowledgedIsKnown)'
      BY <1>10 DEF AcceptDone, ServerType, StoreType, ModelType, RowsAreTrue,
         WordsAreCurrent, AcknowledgedIsKnown
    <2>2. TaskType'
      BY <1>10 DEF AcceptDone, IsNextItem, TaskType, Places, StoreType, Row
    <2>3. OnlyIssued'
      BY <1>10 DEF AcceptDone, IsNextItem, OnlyIssued
    <2>4. TaskIsCurrent'
      BY <1>10 DEF AcceptDone, IsNextItem, TaskIsCurrent, ServerType,
         StoreType, TaskType, Row
    <2>5. OutboxIsOpen'
      BY <1>10 DEF AcceptDone, IsNextItem, OutboxIsOpen, ServerType,
         StoreType, TaskType
    <2> QED
      BY <2>1, <2>2, <2>3, <2>4, <2>5
  <1>11. ASSUME NEW c \in Commands, AcceptFails(c) PROVE ChannelInv'
    <2>1. (ServerType /\ StoreType /\ RowsAreTrue /\ WordsAreCurrent
       /\ AcknowledgedIsKnown)'
      BY <1>11 DEF AcceptFails, ServerType, StoreType, RowsAreTrue,
         WordsAreCurrent, AcknowledgedIsKnown
    <2>2. TaskType'
      BY <1>11 DEF AcceptFails, IsNextItem, TaskType, Places
    <2>3. ModelType'
      BY <1>11 DEF AcceptFails, IsNextItem, ModelType, Disturb
    <2>4. OnlyIssued'
      BY <1>11 DEF AcceptFails, IsNextItem, OnlyIssued
    <2>5. TaskIsCurrent'
      BY <1>11 DEF AcceptFails, IsNextItem, TaskIsCurrent
    <2>6. OutboxIsOpen'
      BY <1>11 DEF AcceptFails, IsNextItem, OutboxIsOpen
    <2> QED
      BY <2>1, <2>2, <2>3, <2>4, <2>5, <2>6
  <1>12. ASSUME NEW c \in Commands, RejectUnreadable(c) PROVE ChannelInv'
    <2>1. (ServerType /\ StoreType /\ ModelType /\ RowsAreTrue
       /\ WordsAreCurrent /\ AcknowledgedIsKnown)'
      BY <1>12 DEF RejectUnreadable, ServerType, StoreType, ModelType,
         RowsAreTrue, WordsAreCurrent, AcknowledgedIsKnown
    <2>2. TaskType'
      BY <1>12 DEF RejectUnreadable, IsNextItem, TaskType, Places
    <2>3. OnlyIssued'
      BY <1>12 DEF RejectUnreadable, IsNextItem, OnlyIssued
    <2>4. TaskIsCurrent'
      BY <1>12 DEF RejectUnreadable, IsNextItem, TaskIsCurrent, ServerType,
         StoreType, TaskType
    <2>5. OutboxIsOpen'
      BY <1>12 DEF RejectUnreadable, IsNextItem, OutboxIsOpen
    <2> QED
      BY <2>1, <2>2, <2>3, <2>4, <2>5
  <1>13. CASE Refuse
    <2>1. (ServerType /\ StoreType /\ ModelType /\ OnlyIssued /\ RowsAreTrue
       /\ WordsAreCurrent /\ AcknowledgedIsKnown)'
      BY <1>13 DEF Refuse, ServerType, StoreType, ModelType, OnlyIssued,
         RowsAreTrue, WordsAreCurrent, AcknowledgedIsKnown
    <2>2. TaskType'
      BY <1>13 DEF Refuse, TaskType, Places
    <2>3. TaskIsCurrent'
      BY <1>13 DEF Refuse, TaskIsCurrent, ServerType, StoreType, TaskType
    <2>4. OutboxIsOpen'
      BY <1>13 DEF Refuse, OutboxIsOpen
    <2> QED
      BY <2>1, <2>2, <2>3, <2>4
  <1>14. CASE HoldBack
    <2>1. (ServerType /\ StoreType /\ OnlyIssued /\ RowsAreTrue
       /\ WordsAreCurrent /\ AcknowledgedIsKnown)'
      BY <1>14 DEF HoldBack, ServerType, StoreType, OnlyIssued, RowsAreTrue,
         WordsAreCurrent, AcknowledgedIsKnown
    <2>2. TaskType'
      BY <1>14 DEF HoldBack, TaskType, Places
    <2>3. ModelType'
      BY <1>14 DEF HoldBack, ModelType, Disturb
    <2>4. TaskIsCurrent'
      BY <1>14 DEF HoldBack, TaskIsCurrent, ServerType, StoreType, TaskType
    <2>5. OutboxIsOpen'
      BY <1>14 DEF HoldBack, OutboxIsOpen
    <2> QED
      BY <2>1, <2>2, <2>3, <2>4, <2>5
  <1>15. CASE Execute
    <2>1. (ServerType /\ StoreType /\ OnlyIssued /\ WordsAreCurrent
       /\ AcknowledgedIsKnown)'
      BY <1>15 DEF Execute, ServerType, StoreType, OnlyIssued,
         WordsAreCurrent, AcknowledgedIsKnown
    <2>2. TaskType'
      BY <1>15 DEF Execute, TaskType, Places, TaskIsCurrent
    <2>3. ModelType'
      BY <1>15 DEF Execute, ModelType, Disturb, TaskIsCurrent
    <2>4. RowsAreTrue'
      BY <1>15, ExecuteRows
    <2>5. TaskIsCurrent'
      BY <1>15 DEF Execute, TaskIsCurrent, ServerType, StoreType, TaskType,
         ModelType
    <2>6. OutboxIsOpen'
      BY <1>15 DEF Execute, OutboxIsOpen
    <2> QED
      BY <2>1, <2>2, <2>3, <2>4, <2>5, <2>6
  <1>16. CASE RecordOutcome
    <2>1. (ServerType /\ ModelType)'
      BY <1>16 DEF RecordOutcome, ServerType, ModelType
    <2>2. StoreType'
      BY <1>16 DEF RecordOutcome, StoreType, Row, TaskIsCurrent
    <2>3. TaskType'
      BY <1>16 DEF RecordOutcome, TaskType, Places
    <2>4. OnlyIssued'
      BY <1>16 DEF RecordOutcome, OnlyIssued, ServerType, StoreType, TaskType,
         Row, TaskIsCurrent
    <2>5. RowsAreTrue'
      BY <1>16, RecordRows
    <2>6. WordsAreCurrent'
      BY <1>16, RecordWords
    <2>7. TaskIsCurrent'
      BY <1>16 DEF RecordOutcome, TaskIsCurrent, ServerType, StoreType,
         TaskType, Row
    <2>8. OutboxIsOpen'
      BY <1>16 DEF RecordOutcome, OutboxIsOpen
    <2>9. AcknowledgedIsKnown'
      BY <1>16 DEF RecordOutcome, AcknowledgedIsKnown, ServerType, StoreType,
         TaskType, Row, TaskIsCurrent
    <2> QED
      BY <2>1, <2>2, <2>3, <2>4, <2>5, <2>6, <2>7, <2>8, <2>9
  <1>17. CASE OutcomeNotRecorded
    <2>1. (ServerType /\ StoreType /\ OnlyIssued /\ RowsAreTrue
       /\ WordsAreCurrent /\ AcknowledgedIsKnown)'
      BY <1>17 DEF OutcomeNotRecorded, ServerType, StoreType, OnlyIssued,
         RowsAreTrue, WordsAreCurrent, AcknowledgedIsKnown
    <2>2. TaskType'
      BY <1>17 DEF OutcomeNotRecorded, TaskType, Places, Continue
    <2>3. ModelType'
      BY <1>17 DEF OutcomeNotRecorded, ModelType, Disturb
    <2>4. TaskIsCurrent'
      BY <1>17 DEF OutcomeNotRecorded, TaskIsCurrent, Continue
    <2>5. OutboxIsOpen'
      BY <1>17 DEF OutcomeNotRecorded, OutboxIsOpen, Continue
    <2> QED
      BY <2>1, <2>2, <2>3, <2>4, <2>5
  <1>18. CASE SendAck
    <2>1. (StoreType /\ ModelType /\ RowsAreTrue /\ AcknowledgedIsKnown)'
      BY <1>18 DEF SendAck, StoreType, ModelType, RowsAreTrue,
         AcknowledgedIsKnown
    <2>2. ServerType'
      BY <1>18 DEF SendAck, ServerType, Ack, TaskIsCurrent
    <2>3. TaskType'
      BY <1>18 DEF SendAck, TaskType, Places
    <2>4. OnlyIssued'
      BY <1>18 DEF SendAck, OnlyIssued, TaskIsCurrent
    <2>5. WordsAreCurrent'
      BY <1>18 DEF SendAck, WordsAreCurrent, TaskIsCurrent
    <2>6. TaskIsCurrent'
      BY <1>18 DEF SendAck, TaskIsCurrent
    <2>7. OutboxIsOpen'
      BY <1>18 DEF SendAck, OutboxIsOpen
    <2> QED
      BY <2>1, <2>2, <2>3, <2>4, <2>5, <2>6, <2>7
  <1>19. CASE MarkAcknowledged
    <2>1. (ServerType /\ ModelType)'
      BY <1>19 DEF MarkAcknowledged, ServerType, ModelType
    <2>2. StoreType'
      BY <1>19 DEF MarkAcknowledged, StoreType, Row, TaskIsCurrent
    <2>3. TaskType'
      BY <1>19 DEF MarkAcknowledged, TaskType, Places, Continue
    <2>4. OnlyIssued'
      BY <1>19 DEF MarkAcknowledged, OnlyIssued, ServerType, StoreType,
         TaskType, Row, TaskIsCurrent
    <2>5. RowsAreTrue'
      BY <1>19, MarkRows
    <2>6. WordsAreCurrent'
      BY <1>19 DEF MarkAcknowledged, WordsAreCurrent, ServerType, StoreType,
         TaskType, Row, Ack, TaskIsCurrent
    <2>7. TaskIsCurrent'
      BY <1>19 DEF MarkAcknowledged, TaskIsCurrent, Continue
    <2>8. OutboxIsOpen'
      BY <1>19 DEF MarkAcknowledged, OutboxIsOpen, ServerType, StoreType,
         TaskType, Row, Continue, TaskIsCurrent
    <2>9. AcknowledgedIsKnown'
      BY <1>19 DEF MarkAcknowledged, AcknowledgedIsKnown, ServerType,
         StoreType, TaskType, Row, TaskIsCurrent
    <2> QED
      BY <2>1, <2>2, <2>3, <2>4, <2>5, <2>6, <2>7, <2>8, <2>9
  <1>20. CASE UserSignsOut
    <2>1. (ServerType /\ StoreType /\ OnlyIssued /\ RowsAreTrue
       /\ WordsAreCurrent /\ TaskIsCurrent /\ OutboxIsOpen
       /\ AcknowledgedIsKnown)'
      BY <1>20 DEF UserSignsOut, ServerType, StoreType, OnlyIssued,
         RowsAreTrue, WordsAreCurrent, TaskIsCurrent, OutboxIsOpen,
         AcknowledgedIsKnown
    <2>2. TaskType'
      BY <1>20 DEF UserSignsOut, TaskType
    <2>3. ModelType'
      BY <1>20 DEF UserSignsOut, ModelType, Disturb
    <2> QED
      BY <2>1, <2>2, <2>3
  <1>21. CASE PollFails
    <2>1. (ServerType /\ OnlyIssued /\ RowsAreTrue /\ WordsAreCurrent
       /\ AcknowledgedIsKnown)'
      BY <1>21 DEF PollFails, ServerType, OnlyIssued, RowsAreTrue,
         WordsAreCurrent, AcknowledgedIsKnown
    <2>2. StoreType'
      BY <1>21 DEF PollFails, StoreType
    <2>3. TaskType'
      BY <1>21 DEF PollFails, TaskType, Places
    <2>4. ModelType'
      BY <1>21 DEF PollFails, ModelType, Disturb
    <2>5. TaskIsCurrent'
      BY <1>21 DEF PollFails, TaskIsCurrent
    <2>6. OutboxIsOpen'
      BY <1>21 DEF PollFails, OutboxIsOpen
    <2> QED
      BY <2>1, <2>2, <2>3, <2>4, <2>5, <2>6
  <1>22. CASE AckWaits
    <2>1. (ServerType /\ StoreType /\ OnlyIssued /\ RowsAreTrue
       /\ WordsAreCurrent /\ AcknowledgedIsKnown)'
      BY <1>22 DEF AckWaits, ServerType, StoreType, OnlyIssued, RowsAreTrue,
         WordsAreCurrent, AcknowledgedIsKnown
    <2>2. TaskType'
      BY <1>22 DEF AckWaits, TaskType, Places, Continue
    <2>3. ModelType'
      BY <1>22 DEF AckWaits, ModelType, Disturb
    <2>4. TaskIsCurrent'
      BY <1>22 DEF AckWaits, TaskIsCurrent, Continue
    <2>5. OutboxIsOpen'
      BY <1>22 DEF AckWaits, OutboxIsOpen, Continue
    <2> QED
      BY <2>1, <2>2, <2>3, <2>4, <2>5
  <1>23. CASE AckFails
    <2>1. (StoreType /\ RowsAreTrue /\ AcknowledgedIsKnown)'
      BY <1>23 DEF AckFails, StoreType, RowsAreTrue, AcknowledgedIsKnown
    <2>2. ServerType'
      BY <1>23 DEF AckFails, ServerType
    <2>3. TaskType'
      BY <1>23 DEF AckFails, TaskType, Places, Continue
    <2>4. ModelType'
      BY <1>23 DEF AckFails, ModelType, Disturb
    <2>5. OnlyIssued'
      BY <1>23 DEF AckFails, OnlyIssued
    <2>6. WordsAreCurrent'
      BY <1>23 DEF AckFails, WordsAreCurrent
    <2>7. TaskIsCurrent'
      BY <1>23 DEF AckFails, TaskIsCurrent, Continue
    <2>8. OutboxIsOpen'
      BY <1>23 DEF AckFails, OutboxIsOpen, Continue
    <2> QED
      BY <2>1, <2>2, <2>3, <2>4, <2>5, <2>6, <2>7, <2>8
  <1>24. CASE Restart
    <2>1. (ServerType /\ StoreType /\ RowsAreTrue /\ WordsAreCurrent
       /\ AcknowledgedIsKnown)'
      BY <1>24 DEF Restart, ServerType, StoreType, RowsAreTrue,
         WordsAreCurrent, AcknowledgedIsKnown
    <2>2. TaskType'
      BY <1>24 DEF Restart, TaskType, Places
    <2>3. ModelType'
      BY <1>24 DEF Restart, ModelType, Disturb
    <2>4. OnlyIssued'
      BY <1>24 DEF Restart, OnlyIssued
    <2>5. TaskIsCurrent'
      BY <1>24 DEF Restart, TaskIsCurrent
    <2>6. OutboxIsOpen'
      BY <1>24 DEF Restart, OutboxIsOpen
    <2> QED
      BY <2>1, <2>2, <2>3, <2>4, <2>5, <2>6
  <1>25. CASE UNCHANGED vars
    BY <1>25 DEF vars, ServerType, StoreType, TaskType, ModelType, OnlyIssued,
       RowsAreTrue, WordsAreCurrent, TaskIsCurrent, OutboxIsOpen,
       AcknowledgedIsKnown
  <1> QED
    BY <1>1, <1>2, <1>3, <1>4, <1>5, <1>6, <1>7, <1>8, <1>9, <1>10, <1>11,
       <1>12, <1>13, <1>14, <1>15, <1>16, <1>17, <1>18, <1>19, <1>20, <1>21,
       <1>22, <1>23, <1>24, <1>25 DEF Next, ChannelRuns, Item

\* Every state the channel reaches, through rounds and crashes alike.
LEMMA Inductive == Spec => []ChannelInv
  BY InitInv, NextInv, PTL DEF Spec

-----------------------------------------------------------------------------
\* Every variable keeps its type: the channel, the table and the server
\* never hold a value the code cannot hold.
THEOREM TypeCorrect == Spec => []TypeOK
  BY Inductive, PTL DEF ChannelInv

\* A row marked acknowledged is known to the server under the same outcome.
THEOREM Acknowledged == Spec => []AcknowledgedIsKnown
  BY Inductive, PTL DEF ChannelInv

\* The server's verdict is what happened: applied commands ran, rejected ones
\* never did.
THEOREM Honest == Spec => []HonestVerdict
  <1>1. ChannelInv => HonestVerdict
    BY DEF ChannelInv, TypeOK, ModelType, WordsAreCurrent, RowsAreTrue, HonestVerdict
  <1> QED
    BY <1>1, Inductive, PTL

\* Only the command in work runs or gets a new outcome, and its row is open.
LEMMA FinalStands ==
  ASSUME ChannelInv, [Next]_vars, NEW c \in Commands, table[c].outcome \in Final
  PROVE  runs'[c] = runs[c] /\ table'[c].outcome = table[c].outcome
  <1> USE DEF serverVars, storeVars, taskVars
  <1>1. table \in [Commands -> Row] /\ runs \in [Commands -> Nat]
    BY DEF ChannelInv, TypeOK, StoreType, ModelType
  <1>2. CASE Execute
    <2>1. current # c /\ current \in Commands
      BY <1>2 DEF Execute, ChannelInv, TaskIsCurrent
    <2> QED
      BY <1>1, <1>2, <2>1 DEF Execute
  <1>3. CASE RecordOutcome
    <2>1. current # c /\ current \in Commands
      BY <1>3 DEF RecordOutcome, ChannelInv, TaskIsCurrent, RowsAreTrue, Absent
    <2> QED
      BY <1>1, <1>3, <2>1 DEF RecordOutcome, Row
  <1>4. CASE MarkAcknowledged
    <2>1. current \in Commands
      BY <1>4 DEF MarkAcknowledged, ChannelInv, TaskIsCurrent
    <2> QED
      BY <1>1, <1>4, <2>1 DEF MarkAcknowledged, Row
  <1>5. ASSUME NEW d \in Commands, AcceptToRun(d)
        PROVE  runs'[c] = runs[c] /\ table'[c].outcome = table[c].outcome
    BY <1>1, <1>5 DEF AcceptToRun, Row
  <1>6. UNCHANGED <<table, runs>> => runs'[c] = runs[c] /\ table'[c].outcome = table[c].outcome
    OBVIOUS
  <1>7. ASSUME NEW d \in Commands, AcceptDone(d) \/ AcceptFails(d) \/ RejectUnreadable(d)
        PROVE  UNCHANGED <<table, runs>>
    BY <1>7 DEF AcceptDone, AcceptFails, RejectUnreadable
  <1>8. ASSUME NEW m \in acks, ServerTakesAck(m)
        PROVE  UNCHANGED <<table, runs>>
    BY <1>8 DEF ServerTakesAck
  <1>9. CASE Issue \/ FetchDeviceToken \/ BeginRound \/ TakeFromOutbox \/ OutboxEmpty
             \/ Poll \/ PageDone \/ Refuse \/ HoldBack \/ OutcomeNotRecorded \/ SendAck
    BY <1>6, <1>9 DEF Issue, FetchDeviceToken, BeginRound, TakeFromOutbox, OutboxEmpty,
       Poll, PageDone, Refuse, HoldBack, OutcomeNotRecorded, SendAck
  <1>10. CASE UserSignsOut \/ PollFails \/ AckWaits \/ AckFails \/ Restart \/ UNCHANGED vars
    BY <1>6, <1>10 DEF UserSignsOut, PollFails, AckWaits, AckFails, Restart, vars
  <1> QED
    BY <1>2, <1>3, <1>4, <1>5, <1>6, <1>7, <1>8, <1>9, <1>10
       DEF Next, ChannelRuns, Item

\* Effective once: a final outcome is never changed, and the command behind
\* it never runs again.
THEOREM Effective == Spec => EffectiveOnce
  <1>1. ChannelInv /\ [Next]_vars =>
          [\A c \in Commands : table[c].outcome \in Final =>
               /\ runs'[c] = runs[c]
               /\ table'[c].outcome = table[c].outcome]_vars
    BY FinalStands
  <1> QED
    BY <1>1, Inductive, PTL DEF Spec, EffectiveOnce

-----------------------------------------------------------------------------
(* The channel implements CommandContract.                                  *)

\* A step that changes none of the four contract variables is a stutter.
LEMMA Stutter ==
  UNCHANGED <<issued, table, runs, verdict>> => UNCHANGED Contract!vars
  BY DEF Contract!vars

\* A row that changes its outcome changes exactly its settled word.
LEMMA SettledOfRow ==
  ASSUME table \in [Commands -> Row], NEW c \in Commands, NEW o \in Outcomes \cup {"none"},
         NEW r \in Row, r.outcome = o, table' = [table EXCEPT ![c] = r]
  PROVE  [d \in Commands |-> IF table'[d].outcome = "absent" THEN "none"
                             ELSE table'[d].outcome]
         = [[d \in Commands |-> IF table[d].outcome = "absent" THEN "none"
                                ELSE table[d].outcome] EXCEPT ![c] = o]
  BY DEF Row

\* What a step of a round is to the server: a step of the contract, or none.
LEMMA ContractStep == ChannelInv /\ [Next]_vars => [Contract!Next]_(Contract!vars)
  <1> SUFFICES ASSUME ChannelInv, [Next]_vars
               PROVE  [Contract!Next]_(Contract!vars)
    OBVIOUS
  <1> USE DEF serverVars, storeVars, taskVars
  <1> DEFINE settled == [d \in Commands |-> IF table[d].outcome = "absent" THEN "none"
                                            ELSE table[d].outcome]
  <1>1. /\ table \in [Commands -> Row] /\ runs \in [Commands -> Nat]
        /\ verdict \in [Commands -> Outcomes \cup {"none"}] /\ acks \subseteq Ack
    BY DEF ChannelInv, TypeOK, StoreType, ModelType, ServerType
  <1>2. Contract!Commands = Commands
    BY DEF Contract!Commands, Commands
  <1>3. CASE Issue
    BY <1>3 DEF Issue, Contract!Issue, Contract!Next
  <1>4. ASSUME NEW m \in acks, ServerTakesAck(m)
        PROVE  [Contract!Next]_(Contract!vars)
    <2>1. CASE verdict[m.command] \in Final
      BY <1>4, <2>1, Stutter DEF ServerTakesAck
    <2>2. CASE verdict[m.command] \notin Final
      <3>1. Contract!Report(m.command, m.outcome)
        BY <1>1, <1>4, <2>2 DEF ServerTakesAck, Contract!Report, Contract!Final,
           Contract!Outcomes, ChannelInv, OnlyIssued, WordsAreCurrent, Ack
      <3> QED
        BY <1>1, <1>2, <3>1 DEF Contract!Next, Contract!Outcomes, Ack
    <2> QED
      BY <2>1, <2>2
  <1>5. CASE Execute
    <2>1. current \in Commands /\ table[current].outcome = "none" /\ current <= issued
      BY <1>5 DEF Execute, ChannelInv, TaskIsCurrent, OnlyIssued
    <2>2. Class[current] \in {"order", "signOut"}
      BY <1>5, <2>1, DeliveryAssumption DEF Execute, ChannelInv, TaskIsCurrent, Classes
    <2>3. CASE UNCHANGED runs
      BY <1>5, <2>3, Stutter DEF Execute
    <2>4. CASE runs' = [runs EXCEPT ![current] = @ + 1]
      <3>1. Contract!Run(current)
        BY <1>5, <2>1, <2>2, <2>4 DEF Execute, Contract!Run
      <3> QED
        BY <1>2, <2>1, <3>1 DEF Contract!Next
    <2> QED
      BY <1>5, <2>3, <2>4 DEF Execute
  <1>6. CASE RecordOutcome
    <2>1. /\ current \in Commands /\ result \in Outcomes
          /\ Class[current] # "unreadable"
          /\ table[current].outcome = "none" /\ current <= issued
          /\ result \in {"APPLIED", "NOT_APPLICABLE"} => runs[current] > 0
          /\ result = "REJECTED" => Class[current] = "forged"
      BY <1>6 DEF RecordOutcome, ChannelInv, TaskIsCurrent, OnlyIssued, RowsAreTrue, Absent
    <2>2. [table[current] EXCEPT !.outcome = result] \in Row
      BY <1>1, <2>1 DEF Row
    <2>3. table' = [table EXCEPT ![current] = [table[current] EXCEPT !.outcome = result]]
      BY <1>1, <1>6 DEF RecordOutcome
    <2>4. settled' = [settled EXCEPT ![current] = result]
      BY <1>1, <2>1, <2>2, <2>3, SettledOfRow DEF Row
    <2>5. PICK c \in Commands, o \in Outcomes : c = current /\ o = result
      BY <2>1
    <2>6. Contract!Settle(c, o)
      BY <1>6, <2>1, <2>4, <2>5 DEF RecordOutcome, Contract!Settle
    <2> QED
      BY <1>2, <2>6 DEF Contract!Next, Contract!Outcomes
  <1>7. CASE MarkAcknowledged
    <2>1. current \in Commands
      BY <1>7 DEF MarkAcknowledged, ChannelInv, TaskIsCurrent
    <2>2. \A d \in Commands : table'[d].outcome = table[d].outcome
      BY <1>1, <1>7, <2>1 DEF MarkAcknowledged, Row
    <2> QED
      BY <1>7, <2>2 DEF MarkAcknowledged, Contract!vars
  <1>8. ASSUME NEW c \in Commands, AcceptToRun(c)
        PROVE  [Contract!Next]_(Contract!vars)
    <2>1. settled' = [settled EXCEPT ![c] = "none"]
      BY <1>1, <1>8, SettledOfRow DEF AcceptToRun, Row
    <2>2. CASE table[c].outcome = "FAILED"
      <3>1. Contract!Retry(c)
        BY <1>8, <2>1, <2>2 DEF AcceptToRun, Contract!Retry
      <3> QED
        BY <1>2, <3>1 DEF Contract!Next
    <2>3. CASE table[c].outcome \in {"absent", "none"}
      <3>1. settled' = settled
        BY <2>1, <2>3
      <3> QED
        BY <1>8, <3>1 DEF AcceptToRun, Contract!vars
    <2> QED
      BY <1>8, <2>2, <2>3 DEF AcceptToRun
  <1>9. ASSUME NEW c \in Commands, AcceptDone(c) \/ AcceptFails(c) \/ RejectUnreadable(c)
        PROVE  UNCHANGED Contract!vars
    BY <1>9, Stutter DEF AcceptDone, AcceptFails, RejectUnreadable
  <1>10. CASE FetchDeviceToken \/ BeginRound \/ TakeFromOutbox \/ OutboxEmpty \/ Poll
              \/ PageDone \/ Refuse \/ HoldBack \/ OutcomeNotRecorded \/ SendAck
    BY <1>10, Stutter DEF FetchDeviceToken, BeginRound, TakeFromOutbox, OutboxEmpty, Poll,
       PageDone, Refuse, HoldBack, OutcomeNotRecorded, SendAck
  <1>11. CASE UserSignsOut \/ PollFails \/ AckWaits \/ AckFails \/ Restart \/ UNCHANGED vars
    BY <1>11, Stutter DEF UserSignsOut, PollFails, AckWaits, AckFails, Restart, vars
  <1> QED
    BY <1>3, <1>4, <1>5, <1>6, <1>7, <1>8, <1>9, <1>10, <1>11 DEF Next, ChannelRuns, Item

\* Delivered at least once, effective once: the channel with its restarts, lost
\* answers and late acknowledgements implements CommandContract.
THEOREM Refinement == Spec => KeepsContract
  <1>1. Init => Contract!Init
    BY DEF Init, Contract!Init, Contract!Commands, Commands, Absent
  <1> QED
    BY <1>1, ContractStep, Inductive, PTL DEF Spec, KeepsContract, Contract!Spec
-----------------------------------------------------------------------------
(* The rate limit of the channel. *)

\* What a place says of the time it was taken.
PlacesTrue ==
    \A c \in taken :
        /\ c.back <= back
        /\ c.real <= elapsed
        /\ ahead = 0 => c.wall = c.real - c.back

\* Only what is older than the window has left it.
LeftIsOld ==
    (ahead = 0 /\ back < Window) =>
        \A c \in taken \ applied : elapsed - c.real >= Window

RateInv == RateTypeOK /\ PlacesTrue /\ LeftIsOld

\* RateLimit::new: nothing was taken yet.
LEMMA InitRateInv == RateInit => RateInv
<1>1. {} \subseteq PlacesInWindow /\ IsFiniteSet({}) /\ Cardinality({}) = 0
  BY FS_EmptySet
<1>. QED
  BY <1>1, RateAssumption DEF RateInit, RateInv, RateTypeOK, PlacesTrue, LeftIsOld

\* What falls out of the window around now is old (RateLimit::take, retain).
LEMMA RetainLeavesOld ==
  ASSUME RateInv, ahead = 0, back < Window,
         NEW c \in taken, c \notin Retain(applied, Clock)
  PROVE  elapsed - c.real >= Window
<1>1. CASE c \notin applied
  BY <1>1 DEF RateInv, LeftIsOld
<1>2. CASE c \in applied
  <2>1. /\ c.back \in Nat /\ c.real \in Nat /\ c.wall \in Int
        /\ c.back <= back /\ c.real <= elapsed /\ c.wall = c.real - c.back
    BY DEF RateInv, RateTypeOK, PlacesInWindow, PlacesTrue
  <2>2. ~(Clock - c.wall < Window /\ c.wall - Clock < Window)
    BY <1>2 DEF Retain
  <2>. QED
    BY <2>1, <2>2, RateAssumption DEF Clock, RateInv, RateTypeOK
<1>. QED
  BY <1>1, <1>2

\* One command asks for a place (RateLimit::take).
LEMMA TakeKeepsRateInv == RateInv /\ Take => RateInv'
<1>. SUFFICES ASSUME RateInv, Take PROVE RateInv'
  OBVIOUS
<1>. DEFINE left == Retain(applied, Clock)
<1>1. left \subseteq applied
  BY DEF Retain
<1>2. IsFiniteSet(applied) /\ IsFiniteSet(left) /\ Cardinality(left) <= Cardinality(applied)
  BY <1>1, FS_Subset DEF RateInv, RateTypeOK
<1>3. Cardinality(left) \in Nat /\ Cardinality(applied) \in Nat /\ Cardinality(taken) \in Nat
  BY <1>2, FS_CardinalityType DEF RateInv, RateTypeOK
<1>4. Place \in PlacesInWindow
  BY <1>3 DEF Place, PlacesInWindow, Clock, RateInv, RateTypeOK
<1>5. elapsed' = elapsed /\ back' = back /\ ahead' = ahead
  BY DEF Take
<1>6. CASE Free(left)
  <2>1. applied' = left \cup {Place} /\ taken' = taken \cup {Place}
    BY <1>6 DEF Take
  <2>2. IsFiniteSet(taken')
    BY <2>1, FS_AddElement DEF RateInv, RateTypeOK
  <2>3. Cardinality(applied') <= Limit
    <3>1. Cardinality(left \cup {Place}) \in {Cardinality(left), Cardinality(left) + 1}
      BY <1>2, <1>3, FS_AddElement
    <3>. QED
      BY <1>3, <1>6, <2>1, <3>1, RateAssumption DEF Free
  <2>4. RateTypeOK'
    BY <1>1, <1>4, <1>5, <2>1, <2>2, <2>3 DEF RateInv, RateTypeOK
  <2>5. PlacesTrue'
    <3>1. Place.back <= back /\ Place.real <= elapsed
      BY DEF Place, RateInv, RateTypeOK
    <3>2. ahead = 0 => Place.wall = Place.real - Place.back
      BY DEF Place, Clock, RateInv, RateTypeOK
    <3>. QED
      BY <1>5, <2>1, <3>1, <3>2 DEF RateInv, PlacesTrue
  <2>6. LeftIsOld'
    BY <1>5, <2>1, RetainLeavesOld DEF LeftIsOld
  <2>. QED
    BY <2>4, <2>5, <2>6 DEF RateInv
<1>7. CASE ~Free(left)
  <2>1. applied' = left /\ taken' = taken
    BY <1>7 DEF Take
  <2>2. RateTypeOK'
    BY <1>1, <1>2, <1>3, <1>5, <2>1, RateAssumption DEF RateInv, RateTypeOK
  <2>3. PlacesTrue'
    BY <1>5, <2>1 DEF RateInv, PlacesTrue
  <2>4. LeftIsOld'
    BY <1>5, <2>1, RetainLeavesOld DEF LeftIsOld
  <2>. QED
    BY <2>2, <2>3, <2>4 DEF RateInv
<1>. QED
  BY <1>6, <1>7

\* Every step keeps it: time only makes what has left the window older.
LEMMA StepKeepsRateInv == RateInv /\ [RateNext]_rateVars => RateInv'
<1>. SUFFICES ASSUME RateInv, [RateNext]_rateVars PROVE RateInv'
  OBVIOUS
<1>. USE RateAssumption DEF RateInv, RateTypeOK, PlacesTrue, LeftIsOld, PlacesInWindow
<1>1. CASE Take
  BY <1>1, TakeKeepsRateInv
<1>2. CASE TimePasses
  BY <1>2 DEF TimePasses
<1>3. CASE SetBack
  BY <1>3 DEF SetBack
<1>4. CASE SetAhead
  BY <1>4 DEF SetAhead
<1>5. CASE UNCHANGED rateVars
  BY <1>5 DEF rateVars
<1>. QED
  BY <1>1, <1>2, <1>3, <1>4, <1>5 DEF RateNext

\* What is recent is still in the window, and the window is never overfull.
LEMMA RateInvSuffices == RateInv => RateTypeOK /\ LimitHolds
<1>. SUFFICES ASSUME RateInv, ahead = 0, back < Window PROVE Cardinality(Recent) <= Limit
  BY DEF RateInv, LimitHolds
<1>1. Recent \subseteq applied
  <2>1. SUFFICES ASSUME NEW c \in Recent, c \notin applied PROVE FALSE
    OBVIOUS
  <2>2. c \in taken /\ c.real \in Nat /\ elapsed - c.real < Window
    BY DEF Recent, RateInv, RateTypeOK, PlacesInWindow
  <2>. QED
    BY <2>1, <2>2, RateAssumption DEF RateInv, RateTypeOK, LeftIsOld
<1>2. IsFiniteSet(applied)
  BY FS_Subset DEF RateInv, RateTypeOK
<1>3. Cardinality(Recent) <= Cardinality(applied) /\ IsFiniteSet(Recent)
  BY <1>1, <1>2, FS_Subset
<1>4. Cardinality(Recent) \in Nat /\ Cardinality(applied) \in Nat
  BY <1>2, <1>3, FS_CardinalityType
<1>. QED
  BY <1>3, <1>4, RateAssumption DEF RateInv, RateTypeOK

\* The window never holds more than Limit places, whatever the clock does
\* (RateLimit::take).
THEOREM RateTypeCorrect == RateSpec => []RateTypeOK
<1>1. RateSpec => []RateInv
  BY InitRateInv, StepKeepsRateInv, PTL DEF RateSpec
<1>. QED
  BY <1>1, RateInvSuffices, PTL

\* As long as the clock is set back by less than the window in all, no window
\* of real time sees more than Limit commands (RateLimit::take).
THEOREM RateLimitHolds == RateSpec => []LimitHolds
<1>1. RateSpec => []RateInv
  BY InitRateInv, StepKeepsRateInv, PTL DEF RateSpec
<1>. QED
  BY <1>1, RateInvSuffices, PTL

-----------------------------------------------------------------------------
(* KeySet: what lies in the key set of a device, for any anchors and keys, *)
(* any life of a key, and any number of publications and faults.           *)

SetUpTo(n) == [state : AnchorState, version : 0 .. n, anchors : SUBSET AnchorEntry,
               keys : SUBSET KeyEntry, revoke : SUBSET Revocation]

\* Rooted and StateTrue, of any set.
HasRoots(s) ==
  \A e \in s.anchors \cup s.keys \cup s.revoke : e.by \in Kids(s.anchors) \cup {Nobody}
ShowsItself(s) ==
  /\ s.state = "none" <=> s.anchors = {}
  /\ s.state = "revoked" <=> s.anchors # {} /\ NoneApplies(s)

\* An offer has anchors, and one that is counter-signed comes with its signer.
Grounded(o) ==
  /\ o.anchors # {}
  /\ \A e \in o.anchors : e.by \in Kids(o.anchors) \cup {Nobody}
OffersGrounded == \A v \in 1 .. Version : Grounded(offers[v])

\* Only an approved device is given a token.
TokenApproved == step = "token" => approved

TrustInv == KeySetTypeOK /\ Rooted /\ StateTrue /\ OffersGrounded /\ TokenApproved

-----------------------------------------------------------------------------
(* The operators of the set *)

\* merge takes nothing away and puts nothing beside an entry of the same kid.
LEMMA MergeKeeps ==
  ASSUME NEW stored, NEW new
  PROVE  /\ stored \subseteq Merge(stored, new)
         /\ Merge(stored, new) \subseteq stored \cup new
         /\ Kids(stored) \subseteq Kids(Merge(stored, new))
         /\ \A e \in Merge(stored, new) : e.kid \in Kids(stored) => e \in stored
BY DEF Merge, Kids

\* What check_statement lets through was offered, and a stored anchor signed it.
LEMMA AcceptedVouched ==
  ASSUME NEW stored, NEW offered, NEW anchors, NEW revoke,
         NEW e \in Accepted(stored, offered, anchors, revoke)
  PROVE  /\ e \in offered
         /\ e.by \in Kids(anchors) /\ ~RevokedIn(revoke, e.by)
BY DEF Accepted, Vouches

\* What is revoked on suspicion stays revoked when revocations are added.
LEMMA RevokedStays ==
  ASSUME NEW revoke, NEW more, revoke \subseteq more, NEW kid, RevokedIn(revoke, kid)
  PROVE  RevokedIn(more, kid)
BY DEF RevokedIn

\* with_revocation_state leaves everything but the state.
LEMMA RevocationState ==
  ASSUME NEW n, NEW s \in SetUpTo(n)
  PROVE  LET r == with_revocation_state(s) IN
         /\ r \in SetUpTo(n)
         /\ r.anchors = s.anchors /\ r.keys = s.keys /\ r.revoke = s.revoke
         /\ r.version = s.version
         /\ r.state = IF s.anchors # {} /\ NoneApplies(s) THEN "revoked" ELSE s.state
BY DEF with_revocation_state, SetUpTo, AnchorState

\* Whether an anchor counts depends on the anchors and revocations alone.
LEMMA NoneAppliesSame ==
  ASSUME NEW s, NEW r, r.anchors = s.anchors, r.revoke = s.revoke
  PROVE  NoneApplies(r) <=> NoneApplies(s)
BY DEF NoneApplies, anchor_applies

\* anchor(): of the answer that anchors the set, and of the same anchors again.
LEMMA AnchoredTrue ==
  ASSUME NEW n \in Nat, NEW s \in SetUpTo(n), NEW o \in KeyOffer, NEW version \in 0 .. n,
         HasRoots(s), ShowsItself(s), Grounded(o), Anchorable(s, o)
  PROVE  LET r == Anchored(s, o, version) IN
         /\ r \in SetUpTo(n) /\ HasRoots(r) /\ ShowsItself(r)
         /\ r.state = "confirmed" => s.state = "confirmed"
         /\ s.keys \subseteq r.keys /\ s.revoke \subseteq r.revoke
         /\ s.anchors # {} => r.anchors = s.anchors
         /\ \A e \in r.keys : e.kid \in Kids(s.keys) => e \in s.keys
<1> DEFINE anchors == IF s.anchors = {} THEN o.anchors ELSE s.anchors
           keys == Merge(s.keys, Accepted(s.keys, o.keys, o.anchors, {}))
           revoke == Merge(s.revoke, Accepted(s.revoke, o.revoke, o.anchors, {}))
           p == [state |-> IF s.anchors = {} THEN "pending_confirmation" ELSE s.state,
                 version |-> Larger(s.version, version), anchors |-> anchors,
                 keys |-> keys, revoke |-> revoke]
           r == with_revocation_state(p)
<1>1. r = Anchored(s, o, version)
  BY DEF Anchored
<1>2. /\ s.keys \subseteq keys /\ keys \subseteq s.keys \cup o.keys
      /\ s.revoke \subseteq revoke /\ revoke \subseteq s.revoke \cup o.revoke
      /\ \A e \in keys : e.kid \in Kids(s.keys) => e \in s.keys
  BY MergeKeeps, AcceptedVouched
<1>3. p \in SetUpTo(n)
  BY <1>2 DEF SetUpTo, KeyOffer, AnchorState, Larger
<1>4. /\ r \in SetUpTo(n) /\ r.anchors = anchors /\ r.keys = keys /\ r.revoke = revoke
      /\ r.state = IF anchors # {} /\ NoneApplies(p) THEN "revoked" ELSE p.state
  BY <1>3, RevocationState
<1>5. anchors # {} /\ Kids(anchors) = Kids(o.anchors)
  BY DEF Grounded, Anchorable
<1>6. HasRoots(r)
  <2> SUFFICES ASSUME NEW e \in anchors \cup keys \cup revoke
               PROVE  e.by \in Kids(anchors) \cup {Nobody}
    BY <1>4 DEF HasRoots
  <2>1. CASE e \in anchors
    BY <2>1 DEF HasRoots, Grounded
  <2>2. CASE e \in s.keys \cup s.revoke
    BY <2>2 DEF HasRoots, Kids
  <2>3. CASE e \in Accepted(s.keys, o.keys, o.anchors, {})
                 \cup Accepted(s.revoke, o.revoke, o.anchors, {})
    BY <2>3, <1>5, AcceptedVouched
  <2>. QED
    BY <2>1, <2>2, <2>3, MergeKeeps
<1>7. s.anchors # {} /\ NoneApplies(s) => NoneApplies(p)
  BY <1>2, RevokedStays DEF NoneApplies, anchor_applies
<1>8. NoneApplies(r) <=> NoneApplies(p)
  BY <1>4, NoneAppliesSame
<1>9. ShowsItself(r) /\ (r.state = "confirmed" => s.state = "confirmed")
  BY <1>4, <1>5, <1>7, <1>8 DEF ShowsItself
<1>. QED
  BY <1>1, <1>2, <1>4, <1>6, <1>9

\* adopt(): an answer of REFRESH_KEYS.
LEMMA AdoptedTrue ==
  ASSUME NEW n \in Nat, NEW s \in SetUpTo(n), NEW o \in KeyOffer, NEW version \in 0 .. n,
         HasRoots(s), ShowsItself(s)
  PROVE  LET r == Adopted(s, o, version) IN
         /\ r \in SetUpTo(n) /\ HasRoots(r) /\ ShowsItself(r)
         /\ r.state = "confirmed" => s.state = "confirmed"
         /\ s.anchors \subseteq r.anchors /\ s.keys \subseteq r.keys /\ s.revoke \subseteq r.revoke
         /\ \A e \in r.keys : e.kid \in Kids(s.keys) => e \in s.keys
<1> DEFINE anchors == Merge(s.anchors, Accepted(s.anchors, o.anchors, s.anchors, s.revoke))
           keys == Merge(s.keys, Accepted(s.keys, o.keys, s.anchors, s.revoke))
           revoke == Merge(s.revoke, Accepted(s.revoke, o.revoke, s.anchors, s.revoke))
           p == [s EXCEPT !.version = version, !.anchors = anchors, !.keys = keys,
                          !.revoke = revoke]
           r == with_revocation_state(p)
<1>1. r = Adopted(s, o, version)
  BY DEF Adopted
<1>2. /\ s.anchors \subseteq anchors /\ anchors \subseteq s.anchors \cup o.anchors
      /\ s.keys \subseteq keys /\ keys \subseteq s.keys \cup o.keys
      /\ s.revoke \subseteq revoke /\ revoke \subseteq s.revoke \cup o.revoke
      /\ Kids(s.anchors) \subseteq Kids(anchors)
      /\ \A e \in keys : e.kid \in Kids(s.keys) => e \in s.keys
  BY MergeKeeps, AcceptedVouched
<1>3. /\ p \in SetUpTo(n)
      /\ p.state = s.state /\ p.anchors = anchors /\ p.keys = keys /\ p.revoke = revoke
  BY <1>2 DEF SetUpTo, KeyOffer
<1>4. /\ r \in SetUpTo(n) /\ r.anchors = anchors /\ r.keys = keys /\ r.revoke = revoke
      /\ r.state = IF anchors # {} /\ NoneApplies(p) THEN "revoked" ELSE s.state
  BY <1>3, RevocationState
<1>5. HasRoots(r)
  <2> SUFFICES ASSUME NEW e \in anchors \cup keys \cup revoke
               PROVE  e.by \in Kids(anchors) \cup {Nobody}
    BY <1>4 DEF HasRoots
  <2>1. CASE e \in s.anchors \cup s.keys \cup s.revoke
    BY <2>1, <1>2 DEF HasRoots
  <2>2. CASE e \in Accepted(s.anchors, o.anchors, s.anchors, s.revoke)
                 \cup Accepted(s.keys, o.keys, s.anchors, s.revoke)
                 \cup Accepted(s.revoke, o.revoke, s.anchors, s.revoke)
    BY <2>2, <1>2, AcceptedVouched
  <2>. QED
    BY <2>1, <2>2, MergeKeeps
<1>6. NoneApplies(s) => NoneApplies(p)
  \* Of anchors that are all revoked none vouches for a new one.
  <2> SUFFICES ASSUME NoneApplies(s), NEW e \in anchors
               PROVE  RevokedIn(revoke, e.kid)
    BY <1>3 DEF NoneApplies, anchor_applies, Kids
  <2>1. e \in s.anchors
    BY MergeKeeps, AcceptedVouched DEF NoneApplies, anchor_applies
  <2>. QED
    BY <2>1, <1>2, RevokedStays DEF NoneApplies, anchor_applies, Kids
<1>7. s.anchors = {} => anchors = {}
  BY MergeKeeps, AcceptedVouched DEF Kids
<1>8. NoneApplies(r) <=> NoneApplies(p)
  BY <1>3, <1>4, NoneAppliesSame
<1>9. ShowsItself(r) /\ (r.state = "confirmed" => s.state = "confirmed")
  BY <1>2, <1>4, <1>6, <1>7, <1>8 DEF ShowsItself
<1>. QED
  BY <1>1, <1>2, <1>4, <1>5, <1>9

-----------------------------------------------------------------------------
USE DEF keySetVars, publisherVars, signInVars

\* In the state the server begins with nothing is stored.
LEMMA InitTrust == KeySetInit => TrustInv
<1> SUFFICES ASSUME KeySetInit PROVE TrustInv
  OBVIOUS
<1>1. PICK a \in First :
        offers = << [anchors |-> {[kid |-> b, by |-> Nobody] : b \in First},
                     keys |-> {[kid |-> FirstKey, by |-> a, from |-> 1]},
                     revoke |-> {}] >>
  BY DEF KeySetInit
<1> DEFINE anchors == {[kid |-> b, by |-> Nobody] : b \in First}
<1>2. offers[1] \in KeyOffer /\ Len(offers) = 1 /\ Grounded(offers[1])
  <2>1. anchors \subseteq AnchorEntry /\ anchors # {}
    <3>1. \A b \in First : [kid |-> b, by |-> Nobody] \in AnchorEntry
      BY KeySetAssumption DEF AnchorEntry
    <3>2. PICK b \in First : [kid |-> b, by |-> Nobody] \in anchors
      BY KeySetAssumption
    <3>. QED
      BY <3>1, <3>2
  <2>2. [kid |-> FirstKey, by |-> a, from |-> 1] \in KeyEntry
    BY KeySetAssumption DEF KeyEntry
  <2>3. /\ Len(offers) = 1 /\ offers[1].anchors = anchors
        /\ offers[1] \in [anchors : SUBSET AnchorEntry, keys : SUBSET KeyEntry,
                           revoke : SUBSET Revocation]
    BY <1>1, <2>1, <2>2
  <2>4. \A e \in anchors : e.by = Nobody
    OBVIOUS
  <2>. QED
    BY <2>1, <2>3, <2>4 DEF KeyOffer, Grounded
<1>3. KeySetTypeOK
  <2>1. offers \in Seq(KeyOffer)
    BY <1>1, <1>2
  <2>2. Version \in 1 .. MaxVersion /\ 0 \in 0 .. Version
    BY <1>2, KeySetAssumption DEF Version
  <2>3. set \in SetUpTo(Version)
    BY <2>2 DEF KeySetInit, SetUpTo, AnchorState
  <2>4. /\ registered \in BOOLEAN /\ approved \in BOOLEAN /\ enrolled \in BOOLEAN
        /\ step \in {"idle", "answered", "anchored", "token"}
    BY DEF KeySetInit
  <2>5. answer = 0 /\ faults = 0
    BY DEF KeySetInit
  <2>. QED
    BY <2>1, <2>2, <2>3, <2>4, <2>5, KeySetAssumption DEF KeySetTypeOK, SetUpTo
<1>4. Rooted /\ StateTrue /\ TokenApproved
  BY DEF KeySetInit, Rooted, StateTrue, TokenApproved
<1>5. OffersGrounded
  BY <1>2 DEF OffersGrounded, Version
<1>. QED
  BY <1>3, <1>4, <1>5 DEF TrustInv

\* A publication adds an offer and leaves the device alone (the server).
LEMMA PublicationKeeps ==
  ASSUME TrustInv, NEW o \in KeyOffer, Grounded(o), Publishes(o)
  PROVE  TrustInv'
<1>1. /\ offers' \in Seq(KeyOffer) /\ Version' = Version + 1
      /\ \A v \in 1 .. Version : offers'[v] = offers[v]
      /\ offers'[Version + 1] = o
  BY DEF TrustInv, KeySetTypeOK, Publishes, Version
<1>2. KeySetTypeOK'
  BY <1>1, KeySetAssumption DEF TrustInv, KeySetTypeOK, Publishes, Version
<1>3. OffersGrounded'
  BY <1>1 DEF TrustInv, KeySetTypeOK, OffersGrounded, Version
<1>4. Rooted' /\ StateTrue' /\ TokenApproved'
  BY DEF TrustInv, Rooted, StateTrue, NoneApplies, anchor_applies, TokenApproved, Publishes
<1>. QED
  BY <1>2, <1>3, <1>4 DEF TrustInv

\* The newest offer is one of the published.
LEMMA NowGrounded ==
  ASSUME TrustInv
  PROVE  Now \in KeyOffer /\ Grounded(Now) /\ Version \in Nat
BY DEF TrustInv, KeySetTypeOK, OffersGrounded, Now, Version

\* A new evidence key is signed by an anchor in force.
LEMMA PublishesKeyKeeps ==
  ASSUME TrustInv, NEW k \in Keys, NEW a \in Anchors, PublishesKey(k, a)
  PROVE  TrustInv'
<1> DEFINE o == [Now EXCEPT !.keys = @ \cup {[kid |-> k, by |-> a, from |-> Version + 1]}]
<1>1. o \in KeyOffer /\ o.anchors = Now.anchors
  BY NowGrounded DEF KeyOffer, KeyEntry
<1>2. Grounded(o)
  BY <1>1, NowGrounded DEF Grounded
<1>. QED
  BY <1>1, <1>2, PublicationKeeps DEF PublishesKey

\* A new anchor, or the counter-signature of one that waits, comes beside its signer.
LEMMA PublishesAnchorKeeps ==
  ASSUME TrustInv, NEW b \in Anchors, NEW a \in Anchors \cup {Nobody}, PublishesAnchor(b, a)
  PROVE  TrustInv'
<1> DEFINE o == [Now EXCEPT !.anchors = {e \in @ : e.kid # b} \cup {[kid |-> b, by |-> a]}]
<1>1. /\ o \in KeyOffer
      /\ o.anchors = {e \in Now.anchors : e.kid # b} \cup {[kid |-> b, by |-> a]}
  BY NowGrounded DEF KeyOffer, AnchorEntry
<1>2. Kids(Now.anchors) \subseteq Kids(o.anchors)
  <2> SUFFICES ASSUME NEW e \in Now.anchors PROVE \E d \in o.anchors : d.kid = e.kid
    BY DEF Kids
  <2>1. CASE e.kid = b
    <3>1. [kid |-> b, by |-> a] \in o.anchors
      BY <1>1
    <3>. QED
      BY <2>1, <3>1
  <2>. QED
    BY <1>1, <2>1
<1>3. a \in Kids(Now.anchors) \cup {Nobody}
  BY DEF PublishesAnchor, Signing
<1>4. Grounded(o)
  <2>1. o.anchors # {}
    BY <1>1
  <2>2. \A e \in o.anchors : e.by \in Kids(Now.anchors) \cup {Nobody}
    BY <1>1, <1>3, NowGrounded DEF Grounded
  <2>. QED
    BY <2>1, <2>2, <1>2 DEF Grounded
<1>. QED
  BY <1>1, <1>4, PublicationKeeps DEF PublishesAnchor

\* A revocation changes no anchor of the offer.
LEMMA RevokesKeeps ==
  ASSUME TrustInv, NEW kid \in Anchors \cup Keys, NEW a \in Anchors,
         NEW retroactive \in BOOLEAN, NEW since \in 0 .. Version,
         Revokes(kid, a, retroactive, since)
  PROVE  TrustInv'
<1> DEFINE o == [Now EXCEPT !.revoke = {r \in @ : r.kid # kid} \cup
                  {[kid |-> kid, by |-> a, retroactive |-> retroactive, since |-> since]}]
<1>1. o \in KeyOffer /\ o.anchors = Now.anchors
  BY NowGrounded DEF KeyOffer, Revocation
<1>2. Grounded(o)
  BY <1>1, NowGrounded DEF Grounded
<1>. QED
  BY <1>1, <1>2, PublicationKeeps DEF Revokes

\* Nor do the last two anchors when they revoke each other.
LEMMA RevokesAllKeeps ==
  ASSUME TrustInv, NEW a \in Anchors, NEW b \in Anchors, RevokesAll(a, b)
  PROVE  TrustInv'
<1> DEFINE both == {[kid |-> kid, by |-> IF kid = a THEN b ELSE a, retroactive |-> TRUE,
                     since |-> 0] : kid \in {a, b}}
           o == [Now EXCEPT !.revoke = {r \in @ : r.kid \notin {a, b}} \cup both]
<1>1. both \subseteq Revocation
  <2>1. \A kid \in {a, b} : (IF kid = a THEN b ELSE a) \in Anchors
    OBVIOUS
  <2>2. \A kid \in {a, b} : [kid |-> kid, by |-> IF kid = a THEN b ELSE a,
                              retroactive |-> TRUE, since |-> 0] \in Revocation
    BY <2>1 DEF Revocation
  <2>. QED
    BY <2>2
<1>2. o \in KeyOffer /\ o.anchors = Now.anchors
  BY <1>1, NowGrounded DEF KeyOffer
<1>3. Grounded(o)
  BY <1>2, NowGrounded DEF Grounded
<1>. QED
  BY <1>2, <1>3, PublicationKeeps DEF RevokesAll

\* The steps that leave the offers and the set alone: the approval, and those of sign_in
\* that only move it on.
LEMMA StepKeeps ==
  ASSUME TrustInv,
         Approves \/ Registers \/ MarksEnrolled \/ FetchesToken \/ Stops
  PROVE  TrustInv'
<1>1. KeySetTypeOK'
  <2>1. UNCHANGED <<offers, set>> /\ faults' \in 0 .. MaxFaults
    BY KeySetAssumption DEF TrustInv, KeySetTypeOK, Approves, Registers, MarksEnrolled, FetchesToken,
       Stops, Fault
  <2>2. /\ registered' \in BOOLEAN /\ approved' \in BOOLEAN /\ enrolled' \in BOOLEAN
        /\ step' \in {"idle", "answered", "anchored", "token"}
    BY DEF TrustInv, KeySetTypeOK, Approves, Registers, MarksEnrolled, FetchesToken, Stops
  <2>3. answer' \in 0 .. Version
    BY DEF TrustInv, KeySetTypeOK, Approves, Registers, MarksEnrolled, FetchesToken, Stops
  <2>. QED
    BY <2>1, <2>2, <2>3 DEF TrustInv, KeySetTypeOK, Version
<1>2. OffersGrounded'
  BY DEF TrustInv, OffersGrounded, Version, Approves, Registers, MarksEnrolled, FetchesToken, Stops
<1>3. Rooted' /\ StateTrue' /\ TokenApproved'
  BY DEF TrustInv, Rooted, StateTrue, TokenApproved, NoneApplies, anchor_applies,
     Approves, Registers, MarksEnrolled, FetchesToken, Stops
<1>. QED
  BY <1>1, <1>2, <1>3 DEF TrustInv

\* The parts of the invariant that are about the set.
LEMMA SetParts ==
  ASSUME TrustInv
  PROVE  /\ set \in SetUpTo(Version) /\ Version \in Nat
         /\ HasRoots(set) /\ ShowsItself(set)
         /\ set.state = "confirmed" => approved
BY DEF TrustInv, KeySetTypeOK, SetUpTo, Rooted, StateTrue, HasRoots, ShowsItself

\* A step that changes only the set and how far the sign-in is.
LEMMA SetChangeKeeps ==
  ASSUME TrustInv, UNCHANGED <<publisherVars, enrolled, answer, faults>>,
         step' \in {"idle", "answered", "anchored"} \/ step' = step,
         set' \in SetUpTo(Version), HasRoots(set'), ShowsItself(set'),
         set'.state = "confirmed" => approved
  PROVE  TrustInv'
<1>1. KeySetTypeOK'
  BY DEF TrustInv, KeySetTypeOK, Version, SetUpTo
<1>2. Rooted' /\ StateTrue'
  BY DEF HasRoots, ShowsItself, Rooted, StateTrue
<1>3. OffersGrounded' /\ TokenApproved'
  BY DEF TrustInv, OffersGrounded, Version, TokenApproved
<1>. QED
  BY <1>1, <1>2, <1>3 DEF TrustInv

\* The block of the answer anchors the set (anchor_from_device_object).
LEMMA TakesBlockKeeps ==
  ASSUME TrustInv, TakesBlock
  PROVE  TrustInv'
<1>1. CASE UNCHANGED set
  BY <1>1, SetParts, SetChangeKeeps DEF TakesBlock
<1>2. CASE /\ answer # 0 /\ Anchorable(set, offers[answer])
           /\ set' = Anchored(set, offers[answer], answer)
  <2>1. /\ answer \in 0 .. Version
        /\ offers[answer] \in KeyOffer /\ Grounded(offers[answer])
    BY <1>2 DEF TrustInv, KeySetTypeOK, OffersGrounded, Version
  <2>. QED
    BY <1>2, <2>1, SetParts, AnchoredTrue, SetChangeKeeps DEF TakesBlock
<1>. QED
  BY <1>1, <1>2 DEF TakesBlock

\* Only a set that is not revoked is confirmed, and only under a token (confirm_anchor).
LEMMA ConfirmsKeeps ==
  ASSUME TrustInv, Confirms
  PROVE  TrustInv'
<1>1. CASE UNCHANGED set
  BY <1>1, SetParts, SetChangeKeeps DEF Confirms
<1>2. CASE Confirmable(set) /\ set' = [set EXCEPT !.state = "confirmed"]
  <2>1. /\ set' \in SetUpTo(Version) /\ set'.state = "confirmed"
        /\ set'.anchors = set.anchors /\ set'.keys = set.keys /\ set'.revoke = set.revoke
    BY <1>2, SetParts DEF SetUpTo, AnchorState
  <2>2. HasRoots(set')
    BY <2>1, SetParts DEF HasRoots
  <2>3. ShowsItself(set')
    BY <1>2, <2>1, SetParts, NoneAppliesSame DEF ShowsItself, Confirmable
  <2>4. approved
    BY DEF TrustInv, TokenApproved, Confirms
  <2>. QED
    BY <2>1, <2>2, <2>3, <2>4, SetChangeKeeps DEF Confirms
<1>. QED
  BY <1>1, <1>2 DEF Confirms

\* An answer of REFRESH_KEYS, whole or with a part left out (reconcile_keys).
LEMMA AnswersTyped ==
  ASSUME TrustInv, NEW v \in 1 .. Version, NEW o \in Answers(v)
  PROVE  o \in KeyOffer
<1>1. offers[v] \in KeyOffer
  BY DEF TrustInv, KeySetTypeOK, Version
<1>. QED
  BY <1>1 DEF Answers, KeyOffer

\* Taking it over keeps the invariant.
LEMMA RefreshesKeeps ==
  ASSUME TrustInv, NEW v \in 1 .. Version, NEW o \in Answers(v), Refreshes(v, o)
  PROVE  TrustInv'
BY SetParts, AnswersTyped, AdoptedTrue, SetChangeKeeps DEF Refreshes

\* Every step keeps the invariant.
LEMMA NextTrust == TrustInv /\ [KeySetNext]_keySetVars => TrustInv'
<1> SUFFICES ASSUME TrustInv, [KeySetNext]_keySetVars PROVE TrustInv'
  OBVIOUS
<1>1. CASE \E k \in Keys, a \in Anchors : PublishesKey(k, a)
  BY <1>1, PublishesKeyKeeps
<1>2. CASE \E b \in Anchors, a \in Anchors \cup {Nobody} : PublishesAnchor(b, a)
  BY <1>2, PublishesAnchorKeeps
<1>3. CASE \E kid \in Anchors \cup Keys, a \in Anchors, retroactive \in BOOLEAN,
             since \in 0 .. Version : Revokes(kid, a, retroactive, since)
  BY <1>3, RevokesKeeps
<1>4. CASE \E a \in Anchors, b \in Anchors : RevokesAll(a, b)
  BY <1>4, RevokesAllKeeps
<1>5. CASE Approves \/ Registers \/ MarksEnrolled \/ FetchesToken \/ Stops
  BY <1>5, StepKeeps
<1>6. CASE TakesBlock
  BY <1>6, TakesBlockKeeps
<1>7. CASE Confirms
  BY <1>7, ConfirmsKeeps
<1>8. CASE \E v \in 1 .. Version : \E o \in Answers(v) : Refreshes(v, o)
  BY <1>8, RefreshesKeeps
<1>9. CASE UNCHANGED keySetVars
  BY <1>9 DEF TrustInv, KeySetTypeOK, Rooted, StateTrue, NoneApplies, anchor_applies,
     OffersGrounded, Version, TokenApproved
<1>. QED
  BY <1>1, <1>2, <1>3, <1>4, <1>5, <1>6, <1>7, <1>8, <1>9 DEF KeySetNext

\* The invariant holds in every state.
THEOREM TrustInvariant == KeySetSpec => []TrustInv
BY InitTrust, NextTrust, PTL DEF KeySetSpec

\* Trust arises only in the enrolment answer, and the state shown is the state of the
\* anchors (anchor, adopt and confirm in key_set.rs).
THEOREM KeySetHolds == KeySetSpec => []KeySetInv
<1>1. TrustInv => KeySetInv
  BY DEF TrustInv, KeySetInv
<1>. QED
  BY <1>1, TrustInvariant, PTL

-----------------------------------------------------------------------------
(* Nothing comes back *)

\* A set that keeps everything, and holds no other entry of a kid it knew, believes of the
\* old keys only what it believed before.
LEMMA BelievesNoMore ==
  ASSUME NEW n, NEW s \in SetUpTo(n), NEW r \in SetUpTo(n),
         HasRoots(s), carries(s),
         s.keys \subseteq r.keys, s.revoke \subseteq r.revoke,
         \A e \in r.keys : e.kid \in Kids(s.keys) => e \in s.keys,
         NEW k \in Kids(s.keys), NEW when, Holds(r, k, when)
  PROVE  Holds(s, k, when)
<1>1. PICK e \in r.keys : e.kid = k /\ Vouches(r.anchors, r.revoke, e) /\ InWindow(e, when)
  BY DEF Holds
<1>2. e \in s.keys
  BY <1>1
<1>3. e.by \in Kids(s.anchors)
  BY <1>2, KeySetAssumption DEF HasRoots, SetUpTo, KeyEntry
<1>4. ~RevokedIn(s.revoke, e.by)
  BY <1>1, RevokedStays DEF Vouches
<1>5. Vouches(s.anchors, s.revoke, e)
  BY <1>1, <1>3, <1>4 DEF Vouches
<1>6. ~\E q \in s.revoke : q.kid = k /\ voided(q, when)
  BY DEF Holds
<1>. QED
  BY <1>1, <1>2, <1>5, <1>6 DEF Holds

\* Once the set is confirmed no answer makes a signature count again (P9: "nothing is
\* removed").
LEMMA NothingBack ==
  ASSUME TrustInv, [KeySetNext]_keySetVars, carries(set),
         NEW k \in Kids(set.keys), NEW when \in 1 .. Version, Holds(set', k, when)
  PROVE  Holds(set, k, when)
<1>1. CASE set' = set
  BY <1>1
<1>2. CASE /\ answer # 0 /\ Anchorable(set, offers[answer]) /\ TakesBlock
           /\ set' = Anchored(set, offers[answer], answer)
  <2>1. /\ answer \in 0 .. Version
        /\ offers[answer] \in KeyOffer /\ Grounded(offers[answer])
    BY <1>2 DEF TrustInv, KeySetTypeOK, OffersGrounded, Version
  <2>2. /\ set' \in SetUpTo(Version)
        /\ set.keys \subseteq set'.keys /\ set.revoke \subseteq set'.revoke
        /\ \A e \in set'.keys : e.kid \in Kids(set.keys) => e \in set.keys
    BY <1>2, <2>1, SetParts, AnchoredTrue
  <2>. QED
    BY <2>2, SetParts, BelievesNoMore
<1>3. ASSUME NEW v \in 1 .. Version, NEW o \in Answers(v), Refreshes(v, o)
      PROVE  Holds(set, k, when)
  <2>1. /\ set' \in SetUpTo(Version)
        /\ set.keys \subseteq set'.keys /\ set.revoke \subseteq set'.revoke
        /\ \A e \in set'.keys : e.kid \in Kids(set.keys) => e \in set.keys
    BY <1>3, SetParts, AnswersTyped, AdoptedTrue DEF Refreshes
  <2>. QED
    BY <2>1, SetParts, BelievesNoMore
<1>4. CASE Confirms
  BY <1>1, <1>4 DEF Confirms, Confirmable
<1>. QED
  BY <1>1, <1>2, <1>3, <1>4 DEF KeySetNext, PublishesKey, PublishesAnchor, Revokes, RevokesAll,
     Publishes, Approves, Registers, TakesBlock, MarksEnrolled, FetchesToken, Stops

\* So it is in every step of every run.
THEOREM NothingComesBack == KeySetSpec => NeverBack
<1> DEFINE Dead == carries(set) =>
               \A k \in Kids(set.keys) : \A when \in 1 .. Version :
                   Holds(set', k, when) => Holds(set, k, when)
<1>1. TrustInv /\ [KeySetNext]_keySetVars => [Dead]_keySetVars
  BY NothingBack
<1> HIDE DEF Dead
<1>2. KeySetSpec => [][Dead]_keySetVars
  BY <1>1, TrustInvariant, PTL DEF KeySetSpec
<1>. QED
  BY <1>2 DEF Dead, NeverBack
=============================================================================
