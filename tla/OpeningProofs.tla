---------------------------- MODULE OpeningProofs ----------------------------
(***************************************************************************)
(* Opening for any number of threads, documents and folders, any sizes of  *)
(* the versions, any chunk, any number of permits and refused threads.     *)
(***************************************************************************)
EXTENDS Opening, FiniteSetTheorems, SequenceTheorems, TLAPS

(***************************************************************************)
(* The pool in numbers: how many threads are inside a job, look for one,   *)
(* sleep.                                                                  *)
(***************************************************************************)
Those(what) == {t \in Threads : thread[t] \in what}
AtWork == Cardinality(Those({"running", "sentry"}))
Awake == Cardinality(Those({"ready", "late"}))
Asleep == Cardinality(Those({"waiting"}))

Counted ==
  /\ threads = AtWork + Awake + Asleep + creating
  /\ busy = AtWork
  /\ threads <= max
  /\ refused = 0 => Len(jobs) <= Awake + creating \/ (threads = max /\ Asleep = 0)

(***************************************************************************)
(* The jobs.                                                               *)
(***************************************************************************)
Early == {"begun", "gate", "admitted", "stream", "lapsed", "check", "listed"}
Handing == {"hand", "piece", "handed"}
AtRest == {"new", "queued", "over"}

ByStage == \A r \in Requests : load[r].by = "nobody" <=> load[r].stage \in AtRest
ListStage == \A r \in Requests : /\ load[r].stage = "listed" => r \in Lists
                                 /\ r \in Lists => load[r].stage \in AtRest \cup {"begun", "listed"}
JobsOnce ==
  /\ \A i, j \in DOMAIN jobs : jobs[i] = jobs[j] => i = j
  /\ \A r \in Requests : Stage(r, "queued") <=> \E i \in DOMAIN jobs : jobs[i] = r
OneJobEach ==
  /\ \A t \in Threads : thread[t] = "running" <=> \E r \in Requests : load[r].by = t
  /\ \A r, s \in Requests : load[r].by # "nobody" /\ load[r].by = load[s].by => r = s
HeldByLoads == gate \cup parts \subseteq Running \cap Contents
Settled ==
  /\ link \in {"ending", "off"} => creating = 0
  /\ link = "off" => AllJoined

(***************************************************************************)
(* The content: what holds of a load and its request at every stage.       *)
(***************************************************************************)
Asks(q) == q.offset < q.size
             /\ (q.length = CF_EOF \/ (q.length = 1 /\ q.offset + 1 = q.size))
NothingYet(l, q) == q.got = <<>> /\ q.late = 0 /\ l.offset = 0
BeginningOf(v, q) ==
  /\ Len(q.got) <= Size[v] /\ Len(q.got) <= q.size
  /\ q.got = SubSeq(Content(v), 1, Len(q.got))
WholeChunks(n) == \E k \in Nat : n = k * Chunk
BufferSends(b, q) == b.total = q.size /\ b.sent = Len(q.got) /\ WholeChunks(b.sent)
BufferTrue(l, b) ==
  /\ b.buf < Chunk /\ b.sent + b.buf = b.received
  /\ b.received = l.offset /\ b.received <= b.total
Checked(l) ==
  /\ l.scratch = Content(l.row) /\ l.offset <= Size[l.row]
  /\ l.stage = "piece" => l.offset < Size[l.row]
  /\ l.stage = "handed" => l.offset = Size[l.row]
OneLate(l, q) ==
  /\ q.late <= 1
  /\ q.late # 0 => l.stage = "over" \/ (l.stage \in {"hand", "failed"} /\ l.switch)
Answered(l, q) ==
  /\ q.answer = "data" => q.got = Content(l.row) /\ Len(q.got) = q.size
  /\ WholeChunks(Len(q.got)) \/ Len(q.got) = q.size
  /\ q.answer # "cut" => /\ Wanted(q) \subseteq DOMAIN q.got \cup Reported(q)
                         /\ DOMAIN q.got \cap Reported(q) = {}

Sound(l, q) ==
  /\ l.stage # "new" => Asks(q)
  /\ l.stage \in {"new", "queued"} \cup Early => NothingYet(l, q)
  /\ l.stage # "over" => q.answer = "none" /\ q.failed = <<>>
  /\ BeginningOf(l.row, q)
  /\ l.stage \notin AtRest => BufferSends(l.buffer, q)
  /\ l.stage \in Early \cup Handing => BufferTrue(l, l.buffer)
  /\ l.stage \in Handing => Checked(l)
  /\ OneLate(l, q)
  /\ l.stage = "over" => Answered(l, q)

ContentsSound == \A r \in Contents : Sound(load[r], request[r])

OpenTypes ==
  /\ row \in Versions
  /\ link \in {"up", "aborted", "ending", "off"}
  /\ request \in [Requests -> Request]
  /\ load \in [Requests -> Load]
  /\ switch \subseteq Requests

PoolPart == PoolTypeOK(Requests) /\ Counted /\ Settled
JobPart == JobsOnce /\ OneJobEach /\ ByStage /\ ListStage /\ Cancellable /\ HeldByLoads
OpenInv == OpenTypes /\ PoolPart /\ JobPart /\ ContentsSound

-------------------------------------------------------------------------------
(***************************************************************************)
(* Counting threads.                                                       *)
(***************************************************************************)
\* The threads of the system are finitely many.
LEMMA ThoseCount ==
  ASSUME NEW what
  PROVE  /\ IsFiniteSet(Those(what))
         /\ Cardinality(Those(what)) \in Nat
         /\ Cardinality(Those(what)) <= max
         /\ Cardinality(Those(what)) = 0 <=> Those(what) = {}
<1>1. IsFiniteSet(Threads) /\ Those(what) \subseteq Threads
  BY PoolAssumption DEF Those
<1>. QED
  BY <1>1, FS_Subset, FS_CardinalityType, FS_EmptySet DEF max

\* The numbers after any step.
LEMMA CountAfter == AtWork' \in Nat /\ Awake' \in Nat /\ Asleep' \in Nat
<1>1. ASSUME NEW what PROVE Cardinality(Those(what)') \in Nat
  <2>1. PICK S : S = Those(what)'
    OBVIOUS
  <2>2. S \subseteq Threads
    BY <2>1 DEF Those
  <2>3. Cardinality(S) \in Nat
    BY <2>2, PoolAssumption, FS_Subset, FS_CardinalityType
  <2>. QED
    BY <2>1, <2>3
<1>. QED
  BY <1>1 DEF AtWork, Awake, Asleep

\* One thread turns to something else.
LEMMA Turned ==
  ASSUME thread \in [Threads -> Doing], NEW t \in Threads, NEW w \in Doing, NEW what,
         thread' = [thread EXCEPT ![t] = w]
  PROVE  Cardinality(Those(what))' = Cardinality(Those(what)) + (IF w \in what THEN 1 ELSE 0)
                                       - (IF thread[t] \in what THEN 1 ELSE 0)
<1> DEFINE S == Those(what)
<1>1. IsFiniteSet(S) /\ Cardinality(S) \in Nat
  BY ThoseCount
<1>2. t \in S <=> thread[t] \in what
  BY DEF Those
<1>3. CASE w \in what
  <2>1. Those(what)' = S \cup {t}
    BY <1>3 DEF Those
  <2>2. Cardinality(S \cup {t}) = IF t \in S THEN Cardinality(S) ELSE Cardinality(S) + 1
    BY <1>1, FS_AddElement
  <2>. QED
    BY <1>1, <1>2, <1>3, <2>1, <2>2
<1>4. CASE w \notin what
  <2>1. Those(what)' = S \ {t}
    BY <1>4 DEF Those
  <2>2. Cardinality(S \ {t}) = IF t \in S THEN Cardinality(S) - 1 ELSE Cardinality(S)
    BY <1>1, FS_RemoveElement
  <2>. QED
    BY <1>1, <1>2, <1>4, <2>1, <2>2
<1>. QED
  BY <1>3, <1>4

\* The same in the numbers of the pool.
LEMMA Turns ==
  ASSUME PoolTypeOK(Requests), NEW t \in Threads, NEW w \in Doing, thread' = [thread EXCEPT ![t] = w]
  PROVE  /\ thread' \in [Threads -> Doing] /\ thread[t] \in Doing
         /\ AtWork' = AtWork + (IF w \in {"running", "sentry"} THEN 1 ELSE 0)
                             - (IF thread[t] \in {"running", "sentry"} THEN 1 ELSE 0)
         /\ Awake' = Awake + (IF w \in {"ready", "late"} THEN 1 ELSE 0)
                           - (IF thread[t] \in {"ready", "late"} THEN 1 ELSE 0)
         /\ Asleep' = Asleep + (IF w \in {"waiting"} THEN 1 ELSE 0)
                             - (IF thread[t] \in {"waiting"} THEN 1 ELSE 0)
         /\ AtWork \in Nat /\ Awake \in Nat /\ Asleep \in Nat
         /\ AtWork' \in Nat /\ Awake' \in Nat /\ Asleep' \in Nat
<1>1. thread \in [Threads -> Doing] /\ thread' \in [Threads -> Doing]
  BY DEF PoolTypeOK
<1>2. AtWork \in Nat /\ Awake \in Nat /\ Asleep \in Nat
  BY ThoseCount DEF AtWork, Awake, Asleep
<1>3. /\ AtWork' = AtWork + (IF w \in {"running", "sentry"} THEN 1 ELSE 0)
                          - (IF thread[t] \in {"running", "sentry"} THEN 1 ELSE 0)
      /\ Awake' = Awake + (IF w \in {"ready", "late"} THEN 1 ELSE 0)
                        - (IF thread[t] \in {"ready", "late"} THEN 1 ELSE 0)
      /\ Asleep' = Asleep + (IF w \in {"waiting"} THEN 1 ELSE 0)
                          - (IF thread[t] \in {"waiting"} THEN 1 ELSE 0)
  BY <1>1, Turned DEF AtWork, Awake, Asleep
<1>4. AtWork' \in Nat /\ Awake' \in Nat /\ Asleep' \in Nat
  BY CountAfter
<1>. QED
  BY <1>1, <1>2, <1>3, <1>4

\* Nobody turns.
LEMMA NobodyTurns ==
  ASSUME UNCHANGED thread
  PROVE  AtWork' = AtWork /\ Awake' = Awake /\ Asleep' = Asleep
BY DEF AtWork, Awake, Asleep, Those

\* Everybody is woken (notify_all).
LEMMA AllWake ==
  ASSUME PoolTypeOK(Requests), thread' = Awakened
  PROVE  /\ thread' \in [Threads -> Doing]
         /\ AtWork' = AtWork /\ Awake' = Awake + Asleep /\ Asleep' = 0
<1> DEFINE A == Those({"ready", "late"})
           B == Those({"waiting"})
<1>1. thread \in [Threads -> Doing]
  BY DEF PoolTypeOK
<1>2. /\ Those({"running", "sentry"})' = Those({"running", "sentry"})
      /\ Those({"ready", "late"})' = A \cup B
      /\ Those({"waiting"})' = {}
      /\ A \cap B = {}
  BY <1>1 DEF Those, Awakened, Doing
<1>3. Cardinality(A \cup B) = Cardinality(A) + Cardinality(B) - Cardinality(A \cap B)
  BY ThoseCount, FS_Union
<1>4. Cardinality(A) \in Nat /\ Cardinality(B) \in Nat /\ Cardinality({}) = 0
  BY ThoseCount, FS_EmptySet
<1>5. Cardinality(A \cup B) = Cardinality(A) + Cardinality(B)
  <2>1. Cardinality(A \cap B) = 0
    BY <1>2, <1>4, Zenon
  <2>. QED
    BY <1>3, <1>4, <2>1
<1>6. thread' \in [Threads -> Doing]
  BY <1>1 DEF Awakened, Doing
<1>. QED
  BY <1>2, <1>4, <1>5, <1>6 DEF AtWork, Awake, Asleep

\* The books of the code and the promise of NotHeldUp, in the same numbers.
LEMMA BooksCounted ==
  ASSUME PoolTypeOK(Requests)
  PROVE  Counted <=> BooksBalance /\ NotHeldUp
<1> DEFINE A == Those({"running", "sentry"})
           B == Those({"ready", "late"})
           C == Those({"waiting"})
<1>1. thread \in [Threads -> Doing]
  BY DEF PoolTypeOK
<1>2. /\ Threads \ Is("none") = (A \cup B) \cup C
      /\ Is("running") \cup Is("sentry") = A
      /\ Is("ready") \cup Is("late") = B
      /\ Is("waiting") = C
      /\ A \cap B = {} /\ (A \cup B) \cap C = {}
  BY <1>1 DEF Is, Those, Doing
<1>3. Is("ready") \cap Is("late") = {}
  BY DEF Is
<1>4. /\ IsFiniteSet(A) /\ IsFiniteSet(B) /\ IsFiniteSet(C)
      /\ Cardinality(A) \in Nat /\ Cardinality(B) \in Nat /\ Cardinality(C) \in Nat
      /\ Cardinality(C) = 0 <=> C = {}
  BY ThoseCount
<1>5. Cardinality({}) = 0
  BY FS_EmptySet
<1>6. IsFiniteSet(A \cup B)
      /\ Cardinality(A \cup B) = Cardinality(A) + Cardinality(B) - Cardinality(A \cap B)
  BY <1>4, FS_Union
<1>7. Cardinality((A \cup B) \cup C)
        = Cardinality(A \cup B) + Cardinality(C) - Cardinality((A \cup B) \cap C)
  BY <1>4, <1>6, FS_Union
<1>8. Cardinality((A \cup B) \cup C) = Cardinality(A) + Cardinality(B) + Cardinality(C)
  <2>1. Cardinality(A \cap B) = 0 /\ Cardinality((A \cup B) \cap C) = 0
    BY <1>2, <1>5, Zenon
  <2>. QED
    BY <1>4, <1>6, <1>7, <2>1
<1>9. Cardinality(Threads \ Is("none")) = AtWork + Awake + Asleep
  BY <1>2, <1>8 DEF AtWork, Awake, Asleep
<1>10. /\ Cardinality(Is("running") \cup Is("sentry")) = AtWork
       /\ Cardinality(Is("ready") \cup Is("late")) = Awake
       /\ Is("waiting") = {} <=> Asleep = 0
  BY <1>2, <1>4 DEF AtWork, Awake, Asleep
<1>11. Cardinality(Is("ready") \cup Is("late")) + creating = Awake + creating
  BY <1>10
<1>12. NotHeldUp <=> (refused = 0 => Len(jobs) <= Awake + creating \/ (threads = max /\ Asleep = 0))
  <2> DEFINE here == Cardinality(Is("ready") \cup Is("late")) + creating
  <2>1. here = Awake + creating
    BY <1>11
  <2>2. NotHeldUp <=> (refused = 0 => Len(jobs) <= here \/ (threads = max /\ Is("waiting") = {}))
    BY DEF NotHeldUp
  <2> HIDE DEF here
  <2>. QED
    BY <1>10, <2>1, <2>2
<1>13. BooksBalance <=> /\ threads = AtWork + Awake + Asleep + creating
                        /\ busy = AtWork /\ threads <= max
  BY <1>9, <1>10 DEF BooksBalance
<1>. QED
  BY <1>12, <1>13 DEF Counted

-------------------------------------------------------------------------------
(***************************************************************************)
(* The pool: every critical section keeps the books.                       *)
(***************************************************************************)
PoolBooks == PoolTypeOK(Requests) /\ Counted

\* How many threads the system may have at all.
LEMMA MaxIsNat == max \in Nat /\ max > 0
BY PoolAssumption, FS_CardinalityType, FS_EmptySet DEF max

\* The numbers before a step.
LEMMA CountBefore == AtWork \in Nat /\ Awake \in Nat /\ Asleep \in Nat
BY ThoseCount DEF AtWork, Awake, Asleep

\* Somebody sleeps exactly if the count of the sleepers is not zero.
LEMMA SleeperCounted == Is("waiting") = {} <=> Asleep = 0
<1>1. Is("waiting") = Those({"waiting"})
  BY DEF Is, Those
<1>. QED
  BY <1>1, ThoseCount DEF Asleep

\* give: a thread is booked for the job, or one that sleeps is woken.
LEMMA GiveBooks ==
  ASSUME PoolBooks, NEW j \in Requests, Give(j)
  PROVE  PoolBooks'
<1>1. /\ jobs \in Seq(Requests) /\ jobs' = Append(jobs, j) /\ UNCHANGED <<busy, end, refused>>
      /\ threads \in Nat /\ busy \in Nat /\ creating \in Nat /\ refused \in Nat /\ end \in BOOLEAN
      /\ thread \in [Threads -> Doing]
  BY DEF PoolBooks, PoolTypeOK, Give
<1>2. jobs' \in Seq(Requests) /\ Len(jobs') = Len(jobs) + 1 /\ Len(jobs) \in Nat
  BY <1>1, AppendProperties
<1>3. CASE NeedsThread
  <2>1. threads' = threads + 1 /\ creating' = creating + 1 /\ UNCHANGED thread
    BY <1>3 DEF Give
  <2>2. AtWork' = AtWork /\ Awake' = Awake /\ Asleep' = Asleep
    BY <2>1, NobodyTurns
  <2>3. threads < max /\ Counted
    BY <1>3 DEF PoolBooks, NeedsThread
  <2>4. refused = 0 => Len(jobs') <= Awake' + creating'
    BY <1>1, <1>2, <2>1, <2>2, <2>3, MaxIsNat, CountBefore DEF Counted
  <2>5. Counted'
    BY <1>1, <2>1, <2>2, <2>3, <2>4, MaxIsNat, CountBefore DEF Counted, max
  <2>. QED
    BY <1>1, <1>2, <2>1, <2>5 DEF PoolBooks, PoolTypeOK
<1>4. CASE ~NeedsThread
  <2>1. UNCHANGED <<threads, creating>> /\ NotifyOne
    BY <1>4 DEF Give
  <2>2. CASE Is("waiting") = {}
    <3>1. UNCHANGED thread /\ Asleep = 0
      BY <2>1, <2>2, SleeperCounted DEF NotifyOne
    <3>2. AtWork' = AtWork /\ Awake' = Awake /\ Asleep' = Asleep
      BY <3>1, NobodyTurns
    <3>3. Counted'
      BY <1>1, <1>2, <1>4, <2>1, <3>1, <3>2, MaxIsNat, CountBefore
         DEF PoolBooks, Counted, NeedsThread, max
    <3>. QED
      BY <1>1, <1>2, <2>1, <3>1, <3>3 DEF PoolBooks, PoolTypeOK
  <2>3. CASE Is("waiting") # {}
    <3>1. PICK t \in Is("waiting") : thread' = [thread EXCEPT ![t] = "ready"]
      BY <2>1, <2>3 DEF NotifyOne
    <3>2. t \in Threads /\ thread[t] = "waiting" /\ "ready" \in Doing /\ Asleep # 0
      BY <2>3, SleeperCounted DEF Is, Doing
    <3>3. /\ thread' \in [Threads -> Doing]
          /\ AtWork' = AtWork /\ Awake' = Awake + 1 /\ Asleep' = Asleep - 1
      <4> DEFINE w == "ready"
      <4> HIDE DEF w
      <4>1. w = "ready" /\ w \in Doing /\ thread' = [thread EXCEPT ![t] = w]
        BY <3>1, <3>2 DEF w
      <4>. QED
        <5>1. /\ thread' \in [Threads -> Doing]
              /\ AtWork' = AtWork + (IF w \in {"running", "sentry"} THEN 1 ELSE 0)
                                  - (IF thread[t] \in {"running", "sentry"} THEN 1 ELSE 0)
              /\ Awake' = Awake + (IF w \in {"ready", "late"} THEN 1 ELSE 0)
                                - (IF thread[t] \in {"ready", "late"} THEN 1 ELSE 0)
              /\ Asleep' = Asleep + (IF w \in {"waiting"} THEN 1 ELSE 0)
                                  - (IF thread[t] \in {"waiting"} THEN 1 ELSE 0)
          BY <4>1, <3>2, Turns DEF PoolBooks
        <5>. QED
          BY <4>1, <3>2, <5>1, CountBefore
    <3>4. Counted'
      BY <1>1, <1>2, <1>4, <2>1, <3>2, <3>3, MaxIsNat, CountBefore
         DEF PoolBooks, Counted, NeedsThread, max
    <3>. QED
      BY <1>1, <1>2, <2>1, <3>3, <3>4 DEF PoolBooks, PoolTypeOK
  <2>. QED
    BY <2>2, <2>3
<1>. QED
  BY <1>3, <1>4

\* A thread comes to be, or does not, or looks for a job, or leaves.
LEMMA ThreadBooks ==
  ASSUME PoolBooks, NEW t \in Threads,
         Created(t) \/ TakesJob(t) \/ Leaves(t) \/ Waits(t) \/ IdleTimeOver(t) \/ SentryDrops(t)
  PROVE  PoolBooks'
<1>1. PICK w \in Doing : thread' = [thread EXCEPT ![t] = w]
  BY DEF Created, TakesJob, Leaves, Waits, IdleTimeOver, SentryDrops, Doing
<1>2. /\ thread' \in [Threads -> Doing] /\ thread[t] \in Doing
      /\ AtWork' = AtWork + (IF w \in {"running", "sentry"} THEN 1 ELSE 0)
                          - (IF thread[t] \in {"running", "sentry"} THEN 1 ELSE 0)
      /\ Awake' = Awake + (IF w \in {"ready", "late"} THEN 1 ELSE 0)
                        - (IF thread[t] \in {"ready", "late"} THEN 1 ELSE 0)
      /\ Asleep' = Asleep + (IF w \in {"waiting"} THEN 1 ELSE 0)
                          - (IF thread[t] \in {"waiting"} THEN 1 ELSE 0)
      /\ AtWork \in Nat /\ Awake \in Nat /\ Asleep \in Nat
      /\ AtWork' \in Nat /\ Awake' \in Nat /\ Asleep' \in Nat
  BY <1>1, Turns DEF PoolBooks
<1>3. /\ jobs \in Seq(Requests) /\ thread \in [Threads -> Doing] /\ Len(jobs) \in Nat
      /\ threads \in Nat /\ busy \in Nat /\ creating \in Nat /\ refused \in Nat /\ end \in BOOLEAN
      /\ Counted
  BY DEF PoolBooks, PoolTypeOK
<1>4. w = thread'[t]
  BY <1>1, <1>3
<1>5. CASE Created(t)
  <2>1. w = "ready" /\ thread[t] = "none" /\ creating > 0 /\ creating' = creating - 1
        /\ UNCHANGED <<jobs, threads, busy, end, refused>>
    BY <1>3, <1>4, <1>5 DEF Created
  <2>2. AtWork' = AtWork /\ Awake' = Awake + 1 /\ Asleep' = Asleep
    BY <1>2, <2>1
  <2>3. Counted'
    BY <1>2, <1>3, <2>1, <2>2, MaxIsNat DEF Counted, max
  <2>. QED
    BY <1>2, <1>3, <2>1, <2>3 DEF PoolBooks, PoolTypeOK
<1>6. CASE TakesJob(t)
  <2>1. w = "running" /\ thread[t] \in {"ready", "late"} /\ jobs # <<>> /\ jobs' = Tail(jobs)
        /\ busy' = busy + 1 /\ UNCHANGED <<threads, end, creating, refused>>
    BY <1>3, <1>4, <1>6 DEF TakesJob, Looks
  <2>2. AtWork' = AtWork + 1 /\ Awake' = Awake - 1 /\ Asleep' = Asleep
    BY <1>2, <2>1
  <2>3. jobs' \in Seq(Requests) /\ Len(jobs') = Len(jobs) - 1
    BY <1>3, <2>1, HeadTailProperties
  <2>4. Counted'
    <3>1. Len(jobs') <= Awake' + creating' <=> Len(jobs) <= Awake + creating
      BY <1>2, <1>3, <2>1, <2>2, <2>3
    <3>. QED
      BY <1>2, <1>3, <2>1, <2>2, <3>1 DEF Counted, max
  <2>. QED
    BY <1>2, <1>3, <2>1, <2>3, <2>4 DEF PoolBooks, PoolTypeOK
<1>7. CASE Leaves(t)
  <2>1. w = "none" /\ thread[t] \in {"ready", "late"} /\ jobs = <<>>
        /\ threads' = threads - 1 /\ UNCHANGED <<jobs, busy, end, creating, refused>>
    BY <1>3, <1>4, <1>7 DEF Leaves, Looks
  <2>2. AtWork' = AtWork /\ Awake' = Awake - 1 /\ Asleep' = Asleep /\ Len(jobs) = 0
    BY <1>2, <2>1
  <2>3. Counted' /\ threads' \in Nat
    BY <1>2, <1>3, <2>1, <2>2, MaxIsNat DEF Counted, max
  <2>. QED
    BY <1>2, <1>3, <2>1, <2>3 DEF PoolBooks, PoolTypeOK
<1>8. CASE Waits(t)
  <2>1. w = "waiting" /\ thread[t] = "ready" /\ jobs = <<>>
        /\ UNCHANGED <<jobs, threads, busy, end, creating, refused>>
    BY <1>3, <1>4, <1>8 DEF Waits
  <2>2. AtWork' = AtWork /\ Awake' = Awake - 1 /\ Asleep' = Asleep + 1 /\ Len(jobs') = 0
    BY <1>2, <2>1
  <2>3. Len(jobs') <= Awake' + creating'
    BY <1>2, <1>3, <2>1, <2>2
  <2>4. Counted'
    BY <1>2, <1>3, <2>1, <2>2, <2>3, MaxIsNat DEF Counted, max
  <2>. QED
    BY <1>2, <1>3, <2>1, <2>4 DEF PoolBooks, PoolTypeOK
<1>9. CASE IdleTimeOver(t)
  <2>1. w = "late" /\ thread[t] = "waiting"
        /\ UNCHANGED <<jobs, threads, busy, end, creating, refused>>
    BY <1>3, <1>4, <1>9 DEF IdleTimeOver
  <2>2. AtWork' = AtWork /\ Awake' = Awake + 1 /\ Asleep' = Asleep - 1
    BY <1>2, <2>1
  <2>3. Counted'
    BY <1>2, <1>3, <2>1, <2>2, MaxIsNat DEF Counted, max
  <2>. QED
    BY <1>2, <1>3, <2>1, <2>3 DEF PoolBooks, PoolTypeOK
<1>10. CASE SentryDrops(t)
  <2>1. w = "ready" /\ thread[t] = "sentry" /\ busy' = busy - 1
        /\ UNCHANGED <<jobs, threads, end, creating, refused>>
    BY <1>3, <1>4, <1>10 DEF SentryDrops
  <2>2. AtWork' = AtWork - 1 /\ Awake' = Awake + 1 /\ Asleep' = Asleep
    BY <1>2, <2>1
  <2>3. Counted' /\ busy' \in Nat
    BY <1>2, <1>3, <2>1, <2>2, MaxIsNat DEF Counted, max
  <2>. QED
    BY <1>2, <1>3, <2>1, <2>3 DEF PoolBooks, PoolTypeOK
<1>. QED
  BY <1>5, <1>6, <1>7, <1>8, <1>9, <1>10

\* A job returns: its thread stays booked as busy.
LEMMA ReturnBooks ==
  ASSUME PoolBooks, NEW t \in Threads, thread[t] = "running", JobReturns(t),
         UNCHANGED <<jobs, threads, busy, end, creating, refused>>
  PROVE  PoolBooks'
<1>1. thread' = [thread EXCEPT ![t] = "sentry"] /\ "sentry" \in Doing
  BY DEF JobReturns, Doing
<1>2. thread' \in [Threads -> Doing] /\ AtWork' = AtWork /\ Awake' = Awake /\ Asleep' = Asleep
  <2> DEFINE w == "sentry"
  <2> HIDE DEF w
  <2>1. w = "sentry" /\ w \in Doing /\ thread' = [thread EXCEPT ![t] = w]
    BY <1>1 DEF w
  <2>. QED
    <3>1. /\ thread' \in [Threads -> Doing]
          /\ AtWork' = AtWork + (IF w \in {"running", "sentry"} THEN 1 ELSE 0)
                              - (IF thread[t] \in {"running", "sentry"} THEN 1 ELSE 0)
          /\ Awake' = Awake + (IF w \in {"ready", "late"} THEN 1 ELSE 0)
                            - (IF thread[t] \in {"ready", "late"} THEN 1 ELSE 0)
          /\ Asleep' = Asleep + (IF w \in {"waiting"} THEN 1 ELSE 0)
                              - (IF thread[t] \in {"waiting"} THEN 1 ELSE 0)
      BY <2>1, Turns DEF PoolBooks
    <3>. QED
      BY <2>1, <3>1, CountBefore
<1>. QED
  BY <1>2 DEF PoolBooks, PoolTypeOK, Counted, max

\* The system refuses a thread, or the pool ends: everybody is woken.
LEMMA WakeBooks ==
  ASSUME PoolBooks, Refused \/ EndsAccepting
  PROVE  PoolBooks'
<1>1. /\ thread' \in [Threads -> Doing]
      /\ AtWork' = AtWork /\ Awake' = Awake + Asleep /\ Asleep' = 0
  BY AllWake DEF PoolBooks, Refused, EndsAccepting
<1>2. /\ jobs \in Seq(Requests) /\ Len(jobs) \in Nat
      /\ threads \in Nat /\ busy \in Nat /\ creating \in Nat /\ refused \in Nat /\ end \in BOOLEAN
      /\ Counted
  BY DEF PoolBooks, PoolTypeOK
<1>3. CASE Refused
  <2>1. creating > 0 /\ refused' = refused + 1 /\ creating' = creating - 1
        /\ threads' = threads - 1 /\ UNCHANGED <<jobs, busy, end>>
    BY <1>3 DEF Refused
  <2>. QED
    BY <1>1, <1>2, <2>1, CountBefore, MaxIsNat DEF PoolBooks, PoolTypeOK, Counted, max
<1>4. CASE EndsAccepting
  <2>1. end' = TRUE /\ UNCHANGED <<jobs, threads, busy, creating, refused>>
    BY <1>4 DEF EndsAccepting
  <2>. QED
    BY <1>1, <1>2, <2>1, CountBefore, MaxIsNat DEF PoolBooks, PoolTypeOK, Counted, max
<1>. QED
  BY <1>3, <1>4

\* A pool in which nothing runs and nothing waits.
LEMMA FreshBooks ==
  ASSUME jobs' = <<>>, threads' = 0, busy' = 0, end' = FALSE, creating' = 0, refused' = 0,
         thread' = [t \in Threads |-> "none"]
  PROVE  PoolBooks'
<1>1. ASSUME NEW what, "none" \notin what PROVE Cardinality(Those(what)') = 0
  <2>1. Those(what)' = {}
    BY <1>1 DEF Those
  <2>. QED
    BY <2>1, FS_EmptySet
<1>2. AtWork' = 0 /\ Awake' = 0 /\ Asleep' = 0
  BY <1>1 DEF AtWork, Awake, Asleep
<1>3. Counted'
  BY <1>2, MaxIsNat DEF Counted, max
<1>4. thread' \in [Threads -> Doing] /\ jobs' \in Seq(Requests)
  BY EmptySeq DEF Doing
<1>. QED
  BY <1>3, <1>4 DEF PoolBooks, PoolTypeOK

-------------------------------------------------------------------------------
(***************************************************************************)
(* The content, step by step: l and q are a load and its request before a  *)
(* step, m and p what becomes of them.                                     *)
(***************************************************************************)
\* The content of a version has the size the listing names.
LEMMA ContentIs ==
  ASSUME NEW v \in Versions
  PROVE  /\ Size[v] \in Nat \ {0}
         /\ Content(v) \in Seq(Unit) /\ Len(Content(v)) = Size[v]
<1>1. Size[v] \in Nat \ {0}
  BY OpeningAssumption, ElementOfSeq DEF Versions
<1>2. Content(v) \in [1 .. Size[v] -> Unit]
  BY <1>1 DEF Content, Unit
<1>. QED
  BY <1>1, <1>2

\* A beginning of a version that has got longer.
LEMMA Beginning ==
  ASSUME NEW v \in Versions, NEW n \in 0 .. Size[v]
  PROVE  LET s == SubSeq(Content(v), 1, n) IN
         /\ s \in Seq(Unit) /\ Len(s) = n /\ DOMAIN s = 1 .. n
         /\ s = SubSeq(Content(v), 1, Len(s))
         /\ n = Size[v] => s = Content(v)
<1>1. Content(v) \in Seq(Unit) /\ Len(Content(v)) = Size[v] /\ Size[v] \in Nat
  BY ContentIs
<1>2. \A i \in 1 .. n : Content(v)[i] \in Unit
  BY <1>1, ElementOfSeq
<1>3. SubSeq(Content(v), 1, n) \in Seq(Unit) /\ Len(SubSeq(Content(v), 1, n)) = n
  BY <1>1, <1>2, SubSeqProperties
<1>4. SubSeq(Content(v), 1, Size[v]) = Content(v)
  BY <1>1, SubSeqFull
<1>. QED
  BY <1>3, <1>4, LenProperties

\* The fields of a load and of a request.
LEMMA Fields ==
  ASSUME NEW l \in Load, NEW q \in Request
  PROVE  /\ l.stage \in Stages /\ l.row \in Versions /\ l.scratch \in Seq(Unit) /\ l.offset \in Nat
         /\ l.switch \in BOOLEAN /\ l.buffer \in Buffer /\ l.by \in Threads \cup {"nobody"}
         /\ l.buffer.total \in Nat /\ l.buffer.received \in Nat
         /\ l.buffer.sent \in Nat /\ l.buffer.buf \in Nat
         /\ q.offset \in Nat /\ q.length \in Int /\ q.size \in Nat /\ q.late \in Nat
         /\ q.got \in Seq(Unit) /\ Len(q.got) \in Nat
         /\ Size[l.row] \in Nat
BY ContentIs DEF Load, Request, Buffer, CF_EOF

\* Whole chunks, one more of them.
LEMMA Chunks ==
  /\ WholeChunks(0)
  /\ \A n \in Nat : WholeChunks(n) => WholeChunks(n + Chunk) /\ n % Chunk = 0
<1>1. Chunk \in Nat \ {0}
  BY ChunkAssumption
<1>2. 0 = 0 * Chunk
  BY <1>1
<1>3. ASSUME NEW n \in Nat, NEW k \in Nat, n = k * Chunk
      PROVE  n + Chunk = (k + 1) * Chunk /\ n % Chunk = 0
  <2>1. (k + 1) * Chunk = k * Chunk + Chunk
    BY <1>1, SMTT(30)
  <2>2. (k * Chunk) % Chunk = 0
    BY <1>1, SMTT(30)
  <2>. QED
    BY <1>3, <2>1, <2>2
<1>. QED
  BY <1>2, <1>3 DEF WholeChunks

\* BlockBuffer::take lets whole chunks go and keeps the rest.
LEMMA TakenWhole ==
  ASSUME NEW b \in Buffer, b.buf < Chunk, WholeChunks(b.sent)
  PROVE  LET c == Taken(b, 1) IN
         /\ c \in Buffer /\ c.total = b.total /\ c.received = b.received + 1
         /\ c.sent + c.buf = b.sent + b.buf + 1 /\ c.buf < Chunk /\ WholeChunks(c.sent)
         /\ c.sent >= b.sent
<1>1. Chunk \in Nat \ {0} /\ b.buf \in Nat /\ b.sent \in Nat /\ b.received \in Nat /\ b.total \in Nat
  BY ChunkAssumption DEF Buffer
<1>2. Whole(b, 1) = IF b.buf + 1 = Chunk THEN Chunk ELSE 0
  <2>1. ((b.buf + 1) \div Chunk) * Chunk = IF b.buf + 1 = Chunk THEN Chunk ELSE 0
    BY <1>1, SMTT(30)
  <2>. QED
    BY <2>1 DEF Whole
<1>3. /\ Taken(b, 1).total = b.total /\ Taken(b, 1).received = b.received + 1
      /\ Taken(b, 1).sent = b.sent + Whole(b, 1) /\ Taken(b, 1).buf = b.buf + 1 - Whole(b, 1)
  BY DEF Taken, Buffer
<1>4. WholeChunks(b.sent + Whole(b, 1))
  BY <1>1, <1>2, Chunks
<1>5. b.sent + Whole(b, 1) \in Nat /\ b.buf + 1 - Whole(b, 1) \in Nat /\ Whole(b, 1) \in Nat
  BY <1>1, <1>2
<1>6. Taken(b, 1) \in Buffer
  <2> DEFINE w == Whole(b, 1)
  <2>1. Taken(b, 1) = [b EXCEPT !.received = @ + 1, !.sent = @ + w, !.buf = @ + 1 - w]
    BY DEF Taken
  <2>2. b.sent + w \in Nat /\ b.buf + 1 - w \in Nat /\ b.received + 1 \in Nat
    BY <1>1, <1>5
  <2> HIDE DEF w
  <2>. QED
    BY <2>1, <2>2 DEF Buffer
<1>. QED
  BY <1>1, <1>2, <1>3, <1>4, <1>6

\* The job fails: what was handed over stays what it is.
LEMMA FailsSound ==
  ASSUME NEW l \in Load, NEW q \in Request, Sound(l, q), l.stage \notin AtRest,
         NEW m \in Load, m.stage = "failed", m.row = l.row, m.switch = l.switch,
         BufferSends(m.buffer, q)
  PROVE  Sound(m, q)
<1>1. q.late # 0 => m.switch
  BY DEF Sound, OneLate, NothingYet, Early, Handing, AtRest
<1>. QED
  BY <1>1 DEF Sound, OneLate, Asks, BeginningOf, AtRest, Early, Handing

\* The job goes on without handing anything over.
LEMMA EarlySound ==
  ASSUME NEW l \in Load, NEW q \in Request, Sound(l, q), l.stage \in Early,
         NEW m \in Load, m.stage \in Early, m.row = l.row, m.offset = l.offset,
         m.buffer = l.buffer
  PROVE  Sound(m, q)
BY DEF Sound, OneLate, Asks, BeginningOf, AtRest, Early, Handing, NothingYet, BufferTrue

\* The job begins: an empty buffer of the placeholder's size, whatever the row.
LEMMA BeginSound ==
  ASSUME NEW l \in Load, NEW q \in Request, Sound(l, q), l.stage = "queued",
         NEW m \in Load, m.stage = "begun", m.offset = l.offset, m.buffer = BlockBuffer(q.size)
  PROVE  Sound(m, q)
<1>1. Asks(q) /\ NothingYet(l, q) /\ q.answer = "none" /\ q.failed = <<>>
  BY DEF Sound, AtRest
<1>2. Len(q.got) = 0 /\ q.size \in Nat /\ m.row \in Versions
  BY <1>1, Fields DEF NothingYet
<1>3. BeginningOf(m.row, q)
  BY <1>1, <1>2, Beginning, ContentIs, SubSeqEmpty DEF BeginningOf, NothingYet
<1>4. BufferSends(m.buffer, q) /\ BufferTrue(m, m.buffer)
  BY <1>1, <1>2, Chunks, ChunkAssumption DEF BufferSends, BufferTrue, BlockBuffer, NothingYet
<1>. QED
  BY <1>1, <1>3, <1>4 DEF Sound, OneLate, AtRest, Early, Handing, NothingYet

\* The checksum is right: what stands in the scratch file is the listed version.
LEMMA CheckSound ==
  ASSUME NEW l \in Load, NEW q \in Request, Sound(l, q), l.stage = "check",
         l.scratch = Content(l.row), NEW m \in Load, m = [l EXCEPT !.stage = "hand"]
  PROVE  Sound(m, q)
<1>1. /\ m.stage = "hand" /\ m.row = l.row /\ m.offset = l.offset /\ m.buffer = l.buffer
      /\ m.scratch = l.scratch /\ l.offset = 0 /\ q.late = 0
  BY DEF Load, Sound, Early, NothingYet
<1>2. Size[l.row] \in Nat
  BY Fields
<1>. QED
  BY <1>1, <1>2 DEF Sound, OneLate, Asks, BeginningOf, AtRest, Early, Handing, BufferTrue, Checked

\* hand_over looks at the switch; the next piece, or the end, is for who was not cancelled.
LEMMA LookSound ==
  ASSUME NEW l \in Load, NEW q \in Request, Sound(l, q), l.stage = "hand", ~l.switch,
         NEW m \in Load,
         \/ l.offset < Len(l.scratch) /\ m = [l EXCEPT !.stage = "piece"]
         \/ l.offset = Len(l.scratch) /\ m = [l EXCEPT !.stage = "handed"]
  PROVE  Sound(m, q)
<1>1. /\ m.stage \in {"piece", "handed"} /\ m.row = l.row /\ m.offset = l.offset
      /\ m.buffer = l.buffer /\ m.scratch = l.scratch
      /\ m.stage = "piece" => l.offset < Len(l.scratch)
      /\ m.stage = "handed" => l.offset = Len(l.scratch)
  BY DEF Load
<1>2. l.scratch = Content(l.row) /\ Len(l.scratch) = Size[l.row] /\ l.offset <= Size[l.row]
  BY Fields, ContentIs DEF Sound, Handing, Checked
<1>3. q.late = 0
  BY DEF Sound, OneLate
<1>. QED
  BY <1>1, <1>2, <1>3
     DEF Sound, OneLate, Asks, BeginningOf, AtRest, Early, Handing, BufferTrue, Checked

\* A piece goes to the buffer: how much of the scratch file is then with cldflt.
LEMMA PieceFits ==
  ASSUME NEW l \in Load, NEW q \in Request, Sound(l, q), l.stage = "piece",
         Fits(l.buffer, l.offset, 1), NEW c, c = Taken(l.buffer, 1)
  PROVE  /\ c \in Buffer /\ c.total = l.buffer.total
         /\ c.buf < Chunk /\ WholeChunks(c.sent)
         /\ c.sent + c.buf = c.received /\ c.received = l.offset + 1 /\ c.received <= c.total
         /\ l.offset + 1 <= Size[l.row]
         /\ c.sent \in 0 .. Size[l.row] /\ c.sent <= q.size
         /\ SubSeq(l.scratch, 1, c.sent) \in Seq(Unit)
         /\ Len(SubSeq(l.scratch, 1, c.sent)) = c.sent
         /\ SubSeq(l.scratch, 1, c.sent) = SubSeq(Content(l.row), 1, c.sent)
<1>1. BufferSends(l.buffer, q) /\ BufferTrue(l, l.buffer) /\ Checked(l)
  BY DEF Sound, Handing, AtRest
<1>2. /\ l.buffer \in Buffer /\ l.row \in Versions /\ l.offset \in Nat /\ q.size \in Nat
      /\ Size[l.row] \in Nat /\ l.buffer.sent \in Nat /\ l.buffer.buf \in Nat
      /\ l.buffer.received \in Nat /\ l.buffer.total \in Nat
  BY Fields
<1>3. /\ c \in Buffer /\ c.total = l.buffer.total /\ c.received = l.buffer.received + 1
      /\ c.sent + c.buf = l.buffer.sent + l.buffer.buf + 1 /\ c.buf < Chunk /\ WholeChunks(c.sent)
  BY <1>1, <1>2, TakenWhole DEF BufferSends, BufferTrue
<1>4. c.sent \in Nat /\ c.buf \in Nat /\ l.offset < Size[l.row] /\ l.offset + 1 <= q.size
  BY <1>1, <1>3 DEF Buffer, Checked, Fits, BufferSends
<1>5. /\ c.sent + c.buf = c.received /\ c.received = l.offset + 1 /\ c.received <= c.total
      /\ c.sent \in 0 .. Size[l.row] /\ c.sent <= q.size /\ l.offset + 1 <= Size[l.row]
  BY <1>1, <1>2, <1>3, <1>4 DEF BufferTrue, BufferSends
<1>6. /\ SubSeq(l.scratch, 1, c.sent) \in Seq(Unit) /\ Len(SubSeq(l.scratch, 1, c.sent)) = c.sent
      /\ SubSeq(l.scratch, 1, c.sent) = SubSeq(Content(l.row), 1, c.sent)
  BY <1>1, <1>2, <1>5, Beginning DEF Checked
<1>. QED
  BY <1>3, <1>5, <1>6

\* A piece goes to the buffer, and what is whole of it to cldflt.
LEMMA PieceSound ==
  ASSUME NEW l \in Load, NEW q \in Request, Sound(l, q), l.stage = "piece",
         Fits(l.buffer, l.offset, 1), NEW c, c = Taken(l.buffer, 1),
         NEW m \in Load, m.stage = "hand", m.offset = l.offset + 1, m.buffer = c, m.row = l.row,
         m.switch = l.switch, m.scratch = l.scratch,
         NEW p \in Request, p.got = SubSeq(l.scratch, 1, c.sent),
         p.late = IF l.switch /\ c.sent > Len(q.got) THEN q.late + 1 ELSE q.late,
         p.offset = q.offset, p.length = q.length, p.size = q.size,
         p.answer = q.answer, p.failed = q.failed
  PROVE  Sound(m, p)
<1>1. /\ BufferSends(l.buffer, q) /\ Checked(l) /\ Asks(q)
      /\ q.answer = "none" /\ q.failed = <<>> /\ q.late = 0
  BY DEF Sound, Handing, AtRest, OneLate
<1>2. /\ c.total = l.buffer.total /\ c.buf < Chunk /\ WholeChunks(c.sent)
      /\ c.sent + c.buf = c.received /\ c.received = l.offset + 1 /\ c.received <= c.total
      /\ l.offset + 1 <= Size[l.row] /\ c.sent \in 0 .. Size[l.row] /\ c.sent <= q.size
      /\ Len(p.got) = c.sent /\ p.got = SubSeq(Content(l.row), 1, c.sent)
  BY PieceFits
<1>3. p.late \in {0, 1} /\ (p.late # 0 => l.switch)
  BY <1>1
<1>4. BeginningOf(m.row, p) /\ BufferSends(m.buffer, p)
  BY <1>1, <1>2 DEF BeginningOf, BufferSends
<1>5. BufferTrue(m, m.buffer) /\ Checked(m)
  BY <1>1, <1>2 DEF BufferTrue, Checked
<1>. QED
  BY <1>1, <1>3, <1>4, <1>5 DEF Sound, OneLate, Asks, AtRest, Early, Handing

\* What the requested range ends with, whatever cldflt asked for.
LEMMA RangeIs ==
  ASSUME NEW q \in Request, Asks(q)
  PROVE  RangeEnd(q.offset, q.length, q.size) = q.size /\ q.length # 0 /\ q.offset < q.size
BY DEF Asks, RangeEnd, CF_EOF, Request

\* complete: the rest goes out, and cldflt has the whole file.
LEMMA CompleteSound ==
  ASSUME NEW l \in Load, NEW q \in Request, Sound(l, q), l.stage = "handed", Arrived(l.buffer),
         NEW m \in Load, m.stage = "over", m.row = l.row,
         NEW p, p = [[q EXCEPT !.got = SubSeq(l.scratch, 1, Completed(l.buffer).sent),
                               !.late = IF l.switch /\ Completed(l.buffer).sent > Len(q.got)
                                        THEN @ + 1 ELSE @]
                     EXCEPT !.answer = "data"]
  PROVE  p \in Request /\ Sound(m, p)
<1>1. /\ BufferSends(l.buffer, q) /\ BufferTrue(l, l.buffer) /\ Checked(l) /\ Asks(q)
      /\ q.failed = <<>> /\ q.late = 0
  BY DEF Sound, Handing, AtRest, OneLate
<1>2. /\ l.buffer \in Buffer /\ l.row \in Versions /\ q.size \in Nat /\ Size[l.row] \in Nat
      /\ l.buffer.sent \in Nat /\ l.buffer.buf \in Nat /\ q.offset \in Nat
  BY Fields
<1>3. Completed(l.buffer).sent = l.buffer.sent + l.buffer.buf
  BY <1>2 DEF Completed, Buffer
<1>4. Completed(l.buffer).sent = q.size /\ q.size = Size[l.row]
  BY <1>1, <1>2, <1>3 DEF BufferSends, BufferTrue, Checked, Arrived
<1>5. /\ SubSeq(l.scratch, 1, q.size) = Content(l.row) /\ Content(l.row) \in Seq(Unit)
      /\ Len(Content(l.row)) = q.size /\ DOMAIN Content(l.row) = 1 .. q.size
      /\ Content(l.row) = SubSeq(Content(l.row), 1, q.size)
  BY <1>1, <1>2, <1>4, Beginning, ContentIs DEF Checked
<1>6. /\ p \in Request /\ p.got = Content(l.row) /\ p.late <= 1
      /\ p.offset = q.offset /\ p.length = q.length /\ p.size = q.size
      /\ p.answer = "data" /\ p.failed = <<>>
  <2> DEFINE late == IF l.switch /\ q.size > Len(q.got) THEN q.late + 1 ELSE q.late
         o == [q EXCEPT !.got = Content(l.row), !.late = late]
  <2>1. p = [o EXCEPT !.answer = "data"]
    BY <1>4, <1>5
  <2>2. late \in Nat /\ late <= 1
    BY <1>1
  <2> HIDE DEF late
  <2>3. /\ o \in Request /\ o.got = Content(l.row) /\ o.late = late
        /\ o.offset = q.offset /\ o.length = q.length /\ o.size = q.size
        /\ o.failed = q.failed
    <3>1. PICK s \in Seq(Unit) : s = Content(l.row)
      BY <1>5
    <3>2. PICK x : x = [q EXCEPT !.got = s, !.late = late]
      OBVIOUS
    <3>3. /\ x \in Request /\ x.got = s /\ x.late = late
          /\ x.offset = q.offset /\ x.length = q.length /\ x.size = q.size
          /\ x.failed = q.failed
      BY ONLY q \in Request, s \in Seq(Unit), <2>2, <3>2 DEF Request
    <3>. QED
      BY <3>1, <3>2, <3>3
  <2> HIDE DEF o
  <2>. QED
    BY <2>1, <2>2, <2>3, <1>1 DEF Request
<1>7. BeginningOf(m.row, p)
  BY <1>4, <1>5, <1>6, <1>2 DEF BeginningOf
<1>8. RangeEnd(p.offset, p.length, p.size) = q.size
  BY <1>1, <1>6, RangeIs
<1>9. Wanted(p) \subseteq 1 .. q.size /\ Reported(p) = {}
  BY <1>2, <1>6, <1>8 DEF Wanted, Reported
<1>10. Answered(m, p)
  BY <1>5, <1>6, <1>9 DEF Answered
<1>. QED
  BY <1>1, <1>6, <1>7, <1>10 DEF Sound, OneLate, Asks, AtRest, Early, Handing

\* The open range is reported: with what has arrived it is all that was asked for.
LEMMA FailureSound ==
  ASSUME NEW l \in Load, NEW q \in Request, Sound(l, q), l.stage = "failed",
         NEW m \in Load, m.stage = "over", m.row = l.row,
         NEW open, open = error_domain(q.offset, q.length, q.size, l.buffer.sent),
         NEW answer \in {"silent", "error"},
         NEW p, p = [q EXCEPT !.answer = answer, !.failed = open]
  PROVE  p \in Request /\ Sound(m, p)
<1>1. BufferSends(l.buffer, q) /\ BeginningOf(l.row, q) /\ Asks(q) /\ q.late <= 1
  BY DEF Sound, Handing, AtRest, OneLate
<1>2. /\ q.offset \in Nat /\ q.size \in Nat /\ l.buffer.sent \in Nat /\ q.got \in Seq(Unit)
      /\ l.buffer.sent = Len(q.got) /\ DOMAIN q.got = 1 .. Len(q.got)
  BY <1>1, Fields, LenProperties DEF BufferSends
<1>3. RangeEnd(q.offset, q.length, q.size) = q.size /\ q.length # 0 /\ q.offset < q.size
  BY <1>1, RangeIs
<1> DEFINE start == Larger(q.offset, l.buffer.sent)
<1>4. start \in Nat /\ start >= q.offset /\ start >= Len(q.got) /\ Larger(start, 0) = start
      /\ start \in {q.offset, Len(q.got)}
  BY <1>2 DEF Larger
<1>5. open = IF q.size > start THEN <<start, q.size - start>> ELSE <<>>
  <2>1. Larger(Larger(q.offset, l.buffer.sent), 0) = start
    BY <1>4
  <2> HIDE DEF start
  <2>2. open = CASE q.length = 0 -> <<Larger(q.offset, 0), 0>>
                 [] q.length # 0 /\ q.size > start -> <<start, q.size - start>>
                 [] q.length # 0 /\ q.size <= start -> <<>>
    BY <2>1, <1>3 DEF error_domain
  <2>. QED
    BY <2>2, <1>2, <1>3, <1>4
<1>6. open \in Seq(Nat)
  <2> HIDE DEF start
  <2>1. CASE q.size > start
    <3>1. PICK n : n = q.size - start
      OBVIOUS
    <3>2. n \in Nat
      BY <2>1, <3>1, <1>2, <1>4
    <3>. QED
      BY <2>1, <3>1, <3>2, <1>4, <1>5
  <2>2. CASE ~(q.size > start)
    BY <2>2, <1>5
  <2>. QED
    BY <2>1, <2>2
<1>7. /\ p \in Request /\ p.got = q.got /\ p.late = q.late /\ p.failed = open
      /\ p.answer = answer
      /\ p.offset = q.offset /\ p.length = q.length /\ p.size = q.size
  BY <1>6 DEF Request
<1>8. Wanted(p) = q.offset + 1 .. q.size
  BY <1>3, <1>7 DEF Wanted
<1>9. Reported(p) = IF q.size > start THEN start + 1 .. q.size ELSE {}
  <2>1. CASE q.size > start
    <3>1. open # <<>> /\ open[1] = start /\ open[2] = q.size - start
      BY <2>1, <1>5
    <3>2. start + (q.size - start) = q.size
      BY <1>2, <1>4
    <3>. QED
      BY <2>1, <3>1, <3>2, <1>7 DEF Reported
  <2>2. CASE ~(q.size > start)
    BY <2>2, <1>5, <1>7 DEF Reported
  <2>. QED
    BY <2>1, <2>2
<1> HIDE DEF start
<1>10. /\ Wanted(p) \subseteq DOMAIN p.got \cup Reported(p)
       /\ DOMAIN p.got \cap Reported(p) = {}
  BY <1>2, <1>4, <1>7, <1>8, <1>9
<1>11. Answered(m, p)
  BY <1>1, <1>7, <1>10 DEF Answered, BufferSends
<1>. QED
  BY <1>1, <1>7, <1>11 DEF Sound, OneLate, Asks, BeginningOf, AtRest, Early, Handing

\* The process ends in the middle: nobody hears of the request any more.
LEMMA CutSound ==
  ASSUME NEW l \in Load, NEW q \in Request, Sound(l, q), l.stage \notin {"new", "over"},
         NEW m \in Load, m.stage = "over", m.row = l.row,
         NEW p, p = [q EXCEPT !.answer = "cut"]
  PROVE  p \in Request /\ Sound(m, p)
<1>1. /\ p \in Request /\ p.got = q.got /\ p.late = q.late /\ p.answer = "cut"
      /\ p.offset = q.offset /\ p.length = q.length /\ p.size = q.size
  BY DEF Request
<1>2. WholeChunks(Len(q.got))
  <2>1. CASE l.stage \in {"queued"} \cup Early
    BY <2>1, Chunks DEF Sound, NothingYet
  <2>2. CASE l.stage \notin {"queued"} \cup Early
    BY <2>2 DEF Sound, AtRest, BufferSends
  <2>. QED
    BY <2>1, <2>2
<1>. QED
  BY <1>1, <1>2 DEF Sound, OneLate, Asks, BeginningOf, AtRest, Early, Handing, Answered

\* A callback asks: all up to the end, or the last unit.
LEMMA AskedSound ==
  ASSUME NEW l \in Load, NEW q \in Request, Sound(l, q), l.stage = "new",
         NEW m \in Load, m.stage = "queued", m.row = l.row, m.offset = l.offset,
         NEW size \in Nat \ {0}, NEW range \in Ranges(size),
         NEW p, p = [NoRequest EXCEPT !.offset = range[1], !.length = range[2], !.size = size]
  PROVE  p \in Request /\ Sound(m, p)
<1>1. PICK from, length : from = range[1] /\ length = range[2]
  OBVIOUS
<1>2. from \in Nat /\ from < size /\ (length = CF_EOF \/ (length = 1 /\ from + 1 = size))
  BY <1>1 DEF Ranges
<1>3. p = [offset |-> from, length |-> length, size |-> size, got |-> <<>>,
           failed |-> <<>>, answer |-> "none", late |-> 0]
  BY <1>1 DEF NoRequest
<1>4. /\ p \in Request
      /\ p.offset = from /\ p.length = length /\ p.size = size /\ p.got = <<>>
      /\ p.failed = <<>> /\ p.answer = "none" /\ p.late = 0
  <2>1. <<>> \in Seq(Unit) /\ <<>> \in Seq(Nat) /\ length \in Nat \cup {CF_EOF}
    BY <1>2
  <2>2. from \in Nat /\ size \in Nat /\ 0 \in Nat
    BY <1>2
  <2>3. p \in Request
    BY ONLY <1>3, <2>1, <2>2 DEF Request
  <2>. QED
    BY ONLY <1>3, <2>3
<1>5. Asks(p)
  BY <1>2, <1>4 DEF Asks
<1>6. l.offset = 0 /\ m.row \in Versions /\ Len(p.got) = 0
  BY <1>4, Fields DEF Sound, NothingYet
<1>7. BeginningOf(m.row, p)
  <2>1. SubSeq(Content(m.row), 1, 0) = <<>> /\ Size[m.row] \in Nat
    BY <1>6, ContentIs, SubSeqEmpty
  <2>2. p.got = SubSeq(Content(m.row), 1, Len(p.got))
    BY <1>4, <1>6, <2>1, Zenon
  <2>. QED
    BY <1>4, <1>6, <2>1, <2>2 DEF BeginningOf
<1>. QED
  BY <1>4, <1>5, <1>6, <1>7 DEF Sound, OneLate, NothingYet, AtRest, Early, Handing

\* The switch flips.
LEMMA SwitchSound ==
  ASSUME NEW l \in Load, NEW q \in Request, Sound(l, q),
         NEW m \in Load, m.stage = l.stage, m.row = l.row, m.offset = l.offset,
         m.buffer = l.buffer, m.scratch = l.scratch, l.switch => m.switch
  PROVE  Sound(m, q)
BY DEF Sound, OneLate, Asks, BeginningOf, AtRest, Early, Handing, NothingYet, BufferTrue, Checked,
       Answered

-------------------------------------------------------------------------------
(***************************************************************************)
(* A step of a job on its thread.                                          *)
(***************************************************************************)
\* Every state of the invariant has its types.
LEMMA InvTypes ==
  ASSUME OpenInv, NEW r \in Requests
  PROVE  /\ load[r] \in Load /\ request[r] \in Request
         /\ r \in Contents => Sound(load[r], request[r])
         /\ PoolBooks
BY DEF OpenInv, OpenTypes, PoolPart, PoolBooks, ContentsSound, Requests

\* Only one load and one request change.
LEMMA OneLoad ==
  ASSUME OpenTypes, NEW r \in Requests, NEW m \in Load, NEW p \in Request,
         load' = [load EXCEPT ![r] = m], request' = [request EXCEPT ![r] = p]
  PROVE  /\ load' \in [Requests -> Load] /\ request' \in [Requests -> Request]
         /\ \A x \in Requests : /\ load'[x] = IF x = r THEN m ELSE load[x]
                                /\ request'[x] = IF x = r THEN p ELSE request[x]
BY DEF OpenTypes

\* A job that goes on: it stays on its thread and in the list of switches.
LEMMA GoesOn ==
  ASSUME OpenInv, NEW t \in Threads, NEW r \in Requests, Mine(t, r),
         NEW m \in Load, load' = [load EXCEPT ![r] = m], NEW p \in Request,
         request' = [request EXCEPT ![r] = p],
         m.by = load[r].by, m.switch = load[r].switch, m.stage \notin AtRest,
         m.stage = "listed" => r \in Lists, r \in Lists => m.stage \in {"begun", "listed"},
         r \in Contents => Sound(m, p),
         gate' \cup parts' \subseteq gate \cup parts \cup ({r} \cap Contents),
         UNCHANGED <<worldVars, switch, poolVars>>
  PROVE  OpenInv'
<1>1. load[r].by = t /\ t # "nobody" /\ load[r].stage \notin AtRest
  BY OpeningAssumption DEF Mine, OpenInv, JobPart, ByStage
<1>2. /\ load' \in [Requests -> Load] /\ request' \in [Requests -> Request]
      /\ \A x \in Requests : /\ load'[x] = IF x = r THEN m ELSE load[x]
                             /\ request'[x] = IF x = r THEN p ELSE request[x]
  BY OneLoad DEF OpenInv
<1>3. UNCHANGED <<row, link, switch, jobs, threads, busy, end, thread, creating, refused>>
  BY DEF worldVars, poolVars
<1>4. \A x \in Requests : load'[x].by = load[x].by /\ load'[x].switch = load[x].switch
  BY <1>2
<1>5. Running' = Running /\ r \in Running
  BY <1>1, <1>4 DEF Running
<1>6. OpenTypes'
  BY <1>2, <1>3 DEF OpenInv, OpenTypes
<1>7. PoolPart'
  <2>1. AtWork' = AtWork /\ Awake' = Awake /\ Asleep' = Asleep
    BY <1>3, NobodyTurns
  <2>. QED
    BY <1>3, <2>1 DEF OpenInv, PoolPart, PoolTypeOK, Counted, Settled, AllJoined, max
<1>8. JobsOnce'
  <2>1. \A x \in Requests : Stage(x, "queued")' <=> Stage(x, "queued")
    BY <1>1, <1>2 DEF Stage, AtRest
  <2>. QED
    BY <1>3, <2>1 DEF OpenInv, JobPart, JobsOnce
<1>9. OneJobEach' /\ ByStage' /\ ListStage'
  BY <1>1, <1>2, <1>3, <1>4 DEF OpenInv, JobPart, OneJobEach, ByStage, ListStage
<1>10. Cancellable' /\ HeldByLoads'
  BY <1>3, <1>4, <1>5 DEF OpenInv, JobPart, Cancellable, HeldByLoads, Running
<1>11. ContentsSound'
  BY <1>2 DEF OpenInv, ContentsSound, Requests
<1>. QED
  BY <1>6, <1>7, <1>8, <1>9, <1>10, <1>11 DEF OpenInv, JobPart

\* What is left of a load that is over.
LEMMA EndedIs ==
  ASSUME OpenTypes, NEW r \in Requests
  PROVE  /\ Ended(r) \in Load /\ Ended(r).stage = "over" /\ Ended(r).row = load[r].row
         /\ Ended(r).by = "nobody"
<1>1. load[r].row \in Versions
  BY DEF OpenTypes, Load
<1>2. BlockBuffer(0) \in Buffer /\ <<>> \in Seq(Unit)
  BY DEF BlockBuffer, Buffer
<1>. QED
  BY <1>1, <1>2 DEF Ended, NoLoad, Load, Stages

\* A job that is over: its switch and its thread are free.
LEMMA IsOver ==
  ASSUME OpenInv, NEW t \in Threads, NEW r \in Requests, Mine(t, r),
         load' = [load EXCEPT ![r] = Ended(r)], NEW p \in Request,
         request' = [request EXCEPT ![r] = p], r \in Contents => Sound(Ended(r), p),
         switch' = switch \ {r}, gate' \cup parts' \subseteq (gate \cup parts) \ {r},
         JobReturns(t), UNCHANGED <<worldVars, jobs, threads, busy, end, creating, refused>>
  PROVE  OpenInv'
<1>1. load[r].by = t /\ thread[t] = "running" /\ t # "nobody" /\ load[r].stage \notin AtRest
  BY OpeningAssumption DEF Mine, OpenInv, JobPart, ByStage
<1>2. PICK m \in Load : m = Ended(r)
  BY EndedIs DEF OpenInv
<1>3. m.stage = "over" /\ m.by = "nobody"
  BY <1>2, EndedIs DEF OpenInv
<1>4. /\ load' \in [Requests -> Load] /\ request' \in [Requests -> Request]
      /\ \A x \in Requests : /\ load'[x] = IF x = r THEN m ELSE load[x]
                             /\ request'[x] = IF x = r THEN p ELSE request[x]
  BY <1>2, OneLoad DEF OpenInv
<1>5. /\ UNCHANGED <<row, link, jobs, threads, busy, end, creating, refused>>
      /\ thread' = [thread EXCEPT ![t] = "sentry"] /\ thread \in [Threads -> Doing]
  BY DEF worldVars, JobReturns, OpenInv, PoolPart, PoolTypeOK
<1>6. Running' = Running \ {r}
  BY <1>3, <1>4 DEF Running
<1>7. OpenTypes'
  BY <1>4, <1>5 DEF OpenInv, OpenTypes
<1>8. PoolPart'
  <2>1. PoolBooks'
    BY <1>1, <1>5, ReturnBooks DEF OpenInv, PoolPart, PoolBooks
  <2>2. link # "off"
    BY <1>1 DEF OpenInv, PoolPart, Settled, AllJoined
  <2>3. Settled'
    BY <1>5, <2>2 DEF OpenInv, PoolPart, Settled
  <2>. QED
    BY <2>1, <2>3 DEF PoolBooks, PoolPart
<1>9. JobsOnce'
  <2>1. \A x \in Requests : Stage(x, "queued")' <=> Stage(x, "queued")
    BY <1>1, <1>3, <1>4 DEF Stage, AtRest
  <2>. QED
    BY <1>5, <2>1 DEF OpenInv, JobPart, JobsOnce
<1>10. OneJobEach'
  <2>1. \A x \in Requests \ {r} : load'[x].by = load[x].by /\ load[x].by # t
    BY <1>1, <1>4 DEF OpenInv, JobPart, OneJobEach
  <2>2. \A u \in Threads : thread'[u] = "running" <=> u # t /\ thread[u] = "running"
    BY <1>5
  <2>3. \A u \in Threads : u # "nobody"
    BY OpeningAssumption
  <2>4. \A u \in Threads : thread'[u] = "running" <=> \E x \in Requests : load'[x].by = u
    BY <1>1, <1>3, <1>4, <2>1, <2>2, <2>3 DEF OpenInv, JobPart, OneJobEach
  <2>5. \A x, y \in Requests : load'[x].by # "nobody" /\ load'[x].by = load'[y].by => x = y
    BY <1>3, <1>4, <2>1 DEF OpenInv, JobPart, OneJobEach
  <2>. QED
    BY <2>4, <2>5 DEF OneJobEach
<1>11. ByStage' /\ ListStage'
  BY <1>3, <1>4 DEF OpenInv, JobPart, ByStage, ListStage, AtRest
<1>12. Cancellable' /\ HeldByLoads'
  BY <1>4, <1>6 DEF OpenInv, JobPart, Cancellable, HeldByLoads, Running
<1>13. ContentsSound'
  BY <1>2, <1>4 DEF OpenInv, ContentsSound, Requests
<1>. QED
  BY <1>7, <1>8, <1>9, <1>10, <1>11, <1>12, <1>13 DEF OpenInv, JobPart

\* A load that only changes its stage.
LEMMA OnlyStage ==
  ASSUME OpenTypes, NEW r \in Requests, NEW s \in Stages, Goes(r, s)
  PROVE  \E m \in Load : /\ load' = [load EXCEPT ![r] = m] /\ m = [load[r] EXCEPT !.stage = s]
                         /\ m.stage = s /\ m.by = load[r].by /\ m.switch = load[r].switch
                         /\ m.row = load[r].row /\ m.offset = load[r].offset
                         /\ m.buffer = load[r].buffer /\ m.scratch = load[r].scratch
<1>1. load[r] \in Load /\ load \in [Requests -> Load]
  BY DEF OpenTypes
<1>2. PICK m : m = [load[r] EXCEPT !.stage = s]
  OBVIOUS
<1>3. load' = [load EXCEPT ![r] = m]
  BY <1>1, <1>2 DEF Goes
<1>4. /\ m \in Load /\ m.stage = s /\ m.by = load[r].by /\ m.switch = load[r].switch
      /\ m.row = load[r].row /\ m.offset = load[r].offset
      /\ m.buffer = load[r].buffer /\ m.scratch = load[r].scratch
  BY ONLY <1>1, <1>2, s \in Stages DEF Load
<1>. QED
  BY <1>2, <1>3, <1>4

\* Before anything is handed over: on to the next stage, or to the failure.
LEMMA MovesOn ==
  ASSUME OpenInv, NEW t \in Threads, NEW r \in Contents, Mine(t, r), load[r].stage \in Early,
         NEW m \in Load, load' = [load EXCEPT ![r] = m],
         m.stage \in (Early \ {"listed"}) \cup {"failed"}, m.by = load[r].by,
         m.switch = load[r].switch, m.row = load[r].row, m.offset = load[r].offset,
         m.buffer = load[r].buffer, UNCHANGED request,
         gate' \cup parts' \subseteq gate \cup parts \cup {r},
         UNCHANGED <<worldVars, switch, poolVars>>
  PROVE  OpenInv'
<1>1. r \in Requests /\ r \notin Lists /\ Sound(load[r], request[r])
      /\ load[r] \in Load /\ request[r] \in Request
  BY OpeningAssumption, InvTypes DEF Requests
<1>2. Sound(m, request[r])
  <2>1. CASE m.stage \in Early
    BY <1>1, <2>1, EarlySound
  <2>2. CASE m.stage = "failed"
    <3>1. BufferSends(load[r].buffer, request[r]) /\ load[r].stage \notin AtRest
      BY <1>1 DEF Sound, Early, AtRest
    <3>. QED
      BY <1>1, <2>2, <3>1, FailsSound
  <2>. QED
    BY <2>1, <2>2
<1>3. request' = [request EXCEPT ![r] = request[r]]
  BY DEF OpenInv, OpenTypes
<1>4. m.stage \notin AtRest /\ m.stage # "listed"
  BY DEF Early, AtRest
<1>. QED
  BY <1>1, <1>2, <1>3, <1>4, GoesOn

\* The same for a step that only changes the stage.
LEMMA StageMoves ==
  ASSUME OpenInv, NEW t \in Threads, NEW r \in Contents, Mine(t, r), load[r].stage \in Early,
         NEW s \in (Early \ {"listed"}) \cup {"failed"}, Goes(r, s), UNCHANGED request,
         gate' \cup parts' \subseteq gate \cup parts \cup {r},
         UNCHANGED <<worldVars, switch, poolVars>>
  PROVE  OpenInv'
<1>1. s \in Stages /\ r \in Requests /\ OpenTypes
  BY DEF Early, Stages, Requests, OpenInv
<1>2. PICK m \in Load : /\ load' = [load EXCEPT ![r] = m]
                        /\ m.stage = s /\ m.by = load[r].by /\ m.switch = load[r].switch
                        /\ m.row = load[r].row /\ m.offset = load[r].offset
                        /\ m.buffer = load[r].buffer
  BY <1>1, OnlyStage
<1>. QED
  BY <1>2, MovesOn

\* Whoever is at a stage of a content loads content.
LEMMA IsContent ==
  ASSUME OpenInv, NEW r \in Requests, load[r].stage \notin AtRest \cup {"begun", "listed"}
  PROVE  r \in Contents
BY DEF OpenInv, JobPart, ListStage, Requests

\* Login and permit: nothing is handed over.
LEMMA GateSteps ==
  ASSUME OpenInv, NEW t \in Threads, NEW r \in Requests, Login(t, r) \/ Admitted(t, r)
  PROVE  OpenInv'
<1>1. CASE Login(t, r)
  <2>1. /\ r \in Contents /\ Mine(t, r) /\ load[r].stage = "begun"
        /\ Goes(r, "gate") \/ Goes(r, "failed")
        /\ UNCHANGED <<worldVars, request, switch, gate, parts, poolVars>>
    BY <1>1 DEF Login, Stage, quiet
  <2>2. \E s \in {"gate", "failed"} : Goes(r, s)
    BY <2>1
  <2>. QED
    BY <2>1, <2>2, StageMoves DEF Early
<1>2. CASE Admitted(t, r)
  <2>1. /\ Mine(t, r) /\ load[r].stage = "gate" /\ gate' = gate \cup {r}
        /\ UNCHANGED <<worldVars, request, switch, parts, poolVars>>
    BY <1>2 DEF Admitted, Stage
  <2>2. \E s \in {"failed", "admitted"} : Goes(r, s)
    BY <1>2 DEF Admitted
  <2>3. r \in Contents
    BY <2>1, IsContent DEF AtRest
  <2>. QED
    BY <2>1, <2>2, <2>3, StageMoves DEF Early
<1>. QED
  BY <1>1, <1>2

\* The stream and its second attempt: the scratch file comes and goes, cldflt gets nothing.
LEMMA StreamSteps ==
  ASSUME OpenInv, NEW t \in Threads, NEW r \in Requests,
         StreamBegins(t, r) \/ SecondAttempt(t, r)
  PROVE  OpenInv'
<1>1. CASE StreamBegins(t, r)
  <2>1. /\ Mine(t, r) /\ load[r].stage = "admitted" /\ parts' = parts \cup {r}
        /\ UNCHANGED <<worldVars, request, switch, gate, poolVars>>
    BY <1>1 DEF StreamBegins, Stage
  <2>2. r \in Contents /\ load[r].stage \in Early
    BY <2>1, IsContent DEF AtRest, Early
  <2>3. CASE \E s \in {"stream", "failed"} : Goes(r, s)
    BY <2>1, <2>2, <2>3, StageMoves DEF Early
  <2>4. CASE load' = [load EXCEPT ![r].stage = IF load[r].again THEN "failed" ELSE "lapsed",
                                  ![r].again = TRUE]
    <3>1. load[r] \in Load /\ load \in [Requests -> Load]
      BY DEF OpenInv, OpenTypes
    <3>2. PICK s : s = IF load[r].again THEN "failed" ELSE "lapsed"
      OBVIOUS
    <3>3. PICK m : m = [load[r] EXCEPT !.stage = s, !.again = TRUE]
      OBVIOUS
    <3>4. load' = [load EXCEPT ![r] = m]
      BY <2>4, <3>1, <3>2, <3>3
    <3>5. s \in Stages /\ s \in (Early \ {"listed"}) \cup {"failed"}
      BY <3>2 DEF Stages, Early
    <3>6. /\ m \in Load /\ m.stage = s /\ m.by = load[r].by /\ m.switch = load[r].switch
          /\ m.row = load[r].row /\ m.offset = load[r].offset /\ m.buffer = load[r].buffer
      BY ONLY <3>1, <3>3, <3>5 DEF Load
    <3>. QED
      BY <2>1, <2>2, <3>4, <3>5, <3>6, MovesOn
  <2>. QED
    BY <1>1, <2>3, <2>4 DEF StreamBegins
<1>2. CASE SecondAttempt(t, r)
  <2>1. /\ Mine(t, r) /\ load[r].stage = "lapsed" /\ parts' \subseteq parts
        /\ UNCHANGED <<worldVars, request, switch, gate, poolVars>>
    BY <1>2 DEF SecondAttempt, Stage
  <2>2. \E s \in {"failed", "admitted"} : Goes(r, s)
    BY <1>2 DEF SecondAttempt
  <2>3. r \in Contents
    BY <2>1, IsContent DEF AtRest
  <2>. QED
    BY <2>1, <2>2, <2>3, StageMoves DEF Early
<1>. QED
  BY <1>1, <1>2

\* Whatever the server sends is a sequence of units.
LEMMA BodiesAre ==
  ASSUME NEW v \in Versions, NEW body \in Bodies(v)
  PROVE  body \in Seq(Unit)
<1>1. \A w \in Versions : Content(w) \in Seq(Unit) /\ Len(Content(w)) = Size[w] /\ Size[w] \in Nat \ {0}
  BY ContentIs
<1>2. CASE \E w \in Versions : body = Content(w)
  BY <1>1, <1>2
<1>3. CASE body = [Content(v) EXCEPT ![Size[v]].intact = FALSE]
  <2>1. PICK c : c = Content(v)
    OBVIOUS
  <2>2. PICK u : u = [c[Size[v]] EXCEPT !.intact = FALSE]
    OBVIOUS
  <2>3. c \in Seq(Unit) /\ Len(c) = Size[v] /\ Size[v] \in 1 .. Len(c)
    BY <1>1, <2>1
  <2>4. u \in Unit
    <3>1. c[Size[v]] \in Unit
      BY <2>3, ElementOfSeq
    <3>. QED
      BY ONLY <2>2, <3>1 DEF Unit
  <2>5. body = [c EXCEPT ![Size[v]] = u]
    BY <1>3, <2>1, <2>2
  <2>. QED
    BY ONLY <2>3, <2>4, <2>5
<1>4. CASE body = Front(Content(v))
  <2>1. body = SubSeq(Content(v), 1, Size[v] - 1)
    BY <1>1, <1>4 DEF Front
  <2>2. Size[v] - 1 \in 0 .. Size[v]
    BY <1>1
  <2>. QED
    BY <2>1, <2>2, Beginning
<1>. QED
  BY <1>2, <1>3, <1>4 DEF Bodies

\* The body runs into the scratch file, and the checksum is compared: only what is the listed
\* version is handed over.
LEMMA CheckSteps ==
  ASSUME OpenInv, NEW t \in Threads, NEW r \in Requests, StreamEnds(t, r) \/ Check(t, r)
  PROVE  OpenInv'
<1>1. load[r] \in Load /\ load \in [Requests -> Load]
  BY DEF OpenInv, OpenTypes
<1>2. CASE StreamEnds(t, r)
  <2>1. /\ Mine(t, r) /\ load[r].stage = "stream"
        /\ UNCHANGED <<worldVars, request, switch, gate, parts, poolVars>>
    BY <1>2 DEF StreamEnds, Stage, quiet
  <2>2. r \in Contents /\ load[r].stage \in Early
    BY <2>1, IsContent DEF AtRest, Early
  <2>3. CASE Goes(r, "failed")
    BY <2>1, <2>2, <2>3, StageMoves
  <2>4. ASSUME NEW body \in Bodies(load[r].row),
               load' = [load EXCEPT ![r].scratch = body,
                                    ![r].stage = IF Len(body) = Size[load[r].row]
                                                 THEN "check" ELSE "failed"]
        PROVE  OpenInv'
    <3>1. PICK s : s = IF Len(body) = Size[load[r].row] THEN "check" ELSE "failed"
      OBVIOUS
    <3>2. PICK m : m = [load[r] EXCEPT !.scratch = body, !.stage = s]
      OBVIOUS
    <3>3. load' = [load EXCEPT ![r] = m]
      BY <1>1, <2>4, <3>1, <3>2
    <3>4. s \in Stages /\ s \in (Early \ {"listed"}) \cup {"failed"}
      BY <3>1 DEF Stages, Early
    <3>5. body \in Seq(Unit)
      BY <1>1, BodiesAre DEF Load
    <3>6. /\ m \in Load /\ m.stage = s /\ m.by = load[r].by /\ m.switch = load[r].switch
          /\ m.row = load[r].row /\ m.offset = load[r].offset /\ m.buffer = load[r].buffer
      BY ONLY <1>1, <3>2, <3>4, <3>5 DEF Load
    <3>. QED
      BY <2>1, <2>2, <3>3, <3>4, <3>6, MovesOn
  <2>. QED
    BY <1>2, <2>3, <2>4 DEF StreamEnds
<1>3. CASE Check(t, r)
  <2>1. /\ Mine(t, r) /\ load[r].stage = "check"
        /\ UNCHANGED <<worldVars, request, switch, gate, parts, poolVars>>
    BY <1>3 DEF Check, Stage, quiet
  <2>2. r \in Contents /\ load[r].stage \in Early
    BY <2>1, IsContent DEF AtRest, Early
  <2>3. CASE ~Intact(r)
    <3>1. Goes(r, "failed")
      BY <1>3, <2>3 DEF Check
    <3>. QED
      BY <2>1, <2>2, <3>1, StageMoves
  <2>4. CASE Intact(r)
    <3>1. Goes(r, "hand") /\ OpenTypes /\ "hand" \in Stages
      BY <1>3, <2>4 DEF Check, OpenInv, Stages
    <3>2. PICK m \in Load : /\ load' = [load EXCEPT ![r] = m] /\ m = [load[r] EXCEPT !.stage = "hand"]
                            /\ m.stage = "hand" /\ m.by = load[r].by
                            /\ m.switch = load[r].switch
      BY <3>1, OnlyStage
    <3>3. request[r] \in Request /\ Sound(load[r], request[r])
      BY <2>2, InvTypes
    <3>4. Sound(m, request[r])
      BY <1>1, <2>1, <2>4, <3>2, <3>3, CheckSound DEF Intact
    <3>5. request' = [request EXCEPT ![r] = request[r]]
      BY <2>1 DEF OpenInv, OpenTypes
    <3>6. r \notin Lists
      BY <2>2, OpeningAssumption
    <3>. QED
      BY <2>1, <3>2, <3>3, <3>4, <3>5, <3>6, GoesOn DEF AtRest
  <2>. QED
    BY <2>3, <2>4
<1>. QED
  BY <1>2, <1>3

\* A load that may be handed over, at any of its pieces.
LEMMA HandedLoad ==
  ASSUME OpenInv, NEW r \in Requests, load[r].stage \in Handing \cup {"failed"}
  PROVE  /\ r \in Contents /\ r \notin Lists
         /\ load[r] \in Load /\ request[r] \in Request /\ Sound(load[r], request[r])
         /\ load[r].stage \notin AtRest
         /\ load \in [Requests -> Load]
         /\ request' = request => request' = [request EXCEPT ![r] = request[r]]
<1>1. r \in Contents /\ r \notin Lists /\ load[r].stage \notin AtRest
  BY IsContent, OpeningAssumption DEF Handing, AtRest
<1>. QED
  BY <1>1, InvTypes DEF OpenInv, OpenTypes

\* A load that fails, at any of its pieces.
LEMMA HandFails ==
  ASSUME OpenInv, NEW t \in Threads, NEW r \in Requests, Mine(t, r), load[r].stage \in Handing,
         NEW m \in Load, load' = [load EXCEPT ![r] = m], m.stage = "failed",
         m.by = load[r].by, m.switch = load[r].switch, m.row = load[r].row,
         BufferSends(m.buffer, request[r]), UNCHANGED request,
         gate' \cup parts' \subseteq gate \cup parts,
         UNCHANGED <<worldVars, switch, poolVars>>
  PROVE  OpenInv'
<1>1. /\ r \in Contents /\ r \notin Lists
      /\ load[r] \in Load /\ request[r] \in Request /\ Sound(load[r], request[r])
      /\ load[r].stage \notin AtRest
      /\ request' = [request EXCEPT ![r] = request[r]]
  BY HandedLoad
<1>2. Sound(m, request[r])
  BY <1>1, FailsSound
<1>. QED
  BY <1>1, <1>2, GoesOn DEF AtRest

\* The same for a step that only changes the stage.
LEMMA StageFails ==
  ASSUME OpenInv, NEW t \in Threads, NEW r \in Requests, Mine(t, r), load[r].stage \in Handing,
         Goes(r, "failed"), UNCHANGED request, gate' \cup parts' \subseteq gate \cup parts,
         UNCHANGED <<worldVars, switch, poolVars>>
  PROVE  OpenInv'
<1>1. OpenTypes /\ "failed" \in Stages
  BY DEF OpenInv, Stages
<1>2. PICK m \in Load : /\ load' = [load EXCEPT ![r] = m] /\ m.stage = "failed"
                        /\ m.by = load[r].by /\ m.switch = load[r].switch
                        /\ m.row = load[r].row /\ m.buffer = load[r].buffer
  BY <1>1, OnlyStage
<1>3. BufferSends(load[r].buffer, request[r])
  BY HandedLoad DEF Sound
<1>. QED
  BY <1>2, <1>3, HandFails

\* hand_over looks at the switch before each piece.
LEMMA LookStep ==
  ASSUME OpenInv, NEW t \in Threads, NEW r \in Requests, HandLooks(t, r)
  PROVE  OpenInv'
<1> DEFINE l == load[r]
           s == CASE l.switch -> "failed"
                  [] ~l.switch /\ l.offset < Len(l.scratch) -> "piece"
                  [] ~l.switch /\ l.offset = Len(l.scratch) -> "handed"
<1>1. /\ Mine(t, r) /\ load[r].stage = "hand" /\ Goes(r, s)
      /\ UNCHANGED <<worldVars, request, switch, gate, parts, poolVars>>
  BY DEF HandLooks, Stage, quiet
<1>2. /\ r \in Contents /\ r \notin Lists /\ load[r] \in Load /\ request[r] \in Request
      /\ Sound(load[r], request[r]) /\ request' = [request EXCEPT ![r] = request[r]]
  BY <1>1, HandedLoad DEF Handing
<1>3. CASE l.switch
  <2>1. Goes(r, "failed")
    BY <1>1, <1>3
  <2>. QED
    BY <1>1, <2>1, StageFails DEF Handing
<1>4. CASE ~l.switch
  <2>1. l.offset <= Len(l.scratch) /\ l.offset \in Nat /\ Len(l.scratch) \in Nat
    BY <1>1, <1>2, Fields, ContentIs DEF Sound, Handing, Checked
  <2>2. \/ l.offset < Len(l.scratch) /\ s = "piece"
        \/ l.offset = Len(l.scratch) /\ s = "handed"
    BY <1>4, <2>1
  <2> HIDE DEF s
  <2>3. s \in Stages /\ s \notin AtRest /\ s # "listed" /\ OpenTypes
    BY <2>2 DEF Stages, AtRest, OpenInv
  <2>4. PICK m \in Load : /\ load' = [load EXCEPT ![r] = m] /\ m = [load[r] EXCEPT !.stage = s]
                          /\ m.stage = s /\ m.by = load[r].by /\ m.switch = load[r].switch
    BY <1>1, <2>3, OnlyStage
  <2>5. Sound(m, request[r])
    BY <1>1, <1>2, <1>4, <2>2, <2>4, LookSound
  <2>. QED
    BY <1>1, <1>2, <2>3, <2>4, <2>5, GoesOn
<1>. QED
  BY <1>3, <1>4

\* A piece is taken, or cldflt refuses the chunk, or the placeholder is full.
LEMMA PieceStep ==
  ASSUME OpenInv, NEW t \in Threads, NEW r \in Requests, HandPiece(t, r)
  PROVE  OpenInv'
<1> DEFINE l == load[r]
           q == request[r]
           b == load[r].buffer
<1>1. /\ Mine(t, r) /\ load[r].stage = "piece"
      /\ UNCHANGED <<worldVars, switch, gate, parts, poolVars>>
  BY DEF HandPiece, Stage, quiet
<1>2. /\ r \in Contents /\ r \notin Lists /\ l \in Load /\ q \in Request /\ Sound(l, q)
      /\ load \in [Requests -> Load] /\ request \in [Requests -> Request]
  BY <1>1, HandedLoad DEF Handing, OpenInv, OpenTypes
<1>3. CASE /\ Fits(b, l.offset, 1)
           /\ load' = [load EXCEPT ![r].stage = "hand", ![r].offset = @ + 1, ![r].buffer = Taken(b, 1)]
           /\ request' = Sent(r, Taken(b, 1).sent)
  <2>1. PICK c : c = Taken(l.buffer, 1)
    OBVIOUS
  <2>2. PICK s, late : /\ s = SubSeq(l.scratch, 1, c.sent)
                       /\ late = IF l.switch /\ c.sent > Len(q.got) THEN q.late + 1 ELSE q.late
    OBVIOUS
  <2>3. PICK m, p : /\ m = [l EXCEPT !.stage = "hand", !.offset = l.offset + 1, !.buffer = c]
                    /\ p = [q EXCEPT !.got = s, !.late = late]
    OBVIOUS
  <2>4. /\ c \in Buffer /\ s \in Seq(Unit) /\ late \in Nat /\ l.offset + 1 \in Nat
        /\ "hand" \in Stages
    <3>1. c \in Buffer /\ s \in Seq(Unit)
      BY <1>1, <1>2, <1>3, <2>1, <2>2, PieceFits
    <3>2. l.offset \in Nat /\ q.late \in Nat
      BY <1>2, Fields
    <3>. QED
      BY <2>2, <3>1, <3>2 DEF Stages
  <2>5. load' = [load EXCEPT ![r] = m] /\ request' = [request EXCEPT ![r] = p]
    BY <1>2, <1>3, <2>1, <2>2, <2>3 DEF Sent
  <2>6. /\ m \in Load /\ m.stage = "hand" /\ m.offset = l.offset + 1 /\ m.buffer = c
        /\ m.row = l.row /\ m.switch = l.switch /\ m.scratch = l.scratch /\ m.by = l.by
    BY ONLY <1>2, <2>3, <2>4 DEF Load
  <2>7. /\ p \in Request /\ p.got = s /\ p.late = late
        /\ p.offset = q.offset /\ p.length = q.length /\ p.size = q.size
        /\ p.answer = q.answer /\ p.failed = q.failed
    BY ONLY <1>2, <2>3, <2>4 DEF Request
  <2>8. Sound(m, p)
    BY <1>1, <1>2, <1>3, <2>1, <2>2, <2>6, <2>7, PieceSound
  <2>. QED
    BY <1>1, <1>2, <2>5, <2>6, <2>7, <2>8, GoesOn DEF AtRest
<1>4. CASE /\ load' = [load EXCEPT ![r].stage = "failed", ![r].buffer = Stuck(b, 1)]
           /\ UNCHANGED request
  <2>1. PICK c : c = Stuck(b, 1)
    OBVIOUS
  <2>2. PICK m : m = [l EXCEPT !.stage = "failed", !.buffer = c]
    OBVIOUS
  <2>3. b \in Buffer
    BY <1>2, Fields
  <2>4. c \in Buffer /\ c.total = b.total /\ c.sent = b.sent
    <3>1. PICK d \in Buffer : d = b
      BY <2>3
    <3>2. d.received + 1 \in Nat /\ d.buf + 1 \in Nat
      BY DEF Buffer
    <3>3. c = [d EXCEPT !.received = d.received + 1, !.buf = d.buf + 1]
      BY <2>1, <3>1 DEF Stuck
    <3>4. c \in Buffer /\ c.total = d.total /\ c.sent = d.sent
      BY ONLY <3>2, <3>3, d \in Buffer DEF Buffer
    <3>. QED
      BY <3>1, <3>4
  <2>5. load' = [load EXCEPT ![r] = m]
    BY <1>2, <1>4, <2>1, <2>2
  <2>6. "failed" \in Stages
    BY DEF Stages
  <2>7. /\ m \in Load /\ m.stage = "failed" /\ m.buffer = c /\ m.by = l.by
        /\ m.switch = l.switch /\ m.row = l.row
    BY ONLY <1>2, <2>2, <2>4, <2>6 DEF Load
  <2>8. BufferSends(c, q)
    BY <1>1, <1>2, <2>4 DEF Sound, BufferSends, AtRest
  <2>. QED
    BY <1>1, <1>4, <2>5, <2>7, <2>8, HandFails DEF Handing
<1>5. CASE Goes(r, "failed") /\ UNCHANGED request
  BY <1>1, <1>5, StageFails DEF Handing
<1>. QED
  BY <1>3, <1>4, <1>5 DEF HandPiece

\* A request that is answered without data, or with an error.
LEMMA OverStep ==
  ASSUME OpenInv, NEW t \in Threads, NEW r \in Requests, Mine(t, r),
         NEW answer \in {"answered", "silent", "error"}, NEW failed \in Seq(Nat),
         Over(t, r, answer, failed), r \notin parts \cup gate,
         NEW p, p = [request[r] EXCEPT !.answer = answer, !.failed = failed],
         r \in Contents => Sound(Ended(r), p)
  PROVE  OpenInv'
<1>1. request[r] \in Request /\ request \in [Requests -> Request]
  BY DEF OpenInv, OpenTypes
<1>2. p \in Request
  BY <1>1 DEF Request
<1>3. request' = [request EXCEPT ![r] = p]
  BY <1>1 DEF Over
<1>. QED
  BY <1>2, <1>3, IsOver DEF Over

\* complete: scratch file and permit go; then all has arrived and the rest goes out, or the load
\* has failed.
LEMMA CompleteStep ==
  ASSUME OpenInv, NEW t \in Threads, NEW r \in Requests, Complete(t, r)
  PROVE  OpenInv'
<1> DEFINE l == load[r]
           q == request[r]
           b == load[r].buffer
<1>1. Mine(t, r) /\ load[r].stage = "handed" /\ UNCHANGED worldVars
  BY DEF Complete, Stage
<1>2. /\ r \in Contents /\ r \notin Lists /\ l \in Load /\ q \in Request /\ Sound(l, q)
      /\ load \in [Requests -> Load] /\ request \in [Requests -> Request]
  BY <1>1, HandedLoad DEF Handing, OpenInv, OpenTypes
<1>3. CASE /\ r \notin parts \cup gate
           /\ Arrived(b)
           /\ load' = [load EXCEPT ![r] = Ended(r)]
           /\ request' = [Sent(r, Completed(b).sent) EXCEPT ![r].answer = "data"]
           /\ switch' = switch \ {r}
           /\ JobReturns(t)
           /\ UNCHANGED <<gate, parts, jobs, threads, busy, end, creating, refused>>
  <2>1. PICK p : p = [[q EXCEPT !.got = SubSeq(l.scratch, 1, Completed(l.buffer).sent),
                                !.late = IF l.switch /\ Completed(l.buffer).sent > Len(q.got)
                                         THEN @ + 1 ELSE @]
                      EXCEPT !.answer = "data"]
    OBVIOUS
  <2>2. /\ Ended(r) \in Load /\ Ended(r).stage = "over" /\ Ended(r).row = l.row
    BY EndedIs DEF OpenInv
  <2>3. p \in Request /\ Sound(Ended(r), p)
    BY <1>1, <1>2, <1>3, <2>1, <2>2, CompleteSound
  <2>4. request' = [request EXCEPT ![r] = p]
    BY <1>2, <1>3, <2>1 DEF Sent
  <2>. QED
    BY <1>1, <1>3, <2>3, <2>4, IsOver
<1>4. CASE Goes(r, "failed") /\ UNCHANGED <<request, switch, gate, parts, poolVars>>
  BY <1>1, <1>4, StageFails DEF Handing
<1>5. CASE /\ parts' = parts \ {r} /\ gate' = gate \ {r}
           /\ UNCHANGED <<request, load, switch, poolVars>>
  <2>1. load' = [load EXCEPT ![r] = l] /\ request' = [request EXCEPT ![r] = q]
    BY <1>2, <1>5
  <2>. QED
    BY <1>1, <1>2, <1>5, <2>1, GoesOn DEF AtRest
<1>. QED
  BY <1>3, <1>4, <1>5 DEF Complete

\* An error of the engine: first the scratch file and the permit, then the report.
LEMMA FailStep ==
  ASSUME OpenInv, NEW t \in Threads, NEW r \in Requests, Fail(t, r)
  PROVE  OpenInv'
<1> DEFINE l == load[r]
           q == request[r]
           open == error_domain(q.offset, q.length, q.size, l.buffer.sent)
<1>1. Mine(t, r) /\ load[r].stage = "failed"
  BY DEF Fail, Stage
<1>2. /\ r \in Contents /\ r \notin Lists /\ l \in Load /\ q \in Request /\ Sound(l, q)
      /\ load \in [Requests -> Load] /\ request \in [Requests -> Request]
  BY <1>1, HandedLoad DEF OpenInv, OpenTypes
<1>3. CASE r \in parts \cup gate
  <2>1. /\ parts' = parts \ {r} /\ gate' = gate \ {r}
        /\ UNCHANGED <<worldVars, request, load, switch, poolVars>>
    BY <1>3 DEF Fail
  <2>2. load' = [load EXCEPT ![r] = l] /\ request' = [request EXCEPT ![r] = q]
    BY <1>2, <2>1
  <2>. QED
    BY <1>1, <1>2, <2>1, <2>2, GoesOn DEF AtRest
<1>4. CASE r \notin parts \cup gate
  <2>1. PICK answer : answer = IF open = <<>> THEN "silent" ELSE "error"
    OBVIOUS
  <2>2. answer \in {"silent", "error"} /\ Over(t, r, answer, open)
    BY <1>4, <2>1 DEF Fail
  <2>3. PICK p : p = [q EXCEPT !.answer = answer, !.failed = open]
    OBVIOUS
  <2>4. /\ Ended(r) \in Load /\ Ended(r).stage = "over" /\ Ended(r).row = l.row
    BY EndedIs DEF OpenInv
  <2>5. p \in Request /\ Sound(Ended(r), p)
    BY <1>1, <1>2, <2>2, <2>3, <2>4, FailureSound
  <2>6. open \in Seq(Nat)
    <3>1. p.failed = open
      BY ONLY <1>2, <2>3 DEF Request
    <3>. QED
      BY <2>5, <3>1 DEF Request
  <2>. QED
    BY <1>1, <1>4, <2>2, <2>3, <2>5, <2>6, OverStep
<1>. QED
  BY <1>3, <1>4

\* A folder: one call, one look at the switch, one answer.
LEMMA ListSteps ==
  ASSUME OpenInv, NEW t \in Threads, NEW r \in Requests, ListArrives(t, r) \/ ListAnswers(t, r)
  PROVE  OpenInv'
<1>1. Mine(t, r) /\ r \in Lists /\ r \notin Contents /\ load[r].stage \notin AtRest
  <2>1. load[r].stage \in {"begun", "listed"} /\ Mine(t, r)
    BY DEF ListArrives, ListAnswers, Stage
  <2>2. r \in Lists
    BY <2>1 DEF ListArrives, ListAnswers, OpenInv, JobPart, ListStage, Stage
  <2>. QED
    BY <2>1, <2>2, OpeningAssumption DEF AtRest
<1>2. r \notin parts \cup gate
  BY <1>1 DEF OpenInv, JobPart, HeldByLoads
<1>3. CASE \E answer \in {"answered", "silent"} : Over(t, r, answer, <<>>)
  <2>1. <<>> \in Seq(Nat)
    BY EmptySeq
  <2>. QED
    BY <1>1, <1>2, <1>3, <2>1, OverStep
<1>4. CASE Goes(r, "listed") /\ UNCHANGED <<quiet, request>>
  <2>1. OpenTypes /\ "listed" \in Stages
    BY DEF OpenInv, Stages
  <2>2. PICK m \in Load : /\ load' = [load EXCEPT ![r] = m] /\ m.stage = "listed"
                          /\ m.by = load[r].by /\ m.switch = load[r].switch
    BY <1>4, <2>1, OnlyStage
  <2>3. request[r] \in Request /\ request' = [request EXCEPT ![r] = request[r]]
    BY <1>4 DEF OpenInv, OpenTypes
  <2>. QED
    BY <1>1, <1>4, <2>2, <2>3, GoesOn DEF AtRest, quiet
<1>. QED
  BY <1>3, <1>4 DEF ListArrives, ListAnswers

\* Every step of a job.
LEMMA JobStep ==
  ASSUME OpenInv, NEW t \in Threads, NEW r \in Requests, Job(t, r)
  PROVE  OpenInv'
BY GateSteps, StreamSteps, CheckSteps, LookStep, PieceStep, CompleteStep, FailStep, ListSteps DEF Job

-------------------------------------------------------------------------------
(***************************************************************************)
(* The steps beside the jobs.                                              *)
(***************************************************************************)
\* A step of the pool or of the connection that neither gives nor takes a job.
LEMMA NoJobMoves ==
  ASSUME OpenInv, PoolBooks', Settled', row' \in Versions,
         link' \in {"up", "aborted", "ending", "off"},
         UNCHANGED <<request, load, switch, gate, parts, jobs>>,
         \A t \in Threads : thread'[t] = "running" <=> thread[t] = "running"
  PROVE  OpenInv'
<1>1. OpenTypes'
  BY DEF OpenInv, OpenTypes
<1>2. PoolPart'
  BY DEF PoolPart, PoolBooks
<1>3. JobsOnce' /\ OneJobEach'
  BY DEF OpenInv, JobPart, JobsOnce, Stage, OneJobEach
<1>4. ByStage' /\ ListStage' /\ Cancellable' /\ HeldByLoads' /\ ContentsSound'
  BY DEF OpenInv, JobPart, ByStage, ListStage, Cancellable, HeldByLoads, Running, ContentsSound
<1>. QED
  BY <1>1, <1>2, <1>3, <1>4 DEF OpenInv, JobPart

\* A thread comes to be, sleeps, wakes, leaves, gives its booking back: no job moves.
LEMMA ThreadStep ==
  ASSUME OpenInv, NEW t \in Threads, UNCHANGED openVars,
         Created(t) \/ Leaves(t) \/ Waits(t) \/ IdleTimeOver(t) \/ SentryDrops(t)
  PROVE  OpenInv'
<1>1. PoolBooks /\ thread \in [Threads -> Doing]
  BY DEF OpenInv, PoolPart, PoolBooks, PoolTypeOK
<1>2. PoolBooks'
  BY <1>1, ThreadBooks
<1>3. UNCHANGED <<row, link, request, load, switch, gate, parts>>
  BY DEF openVars
<1>4. PICK w \in Doing \ {"running"} : thread' = [thread EXCEPT ![t] = w]
  BY DEF Created, Leaves, Waits, IdleTimeOver, SentryDrops, Doing
<1>5. UNCHANGED jobs /\ thread[t] # "running"
  BY DEF Created, Leaves, Waits, IdleTimeOver, SentryDrops, Looks
<1>6. Settled'
  <2>1. CASE Created(t)
    <3>1. creating > 0
      BY <2>1 DEF Created
    <3>. QED
      BY <1>3, <3>1 DEF OpenInv, PoolPart, Settled
  <2>2. CASE Leaves(t) \/ Waits(t) \/ IdleTimeOver(t) \/ SentryDrops(t)
    <3>1. thread[t] # "none" /\ UNCHANGED creating
      BY <2>2 DEF Leaves, Waits, IdleTimeOver, SentryDrops, Looks
    <3>. QED
      BY <1>3, <3>1 DEF OpenInv, PoolPart, Settled, AllJoined
  <2>. QED
    BY <2>1, <2>2
<1>7. row \in Versions /\ link \in {"up", "aborted", "ending", "off"}
  BY DEF OpenInv, OpenTypes
<1>8. \A u \in Threads : thread'[u] = "running" <=> thread[u] = "running"
  BY <1>1, <1>4, <1>5
<1>. QED
  BY <1>2, <1>3, <1>5, <1>6, <1>7, <1>8, NoJobMoves

\* The system refuses a thread.
LEMMA NoThreadStep ==
  ASSUME OpenInv, NoThread
  PROVE  OpenInv'
<1>1. Refused /\ UNCHANGED <<row, link, request, load, switch, gate, parts>>
  BY DEF NoThread, openVars
<1>2. PoolBooks /\ PoolBooks'
  BY <1>1, WakeBooks DEF OpenInv, PoolPart, PoolBooks
<1>3. Settled'
  <2>1. creating > 0
    BY <1>1 DEF Refused
  <2>. QED
    BY <1>1, <2>1 DEF OpenInv, PoolPart, Settled
<1>4. UNCHANGED jobs /\ \A u \in Threads : thread'[u] = "running" <=> thread[u] = "running"
  BY <1>1 DEF Refused, Awakened
<1>. QED
  BY <1>1, <1>2, <1>3, <1>4, NoJobMoves DEF OpenInv, OpenTypes

\* The connection comes down and up again; a listing with another version arrives.
LEMMA LinkSteps ==
  ASSUME OpenInv, Stop \/ Stopped \/ Connect \/ Relisted
  PROVE  OpenInv'
<1>1. /\ PoolBooks /\ Settled /\ row \in Versions /\ link \in {"up", "aborted", "ending", "off"}
  BY DEF OpenInv, OpenTypes, PoolPart, PoolBooks
<1>2. CASE Stop
  <2>1. /\ creating = 0 /\ EndsAccepting /\ link' = "ending"
        /\ UNCHANGED <<row, request, load, switch, gate, parts>>
    BY <1>2 DEF Stop
  <2>2. PoolBooks'
    BY <1>1, <2>1, WakeBooks
  <2>3. /\ UNCHANGED <<jobs, creating>>
        /\ \A u \in Threads : thread'[u] = "running" <=> thread[u] = "running"
    BY <2>1 DEF EndsAccepting, Awakened
  <2>. QED
    BY <1>1, <2>1, <2>2, <2>3, NoJobMoves DEF Settled
<1>3. CASE Stopped
  <2>1. /\ link = "ending" /\ AllJoined /\ link' = "off"
        /\ UNCHANGED <<row, request, load, switch, gate, parts>>
        /\ UNCHANGED <<jobs, threads, busy, end, thread, creating, refused>>
    BY <1>3 DEF Stopped, poolVars
  <2>2. PoolBooks'
    BY <1>1, <2>1, NobodyTurns DEF PoolBooks, PoolTypeOK, Counted, max
  <2>3. Settled'
    BY <1>1, <2>1 DEF Settled, AllJoined
  <2>. QED
    BY <1>1, <2>1, <2>2, <2>3, NoJobMoves
<1>4. CASE Connect
  <2>1. /\ link' = "up" /\ end' = FALSE
        /\ UNCHANGED <<row, request, load, switch, gate, parts>>
        /\ UNCHANGED <<jobs, threads, busy, thread, creating, refused>>
    BY <1>4 DEF Connect, AcceptAgain
  <2>2. PoolBooks'
    BY <1>1, <2>1, NobodyTurns DEF PoolBooks, PoolTypeOK, Counted, max
  <2>3. Settled'
    BY <2>1 DEF Settled
  <2>. QED
    BY <1>1, <2>1, <2>2, <2>3, NoJobMoves
<1>5. CASE Relisted
  <2>1. /\ row' \in Versions /\ UNCHANGED <<link, request, load, switch, gate, parts>>
        /\ UNCHANGED <<jobs, threads, busy, end, thread, creating, refused>>
    BY <1>5 DEF Relisted, poolVars
  <2>2. PoolBooks'
    BY <1>1, <2>1, NobodyTurns DEF PoolBooks, PoolTypeOK, Counted, max
  <2>3. Settled'
    BY <1>1, <2>1 DEF Settled, AllJoined
  <2>. QED
    BY <1>1, <2>1, <2>2, <2>3, NoJobMoves
<1>. QED
  BY <1>2, <1>3, <1>4, <1>5

\* Switches flip.
LEMMA Flips ==
  ASSUME OpenInv, load' \in [Requests -> Load],
         \A x \in Requests : /\ load'[x].stage = load[x].stage /\ load'[x].by = load[x].by
                             /\ load'[x].row = load[x].row /\ load'[x].offset = load[x].offset
                             /\ load'[x].buffer = load[x].buffer
                             /\ load'[x].scratch = load[x].scratch
                             /\ load[x].switch => load'[x].switch,
         switch' \subseteq switch,
         \A x \in Requests : x \in switch => x \in switch' \/ load'[x].switch,
         link' \in {link, "aborted"},
         UNCHANGED <<row, request, gate, parts, poolVars>>
  PROVE  OpenInv'
<1>1. UNCHANGED <<jobs, threads, busy, end, thread, creating, refused>>
  BY DEF poolVars
<1>2. OpenTypes'
  BY DEF OpenInv, OpenTypes
<1>3. PoolPart'
  BY <1>1, NobodyTurns DEF OpenInv, PoolPart, PoolTypeOK, Counted, Settled, AllJoined, max
<1>4. Running' = Running
  BY DEF Running
<1>5. JobsOnce' /\ OneJobEach'
  <2>1. \A x \in Requests : load'[x].stage = load[x].stage /\ load'[x].by = load[x].by
    OBVIOUS
  <2>. QED
    BY <1>1, <2>1 DEF OpenInv, JobPart, JobsOnce, Stage, OneJobEach
<1>6. ByStage' /\ ListStage'
  BY DEF OpenInv, JobPart, ByStage, ListStage
<1>7. Cancellable' /\ HeldByLoads'
  BY <1>4 DEF OpenInv, JobPart, Cancellable, HeldByLoads, Running
<1>8. ContentsSound'
  <2>1. ASSUME NEW x \in Contents PROVE Sound(load'[x], request'[x])
    <3>1. /\ x \in Requests /\ load[x] \in Load /\ request[x] \in Request
          /\ Sound(load[x], request[x]) /\ load'[x] \in Load
      BY InvTypes DEF Requests
    <3>. QED
      BY <3>1, SwitchSound
  <2>. QED
    BY <2>1 DEF ContentsSound
<1>. QED
  BY <1>2, <1>3, <1>5, <1>6, <1>7, <1>8 DEF OpenInv, JobPart

\* CANCEL, and the disconnect that flips every switch.
LEMMA AbortSteps ==
  ASSUME OpenInv, (\E r \in Requests : on_abort(r)) \/ all_abort
  PROVE  OpenInv'
<1>1. load \in [Requests -> Load] /\ switch \subseteq Requests
  BY DEF OpenInv, OpenTypes
<1>2. ASSUME NEW r \in Requests, on_abort(r) PROVE OpenInv'
  <2>1. PICK l \in Load : l = load[r]
    BY <1>1
  <2>2. PICK m : m = [l EXCEPT !.switch = TRUE]
    OBVIOUS
  <2>3. /\ m \in Load /\ m.stage = l.stage /\ m.by = l.by /\ m.row = l.row
        /\ m.offset = l.offset /\ m.buffer = l.buffer /\ m.scratch = l.scratch /\ m.switch = TRUE
    BY ONLY l \in Load, <2>2 DEF Load
  <2>4. load' = [load EXCEPT ![r] = m]
    BY <1>1, <1>2, <2>1, <2>2 DEF on_abort
  <2>5. load' \in [Requests -> Load]
        /\ \A x \in Requests : load'[x] = IF x = r THEN m ELSE load[x]
    BY <1>1, <2>3, <2>4
  <2>6. UNCHANGED <<row, link, request, switch, gate, parts, poolVars>>
    BY <1>2 DEF on_abort, worldVars
  <2>. QED
    BY <2>1, <2>3, <2>5, <2>6, Flips
<1>3. ASSUME all_abort PROVE OpenInv'
  <2>1. /\ load' = [r \in Requests |-> [load[r] EXCEPT !.switch = @ \/ r \in switch]]
        /\ switch' = {} /\ link' = "aborted"
        /\ UNCHANGED <<row, request, gate, parts, poolVars>>
    BY <1>3 DEF all_abort
  <2>2. ASSUME NEW x \in Requests
        PROVE  /\ load'[x] \in Load
               /\ load'[x].stage = load[x].stage /\ load'[x].by = load[x].by
               /\ load'[x].row = load[x].row /\ load'[x].offset = load[x].offset
               /\ load'[x].buffer = load[x].buffer /\ load'[x].scratch = load[x].scratch
               /\ load'[x].switch = (load[x].switch \/ x \in switch)
    <3>1. PICK l \in Load : l = load[x]
      BY <1>1
    <3>2. PICK b \in BOOLEAN : b = (l.switch \/ x \in switch)
      OBVIOUS
    <3>3. PICK m : m = [l EXCEPT !.switch = b]
      OBVIOUS
    <3>4. load'[x] = m
      BY <2>1, <3>1, <3>2, <3>3
    <3>5. /\ m \in Load /\ m.stage = l.stage /\ m.by = l.by /\ m.row = l.row
          /\ m.offset = l.offset /\ m.buffer = l.buffer /\ m.scratch = l.scratch /\ m.switch = b
      BY ONLY l \in Load, b \in BOOLEAN, <3>3 DEF Load
    <3>. QED
      BY <3>1, <3>2, <3>4, <3>5
  <2>3. load' \in [Requests -> Load]
    BY <2>1, <2>2
  <2>. QED
    BY <2>1, <2>2, <2>3, Flips
<1>. QED
  BY <1>2, <1>3

\* A callback gives a job to the pool: it stands in the queue once.
LEMMA AskedStep ==
  ASSUME OpenInv, NEW r \in Requests, NEW size \in Nat, NEW range,
         range[1] \in Nat, range[2] \in Nat \cup {CF_EOF},
         r \in Contents => size # 0 /\ range \in Ranges(size),
         Asked(r, range, size)
  PROVE  OpenInv'
<1>1. /\ load[r].stage = "new" /\ Goes(r, "queued") /\ Give(r) /\ link \in {"up", "aborted"}
      /\ UNCHANGED <<row, link, switch, gate, parts>>
  BY DEF Asked, Stage, worldVars
<1>2. OpenTypes /\ "queued" \in Stages
  BY DEF OpenInv, Stages
<1>3. PICK m \in Load : /\ load' = [load EXCEPT ![r] = m]
                        /\ m.stage = "queued" /\ m.by = load[r].by /\ m.switch = load[r].switch
                        /\ m.row = load[r].row /\ m.offset = load[r].offset
  BY <1>1, <1>2, OnlyStage
<1>4. PICK p : p = [NoRequest EXCEPT !.offset = range[1], !.length = range[2], !.size = size]
  OBVIOUS
<1>5. p \in Request
  <2>1. PICK from \in Nat, length \in Nat \cup {CF_EOF} : from = range[1] /\ length = range[2]
    OBVIOUS
  <2>2. p = [offset |-> from, length |-> length, size |-> size, got |-> <<>>,
             failed |-> <<>>, answer |-> "none", late |-> 0]
    BY <1>4, <2>1 DEF NoRequest
  <2>3. <<>> \in Seq(Unit) /\ <<>> \in Seq(Nat) /\ 0 \in Nat
    OBVIOUS
  <2>. QED
    BY ONLY <2>2, <2>3, from \in Nat, length \in Nat \cup {CF_EOF}, size \in Nat DEF Request
<1>6. request' = [request EXCEPT ![r] = p]
  BY <1>4 DEF Asked
<1>7. /\ load' \in [Requests -> Load] /\ request' \in [Requests -> Request]
      /\ \A x \in Requests : /\ load'[x] = IF x = r THEN m ELSE load[x]
                             /\ request'[x] = IF x = r THEN p ELSE request[x]
  BY <1>2, <1>3, <1>5, <1>6, OneLoad
<1>8. OpenTypes'
  BY <1>1, <1>7 DEF OpenInv, OpenTypes
<1>9. PoolBooks /\ PoolBooks'
  BY <1>1, GiveBooks DEF OpenInv, PoolPart, PoolBooks
<1>10. PoolPart'
  BY <1>1, <1>9 DEF PoolPart, PoolBooks, Settled
<1>11. \A u \in Threads : thread'[u] = "running" <=> thread[u] = "running"
  <2>1. thread \in [Threads -> Doing]
    BY <1>9 DEF PoolBooks, PoolTypeOK
  <2>2. UNCHANGED thread \/ \E u \in Is("waiting") : thread' = [thread EXCEPT ![u] = "ready"]
    BY <1>1 DEF Give, NotifyOne
  <2>. QED
    BY <2>1, <2>2 DEF Is
<1>12. \A x \in Requests : load'[x].by = load[x].by /\ load'[x].switch = load[x].switch
  BY <1>3, <1>7
<1>13. Running' = Running
  BY <1>12 DEF Running
<1>14. JobsOnce'
  <2>1. jobs \in Seq(Requests) /\ jobs' = Append(jobs, r)
    BY <1>1, <1>9 DEF Give, PoolBooks, PoolTypeOK
  <2>2. /\ Len(jobs) \in Nat /\ DOMAIN jobs = 1 .. Len(jobs)
        /\ DOMAIN jobs' = 1 .. Len(jobs) + 1
        /\ jobs'[Len(jobs) + 1] = r
        /\ \A i \in 1 .. Len(jobs) : jobs'[i] = jobs[i]
    BY <2>1, AppendProperties, LenProperties
  <2>3. \A i \in DOMAIN jobs : jobs[i] # r
    BY <1>1 DEF OpenInv, JobPart, JobsOnce, Stage
  <2>4. \A x \in Requests : Stage(x, "queued")' <=> Stage(x, "queued") \/ x = r
    BY <1>3, <1>7 DEF Stage
  <2>5. \A i, j \in DOMAIN jobs' : jobs'[i] = jobs'[j] => i = j
    BY <2>2, <2>3 DEF OpenInv, JobPart, JobsOnce
  <2>6. \A x \in Requests : (\E i \in DOMAIN jobs' : jobs'[i] = x)
                              <=> (\E i \in DOMAIN jobs : jobs[i] = x) \/ x = r
    BY <2>2
  <2>. QED
    BY <2>4, <2>5, <2>6 DEF OpenInv, JobPart, JobsOnce
<1>15. OneJobEach'
  BY <1>11, <1>12 DEF OpenInv, JobPart, OneJobEach
<1>16. ByStage' /\ ListStage'
  BY <1>1, <1>3, <1>7 DEF OpenInv, JobPart, ByStage, ListStage, AtRest
<1>17. Cancellable' /\ HeldByLoads'
  BY <1>1, <1>12, <1>13 DEF OpenInv, JobPart, Cancellable, HeldByLoads, Running
<1>18. ContentsSound'
  <2>1. ASSUME r \in Contents PROVE Sound(m, p)
    <3>1. load[r] \in Load /\ request[r] \in Request /\ Sound(load[r], request[r])
      BY <2>1, InvTypes
    <3>2. size \in Nat \ {0} /\ range \in Ranges(size)
      BY <2>1
    <3>. QED
      BY <1>1, <1>3, <1>4, <3>1, <3>2, AskedSound
  <2>. QED
    BY <1>7, <2>1 DEF OpenInv, ContentsSound, Requests
<1>. QED
  BY <1>8, <1>10, <1>14, <1>15, <1>16, <1>17, <1>18 DEF OpenInv, JobPart

\* on_content and on_list.
LEMMA CallbackSteps ==
  ASSUME OpenInv, (\E r \in Contents : on_content(r)) \/ (\E r \in Lists : on_list(r))
  PROVE  OpenInv'
<1>1. ASSUME NEW r \in Contents, on_content(r) PROVE OpenInv'
  <2>1. PICK v \in Versions : \E range \in Ranges(Size[v]) : Asked(r, range, Size[v])
    BY <1>1 DEF on_content
  <2>2. Size[v] \in Nat \ {0}
    BY ContentIs
  <2>3. PICK size \in Nat \ {0} : size = Size[v]
    BY <2>2
  <2>4. PICK range \in Ranges(size) : Asked(r, range, size)
    BY <2>1, <2>3
  <2>5. range[1] \in Nat /\ range[2] \in Nat \cup {CF_EOF}
    BY <2>4 DEF Ranges
  <2>. QED
    BY <2>4, <2>5, AskedStep DEF Requests
<1>2. ASSUME NEW r \in Lists, on_list(r) PROVE OpenInv'
  <2>1. PICK range : range = <<0, 0>>
    OBVIOUS
  <2>2. range[1] \in Nat /\ range[2] \in Nat \cup {CF_EOF} /\ Asked(r, range, 0)
    BY <1>2, <2>1 DEF on_list
  <2>3. r \notin Contents /\ r \in Requests
    BY OpeningAssumption DEF Requests
  <2>. QED
    BY <2>2, <2>3, AskedStep
<1>. QED
  BY <1>1, <1>2

\* The job begins: out of the queue, onto the thread, into the list of switches.
LEMMA BeginStep ==
  ASSUME OpenInv, NEW t \in Threads, Begin(t)
  PROVE  OpenInv'
<1>1. /\ TakesJob(t) /\ PoolBooks /\ jobs \in Seq(Requests) /\ jobs # <<>> /\ jobs' = Tail(jobs)
      /\ thread \in [Threads -> Doing] /\ thread' = [thread EXCEPT ![t] = "running"]
      /\ thread[t] # "running" /\ thread[t] # "none" /\ UNCHANGED creating
  BY DEF Begin, TakesJob, Looks, OpenInv, PoolPart, PoolBooks, PoolTypeOK
<1>2. PICK r : r = Head(jobs)
  OBVIOUS
<1>3. /\ r \in Requests /\ Len(jobs) \in Nat /\ Len(jobs) > 0 /\ DOMAIN jobs = 1 .. Len(jobs)
      /\ jobs[1] = r /\ DOMAIN jobs' = 1 .. Len(jobs) - 1
      /\ \A i \in 1 .. Len(jobs) - 1 : jobs'[i] = jobs[i + 1]
  BY <1>1, <1>2, HeadTailProperties, LenProperties, EmptySeq
<1>4. load[r].stage = "queued" /\ load[r].by = "nobody" /\ t # "nobody"
  BY <1>3, OpeningAssumption DEF OpenInv, JobPart, JobsOnce, ByStage, AtRest, Stage
<1>5. /\ load[r] \in Load /\ request[r] \in Request /\ load \in [Requests -> Load]
      /\ request \in [Requests -> Request] /\ row \in Versions
  BY <1>3 DEF OpenInv, OpenTypes
<1>6. PICK v, b : v = (IF r \in Contents THEN row ELSE load[r].row) /\ b = BlockBuffer(request[r].size)
  OBVIOUS
<1>7. v \in Versions /\ b \in Buffer /\ "begun" \in Stages
  <2>1. load[r].row \in Versions /\ request[r].size \in Nat
    BY <1>5, Fields
  <2>. QED
    BY <1>5, <1>6, <2>1 DEF BlockBuffer, Buffer, Stages
<1>8. PICK m : m = [load[r] EXCEPT !.stage = "begun", !.by = t, !.row = v, !.buffer = b]
  OBVIOUS
<1>9. /\ m \in Load /\ m.stage = "begun" /\ m.by = t /\ m.buffer = b /\ m.offset = load[r].offset
      /\ m.switch = load[r].switch
  BY ONLY <1>5, <1>7, <1>8, t \in Threads DEF Load
<1>10. /\ load' = [load EXCEPT ![r] = m] /\ switch' = switch \cup {r}
       /\ UNCHANGED <<row, link, request, gate, parts>>
  BY <1>2, <1>5, <1>6, <1>8 DEF Begin, worldVars
<1>11. /\ load' \in [Requests -> Load]
       /\ \A x \in Requests : load'[x] = IF x = r THEN m ELSE load[x]
  BY <1>5, <1>9, <1>10
<1>12. OpenTypes'
  BY <1>3, <1>10, <1>11 DEF OpenInv, OpenTypes
<1>13. PoolPart'
  <2>1. PoolBooks'
    BY <1>1, ThreadBooks
  <2>2. Settled'
    BY <1>1, <1>10 DEF OpenInv, PoolPart, Settled, AllJoined
  <2>. QED
    BY <2>1, <2>2 DEF PoolPart, PoolBooks
<1>14. Running' = Running \cup {r} /\ r \notin Running
  BY <1>3, <1>4, <1>9, <1>11 DEF Running
<1>15. JobsOnce'
  <2>1. \A i, j \in DOMAIN jobs' : jobs'[i] = jobs'[j] => i = j
    <3>1. ASSUME NEW i \in DOMAIN jobs', NEW j \in DOMAIN jobs', jobs'[i] = jobs'[j] PROVE i = j
      <4>1. i + 1 \in DOMAIN jobs /\ j + 1 \in DOMAIN jobs /\ jobs[i + 1] = jobs[j + 1]
            /\ i \in Nat /\ j \in Nat
        BY <1>3, <3>1
      <4>2. i + 1 = j + 1
        BY <4>1 DEF OpenInv, JobPart, JobsOnce
      <4>. QED
        BY <4>1, <4>2
    <3>. QED
      BY <3>1
  <2>2. \A x \in Requests : (\E i \in DOMAIN jobs' : jobs'[i] = x)
                              <=> (\E i \in DOMAIN jobs : jobs[i] = x) /\ x # r
    <3>1. \A i \in DOMAIN jobs : jobs[i] = r => i = 1
      BY <1>3 DEF OpenInv, JobPart, JobsOnce
    <3>2. ASSUME NEW i \in DOMAIN jobs' PROVE jobs'[i] # r /\ \E k \in DOMAIN jobs : jobs[k] = jobs'[i]
      <4>1. i + 1 \in DOMAIN jobs /\ i + 1 # 1 /\ jobs'[i] = jobs[i + 1]
        BY <1>3
      <4>. QED
        BY <3>1, <4>1
    <3>3. ASSUME NEW k \in DOMAIN jobs, jobs[k] # r PROVE \E i \in DOMAIN jobs' : jobs'[i] = jobs[k]
      <4>1. k \in 1 .. Len(jobs) /\ k # 1
        BY <1>3, <3>3
      <4>2. k - 1 \in DOMAIN jobs' /\ jobs'[k - 1] = jobs[k]
        BY <1>3, <4>1
      <4>. QED
        BY <4>2
    <3>. QED
      BY <3>2, <3>3
  <2>3. \A x \in Requests : Stage(x, "queued")' <=> Stage(x, "queued") /\ x # r
    BY <1>9, <1>11 DEF Stage
  <2>. QED
    BY <2>1, <2>2, <2>3 DEF OpenInv, JobPart, JobsOnce
<1>16. OneJobEach'
  <2>1. \A u \in Threads : thread'[u] = "running" <=> u = t \/ thread[u] = "running"
    BY <1>1
  <2>2. \A x \in Requests : load'[x].by = IF x = r THEN t ELSE load[x].by
    BY <1>9, <1>11
  <2>3. \A x \in Requests : load[x].by # t
    BY <1>1 DEF OpenInv, JobPart, OneJobEach
  <2>4. \A u \in Threads : u # "nobody"
    BY OpeningAssumption
  <2>5. \A u \in Threads : thread'[u] = "running" <=> \E x \in Requests : load'[x].by = u
    BY <1>3, <1>4, <2>1, <2>2, <2>3, <2>4 DEF OpenInv, JobPart, OneJobEach
  <2>6. \A x, y \in Requests : load'[x].by # "nobody" /\ load'[x].by = load'[y].by => x = y
    BY <2>2, <2>3 DEF OpenInv, JobPart, OneJobEach
  <2>. QED
    BY <2>5, <2>6 DEF OneJobEach
<1>17. ByStage' /\ ListStage'
  BY <1>4, <1>9, <1>11 DEF OpenInv, JobPart, ByStage, ListStage, AtRest
<1>18. Cancellable'
  <2>1. \A x \in Requests : load'[x].switch = load[x].switch
    BY <1>9, <1>11
  <2>. QED
    BY <1>10, <1>14, <2>1 DEF OpenInv, JobPart, Cancellable, Running
<1>19. HeldByLoads'
  BY <1>10, <1>14 DEF OpenInv, JobPart, HeldByLoads
<1>20. ContentsSound'
  <2>1. ASSUME r \in Contents PROVE Sound(m, request[r])
    <3>1. Sound(load[r], request[r])
      BY <1>3, <2>1, InvTypes
    <3>. QED
      BY <1>4, <1>5, <1>6, <1>9, <3>1, BeginSound
  <2>. QED
    BY <1>10, <1>11, <2>1 DEF OpenInv, ContentsSound, Requests
<1>. QED
  BY <1>12, <1>13, <1>15, <1>16, <1>17, <1>18, <1>19, <1>20 DEF OpenInv, JobPart

\* A load that was over stays over.
LEMMA OverSound ==
  ASSUME NEW l \in Load, NEW q \in Request, Sound(l, q), l.stage = "over",
         NEW m \in Load, m.stage = "over", m.row = l.row
  PROVE  Sound(m, q)
BY DEF Sound, OneLate, Asks, BeginningOf, AtRest, Early, Handing, Answered

\* The process ends without warning: every request that was under way is cut off.
LEMMA CrashStep ==
  ASSUME OpenInv, Crash
  PROVE  OpenInv'
<1>1. /\ load \in [Requests -> Load] /\ request \in [Requests -> Request] /\ row \in Versions
      /\ OpenTypes
  BY DEF OpenInv, OpenTypes
<1>2. ASSUME NEW x \in Requests
      PROVE  /\ load'[x] \in Load /\ load'[x].row = load[x].row
             /\ load'[x] = IF load[x].stage = "new" THEN load[x] ELSE Ended(x)
             /\ load'[x].stage = IF load[x].stage = "new" THEN "new" ELSE "over"
             /\ load'[x].by = "nobody"
  <2>1. load'[x] = IF load[x].stage = "new" THEN load[x] ELSE Ended(x)
    BY DEF Crash, Stage
  <2>2. /\ Ended(x) \in Load /\ Ended(x).stage = "over" /\ Ended(x).row = load[x].row
        /\ Ended(x).by = "nobody"
    BY <1>1, EndedIs
  <2>3. load[x].stage = "new" => load[x].by = "nobody"
    BY DEF OpenInv, JobPart, ByStage, AtRest
  <2>. QED
    BY <1>1, <2>1, <2>2, <2>3
<1>3. ASSUME NEW x \in Requests
      PROVE  /\ request'[x] \in Request
             /\ load[x].stage \in {"new", "over"} => request'[x] = request[x]
             /\ load[x].stage \notin {"new", "over"}
                  => request'[x] = [request[x] EXCEPT !.answer = "cut"]
  <2>1. PICK q \in Request : q = request[x]
    BY <1>1
  <2>2. PICK p : p = [q EXCEPT !.answer = "cut"]
    OBVIOUS
  <2>3. p \in Request
    BY ONLY q \in Request, <2>2 DEF Request
  <2>4. request'[x] = IF load[x].stage \in {"new", "over"} THEN q ELSE p
    BY <2>1, <2>2 DEF Crash
  <2>. QED
    BY <2>1, <2>2, <2>3, <2>4
<1>4. OpenTypes'
  <2>1. load' = [x \in Requests |-> load'[x]] /\ request' = [x \in Requests |-> request'[x]]
    BY DEF Crash
  <2>2. load' \in [Requests -> Load] /\ request' \in [Requests -> Request]
    BY <1>2, <1>3, <2>1
  <2>3. row' = row /\ link' = "up" /\ switch' = {}
    BY DEF Crash
  <2>. QED
    BY <1>1, <2>2, <2>3 DEF OpenTypes
<1>5. PoolPart'
  <2>1. PoolBooks'
    BY FreshBooks DEF Crash
  <2>2. Settled'
    BY DEF Settled, Crash
  <2>. QED
    BY <2>1, <2>2 DEF PoolPart, PoolBooks
<1>6. JobsOnce'
  <2>1. jobs' = <<>> /\ DOMAIN jobs' = {}
    BY DEF Crash
  <2>2. \A x \in Requests : ~Stage(x, "queued")'
    BY <1>2 DEF Stage
  <2>. QED
    BY <2>1, <2>2 DEF JobsOnce
<1>7. OneJobEach'
  <2>1. \A t \in Threads : thread'[t] # "running" /\ t # "nobody"
    BY OpeningAssumption DEF Crash
  <2>. QED
    BY <1>2, <2>1 DEF OneJobEach
<1>8. ByStage'
  BY <1>2 DEF ByStage, AtRest
<1>9. ListStage'
  BY <1>2 DEF ListStage, AtRest
<1>10. Cancellable' /\ HeldByLoads'
  <2>1. Running' = {} /\ switch' = {} /\ gate' = {} /\ parts' = {}
    BY <1>2 DEF Running, Crash
  <2>. QED
    BY <2>1 DEF Cancellable, HeldByLoads
<1>11. ContentsSound'
  <2>1. ASSUME NEW x \in Contents PROVE Sound(load'[x], request'[x])
    <3>1. /\ x \in Requests /\ load[x] \in Load /\ request[x] \in Request
          /\ Sound(load[x], request[x])
      BY InvTypes DEF Requests
    <3>2. CASE load[x].stage = "new"
      <4>1. load'[x] = load[x] /\ request'[x] = request[x]
        BY <1>2, <1>3, <3>1, <3>2
      <4>. QED
        BY <3>1, <4>1
    <3>3. CASE load[x].stage = "over"
      <4>1. /\ load'[x] \in Load /\ load'[x].stage = "over" /\ load'[x].row = load[x].row
            /\ request'[x] = request[x]
        BY <1>2, <1>3, <3>1, <3>3
      <4>. QED
        BY <3>1, <3>3, <4>1, OverSound
    <3>4. CASE load[x].stage \notin {"new", "over"}
      <4>1. PICK m, p : m \in Load /\ m = load'[x] /\ p = request'[x]
        BY <1>2, <3>1
      <4>2. /\ m.stage = "over" /\ m.row = load[x].row
            /\ p = [request[x] EXCEPT !.answer = "cut"]
        BY <1>2, <1>3, <3>1, <3>4, <4>1
      <4>. QED
        BY <3>1, <3>4, <4>1, <4>2, CutSound
    <3>. QED
      BY <3>2, <3>3, <3>4
  <2>. QED
    BY <2>1 DEF ContentsSound
<1>. QED
  BY <1>4, <1>5, <1>6, <1>7, <1>8, <1>9, <1>10, <1>11 DEF OpenInv, JobPart

-------------------------------------------------------------------------------
(***************************************************************************)
(* The invariant, and what it promises.                                    *)
(***************************************************************************)
\* The pool, the jobs and the content are in order at the start.
LEMMA InitInv ==
  ASSUME Init
  PROVE  OpenInv
<1>1. /\ row = 1 /\ link = "up" /\ switch = {} /\ gate = {} /\ parts = {}
      /\ jobs = <<>> /\ threads = 0 /\ busy = 0 /\ end = FALSE /\ creating = 0 /\ refused = 0
      /\ thread = [t \in Threads |-> "none"]
      /\ load = [r \in Requests |-> NoLoad] /\ request = [r \in Requests |-> NoRequest]
  BY DEF Init, PoolInit
<1>2. 1 \in Versions
  BY OpeningAssumption, EmptySeq, LenProperties DEF Versions
<1>3. NoLoad \in Load /\ NoLoad.stage = "new" /\ NoLoad.by = "nobody" /\ NoLoad.row = 1
      /\ NoLoad.offset = 0
  <2>1. BlockBuffer(0) \in Buffer /\ <<>> \in Seq(Unit)
    BY DEF BlockBuffer, Buffer
  <2>. QED
    BY <1>2, <2>1 DEF NoLoad, Load, Stages
<1>4. /\ NoRequest \in Request /\ NoRequest.got = <<>> /\ NoRequest.late = 0
      /\ NoRequest.answer = "none" /\ NoRequest.failed = <<>> /\ NoRequest.size = 0
  <2>1. <<>> \in Seq(Unit) /\ <<>> \in Seq(Nat)
    OBVIOUS
  <2>. QED
    BY <2>1 DEF NoRequest, Request
<1>5. OpenTypes
  BY <1>1, <1>2, <1>3, <1>4 DEF OpenTypes
<1>6. PoolPart
  <2>1. ASSUME NEW what, "none" \notin what PROVE Cardinality(Those(what)) = 0
    <3>1. Those(what) = {}
      BY <1>1, <2>1 DEF Those
    <3>. QED
      BY <3>1, FS_EmptySet
  <2>2. AtWork = 0 /\ Awake = 0 /\ Asleep = 0
    BY <2>1 DEF AtWork, Awake, Asleep
  <2>3. Counted
    BY <1>1, <2>2, MaxIsNat DEF Counted, max
  <2>4. PoolTypeOK(Requests)
    BY <1>1, EmptySeq DEF PoolTypeOK, Doing
  <2>. QED
    BY <1>1, <2>3, <2>4 DEF PoolPart, Settled
<1>7. \A r \in Requests : load[r] = NoLoad /\ request[r] = NoRequest
  BY <1>1
<1>8. JobsOnce
  BY <1>1, <1>3, <1>7 DEF JobsOnce, Stage
<1>9. OneJobEach
  <2>1. \A t \in Threads : thread[t] # "running" /\ t # "nobody"
    BY <1>1, OpeningAssumption
  <2>. QED
    BY <1>3, <1>7, <2>1 DEF OneJobEach
<1>10. ByStage /\ ListStage
  BY <1>3, <1>7 DEF ByStage, ListStage, AtRest
<1>11. Cancellable /\ HeldByLoads
  <2>1. Running = {}
    BY <1>3, <1>7 DEF Running
  <2>. QED
    BY <1>1, <2>1 DEF Cancellable, HeldByLoads
<1>12. ContentsSound
  <2>1. BeginningOf(1, NoRequest)
    <3>1. Size[1] \in Nat /\ Len(NoRequest.got) = 0 /\ NoRequest.size = 0
      BY <1>2, <1>4, ContentIs
    <3>2. SubSeq(Content(1), 1, 0) = <<>>
      BY <1>2, ContentIs, SubSeqEmpty
    <3>3. NoRequest.got = SubSeq(Content(1), 1, Len(NoRequest.got))
      BY <1>4, <3>1, <3>2, Zenon
    <3>. QED
      BY <3>1, <3>3 DEF BeginningOf
  <2>2. Sound(NoLoad, NoRequest)
    BY <1>3, <1>4, <2>1 DEF Sound, OneLate, NothingYet, AtRest, Early, Handing
  <2>. QED
    BY <1>7, <2>2 DEF ContentsSound, Requests
<1>. QED
  BY <1>5, <1>6, <1>8, <1>9, <1>10, <1>11, <1>12 DEF OpenInv, JobPart

\* Every step keeps them in order.
LEMMA NextInv ==
  ASSUME OpenInv, [Next]_vars
  PROVE  OpenInv'
<1>1. CASE UNCHANGED vars
  <2>1. UNCHANGED <<row, link, request, load, switch, gate, parts>>
        /\ UNCHANGED <<jobs, threads, busy, end, thread, creating, refused>>
    BY <1>1 DEF vars, openVars, poolVars
  <2>2. PoolBooks'
    BY <2>1, NobodyTurns DEF OpenInv, PoolPart, PoolBooks, PoolTypeOK, Counted, max
  <2>3. Settled'
    BY <2>1 DEF OpenInv, PoolPart, Settled, AllJoined
  <2>. QED
    BY <2>1, <2>2, <2>3, NoJobMoves DEF OpenInv, OpenTypes
<1>2. ASSUME NEW t \in Threads, CreateThread(t) \/ Worker(t) \/ Idles(t) PROVE OpenInv'
  <2>1. CASE Begin(t)
    BY <2>1, BeginStep
  <2>2. CASE \E r \in Requests : Job(t, r)
    BY <2>2, JobStep
  <2>3. CASE UNCHANGED openVars
               /\ (Created(t) \/ Leaves(t) \/ Waits(t) \/ IdleTimeOver(t) \/ SentryDrops(t))
    BY <2>3, ThreadStep
  <2>. QED
    BY <1>2, <2>1, <2>2, <2>3 DEF CreateThread, Worker, Idles
<1>. QED
  BY <1>1, <1>2, CallbackSteps, AbortSteps, NoThreadStep, LinkSteps, CrashStep DEF Next

\* The jobs: every one in one place, and what it holds belongs to it.
LEMMA JobsHold ==
  ASSUME OpenInv
  PROVE  TypeOK /\ RunsOnce /\ NothingLeftBehind /\ Cancellable
<1>1. HeldByLoads /\ Running \subseteq Requests
  BY DEF OpenInv, JobPart, Running
<1>2. TypeOK
  BY <1>1 DEF OpenInv, OpenTypes, PoolPart, TypeOK, HeldByLoads
<1>3. NothingLeftBehind
  BY <1>1 DEF HeldByLoads, NothingLeftBehind
<1>4. RunsOnce
  <2>1. ToSet(jobs) = {r \in Requests : Stage(r, "queued")}
    <3>1. jobs \in Seq(Requests)
      BY <1>2 DEF TypeOK, PoolTypeOK
    <3>2. \A i \in DOMAIN jobs : jobs[i] \in Requests
      BY <3>1, ElementOfSeq, LenProperties
    <3>. QED
      BY <3>2 DEF OpenInv, JobPart, JobsOnce, ToSet
  <2>2. \A t \in Threads : (\E r \in Requests : load[r].by = t) <=> \E r \in Running : load[r].by = t
    BY OpeningAssumption DEF Running
  <2>. QED
    BY <2>1, <2>2 DEF OpenInv, JobPart, JobsOnce, OneJobEach, RunsOnce, Running
<1>. QED
  BY <1>2, <1>3, <1>4 DEF OpenInv, JobPart

\* After the disconnect nothing runs, and nothing was left undone.
LEMMA QuietHolds ==
  ASSUME OpenInv
  PROVE  QuietAfterStop
<1> SUFFICES ASSUME link = "off"
             PROVE  Running = {} /\ (refused = 0 => jobs = <<>>)
  BY DEF QuietAfterStop
<1>1. creating = 0 /\ \A t \in Threads : thread[t] = "none"
  BY DEF OpenInv, PoolPart, Settled, AllJoined
<1>2. Running = {}
  <2>1. \A r \in Requests : load[r].by \in Threads \cup {"nobody"}
    BY DEF OpenInv, OpenTypes, Load
  <2>. QED
    BY <1>1, <2>1 DEF OpenInv, JobPart, OneJobEach, Running
<1>3. AtWork = 0 /\ Awake = 0 /\ Asleep = 0
  <2>1. ASSUME NEW what, "none" \notin what PROVE Cardinality(Those(what)) = 0
    <3>1. Those(what) = {}
      BY <1>1, <2>1 DEF Those
    <3>. QED
      BY <3>1, FS_EmptySet
  <2>. QED
    BY <2>1 DEF AtWork, Awake, Asleep
<1>4. ASSUME refused = 0 PROVE jobs = <<>>
  <2>1. jobs \in Seq(Requests) /\ Len(jobs) \in Nat /\ Counted
    BY DEF OpenInv, PoolPart, PoolTypeOK
  <2>2. threads = 0 /\ threads # max
    BY <1>1, <1>3, <2>1, MaxIsNat DEF Counted
  <2>3. Len(jobs) = 0
    BY <1>1, <1>3, <1>4, <2>1, <2>2 DEF Counted
  <2>. QED
    BY <2>1, <2>3, EmptySeq
<1>. QED
  BY <1>2, <1>4

\* What cldflt has: aligned, of one version, all of it where it was answered with data, and the
\* rest named where it failed.
LEMMA ContentHolds ==
  ASSUME OpenInv
  PROVE  DataIsWhole /\ Aligned /\ FailureNamesTheRest /\ DeliveredIsListed /\ CancelStops
<1>1. ASSUME NEW r \in Contents
      PROVE  /\ load[r] \in Load /\ request[r] \in Request /\ Sound(load[r], request[r])
             /\ Len(request[r].got) \in Nat
             /\ Content(load[r].row) \in Seq(Unit) /\ Len(Content(load[r].row)) = Size[load[r].row]
  BY InvTypes, Fields, ContentIs DEF Requests
<1>2. DataIsWhole
  <2>1. ASSUME NEW r \in Contents, request[r].answer = "data"
        PROVE  request[r].got = Content(load[r].row) /\ Len(request[r].got) = request[r].size
    BY <1>1, <2>1 DEF Sound, Answered
  <2>. QED
    BY <2>1 DEF DataIsWhole
<1>3. Aligned
  <2>1. ASSUME NEW r \in Contents
        PROVE  WholeChunks(Len(request[r].got)) \/ Len(request[r].got) = request[r].size
    <3>1. CASE load[r].stage \in {"new", "queued"} \cup Early
      BY <1>1, <3>1, Chunks DEF Sound, NothingYet
    <3>2. CASE load[r].stage = "over"
      BY <1>1, <3>2 DEF Sound, Answered
    <3>3. CASE load[r].stage \notin AtRest
      BY <1>1, <3>3 DEF Sound, BufferSends
    <3>. QED
      BY <3>1, <3>2, <3>3 DEF AtRest
  <2>. QED
    BY <1>1, <2>1, Chunks DEF Aligned
<1>4. FailureNamesTheRest
  <2>1. ASSUME NEW r \in Contents, load[r].stage = "over", request[r].answer # "cut"
        PROVE  /\ Wanted(request[r]) \subseteq DOMAIN request[r].got \cup Reported(request[r])
               /\ DOMAIN request[r].got \cap Reported(request[r]) = {}
    BY <1>1, <2>1 DEF Sound, Answered
  <2>. QED
    BY <2>1 DEF FailureNamesTheRest, Stage
<1>5. DeliveredIsListed
  <2>1. ASSUME NEW r \in Contents
        PROVE  IsPrefix(request[r].got, Content(load[r].row)) /\ Len(request[r].got) <= request[r].size
    <3>1. PICK g, c : g = request[r].got /\ c = Content(load[r].row)
      OBVIOUS
    <3>2. /\ g \in Seq(Unit) /\ c \in Seq(Unit) /\ Len(g) <= Len(c) /\ g = SubSeq(c, 1, Len(g))
          /\ Len(g) <= request[r].size
      BY <1>1, <3>1, Fields DEF Sound, BeginningOf
    <3>3. SubSeq(g, 1, Len(g)) = g
      BY <3>2, SubSeqFull
    <3>4. IsPrefix(g, c)
      BY <3>2, <3>3 DEF IsPrefix
    <3>. QED
      BY <3>1, <3>2, <3>4
  <2>. QED
    BY <2>1 DEF DeliveredIsListed
<1>6. CancelStops
  BY <1>1 DEF CancelStops, Sound, OneLate
<1>. QED
  BY <1>2, <1>3, <1>4, <1>5, <1>6

\* The inductive invariant of the opening: the pool in numbers, every job in one place with its
\* switch, its permit and its scratch file, and what holds of a load at each of its stages.
THEOREM OpenInvariant == Spec => []OpenInv
<1>1. Init => OpenInv
  BY InitInv
<1>2. OpenInv /\ [Next]_vars => OpenInv'
  BY NextInv
<1>. QED
  BY <1>1, <1>2, PTL DEF Spec

\* The books of the opening (worker_pool.rs, cancel.rs, sink.rs, callback.rs): the counters say
\* what the threads do and no job is held up, every job is in one place and can be cancelled,
\* nothing is left behind, data is whole and aligned, a failure names what is missing, and after
\* the disconnect nothing runs.
THEOREM OpeningHolds == Spec => []OpeningInv
<1>1. OpenInv => OpeningInv
  <2>1. OpenInv => BooksBalance /\ NotHeldUp
    BY BooksCounted DEF OpenInv, PoolPart
  <2>. QED
    BY <2>1, JobsHold, QuietHolds, ContentHolds DEF OpeningInv
<1>. QED
  BY <1>1, OpenInvariant, PTL

\* Loaded, checked, and only then handed over (hydration.rs, load_and_check): what cldflt has got
\* is a beginning of the version the listing named when the job began.
THEOREM DeliveredHolds == Spec => []DeliveredIsListed
<1>1. OpenInv => DeliveredIsListed
  BY ContentHolds
<1>. QED
  BY <1>1, OpenInvariant, PTL

\* Whoever cancels gets at most the one chunk whose turn it was (hydration.rs, hand_over).
THEOREM CancelHolds == Spec => []CancelStops
<1>1. OpenInv => CancelStops
  BY ContentHolds
<1>. QED
  BY <1>1, OpenInvariant, PTL
==============================================================================
