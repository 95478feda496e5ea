------------------------------ MODULE WorkerPool ------------------------------
(***************************************************************************)
(* The growing thread pool of the Windows callbacks,                       *)
(* cfapi/src/worker_pool.rs.  The module holds the pool's state and one    *)
(* operator per critical section of its mutex; Opening composes them with  *)
(* the callbacks that give jobs and with the work the jobs do.             *)
(*                                                                         *)
(* A thread is                                                             *)
(*   "none"     not running (not created yet, or it has returned),         *)
(*   "ready"    on its way to the mutex to look for a job,                 *)
(*   "waiting"  inside wait_timeout,                                       *)
(*   "late"     back from wait_timeout because the idle time was over,     *)
(*   "running"  inside a job,                                              *)
(*   "sentry"   back from a job whose booking is not given back yet.       *)
(***************************************************************************)
EXTENDS Naturals, Sequences, FiniteSets

CONSTANT Threads \* the operating system threads: one per possible booking

ASSUME PoolAssumption == /\ IsFiniteSet(Threads)
                         /\ Threads # {}

VARIABLES jobs,     \* z.jobs, the queue
          threads,  \* z.threads, the threads booked
          busy,     \* z.busy, the threads booked as inside a job
          end,      \* z.end
          thread,   \* what each thread of the system is doing
          creating, \* how many callers of give are inside create_thread
          refused   \* how many threads the system has refused to create

poolVars == <<jobs, threads, busy, end, thread, creating, refused>>

Doing == {"none", "ready", "waiting", "late", "running", "sentry"}

PoolTypeOK(Jobs) ==
  /\ jobs \in Seq(Jobs)
  /\ threads \in Nat
  /\ busy \in Nat
  /\ end \in BOOLEAN
  /\ thread \in [Threads -> Doing]
  /\ creating \in Nat
  /\ refused \in Nat

PoolInit ==
  /\ jobs = <<>>
  /\ threads = 0
  /\ busy = 0
  /\ end = FALSE
  /\ thread = [t \in Threads |-> "none"]
  /\ creating = 0
  /\ refused = 0

Is(what) == {t \in Threads : thread[t] = what}

\* WorkGroup::new: max, the bound on the booked threads
max == Cardinality(Threads)

NotifyOne ==
  IF Is("waiting") = {}
  THEN UNCHANGED thread
  ELSE \E t \in Is("waiting") : thread' = [thread EXCEPT ![t] = "ready"]

Awakened == [t \in Threads |-> IF thread[t] = "waiting" THEN "ready" ELSE thread[t]]

\* Mutant: the job that was just pushed is not counted among the waiting ones
NeedsThread_Off == Len(jobs) > threads - busy /\ threads < max

\* z.jobs.len() > free && z.threads < max, after the job was pushed
NeedsThread == Len(jobs) + 1 > threads - busy /\ threads < max

(***************************************************************************)
(* give: the caller has seen that the pool has not ended.                  *)
(***************************************************************************)
Give(j) ==
  /\ ~end
  /\ jobs' = Append(jobs, j)
  /\ IF NeedsThread
     THEN /\ threads' = threads + 1
          /\ creating' = creating + 1
          /\ UNCHANGED thread
     ELSE NotifyOne /\ UNCHANGED <<threads, creating>>
  /\ UNCHANGED <<busy, end, refused>>

\* create_thread, after the mutex was given back; a thread is new, whichever free name it gets
Created(t) ==
  /\ creating > 0
  /\ thread[t] = "none"
  /\ t = CHOOSE free \in Threads : thread[free] = "none"
  /\ creating' = creating - 1
  /\ thread' = [thread EXCEPT ![t] = "ready"]
  /\ UNCHANGED <<jobs, threads, busy, end, refused>>

\* the system refuses: the booking is taken back, everybody is woken
Refused ==
  /\ creating > 0
  /\ refused' = refused + 1
  /\ creating' = creating - 1
  /\ threads' = threads - 1
  /\ thread' = Awakened
  /\ UNCHANGED <<jobs, busy, end>>

(***************************************************************************)
(* work: one turn of the inner loop per action.                            *)
(***************************************************************************)
Looks(t) == thread[t] \in {"ready", "late"}

TakesJob(t) ==
  /\ Looks(t)
  /\ jobs # <<>>
  /\ jobs' = Tail(jobs)
  /\ busy' = busy + 1
  /\ thread' = [thread EXCEPT ![t] = "running"]
  /\ UNCHANGED <<threads, end, creating, refused>>

\* Mutant: the idle time is over, whatever was pushed meanwhile
Leaves_Late(t) ==
  /\ Looks(t)
  /\ thread[t] = "late" \/ (jobs = <<>> /\ end)
  /\ threads' = threads - 1
  /\ thread' = [thread EXCEPT ![t] = "none"]
  /\ UNCHANGED <<jobs, busy, end, creating, refused>>

\* nothing to do and the pool has ended, or nothing to do for the whole idle time
Leaves(t) ==
  /\ Looks(t)
  /\ jobs = <<>>
  /\ end \/ thread[t] = "late"
  /\ threads' = threads - 1
  /\ thread' = [thread EXCEPT ![t] = "none"]
  /\ UNCHANGED <<jobs, busy, end, creating, refused>>

Waits(t) ==
  /\ thread[t] = "ready"
  /\ jobs = <<>>
  /\ ~end
  /\ thread' = [thread EXCEPT ![t] = "waiting"]
  /\ UNCHANGED <<jobs, threads, busy, end, creating, refused>>

IdleTimeOver(t) ==
  /\ thread[t] = "waiting"
  /\ thread' = [thread EXCEPT ![t] = "late"]
  /\ UNCHANGED <<jobs, threads, busy, end, creating, refused>>

\* the job has returned or has panicked: the sentry gives the booking back
SentryDrops(t) ==
  /\ thread[t] = "sentry"
  /\ busy' = busy - 1
  /\ thread' = [thread EXCEPT ![t] = "ready"]
  /\ UNCHANGED <<jobs, threads, end, creating, refused>>

JobReturns(t) == thread' = [thread EXCEPT ![t] = "sentry"]

(***************************************************************************)
(* stop in its two halves, and accept_again.                               *)
(***************************************************************************)
\* Mutant: nobody is woken
EndsAccepting_Quiet ==
  /\ end' = TRUE
  /\ UNCHANGED <<jobs, threads, busy, thread, creating, refused>>

EndsAccepting ==
  /\ end' = TRUE
  /\ thread' = Awakened
  /\ UNCHANGED <<jobs, threads, busy, creating, refused>>

\* every handle is joined
AllJoined == \A t \in Threads : thread[t] = "none"

AcceptAgain ==
  /\ end' = FALSE
  /\ UNCHANGED <<jobs, threads, busy, thread, creating, refused>>

(***************************************************************************)
(* What the pool promises.                                                 *)
(***************************************************************************)
\* The counters say what the threads do: nobody is booked who neither runs nor is being created,
\* nobody is booked as busy outside a job, and the bound holds (worker_pool.rs, give and work).
BooksBalance ==
  /\ threads = Cardinality(Threads \ Is("none")) + creating
  /\ busy = Cardinality(Is("running") \cup Is("sentry"))
  /\ threads <= max

\* No job waits behind a sleeping thread or below the upper bound: as long as no thread was
\* refused, either every queued job has a thread on its way to it, or every thread that may exist
\* is awake (give counts the jobs against the free threads).
NotHeldUp ==
  refused = 0 => \/ Len(jobs) <= Cardinality(Is("ready") \cup Is("late")) + creating
                 \/ threads = max /\ Is("waiting") = {}
===============================================================================
