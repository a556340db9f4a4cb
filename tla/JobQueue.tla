------------------------------ MODULE JobQueue ------------------------------
(***************************************************************************)
(* The jobs table and its workers: lib/jobs/queue.ts, lib/jobs/worker.ts   *)
(* and claim_jobs / requeue_stalled_jobs of 000002_platform_core.sql.      *)
(*                                                                         *)
(* A worker requeues what others left running too long, claims a batch in  *)
(* one statement (for update skip locked) and works through it; the row of *)
(* a job is then written by id alone, whoever holds it by that time.  A    *)
(* worker can be slow, run out of its time budget, or die.                 *)
(***************************************************************************)
EXTENDS Integers, Sequences, FiniteSets

CONSTANTS
  Jobs,         \* jobs, each with an idempotency key of its own
  Workers,      \* runs of runWorker that can overlap
  MaxAttempts,  \* jobs.max_attempts
  BatchLimit,   \* jobs a worker claims at once
  StaleAfter,   \* ticks until a running job counts as stalled
  Backoff       \* ticks a failed job waits for (the code doubles it each time)

ASSUME QueueAssumption ==
  /\ IsFiniteSet(Jobs) /\ "none" \notin Jobs
  /\ MaxAttempts \in Nat \ {0} /\ BatchLimit \in Nat \ {0}
  /\ StaleAfter \in Nat \ {0} /\ Backoff \in Nat

VARIABLES
  status,      \* jobs.status; "absent" before the job is enqueued
  attempts,    \* jobs.attempts
  wait,        \* ticks until run_after, 0 once it has passed
  age,         \* ticks since locked_at, at most StaleAfter
  worker,      \* per worker, its phase, the rest of its batch and its job
  overdue      \* history: jobs requeued, or written, while another worker had them

row == <<status, attempts, wait, age>>
vars == <<row, worker, overdue>>

Final == {"succeeded", "dead"}
Min2(x, y) == IF x <= y THEN x ELSE y

\* A claimed job carries the attempts its claim returned.
NoJob == [job |-> "none", attempts |-> 0]
Off == [phase |-> "off", batch |-> <<>>, current |-> NoJob]

Holds(w, j) == \/ worker[w].current.job = j
               \/ \E n \in DOMAIN worker[w].batch : worker[w].batch[n].job = j

Init ==
  /\ status = [j \in Jobs |-> "absent"]
  /\ attempts = [j \in Jobs |-> 0]
  /\ wait = [j \in Jobs |-> 0]
  /\ age = [j \in Jobs |-> 0]
  /\ worker = [w \in Workers |-> Off]
  /\ overdue = {}

\* enqueue: on conflict (idempotency_key) do nothing.
Enqueue(j) ==
  /\ status[j] = "absent"
  /\ status' = [status EXCEPT ![j] = "pending"]
  /\ UNCHANGED <<attempts, wait, age, worker, overdue>>

----------------------------------------------------------------------------
(* runWorker.                                                              *)

Stalled(j) == status[j] = "running" /\ age[j] >= StaleAfter

\* Mutants: an exhausted job is left running, or requeued.
ExhaustedStays(j) == IF attempts[j] >= MaxAttempts THEN "running" ELSE "pending"
AlwaysPending(j) == IF Stalled(j) THEN "pending" ELSE status[j]
AfterStall(j) == IF attempts[j] >= MaxAttempts THEN "dead" ELSE "pending"

\* requeueStalledJobs.
Wake(w) ==
  /\ worker[w] = Off
  /\ status' = [j \in Jobs |-> IF Stalled(j) THEN AfterStall(j) ELSE status[j]]
  /\ overdue' = overdue \cup {j \in Jobs : Stalled(j) /\ \E u \in Workers : Holds(u, j)}
  /\ worker' = [worker EXCEPT ![w].phase = "claim"]
  /\ UNCHANGED <<attempts, wait, age>>

\* Mutant: finished rows are claimed as well.
NotRunning(j) == status[j] \notin {"absent", "running"} /\ wait[j] = 0
Ready(j) == status[j] = "pending" /\ wait[j] = 0

\* A full batch of ready jobs, in any order: priorities are abstracted.
Batches ==
  LET ready == {j \in Jobs : Ready(j)}
      size == Min2(BatchLimit, Cardinality(ready))
  IN  {s \in [1..size -> ready] : \A m, n \in 1..size : m # n => s[m] # s[n]}

\* claimJobs.
ClaimJobs(w) ==
  /\ worker[w].phase = "claim"
  /\ \E s \in Batches :
       LET got == {s[n] : n \in DOMAIN s}
       IN  /\ status' = [j \in Jobs |-> IF j \in got THEN "running" ELSE status[j]]
           /\ attempts' = [j \in Jobs |-> IF j \in got THEN attempts[j] + 1 ELSE attempts[j]]
           /\ age' = [j \in Jobs |-> IF j \in got THEN 0 ELSE age[j]]
           /\ worker' = [worker EXCEPT ![w] =
                IF s = <<>> THEN Off
                ELSE [phase |-> "work", current |-> NoJob,
                      batch |-> [n \in DOMAIN s |->
                                   [job |-> s[n], attempts |-> attempts[s[n]] + 1]]]]
  /\ UNCHANGED <<wait, overdue>>

Between(w) == worker[w].phase \in {"work", "late"} /\ worker[w].current = NoJob

Start(w) ==
  /\ Between(w) /\ worker[w].phase = "work" /\ worker[w].batch # <<>>
  /\ worker' = [worker EXCEPT ![w].current = Head(worker[w].batch), ![w].batch = Tail(@)]
  /\ UNCHANGED <<row, overdue>>

\* The end of the batch.
Return(w) ==
  /\ Between(w) /\ worker[w].batch = <<>>
  /\ worker' = [worker EXCEPT ![w] = Off]
  /\ UNCHANGED <<row, overdue>>

\* The row of job j is written by id; it is somebody else's if it is not running
\* or another worker has claimed it too.
Foreign(w, j) == status[j] # "running" \/ \E u \in Workers \ {w} : Holds(u, j)
Written(w, j) == overdue' = overdue \cup {i \in {j} : Foreign(w, i)}

\* completeJob.
Succeed(w) ==
  LET j == worker[w].current.job
  IN  /\ worker[w].current # NoJob
      /\ status' = [status EXCEPT ![j] = "succeeded"]
      /\ Written(w, j)
      /\ worker' = [worker EXCEPT ![w].current = NoJob]
      /\ UNCHANGED <<attempts, wait, age>>

Exhausted(claim) == claim.attempts >= MaxAttempts

\* failJob, with the attempts the claim returned.
FailJob(w, claim) ==
  LET j == claim.job
  IN  /\ status' = [status EXCEPT ![j] = IF Exhausted(claim) THEN "dead" ELSE "pending"]
      /\ wait' = [wait EXCEPT ![j] = Backoff]
      /\ Written(w, j)
      /\ UNCHANGED <<attempts, age>>

\* The handler throws, or there is none.
Fail(w) ==
  /\ worker[w].current # NoJob
  /\ FailJob(w, worker[w].current)
  /\ worker' = [worker EXCEPT ![w].current = NoJob]

\* Mutant: the "continue" is missing, and the job given back is run all the same.
ReleaseAndRun(w) ==
  /\ Between(w) /\ worker[w].batch # <<>>
  /\ FailJob(w, Head(worker[w].batch))
  /\ worker' = [worker EXCEPT ![w].batch = Tail(@), ![w].current = Head(worker[w].batch)]

\* The time budget is used up: the rest of the batch is given back with failJob.
Release(w) ==
  /\ Between(w) /\ worker[w].batch # <<>>
  /\ FailJob(w, Head(worker[w].batch))
  /\ worker' = [worker EXCEPT ![w].batch = Tail(@), ![w].phase = "late"]

\* The error of completeJob's and of failJob's update is not looked at: the row
\* stays as it is and the worker goes on.
LoseWrite(w) ==
  /\ \/ /\ worker[w].current # NoJob
        /\ worker' = [worker EXCEPT ![w].current = NoJob]
     \/ /\ Between(w) /\ worker[w].batch # <<>>
        /\ worker' = [worker EXCEPT ![w].batch = Tail(@), ![w].phase = "late"]
  /\ UNCHANGED <<row, overdue>>

\* The process dies; its rows stay as they are.
Crash(w) ==
  /\ worker[w] # Off
  /\ worker' = [worker EXCEPT ![w] = Off]
  /\ UNCHANGED <<row, overdue>>

Tick ==
  /\ \E j \in Jobs : wait[j] > 0 \/ (status[j] = "running" /\ age[j] < StaleAfter)
  /\ wait' = [j \in Jobs |-> IF wait[j] > 0 THEN wait[j] - 1 ELSE 0]
  /\ age' = [j \in Jobs |-> IF status[j] = "running" THEN Min2(age[j] + 1, StaleAfter)
                                                     ELSE age[j]]
  /\ UNCHANGED <<status, attempts, worker, overdue>>

Work(w) ==
  Wake(w) \/ ClaimJobs(w) \/ Start(w) \/ Succeed(w) \/ Fail(w) \/ Release(w) \/ Return(w)

Next ==
  \/ \E j \in Jobs : Enqueue(j)
  \/ \E w \in Workers : Work(w) \/ LoseWrite(w) \/ Crash(w)
  \/ Tick

Spec == Init /\ [][Next]_vars

\* The scheduler starts workers for ever, a worker runs until it dies, not every
\* worker dies before it has claimed, and time passes.
Fairness ==
  /\ WF_vars(Tick)
  /\ \A w \in Workers : WF_vars(Work(w))
  /\ SF_vars(\E w \in Workers : ClaimJobs(w))
FairSpec == Spec /\ Fairness

----------------------------------------------------------------------------
(* Properties.                                                             *)

Claims == [job : Jobs \cup {"none"}, attempts : Nat]

\* Every variable keeps its type.
TypeOK ==
  /\ status \in [Jobs -> {"absent", "pending", "running"} \cup Final]
  /\ attempts \in [Jobs -> Nat]
  /\ wait \in [Jobs -> 0..Backoff]
  /\ age \in [Jobs -> 0..StaleAfter]
  /\ \A w \in Workers : /\ worker[w].phase \in {"off", "claim", "work", "late"}
                        /\ worker[w].batch \in Seq(Claims)
                        /\ worker[w].current \in Claims
  /\ overdue \subseteq Jobs

\* Two workers hold the same job only after one of them has been taken for dead:
\* concurrent claims never overlap.
OneHolder ==
  \A j \in Jobs \ overdue : \A u, w \in Workers : Holds(u, j) /\ Holds(w, j) => u = w

\* No worker works on a job that others can claim, or that is settled.
HeldIsRunning ==
  \A j \in Jobs \ overdue : (\E w \in Workers : Holds(w, j)) => status[j] = "running"

\* max_attempts bounds the claims of a job, and only an exhausted job is dead.
AttemptsBounded ==
  \A j \in Jobs \ overdue :
    /\ attempts[j] <= MaxAttempts
    /\ status[j] = "dead" => attempts[j] = MaxAttempts

\* The rows and the workers agree on who has which job.
RowsMatchWorkers == TypeOK /\ OneHolder /\ HeldIsRunning /\ AttemptsBounded

\* What has succeeded is never run again.
SuccessIsFinal ==
  [][\A j \in Jobs \ overdue' : status[j] = "succeeded" => status'[j] = "succeeded"]_vars

\* Whatever workers do to each other, a job that was enqueued comes to rest: it
\* has succeeded or is dead for good.
Settles == \A j \in Jobs : (status[j] # "absent") ~> [](status[j] \in Final)

\* The lease of a job: its row, and the attempt of each worker that has it in hand.
AttemptHeld(w, j) ==
  LET claims == {worker[w].current} \cup {worker[w].batch[n] : n \in DOMAIN worker[w].batch}
  IN  IF Holds(w, j) THEN (CHOOSE c \in claims : c.job = j).attempts ELSE 0
leases ==
  [j \in Jobs |-> [status |-> status[j], attempts |-> attempts[j],
                   held |-> [w \in Workers |-> AttemptHeld(w, j)]]]
Lease == INSTANCE JobLease WITH lease <- leases

\* Batches, stalls, budgets and lost writes included, each job goes through what
\* JobLease says and nothing else.
ImplementsLease == Lease!LeaseSpec
=============================================================================
