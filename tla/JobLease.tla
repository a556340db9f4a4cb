------------------------------ MODULE JobLease ------------------------------
(***************************************************************************)
(* What a handler can rely on when it runs as a job: the abstract view of  *)
(* lib/jobs/queue.ts and worker.ts, without time and batches.  A job is    *)
(* run at least once or given up; a worker that is taken for dead keeps    *)
(* working and writes the row like any other.  JobQueue implements it, and *)
(* the specifications of the handlers (CampaignSend, AutomationRun,        *)
(* GiftCards, WalletSync) run on it.                                       *)
(***************************************************************************)
EXTENDS Integers

CONSTANTS
  Jobs,         \* jobs, each with an idempotency key of its own
  Workers,      \* runs of runWorker that can overlap
  MaxAttempts   \* jobs.max_attempts

VARIABLE
  lease    \* per job, its row and the attempt each worker holds it for (0 if none)

NotEnqueued == [status |-> "absent", attempts |-> 0, held |-> [w \in Workers |-> 0]]

LeaseInit == lease = [j \in Jobs |-> NotEnqueued]

----------------------------------------------------------------------------
(* What becomes of a lease l.                                              *)

\* The key of a job that ran, or was given up, stays taken: nothing happens.
Enqueued(l) == IF l.status = "absent" THEN [l EXCEPT !.status = "pending"] ELSE l

Claimed(l, w) ==
  [l EXCEPT !.status = "running", !.attempts = @ + 1, !.held[w] = l.attempts + 1]

AfterAttempt(n) == IF n >= MaxAttempts THEN "dead" ELSE "pending"

\* The row is requeued or given up, although whoever holds it may be alive.
Expired(l) == [l EXCEPT !.status = AfterAttempt(l.attempts)]

\* The holder writes the row, whatever has become of it, or dies without writing.
Done(l, w) == [l EXCEPT !.status = "succeeded", !.held[w] = 0]
Failed(l, w) == [l EXCEPT !.status = AfterAttempt(l.held[w]), !.held[w] = 0]
Forgotten(l, w) == [l EXCEPT !.held[w] = 0]

Moves(l) ==
  LET holders == {w \in Workers : l.held[w] # 0}
  IN  {l, Enqueued(l)}
      \cup {Claimed(l, w) : w \in IF l.status = "pending" THEN Workers \ holders ELSE {}}
      \cup (IF l.status = "running" THEN {Expired(l)} ELSE {})
      \cup UNION {{Done(l, w), Failed(l, w), Forgotten(l, w)} : w \in holders}

LeaseNext == \A j \in Jobs : lease'[j] \in Moves(lease[j])

LeaseSpec == LeaseInit /\ [][LeaseNext]_lease

----------------------------------------------------------------------------
(* The steps, for the specifications that run on it.                       *)

Change(j, l) == lease' = [lease EXCEPT ![j] = l]

Idle(w) == \A j \in Jobs : lease[j].held[w] = 0
Claim(w, j) == Idle(w) /\ lease[j].status = "pending" /\ Change(j, Claimed(lease[j], w))
Expire(j) == lease[j].status = "running" /\ Change(j, Expired(lease[j]))
Running(w, j) == lease[j].held[w] # 0
Finish(w, j) == Running(w, j) /\ Change(j, Done(lease[j], w))
GiveUp(w, j) ==
  /\ Running(w, j)
  /\ Change(j, Failed(lease[j], w)) \/ Change(j, Forgotten(lease[j], w))
=============================================================================
