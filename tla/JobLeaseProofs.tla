--------------------------- MODULE JobLeaseProofs ---------------------------
(***************************************************************************)
(* What the steps of JobLease do to the row of a job, for the proofs about *)
(* the handlers that run on it.                                            *)
(***************************************************************************)
EXTENDS JobLease, TLAPS

Statuses == {"absent", "pending", "running", "succeeded", "dead"}
Leases == [status : Statuses, attempts : Nat, held : [Workers -> Nat]]
LeaseShape == lease \in [Jobs -> Leases]

\* What every step keeps of the other jobs.
OnlyJob(j) == LeaseShape' /\ \A i \in Jobs \ {j} : lease'[i] = lease[i]

LEMMA LeaseInitially == LeaseInit => LeaseShape /\ \A j \in Jobs : lease[j].status = "absent"
BY DEF LeaseInit, LeaseShape, Leases, Statuses, NotEnqueued

LEMMA ChangeMoves ==
  ASSUME LeaseShape, NEW j \in Jobs, NEW l \in Leases, Change(j, l)
  PROVE  OnlyJob(j) /\ lease'[j] = l
BY DEF LeaseShape, Change, OnlyJob

\* One field at a time.
LEMMA StatusField ==
  ASSUME NEW l \in Leases, NEW s \in Statuses
  PROVE  [l EXCEPT !.status = s] \in Leases /\ [l EXCEPT !.status = s].status = s
BY DEF Leases

LEMMA LeaseFields ==
  ASSUME NEW l \in Leases, NEW w \in Workers, NEW n \in Nat
  PROVE  /\ LET r == [l EXCEPT !.attempts = n] IN r \in Leases /\ r.status = l.status
         /\ LET r == [l EXCEPT !.held[w] = n] IN r \in Leases /\ r.status = l.status
<1>1. [l EXCEPT !.held[w] = n] = [l EXCEPT !.held = [l.held EXCEPT ![w] = n]]
  OBVIOUS
<1>2. [l.held EXCEPT ![w] = n] \in [Workers -> Nat]
  BY DEF Leases
<1>3. LET r == [l EXCEPT !.held = [l.held EXCEPT ![w] = n]] IN r \in Leases /\ r.status = l.status
  BY <1>2 DEF Leases
<1> QED
  BY <1>1, <1>3 DEF Leases

LEMMA RowsOfTheQueue ==
  ASSUME NEW l \in Leases
  PROVE  /\ \A n : AfterAttempt(n) \in {"dead", "pending"}
         /\ Enqueued(l) \in Leases
         /\ l.status = "absent" => Enqueued(l).status = "pending"
         /\ l.status # "absent" => Enqueued(l) = l
         /\ Expired(l) \in Leases /\ Expired(l).status \in {"dead", "pending"}
<1>1. \A n : AfterAttempt(n) \in {"dead", "pending"}
  BY DEF AfterAttempt
<1>2. "pending" \in Statuses /\ AfterAttempt(l.attempts) \in Statuses
  BY <1>1 DEF Statuses
<1> QED
  BY <1>1, <1>2, StatusField DEF Enqueued, Expired

LEMMA RowsOfWorkers ==
  ASSUME NEW l \in Leases, NEW w \in Workers
  PROVE  /\ Claimed(l, w) \in Leases /\ Claimed(l, w).status = "running"
         /\ Done(l, w) \in Leases /\ Done(l, w).status = "succeeded"
         /\ Failed(l, w) \in Leases /\ Failed(l, w).status \in {"dead", "pending"}
         /\ Forgotten(l, w) \in Leases /\ Forgotten(l, w).status = l.status
<1>1. Claimed(l, w) \in Leases /\ Claimed(l, w).status = "running"
  <2> DEFINE n == l.attempts + 1
             a == [l EXCEPT !.status = "running"]
             b == [a EXCEPT !.attempts = n]
  <2>1. n \in Nat
    BY DEF Leases
  <2>2. Claimed(l, w) = [b EXCEPT !.held[w] = n]
    BY DEF Claimed
  <2> HIDE DEF n
  <2>3. a \in Leases /\ a.status = "running"
    BY StatusField DEF Statuses
  <2> HIDE DEF a
  <2>4. b \in Leases /\ b.status = "running"
    BY <2>1, <2>3, LeaseFields
  <2> HIDE DEF b
  <2>5. [b EXCEPT !.held[w] = n] \in Leases /\ [b EXCEPT !.held[w] = n].status = b.status
    BY <2>1, <2>4, LeaseFields
  <2> QED
    BY <2>2, <2>4, <2>5
<1>2. \A s \in Statuses : LET r == [l EXCEPT !.status = s, !.held[w] = 0]
                         IN  r \in Leases /\ r.status = s
  <2> TAKE s \in Statuses
  <2> DEFINE a == [l EXCEPT !.status = s]
  <2>1. [l EXCEPT !.status = s, !.held[w] = 0] = [a EXCEPT !.held[w] = 0]
    OBVIOUS
  <2>2. a \in Leases /\ a.status = s
    BY StatusField
  <2> HIDE DEF a
  <2>3. [a EXCEPT !.held[w] = 0] \in Leases /\ [a EXCEPT !.held[w] = 0].status = a.status
    BY <2>2, LeaseFields, 0 \in Nat
  <2> QED
    BY <2>1, <2>2, <2>3
<1>3. Done(l, w) \in Leases /\ Done(l, w).status = "succeeded"
  BY <1>2 DEF Done, Statuses
<1>4. Failed(l, w) \in Leases /\ Failed(l, w).status \in {"dead", "pending"}
  <2>1. AfterAttempt(l.held[w]) \in {"dead", "pending"}
    BY RowsOfTheQueue
  <2> QED
    BY <1>2, <2>1 DEF Failed, Statuses
<1>5. Forgotten(l, w) \in Leases /\ Forgotten(l, w).status = l.status
  BY LeaseFields, 0 \in Nat DEF Forgotten
<1> QED
  BY <1>1, <1>3, <1>4, <1>5

LEMMA QueueSteps ==
  ASSUME LeaseShape, NEW j \in Jobs
  PROVE  /\ Change(j, Enqueued(lease[j])) =>
              OnlyJob(j) /\ lease'[j].status = IF lease[j].status = "absent" THEN "pending"
                                                                         ELSE lease[j].status
         /\ Expire(j) => /\ OnlyJob(j)
                         /\ lease[j].status = "running" /\ lease'[j].status \in {"dead", "pending"}
<1>1. lease[j] \in Leases
  BY DEF LeaseShape
<1> QED
  BY <1>1, RowsOfTheQueue, ChangeMoves DEF Expire

LEMMA WorkerSteps ==
  ASSUME LeaseShape, NEW w \in Workers, NEW j \in Jobs
  PROVE  /\ Claim(w, j) => /\ OnlyJob(j)
                           /\ lease[j].status = "pending" /\ lease'[j].status = "running"
         /\ Finish(w, j) => OnlyJob(j) /\ lease'[j].status = "succeeded"
         /\ GiveUp(w, j) => OnlyJob(j) /\ lease'[j].status \in {"dead", "pending", lease[j].status}
<1>1. lease[j] \in Leases
  BY DEF LeaseShape
<1> DEFINE l == lease[j]
<1>2. /\ Claimed(l, w) \in Leases /\ Claimed(l, w).status = "running"
      /\ Done(l, w) \in Leases /\ Done(l, w).status = "succeeded"
      /\ Failed(l, w) \in Leases /\ Failed(l, w).status \in {"dead", "pending"}
      /\ Forgotten(l, w) \in Leases /\ Forgotten(l, w).status = l.status
  <2> HIDE DEF l
  <2> QED
    BY <1>1, RowsOfWorkers DEF l
<1>3. Claim(w, j) => /\ OnlyJob(j)
                     /\ lease[j].status = "pending" /\ lease'[j].status = "running"
  BY <1>2, ChangeMoves DEF Claim
<1>4. Finish(w, j) => OnlyJob(j) /\ lease'[j].status = "succeeded"
  BY <1>2, ChangeMoves DEF Finish
<1>5. GiveUp(w, j) => OnlyJob(j) /\ lease'[j].status \in {"dead", "pending", lease[j].status}
  BY <1>2, ChangeMoves DEF GiveUp
<1> QED
  BY <1>3, <1>4, <1>5

----------------------------------------------------------------------------
(* Who runs what.                                                          *)

LEMMA RowsHeld ==
  ASSUME NEW l \in Leases, NEW w \in Workers
  PROVE  /\ Claimed(l, w).held[w] # 0
         /\ Done(l, w).held[w] = 0 /\ Failed(l, w).held[w] = 0 /\ Forgotten(l, w).held[w] = 0
         /\ \A u \in Workers \ {w} :
              /\ Claimed(l, w).held[u] = l.held[u] /\ Done(l, w).held[u] = l.held[u]
              /\ Failed(l, w).held[u] = l.held[u] /\ Forgotten(l, w).held[u] = l.held[u]
         /\ Enqueued(l).held = l.held /\ Expired(l).held = l.held
<1>1. l.held \in [Workers -> Nat] /\ l.attempts + 1 \in Nat \ {0}
  BY DEF Leases
<1>2. /\ Claimed(l, w).held = [l.held EXCEPT ![w] = l.attempts + 1]
      /\ Done(l, w).held = [l.held EXCEPT ![w] = 0]
      /\ Failed(l, w).held = [l.held EXCEPT ![w] = 0]
      /\ Forgotten(l, w).held = [l.held EXCEPT ![w] = 0]
      /\ Enqueued(l).held = l.held /\ Expired(l).held = l.held
  BY DEF Claimed, Done, Failed, Forgotten, Enqueued, Expired, Leases
<1> QED
  BY <1>1, <1>2

LEMMA WhoRuns ==
  ASSUME LeaseShape, NEW w \in Workers, NEW j \in Jobs
  PROVE  /\ Claim(w, j) => \A u \in Workers, i \in Jobs :
              Running(u, i)' <=> Running(u, i) \/ (u = w /\ i = j)
         /\ Finish(w, j) \/ GiveUp(w, j) => \A u \in Workers, i \in Jobs :
              Running(u, i)' <=> Running(u, i) /\ ~(u = w /\ i = j)
         /\ Change(j, Enqueued(lease[j])) \/ Expire(j) => \A u \in Workers, i \in Jobs :
              Running(u, i)' <=> Running(u, i)
<1>1. lease[j] \in Leases
  BY DEF LeaseShape
<1>2. ASSUME NEW l, Change(j, l)
      PROVE  lease'[j] = l /\ \A i \in Jobs \ {j} : lease'[i] = lease[i]
  BY <1>2 DEF Change, LeaseShape
<1>3. ASSUME Claim(w, j), NEW u \in Workers, NEW i \in Jobs
      PROVE  Running(u, i)' <=> Running(u, i) \/ (u = w /\ i = j)
  <2>1. lease'[j] = Claimed(lease[j], w) /\ \A k \in Jobs \ {j} : lease'[k] = lease[k]
    BY <1>2, <1>3 DEF Claim
  <2> QED
    BY <1>1, <2>1, RowsHeld DEF Running
<1>4. ASSUME Finish(w, j) \/ GiveUp(w, j), NEW u \in Workers, NEW i \in Jobs
      PROVE  Running(u, i)' <=> Running(u, i) /\ ~(u = w /\ i = j)
  <2>1. lease'[j] \in {Done(lease[j], w), Failed(lease[j], w), Forgotten(lease[j], w)}
        /\ \A k \in Jobs \ {j} : lease'[k] = lease[k]
    BY <1>2, <1>4 DEF Finish, GiveUp
  <2> QED
    BY <1>1, <2>1, RowsHeld DEF Running
<1>5. ASSUME Change(j, Enqueued(lease[j])) \/ Expire(j), NEW u \in Workers, NEW i \in Jobs
      PROVE  Running(u, i)' <=> Running(u, i)
  <2>1. lease'[j] \in {Enqueued(lease[j]), Expired(lease[j])}
        /\ \A k \in Jobs \ {j} : lease'[k] = lease[k]
    BY <1>2, <1>5 DEF Expire
  <2> QED
    BY <1>1, <2>1, RowsHeld DEF Running
<1> QED
  BY <1>3, <1>4, <1>5
=============================================================================
