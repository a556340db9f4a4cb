--------------------------- MODULE JobQueueProofs ---------------------------
(***************************************************************************)
(* That rows and workers agree on who has which job, for any number of     *)
(* jobs and workers, and that the queue with its batches, stalls and lost  *)
(* writes is the lease of JobLease, on which the handlers' specifications  *)
(* run.                                                                    *)
(***************************************************************************)
EXTENDS JobQueue, SequenceTheorems, FiniteSetTheorems, TLAPS

Claimed == [job : Jobs, attempts : Nat \ {0}]
Phases == {"off", "claim", "work", "late"}
WorkerStates == [phase : Phases, batch : Seq(Claimed), current : Claimed \cup {NoJob}]

\* What a worker in state x has in hand.
Hand(x) == {c \in Claimed : c = x.current \/ \E n \in DOMAIN x.batch : c = x.batch[n]}
Has(x, j) == \E c \in Hand(x) : c.job = j

\* A worker that has claimed nothing has nothing in hand, and no job is in hand twice.
WorkerOK(x) ==
  /\ x \in WorkerStates
  /\ x.phase \in {"off", "claim"} => x.batch = <<>> /\ x.current = NoJob
  /\ \A m, n \in DOMAIN x.batch : x.batch[m].job = x.batch[n].job => m = n
  /\ \A n \in DOMAIN x.batch : x.batch[n].job # x.current.job

Typed ==
  /\ status \in [Jobs -> {"absent", "pending", "running"} \cup Final]
  /\ attempts \in [Jobs -> Nat]
  /\ wait \in [Jobs -> 0..Backoff]
  /\ age \in [Jobs -> 0..StaleAfter]
  /\ overdue \subseteq Jobs

\* A job that has not been taken from anybody: it can be claimed only while it has
\* attempts left, and whoever has it in hand holds its last attempt.
JobOK(j) ==
  /\ attempts[j] <= MaxAttempts
  /\ status[j] = "absent" => attempts[j] = 0
  /\ status[j] = "pending" => attempts[j] < MaxAttempts
  /\ status[j] = "dead" => attempts[j] = MaxAttempts
  /\ \A w \in Workers : \A c \in Hand(worker[w]) :
       c.job = j => status[j] = "running" /\ c.attempts = attempts[j]
  /\ \A u, w \in Workers : Has(worker[u], j) /\ Has(worker[w], j) => u = w

WorkersOK ==
  /\ worker \in [Workers -> WorkerStates]
  /\ \A w \in Workers : WorkerOK(worker[w])

QueueInv ==
  /\ Typed
  /\ WorkersOK
  /\ \A j \in Jobs \ overdue : JobOK(j)

----------------------------------------------------------------------------
(* What a worker has in hand, as it goes through its batch.                *)

LEMMA NoJobIsNoJob == NoJob \notin Claimed /\ NoJob.job \notin Jobs
BY QueueAssumption DEF NoJob, Claimed

\* Holds, of the rows' side, and Has, of the worker's, are the same.
LEMMA HoldsIsHas ==
  ASSUME NEW x, WorkerOK(x), NEW j \in Jobs
  PROVE  (x.current.job = j \/ \E n \in DOMAIN x.batch : x.batch[n].job = j) <=> Has(x, j)
<1>1. \A n \in DOMAIN x.batch : x.batch[n] \in Claimed
  BY DEF WorkerOK, WorkerStates
<1>2. x.current \in Claimed \/ x.current = NoJob
  BY DEF WorkerOK, WorkerStates
<1> QED
  BY <1>1, <1>2, NoJobIsNoJob DEF Has, Hand

LEMMA InHandOnce ==
  ASSUME NEW x, WorkerOK(x), NEW c \in Hand(x), NEW d \in Hand(x), c.job = d.job
  PROVE  c = d
BY DEF WorkerOK, Hand

LEMMA HeadInBatch ==
  ASSUME NEW s \in Seq(Claimed), s # <<>>
  PROVE  /\ Head(s) \in Claimed /\ Tail(s) \in Seq(Claimed)
         /\ 1 \in DOMAIN s /\ Head(s) = s[1]
         /\ \A n \in DOMAIN Tail(s) : n + 1 \in DOMAIN s /\ Tail(s)[n] = s[n + 1] /\ n # 0
         /\ \A n \in DOMAIN s : n # 1 => n - 1 \in DOMAIN Tail(s) /\ s[n] = Tail(s)[n - 1]
<1>1. /\ Head(s) \in Claimed /\ Tail(s) \in Seq(Claimed) /\ Len(Tail(s)) = Len(s) - 1
      /\ \A n \in 1..Len(Tail(s)) : Tail(s)[n] = s[n + 1]
  BY HeadTailProperties
<1>2. DOMAIN s = 1..Len(s) /\ DOMAIN Tail(s) = 1..Len(Tail(s)) /\ Len(s) \in Nat /\ Len(s) # 0
  BY <1>1
<1> QED
  BY <1>1, <1>2

\* The worker takes the next job of its batch.
LEMMA Takes ==
  ASSUME NEW x, WorkerOK(x), x.phase = "work", x.batch # <<>>, x.current = NoJob
  PROVE  LET y == [x EXCEPT !.current = Head(x.batch), !.batch = Tail(@)]
         IN  WorkerOK(y) /\ Hand(y) = Hand(x)
<1> DEFINE y == [x EXCEPT !.current = Head(x.batch), !.batch = Tail(@)]
<1>1. x \in WorkerStates /\ x.batch \in Seq(Claimed)
  BY DEF WorkerOK, WorkerStates
<1>2. /\ Head(x.batch) \in Claimed /\ Tail(x.batch) \in Seq(Claimed)
      /\ 1 \in DOMAIN x.batch /\ Head(x.batch) = x.batch[1]
      /\ \A n \in DOMAIN Tail(x.batch) :
           n + 1 \in DOMAIN x.batch /\ Tail(x.batch)[n] = x.batch[n + 1] /\ n # 0
      /\ \A n \in DOMAIN x.batch :
           n # 1 => n - 1 \in DOMAIN Tail(x.batch) /\ x.batch[n] = Tail(x.batch)[n - 1]
      /\ DOMAIN Tail(x.batch) \subseteq Nat
  BY <1>1, HeadInBatch
<1>3. y \in WorkerStates /\ y.current = x.batch[1] /\ y.batch = Tail(x.batch) /\ y.phase = "work"
  BY <1>1, <1>2 DEF WorkerStates
<1>4. \A m, n \in DOMAIN y.batch : y.batch[m].job = y.batch[n].job => m = n
  BY <1>2, <1>3 DEF WorkerOK
<1>5. \A n \in DOMAIN y.batch : y.batch[n].job # y.current.job
  BY <1>2, <1>3 DEF WorkerOK
<1>6. WorkerOK(y)
  BY <1>3, <1>4, <1>5 DEF WorkerOK
<1>7. \A c \in Claimed :
        (c = y.current \/ \E n \in DOMAIN y.batch : c = y.batch[n])
        <=> (c = x.current \/ \E n \in DOMAIN x.batch : c = x.batch[n])
  <2> SUFFICES ASSUME NEW c \in Claimed
               PROVE  (c = x.batch[1] \/ \E n \in DOMAIN Tail(x.batch) : c = Tail(x.batch)[n])
                      <=> \E n \in DOMAIN x.batch : c = x.batch[n]
    BY <1>3, NoJobIsNoJob
  <2>1. ASSUME NEW n \in DOMAIN Tail(x.batch), c = Tail(x.batch)[n]
        PROVE  \E k \in DOMAIN x.batch : c = x.batch[k]
    BY <1>2, <2>1
  <2>2. ASSUME NEW n \in DOMAIN x.batch, c = x.batch[n], c # x.batch[1]
        PROVE  \E k \in DOMAIN Tail(x.batch) : c = Tail(x.batch)[k]
    BY <1>2, <2>2
  <2> QED
    BY <1>2, <2>1, <2>2
<1>8. Hand(y) = Hand(x)
  BY <1>7 DEF Hand
<1> QED
  BY <1>6, <1>8

\* The worker is done with its job.
LEMMA Drops ==
  ASSUME NEW x, WorkerOK(x), x.current # NoJob
  PROVE  LET y == [x EXCEPT !.current = NoJob]
         IN  /\ WorkerOK(y) /\ x.current \in Hand(x)
             /\ Hand(y) = Hand(x) \ {x.current} /\ ~Has(y, x.current.job)
<1> DEFINE y == [x EXCEPT !.current = NoJob]
<1>1. /\ x \in WorkerStates /\ x.current \in Claimed
      /\ \A n \in DOMAIN x.batch : x.batch[n] \in Claimed
      /\ y \in WorkerStates /\ y.current = NoJob /\ y.batch = x.batch /\ y.phase = x.phase
  BY DEF WorkerOK, WorkerStates
<1>2. WorkerOK(y)
  <2>1. \A n \in DOMAIN y.batch : y.batch[n].job \in Jobs
    BY <1>1 DEF Claimed
  <2> QED
    BY <1>1, <2>1, NoJobIsNoJob DEF WorkerOK
<1>3. x.current \in Hand(x) /\ Hand(y) = Hand(x) \ {x.current}
  BY <1>1, NoJobIsNoJob DEF Hand, WorkerOK
<1>4. ~Has(y, x.current.job)
  BY <1>1, NoJobIsNoJob DEF Has, Hand, WorkerOK
<1> QED
  BY <1>2, <1>3, <1>4

\* The worker gives the next job of its batch back, for lack of time.
LEMMA GivesBack ==
  ASSUME NEW x, WorkerOK(x), x.phase \in {"work", "late"}, x.batch # <<>>, x.current = NoJob
  PROVE  LET y == [x EXCEPT !.batch = Tail(@), !.phase = "late"]
         IN  /\ WorkerOK(y) /\ Head(x.batch) \in Hand(x)
             /\ Hand(y) = Hand(x) \ {Head(x.batch)} /\ ~Has(y, Head(x.batch).job)
<1> DEFINE z == [x EXCEPT !.phase = "work"]
           u == [z EXCEPT !.current = Head(z.batch), !.batch = Tail(@)]
           v == [u EXCEPT !.current = NoJob]
           y == [x EXCEPT !.batch = Tail(@), !.phase = "late"]
<1>1. x \in WorkerStates /\ x.batch \in Seq(Claimed)
  BY DEF WorkerOK, WorkerStates
<1>2. z \in WorkerStates /\ z.batch = x.batch /\ z.current = NoJob /\ z.phase = "work"
  BY <1>1 DEF WorkerStates, Phases
<1>3. WorkerOK(z) /\ Hand(z) = Hand(x)
  BY <1>2 DEF WorkerOK, Hand
<1>4. WorkerOK(u) /\ Hand(u) = Hand(x)
  BY <1>2, <1>3, Takes
<1>5. Head(x.batch) \in Claimed
  BY <1>1, HeadInBatch
<1>6. u.current = Head(x.batch) /\ u.batch = Tail(x.batch) /\ u.phase = "work"
  BY <1>2
<1>7. u.current # NoJob
  BY <1>5, <1>6, NoJobIsNoJob
<1>8. /\ WorkerOK(v) /\ u.current \in Hand(u)
      /\ Hand(v) = Hand(u) \ {u.current} /\ ~Has(v, u.current.job)
  BY <1>4, <1>7, Drops
<1>9. v.batch = Tail(x.batch) /\ v.current = NoJob /\ y.batch = v.batch /\ y.current = v.current
      /\ y.phase = "late" /\ y \in WorkerStates
  <2>1. v.batch = Tail(x.batch) /\ v.current = NoJob
    BY <1>2, <1>6
  <2>2. y \in WorkerStates /\ y.batch = Tail(x.batch) /\ y.current = NoJob /\ y.phase = "late"
    BY <1>1, HeadInBatch DEF WorkerStates, Phases
  <2> QED
    BY <2>1, <2>2
<1>10. WorkerOK(y) /\ Hand(y) = Hand(v)
  <2>1. Hand(y) = Hand(v)
    BY <1>9 DEF Hand
  <2> QED
    BY <1>8, <1>9, <2>1 DEF WorkerOK
<1>11. ~Has(y, u.current.job)
  BY <1>8, <1>10 DEF Has
<1> QED
  BY <1>4, <1>6, <1>8, <1>10, <1>11

----------------------------------------------------------------------------
(* The invariant.                                                          *)

LEMMA QueueInitially == Init => QueueInv
<1> SUFFICES ASSUME Init PROVE QueueInv
  OBVIOUS
<1>1. Typed
  BY QueueAssumption DEF Init, Typed
<1>2. Off \in WorkerStates /\ Off.batch = <<>> /\ Off.current = NoJob /\ Off.phase = "off"
  BY DEF Off, WorkerStates, Phases
<1>3. WorkerOK(Off) /\ Hand(Off) = {}
  BY <1>2, NoJobIsNoJob DEF WorkerOK, Hand
<1>4. \A w \in Workers : worker[w] = Off
  BY DEF Init
<1>5. WorkersOK
  BY <1>2, <1>3, <1>4 DEF WorkersOK, Init
<1>6. \A j \in Jobs : JobOK(j)
  BY <1>3, <1>4, QueueAssumption DEF Init, JobOK, Has
<1> QED
  BY <1>1, <1>5, <1>6 DEF QueueInv

\* A worker that comes to have less in hand changes nothing for a job whose row stays.
LEMMA Keeps ==
  ASSUME WorkersOK, NEW w \in Workers, NEW y, Hand(y) \subseteq Hand(worker[w]),
         worker' = [worker EXCEPT ![w] = y],
         NEW j \in Jobs, JobOK(j), status'[j] = status[j], attempts'[j] = attempts[j]
  PROVE  JobOK(j)'
<1>1. \A u \in Workers : Hand(worker'[u]) \subseteq Hand(worker[u])
  BY DEF WorkersOK
<1>2. \A u \in Workers : Has(worker'[u], j) => Has(worker[u], j)
  BY <1>1 DEF Has
<1> QED
  BY <1>1, <1>2 DEF JobOK

\* A worker that writes no row and takes nothing new keeps the invariant.
LEMMA LeavesRows ==
  ASSUME QueueInv, NEW w \in Workers, NEW y, WorkerOK(y), Hand(y) \subseteq Hand(worker[w]),
         worker' = [worker EXCEPT ![w] = y], UNCHANGED <<row, overdue>>
  PROVE  QueueInv'
<1>1. Typed'
  BY DEF QueueInv, Typed, row
<1>2. WorkersOK'
  BY DEF QueueInv, WorkersOK, WorkerOK
<1>3. \A j \in Jobs \ overdue : JobOK(j)'
  BY Keeps DEF QueueInv, row
<1> QED
  BY <1>1, <1>2, <1>3 DEF QueueInv

\* A worker that writes the row of a claim it had in hand, and lets go of it.
LEMMA WritesRow ==
  ASSUME QueueInv, NEW w \in Workers, NEW y, WorkerOK(y), Hand(y) \subseteq Hand(worker[w]),
         worker' = [worker EXCEPT ![w] = y],
         NEW c \in Hand(worker[w]), ~Has(y, c.job),
         NEW s \in {"succeeded", "dead", "pending"},
         s = "dead" => c.attempts >= MaxAttempts,
         s = "pending" => c.attempts < MaxAttempts,
         status' = [status EXCEPT ![c.job] = s], Written(w, c.job),
         UNCHANGED <<attempts, age>>, wait' \in [Jobs -> 0..Backoff]
  PROVE  QueueInv'
<1> DEFINE i == c.job
<1>1. i \in Jobs /\ c \in Claimed
  BY DEF Hand, Claimed
<1>2. Typed'
  BY <1>1 DEF QueueInv, Typed, Written, Final
<1>3. WorkersOK'
  BY DEF QueueInv, WorkersOK, WorkerOK
<1>4. ASSUME NEW j \in Jobs \ overdue', j # i
      PROVE  JobOK(j)'
  <2>1. status'[j] = status[j] /\ attempts'[j] = attempts[j] /\ j \notin overdue
    BY <1>1, <1>4 DEF QueueInv, Typed, Written
  <2> QED
    BY <2>1, Keeps DEF QueueInv
<1>5. ASSUME i \notin overdue'
      PROVE  JobOK(i)'
  <2>1. i \notin overdue /\ ~Foreign(w, i)
    BY <1>5 DEF Written
  <2>2. JobOK(i) /\ c.attempts = attempts[i]
    BY <1>1, <2>1 DEF QueueInv, JobOK
  <2>3. \A u \in Workers : u # w => ~Has(worker[u], i)
    <3>1. \A u \in Workers : WorkerOK(worker[u])
      BY DEF QueueInv, WorkersOK
    <3>2. \A u \in Workers : Holds(u, i) <=> Has(worker[u], i)
      BY <1>1, <3>1, HoldsIsHas DEF Holds
    <3> QED
      BY <2>1, <3>2 DEF Foreign
  <2>4. \A u \in Workers : ~Has(worker'[u], i)
    BY <2>3 DEF QueueInv, WorkersOK
  <2>5. status'[i] = s /\ attempts'[i] = attempts[i]
    BY <1>1 DEF QueueInv, Typed
  <2>6. attempts[i] \in Nat /\ MaxAttempts \in Nat
    BY <1>1, QueueAssumption DEF QueueInv, Typed
  <2>7. /\ attempts'[i] <= MaxAttempts /\ status'[i] # "absent"
        /\ status'[i] = "pending" => attempts'[i] < MaxAttempts
        /\ status'[i] = "dead" => attempts'[i] = MaxAttempts
    BY <2>2, <2>5, <2>6 DEF JobOK
  <2>8. \A u \in Workers : \A d \in Hand(worker'[u]) : d.job # i
    BY <2>4 DEF Has
  <2> QED
    BY <2>4, <2>7, <2>8 DEF JobOK
<1> QED
  BY <1>2, <1>3, <1>4, <1>5 DEF QueueInv

----------------------------------------------------------------------------
(* The steps.                                                              *)

\* A step that touches only the rows, and leaves held jobs running.
LEMMA TouchesRows ==
  ASSUME QueueInv, Typed', WorkersOK', overdue \subseteq overdue',
         \A w \in Workers : Hand(worker'[w]) = Hand(worker[w]),
         UNCHANGED attempts,
         \A j \in Jobs \ overdue' :
           \/ status'[j] = status[j]
           \/ /\ status[j] = "absent" /\ status'[j] = "pending"
           \/ /\ \A w \in Workers : ~Has(worker[w], j)
              /\ status'[j] = IF attempts[j] >= MaxAttempts THEN "dead" ELSE "pending"
  PROVE  QueueInv'
<1> SUFFICES ASSUME NEW j \in Jobs \ overdue'
             PROVE  JobOK(j)'
  BY DEF QueueInv
<1>1. /\ JobOK(j) /\ attempts'[j] = attempts[j] /\ attempts[j] \in Nat
      /\ MaxAttempts \in Nat \ {0}
  BY QueueAssumption DEF QueueInv, Typed
<1>2. \A w \in Workers : Has(worker'[w], j) <=> Has(worker[w], j)
  BY DEF Has
<1>3. CASE status'[j] = status[j]
  BY <1>1, <1>2, <1>3 DEF JobOK
<1>4. CASE status[j] = "absent" /\ status'[j] = "pending"
  <2>1. \A w \in Workers : \A c \in Hand(worker[w]) : c.job # j
    BY <1>1, <1>4 DEF JobOK
  <2>2. 0 < MaxAttempts /\ attempts[j] = 0
    BY <1>1, <1>4 DEF JobOK
  <2> QED
    BY <1>1, <1>2, <1>4, <2>1, <2>2 DEF JobOK
<1>5. CASE /\ \A w \in Workers : ~Has(worker[w], j)
           /\ status'[j] = IF attempts[j] >= MaxAttempts THEN "dead" ELSE "pending"
  <2>1. \A w \in Workers : \A c \in Hand(worker[w]) : c.job # j
    BY <1>5 DEF Has
  <2>2. /\ status'[j] # "absent" /\ attempts[j] <= MaxAttempts
        /\ status'[j] = "pending" => attempts[j] < MaxAttempts
        /\ status'[j] = "dead" => attempts[j] = MaxAttempts
    BY <1>1, <1>5 DEF JobOK
  <2> QED
    BY <1>1, <1>2, <2>1, <2>2 DEF JobOK
<1> QED
  BY <1>3, <1>4, <1>5

LEMMA QueueEnqueue == ASSUME QueueInv, NEW j \in Jobs, Enqueue(j) PROVE QueueInv'
<1>1. Typed' /\ WorkersOK'
  BY DEF Enqueue, QueueInv, Typed, WorkersOK, WorkerOK
<1>2. \A i \in Jobs : status'[i] = status[i] \/ (status[i] = "absent" /\ status'[i] = "pending")
  BY DEF Enqueue, QueueInv, Typed
<1> QED
  BY <1>1, <1>2, TouchesRows DEF Enqueue

LEMMA QueueTick == ASSUME QueueInv, Tick PROVE QueueInv'
<1>1. WorkersOK'
  BY DEF Tick, QueueInv, WorkersOK, WorkerOK
<1>2. Typed'
  BY QueueAssumption DEF Tick, QueueInv, Typed, Min2
<1> QED
  BY <1>1, <1>2, TouchesRows DEF Tick

LEMMA QueueWake == ASSUME QueueInv, NEW w \in Workers, Wake(w) PROVE QueueInv'
<1>1. /\ status' = [j \in Jobs |-> IF Stalled(j) THEN AfterStall(j) ELSE status[j]]
      /\ overdue' = overdue \cup {j \in Jobs : Stalled(j) /\ \E u \in Workers : Holds(u, j)}
      /\ worker' = [worker EXCEPT ![w].phase = "claim"] /\ worker[w] = Off
      /\ UNCHANGED <<attempts, wait, age>>
  BY DEF Wake
<1>2. Typed'
  BY <1>1 DEF QueueInv, Typed, AfterStall, Final
<1>3. worker[w] \in WorkerStates /\ worker[w].batch = <<>> /\ worker[w].current = NoJob
  BY <1>1 DEF QueueInv, WorkersOK, Off
<1>4. /\ worker'[w] \in WorkerStates /\ worker'[w].phase = "claim"
      /\ worker'[w].batch = <<>> /\ worker'[w].current = NoJob
  BY <1>1, <1>3 DEF QueueInv, WorkersOK, WorkerStates, Phases
<1>5. \A u \in Workers : Hand(worker'[u]) = Hand(worker[u])
  BY <1>1, <1>3, <1>4 DEF QueueInv, WorkersOK, Hand
<1>6. WorkersOK'
  <2>1. WorkerOK(worker'[w])
    BY <1>4 DEF WorkerOK
  <2> QED
    BY <1>1, <1>4, <2>1 DEF QueueInv, WorkersOK
<1>7. ASSUME NEW j \in Jobs \ overdue'
      PROVE  \/ status'[j] = status[j]
             \/ /\ \A u \in Workers : ~Has(worker[u], j)
                /\ status'[j] = IF attempts[j] >= MaxAttempts THEN "dead" ELSE "pending"
  <2>1. CASE ~Stalled(j)
    BY <1>1, <2>1
  <2>2. CASE Stalled(j)
    <3>1. \A u \in Workers : ~Holds(u, j)
      BY <1>1, <2>2
    <3>2. \A u \in Workers : WorkerOK(worker[u])
      BY DEF QueueInv, WorkersOK
    <3>3. \A u \in Workers : ~Has(worker[u], j)
      BY <3>1, <3>2, HoldsIsHas DEF Holds
    <3> QED
      BY <1>1, <2>2, <3>3 DEF AfterStall
  <2> QED
    BY <2>1, <2>2
<1> QED
  BY <1>1, <1>2, <1>5, <1>6, <1>7, TouchesRows

LEMMA QueueStart == ASSUME QueueInv, NEW w \in Workers, Start(w) PROVE QueueInv'
<1> DEFINE x == worker[w]
           y == [x EXCEPT !.current = Head(x.batch), !.batch = Tail(@)]
<1>1. WorkerOK(x) /\ x.phase = "work" /\ x.batch # <<>> /\ x.current = NoJob
  BY DEF Start, Between, QueueInv, WorkersOK
<1>2. worker' = [worker EXCEPT ![w] = y]
  BY DEF Start, QueueInv, WorkersOK
<1>3. WorkerOK(y) /\ Hand(y) \subseteq Hand(worker[w])
  BY <1>1, Takes
<1> QED
  BY <1>2, <1>3, LeavesRows DEF Start

LEMMA GoesOff ==
  ASSUME QueueInv, NEW w \in Workers, worker' = [worker EXCEPT ![w] = Off],
         UNCHANGED <<row, overdue>>
  PROVE  QueueInv'
<1>1. WorkerOK(Off) /\ Hand(Off) = {}
  BY NoJobIsNoJob DEF Off, WorkerOK, WorkerStates, Phases, Hand
<1> QED
  BY <1>1, LeavesRows

LEMMA QueueSucceed == ASSUME QueueInv, NEW w \in Workers, Succeed(w) PROVE QueueInv'
<1> DEFINE x == worker[w]
           y == [x EXCEPT !.current = NoJob]
<1>1. WorkerOK(x) /\ x.current # NoJob /\ worker' = [worker EXCEPT ![w] = y]
  BY DEF Succeed, QueueInv, WorkersOK
<1>2. /\ WorkerOK(y) /\ x.current \in Hand(x)
      /\ Hand(y) \subseteq Hand(worker[w]) /\ ~Has(y, x.current.job)
  BY <1>1, Drops
<1>3. wait' \in [Jobs -> 0..Backoff]
  BY DEF Succeed, QueueInv, Typed
<1>4. /\ status' = [status EXCEPT ![x.current.job] = "succeeded"]
      /\ Written(w, x.current.job) /\ UNCHANGED <<attempts, age>>
  BY DEF Succeed
<1> QED
  BY <1>1, <1>2, <1>3, <1>4, WritesRow

LEMMA QueueFailJob ==
  ASSUME QueueInv, NEW w \in Workers, NEW y, WorkerOK(y), Hand(y) \subseteq Hand(worker[w]),
         worker' = [worker EXCEPT ![w] = y],
         NEW c \in Hand(worker[w]), ~Has(y, c.job), FailJob(w, c)
  PROVE  QueueInv'
<1> DEFINE s == IF Exhausted(c) THEN "dead" ELSE "pending"
<1>1. wait' \in [Jobs -> 0..Backoff]
  <2>1. Backoff \in 0..Backoff /\ wait \in [Jobs -> 0..Backoff]
    BY QueueAssumption DEF QueueInv, Typed
  <2>2. wait' = [wait EXCEPT ![c.job] = Backoff]
    BY DEF FailJob
  <2> QED
    BY <2>1, <2>2
<1>2. c.attempts \in Nat /\ MaxAttempts \in Nat
  BY QueueAssumption DEF Hand, Claimed
<1>3. /\ s \in {"succeeded", "dead", "pending"}
      /\ s = "dead" => c.attempts >= MaxAttempts
      /\ s = "pending" => c.attempts < MaxAttempts
  BY <1>2 DEF Exhausted
<1>4. /\ status' = [status EXCEPT ![c.job] = s]
      /\ Written(w, c.job) /\ UNCHANGED <<attempts, age>>
  BY DEF FailJob
<1> HIDE DEF s
<1> QED
  BY <1>1, <1>3, <1>4, WritesRow

LEMMA QueueFail == ASSUME QueueInv, NEW w \in Workers, Fail(w) PROVE QueueInv'
<1> DEFINE x == worker[w]
           y == [x EXCEPT !.current = NoJob]
<1>1. /\ WorkerOK(x) /\ x.current # NoJob /\ worker' = [worker EXCEPT ![w] = y]
      /\ FailJob(w, x.current)
  BY DEF Fail, QueueInv, WorkersOK
<1>2. /\ WorkerOK(y) /\ x.current \in Hand(x)
      /\ Hand(y) \subseteq Hand(worker[w]) /\ ~Has(y, x.current.job)
  BY <1>1, Drops
<1> QED
  BY <1>1, <1>2, QueueFailJob

LEMMA QueueRelease == ASSUME QueueInv, NEW w \in Workers, Release(w) PROVE QueueInv'
<1> DEFINE x == worker[w]
           y == [x EXCEPT !.batch = Tail(@), !.phase = "late"]
<1>1. /\ WorkerOK(x) /\ x.phase \in {"work", "late"} /\ x.batch # <<>> /\ x.current = NoJob
      /\ worker' = [worker EXCEPT ![w] = y] /\ FailJob(w, Head(x.batch))
  BY DEF Release, Between, QueueInv, WorkersOK
<1>2. /\ WorkerOK(y) /\ Head(x.batch) \in Hand(x)
      /\ Hand(y) \subseteq Hand(worker[w]) /\ ~Has(y, Head(x.batch).job)
  BY <1>1, GivesBack
<1> QED
  BY <1>1, <1>2, QueueFailJob

LEMMA QueueLoseWrite == ASSUME QueueInv, NEW w \in Workers, LoseWrite(w) PROVE QueueInv'
<1> DEFINE x == worker[w]
           y == [x EXCEPT !.current = NoJob]
           z == [x EXCEPT !.batch = Tail(@), !.phase = "late"]
<1>1. WorkerOK(x) /\ UNCHANGED <<row, overdue>>
  BY DEF LoseWrite, QueueInv, WorkersOK
<1>2. CASE x.current # NoJob /\ worker' = [worker EXCEPT ![w] = y]
  <2>1. WorkerOK(y) /\ Hand(y) \subseteq Hand(worker[w])
    BY <1>1, <1>2, Drops
  <2> QED
    BY <1>1, <1>2, <2>1, LeavesRows
<1>3. CASE Between(w) /\ x.batch # <<>> /\ worker' = [worker EXCEPT ![w] = z]
  <2>1. WorkerOK(z) /\ Hand(z) \subseteq Hand(worker[w])
    BY <1>1, <1>3, GivesBack DEF Between
  <2> QED
    BY <1>1, <1>3, <2>1, LeavesRows
<1>4. \/ x.current # NoJob /\ worker' = [worker EXCEPT ![w].current = NoJob]
      \/ /\ Between(w) /\ x.batch # <<>>
         /\ worker' = [worker EXCEPT ![w].batch = Tail(@), ![w].phase = "late"]
  BY DEF LoseWrite
<1>5. worker' = [worker EXCEPT ![w].current = NoJob] => worker' = [worker EXCEPT ![w] = y]
  BY DEF QueueInv, WorkersOK
<1>6. worker' = [worker EXCEPT ![w].batch = Tail(@), ![w].phase = "late"]
        => worker' = [worker EXCEPT ![w] = z]
  BY DEF QueueInv, WorkersOK
<1> QED
  BY <1>2, <1>3, <1>4, <1>5, <1>6

\* The claims of a batch s.
ClaimsOf(s) == [n \in DOMAIN s |-> [job |-> s[n], attempts |-> attempts[s[n]] + 1]]
WorksOn(s) == [phase |-> "work", current |-> NoJob, batch |-> ClaimsOf(s)]

LEMMA BatchShape ==
  ASSUME QueueInv, NEW s \in Batches
  PROVE  /\ \A n \in DOMAIN s : s[n] \in Jobs /\ Ready(s[n])
         /\ \A m, n \in DOMAIN s : s[m] = s[n] => m = n
         /\ WorkerOK(WorksOn(s))
         /\ Hand(WorksOn(s)) =
              {c \in Claimed : (\E n \in DOMAIN s : c.job = s[n]) /\ c.attempts = attempts[c.job] + 1}
<1> DEFINE ready == {j \in Jobs : Ready(j)}
           size == Min2(BatchLimit, Cardinality(ready))
<1>1. size \in Nat
  <2>1. IsFiniteSet(ready)
    BY QueueAssumption, FS_Subset
  <2>2. Cardinality(ready) \in Nat
    BY <2>1, FS_CardinalityType
  <2> HIDE DEF ready
  <2> QED
    BY <2>2, QueueAssumption DEF Min2
<1>2. /\ s \in [1..size -> ready]
      /\ \A m, n \in 1..size : m # n => s[m] # s[n]
  BY DEF Batches
<1> HIDE DEF size
<1>3. /\ DOMAIN s = 1..size
      /\ \A n \in DOMAIN s : s[n] \in Jobs /\ Ready(s[n])
      /\ \A m, n \in DOMAIN s : s[m] = s[n] => m = n
  BY <1>2
<1>4. \A n \in 1..size : [job |-> s[n], attempts |-> attempts[s[n]] + 1] \in Claimed
  <2>1. ASSUME NEW n \in 1..size
        PROVE  s[n] \in Jobs /\ attempts[s[n]] + 1 \in Nat \ {0}
    <3>1. s[n] \in Jobs /\ attempts \in [Jobs -> Nat]
      BY <1>3 DEF QueueInv, Typed
    <3>2. attempts[s[n]] \in Nat
      BY <3>1
    <3> QED
      BY <3>1, <3>2
  <2> QED
    BY <2>1 DEF Claimed
<1>5. ClaimsOf(s) \in [1..size -> Claimed]
  BY <1>3, <1>4 DEF ClaimsOf
<1>6. ClaimsOf(s) \in Seq(Claimed)
  BY <1>1, <1>5
<1>7. /\ WorksOn(s) \in WorkerStates /\ WorksOn(s).phase = "work"
      /\ WorksOn(s).current = NoJob /\ WorksOn(s).batch = ClaimsOf(s)
  BY <1>6 DEF WorksOn, WorkerStates, Phases
<1>8. /\ DOMAIN ClaimsOf(s) = DOMAIN s
      /\ \A n \in DOMAIN s : /\ ClaimsOf(s)[n].job = s[n]
                            /\ ClaimsOf(s)[n].attempts = attempts[s[n]] + 1
                            /\ ClaimsOf(s)[n] \in Claimed
  BY <1>3, <1>4 DEF ClaimsOf
<1>9. WorkerOK(WorksOn(s))
  BY <1>3, <1>7, <1>8, NoJobIsNoJob DEF WorkerOK
<1>10. ASSUME NEW c \in Claimed
       PROVE  (\E n \in DOMAIN s : c = ClaimsOf(s)[n])
              <=> (\E n \in DOMAIN s : c.job = s[n]) /\ c.attempts = attempts[c.job] + 1
  BY <1>8 DEF Claimed
<1>11. Hand(WorksOn(s)) = {c \in Claimed : \E n \in DOMAIN s : c = ClaimsOf(s)[n]}
  BY <1>7, <1>8, NoJobIsNoJob DEF Hand
<1> QED
  BY <1>3, <1>9, <1>10, <1>11

\* One statement claims the batch: what it takes was free.
LEMMA QueueClaimBatch ==
  ASSUME QueueInv, NEW w \in Workers, NEW s \in Batches, worker[w].phase = "claim",
         status' = [j \in Jobs |-> IF \E n \in DOMAIN s : s[n] = j THEN "running" ELSE status[j]],
         attempts' = [j \in Jobs |-> IF \E n \in DOMAIN s : s[n] = j THEN attempts[j] + 1
                                                                ELSE attempts[j]],
         age' = [j \in Jobs |-> IF \E n \in DOMAIN s : s[n] = j THEN 0 ELSE age[j]],
         worker' = [worker EXCEPT ![w] = WorksOn(s)],
         UNCHANGED <<wait, overdue>>
  PROVE  QueueInv'
<1> DEFINE Got(j) == \E n \in DOMAIN s : s[n] = j
<1>1. /\ WorkerOK(WorksOn(s)) /\ \A j : Got(j) => j \in Jobs /\ status[j] = "pending"
      /\ \A c \in Hand(WorksOn(s)) : Got(c.job) /\ c.attempts = attempts[c.job] + 1
  BY BatchShape DEF Ready
<1>2. Typed'
  BY QueueAssumption DEF QueueInv, Typed
<1>3. WorkersOK'
  BY <1>1 DEF QueueInv, WorkersOK, WorkerOK
<1>4. Hand(worker[w]) = {}
  BY NoJobIsNoJob DEF QueueInv, WorkersOK, WorkerOK, Hand
<1>5. /\ worker'[w] = WorksOn(s)
      /\ \A u \in Workers \ {w} : worker'[u] = worker[u]
  BY DEF QueueInv, WorkersOK
<1>6. ASSUME NEW j \in Jobs \ overdue, Got(j)
      PROVE  JobOK(j)'
  <2>1. JobOK(j) /\ status[j] = "pending" /\ attempts[j] \in Nat /\ MaxAttempts \in Nat
    BY <1>1, <1>6, QueueAssumption DEF QueueInv, Typed
  <2>2. attempts[j] < MaxAttempts /\ \A u \in Workers : \A c \in Hand(worker[u]) : c.job # j
    BY <2>1 DEF JobOK
  <2>3. status'[j] = "running" /\ attempts'[j] = attempts[j] + 1
    BY <1>6
  <2>4. \A u \in Workers \ {w} : \A c \in Hand(worker'[u]) : c.job # j
    BY <1>5, <2>2
  <2>5. \A c \in Hand(worker'[w]) : c.job = j => c.attempts = attempts'[j]
    BY <1>1, <1>5, <2>3
  <2> QED
    BY <2>1, <2>2, <2>3, <2>4, <2>5 DEF JobOK, Has
<1>7. ASSUME NEW j \in Jobs \ overdue, ~Got(j)
      PROVE  JobOK(j)'
  <2>1. JobOK(j) /\ status'[j] = status[j] /\ attempts'[j] = attempts[j]
    BY <1>7 DEF QueueInv
  <2>2. \A u \in Workers : \A c \in Hand(worker'[u]) : c.job = j => c \in Hand(worker[u])
    BY <1>1, <1>5, <1>7
  <2> QED
    BY <2>1, <2>2 DEF JobOK, Has
<1> QED
  BY <1>2, <1>3, <1>6, <1>7 DEF QueueInv

LEMMA QueueClaimJobs == ASSUME QueueInv, NEW w \in Workers, ClaimJobs(w) PROVE QueueInv'
<1>1. PICK s \in Batches :
        LET got == {s[n] : n \in DOMAIN s}
        IN  /\ status' = [j \in Jobs |-> IF j \in got THEN "running" ELSE status[j]]
            /\ attempts' = [j \in Jobs |-> IF j \in got THEN attempts[j] + 1 ELSE attempts[j]]
            /\ age' = [j \in Jobs |-> IF j \in got THEN 0 ELSE age[j]]
            /\ worker' = [worker EXCEPT ![w] =
                 IF s = <<>> THEN Off
                 ELSE [phase |-> "work", current |-> NoJob,
                       batch |-> [n \in DOMAIN s |->
                                    [job |-> s[n], attempts |-> attempts[s[n]] + 1]]]]
  BY DEF ClaimJobs
<1>2. \A j : j \in {s[n] : n \in DOMAIN s} <=> \E n \in DOMAIN s : s[n] = j
  OBVIOUS
<1>3. UNCHANGED <<wait, overdue>> /\ worker[w].phase = "claim"
  BY DEF ClaimJobs
<1>4. CASE s = <<>>
  <2>1. \A j : j \notin {s[n] : n \in DOMAIN s}
    BY <1>4
  <2>2. status' = status /\ attempts' = attempts /\ age' = age
    BY <1>1, <2>1 DEF QueueInv, Typed
  <2>3. worker' = [worker EXCEPT ![w] = Off]
    BY <1>1, <1>4
  <2> QED
    BY <1>3, <2>2, <2>3, GoesOff DEF row
<1>5. CASE s # <<>>
  <2>1. worker' = [worker EXCEPT ![w] = WorksOn(s)]
    BY <1>1, <1>5 DEF WorksOn, ClaimsOf
  <2>2. /\ status' = [j \in Jobs |-> IF \E n \in DOMAIN s : s[n] = j THEN "running" ELSE status[j]]
        /\ attempts' = [j \in Jobs |-> IF \E n \in DOMAIN s : s[n] = j THEN attempts[j] + 1
                                                                  ELSE attempts[j]]
        /\ age' = [j \in Jobs |-> IF \E n \in DOMAIN s : s[n] = j THEN 0 ELSE age[j]]
    BY <1>1, <1>2
  <2> QED
    BY <1>3, <2>1, <2>2, QueueClaimBatch
<1> QED
  BY <1>4, <1>5

LEMMA QueueStep == QueueInv /\ [Next]_vars => QueueInv'
<1> SUFFICES ASSUME QueueInv, [Next]_vars PROVE QueueInv'
  OBVIOUS
<1>1. ASSUME NEW w \in Workers, Return(w) PROVE QueueInv'
  BY <1>1, GoesOff DEF Return
<1>2. ASSUME NEW w \in Workers, Crash(w) PROVE QueueInv'
  BY <1>2, GoesOff DEF Crash
<1>3. CASE UNCHANGED vars
  BY <1>3 DEF vars, row, QueueInv, Typed, WorkersOK, WorkerOK, JobOK
<1> QED
  BY <1>1, <1>2, <1>3, QueueEnqueue, QueueTick, QueueWake, QueueClaimJobs, QueueStart,
     QueueSucceed, QueueFail, QueueRelease, QueueLoseWrite DEF Next, Work

LEMMA QueueInvariant == Spec => []QueueInv
BY QueueInitially, QueueStep, PTL DEF Spec

LEMMA InvImpliesRowsMatch == QueueInv => RowsMatchWorkers
<1> SUFFICES ASSUME QueueInv PROVE RowsMatchWorkers
  OBVIOUS
<1>1. \A w \in Workers : WorkerOK(worker[w])
  BY DEF QueueInv, WorkersOK
<1>2. TypeOK
  <2>1. Claimed \subseteq Claims /\ NoJob \in Claims
    BY DEF Claimed, Claims, NoJob
  <2>2. ASSUME NEW w \in Workers
        PROVE  /\ worker[w].phase \in {"off", "claim", "work", "late"}
               /\ worker[w].batch \in Seq(Claims) /\ worker[w].current \in Claims
    BY <1>1, <2>1 DEF WorkerOK, WorkerStates, Phases
  <2> QED
    BY <2>2 DEF TypeOK, QueueInv, Typed
<1>3. \A w \in Workers, j \in Jobs : Holds(w, j) <=> Has(worker[w], j)
  BY <1>1, HoldsIsHas DEF Holds
<1>4. OneHolder
  BY <1>3 DEF OneHolder, QueueInv, JobOK
<1>5. HeldIsRunning
  BY <1>3 DEF HeldIsRunning, QueueInv, JobOK, Has
<1>6. AttemptsBounded
  BY DEF AttemptsBounded, QueueInv, JobOK
<1> QED
  BY <1>2, <1>4, <1>5, <1>6 DEF RowsMatchWorkers

\* At any time, whatever stalls, crashes and lost writes there have been, a job that
\* was not taken from a worker is in hand of one worker at most, is running while it
\* is, and is claimed max_attempts times at most.
THEOREM RowsAlwaysMatchWorkers == Spec => []RowsMatchWorkers
BY QueueInvariant, InvImpliesRowsMatch, PTL

----------------------------------------------------------------------------
(* What succeeded stays.                                                   *)

LEMMA WriteIsForeign ==
  ASSUME QueueInv, NEW w \in Workers, NEW i \in Jobs, Written(w, i),
         NEW s, status' = [status EXCEPT ![i] = s],
         NEW j \in Jobs \ overdue', status[j] = "succeeded"
  PROVE  status'[j] = "succeeded"
BY DEF Written, Foreign, QueueInv, Typed

\* In no step does a job that nobody was robbed of leave "succeeded": it is not
\* claimed again, not requeued and not failed.
THEOREM SuccessStaysFinal == Spec => SuccessIsFinal
<1>1. ASSUME QueueInv, [Next]_vars, NEW j \in Jobs \ overdue', status[j] = "succeeded"
      PROVE  status'[j] = "succeeded"
  <2>1. CASE UNCHANGED <<row, overdue>>
    BY <1>1, <2>1 DEF row
  <2>2. ASSUME NEW i \in Jobs, Enqueue(i) PROVE status'[j] = "succeeded"
    BY <1>1, <2>2 DEF Enqueue, QueueInv, Typed
  <2>3. ASSUME NEW w \in Workers, Wake(w) PROVE status'[j] = "succeeded"
    BY <1>1, <2>3 DEF Wake, Stalled
  <2>4. ASSUME NEW w \in Workers, ClaimJobs(w) PROVE status'[j] = "succeeded"
    <3>1. \A s \in Batches : \A n \in DOMAIN s : s[n] # j
      BY <1>1, BatchShape DEF Ready
    <3> QED
      BY <1>1, <2>4, <3>1 DEF ClaimJobs
  <2>5. ASSUME NEW w \in Workers, Succeed(w) \/ Fail(w) \/ Release(w)
        PROVE  status'[j] = "succeeded"
    <3>1. WorkerOK(worker[w])
      BY <1>1 DEF QueueInv, WorkersOK
    <3>2. CASE Succeed(w)
      <4>1. worker[w].current.job \in Jobs
        BY <3>1, <3>2 DEF Succeed, WorkerOK, WorkerStates, Claimed
      <4> QED
        BY <1>1, <3>2, <4>1, WriteIsForeign DEF Succeed
    <3>3. CASE Fail(w)
      <4>1. worker[w].current.job \in Jobs
        BY <3>1, <3>3 DEF Fail, WorkerOK, WorkerStates, Claimed
      <4> QED
        BY <1>1, <3>3, <4>1, WriteIsForeign DEF Fail, FailJob
    <3>4. CASE Release(w)
      <4>1. Head(worker[w].batch).job \in Jobs
        BY <3>1, <3>4, HeadInBatch DEF Release, WorkerOK, WorkerStates, Claimed
      <4> QED
        BY <1>1, <3>4, <4>1, WriteIsForeign DEF Release, FailJob
    <3> QED
      BY <2>5, <3>2, <3>3, <3>4
  <2> QED
    BY <1>1, <2>1, <2>2, <2>3, <2>4, <2>5
       DEF Next, Work, Start, Return, LoseWrite, Crash, Tick, vars, row
<1>2. QueueInv /\ [Next]_vars
        => [\A j \in Jobs \ overdue' : status[j] = "succeeded" => status'[j] = "succeeded"]_vars
  BY <1>1
<1> QED
  BY <1>2, QueueInvariant, PTL DEF Spec, SuccessIsFinal

----------------------------------------------------------------------------
(* The queue is a lease.                                                   *)

\* The attempt a worker in state x holds job j for.
AttemptOf(x, j) ==
  LET claims == {x.current} \cup {x.batch[n] : n \in DOMAIN x.batch}
  IN  IF x.current.job = j \/ \E n \in DOMAIN x.batch : x.batch[n].job = j
      THEN (CHOOSE c \in claims : c.job = j).attempts ELSE 0

LEMMA AttemptInHand ==
  ASSUME NEW x, WorkerOK(x), NEW j \in Jobs
  PROVE  /\ \A c \in Hand(x) : c.job = j => AttemptOf(x, j) = c.attempts /\ c.attempts # 0
         /\ ~Has(x, j) => AttemptOf(x, j) = 0
<1> DEFINE claims == {x.current} \cup {x.batch[n] : n \in DOMAIN x.batch}
<1>1. (x.current.job = j \/ \E n \in DOMAIN x.batch : x.batch[n].job = j) <=> Has(x, j)
  BY HoldsIsHas
<1>2. ASSUME NEW c \in Hand(x), c.job = j
      PROVE  AttemptOf(x, j) = c.attempts /\ c.attempts # 0
  <2>1. c \in claims /\ c \in Claimed /\ Has(x, j)
    BY <1>2 DEF Hand, Has
  <2>2. ASSUME NEW d \in claims, d.job = j
        PROVE  d = c
    <3>1. d # NoJob
      BY <2>2, NoJobIsNoJob
    <3>2. d \in Claimed
      BY <2>2, <3>1 DEF WorkerOK, WorkerStates
    <3>3. d \in Hand(x)
      BY <2>2, <3>2 DEF Hand
    <3> QED
      BY <1>2, <2>2, <3>3, InHandOnce
  <2>3. (CHOOSE d \in claims : d.job = j) = c
    BY <1>2, <2>1, <2>2
  <2> QED
    BY <1>1, <2>1, <2>3 DEF AttemptOf, Claimed
<1>3. ~Has(x, j) => AttemptOf(x, j) = 0
  BY <1>1 DEF AttemptOf
<1> QED
  BY <1>2, <1>3

LEMMA SameHandSameAttempt ==
  ASSUME NEW x, NEW y, WorkerOK(x), WorkerOK(y), NEW j \in Jobs,
         \A c \in Claimed : c.job = j => (c \in Hand(x) <=> c \in Hand(y))
  PROVE  AttemptOf(y, j) = AttemptOf(x, j)
<1>1. Has(x, j) <=> Has(y, j)
  BY DEF Has, Hand
<1>2. CASE ~Has(x, j)
  BY <1>1, <1>2, AttemptInHand
<1>3. CASE Has(x, j)
  <2>1. PICK c \in Hand(x) : c.job = j
    BY <1>3 DEF Has
  <2>2. c \in Hand(y)
    BY <2>1 DEF Hand
  <2> QED
    BY <2>1, <2>2, AttemptInHand
<1> QED
  BY <1>2, <1>3

\* The lease of job j is its row and what the workers hold.
Held(j) == [w \in Workers |-> AttemptOf(worker[w], j)]
LeaseRow(st, n, h) == [status |-> st, attempts |-> n, held |-> h]
LeaseOf(j) == LeaseRow(status[j], attempts[j], Held(j))

LEMMA LeasesAre == leases = [j \in Jobs |-> LeaseOf(j)]
BY DEF leases, LeaseOf, LeaseRow, Held, AttemptHeld, AttemptOf, Holds

LEMMA LeasesAreNext == leases' = [j \in Jobs |-> LeaseOf(j)']
BY DEF leases, LeaseOf, LeaseRow, Held, AttemptHeld, AttemptOf, Holds

\* What JobLease's steps make of a row and its holders.
LEMMA LeaseClaimed ==
  ASSUME NEW st, NEW n, NEW h, NEW w
  PROVE  Lease!Claimed(LeaseRow(st, n, h), w) = LeaseRow("running", n + 1, [h EXCEPT ![w] = n + 1])
<1> DEFINE l == LeaseRow(st, n, h)
           m == n + 1
<1>1. l.attempts + 1 = m
  BY DEF LeaseRow
<1>2. Lease!Claimed(l, w) = [[[l EXCEPT !.status = "running"] EXCEPT !.attempts = l.attempts + 1]
                               EXCEPT !.held[w] = l.attempts + 1]
  BY DEF Lease!Claimed
<1>3. [l EXCEPT !.status = "running"] = LeaseRow("running", n, h)
  BY DEF LeaseRow
<1> HIDE DEF l
<1>4. Lease!Claimed(l, w) = [[[l EXCEPT !.status = "running"] EXCEPT !.attempts = m]
                               EXCEPT !.held[w] = m]
  BY <1>1, <1>2
<1> HIDE DEF m
<1>5. [LeaseRow("running", n, h) EXCEPT !.attempts = m] = LeaseRow("running", m, h)
  BY DEF LeaseRow
<1>6. [LeaseRow("running", m, h) EXCEPT !.held[w] = m] = LeaseRow("running", m, [h EXCEPT ![w] = m])
  BY DEF LeaseRow
<1>7. Lease!Claimed(l, w) = [[LeaseRow("running", n, h) EXCEPT !.attempts = m] EXCEPT !.held[w] = m]
  BY <1>3, <1>4
<1>8. @ = [LeaseRow("running", m, h) EXCEPT !.held[w] = m]
  BY <1>5
<1> QED
  BY <1>6, <1>7, <1>8 DEF l, m

LEMMA LeaseLetGo ==
  ASSUME NEW st, NEW n, NEW h, NEW w
  PROVE  LET l == LeaseRow(st, n, h)
             zero == [h EXCEPT ![w] = 0]
         IN  /\ Lease!Done(l, w) = LeaseRow("succeeded", n, zero)
             /\ Lease!Failed(l, w) = LeaseRow(Lease!AfterAttempt(h[w]), n, zero)
             /\ Lease!Forgotten(l, w) = LeaseRow(st, n, zero)
<1> DEFINE l == LeaseRow(st, n, h)
           zero == [h EXCEPT ![w] = 0]
<1>1. /\ Lease!Done(l, w) = [[l EXCEPT !.status = "succeeded"] EXCEPT !.held[w] = 0]
      /\ Lease!Failed(l, w) =
           [[l EXCEPT !.status = Lease!AfterAttempt(l.held[w])] EXCEPT !.held[w] = 0]
      /\ Lease!Forgotten(l, w) = [l EXCEPT !.held[w] = 0]
  BY DEF Lease!Done, Lease!Failed, Lease!Forgotten
<1>2. /\ l.held = h /\ \A s : [l EXCEPT !.status = s] = LeaseRow(s, n, h)
      /\ [l EXCEPT !.held[w] = 0] = LeaseRow(st, n, zero)
  <2>1. \A s : [l EXCEPT !.status = s] = LeaseRow(s, n, h)
    BY DEF LeaseRow
  <2>2. [l EXCEPT !.held[w] = 0] = LeaseRow(st, n, zero)
    BY DEF LeaseRow
  <2> QED
    BY <2>1, <2>2 DEF LeaseRow
<1>3. \A s : [LeaseRow(s, n, h) EXCEPT !.held[w] = 0] = LeaseRow(s, n, zero)
  BY DEF LeaseRow
<1> HIDE DEF l, zero
<1>4. Lease!Done(l, w) = LeaseRow("succeeded", n, zero)
  BY Zenon, <1>1, <1>2, <1>3
<1>5. Lease!Failed(l, w) = LeaseRow(Lease!AfterAttempt(h[w]), n, zero)
  BY Zenon, <1>1, <1>2, <1>3
<1>6. Lease!Forgotten(l, w) = LeaseRow(st, n, zero)
  BY Zenon, <1>1, <1>2
<1> QED
  BY <1>4, <1>5, <1>6 DEF l, zero

LEMMA LeaseMoves ==
  ASSUME NEW l
  PROVE  /\ l \in Lease!Moves(l) /\ Lease!Enqueued(l) \in Lease!Moves(l)
         /\ \A w \in Workers : l.status = "pending" /\ l.held[w] = 0
              => Lease!Claimed(l, w) \in Lease!Moves(l)
         /\ l.status = "running" => Lease!Expired(l) \in Lease!Moves(l)
         /\ \A w \in Workers : l.held[w] # 0
              => /\ Lease!Done(l, w) \in Lease!Moves(l)
                 /\ Lease!Failed(l, w) \in Lease!Moves(l)
                 /\ Lease!Forgotten(l, w) \in Lease!Moves(l)
<1>1. l \in Lease!Moves(l) /\ Lease!Enqueued(l) \in Lease!Moves(l)
  BY Zenon DEF Lease!Moves
<1>2. \A w \in Workers : l.status = "pending" /\ l.held[w] = 0
        => Lease!Claimed(l, w) \in Lease!Moves(l)
  BY Zenon DEF Lease!Moves
<1>3. l.status = "running" => Lease!Expired(l) \in Lease!Moves(l)
  BY Zenon DEF Lease!Moves
<1>4. ASSUME NEW w \in Workers, l.held[w] # 0, NEW m,
             m \in {Lease!Done(l, w), Lease!Failed(l, w), Lease!Forgotten(l, w)}
      PROVE  m \in Lease!Moves(l)
  BY Zenon, <1>4 DEF Lease!Moves
<1> QED
  BY <1>1, <1>2, <1>3, <1>4

\* A step is a step of the leases when each lease makes a move.
LEMMA MovesMakeAStep ==
  ASSUME \A j \in Jobs : LeaseOf(j)' \in Lease!Moves(LeaseOf(j))
  PROVE  Lease!LeaseNext
BY LeasesAre, LeasesAreNext DEF Lease!LeaseNext

\* A lease whose row and holders stay does not move.
LEMMA SameLease ==
  ASSUME WorkersOK, WorkersOK', NEW j \in Jobs,
         status'[j] = status[j], attempts'[j] = attempts[j],
         \A w \in Workers : \A c \in Claimed :
           c.job = j => (c \in Hand(worker[w]) <=> c \in Hand(worker'[w]))
  PROVE  LeaseOf(j)' \in Lease!Moves(LeaseOf(j))
<1>1. \A w \in Workers : AttemptOf(worker'[w], j) = AttemptOf(worker[w], j)
  BY SameHandSameAttempt DEF WorkersOK, WorkerOK
<1>2. Held(j)' = Held(j)
  BY <1>1 DEF Held
<1>3. LeaseOf(j)' = LeaseOf(j)
  BY <1>2 DEF LeaseOf
<1> QED
  BY <1>3, LeaseMoves

\* Worker w lets go of claim c, and of nothing else.
LetsGo(w, y, c) ==
  /\ w \in Workers /\ WorkerOK(y) /\ worker' = [worker EXCEPT ![w] = y]
  /\ c \in Hand(worker[w]) /\ Hand(y) = Hand(worker[w]) \ {c} /\ ~Has(y, c.job)

LEMMA WorkersStayOK ==
  ASSUME WorkersOK, NEW w, NEW y, NEW c, LetsGo(w, y, c)
  PROVE  WorkersOK'
BY DEF WorkersOK, LetsGo, WorkerOK

LEMMA OthersKept ==
  ASSUME WorkersOK, NEW w, NEW y, NEW c, LetsGo(w, y, c), NEW j \in Jobs, j # c.job,
         status'[j] = status[j], attempts'[j] = attempts[j]
  PROVE  LeaseOf(j)' \in Lease!Moves(LeaseOf(j))
<1>1. \A u \in Workers : \A d \in Claimed :
        d.job = j => (d \in Hand(worker[u]) <=> d \in Hand(worker'[u]))
  BY DEF WorkersOK, LetsGo
<1> QED
  BY <1>1, WorkersStayOK, SameLease

LEMMA HeldLetGo ==
  ASSUME WorkersOK, NEW w, NEW y, NEW c, LetsGo(w, y, c)
  PROVE  /\ c.job \in Jobs
         /\ Held(c.job)[w] = c.attempts /\ c.attempts # 0
         /\ Held(c.job)' = [Held(c.job) EXCEPT ![w] = 0]
<1>1. w \in Workers /\ WorkerOK(worker[w]) /\ c \in Hand(worker[w]) /\ c.job \in Jobs
  BY DEF WorkersOK, LetsGo, Hand, Claimed
<1>2. AttemptOf(worker[w], c.job) = c.attempts /\ c.attempts # 0
  BY <1>1, AttemptInHand
<1>3. AttemptOf(y, c.job) = 0
  BY <1>1, AttemptInHand DEF LetsGo
<1>4. \A u \in Workers : AttemptOf(worker'[u], c.job)
                         = IF u = w THEN 0 ELSE AttemptOf(worker[u], c.job)
  BY <1>3 DEF WorkersOK, LetsGo
<1>5. Held(c.job)' = [u \in Workers |-> AttemptOf(worker'[u], c.job)]
  BY DEF Held
<1> QED
  BY <1>1, <1>2, <1>4, <1>5 DEF Held

----------------------------------------------------------------------------
(* Each step of the queue moves each lease as JobLease allows.             *)

LEMMA NothingMoves ==
  ASSUME QueueInv, QueueInv', UNCHANGED <<status, attempts>>,
         \A w \in Workers : Hand(worker'[w]) = Hand(worker[w])
  PROVE  Lease!LeaseNext
BY SameLease, MovesMakeAStep DEF QueueInv

\* completeJob, and failJob, of the holder.
LEMMA WriteMoves ==
  ASSUME QueueInv, NEW w, NEW y, NEW c, LetsGo(w, y, c),
         NEW s \in {"succeeded", Lease!AfterAttempt(c.attempts)},
         status' = [status EXCEPT ![c.job] = s], UNCHANGED attempts
  PROVE  Lease!LeaseNext
<1> DEFINE i == c.job
           l == LeaseOf(i)
<1>1. WorkersOK /\ w \in Workers /\ i \in Jobs
  BY HeldLetGo DEF QueueInv, LetsGo
<1>2. /\ Held(i)[w] = c.attempts /\ c.attempts # 0
      /\ Held(i)' = [Held(i) EXCEPT ![w] = 0]
  BY <1>1, HeldLetGo
<1>3. l.held[w] # 0
  BY <1>2 DEF LeaseOf, LeaseRow
<1>4. status'[i] = s /\ attempts'[i] = attempts[i]
  BY <1>1 DEF QueueInv, Typed
<1>5. l' = Lease!Done(l, w) \/ l' = Lease!Failed(l, w)
  <2>1. l' = LeaseRow(s, attempts[i], [Held(i) EXCEPT ![w] = 0])
    BY <1>2, <1>4 DEF LeaseOf
  <2>2. /\ Lease!Done(l, w) = LeaseRow("succeeded", attempts[i], [Held(i) EXCEPT ![w] = 0])
        /\ Lease!Failed(l, w) =
             LeaseRow(Lease!AfterAttempt(Held(i)[w]), attempts[i], [Held(i) EXCEPT ![w] = 0])
    BY LeaseLetGo DEF LeaseOf
  <2> QED
    BY <1>2, <2>1, <2>2
<1>6. l' \in Lease!Moves(l)
  BY <1>1, <1>3, <1>5, LeaseMoves
<1>7. ASSUME NEW j \in Jobs, j # i
      PROVE  LeaseOf(j)' \in Lease!Moves(LeaseOf(j))
  <2>1. status'[j] = status[j] /\ attempts'[j] = attempts[j]
    BY <1>7 DEF QueueInv, Typed
  <2> QED
    BY <1>1, <1>7, <2>1, OthersKept
<1> QED
  BY <1>6, <1>7, MovesMakeAStep

\* The holder goes on without its row having been written.
LEMMA ForgetMoves ==
  ASSUME QueueInv, NEW w, NEW y, NEW c, LetsGo(w, y, c), UNCHANGED <<status, attempts>>
  PROVE  Lease!LeaseNext
<1> DEFINE i == c.job
           l == LeaseOf(i)
<1>1. WorkersOK /\ w \in Workers /\ i \in Jobs
  BY HeldLetGo DEF QueueInv, LetsGo
<1>2. /\ Held(i)[w] # 0 /\ Held(i)' = [Held(i) EXCEPT ![w] = 0]
  BY <1>1, HeldLetGo
<1>3. l' = Lease!Forgotten(l, w) /\ l.held[w] # 0
  <2>1. l' = LeaseRow(status[i], attempts[i], [Held(i) EXCEPT ![w] = 0])
    BY <1>2 DEF LeaseOf
  <2>2. Lease!Forgotten(l, w) = LeaseRow(status[i], attempts[i], [Held(i) EXCEPT ![w] = 0])
    BY LeaseLetGo DEF LeaseOf
  <2> QED
    BY <1>2, <2>1, <2>2 DEF LeaseOf, LeaseRow
<1>4. l' \in Lease!Moves(l)
  BY <1>1, <1>3, LeaseMoves
<1>5. \A j \in Jobs : j # i => LeaseOf(j)' \in Lease!Moves(LeaseOf(j))
  BY <1>1, OthersKept
<1> QED
  BY <1>4, <1>5, MovesMakeAStep

LEMMA EnqueueMoves ==
  ASSUME QueueInv, QueueInv', NEW i \in Jobs, Enqueue(i) PROVE Lease!LeaseNext
<1> SUFFICES ASSUME NEW j \in Jobs
             PROVE  LeaseOf(j)' \in Lease!Moves(LeaseOf(j))
  BY MovesMakeAStep
<1>1. Held(j)' = Held(j)
  BY DEF Held, Enqueue
<1>2. CASE j = i
  <2>1. LeaseOf(j)' = Lease!Enqueued(LeaseOf(j))
    <3>1. LeaseOf(j)' = LeaseRow("pending", attempts[j], Held(j)) /\ status[j] = "absent"
      BY <1>1, <1>2 DEF Enqueue, LeaseOf, QueueInv, Typed
    <3>2. [LeaseOf(j) EXCEPT !.status = "pending"] = LeaseRow("pending", attempts[j], Held(j))
      BY DEF LeaseOf, LeaseRow
    <3>3. LeaseOf(j).status = "absent"
      BY <3>1 DEF LeaseOf, LeaseRow
    <3> QED
      BY <3>1, <3>2, <3>3 DEF Lease!Enqueued
  <2> QED
    BY <2>1, LeaseMoves
<1>3. CASE j # i
  <2>1. LeaseOf(j)' = LeaseOf(j)
    BY <1>1, <1>3 DEF Enqueue, LeaseOf, QueueInv, Typed
  <2> QED
    BY <2>1, LeaseMoves
<1> QED
  BY <1>2, <1>3

LEMMA HandOff == Hand(Off) = {} /\ WorkerOK(Off)
BY NoJobIsNoJob DEF Off, WorkerOK, WorkerStates, Phases, Hand

\* Several stalled rows can be taken back at once: each lease expires for itself.
LEMMA WakeMoves ==
  ASSUME QueueInv, QueueInv', NEW w \in Workers, Wake(w) PROVE Lease!LeaseNext
<1> SUFFICES ASSUME NEW j \in Jobs
             PROVE  LeaseOf(j)' \in Lease!Moves(LeaseOf(j))
  BY MovesMakeAStep
<1>1. /\ status' = [i \in Jobs |-> IF Stalled(i) THEN AfterStall(i) ELSE status[i]]
      /\ worker' = [worker EXCEPT ![w].phase = "claim"] /\ worker[w] = Off
      /\ UNCHANGED attempts
  BY DEF Wake
<1>2. worker'[w].batch = worker[w].batch /\ worker'[w].current = worker[w].current
  BY <1>1 DEF QueueInv, WorkersOK, WorkerStates
<1>3. \A u \in Workers : AttemptOf(worker'[u], j) = AttemptOf(worker[u], j)
  <2>1. \A u \in Workers : Hand(worker'[u]) = Hand(worker[u])
    BY <1>1, <1>2 DEF QueueInv, WorkersOK, Hand
  <2>2. \A u \in Workers : WorkerOK(worker[u]) /\ WorkerOK(worker'[u])
    BY DEF QueueInv, WorkersOK, WorkerOK
  <2> QED
    BY <2>1, <2>2, SameHandSameAttempt
<1>4. Held(j)' = Held(j)
  BY <1>3 DEF Held
<1>5. CASE Stalled(j)
  <2>1. status[j] = "running" /\ status'[j] = Lease!AfterAttempt(attempts[j])
    BY <1>1, <1>5 DEF Stalled, AfterStall, Lease!AfterAttempt
  <2>2. LeaseOf(j)' = Lease!Expired(LeaseOf(j)) /\ LeaseOf(j).status = "running"
    BY <1>1, <1>4, <2>1 DEF LeaseOf, LeaseRow, Lease!Expired
  <2> QED
    BY <2>2, LeaseMoves
<1>6. CASE ~Stalled(j)
  <2>1. LeaseOf(j)' = LeaseOf(j)
    BY <1>1, <1>4, <1>6 DEF LeaseOf
  <2> QED
    BY <2>1, LeaseMoves
<1> QED
  BY <1>5, <1>6

LEMMA ClaimMoves ==
  ASSUME QueueInv, QueueInv', NEW w \in Workers, ClaimJobs(w) PROVE Lease!LeaseNext
<1>1. PICK s \in Batches :
        LET got == {s[n] : n \in DOMAIN s}
        IN  /\ status' = [j \in Jobs |-> IF j \in got THEN "running" ELSE status[j]]
            /\ attempts' = [j \in Jobs |-> IF j \in got THEN attempts[j] + 1 ELSE attempts[j]]
            /\ worker' = [worker EXCEPT ![w] =
                 IF s = <<>> THEN Off
                 ELSE [phase |-> "work", current |-> NoJob,
                       batch |-> [n \in DOMAIN s |->
                                    [job |-> s[n], attempts |-> attempts[s[n]] + 1]]]]
  BY DEF ClaimJobs
<1> DEFINE Got(j) == \E n \in DOMAIN s : s[n] = j
           y == IF s = <<>> THEN Off ELSE WorksOn(s)
<1>2. /\ \A j \in Jobs : /\ status'[j] = IF Got(j) THEN "running" ELSE status[j]
                         /\ attempts'[j] = IF Got(j) THEN attempts[j] + 1 ELSE attempts[j]
      /\ worker' = [worker EXCEPT ![w] = y]
  BY <1>1 DEF WorksOn, ClaimsOf
<1>3. WorkerOK(y) /\ \A c \in Claimed : c \in Hand(y) <=> Got(c.job) /\ c.attempts = attempts[c.job] + 1
  <2>1. CASE s = <<>>
    BY <2>1, HandOff
  <2>2. CASE s # <<>>
    BY <2>2, BatchShape
  <2> QED
    BY <2>1, <2>2
<1>4. \A n \in DOMAIN s : s[n] \in Jobs /\ status[s[n]] = "pending"
  BY BatchShape DEF Ready
<1>5. worker[w].phase = "claim" /\ WorkerOK(worker[w])
  BY DEF ClaimJobs, QueueInv, WorkersOK
<1>6. Hand(worker[w]) = {}
  BY <1>5, NoJobIsNoJob DEF WorkerOK, Hand
<1> HIDE DEF y
<1>7. worker'[w] = y /\ \A u \in Workers \ {w} : worker'[u] = worker[u]
  BY <1>2 DEF QueueInv, WorkersOK
<1>8. ASSUME NEW j \in Jobs, Got(j)
      PROVE  LeaseOf(j)' \in Lease!Moves(LeaseOf(j))
  <2> DEFINE c == [job |-> j, attempts |-> attempts[j] + 1]
  <2>1. attempts[j] \in Nat
    BY DEF QueueInv, Typed
  <2>2. c \in Claimed /\ c.job = j /\ c.attempts = attempts[j] + 1
    BY <2>1 DEF Claimed
  <2>3. c \in Hand(y)
    BY <1>3, <1>8, <2>2
  <2>4. AttemptOf(y, j) = attempts[j] + 1
    BY <1>3, <2>2, <2>3, AttemptInHand
  <2>5. AttemptOf(worker[w], j) = 0
    BY <1>5, <1>6, AttemptInHand DEF Has
  <2>6. Held(j)' = [Held(j) EXCEPT ![w] = attempts[j] + 1] /\ Held(j)[w] = 0
    <3>1. \A u \in Workers : AttemptOf(worker'[u], j)
                             = IF u = w THEN attempts[j] + 1 ELSE AttemptOf(worker[u], j)
      BY <1>7, <2>4
    <3>2. Held(j)' = [u \in Workers |-> AttemptOf(worker'[u], j)]
      BY DEF Held
    <3> QED
      BY <2>5, <3>1, <3>2 DEF Held
  <2>7. LeaseOf(j).status = "pending" /\ LeaseOf(j).held[w] = 0
    BY <1>4, <1>8, <2>6 DEF LeaseOf, LeaseRow
  <2>8. LeaseOf(j)' = Lease!Claimed(LeaseOf(j), w)
    <3>1. LeaseOf(j)' = LeaseRow("running", attempts[j] + 1,
                                 [Held(j) EXCEPT ![w] = attempts[j] + 1])
      BY <1>2, <1>8, <2>6 DEF LeaseOf
    <3>2. Lease!Claimed(LeaseOf(j), w)
            = LeaseRow("running", attempts[j] + 1, [Held(j) EXCEPT ![w] = attempts[j] + 1])
      BY LeaseClaimed DEF LeaseOf
    <3> QED
      BY <3>1, <3>2
  <2> QED
    BY <2>7, <2>8, LeaseMoves
<1>9. ASSUME NEW j \in Jobs, ~Got(j)
      PROVE  LeaseOf(j)' \in Lease!Moves(LeaseOf(j))
  <2>1. \A u \in Workers : \A c \in Claimed :
          c.job = j => (c \in Hand(worker[u]) <=> c \in Hand(worker'[u]))
    BY <1>3, <1>6, <1>7, <1>9
  <2> QED
    BY <1>2, <1>9, <2>1, SameLease DEF QueueInv
<1> QED
  BY <1>8, <1>9, MovesMakeAStep

\* The process dies: each lease it had is forgotten.
LEMMA OffMoves ==
  ASSUME QueueInv, QueueInv', NEW w \in Workers, worker' = [worker EXCEPT ![w] = Off],
         UNCHANGED <<status, attempts>>
  PROVE  Lease!LeaseNext
<1> SUFFICES ASSUME NEW j \in Jobs
             PROVE  LeaseOf(j)' \in Lease!Moves(LeaseOf(j))
  BY MovesMakeAStep
<1>1. worker'[w] = Off /\ \A u \in Workers \ {w} : worker'[u] = worker[u]
  BY DEF QueueInv, WorkersOK
<1>2. WorkerOK(worker[w]) /\ WorkersOK /\ WorkersOK'
  BY DEF QueueInv, WorkersOK
<1>3. CASE ~Has(worker[w], j)
  <2>1. \A u \in Workers : \A c \in Claimed :
          c.job = j => (c \in Hand(worker[u]) <=> c \in Hand(worker'[u]))
    BY <1>1, <1>3, HandOff DEF Has
  <2> QED
    BY <1>2, <2>1, SameLease
<1>4. CASE Has(worker[w], j)
  <2>1. AttemptOf(worker[w], j) # 0
    BY <1>2, <1>4, AttemptInHand DEF Has
  <2>2. AttemptOf(Off, j) = 0
    BY HandOff, AttemptInHand DEF Has
  <2>3. Held(j)' = [Held(j) EXCEPT ![w] = 0] /\ Held(j)[w] # 0
    <3>1. \A u \in Workers : AttemptOf(worker'[u], j)
                             = IF u = w THEN 0 ELSE AttemptOf(worker[u], j)
      BY <1>1, <2>2
    <3>2. Held(j)' = [u \in Workers |-> AttemptOf(worker'[u], j)]
      BY DEF Held
    <3> QED
      BY <2>1, <3>1, <3>2 DEF Held
  <2>4. LeaseOf(j)' = Lease!Forgotten(LeaseOf(j), w) /\ LeaseOf(j).held[w] # 0
    <3>1. LeaseOf(j)' = LeaseRow(status[j], attempts[j], [Held(j) EXCEPT ![w] = 0])
      BY <2>3 DEF LeaseOf
    <3>2. Lease!Forgotten(LeaseOf(j), w)
            = LeaseRow(status[j], attempts[j], [Held(j) EXCEPT ![w] = 0])
      BY LeaseLetGo DEF LeaseOf
    <3> QED
      BY <2>3, <3>1, <3>2 DEF LeaseOf, LeaseRow
  <2> QED
    BY <2>4, LeaseMoves
<1> QED
  BY <1>3, <1>4

LEMMA StartMoves ==
  ASSUME QueueInv, QueueInv', NEW w \in Workers, Start(w) PROVE Lease!LeaseNext
<1> DEFINE x == worker[w]
           y == [x EXCEPT !.current = Head(x.batch), !.batch = Tail(@)]
<1>1. WorkerOK(x) /\ x.phase = "work" /\ x.batch # <<>> /\ x.current = NoJob
  BY DEF Start, Between, QueueInv, WorkersOK
<1>2. worker' = [worker EXCEPT ![w] = y]
  BY DEF Start, QueueInv, WorkersOK
<1>3. Hand(y) = Hand(x)
  BY <1>1, Takes
<1>4. \A u \in Workers : Hand(worker'[u]) = Hand(worker[u])
  BY <1>2, <1>3 DEF QueueInv, WorkersOK
<1> QED
  BY <1>4, NothingMoves DEF Start, row

\* The end of a job, and a job given back, as steps of LetsGo.
LEMMA EndsJob ==
  ASSUME QueueInv, NEW w \in Workers, worker[w].current # NoJob,
         worker' = [worker EXCEPT ![w].current = NoJob]
  PROVE  LetsGo(w, [worker[w] EXCEPT !.current = NoJob], worker[w].current)
<1> DEFINE x == worker[w]
           y == [x EXCEPT !.current = NoJob]
<1>1. WorkerOK(x)
  BY DEF QueueInv, WorkersOK
<1>2. worker' = [worker EXCEPT ![w] = y]
  BY DEF QueueInv, WorkersOK
<1> QED
  BY <1>1, <1>2, Drops DEF LetsGo

LEMMA GivesJobBack ==
  ASSUME QueueInv, NEW w \in Workers, Between(w), worker[w].batch # <<>>,
         worker' = [worker EXCEPT ![w].batch = Tail(@), ![w].phase = "late"]
  PROVE  LetsGo(w, [worker[w] EXCEPT !.batch = Tail(@), !.phase = "late"],
                Head(worker[w].batch))
<1> DEFINE x == worker[w]
           y == [x EXCEPT !.batch = Tail(@), !.phase = "late"]
<1>1. WorkerOK(x)
  BY DEF QueueInv, WorkersOK
<1>2. worker' = [worker EXCEPT ![w] = y]
  BY DEF QueueInv, WorkersOK
<1> QED
  BY <1>1, <1>2, GivesBack DEF LetsGo, Between

\* The attempts of the claim decide, as they do in JobLease.
LEMMA FailJobMoves ==
  ASSUME QueueInv, NEW w, NEW y, NEW c, LetsGo(w, y, c), FailJob(w, c)
  PROVE  Lease!LeaseNext
<1>1. /\ status' = [status EXCEPT ![c.job] = Lease!AfterAttempt(c.attempts)]
      /\ UNCHANGED attempts
  BY DEF FailJob, Exhausted, Lease!AfterAttempt
<1>2. Lease!AfterAttempt(c.attempts) \in {"succeeded", Lease!AfterAttempt(c.attempts)}
  OBVIOUS
<1> QED
  BY <1>1, <1>2, WriteMoves

LEMMA QueueMovesLeases ==
  ASSUME QueueInv, QueueInv', [Next]_vars
  PROVE  [Lease!LeaseNext]_leases
<1>1. ASSUME NEW w \in Workers, Succeed(w) PROVE Lease!LeaseNext
  BY <1>1, EndsJob, WriteMoves DEF Succeed
<1>2. ASSUME NEW w \in Workers, Fail(w) PROVE Lease!LeaseNext
  BY <1>2, EndsJob, FailJobMoves DEF Fail
<1>3. ASSUME NEW w \in Workers, Release(w) PROVE Lease!LeaseNext
  BY <1>3, GivesJobBack, FailJobMoves DEF Release
<1>4. ASSUME NEW w \in Workers, LoseWrite(w) PROVE Lease!LeaseNext
  BY <1>4, EndsJob, GivesJobBack, ForgetMoves DEF LoseWrite, row
<1>5. ASSUME NEW w \in Workers, Return(w) \/ Crash(w) PROVE Lease!LeaseNext
  BY <1>5, OffMoves DEF Return, Crash, row
<1>6. ASSUME Tick PROVE Lease!LeaseNext
  BY <1>6, NothingMoves DEF Tick
<1>7. CASE UNCHANGED vars
  <2>1. leases' = leases
    BY <1>7 DEF vars, row, leases, AttemptHeld, Holds
  <2> QED
    BY <2>1
<1> QED
  BY <1>1, <1>2, <1>3, <1>4, <1>5, <1>6, <1>7, EnqueueMoves, WakeMoves, ClaimMoves, StartMoves
     DEF Next, Work

LEMMA QueueStartsAsLeases == Init => Lease!LeaseInit
<1> SUFFICES ASSUME Init PROVE leases = [j \in Jobs |-> Lease!NotEnqueued]
  BY DEF Lease!LeaseInit
<1>1. \A j \in Jobs : Held(j) = [w \in Workers |-> 0]
  <2>1. \A j \in Jobs : AttemptOf(Off, j) = 0
    BY HandOff, AttemptInHand DEF Has
  <2> QED
    BY <2>1 DEF Init, Held
<1> QED
  BY <1>1, LeasesAre DEF Init, LeaseOf, LeaseRow, Lease!NotEnqueued

\* The queue, with its batches, stalls, time budgets and lost writes, is the lease the
\* handlers' specifications assume, for any number of jobs, workers and attempts.
THEOREM QueueImplementsLease == Spec => ImplementsLease
<1>1. QueueInv /\ QueueInv' /\ [Next]_vars => [Lease!LeaseNext]_leases
  BY QueueMovesLeases
<1> QED
  BY <1>1, QueueStartsAsLeases, QueueInvariant, PTL DEF Spec, ImplementsLease, Lease!LeaseSpec
=============================================================================
