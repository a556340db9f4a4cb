-------------------------- MODULE WalletSyncProofs --------------------------
(***************************************************************************)
(* Theorems about WalletSync, for any vendors, jobs, workers, minutes and  *)
(* numbers of attempts, changes and faults: a vendor recorded as stale is  *)
(* tried again, and one recorded as synced shows the customer's card.      *)
(***************************************************************************)
EXTENDS WalletSync, JobLeaseProofs

Records ==
  {r \in [status : {"none", "synced", "stale", "abandoned"}, attempts : Nat] :
     r.status = "stale" => r.attempts \in 1..(MaxSyncAttempts - 1)}
Plans == UNION {[S -> Records] : S \in SUBSET Providers}
Places == {"read", "push", "save", "retry", "done"}
Tasks == [at : Places, job : Jobs, card : 0..Blank, left : SUBSET Providers,
          failed : SUBSET Providers, plan : Plans]

WalletShape ==
  /\ LeaseShape
  /\ version \in 0..MaxChanges /\ minute \in DOMAIN Minutes
  /\ pass \in [Providers -> 0..Blank]
  /\ state \in [Providers -> Records]
  /\ task \in [Workers -> Tasks \cup {Off}]

\* Each worker is where its job's handler is: it holds the job's lease, and knows what is
\* left to do for the vendors of the job.
Placed(w) ==
  /\ \A j \in Jobs : Running(w, j) <=> task[w] # Off /\ task[w].job = j
  /\ In(w, "push") \/ In(w, "retry") => task[w].left \subseteq ProvidersOf(task[w].job)
  /\ In(w, "save") => task[w].plan \in [ProvidersOf(task[w].job) -> Records]
  /\ In(w, "retry") => task[w].left \subseteq DOMAIN task[w].plan
                       /\ \A p \in task[w].left : task[w].plan[p].status = "stale"
AllPlaced == \A w \in Workers : Placed(w)

\* No two syncs for a vendor whose syncs have not crossed.
Leased(p) ==
  \A j \in Jobs, w \in Workers : p \in ProvidersOf(j) /\ Running(w, j) =>
    lease[j].status = "running" /\ \A u \in Workers : Running(u, j) => u = w
Single(p) == \A w, u \in Workers : Updating(w, p) /\ Updating(u, p) => u = w
Alone(p) == Leased(p) /\ Single(p)
AllAlone == \A p \in Providers \ crossed : Alone(p)

\* A job for p that nobody works on, which will be run or has been given up.
Resting(j) ==
  \/ lease[j].status \in {"pending", "dead"}
  \/ lease[j].status = "running" /\ \A w \in Workers : ~Running(w, j)
Waiting(p) == \E j \in Jobs : p \in ProvidersOf(j) /\ Resting(j)

\* A job for p that will read the card as it is now.
Covered(p) == Waiting(p) \/ \E w \in Workers : In(w, "read") /\ p \in ProvidersOf(task[w].job)

Tried(p) ==
  \/ Covered(p)
  \/ \E w \in Workers : Updating(w, p) \/ (In(w, "retry") /\ p \in task[w].left)

StaleTried ==
  \A p \in Providers \ (unretried \cup crossed \cup unrecorded \cup unread) :
    state[p].status = "stale" => Tried(p)

Delivered(p) == pass[p] \in {version, Blank} \/ p \in swallowed

\* What the worker that updates p has done, or will.
Reaches(w, p) ==
  /\ In(w, "push") /\ p \in task[w].left => p \in Fetching \/ task[w].card \in {version, Blank}
  /\ In(w, "push") /\ p \notin task[w].left => p \in task[w].failed \/ Delivered(p)
  /\ In(w, "save") => task[w].plan[p].status # "synced" \/ Delivered(p)

Shows(p) ==
  /\ \A w \in Workers : Updating(w, p) => Reaches(w, p)
  /\ (\A w \in Workers : ~Updating(w, p)) /\ p \notin unrecorded =>
       state[p].status # "synced" \/ Delivered(p)
CardShown ==
  ~missed => \A p \in Providers \ (crossed \cup unread) : Covered(p) \/ Shows(p)

WalletInv == WalletShape /\ AllPlaced /\ AllAlone /\ StaleTried /\ CardShown

----------------------------------------------------------------------------

LEMMA BlankFacts ==
  /\ 0 \in 0..Blank /\ Blank \in 0..Blank
  /\ \A v \in 0..MaxChanges : v \in 0..Blank
BY WalletAssumption DEF Blank

LEMMA OffTask ==
  /\ Off.at = "off" /\ Off \notin Tasks /\ Off.plan \in Plans
  /\ Off.left = {} /\ Off.failed = {} /\ Off.card = 0
<1>1. Off.at = "off" /\ Off.left = {} /\ Off.failed = {} /\ Off.card = 0
      /\ Off.plan = [p \in {} |-> NoState]
  BY DEF Off
<1>2. "off" \notin Places
  BY DEF Places
<1>3. [p \in {} |-> NoState] \in [{} -> Records] /\ {} \in SUBSET Providers
  OBVIOUS
<1> QED
  BY <1>1, <1>2, <1>3 DEF Tasks, Plans

LEMMA Busy ==
  ASSUME WalletShape, NEW w \in Workers, task[w] # Off
  PROVE  /\ task[w] \in Tasks /\ task[w].job \in Jobs /\ task[w].at \in Places
         /\ ProvidersOf(task[w].job) \subseteq Providers
<1>1. task[w] \in Tasks
  BY DEF WalletShape
<1> QED
  BY <1>1, WalletAssumption DEF Tasks

LEMMA InIsBusy ==
  ASSUME WalletShape, NEW w \in Workers, NEW place \in Places, In(w, place)
  PROVE  task[w] # Off
BY OffTask DEF In, Places

\* What an update makes of a vendor's record.
LEMMA Reduced ==
  ASSUME NEW r \in Records, NEW ok \in BOOLEAN
  PROVE  /\ ReduceProviderState(r, ok) \in Records
         /\ ReduceProviderState(r, ok).status = "synced" <=> ok
<1>1. r.attempts \in Nat /\ MaxSyncAttempts \in Nat \ {0}
  BY WalletAssumption DEF Records
<1>2. CASE ok
  BY <1>1, <1>2 DEF ReduceProviderState, Records
<1>3. CASE ~ok
  <2>1. r.attempts + 1 \in Nat /\ (r.attempts + 1 < MaxSyncAttempts =>
                                     r.attempts + 1 \in 1..(MaxSyncAttempts - 1))
    BY <1>1
  <2> QED
    BY <1>1, <1>3, <2>1 DEF ReduceProviderState, Records
<1> QED
  BY <1>2, <1>3

\* One field at a time.
LEMMA TaskFields ==
  ASSUME NEW t \in Tasks
  PROVE  /\ \A x \in Places : LET r == [t EXCEPT !.at = x]
              IN  r \in Tasks /\ r.at = x /\ r.job = t.job /\ r.card = t.card
                  /\ r.left = t.left /\ r.failed = t.failed /\ r.plan = t.plan
         /\ \A x \in 0..Blank : LET r == [t EXCEPT !.card = x]
              IN  r \in Tasks /\ r.at = t.at /\ r.job = t.job /\ r.card = x
                  /\ r.left = t.left /\ r.failed = t.failed /\ r.plan = t.plan
         /\ \A x \in SUBSET Providers : LET r == [t EXCEPT !.left = x]
              IN  r \in Tasks /\ r.at = t.at /\ r.job = t.job /\ r.card = t.card
                  /\ r.left = x /\ r.failed = t.failed /\ r.plan = t.plan
         /\ \A x \in SUBSET Providers : LET r == [t EXCEPT !.failed = x]
              IN  r \in Tasks /\ r.at = t.at /\ r.job = t.job /\ r.card = t.card
                  /\ r.left = t.left /\ r.failed = x /\ r.plan = t.plan
         /\ \A x \in Plans : LET r == [t EXCEPT !.plan = x]
              IN  r \in Tasks /\ r.at = t.at /\ r.job = t.job /\ r.card = t.card
                  /\ r.left = t.left /\ r.failed = t.failed /\ r.plan = x
BY DEF Tasks

OnlyTask(w) ==
  /\ task' \in [Workers -> Tasks \cup {Off}]
  /\ \A u \in Workers \ {w} : task'[u] = task[u]

LEMMA StartTask ==
  ASSUME WalletShape, NEW w \in Workers, NEW j \in Jobs, Start(w, j)
  PROVE  OnlyTask(w) /\ task'[w] \in Tasks /\ task'[w].at = "read" /\ task'[w].job = j
<1> DEFINE r == [Off EXCEPT !.at = "read", !.job = j]
<1>1. task' = [task EXCEPT ![w] = r]
  BY DEF Start
<1>2. PICK P \in Plans : Off = [at |-> "off", job |-> "none", card |-> 0, left |-> {},
                               failed |-> {}, plan |-> P]
  <2> DEFINE Q == [p \in {} |-> NoState]
  <2>1. Off = [at |-> "off", job |-> "none", card |-> 0, left |-> {}, failed |-> {}, plan |-> Q]
    BY DEF Off
  <2>2. Q \in Plans
    BY OffTask DEF Off
  <2> HIDE DEF Q
  <2> QED
    BY <2>1, <2>2
<1>3. r = [at |-> "read", job |-> j, card |-> 0, left |-> {}, failed |-> {}, plan |-> P]
  <2> DEFINE a == [Off EXCEPT !.at = "read"]
  <2>1. a = [at |-> "read", job |-> "none", card |-> 0, left |-> {}, failed |-> {}, plan |-> P]
    BY <1>2
  <2>2. r = [a EXCEPT !.job = j]
    OBVIOUS
  <2> HIDE DEF a, r
  <2> QED
    BY <2>1, <2>2
<1>4. 0 \in 0..Blank /\ {} \in SUBSET Providers
  BY BlankFacts
<1> HIDE DEF r
<1>5. r \in Tasks /\ r.at = "read" /\ r.job = j
  BY <1>3, <1>4 DEF Tasks, Places
<1> QED
  BY <1>1, <1>5 DEF OnlyTask, r, WalletShape

LEMMA ReadTask ==
  ASSUME WalletShape, NEW w \in Workers, ReadCard(w)
  PROVE  /\ OnlyTask(w) /\ task[w] \in Tasks /\ task[w].at = "read"
         /\ task'[w] \in Tasks /\ task'[w].at = "push" /\ task'[w].job = task[w].job
         /\ task'[w].card \in {version, Blank} /\ task'[w].left = ProvidersOf(task[w].job)
<1>1. task[w] # Off /\ task[w].at = "read"
  BY InIsBusy DEF ReadCard, In, Places
<1>8. PICK card \in {version, Blank} :
        task' = [task EXCEPT ![w].at = "push", ![w].card = card,
                             ![w].left = ProvidersOf(task[w].job)]
  BY DEF ReadCard
<1>9. card \in 0..Blank
  BY BlankFacts DEF WalletShape
<1> DEFINE t == task[w]
           a == [t EXCEPT !.at = "push"]
           b == [a EXCEPT !.card = card]
           c == [b EXCEPT !.left = ProvidersOf(t.job)]
<1>2. t \in Tasks /\ ProvidersOf(t.job) \in SUBSET Providers
  BY <1>1, Busy
<1>3. task' = [task EXCEPT ![w] = c]
  BY <1>8
<1> HIDE DEF t
<1>4. a \in Tasks /\ a.at = "push" /\ a.job = t.job
  BY <1>2, TaskFields DEF Places
<1> HIDE DEF a
<1>5. b \in Tasks /\ b.at = "push" /\ b.job = t.job /\ b.card = card
  BY <1>4, <1>9, TaskFields
<1> HIDE DEF b
<1>6. c \in Tasks /\ c.at = "push" /\ c.job = t.job /\ c.card = card
      /\ c.left = ProvidersOf(t.job)
  BY <1>2, <1>5, TaskFields
<1> HIDE DEF c
<1>7. OnlyTask(w) /\ task'[w] = c
  BY <1>3, <1>6 DEF OnlyTask, WalletShape
<1> QED
  BY <1>1, <1>2, <1>6, <1>7 DEF t

LEMMA SkipTask ==
  ASSUME WalletShape, NEW w \in Workers, SkipCard(w)
  PROVE  /\ OnlyTask(w) /\ task[w] \in Tasks /\ task[w].at = "read"
         /\ task'[w] \in Tasks /\ task'[w].at = "done" /\ task'[w].job = task[w].job
<1>1. task[w] # Off /\ task[w].at = "read"
  BY InIsBusy DEF SkipCard, In, Places
<1> DEFINE t == task[w]
           a == [t EXCEPT !.at = "done"]
<1>2. t \in Tasks
  BY <1>1, Busy
<1>3. task' = [task EXCEPT ![w] = a]
  BY DEF SkipCard
<1> HIDE DEF t
<1>4. a \in Tasks /\ a.at = "done" /\ a.job = t.job
  BY <1>2, TaskFields DEF Places
<1> HIDE DEF a
<1>5. OnlyTask(w) /\ task'[w] = a
  BY <1>3, <1>4 DEF OnlyTask, WalletShape
<1> QED
  BY <1>1, <1>2, <1>4, <1>5 DEF t

\* What an update of p does: whether it was reported, and whether a card arrived.
Outcome(p, ok, got, card) ==
  /\ pass' = IF got THEN [pass EXCEPT ![p] = card] ELSE pass
  /\ swallowed' = {q \in swallowed : q # p \/ (got => card # version)}
                  \cup {q \in {p} : ok /\ ~got}
Told(w, p, ok) == task'[w].failed = IF ok THEN task[w].failed ELSE task[w].failed \cup {p}

LEMMA PushTask ==
  ASSUME WalletShape, NEW w \in Workers, NEW p \in Providers, Push(w, p)
  PROVE  /\ OnlyTask(w) /\ task[w] \in Tasks /\ task[w].at = "push" /\ p \in task[w].left
         /\ task'[w] \in Tasks /\ task'[w].at = "push" /\ task'[w].job = task[w].job
         /\ task'[w].card = task[w].card /\ task'[w].left = task[w].left \ {p}
         /\ \E ok, got \in BOOLEAN, card \in Arriving(w, p) :
              Outcome(p, ok, got, card) /\ Told(w, p, ok)
<1>1. task[w] # Off /\ task[w].at = "push" /\ p \in task[w].left
  BY InIsBusy DEF Push, In, Places
<1>2. PICK ok \in BOOLEAN, got \in BOOLEAN, card \in Arriving(w, p) :
        /\ pass' = IF got THEN [pass EXCEPT ![p] = card] ELSE pass
        /\ swallowed' = {q \in swallowed : q # p \/ (got => card # version)} \cup {q \in {p} : ok /\ ~got}
        /\ task' = [task EXCEPT ![w].left = @ \ {p}, ![w].failed = IF ok THEN @ ELSE @ \cup {p}]
  BY ZenonT(40) DEF Push
<1>12. Outcome(p, ok, got, card)
  BY <1>2 DEF Outcome
<1> DEFINE t == task[w]
           f == IF ok THEN t.failed ELSE t.failed \cup {p}
           a == [t EXCEPT !.left = t.left \ {p}]
           b == [a EXCEPT !.failed = f]
<1>3. t \in Tasks
  BY <1>1, Busy
<1>4. a.failed = t.failed
  BY <1>3 DEF Tasks
<1>5. task' = [task EXCEPT ![w] = b]
  BY <1>2, <1>4
<1>6. t.left \ {p} \in SUBSET Providers /\ f \in SUBSET Providers
  BY <1>3 DEF Tasks
<1> HIDE DEF t, f
<1>7. a \in Tasks /\ a.at = t.at /\ a.job = t.job /\ a.card = t.card /\ a.left = t.left \ {p}
  BY <1>3, <1>6, TaskFields
<1> HIDE DEF a
<1>8. b \in Tasks /\ b.at = t.at /\ b.job = t.job /\ b.card = t.card /\ b.left = t.left \ {p}
      /\ b.failed = f
  BY <1>6, <1>7, TaskFields
<1> HIDE DEF b
<1>9. OnlyTask(w) /\ task'[w] = b
  BY <1>5, <1>8 DEF OnlyTask, WalletShape
<1>10. Told(w, p, ok)
  BY <1>8, <1>9 DEF Told, t, f
<1>11. \E o, g \in BOOLEAN, c \in Arriving(w, p) : Outcome(p, o, g, c) /\ Told(w, p, o)
  BY <1>12, <1>10
<1> QED
  BY <1>1, <1>3, <1>8, <1>9, <1>11 DEF t

LEMMA PlanTask ==
  ASSUME WalletShape, NEW w \in Workers, Plan(w)
  PROVE  /\ OnlyTask(w) /\ task[w] \in Tasks /\ task[w].at = "push" /\ task[w].left = {}
         /\ task'[w] \in Tasks /\ task'[w].at = "save" /\ task'[w].job = task[w].job
         /\ task'[w].plan \in [ProvidersOf(task[w].job) -> Records]
         /\ \A p \in ProvidersOf(task[w].job) :
              task'[w].plan[p].status = "synced" <=> p \notin task[w].failed
<1>1. task[w] # Off /\ task[w].at = "push" /\ task[w].left = {}
  BY InIsBusy DEF Plan, In, Places
<1>11. PICK previous \in {state, [p \in Providers |-> NoState]} :
         task' = [task EXCEPT ![w].at = "save", ![w].failed = {},
                  ![w].plan = [p \in ProvidersOf(task[w].job) |->
                                 ReduceProviderState(previous[p], p \notin task[w].failed)]]
  BY DEF Plan
<1>12. \A p \in Providers : previous[p] \in Records
  BY DEF WalletShape, NoState, Records
<1> DEFINE t == task[w]
           P == [p \in ProvidersOf(t.job) |-> ReduceProviderState(previous[p], p \notin t.failed)]
           a == [t EXCEPT !.at = "save"]
           b == [a EXCEPT !.failed = {}]
           c == [b EXCEPT !.plan = P]
<1>2. t \in Tasks /\ ProvidersOf(t.job) \in SUBSET Providers
  BY <1>1, Busy
<1>3. task' = [task EXCEPT ![w] = c]
  BY <1>11
<1>4. \A p \in ProvidersOf(t.job) :
        /\ ReduceProviderState(previous[p], p \notin t.failed) \in Records
        /\ ReduceProviderState(previous[p], p \notin t.failed).status = "synced"
             <=> p \notin t.failed
  <2> TAKE p \in ProvidersOf(t.job)
  <2>1. previous[p] \in Records /\ (p \notin t.failed) \in BOOLEAN
    BY <1>2, <1>12
  <2> QED
    BY <2>1, Reduced
<1>5. /\ P \in [ProvidersOf(t.job) -> Records]
      /\ \A p \in ProvidersOf(t.job) : P[p].status = "synced" <=> p \notin t.failed
  BY <1>4
<1> HIDE DEF P
<1>6. P \in Plans
  BY <1>2, <1>5 DEF Plans
<1> HIDE DEF t
<1>7. a \in Tasks /\ a.at = "save" /\ a.job = t.job
  BY <1>2, TaskFields DEF Places
<1> HIDE DEF a
<1>8. b \in Tasks /\ b.at = "save" /\ b.job = t.job
  BY <1>7, TaskFields
<1> HIDE DEF b
<1>9. c \in Tasks /\ c.at = "save" /\ c.job = t.job /\ c.plan = P
  BY <1>6, <1>8, TaskFields
<1> HIDE DEF c
<1>10. OnlyTask(w) /\ task'[w] = c
  BY <1>3, <1>9 DEF OnlyTask, WalletShape
<1> QED
  BY <1>1, <1>2, <1>5, <1>9, <1>10 DEF t

LEMMA SaveTask ==
  ASSUME WalletShape, NEW w \in Workers, Placed(w), Save(w)
  PROVE  /\ OnlyTask(w) /\ task[w] \in Tasks /\ task[w].at = "save"
         /\ task'[w] \in Tasks /\ task'[w].job = task[w].job
         /\ task'[w].at \in {"retry", "done"}
         /\ task'[w].left = {p \in ProvidersOf(task[w].job) : task[w].plan[p].status = "stale"}
         /\ task'[w].left # {} => task'[w].at = "retry" /\ task'[w].plan = task[w].plan
<1>1. task[w] # Off /\ task[w].at = "save"
  BY InIsBusy DEF Save, In, Places
<1> DEFINE t == task[w]
           behind == {p \in DOMAIN t.plan : t.plan[p].status = "stale"}
           P == IF behind = {} THEN Off.plan ELSE t.plan
           x == IF behind = {} THEN "done" ELSE "retry"
           a == [t EXCEPT !.left = behind]
           b == [a EXCEPT !.plan = P]
           c == [b EXCEPT !.at = x]
<1>2. t \in Tasks /\ t.plan \in [ProvidersOf(t.job) -> Records] /\ ProvidersOf(t.job) \subseteq Providers
  BY <1>1, Busy DEF Placed, In
<1>3. task' = [task EXCEPT ![w] = c]
  <2>1. a.plan = t.plan
    BY <1>2 DEF Tasks
  <2>2. task' = [task EXCEPT ![w].left = behind,
                             ![w].plan = IF behind = {} THEN Off.plan ELSE @,
                             ![w].at = IF behind = {} THEN "done" ELSE "retry"]
    BY DEF Save
  <2> QED
    BY <2>1, <2>2
<1>4. behind = {p \in ProvidersOf(t.job) : t.plan[p].status = "stale"}
  BY <1>2
<1>5. behind \in SUBSET Providers
  BY <1>2, <1>4
<1>6. P \in Plans /\ x \in Places /\ x \in {"retry", "done"}
      /\ (behind # {} => x = "retry" /\ P = t.plan)
  BY <1>2, OffTask DEF Tasks, Places
<1> HIDE DEF t, behind, P, x
<1>7. a \in Tasks /\ a.job = t.job /\ a.left = behind
  BY <1>2, <1>5, TaskFields
<1> HIDE DEF a
<1>8. b \in Tasks /\ b.job = t.job /\ b.left = behind /\ b.plan = P
  BY <1>6, <1>7, TaskFields
<1> HIDE DEF b
<1>9. c \in Tasks /\ c.job = t.job /\ c.left = behind /\ c.plan = P /\ c.at = x
  BY <1>6, <1>8, TaskFields
<1> HIDE DEF c
<1>10. OnlyTask(w) /\ task'[w] = c
  BY <1>3, <1>9 DEF OnlyTask, WalletShape
<1> QED
  BY <1>1, <1>2, <1>4, <1>6, <1>9, <1>10 DEF t

LEMMA RetryTask ==
  ASSUME WalletShape, NEW w \in Workers, NEW p \in Providers, Placed(w), Retry(w, p)
  PROVE  /\ OnlyTask(w) /\ task[w] \in Tasks /\ task[w].at = "retry" /\ p \in task[w].left
         /\ task'[w] \in Tasks /\ task'[w].job = task[w].job
         /\ task'[w].at \in {"retry", "done"}
         /\ task'[w].left = task[w].left \ {p}
         /\ task'[w].left # {} => task'[w].at = "retry" /\ task'[w].plan = task[w].plan
<1>1. task[w] # Off /\ task[w].at = "retry" /\ p \in task[w].left
  BY InIsBusy DEF Retry, In, Places
<1> DEFINE t == task[w]
           P == IF t.left = {p} THEN Off.plan ELSE t.plan
           x == IF t.left = {p} THEN "done" ELSE "retry"
           a == [t EXCEPT !.left = t.left \ {p}]
           b == [a EXCEPT !.plan = P]
           c == [b EXCEPT !.at = x]
<1>2. t \in Tasks
  BY <1>1, Busy
<1>3. task' = [task EXCEPT ![w] = c]
  <2>1. a.plan = t.plan
    BY <1>2 DEF Tasks
  <2>2. task' = [task EXCEPT ![w].left = @ \ {p},
                             ![w].plan = IF task[w].left = {p} THEN Off.plan ELSE @,
                             ![w].at = IF task[w].left = {p} THEN "done" ELSE "retry"]
    BY DEF Retry
  <2> QED
    BY <2>1, <2>2
<1>4. P \in Plans /\ x \in Places /\ x \in {"retry", "done"} /\ t.left \ {p} \in SUBSET Providers
      /\ (t.left \ {p} # {} => x = "retry" /\ P = t.plan)
  BY <1>2, OffTask DEF Tasks, Places
<1> HIDE DEF t, P, x
<1>5. a \in Tasks /\ a.job = t.job /\ a.left = t.left \ {p}
  BY <1>2, <1>4, TaskFields
<1> HIDE DEF a
<1>6. b \in Tasks /\ b.job = t.job /\ b.left = t.left \ {p} /\ b.plan = P
  BY <1>4, <1>5, TaskFields
<1> HIDE DEF b
<1>7. c \in Tasks /\ c.job = t.job /\ c.left = t.left \ {p} /\ c.plan = P /\ c.at = x
  BY <1>4, <1>6, TaskFields
<1> HIDE DEF c
<1>8. OnlyTask(w) /\ task'[w] = c
  BY <1>3, <1>7 DEF OnlyTask, WalletShape
<1> QED
  BY <1>1, <1>2, <1>4, <1>7, <1>8 DEF t

LEMMA OffDuty ==
  ASSUME WalletShape, NEW w \in Workers, task' = [task EXCEPT ![w] = Off]
  PROVE  OnlyTask(w) /\ task'[w] = Off
BY DEF OnlyTask, WalletShape

----------------------------------------------------------------------------
(* Types, and the workers in their places.                                 *)

LEMMA BucketFacts ==
  ASSUME WalletShape
  PROVE  Bucket \in Jobs /\ ProvidersOf(Bucket) = Providers
BY WalletAssumption DEF WalletShape, Bucket

LEMMA RetryFacts ==
  ASSUME WalletShape, NEW w \in Workers, NEW p \in Providers, Placed(w), Retry(w, p),
         NEW j, j = RetryKey(p, task[w].plan[p].attempts)
  PROVE  /\ j \in Jobs /\ p \in ProvidersOf(j)
         /\ \/ Change(j, Enqueued(lease[j])) /\ (lease[j].status = "absent" \/ p \in unretried')
            \/ p \in unretried' /\ UNCHANGED lease
         /\ \A q \in Providers \ {p} : q \in unretried' <=> q \in unretried
<1>1. task[w] \in Tasks /\ In(w, "retry") /\ p \in task[w].left
  BY RetryTask DEF In
<1>2. p \in DOMAIN task[w].plan /\ task[w].plan[p].status = "stale"
  BY <1>1 DEF Placed
<1>3. task[w].plan[p] \in Records
  BY <1>1, <1>2 DEF Tasks, Plans
<1>4. task[w].plan[p].attempts \in 1..(MaxSyncAttempts - 1)
  BY <1>2, <1>3 DEF Records
<1>5. j \in Jobs /\ ProvidersOf(j) = {p}
  BY <1>4, WalletAssumption
<1>6. \/ /\ Change(j, Enqueued(lease[j]))
         /\ unretried' = IF lease[j].status = "absent" THEN unretried \ {p} ELSE unretried \cup {p}
      \/ unretried' = unretried \cup {p} /\ UNCHANGED lease
  BY DEF Retry, KeyOfRetry
<1> QED
  BY <1>5, <1>6

\* The jobs' rows, and who holds them, step by step.
LEMMA LeaseKept ==
  ASSUME WalletShape, AllPlaced, Next
  PROVE  LeaseShape'
<1>1. LeaseShape
  BY DEF WalletShape
<1>2. CASE UNCHANGED lease
  BY <1>1, <1>2 DEF LeaseShape
<1>3. ASSUME NEW j \in Jobs, Change(j, Enqueued(lease[j])) \/ Expire(j) PROVE LeaseShape'
  BY <1>1, <1>3, QueueSteps DEF OnlyJob
<1>4. ASSUME NEW w \in Workers, NEW j \in Jobs, Claim(w, j) \/ Finish(w, j) \/ GiveUp(w, j)
      PROVE  LeaseShape'
  BY <1>1, <1>4, WorkerSteps DEF OnlyJob
<1>5. CASE ChangeCard
  BY <1>2, <1>3, <1>5, BucketFacts DEF ChangeCard
<1>6. ASSUME NEW w \in Workers, NEW p \in Providers, Retry(w, p) PROVE LeaseShape'
  <2>1. PICK j : j = RetryKey(p, task[w].plan[p].attempts)
    OBVIOUS
  <2>2. j \in Jobs /\ (Change(j, Enqueued(lease[j])) \/ UNCHANGED lease)
    BY <1>6, <2>1, RetryFacts DEF AllPlaced
  <2> QED
    BY <1>2, <1>3, <2>2
<1>7. ASSUME NEW w \in Workers, End(w) \/ Abort(w) PROVE LeaseShape'
  <2>1. task[w] # Off /\ task[w].job \in Jobs
    BY <1>7, InIsBusy, Busy DEF End, Abort, Places
  <2> QED
    BY <1>4, <1>7, <2>1 DEF End, Abort
<1>8. ASSUME NEW w \in Workers, NEW j \in Jobs, Start(w, j) PROVE LeaseShape'
  BY <1>4, <1>8 DEF Start
<1>9. ASSUME NEW w \in Workers,
             ReadCard(w) \/ SkipCard(w) \/ Plan(w) \/ Save(w) \/ \E p \in Providers : Push(w, p)
      PROVE  LeaseShape'
  BY <1>2, <1>9 DEF ReadCard, SkipCard, Plan, Save, Push
<1>10. ASSUME NEW j \in Jobs, Overdue(j) PROVE LeaseShape'
  BY <1>3, <1>10 DEF Overdue
<1>11. CASE NextMinute
  BY <1>2, <1>11 DEF NextMinute
<1> QED
  BY <1>5, <1>6, <1>7, <1>8, <1>9, <1>10, <1>11 DEF Next, Perform

LEMMA WalletShapeKeeps ==
  ASSUME WalletShape, AllPlaced, Next
  PROVE  WalletShape'
<1>1. LeaseShape'
  BY LeaseKept
<1>2. CASE ChangeCard
  BY <1>1, <1>2, WalletAssumption DEF ChangeCard, WalletShape
<1>3. CASE NextMinute
  <2>1. Minutes \in Seq(Jobs)
    BY WalletAssumption
  <2>2. minute' \in DOMAIN Minutes
    BY <1>3, <2>1 DEF NextMinute, WalletShape
  <2> QED
    BY <1>1, <1>3, <2>2 DEF NextMinute, WalletShape, history
<1>4. ASSUME NEW w \in Workers, NEW j \in Jobs, Start(w, j) PROVE WalletShape'
  BY <1>1, <1>4, StartTask DEF Start, WalletShape, OnlyTask
<1>5. ASSUME NEW w \in Workers, ReadCard(w) \/ SkipCard(w) PROVE WalletShape'
  BY <1>1, <1>5, ReadTask, SkipTask DEF ReadCard, SkipCard, WalletShape, OnlyTask
<1>6. ASSUME NEW w \in Workers, NEW p \in Providers, Push(w, p) PROVE WalletShape'
  <2>1. \E card \in Arriving(w, p) : pass' = pass \/ pass' = [pass EXCEPT ![p] = card]
    BY <1>6 DEF Push
  <2>2. OnlyTask(w) /\ task[w] \in Tasks
    BY <1>6, PushTask
  <2>3. Arriving(w, p) \subseteq 0..Blank
    BY <2>2, BlankFacts DEF Arriving, Tasks, WalletShape
  <2>4. pass' \in [Providers -> 0..Blank]
    BY <2>1, <2>3 DEF WalletShape
  <2> QED
    BY <1>1, <1>6, <2>2, <2>4 DEF Push, WalletShape, OnlyTask
<1>7. ASSUME NEW w \in Workers, Plan(w) PROVE WalletShape'
  BY <1>1, <1>7, PlanTask DEF Plan, WalletShape, OnlyTask, history
<1>8. ASSUME NEW w \in Workers, Save(w) PROVE WalletShape'
  <2>1. OnlyTask(w) /\ task[w].at = "save"
    BY <1>8, SaveTask DEF AllPlaced
  <2>2. task[w].plan \in [ProvidersOf(task[w].job) -> Records]
    BY <2>1 DEF AllPlaced, Placed, In
  <2>3. state' \in [Providers -> Records]
    <3>1. CASE UNCHANGED state
      BY <3>1 DEF WalletShape
    <3>2. CASE state' = [p \in Providers |-> IF p \in DOMAIN task[w].plan THEN task[w].plan[p]
                                                                        ELSE state[p]]
      BY <2>2, <3>2 DEF WalletShape
    <3> QED
      BY <1>8, <3>1, <3>2 DEF Save
  <2> QED
    BY <1>1, <1>8, <2>1, <2>3 DEF Save, WalletShape, OnlyTask
<1>9. ASSUME NEW w \in Workers, NEW p \in Providers, Retry(w, p) PROVE WalletShape'
  BY <1>1, <1>9, RetryTask DEF Retry, WalletShape, OnlyTask, AllPlaced
<1>10. ASSUME NEW w \in Workers, End(w) \/ Abort(w) PROVE WalletShape'
  BY <1>1, <1>10, OffDuty DEF End, Abort, WalletShape, OnlyTask, history
<1>11. ASSUME NEW j \in Jobs, Overdue(j) PROVE WalletShape'
  BY <1>1, <1>11 DEF Overdue, WalletShape
<1> QED
  BY <1>2, <1>3, <1>4, <1>5, <1>6, <1>7, <1>8, <1>9, <1>10, <1>11 DEF Next, Perform

LEMMA PlacedStays ==
  ASSUME NEW w \in Workers, Placed(w), task'[w] = task[w],
         \A j \in Jobs : Running(w, j)' <=> Running(w, j)
  PROVE  Placed(w)'
BY DEF Placed, In

\* A worker goes on with its job.
LEMMA PlacedGoes ==
  ASSUME WalletShape, AllPlaced, NEW w \in Workers, OnlyTask(w),
         task[w] \in Tasks, task'[w] \in Tasks, task'[w].job = task[w].job,
         \A u \in Workers, j \in Jobs : Running(u, j)' <=> Running(u, j),
         In(w, "push")' \/ In(w, "retry")' => task'[w].left \subseteq ProvidersOf(task[w].job),
         In(w, "save")' => task'[w].plan \in [ProvidersOf(task[w].job) -> Records],
         In(w, "retry")' => /\ task'[w].left \subseteq DOMAIN task'[w].plan
                            /\ \A p \in task'[w].left : task'[w].plan[p].status = "stale"
  PROVE  AllPlaced'
<1>1. \A u \in Workers \ {w} : Placed(u)'
  BY PlacedStays DEF AllPlaced, OnlyTask
<1>2. task[w] # Off /\ task'[w] # Off
  BY OffTask
<1>3. Placed(w)'
  BY <1>2 DEF AllPlaced, Placed
<1> QED
  BY <1>1, <1>3 DEF AllPlaced

LEMMA PlacedKeeps ==
  ASSUME WalletShape, AllPlaced, Next
  PROVE  AllPlaced'
<1>1. LeaseShape
  BY DEF WalletShape
<1>2. ASSUME UNCHANGED task, \A w \in Workers, j \in Jobs : Running(w, j)' <=> Running(w, j)
      PROVE  AllPlaced'
  BY <1>2, PlacedStays DEF AllPlaced
<1>3. ASSUME UNCHANGED lease, NEW w \in Workers, NEW j \in Jobs
      PROVE  Running(w, j)' <=> Running(w, j)
  BY <1>3 DEF Running
<1>4. CASE ChangeCard
  <2>1. \A w \in Workers, j \in Jobs : Running(w, j)' <=> Running(w, j)
    <3>1. CASE UNCHANGED lease
      BY <1>3, <3>1
    <3>2. CASE Change(Bucket, Enqueued(lease[Bucket]))
      BY <1>1, <3>2, WhoRuns, BucketFacts
    <3> QED
      BY <1>4, <3>1, <3>2 DEF ChangeCard
  <2> QED
    BY <1>2, <1>4, <2>1 DEF ChangeCard
<1>5. CASE NextMinute
  BY <1>2, <1>3, <1>5 DEF NextMinute
<1>6. ASSUME NEW w \in Workers, NEW j \in Jobs, Start(w, j) PROVE AllPlaced'
  <2>1. OnlyTask(w) /\ task'[w] \in Tasks /\ task'[w].at = "read" /\ task'[w].job = j
    BY <1>6, StartTask
  <2>2. \A u \in Workers, i \in Jobs : Running(u, i)' <=> Running(u, i) \/ (u = w /\ i = j)
    BY <1>1, <1>6, WhoRuns DEF Start
  <2>3. \A u \in Workers \ {w} : Placed(u)'
    BY <2>1, <2>2, PlacedStays DEF AllPlaced, OnlyTask
  <2>4. \A i \in Jobs : ~Running(w, i)
    BY <1>6 DEF Start, AllPlaced, Placed
  <2>5. task'[w] # Off
    BY <2>1, OffTask
  <2>6. Placed(w)'
    BY <2>1, <2>2, <2>4, <2>5 DEF Placed, In
  <2> QED
    BY <2>3, <2>6 DEF AllPlaced
<1>7. ASSUME NEW w \in Workers, ReadCard(w) PROVE AllPlaced'
  BY <1>3, <1>7, ReadTask, PlacedGoes DEF ReadCard, In
<1>14. ASSUME NEW w \in Workers, SkipCard(w) PROVE AllPlaced'
  BY <1>3, <1>14, SkipTask, PlacedGoes DEF SkipCard, In
<1>8. ASSUME NEW w \in Workers, NEW p \in Providers, Push(w, p) PROVE AllPlaced'
  <2>2. /\ OnlyTask(w) /\ task[w] \in Tasks
        /\ task'[w] \in Tasks /\ task'[w].at = "push" /\ task'[w].job = task[w].job
        /\ task'[w].left = task[w].left \ {p}
    BY <1>8, PushTask
  <2>3. task[w].left \subseteq ProvidersOf(task[w].job)
    BY <1>8 DEF Push, AllPlaced, Placed
  <2> QED
    BY <1>3, <1>8, <2>2, <2>3, PlacedGoes DEF Push, In
<1>9. ASSUME NEW w \in Workers, Plan(w) PROVE AllPlaced'
  BY <1>3, <1>9, PlanTask, PlacedGoes DEF Plan, In
<1>10. ASSUME NEW w \in Workers, Save(w) PROVE AllPlaced'
  <2>1. /\ OnlyTask(w) /\ task[w] \in Tasks /\ task[w].at = "save"
        /\ task'[w] \in Tasks /\ task'[w].job = task[w].job
        /\ task'[w].at \in {"retry", "done"}
        /\ task'[w].left = {p \in ProvidersOf(task[w].job) : task[w].plan[p].status = "stale"}
        /\ task'[w].left # {} => task'[w].at = "retry" /\ task'[w].plan = task[w].plan
    BY <1>10, SaveTask DEF AllPlaced
  <2>2. DOMAIN task[w].plan = ProvidersOf(task[w].job)
    BY <2>1 DEF AllPlaced, Placed, In
  <2>3. /\ task'[w].left \subseteq DOMAIN task'[w].plan
        /\ \A p \in task'[w].left : task'[w].plan[p].status = "stale"
    BY <2>1, <2>2
  <2> QED
    BY <1>3, <1>10, <2>1, <2>3, PlacedGoes DEF Save, In
<1>11. ASSUME NEW w \in Workers, NEW p \in Providers, Retry(w, p) PROVE AllPlaced'
  <2>1. /\ OnlyTask(w) /\ task[w] \in Tasks /\ task[w].at = "retry"
        /\ task'[w] \in Tasks /\ task'[w].job = task[w].job
        /\ task'[w].at \in {"retry", "done"}
        /\ task'[w].left = task[w].left \ {p}
        /\ task'[w].left # {} => task'[w].at = "retry" /\ task'[w].plan = task[w].plan
    BY <1>11, RetryTask DEF AllPlaced
  <2>2. /\ task'[w].left \subseteq DOMAIN task'[w].plan
        /\ \A q \in task'[w].left : task'[w].plan[q].status = "stale"
        /\ task'[w].left \subseteq ProvidersOf(task[w].job)
    BY <2>1 DEF AllPlaced, Placed, In
  <2>3. \A u \in Workers, i \in Jobs : Running(u, i)' <=> Running(u, i)
    <3>1. PICK j : j = RetryKey(p, task[w].plan[p].attempts)
      OBVIOUS
    <3>2. j \in Jobs /\ (Change(j, Enqueued(lease[j])) \/ UNCHANGED lease)
      BY <1>11, <3>1, RetryFacts DEF AllPlaced
    <3> QED
      BY <1>1, <1>3, <3>2, WhoRuns
  <2> QED
    BY <2>1, <2>2, <2>3, PlacedGoes DEF In
<1>12. ASSUME NEW w \in Workers, End(w) \/ Abort(w) PROVE AllPlaced'
  <2>1. task[w] # Off /\ task[w].job \in Jobs /\ OnlyTask(w) /\ task'[w] = Off
    BY <1>12, InIsBusy, Busy, OffDuty DEF End, Abort, Places
  <2>2. PICK j \in Jobs : j = task[w].job
    BY <2>1
  <2>3. \A u \in Workers, i \in Jobs : Running(u, i)' <=> Running(u, i) /\ ~(u = w /\ i = j)
    BY <1>1, <1>12, <2>2, WhoRuns DEF End, Abort
  <2>4. \A u \in Workers \ {w} : Placed(u)'
    BY <2>1, <2>3, PlacedStays DEF AllPlaced, OnlyTask
  <2>5. \A i \in Jobs : ~Running(w, i)'
    BY <2>1, <2>2, <2>3 DEF AllPlaced, Placed
  <2>6. Placed(w)'
    BY <2>1, <2>5, OffTask DEF Placed, In
  <2> QED
    BY <2>4, <2>6 DEF AllPlaced
<1>13. ASSUME NEW j \in Jobs, Overdue(j) PROVE AllPlaced'
  BY <1>1, <1>2, <1>13, WhoRuns DEF Overdue
<1> QED
  BY <1>4, <1>5, <1>6, <1>7, <1>8, <1>9, <1>10, <1>11, <1>12, <1>13, <1>14 DEF Next, Perform

----------------------------------------------------------------------------
(* The jobs of one vendor.                                                 *)

\* What a step does to the jobs, while the syncs of p have not crossed.
LeaseAct(p) ==
  \/ UNCHANGED lease
  \/ \E j \in Jobs : Change(j, Enqueued(lease[j]))
  \/ \E j \in Jobs : Expire(j) /\ (p \in ProvidersOf(j) => \A w \in Workers : ~Running(w, j))
  \/ \E w \in Workers, j \in Jobs : Claim(w, j) \/ Finish(w, j) \/ GiveUp(w, j)

LEMMA LeaseActs ==
  ASSUME WalletShape, AllPlaced, Next, NEW p \in Providers \ crossed'
  PROVE  LeaseAct(p) /\ p \notin crossed
<1>1. CASE ChangeCard
  BY <1>1, BucketFacts DEF ChangeCard, LeaseAct
<1>2. CASE NextMinute
  BY <1>2 DEF NextMinute, LeaseAct, history
<1>3. ASSUME NEW w \in Workers, NEW j \in Jobs, Start(w, j) PROVE LeaseAct(p) /\ p \notin crossed
  BY <1>3 DEF Start, LeaseAct, history
<1>4. ASSUME NEW w \in Workers,
             ReadCard(w) \/ SkipCard(w) \/ Plan(w) \/ Save(w) \/ \E q \in Providers : Push(w, q)
      PROVE  LeaseAct(p) /\ p \notin crossed
  BY <1>4 DEF ReadCard, SkipCard, Plan, Save, Push, LeaseAct, history
<1>5. ASSUME NEW w \in Workers, NEW q \in Providers, Retry(w, q)
      PROVE  LeaseAct(p) /\ p \notin crossed
  <2>1. PICK j : j = RetryKey(q, task[w].plan[q].attempts)
    OBVIOUS
  <2>2. j \in Jobs /\ (Change(j, Enqueued(lease[j])) \/ UNCHANGED lease)
    BY <1>5, <2>1, RetryFacts DEF AllPlaced
  <2> QED
    BY <1>5, <2>2 DEF LeaseAct, Retry
<1>6. ASSUME NEW w \in Workers, End(w) \/ Abort(w) PROVE LeaseAct(p) /\ p \notin crossed
  <2>1. task[w].job \in Jobs
    BY <1>6, InIsBusy, Busy DEF End, Abort, Places
  <2> QED
    BY <1>6, <2>1 DEF End, Abort, LeaseAct, history
<1>7. ASSUME NEW j \in Jobs, Overdue(j) PROVE LeaseAct(p) /\ p \notin crossed
  BY <1>7 DEF Overdue, LeaseAct
<1> QED
  BY <1>1, <1>2, <1>3, <1>4, <1>5, <1>6, <1>7 DEF Next, Perform

LEMMA LeasedKeeps ==
  ASSUME WalletShape, NEW p \in Providers, Leased(p), LeaseAct(p)
  PROVE  Leased(p)'
<1>1. LeaseShape
  BY DEF WalletShape
<1>2. CASE UNCHANGED lease
  BY <1>2 DEF Leased, Running
<1>3. ASSUME NEW j \in Jobs, Change(j, Enqueued(lease[j])) PROVE Leased(p)'
  <2>1. /\ \A i \in Jobs \ {j} : lease'[i] = lease[i]
        /\ lease[j].status = "running" => lease'[j].status = "running"
    BY <1>1, <1>3, QueueSteps DEF OnlyJob
  <2>2. \A u \in Workers, i \in Jobs : Running(u, i)' <=> Running(u, i)
    BY <1>1, <1>3, WhoRuns
  <2> QED
    BY <2>1, <2>2 DEF Leased
<1>4. ASSUME NEW j \in Jobs, Expire(j), p \in ProvidersOf(j) => \A w \in Workers : ~Running(w, j)
      PROVE  Leased(p)'
  <2>1. \A i \in Jobs \ {j} : lease'[i] = lease[i]
    BY <1>1, <1>4, QueueSteps DEF OnlyJob
  <2>2. \A u \in Workers, i \in Jobs : Running(u, i)' <=> Running(u, i)
    BY <1>1, <1>4, WhoRuns
  <2> QED
    BY <1>4, <2>1, <2>2 DEF Leased
<1>5. ASSUME NEW w \in Workers, NEW j \in Jobs, Claim(w, j) PROVE Leased(p)'
  <2>1. /\ \A i \in Jobs \ {j} : lease'[i] = lease[i]
        /\ lease[j].status = "pending" /\ lease'[j].status = "running"
    BY <1>1, <1>5, WorkerSteps DEF OnlyJob
  <2>2. \A u \in Workers, i \in Jobs : Running(u, i)' <=> Running(u, i) \/ (u = w /\ i = j)
    BY <1>1, <1>5, WhoRuns
  <2>3. p \in ProvidersOf(j) => \A u \in Workers : ~Running(u, j)
    BY <2>1 DEF Leased
  <2> QED
    BY <2>1, <2>2, <2>3 DEF Leased
<1>6. ASSUME NEW w \in Workers, NEW j \in Jobs, Finish(w, j) \/ GiveUp(w, j) PROVE Leased(p)'
  <2>1. Running(w, j) /\ \A i \in Jobs \ {j} : lease'[i] = lease[i]
    BY <1>1, <1>6, WorkerSteps DEF OnlyJob, Finish, GiveUp
  <2>2. \A u \in Workers, i \in Jobs : Running(u, i)' <=> Running(u, i) /\ ~(u = w /\ i = j)
    BY <1>1, <1>6, WhoRuns
  <2>3. p \in ProvidersOf(j) => \A u \in Workers : ~Running(u, j)'
    BY <2>1, <2>2 DEF Leased
  <2> QED
    BY <2>1, <2>2, <2>3 DEF Leased
<1> QED
  BY <1>2, <1>3, <1>4, <1>5, <1>6 DEF LeaseAct

\* A job that waits goes on waiting, until a worker claims it.
LEMMA WaitingStays ==
  ASSUME WalletShape, NEW p \in Providers, Leased(p), LeaseAct(p), Waiting(p)
  PROVE  Waiting(p)' \/ \E w \in Workers, j \in Jobs : Claim(w, j) /\ p \in ProvidersOf(j)
<1>1. LeaseShape
  BY DEF WalletShape
<1>2. PICK k \in Jobs : p \in ProvidersOf(k) /\ Resting(k)
  BY DEF Waiting
<1> SUFFICES ASSUME ~Resting(k)'
             PROVE  \E w \in Workers, j \in Jobs : Claim(w, j) /\ p \in ProvidersOf(j)
  BY <1>2 DEF Waiting
<1>3. \A w \in Workers : ~Running(w, k)
  BY <1>2 DEF Resting, Leased
<1>4. CASE UNCHANGED lease
  BY <1>2, <1>4 DEF Resting, Running
<1>5. ASSUME NEW j \in Jobs, Change(j, Enqueued(lease[j])) PROVE FALSE
  <2>1. lease'[k].status = IF k = j /\ lease[j].status = "absent" THEN "pending"
                                                                  ELSE lease[k].status
    BY <1>1, <1>5, QueueSteps DEF OnlyJob
  <2>2. \A u \in Workers, i \in Jobs : Running(u, i)' <=> Running(u, i)
    BY <1>1, <1>5, WhoRuns
  <2> QED
    BY <1>2, <2>1, <2>2 DEF Resting
<1>6. ASSUME NEW j \in Jobs, Expire(j) PROVE FALSE
  <2>1. /\ k # j => lease'[k] = lease[k]
        /\ k = j => lease'[k].status \in {"dead", "pending"}
    BY <1>1, <1>6, QueueSteps DEF OnlyJob
  <2>2. \A u \in Workers, i \in Jobs : Running(u, i)' <=> Running(u, i)
    BY <1>1, <1>6, WhoRuns
  <2> QED
    BY <1>2, <2>1, <2>2 DEF Resting
<1>7. ASSUME NEW w \in Workers, NEW j \in Jobs, Claim(w, j), p \notin ProvidersOf(j) PROVE FALSE
  <2>1. k # j /\ lease'[k] = lease[k]
    BY <1>1, <1>2, <1>7, WorkerSteps DEF OnlyJob
  <2>2. \A u \in Workers : Running(u, k)' <=> Running(u, k)
    BY <1>1, <1>7, <2>1, WhoRuns
  <2> QED
    BY <1>2, <2>1, <2>2 DEF Resting
<1>8. ASSUME NEW w \in Workers, NEW j \in Jobs, Finish(w, j) \/ GiveUp(w, j) PROVE FALSE
  <2>1. k # j
    BY <1>3, <1>8 DEF Finish, GiveUp
  <2>2. lease'[k] = lease[k]
    BY <1>1, <1>8, <2>1, WorkerSteps DEF OnlyJob
  <2>3. \A u \in Workers : Running(u, k)' <=> Running(u, k)
    BY <1>1, <1>8, <2>1, WhoRuns
  <2> QED
    BY <1>2, <2>2, <2>3 DEF Resting
<1> QED
  BY <1>4, <1>5, <1>6, <1>7, <1>8 DEF LeaseAct

\* A job that is dropped waits again, or is given up.
LEMMA DroppedWaits ==
  ASSUME WalletShape, NEW p \in Providers, Leased(p), NEW w \in Workers, NEW j \in Jobs,
         p \in ProvidersOf(j), GiveUp(w, j)
  PROVE  Waiting(p)'
<1>1. LeaseShape
  BY DEF WalletShape
<1>2. Running(w, j) /\ lease'[j].status \in {"dead", "pending", lease[j].status}
  BY <1>1, WorkerSteps DEF GiveUp
<1>3. lease[j].status = "running" /\ \A u \in Workers : Running(u, j) => u = w
  BY <1>2 DEF Leased
<1>4. \A u \in Workers : ~Running(u, j)'
  BY <1>1, <1>3, WhoRuns
<1> QED
  BY <1>2, <1>3, <1>4 DEF Waiting, Resting

\* One worker at a time moves.
LEMMA Turns ==
  ASSUME WalletShape, AllPlaced, Next
  PROVE  \A u \in Workers :
           \/ task'[u] = task[u]
           \/ OnlyTask(u) /\ (Perform(u) \/ Abort(u) \/ \E j \in Jobs : Start(u, j))
<1>1. CASE ChangeCard \/ NextMinute \/ \E j \in Jobs : Overdue(j)
  BY <1>1 DEF ChangeCard, NextMinute, Overdue
<1>2. ASSUME NEW w \in Workers, Perform(w) \/ Abort(w) \/ \E j \in Jobs : Start(w, j)
      PROVE  OnlyTask(w)
  <2>1. ASSUME NEW p \in Providers, Push(w, p) PROVE OnlyTask(w)
    BY <2>1, PushTask
  <2>2. ASSUME NEW p \in Providers, Retry(w, p) PROVE OnlyTask(w)
    BY <2>2, RetryTask DEF AllPlaced
  <2>3. CASE End(w) \/ Abort(w)
    BY <2>3, OffDuty DEF End, Abort
  <2>4. CASE ReadCard(w) \/ SkipCard(w) \/ Plan(w) \/ Save(w) \/ \E j \in Jobs : Start(w, j)
    BY <2>4, ReadTask, SkipTask, PlanTask, SaveTask, StartTask DEF AllPlaced
  <2> QED
    BY <1>2, <2>1, <2>2, <2>3, <2>4 DEF Perform
<1>3. ASSUME NEW w \in Workers, Perform(w) \/ Abort(w) \/ \E j \in Jobs : Start(w, j)
      PROVE  \A u \in Workers :
               \/ task'[u] = task[u]
               \/ OnlyTask(u) /\ (Perform(u) \/ Abort(u) \/ \E j \in Jobs : Start(u, j))
  <2>1. OnlyTask(w)
    BY <1>2, <1>3
  <2> TAKE u \in Workers
  <2>2. u # w => task'[u] = task[u]
    BY <2>1 DEF OnlyTask
  <2> QED
    BY <1>3, <2>1, <2>2
<1> QED
  BY <1>1, <1>3 DEF Next

\* What a worker does next, by the place it is at.
LEMMA NextPlace ==
  ASSUME WalletShape, AllPlaced, Next, NEW u \in Workers, task'[u] # task[u]
  PROVE  /\ OnlyTask(u)
         /\ \/ \E j \in Jobs : Start(u, j) /\ task[u] = Off /\ task'[u].at = "read" /\ task'[u].job = j
            \/ ReadCard(u) /\ task[u].at = "read" /\ task'[u].at = "push" /\ task'[u].job = task[u].job
            \/ SkipCard(u) /\ task[u].at = "read" /\ task'[u].at = "done"
            \/ /\ task[u].at = "push" /\ task'[u].at \in {"push", "save"}
               /\ task'[u].job = task[u].job
               /\ Plan(u) \/ \E p \in Providers : Push(u, p)
            \/ Save(u) /\ task[u].at = "save" /\ task'[u].at \in {"retry", "done"}
            \/ /\ task[u].at = "retry" /\ task'[u].at \in {"retry", "done"}
               /\ \E p \in Providers : Retry(u, p)
            \/ End(u) /\ task[u].at = "done" /\ task'[u] = Off
            \/ Abort(u) /\ task[u] # Off /\ task'[u] = Off
<1>1. OnlyTask(u) /\ (Perform(u) \/ Abort(u) \/ \E j \in Jobs : Start(u, j))
  BY Turns
<1>2. ASSUME NEW j \in Jobs, Start(u, j)
      PROVE  task[u] = Off /\ task'[u].at = "read" /\ task'[u].job = j
  BY <1>2, StartTask DEF Start
<1>3. ASSUME NEW p \in Providers, Push(u, p)
      PROVE  task[u].at = "push" /\ task'[u].at = "push" /\ task'[u].job = task[u].job
  BY <1>3, PushTask
<1>4. ASSUME NEW p \in Providers, Retry(u, p)
      PROVE  task[u].at = "retry" /\ task'[u].at \in {"retry", "done"}
  BY <1>4, RetryTask DEF AllPlaced
<1>5. ReadCard(u) =>
        task[u].at = "read" /\ task'[u].at = "push" /\ task'[u].job = task[u].job
  BY ReadTask
<1>12. SkipCard(u) => task[u].at = "read" /\ task'[u].at = "done"
  BY SkipTask
<1>6. Plan(u) => task[u].at = "push" /\ task'[u].at = "save" /\ task'[u].job = task[u].job
  BY PlanTask
<1>7. Save(u) => task[u].at = "save" /\ task'[u].at \in {"retry", "done"}
  BY SaveTask DEF AllPlaced
<1>8. End(u) => task[u].at = "done" /\ task'[u] = Off
  BY OffDuty DEF End, In
<1>9. Abort(u) => task[u] # Off /\ task'[u] = Off
  BY OffDuty DEF Abort
<1>10. CASE Abort(u) \/ \E j \in Jobs : Start(u, j)
  BY <1>1, <1>2, <1>9, <1>10
<1>11. CASE Perform(u)
  <2>1. \/ ReadCard(u) \/ SkipCard(u) \/ Plan(u) \/ Save(u) \/ End(u)
        \/ \E p \in Providers : Push(u, p) \/ Retry(u, p)
    BY <1>11 DEF Perform
  <2>2. ASSUME NEW p \in Providers, Push(u, p)
        PROVE  /\ task[u].at = "push" /\ task'[u].at \in {"push", "save"}
               /\ task'[u].job = task[u].job
               /\ \E q \in Providers : Push(u, q)
    BY <1>3, <2>2
  <2>3. ASSUME NEW p \in Providers, Retry(u, p)
        PROVE  /\ task[u].at = "retry" /\ task'[u].at \in {"retry", "done"}
               /\ \E q \in Providers : Retry(u, q)
    BY <1>4, <2>3
  <2> QED
    BY <1>1, <1>5, <1>6, <1>7, <1>8, <1>12, <2>1, <2>2, <2>3
<1> QED
  BY <1>1, <1>10, <1>11

LEMMA UpdatingBegins ==
  ASSUME WalletShape, AllPlaced, Next, NEW p \in Providers, NEW u \in Workers, Updating(u, p)'
  PROVE  Updating(u, p) \/ (ReadCard(u) /\ p \in ProvidersOf(task[u].job))
<1>1. CASE task'[u] = task[u]
  BY <1>1 DEF Updating
<1>2. CASE task'[u] # task[u]
  <2>1. task'[u].at \in {"push", "save"} /\ p \in ProvidersOf(task'[u].job)
    BY DEF Updating
  <2>2. task'[u].at # "off"
    BY <2>1
  <2>3. task'[u] # Off
    BY <2>2, OffTask
  <2>4. \/ ReadCard(u) /\ task[u].at = "read" /\ task'[u].at = "push" /\ task'[u].job = task[u].job
        \/ /\ task[u].at = "push" /\ task'[u].at \in {"push", "save"}
           /\ task'[u].job = task[u].job
    BY <1>2, <2>1, <2>3, NextPlace
  <2> QED
    BY <2>1, <2>4 DEF Updating
<1> QED
  BY <1>1, <1>2

LEMMA SingleKeeps ==
  ASSUME WalletShape, AllPlaced, Next, NEW p \in Providers \ crossed', Single(p)
  PROVE  Single(p)'
<1>1. ASSUME NEW w \in Workers, NEW u \in Workers, w # u,
             Updating(w, p)', Updating(u, p)', ~Updating(w, p)
      PROVE  FALSE
  <2>1. ReadCard(w) /\ p \in ProvidersOf(task[w].job)
    BY <1>1, UpdatingBegins
  <2>2. task'[u] = task[u]
    BY <1>1, <2>1, ReadTask DEF OnlyTask
  <2>3. Updating(u, p)
    BY <1>1, <2>2 DEF Updating
  <2> QED
    BY <2>1, <2>3 DEF ReadCard
<1>2. ASSUME NEW w \in Workers, NEW u \in Workers, Updating(w, p)', Updating(u, p)'
      PROVE  u = w
  BY <1>1, <1>2 DEF Single
<1> QED
  BY <1>2 DEF Single

LEMMA AloneKeeps ==
  ASSUME WalletShape, AllPlaced, AllAlone, Next
  PROVE  AllAlone'
<1>1. ASSUME NEW p \in Providers \ crossed' PROVE Alone(p)'
  <2>1. LeaseAct(p) /\ p \notin crossed
    BY LeaseActs
  <2>2. Alone(p)
    BY <2>1 DEF AllAlone
  <2>3. Leased(p)'
    BY <2>1, <2>2, LeasedKeeps DEF Alone
  <2>4. Single(p)'
    BY <2>2, SingleKeeps DEF Alone
  <2> QED
    BY <2>3, <2>4 DEF Alone
<1> QED
  BY <1>1 DEF AllAlone

----------------------------------------------------------------------------
(* A vendor that is behind is tried again.                                 *)

\* Whoever has claimed a job is about to read the card for it.
LEMMA ClaimsRead ==
  ASSUME WalletShape, AllPlaced, Next, AllPlaced', NEW w \in Workers, NEW j \in Jobs, Claim(w, j)
  PROVE  In(w, "read")' /\ task'[w].job = j
<1>1. ~Running(w, j) /\ Running(w, j)'
  BY WhoRuns DEF Claim, Idle, Running, WalletShape
<1>2. task'[w] # Off /\ task'[w].job = j
  BY <1>1 DEF AllPlaced, Placed
<1>3. ~(task[w] # Off /\ task[w].job = j)
  BY <1>1 DEF AllPlaced, Placed
<1>4. task'[w] # task[w]
  BY <1>2, <1>3
<1>5. task[w] = Off
  <2>1. \A i \in Jobs : ~Running(w, i)
    BY DEF Claim, Idle, Running
  <2>2. task[w] # Off => task[w].job \in Jobs
    BY Busy
  <2> QED
    BY <2>1, <2>2 DEF AllPlaced, Placed
<1>6. task[w].at = "off"
  BY <1>5, OffTask
<1>7. \E i \in Jobs : task'[w].at = "read" /\ task'[w].job = i
  BY <1>2, <1>4, <1>5, <1>6, NextPlace
<1> QED
  BY <1>2, <1>7 DEF In

LEMMA CoveredStays ==
  ASSUME WalletShape, AllPlaced, Next, AllPlaced',
         NEW p \in Providers \ (crossed' \cup unread'), Leased(p), Covered(p)
  PROVE  Covered(p)' \/ \E w \in Workers : ReadCard(w) /\ p \in ProvidersOf(task[w].job)
<1>1. CASE Waiting(p)
  <2>1. LeaseAct(p)
    BY LeaseActs
  <2>2. Waiting(p)' \/ \E w \in Workers, j \in Jobs : Claim(w, j) /\ p \in ProvidersOf(j)
    BY <1>1, <2>1, WaitingStays
  <2>3. ASSUME NEW w \in Workers, NEW j \in Jobs, Claim(w, j), p \in ProvidersOf(j)
        PROVE  Covered(p)'
    <3>1. In(w, "read")' /\ task'[w].job = j
      BY <2>3, ClaimsRead
    <3> QED
      BY <2>3, <3>1 DEF Covered
  <2> QED
    BY <2>2, <2>3 DEF Covered
<1>2. ASSUME NEW w \in Workers, In(w, "read"), p \in ProvidersOf(task[w].job)
      PROVE  Covered(p)' \/ \E u \in Workers : ReadCard(u) /\ p \in ProvidersOf(task[u].job)
  <2>1. CASE task'[w] = task[w]
    BY <1>2, <2>1 DEF Covered, In
  <2>2. CASE task'[w] # task[w]
    <3>1. task[w] # Off /\ task[w].at = "read"
      BY <1>2, InIsBusy DEF In, Places
    <3>4. ReadCard(w) \/ SkipCard(w) \/ Abort(w)
      BY <2>2, <3>1, NextPlace
    <3>2. ReadCard(w) \/ Abort(w)
      BY <1>2, <3>4 DEF SkipCard
    <3>3. CASE Abort(w)
      <4>1. PICK j \in Jobs : j = task[w].job
        BY <3>1, Busy
      <4>2. GiveUp(w, j) /\ p \in ProvidersOf(j)
        BY <1>2, <3>3, <4>1 DEF Abort
      <4>3. Waiting(p)'
        BY <4>2, DroppedWaits
      <4> QED
        BY <4>3 DEF Covered
    <3> QED
      BY <1>2, <3>2, <3>3
  <2> QED
    BY <2>1, <2>2
<1> QED
  BY <1>1, <1>2 DEF Covered

\* A vendor that is being tried goes on being tried, until its state is saved, or its
\* retry enqueued.
LEMMA TriedStays ==
  ASSUME WalletShape, AllPlaced, Next, AllPlaced',
         NEW p \in Providers \ (crossed' \cup unread'), Leased(p), Tried(p)
  PROVE  \/ Tried(p)'
         \/ \E w \in Workers : Save(w) /\ p \in ProvidersOf(task[w].job)
         \/ \E w \in Workers : Retry(w, p)
<1>1. CASE Covered(p)
  <2>1. ASSUME NEW w \in Workers, ReadCard(w), p \in ProvidersOf(task[w].job)
        PROVE  Tried(p)'
    BY <2>1, ReadTask DEF Tried, Updating
  <2> QED
    BY <1>1, <2>1, CoveredStays DEF Tried
<1>2. ASSUME NEW w \in Workers, Abort(w), p \in ProvidersOf(task[w].job), task[w] # Off
      PROVE  Tried(p)'
  <2>1. PICK j \in Jobs : j = task[w].job
    BY <1>2, Busy
  <2>2. GiveUp(w, j) /\ p \in ProvidersOf(j)
    BY <1>2, <2>1 DEF Abort
  <2>3. Waiting(p)'
    BY <2>2, DroppedWaits
  <2> QED
    BY <2>3 DEF Tried, Covered
<1>3. ASSUME NEW w \in Workers, Updating(w, p)
      PROVE  Tried(p)' \/ \E u \in Workers : Save(u) /\ p \in ProvidersOf(task[u].job)
  <2>1. CASE task'[w] = task[w]
    BY <1>3, <2>1 DEF Tried, Updating
  <2>2. CASE task'[w] # task[w]
    <3>1. task[w].at \in {"push", "save"} /\ p \in ProvidersOf(task[w].job)
      BY <1>3 DEF Updating
    <3>2. task[w] # Off
      BY <3>1, OffTask
    <3>3. \/ task'[w].at \in {"push", "save"} /\ task'[w].job = task[w].job
          \/ Save(w) \/ Abort(w)
      BY <2>2, <3>1, <3>2, NextPlace
    <3>4. CASE task'[w].at \in {"push", "save"} /\ task'[w].job = task[w].job
      BY <3>1, <3>4 DEF Tried, Updating
    <3> QED
      BY <1>2, <3>1, <3>2, <3>3, <3>4
  <2> QED
    BY <2>1, <2>2
<1>4. ASSUME NEW w \in Workers, In(w, "retry"), p \in task[w].left
      PROVE  Tried(p)' \/ Retry(w, p)
  <2>1. CASE task'[w] = task[w]
    BY <1>4, <2>1 DEF Tried, In
  <2>2. CASE task'[w] # task[w]
    <3>1. task[w] # Off /\ task[w].at = "retry" /\ p \in ProvidersOf(task[w].job)
      BY <1>4, InIsBusy DEF In, Places, AllPlaced, Placed
    <3>2. Abort(w) \/ \E q \in Providers : Retry(w, q)
      BY <2>2, <3>1, NextPlace
    <3>3. ASSUME NEW q \in Providers, q # p, Retry(w, q) PROVE Tried(p)'
      <4>1. /\ task'[w].left = task[w].left \ {q}
            /\ task'[w].left # {} => task'[w].at = "retry"
        BY <3>3, RetryTask DEF AllPlaced
      <4> QED
        BY <1>4, <3>3, <4>1 DEF Tried, In
    <3> QED
      BY <1>2, <3>1, <3>2, <3>3
  <2> QED
    BY <2>1, <2>2
<1> QED
  BY <1>1, <1>3, <1>4 DEF Tried

\* What a step leaves of a vendor's record: only Save writes it.
LEMMA RecordStays ==
  ASSUME Next, NEW p \in Providers, \A w \in Workers : ~Save(w)
  PROVE  state' = state /\ (p \in unrecorded' <=> p \in unrecorded)
<1>1. CASE ChangeCard \/ NextMinute \/ \E j \in Jobs : Overdue(j)
  BY <1>1 DEF ChangeCard, NextMinute, Overdue, history
<1>2. ASSUME NEW w \in Workers, Abort(w) \/ \E j \in Jobs : Start(w, j)
      PROVE  state' = state /\ (p \in unrecorded' <=> p \in unrecorded)
  BY <1>2 DEF Abort, Start, history
<1>3. ASSUME NEW w \in Workers, ReadCard(w) \/ SkipCard(w) \/ Plan(w) \/ End(w)
      PROVE  state' = state /\ (p \in unrecorded' <=> p \in unrecorded)
  BY <1>3 DEF ReadCard, SkipCard, Plan, End, history
<1>4. ASSUME NEW w \in Workers, NEW q \in Providers, Push(w, q) \/ Retry(w, q)
      PROVE  state' = state /\ (p \in unrecorded' <=> p \in unrecorded)
  BY <1>4 DEF Push, Retry
<1> QED
  BY <1>1, <1>2, <1>3, <1>4 DEF Next, Perform

LEMMA RetriesStay ==
  ASSUME WalletShape, AllPlaced, Next, NEW p \in Providers, \A w \in Workers : ~Retry(w, p)
  PROVE  p \in unretried' <=> p \in unretried
<1>1. ASSUME NEW w \in Workers, NEW q \in Providers, Retry(w, q)
      PROVE  p \in unretried' <=> p \in unretried
  <2>1. q # p
    BY <1>1
  <2>2. PICK j : j = RetryKey(q, task[w].plan[q].attempts)
    OBVIOUS
  <2> QED
    BY <1>1, <2>1, <2>2, RetryFacts DEF AllPlaced
<1>2. CASE ChangeCard \/ NextMinute \/ \E j \in Jobs : Overdue(j)
  BY <1>2 DEF ChangeCard, NextMinute, Overdue, history
<1>3. ASSUME NEW w \in Workers, Abort(w) \/ \E j \in Jobs : Start(w, j)
      PROVE  p \in unretried' <=> p \in unretried
  BY <1>3 DEF Abort, Start, history
<1>4. ASSUME NEW w \in Workers, ReadCard(w) \/ SkipCard(w) \/ Plan(w) \/ Save(w) \/ End(w)
      PROVE  p \in unretried' <=> p \in unretried
  BY <1>4 DEF ReadCard, SkipCard, Plan, Save, End, history
<1>5. ASSUME NEW w \in Workers, NEW q \in Providers, Push(w, q)
      PROVE  p \in unretried' <=> p \in unretried
  BY <1>5 DEF Push
<1> QED
  BY <1>1, <1>2, <1>3, <1>4, <1>5 DEF Next, Perform

\* A vendor that was read stays so, until a sync of it is skipped; one that was skipped is
\* read by the next sync.
LEMMA ReadingStays ==
  ASSUME Next, NEW p \in Providers \ unread',
         \A w \in Workers : ReadCard(w) => p \notin ProvidersOf(task[w].job)
  PROVE  p \notin unread
<1>1. CASE ChangeCard \/ NextMinute \/ \E j \in Jobs : Overdue(j)
  BY <1>1 DEF ChangeCard, NextMinute, Overdue, history
<1>2. ASSUME NEW w \in Workers, Abort(w) \/ \E j \in Jobs : Start(w, j) PROVE p \notin unread
  BY <1>2 DEF Abort, Start, history
<1>3. ASSUME NEW w \in Workers, ReadCard(w) PROVE p \notin unread
  BY <1>3 DEF ReadCard
<1>4. ASSUME NEW w \in Workers, SkipCard(w) \/ Plan(w) \/ Save(w) \/ End(w)
      PROVE  p \notin unread
  BY <1>4 DEF SkipCard, Plan, Save, End, history
<1>5. ASSUME NEW w \in Workers, NEW q \in Providers, Push(w, q) \/ Retry(w, q)
      PROVE  p \notin unread
  BY <1>5 DEF Push, Retry
<1> QED
  BY <1>1, <1>2, <1>3, <1>4, <1>5 DEF Next, Perform

LEMMA SavedRecord ==
  ASSUME WalletShape, AllPlaced, NEW w \in Workers, Save(w), NEW p \in Providers
  PROVE  /\ p \in ProvidersOf(task[w].job) /\ p \notin unrecorded' =>
              state'[p] = task[w].plan[p]
         /\ p \notin ProvidersOf(task[w].job) =>
              state'[p] = state[p] /\ (p \in unrecorded' <=> p \in unrecorded)
<1>1. task[w].at = "save"
  BY SaveTask DEF AllPlaced
<1>2. DOMAIN task[w].plan = ProvidersOf(task[w].job)
  BY <1>1 DEF AllPlaced, Placed, In
<1> QED
  BY <1>2 DEF Save

LEMMA StaleTriedKeeps ==
  ASSUME WalletShape, AllPlaced, AllAlone, StaleTried, Next, AllPlaced'
  PROVE  StaleTried'
<1> SUFFICES ASSUME NEW p \in Providers \ (unretried' \cup crossed' \cup unrecorded' \cup unread'),
                    state'[p].status = "stale"
             PROVE  Tried(p)'
  BY DEF StaleTried
<1>1. p \notin crossed /\ Leased(p) /\ p \in Providers \ (crossed' \cup unread')
  BY LeaseActs DEF AllAlone, Alone
<1>5. ASSUME NEW w \in Workers, ReadCard(w), p \in ProvidersOf(task[w].job) PROVE Tried(p)'
  BY <1>5, ReadTask DEF Tried, Updating
<1>2. ASSUME NEW w \in Workers, Retry(w, p) PROVE Tried(p)'
  <2>1. PICK j : j = RetryKey(p, task[w].plan[p].attempts)
    OBVIOUS
  <2>2. /\ j \in Jobs /\ p \in ProvidersOf(j)
        /\ Change(j, Enqueued(lease[j])) /\ lease[j].status = "absent"
    BY <1>2, <2>1, RetryFacts DEF AllPlaced
  <2>3. lease'[j].status = "pending"
    BY <2>2, QueueSteps DEF WalletShape
  <2> QED
    BY <2>2, <2>3 DEF Tried, Covered, Waiting, Resting
<1>3. ASSUME NEW w \in Workers, Save(w), p \in ProvidersOf(task[w].job) PROVE Tried(p)'
  <2>1. task[w].plan[p].status = "stale"
    BY <1>3, SavedRecord
  <2>2. /\ task'[w].left = {q \in ProvidersOf(task[w].job) : task[w].plan[q].status = "stale"}
        /\ task'[w].left # {} => task'[w].at = "retry"
    BY <1>3, SaveTask DEF AllPlaced
  <2> QED
    BY <1>3, <2>1, <2>2 DEF Tried, In
<1>4. ASSUME \A w \in Workers : ~Retry(w, p),
             \A w \in Workers : Save(w) => p \notin ProvidersOf(task[w].job),
             \A w \in Workers : ReadCard(w) => p \notin ProvidersOf(task[w].job)
      PROVE  Tried(p)'
  <2>1. p \notin unretried /\ p \notin unread
    BY <1>4, RetriesStay, ReadingStays
  <2>2. state'[p] = state[p] /\ p \notin unrecorded
    <3>1. CASE \E w \in Workers : Save(w)
      BY <1>4, <3>1, SavedRecord
    <3>2. CASE \A w \in Workers : ~Save(w)
      BY <3>2, RecordStays
    <3> QED
      BY <3>1, <3>2
  <2>3. Tried(p)
    BY <1>1, <2>1, <2>2 DEF StaleTried
  <2> QED
    BY <1>1, <1>4, <2>3, TriedStays
<1> QED
  BY <1>2, <1>3, <1>4, <1>5

----------------------------------------------------------------------------
(* A card recorded as synced is the customer's card.                       *)

\* What a step leaves of the card of a vendor that it does not update.
LEMMA CardStays ==
  ASSUME Next, ~ChangeCard, NEW p \in Providers
  PROVE  /\ version' = version /\ missed' = missed
         /\ (\A w \in Workers : ~Push(w, p)) /\ WalletShape =>
              pass'[p] = pass[p] /\ (p \in swallowed' <=> p \in swallowed)
<1>1. CASE \E w \in Workers, q \in Providers : Push(w, q)
  <2>1. PICK w \in Workers, q \in Providers : Push(w, q)
    BY <1>1
  <2>2. version' = version /\ missed' = missed
    BY <2>1 DEF Push
  <2>3. ASSUME q # p, WalletShape
        PROVE  pass'[p] = pass[p] /\ (p \in swallowed' <=> p \in swallowed)
    <3>1. pass \in [Providers -> 0..Blank]
      BY <2>3 DEF WalletShape
    <3>2. pass' = pass \/ \E card \in Arriving(w, q) : pass' = [pass EXCEPT ![q] = card]
      BY <2>1 DEF Push
    <3>3. p \in swallowed' <=> p \in swallowed
      BY <2>1, <2>3 DEF Push
    <3> QED
      BY <2>3, <3>1, <3>2, <3>3
  <2> QED
    BY <2>1, <2>2, <2>3
<1> DEFINE Same == UNCHANGED <<version, missed, pass, swallowed>>
<1>2. CASE NextMinute \/ \E j \in Jobs : Overdue(j)
  BY <1>2 DEF NextMinute, Overdue, history
<1>3. ASSUME NEW w \in Workers, Abort(w) \/ \E j \in Jobs : Start(w, j) PROVE Same
  BY <1>3 DEF Abort, Start, history
<1>4. ASSUME NEW w \in Workers, ReadCard(w) \/ SkipCard(w) \/ Plan(w) \/ Save(w) \/ End(w)
      PROVE  Same
  BY <1>4 DEF ReadCard, SkipCard, Plan, Save, End, history
<1>5. ASSUME NEW w \in Workers, NEW q \in Providers, Retry(w, q) PROVE Same
  BY <1>5 DEF Retry
<1> QED
  BY <1>1, <1>2, <1>3, <1>4, <1>5 DEF Next, Perform

\* After a change, the job that has the minute's key will read the card.
LEMMA ChangeCovers ==
  ASSUME WalletShape, ChangeCard, ~missed', NEW p \in Providers
  PROVE  Covered(p)'
<1>1. PICK j \in Jobs : j = Bucket
  BY BucketFacts
<1>2. p \in ProvidersOf(j) /\ Change(j, Enqueued(lease[j])) /\ UNCHANGED task
      /\ (lease[j].status \in {"absent", "pending"}
           \/ \E w \in Workers : task[w].job = j /\ task[w].at = "read")
  BY <1>1, BucketFacts DEF ChangeCard
<1>3. CASE lease[j].status \in {"absent", "pending"}
  <2>1. lease'[j].status = "pending"
    BY <1>2, <1>3, QueueSteps DEF WalletShape
  <2> QED
    BY <1>2, <2>1 DEF Covered, Waiting, Resting
<1>4. CASE \E w \in Workers : task[w].job = j /\ task[w].at = "read"
  BY <1>2, <1>4 DEF Covered, In
<1> QED
  BY <1>2, <1>3, <1>4

\* Whoever has just read the card is the only one to update the vendor, and with the card
\* as it is now.
LEMMA ReadShows ==
  ASSUME WalletShape, AllPlaced, Next, NEW w \in Workers, ReadCard(w),
         NEW p \in Providers \ crossed', p \in ProvidersOf(task[w].job)
  PROVE  Shows(p)'
<1>1. /\ OnlyTask(w)
      /\ task'[w].at = "push" /\ task'[w].job = task[w].job
      /\ task'[w].card \in {version, Blank} /\ task'[w].left = ProvidersOf(task[w].job)
  BY ReadTask
<1>2. version' = version
  BY DEF ReadCard
<1>3. Updating(w, p)'
  BY <1>1 DEF Updating
<1>4. ASSUME NEW u \in Workers, Updating(u, p)' PROVE u = w
  <2>1. CASE Updating(u, p)
    BY <2>1 DEF ReadCard
  <2>2. CASE ReadCard(u)
    <3>1. task'[u].at = "push" /\ task[u].at = "read"
      BY <2>2, ReadTask
    <3> QED
      BY <1>1, <3>1 DEF OnlyTask
  <2> QED
    BY <1>4, <2>1, <2>2, UpdatingBegins
<1>5. Reaches(w, p)'
  BY <1>1, <1>2 DEF Reaches, In
<1> QED
  BY <1>3, <1>4, <1>5 DEF Shows

\* Nobody does anything for the vendor.
LEMMA ShowsStays ==
  ASSUME WalletShape, AllPlaced, Next, ~ChangeCard, NEW p \in Providers, Shows(p),
         \A w \in Workers : Updating(w, p) => task'[w] = task[w],
         \A w \in Workers : ReadCard(w) => p \notin ProvidersOf(task[w].job)
  PROVE  Shows(p)'
<1>1. \A w \in Workers : Updating(w, p)' <=> Updating(w, p)
  <2>1. \A w \in Workers : Updating(w, p)' => Updating(w, p)
    BY UpdatingBegins
  <2>2. \A w \in Workers : Updating(w, p) => Updating(w, p)'
    BY DEF Updating
  <2> QED
    BY <2>1, <2>2
<1>2. ASSUME NEW w \in Workers PROVE ~Push(w, p)
  <2> SUFFICES ASSUME Push(w, p) PROVE FALSE
    OBVIOUS
  <2>2. task'[w].left = task[w].left \ {p}
    BY PushTask
  <2>3. In(w, "push") /\ p \in task[w].left
    BY DEF Push
  <2>4. Updating(w, p)
    BY <2>3 DEF Updating, In, AllPlaced, Placed
  <2> QED
    BY <2>2, <2>3, <2>4
<1>3. version' = version /\ pass'[p] = pass[p] /\ (p \in swallowed' <=> p \in swallowed)
  BY <1>2, CardStays
<1>4. Delivered(p)' <=> Delivered(p)
  BY <1>3 DEF Delivered
<1>5. state'[p] = state[p] /\ (p \in unrecorded' <=> p \in unrecorded)
  <2>1. ASSUME NEW w \in Workers, Save(w) PROVE p \notin ProvidersOf(task[w].job)
    <3>1. task[w].at = "save" /\ task'[w].at # "save"
      BY <2>1, SaveTask DEF AllPlaced
    <3> QED
      BY <3>1 DEF Updating
  <2>2. CASE \E w \in Workers : Save(w)
    BY <2>1, <2>2, SavedRecord
  <2>3. CASE \A w \in Workers : ~Save(w)
    BY <2>3, RecordStays
  <2> QED
    BY <2>2, <2>3
<1>6. ASSUME NEW w \in Workers, Updating(w, p)' PROVE Reaches(w, p)'
  <2>1. Updating(w, p) /\ task'[w] = task[w] /\ Reaches(w, p)
    BY <1>1, <1>6 DEF Shows
  <2> QED
    BY <1>3, <1>4, <2>1 DEF Reaches, In
<1>7. (\A w \in Workers : ~Updating(w, p)') /\ p \notin unrecorded' =>
        state'[p].status # "synced" \/ Delivered(p)'
  BY <1>1, <1>4, <1>5 DEF Shows
<1> QED
  BY <1>6, <1>7 DEF Shows

\* The updater's own steps.
LEMMA PushShows ==
  ASSUME WalletShape, AllPlaced, Next, NEW p \in Providers, Single(p), Shows(p),
         NEW w \in Workers, Updating(w, p), NEW q \in Providers, Push(w, q)
  PROVE  Shows(p)'
<1>1. PICK ok \in BOOLEAN, got \in BOOLEAN, card \in Arriving(w, q) :
        Outcome(q, ok, got, card) /\ Told(w, q, ok)
  BY PushTask
<1>2. /\ OnlyTask(w) /\ task[w] \in Tasks
      /\ task'[w].at = "push" /\ task'[w].job = task[w].job
      /\ task'[w].card = task[w].card /\ task'[w].left = task[w].left \ {q}
      /\ task'[w].failed = IF ok THEN task[w].failed ELSE task[w].failed \cup {q}
  BY <1>1, PushTask DEF Told
<1>3. In(w, "push") /\ q \in task[w].left /\ version' = version /\ Reaches(w, p)
  BY DEF Push, Shows
<1>4. Updating(w, p)'
  BY <1>2 DEF Updating
<1>5. ASSUME NEW u \in Workers, Updating(u, p)' PROVE u = w
  <2>1. Updating(u, p)
    <3>1. u # w => task'[u] = task[u]
      BY <1>2 DEF OnlyTask
    <3> QED
      BY <1>5, <3>1 DEF Updating
  <2> QED
    BY <2>1 DEF Single
<1>6. pass \in [Providers -> 0..Blank]
  BY DEF WalletShape
<1>7. CASE p # q
  <2>1. pass'[p] = pass[p] /\ (p \in swallowed' <=> p \in swallowed)
    BY <1>1, <1>6, <1>7 DEF Outcome
  <2>2. Delivered(p)' <=> Delivered(p)
    BY <1>3, <2>1 DEF Delivered
  <2>3. Reaches(w, p)'
    BY <1>2, <1>3, <1>7, <2>2 DEF Reaches, In
  <2> QED
    BY <1>4, <1>5, <2>3 DEF Shows
<1>8. CASE p = q
  <2>1. card \in {version, Blank}
    BY <1>3, <1>8 DEF Reaches, Arriving
  <2>2. got => pass'[p] \in {version, Blank}
    BY <1>1, <1>6, <1>8, <2>1 DEF Outcome
  <2>3. ok /\ ~got => p \in swallowed'
    BY <1>1, <1>8 DEF Outcome
  <2>4. ~ok => p \in task'[w].failed
    BY <1>2, <1>8
  <2>5. p \in task'[w].failed \/ Delivered(p)'
    BY <1>3, <2>2, <2>3, <2>4 DEF Delivered
  <2>6. Reaches(w, p)'
    BY <1>2, <1>8, <2>5 DEF Reaches, In
  <2> QED
    BY <1>4, <1>5, <2>6 DEF Shows
<1> QED
  BY <1>7, <1>8

LEMMA PlanShows ==
  ASSUME WalletShape, AllPlaced, Next, NEW p \in Providers, Single(p), Shows(p),
         NEW w \in Workers, Updating(w, p), Plan(w)
  PROVE  Shows(p)'
<1>1. /\ OnlyTask(w) /\ task[w].at = "push" /\ task[w].left = {}
      /\ task'[w].at = "save" /\ task'[w].job = task[w].job
      /\ \A x \in ProvidersOf(task[w].job) :
           task'[w].plan[x].status = "synced" <=> x \notin task[w].failed
  BY PlanTask
<1>2. UNCHANGED <<version, pass, swallowed>> /\ p \in ProvidersOf(task[w].job) /\ Reaches(w, p)
  BY DEF Plan, history, Updating, Shows
<1>3. Updating(w, p)'
  BY <1>1, <1>2 DEF Updating
<1>4. ASSUME NEW u \in Workers, Updating(u, p)' PROVE u = w
  <2>1. Updating(u, p)
    <3>1. u # w => task'[u] = task[u]
      BY <1>1 DEF OnlyTask
    <3> QED
      BY <1>4, <3>1 DEF Updating
  <2> QED
    BY <2>1 DEF Single
<1>5. p \in task[w].failed \/ Delivered(p)
  BY <1>1, <1>2 DEF Reaches, In
<1>6. Delivered(p)' <=> Delivered(p)
  BY <1>2 DEF Delivered
<1>7. task'[w].plan[p].status # "synced" \/ Delivered(p)'
  BY <1>1, <1>2, <1>5, <1>6
<1>8. Reaches(w, p)'
  BY <1>1, <1>7 DEF Reaches, In
<1> QED
  BY <1>3, <1>4, <1>8 DEF Shows

LEMMA SaveShows ==
  ASSUME WalletShape, AllPlaced, Next, NEW p \in Providers, Single(p), Shows(p),
         NEW w \in Workers, Updating(w, p), Save(w)
  PROVE  Shows(p)'
<1>1. OnlyTask(w) /\ task[w].at = "save" /\ task'[w].at \in {"retry", "done"}
  BY SaveTask DEF AllPlaced
<1>2. UNCHANGED <<version, pass, swallowed>> /\ p \in ProvidersOf(task[w].job) /\ Reaches(w, p)
  BY DEF Save, Updating, Shows
<1>3. ASSUME NEW u \in Workers PROVE ~Updating(u, p)'
  <2>1. CASE u = w
    BY <1>1, <2>1 DEF Updating
  <2>2. CASE u # w
    <3>1. ~Updating(u, p) /\ task'[u] = task[u]
      BY <1>1, <2>2 DEF Single, OnlyTask
    <3> QED
      BY <3>1 DEF Updating
  <2> QED
    BY <2>1, <2>2
<1>4. p \notin unrecorded' => state'[p] = task[w].plan[p]
  BY <1>2, SavedRecord
<1>5. task[w].plan[p].status # "synced" \/ Delivered(p)
  BY <1>1, <1>2 DEF Reaches, In
<1>6. Delivered(p)' <=> Delivered(p)
  BY <1>2 DEF Delivered
<1> QED
  BY <1>3, <1>4, <1>5, <1>6 DEF Shows

LEMMA CardShownKeeps ==
  ASSUME WalletShape, AllPlaced, AllAlone, CardShown, Next, AllPlaced'
  PROVE  CardShown'
<1> SUFFICES ASSUME ~missed', NEW p \in Providers \ (crossed' \cup unread')
             PROVE  Covered(p)' \/ Shows(p)'
  BY DEF CardShown
<1>1. p \notin crossed /\ Leased(p) /\ Single(p)
  BY LeaseActs DEF AllAlone, Alone
<1>2. CASE ChangeCard
  BY <1>2, ChangeCovers
<1>3. CASE \E w \in Workers : ReadCard(w) /\ p \in ProvidersOf(task[w].job)
  BY <1>3, ReadShows
<1>4. ASSUME ~ChangeCard, \A w \in Workers : ReadCard(w) => p \notin ProvidersOf(task[w].job)
      PROVE  Covered(p)' \/ Shows(p)'
  <2>1. Covered(p) \/ Shows(p)
    <3>1. ~missed /\ p \notin unread
      BY <1>4, CardStays, ReadingStays
    <3> QED
      BY <1>1, <3>1 DEF CardShown
  <2>2. Covered(p) => Covered(p)'
    BY <1>1, <1>4, CoveredStays
  <2>3. ASSUME Shows(p), NEW w \in Workers, Updating(w, p), task'[w] # task[w]
        PROVE  Covered(p)' \/ Shows(p)'
    <3>1. task[w].at \in {"push", "save"} /\ p \in ProvidersOf(task[w].job)
      BY <2>3 DEF Updating
    <3>2. task[w] # Off
      BY <3>1, OffTask
    <3>3. Plan(w) \/ Save(w) \/ Abort(w) \/ \E q \in Providers : Push(w, q)
      BY <2>3, <3>1, <3>2, NextPlace
    <3>4. CASE Abort(w)
      <4>1. PICK j \in Jobs : j = task[w].job
        BY <3>2, Busy
      <4>2. GiveUp(w, j) /\ p \in ProvidersOf(j)
        BY <3>1, <3>4, <4>1 DEF Abort
      <4>3. Waiting(p)'
        BY <1>1, <4>2, DroppedWaits
      <4> QED
        BY <4>3 DEF Covered
    <3> QED
      BY <1>1, <2>3, <3>3, <3>4, PushShows, PlanShows, SaveShows
  <2>4. CASE Shows(p) /\ \A w \in Workers : Updating(w, p) => task'[w] = task[w]
    BY <1>4, <2>4, ShowsStays
  <2> QED
    BY <2>1, <2>2, <2>3, <2>4
<1> QED
  BY <1>2, <1>3, <1>4

----------------------------------------------------------------------------

LEMMA WalletInitially == Init => WalletInv
<1> SUFFICES ASSUME Init PROVE WalletInv
  OBVIOUS
<1>1. LeaseShape /\ lease = [j \in Jobs |-> NotEnqueued]
  BY LeaseInitially DEF Init, LeaseInit
<1>2. \A w \in Workers : task[w] = Off /\ task[w].at = "off"
  BY OffTask DEF Init
<1>3. NoState \in Records /\ NoState.status = "none"
  BY DEF NoState, Records
<1>4. WalletShape
  <2>1. 1 \in DOMAIN Minutes /\ 0 \in 0..MaxChanges /\ 0 \in 0..Blank
    BY WalletAssumption, BlankFacts
  <2> QED
    BY <1>1, <1>3, <2>1 DEF Init, WalletShape
<1>5. \A w \in Workers, j \in Jobs : ~Running(w, j)
  BY <1>1 DEF Running, NotEnqueued
<1>6. AllPlaced
  BY <1>2, <1>5 DEF AllPlaced, Placed, In
<1>7. AllAlone
  BY <1>2, <1>5 DEF AllAlone, Alone, Leased, Single, Updating
<1>8. \A p \in Providers : state[p].status = "none"
  BY <1>3 DEF Init
<1>9. StaleTried
  BY <1>8 DEF StaleTried
<1>10. CardShown
  BY <1>2, <1>8 DEF CardShown, Shows, Updating
<1> QED
  BY <1>4, <1>6, <1>7, <1>9, <1>10 DEF WalletInv

LEMMA WalletStutters ==
  ASSUME WalletInv, UNCHANGED vars
  PROVE  WalletInv'
<1>1. UNCHANGED <<lease, version, minute, pass, state, task, unread, missed, swallowed, crossed,
                  unretried, unrecorded>>
  BY DEF vars, history
<1>2. WalletShape'
  BY <1>1 DEF WalletInv, WalletShape, LeaseShape
<1>3. AllPlaced'
  BY <1>1 DEF WalletInv, AllPlaced, Placed, Running, In
<1>4. AllAlone'
  BY <1>1 DEF WalletInv, AllAlone, Alone, Leased, Single, Updating, Running
<1>5. \A p \in Providers : Covered(p)' <=> Covered(p)
  BY <1>1 DEF Covered, Waiting, Resting, Running, In
<1>6. \A p \in Providers : Tried(p)' <=> Tried(p)
  BY <1>1, <1>5 DEF Tried, Updating, In
<1>7. \A p \in Providers : Shows(p)' <=> Shows(p)
  BY <1>1 DEF Shows, Updating, Reaches, Delivered, In
<1>8. StaleTried'
  BY <1>1, <1>6 DEF WalletInv, StaleTried
<1>9. CardShown'
  BY <1>1, <1>5, <1>7 DEF WalletInv, CardShown
<1> QED
  BY <1>2, <1>3, <1>4, <1>8, <1>9 DEF WalletInv

\* Whatever changes, syncs, retries, deaths and failures do, the workers' places, the jobs
\* and the vendors' records stay in step.
THEOREM WalletInvariance == Spec => []WalletInv
<1>1. Init => WalletInv
  BY WalletInitially
<1>2. WalletInv /\ [Next]_vars => WalletInv'
  <2> SUFFICES ASSUME WalletInv, [Next]_vars PROVE WalletInv'
    OBVIOUS
  <2>1. CASE Next
    <3>1. WalletShape /\ AllPlaced /\ AllAlone /\ StaleTried /\ CardShown
      BY DEF WalletInv
    <3>2. WalletShape'
      BY <2>1, <3>1, WalletShapeKeeps
    <3>3. AllPlaced'
      BY <2>1, <3>1, PlacedKeeps
    <3>4. AllAlone'
      BY <2>1, <3>1, AloneKeeps
    <3>5. StaleTried'
      BY <2>1, <3>1, <3>3, StaleTriedKeeps
    <3>6. CardShown'
      BY <2>1, <3>1, <3>3, CardShownKeeps
    <3> QED
      BY <3>2, <3>3, <3>4, <3>5, <3>6 DEF WalletInv
  <2>2. CASE UNCHANGED vars
    BY <2>2, WalletStutters
  <2> QED
    BY <2>1, <2>2
<1> QED
  BY <1>1, <1>2, PTL DEF Spec

\* When nothing is under way, a job that covers a vendor has been given up.
LEMMA RestGivesUp ==
  ASSUME ~UnderWay, NEW p \in Providers, Covered(p), WalletShape
  PROVE  GaveUp(p)
<1>1. \A w \in Workers : ~In(w, "read")
  BY InIsBusy DEF UnderWay, Places
<1>2. PICK j \in Jobs : p \in ProvidersOf(j) /\ Resting(j)
  BY <1>1 DEF Covered, Waiting
<1>3. lease[j].status \notin {"pending", "running"}
  BY DEF UnderWay
<1> QED
  BY <1>2, <1>3 DEF Resting, GaveUp

\* A vendor known to be behind is being tried again (StaleIsRetried): persistSyncState and
\* the retries that performWalletSync enqueues, against deaths, slow workers, statements
\* that fail and syncs that overtake one another; a sync that is skipped is named.
THEOREM StaleVendorsRetried == Spec => []StaleIsRetried
<1>1. WalletInv => StaleIsRetried
  <2> SUFFICES ASSUME WalletInv PROVE StaleIsRetried
    OBVIOUS
  <2>1. WalletShape
    BY DEF WalletInv
  <2>2. TypeOK
    <3>1. ASSUME NEW w \in Workers
          PROVE  task[w].left \subseteq Providers /\ task[w].failed \subseteq Providers
      BY <2>1, OffTask DEF WalletShape, Tasks
    <3> QED
      BY <2>1, <3>1 DEF TypeOK, WalletShape, Records
  <2>3. ASSUME ~UnderWay, NEW p \in Providers, state[p].status = "stale",
               p \notin unretried \cup crossed \cup unrecorded \cup unread
        PROVE  GaveUp(p)
    <3>1. Tried(p)
      BY <2>3 DEF WalletInv, StaleTried
    <3>2. \A w \in Workers : task[w] = Off /\ task[w].at = "off"
      BY <2>3, OffTask DEF UnderWay
    <3>3. Covered(p)
      BY <3>1, <3>2 DEF Tried, Updating, In
    <3> QED
      BY <2>1, <2>3, <3>3, RestGivesUp
  <2> QED
    BY <2>2, <2>3 DEF StaleIsRetried
<1> QED
  BY <1>1, WalletInvariance, PTL

\* A card recorded as synced is the customer's card (SyncedIsCurrent): what the providers
\* report, what performWalletSync read and when, and what scheduleWalletSync enqueued; a
\* sync that is skipped, and a card read without its balance, are named.
THEOREM SyncedStaysCurrent == Spec => []SyncedIsCurrent
<1>1. WalletInv => SyncedIsCurrent
  <2> SUFFICES ASSUME WalletInv, AtRest, NEW p \in Providers, Trusted(p), p \notin swallowed
               PROVE  pass[p] = version
    BY DEF SyncedIsCurrent
  <2>1. WalletShape /\ ~UnderWay /\ ~missed
    BY DEF WalletInv, AtRest
  <2>2. \A w \in Workers : task[w] = Off /\ task[w].at = "off"
    BY <2>1, OffTask DEF UnderWay
  <2>3. /\ state[p].status = "synced" /\ ~GaveUp(p) /\ pass[p] # Blank
        /\ p \notin crossed /\ p \notin unrecorded /\ p \notin unread
    BY DEF Trusted
  <2>4. Shows(p)
    BY <2>1, <2>3, RestGivesUp DEF WalletInv, CardShown
  <2>5. Delivered(p)
    BY <2>2, <2>3, <2>4 DEF Shows, Updating
  <2> QED
    BY <2>3, <2>5 DEF Delivered
<1> QED
  BY <1>1, WalletInvariance, PTL
=============================================================================
