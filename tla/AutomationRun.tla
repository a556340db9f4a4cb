---------------------------- MODULE AutomationRun ----------------------------
(***************************************************************************)
(* One automation and one customer: enrolment under a cooldown             *)
(* (enrollCustomer of lib/automations/engine.ts, enroll_automation of      *)
(* 000013) and the runs it creates, each a job that sends a message and    *)
(* gives a reward and points (runAutomation).  The jobs run on JobLease,   *)
(* the message is MessageDispatch with the run as its key.                 *)
(***************************************************************************)
EXTENDS MessageDispatch, Sequences

CONSTANTS
  Runs,       \* automation_runs.id
  Triggers,   \* calls of enrollCustomer that can overlap
  MaxMishaps, \* workers that die or are slow enough to be taken for dead, and
              \* statements whose failure nobody looks at
  MaxUnmarked \* bound: no marking fails once this many runs are unmarked

\* A run's id is its job (automation-run:<run>) and its message's key.
ASSUME RunAssumption == Runs \subseteq Jobs \cap Keys /\ "none" \notin Runs /\ MaxUnmarked \in Nat

VARIABLES
  run,        \* automation_runs.status, "none" before the row exists
  recent,     \* runs created within the last cooldown_days
  trigger,    \* per trigger, where it is in enrollCustomer, and its run
  runner,       \* per worker, where it is in runAutomation
  rewards,    \* how often the run's reward was granted
  credits,    \* the ledger's entries under automation:<run>:balance
  overlapped, \* history: runs enrolled although another one held the cooldown
  contested,  \* history: runs that two workers both found scheduled
  unmarked,   \* history: runs that went on although they could not be marked as running
  broken,     \* history: runs whose worker died, whose job was not enqueued, or whose row
              \* could not be read or updated
  mishaps      \* faults so far

enrolVars == <<trigger, recent, overlapped>>
actVars == <<rewards, credits>>
pastVars == <<contested, unmarked, broken>>
autoVars == <<msgVars, lease, run, enrolVars, runner, actVars, pastVars, mishaps>>

NoRun == [at |-> "off", run |-> "none"]
NoEnrolment == [at |-> "idle", run |-> "none"]

AutoInit ==
  /\ DispatchInit /\ LeaseInit
  /\ run = [r \in Runs |-> "none"]
  /\ recent = {} /\ overlapped = {}
  /\ trigger = [t \in Triggers |-> NoEnrolment]
  /\ runner = [w \in Workers |-> NoRun]
  /\ rewards = [r \in Runs |-> 0]
  /\ credits = [r \in Runs |-> 0]
  /\ contested = {} /\ unmarked = {} /\ broken = {} /\ mishaps = 0

\* A statement about run r fails, and its error is not looked at.
FailsUnseen(r) == mishaps < MaxMishaps /\ mishaps' = mishaps + 1 /\ broken' = broken \cup {r}

----------------------------------------------------------------------------
(* enrollCustomer.                                                         *)

\* Mutant: a run that has been completed does not count.
Unfinished == {r \in recent : run[r] \in {"scheduled", "running"}}
Holding == {r \in recent : run[r] \in {"scheduled", "running", "completed"}}

\* The cooldown's select, in the transaction of the insert but without a lock.
EnrolCheck(t) ==
  /\ trigger[t] = NoEnrolment /\ Holding = {}
  /\ \E r \in Runs : run[r] = "none"
  /\ trigger' = [trigger EXCEPT ![t].at = "insert"]
  /\ UNCHANGED <<msgVars, lease, run, recent, overlapped, runner, actVars, pastVars, mishaps>>

EnrolInsert(t) ==
  /\ trigger[t].at = "insert"
  /\ \E r \in Runs :
       /\ run[r] = "none"
       /\ run' = [run EXCEPT ![r] = "scheduled"]
       /\ recent' = recent \cup {r}
       /\ overlapped' = IF Holding = {} THEN overlapped ELSE overlapped \cup Holding \cup {r}
       /\ trigger' = [trigger EXCEPT ![t] = [at |-> "enqueue", run |-> r]]
  /\ UNCHANGED <<msgVars, lease, runner, actVars, pastVars, mishaps>>

\* The enqueue can fail, which is only logged, or never be reached.
EnrolEnqueue(t) ==
  LET r == trigger[t].run
  IN  /\ trigger[t].at = "enqueue"
      /\ trigger' = [trigger EXCEPT ![t] = NoEnrolment]
      /\ \/ Change(r, Enqueued(lease[r])) /\ UNCHANGED broken
         \/ broken' = broken \cup {r} /\ UNCHANGED lease
      /\ UNCHANGED <<msgVars, run, recent, overlapped, runner, actVars, contested, unmarked, mishaps>>

\* Time: the cooldown of a run is over.
CoolDown(r) ==
  /\ r \in recent
  /\ recent' = recent \ {r}
  /\ UNCHANGED <<msgVars, lease, run, trigger, overlapped, runner, actVars, pastVars, mishaps>>

----------------------------------------------------------------------------
(* runAutomation.                                                          *)

RunnerAt(w, place) == runner[w].at = place
RunnerGoes(w, place) == runner' = [runner EXCEPT ![w].at = place]

StartRun(w, r) ==
  /\ runner[w] = NoRun /\ Claim(w, r)
  /\ runner' = [runner EXCEPT ![w] = [at |-> "read", run |-> r]]
  /\ UNCHANGED <<msgVars, run, enrolVars, actVars, pastVars, mishaps>>

\* Mutant: a run that is already running is run again, as a retry would want.
NotEnded(r) == run[r] \in {"scheduled", "running"}
Runnable(r) == run[r] = "scheduled"

\* A read that fails is taken for a run that is missing.
Read(w) ==
  LET r == runner[w].run
      other(u) == u # w /\ runner[u].run = r /\ runner[u].at # "read"
  IN  /\ RunnerAt(w, "read")
      /\ \/ /\ Runnable(r) /\ RunnerGoes(w, "mark")
            /\ contested' = contested \cup {q \in {r} : \E u \in Workers : other(u)}
            /\ UNCHANGED <<broken, mishaps>>
         \/ ~Runnable(r) /\ RunnerGoes(w, "done") /\ UNCHANGED <<contested, broken, mishaps>>
         \/ FailsUnseen(r) /\ RunnerGoes(w, "done") /\ UNCHANGED contested
      /\ UNCHANGED <<msgVars, lease, run, enrolVars, actVars, unmarked>>

\* The run goes on even if the update fails.
Mark(w) ==
  /\ RunnerAt(w, "mark") /\ RunnerGoes(w, "check")
  /\ \/ run' = [run EXCEPT ![runner[w].run] = "running"] /\ UNCHANGED unmarked
     \/ /\ Cardinality(unmarked) < MaxUnmarked
        /\ unmarked' = unmarked \cup {runner[w].run} /\ UNCHANGED run
  /\ UNCHANGED <<msgVars, lease, enrolVars, actVars, contested, broken, mishaps>>

\* Mutant: the run is left as it is.
SkipSilently(w) ==
  /\ RunnerAt(w, "check") /\ RunnerGoes(w, "done")
  /\ UNCHANGED <<msgVars, lease, run, enrolVars, actVars, pastVars, mishaps>>

\* The last update of a run, which can fail.
Ends(r, status) ==
  \/ run' = [run EXCEPT ![r] = status] /\ UNCHANGED <<broken, mishaps>>
  \/ FailsUnseen(r) /\ UNCHANGED run

\* The customer may have gone, left the segment or come back during the delay, or the
\* reads that say so have failed.
Skip(w) ==
  /\ RunnerAt(w, "check") /\ RunnerGoes(w, "done")
  /\ Ends(runner[w].run, "skipped")
  /\ UNCHANGED <<msgVars, lease, enrolVars, actVars, contested, unmarked>>

\* send_message, for a customer who is still eligible: no answer of dispatchMessage stops the run.
Message(w) ==
  /\ RunnerAt(w, "check") /\ RunnerGoes(w, "reward")
  /\ Dispatch(w, runner[w].run)
  /\ UNCHANGED <<lease, run, enrolVars, actVars, pastVars, mishaps>>

MessageStep(w) ==
  DispatchStep(w) /\ UNCHANGED <<lease, run, enrolVars, runner, actVars, pastVars, mishaps>>

\* grant_reward: createAdminGrantReward knows no key.  An action that fails is noted
\* and the run goes on; that it then has no effect is left out.
Reward(w) ==
  /\ RunnerAt(w, "reward") /\ At(w, "idle") /\ RunnerGoes(w, "balance")
  /\ rewards' = [rewards EXCEPT ![runner[w].run] = @ + 1]
  /\ UNCHANGED <<msgVars, lease, run, enrolVars, credits, pastVars, mishaps>>

\* credit_account under a key, which PointsAccount shows to apply once.
Credit(r) == credits' = [credits EXCEPT ![r] = 1]

Balance(w) ==
  /\ RunnerAt(w, "balance") /\ RunnerGoes(w, "complete")
  /\ Credit(runner[w].run)
  /\ UNCHANGED <<msgVars, lease, run, enrolVars, rewards, pastVars, mishaps>>

Complete(w) ==
  /\ RunnerAt(w, "complete") /\ RunnerGoes(w, "done")
  /\ Ends(runner[w].run, "completed")
  /\ UNCHANGED <<msgVars, lease, enrolVars, actVars, contested, unmarked>>

EndRun(w) ==
  /\ RunnerAt(w, "done") /\ Finish(w, runner[w].run)
  /\ runner' = [runner EXCEPT ![w] = NoRun]
  /\ UNCHANGED <<msgVars, run, enrolVars, actVars, pastVars, mishaps>>

\* The process dies, or a statement outside the actions throws.
AbortRun(w) ==
  /\ runner[w] # NoRun /\ mishaps < MaxMishaps
  /\ GiveUp(w, runner[w].run) /\ Die(w)
  /\ runner' = [runner EXCEPT ![w] = NoRun] /\ mishaps' = mishaps + 1
  /\ broken' = broken \cup {r \in {runner[w].run} : runner[w].at # "read"}
  /\ UNCHANGED <<run, enrolVars, actVars, contested, unmarked>>

OverdueRun(r) ==
  /\ Expire(r)
  /\ \/ (\A w \in Workers : ~Running(w, r)) /\ UNCHANGED mishaps
     \/ (\E w \in Workers : Running(w, r)) /\ mishaps < MaxMishaps /\ mishaps' = mishaps + 1
  /\ UNCHANGED <<msgVars, run, enrolVars, runner, actVars, pastVars>>

----------------------------------------------------------------------------

Enrol(t) == EnrolCheck(t) \/ EnrolInsert(t) \/ EnrolEnqueue(t)
RunStep(w) ==
  \/ Read(w) \/ Mark(w) \/ Skip(w)
  \/ Message(w) \/ MessageStep(w) \/ Reward(w) \/ Balance(w)
  \/ Complete(w) \/ EndRun(w)

AutoNext ==
  \/ \E t \in Triggers : Enrol(t)
  \/ \E r \in Runs : CoolDown(r) \/ OverdueRun(r)
  \/ \E w \in Workers : RunStep(w) \/ AbortRun(w) \/ \E r \in Runs : StartRun(w, r)

AutoSpec == AutoInit /\ [][AutoNext]_autoVars

----------------------------------------------------------------------------
(* Properties.                                                             *)

TypeOK ==
  /\ DispatchTypeOK
  /\ run \in [Runs -> {"none", "scheduled", "running", "skipped", "completed"}]
  /\ rewards \in [Runs -> Nat] /\ credits \in [Runs -> Nat]
  /\ recent \subseteq Runs /\ overlapped \subseteq Runs /\ contested \subseteq Runs
  /\ unmarked \subseteq Runs

\* A run acts once, however often its job is run and over however many channels its
\* message is tried: one message, one credit, and one reward unless two workers were
\* in it at once or it could not be marked as running (nothing else keeps the reward
\* from being granted again).
ActsOnce ==
  /\ TypeOK
  /\ \A r \in Runs : /\ delivered[r] <= 1 /\ credits[r] <= 1
                     /\ r \notin contested \cup unmarked => rewards[r] <= 1

\* The cooldown holds: of the runs created within it at most one has reached the
\* customer, unless enrolments overlapped, two workers disagreed about a run, or it was
\* not marked as running (a retry may then skip it after it has acted).
CooldownKept ==
  \A r, s \in recent \ (overlapped \cup contested \cup unmarked) :
    delivered[r] > 0 /\ delivered[s] > 0 => r = s

RunsAtRest ==
  /\ \A t \in Triggers : trigger[t].at # "enqueue"
  /\ \A w \in Workers : runner[w] = NoRun
  /\ \A r \in Runs : lease[r].status \in {"absent", "succeeded", "dead"}

\* An enrolled customer is dealt with: once nothing is in progress, a run has been
\* completed or skipped, unless a worker died in it (no retry goes on with a run that
\* is marked as running), its row could not be read or updated (the job succeeds all the
\* same), its job was never enqueued, or the job was given up.
RunsEnd ==
  RunsAtRest => \A r \in Runs : \/ run[r] \in {"none", "completed", "skipped"}
                             \/ r \in broken \/ lease[r].status = "dead"
=============================================================================
