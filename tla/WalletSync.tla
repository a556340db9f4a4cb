----------------------------- MODULE WalletSync -----------------------------
(***************************************************************************)
(* A customer's card in the wallets: scheduleWalletSync, performWalletSync *)
(* (lib/wallet/sync.ts) with the reducer of sync-state.ts and the service  *)
(* of service.ts, run as jobs on JobLease.  The merchant has automatic     *)
(* updates on, and a retry can come at any time after it is enqueued.      *)
(***************************************************************************)
EXTENDS JobLease, Sequences

CONSTANTS
  Providers,        \* the vendors that are configured
  Fetching,         \* those that make the phone fetch the card (Apple), not send it
  Minutes,          \* per minute, the job wallet-sync:<customer>:<minute>: a sequence
  RetryKey(_, _),   \* the job wallet-sync-retry:<customer>:<provider>:<attempts>
  ProvidersOf(_),   \* the vendors a job is for: all of them, or the one to try again
  MaxSyncAttempts,  \* MAX_SYNC_ATTEMPTS
  MaxChanges,       \* bound: changes of the card
  MaxFaults         \* bound: workers that die, or are slow enough to be taken for dead,
                    \* and statements and updates that fail, noticed or not

\* A minute's job is for every vendor, and a retry for its own.
ASSUME WalletAssumption ==
  /\ Fetching \subseteq Providers /\ MaxSyncAttempts \in Nat \ {0} /\ MaxChanges \in Nat
  /\ Minutes \in Seq(Jobs) /\ Minutes # <<>>
  /\ \A j \in Jobs : ProvidersOf(j) \subseteq Providers
  /\ \A i \in DOMAIN Minutes : ProvidersOf(Minutes[i]) = Providers
  /\ \A p \in Providers, n \in 1..(MaxSyncAttempts - 1) :
       RetryKey(p, n) \in Jobs /\ ProvidersOf(RetryKey(p, n)) = {p}

VARIABLES
  version,    \* the card as the database has it
  minute,     \* the current minute
  pass,       \* per vendor, the card on the phone
  state,      \* wallet_sync_state: status ("none" without a row) and attempts
  task,       \* per worker, where it is in performWalletSync
  unread,     \* history: vendors whose last sync was skipped, since there was no card to send
  missed,     \* history: no job reads the card after the last change of it
  swallowed,  \* history: vendors for whom an update was answered, but did not arrive
  crossed,    \* history: vendors for whom two syncs have overlapped, or two runs of one
  unretried,  \* history: vendors whose retry was not enqueued: its key was taken, or it failed
  unrecorded, \* history: vendors whose state was not saved
  faults      \* faults so far

history == <<unread, missed, swallowed, crossed, unretried, unrecorded>>
vars == <<lease, version, minute, pass, state, task, history, faults>>

Fault == faults < MaxFaults /\ faults' = faults + 1

\* A card without its balance, which is what a failed read of the accounts makes.
Blank == MaxChanges + 1

NoState == [status |-> "none", attempts |-> 0]
Off == [at |-> "off", job |-> "none", card |-> 0, left |-> {}, failed |-> {},
        plan |-> [p \in {} |-> NoState]]

Init ==
  /\ LeaseInit
  /\ version = 0 /\ minute = 1
  /\ pass = [p \in Providers |-> 0]
  /\ state = [p \in Providers |-> NoState]
  /\ task = [w \in Workers |-> Off]
  /\ missed = FALSE /\ swallowed = {} /\ crossed = {} /\ unretried = {} /\ unrecorded = {}
  /\ unread = {} /\ faults = 0

----------------------------------------------------------------------------
(* scheduleWalletSync.                                                     *)

Bucket == Minutes[minute]

\* The change of the card, and the enqueue after it, whose failure is only logged.  The
\* job that has the minute's key shows the change if it has not read the card yet.
ChangeCard ==
  LET j == Bucket
      ahead == lease[j].status \in {"absent", "pending"}
               \/ \E w \in Workers : task[w].job = j /\ task[w].at = "read"
  IN  /\ version < MaxChanges /\ version' = version + 1
      /\ \/ Change(j, Enqueued(lease[j])) /\ missed' = ~ahead /\ UNCHANGED faults
         \/ Fault /\ missed' = TRUE /\ UNCHANGED lease
      /\ UNCHANGED <<minute, pass, state, task, unread, swallowed, crossed, unretried, unrecorded>>

NextMinute ==
  /\ minute < Len(Minutes) /\ minute' = minute + 1
  /\ UNCHANGED <<lease, version, pass, state, task, history, faults>>

----------------------------------------------------------------------------
(* performWalletSync.                                                      *)

In(w, place) == task[w].at = place

Start(w, j) ==
  /\ task[w] = Off /\ Claim(w, j)
  /\ task' = [task EXCEPT ![w].at = "read", ![w].job = j]
  /\ UNCHANGED <<version, minute, pass, state, history, faults>>

Updating(w, p) == task[w].at \in {"push", "save"} /\ p \in ProvidersOf(task[w].job)

\* buildPassContent, once for all vendors.
ReadCard(w) ==
  LET tried == ProvidersOf(task[w].job)
  IN  /\ In(w, "read")
      /\ \E card \in {version, Blank} :
           /\ IF card = Blank THEN Fault ELSE UNCHANGED faults
           /\ task' = [task EXCEPT ![w].at = "push", ![w].card = card, ![w].left = tried]
      /\ crossed' = crossed \cup {p \in tried : \E u \in Workers : Updating(u, p)}
      /\ unread' = unread \ tried
      /\ UNCHANGED <<lease, version, minute, pass, state, missed, swallowed, unretried, unrecorded>>

\* The customer is not active, or the customer or the business could not be read: the
\* sync is skipped, which the job takes for a success.
SkipCard(w) ==
  /\ In(w, "read")
  /\ task' = [task EXCEPT ![w].at = "done"]
  /\ unread' = unread \cup ProvidersOf(task[w].job)
  /\ UNCHANGED <<lease, version, minute, pass, state, missed, swallowed, crossed, unretried,
                 unrecorded, faults>>

\* What the phone can show once the vendor has got the update: it fetches the card as it
\* is now, or is sent the one that was read.
Arriving(w, p) == IF p \in Fetching THEN {version, Blank} ELSE {task[w].card}

\* provider.update: it arrives, it is rejected (and may have arrived all the same), or a
\* failure is not reported: no token, an HTTP error from Google, no push accepted by Apple.
Push(w, p) ==
  /\ In(w, "push") /\ p \in task[w].left
  /\ \E ok, got \in BOOLEAN, card \in Arriving(w, p) :
       /\ IF ok /\ got /\ (p \in Fetching => card = version) THEN UNCHANGED faults ELSE Fault
       /\ pass' = IF got THEN [pass EXCEPT ![p] = card] ELSE pass
       /\ LET owed == got => card # version
          IN  swallowed' = {q \in swallowed : q # p \/ owed} \cup {q \in {p} : ok /\ ~got}
       /\ task' = [task EXCEPT ![w].left = @ \ {p},
                               ![w].failed = IF ok THEN @ ELSE @ \cup {p}]
  /\ UNCHANGED <<lease, version, minute, state, unread, missed, crossed, unretried, unrecorded>>

\* Mutant: a failure is only logged.
LoggedOnly(previous, ok) == [status |-> "synced", attempts |-> 0]
ReduceProviderState(previous, ok) ==
  IF ok THEN [status |-> "synced", attempts |-> 0]
  ELSE [status |-> IF previous.attempts + 1 >= MaxSyncAttempts THEN "abandoned" ELSE "stale",
        attempts |-> previous.attempts + 1]

\* loadSyncState and planSync: a load that fails is taken for a card that never synced.
Plan(w) ==
  LET tried == ProvidersOf(task[w].job)
  IN  /\ In(w, "push") /\ task[w].left = {}
      /\ \E previous \in {state, [p \in Providers |-> NoState]} :
           /\ IF previous = state THEN UNCHANGED faults ELSE Fault
           /\ task' = [task EXCEPT ![w].at = "save", ![w].failed = {},
                       ![w].plan = [p \in tried |->
                                      ReduceProviderState(previous[p], p \notin task[w].failed)]]
      /\ UNCHANGED <<lease, version, minute, pass, state, history>>

\* persistSyncState: the error of the upsert is only logged.
Save(w) ==
  LET plan == task[w].plan
      behind == {p \in DOMAIN plan : plan[p].status = "stale"}
  IN  /\ In(w, "save")
      /\ \/ /\ state' = [p \in Providers |-> IF p \in DOMAIN plan THEN plan[p] ELSE state[p]]
            /\ unrecorded' = unrecorded \ DOMAIN plan
            /\ UNCHANGED faults
         \/ Fault /\ unrecorded' = unrecorded \cup DOMAIN plan /\ UNCHANGED state
      /\ task' = [task EXCEPT ![w].left = behind,
                              ![w].plan = IF behind = {} THEN Off.plan ELSE @,
                              ![w].at = IF behind = {} THEN "done" ELSE "retry"]
      /\ UNCHANGED <<lease, version, minute, pass, unread, missed, swallowed, crossed, unretried>>

\* Mutant: the retry is bucketed with the sync it retries.
WithTheSync(p, attempts) == Bucket
KeyOfRetry(p, attempts) == RetryKey(p, attempts)

\* The key of a retry stays taken: after a success the count starts again, and with it
\* the keys.
Retry(w, p) ==
  LET n == task[w].plan[p].attempts
      j == KeyOfRetry(p, n)
      fresh == lease[RetryKey(p, n)].status = "absent"
  IN  /\ In(w, "retry") /\ p \in task[w].left
      /\ \/ /\ Change(j, Enqueued(lease[j]))
            /\ unretried' = IF fresh THEN unretried \ {p} ELSE unretried \cup {p}
            /\ UNCHANGED faults
         \/ Fault /\ unretried' = unretried \cup {p} /\ UNCHANGED lease
      /\ task' = [task EXCEPT ![w].left = @ \ {p},
                              ![w].plan = IF task[w].left = {p} THEN Off.plan ELSE @,
                              ![w].at = IF task[w].left = {p} THEN "done" ELSE "retry"]
      /\ UNCHANGED <<version, minute, pass, state, unread, missed, swallowed, crossed, unrecorded>>

End(w) ==
  /\ In(w, "done") /\ Finish(w, task[w].job)
  /\ task' = [task EXCEPT ![w] = Off]
  /\ UNCHANGED <<version, minute, pass, state, history, faults>>

\* The process dies, or a statement throws.
Abort(w) ==
  /\ task[w] # Off /\ Fault
  /\ GiveUp(w, task[w].job)
  /\ task' = [task EXCEPT ![w] = Off]
  /\ UNCHANGED <<version, minute, pass, state, history>>

\* A job is requeued, perhaps from a worker that is only slow.
Overdue(j) ==
  /\ Expire(j)
  /\ \/ (\A w \in Workers : ~Running(w, j)) /\ UNCHANGED <<crossed, faults>>
     \/ (\E w \in Workers : Running(w, j)) /\ Fault /\ crossed' = crossed \cup ProvidersOf(j)
  /\ UNCHANGED <<version, minute, pass, state, task, unread, missed, swallowed, unretried,
                 unrecorded>>

----------------------------------------------------------------------------

Perform(w) ==
  \/ ReadCard(w) \/ SkipCard(w) \/ Plan(w) \/ Save(w) \/ End(w)
  \/ \E p \in Providers : Push(w, p) \/ Retry(w, p)

Next ==
  \/ ChangeCard \/ NextMinute
  \/ \E w \in Workers : Perform(w) \/ Abort(w) \/ \E j \in Jobs : Start(w, j)
  \/ \E j \in Jobs : Overdue(j)

Spec == Init /\ [][Next]_vars

----------------------------------------------------------------------------
(* Properties.                                                             *)

TypeOK ==
  /\ version \in 0..MaxChanges /\ pass \in [Providers -> 0..Blank]
  /\ \A p \in Providers : /\ state[p].status \in {"none", "synced", "stale", "abandoned"}
                          /\ state[p].attempts \in Nat
  /\ \A w \in Workers : task[w].left \subseteq Providers /\ task[w].failed \subseteq Providers

UnderWay == \/ \E w \in Workers : task[w] # Off
            \/ \E j \in Jobs : lease[j].status \in {"pending", "running"}
GaveUp(p) == \E j \in Jobs : p \in ProvidersOf(j) /\ lease[j].status = "dead"

\* A vendor known to be behind is being tried again: whatever syncs and retries do to
\* each other, nothing rests with a vendor recorded as stale, unless the retry was not
\* enqueued or skipped, a job for it was given up, the record was not saved, or two syncs
\* overlapped.
StaleIsRetried ==
  /\ TypeOK
  /\ ~UnderWay => \A p \in Providers :
       state[p].status = "stale" =>
         GaveUp(p) \/ p \in unretried \cup crossed \cup unrecorded \cup unread

Trusted(p) ==
  /\ state[p].status = "synced" /\ ~GaveUp(p) /\ p \notin crossed \cup unrecorded \cup unread
  /\ pass[p] # Blank
AtRest == ~UnderWay /\ ~missed

\* A card recorded as synced is the customer's card: once nothing is under way, the phone
\* shows the last change, unless that change was not enqueued or fell into a minute whose
\* job had read the card before, a failure was reported as a success, the last sync was
\* skipped or showed a card whose balance could not be read, a job of the vendor was given
\* up, the record was not saved, or two syncs overlapped.
SyncedIsCurrent ==
  AtRest => \A p \in Providers : Trusted(p) /\ p \notin swallowed => pass[p] = version

\* What sync.ts says of a failure: the vendor is recorded as stale, not as synced.
FailureIsAState == AtRest => \A p \in Providers : Trusted(p) => pass[p] = version
=============================================================================
