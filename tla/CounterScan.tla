---------------------------- MODULE CounterScan ----------------------------
(***************************************************************************)
(* The counter device: checkIn and sync of lib/client/use-counter-scan.ts  *)
(* over the queue of lib/client/offline-queue.ts, against the server of    *)
(* EarnEvent.  A scan whose request fails on the network is saved in       *)
(* IndexedDB and sent again by a flush, oldest first.  Several flushes can *)
(* run at once (tabs, the automatic and the manual one), a request that    *)
(* was given up can still be worked on, and a tab can be closed.  IndexedDB *)
(* may refuse to add a scan; its reads, puts and deletes are taken to work. *)
(***************************************************************************)
EXTENDS EarnEvent, FiniteSets

CONSTANTS
  Flushers,     \* calls of flushQueue that can overlap
  MaxAttempts,  \* MAX_ATTEMPTS
  Cached,       \* scans of customers in the device's cache, which staff are shown by name
  None          \* no handler

Scans == Events
Clients == Scans \cup Flushers

ASSUME ClientsAssumption ==
  /\ MaxAttempts \in Nat \ {0}
  /\ Scans \cap Flushers = {} /\ None \notin Handlers

VARIABLES
  counter,     \* per scan, what the cashier has seen of it
  unsaved,     \* history: scans IndexedDB refused, though the cashier was told otherwise
  captured,    \* the scans that were saved; a scan's place is its IndexedDB id
  stored,      \* the store: the attempts of the ids in it
  waits,       \* per client, the handler that works for it
  todo,        \* per flusher, what is left of the list it has read: ids and attempts
  abandoned,   \* ids of the scans that were dropped unsent
  unresolved   \* history: ids removed on an answer without a check-in

clientVars == <<counter, unsaved, captured, stored, waits, todo, abandoned, unresolved>>
scanVars == <<vars, clientVars>>

Ids == DOMAIN captured
Empty == [i \in {} |-> 0]

ScanInit ==
  /\ Init
  /\ counter = [s \in Scans |-> "new"]
  /\ captured = <<>>
  /\ stored = Empty
  /\ waits = [c \in Clients |-> None]
  /\ todo = [f \in Flushers |-> <<>>]
  /\ unsaved = {} /\ abandoned = {} /\ unresolved = {}

----------------------------------------------------------------------------
Send(c, s) ==
  /\ waits[c] = None
  /\ \E h \in Handlers : Receive(h, s) /\ waits' = [waits EXCEPT ![c] = h]

\* Mutant: the client goes on before the server has decided.
AnsweredEarly(c, results) ==
  /\ waits[c] # None
  /\ Leave(waits[c])
  /\ waits' = [waits EXCEPT ![c] = None]

\* The client has its answer.
Answered(c, results) ==
  /\ waits[c] # None
  /\ handler[waits[c]].phase \in results
  /\ Leave(waits[c])
  /\ waits' = [waits EXCEPT ![c] = None]

\* fetch fails: the request never left, or whatever the server does with it,
\* nobody waits for the answer any more.
NetworkFails(c) == waits' = [waits EXCEPT ![c] = None] /\ UNCHANGED vars

Without(i) == [k \in DOMAIN stored \ {i} |-> stored[k]]
With(i, n) == [k \in DOMAIN stored \cup {i} |-> IF k = i THEN n ELSE stored[k]]

----------------------------------------------------------------------------
(* checkIn.                                                                *)

CheckIn(s) ==
  /\ counter[s] = "new"
  /\ Send(s, s)
  /\ UNCHANGED <<counter, unsaved, captured, stored, todo, abandoned, unresolved>>

\* The award is shown; or a hint or an ApiError is, and the scan is not saved.
CheckInAnswered(s) ==
  /\ \/ Answered(s, {"ok"}) /\ counter' = [counter EXCEPT ![s] = "shown"]
     \/ Answered(s, {"unknown", "refused", "failed"}) /\ counter' = [counter EXCEPT ![s] = "error"]
  /\ UNCHANGED <<unsaved, captured, stored, todo, abandoned, unresolved>>

\* enqueueScan: tx resolves to null when IndexedDB cannot be opened or refuses.
EnqueueScan(s) ==
  \/ /\ captured' = Append(captured, s)
     /\ stored' = With(Len(captured) + 1, 0)
     /\ UNCHANGED unsaved
  \/ /\ unsaved' = unsaved \cup {s}
     /\ UNCHANGED <<captured, stored>>

\* isOffline: the cashier is told that the scan is saved, or, when the customer is
\* in the device's cache, is shown the award the server will presumably make.
CheckInOffline(s) ==
  /\ counter[s] = "new"
  /\ NetworkFails(s)
  /\ EnqueueScan(s)
  /\ counter' = [counter EXCEPT ![s] = IF s \in Cached THEN "assumed" ELSE "saved"]
  /\ UNCHANGED <<todo, abandoned, unresolved>>

----------------------------------------------------------------------------
(* sync: flushQueue.                                                       *)

\* listQueuedScans, oldest first.
Backlog ==
  [n \in 1..Cardinality(DOMAIN stored) |->
     LET i == CHOOSE i \in DOMAIN stored : Cardinality({j \in DOMAIN stored : j <= i}) = n
     IN  [id |-> i, attempts |-> stored[i]]]

FlushStart(f) ==
  /\ todo[f] = <<>> /\ stored # Empty
  /\ todo' = [todo EXCEPT ![f] = Backlog]
  /\ UNCHANGED <<vars, counter, unsaved, captured, stored, waits, abandoned, unresolved>>

Scan(f) == Head(todo[f])

FlushSend(f) ==
  /\ todo[f] # <<>>
  /\ Send(f, captured[Scan(f).id])
  /\ UNCHANGED <<counter, unsaved, captured, stored, todo, abandoned, unresolved>>

GoOn(f) == todo' = [todo EXCEPT ![f] = Tail(@)]
Stop(f) == todo' = [todo EXCEPT ![f] = <<>>]

\* The flush looks at no answer it gets: any 200 removes the scan.
FlushSent(f) ==
  /\ \/ Answered(f, {"ok"}) /\ UNCHANGED unresolved
     \/ Answered(f, {"unknown"}) /\ unresolved' = unresolved \cup {Scan(f).id}
  /\ stored' = Without(Scan(f).id)
  /\ GoOn(f)
  /\ UNCHANGED <<counter, unsaved, captured, abandoned>>

\* decideFlushOutcome
GivesUp(f) == Scan(f).attempts + 1 >= MaxAttempts

\* Mutant: a scan is dropped and nobody is told.
DropUntold(f) == stored' = Without(Scan(f).id) /\ GoOn(f) /\ UNCHANGED abandoned

\* The outcome "abandon".
Drop(f) ==
  /\ stored' = Without(Scan(f).id)
  /\ abandoned' = abandoned \cup {Scan(f).id}
  /\ GoOn(f)

\* Mutants: the flush goes on past a failure; the attempt is not counted.
MarkAttemptGoOn(f) ==
  stored' = With(Scan(f).id, Scan(f).attempts + 1) /\ GoOn(f) /\ UNCHANGED abandoned
MarkAttemptUncounted(f) ==
  stored' = With(Scan(f).id, Scan(f).attempts) /\ Stop(f) /\ UNCHANGED abandoned

\* The outcome "retry": markAttempt puts back the scan as the flush has read it,
\* whether it is still there or not, and the flush stops.
MarkAttempt(f) ==
  /\ stored' = With(Scan(f).id, Scan(f).attempts + 1)
  /\ Stop(f)
  /\ UNCHANGED abandoned

FlushFailed(f) ==
  /\ todo[f] # <<>>
  /\ \/ Answered(f, {"refused"}) /\ Drop(f)
     \/ /\ Answered(f, {"failed"}) \/ NetworkFails(f)
        /\ IF GivesUp(f) THEN Drop(f) ELSE MarkAttempt(f)
  /\ UNCHANGED <<counter, unsaved, captured, unresolved>>

\* The tab is closed in the middle of a flush.
CloseTab(f) ==
  /\ todo[f] # <<>>
  /\ NetworkFails(f)
  /\ Stop(f)
  /\ UNCHANGED <<counter, unsaved, captured, stored, abandoned, unresolved>>

----------------------------------------------------------------------------
\* The server, which does not know whether anybody still waits: an answer nobody
\* waits for is dropped, and a process that dies fails the request it had.
Server ==
  /\ \/ \E h \in Handlers : Work(h)
     \/ \E h \in Handlers : Leave(h) /\ \A c \in Clients : waits[c] # h
  /\ UNCHANGED clientVars

Flush(f) == FlushStart(f) \/ FlushSend(f) \/ FlushSent(f) \/ FlushFailed(f)

ScanNext ==
  \/ \E s \in Scans : CheckIn(s) \/ CheckInAnswered(s) \/ CheckInOffline(s)
  \/ \E f \in Flushers : Flush(f) \/ CloseTab(f)
  \/ Server

ScanSpec == ScanInit /\ [][ScanNext]_scanVars

\* Flushes are started for ever (the device is opened, or reconnects) and run
\* unless their tab is closed, which does not happen before every outcome.
Fairness ==
  /\ \A f \in Flushers : WF_scanVars(Flush(f))
  /\ SF_scanVars(\E f \in Flushers : FlushSent(f) \/ FlushFailed(f))
ScanFairSpec == ScanSpec /\ Fairness

----------------------------------------------------------------------------
(* Properties.                                                             *)

\* Every variable keeps its type.
ScanTypeOK ==
  /\ TypeOK
  /\ counter \in [Scans -> {"new", "shown", "saved", "assumed", "error"}]
  /\ unsaved \subseteq Scans
  /\ captured \in Seq(Scans)
  /\ DOMAIN stored \subseteq Ids
  /\ \A i \in DOMAIN stored : stored[i] \in 0..MaxAttempts - 1
  /\ waits \in [Clients -> Handlers \cup {None}]
  /\ todo \in [Flushers -> Seq([id : Ids, attempts : 0..MaxAttempts - 1])]
  /\ abandoned \subseteq Ids /\ unresolved \subseteq Ids

Recorded(i) == visits[captured[i]] > 0
Settled(i) == Recorded(i) \/ i \in abandoned \cup unresolved

Kept(i) == i \in DOMAIN stored \/ Settled(i)

\* "Losing it is not an acceptable outcome": a scan that IndexedDB took is still in
\* the store, has been recorded, or is one of those the merchant is told of; only an
\* answer without a check-in makes it disappear with neither.
SavedIsKept == ScanTypeOK /\ \A i \in Ids : Kept(i)

\* A cashier who is shown the server's award has seen a visit that is on record,
\* whichever request of the scan has recorded it; one who is shown the award assumed
\* for a cached customer has seen a scan the device keeps until it is settled, unless
\* IndexedDB refused it.
ShownIsRecorded ==
  \A s \in Scans :
    /\ counter[s] = "shown" => visits[s] = 1
    /\ counter[s] = "assumed" => s \in unsaved \/ \E i \in Ids : captured[i] = s /\ Kept(i)

\* Saved visits land in the order they happened: a scan leaves the store only when
\* every one saved before it has been recorded, dropped or answered without a check-in.
LeavesInOrder ==
  [][\A j \in DOMAIN stored \ DOMAIN stored' : \A i \in 1..j - 1 : Settled(i)]_scanVars

\* No scan blocks the queue: every saved scan leaves the store for good, although
\* concurrent flushes can put one back.
QueueDrains ==
  \A s \in Scans : counter[s] \in {"saved", "assumed"} ~> [](\A i \in DOMAIN stored : captured[i] # s)
=============================================================================
