---------------------------- MODULE CampaignSend ----------------------------
(***************************************************************************)
(* One campaign: the merchant's requests (app/api/v1/campaigns), the job   *)
(* that resolves the audience and fans out, and the jobs that send its     *)
(* batches (lib/jobs/handlers.ts).  The jobs run on JobLease: any of them  *)
(* can throw, die, be taken over while it is still working, and run again. *)
(***************************************************************************)
EXTENDS MessageDispatch, Sequences

CONSTANTS
  Batches,      \* the batch jobs campaign:<id>:batch:<n>
  Audiences,    \* what a segment may hold, per batch: a sequence of keys
  MaxRequests,  \* requests the merchant makes
  MaxFaults     \* workers that die, throw or are slow enough to be taken for dead, and
                \* statements whose failure nobody looks at

\* The job campaign:<id>:dispatch.
ASSUME CampaignAssumption ==
  /\ "dispatch" \in Jobs /\ Batches \subseteq Jobs \ {"dispatch"}
  /\ Audiences \subseteq [Batches -> Seq(Keys)]

VARIABLES
  campaign,   \* campaigns.status, "gone" once the row is deleted
  payload,    \* per batch job, the messages it was enqueued with
  task,       \* per worker, where it is in its handler and what it has still to send
  desk,       \* per request of the merchant, how far it is
  requests,   \* requests made so far
  handled,    \* history: messages dispatchMessage has been called for
  stopped,    \* history: jobs that found the campaign cancelled, completed or gone, or nobody in it
  unread,     \* history: jobs that ended because their read of the campaign failed
  guessed,    \* history: batches that were outstanding when a count of them failed
  late,       \* history: batches (re)queued after a worker had counted none outstanding
  lost,       \* history: an enqueue failed, or the process died before it
  faults      \* faults so far

jobVars == <<lease, payload>>
endVars == <<stopped, unread, guessed, late>>
runVars == <<task, handled, endVars>>
deskVars == <<desk, requests>>
vars == <<msgVars, jobVars, runVars, deskVars, campaign, lost, faults>>

Requested == 1..MaxRequests
Off == [at |-> "off", job |-> "none", todo |-> <<>>]
NoRequest == [op |-> "none", at |-> "idle"]

Init ==
  /\ DispatchInit /\ LeaseInit
  /\ campaign = "draft"
  /\ payload = [b \in Batches |-> <<>>]
  /\ task = [w \in Workers |-> Off]
  /\ desk = [n \in Requested |-> NoRequest] /\ requests = 0
  /\ handled = {} /\ stopped = {} /\ unread = {} /\ guessed = {} /\ late = {}
  /\ lost = FALSE /\ faults = 0

\* A statement fails, and its error is not looked at.
Fails == faults < MaxFaults /\ faults' = faults + 1

----------------------------------------------------------------------------
(* The merchant, whose requests can overlap, and the daily cron.           *)

Requests == {"send", "schedule", "unschedule", "cancel", "erase"}

\* What is possible with the status the request reads: a campaign that is being sent,
\* or was, is not edited or sent again, and is cancelled where others are deleted.
Allowed(op) == op = "cancel" <=> campaign \in {"sending", "completed"}

DeskRead(op) ==
  /\ requests < MaxRequests
  /\ campaign # "gone" /\ Allowed(op)
  /\ requests' = requests + 1
  /\ desk' = [desk EXCEPT ![requests + 1] = [op |-> op, at |-> "write"]]
  /\ UNCHANGED <<msgVars, jobVars, runVars, campaign, lost, faults>>

\* The status it leaves, whatever the campaign has become by then.
StatusOf(op) ==
  CASE op = "send" -> "sending"
    [] op = "schedule" -> "scheduled"
    [] op = "unschedule" -> "draft"
    [] op = "cancel" -> "cancelled"
    [] op = "erase" -> "gone"

\* Only the edit (unschedule) looks at the error of its update.
DeskWrite(n) ==
  /\ desk[n].at = "write"
  /\ \/ campaign' = (IF campaign = "gone" THEN "gone" ELSE StatusOf(desk[n].op)) /\ UNCHANGED faults
     \/ Fails /\ UNCHANGED campaign
  /\ desk' = [desk EXCEPT ![n] = IF @.op \in {"send", "schedule"} THEN [@ EXCEPT !.at = "enqueue"]
                                                                  ELSE NoRequest]
  /\ UNCHANGED <<msgVars, jobVars, runVars, requests, lost>>

EnqueueDispatch == Change("dispatch", Enqueued(lease["dispatch"]))

\* A failing enqueue is only logged.
DeskEnqueue(n) ==
  /\ desk[n].at = "enqueue" /\ desk' = [desk EXCEPT ![n] = NoRequest]
  /\ \/ EnqueueDispatch /\ UNCHANGED lost
     \/ lost' = TRUE /\ UNCHANGED lease
  /\ UNCHANGED <<msgVars, payload, runVars, requests, campaign, faults>>

\* The daily cron enqueues the campaigns that are due.
Cron ==
  /\ campaign = "scheduled" /\ lease["dispatch"].status = "absent"
  /\ EnqueueDispatch
  /\ UNCHANGED <<msgVars, payload, runVars, deskVars, campaign, lost, faults>>

----------------------------------------------------------------------------
(* campaign.dispatch.                                                      *)

Start(w, j) ==
  /\ task[w] = Off /\ Claim(w, j)
  /\ task' = [task EXCEPT ![w] = [at |-> "start", job |-> j, todo |-> <<>>]]
  /\ UNCHANGED <<msgVars, payload, handled, endVars, deskVars, campaign, lost, faults>>

In(w, place) == task[w].at = place
Go(w, place) == task' = [task EXCEPT ![w].at = place]
Dispatching(w) == task[w].job = "dispatch"

\* Mutant: a campaign that is already marked as sending is not gone on with.
NotYetSending == campaign \in {"scheduled", "draft"}
MaySend == campaign \in {"scheduled", "sending", "draft"}

\* A read that fails is taken for a campaign that is missing.
FanRead(w) ==
  /\ Dispatching(w) /\ In(w, "start")
  /\ \/ MaySend /\ Go(w, "mark") /\ UNCHANGED <<stopped, unread, faults>>
     \/ /\ ~MaySend /\ Go(w, "done")
        /\ stopped' = stopped \cup {j \in {"dispatch"} : campaign # "sending"}
        /\ UNCHANGED <<unread, faults>>
     \/ /\ Fails /\ Go(w, "done")
        /\ unread' = unread \cup {"dispatch"} /\ UNCHANGED stopped
  /\ UNCHANGED <<msgVars, jobVars, handled, guessed, late, deskVars, campaign, lost>>

\* Whatever the campaign has become since it was read, it is being sent now, unless the
\* update fails; the job goes on all the same.
FanMark(w) ==
  /\ In(w, "mark") /\ Go(w, "fan")
  /\ \/ campaign' = (IF campaign = "gone" THEN "gone" ELSE "sending") /\ UNCHANGED faults
     \/ Fails /\ UNCHANGED campaign
  /\ UNCHANGED <<msgVars, jobVars, handled, endVars, deskVars, lost>>

\* The batches a step queues, or gives back, although a count has found none outstanding.
Counted == campaign = "completed" \/ \E w \in Workers : In(w, "complete")
TooLate == {b \in Batches : Counted /\ lease[b].status \in {"absent", "dead"}
                                    /\ lease'[b].status = "pending"}

\* enqueueMany: one statement; the batches that an earlier attempt enqueued keep
\* their payload.  Its failure is only logged.
Fan(w) ==
  /\ In(w, "fan") /\ Go(w, "done")
  /\ \/ \E a \in Audiences :
          LET wanted == {b \in Batches : a[b] # <<>>}
              fresh == {b \in wanted : lease[b].status = "absent"}
          IN  /\ lease' = [j \in Jobs |-> IF j \in wanted THEN Enqueued(lease[j]) ELSE lease[j]]
              /\ payload' = [b \in Batches |-> IF b \in fresh THEN a[b] ELSE payload[b]]
              /\ stopped' = stopped \cup {j \in {"dispatch"} : wanted = {}}
              /\ UNCHANGED lost
     \/ lost' = TRUE /\ UNCHANGED <<jobVars, stopped>>
  /\ late' = late \cup TooLate
  /\ UNCHANGED <<msgVars, handled, unread, guessed, deskVars, campaign, faults>>

----------------------------------------------------------------------------
(* campaign.send_batch.                                                    *)

BatchRead(w) ==
  LET j == task[w].job
  IN  /\ ~Dispatching(w) /\ In(w, "start")
      /\ \/ /\ campaign \in {"cancelled", "gone"} /\ Go(w, "done")
            /\ stopped' = stopped \cup {j} /\ UNCHANGED <<unread, faults>>
         \/ /\ campaign \notin {"cancelled", "gone"}
            /\ task' = [task EXCEPT ![w] = [at |-> "loop", job |-> j, todo |-> payload[j]]]
            /\ UNCHANGED <<stopped, unread, faults>>
         \/ /\ Fails /\ Go(w, "done")
            /\ unread' = unread \cup {j} /\ UNCHANGED stopped
      /\ UNCHANGED <<msgVars, jobVars, handled, guessed, late, deskVars, campaign, lost>>

BatchSend(w) ==
  /\ In(w, "loop") /\ task[w].todo # <<>>
  /\ Dispatch(w, Head(task[w].todo))
  /\ task' = [task EXCEPT ![w].todo = Tail(@)]
  /\ handled' = handled \cup {Head(task[w].todo)}
  /\ UNCHANGED <<jobVars, endVars, deskVars, campaign, lost, faults>>

BatchDispatching(w) ==
  DispatchStep(w) /\ UNCHANGED <<jobVars, runVars, deskVars, campaign, lost, faults>>

\* Mutant: batches that a worker has in hand are not counted.
OnlyPending == {b \in Batches : lease[b].status = "pending"}
Outstanding == {b \in Batches : lease[b].status \in {"pending", "running"}}

\* finalizeCampaignIfComplete.  The batch that asks is itself still running, unless it
\* was taken for dead and has been settled by another worker.  A count that fails is
\* taken for 0.
FinalCount(w) ==
  /\ In(w, "loop") /\ task[w].todo = <<>> /\ At(w, "idle")
  /\ \/ Go(w, IF Outstanding = {} THEN "complete" ELSE "done") /\ UNCHANGED <<guessed, faults>>
     \/ Fails /\ Go(w, "complete") /\ guessed' = guessed \cup Outstanding
  /\ UNCHANGED <<msgVars, jobVars, handled, stopped, unread, late, deskVars, campaign, lost>>

FinalWrite(w) ==
  /\ In(w, "complete") /\ Go(w, "done")
  /\ \/ campaign' = (IF campaign = "sending" THEN "completed" ELSE campaign) /\ UNCHANGED faults
     \/ Fails /\ UNCHANGED campaign
  /\ UNCHANGED <<msgVars, jobVars, handled, endVars, deskVars, lost>>

End(w) ==
  /\ In(w, "done") /\ Finish(w, task[w].job)
  /\ task' = [task EXCEPT ![w] = Off]
  /\ UNCHANGED <<msgVars, payload, handled, endVars, deskVars, campaign, lost, faults>>

\* A statement throws, or the process dies.
Abort(w) ==
  /\ task[w] # Off /\ faults < MaxFaults
  /\ GiveUp(w, task[w].job) /\ Die(w)
  /\ task' = [task EXCEPT ![w] = Off] /\ faults' = faults + 1
  /\ late' = late \cup TooLate
  /\ UNCHANGED <<payload, handled, stopped, unread, guessed, deskVars, campaign, lost>>

\* A job that nobody works on any more is requeued, and one whose worker is slow.
Overdue(j) ==
  /\ Expire(j)
  /\ \/ (\A w \in Workers : ~Running(w, j)) /\ UNCHANGED faults
     \/ (\E w \in Workers : Running(w, j)) /\ faults < MaxFaults /\ faults' = faults + 1
  /\ UNCHANGED <<msgVars, payload, runVars, deskVars, campaign, lost>>

----------------------------------------------------------------------------

CampaignJobs == Batches \cup {"dispatch"}

Merchant ==
  \/ \E op \in Requests : DeskRead(op)
  \/ \E n \in Requested : DeskWrite(n) \/ DeskEnqueue(n)
Work(w) ==
  \/ FanRead(w) \/ FanMark(w) \/ Fan(w)
  \/ BatchRead(w) \/ BatchSend(w) \/ BatchDispatching(w) \/ FinalCount(w) \/ FinalWrite(w)
  \/ End(w)

Next ==
  \/ Merchant \/ Cron
  \/ \E w \in Workers : Work(w) \/ Abort(w) \/ \E j \in CampaignJobs : Start(w, j)
  \/ \E j \in CampaignJobs : Overdue(j)

Spec == Init /\ [][Next]_vars

----------------------------------------------------------------------------
(* Properties.                                                             *)

\* A completed campaign is over: whatever was interrupted, taken over or fanned out
\* again, every message of every batch has had its turn, or its batch was given up, was
\* stopped by a cancellation or by a read that failed, was outstanding when the count
\* failed, or was queued by a worker taken for dead after the count.
CompletedIsOver ==
  campaign = "completed" =>
    \A b \in Batches \ (late \cup guessed) :
      \/ lease[b].status = "dead" \/ b \in stopped \cup unread
      \/ \A n \in DOMAIN payload[b] : payload[b][n] \in handled

FannedOut == \E b \in Batches : lease[b].status # "absent"
AtRest == /\ \A n \in Requested : desk[n] = NoRequest
          /\ \A j \in CampaignJobs : lease[j].status \in {"absent", "succeeded", "dead"}
          /\ \A w \in Workers : task[w] = Off

\* Nobody waits for what will not happen: once everything is at rest, a campaign that
\* is being sent has been fanned out although its dispatch may have died half way,
\* unless an enqueue was lost, or its job was given up, could not read it, had found it
\* cancelled before, or had found nobody to send it to (and then nothing ever completes it).
FanOutResumes ==
  AtRest /\ campaign = "sending" =>
    \/ FannedOut \/ lost \/ lease["dispatch"].status = "dead"
    \/ "dispatch" \in stopped \cup unread
=============================================================================
