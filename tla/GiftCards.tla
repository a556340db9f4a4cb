------------------------------ MODULE GiftCards ------------------------------
(***************************************************************************)
(* Gift cards sold online: Stripe's event, the job that issues the card    *)
(* (fulfilGiftCard and issueGiftCard), the job that mails it and the daily *)
(* sweep of scheduled cards (lib/jobs/commerce-handlers.ts).  What happens *)
(* to the money is GiftCardBalance; the jobs run on JobLease.              *)
(***************************************************************************)
EXTENDS GiftCardBalance, JobLease

CONSTANTS
  Sweep,      \* a run of deliverScheduledGiftCards
  Scheduled,  \* whether the buyer chose a day for the delivery
  MaxFaults,  \* workers that die or are slow enough to be taken for dead, and reads
              \* whose failure nobody looks at
  MaxMails    \* bound: mails to a recipient are counted up to here

ASSUME JobsAssumption ==
  /\ Jobs = Sales \cup Cards /\ Sales \cap Cards = {} /\ IsFiniteSet(Sales)
  /\ Sweep \notin Workers /\ MaxMails \in Nat \ {0}

VARIABLES
  payment,    \* per sale: "open", "paid" at Stripe, or "answered" with 200
  task,       \* per worker, and for the sweep, where it is in its handler
  deliveredAt,\* cards with a delivered_at
  mails,      \* history: how often a card reached its recipient
  shaky,      \* history: cards whose delivery was not recorded, or overlapped
  unread,     \* history: cards whose delivery ended because they could not be read
  lost,       \* history: sales and cards whose job was not enqueued
  faults      \* faults so far

mailVars == <<deliveredAt, mails, shaky, unread>>
vars == <<cardVars, lease, payment, task, mailVars, lost, faults>>

Off == [at |-> "off", job |-> "none", card |-> "none"]

Init ==
  /\ CardInit /\ LeaseInit
  /\ payment = [s \in Sales |-> "open"]
  /\ task = [w \in Workers \cup {Sweep} |-> Off]
  /\ deliveredAt = {} /\ mails = [c \in Cards |-> 0]
  /\ shaky = {} /\ unread = {} /\ lost = {} /\ faults = 0

----------------------------------------------------------------------------
(* Stripe, and the branch of the webhook for gift cards.                   *)

Pay(s) ==
  /\ payment[s] = "open"
  /\ payment' = [payment EXCEPT ![s] = "paid"]
  /\ UNCHANGED <<cardVars, lease, task, mailVars, lost, faults>>

\* The event is claimed, so that its copies do not get here; the enqueue has no key and
\* its failure is only logged.
Webhook(s) ==
  /\ payment[s] = "paid"
  /\ payment' = [payment EXCEPT ![s] = "answered"]
  /\ \/ Change(s, Enqueued(lease[s])) /\ UNCHANGED lost
     \/ lost' = lost \cup {s} /\ UNCHANGED lease
  /\ UNCHANGED <<cardVars, task, mailVars, faults>>

----------------------------------------------------------------------------
(* giftcard.fulfil.                                                        *)

In(w, place) == task[w].at = place
Go(w, place) == task' = [task EXCEPT ![w].at = place]

Start(w, j) ==
  /\ task[w] = Off /\ Claim(w, j)
  /\ task' = [task EXCEPT ![w] = IF j \in Sales
                                 THEN [at |-> "lookup", job |-> j, card |-> "none"]
                                 ELSE [at |-> "read", job |-> j, card |-> j]]
  /\ UNCHANGED <<cardVars, payment, mailVars, lost, faults>>

\* A sale that is found is a duplicate, for which nothing more is done.
FulfilLookup(w) ==
  /\ In(w, "lookup")
  /\ Go(w, IF Sold(task[w].job) THEN "done" ELSE "issue")
  /\ UNCHANGED <<cardVars, lease, payment, mailVars, lost, faults>>

\* Mutant: the index does not cover issues, and the sale of a concurrent run is not seen.
IssueAgain(w) ==
  /\ In(w, "issue")
  /\ \E c \in Cards :
       /\ status[c] = "absent"
       /\ status' = [status EXCEPT ![c] = "active"]
       /\ remaining' = [remaining EXCEPT ![c] = Value]
       /\ sale' = [sale EXCEPT ![c] = task[w].job]
       /\ task' = [task EXCEPT ![w].at = "enqueue", ![w].card = c]
  /\ UNCHANGED <<spent, spentOn, voided, expired, till, lease, payment, mailVars, lost, faults>>
FulfilIssue(w) ==
  /\ In(w, "issue")
  /\ \E c \in Cards : /\ Issue(task[w].job, c)
                      /\ task' = [task EXCEPT ![w].at = "enqueue", ![w].card = c]
  /\ UNCHANGED <<lease, payment, mailVars, lost, faults>>

\* The unique index stops the second of two runs, which throws.
FulfilCollide(w) ==
  /\ In(w, "issue") /\ Sold(task[w].job)
  /\ Change(task[w].job, Failed(lease[task[w].job], w))
  /\ task' = [task EXCEPT ![w] = Off]
  /\ UNCHANGED <<cardVars, payment, mailVars, lost, faults>>

\* The delivery is enqueued after the commit, by the run that issued the card.
FulfilEnqueue(w) ==
  /\ In(w, "enqueue") /\ Go(w, "done")
  /\ \/ Change(task[w].card, Enqueued(lease[task[w].card])) /\ UNCHANGED lost
     \/ lost' = lost \cup {task[w].card} /\ UNCHANGED lease
  /\ UNCHANGED <<cardVars, payment, mailVars, faults>>

----------------------------------------------------------------------------
(* giftcard.deliver, also called by the sweep.                             *)

\* The sweep takes the cards that are due: it does not ask whether a job has them.
SweepStart(c) ==
  /\ Scheduled /\ task[Sweep] = Off
  /\ status[c] = "active" /\ c \notin deliveredAt
  /\ task' = [task EXCEPT ![Sweep] = [at |-> "read", job |-> "none", card |-> c]]
  /\ UNCHANGED <<cardVars, lease, payment, mailVars, lost, faults>>

\* Mutant: delivered_at is not looked at.
ActiveOnly(c) == status[c] = "active"
Deliverable(c) == c \notin deliveredAt /\ status[c] = "active"

Sending(c) == {w \in DOMAIN task : task[w].card = c /\ task[w].at \in {"send", "stamp"}}

\* Neither the read of the card nor that of the business looks at an error: one that
\* fails is taken for a row that is missing, and ends the delivery as a success.
DeliverRead(w) ==
  LET c == task[w].card
  IN  /\ In(w, "read")
      /\ \/ /\ Deliverable(c) /\ Go(w, "send")
            /\ shaky' = shaky \cup {d \in {c} : Sending(d) # {}}
            /\ UNCHANGED <<unread, faults>>
         \/ ~Deliverable(c) /\ Go(w, "done") /\ UNCHANGED <<shaky, unread, faults>>
         \/ /\ faults < MaxFaults /\ faults' = faults + 1
            /\ unread' = unread \cup {c} /\ Go(w, "done") /\ UNCHANGED shaky
      /\ UNCHANGED <<cardVars, lease, payment, deliveredAt, mails, lost>>

Mail(c, n) == mails' = [mails EXCEPT ![c] = IF @ + n > MaxMails THEN MaxMails ELSE @ + n]

DeliverSend(w) ==
  /\ In(w, "send") /\ Go(w, "stamp")
  /\ Mail(task[w].card, 1)
  /\ UNCHANGED <<cardVars, lease, payment, deliveredAt, shaky, unread, lost, faults>>

\* Mutant: a failure is not thrown.
FailQuietly(w) ==
  LET c == task[w].card
  IN  /\ In(w, "send") /\ Go(w, "done")
      /\ \E got \in {0, 1} : /\ Mail(c, got)
                             /\ shaky' = shaky \cup {d \in {c} : got = 1}
      /\ UNCHANGED <<cardVars, lease, payment, deliveredAt, unread, lost, faults>>

\* The provider reports a failure, perhaps after it has sent: the handler throws, and the
\* sweep goes on with the next card.
DeliverFail(w) ==
  LET c == task[w].card
  IN  /\ In(w, "send")
      /\ \E got \in {0, 1} : /\ Mail(c, got)
                             /\ shaky' = shaky \cup {d \in {c} : got = 1}
      /\ task' = [task EXCEPT ![w] = Off]
      /\ IF w = Sweep THEN UNCHANGED lease
         ELSE Change(task[w].job, Failed(lease[task[w].job], w))
      /\ UNCHANGED <<cardVars, payment, deliveredAt, unread, lost, faults>>

DeliverStamp(w) ==
  /\ In(w, "stamp") /\ Go(w, "done")
  /\ \/ deliveredAt' = deliveredAt \cup {task[w].card} /\ UNCHANGED shaky
     \/ shaky' = shaky \cup {task[w].card} /\ UNCHANGED deliveredAt
  /\ UNCHANGED <<cardVars, lease, payment, mails, unread, lost, faults>>

End(w) ==
  /\ In(w, "done")
  /\ IF w = Sweep THEN UNCHANGED lease ELSE Finish(w, task[w].job)
  /\ task' = [task EXCEPT ![w] = Off]
  /\ UNCHANGED <<cardVars, payment, mailVars, lost, faults>>

\* The process dies, or a statement throws.
Abort(w) ==
  LET c == task[w].card
  IN  /\ task[w] # Off /\ faults < MaxFaults /\ faults' = faults + 1
      /\ IF w = Sweep THEN UNCHANGED lease ELSE GiveUp(w, task[w].job)
      /\ task' = [task EXCEPT ![w] = Off]
      /\ shaky' = shaky \cup {d \in {c} : task[w].at = "stamp"}
      /\ lost' = lost \cup {d \in {c} : task[w].at = "enqueue"}
      /\ UNCHANGED <<cardVars, payment, deliveredAt, mails, unread>>

Overdue(j) ==
  /\ Expire(j)
  /\ \/ (\A w \in Workers : ~Running(w, j)) /\ UNCHANGED faults
     \/ (\E w \in Workers : Running(w, j)) /\ faults < MaxFaults /\ faults' = faults + 1
  /\ UNCHANGED <<cardVars, payment, task, mailVars, lost>>

----------------------------------------------------------------------------

Fulfil(w) == FulfilLookup(w) \/ FulfilIssue(w) \/ FulfilCollide(w) \/ FulfilEnqueue(w)
Deliver(w) == DeliverRead(w) \/ DeliverSend(w) \/ DeliverFail(w) \/ DeliverStamp(w)
Counter ==
  \/ \E t \in Tills : Redeem(t) \/ Refuse(t) \/ \E k \in Taps, c \in Cards : Lookup(t, k, c)
  \/ \E c \in Cards : Void(c) \/ PassExpiry(c)

Next ==
  \/ \E s \in Sales : Pay(s) \/ Webhook(s)
  \/ \E w \in Workers : Fulfil(w) \/ \E j \in Jobs : Start(w, j)
  \/ \E w \in DOMAIN task : Deliver(w) \/ End(w) \/ Abort(w)
  \/ \E c \in Cards : SweepStart(c)
  \/ \E j \in Jobs : Overdue(j)
  \/ Counter /\ UNCHANGED <<lease, payment, task, mailVars, lost, faults>>

Spec == Init /\ [][Next]_vars

----------------------------------------------------------------------------
(* Properties.                                                             *)

\* One payment makes one card, however often and by however many workers it is
\* fulfilled, and what is redeemed over all cards was paid for.
SpentIsPaid ==
  /\ \A c, d \in Cards : sale[c] = sale[d] /\ sale[c] # "none" => c = d
  /\ \A c \in Cards : sale[c] # "none" => payment[sale[c]] = "answered"
  /\ Sum(Taps, spent) <= Value * Cardinality({s \in Sales : payment[s] # "open"})

\* The recipient gets the card once, by whichever of the job and the sweep comes first,
\* unless a delivery was not recorded or two overlapped.
MailedOnce == \A c \in Cards \ shaky : mails[c] <= 1

\* What was paid for arrives: a payment whose event was answered has its card, and a
\* card whose delivery is done was mailed or could no longer be used, unless an enqueue
\* failed or a worker died before it, the job is still under way or was given up, or the
\* card or its business could not be read.
PaidArrives ==
  /\ \A s \in Sales : payment[s] = "answered" =>
       Sold(s) \/ s \in lost \/ lease[s].status \in {"pending", "running", "dead"}
  /\ \A c \in Cards \ unread : lease[c].status = "succeeded" => mails[c] > 0 \/ status[c] # "active"
  /\ \A c \in Cards : sale[c] # "none" =>
       \/ lease[c].status # "absent" \/ c \in lost
       \/ \E w \in Workers : task[w].card = c /\ task[w].at = "enqueue"
=============================================================================
