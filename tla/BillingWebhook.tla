--------------------------- MODULE BillingWebhook ---------------------------
(***************************************************************************)
(* app/api/v1/billing/webhook/route.ts: Stripe delivers every event at     *)
(* least once, in any order, until it is answered 200.  The handler claims *)
(* the event by inserting its id, applies it statement by statement, and   *)
(* answers.  A statement that throws is answered 500; a process that dies  *)
(* answers nothing.  Failed payments run the dunning sequence of           *)
(* lib/billing/dunning.ts and dunning-store.ts.                            *)
(*                                                                         *)
(* One business, one subscription, one invoice.  Stripe and its retries    *)
(* are the environment.                                                    *)
(***************************************************************************)
EXTENDS Integers, Sequences, FiniteSets

CONSTANTS
  NumEvents,   \* Stripe made the events 1..NumEvents, in this order
  Scripts,     \* what they can say: sequences of [kind, attempt, last]
  Handlers,    \* requests the server can work on at once
  Losses       \* whether a statement whose error is ignored may fail: TRUE, FALSE

Events == 1..NumEvents

\* Invoices are "failed" or "paid"; a subscription is "updated" to an active status
\* with a paid plan, to a status of not being paid ("delinquent"), or "deleted".
EventKinds == {"failed", "paid", "updated", "delinquent", "deleted"}

\* "attempt" is Stripe's attempt_count and "last" says that next_payment_attempt is
\* null; both matter to "failed" only.
ASSUME EventsAssumption ==
  /\ NumEvents \in Nat
  /\ Losses \subseteq BOOLEAN /\ Losses # {}
  /\ Scripts \subseteq [Events -> [kind : EventKinds, attempt : Nat, last : BOOLEAN]]

VARIABLES
  what,        \* Stripe's events: one of Scripts, which never changes
  claimed,     \* events with a row in subscription_events
  acked,       \* events Stripe has an answer 200 for: it sends them no more
  handler,     \* per handler, the event, the next statement and what it has read
  plan,        \* businesses.plan
  subscription_status,  \* businesses.subscription_status
  dunning,     \* the invoice's row of billing_dunning
  credited,    \* whether the business that referred this one has its credit
  told,        \* history: the stages the merchant has been written to about
  runs,        \* history: how often the handler of an event was started
  done,        \* history: events whose handler ran to its end
  disturbed,   \* history: an event overtook another, or a write was lost
  silenced     \* history: the last stage was put on record and not told to the merchant,
               \* or not before another decline read it

billingVars == <<what, claimed, acked, handler, plan, subscription_status, dunning,
                 credited, told, runs, done, disturbed, silenced>>

Stages == <<"first", "retry", "final", "lapsed">>
Rank(stage) == IF stage = "none" THEN 0 ELSE CHOOSE i \in 1..4 : Stages[i] = stage

MaxPaymentAttempts == 4

\* stageFor
StageFor(attempt, last) ==
  IF last \/ attempt >= MaxPaymentAttempts THEN "lapsed"
  ELSE IF attempt >= MaxPaymentAttempts - 1 THEN "final"
  ELSE IF attempt <= 1 THEN "first"
  ELSE "retry"

StageOf(e) == StageFor(what[e].attempt, what[e].last)

Free == [event |-> 0]
Steps == {"claim", "apply", "read", "write", "tell", "lapse", "credit", "finish"}

At(h, pc) == handler[h] # Free /\ handler[h].pc = pc
EventAt(h) == handler[h].event
KindAt(h) == what[EventAt(h)].kind

Goto(h, pc) == handler' = [handler EXCEPT ![h].pc = pc]
Stop(h) == handler' = [handler EXCEPT ![h] = Free]

BillingInit ==
  /\ what \in Scripts
  /\ claimed = {} /\ acked = {}
  /\ handler = [h \in Handlers |-> Free]
  /\ plan = "paid" /\ subscription_status = "active"
  /\ dunning = [stage |-> "none", open |-> FALSE]
  /\ credited = FALSE
  /\ told = <<>>
  /\ runs = [e \in Events |-> 0]
  /\ done = {} /\ disturbed = FALSE /\ silenced = FALSE

business == <<plan, subscription_status, dunning, credited>>

----------------------------------------------------------------------------
(* Delivery and the claim.                                                 *)

\* Stripe sends, or sends again, an event it has no 200 for.
Receive(h, e) ==
  /\ handler[h] = Free
  /\ e \notin acked
  /\ handler' = [handler EXCEPT ![h] =
                   [event |-> e, pc |-> "claim", previous |-> "none"]]
  /\ UNCHANGED <<what, claimed, acked, business, told, runs, done, disturbed, silenced>>

\* Mutant: look the id up and insert it, without the unique index.
NotYetDone(e) == e \notin done
\* unique (provider, provider_event_id)
ClaimSucceeds(e) == e \notin claimed

\* interpretClaim: "fresh".
ClaimEvent(h) ==
  LET e == EventAt(h)
  IN  /\ At(h, "claim")
      /\ ClaimSucceeds(e)
      /\ claimed' = claimed \cup {e}
      /\ runs' = [runs EXCEPT ![e] = @ + 1]
      /\ disturbed' = (disturbed \/ \E d \in Events : \/ d < e /\ d \notin done
                                                      \/ d > e /\ d \in claimed)
      /\ Goto(h, "apply")
      /\ UNCHANGED <<what, acked, business, told, done, silenced>>

\* Mutant: a duplicate is answered 500.
DuplicateRefused(h) ==
  /\ At(h, "claim")
  /\ ~ClaimSucceeds(EventAt(h))
  /\ Stop(h)
  /\ UNCHANGED <<what, claimed, acked, business, told, runs, done, disturbed, silenced>>

\* interpretClaim: "duplicate", answered 200.
Duplicate(h) ==
  /\ At(h, "claim")
  /\ ~ClaimSucceeds(EventAt(h))
  /\ acked' = acked \cup {EventAt(h)}
  /\ Stop(h)
  /\ UNCHANGED <<what, claimed, business, told, runs, done, disturbed, silenced>>

\* interpretClaim: "unavailable", the database failed; answered 500.
Unavailable(h) ==
  /\ At(h, "claim")
  /\ Stop(h)
  /\ UNCHANGED <<what, claimed, acked, business, told, runs, done, disturbed, silenced>>

----------------------------------------------------------------------------
(* handleEvent, statement by statement.                                    *)

AfterApply(kind) == CASE kind \in {"failed", "paid"} -> "read"
                      [] kind = "updated"            -> "credit"
                      [] kind \in {"delinquent", "deleted"} -> "finish"

StatusFrom(kind) == CASE kind \in {"failed", "delinquent"} -> "past_due"
                      [] kind \in {"paid", "updated"}      -> "active"
                      [] kind = "deleted"                  -> "canceled"

\* applyPlan, as each kind of event calls it first.
Apply(h) ==
  LET kind == KindAt(h)
  IN  /\ At(h, "apply")
      /\ subscription_status' = StatusFrom(kind)
      /\ plan' = CASE kind = "updated"                  -> "paid"
                   [] kind \in {"delinquent", "deleted"} -> "lapsed"
                   [] OTHER                             -> plan
      /\ Goto(h, AfterApply(kind))
      /\ UNCHANGED <<what, claimed, acked, dunning, credited, told, runs, done, disturbed,
                     silenced>>

ShouldLapse(e) == what[e].kind = "failed" /\ StageOf(e) = "lapsed"

\* The last stage is on record, and the message still to be sent.
Unsaid(h) == At(h, "tell") /\ ShouldLapse(EventAt(h))

\* The select of the dunning row.  An error is not looked at: it reads as no row.
ReadDunning(h) ==
  \E lost \in Losses :
    /\ At(h, "read")
    /\ handler' = [handler EXCEPT
         ![h].previous = IF dunning.open /\ ~lost THEN dunning.stage ELSE "none",
         ![h].pc = IF KindAt(h) = "failed" \/ (dunning.open /\ ~lost) THEN "write"
                                                                      ELSE "finish"]
    /\ disturbed' = (disturbed \/ lost)
    /\ silenced' = (silenced \/ /\ KindAt(h) = "failed" /\ handler'[h].previous = "lapsed"
                                /\ \E g \in Handlers : Unsaid(g))
    /\ UNCHANGED <<what, claimed, acked, business, told, runs, done>>

\* Mutant: the sequence is marked recovered and left open.
StillOpen(kind, e) == [stage |-> IF kind = "paid" THEN "recovered" ELSE StageOf(e),
                       open |-> TRUE]
RowAfter(kind, e) ==
  IF kind = "paid" THEN [stage |-> "recovered", open |-> FALSE]
                   ELSE [stage |-> StageOf(e), open |-> TRUE]

\* decideDunning's shouldNotify; a recovery always notifies.
ShouldNotify(h) ==
  KindAt(h) = "paid" \/ Rank(StageOf(EventAt(h))) > Rank(handler[h].previous)

AfterTell(e) == IF ShouldLapse(e) THEN "lapse" ELSE "finish"

\* Mutant: the workspace is paused first and the merchant told afterwards.
WriteThenLapse(h) == IF ShouldLapse(EventAt(h)) THEN "lapse" ELSE "tell"
AfterWrite(h) == IF ShouldNotify(h) THEN "tell" ELSE AfterTell(EventAt(h))

\* The upsert.  Its error is logged and the handler goes on.
WriteDunning(h) ==
  \E lost \in Losses :
    /\ At(h, "write")
    /\ dunning' = IF lost THEN dunning ELSE RowAfter(KindAt(h), EventAt(h))
    /\ disturbed' = (disturbed \/ lost)
    /\ Goto(h, AfterWrite(h))
    /\ UNCHANGED <<what, claimed, acked, plan, subscription_status, credited, told, runs, done,
                   silenced>>

\* deliver: the notification and the email, whose failures are logged.
Tell(h) ==
  /\ At(h, "tell")
  /\ told' = Append(told, IF KindAt(h) = "paid" THEN "recovered" ELSE StageOf(EventAt(h)))
  /\ Goto(h, AfterTell(EventAt(h)))
  /\ UNCHANGED <<what, claimed, acked, business, runs, done, disturbed, silenced>>

Lapse(h) ==
  /\ At(h, "lapse")
  /\ plan' = "lapsed" /\ subscription_status' = "unpaid"
  /\ Goto(h, "finish")
  /\ UNCHANGED <<what, claimed, acked, dunning, credited, told, runs, done, disturbed,
                 silenced>>

\* creditMerchantReferral: under the row's lock, once.  Its error is logged.
Credit(h) ==
  \E lost \in Losses :
    /\ At(h, "credit")
    /\ credited' = (credited \/ ~lost)
    /\ disturbed' = (disturbed \/ lost)
    /\ Goto(h, "finish")
    /\ UNCHANGED <<what, claimed, acked, plan, subscription_status, dunning, told, runs, done,
                   silenced>>

\* processed_at, and the answer 200.
Answer(h) ==
  /\ At(h, "finish")
  /\ done' = done \cup {EventAt(h)}
  /\ acked' = acked \cup {EventAt(h)}
  /\ Stop(h)
  /\ UNCHANGED <<what, claimed, business, told, runs, disturbed, silenced>>

\* applyPlan is the statement that throws: the error is stored, the answer is 500.
Throw(h) ==
  /\ At(h, "apply") \/ At(h, "lapse")
  /\ Stop(h)
  /\ UNCHANGED <<what, claimed, acked, business, told, runs, done, disturbed, silenced>>

\* The process dies, or the connection to Stripe does: no answer.
Crash(h) ==
  /\ handler[h] # Free
  /\ Stop(h)
  /\ silenced' = (silenced \/ Unsaid(h))
  /\ UNCHANGED <<what, claimed, acked, business, told, runs, done, disturbed>>

Work(h) ==
  \/ ClaimEvent(h) \/ Duplicate(h)
  \/ Apply(h) \/ ReadDunning(h) \/ WriteDunning(h) \/ Tell(h) \/ Lapse(h) \/ Credit(h)
  \/ Answer(h)

BillingNext ==
  \E h \in Handlers :
    \/ \E e \in Events : Receive(h, e)
    \/ Work(h)
    \/ Unavailable(h) \/ Throw(h) \/ Crash(h)

BillingSpec == BillingInit /\ [][BillingNext]_billingVars

\* Stripe does not give an event up, a request runs to an answer or dies, and the
\* database and the process are not down every single time.
Fairness ==
  /\ \A e \in Events : SF_billingVars(\E h \in Handlers : Receive(h, e))
  /\ \A h \in Handlers : WF_billingVars(Work(h))
  /\ \A e \in Events : SF_billingVars(\E h \in Handlers :
                                 EventAt(h) = e /\ (ClaimEvent(h) \/ Duplicate(h)))

FairSpec == BillingSpec /\ Fairness

----------------------------------------------------------------------------
(* Properties.                                                             *)

\* Every variable keeps its type, and the merchant is never told more often than
\* events were handled.
TypeOK ==
  /\ what \in Scripts
  /\ claimed \subseteq Events /\ acked \subseteq Events /\ done \subseteq Events
  /\ \A h \in Handlers : handler[h] = Free \/
       /\ EventAt(h) \in Events /\ handler[h].pc \in Steps
       /\ handler[h].previous \in {"none"} \cup {Stages[i] : i \in 1..4}
  /\ plan \in {"paid", "lapsed"}
  /\ subscription_status \in {"active", "past_due", "unpaid", "canceled"}
  /\ dunning.stage \in {"none", "recovered"} \cup {Stages[i] : i \in 1..4}
  /\ dunning.open \in BOOLEAN
  /\ credited \in BOOLEAN
  /\ runs \in [Events -> Nat]
  /\ disturbed \in BOOLEAN
  /\ Len(told) <= Cardinality(claimed)

\* At-least-once delivery, at-most-once effects: however often an event arrives and
\* however its copies race, its handler is started once.
HandledOnce == \A e \in Events : runs[e] <= 1

\* Stripe is told to stop only about events that are on record: a failing database
\* is never mistaken for a duplicate.
AckedIsClaimed == acked \subseteq claimed

\* The claim does both: an event is handled at most once, and never dropped unclaimed.
ClaimedOnce == TypeOK /\ HandledOnce /\ AckedIsClaimed

\* "Warn before, never after": a workspace that dunning pauses has been told so first,
\* unless the last stage was recorded and its message not sent, or not yet when another
\* decline found that stage on record.
WarnedBeforeLapsed ==
  subscription_status = "unpaid" => silenced \/ \E i \in DOMAIN told : told[i] = "lapsed"

LastOf(S, default, value(_)) ==
  IF S = {} THEN default ELSE value(CHOOSE e \in S : \A d \in S : d <= e)

StatusAfter(e) == IF ShouldLapse(e) THEN "unpaid" ELSE StatusFrom(what[e].kind)
PlanAfter(e) == IF what[e].kind = "updated" THEN "paid" ELSE "lapsed"
FailedAt(e) == what[e].kind = "failed"

\* When events are handled in Stripe's order and nothing is lost, the workspace is
\* where Stripe says it is: the status of the last event, the plan of the last
\* event that sets one, an open dunning sequence exactly after a failure, and the
\* referrer credited once a paid plan has begun.
FollowsStripe ==
  ~disturbed /\ claimed = done =>
    /\ subscription_status = LastOf(done, "active", StatusAfter)
    /\ plan = LastOf({e \in done : what[e].kind \notin {"failed", "paid"} \/ ShouldLapse(e)},
                     "paid", PlanAfter)
    /\ dunning.open = LastOf({e \in done : what[e].kind \in {"failed", "paid"}},
                             FALSE, FailedAt)
    /\ credited = \E e \in done : what[e].kind = "updated"

\* Stripe's retries end: every event is answered 200 at last.
EventuallyAcked == \A e \in Events : <>(e \in acked)
=============================================================================
