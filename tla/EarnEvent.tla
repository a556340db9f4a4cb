----------------------------- MODULE EarnEvent -----------------------------
(***************************************************************************)
(* recordEarn of lib/loyalty/engine.ts and passimo_record_earn, which      *)
(* db/migrations/000019_scan_idempotency.sql redefines: a request decides  *)
(* what an event is worth from what it reads, and one transaction then     *)
(* records the event and credits the customer.                             *)
(*                                                                         *)
(* An event is its own idempotency key.  All events are of one customer    *)
(* and of one day: that is where they can disturb each other.              *)
(***************************************************************************)
EXTENDS Integers, Sequences, UnitSums

CONSTANTS
  Events,      \* visits and purchases, each with an idempotency key of its own
  Programs,
  Awards,      \* per event, the lists evaluateProgram can come to: <<[program, amount], ...>>;
               \* which one depends on the rules, tiers and memberships it could read
  Capped,      \* the programs with a max_earn_per_day
  Cap,         \* their max_earn_per_day
  Handlers     \* requests the server can work on at once

ASSUME AwardsAssumption ==
  /\ IsFiniteSet(Events)
  /\ Awards \in [Events -> SUBSET Seq([program : Programs, amount : Nat \ {0}])]
  /\ Capped \subseteq Programs
  /\ Cap \in [Capped -> Nat]

VARIABLES
  visits,      \* per event, its rows in activity_events
  credited,    \* per event and program, the credit under the key event:program; 0 if none
  followed,    \* per event, how often its follow-ups ran: rule usage, referrals, jobs
  handler,     \* per handler, its phase, the event and what it has decided
  stale        \* history: programs credited by a cap read too early, or not at all

vars == <<visits, credited, followed, handler, stale>>

Idle == [phase |-> "idle"]
Phases == {"evaluate", "record", "follow", "ok", "unknown", "refused", "failed"}

Min2(x, y) == IF x <= y THEN x ELSE y
Max0(x) == IF x >= 0 THEN x ELSE 0

Init ==
  /\ visits = [e \in Events |-> 0]
  /\ credited = [e \in Events |-> [p \in Programs |-> 0]]
  /\ followed = [e \in Events |-> 0]
  /\ handler = [h \in Handlers |-> Idle]
  /\ stale = {}

\* A request arrives.
Receive(h, e) ==
  /\ handler[h] = Idle
  /\ handler' = [handler EXCEPT ![h] = [phase |-> "evaluate", event |-> e]]
  /\ UNCHANGED <<visits, credited, followed, stale>>

----------------------------------------------------------------------------
\* earnedTodayForProgram
Earned(p) == Sum(Events, [e \in Events |-> credited[e][p]])

AwardsBefore(list, n) == {m \in 1..n - 1 : list[m].program = list[n].program}
Worth(list) == [n \in DOMAIN list |-> list[n].amount]

\* Mutant: what was earned earlier in the day is forgotten.
CapPerEvent(list, seen, n) ==
  Cap[list[n].program] - Sum(AwardsBefore(list, n), Worth(list))
Headroom(list, seen, n) ==
  Cap[list[n].program] - seen[list[n].program] - Sum(AwardsBefore(list, n), Worth(list))

\* applyDailyCap
Limited(list, seen) ==
  [n \in DOMAIN list |->
     IF list[n].program \in Capped
     THEN [list[n] EXCEPT !.amount = Min2(@, Max0(Headroom(list, seen, n)))]
     ELSE list[n]]

\* recordEarn up to the transaction: what it reads about the customer and the day,
\* taken as one step because nothing it then does depends on the order of the reads.
\* A read of the day's earnings that fails is an empty one, and counts as 0.  Whether
\* the customer is blocked is up to the merchant: see Refuse.
Evaluate(h) ==
  /\ handler[h].phase = "evaluate"
  /\ \E list \in Awards[handler[h].event], unread \in SUBSET Capped :
       LET seen == [p \in Capped |-> IF p \in unread THEN 0 ELSE Earned(p)]
       IN  handler' = [handler EXCEPT ![h] =
             [phase |-> "record", event |-> @.event, awards |-> Limited(list, seen),
              seen |-> seen]]
  /\ UNCHANGED <<visits, credited, followed, stale>>

GoTo(h, phase) == handler' = [handler EXCEPT ![h] = [phase |-> phase, event |-> @.event]]

\* A 4xx: the customer is blocked or erased just now, or a read of the customer or of
\* the programs fails and looks like none ("Customer", "no active loyalty program").
Refuse(h) ==
  /\ handler[h].phase = "evaluate"
  /\ GoTo(h, "refused")
  /\ UNCHANGED <<visits, credited, followed, stale>>

\* performScan answers 200 without a check-in: resolveScan has made a code, a search
\* or a card nobody can be found for of what was scanned, or its read has failed.
Unresolved(h) ==
  /\ handler[h].phase = "evaluate"
  /\ GoTo(h, "unknown")
  /\ UNCHANGED <<visits, credited, followed, stale>>

\* Mutant: before migration 000019 only the credits had a key.
EventWithoutKey(e) == e \in Events
EventNew(e) == visits[e] = 0

\* The loop over the awards.  The key of a credit is event:program, so the first
\* award of a program is credited and credit_account takes the others for replays.
FirstAward(awards, p) ==
  LET paid == {n \in DOMAIN awards : awards[n].program = p /\ awards[n].amount > 0}
  IN  IF paid = {} THEN 0
      ELSE awards[CHOOSE n \in paid : \A m \in paid : n <= m].amount

CreditsOf(e, awards) ==
  [p \in Programs |-> IF credited[e][p] > 0 THEN credited[e][p] ELSE FirstAward(awards, p)]

\* passimo_record_earn.
Record(h) ==
  LET e == handler[h].event
  IN  /\ handler[h].phase = "record"
      /\ EventNew(e)
      /\ visits' = [visits EXCEPT ![e] = @ + 1]
      /\ credited' = [credited EXCEPT ![e] = CreditsOf(e, handler[h].awards)]
      /\ stale' = stale \cup {p \in Capped : /\ Earned(p) # handler[h].seen[p]
                                           /\ credited'[e][p] > 0}
      /\ GoTo(h, "follow")
      /\ UNCHANGED followed

\* Mutant: the follow-ups of a duplicate run as well.
ReplayFollowed(h) ==
  /\ handler[h].phase = "record"
  /\ ~EventNew(handler[h].event)
  /\ GoTo(h, "follow")
  /\ UNCHANGED <<visits, credited, followed, stale>>

\* The key is found, or the insert meets the unique index: "duplicate".
Replay(h) ==
  /\ handler[h].phase = "record"
  /\ ~EventNew(handler[h].event)
  /\ GoTo(h, "ok")
  /\ UNCHANGED <<visits, credited, followed, stale>>

\* incrementRuleUsage, scheduleAfterEarnEffects and the caller's
\* passimo_qualify_referrals, none of which can fail the request.
FollowUp(h) ==
  /\ handler[h].phase = "follow"
  /\ followed' = [followed EXCEPT ![handler[h].event] = @ + 1]
  /\ GoTo(h, "ok")
  /\ UNCHANGED <<visits, credited, stale>>

\* A statement fails; answered with a 5xx.
Fail(h) ==
  /\ handler[h].phase \in {"evaluate", "record"}
  /\ GoTo(h, "failed")
  /\ UNCHANGED <<visits, credited, followed, stale>>

\* The answer leaves, or the process dies before it can.
Leave(h) ==
  /\ handler[h] # Idle
  /\ handler' = [handler EXCEPT ![h] = Idle]
  /\ UNCHANGED <<visits, credited, followed, stale>>

Work(h) ==
  Evaluate(h) \/ Refuse(h) \/ Unresolved(h) \/ Record(h) \/ Replay(h) \/ FollowUp(h) \/ Fail(h)

Next == \E h \in Handlers : (\E e \in Events : Receive(h, e)) \/ Work(h) \/ Leave(h)

Spec == Init /\ [][Next]_vars

----------------------------------------------------------------------------
(* Properties.                                                             *)

\* Every variable keeps its type.
TypeOK ==
  /\ visits \in [Events -> 0..1]
  /\ credited \in [Events -> [Programs -> Nat]]
  /\ followed \in [Events -> 0..1]
  /\ \A h \in Handlers : handler[h] # Idle =>
       handler[h].phase \in Phases /\ handler[h].event \in Events
  /\ stale \subseteq Capped

\* A replayed scan is one visit and one set of credits: both are written in one
\* step, and never again (the comment of migration 000019).
RecordedOnce ==
  [][\A e \in Events : <<visits[e], credited[e]>>' # <<visits[e], credited[e]>> =>
       visits[e] = 0 /\ visits'[e] = 1]_vars

\* However often an event is sent and whichever requests die, its follow-ups run
\* at most once and only when it is on record: a rule's usage_count is not burned
\* by replays, nor a referral paid for nothing.
FollowedOnce == \A e \in Events : followed[e] <= visits[e]

\* The daily cap holds, across events and across the awards of one event, unless
\* two requests had read what was earned before either was recorded, or a request
\* could not read it at all.
WithinCap == TypeOK /\ \A p \in Capped \ stale : Earned(p) <= Cap[p]
=============================================================================
