----------------------------- MODULE Memberships -----------------------------
(***************************************************************************)
(* One membership plan: enroll_membership and renew_memberships of 000013, *)
(* cancelMembership and refreshMemberCount of lib/commerce/memberships.ts. *)
(*                                                                         *)
(* The renewal sweep is one transaction over a cursor: it writes every row *)
(* from what the cursor had read, and all of it is seen at its commit.  A  *)
(* change to a row that the sweep has locked waits for that commit, so the *)
(* writes count as made at the commit.                                     *)
(***************************************************************************)
EXTENDS Integers, FiniteSets

CONSTANTS
  Members,  \* customers, each with one row of customer_memberships
  Seats,    \* membership_plans.max_members
  Sweeps,   \* runs of renew_memberships that can overlap
  Staff,    \* requests of cancelMembership that can overlap
  Period,   \* ticks in a period
  Horizon,  \* bound: the clock stops here
  MaxBilled \* bound: nobody enrols again after this many periods

ASSUME PlanAssumption ==
  /\ IsFiniteSet(Members) /\ Seats \in Nat
  /\ Period \in Nat \ {0} /\ Horizon \in Nat /\ MaxBilled \in Nat

VARIABLES
  row,         \* per member: status, cancel_at_period_end, current_period_end, periods_billed
  granted,     \* per member, the periods whose balance is in the ledger, by key
  memberCount, \* membership_plans.member_count
  now,
  sweep,       \* per sweep, whether it is open, its now(), and the rows of its cursor
  desk,        \* per member of staff, where a cancellation is and the count it has read
  stale,       \* history: members written from a row that had changed
  miscounted   \* history: a count that was too low has been written

planVars == <<row, granted, memberCount, now, sweep, desk, stale, miscounted>>

NoRow == [status |-> "none", atEnd |-> FALSE, ends |-> 0, billed |-> 0]
NoSweep == [open |-> FALSE, at |-> 0, rows |-> [m \in {} |-> NoRow]]
NoCancel == [at |-> "idle", count |-> 0]

Active == {m \in Members : row[m].status = "active"}

PlanInit ==
  /\ row = [m \in Members |-> NoRow]
  /\ granted = [m \in Members |-> {}]
  /\ memberCount = 0 /\ now = 0
  /\ sweep = [s \in Sweeps |-> NoSweep]
  /\ desk = [d \in Staff |-> NoCancel]
  /\ stale = {} /\ miscounted = FALSE

Tick == now < Horizon /\ now' = now + 1
        /\ UNCHANGED <<row, granted, memberCount, sweep, desk, stale, miscounted>>

----------------------------------------------------------------------------
(* enroll_membership: one transaction under the plan's lock.               *)

\* A grant under the key membership:<id>:<period>: a key that is taken grants nothing.
Grant(m, period) == granted' = [granted EXCEPT ![m] = @ \cup {period}]

\* Mutant: the count is not refreshed for a member who comes back.
RecountNew(m) ==
  memberCount' = IF row[m].status = "none" THEN Cardinality(Active \cup {m}) ELSE memberCount
Recount(m) == memberCount' = Cardinality(Active \cup {m})

\* A new member, or one who comes back; to an active one, or to a full plan, nothing happens.
Enrol(m) ==
  /\ memberCount < Seats /\ row[m].status # "active" /\ row[m].billed < MaxBilled
  /\ row' = [row EXCEPT ![m] = [status |-> "active", atEnd |-> FALSE, ends |-> now + Period,
                                billed |-> @.billed + 1]]
  /\ Recount(m)
  /\ Grant(m, row[m].billed + 1)
  /\ UNCHANGED <<now, sweep, desk, stale, miscounted>>

----------------------------------------------------------------------------
(* renew_memberships.                                                      *)

Due(m) == row[m].status = "active" /\ row[m].ends <= now

SweepOpen(s) ==
  /\ ~sweep[s].open /\ \E m \in Members : Due(m)
  /\ sweep' = [sweep EXCEPT ![s] = [open |-> TRUE, at |-> now,
                                    rows |-> [m \in {n \in Members : Due(n)} |-> row[m]]]]
  /\ UNCHANGED <<row, granted, memberCount, now, desk, stale, miscounted>>

\* A period that ended while nobody renewed is not billed: the end catches up.
CatchUp(ends, at) == ends + Period * (1 + (at - ends) \div Period)

\* Mutant: somebody who cancelled for the end of the period is renewed once more.
RenewAll(r) == TRUE
Renews(r) == ~r.atEnd

\* What the sweep makes of a row: the columns it does not set keep their value.
Swept(s, m) ==
  LET r == sweep[s].rows[m]
  IN  IF Renews(r)
      THEN [row[m] EXCEPT !.ends = CatchUp(r.ends, sweep[s].at), !.billed = r.billed + 1]
      ELSE [row[m] EXCEPT !.status = "expired"]

\* Mutant: the key of a renewal carries the period that has ended.
OldPeriod(r) == r.billed
NewPeriod(r) == r.billed + 1

\* The row is not what the cursor saw, nor what another sweep has just made of it.
Changed(s, m) ==
  LET r == sweep[s].rows[m]
  IN  row[m] # r /\ ~(Renews(r) /\ row[m].status = "active" /\ ~row[m].atEnd
                      /\ row[m].billed = r.billed + 1)

SweepCommit(s) ==
  LET seen == DOMAIN sweep[s].rows
  IN  /\ sweep[s].open
      /\ row' = [m \in Members |-> IF m \in seen THEN Swept(s, m) ELSE row[m]]
      /\ granted' = [m \in Members |->
                       IF m \in seen /\ Renews(sweep[s].rows[m])
                       THEN granted[m] \cup {NewPeriod(sweep[s].rows[m])} ELSE granted[m]]
      /\ stale' = stale \cup {m \in seen : Changed(s, m)}
      /\ sweep' = [sweep EXCEPT ![s] = NoSweep]
      /\ UNCHANGED <<memberCount, now, desk, miscounted>>

\* A crash, a timeout or a deadlock: nothing of it remains.
SweepAbort(s) ==
  /\ sweep[s].open
  /\ sweep' = [sweep EXCEPT ![s] = NoSweep]
  /\ UNCHANGED <<row, granted, memberCount, now, desk, stale, miscounted>>

----------------------------------------------------------------------------
(* cancelMembership, and the refresh of the count in two statements.       *)

Cancel(d, m, immediately) ==
  /\ desk[d].at = "idle" /\ row[m].status # "none"
  /\ row' = [row EXCEPT ![m] = IF immediately
                               THEN [@ EXCEPT !.status = "cancelled", !.atEnd = FALSE]
                               ELSE [@ EXCEPT !.atEnd = TRUE]]
  /\ desk' = [desk EXCEPT ![d].at = "count"]
  /\ UNCHANGED <<granted, memberCount, now, sweep, stale, miscounted>>

\* A count that fails is taken for 0, since its error is not looked at.
CountRead(d) ==
  /\ desk[d].at = "count"
  /\ \E count \in {Cardinality(Active), 0} :
       desk' = [desk EXCEPT ![d] = [at |-> "write", count |-> count]]
  /\ UNCHANGED <<row, granted, memberCount, now, sweep, stale, miscounted>>

CountWrite(d) ==
  /\ desk[d].at = "write"
  /\ memberCount' = desk[d].count
  /\ miscounted' = (miscounted \/ desk[d].count < Cardinality(Active))
  /\ desk' = [desk EXCEPT ![d] = NoCancel]
  /\ UNCHANGED <<row, granted, now, sweep, stale>>

\* The request dies before the count is written, or the write fails and nobody looks.
CancelStop(d) ==
  /\ desk[d].at # "idle"
  /\ desk' = [desk EXCEPT ![d] = NoCancel]
  /\ UNCHANGED <<row, granted, memberCount, now, sweep, stale, miscounted>>

----------------------------------------------------------------------------

PlanNext ==
  \/ Tick
  \/ \E m \in Members : Enrol(m)
  \/ \E s \in Sweeps : SweepOpen(s) \/ SweepCommit(s) \/ SweepAbort(s)
  \/ \E d \in Staff : CountRead(d) \/ CountWrite(d) \/ CancelStop(d)
  \/ \E d \in Staff, m \in Members, immediately \in BOOLEAN :
       Cancel(d, m, immediately)

PlanSpec == PlanInit /\ [][PlanNext]_planVars

----------------------------------------------------------------------------
(* Properties.                                                             *)

Rows == [status : {"none", "active", "cancelled", "expired"}, atEnd : BOOLEAN,
         ends : Nat, billed : Nat]

PlanTypeOK ==
  /\ row \in [Members -> Rows]
  /\ granted \in [Members -> SUBSET Nat]
  /\ memberCount \in Nat /\ now \in Nat
  /\ \A s \in Sweeps : /\ sweep[s].open \in BOOLEAN /\ sweep[s].at \in Nat
                       /\ DOMAIN sweep[s].rows \subseteq Members
                       /\ sweep[s].rows \in [DOMAIN sweep[s].rows -> Rows]
  /\ desk \in [Staff -> [at : {"idle", "count", "write"}, count : Nat]]
  /\ stale \subseteq Members /\ miscounted \in BOOLEAN

\* Every period that was billed has been granted and no other, however often sweeps run,
\* overlap or are run again, and whoever leaves and comes back - except for a member whom
\* a sweep wrote from a row that had changed under it.
PeriodsGranted ==
  /\ PlanTypeOK
  /\ \A m \in Members \ stale : granted[m] = 1..row[m].billed

\* The cached count covers the active members, so the plan is never overbooked, unless
\* the refresh after a cancellation wrote a count from before an enrolment or, when its
\* own count had failed, 0.
SeatsCovered ==
  ~miscounted => Cardinality(Active) <= memberCount /\ memberCount <= Seats

\* Nobody is billed after leaving: not when the membership is cancelled or expired, and
\* not past the end of the period for which it was cancelled, unless the sweep had read
\* the row before.
LeaversLeftAlone ==
  [][\A m \in Members \ stale' :
       row[m].status # "none" /\ (row[m].status # "active" \/ row[m].atEnd) =>
         row'[m].billed = row[m].billed \/ (row[m].status # "active" /\ row'[m].status = "active")]_planVars
=============================================================================
