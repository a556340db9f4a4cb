---------------------------- MODULE CounterProofs ----------------------------
(***************************************************************************)
(* Theorems about what happens at the counter.                             *)
(*                                                                         *)
(* EarnEvent, for any events, programs, awards, caps and number of         *)
(* concurrent requests: an event is recorded once, its follow-ups run at   *)
(* most once, and a day's cap holds.                                       *)
(*                                                                         *)
(* CounterScan, for any scans: what the device has saved is not lost, what *)
(* it shows is on record, and scans leave it in order.                     *)
(*                                                                         *)
(* RewardRedemption, for any number of customers, rewards, tills, granters *)
(* and staff: rewards are debited, counted and handed over exactly once.   *)
(* Its invariant ties the rows of reward_redemptions to the points, the    *)
(* stock, the tills and the screens.                                       *)
(***************************************************************************)
EXTENDS CounterScan, RewardRedemption, UnitSumsProofs, SequenceTheorems

Following(h) == handler[h].phase = "follow"

\* What the proofs need of the types.
Shape ==
  /\ visits \in [Events -> 0..1]
  /\ followed \in [Events -> 0..1]
  /\ DOMAIN credited = Events
  /\ handler = [h \in Handlers |-> handler[h]]
  /\ \A h \in Handlers : handler[h] # Idle => handler[h].event \in Events

\* The one request that recorded an event is the only one that may follow it up:
\* a request in that phase has its event on record, not yet followed up, and to
\* itself.
OneFollower ==
  \A h \in Handlers : Following(h) =>
    /\ visits[handler[h].event] = 1
    /\ followed[handler[h].event] = 0
    /\ \A g \in Handlers \ {h} : Following(g) => handler[g].event # handler[h].event

IInv == Shape /\ FollowedOnce /\ OneFollower

LEMMA InitIInv == Init => IInv
BY DEF Init, IInv, Shape, FollowedOnce, OneFollower, Following, Idle

\* Steps after which a request that was not following up is not following up
\* either, and that leave the records alone.
LEMMA QuietStep ==
  ASSUME IInv, NEW h \in Handlers, NEW r,
         r = Idle \/ (r.event \in Events /\ r.phase # "follow"),
         handler' = [handler EXCEPT ![h] = r],
         UNCHANGED <<visits, credited, followed>>
  PROVE  IInv'
<1>1. Shape'
  BY DEF IInv, Shape
<1>2. FollowedOnce'
  BY DEF IInv, FollowedOnce
<1>3. \A g \in Handlers : Following(g)' => Following(g) /\ handler'[g] = handler[g]
  BY DEF IInv, Shape, Following, Idle
<1>4. OneFollower'
  BY <1>3 DEF IInv, OneFollower, Following
<1>. QED BY <1>1, <1>2, <1>4 DEF IInv

\* A request in any phase but the idle one is about an event.
LEMMA HasEvent ==
  ASSUME IInv, NEW h \in Handlers, handler[h].phase # "idle"
  PROVE  handler[h].event \in Events
BY DEF IInv, Shape, Idle

LEMMA RecordStep == ASSUME IInv, NEW h \in Handlers, Record(h) PROVE IInv'
<1>. DEFINE e == handler[h].event
<1>1. e \in Events
  BY HasEvent DEF Record
<1>2. visits[e] = 0 /\ followed[e] = 0
  BY <1>1 DEF Record, EventNew, IInv, Shape, FollowedOnce
<1>3. /\ visits' = [visits EXCEPT ![e] = 1]
      /\ followed' = followed
      /\ handler' = [handler EXCEPT ![h] = [phase |-> "follow", event |-> e]]
      /\ DOMAIN credited' = DOMAIN credited
  <2>1. visits' = [visits EXCEPT ![e] = @ + 1]
    BY DEF Record
  <2>2. visits' = [visits EXCEPT ![e] = 1]
    BY <2>1, <1>1, <1>2 DEF IInv, Shape
  <2>. QED BY <2>2, <1>1 DEF Record, GoTo, IInv, Shape
<1>4. Shape'
  BY <1>1, <1>3 DEF IInv, Shape, Idle
<1>5. FollowedOnce'
  BY <1>1, <1>2, <1>3 DEF IInv, Shape, FollowedOnce
<1>6. \A g \in Handlers \ {h} : Following(g) => handler[g].event # e
  BY <1>2 DEF IInv, OneFollower
<1>7. \A g \in Handlers \ {h} : handler'[g] = handler[g]
  BY <1>3 DEF IInv, Shape
<1>8. handler'[h] = [phase |-> "follow", event |-> e]
  BY <1>3 DEF IInv, Shape
<1>9. ASSUME NEW g \in Handlers, Following(g)'
      PROVE  /\ visits'[handler'[g].event] = 1
             /\ followed'[handler'[g].event] = 0
             /\ \A k \in Handlers \ {g} :
                  Following(k)' => handler'[k].event # handler'[g].event
  <2>1. CASE g = h
    BY <2>1, <1>1, <1>2, <1>3, <1>6, <1>7, <1>8 DEF IInv, Shape, Following
  <2>2. CASE g # h
    <3>1. Following(g) /\ handler'[g] = handler[g]
      BY <2>2, <1>7, <1>9 DEF Following
    <3>2. handler[g].event # e
      BY <3>1, <2>2, <1>6
    <3>3. visits'[handler[g].event] = visits[handler[g].event]
      BY <3>1, <3>2, <1>3, <1>1, HasEvent DEF IInv, Shape, Following
    <3>. QED BY <3>1, <3>2, <3>3, <1>3, <1>7, <1>8 DEF IInv, OneFollower, Following
  <2>. QED BY <2>1, <2>2
<1>10. OneFollower'
  BY <1>9 DEF OneFollower
<1>. QED BY <1>4, <1>5, <1>10 DEF IInv

LEMMA FollowUpStep == ASSUME IInv, NEW h \in Handlers, FollowUp(h) PROVE IInv'
<1>. DEFINE e == handler[h].event
<1>1. e \in Events
  BY HasEvent DEF FollowUp
<1>2. visits[e] = 1 /\ followed[e] = 0
  BY DEF FollowUp, Following, IInv, OneFollower
<1>3. /\ UNCHANGED <<visits, credited>>
      /\ followed' = [followed EXCEPT ![e] = 1]
      /\ handler' = [handler EXCEPT ![h] = [phase |-> "ok", event |-> e]]
  <2>1. followed' = [followed EXCEPT ![e] = @ + 1]
    BY DEF FollowUp
  <2>2. followed' = [followed EXCEPT ![e] = 1]
    BY <2>1, <1>1, <1>2 DEF IInv, Shape
  <2>. QED BY <2>2 DEF FollowUp, GoTo, IInv, Shape
<1>4. Shape'
  BY <1>1, <1>3 DEF IInv, Shape, Idle
<1>5. FollowedOnce'
  BY <1>1, <1>2, <1>3 DEF IInv, Shape, FollowedOnce
<1>6. \A g \in Handlers \ {h} : Following(g) => handler[g].event # e
  BY DEF FollowUp, Following, IInv, OneFollower
<1>7. \A g \in Handlers : Following(g)' => g # h /\ Following(g) /\ handler'[g] = handler[g]
  BY <1>3 DEF IInv, Shape, Following
<1>8. ASSUME NEW g \in Handlers, Following(g)'
      PROVE  followed'[handler[g].event] = 0
  <2>1. Following(g) /\ handler[g].event # e
    BY <1>6, <1>7, <1>8
  <2>2. handler[g].event \in Events /\ followed[handler[g].event] = 0
    BY <2>1, HasEvent DEF Following, IInv, OneFollower
  <2>. QED BY <2>1, <2>2, <1>1, <1>3 DEF IInv, Shape
<1>9. OneFollower'
  BY <1>3, <1>7, <1>8 DEF IInv, OneFollower
<1>. QED BY <1>4, <1>5, <1>9 DEF IInv

LEMMA NextIInv == IInv /\ [Next]_vars => IInv'
<1>. SUFFICES ASSUME IInv, [Next]_vars PROVE IInv'
  OBVIOUS
<1>1. ASSUME NEW h \in Handlers, NEW e \in Events, Receive(h, e) PROVE IInv'
  <2>1. handler' = [handler EXCEPT ![h] = [phase |-> "evaluate", event |-> e]]
    BY <1>1 DEF Receive
  <2>. QED BY <2>1, <1>1, QuietStep DEF Receive
<1>2. ASSUME NEW h \in Handlers, Evaluate(h) PROVE IInv'
  <2>1. PICK a, z, r : /\ handler' = [handler EXCEPT ![h] = r]
                       /\ r = [phase |-> "record", event |-> handler[h].event,
                               awards |-> a, seen |-> z]
    BY <1>2 DEF Evaluate, IInv, Shape
  <2>2. r.event \in Events /\ r.phase # "follow"
    BY <1>2, <2>1, HasEvent DEF Evaluate
  <2>3. UNCHANGED <<visits, credited, followed>>
    BY <1>2 DEF Evaluate
  <2>. QED BY <2>1, <2>2, <2>3, QuietStep
<1>3. ASSUME NEW h \in Handlers, Refuse(h) \/ Unresolved(h) \/ Replay(h) \/ Fail(h) PROVE IInv'
  <2>1. PICK phase \in {"refused", "unknown", "ok", "failed"} :
          handler' = [handler EXCEPT ![h] = [phase |-> phase, event |-> handler[h].event]]
    BY <1>3 DEF Refuse, Unresolved, Replay, Fail, GoTo, IInv, Shape
  <2>2. handler[h].event \in Events
    BY <1>3, HasEvent DEF Refuse, Unresolved, Replay, Fail
  <2>3. UNCHANGED <<visits, credited, followed>>
    BY <1>3 DEF Refuse, Unresolved, Replay, Fail
  <2>. QED BY <2>1, <2>2, <2>3, QuietStep
<1>4. ASSUME NEW h \in Handlers, Leave(h) PROVE IInv'
  BY <1>4, QuietStep DEF Leave
<1>5. ASSUME UNCHANGED vars PROVE IInv'
  BY <1>5 DEF vars, IInv, Shape, FollowedOnce, OneFollower, Following
<1>. QED
  BY <1>1, <1>2, <1>3, <1>4, <1>5, RecordStep, FollowUpStep DEF Next, Work

----------------------------------------------------------------------------
\* The strengthened invariant of recordEarn's requests holds in every reachable state.
THEOREM Invariance == Spec => []IInv
BY InitIInv, NextIInv, PTL DEF Spec

\* The follow-ups of an event run at most once, and only when it is on record,
\* whatever is replayed and whichever requests die.
THEOREM FollowUpsRunOnce == Spec => []FollowedOnce
<1>1. IInv => FollowedOnce
  BY DEF IInv
<1>. QED BY <1>1, Invariance, PTL

\* The visit and the credits of an event are written in one step of passimo_record_earn
\* and never again.
THEOREM EventsRecordedOnce == Spec => RecordedOnce
<1>. DEFINE Written == \A e \in Events : <<visits[e], credited[e]>>' # <<visits[e], credited[e]>> =>
                         visits[e] = 0 /\ visits'[e] = 1
<1>1. ASSUME IInv, NEW h \in Handlers, Record(h) PROVE Written
  <2>. DEFINE r == handler[h].event
  <2>1. r \in Events /\ visits[r] = 0
    BY <1>1, HasEvent DEF Record, EventNew
  <2>2. /\ visits' = [visits EXCEPT ![r] = @ + 1]
        /\ credited' = [credited EXCEPT ![r] = CreditsOf(r, handler[h].awards)]
    BY <1>1 DEF Record
  <2>3. visits'[r] = 1
    BY <1>1, <2>1, <2>2 DEF IInv, Shape
  <2>4. \A e \in Events \ {r} : visits'[e] = visits[e] /\ credited'[e] = credited[e]
    BY <1>1, <2>2 DEF IInv, Shape
  <2>. QED BY <2>1, <2>3, <2>4
<1>2. IInv /\ [Next]_vars => [Written]_vars
  <2>1. ASSUME IInv, [Next]_vars, UNCHANGED <<visits, credited>> PROVE Written
    BY <2>1
  <2>2. ASSUME IInv, [Next]_vars, ~UNCHANGED <<visits, credited>>
        PROVE  \E h \in Handlers : Record(h)
    BY <2>2 DEF Next, Work, Receive, Evaluate, Refuse, Unresolved, Replay, FollowUp, Fail, Leave, vars
  <2>. QED BY <2>1, <2>2, <1>1
<1>. QED BY <1>2, Invariance, PTL DEF Spec, RecordedOnce

----------------------------------------------------------------------------
(* The daily cap.  A request that has decided holds awards that fit under  *)
(* the cap it has read, so a record keeps the cap unless what it had read  *)
(* has changed: those are the programs in stale.                           *)

Decided(h) ==
  /\ handler[h].awards \in Seq([program : Programs, amount : Nat])
  /\ handler[h].seen \in [Capped -> Nat]
  /\ \A n \in DOMAIN handler[h].awards :
       LET a == handler[h].awards[n]
       IN  a.program \in Capped => a.amount <= Max0(Cap[a.program] - handler[h].seen[a.program])

CapInv ==
  /\ IInv
  /\ TypeOK
  /\ \A e \in Events : visits[e] = 0 => \A p \in Programs : credited[e][p] = 0
  /\ \A h \in Handlers : handler[h].phase = "record" => Decided(h)
  /\ \A p \in Capped \ stale : Earned(p) <= Cap[p]

CreditOf(p) == [e \in Events |-> credited[e][p]]

LEMMA EarnedNat ==
  ASSUME TypeOK, NEW p \in Programs
  PROVE  /\ Earned(p) \in Nat /\ Earned(p) = Sum(Events, CreditOf(p))
         /\ \A e \in Events : CreditOf(p)[e] = credited[e][p] /\ credited[e][p] \in Nat
<1>1. \A e \in Events : CreditOf(p)[e] = credited[e][p] /\ credited[e][p] \in Nat
  BY DEF TypeOK, CreditOf
<1>2. Sum(Events, CreditOf(p)) \in Nat
  BY <1>1, SumNat, AwardsAssumption
<1>3. Earned(p) = Sum(Events, CreditOf(p))
  BY DEF Earned, CreditOf
<1>. QED BY <1>1, <1>2, <1>3

LEMMA SeqElements ==
  ASSUME NEW R, NEW s \in Seq(R)
  PROVE  DOMAIN s = 1..Len(s) /\ Len(s) \in Nat /\ \A n \in DOMAIN s : s[n] \in R
OBVIOUS

LEMMA SeqOf ==
  ASSUME NEW R, NEW n \in Nat, NEW s \in [1..n -> R]
  PROVE  s \in Seq(R)
OBVIOUS

\* What the cap leaves of an award is a number, within the cap that was read.
LEMMA LimitedFacts ==
  ASSUME NEW list \in Seq([program : Programs, amount : Nat \ {0}]),
         NEW seen \in [Capped -> Nat]
  PROVE  /\ Limited(list, seen) \in Seq([program : Programs, amount : Nat])
         /\ \A n \in DOMAIN Limited(list, seen) :
              Limited(list, seen)[n].program \in Capped =>
                Limited(list, seen)[n].amount
                  <= Max0(Cap[Limited(list, seen)[n].program] - seen[Limited(list, seen)[n].program])
<1>2. /\ DOMAIN list = 1..Len(list) /\ Len(list) \in Nat
      /\ \A n \in DOMAIN list :
           list[n] \in [program : Programs, amount : Nat \ {0}]
  BY SeqElements
<1>3. ASSUME NEW n \in DOMAIN list
      PROVE  /\ Limited(list, seen)[n] \in [program : Programs, amount : Nat]
             /\ Limited(list, seen)[n].program \in Capped =>
                  Limited(list, seen)[n].amount
                    <= Max0(Cap[Limited(list, seen)[n].program] - seen[Limited(list, seen)[n].program])
  <2>. DEFINE a == list[n]
              s == Sum(AwardsBefore(list, n), Worth(list))
  <2>1. a \in [program : Programs, amount : Nat \ {0}]
    BY <1>2
  <2>2. s \in Nat
    <3>1. AwardsBefore(list, n) \subseteq 1..Len(list)
      BY <1>2 DEF AwardsBefore
    <3>2. IsFiniteSet(AwardsBefore(list, n))
      <4>1. IsFiniteSet(1..Len(list))
        BY <1>2, FS_Interval
      <4>. QED BY <3>1, <4>1, FS_Subset
    <3>3. \A m \in AwardsBefore(list, n) : Worth(list)[m] \in Nat
      <4>. SUFFICES ASSUME NEW m \in AwardsBefore(list, n) PROVE Worth(list)[m] \in Nat
        OBVIOUS
      <4>1. m \in DOMAIN list
        BY <1>2, <3>1
      <4>2. list[m].amount \in Nat
        BY <1>2, <4>1
      <4>. QED BY <4>1, <4>2 DEF Worth
    <3>. QED BY <3>2, <3>3, SumNat
  <2>3. CASE a.program \notin Capped
    <3>1. Limited(list, seen)[n] = a
      BY <2>3 DEF Limited
    <3>. QED BY <2>1, <2>3, <3>1
  <2>4. CASE a.program \in Capped
    <3>. DEFINE c == Cap[a.program]
                g == seen[a.program]
                x == Min2(a.amount, Max0(Headroom(list, seen, n)))
    <3>1. c \in Nat /\ g \in Nat
      BY <2>4, AwardsAssumption
    <3>2. Headroom(list, seen, n) = c - g - s
      BY DEF Headroom
    <3>3. x \in Nat /\ x <= Max0(c - g)
      <4>1. a.amount \in Nat
        BY <2>1
      <4>. HIDE DEF c, g, s, a
      <4>. QED BY <4>1, <2>2, <3>1, <3>2 DEF Min2, Max0
    <3>4. Limited(list, seen)[n] = [a EXCEPT !.amount = x]
      BY <2>4 DEF Limited
    <3>5. Limited(list, seen)[n].program = a.program /\ Limited(list, seen)[n].amount = x
      <4>. HIDE DEF x
      <4>. QED BY <2>1, <3>4
    <3>6. Limited(list, seen)[n] \in [program : Programs, amount : Nat]
      <4>. HIDE DEF x
      <4>. QED BY <2>1, <3>3, <3>4
    <3>. QED BY <3>3, <3>5, <3>6
  <2>. QED BY <2>3, <2>4
<1>4. DOMAIN Limited(list, seen) = DOMAIN list
  BY DEF Limited
<1>5. Limited(list, seen) \in [1..Len(list) -> [program : Programs, amount : Nat]]
  <2>1. Limited(list, seen) = [n \in 1..Len(list) |-> Limited(list, seen)[n]]
    BY <1>2 DEF Limited
  <2>. QED BY <1>2, <1>3, <2>1
<1>6. Limited(list, seen) \in Seq([program : Programs, amount : Nat])
  BY <1>2, <1>5, SeqOf
<1>. QED BY <1>3, <1>4, <1>6

\* The credit of a program is 0 or one of the awards.
LEMMA FirstAwardIs ==
  ASSUME NEW awards \in Seq([program : Programs, amount : Nat]), NEW p \in Programs
  PROVE  \/ FirstAward(awards, p) = 0
         \/ \E n \in DOMAIN awards : /\ awards[n].program = p
                                     /\ FirstAward(awards, p) = awards[n].amount
<1>. DEFINE paid == {n \in DOMAIN awards : awards[n].program = p /\ awards[n].amount > 0}
<1>1. CASE paid = {}
  BY <1>1 DEF FirstAward
<1>2. CASE paid # {}
  <2>1. paid \in SUBSET Nat
    OBVIOUS
  <2>2. PICK m \in paid : \A n \in paid : m <= n
    BY <1>2, <2>1, LeastNat
  <2>. DEFINE c == CHOOSE n \in paid : \A k \in paid : n <= k
  <2>3. c \in paid
    BY <2>2
  <2>4. FirstAward(awards, p) = awards[c].amount
    BY <1>2 DEF FirstAward
  <2>. HIDE DEF c
  <2>. QED BY <2>3, <2>4
<1>. QED BY <1>1, <1>2

LEMMA RecordCap ==
  ASSUME CapInv, NEW h \in Handlers, Record(h)
  PROVE  CapInv'
<1>. DEFINE e == handler[h].event
            awards == handler[h].awards
            seen == handler[h].seen
<1>1. TypeOK /\ IInv /\ handler[h].phase = "record" /\ e \in Events /\ Decided(h)
  BY HasEvent DEF CapInv, Record
<1>2. /\ visits[e] = 0 /\ \A p \in Programs : credited[e][p] = 0
      /\ visits' = [visits EXCEPT ![e] = @ + 1]
      /\ credited' = [credited EXCEPT ![e] = CreditsOf(e, awards)]
      /\ stale' = stale \cup {p \in Capped : Earned(p) # seen[p] /\ credited'[e][p] > 0}
      /\ handler' = [handler EXCEPT ![h] = [phase |-> "follow", event |-> e]]
      /\ UNCHANGED followed
  <2>1. visits[e] = 0
    BY DEF Record, EventNew
  <2>2. handler' = [handler EXCEPT ![h] = [phase |-> "follow", event |-> e]]
    BY <1>1 DEF Record, GoTo, IInv, Shape
  <2>. QED BY <1>1, <2>1, <2>2 DEF Record, CapInv
<1>3. IInv'
  BY <1>1, RecordStep
<1>4. awards \in Seq([program : Programs, amount : Nat])
  BY <1>1 DEF Decided
<1>5. /\ credited \in [Events -> [Programs -> Nat]] /\ stale \subseteq Capped
      /\ visits \in [Events -> 0..1] /\ Capped \subseteq Programs /\ Cap \in [Capped -> Nat]
  BY <1>1, AwardsAssumption DEF TypeOK
<1>6. ASSUME NEW p \in Programs PROVE FirstAward(awards, p) \in Nat
  <2>1. \A n \in DOMAIN awards : awards[n] \in [program : Programs, amount : Nat]
    BY <1>4, SeqElements
  <2>. HIDE DEF awards
  <2>2. \A n \in DOMAIN awards : awards[n].amount \in Nat
    BY <2>1
  <2>3. \/ FirstAward(awards, p) = 0
        \/ \E n \in DOMAIN awards : FirstAward(awards, p) = awards[n].amount
    BY <1>4, FirstAwardIs
  <2>. QED BY <2>2, <2>3
<1>7. CreditsOf(e, awards) \in [Programs -> Nat]
      /\ \A p \in Programs : CreditsOf(e, awards)[p] = FirstAward(awards, p)
  BY <1>2, <1>6 DEF CreditsOf
<1>. HIDE DEF awards, seen, e
<1>8. /\ credited' \in [Events -> [Programs -> Nat]]
      /\ \A p \in Programs : credited'[e][p] = FirstAward(awards, p)
      /\ \A d \in Events \ {e} : credited'[d] = credited[d]
  BY <1>1, <1>2, <1>5, <1>7
<1>9. TypeOK'
  <2>1. visits' \in [Events -> 0..1] /\ visits'[e] = 1
    BY <1>1, <1>2, <1>5
  <2>2. stale' \subseteq Capped
    BY <1>2, <1>5
  <2>3. \A g \in Handlers : handler'[g] # Idle =>
          handler'[g].phase \in Phases /\ handler'[g].event \in Events
    <3>1. \A g \in Handlers \ {h} : handler'[g] = handler[g]
      BY <1>1, <1>2 DEF IInv, Shape
    <3>2. handler'[h] = [phase |-> "follow", event |-> e]
      BY <1>1, <1>2 DEF IInv, Shape
    <3>. QED BY <1>1, <3>1, <3>2 DEF TypeOK, Phases
  <2>. QED BY <1>1, <1>2, <1>8, <2>1, <2>2, <2>3 DEF TypeOK
<1>10. ASSUME NEW d \in Events, visits'[d] = 0, NEW p \in Programs
       PROVE  credited'[d][p] = 0
  <2>1. d # e /\ visits[d] = 0
    BY <1>1, <1>2, <1>5, <1>10
  <2>. QED BY <1>8, <2>1 DEF CapInv
<1>11. ASSUME NEW g \in Handlers, handler'[g].phase = "record" PROVE Decided(g)'
  <2>1. g # h /\ handler'[g] = handler[g]
    BY <1>1, <1>2, <1>11 DEF IInv, Shape
  <2>2. Decided(g)
    BY <1>11, <2>1 DEF CapInv
  <2>. QED BY <2>1, <2>2 DEF Decided
<1>12. ASSUME NEW p \in Capped \ stale' PROVE Earned(p)' <= Cap[p]
  <2>1. p \in Programs /\ p \notin stale /\ Earned(p) <= Cap[p] /\ Cap[p] \in Nat
    BY <1>2, <1>5 DEF CapInv
  <2>f. PICK f, g : f = CreditOf(p) /\ g = CreditOf(p)'
    OBVIOUS
  <2>. DEFINE x == FirstAward(awards, p)
  <2>2. Earned(p) \in Nat /\ Earned(p) = Sum(Events, f)
        /\ \A d \in Events : f[d] = credited[d][p] /\ f[d] \in Nat
    BY <1>1, <2>f, <2>1, EarnedNat
  <2>3. Earned(p)' = Sum(Events, g) /\ \A d \in Events : g[d] = credited'[d][p] /\ g[d] \in Nat
    BY <1>8, <2>f, <2>1 DEF Earned, CreditOf
  <2>4. f[e] = 0 /\ g[e] = x /\ x \in Nat /\ \A d \in Events \ {e} : g[d] = f[d]
    BY <1>1, <1>2, <1>6, <1>8, <2>1, <2>2, <2>3
  <2>5. Sum(Events, g) \in Nat
    BY <2>3, SumNat, AwardsAssumption
  <2>6. Sum(Events, g) + f[e] = Sum(Events, f) + g[e]
    <3>1. IsFiniteSet(Events) /\ e \in Events
      BY <1>1, AwardsAssumption
    <3>2. \A d \in Events : f[d] \in Nat /\ g[d] \in Nat
      BY <2>2, <2>3
    <3>3. \A d \in Events \ {e} : g[d] = f[d]
      BY <2>4
    <3>. QED BY <3>1, <3>2, <3>3, SumUpdate
  <2>7. Earned(p)' = Earned(p) + x
    BY <2>2, <2>3, <2>4, <2>5, <2>6
  <2>8. CASE x = 0
    BY <2>1, <2>2, <2>7, <2>8
  <2>9. CASE x # 0
    <3>1. Earned(p) = seen[p]
      BY <1>2, <1>8, <2>1, <2>4, <2>9
    <3>2. PICK n \in DOMAIN awards : awards[n].program = p /\ x = awards[n].amount
      BY <1>4, <2>1, <2>9, FirstAwardIs
    <3>3. x <= Max0(Cap[p] - seen[p])
      BY <1>1, <3>2 DEF Decided, awards, seen
    <3>. HIDE DEF x
    <3>. QED BY <2>1, <2>2, <2>4, <2>7, <3>1, <3>3 DEF Max0
  <2>. QED BY <2>8, <2>9
<1>. QED BY <1>3, <1>9, <1>10, <1>11, <1>12 DEF CapInv

\* A step that records nothing keeps the cap.
LEMMA QuietCap ==
  ASSUME CapInv, IInv', UNCHANGED <<visits, credited, stale>>,
         followed' \in [Events -> 0..1],
         \A h \in Handlers : handler'[h] # handler[h] =>
           \/ handler'[h] = Idle
           \/ /\ handler'[h].event \in Events /\ handler'[h].phase \in Phases
              /\ handler'[h].phase = "record" => Decided(h)'
  PROVE  CapInv'
<1>1. TypeOK'
  BY DEF CapInv, TypeOK
<1>2. \A p : Earned(p)' = Earned(p)
  BY DEF Earned
<1>3. ASSUME NEW h \in Handlers, handler'[h].phase = "record" PROVE Decided(h)'
  <2>1. CASE handler'[h] = handler[h]
    <3>1. Decided(h)
      BY <1>3, <2>1 DEF CapInv
    <3>. QED BY <2>1, <3>1 DEF Decided
  <2>2. CASE handler'[h] # handler[h]
    BY <1>3, <2>2 DEF Idle
  <2>. QED BY <2>1, <2>2
<1>. QED BY <1>1, <1>2, <1>3 DEF CapInv

LEMMA NextCap == CapInv /\ [Next]_vars => CapInv'
<1>. SUFFICES ASSUME CapInv, [Next]_vars PROVE CapInv'
  OBVIOUS
<1>1. IInv /\ TypeOK /\ IInv'
  BY NextIInv DEF CapInv
<1>2. followed \in [Events -> 0..1] /\ followed' \in [Events -> 0..1]
  BY <1>1 DEF TypeOK, IInv, Shape
<1>3. ASSUME NEW h \in Handlers, NEW r,
             handler' = [handler EXCEPT ![h] = r],
             r = Idle \/ (r.event \in Events /\ r.phase \in Phases /\ r.phase # "record"),
             UNCHANGED <<visits, credited, stale>>
      PROVE  CapInv'
  <2>1. \A g \in Handlers : handler'[g] # handler[g] => g = h /\ handler'[g] = r
    BY <1>1, <1>3 DEF IInv, Shape
  <2>. QED BY <1>1, <1>2, <1>3, <2>1, QuietCap
<1>4. ASSUME NEW h \in Handlers, NEW e \in Events, Receive(h, e) PROVE CapInv'
  <2>1. handler' = [handler EXCEPT ![h] = [phase |-> "evaluate", event |-> e]]
    BY <1>4 DEF Receive
  <2>2. UNCHANGED <<visits, credited, stale>>
    BY <1>4 DEF Receive
  <2>. QED BY <1>3, <2>1, <2>2 DEF Phases
<1>5. ASSUME NEW h \in Handlers, Evaluate(h) PROVE CapInv'
  <2>. DEFINE e == handler[h].event
  <2>1. e \in Events
    BY <1>1, <1>5, HasEvent DEF Evaluate
  <2>0. PICK list \in Awards[e], unread \in SUBSET Capped :
          handler' = [handler EXCEPT ![h] =
            [phase |-> "record", event |-> e,
             awards |-> Limited(list, [p \in Capped |-> IF p \in unread THEN 0 ELSE Earned(p)]),
             seen |-> [p \in Capped |-> IF p \in unread THEN 0 ELSE Earned(p)]]]
    BY <1>1, <1>5 DEF Evaluate, IInv, Shape
  <2>. DEFINE seen == [p \in Capped |-> IF p \in unread THEN 0 ELSE Earned(p)]
              r == [phase |-> "record", event |-> e, awards |-> Limited(list, seen),
                    seen |-> seen]
  <2>2. handler' = [handler EXCEPT ![h] = r]
    BY <2>0
  <2>3. handler'[h] = r /\ \A g \in Handlers \ {h} : handler'[g] = handler[g]
    BY <1>1, <2>2 DEF IInv, Shape
  <2>4. r.event = e /\ r.phase = "record" /\ r.awards = Limited(list, seen) /\ r.seen = seen
    BY <2>2
  <2>5. seen \in [Capped -> Nat]
    BY <1>1, <2>2, EarnedNat, AwardsAssumption
  <2>6. list \in Seq([program : Programs, amount : Nat \ {0}])
    BY <2>1, AwardsAssumption
  <2>7. UNCHANGED <<visits, credited, stale>>
    BY <1>5 DEF Evaluate
  <2>. HIDE DEF e, seen, r
  <2>8. Decided(h)'
    BY <2>3, <2>4, <2>5, <2>6, LimitedFacts DEF Decided
  <2>. QED BY <1>1, <1>2, <2>1, <2>3, <2>4, <2>7, <2>8, QuietCap DEF Phases
<1>6. ASSUME NEW h \in Handlers,
             Refuse(h) \/ Unresolved(h) \/ Replay(h) \/ FollowUp(h) \/ Fail(h)
      PROVE  CapInv'
  <2>1. PICK phase \in {"refused", "unknown", "ok", "failed"} :
          handler' = [handler EXCEPT ![h] = [phase |-> phase, event |-> handler[h].event]]
    BY <1>1, <1>6 DEF Refuse, Unresolved, Replay, FollowUp, Fail, GoTo, IInv, Shape
  <2>2. handler[h].event \in Events
    BY <1>1, <1>6, HasEvent DEF Refuse, Unresolved, Replay, FollowUp, Fail
  <2>3. UNCHANGED <<visits, credited, stale>>
    BY <1>6 DEF Refuse, Unresolved, Replay, FollowUp, Fail
  <2>. QED BY <1>3, <2>1, <2>2, <2>3 DEF Phases
<1>7. ASSUME NEW h \in Handlers, Leave(h) PROVE CapInv'
  BY <1>3, <1>7 DEF Leave
<1>8. ASSUME UNCHANGED vars PROVE CapInv'
  <2>1. UNCHANGED <<visits, credited, stale, handler>>
    BY <1>8 DEF vars
  <2>. QED BY <1>1, <1>2, <2>1, QuietCap
<1>. QED
  BY <1>4, <1>5, <1>6, <1>7, <1>8, RecordCap DEF Next, Work

LEMMA CapInitially == Init => CapInv
<1>. SUFFICES ASSUME Init PROVE CapInv
  OBVIOUS
<1>1. TypeOK
  <2>1. visits \in [Events -> 0..1] /\ followed \in [Events -> 0..1]
    BY DEF Init
  <2>2. credited \in [Events -> [Programs -> Nat]]
    BY DEF Init
  <2>. QED BY <2>1, <2>2 DEF Init, TypeOK
<1>2. \A h \in Handlers : handler[h].phase # "record"
  BY DEF Init, Idle
<1>3. ASSUME NEW p \in Capped PROVE Earned(p) <= Cap[p]
  <2>1. p \in Programs /\ Cap[p] \in Nat
    BY AwardsAssumption
  <2>2. \A e \in Events : CreditOf(p)[e] = 0
    BY <2>1 DEF Init, CreditOf
  <2>3. Earned(p) = 0
    BY <1>1, <2>1, <2>2, EarnedNat, SumZero
  <2>. QED BY <2>1, <2>3
<1>. QED BY InitIInv, <1>1, <1>2, <1>3 DEF CapInv, Init

\* Whatever is sent at once, a program's credits of the day stay within its
\* max_earn_per_day, unless a request had read them before another was recorded or
\* could not read them.
THEOREM CapHolds == Spec => []WithinCap
<1>1. Init => CapInv
  BY CapInitially
<1>2. CapInv => WithinCap
  BY DEF CapInv, WithinCap
<1>. QED BY <1>1, <1>2, NextCap, PTL DEF Spec

----------------------------------------------------------------------------
(* The counter.  A request that was answered "ok" is on record; a client   *)
(* waits for a request about its own scan, and alone; what stands before   *)
(* a scan in a flusher's list, or was saved before it and is not in the    *)
(* list, is settled.                                                       *)

OkOnRecord == \A h \in Handlers : handler[h].phase = "ok" => visits[handler[h].event] = 1

ServerInv == CapInv /\ OkOnRecord

WaitsWell(c) ==
  /\ waits[c] \in Handlers
  /\ handler[waits[c]] # Idle
  /\ \A d \in Clients \ {c} : waits[d] # waits[c]
  /\ c \in Scans => handler[waits[c]].event = c
  /\ c \in Flushers => todo[c] # <<>> /\ handler[waits[c]].event = captured[Scan(c).id]

WaitOK == \A c \in Clients : waits[c] # None => WaitsWell(c)

NotLost == \A i \in Ids : i \in DOMAIN stored \/ Settled(i)

SettledAhead ==
  \A f \in Flushers : \A n \in 1..Len(todo[f]) : \A i \in 1..todo[f][n].id - 1 :
    Settled(i) \/ \E m \in 1..n - 1 : todo[f][m].id = i

ShownOK ==
  \A s \in Scans :
    /\ counter[s] = "shown" => visits[s] = 1
    /\ counter[s] = "assumed" => s \in unsaved \/ \E i \in Ids : captured[i] = s

ScanInv ==
  /\ ServerInv /\ ScanTypeOK
  /\ WaitOK /\ NotLost /\ SettledAhead /\ ShownOK

\* A record stays, and every handler but the one that leaves keeps its event.
LEMMA ServerSteps ==
  ASSUME ServerInv, [Next]_vars
  PROVE  /\ ServerInv'
         /\ \A e \in Events : visits[e] > 0 => visits'[e] > 0
         /\ \A e \in Events : visits[e] = 1 => visits'[e] = 1
<1>1. CapInv /\ CapInv' /\ IInv /\ IInv'
  BY NextCap DEF ServerInv, CapInv
<1>2. visits \in [Events -> 0..1] /\ visits' \in [Events -> 0..1]
  BY <1>1 DEF IInv, Shape
<1>3. \A e \in Events : visits[e] = 1 => visits'[e] = 1
  <2>1. ASSUME NEW h \in Handlers, Record(h)
        PROVE  \A e \in Events : visits[e] = 1 => visits'[e] = 1
    <3>1. visits[handler[h].event] = 0 /\ visits' = [visits EXCEPT ![handler[h].event] = @ + 1]
      BY <2>1 DEF Record, EventNew
    <3>. QED BY <1>2, <3>1
  <2>2. (\E h \in Handlers : Record(h)) \/ UNCHANGED visits
    BY DEF Next, Work, Receive, Evaluate, Refuse, Unresolved, Replay, FollowUp, Fail, Leave, vars
  <2>. QED BY <2>1, <2>2
<1>4. ASSUME NEW h \in Handlers, handler'[h].phase = "ok", handler'[h] # handler[h]
      PROVE  /\ handler'[h].event \in Events /\ handler'[h].event = handler[h].event
             /\ visits[handler[h].event] = 1
  <2>1. ASSUME NEW g \in Handlers, Replay(g) \/ FollowUp(g)
        PROVE  h = g /\ handler'[h].event = handler[h].event
               /\ handler[h].event \in Events /\ visits[handler[h].event] = 1
    <3>1. handler' = [handler EXCEPT ![g] = [phase |-> "ok", event |-> handler[g].event]]
      BY <1>1, <2>1 DEF Replay, FollowUp, GoTo, IInv, Shape
    <3>2. h = g /\ handler'[h].event = handler[h].event
      BY <1>1, <1>4, <3>1 DEF IInv, Shape
    <3>3. handler[g].event \in Events
      BY <1>1, <2>1, HasEvent DEF Replay, FollowUp
    <3>4. CASE Replay(g)
      BY <1>2, <3>2, <3>3, <3>4 DEF Replay, EventNew
    <3>5. CASE FollowUp(g)
      BY <1>1, <3>2, <3>3, <3>5 DEF FollowUp, IInv, OneFollower, Following
    <3>. QED BY <2>1, <3>2, <3>3, <3>4, <3>5
  <2>2. ASSUME NEW g \in Handlers, NEW r, handler' = [handler EXCEPT ![g] = r],
               r.phase # "ok"
        PROVE  FALSE
    BY <1>1, <1>4, <2>2 DEF IInv, Shape
  <2>3. ASSUME NEW g \in Handlers, NEW e \in Events, Receive(g, e) PROVE FALSE
    <3>1. PICK q : /\ handler' = [handler EXCEPT ![g] = q]
                   /\ q = [phase |-> "evaluate", event |-> e]
      BY <2>3 DEF Receive
    <3>2. q.phase # "ok"
      BY <3>1
    <3>. QED BY <2>2, <3>1, <3>2
  <2>4. ASSUME NEW g \in Handlers, Evaluate(g) PROVE FALSE
    <3>1. PICK a, s : handler' = [handler EXCEPT ![g] =
                         [phase |-> "record", event |-> @.event, awards |-> a, seen |-> s]]
      BY <2>4 DEF Evaluate
    <3>2. handler'[h].phase = "record" \/ handler'[h] = handler[h]
      BY <1>1, <3>1 DEF IInv, Shape
    <3>. QED BY <1>4, <3>2
  <2>5. ASSUME NEW g \in Handlers, Refuse(g) \/ Unresolved(g) \/ Record(g) \/ Fail(g)
        PROVE  FALSE
    <3>1. PICK p \in {"refused", "unknown", "follow", "failed"} :
            handler' = [handler EXCEPT ![g] = [phase |-> p, event |-> @.event]]
      BY <2>5 DEF Refuse, Unresolved, Record, Fail, GoTo
    <3>2. handler'[h].phase = p \/ handler'[h] = handler[h]
      BY <1>1, <3>1 DEF IInv, Shape
    <3>. QED BY <1>4, <3>2
  <2>6. ASSUME NEW g \in Handlers, Leave(g) PROVE FALSE
    <3>1. Idle.phase # "ok"
      BY DEF Idle
    <3>. QED BY <2>2, <2>6, <3>1 DEF Leave
  <2>7. ~UNCHANGED vars
    BY <1>4 DEF vars
  <2>. QED BY <2>1, <2>3, <2>4, <2>5, <2>6, <2>7 DEF Next, Work
<1>5. OkOnRecord'
  <2>. SUFFICES ASSUME NEW h \in Handlers, handler'[h].phase = "ok"
                PROVE  visits'[handler'[h].event] = 1
    BY DEF OkOnRecord
  <2>1. CASE handler'[h] = handler[h]
    <3>1. visits[handler[h].event] = 1 /\ handler[h].event \in Events
      BY <1>1, <2>1, HasEvent DEF ServerInv, OkOnRecord
    <3>. QED BY <1>3, <2>1, <3>1
  <2>2. CASE handler'[h] # handler[h]
    BY <1>3, <1>4, <2>2
  <2>. QED BY <2>1, <2>2
<1>. QED BY <1>1, <1>2, <1>3, <1>5 DEF ServerInv

\* Nobody but the handler's own Leave ends a request.
LEMMA RequestStays ==
  ASSUME IInv, [Next]_vars, NEW h \in Handlers, handler[h] # Idle, ~Leave(h)
  PROVE  handler'[h] # Idle /\ handler'[h].event = handler[h].event
<1>1. ASSUME NEW g \in Handlers, NEW r, handler' = [handler EXCEPT ![g] = r],
             handler[g] = Idle \/ (r # Idle /\ r.event = handler[g].event)
             \/ (r = Idle /\ g # h)
      PROVE  handler'[h] # Idle /\ handler'[h].event = handler[h].event
  <2>1. handler'[h] = IF g = h THEN r ELSE handler[h]
    BY <1>1 DEF IInv, Shape
  <2>. QED BY <1>1, <2>1
<1>2. ASSUME NEW g \in Handlers, Work(g)
      PROVE  handler'[h] # Idle /\ handler'[h].event = handler[h].event
  <2>1. ASSUME Evaluate(g) PROVE handler'[h] # Idle /\ handler'[h].event = handler[h].event
    <3>r. PICK a, s, r : /\ handler' = [handler EXCEPT ![g] = r]
                         /\ r = [phase |-> "record", event |-> handler[g].event,
                                 awards |-> a, seen |-> s]
      BY <2>1 DEF Evaluate, IInv, Shape
    <3>1. r.event = handler[g].event /\ r.phase = "record"
      BY <3>r
    <3>. QED BY <1>1, <3>r, <3>1 DEF Idle
  <2>2. ASSUME ~Evaluate(g) PROVE handler'[h] # Idle /\ handler'[h].event = handler[h].event
    <3>1. PICK p, r : /\ handler' = [handler EXCEPT ![g] = r]
                      /\ r = [phase |-> p, event |-> handler[g].event]
                      /\ p \in {"refused", "unknown", "follow", "failed", "ok"}
      BY <1>2, <2>2 DEF Work, Refuse, Unresolved, Record, Replay, FollowUp, Fail, GoTo, IInv, Shape
    <3>2. r.event = handler[g].event /\ r.phase = p
      BY <3>1
    <3>. QED BY <1>1, <3>1, <3>2 DEF Idle
  <2>. QED BY <2>1, <2>2
<1>3. ASSUME NEW g \in Handlers, NEW e \in Events, Receive(g, e)
      PROVE  handler'[h] # Idle /\ handler'[h].event = handler[h].event
  BY <1>1, <1>3 DEF Receive
<1>4. ASSUME NEW g \in Handlers, Leave(g)
      PROVE  handler'[h] # Idle /\ handler'[h].event = handler[h].event
  BY <1>1, <1>4 DEF Leave
<1>5. ASSUME UNCHANGED vars
      PROVE  handler'[h] # Idle /\ handler'[h].event = handler[h].event
  BY <1>5 DEF vars
<1>. QED BY <1>2, <1>3, <1>4, <1>5 DEF Next


Queued == [id : Ids, attempts : 0..MaxAttempts - 1]

LEMMA HeadAndTail ==
  ASSUME NEW R, NEW s \in Seq(R), s # <<>>
  PROVE  /\ Len(s) \in Nat \ {0} /\ Head(s) = s[1] /\ s[1] \in R
         /\ Tail(s) \in Seq(R) /\ Len(Tail(s)) = Len(s) - 1
         /\ \A n \in 1..Len(s) - 1 : Tail(s)[n] = s[n + 1]
<1>1. Len(s) \in Nat \ {0} /\ Head(s) = s[1] /\ s[1] \in R
  OBVIOUS
<1>2. Tail(s) \in Seq(R) /\ Len(Tail(s)) = Len(s) - 1
  OBVIOUS
<1>3. \A n \in 1..Len(s) - 1 : Tail(s)[n] = s[n + 1]
  OBVIOUS
<1>. QED BY <1>1, <1>2, <1>3

LEMMA SeqWiden ==
  ASSUME NEW R, NEW T, R \subseteq T, NEW s \in Seq(R)
  PROVE  s \in Seq(T)
<1>1. s \in [1..Len(s) -> T] /\ Len(s) \in Nat
  OBVIOUS
<1>. QED BY <1>1, SeqOf

\* The rank of an element of a finite set of ids: the list of the backlog has at
\* place n the one element of rank n.
Rank(D, i) == Cardinality({j \in D : j <= i})

LEMMA IdsFinite ==
  ASSUME NEW L \in Nat, NEW D \in SUBSET (1..L)
  PROVE  IsFiniteSet(D) /\ Cardinality(D) \in Nat /\ \A x \in D : x \in Nat
<1>1. IsFiniteSet(1..L)
  BY FS_Interval
<1>2. IsFiniteSet(D)
  BY <1>1, FS_Subset
<1>3. \A x \in D : x \in 1..L
  OBVIOUS
<1>. QED BY <1>2, <1>3, FS_CardinalityType

LEMMA RankFacts ==
  ASSUME NEW L \in Nat, NEW D \in SUBSET (1..L), NEW i \in D
  PROVE  /\ Rank(D, i) \in 1..Cardinality(D)
         /\ \A k \in D : i < k => Rank(D, i) < Rank(D, k)
<1>1. IsFiniteSet(D) /\ \A x \in D : x \in Nat
  BY IdsFinite
<1>2. ASSUME NEW x \in D
      PROVE  /\ IsFiniteSet({j \in D : j <= x}) /\ Rank(D, x) \in Nat
             /\ Rank(D, x) <= Cardinality(D)
  BY <1>1, FS_Subset, FS_CardinalityType DEF Rank
<1>3. Rank(D, i) # 0
  <2>1. i \in {j \in D : j <= i}
    BY <1>1
  <2>. QED BY <1>2, <2>1, FS_EmptySet DEF Rank
<1>4. ASSUME NEW k \in D, i < k PROVE Rank(D, i) < Rank(D, k)
  <2>. DEFINE A == {j \in D : j <= i}
              B == {j \in D : j <= k}
  <2>1. A \subseteq B /\ k \in B /\ k \notin A
    <3>1. i \in Nat /\ k \in Nat /\ ~(k <= i) /\ k <= k
      BY <1>1, <1>4
    <3>2. \A x \in D : x <= i => x <= k
      BY <1>1, <1>4, <3>1
    <3>. QED BY <3>1, <3>2
  <2>2. IsFiniteSet(B) /\ Cardinality(A) \in Nat /\ Cardinality(B) \in Nat
    BY <1>2 DEF Rank
  <2>. HIDE DEF A, B
  <2>3. Cardinality(A) <= Cardinality(B) /\ Cardinality(A) # Cardinality(B)
    BY <2>1, <2>2, FS_Subset
  <2>. QED BY <2>2, <2>3 DEF Rank, A, B
<1>5. Cardinality(D) \in Nat
  BY <1>1, FS_CardinalityType
<1>6. Rank(D, i) \in 1..Cardinality(D)
  <2>1. Rank(D, i) \in Nat /\ Rank(D, i) <= Cardinality(D)
    BY <1>2
  <2>r. PICK m, n : m = Rank(D, i) /\ n = Cardinality(D)
    OBVIOUS
  <2>2. m \in 1..n
    BY <1>3, <1>5, <2>1, <2>r
  <2>. QED BY <2>2, <2>r
<1>. QED BY <1>4, <1>6

LEMMA RankExists ==
  ASSUME NEW L \in Nat, NEW D \in SUBSET (1..L), NEW n \in 1..Cardinality(D)
  PROVE  \E i \in D : Rank(D, i) = n
<1>1. IsFiniteSet(D) /\ (\A x \in D : x \in Nat) /\ Cardinality(D) \in Nat
  BY IdsFinite
<1>2. D # {}
  BY <1>1, FS_EmptySet
<1>3. PICK z \in D : \A j \in D : j <= z
  BY <1>2, GreatestOf
<1>4. Rank(D, z) = Cardinality(D)
  <2>1. {j \in D : j <= z} = D
    BY <1>3
  <2>. QED BY <2>1 DEF Rank
<1>. DEFINE C == {i \in D : n <= Rank(D, i)}
<1>5. C \in SUBSET Nat /\ z \in C
  <2>1. n <= Cardinality(D)
    OBVIOUS
  <2>. QED BY <1>1, <1>4, <2>1
<1>6. PICK m \in C : \A x \in C : m <= x
  BY <1>5, LeastNat
<1>7. Rank(D, m) = n
  <2>. DEFINE A == {j \in D : j < m}
  <2>1. IsFiniteSet(A) /\ Cardinality(A) \in Nat
    BY <1>1, FS_Subset, FS_CardinalityType
  <2>2. {j \in D : j <= m} = A \cup {m} /\ m \notin A
    <3>1. m \in D /\ m \in Nat
      BY <1>1
    <3>2. \A j \in D : j <= m <=> j < m \/ j = m
      BY <1>1, <3>1
    <3>3. ~(m < m)
      BY <3>1
    <3>. QED BY <3>1, <3>2, <3>3
  <2>3. Rank(D, m) = Cardinality(A) + 1
    <3>. HIDE DEF A
    <3>. QED BY <2>1, <2>2, FS_AddElement DEF Rank
  <2>4. ASSUME n <= Cardinality(A) PROVE FALSE
    <3>1. A # {}
      BY <2>4, FS_EmptySet
    <3>2. A \in SUBSET (1..L)
      OBVIOUS
    <3>3. PICK x \in A : \A j \in A : j <= x
      BY <3>1, <3>2, GreatestOf
    <3>4. {j \in D : j <= x} = A
      <4>1. x \in D /\ x \in Nat /\ x < m /\ m \in Nat
        BY <1>1, <1>6
      <4>2. \A j \in D : j <= x => j < m
        BY <1>1, <4>1
      <4>3. \A j \in D : j < m => j <= x
        BY <3>3
      <4>. QED BY <4>2, <4>3
    <3>5. x \in C
      BY <2>4, <3>4 DEF Rank
    <3>. QED BY <1>1, <1>6, <3>5
  <2>. HIDE DEF A
  <2>. QED BY <1>6, <2>1, <2>3, <2>4
<1>. QED BY <1>7

\* What a flush reads: the ids of the store, each once and in order.
LEMMA BacklogFacts ==
  ASSUME ScanTypeOK
  PROVE  /\ Backlog \in Seq(Queued)
         /\ \A n \in 1..Len(Backlog) : \A i \in DOMAIN stored :
              i < Backlog[n].id => \E m \in 1..n - 1 : Backlog[m].id = i
<1>. DEFINE D == DOMAIN stored
            N == Cardinality(D)
            At(n) == CHOOSE i \in D : Rank(D, i) = n
<1>1. Len(captured) \in Nat /\ Ids = 1..Len(captured) /\ D \in SUBSET (1..Len(captured))
  BY DEF ScanTypeOK, Ids
<1>2. N \in Nat
  BY <1>1, IdsFinite
<1>3. \A n \in 1..N : At(n) \in D /\ Rank(D, At(n)) = n
  BY <1>1, RankExists
<1>4. Backlog = [n \in 1..N |-> [id |-> At(n), attempts |-> stored[At(n)]]]
  BY DEF Backlog, Rank
<1>. HIDE DEF At
<1>5. Backlog \in [1..N -> Queued]
  <2>1. \A n \in 1..N : [id |-> At(n), attempts |-> stored[At(n)]] \in Queued
    BY <1>3 DEF ScanTypeOK, Queued
  <2>. QED BY <1>4, <2>1
<1>6. Backlog \in Seq(Queued) /\ Len(Backlog) = N
  BY <1>2, <1>5, SeqOf
<1>7. ASSUME NEW n \in 1..Len(Backlog), NEW i \in D, i < Backlog[n].id
      PROVE  \E m \in 1..n - 1 : Backlog[m].id = i
  <2>1. n \in 1..N /\ Backlog[n].id = At(n)
    BY <1>4, <1>6
  <2>2. Rank(D, i) \in 1..N /\ Rank(D, i) < n
    BY <1>1, <1>3, <1>7, <2>1, RankFacts
  <2>r. PICK m : m = Rank(D, i)
    OBVIOUS
  <2>3. Backlog[m].id = At(m) /\ m \in 1..n - 1
    BY <1>4, <2>1, <2>2, <2>r
  <2>4. At(m) = i
    <3>1. At(m) \in D /\ Rank(D, At(m)) = m
      BY <1>3, <2>2, <2>r
    <3>2. ~(i < At(m)) /\ ~(At(m) < i)
      <4>. DEFINE k == At(m)
      <4>1. (i < k => Rank(D, i) < Rank(D, k)) /\ (k < i => Rank(D, k) < Rank(D, i))
        BY <1>1, <3>1, RankFacts
      <4>2. Rank(D, i) = m /\ Rank(D, k) = m /\ ~(m < m)
        BY <2>2, <2>r, <3>1
      <4>. QED BY <4>1, <4>2
    <3>3. i \in Nat /\ At(m) \in Nat
      BY <1>1, <3>1
    <3>. QED BY <3>2, <3>3
  <2>. QED BY <2>3, <2>4
<1>. QED BY <1>6, <1>7

----------------------------------------------------------------------------
(* Steps of the counter.                                                   *)

LEMMA HeadFacts ==
  ASSUME ScanTypeOK, NEW f \in Flushers, todo[f] # <<>>
  PROVE  /\ Scan(f) = todo[f][1] /\ Scan(f).id \in Ids
         /\ Scan(f).attempts \in 0..MaxAttempts - 1
         /\ captured[Scan(f).id] \in Scans
         /\ Len(todo[f]) \in Nat \ {0}
         /\ Tail(todo[f]) \in Seq(Queued) /\ Len(Tail(todo[f])) = Len(todo[f]) - 1
         /\ \A n \in 1..Len(todo[f]) - 1 : Tail(todo[f])[n] = todo[f][n + 1]
<1>1. todo[f] \in Seq(Queued) /\ captured \in Seq(Scans)
  BY DEF ScanTypeOK, Queued
<1>2. todo[f][1] \in Queued /\ Scan(f) = todo[f][1]
  BY <1>1, HeadAndTail DEF Scan
<1>3. Scan(f).id \in Ids /\ Scan(f).attempts \in 0..MaxAttempts - 1
  BY <1>2 DEF Queued
<1>4. captured[Scan(f).id] \in Scans
  BY <1>1, <1>3 DEF Ids
<1>. QED BY <1>1, <1>2, <1>3, <1>4, HeadAndTail

\* A step sends, is answered, gives up waiting, or has the server alone work.
Sends(c, s) ==
  /\ c \in Clients /\ s \in Scans /\ Send(c, s)
  /\ UNCHANGED <<counter, unsaved, captured, stored, todo, abandoned, unresolved>>
  /\ \/ c = s
     \/ c \in Flushers /\ todo[c] # <<>> /\ s = captured[Scan(c).id]

GivesUpWaiting(c) == c \in Clients /\ NetworkFails(c)

LEMMA ScanSteps ==
  ASSUME ScanTypeOK, [ScanNext]_scanVars
  PROVE  \/ \E c \in Clients, s \in Scans : Sends(c, s)
         \/ \E s \in Scans : CheckInAnswered(s) \/ CheckInOffline(s)
         \/ \E f \in Flushers : FlushStart(f) \/ FlushSent(f) \/ FlushFailed(f) \/ CloseTab(f)
         \/ Server
         \/ UNCHANGED scanVars
<1>1. ASSUME NEW s \in Scans, CheckIn(s) PROVE Sends(s, s)
  BY <1>1 DEF CheckIn, Sends, Clients
<1>2. ASSUME NEW f \in Flushers, FlushSend(f) PROVE Sends(f, captured[Scan(f).id])
  BY <1>2, HeadFacts DEF FlushSend, Sends, Clients
<1>3. ASSUME NEW f \in Flushers, FlushSend(f)
      PROVE  \E c \in Clients, s \in Scans : Sends(c, s)
  BY <1>2, <1>3 DEF Sends
<1>. QED BY <1>1, <1>3 DEF ScanNext, Flush, Clients

\* Every step of the counter is a step of the server or none.
LEMMA ScanStepServes ==
  ASSUME ScanTypeOK, [ScanNext]_scanVars
  PROVE  [Next]_vars
<1>1. ASSUME NEW c, NEW R, Answered(c, R), c \in Clients PROVE [Next]_vars
  <2>1. waits[c] \in Handlers
    BY <1>1 DEF Answered, ScanTypeOK
  <2>. QED BY <1>1, <2>1 DEF Answered, Next
<1>2. ASSUME NEW c \in Clients, NEW s \in Scans, Sends(c, s) PROVE [Next]_vars
  BY <1>2 DEF Sends, Send, Next, Scans
<1>3. ASSUME NEW s \in Scans, CheckInAnswered(s) \/ CheckInOffline(s) PROVE [Next]_vars
  BY <1>1, <1>3 DEF CheckInAnswered, CheckInOffline, NetworkFails, Clients
<1>4. ASSUME NEW f \in Flushers, FlushStart(f) PROVE [Next]_vars
  BY <1>4 DEF FlushStart, vars
<1>5. ASSUME NEW f \in Flushers, FlushSent(f) \/ FlushFailed(f) \/ CloseTab(f)
      PROVE  [Next]_vars
  BY <1>1, <1>5 DEF FlushSent, FlushFailed, CloseTab, NetworkFails, Clients
<1>6. ASSUME Server PROVE [Next]_vars
  BY <1>6 DEF Server, Next
<1>7. ASSUME UNCHANGED scanVars PROVE [Next]_vars
  BY <1>7 DEF scanVars
<1>. QED BY <1>2, <1>3, <1>4, <1>5, <1>6, <1>7, ScanSteps

LEMMA ScanOnward ==
  ASSUME ScanInv, [ScanNext]_scanVars
  PROVE  /\ ServerInv' /\ TypeOK'
         /\ captured' \in Seq(Scans) /\ Ids \subseteq Ids' /\ abandoned \subseteq abandoned'
         /\ unresolved \subseteq unresolved' /\ unsaved \subseteq unsaved'
         /\ \A i \in Ids : captured'[i] = captured[i]
         /\ \A i \in Ids : Settled(i) => Settled(i)'
         /\ \A s \in Scans : visits[s] = 1 => visits'[s] = 1
<1>1. ServerInv /\ ScanTypeOK /\ [Next]_vars
  BY ScanStepServes DEF ScanInv
<1>2. ServerInv' /\ TypeOK'
  BY <1>1, ServerSteps DEF ServerInv, CapInv
<1>3. \A s \in Scans : /\ visits[s] > 0 => visits'[s] > 0
                       /\ visits[s] = 1 => visits'[s] = 1
  BY <1>1, ServerSteps DEF Scans
<1>4. captured \in Seq(Scans) /\ Ids = 1..Len(captured) /\ Len(captured) \in Nat
  BY <1>1 DEF ScanTypeOK, Ids
<1>5. captured' = captured \/ \E s \in Scans : captured' = Append(captured, s)
  BY <1>1, ScanSteps DEF Sends, CheckInAnswered, CheckInOffline, EnqueueScan, FlushStart,
     FlushSent, FlushFailed, CloseTab, Server, clientVars, scanVars
<1>6. captured' \in Seq(Scans) /\ Ids \subseteq Ids' /\ \A i \in Ids : captured'[i] = captured[i]
  <2>1. CASE captured' = captured
    BY <1>4, <2>1 DEF Ids
  <2>2. ASSUME NEW s \in Scans, captured' = Append(captured, s)
        PROVE  captured' \in Seq(Scans) /\ Ids \subseteq Ids'
               /\ \A i \in Ids : captured'[i] = captured[i]
    <3>1. captured' \in Seq(Scans) /\ Len(captured') = Len(captured) + 1
          /\ \A i \in 1..Len(captured) : captured'[i] = captured[i]
      BY <1>4, <2>2
    <3>. QED BY <1>4, <3>1 DEF Ids
  <2>. QED BY <1>5, <2>1, <2>2
<1>7. /\ abandoned \subseteq abandoned' /\ unresolved \subseteq unresolved'
      /\ unsaved \subseteq unsaved'
  BY <1>1, ScanSteps DEF Sends, CheckInAnswered, CheckInOffline, EnqueueScan, FlushStart,
     FlushSent, FlushFailed, Drop, MarkAttempt, CloseTab, Server, clientVars, scanVars
<1>8. ASSUME NEW i \in Ids, Settled(i) PROVE Settled(i)'
  <2>1. captured[i] \in Scans /\ captured'[i] = captured[i]
    BY <1>4, <1>6
  <2>. QED BY <1>3, <1>7, <1>8, <2>1 DEF Settled, Recorded
<1>. QED BY <1>2, <1>3, <1>6, <1>7, <1>8

\* Whoever is answered "ok" is answered about a visit on record.
LEMMA OkIsRecorded ==
  ASSUME ScanInv, NEW c \in Clients, Answered(c, {"ok"})
  PROVE  /\ visits[handler[waits[c]].event] = 1 /\ WaitsWell(c)
         /\ UNCHANGED visits
<1>1. WaitsWell(c)
  BY DEF Answered, ScanInv, WaitOK
<1>2. visits[handler[waits[c]].event] = 1
  BY <1>1 DEF Answered, ScanInv, ServerInv, OkOnRecord, WaitsWell
<1>. QED BY <1>1, <1>2 DEF Answered, Leave

----------------------------------------------------------------------------
(* The store.                                                              *)

LEMMA StoreTypes ==
  ASSUME ScanInv, [ScanNext]_scanVars
  PROVE  /\ DOMAIN stored' \subseteq Ids'
         /\ \A i \in DOMAIN stored' : stored'[i] \in 0..MaxAttempts - 1
         /\ abandoned' \subseteq Ids' /\ unresolved' \subseteq Ids' /\ unsaved' \subseteq Scans
<1>. DEFINE Lists == /\ abandoned' \subseteq Ids' /\ unresolved' \subseteq Ids'
                     /\ unsaved' \subseteq Scans
<1>1. ScanTypeOK /\ MaxAttempts \in Nat \ {0}
  BY ClientsAssumption DEF ScanInv
<1>2. Ids \subseteq Ids'
  BY ScanOnward
<1>3. /\ DOMAIN stored \subseteq Ids /\ abandoned \subseteq Ids
      /\ unresolved \subseteq Ids /\ unsaved \subseteq Scans
      /\ \A i \in DOMAIN stored : stored[i] \in 0..MaxAttempts - 1
  BY <1>1 DEF ScanTypeOK
<1>4. ASSUME NEW i, stored' = Without(i) PROVE
        /\ DOMAIN stored' \subseteq Ids'
        /\ \A k \in DOMAIN stored' : stored'[k] \in 0..MaxAttempts - 1
  BY <1>2, <1>3, <1>4 DEF Without
<1>5. ASSUME NEW i \in Ids', NEW n \in 0..MaxAttempts - 1, stored' = With(i, n) PROVE
        /\ DOMAIN stored' \subseteq Ids'
        /\ \A k \in DOMAIN stored' : stored'[k] \in 0..MaxAttempts - 1
  BY <1>2, <1>3, <1>5 DEF With
<1>6. ASSUME UNCHANGED <<stored, abandoned, unresolved, unsaved>>
      PROVE  /\ DOMAIN stored' \subseteq Ids' /\ Lists
             /\ \A i \in DOMAIN stored' : stored'[i] \in 0..MaxAttempts - 1
  BY <1>2, <1>3, <1>6
<1>7. ASSUME NEW s \in Scans, CheckInOffline(s)
      PROVE  /\ DOMAIN stored' \subseteq Ids' /\ Lists
             /\ \A i \in DOMAIN stored' : stored'[i] \in 0..MaxAttempts - 1
  <2>1. CASE captured' = Append(captured, s) /\ stored' = With(Len(captured) + 1, 0)
    <3>1. captured \in Seq(Scans)
      BY <1>1 DEF ScanTypeOK
    <3>2. Len(captured) + 1 \in Ids'
      BY <2>1, <3>1 DEF Ids
    <3>3. 0 \in 0..MaxAttempts - 1 /\ UNCHANGED <<abandoned, unresolved>>
          /\ unsaved' \subseteq Scans
      BY <1>1, <1>3, <1>7 DEF CheckInOffline, EnqueueScan
    <3>. QED BY <1>2, <1>3, <1>5, <2>1, <3>2, <3>3
  <2>2. CASE unsaved' = unsaved \cup {s} /\ UNCHANGED <<captured, stored>>
    BY <1>2, <1>3, <1>7, <2>2 DEF CheckInOffline
  <2>. QED BY <1>7, <2>1, <2>2 DEF CheckInOffline, EnqueueScan
<1>8. ASSUME NEW f \in Flushers, FlushSent(f)
      PROVE  /\ DOMAIN stored' \subseteq Ids' /\ Lists
             /\ \A i \in DOMAIN stored' : stored'[i] \in 0..MaxAttempts - 1
  <2>1. Scan(f).id \in Ids
    <3>1. WaitsWell(f)
      BY <1>8 DEF FlushSent, Answered, ScanInv, WaitOK, Clients
    <3>. QED BY <1>1, <3>1, HeadFacts DEF WaitsWell
  <2>. QED BY <1>2, <1>3, <1>4, <1>8, <2>1 DEF FlushSent
<1>9. ASSUME NEW f \in Flushers, FlushFailed(f)
      PROVE  /\ DOMAIN stored' \subseteq Ids' /\ Lists
             /\ \A i \in DOMAIN stored' : stored'[i] \in 0..MaxAttempts - 1
  <2>1. todo[f] # <<>> /\ (Drop(f) \/ (~GivesUp(f) /\ MarkAttempt(f)))
    BY <1>9 DEF FlushFailed
  <2>2. Scan(f).id \in Ids /\ Scan(f).attempts \in 0..MaxAttempts - 1
    BY <1>1, <2>1, HeadFacts
  <2>3. CASE Drop(f)
    BY <1>2, <1>3, <1>4, <1>9, <2>2, <2>3 DEF Drop, FlushFailed
  <2>4. CASE ~GivesUp(f) /\ MarkAttempt(f)
    <3>1. Scan(f).attempts + 1 \in 0..MaxAttempts - 1
      BY <1>1, <2>2, <2>4 DEF GivesUp
    <3>2. stored' = With(Scan(f).id, Scan(f).attempts + 1) /\ UNCHANGED <<abandoned, unresolved, unsaved>>
      BY <1>9, <2>4 DEF MarkAttempt, FlushFailed
    <3>. QED BY <1>2, <1>3, <1>5, <2>2, <3>1, <3>2
  <2>. QED BY <2>1, <2>3, <2>4
<1>10. ASSUME \/ \E c \in Clients, s \in Scans : Sends(c, s)
              \/ \E s \in Scans : CheckInAnswered(s)
              \/ \E f \in Flushers : FlushStart(f) \/ CloseTab(f)
              \/ Server
              \/ UNCHANGED scanVars
       PROVE  UNCHANGED <<stored, abandoned, unresolved, unsaved>>
  BY <1>10 DEF Sends, CheckInAnswered, FlushStart, CloseTab, Server, clientVars, scanVars
<1>. QED BY <1>1, <1>6, <1>7, <1>8, <1>9, <1>10, ScanSteps

\* An id leaves the store only as the head of a flusher's list, which has been
\* recorded or is dropped.
LEMMA WhoLeaves ==
  ASSUME ScanInv, [ScanNext]_scanVars, NEW j \in DOMAIN stored, j \notin DOMAIN stored'
  PROVE  \E f \in Flushers : /\ todo[f] # <<>> /\ j = Scan(f).id
                             /\ Settled(j)'
<1>1. ScanTypeOK
  BY DEF ScanInv
<1>2. \A i, n : stored' = With(i, n) => j \in DOMAIN stored'
  BY DEF With
<1>3. ASSUME NEW f \in Flushers, FlushSent(f)
      PROVE  todo[f] # <<>> /\ j = Scan(f).id /\ Settled(j)'
  <2>1. stored' = Without(Scan(f).id) /\ UNCHANGED captured
    BY <1>3 DEF FlushSent
  <2>2. WaitsWell(f)
    BY <1>3 DEF FlushSent, Answered, ScanInv, WaitOK, Clients
  <2>3. todo[f] # <<>> /\ handler[waits[f]].event = captured[Scan(f).id]
    BY <2>2 DEF WaitsWell
  <2>4. j = Scan(f).id
    BY <2>1 DEF Without
  <2>5. CASE Answered(f, {"ok"})
    <3>1. visits[handler[waits[f]].event] = 1 /\ UNCHANGED visits
      BY <2>5, OkIsRecorded DEF Clients
    <3>. QED BY <2>1, <2>3, <2>4, <3>1 DEF Settled, Recorded
  <2>6. CASE unresolved' = unresolved \cup {Scan(f).id}
    BY <2>3, <2>4, <2>6 DEF Settled
  <2>. QED BY <1>3, <2>5, <2>6 DEF FlushSent
<1>4. ASSUME NEW f \in Flushers, FlushFailed(f)
      PROVE  todo[f] # <<>> /\ j = Scan(f).id /\ Settled(j)'
  <2>1. todo[f] # <<>> /\ (Drop(f) \/ MarkAttempt(f))
    BY <1>4 DEF FlushFailed
  <2>2. ~MarkAttempt(f)
    BY <1>2 DEF MarkAttempt
  <2>3. stored' = Without(Scan(f).id) /\ abandoned' = abandoned \cup {Scan(f).id}
    BY <2>1, <2>2 DEF Drop
  <2>. QED BY <2>1, <2>3 DEF Without, Settled
<1>5. ASSUME \/ \E c \in Clients, s \in Scans : Sends(c, s)
             \/ \E s \in Scans : CheckInAnswered(s)
             \/ \E f \in Flushers : FlushStart(f) \/ CloseTab(f)
             \/ Server
             \/ UNCHANGED scanVars
      PROVE  FALSE
  BY <1>5 DEF Sends, CheckInAnswered, FlushStart, CloseTab, Server, clientVars, scanVars
<1>6. ASSUME NEW s \in Scans, CheckInOffline(s) PROVE FALSE
  BY <1>2, <1>6 DEF CheckInOffline, EnqueueScan
<1>. QED BY <1>1, <1>3, <1>4, <1>5, <1>6, ScanSteps

LEMMA NothingLost ==
  ASSUME ScanInv, [ScanNext]_scanVars
  PROVE  NotLost'
<1>. SUFFICES ASSUME NEW i \in Ids', i \notin DOMAIN stored' PROVE Settled(i)'
  BY DEF NotLost
<1>1. ScanTypeOK /\ NotLost
  BY DEF ScanInv
<1>2. CASE i \notin Ids
  <2>1. captured' # captured
    BY <1>2 DEF Ids
  <2>2. PICK s \in Scans : CheckInOffline(s)
    BY <1>1, <2>1, ScanSteps DEF Sends, CheckInAnswered, FlushStart, FlushSent,
       FlushFailed, CloseTab, Server, clientVars, scanVars
  <2>3. captured' = Append(captured, s) /\ captured \in Seq(Scans)
        /\ stored' = With(Len(captured) + 1, 0)
    BY <1>1, <2>1, <2>2 DEF CheckInOffline, EnqueueScan, ScanTypeOK
  <2>4. i = Len(captured) + 1
    BY <1>2, <2>3 DEF Ids
  <2>. QED BY <2>3, <2>4 DEF With
<1>3. CASE i \in Ids /\ i \in DOMAIN stored
  BY <1>3, WhoLeaves
<1>4. CASE i \in Ids /\ i \notin DOMAIN stored
  BY <1>1, <1>4, ScanOnward DEF NotLost
<1>. QED BY <1>2, <1>3, <1>4


----------------------------------------------------------------------------
(* The lists of the flushers.                                              *)

\* A list is read from the store, loses its head, or is given up.
LEMMA TodoSteps ==
  ASSUME ScanTypeOK, [ScanNext]_scanVars, NEW f \in Flushers
  PROVE  \/ todo'[f] = todo[f]
         \/ todo'[f] = <<>>
         \/ todo'[f] = Backlog /\ UNCHANGED <<vars, captured, stored, abandoned, unresolved>>
         \/ todo[f] # <<>> /\ todo'[f] = Tail(todo[f]) /\ Scan(f).id \notin DOMAIN stored'
<1>1. ScanTypeOK /\ todo = [g \in Flushers |-> todo[g]]
  BY DEF ScanTypeOK
<1>2. ASSUME NEW g \in Flushers, FlushStart(g)
      PROVE  \/ todo'[f] = todo[f]
             \/ todo'[f] = Backlog /\ UNCHANGED <<vars, captured, stored, abandoned, unresolved>>
  BY <1>1, <1>2 DEF FlushStart
<1>3. ASSUME NEW g \in Flushers, todo[g] # <<>>, GoOn(g), stored' = Without(Scan(g).id)
      PROVE  todo'[f] = todo[f] \/ (/\ todo[f] # <<>> /\ todo'[f] = Tail(todo[f])
                                    /\ Scan(f).id \notin DOMAIN stored')
  BY <1>1, <1>3 DEF GoOn, Without
<1>4. ASSUME NEW g \in Flushers, Stop(g) PROVE todo'[f] = todo[f] \/ todo'[f] = <<>>
  BY <1>1, <1>4 DEF Stop
<1>5. ASSUME NEW g \in Flushers, FlushSent(g)
      PROVE  todo'[f] = todo[f] \/ todo'[f] = <<>>
             \/ (/\ todo[f] # <<>> /\ todo'[f] = Tail(todo[f])
                 /\ Scan(f).id \notin DOMAIN stored')
  <2>1. GoOn(g) /\ stored' = Without(Scan(g).id)
    BY <1>5 DEF FlushSent
  <2>2. CASE todo[g] = <<>>
    BY <1>1, <2>1, <2>2 DEF GoOn
  <2>. QED BY <1>3, <2>1, <2>2
<1>6. ASSUME NEW g \in Flushers, FlushFailed(g)
      PROVE  todo'[f] = todo[f] \/ todo'[f] = <<>>
             \/ (/\ todo[f] # <<>> /\ todo'[f] = Tail(todo[f])
                 /\ Scan(f).id \notin DOMAIN stored')
  <2>1. todo[g] # <<>> /\ (Drop(g) \/ MarkAttempt(g))
    BY <1>6 DEF FlushFailed
  <2>. QED BY <1>3, <1>4, <2>1 DEF Drop, MarkAttempt
<1>7. ASSUME NEW g \in Flushers, CloseTab(g) PROVE todo'[f] = todo[f] \/ todo'[f] = <<>>
  BY <1>4, <1>7 DEF CloseTab
<1>8. ASSUME \/ \E c \in Clients, s \in Scans : Sends(c, s)
             \/ \E s \in Scans : CheckInAnswered(s) \/ CheckInOffline(s)
             \/ Server
             \/ UNCHANGED scanVars
      PROVE  todo' = todo
  BY <1>8 DEF Sends, CheckInAnswered, CheckInOffline, Server, clientVars, scanVars
<1>. QED BY <1>1, <1>2, <1>5, <1>6, <1>7, <1>8, ScanSteps

LEMMA TodoTypes ==
  ASSUME ScanInv, [ScanNext]_scanVars
  PROVE  todo' \in [Flushers -> Seq([id : Ids', attempts : 0..MaxAttempts - 1])]
<1>. DEFINE Q == [id : Ids', attempts : 0..MaxAttempts - 1]
<1>1. ScanTypeOK /\ Queued \subseteq Q
  BY ScanOnward DEF ScanInv, Queued
<1>2. DOMAIN todo' = Flushers /\ todo' = [f \in Flushers |-> todo'[f]]
  <2>1. todo = [f \in Flushers |-> todo[f]]
    BY <1>1 DEF ScanTypeOK
  <2>2. todo' = todo \/ \E f \in Flushers : \E t : todo' = [todo EXCEPT ![f] = t]
    BY <1>1, ScanSteps DEF Sends, CheckInAnswered, CheckInOffline, FlushStart, FlushSent,
       FlushFailed, Drop, MarkAttempt, CloseTab, GoOn, Stop, Server, clientVars, scanVars
  <2>. QED BY <2>1, <2>2
<1>3. ASSUME NEW f \in Flushers PROVE todo'[f] \in Seq(Q)
  <2>1. todo[f] \in Seq(Queued)
    BY <1>1 DEF ScanTypeOK, Queued
  <2>2. /\ <<>> \in Seq(Queued) /\ Backlog \in Seq(Queued)
        /\ todo[f] # <<>> => Tail(todo[f]) \in Seq(Queued)
    BY <1>1, HeadFacts, BacklogFacts
  <2>3. todo'[f] \in Seq(Queued)
    BY <1>1, <2>1, <2>2, TodoSteps
  <2>. HIDE DEF Q
  <2>. QED BY <1>1, <2>3, SeqWiden
<1>. QED BY <1>2, <1>3

LEMMA AheadStaysSettled ==
  ASSUME ScanInv, [ScanNext]_scanVars
  PROVE  SettledAhead'
<1>. SUFFICES ASSUME NEW f \in Flushers, NEW n \in 1..Len(todo'[f]),
                     NEW i \in 1..todo'[f][n].id - 1
              PROVE  Settled(i)' \/ \E m \in 1..n - 1 : todo'[f][m].id = i
  BY DEF SettledAhead
<1>1. ScanTypeOK /\ NotLost /\ SettledAhead /\ todo[f] \in Seq(Queued)
  BY DEF ScanInv, ScanTypeOK, Queued
<1>2. Ids = 1..Len(captured) /\ Len(captured) \in Nat
  BY <1>1 DEF ScanTypeOK, Ids
<1>3. \A j \in Ids : Settled(j) => Settled(j)'
  BY ScanOnward
<1>4. \A m \in 1..Len(todo[f]) : todo[f][m].id \in Ids
  <2>1. \A m \in 1..Len(todo[f]) : todo[f][m] \in Queued
    BY <1>1, SeqElements
  <2>. QED BY <2>1 DEF Queued
<1>5. CASE todo'[f] = todo[f]
  <2>1. i \in Ids
    BY <1>2, <1>4, <1>5
  <2>. QED BY <1>1, <1>3, <1>5, <2>1 DEF SettledAhead
<1>6. CASE todo'[f] = <<>>
  BY <1>6
<1>7. CASE todo'[f] = Backlog /\ UNCHANGED <<vars, captured, stored, abandoned, unresolved>>
  <2>1. Backlog \in Seq(Queued) /\ n \in 1..Len(Backlog)
    BY <1>1, <1>7, BacklogFacts
  <2>2. Backlog[n].id \in Ids
    <3>1. Backlog[n] \in Queued
      BY <2>1, SeqElements
    <3>. QED BY <3>1 DEF Queued
  <2>3. i \in Ids /\ i < Backlog[n].id
    BY <1>2, <1>7, <2>2
  <2>4. CASE i \in DOMAIN stored
    BY <1>1, <1>7, <2>1, <2>3, <2>4, BacklogFacts
  <2>5. CASE i \notin DOMAIN stored
    BY <1>1, <1>3, <2>3, <2>5 DEF NotLost
  <2>. QED BY <2>4, <2>5
<1>8. CASE todo[f] # <<>> /\ todo'[f] = Tail(todo[f]) /\ Scan(f).id \notin DOMAIN stored'
  <2>1. /\ Scan(f) = todo[f][1] /\ Scan(f).id \in Ids
        /\ Len(todo[f]) \in Nat \ {0} /\ Len(Tail(todo[f])) = Len(todo[f]) - 1
        /\ \A m \in 1..Len(todo[f]) - 1 : Tail(todo[f])[m] = todo[f][m + 1]
    BY <1>1, <1>8, HeadFacts
  <2>2. n \in 1..Len(todo[f]) - 1 /\ n + 1 \in 1..Len(todo[f]) /\ todo'[f][n] = todo[f][n + 1]
    BY <1>8, <2>1
  <2>3. i \in Ids /\ i \in 1..todo[f][n + 1].id - 1
    BY <1>2, <1>4, <2>2
  <2>4. CASE Settled(i)
    BY <1>3, <2>3, <2>4
  <2>5. ASSUME NEW m \in 1..n, todo[f][m].id = i
        PROVE  Settled(i)' \/ \E k \in 1..n - 1 : todo'[f][k].id = i
    <3>1. CASE m = 1
      <4>1. i = Scan(f).id /\ i \notin DOMAIN stored'
        BY <1>8, <2>1, <2>5, <3>1
      <4>2. CASE i \in DOMAIN stored
        BY <4>1, <4>2, WhoLeaves
      <4>3. CASE i \notin DOMAIN stored
        BY <1>1, <1>3, <2>3, <4>3 DEF NotLost
      <4>. QED BY <4>2, <4>3
    <3>2. CASE m # 1
      <4>1. m - 1 \in 1..n - 1 /\ m - 1 \in 1..Len(todo[f]) - 1 /\ (m - 1) + 1 = m
        BY <2>1, <2>2, <3>2
      <4>2. todo'[f][m - 1].id = i
        BY <1>8, <2>1, <2>5, <4>1
      <4>. QED BY <4>1, <4>2
    <3>. QED BY <3>1, <3>2
  <2>6. Settled(i) \/ \E m \in 1..(n + 1) - 1 : todo[f][m].id = i
    BY <1>1, <2>2, <2>3 DEF SettledAhead
  <2>7. (n + 1) - 1 = n
    OBVIOUS
  <2>. QED BY <2>4, <2>5, <2>6, <2>7
<1>. QED BY <1>1, <1>5, <1>6, <1>7, <1>8, TodoSteps

----------------------------------------------------------------------------
(* Who waits for which request.                                            *)

\* A step about one client leaves the other clients' requests alone.
LEMMA OthersWait ==
  ASSUME ScanInv, [ScanNext]_scanVars, NEW c \in Clients,
         \A d \in Clients \ {c} : waits'[d] = waits[d],
         \A d \in Flushers \ {c} : todo'[d] = todo[d],
         \A h \in Handlers : Leave(h) => \A d \in Clients \ {c} : waits[d] # h,
         waits'[c] = None \/ WaitsWell(c)'
  PROVE  WaitOK'
<1>1. WaitOK /\ ScanTypeOK /\ IInv /\ None \notin Handlers
  BY ClientsAssumption DEF ScanInv, ServerInv, CapInv
<1>2. ASSUME NEW d \in Clients \ {c}, waits'[d] # None PROVE WaitsWell(d)'
  <2>1. WaitsWell(d) /\ waits'[d] = waits[d] /\ waits[d] \in Handlers
    BY <1>1, <1>2 DEF WaitOK, WaitsWell
  <2>2. handler'[waits[d]] # Idle /\ handler'[waits[d]].event = handler[waits[d]].event
    <3>1. ~Leave(waits[d])
      BY <2>1
    <3>2. [Next]_vars
      BY <1>1, ScanStepServes
    <3>. QED BY <1>1, <2>1, <3>1, <3>2, RequestStays DEF WaitsWell
  <2>3. \A x \in Clients \ {d} : waits'[x] # waits'[d]
    <3>1. ASSUME NEW x \in Clients \ {d}, x # c PROVE waits'[x] # waits'[d]
      BY <2>1, <3>1 DEF WaitsWell
    <3>2. waits'[c] # waits'[d]
      <4>1. CASE waits'[c] = None
        BY <1>2, <4>1
      <4>2. CASE WaitsWell(c)'
        BY <4>2 DEF WaitsWell
      <4>. QED BY <4>1, <4>2
    <3>. QED BY <3>1, <3>2
  <2>4. ASSUME d \in Flushers
        PROVE  todo'[d] # <<>> /\ handler'[waits'[d]].event = captured'[Scan(d)'.id]
    <3>1. todo[d] # <<>> /\ handler[waits[d]].event = captured[Scan(d).id] /\ todo'[d] = todo[d]
      BY <2>1, <2>4 DEF WaitsWell
    <3>2. Scan(d)' = Scan(d)
      BY <3>1 DEF Scan
    <3>3. captured'[Scan(d).id] = captured[Scan(d).id]
      BY <1>1, <2>4, <3>1, HeadFacts, ScanOnward
    <3>. QED BY <2>1, <2>2, <3>1, <3>2, <3>3
  <2>5. d \in Scans => handler'[waits'[d]].event = d
    BY <2>1, <2>2 DEF WaitsWell
  <2>. QED BY <2>1, <2>2, <2>3, <2>4, <2>5 DEF WaitsWell
<1>. QED BY <1>2 DEF WaitOK

\* No step but an answer and the server's own lets a handler leave.
LEMMA ReceiveLeavesNobody ==
  ASSUME IInv, NEW h \in Handlers, NEW e \in Events, Receive(h, e)
  PROVE  \A g \in Handlers : ~Leave(g)
<1>. SUFFICES ASSUME NEW g \in Handlers, Leave(g) PROVE FALSE
  OBVIOUS
<1>1. handler'[h] = [phase |-> "evaluate", event |-> e]
  BY DEF Receive, IInv, Shape
<1>2. handler'[h] # Idle /\ handler[h] = Idle
  <2>1. Idle.phase # "evaluate"
    BY DEF Idle
  <2>. QED BY <1>1, <2>1 DEF Receive
<1>3. handler[g] # Idle /\ handler' = [handler EXCEPT ![g] = Idle]
  BY DEF Leave
<1>. QED BY <1>2, <1>3 DEF IInv, Shape

LEMMA LeavesAlone ==
  ASSUME IInv, NEW h \in Handlers, Leave(h)
  PROVE  \A g \in Handlers : Leave(g) => g = h
<1>. SUFFICES ASSUME NEW g \in Handlers, Leave(g), g # h PROVE FALSE
  OBVIOUS
<1>1. handler'[g] = Idle /\ handler'[g] = handler[g]
  BY DEF Leave, IInv, Shape
<1>. QED BY <1>1 DEF Leave

LEMMA QuietLeavesNobody ==
  ASSUME IInv, UNCHANGED handler
  PROVE  \A g \in Handlers : ~Leave(g)
BY DEF Leave, IInv, Shape

LEMMA WorkChanges ==
  ASSUME IInv, NEW h \in Handlers, Work(h)
  PROVE  /\ handler[h] # Idle /\ handler'[h] # handler[h] /\ handler'[h] # Idle
         /\ \A g \in Handlers \ {h} : handler'[g] = handler[g]
<1>1. handler[h] # Idle
  BY DEF Work, Evaluate, Refuse, Unresolved, Record, Replay, FollowUp, Fail, Idle
<1>2. \E r : handler' = [handler EXCEPT ![h] = r] /\ r.phase # "idle" /\ r.phase # handler[h].phase
  <2>1. CASE Evaluate(h)
    <3>1. PICK a, s, r : /\ handler' = [handler EXCEPT ![h] = r]
                         /\ r = [phase |-> "record", event |-> handler[h].event,
                                 awards |-> a, seen |-> s]
      BY <2>1 DEF Evaluate, IInv, Shape
    <3>2. r.phase = "record"
      BY <3>1
    <3>. QED BY <2>1, <3>1, <3>2 DEF Evaluate
  <2>2. CASE ~Evaluate(h)
    <3>1. PICK p, r : /\ handler' = [handler EXCEPT ![h] = r]
                      /\ r = [phase |-> p, event |-> handler[h].event]
                      /\ p \in {"refused", "unknown", "follow", "failed", "ok"}
                      /\ handler[h].phase # p
      BY <2>2 DEF Work, Refuse, Unresolved, Record, Replay, FollowUp, Fail, GoTo, IInv, Shape
    <3>2. r.phase = p
      BY <3>1
    <3>. QED BY <3>1, <3>2
  <2>. QED BY <2>1, <2>2
<1>. QED BY <1>1, <1>2 DEF IInv, Shape, Idle

LEMMA WaitStays ==
  ASSUME ScanInv, [ScanNext]_scanVars
  PROVE  WaitOK'
<1>1. WaitOK /\ ScanTypeOK /\ IInv
  BY DEF ScanInv, ServerInv, CapInv
<1>2. waits \in [Clients -> Handlers \cup {None}] /\ todo = [f \in Flushers |-> todo[f]]
      /\ Scans \subseteq Clients /\ Flushers \subseteq Clients /\ Scans \cap Flushers = {}
      /\ None \notin Handlers
  BY <1>1, ClientsAssumption DEF ScanTypeOK, Clients
<1>3. ASSUME NEW c \in Clients, waits' = [waits EXCEPT ![c] = None],
             \A d \in Flushers \ {c} : todo'[d] = todo[d],
             \A h \in Handlers : Leave(h) => h = waits[c]
      PROVE  WaitOK'
  <2>1. \A h \in Handlers : Leave(h) => \A d \in Clients \ {c} : waits[d] # h
    <3>. SUFFICES ASSUME NEW h \in Handlers, Leave(h), NEW d \in Clients \ {c}
                  PROVE  waits[d] # h
      OBVIOUS
    <3>1. h = waits[c] /\ waits[c] # None
      BY <1>2, <1>3
    <3>. QED BY <1>1, <3>1 DEF WaitOK, WaitsWell
  <2>2. waits'[c] = None /\ \A d \in Clients \ {c} : waits'[d] = waits[d]
    BY <1>2, <1>3
  <2>. QED BY <1>3, <2>1, <2>2, OthersWait
<1>4. ASSUME NEW c \in Clients, NEW R, Answered(c, R),
             \A d \in Flushers \ {c} : todo'[d] = todo[d]
      PROVE  WaitOK'
  <2>1. waits[c] \in Handlers /\ Leave(waits[c]) /\ waits' = [waits EXCEPT ![c] = None]
    BY <1>2, <1>4 DEF Answered
  <2>2. \A h \in Handlers : Leave(h) => h = waits[c]
    BY <1>1, <2>1, LeavesAlone
  <2>. QED BY <1>3, <1>4, <2>1, <2>2
<1>5. ASSUME NEW c \in Clients, NetworkFails(c),
             \A d \in Flushers \ {c} : todo'[d] = todo[d]
      PROVE  WaitOK'
  <2>1. waits' = [waits EXCEPT ![c] = None] /\ UNCHANGED handler
    BY <1>5 DEF NetworkFails, vars
  <2>2. \A h \in Handlers : ~Leave(h)
    BY <1>1, <2>1, QuietLeavesNobody
  <2>. QED BY <1>3, <1>5, <2>1, <2>2
<1>6. ASSUME NEW c \in Clients, NEW s \in Scans, Sends(c, s) PROVE WaitOK'
  <2>1. PICK h \in Handlers : Receive(h, s) /\ waits' = [waits EXCEPT ![c] = h]
    BY <1>6 DEF Sends, Send
  <2>2. /\ \A d \in Clients \ {c} : waits'[d] = waits[d]
        /\ waits'[c] = h
        /\ todo' = todo /\ captured' = captured
    BY <1>2, <1>6, <2>1 DEF Sends
  <2>3. \A g \in Handlers : ~Leave(g)
    BY <1>1, <2>1, ReceiveLeavesNobody DEF Scans
  <2>4. handler'[h] = [phase |-> "evaluate", event |-> s] /\ handler[h] = Idle
    BY <1>1, <2>1 DEF Receive, IInv, Shape
  <2>5. handler'[h].event = s /\ handler'[h] # Idle
    <3>1. Idle.phase # "evaluate"
      BY DEF Idle
    <3>. QED BY <2>4, <3>1
  <2>6. \A d \in Clients \ {c} : waits'[d] # h
    <3>. SUFFICES ASSUME NEW d \in Clients \ {c}, waits[d] = h PROVE FALSE
      BY <2>2
    <3>1. handler[waits[d]] # Idle
      BY <1>1, <1>2 DEF WaitOK, WaitsWell
    <3>. QED BY <2>4, <3>1
  <2>7. c \in Scans => handler'[h].event = c
    BY <1>2, <1>6, <2>5 DEF Sends
  <2>8. ASSUME c \in Flushers
        PROVE  todo'[c] # <<>> /\ handler'[h].event = captured'[Scan(c)'.id]
    <3>1. todo[c] # <<>> /\ s = captured[Scan(c).id]
      BY <1>2, <1>6, <2>8 DEF Sends
    <3>2. Scan(c)' = Scan(c)
      BY <2>2 DEF Scan
    <3>. QED BY <2>2, <2>5, <3>1, <3>2
  <2>9. WaitsWell(c)'
    BY <2>2, <2>5, <2>6, <2>7, <2>8 DEF WaitsWell
  <2>. QED BY <2>2, <2>3, <2>9, OthersWait
<1>7. ASSUME NEW s \in Scans, CheckInAnswered(s) \/ CheckInOffline(s) PROVE WaitOK'
  BY <1>2, <1>4, <1>5, <1>7 DEF CheckInAnswered, CheckInOffline
<1>8. ASSUME NEW f \in Flushers, FlushSent(f) \/ FlushFailed(f) \/ CloseTab(f) PROVE WaitOK'
  <2>1. \A d \in Flushers \ {f} : todo'[d] = todo[d]
    BY <1>2, <1>8 DEF FlushSent, FlushFailed, Drop, MarkAttempt, CloseTab, GoOn, Stop
  <2>2. \/ \E R : Answered(f, R)
        \/ NetworkFails(f)
    BY <1>8 DEF FlushSent, FlushFailed, CloseTab
  <2>. QED BY <1>2, <1>4, <1>5, <2>1, <2>2
<1>9. ASSUME NEW f \in Flushers, FlushStart(f) PROVE WaitOK'
  <2>1. /\ todo[f] = <<>> /\ waits' = waits /\ handler' = handler
        /\ \A d \in Flushers \ {f} : todo'[d] = todo[d]
    BY <1>2, <1>9 DEF FlushStart, vars
  <2>2. waits[f] = None
    BY <1>1, <1>2, <2>1 DEF WaitOK, WaitsWell
  <2>3. \A h \in Handlers : ~Leave(h)
    BY <1>1, <2>1, QuietLeavesNobody
  <2>. QED BY <1>2, <2>1, <2>2, <2>3, OthersWait
<1>10. ASSUME Server \/ UNCHANGED scanVars PROVE WaitOK'
  <2>1. UNCHANGED <<waits, todo, captured>>
    BY <1>10 DEF Server, clientVars, scanVars
  <2>2. [Next]_vars
    BY <1>1, ScanStepServes
  <2>3. ASSUME NEW c \in Clients, waits[c] # None PROVE ~Leave(waits[c])
    <3>1. waits[c] \in Handlers
      BY <1>2, <2>3
    <3>2. CASE UNCHANGED handler
      BY <1>1, <3>1, <3>2, QuietLeavesNobody
    <3>3. ASSUME NEW h \in Handlers, Leave(h), \A d \in Clients : waits[d] # h
          PROVE  ~Leave(waits[c])
      BY <1>1, <3>1, <3>3, LeavesAlone
    <3>4. ASSUME NEW h \in Handlers, Work(h) PROVE ~Leave(waits[c])
      <4>1. handler[h] # Idle /\ handler'[h] # handler[h] /\ handler'[h] # Idle
            /\ \A g \in Handlers \ {h} : handler'[g] = handler[g]
        BY <1>1, <3>4, WorkChanges
      <4>. QED BY <1>1, <3>1, <4>1 DEF Leave, IInv, Shape
    <3>. QED BY <1>10, <3>2, <3>3, <3>4 DEF Server, scanVars, vars
  <2>. SUFFICES ASSUME NEW c \in Clients, waits[c] # None PROVE WaitsWell(c)'
    BY <2>1 DEF WaitOK
  <2>4. WaitsWell(c) /\ ~Leave(waits[c])
    BY <1>1, <2>3 DEF WaitOK
  <2>5. handler'[waits[c]] # Idle /\ handler'[waits[c]].event = handler[waits[c]].event
    BY <1>1, <2>2, <2>4, RequestStays DEF WaitsWell
  <2>6. Scan(c)' = Scan(c)
    BY <2>1 DEF Scan
  <2>. QED BY <2>1, <2>4, <2>5, <2>6 DEF WaitsWell
<1>. QED BY <1>1, <1>6, <1>7, <1>8, <1>9, <1>10, ScanSteps


----------------------------------------------------------------------------
LEMMA ShownStays ==
  ASSUME ScanInv, [ScanNext]_scanVars
  PROVE  /\ ShownOK' /\ waits' \in [Clients -> Handlers \cup {None}]
         /\ counter' \in [Scans -> {"new", "shown", "saved", "assumed", "error"}]
<1>. DEFINE Seen == /\ ShownOK'
                    /\ counter' \in [Scans -> {"new", "shown", "saved", "assumed", "error"}]
<1>1. /\ ScanTypeOK /\ ShownOK
      /\ counter \in [Scans -> {"new", "shown", "saved", "assumed", "error"}]
      /\ waits \in [Clients -> Handlers \cup {None}]
  BY DEF ScanInv, ScanTypeOK
<1>2. /\ \A s \in Scans : visits[s] = 1 => visits'[s] = 1
      /\ unsaved \subseteq unsaved' /\ Ids \subseteq Ids'
      /\ \A i \in Ids : captured'[i] = captured[i]
  BY ScanOnward
<1>3. ASSUME counter' = counter PROVE Seen
  BY <1>1, <1>2, <1>3 DEF ShownOK
<1>4. ASSUME NEW s \in Scans, NEW t \in {"shown", "saved", "assumed", "error"},
             counter' = [counter EXCEPT ![s] = t], t = "shown" => visits'[s] = 1,
             t = "assumed" => s \in unsaved' \/ \E i \in Ids' : captured'[i] = s
      PROVE  Seen
  BY <1>1, <1>2, <1>4 DEF ShownOK
<1>5. ASSUME NEW s \in Scans, CheckInAnswered(s) PROVE Seen
  <2>1. CASE Answered(s, {"ok"}) /\ counter' = [counter EXCEPT ![s] = "shown"]
    <3>1. WaitsWell(s) /\ visits[handler[waits[s]].event] = 1 /\ UNCHANGED visits
      BY <2>1, OkIsRecorded DEF Clients
    <3>2. visits'[s] = 1
      BY <3>1 DEF WaitsWell
    <3>. QED BY <1>4, <2>1, <3>2
  <2>2. CASE counter' = [counter EXCEPT ![s] = "error"]
    BY <1>4, <2>2
  <2>. QED BY <1>5, <2>1, <2>2 DEF CheckInAnswered
<1>6. ASSUME NEW s \in Scans, CheckInOffline(s) PROVE Seen
  <2>1. PICK t \in {"saved", "assumed"} : counter' = [counter EXCEPT ![s] = t]
    BY <1>6 DEF CheckInOffline
  <2>2. s \in unsaved' \/ \E i \in Ids' : captured'[i] = s
    <3>1. CASE captured' = Append(captured, s)
      <4>1. captured \in Seq(Scans)
        BY <1>1 DEF ScanTypeOK
      <4>2. Len(captured) + 1 \in Ids' /\ captured'[Len(captured) + 1] = s
        BY <3>1, <4>1 DEF Ids
      <4>. QED BY <4>2
    <3>2. CASE unsaved' = unsaved \cup {s}
      BY <3>2
    <3>. QED BY <1>6, <3>1, <3>2 DEF CheckInOffline, EnqueueScan
  <2>. QED BY <1>4, <2>1, <2>2
<1>7. ASSUME \/ \E c \in Clients, s \in Scans : Sends(c, s)
             \/ \E f \in Flushers : FlushStart(f) \/ FlushSent(f) \/ FlushFailed(f) \/ CloseTab(f)
             \/ Server
             \/ UNCHANGED scanVars
      PROVE  counter' = counter
  BY <1>7 DEF Sends, FlushStart, FlushSent, FlushFailed, CloseTab, Server, clientVars, scanVars
<1>8. ASSUME NEW c, NEW w \in Handlers \cup {None}, waits' = [waits EXCEPT ![c] = w]
      PROVE  waits' \in [Clients -> Handlers \cup {None}]
  BY <1>1, <1>8
<1>9. waits' \in [Clients -> Handlers \cup {None}]
  <2>1. ASSUME NEW c \in Clients, NEW s \in Scans, Sends(c, s)
        PROVE  waits' \in [Clients -> Handlers \cup {None}]
    BY <1>8, <2>1 DEF Sends, Send
  <2>2. ASSUME NEW s \in Scans, CheckInAnswered(s) \/ CheckInOffline(s)
        PROVE  waits' \in [Clients -> Handlers \cup {None}]
    BY <1>8, <2>2 DEF CheckInAnswered, CheckInOffline, Answered, NetworkFails
  <2>3. ASSUME NEW f \in Flushers, FlushSent(f) \/ FlushFailed(f) \/ CloseTab(f)
        PROVE  waits' \in [Clients -> Handlers \cup {None}]
    BY <1>8, <2>3 DEF FlushSent, FlushFailed, CloseTab, Answered, NetworkFails
  <2>4. ASSUME (\E f \in Flushers : FlushStart(f)) \/ Server \/ UNCHANGED scanVars
        PROVE  waits' \in [Clients -> Handlers \cup {None}]
    BY <1>1, <2>4 DEF FlushStart, Server, clientVars, scanVars
  <2>. QED BY <1>1, <2>1, <2>2, <2>3, <2>4, ScanSteps
<1>. QED BY <1>1, <1>3, <1>5, <1>6, <1>7, <1>9, ScanSteps

LEMMA ScanInitInv == ScanInit => ScanInv
<1>. SUFFICES ASSUME ScanInit PROVE ScanInv
  OBVIOUS
<1>1. CapInv /\ TypeOK
  BY CapInitially DEF ScanInit, CapInv
<1>2. OkOnRecord
  BY DEF ScanInit, Init, OkOnRecord, Idle
<1>3. Ids = {} /\ DOMAIN stored = {}
  BY DEF ScanInit, Ids, Empty
<1>4. ScanTypeOK
  <2>1. counter \in [Scans -> {"new", "shown", "saved", "assumed", "error"}]
        /\ waits \in [Clients -> Handlers \cup {None}]
    BY DEF ScanInit
  <2>2. todo \in [Flushers -> Seq([id : Ids, attempts : 0..MaxAttempts - 1])]
    BY DEF ScanInit
  <2>. QED BY <1>1, <1>3, <2>1, <2>2 DEF ScanInit, ScanTypeOK
<1>5. WaitOK /\ NotLost /\ SettledAhead /\ ShownOK
  BY <1>3 DEF ScanInit, WaitOK, NotLost, SettledAhead, ShownOK, Clients
<1>. QED BY <1>1, <1>2, <1>4, <1>5 DEF ScanInv, ServerInv

LEMMA ScanNextInv == ScanInv /\ [ScanNext]_scanVars => ScanInv'
<1>. SUFFICES ASSUME ScanInv, [ScanNext]_scanVars PROVE ScanInv'
  OBVIOUS
<1>1. ServerInv' /\ TypeOK' /\ captured' \in Seq(Scans)
  BY ScanOnward
<1>2. ScanTypeOK'
  BY <1>1, StoreTypes, TodoTypes, ShownStays DEF ScanTypeOK
<1>. QED
  BY <1>1, <1>2, WaitStays, NothingLost, AheadStaysSettled, ShownStays DEF ScanInv

\* The counter's strengthened invariant holds in every reachable state.
THEOREM ScanInvariance == ScanSpec => []ScanInv
BY ScanInitInv, ScanNextInv, PTL DEF ScanSpec

\* "Losing it is not an acceptable outcome": whatever fails, is closed or is sent
\* twice, a scan IndexedDB took is in the store, on record, or among the dropped ones,
\* or was answered without a check-in.
THEOREM SavedScansKept == ScanSpec => []SavedIsKept
<1>1. ScanInv => SavedIsKept
  BY DEF ScanInv, SavedIsKept, NotLost, Kept
<1>. QED BY <1>1, ScanInvariance, PTL

\* A cashier who is shown the server's award has seen a visit that is on record, once;
\* one who is shown an assumed award, a scan the device keeps, unless it was refused.
THEOREM ShownIsOnRecord == ScanSpec => []ShownIsRecorded
<1>1. ScanInv => ShownIsRecorded
  BY DEF ScanInv, ShownOK, ShownIsRecorded, NotLost, Kept
<1>. QED BY <1>1, ScanInvariance, PTL

\* However many flushes overlap, a scan leaves the store only when every scan saved
\* before it has been recorded, dropped or answered without a check-in.
THEOREM ScansLeaveInOrder == ScanSpec => LeavesInOrder
<1>. DEFINE Ordered == \A j \in DOMAIN stored \ DOMAIN stored' : \A i \in 1..j - 1 : Settled(i)
<1>1. ScanInv /\ [ScanNext]_scanVars => Ordered
  <2>. SUFFICES ASSUME ScanInv, [ScanNext]_scanVars,
                       NEW j \in DOMAIN stored \ DOMAIN stored', NEW i \in 1..j - 1
                PROVE  Settled(i)
    OBVIOUS
  <2>1. PICK f \in Flushers : todo[f] # <<>> /\ j = Scan(f).id
    BY WhoLeaves
  <2>2. todo[f][1].id = j /\ 1 \in 1..Len(todo[f])
    BY <2>1, HeadFacts DEF ScanInv
  <2>3. Settled(i) \/ \E m \in 1..1 - 1 : todo[f][m].id = i
    BY <2>2 DEF ScanInv, SettledAhead
  <2>. QED BY <2>3
<1>. QED BY <1>1, ScanInvariance, PTL DEF ScanSpec, LeavesInOrder

----------------------------------------------------------------------------
(* Rewards: purchases, grants and codes.                                   *)

Grants == {Free} \cup [phase : {"read", "inserted"}, customer : Customers, reward : Rewards,
                       seen : Nat]
Screens == {NoCode} \cup [code : Nat \ {0}, seen : {"claimed", "expired"},
                          set : {"expired", "fulfilled"}]

Typed ==
  /\ redemptions \in Seq(Claim)
  /\ handed \in Seq(Nat) /\ Len(handed) = Len(redemptions)
  /\ balance \in [Customers -> Nat]
  /\ applied \subseteq Keys \cup Earnings
  /\ stock \in [Stocked -> Nat]
  /\ now \in 0..Horizon
  /\ till \in [Tills -> Keys \cup {NoKey}]
  /\ grant \in [Granters -> Grants]
  /\ desk \in [Staff -> Screens]
  /\ drifted \subseteq Stocked /\ contested \subseteq Claims /\ unmarked \subseteq Claims

\* A purchase is what its key asks for and is handed over at once; only a code that
\* was given away is ever on a screen.
RowsOK ==
  /\ \A i \in Claims :
       IF redemptions[i].granted THEN redemptions[i].key = NoKey
       ELSE /\ redemptions[i].key \in Keys
            /\ redemptions[i].customer = Tap[redemptions[i].key].customer
            /\ redemptions[i].reward = Tap[redemptions[i].key].reward
            /\ redemptions[i].status = "fulfilled"
  /\ \A s \in Staff : desk[s] # NoCode => desk[s].code \in Claims /\ redemptions[desk[s].code].granted

\* What is marked expired, or is about to be, has run out, and stays so.
LapseOK ==
  /\ \A i \in Claims : redemptions[i].status = "expired" => redemptions[i].expires < now
  /\ \A s \in Staff : desk[s] # NoCode =>
       /\ desk[s].set = "expired" => redemptions[desk[s].code].expires < now
       /\ desk[s].seen = "expired" => desk[s].set = "expired"

\* A grant is about to write a stock that was not empty.
GrantsOK ==
  \A g \in Granters : grant[g] # Free =>
    /\ grant[g].phase = "inserted" => grant[g].reward \in Stocked
    /\ grant[g].reward \in Stocked => grant[g].seen > 0

DebitsOK ==
  /\ \A i \in Claims :
       ~redemptions[i].granted /\ Cost[redemptions[i].reward] > 0 =>
         redemptions[i].key \in applied
  /\ \A k \in applied \cap Keys : Redeemed(k)

\* A key that was never in flight twice is at one till at most, at none once it has
\* been redeemed, and has one row.
KeyOK(k) ==
  /\ \A t, u \in Tills : till[t] = k /\ till[u] = k => t = u
  /\ \A t \in Tills : till[t] = k => ~Redeemed(k)
  /\ \A i, j \in Claims : redemptions[i].key = k /\ redemptions[j].key = k => i = j

KeysOK == \A k \in Keys \ overlapped : KeyOK(k)

RewardInv ==
  /\ Typed /\ RowsOK /\ LapseOK /\ GrantsOK /\ DebitsOK /\ KeysOK
  /\ WithinLimit /\ StockExact /\ HandedOverOnce

----------------------------------------------------------------------------
(* Rows and sets of rows.                                                  *)

LEMMA ClaimsFinite ==
  ASSUME Typed
  PROVE  /\ Claims = 1..Len(redemptions) /\ Len(redemptions) \in Nat
         /\ \A S \in SUBSET Claims : IsFiniteSet(S) /\ Cardinality(S) \in Nat
<1>1. Claims = 1..Len(redemptions) /\ Len(redemptions) \in Nat
  BY DEF Typed, Claims
<1>2. IsFiniteSet(Claims)
  BY <1>1, FS_Interval
<1> QED
  BY <1>1, <1>2, FS_Subset, FS_CardinalityType

\* A new row comes after all others, and nobody has been handed anything for it.
LEMMA Inserted ==
  ASSUME Typed, NEW c \in Claim, Insert(c)
  PROVE  LET n == Len(redemptions) + 1
         IN  /\ redemptions' \in Seq(Claim) /\ handed' \in Seq(Nat)
             /\ Len(handed') = Len(redemptions')
             /\ n \notin Claims /\ n \in Nat \ {0} /\ Claims' = Claims \cup {n}
             /\ redemptions'[n] = c /\ handed'[n] = 0
             /\ \A i \in Claims : redemptions'[i] = redemptions[i] /\ handed'[i] = handed[i]
<1> DEFINE n == Len(redemptions) + 1
<1>1. redemptions \in Seq(Claim) /\ handed \in Seq(Nat) /\ Len(handed) = Len(redemptions)
  BY DEF Typed
<1>2. redemptions' = Append(redemptions, c) /\ handed' = Append(handed, 0)
  BY DEF Insert
<1>3. /\ redemptions' \in Seq(Claim) /\ handed' \in Seq(Nat)
      /\ Len(redemptions') = n /\ Len(handed') = n
      /\ redemptions'[n] = c /\ handed'[n] = 0
      /\ \A i \in 1..Len(redemptions) : redemptions'[i] = redemptions[i] /\ handed'[i] = handed[i]
  BY <1>1, <1>2
<1>4. Claims = 1..Len(redemptions) /\ Claims' = 1..n
  BY <1>1, <1>3 DEF Claims
<1> QED
  BY <1>1, <1>3, <1>4

LEMMA AddsOne ==
  ASSUME NEW S, IsFiniteSet(S), NEW x, x \notin S
  PROVE  IsFiniteSet(S \cup {x}) /\ Cardinality(S \cup {x}) = Cardinality(S) + 1
BY FS_AddElement

LEMMA PaysNat ==
  ASSUME RewardInv, NEW k \in Keys, CanPay(k), Pay(k)
  PROVE  /\ balance' \in [Customers -> Nat] /\ applied' \subseteq Keys \cup Earnings
         /\ applied' \in {applied, applied \cup {k}}
         /\ applied \subseteq applied'
         /\ Cost[Tap[k].reward] > 0 => k \in applied'
<1>1. /\ Cost[Tap[k].reward] \in Nat /\ Tap[k].customer \in Customers
      /\ balance \in [Customers -> Nat] /\ applied \subseteq Keys \cup Earnings
  BY RewardsAssumption, KeysAssumption DEF RewardInv, Typed
<1>2. CASE Cost[Tap[k].reward] = 0 \/ k \in applied
  BY <1>1, <1>2 DEF Pay, points
<1>3. CASE ~(Cost[Tap[k].reward] = 0 \/ k \in applied)
  <2>1. /\ PointsOp[k].kind = "debit" /\ PointsOp[k].acct = Tap[k].customer
        /\ PointsOp[k].amount = Cost[Tap[k].reward]
    BY DEF PointsOp
  <2>2. /\ applied' = applied \cup {k}
        /\ balance' = [balance EXCEPT ![Tap[k].customer] = @ - Cost[Tap[k].reward]]
    BY <1>3, <2>1 DEF Pay, Points!Apply, Points!Earn, Points!Spend
  <2>3. balance[Tap[k].customer] >= Cost[Tap[k].reward] /\ balance[Tap[k].customer] \in Nat
    BY <1>1, <1>3 DEF CanPay
  <2>4. balance[Tap[k].customer] - Cost[Tap[k].reward] \in Nat
    BY <1>1, <2>3
  <2> QED
    BY <1>1, <2>2, <2>4
<1> QED
  BY <1>2, <1>3

LEMMA RewardsInitially == RewardInit => RewardInv
<1> SUFFICES ASSUME RewardInit PROVE RewardInv
  OBVIOUS
<1>1. Claims = {} /\ redemptions = <<>>
  BY DEF RewardInit, Claims
<1>2. Typed
  BY <1>1, RewardsAssumption DEF RewardInit, Typed, Points!Init, Grants, Screens
<1>3. \A g \in Granters : grant[g].phase # "inserted"
  BY DEF RewardInit, Free
<1>4. RowsOK /\ LapseOK /\ GrantsOK /\ DebitsOK /\ KeysOK /\ WithinLimit /\ HandedOverOnce
  BY <1>1, <1>3, KeysAssumption
     DEF RewardInit, RowsOK, LapseOK, WithinLimit, Bought, GrantsOK, DebitsOK, KeysOK, KeyOK, HandedOverOnce, Points!Init
<1>5. \A w \in Stocked : Given(w) = {} /\ Unwritten(w) = {} /\ Stock0[w] \in Nat
  BY <1>1, <1>3, RewardsAssumption DEF Given, Unwritten
<1>6. StockExact
  BY <1>5, FS_EmptySet DEF StockExact, RewardInit
<1> QED
  BY <1>2, <1>4, <1>6 DEF RewardInv

----------------------------------------------------------------------------
(* Steps that leave the rows alone.                                        *)

\* What depends on the rows only.
LEMMA RowsStand ==
  ASSUME RewardInv, UNCHANGED <<redemptions, handed, contested, unmarked>>
  PROVE  /\ Claims' = Claims /\ \A k : Redeemed(k)' <=> Redeemed(k)
         /\ WithinLimit' /\ HandedOverOnce' /\ \A w : Given(w)' = Given(w)
<1>1. Claims' = Claims /\ \A k : Redeemed(k)' <=> Redeemed(k)
  BY DEF Claims, Redeemed
<1>2. \A c, w : Bought(c, w)' = Bought(c, w) /\ \A i : Counted(c, w, i)' = Counted(c, w, i)
  BY <1>1 DEF Counted, Bought
<1>3. WithinLimit'
  BY <1>1, <1>2 DEF RewardInv, WithinLimit
<1> QED
  BY <1>1, <1>3 DEF RewardInv, HandedOverOnce, Given

\* Time passes and people stop looking: what has run out stays so.
LEMMA LapseStands ==
  ASSUME RewardInv, UNCHANGED redemptions, now' \in {now, now + 1},
         \A s \in Staff : desk'[s] \in {desk[s], NoCode}
  PROVE  LapseOK'
<1>1. \A i \in Claims : redemptions[i].expires \in Nat /\ now \in Nat
  <2>1. Typed /\ \A i \in Claims : redemptions[i] \in Claim
    BY ClaimsFinite DEF RewardInv, Typed
  <2>. QED
    BY <2>1, RewardsAssumption DEF Typed, Claim
<1>2. \A s \in Staff : desk[s] # NoCode => desk[s].code \in Claims
  BY DEF RewardInv, RowsOK
<1>3. Claims' = Claims
  BY DEF Claims
<1>4. \A i \in Claims : redemptions[i].expires < now => redemptions'[i].expires < now'
  BY <1>1
<1> QED
  BY <1>2, <1>3, <1>4 DEF RewardInv, LapseOK

LEMMA StockStands ==
  ASSUME RewardInv, UNCHANGED <<redemptions, handed, stock, contested, unmarked>>,
         drifted \subseteq drifted',
         \A w \in Stocked \ drifted' : Unwritten(w)' = Unwritten(w)
  PROVE  StockExact'
BY RowsStand DEF RewardInv, StockExact

LEMMA RewardEarn == ASSUME RewardInv, NEW e \in Earnings, Earn(e) PROVE RewardInv'
<1>1. /\ UNCHANGED <<redemptions, stock, now, till, grant, desk, handed, overlapped,
                     drifted, contested, unmarked>>
      /\ Claims' = Claims
  BY DEF Earn, Claims
<1>2. e \notin Keys /\ Credits[e].amount \in Nat /\ Credits[e].customer \in Customers
  BY KeysAssumption
<1>3. /\ PointsOp[e].kind = "credit" /\ PointsOp[e].acct = Credits[e].customer
      /\ PointsOp[e].amount = Credits[e].amount
  BY <1>2 DEF PointsOp
<1>4. /\ applied' = applied \cup {e}
      /\ balance' = [balance EXCEPT ![Credits[e].customer] = @ + Credits[e].amount]
  BY <1>3 DEF Earn, Points!Apply, Points!Earn, Points!Spend
<1>5. Typed'
  BY <1>1, <1>2, <1>4 DEF RewardInv, Typed
<1>6. DebitsOK' /\ RowsOK' /\ GrantsOK' /\ KeysOK'
  BY <1>1, <1>2, <1>4 DEF RewardInv, DebitsOK, RowsOK, GrantsOK, KeysOK, KeyOK, Redeemed
<1>7. \A w : Unwritten(w)' = Unwritten(w)
  BY <1>1 DEF Unwritten
<1>8. LapseOK'
  BY <1>1, LapseStands
<1> QED
  BY <1>1, <1>5, <1>6, <1>7, <1>8, RowsStand, StockStands DEF RewardInv

LEMMA RewardBegin == ASSUME RewardInv, NEW t \in Tills, NEW k \in Keys, Begin(t, k) PROVE RewardInv'
<1>1. /\ UNCHANGED <<points, redemptions, stock, now, grant, desk, handed, drifted, contested, unmarked>>
      /\ till[t] = NoKey /\ ~Redeemed(k) /\ till' = [till EXCEPT ![t] = k]
      /\ overlapped' = overlapped \cup {x \in {k} : \E u \in Tills : till[u] = k}
      /\ Claims' = Claims
  BY DEF Begin, Claims
<1>2. Typed'
  BY <1>1 DEF RewardInv, Typed, points
<1>3. DebitsOK' /\ RowsOK' /\ GrantsOK'
  BY <1>1 DEF RewardInv, DebitsOK, RowsOK, GrantsOK, Redeemed, points
<1>4. ASSUME NEW q \in Keys \ overlapped'
      PROVE  KeyOK(q)'
  <2>1. KeyOK(q) /\ (q = k => \A u \in Tills : till[u] # k)
    BY <1>1 DEF RewardInv, KeysOK
  <2>2. \A u \in Tills : till'[u] = IF u = t THEN k ELSE till[u]
    BY <1>1 DEF RewardInv, Typed
  <2>3. Redeemed(q)' <=> Redeemed(q)
    BY <1>1 DEF Redeemed
  <2> QED
    BY <1>1, <2>1, <2>2, <2>3 DEF KeyOK
<1>5. \A w : Unwritten(w)' = Unwritten(w)
  BY <1>1 DEF Unwritten
<1>6. LapseOK'
  BY <1>1, LapseStands
<1> QED
  BY <1>1, <1>2, <1>3, <1>4, <1>5, <1>6, RowsStand, StockStands DEF RewardInv, KeysOK

LEMMA RewardRefuse == ASSUME RewardInv, NEW t \in Tills, RefuseReward(t) PROVE RewardInv'
<1>1. /\ UNCHANGED <<points, redemptions, stock, now, grant, desk, handed, overlapped,
                     drifted, contested, unmarked>>
      /\ till' = [till EXCEPT ![t] = NoKey] /\ Claims' = Claims
  BY DEF RefuseReward, Claims
<1>2. Typed'
  BY <1>1 DEF RewardInv, Typed, points
<1>3. DebitsOK' /\ RowsOK' /\ GrantsOK'
  BY <1>1 DEF RewardInv, DebitsOK, RowsOK, GrantsOK, Redeemed, points
<1>4. \A u \in Tills : till'[u] \in {till[u], NoKey}
  BY <1>1 DEF RewardInv, Typed
<1>5. KeysOK'
  BY <1>1, <1>4, KeysAssumption DEF RewardInv, KeysOK, KeyOK, Redeemed
<1>6. \A w : Unwritten(w)' = Unwritten(w)
  BY <1>1 DEF Unwritten
<1>7. LapseOK'
  BY <1>1, LapseStands
<1> QED
  BY <1>1, <1>2, <1>3, <1>5, <1>6, <1>7, RowsStand, StockStands DEF RewardInv

LEMMA RewardTick == ASSUME RewardInv, Tick PROVE RewardInv'
<1>1. /\ UNCHANGED <<points, redemptions, stock, till, grant, desk, handed, overlapped,
                     drifted, contested, unmarked>>
      /\ now < Horizon /\ now' = now + 1 /\ Claims' = Claims
  BY DEF Tick, Claims
<1>2. Typed'
  BY <1>1, RewardsAssumption DEF RewardInv, Typed, points
<1>3. DebitsOK' /\ RowsOK' /\ GrantsOK' /\ KeysOK'
  BY <1>1 DEF RewardInv, DebitsOK, RowsOK, GrantsOK, KeysOK, KeyOK, Redeemed, points
<1>4. \A w : Unwritten(w)' = Unwritten(w)
  BY <1>1 DEF Unwritten
<1>5. LapseOK'
  BY <1>1, LapseStands
<1> QED
  BY <1>1, <1>2, <1>3, <1>4, <1>5, RowsStand, StockStands DEF RewardInv

LEMMA RewardGrantRead ==
  ASSUME RewardInv, NEW g \in Granters, NEW c \in Customers, NEW w \in Rewards, GrantRead(g, c, w)
  PROVE  RewardInv'
<1> DEFINE r == [phase |-> "read", customer |-> c, reward |-> w,
                 seen |-> IF w \in Stocked THEN stock[w] ELSE 0]
<1>1. /\ UNCHANGED <<points, redemptions, stock, now, till, desk, handed, overlapped,
                     drifted, contested, unmarked>>
      /\ grant[g] = Free /\ InStock(w) /\ grant' = [grant EXCEPT ![g] = r] /\ Claims' = Claims
  BY DEF GrantRead, Claims
<1>2. r \in Grants /\ r.phase = "read" /\ r.reward = w /\ (w \in Stocked => r.seen > 0)
  BY <1>1 DEF RewardInv, Typed, Grants, InStock
<1> HIDE DEF r
<1>3. \A h \in Granters : grant'[h] = IF h = g THEN r ELSE grant[h]
  BY <1>1 DEF RewardInv, Typed
<1>4. Typed'
  BY <1>1, <1>2 DEF RewardInv, Typed, points
<1>5. DebitsOK' /\ RowsOK' /\ KeysOK'
  BY <1>1 DEF RewardInv, DebitsOK, RowsOK, KeysOK, KeyOK, Redeemed, points
<1>6. GrantsOK'
  BY <1>2, <1>3 DEF RewardInv, GrantsOK
<1>7. \A v : Unwritten(v)' = Unwritten(v)
  BY <1>1, <1>2, <1>3 DEF Unwritten, Free
<1>8. LapseOK'
  BY <1>1, LapseStands
<1> QED
  BY <1>1, <1>4, <1>5, <1>6, <1>7, <1>8, RowsStand, StockStands DEF RewardInv

LEMMA RewardLook == ASSUME RewardInv, NEW s \in Staff, NEW i \in Claims, Look(s, i) PROVE RewardInv'
<1> DEFINE r == [code |-> i, seen |-> redemptions[i].status,
                 set |-> IF redemptions[i].expires < now THEN "expired" ELSE "fulfilled"]
<1>1. /\ UNCHANGED <<points, redemptions, stock, now, till, grant, handed, overlapped,
                     drifted, contested, unmarked>>
      /\ NotRefused(i) /\ desk' = [desk EXCEPT ![s] = r] /\ Claims' = Claims
  BY DEF Look, Claims
<1>2. redemptions[i] \in Claim /\ i \in Nat \ {0}
  BY ClaimsFinite DEF RewardInv, Typed
<1>3. redemptions[i].status \in {"claimed", "expired"} /\ redemptions[i].granted
  BY <1>1, <1>2 DEF RewardInv, RowsOK, NotRefused, Claim, Statuses
<1>4. r \in Screens /\ r.code = i
  BY <1>2, <1>3 DEF Screens
<1> HIDE DEF r
<1>5. Typed'
  BY <1>1, <1>4 DEF RewardInv, Typed, points
<1>6. DebitsOK' /\ GrantsOK' /\ KeysOK'
  BY <1>1 DEF RewardInv, DebitsOK, GrantsOK, KeysOK, KeyOK, Redeemed, points
<1>7. RowsOK'
  <2>1. \A u \in Staff : desk'[u] = IF u = s THEN r ELSE desk[u]
    BY <1>1 DEF RewardInv, Typed
  <2> QED
    BY <1>1, <1>3, <1>4, <2>1 DEF RewardInv, RowsOK
<1>8. \A w : Unwritten(w)' = Unwritten(w)
  BY <1>1 DEF Unwritten
<1>9. LapseOK'
  <2>1. \A u \in Staff : desk'[u] = IF u = s THEN r ELSE desk[u]
    BY <1>1 DEF RewardInv, Typed
  <2>2. /\ r.set = "expired" <=> redemptions[i].expires < now
        /\ r.seen = "expired" => r.set = "expired"
    BY DEF RewardInv, LapseOK, r
  <2> QED
    BY <1>1, <1>4, <2>1, <2>2 DEF RewardInv, LapseOK
<1> QED
  BY <1>1, <1>5, <1>6, <1>7, <1>8, <1>9, RowsStand, StockStands DEF RewardInv

----------------------------------------------------------------------------
(* Steps that insert a row, take a unit of stock or settle a code.         *)

\* The sets of rows after row n, the claim c, has been inserted.
Joins(c, n) ==
  /\ Given(c.reward)' = Given(c.reward) \cup {n}
  /\ \A w : c.reward # w => Given(w)' = Given(w)
  /\ \A k : Redeemed(k)' <=> Redeemed(k) \/ c.key = k
  /\ \A w : n \notin Given(w)

LEMMA InsertedSets ==
  ASSUME Typed, NEW c \in Claim, Insert(c), NEW n, n = Len(redemptions) + 1
  PROVE  Joins(c, n)
<1>1. /\ n \notin Claims /\ Claims' = Claims \cup {n} /\ redemptions'[n] = c
      /\ \A i \in Claims : redemptions'[i] = redemptions[i]
  BY Inserted
<1>2. Given(c.reward)' = Given(c.reward) \cup {n} /\ \A w : c.reward # w => Given(w)' = Given(w)
  BY <1>1 DEF Given
<1>3. \A k : Redeemed(k)' <=> Redeemed(k) \/ c.key = k
  BY <1>1 DEF Redeemed
<1>4. \A w : n \notin Given(w)
  BY <1>1 DEF Given
<1> QED
  BY <1>2, <1>3, <1>4 DEF Joins

\* What counts up to row i is a finite set of rows.
LEMMA CountedFinite ==
  ASSUME Typed, NEW c, NEW w, NEW i \in Claims
  PROVE  /\ Counted(c, w, i) \subseteq Claims
         /\ IsFiniteSet(Counted(c, w, i)) /\ Cardinality(Counted(c, w, i)) \in Nat
<1>1. Claims = 1..Len(redemptions) /\ Len(redemptions) \in Nat
  BY ClaimsFinite
<1>2. Counted(c, w, i) \subseteq Claims
  BY <1>1 DEF Counted
<1> QED
  BY <1>2, ClaimsFinite

\* An insert changes no count of an older row, and a new row finds counted before it
\* what the limit is checked against, or less.
LEMMA InsertedCounts ==
  ASSUME Typed, NEW c \in Claim, Insert(c), contested' = contested,
         NEW n, n = Len(redemptions) + 1
  PROVE  /\ \A d, w : \A i \in Claims : Counted(d, w, i)' = Counted(d, w, i)
         /\ \A d, w : Counted(d, w, n)' \subseteq Used(d, w) \cup {n}
<1>1. /\ Claims' = Claims \cup {n} /\ redemptions'[n] = c
      /\ \A i \in Claims : redemptions'[i] = redemptions[i]
  BY Inserted
<1>2. Claims = 1..Len(redemptions) /\ Len(redemptions) \in Nat
  BY ClaimsFinite
<1>3. ASSUME NEW d, NEW w, NEW i \in Claims
      PROVE  Counted(d, w, i)' = Counted(d, w, i)
  <2>1. \A j \in 1..i : j \in Claims
    BY <1>2
  <2> QED
    BY <1>1, <2>1 DEF Counted
<1>4. ASSUME NEW d, NEW w, NEW j \in Counted(d, w, n)', j # n
      PROVE  j \in Used(d, w)
  <2>1. j \in Claims
    BY <1>2, <1>4 DEF Counted
  <2>2. /\ redemptions[j].reward = w /\ redemptions[j].customer = d
        /\ redemptions[j].status # "expired"
    BY <1>1, <1>4, <2>1 DEF Counted
  <2>3. redemptions[j].status \in Statuses
    <3>1. redemptions[j] \in Claim
      BY <1>2, <2>1 DEF Typed
    <3> QED
      BY <3>1 DEF Claim
  <2> QED
    BY <2>1, <2>2, <2>3 DEF Used, CountsAgainstLimit, Statuses
<1> QED
  BY <1>3, <1>4

LEMMA RedeemsClaim ==
  ASSUME RewardInv, NEW t \in Tills, Redeem(t), NEW k, k = till[t],
         NEW n, n = Len(redemptions) + 1,
         NEW c, c = [customer |-> Tap[k].customer, reward |-> Tap[k].reward, key |-> k,
                     granted |-> FALSE, status |-> "fulfilled", expires |-> now + Valid]
  PROVE  RewardInv'
<1> DEFINE w == Tap[k].reward
<1>1. /\ k # NoKey /\ CanRedeem(k) /\ Pay(k) /\ Insert(c) /\ stock' = TakeOne(w)
      /\ till' = [till EXCEPT ![t] = NoKey]
      /\ UNCHANGED <<now, grant, desk, overlapped, drifted, contested, unmarked>>
  BY DEF Redeem
<1>2. Typed /\ k \in Keys /\ Tap[k].customer \in Customers /\ w \in Rewards
  BY <1>1, KeysAssumption DEF RewardInv, Typed
<1>3. now + Valid \in Nat
  BY <1>2, RewardsAssumption DEF Typed
<1>4. /\ c \in Claim /\ ~c.granted /\ c.reward = w /\ c.key = k /\ c.status = "fulfilled"
      /\ c.customer = Tap[k].customer
  BY <1>2, <1>3 DEF Claim, Statuses
<1>5. /\ redemptions' \in Seq(Claim) /\ handed' \in Seq(Nat)
      /\ Len(handed') = Len(redemptions')
      /\ n \notin Claims /\ n \in Nat \ {0} /\ Claims' = Claims \cup {n}
      /\ redemptions'[n] = c
      /\ \A i \in Claims : redemptions'[i] = redemptions[i] /\ handed'[i] = handed[i]
  BY <1>1, <1>2, <1>4, Inserted
<1>6. /\ Given(w)' = Given(w) \cup {n} /\ \A v : v # w => Given(v)' = Given(v)
      /\ \A q : Redeemed(q)' <=> Redeemed(q) \/ k = q
      /\ \A v : n \notin Given(v)
  <2> HIDE DEF w
  <2>1. Joins(c, n)
    BY <1>1, <1>2, <1>4, InsertedSets
  <2>2. Given(w)' = Given(w) \cup {n} /\ \A v : v # w => Given(v)' = Given(v)
    BY <1>4, <2>1 DEF Joins
  <2>3. \A q : Redeemed(q)' <=> Redeemed(q) \/ k = q
    BY <1>4, <2>1 DEF Joins
  <2> QED
    BY <2>1, <2>2, <2>3 DEF Joins
<1>7. /\ balance' \in [Customers -> Nat] /\ applied' \subseteq Keys \cup Earnings
      /\ applied' \in {applied, applied \cup {k}} /\ applied \subseteq applied'
      /\ Cost[w] > 0 => k \in applied'
  BY <1>1, <1>2, PaysNat DEF CanRedeem
<1>8. /\ stock' \in [Stocked -> Nat]
      /\ \A v \in Stocked : stock'[v] = IF v = w THEN stock[v] - 1 ELSE stock[v]
  <2>1. w \in Stocked => stock[w] > 0
    BY <1>1 DEF CanRedeem, InStock
  <2> QED
    BY <1>1, <1>2, <2>1 DEF TakeOne, Typed
<1>9. Typed'
  BY <1>1, <1>2, <1>5, <1>7, <1>8 DEF Typed
<1>10. RowsOK'
  <2>1. /\ ~redemptions'[n].granted /\ redemptions'[n].key = k
        /\ redemptions'[n].customer = Tap[k].customer /\ redemptions'[n].reward = Tap[k].reward
        /\ redemptions'[n].status = "fulfilled"
    BY <1>4, <1>5
  <2>2. RowsOK /\ desk' = desk
    BY <1>1 DEF RewardInv
  <2>3. ASSUME NEW i \in Claims'
        PROVE  IF redemptions'[i].granted THEN redemptions'[i].key = NoKey
               ELSE /\ redemptions'[i].key \in Keys
                    /\ redemptions'[i].customer = Tap[redemptions'[i].key].customer
                    /\ redemptions'[i].reward = Tap[redemptions'[i].key].reward
                    /\ redemptions'[i].status = "fulfilled"
    <3>1. CASE i = n
      BY <1>2, <2>1, <3>1
    <3>2. CASE i # n
      BY <1>5, <2>2, <3>2 DEF RowsOK
    <3> QED
      BY <3>1, <3>2
  <2>4. \A s \in Staff : desk'[s] # NoCode =>
          desk'[s].code \in Claims' /\ redemptions'[desk'[s].code].granted
    BY <1>5, <2>2 DEF RowsOK
  <2> QED
    BY <2>3, <2>4 DEF RowsOK
<1>11. GrantsOK'
  BY <1>1 DEF RewardInv, GrantsOK
<1>12. DebitsOK'
  <2>1. \A i \in Claims' : ~redemptions'[i].granted /\ Cost[redemptions'[i].reward] > 0 =>
          redemptions'[i].key \in applied'
    BY <1>4, <1>5, <1>7 DEF RewardInv, DebitsOK
  <2>2. \A q \in applied' \cap Keys : Redeemed(q)'
    BY <1>6, <1>7 DEF RewardInv, DebitsOK
  <2> QED
    BY <2>1, <2>2 DEF DebitsOK
<1>13. ASSUME NEW q \in Keys \ overlapped'
       PROVE  KeyOK(q)'
  <2>1. KeyOK(q) /\ \A u \in Tills : till'[u] = IF u = t THEN NoKey ELSE till[u]
    BY <1>1, <1>2 DEF RewardInv, KeysOK, Typed
  <2>2. q # NoKey
    BY KeysAssumption
  <2>3. CASE q = k
    <3>1. ~Redeemed(k) /\ \A u \in Tills : till[u] = k => u = t
      BY <2>1, <2>3 DEF KeyOK
    <3>2. \A u \in Tills : till'[u] # k
      BY <2>1, <2>2, <2>3, <3>1
    <3>3. \A i \in Claims : redemptions[i].key # k
      BY <3>1 DEF Redeemed
    <3> QED
      BY <1>5, <2>3, <3>2, <3>3 DEF KeyOK
  <2>4. CASE q # k
    <3>1. \A i \in Claims' : redemptions'[i].key = q => i \in Claims /\ redemptions[i].key = q
      BY <1>4, <1>5, <2>4
    <3>2. \A u \in Tills : till'[u] = q => till[u] = q
      BY <2>1, <2>2
    <3>3. Redeemed(q)' <=> Redeemed(q)
      BY <1>6, <2>4
    <3> QED
      BY <2>1, <3>1, <3>2, <3>3 DEF KeyOK
  <2> QED
    BY <2>3, <2>4
<1>14. ASSUME NEW d \in Customers, NEW v \in Rewards, NEW i \in Bought(d, v)'
       PROVE  Cardinality(Counted(d, v, i)') <= Limit[v]
  <2>1. contested' = contested
    BY <1>1
  <2>2. i \in Claims' /\ redemptions'[i].reward = v /\ redemptions'[i].customer = d
        /\ ~redemptions'[i].granted
    BY DEF Bought
  <2>3. CASE i # n
    <3>1. i \in Claims /\ i \in Bought(d, v)
      BY <1>5, <2>2, <2>3 DEF Bought
    <3>2. Counted(d, v, i)' = Counted(d, v, i)
      BY <1>1, <1>2, <1>4, <2>1, <3>1, InsertedCounts
    <3> QED
      BY <3>1, <3>2 DEF RewardInv, WithinLimit
  <2>4. CASE i = n
    <3> DEFINE U == Used(d, v)
               C == Counted(d, v, n)'
    <3>1. C \subseteq U \cup {n}
      BY <1>1, <1>2, <1>4, <2>1, InsertedCounts
    <3>2. IsFiniteSet(U) /\ Cardinality(U) \in Nat /\ n \notin U
      <4>1. U \subseteq Claims
        BY DEF Used
      <4> QED
        BY <1>2, <1>5, <4>1, ClaimsFinite
    <3>3. d = Tap[k].customer /\ v = Tap[k].reward
      BY <1>4, <1>5, <2>2, <2>4
    <3>4. Cardinality(U) < Limit[v] /\ Limit[v] \in Nat
      BY <1>1, <1>2, <3>3, RewardsAssumption DEF CanRedeem, BelowLimit
    <3> HIDE DEF U, C
    <3>5. IsFiniteSet(U \cup {n}) /\ Cardinality(U \cup {n}) = Cardinality(U) + 1
      BY <3>2, AddsOne
    <3>6. Cardinality(C) <= Cardinality(U \cup {n}) /\ Cardinality(C) \in Nat
      BY <3>1, <3>5, FS_Subset, FS_CardinalityType
    <3>7. Cardinality(C) <= Limit[v]
      BY <3>2, <3>4, <3>5, <3>6
    <3> QED
      BY <2>4, <3>7 DEF C
  <2> QED
    BY <2>3, <2>4
<1>15. ASSUME NEW v \in Stocked \ drifted'
       PROVE  stock'[v] + Cardinality(Given(v)') = Stock0[v] + Cardinality(Unwritten(v)')
  <2>1. stock[v] + Cardinality(Given(v)) = Stock0[v] + Cardinality(Unwritten(v))
    BY <1>1 DEF RewardInv, StockExact
  <2>2. Unwritten(v)' = Unwritten(v)
    BY <1>1 DEF Unwritten
  <2>3. IsFiniteSet(Given(v)) /\ Cardinality(Given(v)) \in Nat /\ stock[v] \in Nat
    BY <1>2, ClaimsFinite DEF Given, Typed
  <2>4. Cardinality(Given(v) \cup {n}) = Cardinality(Given(v)) + 1
    BY <1>6, <2>3, AddsOne
  <2>5. stock'[v] + Cardinality(Given(v)') = stock[v] + Cardinality(Given(v))
    <3>1. CASE v = w
      <4>1. Cardinality(Given(v)') = Cardinality(Given(v)) + 1 /\ stock'[v] = stock[v] - 1
        BY <1>6, <1>8, <2>4, <3>1
      <4> QED
        BY <2>3, <4>1
    <3>2. CASE v # w
      BY <1>6, <1>8, <3>2
    <3> QED
      BY <3>1, <3>2
  <2> QED
    BY <2>1, <2>2, <2>5
<1>16. HandedOverOnce'
  BY <1>1, <1>4, <1>5 DEF RewardInv, HandedOverOnce
<1>17. LapseOK'
  <2>1. redemptions'[n].status = "fulfilled"
    BY <1>4, <1>5
  <2>2. \A s \in Staff : desk[s] # NoCode => desk[s].code \in Claims
    BY DEF RewardInv, RowsOK
  <2> QED
    BY <1>1, <1>5, <2>1, <2>2 DEF RewardInv, LapseOK
<1> QED
  BY <1>9, <1>10, <1>11, <1>12, <1>13, <1>14, <1>15, <1>16, <1>17
     DEF RewardInv, KeysOK, WithinLimit, StockExact

LEMMA RewardRedeem == ASSUME RewardInv, NEW t \in Tills, Redeem(t) PROVE RewardInv'
BY RedeemsClaim

LEMMA InsertsGrant ==
  ASSUME RewardInv, NEW g \in Granters, GrantInsert(g), NEW w, w = grant[g].reward,
         NEW n, n = Len(redemptions) + 1,
         NEW c, c = [customer |-> grant[g].customer, reward |-> w, key |-> NoKey,
                     granted |-> TRUE, status |-> "claimed", expires |-> now + Valid],
         NEW r, r = IF w \in Stocked THEN [grant[g] EXCEPT !.phase = "inserted"] ELSE Free
  PROVE  RewardInv'
<1>1. /\ grant[g].phase = "read" /\ Insert(c) /\ grant' = [grant EXCEPT ![g] = r]
      /\ UNCHANGED <<points, stock, now, till, desk, overlapped, drifted, contested, unmarked>>
  BY DEF GrantInsert, RewardInv, Typed
<1>2. /\ Typed /\ grant[g] \in Grants \ {Free}
      /\ w \in Rewards /\ grant[g].customer \in Customers /\ now + Valid \in Nat
  <2>1. Typed /\ grant[g] \in Grants /\ grant[g] # Free
    BY <1>1 DEF RewardInv, Typed, Free
  <2>2. grant[g] \in [phase : {"read", "inserted"}, customer : Customers, reward : Rewards,
                       seen : Nat]
    BY <2>1 DEF Grants
  <2>3. now + Valid \in Nat
    BY <2>1, RewardsAssumption DEF Typed
  <2> QED
    BY <2>1, <2>2, <2>3
<1>3. c \in Claim /\ c.granted /\ c.reward = w /\ c.key = NoKey /\ c.status = "claimed"
  BY <1>2 DEF Claim, Statuses
<1>4. /\ r \in Grants /\ (w \in Stocked => r.phase = "inserted" /\ r.reward = w)
      /\ (w \notin Stocked => r = Free)
      /\ (r # Free => w \in Stocked /\ r.seen = grant[g].seen)
  BY <1>2 DEF Grants
<1>5. /\ redemptions' \in Seq(Claim) /\ handed' \in Seq(Nat)
      /\ Len(handed') = Len(redemptions')
      /\ n \notin Claims /\ n \in Nat \ {0} /\ Claims' = Claims \cup {n}
      /\ redemptions'[n] = c /\ handed'[n] = 0
      /\ \A i \in Claims : redemptions'[i] = redemptions[i] /\ handed'[i] = handed[i]
  BY <1>1, <1>2, <1>3, Inserted
<1>6. /\ Given(c.reward)' = Given(c.reward) \cup {n}
      /\ \A v : c.reward # v => Given(v)' = Given(v)
      /\ \A q : Redeemed(q)' <=> Redeemed(q) \/ c.key = q
      /\ \A v : n \notin Given(v)
  <2>1. Joins(c, n)
    BY <1>1, <1>2, <1>3, InsertedSets
  <2> QED
    BY <2>1 DEF Joins
<1>7. \A h \in Granters : grant'[h] = IF h = g THEN r ELSE grant[h]
  BY <1>1, <1>2 DEF Typed
<1>8. Typed'
  BY <1>1, <1>2, <1>4, <1>5 DEF Typed, points
<1>9. RowsOK'
  <2>1. RowsOK /\ desk' = desk
    BY <1>1 DEF RewardInv
  <2>2. ASSUME NEW i \in Claims'
        PROVE  IF redemptions'[i].granted THEN redemptions'[i].key = NoKey
               ELSE /\ redemptions'[i].key \in Keys
                    /\ redemptions'[i].customer = Tap[redemptions'[i].key].customer
                    /\ redemptions'[i].reward = Tap[redemptions'[i].key].reward
                    /\ redemptions'[i].status = "fulfilled"
    <3>1. CASE i = n
      BY <1>3, <1>5, <3>1
    <3>2. CASE i # n
      BY <1>5, <2>1, <3>2 DEF RowsOK
    <3> QED
      BY <3>1, <3>2
  <2>3. \A s \in Staff : desk'[s] # NoCode =>
          desk'[s].code \in Claims' /\ redemptions'[desk'[s].code].granted
    BY <1>5, <2>1 DEF RowsOK
  <2> QED
    BY <2>2, <2>3 DEF RowsOK
<1>10. GrantsOK'
  <2>1. r # Free => r.reward \in Stocked /\ r.seen > 0
    BY <1>2, <1>4 DEF RewardInv, GrantsOK
  <2> QED
    BY <1>7, <2>1 DEF RewardInv, GrantsOK
<1>11. DebitsOK'
  BY <1>1, <1>3, <1>5, <1>6 DEF RewardInv, DebitsOK, points
<1>12. ASSUME NEW q \in Keys \ overlapped'
       PROVE  KeyOK(q)'
  <2>1. KeyOK(q) /\ till' = till /\ q # NoKey
    BY <1>1, KeysAssumption DEF RewardInv, KeysOK
  <2>2. \A i \in Claims' : redemptions'[i].key = q => i \in Claims /\ redemptions[i].key = q
    BY <1>3, <1>5, <2>1
  <2>3. Redeemed(q)' <=> Redeemed(q)
    BY <1>3, <1>6, <2>1
  <2> QED
    BY <2>1, <2>2, <2>3 DEF KeyOK
<1>13. WithinLimit'
  <2>1. contested' = contested
    BY <1>1
  <2>2. \A d, v : \A i \in Claims : Counted(d, v, i)' = Counted(d, v, i)
    BY <1>1, <1>2, <1>3, <2>1, InsertedCounts
  <2>3. \A d, v : Bought(d, v)' = Bought(d, v)
    BY <1>3, <1>5 DEF Bought
  <2>4. \A d, v : Bought(d, v) \subseteq Claims
    BY DEF Bought
  <2> QED
    BY <2>2, <2>3, <2>4 DEF RewardInv, WithinLimit
<1>14. ASSUME NEW v \in Stocked \ drifted'
       PROVE  stock'[v] + Cardinality(Given(v)') = Stock0[v] + Cardinality(Unwritten(v)')
  <2>1. /\ stock[v] + Cardinality(Given(v)) = Stock0[v] + Cardinality(Unwritten(v))
        /\ stock'[v] = stock[v] /\ stock[v] \in Nat /\ Stock0[v] \in Nat
    BY <1>1, <1>2, RewardsAssumption DEF RewardInv, StockExact, Typed
  <2>2. CASE v # w
    <3>1. Given(v)' = Given(v)
      BY <1>3, <1>6, <2>2
    <3>2. Unwritten(v)' = Unwritten(v)
      BY <1>1, <1>4, <1>7, <2>2 DEF Unwritten, Free
    <3> QED
      BY <2>1, <3>1, <3>2
  <2>3. CASE v = w
    <3>1. Given(v)' = Given(v) \cup {n} /\ n \notin Given(v)
      BY <1>3, <1>6, <2>3
    <3>2. Unwritten(v)' = Unwritten(v) \cup {g} /\ g \notin Unwritten(v)
      <4>1. /\ grant'[g] = r /\ r.phase = "inserted" /\ r.reward = v
            /\ \A h \in Granters \ {g} : grant'[h] = grant[h]
        BY <1>4, <1>7, <2>3
      <4>2. grant[g].phase # "inserted"
        BY <1>1
      <4> QED
        BY <4>1, <4>2 DEF Unwritten
    <3>3. /\ IsFiniteSet(Given(v)) /\ Cardinality(Given(v)) \in Nat
          /\ IsFiniteSet(Unwritten(v)) /\ Cardinality(Unwritten(v)) \in Nat
      BY <1>2, ClaimsFinite, RewardsAssumption, FS_Subset, FS_CardinalityType DEF Given, Unwritten
    <3>4. Cardinality(Given(v)') = Cardinality(Given(v)) + 1
      BY <3>1, <3>3, AddsOne
    <3>5. Cardinality(Unwritten(v)') = Cardinality(Unwritten(v)) + 1
      BY <3>2, <3>3, AddsOne
    <3> QED
      BY SMTT(20), <2>1, <3>3, <3>4, <3>5
  <2> QED
    BY <2>2, <2>3
<1>15. HandedOverOnce'
  <2>1. \A i \in Claims' \ (contested \cup unmarked) : i # n => i \in Claims \ (contested \cup unmarked)
    BY <1>5
  <2>2. redemptions'[n].status = "claimed" /\ handed'[n] = 0
    BY <1>3, <1>5
  <2> QED
    BY <1>1, <1>5, <2>1, <2>2 DEF RewardInv, HandedOverOnce
<1>16. LapseOK'
  <2>1. redemptions'[n].status = "claimed"
    BY <1>3, <1>5
  <2>2. \A s \in Staff : desk[s] # NoCode => desk[s].code \in Claims
    BY DEF RewardInv, RowsOK
  <2> QED
    BY <1>1, <1>5, <2>1, <2>2 DEF RewardInv, LapseOK
<1> QED
  BY <1>8, <1>9, <1>10, <1>11, <1>12, <1>13, <1>14, <1>15, <1>16 DEF RewardInv, KeysOK, StockExact

LEMMA RewardGrantInsert == ASSUME RewardInv, NEW g \in Granters, GrantInsert(g) PROVE RewardInv'
BY InsertsGrant

LEMMA TakesStock ==
  ASSUME RewardInv, NEW g \in Granters, GrantTake(g), NEW w, w = grant[g].reward
  PROVE  RewardInv'
<1>1. /\ grant[g].phase = "inserted" /\ stock' = [stock EXCEPT ![w] = AtLeast0(grant[g].seen - 1)]
      /\ drifted' = drifted \cup {x \in {w} : stock[x] # grant[g].seen}
      /\ grant' = [grant EXCEPT ![g] = Free]
      /\ UNCHANGED <<points, redemptions, now, till, desk, handed, overlapped, contested, unmarked>>
      /\ Claims' = Claims
  BY DEF GrantTake, Claims
<1>2. Typed /\ grant[g] # Free /\ grant[g] \in Grants
  BY <1>1 DEF RewardInv, Typed, Free
<1>3. w \in Stocked /\ grant[g].seen \in Nat /\ grant[g].seen > 0
  BY <1>1, <1>2 DEF RewardInv, GrantsOK, Grants
<1>4. AtLeast0(grant[g].seen - 1) = grant[g].seen - 1 /\ grant[g].seen - 1 \in Nat
  BY <1>3 DEF AtLeast0
<1>5. \A h \in Granters : grant'[h] = IF h = g THEN Free ELSE grant[h]
  BY <1>1, <1>2 DEF Typed
<1>6. Free \in Grants /\ Free.phase = "free"
  BY DEF Grants, Free
<1>7. Typed'
  BY <1>1, <1>2, <1>3, <1>4, <1>6 DEF Typed, points
<1>8. RowsOK' /\ DebitsOK' /\ KeysOK'
  BY <1>1 DEF RewardInv, RowsOK, DebitsOK, KeysOK, KeyOK, Redeemed, points
<1>9. GrantsOK'
  BY <1>5 DEF RewardInv, GrantsOK
<1>10. ASSUME NEW v \in Stocked \ drifted'
       PROVE  stock'[v] + Cardinality(Given(v)') = Stock0[v] + Cardinality(Unwritten(v)')
  <2>1. /\ stock[v] + Cardinality(Given(v)) = Stock0[v] + Cardinality(Unwritten(v))
        /\ stock[v] \in Nat /\ Stock0[v] \in Nat /\ Given(v)' = Given(v)
    BY <1>1, <1>2, RewardsAssumption DEF RewardInv, StockExact, Typed, Given
  <2>2. CASE v # w
    <3>1. Unwritten(v)' = Unwritten(v) /\ stock'[v] = stock[v]
      BY <1>1, <1>2, <1>5, <1>6, <2>2 DEF Unwritten, Typed
    <3> QED
      BY <2>1, <3>1
  <2>3. CASE v = w
    <3>1. stock[v] = grant[g].seen /\ stock'[v] = stock[v] - 1
      BY <1>1, <1>2, <1>3, <1>4, <2>3 DEF Typed
    <3>2. Unwritten(v)' = Unwritten(v) \ {g} /\ g \in Unwritten(v)
      BY <1>1, <1>5, <1>6, <2>3 DEF Unwritten
    <3>3. /\ Cardinality(Given(v)) \in Nat
          /\ IsFiniteSet(Unwritten(v)) /\ Cardinality(Unwritten(v)) \in Nat
      BY <1>2, ClaimsFinite, RewardsAssumption, FS_Subset, FS_CardinalityType DEF Given, Unwritten
    <3>4. Cardinality(Unwritten(v)') = Cardinality(Unwritten(v)) - 1
      BY <3>2, <3>3, FS_RemoveElement
    <3> QED
      BY <2>1, <3>1, <3>3, <3>4
  <2> QED
    BY <2>2, <2>3
<1>11. LapseOK'
  BY <1>1, LapseStands
<1> QED
  BY <1>1, <1>7, <1>8, <1>9, <1>10, <1>11, RowsStand DEF RewardInv, StockExact

LEMMA RewardGrantTake == ASSUME RewardInv, NEW g \in Granters, GrantTake(g) PROVE RewardInv'
BY TakesStock

LEMMA RewardGrantStop == ASSUME RewardInv, NEW g \in Granters, GrantStop(g) PROVE RewardInv'
<1>1. /\ grant[g] # Free
      /\ drifted' = drifted \cup {grant[h].reward : h \in {h \in {g} : grant[h].phase = "inserted"}}
      /\ grant' = [grant EXCEPT ![g] = Free]
      /\ UNCHANGED <<points, redemptions, stock, now, till, desk, handed, overlapped, contested, unmarked>>
      /\ Claims' = Claims
  BY DEF GrantStop, Claims
<1>2. \A h \in Granters : grant'[h] = IF h = g THEN Free ELSE grant[h]
  BY <1>1 DEF RewardInv, Typed
<1>3. Free \in Grants /\ Free.phase = "free"
  BY DEF Grants, Free
<1>4. drifted' \subseteq Stocked /\ drifted \subseteq drifted'
  BY <1>1 DEF RewardInv, Typed, GrantsOK
<1>5. Typed'
  BY <1>1, <1>3, <1>4 DEF RewardInv, Typed, points
<1>6. RowsOK' /\ DebitsOK' /\ KeysOK'
  BY <1>1 DEF RewardInv, RowsOK, DebitsOK, KeysOK, KeyOK, Redeemed, points
<1>7. GrantsOK'
  BY <1>2 DEF RewardInv, GrantsOK
<1>8. ASSUME NEW w \in Stocked \ drifted'
      PROVE  Unwritten(w)' = Unwritten(w)
  <2>1. g \notin Unwritten(w)
    BY <1>1 DEF Unwritten
  <2> QED
    BY <1>2, <1>3, <2>1 DEF Unwritten
<1>9. LapseOK'
  BY <1>1, LapseStands
<1> QED
  BY <1>1, <1>4, <1>5, <1>6, <1>7, <1>8, <1>9, RowsStand, StockStands DEF RewardInv

LEMMA NaturalsInSequence ==
  ASSUME NEW n \in Nat, NEW f \in [1..n -> Nat]
  PROVE  f \in Seq(Nat) /\ Len(f) = n
OBVIOUS

LEMMA SettlesCode ==
  ASSUME RewardInv, NEW s \in Staff, Settle(s),
         redemptions' = [redemptions EXCEPT ![desk[s].code].status = desk[s].set],
         contested' = contested \cup {j \in {desk[s].code} : redemptions[j].status # desk[s].seen},
         UNCHANGED unmarked
  PROVE  RewardInv'
<1> DEFINE d == desk[s]
           i == desk[s].code
<1> /\ d = desk[s] /\ i = desk[s].code
    /\ redemptions' = [redemptions EXCEPT ![i].status = d.set]
    /\ contested' = contested \cup {j \in {i} : redemptions[j].status # d.seen}
  OBVIOUS
<1> HIDE DEF d, i
<1>1. /\ d # NoCode /\ redemptions' = [redemptions EXCEPT ![i].status = d.set]
      /\ handed' = IF d.set = "fulfilled" THEN [handed EXCEPT ![i] = @ + 1] ELSE handed
      /\ contested' = contested \cup {j \in {i} : redemptions[j].status # d.seen}
      /\ desk' = [desk EXCEPT ![s] = NoCode]
      /\ UNCHANGED <<points, stock, now, till, grant, overlapped, drifted, unmarked>>
  BY DEF Settle
<1>2. /\ Typed /\ i \in Claims /\ redemptions[i].granted
      /\ d.set \in {"expired", "fulfilled"} /\ d.seen \in {"claimed", "expired"}
  <2>1. Typed /\ d \in Screens /\ i \in Claims /\ redemptions[i].granted
    BY <1>1 DEF RewardInv, Typed, RowsOK
  <2> QED
    BY <1>1, <2>1 DEF Screens
<1>3. /\ Claims = 1..Len(redemptions) /\ Len(redemptions) \in Nat
      /\ redemptions \in [1..Len(redemptions) -> Claim]
  BY <1>2, ClaimsFinite DEF Typed
<1>4. /\ Claims' = Claims /\ redemptions' \in Seq(Claim) /\ Len(redemptions') = Len(redemptions)
      /\ \A j \in Claims : /\ j # i => redemptions'[j] = redemptions[j]
                          /\ redemptions'[j].granted = redemptions[j].granted
                          /\ redemptions'[j].key = redemptions[j].key
                          /\ redemptions'[j].customer = redemptions[j].customer
                          /\ redemptions'[j].reward = redemptions[j].reward
      /\ redemptions'[i].status = d.set
  <2>1. redemptions[i] \in Claim
    BY <1>2, <1>3
  <2>2. /\ [redemptions[i] EXCEPT !.status = d.set] \in Claim
        /\ redemptions' = [redemptions EXCEPT ![i] = [redemptions[i] EXCEPT !.status = d.set]]
    BY <1>1, <1>2, <2>1 DEF Claim, Statuses
  <2>3. redemptions' \in [1..Len(redemptions) -> Claim]
    BY <1>3, <2>2
  <2>4. redemptions' \in Seq(Claim) /\ Len(redemptions') = Len(redemptions)
    BY <1>3, <2>3
  <2>5. Claims' = Claims
    BY <1>3, <2>3 DEF Claims
  <2>6. redemptions'[i] = [redemptions[i] EXCEPT !.status = d.set]
    BY <1>2, <1>3, <2>2
  <2>7. /\ redemptions'[i].granted = redemptions[i].granted /\ redemptions'[i].key = redemptions[i].key
        /\ redemptions'[i].customer = redemptions[i].customer
        /\ redemptions'[i].reward = redemptions[i].reward /\ redemptions'[i].status = d.set
    BY <2>1, <2>6 DEF Claim
  <2>8. \A j \in Claims : j # i => redemptions'[j] = redemptions[j]
    BY <1>3, <2>2
  <2> QED
    BY <2>4, <2>5, <2>7, <2>8
<1>5. /\ handed' \in Seq(Nat) /\ Len(handed') = Len(handed)
      /\ \A j \in Claims : handed[j] \in Nat
      /\ \A j \in Claims : handed'[j] = IF j = i /\ d.set = "fulfilled" THEN handed[j] + 1
                                       ELSE handed[j]
  <2>1. handed \in Seq(Nat) /\ Len(handed) = Len(redemptions)
    BY <1>2 DEF Typed
  <2>2. handed \in [1..Len(redemptions) -> Nat] /\ handed[i] \in Nat
    BY <1>2, <1>3, <2>1
  <2>3. handed' \in [1..Len(redemptions) -> Nat]
    <3>1. CASE d.set = "fulfilled"
      <4>1. handed[i] + 1 \in Nat
        BY <2>2
      <4> QED
        BY <1>1, <2>2, <3>1, <4>1
    <3>2. CASE d.set # "fulfilled"
      BY <1>1, <2>2, <3>2
    <3> QED
      BY <3>1, <3>2
  <2>4. handed' \in Seq(Nat) /\ Len(handed') = Len(handed)
    BY <1>3, <2>1, <2>3, NaturalsInSequence
  <2> QED
    BY <1>1, <1>3, <2>2, <2>4
<1>6. Typed'
  BY <1>1, <1>2, <1>4, <1>5 DEF Typed, points, Screens
<1>7. \A k : Redeemed(k)' <=> Redeemed(k)
  BY <1>4 DEF Redeemed
<1>8. RowsOK'
  <2>1. \A u \in Staff : desk'[u] \in {desk[u], NoCode}
    BY <1>1, <1>2 DEF Typed
  <2>2. \A j \in Claims' : ~redemptions'[j].granted => redemptions'[j] = redemptions[j]
    BY <1>2, <1>4
  <2>3. RowsOK
    BY DEF RewardInv
  <2>4. \A j \in Claims' : redemptions'[j].granted => redemptions'[j].key = NoKey
    BY <1>4, <2>3 DEF RowsOK
  <2>5. \A u \in Staff : desk'[u] # NoCode =>
          desk'[u].code \in Claims' /\ redemptions'[desk'[u].code].granted
    BY <1>4, <2>1, <2>3 DEF RowsOK
  <2>6. \A j \in Claims' : ~redemptions'[j].granted =>
          /\ redemptions'[j].key \in Keys
          /\ redemptions'[j].customer = Tap[redemptions'[j].key].customer
          /\ redemptions'[j].reward = Tap[redemptions'[j].key].reward
          /\ redemptions'[j].status = "fulfilled"
    <3>1. \A j \in Claims' : ~redemptions'[j].granted =>
            j \in Claims /\ ~redemptions[j].granted /\ redemptions'[j] = redemptions[j]
      BY <1>4, <2>2
    <3>2. \A j \in Claims : ~redemptions[j].granted =>
            /\ redemptions[j].key \in Keys
            /\ redemptions[j].customer = Tap[redemptions[j].key].customer
            /\ redemptions[j].reward = Tap[redemptions[j].key].reward
            /\ redemptions[j].status = "fulfilled"
      BY <2>3 DEF RowsOK
    <3> QED
      BY <3>1, <3>2
  <2> QED
    BY <2>4, <2>5, <2>6 DEF RowsOK
<1>9. GrantsOK' /\ DebitsOK' /\ KeysOK'
  <2>1. GrantsOK'
    BY <1>1, <1>4 DEF RewardInv, GrantsOK
  <2>2. DebitsOK'
    BY <1>1, <1>4, <1>7 DEF RewardInv, DebitsOK, points
  <2>3. KeysOK'
    BY <1>1, <1>4, <1>7 DEF RewardInv, KeysOK, KeyOK, points
  <2> QED
    BY <2>1, <2>2, <2>3
<1>10. \A c, w : \A m \in Claims : Counted(c, w, m)' \subseteq Counted(c, w, m)
  <2>1. ASSUME NEW c, NEW w, NEW m \in Claims, NEW j \in Counted(c, w, m)'
        PROVE  j \in Counted(c, w, m)
    <3>1. j \in 1..m /\ j \notin contested' /\ j \notin contested /\ j \in Claims
      BY <1>1, <1>3 DEF Counted
    <3>2. redemptions'[j].reward = w /\ redemptions'[j].customer = c /\ redemptions'[j].status # "expired"
      BY DEF Counted
    <3>3. redemptions[j].reward = w /\ redemptions[j].customer = c
      BY <1>4, <3>1, <3>2
    <3>4. redemptions[j].status # "expired"
      <4>1. CASE j # i
        BY <1>4, <3>1, <3>2, <4>1
      <4>2. CASE j = i
        <5>1. redemptions[i].status = d.seen
          BY <1>1, <3>1, <4>2
        <5>2. d.set # "expired"
          BY <1>4, <3>2, <4>2
        <5> QED
          BY <1>1, <4>2, <5>1, <5>2 DEF RewardInv, LapseOK
      <4> QED
        BY <4>1, <4>2
    <3> QED
      BY <3>1, <3>3, <3>4 DEF Counted
  <2> QED
    BY <2>1
<1>11. \A w : Given(w)' = Given(w) /\ Unwritten(w)' = Unwritten(w)
  BY <1>1, <1>4 DEF Given, Unwritten
<1>12. WithinLimit' /\ StockExact'
  <2>1. ASSUME NEW c \in Customers, NEW w \in Rewards, NEW j \in Bought(c, w)'
        PROVE  Cardinality(Counted(c, w, j)') <= Limit[w]
    <3>1. j \in Claims /\ j \in Bought(c, w)
      BY <1>4 DEF Bought
    <3>2. Counted(c, w, j)' \subseteq Counted(c, w, j)
      BY <1>10, <3>1
    <3>3. IsFiniteSet(Counted(c, w, j)) /\ Cardinality(Counted(c, w, j)) \in Nat
      BY <1>2, <3>1, CountedFinite
    <3>4. /\ Cardinality(Counted(c, w, j)') <= Cardinality(Counted(c, w, j))
          /\ Cardinality(Counted(c, w, j)') \in Nat
      BY <3>2, <3>3, FS_Subset, FS_CardinalityType
    <3>5. Cardinality(Counted(c, w, j)) <= Limit[w] /\ Limit[w] \in Nat
      BY <3>1, RewardsAssumption DEF RewardInv, WithinLimit
    <3> QED
      BY <3>3, <3>4, <3>5
  <2>2. StockExact'
    BY <1>1, <1>11 DEF RewardInv, StockExact
  <2> QED
    BY <2>1, <2>2 DEF WithinLimit
<1>13. ASSUME NEW j \in Claims' \ (contested' \cup unmarked'), redemptions'[j].granted
       PROVE  handed'[j] = IF redemptions'[j].status = "fulfilled" THEN 1 ELSE 0
  <2>1. /\ j \in Claims \ (contested \cup unmarked) /\ redemptions[j].granted
        /\ handed[j] = IF redemptions[j].status = "fulfilled" THEN 1 ELSE 0
    BY <1>1, <1>4, <1>13 DEF RewardInv, HandedOverOnce
  <2>2. CASE j = i
    <3>1. redemptions[i].status = d.seen
      BY <1>1, <1>13, <2>2
    <3>2. handed[i] = 0
      <4>1. d.seen # "fulfilled"
        BY <1>2
      <4> QED
        BY <2>1, <2>2, <3>1, <4>1
    <3>3. redemptions'[i].status = d.set
      BY <1>4
    <3>4. i \in Claims /\ handed'[i] = IF d.set = "fulfilled" THEN 1 ELSE 0
      BY <1>5, <2>1, <2>2, <3>2
    <3> QED
      BY <2>2, <3>3, <3>4
  <2>3. CASE j # i
    BY <1>4, <1>5, <2>1, <2>3
  <2> QED
    BY <2>2, <2>3
<1>14. LapseOK'
  <2>1. \A j \in Claims : redemptions'[j].expires = redemptions[j].expires
    <3>1. redemptions[i] \in Claim
      BY <1>2, <1>3
    <3> QED
      BY <1>1, <1>2, <1>3, <3>1 DEF Claim
  <2>2. d.set = "expired" => redemptions[i].expires < now
    BY <1>1 DEF RewardInv, LapseOK
  <2>3. \A u \in Staff : desk'[u] \in {desk[u], NoCode}
    BY <1>1, <1>2 DEF Typed
  <2>4. \A u \in Staff : desk[u] # NoCode => desk[u].code \in Claims
    BY DEF RewardInv, RowsOK
  <2> QED
    BY <1>1, <1>4, <2>1, <2>2, <2>3, <2>4 DEF RewardInv, LapseOK
<1> QED
  BY <1>6, <1>8, <1>9, <1>12, <1>13, <1>14 DEF RewardInv, HandedOverOnce

\* The update is lost: the row stays as it was, and only what was handed over changes.
LEMMA LosesUpdate ==
  ASSUME RewardInv, NEW s \in Staff, Settle(s),
         unmarked' = unmarked \cup {j \in {desk[s].code} : desk[s].set = "fulfilled"},
         UNCHANGED <<redemptions, contested>>
  PROVE  RewardInv'
<1> DEFINE d == desk[s]
           i == desk[s].code
<1> /\ d = desk[s] /\ i = desk[s].code
    /\ unmarked' = unmarked \cup {j \in {i} : d.set = "fulfilled"}
  OBVIOUS
<1> HIDE DEF d, i
<1>1. /\ d # NoCode /\ desk' = [desk EXCEPT ![s] = NoCode] /\ Claims' = Claims
      /\ handed' = IF d.set = "fulfilled" THEN [handed EXCEPT ![i] = @ + 1] ELSE handed
      /\ UNCHANGED <<points, stock, now, till, grant, overlapped, drifted>>
  BY DEF Settle, Claims
<1>2. Typed /\ i \in Claims /\ Claims = 1..Len(redemptions) /\ Len(redemptions) \in Nat
  BY <1>1, ClaimsFinite DEF RewardInv, RowsOK
<1>3. handed \in [1..Len(redemptions) -> Nat] /\ handed[i] \in Nat /\ handed[i] + 1 \in Nat
  <2>1. handed \in Seq(Nat) /\ Len(handed) = Len(redemptions)
    BY <1>2 DEF Typed
  <2>2. handed \in [1..Len(redemptions) -> Nat]
    BY <1>2, <2>1
  <2> QED
    BY <1>2, <2>2
<1>4. handed' \in [1..Len(redemptions) -> Nat]
  BY <1>1, <1>2, <1>3
<1>5. handed' \in Seq(Nat) /\ Len(handed') = Len(redemptions')
  BY SMTT(20), <1>2, <1>4
<1>6. \A u \in Staff : desk'[u] \in {desk[u], NoCode}
  BY <1>1, <1>2 DEF Typed
<1>7. Typed'
  BY <1>1, <1>2, <1>5 DEF Typed, points, Screens
<1>8. RowsOK' /\ GrantsOK' /\ DebitsOK' /\ KeysOK'
  BY <1>1, <1>6 DEF RewardInv, RowsOK, GrantsOK, DebitsOK, KeysOK, KeyOK, Redeemed, points
<1>9. LapseOK'
  BY <1>1, <1>6, LapseStands
<1>10. /\ \A c, w : Bought(c, w)' = Bought(c, w) /\ \A m : Counted(c, w, m)' = Counted(c, w, m)
       /\ \A w : Given(w)' = Given(w) /\ Unwritten(w)' = Unwritten(w)
  BY <1>1 DEF Counted, Bought, Given, Unwritten
<1>11. WithinLimit' /\ StockExact'
  BY <1>1, <1>10 DEF RewardInv, WithinLimit, StockExact
<1>12. \A j \in Claims \ unmarked' : handed'[j] = handed[j]
  BY <1>1, <1>2, <1>3
<1>13. HandedOverOnce'
  BY <1>1, <1>12 DEF RewardInv, HandedOverOnce
<1> QED
  BY <1>7, <1>8, <1>9, <1>11, <1>13 DEF RewardInv

LEMMA RewardSettle == ASSUME RewardInv, NEW s \in Staff, Settle(s) PROVE RewardInv'
<1>1. CASE /\ redemptions' = [redemptions EXCEPT ![desk[s].code].status = desk[s].set]
           /\ contested' = contested \cup {j \in {desk[s].code} : redemptions[j].status # desk[s].seen}
           /\ UNCHANGED unmarked
  BY <1>1, SettlesCode
<1>2. CASE /\ unmarked' = unmarked \cup {j \in {desk[s].code} : desk[s].set = "fulfilled"}
           /\ UNCHANGED <<redemptions, contested>>
  BY <1>2, LosesUpdate
<1> QED
  BY <1>1, <1>2 DEF Settle

LEMMA RewardStep == RewardInv /\ [RewardNext]_rewardVars => RewardInv'
<1> SUFFICES ASSUME RewardInv, [RewardNext]_rewardVars PROVE RewardInv'
  OBVIOUS
<1>1. CASE UNCHANGED rewardVars
  <2>1. UNCHANGED <<balance, applied, redemptions, stock, now, till, grant, desk,
                    handed, overlapped, drifted, contested, unmarked>> /\ Claims' = Claims
    BY <1>1 DEF rewardVars, points, Claims
  <2>2. Typed' /\ RowsOK' /\ LapseOK' /\ GrantsOK' /\ DebitsOK' /\ KeysOK'
    BY <2>1 DEF RewardInv, Typed, RowsOK, LapseOK, GrantsOK, DebitsOK, KeysOK, KeyOK, Redeemed
  <2>3. \A w : Unwritten(w)' = Unwritten(w)
    BY <2>1 DEF Unwritten
  <2> QED
    BY <2>1, <2>2, <2>3, RowsStand, StockStands DEF RewardInv
<1> QED
  BY <1>1, RewardEarn, RewardBegin, RewardRedeem, RewardRefuse, RewardGrantRead, RewardGrantInsert,
     RewardGrantTake, RewardGrantStop, RewardLook, RewardSettle, RewardTick DEF RewardNext

LEMMA RewardInvariant == RewardSpec => []RewardInv
BY RewardsInitially, RewardStep, PTL DEF RewardSpec

LEMMA InvImpliesTypeOK == RewardInv => RewardTypeOK
<1> SUFFICES ASSUME RewardInv PROVE RewardTypeOK
  OBVIOUS
<1>1. \A g \in Granters : grant[g].phase \in {"free", "read", "inserted"}
  BY DEF RewardInv, Typed, Grants, Free
<1>2. \A s \in Staff : desk[s].code \in Claims \cup {0}
  BY DEF RewardInv, RowsOK, NoCode
<1> QED
  BY <1>1, <1>2 DEF RewardInv, Typed, RewardTypeOK

LEMMA KeysImplyReplays == RewardInv => ReplaysRedeemOnce
<1> SUFFICES ASSUME RewardInv, NEW i \in Claims, NEW j \in Claims, NEW k,
                    redemptions[i].key = k, redemptions[j].key = k, k \notin overlapped \cup {NoKey}
             PROVE  i = j
  BY DEF ReplaysRedeemOnce
<1>1. k \in Keys
  BY DEF RewardInv, RowsOK
<1> QED
  BY <1>1 DEF RewardInv, KeysOK, KeyOK

\* Every redemption that costs points has its debit and every debit its redemption,
\* after any interleaving of tills, grants and credits.
THEOREM DebitsAlwaysMatch == RewardSpec => []DebitsMatchRedemptions
<1>1. RewardInv => DebitsMatchRedemptions
  BY InvImpliesTypeOK DEF RewardInv, DebitsOK, DebitsMatchRedemptions
<1> QED
  BY <1>1, RewardInvariant, PTL

\* No customer buys a reward whose limit purchases and grants have reached, and the
\* stock accounts for every unit until a grant writes it from a stale read or dies.
THEOREM LimitsAlwaysKept == RewardSpec => []LimitsKept
<1>1. RewardInv => LimitsKept
  BY DEF RewardInv, LimitsKept
<1> QED
  BY <1>1, RewardInvariant, PTL

\* A key that was never in flight at two tills at once redeems at most once.
THEOREM ReplaysAlwaysRedeemOnce == RewardSpec => []ReplaysRedeemOnce
BY KeysImplyReplays, RewardInvariant, PTL

\* A claim code that two people never settled on one look, and whose marking was not
\* lost, is handed over exactly when it is fulfilled, and once.
THEOREM CodesHandedOverOnce == RewardSpec => []HandedOverOnce
<1>1. RewardInv => HandedOverOnce
  BY DEF RewardInv
<1> QED
  BY <1>1, RewardInvariant, PTL
==============================================================================
