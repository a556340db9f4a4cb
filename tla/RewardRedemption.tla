-------------------------- MODULE RewardRedemption --------------------------
(***************************************************************************)
(* Rewards leave the shop in two ways.  A customer buys one with points:   *)
(* redeem_reward of 000006_loyalty_functions.sql, one transaction that     *)
(* looks its idempotency key up, locks the reward, counts, debits the      *)
(* account and inserts a row of reward_redemptions.  Or the business gives *)
(* one away: lib/loyalty/grants.ts inserts a claim code, which staff scan  *)
(* at the counter, and every statement there is its own transaction.       *)
(*                                                                         *)
(* The customer's points are a PointsAccount, which the ledger implements. *)
(* Unlocked reads are steps of their own: the key lookup, the grant's read *)
(* of the stock, and the look staff take at a code.                        *)
(***************************************************************************)
EXTENDS Integers, Sequences, FiniteSets

CONSTANTS
  Customers, Rewards,
  Cost,        \* rewards.cost, in points; 0 is free
  Stocked,     \* the rewards whose stock is not null
  Stock0,      \* the stock those rewards start with
  Limit,       \* rewards.usage_limit_per_customer
  Keys,        \* idempotency keys the tills send
  Tap,         \* what each key redeems: [customer, reward]
  Earnings,    \* credits, keyed, and what each is worth: [customer, amount]
  Credits,
  Tills,       \* sessions that run redeem_reward
  Granters,    \* automations and geofence jobs that give rewards away
  Staff,       \* people at the counter scanning claim codes
  NoKey,       \* no key
  Valid,       \* ticks a claim code stays valid (valid_days)
  Horizon,     \* bound: the clock stops here
  MaxClaims,   \* bound: no redemption or grant starts beyond this many rows
  MaxUnmarked  \* bound: no update is lost once this many codes are unmarked

ASSUME RewardsAssumption ==
  /\ Stocked \subseteq Rewards
  /\ Cost \in [Rewards -> Nat]
  /\ Limit \in [Rewards -> Nat]
  /\ Stock0 \in [Stocked -> Nat]
  /\ IsFiniteSet(Granters)
  /\ Valid \in Nat /\ Horizon \in Nat /\ MaxClaims \in Nat /\ MaxUnmarked \in Nat

ASSUME KeysAssumption ==
  /\ NoKey \notin Keys
  /\ Keys \cap Earnings = {}
  /\ Tap \in [Keys -> [customer : Customers, reward : Rewards]]
  /\ Credits \in [Earnings -> [customer : Customers, amount : Nat \ {0}]]

VARIABLES
  balance, applied,  \* the customers' points
  redemptions,       \* reward_redemptions, in commit order
  stock,             \* rewards.stock
  now,
  till,              \* per till, the key whose lookup found nothing
  grant,             \* per granter, how far it is and the stock it has read
  desk,              \* per member of staff, the code on the screen
  handed,            \* history: how often staff were told to hand a code over
  overlapped,        \* history: keys that were in flight twice at once
  drifted,           \* history: rewards whose stock a grant wrote blindly or not at all
  contested,         \* history: codes settled by somebody whose screen was stale
  unmarked           \* history: codes handed over whose update failed

points == <<balance, applied>>
rewardVars == <<balance, applied, redemptions, stock, now, till, grant, desk,
          handed, overlapped, drifted, contested, unmarked>>

PointsOp ==
  [r \in Keys \cup Earnings |->
     IF r \in Keys
     THEN [kind |-> "debit", acct |-> Tap[r].customer, amount |-> Cost[Tap[r].reward]]
     ELSE [kind |-> "credit", acct |-> Credits[r].customer, amount |-> Credits[r].amount]]

Points == INSTANCE PointsAccount
            WITH Accounts <- Customers, Requests <- Keys \cup Earnings, Op <- PointsOp

Statuses == {"claimed", "fulfilled", "expired"}
Claim == [customer : Customers, reward : Rewards, key : Keys \cup {NoKey},
          granted : BOOLEAN, status : Statuses, expires : Nat]

Claims == DOMAIN redemptions
AtLeast0(x) == IF x >= 0 THEN x ELSE 0

Free == [phase |-> "free"]
NoCode == [code |-> 0]

RewardInit ==
  /\ Points!Init
  /\ redemptions = <<>>
  /\ stock = Stock0
  /\ now = 0
  /\ till = [t \in Tills |-> NoKey]
  /\ grant = [g \in Granters |-> Free]
  /\ desk = [s \in Staff |-> NoCode]
  /\ handed = <<>>
  /\ overlapped = {} /\ drifted = {} /\ contested = {} /\ unmarked = {}

----------------------------------------------------------------------------
(* Points come in through the ledger.                                      *)
Earn(e) ==
  /\ Points!Apply(e)
  /\ UNCHANGED <<redemptions, stock, now, till, grant, desk, handed, overlapped,
                 drifted, contested, unmarked>>

----------------------------------------------------------------------------
(* redeem_reward.                                                          *)

\* Mutant: the lookup is forgotten.
NeverRedeemed(k) == k \notin Keys
Redeemed(k) == \E i \in Claims : redemptions[i].key = k

\* The key is not found: the call goes on.  A key that is found answers with the
\* first redemption and writes nothing.
Begin(t, k) ==
  /\ till[t] = NoKey
  /\ ~Redeemed(k)
  /\ Len(redemptions) < MaxClaims
  /\ till' = [till EXCEPT ![t] = k]
  /\ overlapped' = overlapped \cup {x \in {k} : \E u \in Tills : till[u] = k}
  /\ UNCHANGED <<points, redemptions, stock, now, grant, desk, handed, drifted, contested, unmarked>>

\* Mutant: only codes still to be handed over count.
OnlyClaimedCount == {"claimed"}
CountsAgainstLimit == {"claimed", "fulfilled"}

Used(c, w) == {i \in Claims : /\ redemptions[i].reward = w
                              /\ redemptions[i].customer = c
                              /\ redemptions[i].status \in CountsAgainstLimit}

InStock(w) == w \in Stocked => stock[w] > 0
BelowLimit(c, w) == Cardinality(Used(c, w)) < Limit[w]

\* debit_account under the redemption's key: a key it has seen costs nothing.
CanPay(k) ==
  LET w == Tap[k].reward
  IN  Cost[w] = 0 \/ k \in applied \/ balance[Tap[k].customer] >= Cost[w]

Pay(k) ==
  IF Cost[Tap[k].reward] = 0 \/ k \in applied THEN UNCHANGED points ELSE Points!Apply(k)

CanRedeem(k) ==
  /\ InStock(Tap[k].reward)
  /\ BelowLimit(Tap[k].customer, Tap[k].reward)
  /\ CanPay(k)

TakeOne(w) == IF w \in Stocked THEN [stock EXCEPT ![w] = @ - 1] ELSE stock

Insert(claim) ==
  /\ redemptions' = Append(redemptions, claim)
  /\ handed' = Append(handed, 0)

\* From the lock on the reward to the commit.
Redeem(t) ==
  LET k == till[t]
      w == Tap[k].reward
  IN  /\ k # NoKey
      /\ CanRedeem(k)
      /\ Pay(k)
      /\ Insert([customer |-> Tap[k].customer, reward |-> w, key |-> k,
                 granted |-> FALSE, status |-> "fulfilled", expires |-> now + Valid])
      /\ stock' = TakeOne(w)
      /\ till' = [till EXCEPT ![t] = NoKey]
      /\ UNCHANGED <<now, grant, desk, overlapped, drifted, contested, unmarked>>

\* Mutant: the debit is a transaction of its own, and stays.
RefuseAfterPaying(t) ==
  /\ till[t] # NoKey
  /\ ~CanRedeem(till[t])
  /\ IF CanPay(till[t]) THEN Pay(till[t]) ELSE UNCHANGED points
  /\ till' = [till EXCEPT ![t] = NoKey]
  /\ UNCHANGED <<redemptions, stock, now, grant, desk, handed, overlapped, drifted,
                 contested, unmarked>>

\* Out of stock, over the limit or short of points: everything rolls back.
RefuseReward(t) ==
  /\ till[t] # NoKey
  /\ ~CanRedeem(till[t])
  /\ till' = [till EXCEPT ![t] = NoKey]
  /\ UNCHANGED <<points, redemptions, stock, now, grant, desk, handed, overlapped,
                 drifted, contested, unmarked>>

----------------------------------------------------------------------------
(* createAdminGrantReward: select the reward, insert the code, write the   *)
(* stock it has read, less one.                                            *)

GrantRead(g, c, w) ==
  /\ grant[g] = Free
  /\ InStock(w)
  /\ Len(redemptions) < MaxClaims
  /\ grant' = [grant EXCEPT ![g] =
                 [phase |-> "read", customer |-> c, reward |-> w,
                  seen |-> IF w \in Stocked THEN stock[w] ELSE 0]]
  /\ UNCHANGED <<points, redemptions, stock, now, till, desk, handed, overlapped,
                 drifted, contested, unmarked>>

GrantInsert(g) ==
  /\ grant[g].phase = "read"
  /\ Insert([customer |-> grant[g].customer, reward |-> grant[g].reward, key |-> NoKey,
             granted |-> TRUE, status |-> "claimed", expires |-> now + Valid])
  /\ grant' = [grant EXCEPT ![g] =
                 IF grant[g].reward \in Stocked THEN [@ EXCEPT !.phase = "inserted"]
                                                ELSE Free]
  /\ UNCHANGED <<points, stock, now, till, desk, overlapped, drifted, contested, unmarked>>

GrantTake(g) ==
  LET w == grant[g].reward
  IN  /\ grant[g].phase = "inserted"
      /\ stock' = [stock EXCEPT ![w] = AtLeast0(grant[g].seen - 1)]
      /\ drifted' = drifted \cup {x \in {w} : stock[x] # grant[g].seen}
      /\ grant' = [grant EXCEPT ![g] = Free]
      /\ UNCHANGED <<points, redemptions, now, till, desk, handed, overlapped, contested, unmarked>>

\* The process dies, or the database refuses a statement, between two of them.
GrantStop(g) ==
  /\ grant[g] # Free
  /\ drifted' = drifted \cup {grant[h].reward : h \in {h \in {g} : grant[h].phase = "inserted"}}
  /\ grant' = [grant EXCEPT ![g] = Free]
  /\ UNCHANGED <<points, redemptions, stock, now, till, desk, handed, overlapped, contested, unmarked>>

----------------------------------------------------------------------------
(* fulfillGrantedReward: read the code, then update it by id alone.        *)

\* Mutant: a used code is not refused.
AnyCode(i) == i \in Claims
NotRefused(i) == redemptions[i].status # "fulfilled"

Look(s, i) ==
  /\ desk[s] = NoCode
  /\ NotRefused(i)
  /\ desk' = [desk EXCEPT ![s] =
                [code |-> i, seen |-> redemptions[i].status,
                 set |-> IF redemptions[i].expires < now THEN "expired" ELSE "fulfilled"]]
  /\ UNCHANGED <<points, redemptions, stock, now, till, grant, handed, overlapped,
                 drifted, contested, unmarked>>

\* The error of the update is not looked at: staff are told to hand the code over all
\* the same.
Settle(s) ==
  LET i == desk[s].code
  IN  /\ desk[s] # NoCode
      /\ handed' = IF desk[s].set = "fulfilled" THEN [handed EXCEPT ![i] = @ + 1] ELSE handed
      /\ \/ /\ redemptions' = [redemptions EXCEPT ![i].status = desk[s].set]
            /\ contested' = contested \cup {j \in {i} : redemptions[j].status # desk[s].seen}
            /\ UNCHANGED unmarked
         \/ /\ Cardinality(unmarked) < MaxUnmarked
            /\ unmarked' = unmarked \cup {j \in {i} : desk[s].set = "fulfilled"}
            /\ UNCHANGED <<redemptions, contested>>
      /\ desk' = [desk EXCEPT ![s] = NoCode]
      /\ UNCHANGED <<points, stock, now, till, grant, overlapped, drifted>>

Tick ==
  /\ now < Horizon
  /\ now' = now + 1
  /\ UNCHANGED <<points, redemptions, stock, till, grant, desk, handed, overlapped,
                 drifted, contested, unmarked>>

RewardNext ==
  \/ \E e \in Earnings : Earn(e)
  \/ \E t \in Tills : \/ \E k \in Keys : Begin(t, k)
                      \/ Redeem(t)
                      \/ RefuseReward(t)
  \/ \E g \in Granters : \/ \E c \in Customers, w \in Rewards : GrantRead(g, c, w)
                         \/ GrantInsert(g)
                         \/ GrantTake(g)
                         \/ GrantStop(g)
  \/ \E s \in Staff : \/ \E i \in Claims : Look(s, i)
                      \/ Settle(s)
  \/ Tick

RewardSpec == RewardInit /\ [][RewardNext]_rewardVars

----------------------------------------------------------------------------
(* Properties.                                                             *)

\* Every variable keeps its type.
RewardTypeOK ==
  /\ redemptions \in Seq(Claim)
  /\ balance \in [Customers -> Nat]
  /\ applied \subseteq Keys \cup Earnings
  /\ stock \in [Stocked -> Nat]
  /\ now \in 0..Horizon
  /\ till \in [Tills -> Keys \cup {NoKey}]
  /\ DOMAIN grant = Granters /\ DOMAIN desk = Staff
  /\ handed \in Seq(Nat) /\ Len(handed) = Len(redemptions)
  /\ \A g \in Granters : grant[g].phase \in {"free", "read", "inserted"}
  /\ \A s \in Staff : desk[s].code \in Claims \cup {0}
  /\ drifted \subseteq Stocked /\ contested \subseteq Claims /\ unmarked \subseteq Claims

\* The two records of one event agree: every redemption that costs points has its
\* debit, and every debit has a redemption (scripts/db/009_redemptions.sql).
DebitsMatchRedemptions ==
  /\ RewardTypeOK
  /\ \A i \in Claims :
       ~redemptions[i].granted /\ Cost[redemptions[i].reward] > 0 =>
         redemptions[i].key \in applied
  /\ \A k \in applied \cap Keys : Redeemed(k)

Bought(c, w) == {i \in Claims : /\ redemptions[i].reward = w
                                /\ redemptions[i].customer = c
                                /\ ~redemptions[i].granted}

\* The rows up to i that counted against the limit when i was inserted, or less.
Counted(c, w, i) == {j \in 1..i \ contested : /\ redemptions[j].reward = w
                                              /\ redemptions[j].customer = c
                                              /\ redemptions[j].status # "expired"}

\* However many tills race, no customer buys a reward whose limit is reached, by
\* purchases or by what was granted before (which looks at no limit itself).
WithinLimit ==
  \A c \in Customers, w \in Rewards :
    \A i \in Bought(c, w) : Cardinality(Counted(c, w, i)) <= Limit[w]

Given(w) == {i \in Claims : redemptions[i].reward = w}
Unwritten(w) == {g \in Granters : grant[g].phase = "inserted" /\ grant[g].reward = w}

\* Stock and redemptions account for every unit, unless a grant has overwritten
\* the stock with a stale number or has died before writing it.
StockExact ==
  \A w \in Stocked \ drifted :
    stock[w] + Cardinality(Given(w)) = Stock0[w] + Cardinality(Unwritten(w))

\* Neither a customer's limit nor the stock is overrun or miscounted.
LimitsKept == WithinLimit /\ StockExact

\* Replaying a redemption once the first call has answered redeems nothing.
ReplaysRedeemOnce ==
  \A i, j \in Claims :
    /\ redemptions[i].key = redemptions[j].key
    /\ redemptions[i].key \notin overlapped \cup {NoKey}
    => i = j

\* A claim code is handed over once, and not at all once it has expired, unless
\* two people had it on their screens or the update that marks it was lost.
HandedOverOnce ==
  \A i \in Claims \ (contested \cup unmarked) :
    redemptions[i].granted =>
      handed[i] = IF redemptions[i].status = "fulfilled" THEN 1 ELSE 0
=============================================================================
