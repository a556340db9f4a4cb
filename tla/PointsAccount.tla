--------------------------- MODULE PointsAccount ---------------------------
(***************************************************************************)
(* What the points ledger promises to the code that calls it, without lots,*)
(* locks, keys or sweeps: a balance per account, and requests that take    *)
(* effect in one step, at most once, and only when the account can pay.    *)
(***************************************************************************)
EXTENDS Integers

CONSTANTS Accounts, Requests, Op

VARIABLES
  balance,     \* points each account can spend
  applied      \* requests that have taken effect

vars == <<balance, applied>>

Init ==
  /\ balance = [a \in Accounts |-> 0]
  /\ applied = {}

Earn(r) ==
  /\ Op[r].kind = "credit"
  /\ balance' = [balance EXCEPT ![Op[r].acct] = @ + Op[r].amount]

Spend(r) ==
  /\ Op[r].kind = "debit"
  /\ Op[r].amount <= balance[Op[r].acct]
  /\ balance' = [balance EXCEPT ![Op[r].acct] = @ - Op[r].amount]

Apply(r) ==
  /\ r \notin applied
  /\ Earn(r) \/ Spend(r)
  /\ applied' = applied \cup {r}

\* Two accounts become one: nothing is gained and nothing is lost.
Transfer(from, to) ==
  /\ from # to
  /\ balance' = [balance EXCEPT ![from] = 0, ![to] = @ + balance[from]]
  /\ UNCHANGED applied

\* Points expire: no account gains, and none goes below zero.
Lapse ==
  /\ balance' \in [Accounts -> Nat]
  /\ \A a \in Accounts : balance'[a] <= balance[a]
  /\ UNCHANGED applied

Next ==
  \/ \E r \in Requests : Apply(r)
  \/ \E from, to \in Accounts : Transfer(from, to)
  \/ Lapse

Spec == Init /\ [][Next]_vars
=============================================================================
