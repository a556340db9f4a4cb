------------------------- MODULE MCLoyaltyLedger -------------------------
(* An instance of LoyaltyLedger small enough for TLC: two accounts, one    *)
(* debit that needs two lots, and two sweeps that can overlap.             *)
EXTENDS LoyaltyLedger, TLC

CONSTANTS a1, a2, r1, r2, r3, c1, c2, w1, w2

MCOp == (r1 :> [kind |-> "credit", acct |-> a1, amount |-> 2])
     @@ (r2 :> [kind |-> "credit", acct |-> a1, amount |-> 1])
     @@ (r3 :> [kind |-> "debit",  acct |-> a1, amount |-> 2])

MCSymmetry == Permutations({c1, c2}) \cup Permutations({w1, w2})
=============================================================================
