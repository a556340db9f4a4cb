------------------------ MODULE MCRewardRedemption ------------------------
(* An instance of RewardRedemption small enough for TLC: one customer, a   *)
(* reward that costs points and can be bought without limit, a free one    *)
(* that a customer may have once, and one key for each of them.            *)
EXTENDS RewardRedemption, TLC

CONSTANTS c1, paid, gift, k1, k2, e1, t1, t2, g1, s1, s2

MCCost == (paid :> 1) @@ (gift :> 0)
MCStock0 == (paid :> 2) @@ (gift :> 2)
MCLimit == (paid :> 9) @@ (gift :> 1)
MCTap == (k1 :> [customer |-> c1, reward |-> paid])
      @@ (k2 :> [customer |-> c1, reward |-> gift])
MCCredits == e1 :> [customer |-> c1, amount |-> 1]

MCSymmetry == Permutations({t1, t2}) \cup Permutations({s1, s2})
=============================================================================
