---------------------------- MODULE MCGiftCards ----------------------------
(* An instance of GiftCards small enough for TLC: one sale and room for a  *)
(* second card, a redemption of one unit and one for all of it (or for     *)
(* more than is left), two tills, two workers and the sweep.               *)
EXTENDS GiftCards, TLC

CONSTANTS w1, w2, c1, c2, s1, k1, k2, t1, t2

MCAsked == (k1 :> 1) @@ (k2 :> 2)

Symmetry == Permutations(Workers) \cup Permutations(Cards) \cup Permutations(Tills)
=============================================================================
