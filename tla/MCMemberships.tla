---------------------------- MODULE MCMemberships ----------------------------
(* An instance of Memberships small enough for TLC: two customers for one  *)
(* seat, two overlapping sweeps and somebody who cancels.                  *)
EXTENDS Memberships, TLC

CONSTANTS m1, m2, s1, s2, d1

Symmetry == Permutations(Members) \cup Permutations(Sweeps)
=============================================================================
