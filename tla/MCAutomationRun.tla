--------------------------- MODULE MCAutomationRun ---------------------------
(* An instance of AutomationRun small enough for TLC: two enrolments that  *)
(* can overlap, two runs, two workers, and messages on one channel.        *)
EXTENDS AutomationRun, TLC

CONSTANTS w1, w2, r1, r2, t1, t2

MCCustomerOf == [r \in Runs |-> "ana"]
MCChannels == [r \in Runs |-> 1]

Symmetry == Permutations(Workers) \cup Permutations(Runs) \cup Permutations(Triggers)
=============================================================================
