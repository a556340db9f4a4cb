---------------------------- MODULE MCWalletSync ----------------------------
(* An instance of WalletSync small enough for TLC: Google, which is sent   *)
(* the card, and Apple, which makes the phone fetch it; two minutes, two   *)
(* changes, two workers.                                                   *)
EXTENDS WalletSync, TLC

CONSTANTS w1, w2, m1, m2, apple, google

MCMinutes == <<m1, m2>>
MCRetryKey(p, n) == <<p, n>>
MCJobs == {m1, m2} \cup (Providers \X (1..(MaxSyncAttempts - 1)))
MCProvidersOf(j) == IF j \in {m1, m2} THEN Providers ELSE {j[1]}

Symmetry == Permutations(Workers)
=============================================================================
