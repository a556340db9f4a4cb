--------------------------- MODULE MCCounterScan ---------------------------
(* An instance of CounterScan small enough for TLC: two scans, each worth  *)
(* a stamp, and no daily cap (MCEarnEvent has that).                       *)
EXTENDS CounterScan, TLC

CONSTANTS s1, s2, stamps, f1, f2, h1

MCAwards == [s \in Scans |-> {<<[program |-> stamps, amount |-> 1]>>}]
MCCap == [p \in {} |-> 0]
=============================================================================
