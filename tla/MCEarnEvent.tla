---------------------------- MODULE MCEarnEvent ----------------------------
(* An instance of EarnEvent small enough for TLC.  One event has a         *)
(* stackable bonus in both programs, or nothing when the rules cannot be   *)
(* read; together the events are worth more than the cap.                  *)
EXTENDS EarnEvent, TLC

CONSTANTS e1, e2, e3, stamps, points, h1, h2, h3

Award(p, n) == [program |-> p, amount |-> n]
MCAwards == (e1 :> {<<Award(stamps, 1), Award(stamps, 1), Award(points, 2), Award(points, 1)>>,
                    <<>>})
         @@ (e2 :> {<<Award(stamps, 1), Award(points, 2)>>})
         @@ (e3 :> {<<Award(points, 1)>>})
MCCap == points :> 4
Interchangeable == Permutations(Handlers)
=============================================================================
