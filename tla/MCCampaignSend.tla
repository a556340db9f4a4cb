--------------------------- MODULE MCCampaignSend ---------------------------
(* An instance of CampaignSend small enough for TLC: two workers, two      *)
(* customers, of whom Ana is tried on two channels, and two batches whose  *)
(* contents depend on when the audience is resolved.                       *)
EXTENDS CampaignSend, TLC

CONSTANTS w1, w2, b1, b2, ana, ben

MCCustomerOf == [k \in Keys |-> k]
MCChannels == [k \in Keys |-> IF k = ana THEN 2 ELSE 1]

\* Nobody; Ana alone; or both, Ana in another batch, after the segment has changed.
MCAudiences ==
  {[b \in Batches |-> <<>>],
   [b \in Batches |-> IF b = b1 THEN <<ana>> ELSE <<>>],
   [b \in Batches |-> IF b = b1 THEN <<ben>> ELSE <<ana>>]}

Symmetry == Permutations(Workers)
=============================================================================
