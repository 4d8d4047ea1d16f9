-------------------------- MODULE MCUsageAccounting --------------------------
(* UsageAccounting on a small instance: two events of one account, prices    *)
(* scaled down so that a call costs a few minor units.                       *)
EXTENDS UsageAccounting, TLC

CONSTANTS e1, e2

\* A call that costs two minor units, and one that costs one and loses a fraction.
MCInputTokens == e1 :> 2 @@ e2 :> 3
MCOutputTokens == e1 :> 3 @@ e2 :> 0

MCOneInput == e1 :> 2
MCOneOutput == e1 :> 3

=============================================================================
