-------------------------- MODULE MCBillingWebhooks --------------------------
(* BillingWebhooks on a small instance.                                      *)
EXTENDS BillingWebhooks, TLC

CONSTANTS i1, c1, c2

\* The cards are alike.
CardsAlike == Permutations(Cards)

=============================================================================
