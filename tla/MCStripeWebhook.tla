-------------------------- MODULE MCStripeWebhook --------------------------
(* StripeWebhook with times on, inside and outside of the tolerance, and    *)
(* one signature more than are looked at.                                   *)
EXTENDS StripeWebhook, TLC

MCSymmetry == Permutations(Payload)
=============================================================================
