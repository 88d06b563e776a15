----------------------------- MODULE MCBilling ------------------------------
(* Model-checking instances of Billing.                                    *)
EXTENDS Billing, TLC

Identities == Permutations(Requests)
=============================================================================
