------------------------------ MODULE MCUsage -------------------------------
(* Model-checking instances of Usage.                                      *)
EXTENDS Usage, TLC

Identities == Permutations(Messages)
=============================================================================
