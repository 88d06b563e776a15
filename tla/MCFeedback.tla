----------------------------- MODULE MCFeedback -----------------------------
(* Model-checking instances of Feedback.                                   *)
EXTENDS Feedback, TLC

CONSTANTS a1, e1, e2, w1, w2

(* A campaign mail that may be sent twice, and a transactional one.        *)
TwoCopies == {m \in AllMails({a1}, 2) : m.via = "campaign" \/ m.copy = 1}

(* Hard bounces no longer suppress.                                        *)
Lenient == {[hardBounce |-> FALSE, complaint |-> TRUE]}

Symmetry == Permutations(Workers) \cup Permutations(EventIds)
=============================================================================
