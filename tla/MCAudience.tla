----------------------------- MODULE MCAudience -----------------------------
(* Model-checking instances of Audience.                                   *)
EXTENDS Audience, TLC

CONSTANTS a, b

(* Neither address contains the other.                                     *)
Apart == [e \in {a, b} |-> {e}]

(* One subscriber, who has left the list.                                  *)
Left == <<[email |-> a, state |-> "blocklisted", in |-> [l \in Lists |-> "unsubscribed"]]>>

(* An upload that has a row for each address and one that cannot be read.  *)
Upload == {<<a, b>>, <<b, "bad">>}

Symmetry == Permutations(Slots)
=============================================================================
