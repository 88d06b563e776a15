----------------------------- MODULE SendLedger -----------------------------
(***************************************************************************)
(* What a campaign send promises about each recipient, whatever crashes    *)
(* and overlaps happen below: a recipient is materialised once, is mailed  *)
(* only then, is recorded as sent only after having been mailed, is never  *)
(* forgotten or made pending again, and is billed only after having been   *)
(* mailed.  It does not promise that a recipient is mailed only once, nor  *)
(* that the record of an outcome is final.                                 *)
(***************************************************************************)
CONSTANT Emails

VARIABLES
    outcome,    \* what is recorded of each recipient
    mailed,     \* who got the message
    billed      \* who was metered

vars == <<outcome, mailed, billed>>

TypeOK ==
    /\ outcome \in [Emails -> {"none", "pending", "sent", "failed", "skipped"}]
    /\ mailed \in SUBSET Emails
    /\ billed \in SUBSET Emails

Init ==
    /\ outcome = [e \in Emails |-> "none"]
    /\ mailed = {}
    /\ billed = {}

Materialise(S) ==
    /\ \A e \in S : outcome[e] = "none"
    /\ outcome' = [e \in Emails |-> IF e \in S THEN "pending" ELSE outcome[e]]
    /\ UNCHANGED <<mailed, billed>>

Mail(e) ==
    /\ outcome[e] # "none"
    /\ mailed' = mailed \cup {e}
    /\ UNCHANGED <<outcome, billed>>

Record(e, result) ==
    /\ outcome[e] # "none"
    /\ result = "sent" => e \in mailed
    /\ outcome' = [outcome EXCEPT ![e] = result]
    /\ UNCHANGED <<mailed, billed>>

Bill(S) ==
    /\ S \subseteq mailed
    /\ billed' = billed \cup S
    /\ UNCHANGED <<outcome, mailed>>

Next ==
    \/ \E S \in SUBSET Emails : Materialise(S) \/ Bill(S)
    \/ \E e \in Emails :
         Mail(e) \/ \E result \in {"sent", "failed", "skipped"} : Record(e, result)

Spec == Init /\ [][Next]_vars
=============================================================================
