---------------------------- MODULE MCScheduler -----------------------------
(* Model-checking instances of what the scheduler's ticks keep going:      *)
(* Billing and DomainVerification.  They have no step in common, so a      *)
(* behaviour moves one of them, chosen at its start, under that one's      *)
(* fairness.                                                               *)
EXTENDS Billing, DomainVerification

VARIABLE ticking    \* what the scheduler keeps going

SchedulerInit == Init /\ DomainsInit /\ ticking \in {"billing", "domains"}

SchedulerNext ==
    \/ ticking = "billing" /\ Next /\ UNCHANGED <<domainsVars, ticking>>
    \/ ticking = "domains" /\ DomainsNext /\ UNCHANGED <<vars, ticking>>

SchedulerSpec ==
    /\ SchedulerInit
    /\ [][SchedulerNext]_<<vars, domainsVars, ticking>>
    /\ ticking = "billing" => Fairness
    /\ ticking = "domains" => DomainsFairness
=============================================================================
