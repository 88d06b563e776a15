---------------------------- MODULE PaidService -----------------------------
(***************************************************************************)
(* What billing promises a tenant, whatever crashes, stale reads and       *)
(* overlapping charges happen below: the periods are billed one after the  *)
(* other, each only when the one before has been paid and is over; money   *)
(* is taken only for a period that was billed, and what was billed, taken  *)
(* or paid stays so; service is given only in a period that has been paid, *)
(* and may be withdrawn at any time.  It does not promise that money is    *)
(* taken only once, nor that service never returns to an earlier period.   *)
(***************************************************************************)
EXTENDS Integers

CONSTANT Periods

VARIABLES
    billed,    \* the periods with a bill
    charged,   \* the periods that money was taken for
    paid,      \* the periods whose bill is paid
    served,    \* the period in which the tenant has service, if any
    time       \* how many periods are over

vars == <<billed, charged, paid, served, time>>

Init ==
    /\ billed = {} /\ charged = {} /\ paid = {} /\ served = {}
    /\ time = 0

Bill(p) ==
    /\ p \notin billed
    /\ p > 1 => p - 1 \in paid /\ p - 1 <= time
    /\ billed' = billed \cup {p}
    /\ UNCHANGED <<charged, paid, served, time>>

Take(p) ==
    /\ p \in billed
    /\ charged' = charged \cup {p}
    /\ UNCHANGED <<billed, paid, served, time>>

Settle(p) ==
    /\ p \in charged
    /\ paid' = paid \cup {p}
    /\ UNCHANGED <<billed, charged, served, time>>

Serve(p) ==
    /\ p \in paid
    /\ served' = {p}
    /\ UNCHANGED <<billed, charged, paid, time>>

Withdraw ==
    /\ served' = {}
    /\ UNCHANGED <<billed, charged, paid, time>>

Tick ==
    /\ time' = time + 1
    /\ UNCHANGED <<billed, charged, paid, served>>

Next ==
    \/ \E p \in Periods : Bill(p) \/ Take(p) \/ Settle(p) \/ Serve(p)
    \/ Withdraw
    \/ Tick

Spec == Init /\ [][Next]_vars
=============================================================================
