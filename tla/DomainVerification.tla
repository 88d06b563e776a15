------------------------- MODULE DomainVerification -------------------------
(***************************************************************************)
(* Sending domains (internal/sending): a domain is registered with the     *)
(* provider, then polled by jobs until it is verified or its window has    *)
(* passed.  Three kinds of job poll one domain: the one its registration   *)
(* enqueues, the ones tenants ask for, and the one the scheduler's sweep   *)
(* re-arms, which alone is unique.                                         *)
(*                                                                         *)
(* A poll asks the provider outside any transaction.  Its transaction then *)
(* reads the row without a lock and writes it back, so it is two steps.    *)
(***************************************************************************)
EXTENDS Naturals

CONSTANTS
    SendingDomains,    \* domain names
    Rechecks,          \* polls that tenants ask for (bounded)
    MaxDomainFaults    \* bound: crashes, failed statements

ASSUME DomainsAssumption == MaxDomainFaults \in Nat

VARIABLES
    domainRow,      \* sending_domains.status, per domain
    registering,    \* domains whose AddDomain is between row and job
    poll,           \* domain.verify jobs
    published,      \* the tenant has published the DNS records
    windowOver,     \* the verification window has passed
    domainFaults    \* faults so far (bounded)

domainsVars == <<domainRow, registering, poll, published, windowOver, domainFaults>>

-----------------------------------------------------------------------------
DomainStates == {"absent", "pending", "verified", "failed"}
Decided == {"verified", "failed"}
Polls == {"first", "sweep"} \cup Rechecks

(* A job, and what its worker has learnt: the provider's answer, whether   *)
(* the window had passed by then, and the status its transaction has read. *)
PollStates ==
    [at : {"none", "queued", "checked", "read", "completed"},
     verified : BOOLEAN, late : BOOLEAN, seen : DomainStates]
PollAt(at) == [at |-> at, verified |-> FALSE, late |-> FALSE, seen |-> "absent"]
Moves(d, j, p) == poll' = [poll EXCEPT ![d][j] = p]

DomainsInit ==
    /\ domainRow = [d \in SendingDomains |-> "absent"]
    /\ registering = {}
    /\ poll = [d \in SendingDomains |-> [j \in Polls |-> PollAt("none")]]
    /\ published = [d \in SendingDomains |-> FALSE]
    /\ windowOver = [d \in SendingDomains |-> FALSE]
    /\ domainFaults = 0

-----------------------------------------------------------------------------
(* AddDomainHandler: Provision, then SendingDomains.Add, whose name is     *)
(* unique.  A failure of the provider leaves no trace here.                *)
AddDomain(d) ==
    /\ domainRow[d] = "absent"
    /\ domainRow' = [domainRow EXCEPT ![d] = "pending"]
    /\ registering' = registering \cup {d}
    /\ UNCHANGED <<poll, published, windowOver, domainFaults>>

EnqueueVerify(d) ==
    /\ d \in registering
    /\ registering' = registering \ {d}
    /\ Moves(d, "first", PollAt("queued"))
    /\ UNCHANGED <<domainRow, published, windowOver, domainFaults>>

(* The process dies, or the queue is unreachable, after the row is in.     *)
RegistrationFails(d) ==
    /\ d \in registering
    /\ domainFaults < MaxDomainFaults
    /\ domainFaults' = domainFaults + 1
    /\ registering' = registering \ {d}
    /\ UNCHANGED <<domainRow, poll, published, windowOver>>

(* RecheckDomainHandler: one more poll, of a pending domain.               *)
RecheckDomain(d, j) ==
    /\ domainRow[d] = "pending"
    /\ poll[d][j].at = "none"
    /\ Moves(d, j, PollAt("queued"))
    /\ UNCHANGED <<domainRow, registering, published, windowOver, domainFaults>>

(* Mutant: any kept job of the domain makes the sweep a no-op.             *)
SweepUnpolled(d) ==
    /\ domainRow[d] = "pending"
    /\ \A j \in Polls : poll[d][j].at = "none"
    /\ Moves(d, "sweep", PollAt("queued"))
    /\ UNCHANGED <<domainRow, registering, published, windowOver, domainFaults>>

(* sweepPendingDomains: EnqueueVerifyUnique is a no-op while an equal      *)
(* unique job is kept; the other jobs carry no unique key.                 *)
SweepPendingDomains(d) ==
    /\ domainRow[d] = "pending"
    /\ poll[d]["sweep"].at = "none"
    /\ Moves(d, "sweep", PollAt("queued"))
    /\ UNCHANGED <<domainRow, registering, published, windowOver, domainFaults>>

(* VerifyWorker.Work up to the provider's answer.  An error and "not yet"  *)
(* come to the same.                                                       *)
CheckIdentity(d, j) ==
    /\ poll[d][j].at = "queued"
    /\ IF domainRow[d] = "pending"
       THEN \E answer \in {FALSE, published[d]} :
               Moves(d, j, [at |-> "checked", verified |-> answer,
                            late |-> windowOver[d], seen |-> "absent"])
       ELSE Moves(d, j, PollAt("completed"))
    /\ UNCHANGED <<domainRow, registering, published, windowOver, domainFaults>>

(* SendingDomains.Update, SELECT.                                          *)
ReadDomain(d, j) ==
    /\ poll[d][j].at = "checked"
    /\ Moves(d, j, [poll[d][j] EXCEPT !.at = "read", !.seen = domainRow[d]])
    /\ UNCHANGED <<domainRow, registering, published, windowOver, domainFaults>>

(* The closure of Work: MarkVerified, MarkFailed or neither.               *)
Outcome(p) ==
    CASE p.seen # "pending" -> p.seen
      [] p.seen = "pending" /\ p.verified -> "verified"
      [] p.seen = "pending" /\ ~p.verified /\ p.late -> "failed"
      [] OTHER -> "pending"

(* UPDATE, and JobSnooze if the domain is to be polled again.              *)
WriteDomain(d, j) ==
    /\ poll[d][j].at = "read"
    /\ domainRow' = [domainRow EXCEPT ![d] = Outcome(poll[d][j])]
    /\ Moves(d, j, PollAt(IF Outcome(poll[d][j]) = "pending" THEN "queued" ELSE "completed"))
    /\ UNCHANGED <<registering, published, windowOver, domainFaults>>

(* River runs a failed poll again, or discards it on its last attempt.     *)
PollFails(d, j) ==
    /\ poll[d][j].at \in {"queued", "checked", "read"}
    /\ domainFaults < MaxDomainFaults
    /\ domainFaults' = domainFaults + 1
    /\ \E at \in {"queued", "none"} : Moves(d, j, PollAt(at))
    /\ UNCHANGED <<domainRow, registering, published, windowOver>>

(* River deletes a completed job in the end.                               *)
CleanUpPoll(d, j) ==
    /\ poll[d][j].at = "completed"
    /\ Moves(d, j, PollAt("none"))
    /\ UNCHANGED <<domainRow, registering, published, windowOver, domainFaults>>

PublishRecords(d) ==
    /\ domainRow[d] # "absent" /\ ~published[d]
    /\ published' = [published EXCEPT ![d] = TRUE]
    /\ UNCHANGED <<domainRow, registering, poll, windowOver, domainFaults>>

WindowPasses(d) ==
    /\ domainRow[d] # "absent" /\ ~windowOver[d]
    /\ windowOver' = [windowOver EXCEPT ![d] = TRUE]
    /\ UNCHANGED <<domainRow, registering, poll, published, domainFaults>>

-----------------------------------------------------------------------------
PollStep(d, j) == CheckIdentity(d, j) \/ ReadDomain(d, j) \/ WriteDomain(d, j)

DomainsNext ==
    \E d \in SendingDomains :
        \/ AddDomain(d)
        \/ EnqueueVerify(d)
        \/ RegistrationFails(d)
        \/ \E j \in Rechecks : RecheckDomain(d, j)
        \/ SweepPendingDomains(d)
        \/ \E j \in Polls : CheckIdentity(d, j)
        \/ \E j \in Polls : ReadDomain(d, j)
        \/ \E j \in Polls : WriteDomain(d, j)
        \/ \E j \in Polls : PollFails(d, j)
        \/ CleanUpPoll(d, "sweep")
        \/ PublishRecords(d)
        \/ WindowPasses(d)

(* The scheduler sweeps at every tick, River runs what is queued and drops *)
(* completed jobs after a day, and time passes.  Nothing is assumed of the *)
(* tenant, the provider or the process that registers a domain.            *)
DomainsFairness ==
    \A d \in SendingDomains :
        /\ WF_domainsVars(SweepPendingDomains(d))
        /\ WF_domainsVars(WindowPasses(d))
        /\ WF_domainsVars(CleanUpPoll(d, "sweep"))
        /\ \A j \in Polls : WF_domainsVars(PollStep(d, j))

DomainsSpec == DomainsInit /\ [][DomainsNext]_domainsVars /\ DomainsFairness

-----------------------------------------------------------------------------
(* Properties.                                                             *)

(* Types of the rows and the jobs.                                         *)
DomainsTypeOK ==
    /\ domainRow \in [SendingDomains -> DomainStates]
    /\ registering \subseteq SendingDomains
    /\ poll \in [SendingDomains -> [Polls -> PollStates]]
    /\ published \in [SendingDomains -> BOOLEAN]
    /\ windowOver \in [SendingDomains -> BOOLEAN]
    /\ domainFaults \in 0 .. MaxDomainFaults

(* A registered domain comes to a decision that stays, even if the job of  *)
(* its registration is lost, a job is discarded, or polls overlap.         *)
EveryDomainSettles ==
    \A d \in SendingDomains :
        (domainRow[d] = "pending") ~> [](domainRow[d] \in Decided)

=============================================================================
