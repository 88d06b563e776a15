------------------------------ MODULE Billing -------------------------------
(***************************************************************************)
(* One tenant's subscription and its invoices, as the api, the scheduler   *)
(* and the billing workers run them: Subscribe, SettleInvoice and          *)
(* CancelSubscription (internal/billing/app/command), the billing.sweep    *)
(* and billing.charge jobs, and the ChargeInvoice command they share       *)
(* (charge_invoice.go), over the repositories of internal/billing/adapters *)
(* and a payment gateway that answers a repeated idempotency key with the  *)
(* first answer (mock_gateway.go).                                         *)
(*                                                                         *)
(* Every repository call is a transaction of its own and one action here.  *)
(* Update locks its row, so its read, closure and write are one action.    *)
(* Billing period p runs from time p - 1 to time p, the first from the     *)
(* subscription's creation; its invoice is invoice p.  The waiting time of *)
(* a dunning retry is not modelled: a scheduled retry may come due at any  *)
(* moment.                                                                 *)
(***************************************************************************)
EXTENDS Integers, FiniteSets

CONSTANTS
    MaxPeriods,    \* bound: billing periods
    MaxAttempts,   \* DunningPolicy.maxAttempts
    MaxTries,      \* bound: payment attempts on one invoice
    Worker,        \* the goroutine that runs the tenant's billing.charge job
    Requests,      \* concurrent API requests
    MaxRequests,   \* bound: API requests in a behaviour
    MaxFaults      \* bound: crashes and lost gateway answers in a behaviour

Periods == 1 .. MaxPeriods
Keys == 1 .. MaxTries
Actors == Requests \cup {Worker}

ASSUME BillingAssumption ==
    /\ MaxPeriods \in Nat \ {0}
    /\ MaxAttempts \in Nat \ {0}
    /\ MaxTries \in Nat \ {0}
    /\ Worker \notin Requests
    /\ MaxRequests \in Nat
    /\ MaxFaults \in Nat

VARIABLES
    sub,         \* the tenant_subscriptions row
    invoice,     \* the invoices row of each period
    attempts,    \* payment_attempts of each invoice: how many, which succeeded
    gateway,     \* the gateway's answer to each invoice's idempotency keys
    actor,       \* what each request and the worker are doing
    job,         \* the billing.charge job; ByArgs uniqueness leaves only one
    listed,      \* a sweep has listed the subscription as due
    now,         \* the clock
    requests,    \* API requests so far (bounded)
    faults,      \* crashes and lost answers so far (bounded)
    disturbed    \* history: two charges overlapped, or an answer was lost

vars == <<sub, invoice, attempts, gateway, actor, job, listed, now, requests,
          faults, disturbed>>

-----------------------------------------------------------------------------
(* Data.                                                                   *)

SubscriptionStates == {"none", "pending", "active", "past_due", "suspended", "canceled"}
InvoiceStatuses == {"none", "open", "paid", "uncollectible"}
Answers == {"unused", "approved", "refused"}

Subscriptions == [state : SubscriptionStates, period : Periods, cancelling : BOOLEAN]
Invoices == [status : InvoiceStatuses, failures : Nat, retry : BOOLEAN]
AttemptLogs == [count : 0 .. MaxTries, won : SUBSET Keys]

NoSubscription == [state |-> "none", period |-> 1, cancelling |-> FALSE]
NewSubscription == [NoSubscription EXCEPT !.state = "pending"]
NoInvoice == [status |-> "none", failures |-> 0, retry |-> FALSE]
NewInvoice == [NoInvoice EXCEPT !.status = "open"]

Operations == {"subscribe", "settle", "charge"}
PCs == {"idle", "invoice", "load", "open", "cancel", "renew", "guard",
        "number", "gateway", "record", "paid", "activate", "dun", "demote",
        "done"}

ActorStates ==
    [pc : PCs, op : Operations, snap : Subscriptions, inv : Periods,
     no : 0 .. MaxTries, approved : BOOLEAN, exhausted : BOOLEAN]

Idle == [pc |-> "idle", op |-> "charge", snap |-> NoSubscription, inv |-> 1,
         no |-> 0, approved |-> FALSE, exhausted |-> FALSE]

Becomes(a, state) == actor' = [actor EXCEPT ![a] = state]
GoesTo(a, pc) == Becomes(a, [actor[a] EXCEPT !.pc = pc])
Finishes(a) == Becomes(a, [Idle EXCEPT !.pc = "done"])

(* Another request or the worker is at work.                               *)
Overlaps(a) == \E b \in Actors \ {a} : actor[b].pc # "idle"

(* A use case returned an error: the request is over, and River will run   *)
(* the job again.                                                          *)
Errs(a) ==
    /\ Becomes(a, Idle)
    /\ job' = IF a = Worker THEN "waiting" ELSE job

-----------------------------------------------------------------------------
(* The aggregates.                                                         *)

MarkPaidNever(i) == i

(* Invoice.MarkPaid, applied by settle unless the invoice is paid already. *)
MarkPaid(i) ==
    IF i.status = "paid" THEN i ELSE [status |-> "paid", failures |-> 0, retry |-> FALSE]

(* DunningPolicy.IsExhausted after one more failure.                       *)
Exhausts(i) == i.failures + 1 >= MaxAttempts

(* A bug RecordFailedAttempt could have: what failed is open again.        *)
Reopened(i) ==
    [status |-> IF Exhausts(i) THEN "uncollectible" ELSE "open",
     failures |-> i.failures + 1,
     retry |-> ~Exhausts(i)]

(* Invoice.RecordFailedAttempt, and MarkUncollectible when exhausted.      *)
Dunned(i) ==
    [status |-> IF Exhausts(i) THEN "uncollectible" ELSE i.status,
     failures |-> i.failures + 1,
     retry |-> ~Exhausts(i)]

(* Subscription.Activate and SetPeriod.                                    *)
Activated(s, p) == [s EXCEPT !.state = "active", !.period = p]

(* Subscription.MarkPastDue, and Suspend when exhausted.                   *)
Demoted(s, exhausted) ==
    [s EXCEPT !.state = IF exhausted THEN "suspended" ELSE "past_due"]

(* Invoices.OpenForSubscription.                                           *)
OpenInvoices == {p \in Periods : invoice[p].status = "open"}

(* DueSubscriptions.ListDue: the SQL function billing_due_subscriptions.   *)
DueRenewal == sub.state = "active" /\ sub.period <= now
DueRetry == sub.state = "past_due" /\ \E p \in OpenInvoices : invoice[p].retry
Due == DueRenewal \/ DueRetry

-----------------------------------------------------------------------------
Init ==
    /\ sub = NoSubscription
    /\ invoice = [p \in Periods |-> NoInvoice]
    /\ attempts = [p \in Periods |-> [count |-> 0, won |-> {}]]
    /\ gateway = [p \in Periods |-> [k \in Keys |-> "unused"]]
    /\ actor = [a \in Actors |-> Idle]
    /\ job = "none"
    /\ listed = FALSE
    /\ now = 0
    /\ requests = 0
    /\ faults = 0
    /\ disturbed = FALSE

-----------------------------------------------------------------------------
(* API requests.                                                           *)

Arrives(r) ==
    /\ actor[r].pc = "idle"
    /\ requests < MaxRequests
    /\ requests' = requests + 1
    /\ disturbed' = (disturbed \/ Overlaps(r))

(* SubscribeHandler: Current and Subscriptions.Add.  The partial unique    *)
(* index makes the insert of a second request fail.                        *)
Subscribe(r) ==
    /\ Arrives(r)
    /\ sub.state = "none"
    /\ sub' = NewSubscription
    /\ Becomes(r, [Idle EXCEPT !.pc = "invoice", !.op = "subscribe"])
    /\ UNCHANGED <<invoice, attempts, gateway, job, listed, now, faults>>

(* SubscribeHandler: Invoices.Add, then the shared charge command.         *)
AddInvoice(r) ==
    /\ actor[r].pc = "invoice"
    /\ invoice' = [invoice EXCEPT ![1] = NewInvoice]
    /\ GoesTo(r, "load")
    /\ UNCHANGED <<sub, attempts, gateway, job, listed, now, requests, faults,
                   disturbed>>

(* ChargeInvoiceHandler.Settle: Get and IsSettleable.                      *)
Settle(r, p) ==
    /\ Arrives(r)
    /\ invoice[p].status \in {"open", "uncollectible"}
    /\ Becomes(r, [Idle EXCEPT !.pc = "guard", !.op = "settle", !.inv = p])
    /\ UNCHANGED <<sub, invoice, attempts, gateway, job, listed, now, faults>>

(* CancelSubscriptionHandler: Current and Update(RequestCancellation).     *)
RequestCancellation ==
    /\ sub.state \in {"active", "past_due"}
    /\ sub' = [sub EXCEPT !.cancelling = TRUE]
    /\ UNCHANGED <<invoice, attempts, gateway, actor, job, listed, now,
                   requests, faults, disturbed>>

-----------------------------------------------------------------------------
(* The billing.sweep and billing.charge jobs.                              *)

(* RunBillingSweepHandler: ListDue ...                                     *)
ListDue ==
    /\ Due
    /\ ~listed
    /\ listed' = TRUE
    /\ UNCHANGED <<sub, invoice, attempts, gateway, actor, job, now, requests,
                   faults, disturbed>>

(* ... and EnqueueBillingCharge, a no-op while the job exists.             *)
EnqueueCharge ==
    /\ listed
    /\ listed' = FALSE
    /\ job' = IF job = "none" THEN "waiting" ELSE job
    /\ UNCHANGED <<sub, invoice, attempts, gateway, actor, now, requests,
                   faults, disturbed>>

(* ChargeWorker.Work.                                                      *)
TakeJob ==
    /\ job = "waiting"
    /\ actor[Worker].pc = "idle"
    /\ job' = "running"
    /\ Becomes(Worker, [Idle EXCEPT !.pc = "load"])
    /\ disturbed' = (disturbed \/ Overlaps(Worker))
    /\ UNCHANGED <<sub, invoice, attempts, gateway, listed, now, requests, faults>>

-----------------------------------------------------------------------------
(* ChargeInvoiceHandler.Handle.                                            *)

LoadSubscription(a) ==
    /\ actor[a].pc = "load"
    /\ Becomes(a, [actor[a] EXCEPT !.pc = "open", !.snap = sub])
    /\ UNCHANGED <<sub, invoice, attempts, gateway, job, listed, now,
                   requests, faults, disturbed>>

(* On to chargeInvoice.                                                    *)
ChargesInvoice(a, p) ==
    Becomes(a, [Idle EXCEPT !.pc = "guard", !.op = actor[a].op, !.inv = p])

(* OpenForSubscription found the oldest open invoice.                      *)
FoundOpen(a, p) ==
    /\ actor[a].pc = "open"
    /\ p \in OpenInvoices
    /\ \A q \in OpenInvoices : p <= q
    /\ ChargesInvoice(a, p)
    /\ UNCHANGED <<sub, invoice, attempts, gateway, job, listed, now,
                   requests, faults, disturbed>>

RenewalDueAnyTime(s) == s.state = "active" /\ s.period < MaxPeriods
RenewalDue(s) == s.state = "active" /\ s.period <= now

(* It found none: renew, terminate or do nothing, by the subscription as   *)
(* it was loaded.                                                          *)
FoundNoneOpen(a) ==
    LET s == actor[a].snap IN
    /\ actor[a].pc = "open"
    /\ OpenInvoices = {}
    /\ IF ~RenewalDue(s) THEN Finishes(a)
       ELSE GoesTo(a, IF s.cancelling THEN "cancel" ELSE "renew")
    /\ UNCHANGED <<sub, invoice, attempts, gateway, job, listed, now,
                   requests, faults, disturbed>>

(* Update(Cancel), an error if the subscription is canceled already.       *)
CancelAtPeriodEnd(a) ==
    /\ actor[a].pc = "cancel"
    /\ IF sub.state = "canceled"
       THEN Errs(a) /\ UNCHANGED sub
       ELSE /\ sub' = [sub EXCEPT !.state = "canceled"]
            /\ Finishes(a)
            /\ UNCHANGED job
    /\ UNCHANGED <<invoice, attempts, gateway, listed, now, requests, faults,
                   disturbed>>

(* renewalInvoice: AddOrGet of the next period's invoice.                  *)
RenewalInvoice(a) ==
    LET p == actor[a].snap.period + 1 IN
    /\ actor[a].pc = "renew"
    /\ p <= MaxPeriods
    /\ invoice' = [invoice EXCEPT ![p] = IF invoice[p].status = "none"
                                         THEN NewInvoice ELSE invoice[p]]
    /\ ChargesInvoice(a, p)
    /\ UNCHANGED <<sub, attempts, gateway, job, listed, now, requests, faults,
                   disturbed>>

-----------------------------------------------------------------------------
(* ChargeInvoiceHandler.chargeInvoice and Settle.                          *)

HasSucceededNever(p) == FALSE
HasSucceeded(p) == attempts[p].won # {}

(* HasSucceededAttempt: an invoice that was charged is reconciled.         *)
GuardPaid(a) ==
    /\ actor[a].pc = "guard"
    /\ GoesTo(a, IF HasSucceeded(actor[a].inv) THEN "paid" ELSE "number")
    /\ UNCHANGED <<sub, invoice, attempts, gateway, job, listed, now,
                   requests, faults, disturbed>>

NextAttempt(p) == attempts[p].count + 1

(* NextAttemptNumber.                                                      *)
NumberAttempt(a) ==
    LET no == NextAttempt(actor[a].inv) IN
    /\ actor[a].pc = "number"
    /\ no <= MaxTries
    /\ Becomes(a, [actor[a] EXCEPT !.pc = "gateway", !.no = no])
    /\ UNCHANGED <<sub, invoice, attempts, gateway, job, listed, now,
                   requests, faults, disturbed>>

(* PaymentGateway.Charge.  The caller takes a lost answer for a refusal.   *)
Charge(a) ==
    LET p == actor[a].inv
        k == actor[a].no
    IN
    /\ actor[a].pc = "gateway"
    /\ \E answer \in {"approved", "refused"}, lost \in BOOLEAN :
         /\ gateway[p][k] \in {"unused", answer}
         /\ lost => answer = "approved" /\ faults < MaxFaults
         /\ gateway' = [gateway EXCEPT ![p] = [gateway[p] EXCEPT ![k] = answer]]
         /\ faults' = IF lost THEN faults + 1 ELSE faults
         /\ disturbed' = (disturbed \/ lost)
         /\ Becomes(a, [actor[a] EXCEPT !.pc = "record",
                                        !.approved = (answer = "approved" /\ ~lost)])
    /\ UNCHANGED <<sub, invoice, attempts, job, listed, now, requests>>

(* Where a recorded attempt leads: a declined settle changes nothing else. *)
Recorded(a) ==
    IF ~actor[a].approved /\ actor[a].op = "settle" THEN Finishes(a)
    ELSE Becomes(a, [actor[a] EXCEPT !.pc = IF actor[a].approved THEN "paid" ELSE "dun",
                                     !.no = 0, !.approved = FALSE])

(* AddAttempt: UNIQUE (invoice_id, attempt_number).                        *)
RecordAttempt(a) ==
    LET p == actor[a].inv
        k == actor[a].no
        log == attempts[p]
    IN
    /\ actor[a].pc = "record"
    /\ IF k <= log.count
       THEN Errs(a) /\ UNCHANGED attempts
       ELSE /\ attempts' = [attempts EXCEPT ![p] =
                   [count |-> k, won |-> IF actor[a].approved THEN log.won \cup {k}
                                         ELSE log.won]]
            /\ Recorded(a)
            /\ UNCHANGED job
    /\ UNCHANGED <<sub, invoice, gateway, listed, now, requests, faults, disturbed>>

(* settle: Invoices.Update ...                                             *)
SettleInvoice(a) ==
    LET p == actor[a].inv IN
    /\ actor[a].pc = "paid"
    /\ invoice' = [invoice EXCEPT ![p] = MarkPaid(invoice[p])]
    /\ GoesTo(a, "activate")
    /\ UNCHANGED <<sub, attempts, gateway, job, listed, now, requests, faults,
                   disturbed>>

(* ... then Subscriptions.Update; a canceled one cannot be activated.      *)
ActivateSubscription(a) ==
    /\ actor[a].pc = "activate"
    /\ IF sub.state = "canceled"
       THEN Errs(a) /\ UNCHANGED sub
       ELSE sub' = Activated(sub, actor[a].inv) /\ Finishes(a) /\ UNCHANGED job
    /\ UNCHANGED <<invoice, attempts, gateway, listed, now, requests, faults,
                   disturbed>>

(* Dunning: Invoices.Update; only an open invoice can be written off ...   *)
DunInvoice(a) ==
    LET p == actor[a].inv
        i == invoice[p]
    IN
    /\ actor[a].pc = "dun"
    /\ IF Exhausts(i) /\ i.status # "open"
       THEN Errs(a) /\ UNCHANGED invoice
       ELSE /\ invoice' = [invoice EXCEPT ![p] = Dunned(i)]
            /\ Becomes(a, [actor[a] EXCEPT !.pc = "demote", !.exhausted = Exhausts(i)])
            /\ UNCHANGED job
    /\ UNCHANGED <<sub, attempts, gateway, listed, now, requests, faults, disturbed>>

(* ... then Subscriptions.Update(MarkPastDue, Suspend).                    *)
DemoteSubscription(a) ==
    /\ actor[a].pc = "demote"
    /\ IF sub.state \in {"suspended", "canceled"}
       THEN Errs(a) /\ UNCHANGED sub
       ELSE sub' = Demoted(sub, actor[a].exhausted) /\ Finishes(a) /\ UNCHANGED job
    /\ UNCHANGED <<invoice, attempts, gateway, listed, now, requests, faults,
                   disturbed>>

-----------------------------------------------------------------------------
(* The response is sent, or River completes the job.                       *)
Complete(a) ==
    /\ actor[a].pc = "done"
    /\ Becomes(a, Idle)
    /\ job' = IF a = Worker THEN "none" ELSE job
    /\ UNCHANGED <<sub, invoice, attempts, gateway, listed, now, requests,
                   faults, disturbed>>

(* The process dies or the database fails between two transactions.        *)
Crash(a) ==
    /\ actor[a].pc # "idle"
    /\ faults < MaxFaults
    /\ faults' = faults + 1
    /\ Errs(a)
    /\ UNCHANGED <<sub, invoice, attempts, gateway, listed, now, requests, disturbed>>

(* Time passes, as far as there are periods to renew into.                 *)
Tick ==
    /\ sub.state # "none"
    /\ now + 1 < MaxPeriods
    /\ now' = now + 1
    /\ UNCHANGED <<sub, invoice, attempts, gateway, actor, job, listed,
                   requests, faults, disturbed>>

-----------------------------------------------------------------------------
Step(a) ==
    \/ AddInvoice(a)
    \/ LoadSubscription(a)
    \/ \E p \in Periods : FoundOpen(a, p)
    \/ FoundNoneOpen(a)
    \/ CancelAtPeriodEnd(a)
    \/ RenewalInvoice(a)
    \/ GuardPaid(a)
    \/ NumberAttempt(a)
    \/ Charge(a)
    \/ RecordAttempt(a)
    \/ SettleInvoice(a)
    \/ ActivateSubscription(a)
    \/ DunInvoice(a)
    \/ DemoteSubscription(a)
    \/ Complete(a)

Next ==
    \/ \E r \in Requests : Subscribe(r) \/ \E p \in Periods : Settle(r, p)
    \/ RequestCancellation
    \/ ListDue
    \/ EnqueueCharge
    \/ TakeJob
    \/ \E a \in Actors : Step(a) \/ Crash(a)
    \/ Tick

Spec == Init /\ [][Next]_vars

(* The scheduler keeps sweeping, River runs a waiting job, and a request   *)
(* or a job that got its turn goes on.                                     *)
Fairness ==
    /\ WF_vars(ListDue)
    /\ WF_vars(EnqueueCharge)
    /\ WF_vars(TakeJob)
    /\ \A a \in Actors : WF_vars(Step(a))

FairSpec == Spec /\ Fairness

-----------------------------------------------------------------------------
(* Every variable stays in its domain: domain/subscription.go, invoice.go, *)
(* payment.go and the constraints of db/migrations/000014.                 *)
TypeOK ==
    /\ sub \in Subscriptions
    /\ invoice \in [Periods -> Invoices]
    /\ attempts \in [Periods -> AttemptLogs]
    /\ gateway \in [Periods -> [Keys -> Answers]]
    /\ actor \in [Actors -> ActorStates]
    /\ job \in {"none", "waiting", "running"}
    /\ listed \in BOOLEAN
    /\ now \in 0 .. MaxPeriods
    /\ requests \in 0 .. MaxRequests
    /\ faults \in 0 .. MaxFaults
    /\ disturbed \in BOOLEAN

ChargedKeys(p) == {k \in Keys : gateway[p][k] = "approved"}

(* A subscription is active only in a period whose invoice is paid,        *)
(* although settle writes the two rows in two transactions and dunning,    *)
(* renewals and settles overlap (ChargeInvoiceHandler.settle).             *)
ActiveMeansPaid == sub.state = "active" => invoice[sub.period].status = "paid"

(* An invoice is paid only if the gateway took the money for it.           *)
PaidWasCharged ==
    \A p \in Periods : invoice[p].status = "paid" => ChargedKeys(p) # {}

(* The next period is invoiced only once the one before is over and paid,  *)
(* whatever stale subscription a renewal works from (renewalInvoice).      *)
BillsInOrder ==
    \A p \in Periods :
        p > 1 /\ invoice[p].status # "none"
            => invoice[p - 1].status = "paid" /\ p - 1 <= now

(* At most one charge of an invoice is approved, through crashes and       *)
(* retries of the job, as long as charges do not overlap and no answer of  *)
(* the gateway is lost (research R5: the guard and the idempotency key).   *)
ChargedOnceUndisturbed ==
    ~disturbed =>
        \A p \in Periods : \A j, k \in ChargedKeys(p) : j = k

(* What PaidService speaks of, of the rows and the gateway.                *)
Billed == {p \in Periods : invoice[p].status # "none"}
Charged == {p \in Periods : ChargedKeys(p) # {}}
Paid == {p \in Periods : invoice[p].status = "paid"}
Served == IF sub.state = "active" THEN {sub.period} ELSE {}

Service == INSTANCE PaidService WITH
    billed <- Billed, charged <- Charged, paid <- Paid, served <- Served, time <- now

(* Bills, charges, payments and service are those of PaidService: each     *)
(* period is billed, charged, settled and served in this order, whatever   *)
(* overlaps and crashes, and a failed charge takes no settlement back.     *)
ServesWhatIsPaid == Service!Spec

Undisturbed == ~disturbed /\ faults = 0

(* Dunning ends: a past-due subscription is paid, suspended or canceled in *)
(* the end (billing_due_subscriptions keeps listing it).                   *)
PastDueEnds ==
    sub.state = "past_due" ~> (sub.state # "past_due" \/ ~Undisturbed)

(* A subscription whose period is over is renewed, terminated or dunned.   *)
RenewalHappens ==
    DueRenewal ~> (~DueRenewal \/ ~Undisturbed)

-----------------------------------------------------------------------------
(* What the repository says and the code does not do.                      *)

(* "the unique invoice constraint, the "already paid" guard, and the       *)
(* gateway idempotency key together guarantee at most one successful       *)
(* charge" (specs/010-phase-5-billing-metering/contracts/jobs.md:70-72)    *)
ChargedOnce ==
    \A p \in Periods : \A j, k \in ChargedKeys(p) : j = k
=============================================================================
