---------------------------- MODULE BillingProofs ----------------------------
(***************************************************************************)
(* Theorems about Billing, for every number of periods, attempts and       *)
(* concurrent requests.                                                    *)
(***************************************************************************)
EXTENDS Billing, TLAPS

-----------------------------------------------------------------------------
(* Type correctness.                                                       *)

(* What a step may make of an actor.                                       *)
LEMMA ActorType ==
    ASSUME actor \in [Actors -> ActorStates], NEW a \in Actors,
           NEW s \in ActorStates, Becomes(a, s)
    PROVE  actor' \in [Actors -> ActorStates]
BY DEF Becomes

LEMMA DataTypes ==
    /\ NoSubscription \in Subscriptions /\ NewSubscription \in Subscriptions
    /\ NoInvoice \in Invoices /\ NewInvoice \in Invoices
    /\ Idle \in ActorStates
<1>1. 1 \in Periods
  BY BillingAssumption DEF BillingAssumption, Periods
<1>2. NoSubscription \in Subscriptions /\ NewSubscription \in Subscriptions
  BY <1>1 DEF NoSubscription, NewSubscription, Subscriptions, SubscriptionStates
<1>3. NoInvoice \in Invoices /\ NewInvoice \in Invoices
  BY DEF NoInvoice, NewInvoice, Invoices, InvoiceStatuses
<1>4. Idle \in ActorStates
  BY <1>1, <1>2, BillingAssumption
     DEF Idle, ActorStates, PCs, Operations, BillingAssumption
<1> QED
  BY <1>2, <1>3, <1>4

LEMMA ErrsType ==
    ASSUME TypeOK, NEW a \in Actors, Errs(a)
    PROVE  /\ actor' \in [Actors -> ActorStates]
           /\ job' \in {"none", "waiting", "running"}
BY DataTypes, ActorType DEF Errs, TypeOK

LEMMA FinishesType ==
    ASSUME TypeOK, NEW a \in Actors, Finishes(a)
    PROVE  actor' \in [Actors -> ActorStates]
<1>1. "done" \in PCs /\ "charge" \in Operations /\ 1 \in Periods
  BY BillingAssumption DEF PCs, Operations, Periods, BillingAssumption
<1>2. [Idle EXCEPT !.pc = "done"] \in ActorStates
  BY <1>1, DataTypes DEF ActorStates
<1> QED
  BY <1>2, ActorType DEF Finishes, TypeOK

LEMMA GoesToType ==
    ASSUME TypeOK, NEW a \in Actors, NEW pc \in PCs, GoesTo(a, pc)
    PROVE  actor' \in [Actors -> ActorStates]
<1>1. actor[a] \in ActorStates
  BY DEF TypeOK
<1>2. [actor[a] EXCEPT !.pc = pc] \in ActorStates
  BY <1>1, DataTypes DEF ActorStates
<1> QED
  BY <1>2, ActorType DEF GoesTo, TypeOK

LEMMA ArrivesType ==
    ASSUME TypeOK, NEW r \in Requests, Arrives(r)
    PROVE  requests' \in 0 .. MaxRequests /\ disturbed' \in BOOLEAN
BY BillingAssumption DEF Arrives, Overlaps, TypeOK, BillingAssumption

LEMMA TypeInit == Init => TypeOK
<1> SUFFICES ASSUME Init PROVE TypeOK
  OBVIOUS
<1>1. sub \in Subscriptions /\ invoice \in [Periods -> Invoices]
      /\ actor \in [Actors -> ActorStates]
  BY DataTypes DEF Init
<1>2. attempts \in [Periods -> AttemptLogs]
  BY BillingAssumption DEF Init, AttemptLogs, BillingAssumption
<1>3. gateway \in [Periods -> [Keys -> Answers]]
  BY DEF Init, Answers
<1>4. now \in 0 .. MaxPeriods /\ requests \in 0 .. MaxRequests
      /\ faults \in 0 .. MaxFaults
  BY BillingAssumption DEF Init, BillingAssumption
<1> QED
  BY <1>1, <1>2, <1>3, <1>4 DEF Init, TypeOK

(* A request arrives, or the sweep runs.                                   *)
LEMMA TypeRequests ==
    ASSUME TypeOK,
           \/ \E r \in Requests : Subscribe(r) \/ \E p \in Periods : Settle(r, p)
           \/ RequestCancellation
           \/ ListDue
           \/ EnqueueCharge
           \/ TakeJob
           \/ Tick
    PROVE  TypeOK'
<1> USE DEF TypeOK
<1>0. {"idle", "invoice", "guard", "load"} \subseteq PCs
      /\ {"subscribe", "settle", "charge"} \subseteq Operations
      /\ Requests \subseteq Actors /\ Worker \in Actors
  BY DEF PCs, Operations, Actors
<1>1. ASSUME NEW r \in Requests, Subscribe(r) PROVE TypeOK'
  <2>1. [Idle EXCEPT !.pc = "invoice", !.op = "subscribe"] \in ActorStates
    BY <1>0, DataTypes DEF ActorStates
  <2>2. actor' \in [Actors -> ActorStates]
    BY <1>0, <1>1, <2>1, ActorType DEF Subscribe
  <2> QED
    BY <1>1, <2>2, DataTypes, ArrivesType DEF Subscribe
<1>2. ASSUME NEW r \in Requests, NEW p \in Periods, Settle(r, p) PROVE TypeOK'
  <2>1. [Idle EXCEPT !.pc = "guard", !.op = "settle", !.inv = p] \in ActorStates
    BY <1>0, DataTypes DEF ActorStates
  <2>2. actor' \in [Actors -> ActorStates]
    BY <1>0, <1>2, <2>1, ActorType DEF Settle
  <2> QED
    BY <1>2, <2>2, ArrivesType DEF Settle
<1>3. CASE RequestCancellation
  BY <1>3 DEF RequestCancellation, Subscriptions
<1>4. CASE ListDue
  BY <1>4 DEF ListDue
<1>5. CASE EnqueueCharge
  BY <1>5 DEF EnqueueCharge
<1>6. CASE TakeJob
  <2>1. [Idle EXCEPT !.pc = "load"] \in ActorStates
    BY <1>0, DataTypes DEF ActorStates
  <2>2. actor' \in [Actors -> ActorStates]
    BY <1>0, <1>6, <2>1, ActorType DEF TakeJob
  <2> QED
    BY <1>6, <2>2 DEF TakeJob
<1>7. CASE Tick
  BY <1>7, BillingAssumption DEF Tick, BillingAssumption
<1> QED
  BY <1>1, <1>2, <1>3, <1>4, <1>5, <1>6, <1>7

(* ChargeInvoiceHandler.Handle finds the invoice to charge.                *)
LEMMA TypeFinding ==
    ASSUME TypeOK, NEW a \in Actors,
           \/ AddInvoice(a) \/ LoadSubscription(a)
           \/ \E p \in Periods : FoundOpen(a, p)
           \/ FoundNoneOpen(a) \/ CancelAtPeriodEnd(a) \/ RenewalInvoice(a)
    PROVE  TypeOK'
<1> USE DEF TypeOK
<1>0. {"load", "open", "cancel", "renew", "guard"} \subseteq PCs
      /\ actor[a] \in ActorStates /\ actor[a].op \in Operations
      /\ actor[a].snap \in Subscriptions
  BY DEF PCs, ActorStates
<1>1. CASE AddInvoice(a)
  BY <1>0, <1>1, GoesToType, DataTypes DEF AddInvoice
<1>2. CASE LoadSubscription(a)
  <2>1. [actor[a] EXCEPT !.pc = "open", !.snap = sub] \in ActorStates
    BY <1>0 DEF ActorStates
  <2> QED
    BY <1>2, <2>1, ActorType DEF LoadSubscription
<1>3. ASSUME NEW p \in Periods, FoundOpen(a, p) PROVE TypeOK'
  <2>1. [Idle EXCEPT !.pc = "guard", !.op = actor[a].op, !.inv = p] \in ActorStates
    BY <1>0, DataTypes DEF ActorStates
  <2> QED
    BY <1>3, <2>1, ActorType DEF FoundOpen, ChargesInvoice
<1>4. CASE FoundNoneOpen(a)
  <2>1. actor' \in [Actors -> ActorStates]
    BY <1>0, <1>4, FinishesType, GoesToType DEF FoundNoneOpen
  <2> QED
    BY <1>4, <2>1 DEF FoundNoneOpen
<1>5. CASE CancelAtPeriodEnd(a)
  <2>1. actor' \in [Actors -> ActorStates] /\ job' \in {"none", "waiting", "running"}
    BY <1>5, FinishesType, ErrsType DEF CancelAtPeriodEnd
  <2>2. sub' \in Subscriptions
    BY <1>5 DEF CancelAtPeriodEnd, Subscriptions, SubscriptionStates
  <2> QED
    BY <1>5, <2>1, <2>2 DEF CancelAtPeriodEnd
<1>6. CASE RenewalInvoice(a)
  <2> DEFINE p == actor[a].snap.period + 1
  <2>1. p \in Periods
    BY <1>0, <1>6, BillingAssumption
       DEF RenewalInvoice, Subscriptions, Periods, BillingAssumption
  <2>2. [Idle EXCEPT !.pc = "guard", !.op = actor[a].op, !.inv = p] \in ActorStates
    BY <1>0, <2>1, DataTypes DEF ActorStates
  <2> HIDE DEF p
  <2>3. ChargesInvoice(a, p) /\ UNCHANGED <<sub, attempts, gateway, job, listed,
                                           now, requests, faults, disturbed>>
    BY <1>6 DEF RenewalInvoice, p
  <2>4. invoice' = [invoice EXCEPT ![p] = IF invoice[p].status = "none"
                                          THEN NewInvoice ELSE invoice[p]]
    BY <1>6 DEF RenewalInvoice, p
  <2>5. actor' \in [Actors -> ActorStates]
    BY <2>2, <2>3, ActorType DEF ChargesInvoice
  <2> QED
    BY <2>1, <2>3, <2>4, <2>5, DataTypes
<1> QED
  BY <1>1, <1>2, <1>3, <1>4, <1>5, <1>6

(* chargeInvoice and Settle make and record a payment attempt.             *)
LEMMA TypeAttempt ==
    ASSUME TypeOK, NEW a \in Actors,
           GuardPaid(a) \/ NumberAttempt(a) \/ Charge(a) \/ RecordAttempt(a)
    PROVE  TypeOK'
<1> USE DEF TypeOK
<1>0. {"paid", "number", "gateway", "record", "dun"} \subseteq PCs
      /\ actor[a] \in ActorStates /\ actor[a].inv \in Periods
      /\ actor[a].no \in 0 .. MaxTries
  BY DEF PCs, ActorStates
<1>1. CASE GuardPaid(a)
  <2>1. actor' \in [Actors -> ActorStates]
    BY <1>0, <1>1, GoesToType DEF GuardPaid
  <2> QED
    BY <1>1, <2>1 DEF GuardPaid
<1>2. CASE NumberAttempt(a)
  <2> DEFINE no == NextAttempt(actor[a].inv)
  <2>1. no \in 0 .. MaxTries
    BY <1>0, <1>2 DEF NumberAttempt, NextAttempt, AttemptLogs
  <2>2. Becomes(a, [actor[a] EXCEPT !.pc = "gateway", !.no = no])
        /\ UNCHANGED <<sub, invoice, attempts, gateway, job, listed, now,
                       requests, faults, disturbed>>
    BY <1>2 DEF NumberAttempt
  <2> HIDE DEF no
  <2>3. [actor[a] EXCEPT !.pc = "gateway", !.no = no] \in ActorStates
    BY <1>0, <2>1 DEF ActorStates
  <2> QED
    BY <2>2, <2>3, ActorType
<1>3. CASE Charge(a)
  <2>1. PICK answer \in {"approved", "refused"}, lost \in BOOLEAN :
          /\ lost => faults < MaxFaults
          /\ gateway' = [gateway EXCEPT ![actor[a].inv] =
                [gateway[actor[a].inv] EXCEPT ![actor[a].no] = answer]]
          /\ faults' = IF lost THEN faults + 1 ELSE faults
          /\ disturbed' = (disturbed \/ lost)
          /\ Becomes(a, [actor[a] EXCEPT !.pc = "record",
                                 !.approved = (answer = "approved" /\ ~lost)])
    BY <1>3 DEF Charge
  <2>2. [actor[a] EXCEPT !.pc = "record",
                         !.approved = (answer = "approved" /\ ~lost)] \in ActorStates
    BY <1>0 DEF ActorStates
  <2>3. actor' \in [Actors -> ActorStates]
    BY <2>1, <2>2, ActorType
  <2>4. gateway' \in [Periods -> [Keys -> Answers]]
    BY <1>0, <2>1 DEF Answers
  <2>5. faults' \in 0 .. MaxFaults
    BY <2>1, BillingAssumption DEF BillingAssumption
  <2> QED
    BY <1>3, <2>1, <2>3, <2>4, <2>5 DEF Charge
<1>4. CASE RecordAttempt(a)
  <2>1. ASSUME Recorded(a) PROVE actor' \in [Actors -> ActorStates]
    <3> DEFINE pc == IF actor[a].approved THEN "paid" ELSE "dun"
               s == [actor[a] EXCEPT !.pc = pc, !.no = 0, !.approved = FALSE]
    <3>1. pc \in PCs /\ 0 \in 0 .. MaxTries
      BY <1>0, BillingAssumption DEF BillingAssumption
    <3>2. Finishes(a) \/ Becomes(a, s)
      BY <2>1 DEF Recorded
    <3> HIDE DEF pc
    <3>3. s \in ActorStates
      BY <1>0, <3>1 DEF ActorStates
    <3> HIDE DEF s
    <3> QED
      BY <3>2, <3>3, ActorType, FinishesType
  <2>2. actor' \in [Actors -> ActorStates] /\ job' \in {"none", "waiting", "running"}
    BY <1>4, <2>1, ErrsType DEF RecordAttempt
  <2>3. attempts' \in [Periods -> AttemptLogs]
    <3>1. CASE attempts' = attempts
      BY <3>1
    <3>2. CASE attempts' # attempts
      <4> DEFINE log == attempts[actor[a].inv]
                 k == actor[a].no
                 won == IF actor[a].approved THEN log.won \cup {k} ELSE log.won
      <4>1. ~(k <= log.count)
            /\ attempts' = [attempts EXCEPT ![actor[a].inv] = [count |-> k, won |-> won]]
        BY <1>4, <3>2 DEF RecordAttempt
      <4>2. k \in 0 .. MaxTries /\ log \in AttemptLogs /\ log.count \in 0 .. MaxTries
            /\ log.won \subseteq Keys
        BY <1>0 DEF AttemptLogs
      <4>3. k \in Keys
        BY <4>1, <4>2, BillingAssumption DEF Keys, BillingAssumption
      <4>4. won \subseteq Keys
        BY <4>2, <4>3
      <4> HIDE DEF won, k
      <4>5. [count |-> k, won |-> won] \in AttemptLogs
        BY <4>2, <4>4 DEF AttemptLogs
      <4> QED
        BY <4>1, <4>5
    <3> QED
      BY <3>1, <3>2
  <2> QED
    BY <1>4, <2>2, <2>3 DEF RecordAttempt
<1> QED
  BY <1>1, <1>2, <1>3, <1>4

(* settle and the dunning that follow an attempt.                          *)
LEMMA TypeOutcome ==
    ASSUME TypeOK, NEW a \in Actors,
           \/ SettleInvoice(a) \/ ActivateSubscription(a) \/ DunInvoice(a)
           \/ DemoteSubscription(a) \/ Complete(a) \/ Crash(a)
    PROVE  TypeOK'
<1> USE DEF TypeOK
<1>0. {"activate", "demote"} \subseteq PCs
      /\ actor[a] \in ActorStates /\ actor[a].inv \in Periods
      /\ actor[a].exhausted \in BOOLEAN
      /\ invoice[actor[a].inv] \in Invoices
  BY DEF PCs, ActorStates
<1>1. CASE SettleInvoice(a)
  <2>1. MarkPaid(invoice[actor[a].inv]) \in Invoices
    BY <1>0 DEF MarkPaid, Invoices, InvoiceStatuses
  <2>2. actor' \in [Actors -> ActorStates]
    BY <1>0, <1>1, GoesToType DEF SettleInvoice
  <2> QED
    BY <1>1, <2>1, <2>2 DEF SettleInvoice
<1>2. CASE ActivateSubscription(a)
  <2>1. actor' \in [Actors -> ActorStates] /\ job' \in {"none", "waiting", "running"}
    BY <1>2, FinishesType, ErrsType DEF ActivateSubscription
  <2>2. sub' \in Subscriptions
    BY <1>0, <1>2 DEF ActivateSubscription, Activated, Subscriptions, SubscriptionStates
  <2> QED
    BY <1>2, <2>1, <2>2 DEF ActivateSubscription
<1>3. CASE DunInvoice(a)
  <2>1. Exhausts(invoice[actor[a].inv]) \in BOOLEAN
        /\ Dunned(invoice[actor[a].inv]) \in Invoices
    BY <1>0 DEF Exhausts, Dunned, Invoices, InvoiceStatuses
  <2>2. [actor[a] EXCEPT !.pc = "demote", !.exhausted = Exhausts(invoice[actor[a].inv])]
          \in ActorStates
    BY <1>0, <2>1 DEF ActorStates
  <2>3. actor' \in [Actors -> ActorStates] /\ job' \in {"none", "waiting", "running"}
    BY <1>3, <2>2, ActorType, ErrsType DEF DunInvoice
  <2>4. invoice' \in [Periods -> Invoices]
    BY <1>3, <2>1 DEF DunInvoice
  <2> QED
    BY <1>3, <2>3, <2>4 DEF DunInvoice
<1>4. CASE DemoteSubscription(a)
  <2>1. actor' \in [Actors -> ActorStates] /\ job' \in {"none", "waiting", "running"}
    BY <1>4, FinishesType, ErrsType DEF DemoteSubscription
  <2>2. sub' \in Subscriptions
    BY <1>0, <1>4 DEF DemoteSubscription, Demoted, Subscriptions, SubscriptionStates
  <2> QED
    BY <1>4, <2>1, <2>2 DEF DemoteSubscription
<1>5. CASE Complete(a)
  BY <1>5, DataTypes, ActorType DEF Complete
<1>6. CASE Crash(a)
  <2>1. actor' \in [Actors -> ActorStates] /\ job' \in {"none", "waiting", "running"}
    BY <1>6, ErrsType DEF Crash
  <2>2. faults' \in 0 .. MaxFaults
    BY <1>6, BillingAssumption DEF Crash, BillingAssumption
  <2> QED
    BY <1>6, <2>1, <2>2 DEF Crash
<1> QED
  BY <1>1, <1>2, <1>3, <1>4, <1>5, <1>6

LEMMA TypeStep == TypeOK /\ [Next]_vars => TypeOK'
<1> SUFFICES ASSUME TypeOK, [Next]_vars PROVE TypeOK'
  OBVIOUS
<1>1. ASSUME NEW a \in Actors, Step(a) \/ Crash(a) PROVE TypeOK'
  BY <1>1, TypeFinding, TypeAttempt, TypeOutcome DEF Step
<1>2. CASE UNCHANGED vars
  BY <1>2 DEF vars, TypeOK
<1> QED
  BY <1>1, <1>2, TypeRequests DEF Next

(* Every variable stays in its domain (domain/subscription.go, invoice.go, *)
(* payment.go and the constraints of db/migrations/000014).                *)
THEOREM TypeCorrect == Spec => []TypeOK
<1>1. Init => TypeOK
  BY TypeInit
<1>2. TypeOK /\ [Next]_vars => TypeOK'
  BY TypeStep
<1> QED
  BY <1>1, <1>2, PTL DEF Spec

-----------------------------------------------------------------------------
(* Which step writes what.                                                 *)

LEMMA BecomesAt ==
    ASSUME TypeOK, NEW a \in Actors, NEW s, Becomes(a, s), NEW b \in Actors
    PROVE  actor'[b] = IF b = a THEN s ELSE actor[b]
BY DEF Becomes, TypeOK

(* An actor that Errs or Finishes is idle or done.                         *)
LEMMA Ends ==
    ASSUME TypeOK, NEW a \in Actors, Errs(a) \/ Finishes(a), NEW b \in Actors
    PROVE  IF b = a THEN actor'[b].pc \in {"idle", "done"} ELSE actor'[b] = actor[b]
<1>1. CASE Errs(a)
  BY <1>1, BecomesAt DEF Errs, Idle
<1>2. CASE Finishes(a)
  BY <1>2, BecomesAt DEF Finishes, Idle
<1> QED
  BY <1>1, <1>2

(* Only the actor whose step it is moves, and this is where it goes.       *)
Moved(b) ==
    \/ actor'[b] = actor[b]
    \/ actor'[b].pc \in {"idle", "done", "load"}
    \/ b \in Requests /\ Subscribe(b) /\ actor'[b].pc = "invoice"
    \/ \E p \in Periods :
         /\ (b \in Requests /\ Settle(b, p)) \/ FoundOpen(b, p)
         /\ actor'[b].pc = "guard" /\ actor'[b].inv = p
    \/ LoadSubscription(b) /\ actor'[b].pc = "open" /\ actor'[b].snap = sub
    \/ /\ FoundNoneOpen(b) /\ RenewalDue(actor[b].snap)
       /\ actor'[b].pc \in {"cancel", "renew"} /\ actor'[b].snap = actor[b].snap
    \/ /\ RenewalInvoice(b)
       /\ actor'[b].pc = "guard" /\ actor'[b].inv = actor[b].snap.period + 1
    \/ /\ actor'[b].inv = actor[b].inv
       /\ \/ /\ GuardPaid(b)
             /\ actor'[b].pc = IF HasSucceeded(actor[b].inv) THEN "paid" ELSE "number"
          \/ /\ NumberAttempt(b) /\ actor'[b].pc = "gateway"
             /\ actor'[b].no = NextAttempt(actor[b].inv)
          \/ /\ Charge(b) /\ actor'[b].pc = "record"
             /\ actor'[b].no = actor[b].no
          \/ /\ RecordAttempt(b) /\ ~(actor[b].no <= attempts[actor[b].inv].count)
             /\ actor'[b].pc = IF actor[b].approved THEN "paid" ELSE "dun"
          \/ SettleInvoice(b) /\ actor'[b].pc = "activate"
          \/ DunInvoice(b) /\ actor'[b].pc = "demote"

LEMMA MovedByRequest ==
    ASSUME TypeOK, NEW b \in Actors,
           \/ \E r \in Requests : Subscribe(r) \/ \E p \in Periods : Settle(r, p)
           \/ RequestCancellation \/ ListDue \/ EnqueueCharge \/ TakeJob \/ Tick
    PROVE  Moved(b)
<1> USE DEF Moved
<1>0. Requests \subseteq Actors /\ Worker \in Actors
  BY DEF Actors
<1>1. ASSUME NEW r \in Requests, Subscribe(r) PROVE Moved(b)
  <2>1. actor'[b] = IF b = r THEN [Idle EXCEPT !.pc = "invoice", !.op = "subscribe"]
                    ELSE actor[b]
    BY <1>0, <1>1, BecomesAt DEF Subscribe
  <2> QED
    BY <1>1, <2>1 DEF Idle
<1>2. ASSUME NEW r \in Requests, NEW p \in Periods, Settle(r, p) PROVE Moved(b)
  <2>1. actor'[b] = IF b = r
                    THEN [Idle EXCEPT !.pc = "guard", !.op = "settle", !.inv = p]
                    ELSE actor[b]
    BY <1>0, <1>2, BecomesAt DEF Settle
  <2>2. b = r => actor'[b].pc = "guard" /\ actor'[b].inv = p
    BY <2>1 DEF Idle
  <2> QED
    BY <1>2, <2>1, <2>2
<1>3. CASE TakeJob
  <2>1. actor'[b] = IF b = Worker THEN [Idle EXCEPT !.pc = "load"] ELSE actor[b]
    BY <1>0, <1>3, BecomesAt DEF TakeJob
  <2> QED
    BY <2>1 DEF Idle
<1>4. CASE RequestCancellation \/ ListDue \/ EnqueueCharge \/ Tick
  BY <1>4 DEF RequestCancellation, ListDue, EnqueueCharge, Tick
<1> QED
  BY <1>1, <1>2, <1>3, <1>4

LEMMA MovedByStep ==
    ASSUME TypeOK, NEW a \in Actors, Step(a) \/ Crash(a), NEW b \in Actors
    PROVE  Moved(b)
<1> USE DEF Moved
<1>0. actor[a] \in ActorStates
  BY DEF TypeOK
<1>1. CASE AddInvoice(a)
  BY <1>0, <1>1, BecomesAt DEF AddInvoice, GoesTo, ActorStates
<1>2. CASE LoadSubscription(a)
  <2>1. actor'[b] = IF b = a THEN [actor[a] EXCEPT !.pc = "open", !.snap = sub]
                    ELSE actor[b]
    BY <1>2, BecomesAt DEF LoadSubscription
  <2>2. b = a => actor'[b].pc = "open" /\ actor'[b].snap = sub
    BY <1>0, <2>1 DEF ActorStates
  <2> QED
    BY <1>2, <2>1, <2>2
<1>3. ASSUME NEW p \in Periods, FoundOpen(a, p) PROVE Moved(b)
  <2>1. actor'[b] = IF b = a
                    THEN [Idle EXCEPT !.pc = "guard", !.op = actor[a].op, !.inv = p]
                    ELSE actor[b]
    BY <1>3, BecomesAt DEF FoundOpen, ChargesInvoice
  <2>2. b = a => actor'[b].pc = "guard" /\ actor'[b].inv = p
    BY <2>1 DEF Idle
  <2> QED
    BY <1>3, <2>1, <2>2
<1>4. CASE FoundNoneOpen(a)
  <2>1. CASE Finishes(a)
    BY <2>1, Ends
  <2>2. CASE ~Finishes(a)
    <3> DEFINE pc == IF actor[a].snap.cancelling THEN "cancel" ELSE "renew"
    <3>1. RenewalDue(actor[a].snap) /\ GoesTo(a, pc)
      BY <1>4, <2>2 DEF FoundNoneOpen
    <3>2. actor'[b] = IF b = a THEN [actor[a] EXCEPT !.pc = pc] ELSE actor[b]
      BY <3>1, BecomesAt DEF GoesTo
    <3> QED
      BY <1>0, <1>4, <3>1, <3>2 DEF ActorStates
  <2> QED
    BY <2>1, <2>2
<1>5. CASE CancelAtPeriodEnd(a) \/ ActivateSubscription(a) \/ DemoteSubscription(a)
  BY <1>5, Ends DEF CancelAtPeriodEnd, ActivateSubscription, DemoteSubscription
<1>6. CASE RenewalInvoice(a)
  <2>1. actor'[b] = IF b = a
                    THEN [Idle EXCEPT !.pc = "guard", !.op = actor[a].op,
                                      !.inv = actor[a].snap.period + 1]
                    ELSE actor[b]
    BY <1>6, BecomesAt DEF RenewalInvoice, ChargesInvoice
  <2>2. b = a => actor'[b].pc = "guard" /\ actor'[b].inv = actor[a].snap.period + 1
    BY <2>1 DEF Idle
  <2> QED
    BY <1>6, <2>1, <2>2
<1>7. CASE GuardPaid(a)
  <2> DEFINE pc == IF HasSucceeded(actor[a].inv) THEN "paid" ELSE "number"
  <2>1. actor'[b] = IF b = a THEN [actor[a] EXCEPT !.pc = pc] ELSE actor[b]
    BY <1>7, BecomesAt DEF GuardPaid, GoesTo
  <2> HIDE DEF pc
  <2>2. b = a => actor'[b].pc = pc /\ actor'[b].inv = actor[a].inv
    BY <1>0, <2>1 DEF ActorStates
  <2> QED
    BY <1>7, <2>1, <2>2 DEF pc
<1>8. CASE NumberAttempt(a)
  <2> DEFINE no == NextAttempt(actor[a].inv)
  <2>1. actor'[b] = IF b = a THEN [actor[a] EXCEPT !.pc = "gateway", !.no = no]
                    ELSE actor[b]
    BY <1>8, BecomesAt DEF NumberAttempt
  <2> HIDE DEF no
  <2>2. b = a => actor'[b].pc = "gateway" /\ actor'[b].no = no
                 /\ actor'[b].inv = actor[a].inv
    BY <1>0, <2>1 DEF ActorStates
  <2> QED
    BY <1>8, <2>1, <2>2 DEF no
<1>9. CASE Charge(a)
  <2>1. PICK answer \in {"approved", "refused"}, lost \in BOOLEAN :
          Becomes(a, [actor[a] EXCEPT !.pc = "record",
                                 !.approved = (answer = "approved" /\ ~lost)])
    BY <1>9 DEF Charge
  <2>2. actor'[b] = IF b = a
                    THEN [actor[a] EXCEPT !.pc = "record",
                                 !.approved = (answer = "approved" /\ ~lost)]
                    ELSE actor[b]
    BY <2>1, BecomesAt
  <2>3. b = a => actor'[b].pc = "record" /\ actor'[b].no = actor[a].no
                 /\ actor'[b].inv = actor[a].inv
    BY <1>0, <2>2 DEF ActorStates
  <2> QED
    BY <1>9, <2>2, <2>3
<1>10. CASE RecordAttempt(a)
  <2>1. CASE Errs(a) \/ Finishes(a)
    BY <2>1, Ends
  <2>2. CASE ~Errs(a) /\ ~Finishes(a)
    <3> DEFINE pc == IF actor[a].approved THEN "paid" ELSE "dun"
               s == [actor[a] EXCEPT !.pc = pc, !.no = 0, !.approved = FALSE]
    <3>1. Becomes(a, s) /\ ~(actor[a].no <= attempts[actor[a].inv].count)
      BY <1>10, <2>2 DEF RecordAttempt, Recorded
    <3> HIDE DEF pc
    <3>2. s.pc = pc /\ s.inv = actor[a].inv
      BY <1>0 DEF ActorStates
    <3> HIDE DEF s
    <3>3. actor'[b] = IF b = a THEN s ELSE actor[b]
      BY <3>1, BecomesAt
    <3> QED
      BY <1>10, <3>1, <3>2, <3>3 DEF pc
  <2> QED
    BY <2>1, <2>2
<1>11. CASE SettleInvoice(a)
  <2>1. actor'[b] = IF b = a THEN [actor[a] EXCEPT !.pc = "activate"] ELSE actor[b]
    BY <1>11, BecomesAt DEF SettleInvoice, GoesTo
  <2> QED
    BY <1>0, <1>11, <2>1 DEF ActorStates
<1>12. CASE DunInvoice(a)
  <2>1. CASE Errs(a)
    BY <2>1, Ends
  <2>2. CASE ~Errs(a)
    <3> DEFINE x == Exhausts(invoice[actor[a].inv])
    <3>1. Becomes(a, [actor[a] EXCEPT !.pc = "demote", !.exhausted = x])
      BY <1>12, <2>2 DEF DunInvoice
    <3> HIDE DEF x
    <3>2. actor'[b] = IF b = a THEN [actor[a] EXCEPT !.pc = "demote", !.exhausted = x]
                      ELSE actor[b]
      BY <3>1, BecomesAt
    <3> QED
      BY <1>0, <1>12, <3>2 DEF ActorStates
  <2> QED
    BY <2>1, <2>2
<1>13. CASE Complete(a)
  BY <1>13, BecomesAt DEF Complete, Idle
<1>14. CASE Crash(a)
  BY <1>14, Ends DEF Crash
<1> QED
  BY <1>1, <1>2, <1>3, <1>4, <1>5, <1>6, <1>7, <1>8, <1>9, <1>10, <1>11, <1>12,
     <1>13, <1>14 DEF Step

LEMMA Moves ==
    ASSUME TypeOK, [Next]_vars, NEW b \in Actors
    PROVE  Moved(b)
<1>1. CASE UNCHANGED vars
  BY <1>1 DEF vars, Moved
<1> QED
  BY <1>1, MovedByRequest, MovedByStep DEF Next

(* The actions that write each table.                                      *)
LEMMA Writers ==
    ASSUME [Next]_vars
    PROVE  /\ gateway' = gateway \/ \E a \in Actors : Charge(a)
           /\ attempts' = attempts \/ \E a \in Actors : RecordAttempt(a)
           /\ \/ invoice' = invoice
              \/ \E a \in Actors : \/ AddInvoice(a) \/ RenewalInvoice(a)
                                   \/ SettleInvoice(a) \/ DunInvoice(a)
           /\ \/ sub' = sub
              \/ \E r \in Requests : Subscribe(r)
              \/ RequestCancellation
              \/ \E a \in Actors : \/ CancelAtPeriodEnd(a) \/ ActivateSubscription(a)
                                   \/ DemoteSubscription(a)
           /\ now' = now \/ Tick
<1> DEFINE Goal == 
           /\ gateway' = gateway \/ \E a \in Actors : Charge(a)
           /\ attempts' = attempts \/ \E a \in Actors : RecordAttempt(a)
           /\ \/ invoice' = invoice
              \/ \E a \in Actors : \/ AddInvoice(a) \/ RenewalInvoice(a)
                                   \/ SettleInvoice(a) \/ DunInvoice(a)
           /\ \/ sub' = sub
              \/ \E r \in Requests : Subscribe(r)
              \/ RequestCancellation
              \/ \E a \in Actors : \/ CancelAtPeriodEnd(a) \/ ActivateSubscription(a)
                                   \/ DemoteSubscription(a)
           /\ now' = now \/ Tick
<1>1. CASE UNCHANGED vars
  BY <1>1 DEF vars
<1>2. ASSUME NEW r \in Requests, Subscribe(r) PROVE Goal
  BY <1>2 DEF Subscribe
<1>3. ASSUME NEW r \in Requests, NEW p \in Periods, Settle(r, p) PROVE Goal
  BY <1>3 DEF Settle
<1>4. CASE RequestCancellation \/ ListDue \/ EnqueueCharge \/ TakeJob \/ Tick
  BY <1>4 DEF RequestCancellation, ListDue, EnqueueCharge, TakeJob, Tick
<1>5. ASSUME NEW a \in Actors, AddInvoice(a) \/ LoadSubscription(a) PROVE Goal
  BY <1>5 DEF AddInvoice, LoadSubscription
<1>6. ASSUME NEW a \in Actors, NEW p \in Periods, FoundOpen(a, p) PROVE Goal
  BY <1>6 DEF FoundOpen
<1>7. ASSUME NEW a \in Actors, FoundNoneOpen(a) \/ CancelAtPeriodEnd(a) \/ RenewalInvoice(a)
      PROVE Goal
  BY <1>7 DEF FoundNoneOpen, CancelAtPeriodEnd, RenewalInvoice
<1>8. ASSUME NEW a \in Actors,
             GuardPaid(a) \/ NumberAttempt(a) \/ Charge(a) \/ RecordAttempt(a)
      PROVE Goal
  BY <1>8 DEF GuardPaid, NumberAttempt, Charge, RecordAttempt
<1>9. ASSUME NEW a \in Actors,
             \/ SettleInvoice(a) \/ ActivateSubscription(a) \/ DunInvoice(a)
             \/ DemoteSubscription(a) \/ Complete(a) \/ Crash(a)
      PROVE Goal
  BY <1>9 DEF SettleInvoice, ActivateSubscription, DunInvoice, DemoteSubscription,
              Complete, Crash
<1> QED
  BY <1>1, <1>2, <1>3, <1>4, <1>5, <1>6, <1>7, <1>8, <1>9 DEF Next, Step

-----------------------------------------------------------------------------
(* Every paid invoice was charged.                                         *)

(* What an actor between numbering an attempt and settling knows.          *)
MoneyOf(s) ==
    /\ s.pc \in {"gateway", "record"} => s.no \in Keys
    /\ s.pc = "record" /\ s.approved => gateway[s.inv][s.no] = "approved"
    /\ s.pc = "paid" => ChargedKeys(s.inv) # {}

MoneyInv ==
    /\ PaidWasCharged
    /\ \A p \in Periods : attempts[p].won \subseteq ChargedKeys(p)
    /\ \A a \in Actors : MoneyOf(actor[a])

(* The gateway never takes an approval back: the idempotency key.          *)
LEMMA ApprovalsStay ==
    ASSUME TypeOK, [Next]_vars, NEW p \in Periods
    PROVE  ChargedKeys(p) \subseteq ChargedKeys(p)'
<1> SUFFICES ASSUME NEW k \in Keys, gateway[p][k] = "approved"
             PROVE  gateway'[p][k] = "approved"
  BY DEF ChargedKeys
<1>1. ASSUME NEW a \in Actors, Charge(a) PROVE gateway'[p][k] = "approved"
  <2>1. PICK answer \in {"approved", "refused"} :
          /\ gateway[actor[a].inv][actor[a].no] \in {"unused", answer}
          /\ gateway' = [gateway EXCEPT ![actor[a].inv] =
                [gateway[actor[a].inv] EXCEPT ![actor[a].no] = answer]]
    BY <1>1 DEF Charge
  <2> QED
    BY <2>1 DEF TypeOK
<1> QED
  BY <1>1, Writers

(* A winning attempt is recorded under a key the gateway approved.         *)
LEMMA WonWasCharged ==
    ASSUME TypeOK, TypeOK', MoneyInv, [Next]_vars, NEW p \in Periods
    PROVE  attempts'[p].won \subseteq ChargedKeys(p)'
<1>1. attempts[p].won \subseteq ChargedKeys(p)'
  BY ApprovalsStay DEF MoneyInv
<1>2. ASSUME NEW a \in Actors, RecordAttempt(a)
      PROVE  attempts'[p].won \subseteq ChargedKeys(p) \cup attempts[p].won
  <2> DEFINE k == actor[a].no
             log == attempts[actor[a].inv]
             won == IF actor[a].approved THEN log.won \cup {k} ELSE log.won
  <2>1. \/ attempts' = attempts
        \/ attempts' = [attempts EXCEPT ![actor[a].inv] = [count |-> k, won |-> won]]
    BY <1>2 DEF RecordAttempt
  <2>2. won \subseteq log.won \cup ChargedKeys(actor[a].inv)
    BY <1>2 DEF RecordAttempt, MoneyInv, MoneyOf, ChargedKeys
  <2> HIDE DEF won, k
  <2>3. \/ attempts'[p].won = attempts[p].won
        \/ p = actor[a].inv /\ attempts'[p].won = won
    BY <2>1 DEF TypeOK
  <2> QED
    BY <2>2, <2>3
<1>3. ChargedKeys(p) \subseteq ChargedKeys(p)'
  BY ApprovalsStay
<1> QED
  BY <1>1, <1>2, <1>3, Writers

LEMMA MoneyMoves ==
    ASSUME TypeOK, TypeOK', MoneyInv, [Next]_vars, NEW b \in Actors
    PROVE  MoneyOf(actor[b])'
<1> DEFINE s == actor'[b]
<1>0. /\ actor[b] \in ActorStates /\ MoneyOf(actor[b]) /\ Moved(b)
      /\ \A p \in Periods : ChargedKeys(p) \subseteq ChargedKeys(p)'
  BY Moves, ApprovalsStay DEF TypeOK, MoneyInv
<1>1. CASE s = actor[b]
  <2>1. actor[b].inv \in Periods
    BY <1>0 DEF ActorStates
  <2> QED
    BY <1>0, <1>1, <2>1 DEF MoneyOf, ChargedKeys
<1>2. CASE s.pc \notin {"gateway", "record", "paid"}
  BY <1>2 DEF MoneyOf
<1>3. CASE s # actor[b] /\ s.pc = "gateway"
  <2>1. NumberAttempt(b) /\ s.no = NextAttempt(actor[b].inv)
    BY <1>0, <1>3 DEF Moved
  <2>2. s.no \in Keys
    BY <1>0, <2>1, BillingAssumption
       DEF NumberAttempt, NextAttempt, TypeOK, AttemptLogs, ActorStates, Keys,
           BillingAssumption
  <2> QED
    BY <1>3, <2>2 DEF MoneyOf
<1>4. CASE s # actor[b] /\ s.pc = "record"
  <2>1. Charge(b) /\ s.no = actor[b].no /\ s.inv = actor[b].inv
    BY <1>0, <1>4 DEF Moved
  <2>2. s.no \in Keys /\ s.inv \in Periods
    BY <1>0, <2>1 DEF Charge, MoneyOf, ActorStates
  <2>3. PICK answer \in {"approved", "refused"}, lost \in BOOLEAN :
          /\ gateway' = [gateway EXCEPT ![actor[b].inv] =
                [gateway[actor[b].inv] EXCEPT ![actor[b].no] = answer]]
          /\ Becomes(b, [actor[b] EXCEPT !.pc = "record",
                                 !.approved = (answer = "approved" /\ ~lost)])
    BY <2>1 DEF Charge
  <2>4. gateway'[s.inv][s.no] = answer
    BY <2>1, <2>2, <2>3 DEF TypeOK
  <2>5. s = [actor[b] EXCEPT !.pc = "record",
                             !.approved = (answer = "approved" /\ ~lost)]
    BY <2>3, BecomesAt
  <2>6. s.approved = (answer = "approved" /\ ~lost)
    BY <1>0, <2>5 DEF ActorStates
  <2> QED
    BY <1>4, <2>2, <2>4, <2>6 DEF MoneyOf
<1>5. CASE s # actor[b] /\ s.pc = "paid"
  <2>1. /\ s.inv = actor[b].inv
        /\ \/ GuardPaid(b) /\ HasSucceeded(actor[b].inv)
           \/ RecordAttempt(b) /\ actor[b].approved
    BY <1>0, <1>5 DEF Moved
  <2>2. PICK p \in Periods : p = actor[b].inv
    BY <1>0 DEF ActorStates
  <2>3. ChargedKeys(p) # {}
    BY <1>0, <2>1, <2>2 DEF HasSucceeded, MoneyInv, RecordAttempt, MoneyOf, ChargedKeys
  <2>4. ChargedKeys(p)' # {}
    BY <2>3, ApprovalsStay
  <2> QED
    BY <1>5, <2>1, <2>2, <2>4 DEF MoneyOf, ChargedKeys
<1> QED
  BY <1>1, <1>2, <1>3, <1>4, <1>5

LEMMA MoneyStep == TypeOK /\ TypeOK' /\ MoneyInv /\ [Next]_vars => MoneyInv'
<1> SUFFICES ASSUME TypeOK, TypeOK', MoneyInv, [Next]_vars PROVE MoneyInv'
  OBVIOUS
<1>1. ASSUME NEW p \in Periods, invoice'[p].status = "paid"
      PROVE  ChargedKeys(p)' # {}
  <2>1. CASE invoice[p].status = "paid"
    BY <2>1, ApprovalsStay DEF MoneyInv, PaidWasCharged
  <2>2. CASE invoice[p].status # "paid"
    <3>1. PICK a \in Actors : AddInvoice(a) \/ RenewalInvoice(a)
                              \/ SettleInvoice(a) \/ DunInvoice(a)
      BY <1>1, <2>2, Writers
    <3>2. SettleInvoice(a) /\ p = actor[a].inv
      <4>1. ~AddInvoice(a) /\ ~RenewalInvoice(a)
        BY <1>1, <2>2 DEF AddInvoice, RenewalInvoice, NewInvoice, NoInvoice, TypeOK
      <4>2. ~DunInvoice(a)
        BY <1>1, <2>2 DEF DunInvoice, Dunned, TypeOK
      <4> QED
        BY <1>1, <2>2, <3>1, <4>1, <4>2 DEF SettleInvoice, TypeOK
    <3>3. ChargedKeys(p) # {}
      BY <3>2 DEF SettleInvoice, MoneyInv, MoneyOf
    <3> QED
      BY <3>3, ApprovalsStay
  <2> QED
    BY <2>1, <2>2
<1> QED
  BY <1>1, WonWasCharged, MoneyMoves DEF MoneyInv, PaidWasCharged

(* The recorded wins and the actors' answers agree with the gateway.       *)
THEOREM MoneyHolds == Spec => []MoneyInv
<1>1. Init => MoneyInv
  BY DEF Init, MoneyInv, PaidWasCharged, MoneyOf, NoInvoice, Idle
<1>2. TypeOK /\ TypeOK' /\ MoneyInv /\ [Next]_vars => MoneyInv'
  BY MoneyStep
<1> QED
  BY <1>1, <1>2, TypeCorrect, PTL DEF Spec

(* An invoice is paid only if the gateway took the money for it, through   *)
(* every crash, lost answer and overlap (ChargeInvoiceHandler.settle).     *)
THEOREM PaidIsCharged == Spec => []PaidWasCharged
<1>1. MoneyInv => PaidWasCharged
  BY DEF MoneyInv
<1> QED
  BY <1>1, MoneyHolds, PTL

-----------------------------------------------------------------------------
(* Until the first invoice exists only the request that subscribed is at   *)
(* work, so AddInvoice never overwrites an invoice.                        *)

FreshInv ==
    /\ sub.state = "none" =>
         invoice[1].status = "none" /\ \A a \in Actors : actor[a].pc = "idle"
    /\ invoice[1].status = "none" =>
         /\ \A p \in Periods : invoice[p].status = "none"
         /\ sub.state \in {"none", "pending"}
         /\ job = "none" /\ ~listed
         /\ \A a \in Actors : actor[a].pc \in {"idle", "invoice"}
    /\ \A a \in Actors : actor[a].pc = "invoice" =>
         /\ a # Worker
         /\ invoice[1].status = "none"
         /\ \A b \in Actors : actor[b].pc = "invoice" => b = a

LEMMA InvoicesStay ==
    ASSUME TypeOK, [Next]_vars, NEW p \in Periods, invoice[p].status # "none"
    PROVE  invoice'[p].status # "none"
<1>1. ASSUME NEW a \in Actors, AddInvoice(a) PROVE invoice'[p].status # "none"
  BY <1>1 DEF AddInvoice, NewInvoice, NoInvoice, TypeOK
<1>2. ASSUME NEW a \in Actors, RenewalInvoice(a) PROVE invoice'[p].status # "none"
  BY <1>2 DEF RenewalInvoice, TypeOK
<1>3. ASSUME NEW a \in Actors, SettleInvoice(a) PROVE invoice'[p].status # "none"
  <2>1. MarkPaid(invoice[actor[a].inv]).status = "paid"
    BY DEF MarkPaid
  <2> QED
    BY <1>3, <2>1 DEF SettleInvoice, TypeOK
<1>4. ASSUME NEW a \in Actors, DunInvoice(a) PROVE invoice'[p].status # "none"
  <2> DEFINE i == invoice[actor[a].inv]
  <2>1. Dunned(i).status \in {i.status, "uncollectible"}
    BY DEF Dunned
  <2>2. invoice' = invoice \/ invoice' = [invoice EXCEPT ![actor[a].inv] = Dunned(i)]
    BY <1>4 DEF DunInvoice
  <2> QED
    BY <2>1, <2>2 DEF TypeOK
<1> QED
  BY <1>1, <1>2, <1>3, <1>4, Writers

LEMMA SubscriptionStays ==
    ASSUME TypeOK, [Next]_vars, sub.state # "none"
    PROVE  sub'.state # "none"
<1>1. ASSUME NEW r \in Requests, Subscribe(r) PROVE FALSE
  BY <1>1 DEF Subscribe
<1>2. CASE RequestCancellation
  BY <1>2 DEF RequestCancellation, TypeOK, Subscriptions
<1>3. ASSUME NEW a \in Actors,
             CancelAtPeriodEnd(a) \/ ActivateSubscription(a) \/ DemoteSubscription(a)
      PROVE  sub'.state # "none"
  BY <1>3 DEF CancelAtPeriodEnd, ActivateSubscription, DemoteSubscription, Activated,
              Demoted, TypeOK, Subscriptions
<1> QED
  BY <1>1, <1>2, <1>3, Writers

(* Once there is a first invoice, nobody subscribes again.                 *)
LEMMA FreshOver ==
    ASSUME TypeOK, FreshInv, [Next]_vars, invoice[1].status # "none"
    PROVE  FreshInv'
<1>1. 1 \in Periods
  BY BillingAssumption DEF Periods, BillingAssumption
<1>2. invoice'[1].status # "none" /\ sub'.state # "none"
  BY <1>1, InvoicesStay, SubscriptionStays DEF FreshInv
<1>3. ASSUME NEW b \in Actors PROVE actor'[b].pc # "invoice"
  <2>1. actor[b].pc # "invoice" /\ sub.state # "none" /\ Moved(b)
    BY Moves DEF FreshInv
  <2> QED
    BY <2>1 DEF Moved, Subscribe
<1> QED
  BY <1>2, <1>3 DEF FreshInv

(* Before, the tenant subscribes, the request adds the invoice or dies.    *)
LEMMA FreshStill ==
    ASSUME TypeOK, FreshInv, [Next]_vars, invoice[1].status = "none"
    PROVE  FreshInv'
<1>0. /\ 1 \in Periods /\ Requests \subseteq Actors
      /\ Worker \notin Requests /\ Worker \in Actors
  BY BillingAssumption DEF Periods, Actors, BillingAssumption
<1>u. /\ \A p \in Periods : invoice[p].status = "none"
      /\ sub.state \in {"none", "pending"}
      /\ job = "none" /\ ~listed
      /\ \A a \in Actors : actor[a].pc \in {"idle", "invoice"}
  BY DEF FreshInv
<1>1. ASSUME NEW r \in Requests, Subscribe(r) PROVE FreshInv'
  <2>1. \A b \in Actors : actor[b].pc = "idle"
    BY <1>1 DEF Subscribe, FreshInv
  <2>2. \A b \in Actors : actor'[b] =
             IF b = r THEN [Idle EXCEPT !.pc = "invoice", !.op = "subscribe"]
             ELSE actor[b]
    BY <1>0, <1>1, BecomesAt DEF Subscribe
  <2>3. \A b \in Actors : actor'[b].pc = IF b = r THEN "invoice" ELSE "idle"
    BY <2>1, <2>2 DEF Idle
  <2>4. sub'.state = "pending" /\ UNCHANGED <<invoice, job, listed>>
    BY <1>1 DEF Subscribe, NewSubscription, NoSubscription
  <2> QED
    BY <1>0, <1>u, <2>3, <2>4 DEF FreshInv
<1>2. ASSUME NEW a \in Actors, AddInvoice(a) PROVE FreshInv'
  <2>1. actor[a].pc = "invoice" /\ sub.state # "none" /\ sub' = sub
    BY <1>2 DEF AddInvoice, FreshInv
  <2>2. invoice'[1].status # "none"
    BY <1>0, <1>2 DEF AddInvoice, NewInvoice, NoInvoice, TypeOK
  <2>3. \A b \in Actors : actor'[b] = IF b = a THEN [actor[a] EXCEPT !.pc = "load"]
                                      ELSE actor[b]
    BY <1>2, BecomesAt DEF AddInvoice, GoesTo
  <2>4. \A b \in Actors : actor'[b].pc # "invoice"
    BY <2>1, <2>3 DEF FreshInv, TypeOK, ActorStates
  <2> QED
    BY <2>1, <2>2, <2>4 DEF FreshInv
<1>3. ASSUME NEW a \in Actors, Crash(a) PROVE FreshInv'
  <2>1. actor[a].pc = "invoice" /\ a # Worker /\ sub.state # "none"
    BY <1>u, <1>3 DEF Crash, FreshInv
  <2>2. \A b \in Actors : actor'[b] = IF b = a THEN Idle ELSE actor[b]
    BY <1>3, BecomesAt DEF Crash, Errs
  <2>3. \A b \in Actors : actor'[b].pc = "idle"
    BY <1>u, <2>1, <2>2 DEF FreshInv, Idle
  <2>4. UNCHANGED <<sub, invoice, job, listed>>
    BY <1>3, <2>1 DEF Crash, Errs
  <2> QED
    BY <1>u, <2>3, <2>4 DEF FreshInv
<1>4. CASE UNCHANGED vars \/ Tick
  BY <1>4 DEF vars, Tick, FreshInv
<1>5. ASSUME NEW a \in Actors, Step(a), ~AddInvoice(a) PROVE FALSE
  <2>1. actor[a].pc \in {"idle", "invoice"}
    BY <1>u
  <2> QED
    BY <1>5, <2>1
       DEF Step, LoadSubscription, FoundOpen, FoundNoneOpen, CancelAtPeriodEnd,
           RenewalInvoice, GuardPaid, NumberAttempt, Charge, RecordAttempt,
           SettleInvoice, ActivateSubscription, DunInvoice, DemoteSubscription, Complete
<1>6. ASSUME NEW r \in Requests, NEW p \in Periods, Settle(r, p) PROVE FALSE
  BY <1>u, <1>6 DEF Settle
<1>7. ~RequestCancellation /\ ~ListDue /\ ~EnqueueCharge /\ ~TakeJob
  BY <1>u DEF RequestCancellation, ListDue, EnqueueCharge, TakeJob, Due, DueRenewal,
              DueRetry
<1> QED
  BY <1>1, <1>2, <1>3, <1>4, <1>5, <1>6, <1>7 DEF Next

LEMMA FreshStep == TypeOK /\ FreshInv /\ [Next]_vars => FreshInv'
BY FreshOver, FreshStill

LEMMA FreshInit == Init => FreshInv
<1> SUFFICES ASSUME Init PROVE FreshInv
  OBVIOUS
<1>1. 1 \in Periods
  BY BillingAssumption DEF Periods, BillingAssumption
<1>2. sub.state = "none" /\ (\A p \in Periods : invoice[p].status = "none")
  BY DEF Init, NoSubscription, NoInvoice
<1>3. \A a \in Actors : actor[a].pc = "idle"
  BY DEF Init, Idle
<1> QED
  BY <1>1, <1>2, <1>3 DEF Init, FreshInv

-----------------------------------------------------------------------------
(* Periods are billed and activated in order.                              *)

ChargePCs == {"guard", "number", "gateway", "record", "paid", "activate", "dun", "demote"}

(* What an actor knows of the invoice it charges, and of the subscription  *)
(* it loaded, however stale.                                               *)
PeriodOf(s) ==
    /\ s.pc \in ChargePCs => invoice[s.inv].status # "none"
    /\ s.pc = "activate" => invoice[s.inv].status = "paid"
    /\ s.pc \in {"open", "cancel", "renew"} /\ s.snap.state = "active" =>
           invoice[s.snap.period].status = "paid"
    /\ s.pc \in {"cancel", "renew"} => s.snap.state = "active" /\ s.snap.period <= now

PeriodInv ==
    /\ ActiveMeansPaid
    /\ BillsInOrder
    /\ \A a \in Actors : PeriodOf(actor[a])

LEMMA PaidStays ==
    ASSUME TypeOK, FreshInv, [Next]_vars, NEW p \in Periods, invoice[p].status = "paid"
    PROVE  invoice'[p].status = "paid"
<1>1. ASSUME NEW a \in Actors, AddInvoice(a) PROVE FALSE
  BY <1>1 DEF AddInvoice, FreshInv
<1>2. ASSUME NEW a \in Actors, RenewalInvoice(a) PROVE invoice'[p].status = "paid"
  BY <1>2 DEF RenewalInvoice, TypeOK
<1>3. ASSUME NEW a \in Actors, SettleInvoice(a) PROVE invoice'[p].status = "paid"
  <2>1. MarkPaid(invoice[actor[a].inv]).status = "paid"
    BY DEF MarkPaid
  <2> QED
    BY <1>3, <2>1 DEF SettleInvoice, TypeOK
<1>4. ASSUME NEW a \in Actors, DunInvoice(a) PROVE invoice'[p].status = "paid"
  BY <1>4 DEF DunInvoice, Dunned, TypeOK
<1> QED
  BY <1>1, <1>2, <1>3, <1>4, Writers

LEMMA ClockAdvances ==
    ASSUME TypeOK, [Next]_vars
    PROVE  now <= now' /\ now \in Int /\ now' \in Int
BY Writers DEF TypeOK, Tick

LEMMA PeriodMoves ==
    ASSUME TypeOK, TypeOK', FreshInv, PeriodInv, [Next]_vars, NEW b \in Actors
    PROVE  PeriodOf(actor[b])'
<1> DEFINE s == actor'[b]
<1>0. /\ actor[b] \in ActorStates /\ PeriodOf(actor[b]) /\ Moved(b)
      /\ actor[b].inv \in Periods /\ actor[b].snap.period \in Periods
      /\ actor[b].snap.period \in Int
  BY Moves, SMTT(40) DEF TypeOK, PeriodInv, ActorStates, Subscriptions, Periods
<1>1. CASE s = actor[b]
  BY <1>0, <1>1, InvoicesStay, PaidStays, ClockAdvances DEF PeriodOf
<1>2. CASE s.pc \in {"idle", "done", "load", "invoice"}
  BY <1>2 DEF PeriodOf, ChargePCs
<1>3. CASE s # actor[b] /\ s.pc = "guard"
  <2>1. PICK p \in Periods : s.inv = p /\ (invoice[p].status # "none"
                                            \/ invoice'[p].status # "none")
    <3>1. CASE \E p \in Periods : Settle(b, p) /\ s.inv = p
      BY <3>1 DEF Settle
    <3>2. CASE \E p \in Periods : FoundOpen(b, p) /\ s.inv = p
      BY <3>2 DEF FoundOpen, OpenInvoices
    <3>3. CASE RenewalInvoice(b) /\ s.inv = actor[b].snap.period + 1
      <4>1. s.inv \in Periods
        BY <1>0, <3>3, BillingAssumption
           DEF RenewalInvoice, Periods, BillingAssumption
      <4>2. invoice'[s.inv].status # "none"
        BY <3>3, <4>1 DEF RenewalInvoice, NewInvoice, NoInvoice, TypeOK
      <4> QED
        BY <4>1, <4>2
    <3> QED
      BY <1>0, <1>3, <3>1, <3>2, <3>3 DEF Moved
  <2>2. invoice'[p].status # "none"
    BY <2>1, InvoicesStay
  <2> QED
    BY <1>3, <2>1, <2>2 DEF PeriodOf
<1>4. CASE s # actor[b] /\ s.pc = "open"
  <2>1. s.snap = sub
    BY <1>0, <1>4 DEF Moved
  <2>2. sub.state = "active" => invoice'[sub.period].status = "paid"
    BY PaidStays DEF PeriodInv, ActiveMeansPaid, TypeOK, Subscriptions
  <2> QED
    BY <1>4, <2>1, <2>2 DEF PeriodOf, ChargePCs
<1>5. CASE s # actor[b] /\ s.pc \in {"cancel", "renew"}
  <2>1. /\ s.snap = actor[b].snap /\ actor[b].pc = "open"
        /\ actor[b].snap.state = "active" /\ actor[b].snap.period <= now
    BY <1>0, <1>5 DEF Moved, FoundNoneOpen, RenewalDue
  <2>2. invoice'[actor[b].snap.period].status = "paid"
    BY <1>0, <2>1, PaidStays DEF PeriodOf
  <2>3. actor[b].snap.period <= now'
    BY <1>0, <2>1, ClockAdvances
  <2> QED
    BY <1>5, <2>1, <2>2, <2>3 DEF PeriodOf, ChargePCs
<1>6. CASE /\ s # actor[b]
           /\ s.pc \in {"number", "gateway", "record", "paid", "dun", "demote"}
  <2>1. s.inv = actor[b].inv /\ actor[b].pc \in ChargePCs
    BY <1>0, <1>6
       DEF Moved, ChargePCs, GuardPaid, NumberAttempt, Charge, RecordAttempt, DunInvoice
  <2>2. invoice'[s.inv].status # "none"
    BY <1>0, <2>1, InvoicesStay DEF PeriodOf
  <2> QED
    BY <1>6, <2>2 DEF PeriodOf
<1>7. CASE s # actor[b] /\ s.pc = "activate"
  <2>1. s.inv = actor[b].inv /\ SettleInvoice(b)
    BY <1>0, <1>7 DEF Moved
  <2>2. invoice'[s.inv].status = "paid"
    BY <1>0, <2>1 DEF SettleInvoice, MarkPaid, TypeOK
  <2> QED
    BY <1>7, <2>2 DEF PeriodOf
<1>8. s.pc \in PCs
  BY DEF TypeOK, ActorStates
<1> QED
  BY <1>1, <1>2, <1>3, <1>4, <1>5, <1>6, <1>7, <1>8 DEF PCs

LEMMA ActiveStep ==
    ASSUME TypeOK, TypeOK', FreshInv, PeriodInv, [Next]_vars
    PROVE  ActiveMeansPaid'
<1> SUFFICES ASSUME sub'.state = "active"
             PROVE  invoice'[sub'.period].status = "paid"
  BY DEF ActiveMeansPaid
<1>0. sub \in Subscriptions /\ sub.period \in Periods
  BY DEF TypeOK, Subscriptions
<1>1. CASE sub' = sub
  BY <1>0, <1>1, PaidStays DEF PeriodInv, ActiveMeansPaid
<1>2. ASSUME NEW r \in Requests, Subscribe(r) PROVE FALSE
  BY <1>2 DEF Subscribe, NewSubscription, NoSubscription
<1>3. CASE RequestCancellation
  <2>1. sub'.state = sub.state /\ sub'.period = sub.period
    BY <1>0, <1>3 DEF RequestCancellation, Subscriptions
  <2> QED
    BY <1>0, <2>1, PaidStays DEF PeriodInv, ActiveMeansPaid
<1>4. ASSUME NEW a \in Actors, CancelAtPeriodEnd(a) \/ DemoteSubscription(a), sub' # sub
      PROVE  FALSE
  BY <1>0, <1>4 DEF CancelAtPeriodEnd, DemoteSubscription, Demoted, Subscriptions
<1>5. ASSUME NEW a \in Actors, ActivateSubscription(a), sub' # sub
      PROVE  invoice'[sub'.period].status = "paid"
  <2>1. actor[a].pc = "activate" /\ sub' = Activated(sub, actor[a].inv)
    BY <1>5 DEF ActivateSubscription
  <2>2. sub'.period = actor[a].inv /\ actor[a].inv \in Periods
    BY <1>0, <2>1 DEF Activated, Subscriptions, TypeOK, ActorStates
  <2> QED
    BY <2>1, <2>2, PaidStays DEF PeriodInv, PeriodOf
<1> QED
  BY <1>1, <1>2, <1>3, <1>4, <1>5, Writers

(* An invoice that has just been written was there, is the tenant's first, *)
(* or follows a period that is paid and over.                              *)
LEMMA OrderStep ==
    ASSUME TypeOK, TypeOK', FreshInv, PeriodInv, [Next]_vars
    PROVE  BillsInOrder'
<1> SUFFICES ASSUME NEW p \in Periods, p > 1, invoice'[p].status # "none"
             PROVE  invoice'[p - 1].status = "paid" /\ p - 1 <= now'
  BY DEF BillsInOrder
<1>0. p - 1 \in Periods /\ p \in Int
  BY BillingAssumption DEF Periods, BillingAssumption
<1>1. invoice[p - 1].status = "paid" /\ p - 1 <= now
  <2>1. CASE invoice[p].status # "none"
    BY <2>1 DEF PeriodInv, BillsInOrder
  <2>2. CASE invoice[p].status = "none"
    <3>1. ASSUME NEW a \in Actors, AddInvoice(a) PROVE FALSE
      BY <2>2, <3>1, <1>0 DEF AddInvoice, TypeOK
    <3>2. ASSUME NEW a \in Actors, SettleInvoice(a) PROVE FALSE
      <4>1. actor[a].inv = p
        BY <2>2, <3>2 DEF SettleInvoice, TypeOK
      <4> QED
        BY <2>2, <3>2, <4>1 DEF SettleInvoice, PeriodInv, PeriodOf, ChargePCs
    <3>3. ASSUME NEW a \in Actors, DunInvoice(a) PROVE FALSE
      <4>1. actor[a].inv = p
        BY <2>2, <3>3 DEF DunInvoice, TypeOK
      <4> QED
        BY <2>2, <3>3, <4>1 DEF DunInvoice, PeriodInv, PeriodOf, ChargePCs
    <3>4. ASSUME NEW a \in Actors, RenewalInvoice(a)
          PROVE  invoice[p - 1].status = "paid" /\ p - 1 <= now
      <4>1. p = actor[a].snap.period + 1
        BY <2>2, <3>4 DEF RenewalInvoice, TypeOK
      <4>2. actor[a].snap.period = p - 1
        BY <4>1, SMTT(40) DEF TypeOK, ActorStates, Subscriptions, Periods
      <4> QED
        BY <3>4, <4>2 DEF RenewalInvoice, PeriodInv, PeriodOf
    <3> QED
      BY <2>2, <3>1, <3>2, <3>3, <3>4, Writers
  <2> QED
    BY <2>1, <2>2
<1> QED
  BY <1>0, <1>1, PaidStays, ClockAdvances

LEMMA PeriodStep ==
    ASSUME TypeOK, TypeOK', FreshInv, PeriodInv, [Next]_vars
    PROVE  PeriodInv'
BY ActiveStep, OrderStep, PeriodMoves DEF PeriodInv

LEMMA PeriodInit == Init => PeriodInv
<1> SUFFICES ASSUME Init PROVE PeriodInv
  OBVIOUS
<1>1. sub.state = "none" /\ (\A p \in Periods : invoice[p].status = "none")
  BY DEF Init, NoSubscription, NoInvoice
<1>2. \A a \in Actors : actor[a].pc = "idle"
  BY DEF Init, Idle
<1> QED
  BY <1>1, <1>2 DEF PeriodInv, ActiveMeansPaid, BillsInOrder, PeriodOf, ChargePCs

(* The tenant's start and the periods it is billed for stay in order.      *)
THEOREM PeriodsHold == Spec => [](FreshInv /\ PeriodInv)
<1>1. Init => FreshInv /\ PeriodInv
  BY FreshInit, PeriodInit
<1>2. TypeOK /\ TypeOK' /\ (FreshInv /\ PeriodInv) /\ [Next]_vars
        => (FreshInv /\ PeriodInv)'
  BY FreshStep, PeriodStep
<1> QED
  BY <1>1, <1>2, TypeCorrect, PTL DEF Spec

(* A subscription is active only in a period whose invoice is paid: settle *)
(* marks the invoice before it activates the subscription, and nothing     *)
(* takes a payment back (ChargeInvoiceHandler.settle).                     *)
THEOREM ActiveIsPaid == Spec => []ActiveMeansPaid
<1>1. PeriodInv => ActiveMeansPaid
  BY DEF PeriodInv
<1> QED
  BY <1>1, PeriodsHold, PTL

(* A period is invoiced only after the one before is paid and over, also   *)
(* when the renewal works from a stale subscription (renewalInvoice).      *)
THEOREM BillsAreInOrder == Spec => []BillsInOrder
<1>1. PeriodInv => BillsInOrder
  BY DEF PeriodInv
<1> QED
  BY <1>1, PeriodsHold, PTL

-----------------------------------------------------------------------------
(* One approved charge per invoice while charges neither overlap nor lose  *)
(* an answer.                                                              *)

(* What an actor about to charge or record knows.                          *)
SerialOf(s) ==
    /\ s.pc \in {"number", "gateway", "record"} => attempts[s.inv].won = {}
    /\ s.pc \in {"gateway", "record"} => s.no = NextAttempt(s.inv)
    /\ s.pc = "record" => (s.approved <=> gateway[s.inv][s.no] = "approved")

(* An approval that is not recorded yet sits under the next attempt's key, *)
(* where a retry of the job finds it.                                      *)
KeysInv ==
    \A p \in Periods :
        /\ ChargedKeys(p) \subseteq attempts[p].won \cup {NextAttempt(p)}
        /\ \A j, k \in ChargedKeys(p) : j = k

Alone == \A a, b \in Actors : a = b \/ actor[a].pc = "idle" \/ actor[b].pc = "idle"

SerialInv ==
    ~disturbed => KeysInv /\ Alone /\ \A a \in Actors : SerialOf(actor[a])

LEMMA DisturbedStays ==
    ASSUME TypeOK, [Next]_vars, ~disturbed'
    PROVE  /\ ~disturbed
           /\ \A r \in Requests : Arrives(r) => ~Overlaps(r)
           /\ TakeJob => ~Overlaps(Worker)
<1>1. ASSUME NEW r \in Requests, Subscribe(r) PROVE ~disturbed
  BY <1>1 DEF Subscribe, Arrives
<1>2. ASSUME NEW r \in Requests, NEW p \in Periods, Settle(r, p) PROVE ~disturbed
  BY <1>2 DEF Settle, Arrives
<1>3. ASSUME RequestCancellation \/ ListDue \/ EnqueueCharge \/ Tick PROVE ~disturbed
  BY <1>3 DEF RequestCancellation, ListDue, EnqueueCharge, Tick
<1>4. ASSUME NEW a \in Actors, Charge(a) PROVE ~disturbed
  BY <1>4 DEF Charge
<1>5. ASSUME NEW a \in Actors, NEW p \in Periods, FoundOpen(a, p) PROVE ~disturbed
  BY <1>5 DEF FoundOpen
<1>6. ASSUME NEW a \in Actors, \/ AddInvoice(a) \/ LoadSubscription(a) \/ FoundNoneOpen(a)
                               \/ CancelAtPeriodEnd(a) \/ RenewalInvoice(a)
                               \/ GuardPaid(a) \/ NumberAttempt(a) \/ RecordAttempt(a)
      PROVE  ~disturbed
  BY <1>6 DEF AddInvoice, LoadSubscription, FoundNoneOpen, CancelAtPeriodEnd,
              RenewalInvoice, GuardPaid, NumberAttempt, RecordAttempt
<1>7. ASSUME NEW a \in Actors, \/ SettleInvoice(a) \/ ActivateSubscription(a)
                               \/ DunInvoice(a) \/ DemoteSubscription(a)
                               \/ Complete(a) \/ Crash(a)
      PROVE  ~disturbed
  BY <1>7 DEF SettleInvoice, ActivateSubscription, DunInvoice, DemoteSubscription,
              Complete, Crash
<1>8. TakeJob => ~disturbed /\ ~Overlaps(Worker)
  BY DEF TakeJob
<1>9. \A r \in Requests : Arrives(r) => ~Overlaps(r)
  BY DEF Arrives
<1>10. (UNCHANGED vars) => ~disturbed
  BY DEF vars
<1> QED
  BY <1>1, <1>2, <1>3, <1>4, <1>5, <1>6, <1>7, <1>8, <1>9, <1>10 DEF Next, Step

LEMMA StepBecomes ==
    ASSUME NEW a \in Actors, Step(a) \/ Crash(a)
    PROVE  actor[a].pc # "idle" /\ \E s : Becomes(a, s)
<1> USE DEF GoesTo, Errs, Finishes, ChargesInvoice
<1>1. CASE AddInvoice(a) \/ LoadSubscription(a) \/ FoundNoneOpen(a)
  BY <1>1 DEF AddInvoice, LoadSubscription, FoundNoneOpen
<1>2. ASSUME NEW p \in Periods, FoundOpen(a, p)
      PROVE  actor[a].pc # "idle" /\ \E s : Becomes(a, s)
  BY <1>2 DEF FoundOpen
<1>3. CASE CancelAtPeriodEnd(a) \/ RenewalInvoice(a) \/ GuardPaid(a) \/ NumberAttempt(a)
  BY <1>3 DEF CancelAtPeriodEnd, RenewalInvoice, GuardPaid, NumberAttempt
<1>4. CASE Charge(a) \/ RecordAttempt(a)
  BY <1>4 DEF Charge, RecordAttempt, Recorded
<1>5. CASE SettleInvoice(a) \/ ActivateSubscription(a) \/ DunInvoice(a)
           \/ DemoteSubscription(a) \/ Complete(a) \/ Crash(a)
  BY <1>5 DEF SettleInvoice, ActivateSubscription, DunInvoice, DemoteSubscription,
              Complete, Crash
<1> QED
  BY <1>1, <1>2, <1>3, <1>4, <1>5 DEF Step

LEMMA AloneStep ==
    ASSUME TypeOK, Alone, [Next]_vars, ~disturbed'
    PROVE  Alone'
<1>0. Requests \subseteq Actors /\ Worker \in Actors
  BY DEF Actors
<1>1. ASSUME NEW a \in Actors, NEW s, Becomes(a, s),
             \A b \in Actors : b = a \/ actor[b].pc = "idle"
      PROVE  Alone'
  <2>1. \A b \in Actors : b = a \/ actor'[b].pc = "idle"
    BY <1>1, BecomesAt
  <2> QED
    BY <2>1 DEF Alone
<1>2. ASSUME NEW r \in Requests, NEW p \in Periods, Subscribe(r) \/ Settle(r, p)
      PROVE  Alone'
  <2>1. ~Overlaps(r)
    BY <1>2, DisturbedStays DEF Subscribe, Settle
  <2>2. r \in Actors /\ \E s : Becomes(r, s)
    BY <1>0, <1>2 DEF Subscribe, Settle
  <2> QED
    BY <1>1, <2>1, <2>2 DEF Overlaps
<1>3. CASE TakeJob
  <2>1. ~Overlaps(Worker)
    BY <1>3, DisturbedStays
  <2>2. \E s : Becomes(Worker, s)
    BY <1>3 DEF TakeJob
  <2> QED
    BY <1>0, <1>1, <2>1, <2>2 DEF Overlaps
<1>4. ASSUME NEW a \in Actors, Step(a) \/ Crash(a) PROVE Alone'
  BY <1>1, <1>4, StepBecomes DEF Alone
<1>5. CASE RequestCancellation \/ ListDue \/ EnqueueCharge \/ Tick \/ UNCHANGED vars
  <2>1. actor' = actor
    BY <1>5 DEF RequestCancellation, ListDue, EnqueueCharge, Tick, vars
  <2> QED
    BY <2>1 DEF Alone
<1>6. 1 \in Periods
  BY BillingAssumption DEF Periods, BillingAssumption
<1> QED
  BY <1>2, <1>3, <1>4, <1>5, <1>6 DEF Next

(* A charge goes under the next attempt's key of an invoice without a      *)
(* winning attempt.                                                        *)
LEMMA KeysCharge ==
    ASSUME TypeOK, KeysInv, NEW a \in Actors, Charge(a), SerialOf(actor[a])
    PROVE  KeysInv'
<1> DEFINE q == actor[a].inv
           k == actor[a].no
<1>1. PICK answer : gateway' = [gateway EXCEPT ![q] = [gateway[q] EXCEPT ![k] = answer]]
  BY DEF Charge
<1>2. attempts' = attempts /\ attempts[q].won = {} /\ k = NextAttempt(q)
  BY DEF Charge, SerialOf
<1>3. \A p \in Periods : ChargedKeys(p)' \subseteq
                           IF p = q THEN ChargedKeys(p) \cup {k} ELSE ChargedKeys(p)
  BY <1>1 DEF ChargedKeys, TypeOK
<1>4. ChargedKeys(q) \subseteq {k} \/ q \notin Periods
  BY <1>2 DEF KeysInv
<1> QED
  BY <1>2, <1>3, <1>4 DEF KeysInv, NextAttempt

(* Recording turns the next key into a winning one, or leaves it refused.  *)
LEMMA KeysRecord ==
    ASSUME TypeOK, KeysInv, NEW a \in Actors, RecordAttempt(a), SerialOf(actor[a])
    PROVE  KeysInv'
<1> DEFINE q == actor[a].inv
           k == actor[a].no
           won == IF actor[a].approved THEN {k} ELSE {}
<1>1. q \in Periods /\ attempts[q].count \in Nat
  BY DEF TypeOK, ActorStates, AttemptLogs
<1>2. attempts[q].won = {} /\ k = attempts[q].count + 1
      /\ (actor[a].approved <=> gateway[q][k] = "approved")
  BY DEF RecordAttempt, SerialOf, NextAttempt
<1>3. gateway' = gateway /\ ~(k <= attempts[q].count)
  BY <1>1, <1>2 DEF RecordAttempt
<1>4. attempts' = [attempts EXCEPT ![q] = [count |-> k, won |-> won]]
  BY <1>2, <1>3 DEF RecordAttempt
<1>5. ChargedKeys(q) \subseteq won
  BY <1>1, <1>2 DEF KeysInv, NextAttempt, ChargedKeys
<1> HIDE DEF won
<1>6. \A p \in Periods : ChargedKeys(p)' = ChargedKeys(p)
  BY <1>3 DEF ChargedKeys
<1>7. \A p \in Periods : p # q => attempts'[p] = attempts[p]
  BY <1>4 DEF TypeOK
<1>8. attempts'[q].won = won
  BY <1>1, <1>4 DEF TypeOK
<1> QED
  BY <1>1, <1>5, <1>6, <1>7, <1>8 DEF KeysInv, NextAttempt

LEMMA KeysStep ==
    ASSUME TypeOK, KeysInv, [Next]_vars, \A a \in Actors : SerialOf(actor[a])
    PROVE  KeysInv'
<1>1. CASE gateway' = gateway /\ attempts' = attempts
  BY <1>1 DEF KeysInv, ChargedKeys, NextAttempt
<1> QED
  BY <1>1, KeysCharge, KeysRecord, Writers

LEMMA ChargeRecords ==
    ASSUME TypeOK, NEW b \in Actors
    PROVE  /\ Charge(b) => actor[b].pc = "gateway" /\ actor'[b].pc = "record"
           /\ RecordAttempt(b) => actor[b].pc = "record" /\ actor'[b].pc # "record"
<1>0. actor[b] \in ActorStates
  BY DEF TypeOK
<1>1. ASSUME Charge(b) PROVE actor'[b].pc = "record"
  <2>1. PICK x \in BOOLEAN :
          Becomes(b, [actor[b] EXCEPT !.pc = "record", !.approved = x])
    <3>1. PICK answer \in {"approved", "refused"}, lost \in BOOLEAN :
            Becomes(b, [actor[b] EXCEPT !.pc = "record",
                                   !.approved = (answer = "approved" /\ ~lost)])
      BY <1>1 DEF Charge
    <3>2. (answer = "approved" /\ ~lost) \in BOOLEAN
      OBVIOUS
    <3> QED
      BY <3>1, <3>2
  <2>2. actor'[b] = [actor[b] EXCEPT !.pc = "record", !.approved = x]
    BY <2>1, BecomesAt
  <2> QED
    BY <1>0, <2>2 DEF ActorStates
<1>2. ASSUME RecordAttempt(b) PROVE actor'[b].pc # "record"
  <2>1. CASE Errs(b) \/ Finishes(b)
    BY <2>1, Ends
  <2>2. CASE ~Errs(b) /\ ~Finishes(b)
    <3> DEFINE pc == IF actor[b].approved THEN "paid" ELSE "dun"
               s == [actor[b] EXCEPT !.pc = pc, !.no = 0, !.approved = FALSE]
    <3>1. Becomes(b, s)
      BY <1>2, <2>2 DEF RecordAttempt, Recorded
    <3>2. s.pc # "record"
      BY <1>0 DEF ActorStates
    <3> HIDE DEF s
    <3> QED
      BY <3>1, <3>2, BecomesAt
  <2> QED
    BY <2>1, <2>2
<1> QED
  BY <1>1, <1>2 DEF Charge, RecordAttempt

LEMMA SerialMoves ==
    ASSUME TypeOK, MoneyInv, Alone, [Next]_vars, ~disturbed', NEW b \in Actors,
           SerialOf(actor[b])
    PROVE  SerialOf(actor[b])'
<1> DEFINE s == actor'[b]
<1>0. actor[b] \in ActorStates /\ actor[b].inv \in Periods /\ Moved(b)
  BY Moves DEF TypeOK, ActorStates
<1>1. CASE s.pc \notin {"number", "gateway", "record"}
  BY <1>1 DEF SerialOf
<1>2. CASE s = actor[b] /\ s.pc \in {"number", "gateway", "record"}
  <2>1. ASSUME NEW a \in Actors, Charge(a) \/ RecordAttempt(a) PROVE FALSE
    <3>1. a = b
      BY <1>2, <2>1, ChargeRecords DEF Alone
    <3> QED
      BY <1>2, <2>1, <3>1, ChargeRecords
  <2>2. gateway' = gateway /\ attempts' = attempts
    BY <2>1, Writers
  <2> QED
    BY <1>2, <2>2 DEF SerialOf, NextAttempt
<1>3. CASE s # actor[b] /\ s.pc = "number"
  <2>1. GuardPaid(b) /\ s.inv = actor[b].inv /\ ~HasSucceeded(actor[b].inv)
    BY <1>0, <1>3 DEF Moved
  <2>2. attempts'[s.inv].won = {}
    BY <2>1 DEF GuardPaid, HasSucceeded
  <2> QED
    BY <1>3, <2>2 DEF SerialOf
<1>4. CASE s # actor[b] /\ s.pc = "gateway"
  <2>1. NumberAttempt(b) /\ s.inv = actor[b].inv /\ s.no = NextAttempt(actor[b].inv)
    BY <1>0, <1>4 DEF Moved
  <2>2. attempts' = attempts /\ attempts[s.inv].won = {}
    BY <2>1 DEF NumberAttempt, SerialOf
  <2> QED
    BY <1>4, <2>1, <2>2 DEF SerialOf, NextAttempt
<1>5. CASE s # actor[b] /\ s.pc = "record"
  <2>1. Charge(b) /\ s.no = actor[b].no /\ s.inv = actor[b].inv
    BY <1>0, <1>5 DEF Moved
  <2>2. /\ attempts' = attempts /\ attempts[s.inv].won = {}
        /\ s.no = NextAttempt(s.inv)
    BY <2>1 DEF Charge, SerialOf
  <2>3. s.approved <=> gateway'[s.inv][s.no] = "approved"
    <3>1. PICK answer \in {"approved", "refused"}, lost \in BOOLEAN :
            /\ gateway' = [gateway EXCEPT ![actor[b].inv] =
                  [gateway[actor[b].inv] EXCEPT ![actor[b].no] = answer]]
            /\ disturbed' = (disturbed \/ lost)
            /\ Becomes(b, [actor[b] EXCEPT !.pc = "record",
                                   !.approved = (answer = "approved" /\ ~lost)])
      BY <2>1 DEF Charge
    <3>2. ~lost
      BY <3>1
    <3>3. s = [actor[b] EXCEPT !.pc = "record",
                               !.approved = (answer = "approved" /\ ~lost)]
      BY <3>1, BecomesAt
    <3>4. s.approved <=> answer = "approved"
      BY <1>0, <3>2, <3>3 DEF ActorStates
    <3>5. actor[b].no \in Keys
      BY <2>1 DEF Charge, MoneyInv, MoneyOf
    <3>6. gateway'[s.inv][s.no] = answer
      BY <1>0, <2>1, <3>1, <3>5 DEF TypeOK
    <3> QED
      BY <3>4, <3>6
  <2> QED
    BY <1>5, <2>2, <2>3 DEF SerialOf, NextAttempt
<1> QED
  BY <1>1, <1>2, <1>3, <1>4, <1>5

LEMMA SerialStep ==
    ASSUME TypeOK, MoneyInv, SerialInv, [Next]_vars
    PROVE  SerialInv'
<1> SUFFICES ASSUME ~disturbed'
             PROVE  (KeysInv /\ Alone /\ \A a \in Actors : SerialOf(actor[a]))'
  BY DEF SerialInv
<1>1. KeysInv /\ Alone /\ \A a \in Actors : SerialOf(actor[a])
  BY DisturbedStays DEF SerialInv
<1> QED
  BY <1>1, KeysStep, AloneStep, SerialMoves

LEMMA SerialInit == Init => SerialInv
<1> SUFFICES ASSUME Init PROVE SerialInv
  OBVIOUS
<1>1. \A p \in Periods : ChargedKeys(p) = {}
  BY DEF Init, ChargedKeys
<1>2. \A a \in Actors : actor[a].pc = "idle"
  BY DEF Init, Idle
<1> QED
  BY <1>1, <1>2 DEF SerialInv, KeysInv, Alone, SerialOf

(* An invoice is charged at most once, through crashes of the worker and   *)
(* retries of its job, as long as charges do not overlap and the gateway's *)
(* answers arrive: an attempt that was charged and not recorded is retried *)
(* under the same idempotency key (chargeInvoice, research R5).            *)
THEOREM ChargesOnce == Spec => []ChargedOnceUndisturbed
<1>1. Init => SerialInv
  BY SerialInit
<1>2. TypeOK /\ MoneyInv /\ SerialInv /\ [Next]_vars => SerialInv'
  BY SerialStep
<1>3. SerialInv => ChargedOnceUndisturbed
  BY DEF SerialInv, KeysInv, ChargedOnceUndisturbed
<1> QED
  BY <1>1, <1>2, <1>3, TypeCorrect, MoneyHolds, PTL DEF Spec

-----------------------------------------------------------------------------
(* Billing implements PaidService.                                         *)

LEMMA ServiceInit == Init => Service!Init
<1> SUFFICES ASSUME Init PROVE Service!Init
  OBVIOUS
<1>1. \A p \in Periods : invoice[p].status = "none"
  BY DEF Init, NoInvoice
<1>2. \A p \in Periods, k \in Keys : gateway[p][k] = "unused"
  BY DEF Init
<1>3. Billed = {} /\ Paid = {} /\ Charged = {}
  BY <1>1, <1>2 DEF Billed, Paid, Charged, ChargedKeys
<1>4. Served = {} /\ now = 0
  BY DEF Init, Served, NoSubscription
<1> QED
  BY <1>3, <1>4 DEF Service!Init

(* Which of the abstract variables a step can move.                        *)
LEMMA GatewaySame == ASSUME gateway' = gateway PROVE Charged' = Charged
  BY DEF Charged, ChargedKeys

LEMMA InvoiceSame == ASSUME invoice' = invoice PROVE Billed' = Billed /\ Paid' = Paid
  BY DEF Billed, Paid

LEMMA ServedSame == ASSUME sub'.state = sub.state, sub'.period = sub.period PROVE Served' = Served
  BY DEF Served

(* An invoice is added for a period that has none.                         *)
LEMMA BillStep ==
    ASSUME TypeOK, NEW p \in Periods, invoice[p].status = "none",
           invoice' = [invoice EXCEPT ![p] = NewInvoice],
           p > 1 => p - 1 \in Paid /\ p - 1 <= now,
           UNCHANGED <<gateway, sub, now>>
    PROVE  Service!Bill(p)
<1>1. NewInvoice.status = "open"
  BY DEF NewInvoice, NoInvoice
<1>2. \A q \in Periods : invoice'[q] = IF q = p THEN NewInvoice ELSE invoice[q]
  BY DEF TypeOK
<1>3. Billed' = Billed \cup {p} /\ p \notin Billed
  BY <1>1, <1>2 DEF Billed
<1>4. Paid' = Paid
  BY <1>1, <1>2 DEF Paid
<1> QED
  BY <1>3, <1>4, GatewaySame, ServedSame DEF Service!Bill

LEMMA ServiceAddInvoice ==
    ASSUME TypeOK, FreshInv, NEW a \in Actors, AddInvoice(a)
    PROVE  Service!Bill(1)
<1>1. 1 \in Periods /\ ~(1 > 1)
  BY BillingAssumption DEF Periods, BillingAssumption
<1>2. invoice[1].status = "none"
  BY DEF AddInvoice, FreshInv
<1> QED
  BY <1>1, <1>2, BillStep DEF AddInvoice

LEMMA ServiceRenewal ==
    ASSUME TypeOK, PeriodInv, NEW a \in Actors, RenewalInvoice(a)
    PROVE  Service!Bill(actor[a].snap.period + 1) \/ UNCHANGED Service!vars
<1> DEFINE p == actor[a].snap.period + 1
<1>1. actor[a].snap.period \in Periods
  BY DEF TypeOK, ActorStates, Subscriptions
<1>2. p \in Periods /\ p - 1 = actor[a].snap.period
  BY <1>1, BillingAssumption DEF RenewalInvoice, Periods
<1>3. invoice[p - 1].status = "paid" /\ p - 1 <= now
  BY <1>2 DEF RenewalInvoice, PeriodInv, PeriodOf
<1>4. UNCHANGED <<gateway, sub, now>>
  BY DEF RenewalInvoice
<1>5. CASE invoice[p].status = "none"
  <2>1. invoice' = [invoice EXCEPT ![p] = NewInvoice]
    BY <1>5 DEF RenewalInvoice
  <2>2. p - 1 \in Paid
    BY <1>1, <1>2, <1>3 DEF Paid
  <2> HIDE DEF p
  <2> QED
    BY <1>2, <1>3, <1>4, <1>5, <2>1, <2>2, BillStep DEF p
<1>6. CASE invoice[p].status # "none"
  <2>1. invoice' = invoice
    BY <1>2, <1>6 DEF RenewalInvoice, TypeOK
  <2> QED
    BY <1>4, <2>1, GatewaySame, InvoiceSame, ServedSame DEF Service!vars
<1> QED
  BY <1>5, <1>6

(* The gateway takes money for an invoice only.                            *)
LEMMA ServiceCharge ==
    ASSUME TypeOK, MoneyInv, PeriodInv, NEW a \in Actors, Charge(a)
    PROVE  Service!Take(actor[a].inv) \/ UNCHANGED Service!vars
<1> DEFINE p == actor[a].inv
           k == actor[a].no
<1>1. p \in Periods /\ k \in Keys
  BY DEF TypeOK, ActorStates, Charge, MoneyInv, MoneyOf
<1>2. p \in Billed
  BY <1>1 DEF Charge, PeriodInv, PeriodOf, ChargePCs, Billed
<1>3. PICK answer \in {"approved", "refused"} :
         /\ gateway[p][k] \in {"unused", answer}
         /\ gateway' = [gateway EXCEPT ![p] = [gateway[p] EXCEPT ![k] = answer]]
  BY DEF Charge
<1>4. UNCHANGED <<invoice, sub, now>>
  BY DEF Charge
<1>5. \A q \in Periods, j \in Keys : gateway'[q][j] = IF q = p /\ j = k THEN answer ELSE gateway[q][j]
  BY <1>1, <1>3 DEF TypeOK
<1>6. CASE answer = "approved"
  <2>1. \A q \in Periods : ChargedKeys(q)' = IF q = p THEN ChargedKeys(q) \cup {k} ELSE ChargedKeys(q)
    BY <1>1, <1>5, <1>6 DEF ChargedKeys
  <2>2. \A q \in Periods : ChargedKeys(q)' # {} <=> q = p \/ ChargedKeys(q) # {}
    BY <2>1
  <2>3. Charged' = Charged \cup {p}
    BY <1>1, <2>2 DEF Charged
  <2> QED
    BY <1>2, <1>4, <2>3, InvoiceSame, ServedSame DEF Service!Take
<1>7. CASE answer = "refused"
  <2>1. \A q \in Periods, j \in Keys : gateway'[q][j] = "approved" <=> gateway[q][j] = "approved"
    BY <1>3, <1>5, <1>7
  <2>2. \A q \in Periods : ChargedKeys(q)' = ChargedKeys(q)
    BY <2>1 DEF ChargedKeys
  <2>3. Charged' = Charged
    BY <2>2 DEF Charged
  <2> QED
    BY <1>4, <2>3, InvoiceSame, ServedSame DEF Service!vars
<1> QED
  BY <1>6, <1>7

LEMMA ServiceSettle ==
    ASSUME TypeOK, MoneyInv, PeriodInv, NEW a \in Actors, SettleInvoice(a)
    PROVE  Service!Settle(actor[a].inv)
<1> DEFINE p == actor[a].inv
<1>1. p \in Periods /\ UNCHANGED <<gateway, sub, now>>
  BY DEF TypeOK, ActorStates, SettleInvoice
<1>2. p \in Charged /\ invoice[p].status # "none"
  BY <1>1 DEF SettleInvoice, MoneyInv, MoneyOf, PeriodInv, PeriodOf, ChargePCs, Charged
<1>3. MarkPaid(invoice[p]).status = "paid"
  BY DEF MarkPaid
<1>4. \A q \in Periods : invoice'[q] = IF q = p THEN MarkPaid(invoice[p]) ELSE invoice[q]
  BY DEF SettleInvoice, TypeOK
<1>5. Billed' = Billed /\ Paid' = Paid \cup {p}
  BY <1>1, <1>2, <1>3, <1>4 DEF Billed, Paid
<1> QED
  BY <1>1, <1>2, <1>5, GatewaySame, ServedSame DEF Service!Settle

(* Dunning neither takes a payment back nor makes a bill.                  *)
LEMMA ServiceDun ==
    ASSUME TypeOK, PeriodInv, NEW a \in Actors, DunInvoice(a)
    PROVE  UNCHANGED Service!vars
<1> DEFINE p == actor[a].inv
           i == invoice[p]
<1>1. p \in Periods /\ UNCHANGED <<gateway, sub, now>>
  BY DEF TypeOK, ActorStates, DunInvoice
<1>2. i.status # "none"
  BY DEF DunInvoice, PeriodInv, PeriodOf, ChargePCs
<1>3. CASE invoice' = invoice
  BY <1>1, <1>3, GatewaySame, InvoiceSame, ServedSame DEF Service!vars
<1>4. CASE invoice' # invoice
  <2>1. ~(Exhausts(i) /\ i.status # "open") /\ invoice' = [invoice EXCEPT ![p] = Dunned(i)]
    BY <1>4 DEF DunInvoice
  <2>2. Dunned(i).status = IF Exhausts(i) THEN "uncollectible" ELSE i.status
    BY DEF Dunned
  <2>3. \A q \in Periods : invoice'[q] = IF q = p THEN Dunned(i) ELSE invoice[q]
    BY <2>1 DEF TypeOK
  <2>4. Billed' = Billed /\ Paid' = Paid
    BY <1>2, <2>1, <2>2, <2>3 DEF Billed, Paid
  <2> QED
    BY <1>1, <2>4, GatewaySame, ServedSame DEF Service!vars
<1> QED
  BY <1>3, <1>4

(* Service is given for the invoice that was settled, and withdrawn.       *)
LEMMA ServiceMoves ==
    ASSUME TypeOK, PeriodInv, NEW a \in Actors,
           CancelAtPeriodEnd(a) \/ ActivateSubscription(a) \/ DemoteSubscription(a)
    PROVE  Service!Serve(actor[a].inv) \/ Service!Withdraw \/ UNCHANGED Service!vars
<1>1. UNCHANGED <<invoice, gateway, now>>
  BY DEF CancelAtPeriodEnd, ActivateSubscription, DemoteSubscription
<1>2. Billed' = Billed /\ Paid' = Paid /\ Charged' = Charged
  BY <1>1, GatewaySame, InvoiceSame
<1>3. CASE sub' = sub
  BY <1>1, <1>2, <1>3, ServedSame DEF Service!vars
<1>4. CASE ActivateSubscription(a) /\ sub' # sub
  <2>1. sub' = Activated(sub, actor[a].inv) /\ actor[a].inv \in Paid
    BY <1>4 DEF ActivateSubscription, PeriodInv, PeriodOf, Paid, TypeOK, ActorStates
  <2>2. sub'.state = "active" /\ sub'.period = actor[a].inv
    BY <2>1 DEF Activated, TypeOK, Subscriptions
  <2> QED
    BY <1>1, <1>2, <2>1, <2>2 DEF Service!Serve, Served
<1>5. CASE (CancelAtPeriodEnd(a) \/ DemoteSubscription(a)) /\ sub' # sub
  <2>1. sub'.state # "active"
    BY <1>5 DEF CancelAtPeriodEnd, DemoteSubscription, Demoted, TypeOK, Subscriptions
  <2> QED
    BY <1>1, <1>2, <2>1 DEF Service!Withdraw, Served
<1> QED
  BY <1>3, <1>4, <1>5

LEMMA ServiceStutters ==
    ASSUME UNCHANGED <<invoice, gateway, now>>, sub'.state = sub.state, sub'.period = sub.period
    PROVE  UNCHANGED Service!vars
  BY GatewaySame, InvoiceSame, ServedSame DEF Service!vars

LEMMA ServiceStep ==
    ASSUME TypeOK, MoneyInv, FreshInv, PeriodInv, [Next]_vars
    PROVE  [Service!Next]_(Service!vars)
<1>1. \A a \in Actors : actor[a].inv \in Periods
  BY DEF TypeOK, ActorStates
<1>2. ASSUME NEW r \in Requests, Subscribe(r) PROVE UNCHANGED Service!vars
  <2>1. sub.state = "none" /\ sub'.state = "pending" /\ UNCHANGED <<invoice, gateway, now>>
    BY <1>2 DEF Subscribe, NewSubscription, NoSubscription
  <2>2. Served' = Served
    BY <2>1 DEF Served
  <2> QED
    BY <2>1, <2>2, GatewaySame, InvoiceSame DEF Service!vars
<1>3. ASSUME NEW r \in Requests, NEW p \in Periods, Settle(r, p) PROVE UNCHANGED Service!vars
  BY <1>3, ServiceStutters DEF Settle
<1>4. CASE RequestCancellation
  BY <1>4, ServiceStutters DEF RequestCancellation, TypeOK, Subscriptions
<1>5. CASE ListDue \/ EnqueueCharge \/ TakeJob \/ UNCHANGED vars
  BY <1>5, ServiceStutters DEF ListDue, EnqueueCharge, TakeJob, vars
<1>6. CASE Tick
  <2>1. UNCHANGED <<invoice, gateway, sub>> /\ now' = now + 1
    BY <1>6 DEF Tick
  <2>2. Service!Tick
    BY <2>1, GatewaySame, InvoiceSame, ServedSame DEF Service!Tick
  <2> QED
    BY <2>2 DEF Service!Next
<1>7. ASSUME NEW a \in Actors, AddInvoice(a) PROVE Service!Next
  <2>1. 1 \in Periods /\ Service!Bill(1)
    BY <1>7, ServiceAddInvoice, BillingAssumption DEF Periods
  <2> QED
    BY <2>1 DEF Service!Next
<1>8. ASSUME NEW a \in Actors, RenewalInvoice(a) PROVE [Service!Next]_(Service!vars)
  <2>1. actor[a].snap.period + 1 \in Periods
    BY <1>8, BillingAssumption DEF RenewalInvoice, TypeOK, ActorStates, Subscriptions, Periods
  <2> QED
    BY <1>8, <2>1, ServiceRenewal DEF Service!Next
<1>9. ASSUME NEW a \in Actors, Charge(a) PROVE [Service!Next]_(Service!vars)
  BY <1>1, <1>9, ServiceCharge DEF Service!Next
<1>10. ASSUME NEW a \in Actors, SettleInvoice(a) PROVE Service!Next
  BY <1>1, <1>10, ServiceSettle DEF Service!Next
<1>11. ASSUME NEW a \in Actors, DunInvoice(a) PROVE UNCHANGED Service!vars
  BY <1>11, ServiceDun
<1>12. ASSUME NEW a \in Actors, CancelAtPeriodEnd(a) \/ ActivateSubscription(a) \/ DemoteSubscription(a)
       PROVE  [Service!Next]_(Service!vars)
  BY <1>1, <1>12, ServiceMoves DEF Service!Next
<1>13. ASSUME NEW a \in Actors, NEW p \in Periods, FoundOpen(a, p) PROVE UNCHANGED Service!vars
  BY <1>13, ServiceStutters DEF FoundOpen
<1>14. ASSUME NEW a \in Actors,
              \/ LoadSubscription(a) \/ FoundNoneOpen(a) \/ GuardPaid(a) \/ NumberAttempt(a)
              \/ RecordAttempt(a) \/ Complete(a) \/ Crash(a)
       PROVE  UNCHANGED Service!vars
  BY <1>14, ServiceStutters
     DEF LoadSubscription, FoundNoneOpen, GuardPaid, NumberAttempt, RecordAttempt, Complete, Crash
<1> QED
  BY <1>2, <1>3, <1>4, <1>5, <1>6, <1>7, <1>8, <1>9, <1>10, <1>11, <1>12, <1>13, <1>14 DEF Next, Step

(* What the tenant is billed, charged and served is what PaidService       *)
(* promises: a payment is never taken back, by no stale dunning either,    *)
(* and money is taken and service given in this order only.                *)
THEOREM BillingServesWhatIsPaid == Spec => ServesWhatIsPaid
<1>1. Init => Service!Init
  BY ServiceInit
<1>2. TypeOK /\ MoneyInv /\ (FreshInv /\ PeriodInv) /\ [Next]_vars => [Service!Next]_(Service!vars)
  BY ServiceStep
<1> QED
  BY <1>1, <1>2, TypeCorrect, MoneyHolds, PeriodsHold, PTL DEF Spec, ServesWhatIsPaid, Service!Spec
=============================================================================
