------------------------------- MODULE Usage --------------------------------
(***************************************************************************)
(* The metering of one tenant's sends and the quota that rests on it: the  *)
(* quota gate and the usage recorder that the send paths call              *)
(* (internal/billing/adapters/quota_gate.go, usage_recorder.go), the       *)
(* usage_events and usage_counters tables (usage_pg.go), the usage.rollup  *)
(* job (app/command/rollup.go), the transactional send                     *)
(* (internal/campaign/app/command/transactional.go), and of a campaign     *)
(* send what touches them (start_worker.go, batch_worker.go), whose inner  *)
(* steps CampaignSend has.  The subscription moves as Billing moves it.    *)
(*                                                                         *)
(* Every repository call is a transaction of its own and one action here,  *)
(* except the rollup's, which runs at READ COMMITTED: each of its          *)
(* statements sees what is committed when it starts, so its SELECT is one  *)
(* action and the rest of it, invisible until the commit, another.         *)
(*                                                                         *)
(* A campaign is named by its roster, a set of recipients; a batch holds   *)
(* one recipient.  A send is identified by its source_ref.  The two event  *)
(* types, which are counted and summed alike, and the split of a total     *)
(* into included and overage quantities are left out, and an operator's    *)
(* cancellation, which is to the meter a pause that is never resumed.      *)
(***************************************************************************)
EXTENDS Integers, FiniteSets

CONSTANTS
    Campaigns,     \* the tenant's campaigns: disjoint sets of recipients
    Messages,      \* the tenant's transactional sends
    Allowance,     \* Plan.IncludedSends
    Metered,       \* Plan.OverageMode is meter, else block
    Lapses,        \* how service may end: suspended, canceled or both
    MaxPeriods,    \* bound: billing periods
    MaxResumes,    \* bound: resumes of a campaign
    MaxFaults      \* bound: crashes and dropped errors in a behaviour

Recipients == UNION Campaigns
Refs == Recipients \cup Messages
Periods == 1 .. MaxPeriods

ASSUME UsageAssumption ==
    /\ IsFiniteSet(Recipients)
    /\ IsFiniteSet(Messages)
    /\ Recipients \cap Messages = {}
    /\ Campaigns \cap Refs = {}
    /\ \A c, d \in Campaigns : c # d => c \cap d = {}
    /\ Allowance \in Nat
    /\ Metered \in BOOLEAN
    /\ Lapses \in SUBSET {"suspended", "canceled"}
    /\ MaxPeriods \in Nat \ {0}
    /\ MaxResumes \in Nat
    /\ MaxFaults \in Nat

VARIABLES
    sub,         \* the tenant_subscriptions row
    campaign,    \* status of each campaign
    start,       \* campaign.start jobs: how many wait, and what the worker does
    send,        \* how far each send is
    seen,        \* the subscription that a send or a start job has read
    event,       \* the usage_events row of each send
    counter,     \* the usage_counters row of each period
    rollup,      \* what the usage.rollup job is doing
    sentIn,      \* history: the period in which a send was accepted, 0 if never
    refused,     \* history: campaigns that the quota gate has cancelled
    restarted,   \* history: campaigns whose start job ran more than once
    overlapped,  \* history: two of the campaigns and messages overlapped
    resumes,     \* resumes so far (bounded)
    faults       \* crashes and dropped errors so far (bounded)

vars == <<sub, campaign, start, send, seen, event, counter, rollup, sentIn,
          refused, restarted, overlapped, resumes, faults>>

queues == <<campaign, start>>
sends == <<send, seen, sentIn>>
meters == <<event, counter, rollup>>
history == <<refused, restarted, overlapped, resumes>>

-----------------------------------------------------------------------------
(* Data.  An event that was stamped is either counted or, as a history of  *)
(* the model, missed: both have rolled_up_at set.                          *)

(* To the gate a past_due subscription is as good as an active one, and a  *)
(* pending one no better than a suspended one.                             *)
SubscriptionStates == {"active", "suspended", "canceled"}
CampaignStatuses == {"draft", "running", "paused", "finished", "cancelled"}
SendStates == {"new", "queued", "gate", "allowed", "accepted", "recording", "done"}
EventStates == {"none", "raw", "counted", "missed"}

Subscriptions == [state : SubscriptionStates, period : Periods]
Starts == [waiting : Nat, deciding : BOOLEAN]
Events == [state : EventStates, period : Periods]
Counters == [Periods -> Nat]
Rollups == [pc : {"idle", "summed"}, sums : Counters, picked : SUBSET Refs]

NewSubscription == [state |-> "suspended", period |-> 1]
NoStart == [waiting |-> 0, deciding |-> FALSE]
NoEvent == [state |-> "none", period |-> 1]
NoCounters == [p \in Periods |-> 0]
IdleRollup == [pc |-> "idle", sums |-> NoCounters, picked |-> {}]

-----------------------------------------------------------------------------
(* Queries.                                                                *)

EventsOf(p) == {r \in Refs : event[r].state # "none" /\ event[r].period = p}
Raw == {r \in Refs : event[r].state = "raw"}
RawOf(p) == {r \in Refs : event[r].state = "raw" /\ event[r].period = p}

(* Usage.CurrentUsage: the counters and the tail not yet rolled up, in one *)
(* statement.                                                              *)
CurrentUsage(p) == counter[p] + Cardinality(RawOf(p))

Found(s) == s.state # "canceled"

AuthorizesOneMore(s, units) ==
    s.state = "active" /\ (Metered \/ CurrentUsage(s.period) < Allowance)

(* QuotaGate.Authorize, on the subscription it has read.                   *)
Authorizes(s, units) ==
    /\ s.state = "active"
    /\ Metered \/ CurrentUsage(s.period) + units <= Allowance

(* A campaign or a message is on its way through the gate or the provider. *)
Sending(r) == send[r] \notin {"new", "done"}
UnderWay(c) ==
    campaign[c] = "running" \/ start[c].waiting > 0 \/ start[c].deciding
        \/ \E r \in c : Sending(r)
OverlapsMessage(m) ==
    (\E c \in Campaigns : UnderWay(c)) \/ \E n \in Messages \ {m} : Sending(n)
OverlapsCampaign(c) ==
    (\E d \in Campaigns \ {c} : UnderWay(d)) \/ \E m \in Messages : Sending(m)

-----------------------------------------------------------------------------
Init ==
    /\ sub = NewSubscription
    /\ campaign = [c \in Campaigns |-> "draft"]
    /\ start = [c \in Campaigns |-> NoStart]
    /\ send = [r \in Refs |-> "new"]
    /\ seen = [x \in Refs \cup Campaigns |-> NewSubscription]
    /\ event = [r \in Refs |-> NoEvent]
    /\ counter = NoCounters
    /\ rollup = IdleRollup
    /\ sentIn = [r \in Refs |-> 0]
    /\ refused = {}
    /\ restarted = {}
    /\ overlapped = FALSE
    /\ resumes = 0
    /\ faults = 0

-----------------------------------------------------------------------------
(* The subscription, as far as the gate and the recorder can tell: settle  *)
(* activates it in its own period or the next one, dunning suspends it,    *)
(* and a cancellation ends it.                                             *)
Activate ==
    /\ Found(sub)
    /\ \E p \in Periods \cap {sub.period, sub.period + 1} :
         sub' = [state |-> "active", period |-> p]

Lapse(state) == Found(sub) /\ sub' = [sub EXCEPT !.state = state]

Subscription ==
    /\ Activate \/ \E state \in Lapses : Lapse(state)
    /\ UNCHANGED <<queues, sends, meters, history, faults>>

-----------------------------------------------------------------------------
(* Campaigns: the operators' requests and the start job.                   *)

Reads(x) == seen' = [seen EXCEPT ![x] = sub]
ReadsPeriod(x) == seen' = [seen EXCEPT ![x] = [NewSubscription EXCEPT !.period = sub.period]]
Forgets(x) == seen' = [seen EXCEPT ![x] = NewSubscription]

EnqueueStart(c) ==
    start' = [start EXCEPT ![c] = [waiting |-> start[c].waiting + 1,
                                   deciding |-> start[c].deciding]]

StartCampaign(c) ==
    /\ campaign[c] = "draft"
    /\ campaign' = [campaign EXCEPT ![c] = "running"]
    /\ EnqueueStart(c)
    /\ overlapped' = (overlapped \/ OverlapsCampaign(c))
    /\ UNCHANGED <<sub, sends, meters, refused, restarted, resumes, faults>>

PauseCampaign(c) ==
    /\ campaign[c] = "running"
    /\ campaign' = [campaign EXCEPT ![c] = "paused"]
    /\ UNCHANGED <<sub, start, sends, meters, history, faults>>

ResumeCampaign(c) ==
    /\ campaign[c] = "paused"
    /\ resumes < MaxResumes
    /\ resumes' = resumes + 1
    /\ campaign' = [campaign EXCEPT ![c] = "running"]
    /\ EnqueueStart(c)
    /\ restarted' = restarted \cup {c}
    /\ overlapped' = (overlapped \/ OverlapsCampaign(c))
    /\ UNCHANGED <<sub, sends, meters, refused, faults>>

TakesStart(c) ==
    /\ start[c].waiting > 0
    /\ ~start[c].deciding
    /\ start' = [start EXCEPT ![c] = [waiting |-> start[c].waiting - 1,
                                      deciding |-> campaign[c] = "running"]]

(* StartWorker.Work of a campaign that is no longer running.               *)
SkipStart(c) ==
    /\ campaign[c] # "running"
    /\ TakesStart(c)
    /\ UNCHANGED <<sub, campaign, sends, meters, history, faults>>

BeginStartFanningOut(c) ==
    /\ campaign[c] = "running"
    /\ TakesStart(c)
    /\ Reads(c)
    /\ send' = [r \in Refs |-> IF r \in c /\ send[r] = "new" THEN "queued" ELSE send[r]]
    /\ UNCHANGED <<sub, campaign, sentIn, meters, history, faults>>

(* ... of a running one: Authorize reads the subscription ...              *)
BeginStart(c) ==
    /\ campaign[c] = "running"
    /\ TakesStart(c)
    /\ Reads(c)
    /\ UNCHANGED <<sub, campaign, send, sentIn, meters, history, faults>>

Decided(c) ==
    /\ start' = [start EXCEPT ![c] = [waiting |-> start[c].waiting, deciding |-> FALSE]]
    /\ Forgets(c)

(* ... and then the usage.  A campaign that does not fit is cancelled.     *)
RefuseCampaign(c) ==
    /\ start[c].deciding
    /\ ~Authorizes(seen[c], Cardinality(c))
    /\ Decided(c)
    /\ campaign' = [campaign EXCEPT ![c] = IF campaign[c] = "running" THEN "cancelled"
                                           ELSE campaign[c]]
    /\ refused' = IF campaign[c] = "running" THEN refused \cup {c} ELSE refused
    /\ UNCHANGED <<sub, send, sentIn, meters, restarted, overlapped, resumes, faults>>

(* One that fits is fanned out: a batch for each recipient left.           *)
FanOut(c) ==
    /\ start[c].deciding
    /\ Authorizes(seen[c], Cardinality(c))
    /\ Decided(c)
    /\ send' = [r \in Refs |-> IF r \in c /\ send[r] = "new" THEN "queued" ELSE send[r]]
    /\ UNCHANGED <<sub, campaign, sentIn, meters, history, faults>>

(* The start job fails and River runs it again.                            *)
StartFails(c) ==
    /\ start[c].deciding
    /\ faults < MaxFaults
    /\ faults' = faults + 1
    /\ start' = [start EXCEPT ![c] = [waiting |-> start[c].waiting + 1, deciding |-> FALSE]]
    /\ Forgets(c)
    /\ restarted' = restarted \cup {c}
    /\ UNCHANGED <<sub, campaign, send, sentIn, meters, refused, overlapped, resumes>>

-----------------------------------------------------------------------------
(* The sends.                                                              *)

Goes(r, state) == send' = [send EXCEPT ![r] = state]

(* BatchWorker.Work of a campaign that is no longer running: the recipient *)
(* stays pending and has no batch any more.                                *)
SkipBatch(c, r) ==
    /\ r \in c
    /\ campaign[c] # "running"
    /\ send[r] = "queued"
    /\ Goes(r, "new")
    /\ UNCHANGED <<sub, queues, seen, sentIn, meters, history, faults>>

(* The batch reaches Messenger.Send, which accepts the message.            *)
SendBatch(c, r) ==
    /\ r \in c
    /\ campaign[c] = "running"
    /\ send[r] = "queued"
    /\ Goes(r, "accepted")
    /\ sentIn' = [sentIn EXCEPT ![r] = sub.period]
    /\ UNCHANGED <<sub, queues, seen, meters, history, faults>>

(* SendTransactionalHandler.Handle: its checks, and Authorize reads the    *)
(* subscription ...                                                        *)
RequestMessage(m) ==
    /\ send[m] = "new"
    /\ Goes(m, "gate")
    /\ Reads(m)
    /\ overlapped' = (overlapped \/ OverlapsMessage(m))
    /\ UNCHANGED <<sub, queues, sentIn, meters, refused, restarted, resumes, faults>>

(* ... and then the usage.                                                 *)
AuthorizeMessage(m) ==
    /\ send[m] = "gate"
    /\ Goes(m, IF Authorizes(seen[m], 1) THEN "allowed" ELSE "done")
    /\ Forgets(m)
    /\ UNCHANGED <<sub, queues, sentIn, meters, history, faults>>

(* The limiter admits the message and the provider accepts it.             *)
SendMessage(m) ==
    /\ send[m] = "allowed"
    /\ Goes(m, "accepted")
    /\ sentIn' = [sentIn EXCEPT ![m] = sub.period]
    /\ UNCHANGED <<sub, queues, seen, meters, history, faults>>

Finished(c, r) == \A s \in c \ {r} : send[s] \notin {"new", "queued"}

(* syncProgress, which ends a recipient's batch, finishes the campaign     *)
(* when no recipient is pending.                                           *)
Progress(r) ==
    campaign' = [c \in Campaigns |->
        IF r \in c /\ campaign[c] = "running" /\ Finished(c, r) THEN "finished"
        ELSE campaign[c]]

(* The limiter or the provider refuses the send.                           *)
SendRejected(r) ==
    /\ \/ send[r] = "allowed"
       \/ send[r] = "queued" /\ \A c \in Campaigns : r \in c => campaign[c] = "running"
    /\ Goes(r, "done")
    /\ Progress(r)
    /\ UNCHANGED <<sub, start, seen, sentIn, meters, history, faults>>

(* UsageRecorder.Record: the subscription; without one it does not meter.  *)
RecordUsage(r) ==
    /\ send[r] = "accepted"
    /\ IF Found(sub)
       THEN Goes(r, "recording") /\ ReadsPeriod(r) /\ UNCHANGED campaign
       ELSE Goes(r, "done") /\ Progress(r) /\ UNCHANGED seen
    /\ UNCHANGED <<sub, start, sentIn, meters, history, faults>>

RecordedAtEnd(r) == [state |-> "raw", period |-> seen[r].period + 1]
Recorded(r) == [state |-> "raw", period |-> seen[r].period]

(* Usage.RecordEvents: ON CONFLICT (event_type, source_ref) DO NOTHING.    *)
RecordEvents(r) ==
    /\ send[r] = "recording"
    /\ event' = IF event[r].state = "none" THEN [event EXCEPT ![r] = Recorded(r)] ELSE event
    /\ Goes(r, "done")
    /\ Forgets(r)
    /\ Progress(r)
    /\ UNCHANGED <<sub, start, sentIn, counter, rollup, history, faults>>

(* A process dies after the provider's acceptance, or the recorder's error *)
(* is dropped: the send is not metered.                                    *)
UsageLost(r) ==
    /\ send[r] \in {"accepted", "recording"}
    /\ faults < MaxFaults
    /\ faults' = faults + 1
    /\ Goes(r, "done")
    /\ Forgets(r)
    /\ Progress(r)
    /\ UNCHANGED <<sub, start, sentIn, meters, history>>

-----------------------------------------------------------------------------
(* usage.rollup.                                                           *)

(* The scheduler keeps enqueuing the job, which is unique.  Usage.Rollup:  *)
(* the SELECT of the sums ...                                              *)
SumEvents ==
    /\ rollup.pc = "idle"
    /\ rollup' = [pc |-> "summed", sums |-> [p \in Periods |-> Cardinality(RawOf(p))],
                  picked |-> Raw]
    /\ UNCHANGED <<sub, queues, sends, event, counter, history, faults>>

UnstampedRaw(r) == event[r]

(* A stamped event: the UPDATE takes every event without a stamp, also one *)
(* that was recorded after the sums were read.                             *)
Stamped(r) ==
    IF event[r].state # "raw" THEN event[r]
    ELSE [state |-> IF r \in rollup.picked THEN "counted" ELSE "missed",
          period |-> event[r].period]

UpsertedOver(p) == rollup.sums[p]
Upserted(p) == counter[p] + rollup.sums[p]

(* ... the upserts of the counters, the stamps and the commit.             *)
CommitRollup ==
    /\ rollup.pc = "summed"
    /\ counter' = [p \in Periods |-> Upserted(p)]
    /\ event' = [r \in Refs |-> Stamped(r)]
    /\ rollup' = IdleRollup
    /\ UNCHANGED <<sub, queues, sends, history, faults>>

(* The transaction is rolled back and River runs the job again.            *)
RollupFails ==
    /\ rollup.pc = "summed"
    /\ faults < MaxFaults
    /\ faults' = faults + 1
    /\ rollup' = IdleRollup
    /\ UNCHANGED <<sub, queues, sends, event, counter, history>>

-----------------------------------------------------------------------------
CampaignStep(c) ==
    \/ StartCampaign(c)
    \/ PauseCampaign(c)
    \/ ResumeCampaign(c)
    \/ SkipStart(c)
    \/ BeginStart(c)
    \/ RefuseCampaign(c)
    \/ FanOut(c)
    \/ StartFails(c)
    \/ \E r \in Recipients : SkipBatch(c, r) \/ SendBatch(c, r)

SendStep(r) ==
    \/ SendRejected(r)
    \/ RecordUsage(r)
    \/ RecordEvents(r)
    \/ UsageLost(r)

RollupStep ==
    \/ SumEvents
    \/ CommitRollup
    \/ RollupFails

Next ==
    \/ Subscription
    \/ \E c \in Campaigns : CampaignStep(c)
    \/ \E m \in Messages : RequestMessage(m) \/ AuthorizeMessage(m) \/ SendMessage(m)
    \/ \E r \in Refs : SendStep(r)
    \/ RollupStep

Spec == Init /\ [][Next]_vars

-----------------------------------------------------------------------------
(* Every variable stays in its domain: domain/usage.go, plan.go and the    *)
(* constraints of db/migrations/000015.                                    *)
TypeOK ==
    /\ sub \in Subscriptions
    /\ campaign \in [Campaigns -> CampaignStatuses]
    /\ start \in [Campaigns -> Starts]
    /\ send \in [Refs -> SendStates]
    /\ seen \in [Refs \cup Campaigns -> Subscriptions]
    /\ event \in [Refs -> Events]
    /\ counter \in Counters
    /\ rollup \in Rollups
    /\ sentIn \in [Refs -> 0 .. MaxPeriods]
    /\ refused \in SUBSET Campaigns
    /\ restarted \in SUBSET Campaigns
    /\ overlapped \in BOOLEAN
    /\ resumes \in 0 .. MaxResumes
    /\ faults \in 0 .. MaxFaults

Missed == {r \in Refs : event[r].state = "missed"}

SentBy(p) == {r \in Refs : sentIn[r] \in 1 .. p}

(* The usage that a tenant is shown, held to and billed for in a period    *)
(* never exceeds what it has sent by then, whatever the rollup and the     *)
(* recorder do at the same time (Usage.Rollup, Usage.CurrentUsage).        *)
UsageNeverOverstated == \A p \in Periods : CurrentUsage(p) <= Cardinality(SentBy(p))

(* The usage the quota gate reads never drops: a rollup moves events from  *)
(* the tail to the counters in one commit.  Only the events that the stamp *)
(* takes without having been summed are lost (Usage.Rollup).               *)
UsageNeverDrops ==
    [][Missed' = Missed => \A p \in Periods : CurrentUsage(p)' >= CurrentUsage(p)]_vars

(* A block-mode tenant never sends more than its allowance in a period, as *)
(* long as its sends do not overlap and no usage gets lost: the gate's     *)
(* check is made before, its metering after the send (QuotaGate.Authorize).*)
QuotaHoldsWhenSerial ==
    ~Metered /\ ~overlapped /\ faults = 0 /\ Missed = {}
        => \A p \in Periods : Cardinality({r \in Refs : sentIn[r] = p}) <= Allowance

(* A campaign that the gate refuses at its first start has mailed nobody   *)
(* and never will (StartWorker.Work, before BulkInsert).                   *)
RefusedBeforeMail ==
    \A c \in refused \ restarted : \A r \in c : sentIn[r] = 0

-----------------------------------------------------------------------------
(* What the repository says and the code does not do.                      *)

(* "the rolled-up usage counter matches the count of billable actions      *)
(* taken in that period [...] after the rollup completes"                  *)
(* (specs/010-phase-5-billing-metering/spec.md:302-304).                   *)
CountersMatchUsage ==
    Raw = {} => \A p \in Periods : counter[p] = Cardinality(EventsOf(p))
=============================================================================
