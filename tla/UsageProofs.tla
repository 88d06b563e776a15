----------------------------- MODULE UsageProofs ------------------------------
(***************************************************************************)
(* Theorems about Usage, for every set of campaigns and messages, every    *)
(* allowance and any number of periods, resumes and faults.                *)
(***************************************************************************)
EXTENDS Usage, FiniteSetTheorems, TLAPS

-----------------------------------------------------------------------------
(* Type correctness.                                                       *)

LEMMA RefsFinite == IsFiniteSet(Refs)
  BY UsageAssumption, FS_Union DEF UsageAssumption, Refs

LEMMA CardinalType == \A S \in SUBSET Refs : IsFiniteSet(S) /\ Cardinality(S) \in Nat
  BY RefsFinite, FS_Subset, FS_CardinalityType

LEMMA DisjointSum ==
    ASSUME NEW S \in SUBSET Refs, NEW T \in SUBSET Refs, S \cap T = {}
    PROVE  Cardinality(S \cup T) = Cardinality(S) + Cardinality(T)
<1>1. Cardinality(S \cup T) = Cardinality(S) + Cardinality(T) - Cardinality(S \cap T)
  BY CardinalType, FS_Union
<1> QED
  BY <1>1, CardinalType, FS_EmptySet

LEMMA DataTypes ==
    /\ NewSubscription \in Subscriptions
    /\ NoEvent \in Events
    /\ NoCounters \in Counters
    /\ IdleRollup \in Rollups
<1>1. 1 \in Periods
  BY UsageAssumption DEF UsageAssumption, Periods
<1> QED
  BY <1>1 DEF NewSubscription, Subscriptions, SubscriptionStates, NoEvent, Events,
              EventStates, NoCounters, Counters, IdleRollup, Rollups

LEMMA TypeInit == Init => TypeOK
<1> SUFFICES ASSUME Init PROVE TypeOK
  OBVIOUS
<1>1. MaxPeriods \in Nat /\ MaxResumes \in Nat /\ MaxFaults \in Nat
  BY UsageAssumption DEF UsageAssumption
<1>2. sub \in Subscriptions /\ event \in [Refs -> Events]
      /\ seen \in [Refs \cup Campaigns -> Subscriptions]
      /\ counter \in Counters /\ rollup \in Rollups
  BY DataTypes DEF Init
<1>3. campaign \in [Campaigns -> CampaignStatuses]
      /\ start \in [Campaigns -> Starts] /\ send \in [Refs -> SendStates]
      /\ sentIn \in [Refs -> 0 .. MaxPeriods]
  BY <1>1 DEF Init, CampaignStatuses, Starts, NoStart, SendStates
<1>4. refused \in SUBSET Campaigns /\ restarted \in SUBSET Campaigns
      /\ overlapped \in BOOLEAN
  BY DEF Init
<1>5. resumes \in 0 .. MaxResumes /\ faults \in 0 .. MaxFaults
  BY <1>1 DEF Init
<1> QED
  BY <1>2, <1>3, <1>4, <1>5 DEF TypeOK

(* What the helpers of the actions make of their variable.                 *)
LEMMA SeenType ==
    ASSUME TypeOK, NEW x \in Refs \cup Campaigns,
           \/ Reads(x) \/ ReadsPeriod(x) \/ Forgets(x)
    PROVE  seen' \in [Refs \cup Campaigns -> Subscriptions]
<1>1. [NewSubscription EXCEPT !.period = sub.period] \in Subscriptions
  BY DataTypes DEF TypeOK, Subscriptions
<1> QED
  BY <1>1, DataTypes DEF TypeOK, Reads, ReadsPeriod, Forgets

LEMMA SendType ==
    ASSUME TypeOK, NEW r \in Refs, NEW s \in SendStates, Goes(r, s)
    PROVE  send' \in [Refs -> SendStates]
BY DEF TypeOK, Goes

LEMMA ProgressType ==
    ASSUME TypeOK, NEW r \in Refs, Progress(r)
    PROVE  campaign' \in [Campaigns -> CampaignStatuses]
BY DEF TypeOK, Progress, CampaignStatuses

LEMMA SentInType ==
    ASSUME TypeOK, NEW r \in Refs, sentIn' = [sentIn EXCEPT ![r] = sub.period]
    PROVE  sentIn' \in [Refs -> 0 .. MaxPeriods]
<1>1. sub.period \in 0 .. MaxPeriods
  BY UsageAssumption DEF UsageAssumption, TypeOK, Subscriptions, Periods
<1> QED
  BY <1>1 DEF TypeOK

LEMMA TypeCampaign ==
    ASSUME TypeOK, NEW c \in Campaigns, CampaignStep(c)
    PROVE  TypeOK'
<1> USE DEF TypeOK, queues, sends, meters, history
<1>0. {"new", "queued", "accepted"} \subseteq SendStates
      /\ {"running", "paused", "cancelled"} \subseteq CampaignStatuses
      /\ start[c] \in Starts /\ c \in Refs \cup Campaigns
  BY DEF SendStates, CampaignStatuses
<1>1. ASSUME NEW n \in Nat, NEW b \in BOOLEAN,
             start' = [start EXCEPT ![c] = [waiting |-> n, deciding |-> b]]
      PROVE  start' \in [Campaigns -> Starts]
  BY <1>1 DEF Starts
<1>2. start[c].waiting \in Nat /\ start[c].waiting + 1 \in Nat
      /\ start[c].deciding \in BOOLEAN
  BY <1>0 DEF Starts
<1>3. CASE StartCampaign(c)
  <2>1. overlapped' \in BOOLEAN
    BY <1>3 DEF StartCampaign, OverlapsCampaign
  <2> QED
    BY <1>0, <1>1, <1>2, <1>3, <2>1 DEF StartCampaign, EnqueueStart
<1>4. CASE PauseCampaign(c)
  BY <1>0, <1>4 DEF PauseCampaign
<1>5. CASE ResumeCampaign(c)
  <2>1. overlapped' \in BOOLEAN
    BY <1>5 DEF ResumeCampaign, OverlapsCampaign
  <2>2. resumes' \in 0 .. MaxResumes
    BY <1>5, UsageAssumption DEF ResumeCampaign, UsageAssumption
  <2> QED
    BY <1>0, <1>1, <1>2, <1>5, <2>1, <2>2 DEF ResumeCampaign, EnqueueStart
<1>6. ASSUME TakesStart(c) PROVE start' \in [Campaigns -> Starts]
  <2>1. start[c].waiting - 1 \in Nat /\ (campaign[c] = "running") \in BOOLEAN
    BY <1>0, <1>6 DEF TakesStart, Starts
  <2> QED
    BY <1>1, <1>6, <2>1 DEF TakesStart
<1>7. CASE SkipStart(c)
  BY <1>6, <1>7 DEF SkipStart
<1>8. CASE BeginStart(c)
  BY <1>0, <1>6, <1>8, SeenType DEF BeginStart
<1>9. CASE RefuseCampaign(c)
  BY <1>0, <1>1, <1>2, <1>9, SeenType DEF RefuseCampaign, Decided
<1>10. CASE FanOut(c)
  BY <1>0, <1>1, <1>2, <1>10, SeenType DEF FanOut, Decided
<1>11. CASE StartFails(c)
  <2>1. start' \in [Campaigns -> Starts]
    BY <1>1, <1>2, <1>11 DEF StartFails
  <2>2. faults' \in 0 .. MaxFaults
    BY <1>11, UsageAssumption DEF StartFails, UsageAssumption
  <2> QED
    BY <1>0, <1>11, <2>1, <2>2, SeenType DEF StartFails
<1>12. ASSUME NEW r \in Recipients, SkipBatch(c, r) \/ SendBatch(c, r) PROVE TypeOK'
  <2>1. r \in Refs
    BY DEF Refs
  <2>2. CASE SkipBatch(c, r)
    BY <1>0, <2>1, <2>2, SendType DEF SkipBatch
  <2>3. CASE SendBatch(c, r)
    BY <1>0, <2>1, <2>3, SendType, SentInType DEF SendBatch
  <2> QED
    BY <1>12, <2>2, <2>3
<1> QED
  BY <1>3, <1>4, <1>5, <1>7, <1>8, <1>9, <1>10, <1>11, <1>12 DEF CampaignStep

LEMMA TypeMessage ==
    ASSUME TypeOK, NEW m \in Messages,
           RequestMessage(m) \/ AuthorizeMessage(m) \/ SendMessage(m)
    PROVE  TypeOK'
<1> USE DEF TypeOK, queues, sends, meters, history
<1>0. {"gate", "allowed", "accepted", "done"} \subseteq SendStates /\ m \in Refs
  BY DEF SendStates, Refs
<1>1. CASE RequestMessage(m)
  <2>1. overlapped' \in BOOLEAN
    BY <1>1 DEF RequestMessage, OverlapsMessage
  <2> QED
    BY <1>0, <1>1, <2>1, SendType, SeenType DEF RequestMessage
<1>2. CASE AuthorizeMessage(m)
  BY <1>0, <1>2, SendType, SeenType DEF AuthorizeMessage
<1>3. CASE SendMessage(m)
  BY <1>0, <1>3, SendType, SentInType DEF SendMessage
<1> QED
  BY <1>1, <1>2, <1>3

LEMMA TypeSend ==
    ASSUME TypeOK, NEW r \in Refs, SendStep(r)
    PROVE  TypeOK'
<1> USE DEF TypeOK, queues, sends, meters, history
<1>0. {"recording", "done"} \subseteq SendStates
  BY DEF SendStates
<1>1. CASE SendRejected(r)
  BY <1>0, <1>1, SendType, ProgressType DEF SendRejected
<1>2. CASE RecordUsage(r)
  BY <1>0, <1>2, SendType, SeenType, ProgressType DEF RecordUsage
<1>3. CASE RecordEvents(r)
  <2>1. Recorded(r) \in Events
    BY DEF Recorded, Events, EventStates, Subscriptions
  <2>2. event' \in [Refs -> Events]
    BY <1>3, <2>1 DEF RecordEvents
  <2> QED
    BY <1>0, <1>3, <2>2, SendType, SeenType, ProgressType DEF RecordEvents
<1>4. CASE UsageLost(r)
  <2>1. faults' \in 0 .. MaxFaults
    BY <1>4, UsageAssumption DEF UsageLost, UsageAssumption
  <2> QED
    BY <1>0, <1>4, <2>1, SendType, SeenType, ProgressType DEF UsageLost
<1> QED
  BY <1>1, <1>2, <1>3, <1>4 DEF SendStep

LEMMA TypeRollup ==
    ASSUME TypeOK, RollupStep
    PROVE  TypeOK'
<1> USE DEF TypeOK, queues, sends, meters, history
<1>1. CASE SumEvents
  <2>1. \A p \in Periods : Cardinality(RawOf(p)) \in Nat
    BY CardinalType DEF RawOf
  <2> QED
    BY <1>1, <2>1 DEF SumEvents, Rollups, Counters, Raw
<1>2. CASE CommitRollup
  <2>1. counter' \in Counters
    BY <1>2 DEF CommitRollup, Upserted, Counters, Rollups
  <2>2. event' \in [Refs -> Events]
    BY <1>2 DEF CommitRollup, Stamped, Events, EventStates
  <2> QED
    BY <1>2, <2>1, <2>2, DataTypes DEF CommitRollup
<1>3. CASE RollupFails
  BY <1>3, DataTypes, UsageAssumption DEF RollupFails, UsageAssumption
<1> QED
  BY <1>1, <1>2, <1>3 DEF RollupStep

LEMMA SubscriptionType == ASSUME TypeOK, Subscription PROVE sub' \in Subscriptions
<1>1. CASE Activate
  BY <1>1 DEF TypeOK, Activate, Subscriptions, SubscriptionStates
<1>2. ASSUME NEW state \in Lapses, Lapse(state) PROVE sub' \in Subscriptions
  <2>1. state \in SubscriptionStates
    BY UsageAssumption DEF UsageAssumption, SubscriptionStates
  <2> QED
    BY <1>2, <2>1 DEF TypeOK, Lapse, Subscriptions
<1> QED
  BY <1>1, <1>2 DEF Subscription

LEMMA TypeNext == TypeOK /\ [Next]_vars => TypeOK'
<1> SUFFICES ASSUME TypeOK, [Next]_vars PROVE TypeOK'
  OBVIOUS
<1>1. CASE Subscription
  BY <1>1, SubscriptionType DEF Subscription, TypeOK, queues, sends, meters, history
<1>2. CASE UNCHANGED vars
  BY <1>2 DEF vars, TypeOK
<1> QED
  BY <1>1, <1>2, TypeCampaign, TypeMessage, TypeSend, TypeRollup DEF Next

(* Every variable stays in its domain (TypeOK).                            *)
THEOREM TypeCorrect == Spec => []TypeOK
  BY TypeInit, TypeNext, PTL DEF Spec

-----------------------------------------------------------------------------
(* Usage comes from mail: a subscription's period only grows, so an event  *)
(* is charged to a period in or after the one in which its send was        *)
(* accepted.                                                               *)
SourceInv ==
    /\ \A x \in Refs \cup Campaigns : seen[x].period <= sub.period
    /\ \A r \in Refs :
         /\ sentIn[r] <= sub.period
         /\ send[r] \in {"accepted", "recording"} => sentIn[r] >= 1
         /\ send[r] = "recording" => sentIn[r] <= seen[r].period
         /\ event[r].state # "none" => send[r] = "done" /\ sentIn[r] \in 1 .. event[r].period

LEMMA SourceInit == Init => SourceInv
<1> SUFFICES ASSUME Init PROVE SourceInv
  OBVIOUS
<1>1. sub.period = 1 /\ \A x \in Refs \cup Campaigns : seen[x].period = 1
  BY DEF Init, NewSubscription
<1>2. \A r \in Refs : sentIn[r] = 0 /\ send[r] = "new" /\ event[r].state = "none"
  BY DEF Init, NoEvent
<1> QED
  BY <1>1, <1>2 DEF SourceInv

(* The facts of TypeOK that are about periods.                             *)
LEMMA PeriodTypes ==
    ASSUME TypeOK
    PROVE  /\ sub.period \in Nat \ {0}
           /\ \A x \in Refs \cup Campaigns : seen[x].period \in Nat \ {0}
           /\ \A r \in Refs : sentIn[r] \in Nat /\ event[r].period \in Nat
  BY UsageAssumption DEF TypeOK, Subscriptions, Events, Periods, UsageAssumption

(* What the helpers do to each send.                                       *)
LEMMA GoesAt ==
    ASSUME TypeOK, NEW r \in Refs, NEW s \in SendStates, Goes(r, s)
    PROVE  \A q \in Refs : send'[q] = IF q = r THEN s ELSE send[q]
BY DEF TypeOK, Goes

LEMMA SeenAt ==
    ASSUME TypeOK, SourceInv, NEW x \in Refs \cup Campaigns,
           Reads(x) \/ ReadsPeriod(x) \/ Forgets(x)
    PROVE  /\ \A y \in Refs \cup Campaigns : seen'[y].period <= sub.period
           /\ \A y \in Refs \cup Campaigns : y # x => seen'[y] = seen[y]
           /\ ReadsPeriod(x) => seen'[x].period = sub.period
<1>1. \A y \in Refs \cup Campaigns : y # x => seen'[y] = seen[y]
  BY DEF Reads, ReadsPeriod, Forgets, TypeOK
<1>2. ReadsPeriod(x) => seen'[x].period = sub.period
  BY DEF ReadsPeriod, NewSubscription, TypeOK
<1>3. Reads(x) => seen'[x] = sub
  BY DEF Reads, TypeOK
<1>4. Forgets(x) => seen'[x].period = 1
  BY DEF Forgets, NewSubscription, TypeOK
<1>5. seen'[x].period <= sub.period
  BY <1>2, <1>3, <1>4, PeriodTypes
<1> QED
  BY <1>1, <1>2, <1>5 DEF SourceInv

(* A step that accepts and meters nothing.                                 *)
LEMMA SourceKept ==
    ASSUME TypeOK, SourceInv, UNCHANGED <<sentIn, event>>,
           sub'.period \in Nat, sub'.period >= sub.period,
           \A x \in Refs \cup Campaigns : seen'[x].period <= sub'.period,
           \A r \in Refs :
             /\ send'[r] \in {"accepted", "recording"}
                  => send'[r] = send[r] /\ seen'[r] = seen[r]
             /\ send[r] = "done" => send'[r] = "done"
    PROVE  SourceInv'
<1>1. \A r \in Refs : sentIn[r] <= sub'.period
  BY PeriodTypes DEF SourceInv
<1>2. \A r \in Refs :
        /\ send'[r] \in {"accepted", "recording"} => sentIn[r] >= 1
        /\ send'[r] = "recording" => sentIn[r] <= seen'[r].period
  BY DEF SourceInv
<1>3. \A r \in Refs :
        event[r].state # "none" => send'[r] = "done" /\ sentIn[r] \in 1 .. event[r].period
  BY DEF SourceInv
<1> QED
  BY <1>1, <1>2, <1>3 DEF SourceInv

(* The provider accepts a message.                                         *)
LEMMA SourceAccepted ==
    ASSUME TypeOK, SourceInv, NEW r \in Refs, send[r] # "done", Goes(r, "accepted"),
           sentIn' = [sentIn EXCEPT ![r] = sub.period],
           UNCHANGED <<sub, seen, event>>
    PROVE  SourceInv'
<1>0. "accepted" \in SendStates
  BY DEF SendStates
<1>1. \A q \in Refs : q # r => send'[q] = send[q] /\ sentIn'[q] = sentIn[q]
  BY <1>0, GoesAt DEF TypeOK
<1>2. send'[r] = "accepted" /\ sentIn'[r] = sub.period
  BY <1>0, GoesAt DEF TypeOK
<1>3. event[r].state = "none"
  BY DEF SourceInv
<1> QED
  BY <1>1, <1>2, <1>3, PeriodTypes DEF SourceInv

LEMMA SourceCampaign ==
    ASSUME TypeOK, SourceInv, NEW c \in Campaigns, CampaignStep(c)
    PROVE  SourceInv'
<1> USE DEF queues, sends, meters, history
<1>0. {"new", "queued", "accepted"} \subseteq SendStates
      /\ sub.period \in Nat /\ (\A x \in Refs \cup Campaigns : seen[x].period <= sub.period)
      /\ c \notin Refs
  BY UsageAssumption, PeriodTypes DEF SendStates, SourceInv, UsageAssumption
<1>1. CASE StartCampaign(c) \/ PauseCampaign(c) \/ ResumeCampaign(c) \/ SkipStart(c)
  BY <1>0, <1>1, SourceKept DEF StartCampaign, PauseCampaign, ResumeCampaign, SkipStart
<1>2. ASSUME UNCHANGED <<sub, sentIn, event>>, Reads(c) \/ Forgets(c),
             \A r \in Refs : /\ send'[r] \in {"accepted", "recording"} => send'[r] = send[r]
                             /\ send[r] = "done" => send'[r] = "done"
      PROVE  SourceInv'
  <2>1. /\ \A x \in Refs \cup Campaigns : seen'[x].period <= sub.period
        /\ \A x \in Refs : seen'[x] = seen[x]
    BY <1>0, <1>2, SeenAt
  <2> QED
    BY <1>0, <1>2, <2>1, SourceKept
<1>3. CASE BeginStart(c)
  BY <1>2, <1>3 DEF BeginStart
<1>4. CASE RefuseCampaign(c)
  BY <1>2, <1>4 DEF RefuseCampaign, Decided
<1>5. CASE FanOut(c)
  <2>1. \A r \in Refs : /\ send'[r] \in {"accepted", "recording"} => send'[r] = send[r]
                        /\ send[r] = "done" => send'[r] = "done"
    BY <1>5 DEF FanOut
  <2> QED
    BY <1>2, <1>5, <2>1 DEF FanOut, Decided
<1>6. CASE StartFails(c)
  BY <1>2, <1>6 DEF StartFails
<1>7. ASSUME NEW r \in Recipients, SkipBatch(c, r) PROVE SourceInv'
  <2>1. r \in Refs
    BY DEF Refs
  <2>2. \A q \in Refs : send'[q] = IF q = r THEN "new" ELSE send[q]
    BY <1>0, <1>7, <2>1, GoesAt DEF SkipBatch
  <2> QED
    BY <1>0, <1>7, <2>2, SourceKept DEF SkipBatch
<1>8. ASSUME NEW r \in Recipients, SendBatch(c, r) PROVE SourceInv'
  BY <1>8, SourceAccepted DEF SendBatch, Refs
<1> QED
  BY <1>1, <1>3, <1>4, <1>5, <1>6, <1>7, <1>8 DEF CampaignStep

LEMMA SourceMessage ==
    ASSUME TypeOK, SourceInv, NEW m \in Messages,
           RequestMessage(m) \/ AuthorizeMessage(m) \/ SendMessage(m)
    PROVE  SourceInv'
<1> USE DEF queues, sends, meters, history
<1>0. m \in Refs /\ sub.period \in Nat /\ {"gate", "allowed", "done"} \subseteq SendStates
  BY PeriodTypes DEF Refs, SendStates
<1>1. ASSUME NEW s \in {"gate", "allowed", "done"}, send[m] # "done", Goes(m, s),
             Reads(m) \/ Forgets(m), UNCHANGED <<sub, sentIn, event>>
      PROVE  SourceInv'
  <2>1. \A q \in Refs : send'[q] = IF q = m THEN s ELSE send[q]
    BY <1>0, <1>1, GoesAt
  <2>2. /\ \A x \in Refs \cup Campaigns : seen'[x].period <= sub.period
        /\ \A x \in Refs : x # m => seen'[x] = seen[x]
    BY <1>0, <1>1, SeenAt
  <2> QED
    BY <1>0, <1>1, <2>1, <2>2, SourceKept
<1>2. CASE RequestMessage(m)
  BY <1>1, <1>2 DEF RequestMessage
<1>3. CASE AuthorizeMessage(m)
  BY <1>1, <1>3 DEF AuthorizeMessage
<1>4. CASE SendMessage(m)
  BY <1>0, <1>4, SourceAccepted DEF SendMessage
<1> QED
  BY <1>2, <1>3, <1>4

LEMMA SourceSend ==
    ASSUME TypeOK, SourceInv, NEW r \in Refs, SendStep(r)
    PROVE  SourceInv'
<1> USE DEF queues, sends, meters, history
<1>0. {"recording", "done"} \subseteq SendStates /\ sub.period \in Nat
      /\ \A x \in Refs \cup Campaigns : seen[x].period <= sub.period
  BY PeriodTypes DEF SendStates, SourceInv
<1>1. ASSUME Goes(r, "done") PROVE \A q \in Refs : send'[q] = IF q = r THEN "done" ELSE send[q]
  BY <1>0, <1>1, GoesAt
<1>2. ASSUME Forgets(r)
      PROVE  /\ \A x \in Refs \cup Campaigns : seen'[x].period <= sub.period
             /\ \A x \in Refs : x # r => seen'[x] = seen[x]
  BY <1>2, SeenAt
<1>3. CASE SendRejected(r)
  BY <1>0, <1>1, <1>3, SourceKept DEF SendRejected
<1>4. CASE UsageLost(r)
  BY <1>0, <1>1, <1>2, <1>4, SourceKept DEF UsageLost
<1>5. CASE RecordUsage(r) /\ Found(sub)
  <2>1. \A q \in Refs : send'[q] = IF q = r THEN "recording" ELSE send[q]
    BY <1>0, <1>5, GoesAt DEF RecordUsage
  <2>2. /\ \A x \in Refs \cup Campaigns : seen'[x].period <= sub.period
        /\ \A x \in Refs : x # r => seen'[x] = seen[x]
        /\ seen'[r].period = sub.period
    BY <1>5, SeenAt DEF RecordUsage
  <2>3. sentIn[r] >= 1 /\ event[r].state = "none" /\ sentIn[r] <= sub.period
    BY <1>5 DEF RecordUsage, SourceInv
  <2> QED
    BY <1>5, <2>1, <2>2, <2>3 DEF RecordUsage, SourceInv
<1>6. CASE RecordUsage(r) /\ ~Found(sub)
  BY <1>0, <1>1, <1>6, SourceKept DEF RecordUsage
<1>7. CASE RecordEvents(r)
  <2>1. event[r].state = "none" /\ sentIn[r] \in 1 .. seen[r].period
    BY <1>7, PeriodTypes DEF RecordEvents, SourceInv
  <2>2. \A q \in Refs : event'[q] = IF q = r THEN Recorded(r) ELSE event[q]
    BY <1>7, <2>1 DEF RecordEvents, TypeOK
  <2>3. Recorded(r).state = "raw" /\ Recorded(r).period = seen[r].period
    BY DEF Recorded
  <2>4. \A q \in Refs : event'[q].state # "none"
          => send'[q] = "done" /\ sentIn[q] \in 1 .. event'[q].period
    BY <1>1, <1>7, <2>1, <2>2, <2>3 DEF RecordEvents, SourceInv
  <2>5. \A q \in Refs : send'[q] \in {"accepted", "recording"}
          => send'[q] = send[q] /\ seen'[q] = seen[q]
    BY <1>1, <1>2, <1>7 DEF RecordEvents
  <2>6. UNCHANGED <<sub, sentIn>> /\ \A x \in Refs \cup Campaigns : seen'[x].period <= sub.period
    BY <1>2, <1>7 DEF RecordEvents
  <2> QED
    BY <2>4, <2>5, <2>6 DEF SourceInv
<1> QED
  BY <1>3, <1>4, <1>5, <1>6, <1>7 DEF SendStep

LEMMA SourceRollup ==
    ASSUME TypeOK, SourceInv, RollupStep
    PROVE  SourceInv'
<1> USE DEF queues, sends, meters, history
<1>1. \A r \in Refs : /\ event'[r].period = event[r].period
                      /\ event'[r].state # "none" => event[r].state # "none"
  <2>1. CASE CommitRollup
    BY <2>1 DEF CommitRollup, Stamped, TypeOK, Events
  <2>2. CASE event' = event
    BY <2>2
  <2>3. CommitRollup \/ event' = event
    BY DEF RollupStep, SumEvents, RollupFails
  <2> QED
    BY <2>1, <2>2, <2>3
<1>2. UNCHANGED <<sub, send, seen, sentIn>>
  BY DEF RollupStep, SumEvents, CommitRollup, RollupFails
<1> QED
  BY <1>1, <1>2 DEF SourceInv

LEMMA SourceNext == TypeOK /\ SourceInv /\ [Next]_vars => SourceInv'
<1> SUFFICES ASSUME TypeOK, SourceInv, [Next]_vars PROVE SourceInv'
  OBVIOUS
<1>1. CASE Subscription
  <2>1. sub'.period \in Nat /\ sub'.period >= sub.period
    BY <1>1, PeriodTypes DEF Subscription, Activate, Lapse, Periods, TypeOK, Subscriptions
  <2>2. \A x \in Refs \cup Campaigns : seen[x].period <= sub'.period
    BY <2>1, PeriodTypes DEF SourceInv
  <2> QED
    BY <1>1, <2>1, <2>2, SourceKept DEF Subscription, sends, meters
<1>2. CASE UNCHANGED vars
  BY <1>2 DEF vars, SourceInv
<1> QED
  BY <1>1, <1>2, SourceCampaign, SourceMessage, SourceSend, SourceRollup DEF Next

-----------------------------------------------------------------------------
(* The counters count events: each stamped and summed event once, and the  *)
(* sums of a rollup under way are those of the events it has picked, which *)
(* nothing can stamp before it does.                                       *)
CountedOf(p) == {r \in Refs : event[r].state = "counted" /\ event[r].period = p}
PickedOf(p) == {r \in rollup.picked : event[r].period = p}

CountInv ==
    /\ \A p \in Periods : counter[p] = Cardinality(CountedOf(p))
    /\ rollup.picked \subseteq Raw
    /\ \A p \in Periods : rollup.sums[p] = Cardinality(PickedOf(p))

LEMMA CountInit == Init => CountInv
<1> SUFFICES ASSUME Init PROVE CountInv
  OBVIOUS
<1>1. \A p \in Periods : CountedOf(p) = {} /\ PickedOf(p) = {}
  BY DEF Init, CountedOf, PickedOf, NoEvent, IdleRollup
<1> QED
  BY <1>1, FS_EmptySet DEF Init, CountInv, NoCounters, IdleRollup

(* Steps outside the rollup only add events.                               *)
LEMMA CountKept ==
    ASSUME TypeOK, CountInv, UNCHANGED <<counter, rollup>>,
           \A r \in Refs : event'[r] = event[r]
                             \/ (event[r].state = "none" /\ event'[r].state = "raw")
    PROVE  CountInv'
<1>1. \A p \in Periods : CountedOf(p)' = CountedOf(p)
  BY DEF CountedOf
<1>2. \A r \in rollup.picked : r \in Refs /\ event[r].state = "raw"
  BY DEF CountInv, Raw
<1>3. \A p \in Periods : PickedOf(p)' = PickedOf(p)
  BY <1>2 DEF PickedOf
<1>4. rollup.picked \subseteq Raw'
  BY <1>2 DEF Raw
<1> QED
  BY <1>1, <1>3, <1>4 DEF CountInv

LEMMA RollupCommits ==
    ASSUME TypeOK, CountInv, CommitRollup, NEW p \in Periods
    PROVE  /\ counter'[p] = counter[p] + Cardinality(PickedOf(p))
           /\ CountedOf(p)' = CountedOf(p) \cup PickedOf(p)
           /\ RawOf(p)' = {}
<1>0. rollup.picked \subseteq Raw
  BY DEF CountInv
<1>1. counter'[p] = counter[p] + Cardinality(PickedOf(p))
  BY DEF CommitRollup, Upserted, CountInv
<1>2. \A r \in Refs : event'[r] = Stamped(r)
  BY DEF CommitRollup
<1>3. ASSUME NEW r \in Refs
      PROVE  /\ event'[r].period = event[r].period
             /\ event'[r].state # "raw"
             /\ event'[r].state = "counted"
                  <=> event[r].state = "counted" \/ r \in rollup.picked
  <2>1. CASE event[r].state # "raw"
    BY <1>0, <1>2, <2>1 DEF Stamped, Raw
  <2>2. CASE event[r].state = "raw" /\ r \in rollup.picked
    <3>1. Stamped(r) = [state |-> "counted", period |-> event[r].period]
      BY <2>2 DEF Stamped
    <3> QED
      BY <1>2, <2>2, <3>1
  <2>3. CASE event[r].state = "raw" /\ r \notin rollup.picked
    <3>1. Stamped(r) = [state |-> "missed", period |-> event[r].period]
      BY <2>3 DEF Stamped
    <3> QED
      BY <1>2, <2>3, <3>1
  <2> QED
    BY <2>1, <2>2, <2>3
<1>4. RawOf(p)' = {}
  BY <1>3 DEF RawOf
<1>5. CountedOf(p)' = CountedOf(p) \cup PickedOf(p)
  BY <1>0, <1>3 DEF CountedOf, PickedOf, Raw
<1> QED
  BY <1>1, <1>4, <1>5

LEMMA CountRollup ==
    ASSUME TypeOK, CountInv, RollupStep
    PROVE  CountInv'
<1>1. CASE SumEvents
  <2>1. \A p \in Periods : CountedOf(p)' = CountedOf(p) /\ PickedOf(p)' = RawOf(p)
    BY <1>1 DEF SumEvents, CountedOf, PickedOf, Raw, RawOf
  <2>2. \A p \in Periods : rollup'.sums[p] = Cardinality(RawOf(p))
    BY <1>1 DEF SumEvents
  <2>3. rollup'.picked \subseteq Raw'
    BY <1>1 DEF SumEvents, Raw
  <2> QED
    BY <1>1, <2>1, <2>2, <2>3 DEF SumEvents, CountInv
<1>2. CASE CommitRollup
  <2>1. \A p \in Periods : CountedOf(p) \in SUBSET Refs /\ PickedOf(p) \in SUBSET Refs
                           /\ CountedOf(p) \cap PickedOf(p) = {}
    BY DEF CountInv, CountedOf, PickedOf, Raw
  <2>2. \A p \in Periods :
          Cardinality(CountedOf(p) \cup PickedOf(p))
            = Cardinality(CountedOf(p)) + Cardinality(PickedOf(p))
    BY <2>1, DisjointSum
  <2>3. \A p \in Periods : counter'[p] = Cardinality(CountedOf(p)')
    BY <1>2, <2>2, RollupCommits DEF CountInv
  <2>4. rollup' = IdleRollup
    BY <1>2 DEF CommitRollup
  <2>5. \A p \in Periods : PickedOf(p)' = {}
    BY <2>4 DEF PickedOf, IdleRollup
  <2> QED
    BY <2>3, <2>4, <2>5, FS_EmptySet DEF CountInv, IdleRollup, NoCounters
<1>3. CASE RollupFails
  <2>1. \A p \in Periods : CountedOf(p)' = CountedOf(p) /\ PickedOf(p)' = {}
    BY <1>3 DEF RollupFails, CountedOf, PickedOf, IdleRollup
  <2> QED
    BY <1>3, <2>1, FS_EmptySet DEF RollupFails, CountInv, IdleRollup, NoCounters
<1> QED
  BY <1>1, <1>2, <1>3 DEF RollupStep

(* What the steps outside the rollup do to the meters.                     *)
LEMMA EventsGrow ==
    ASSUME TypeOK, [Next]_vars
    PROVE  \/ RollupStep
           \/ /\ UNCHANGED <<counter, rollup>>
              /\ \A r \in Refs : event'[r] = event[r]
                                   \/ (event[r].state = "none" /\ event'[r].state = "raw")
<1> USE DEF meters
<1>1. ASSUME NEW r \in Refs, RecordEvents(r)
      PROVE  /\ UNCHANGED <<counter, rollup>>
             /\ \A q \in Refs : event'[q] = event[q]
                                  \/ (event[q].state = "none" /\ event'[q].state = "raw")
  BY <1>1 DEF RecordEvents, Recorded, TypeOK
<1>2. ASSUME NEW c \in Campaigns, CampaignStep(c) PROVE UNCHANGED <<event, counter, rollup>>
  BY <1>2 DEF CampaignStep, StartCampaign, PauseCampaign, ResumeCampaign, SkipStart,
     BeginStart, RefuseCampaign, FanOut, StartFails, SkipBatch, SendBatch
<1>3. ASSUME NEW m \in Messages, RequestMessage(m) \/ AuthorizeMessage(m) \/ SendMessage(m)
      PROVE  UNCHANGED <<event, counter, rollup>>
  BY <1>3 DEF RequestMessage, AuthorizeMessage, SendMessage
<1>4. ASSUME NEW r \in Refs, SendRejected(r) \/ RecordUsage(r) \/ UsageLost(r)
      PROVE  UNCHANGED <<event, counter, rollup>>
  BY <1>4 DEF SendRejected, RecordUsage, UsageLost
<1>5. CASE Subscription \/ UNCHANGED vars
  BY <1>5 DEF Subscription, vars
<1> QED
  BY <1>1, <1>2, <1>3, <1>4, <1>5 DEF Next, SendStep

LEMMA CountNext == TypeOK /\ CountInv /\ [Next]_vars => CountInv'
  BY CountRollup, CountKept, EventsGrow

-----------------------------------------------------------------------------
(* The theorems on the usage.                                              *)

LEMMA UsageInvariant == Spec => [](TypeOK /\ SourceInv /\ CountInv)
  BY TypeInit, TypeNext, SourceInit, SourceNext, CountInit, CountNext, PTL DEF Spec

(* The usage of a period, as it is read, counts each event at most once.   *)
LEMMA UsageCountsEvents ==
    ASSUME TypeOK, CountInv, NEW p \in Periods
    PROVE  CurrentUsage(p) = Cardinality(CountedOf(p) \cup RawOf(p))
<1>1. CountedOf(p) \in SUBSET Refs /\ RawOf(p) \in SUBSET Refs
      /\ CountedOf(p) \cap RawOf(p) = {}
  BY DEF CountedOf, RawOf
<1> QED
  BY <1>1, DisjointSum DEF CurrentUsage, CountInv

(* A tenant's usage never exceeds what it has sent by then, whatever the   *)
(* rollup and the recorder do at the same time (UsageNeverOverstated).     *)
THEOREM UsageIsMail == Spec => []UsageNeverOverstated
<1>1. ASSUME TypeOK, SourceInv, CountInv, NEW p \in Periods
      PROVE  CurrentUsage(p) <= Cardinality(SentBy(p))
  <2>1. CountedOf(p) \cup RawOf(p) \subseteq SentBy(p)
    BY <1>1 DEF CountedOf, RawOf, SentBy, SourceInv
  <2>2. SentBy(p) \in SUBSET Refs
    BY DEF SentBy
  <2>3. Cardinality(CountedOf(p) \cup RawOf(p)) <= Cardinality(SentBy(p))
    BY <2>1, <2>2, CardinalType, FS_Subset
  <2> QED
    BY <1>1, <2>3, UsageCountsEvents
<1>2. TypeOK /\ SourceInv /\ CountInv => UsageNeverOverstated
  BY <1>1 DEF UsageNeverOverstated
<1> QED
  BY <1>2, UsageInvariant, PTL

(* The usage that the quota gate reads never drops, but for the events     *)
(* that a stamp takes without their having been summed (UsageNeverDrops).  *)
THEOREM UsageGrows == Spec => UsageNeverDrops
<1>1. ASSUME TypeOK, CountInv, [Next]_vars, Missed' = Missed, NEW p \in Periods
      PROVE  CountedOf(p) \cup RawOf(p) \subseteq CountedOf(p)' \cup RawOf(p)'
  <2>1. CASE CommitRollup
    <3>1. \A r \in Raw : r \notin rollup.picked => event'[r].state = "missed"
      BY <2>1 DEF CommitRollup, Stamped, Raw
    <3>2. Raw \cap Missed = {} /\ Raw \subseteq Refs
      BY DEF Raw, Missed
    <3>3. Raw \subseteq rollup.picked
      BY <1>1, <3>1, <3>2 DEF Missed
    <3>4. RawOf(p) \subseteq PickedOf(p)
      BY <3>3 DEF RawOf, Raw, PickedOf
    <3> QED
      BY <1>1, <2>1, <3>4, RollupCommits
  <2>2. CASE RollupStep /\ ~CommitRollup
    <3>1. UNCHANGED event
      BY <2>2 DEF RollupStep, SumEvents, RollupFails
    <3> QED
      BY <3>1 DEF CountedOf, RawOf
  <2>3. CASE ~RollupStep
    <3>1. \A r \in Refs : event[r].state # "none" => event'[r] = event[r]
      BY <1>1, <2>3, EventsGrow
    <3> QED
      BY <3>1 DEF CountedOf, RawOf
  <2> QED
    BY <2>1, <2>2, <2>3
<1>2. ASSUME TypeOK, TypeOK', CountInv, CountInv', [Next]_vars, Missed' = Missed,
             NEW p \in Periods
      PROVE  CurrentUsage(p)' >= CurrentUsage(p)
  <2>1. CountedOf(p)' \in SUBSET Refs /\ RawOf(p)' \in SUBSET Refs
        /\ CountedOf(p)' \cap RawOf(p)' = {}
    BY DEF CountedOf, RawOf
  <2>2. CurrentUsage(p)' = Cardinality(CountedOf(p)' \cup RawOf(p)')
    BY <1>2, <2>1, DisjointSum DEF CurrentUsage, CountInv
  <2>3. CurrentUsage(p) = Cardinality(CountedOf(p) \cup RawOf(p))
    BY <1>2, UsageCountsEvents
  <2>4. Cardinality(CountedOf(p) \cup RawOf(p)) <= Cardinality(CountedOf(p)' \cup RawOf(p)')
    BY <1>1, <1>2, <2>1, CardinalType, FS_Subset
  <2>5. Cardinality(CountedOf(p) \cup RawOf(p)) \in Nat
        /\ Cardinality(CountedOf(p)' \cup RawOf(p)') \in Nat
    BY <1>1, <1>2, <2>1, CardinalType
  <2> QED
    BY <2>2, <2>3, <2>4, <2>5
<1>3. /\ TypeOK /\ CountInv /\ (TypeOK /\ CountInv)' /\ [Next]_vars
      => [Missed' = Missed => \A p \in Periods : CurrentUsage(p)' >= CurrentUsage(p)]_vars
  BY <1>2
<1> QED
  BY <1>3, UsageInvariant, PTL DEF Spec, UsageNeverDrops
-----------------------------------------------------------------------------
(* Refusal: until the gate lets its first start job pass, a campaign has   *)
(* at most that one job, and its sends are untouched; a refusal ends it    *)
(* there.                                                                  *)
Untouched(c) == \A r \in c : send[r] = "new" /\ sentIn[r] = 0
Unstarted(c) == start[c].waiting = 0 /\ ~start[c].deciding

DraftUntouched(c) == campaign[c] = "draft" => Unstarted(c) /\ Untouched(c) /\ c \notin refused

FirstStart(c) ==
    ~Unstarted(c) =>
        /\ IF start[c].deciding THEN start[c].waiting = 0 ELSE start[c].waiting = 1
        /\ Untouched(c)
        /\ c \notin refused

RefusedUntouched(c) ==
    c \in refused => campaign[c] = "cancelled" /\ Unstarted(c) /\ Untouched(c)

Kept(c) == DraftUntouched(c) /\ FirstStart(c) /\ RefusedUntouched(c)

RefusalInv == \A c \in Campaigns \ restarted : Kept(c)

LEMMA RefusalInit == Init => RefusalInv
  BY DEF Init, RefusalInv, Kept, DraftUntouched, FirstStart, RefusedUntouched, Unstarted,
         Untouched, NoStart, Refs, Recipients

LEMMA CampaignSends == \A c \in Campaigns : c \subseteq Recipients /\ c \subseteq Refs
  BY DEF Recipients, Refs

(* A step that starts nothing and touches only sends under way.            *)
LEMMA RefusalKept ==
    ASSUME TypeOK, RefusalInv, UNCHANGED <<start, refused, restarted>>,
           \A c \in Campaigns :
             campaign'[c] = campaign[c]
               \/ (campaign[c] = "running" /\ campaign'[c] \in {"paused", "finished"}),
           \A r \in Recipients :
             send[r] = "new" => send'[r] = "new" /\ sentIn'[r] = sentIn[r]
    PROVE  RefusalInv'
<1> SUFFICES ASSUME NEW c \in Campaigns \ restarted
             PROVE  Kept(c)'
  BY DEF RefusalInv
<1>1. Kept(c)
  BY DEF RefusalInv
<1>2. Untouched(c) => Untouched(c)'
  BY CampaignSends DEF Untouched
<1>3. Unstarted(c)' = Unstarted(c)
  BY DEF Unstarted
<1>4. DraftUntouched(c)'
  BY <1>1, <1>2, <1>3 DEF Kept, DraftUntouched
<1>5. FirstStart(c)'
  BY <1>1, <1>2, <1>3 DEF Kept, FirstStart
<1>6. RefusedUntouched(c)'
  BY <1>1, <1>2, <1>3 DEF Kept, RefusedUntouched
<1> QED
  BY <1>4, <1>5, <1>6 DEF Kept

(* A step of the start of one campaign leaves the others alone.            *)
LEMMA RefusalElsewhere ==
    ASSUME TypeOK, RefusalInv, NEW c \in Campaigns,
           \A d \in Campaigns \ {c} :
             /\ start'[d] = start[d]
             /\ campaign'[d] = campaign[d]
             /\ d \in refused' <=> d \in refused
             /\ d \in restarted' <=> d \in restarted
             /\ \A r \in d : send'[r] = send[r] /\ sentIn'[r] = sentIn[r],
           c \notin restarted' => Kept(c)'
    PROVE  RefusalInv'
<1> SUFFICES ASSUME NEW d \in Campaigns, d \notin restarted', d # c
             PROVE  Kept(d)'
  BY DEF RefusalInv
<1>1. Kept(d)
  BY DEF RefusalInv
<1>2. (Untouched(d)' <=> Untouched(d)) /\ (Unstarted(d)' <=> Unstarted(d))
  BY DEF Untouched, Unstarted
<1>3. DraftUntouched(d)' /\ RefusedUntouched(d)'
  BY <1>1, <1>2 DEF Kept, DraftUntouched, RefusedUntouched
<1>4. FirstStart(d)'
  BY <1>1, <1>2 DEF Kept, FirstStart
<1> QED
  BY <1>3, <1>4 DEF Kept

LEMMA RefusalCampaign ==
    ASSUME TypeOK, RefusalInv, NEW c \in Campaigns, CampaignStep(c)
    PROVE  RefusalInv'
<1> USE DEF queues, sends, meters, history
<1>1. ASSUME c \notin restarted PROVE Kept(c)
  BY <1>1 DEF RefusalInv
<1>2. start[c] \in Starts /\ campaign[c] \in CampaignStatuses
      /\ \A d \in Campaigns \ {c} : d \cap c = {} /\ d \subseteq Refs
  BY CampaignSends, UsageAssumption DEF TypeOK, UsageAssumption
<1>3. CASE StartCampaign(c)
  <2>1. campaign'[c] = "running" /\ start'[c].waiting = start[c].waiting + 1
        /\ start'[c].deciding = start[c].deciding
    BY <1>3 DEF StartCampaign, EnqueueStart, TypeOK
  <2>2. c \notin restarted => start[c].waiting = 0 /\ ~start[c].deciding
                              /\ Untouched(c)' /\ c \notin refused'
    BY <1>1, <1>3 DEF StartCampaign, Kept, DraftUntouched, Unstarted, Untouched
  <2>3. c \notin restarted => Kept(c)'
    BY <2>1, <2>2 DEF Kept, DraftUntouched, FirstStart, RefusedUntouched, Unstarted
  <2> QED
    BY <1>2, <1>3, <2>3, RefusalElsewhere DEF StartCampaign, EnqueueStart, TypeOK
<1>4. CASE PauseCampaign(c)
  BY <1>4, RefusalKept DEF PauseCampaign, TypeOK
<1>5. CASE ResumeCampaign(c)
  BY <1>2, <1>5, RefusalElsewhere DEF ResumeCampaign, EnqueueStart, TypeOK
<1>6. CASE SkipStart(c)
  <2>1. start'[c].waiting = start[c].waiting - 1 /\ start'[c].deciding = FALSE
    BY <1>6 DEF SkipStart, TakesStart, TypeOK
  <2>2. c \notin restarted => start[c].waiting = 1 /\ c \notin refused
                              /\ campaign[c] # "draft"
    BY <1>1, <1>6 DEF SkipStart, TakesStart, Kept, FirstStart, DraftUntouched, Unstarted
  <2>3. c \notin restarted' => Kept(c)'
    BY <1>6, <2>1, <2>2
       DEF SkipStart, Kept, DraftUntouched, FirstStart, RefusedUntouched, Unstarted
  <2> QED
    BY <1>2, <1>6, <2>3, RefusalElsewhere DEF SkipStart, TakesStart, TypeOK
<1>7. CASE BeginStart(c)
  <2>1. start'[c].waiting = start[c].waiting - 1 /\ start'[c].deciding = TRUE
    BY <1>7 DEF BeginStart, TakesStart, TypeOK
  <2>2. c \notin restarted => start[c].waiting = 1 /\ c \notin refused' /\ Untouched(c)'
                              /\ campaign'[c] # "draft"
    BY <1>1, <1>7 DEF BeginStart, TakesStart, Kept, FirstStart, Unstarted, Untouched
  <2>3. c \notin restarted' => Kept(c)'
    BY <1>7, <2>1, <2>2
       DEF BeginStart, Kept, DraftUntouched, FirstStart, RefusedUntouched, Unstarted
  <2> QED
    BY <1>2, <1>7, <2>3, RefusalElsewhere DEF BeginStart, TakesStart, TypeOK
<1>8. ASSUME Decided(c) PROVE start'[c].waiting = start[c].waiting /\ ~start'[c].deciding
  BY <1>8 DEF Decided, TypeOK
<1>9. ASSUME start[c].deciding, c \notin restarted
      PROVE  start[c].waiting = 0 /\ Untouched(c) /\ c \notin refused /\ campaign[c] # "draft"
  BY <1>1, <1>9 DEF Kept, FirstStart, DraftUntouched, Unstarted
<1>10. CASE RefuseCampaign(c)
  <2>1. start[c].deciding /\ restarted' = restarted /\ Unstarted(c)' = (start[c].waiting = 0)
    BY <1>8, <1>10 DEF RefuseCampaign, Unstarted
  <2>2. Untouched(c)' <=> Untouched(c)
    BY <1>10 DEF RefuseCampaign, Untouched
  <2>3. campaign'[c] # "draft" \/ campaign[c] = "draft"
    BY <1>10 DEF RefuseCampaign, TypeOK
  <2>4. c \in refused' => c \in refused \/ campaign'[c] = "cancelled"
    BY <1>10 DEF RefuseCampaign, TypeOK
  <2>5. c \notin restarted' => Kept(c)'
    BY <1>9, <2>1, <2>2, <2>3, <2>4
       DEF Kept, DraftUntouched, FirstStart, RefusedUntouched
  <2> QED
    BY <1>2, <1>10, <2>5, RefusalElsewhere DEF RefuseCampaign, Decided, TypeOK
<1>11. CASE FanOut(c)
  <2>1. start[c].deciding /\ UNCHANGED <<restarted, campaign, refused>>
        /\ Unstarted(c)' = (start[c].waiting = 0)
    BY <1>8, <1>11 DEF FanOut, Unstarted
  <2>2. c \notin restarted' => Kept(c)'
    BY <1>9, <2>1 DEF Kept, DraftUntouched, FirstStart, RefusedUntouched
  <2>3. \A d \in Campaigns \ {c} : \A r \in d : send'[r] = send[r] /\ sentIn'[r] = sentIn[r]
    BY <1>2, <1>11 DEF FanOut, TypeOK
  <2> QED
    BY <1>11, <2>1, <2>2, <2>3, RefusalElsewhere DEF FanOut, Decided, TypeOK
<1>12. CASE StartFails(c)
  BY <1>2, <1>12, RefusalElsewhere DEF StartFails, TypeOK
<1>13. ASSUME NEW r \in Recipients, SkipBatch(c, r) \/ SendBatch(c, r) PROVE RefusalInv'
  <2>1. send[r] = "queued" /\ r \in c
    BY <1>13 DEF SkipBatch, SendBatch
  <2>2. \A q \in Refs : q # r => send'[q] = send[q] /\ sentIn'[q] = sentIn[q]
    BY <1>13 DEF SkipBatch, SendBatch, Goes, TypeOK
  <2>3. UNCHANGED <<start, refused, restarted, campaign>>
    BY <1>13 DEF SkipBatch, SendBatch
  <2> QED
    BY <2>1, <2>2, <2>3, RefusalKept DEF Refs
<1> QED
  BY <1>3, <1>4, <1>5, <1>6, <1>7, <1>10, <1>11, <1>12, <1>13 DEF CampaignStep

LEMMA RefusalNext == TypeOK /\ RefusalInv /\ [Next]_vars => RefusalInv'
<1> SUFFICES ASSUME TypeOK, RefusalInv, [Next]_vars PROVE RefusalInv'
  OBVIOUS
<1> USE DEF queues, sends, meters, history
<1>1. CASE Subscription
  BY <1>1, RefusalKept DEF Subscription
<1>2. ASSUME NEW m \in Messages,
             RequestMessage(m) \/ AuthorizeMessage(m) \/ SendMessage(m)
      PROVE  RefusalInv'
  <2>1. m \in Refs /\ m \notin Recipients
    BY UsageAssumption DEF UsageAssumption, Refs
  <2>2. \A q \in Refs : q # m => send'[q] = send[q] /\ sentIn'[q] = sentIn[q]
    BY <1>2 DEF RequestMessage, AuthorizeMessage, SendMessage, Goes, TypeOK
  <2>3. UNCHANGED <<start, refused, restarted, campaign>>
    BY <1>2 DEF RequestMessage, AuthorizeMessage, SendMessage
  <2> QED
    BY <2>1, <2>2, <2>3, RefusalKept DEF Refs
<1>3. ASSUME NEW r \in Refs, SendStep(r) PROVE RefusalInv'
  <2>1. UNCHANGED <<start, refused, restarted, sentIn>>
    BY <1>3 DEF SendStep, SendRejected, RecordUsage, RecordEvents, UsageLost
  <2>2. campaign' = campaign \/ Progress(r)
    BY <1>3 DEF SendStep, SendRejected, RecordUsage, RecordEvents, UsageLost
  <2>3. \A c \in Campaigns : campaign'[c] = campaign[c]
          \/ (campaign[c] = "running" /\ campaign'[c] = "finished")
    BY <2>2 DEF Progress
  <2>4. send[r] # "new"
    BY <1>3 DEF SendStep, SendRejected, RecordUsage, RecordEvents, UsageLost
  <2>5. \A q \in Refs : q # r => send'[q] = send[q]
    BY <1>3 DEF SendStep, SendRejected, RecordUsage, RecordEvents, UsageLost, Goes, TypeOK
  <2> QED
    BY <2>1, <2>3, <2>4, <2>5, RefusalKept DEF Refs
<1>4. CASE RollupStep
  BY <1>4, RefusalKept DEF RollupStep, SumEvents, CommitRollup, RollupFails
<1>5. CASE UNCHANGED vars
  BY <1>5, RefusalKept DEF vars
<1> QED
  BY <1>1, <1>2, <1>3, <1>4, <1>5, RefusalCampaign DEF Next

(* A campaign that the gate refuses at its first start has mailed nobody   *)
(* and never will (RefusedBeforeMail).                                     *)
THEOREM RefusalSendsNothing == Spec => []RefusedBeforeMail
<1>1. TypeOK /\ RefusalInv => RefusedBeforeMail
  BY DEF TypeOK, RefusalInv, Kept, RefusedUntouched, Untouched, RefusedBeforeMail
<1>2. TypeOK /\ RefusalInv /\ [Next]_vars => (TypeOK /\ RefusalInv)'
  BY TypeNext, RefusalNext
<1>3. Init => TypeOK /\ RefusalInv
  BY TypeInit, RefusalInit
<1> QED
  BY <1>1, <1>2, <1>3, PTL DEF Spec
-----------------------------------------------------------------------------
(* The quota.  The gate reads the subscription, then the usage, and the    *)
(* sends it lets through come later: that they fit rests on what may not   *)
(* happen in between.                                                      *)

(* Nothing has disturbed the gate: its sends did not overlap and no usage  *)
(* was lost.                                                               *)
Undisturbed == ~Metered /\ ~overlapped /\ faults = 0 /\ Missed = {}

(* A send is accepted once, after the gate; its event is never charged to  *)
(* a period that has not begun.                                            *)
PathInv ==
    \A r \in Refs :
      /\ send[r] \in {"new", "queued", "gate", "allowed"} => sentIn[r] = 0
      /\ event[r].state # "none" => event[r].period <= sub.period

(* What was sent and is over was metered, while there is a subscription.   *)
SettledInv ==
    faults = 0 /\ Found(sub) =>
        \A r \in Refs : send[r] = "done" /\ sentIn[r] >= 1 => event[r].state # "none"

(* One campaign or message is on its way at a time.                        *)
AloneInv ==
    ~overlapped =>
        /\ \A c, d \in Campaigns : UnderWay(c) /\ UnderWay(d) => c = d
        /\ \A c \in Campaigns, m \in Messages : ~(UnderWay(c) /\ Sending(m))
        /\ \A m, n \in Messages : Sending(m) /\ Sending(n) => m = n

(* The subscription s that somebody has read: whatever others than own     *)
(* sent by then is over, and metered in that period if sent in it.         *)
ReadHolds(s, own) ==
    s.state = "active" =>
        \A r \in Refs \ own :
          /\ sentIn[r] <= s.period
          /\ sentIn[r] = s.period => event[r].state # "none" /\ event[r].period = s.period

ReadInv ==
    Undisturbed =>
        /\ \A c \in Campaigns : start[c].deciding => ReadHolds(seen[c], c)
        /\ \A m \in Messages : send[m] = "gate" => ReadHolds(seen[m], {m})

Sent(p) == {r \in Refs : sentIn[r] = p}
Cleared == {r \in Refs : send[r] \in {"queued", "allowed"}}

(* What the gate has let through fits, together with what was sent.        *)
RoomInv ==
    Undisturbed =>
        /\ Cardinality(Sent(sub.period) \cup Cleared) <= Allowance
        /\ \A p \in Periods : Cardinality(Sent(p)) <= Allowance

QuotaInv == PathInv /\ SettledInv /\ AloneInv /\ ReadInv /\ RoomInv

(* What a step does to one send.                                           *)
Quiet(q) == sentIn'[q] = sentIn[q] /\ event'[q] = event[q]

StaysPut(q) ==
    /\ send'[q] = send[q]
    /\ sentIn'[q] = sentIn[q]
    /\ event'[q].state = "none" <=> event[q].state = "none"
    /\ event'[q].period = event[q].period

IsQueued(q) ==
    /\ Quiet(q) /\ send[q] = "new" /\ send'[q] = "queued"
    /\ \E c \in Campaigns : q \in c /\ FanOut(c)
IsRequested(q) == Quiet(q) /\ send[q] = "new" /\ send'[q] = "gate" /\ q \in Messages /\ RequestMessage(q)
IsAuthorized(q) ==
    Quiet(q) /\ send[q] = "gate" /\ send'[q] = "allowed" /\ q \in Messages /\ AuthorizeMessage(q)
IsDropped(q) ==
    /\ Quiet(q) /\ send[q] \in {"queued", "gate", "allowed"}
    /\ \/ send[q] = "queued" /\ send'[q] = "new"
       \/ send'[q] = "done"
IsAccepted(q) ==
    /\ send[q] \in {"queued", "allowed"} /\ send'[q] = "accepted"
    /\ sentIn'[q] = sub.period /\ event'[q] = event[q] /\ sub' = sub
IsLookedUp(q) == Quiet(q) /\ send[q] = "accepted" /\ send'[q] = "recording"
IsUnmetered(q) ==
    /\ Quiet(q) /\ send[q] \in {"accepted", "recording"} /\ send'[q] = "done"
    /\ \/ ~Found(sub) /\ send[q] = "accepted"
       \/ faults' # 0
IsRecorded(q) ==
    /\ send[q] = "recording" /\ send'[q] = "done" /\ sentIn'[q] = sentIn[q]
    /\ event'[q].state # "none" /\ event'[q].period = seen[q].period /\ sub' = sub

Moves(q) ==
    \/ StaysPut(q) \/ IsQueued(q) \/ IsRequested(q) \/ IsAuthorized(q) \/ IsDropped(q)
    \/ IsAccepted(q) \/ IsLookedUp(q) \/ IsUnmetered(q) \/ IsRecorded(q)

LEMMA StayingMoves ==
    ASSUME NEW q, send'[q] = send[q], sentIn'[q] = sentIn[q], event'[q] = event[q]
    PROVE  Moves(q)
BY DEF Moves, StaysPut

LEMMA CampaignMoves ==
    ASSUME TypeOK, NEW c \in Campaigns, CampaignStep(c), NEW q \in Refs
    PROVE  Moves(q)
<1> USE DEF queues, sends, meters, history
<1>0. {"new", "queued", "accepted"} \subseteq SendStates
  BY DEF SendStates
<1>1. CASE UNCHANGED <<send, sentIn, event>>
  BY <1>1, StayingMoves
<1>2. CASE FanOut(c)
  <2>1. send'[q] = (IF q \in c /\ send[q] = "new" THEN "queued" ELSE send[q]) /\ Quiet(q)
    BY <1>2 DEF FanOut, Quiet
  <2>2. CASE q \in c /\ send[q] = "new"
    BY <1>2, <2>1, <2>2 DEF Moves, IsQueued
  <2>3. QED
    BY <2>1, <2>2, StayingMoves DEF Quiet
<1>3. ASSUME NEW r \in Recipients, SkipBatch(c, r) PROVE Moves(q)
  <2>1. /\ send[r] = "queued" /\ r \in Refs /\ Quiet(q)
        /\ send'[q] = IF q = r THEN "new" ELSE send[q]
    BY <1>0, <1>3, GoesAt DEF SkipBatch, Refs, Quiet
  <2>2. CASE q = r
    BY <2>1, <2>2 DEF Moves, IsDropped
  <2>3. QED
    BY <2>1, <2>2, StayingMoves DEF Quiet
<1>4. ASSUME NEW r \in Recipients, SendBatch(c, r) PROVE Moves(q)
  <2>1. /\ send[r] = "queued" /\ r \in Refs /\ event' = event /\ sub' = sub
        /\ send'[q] = IF q = r THEN "accepted" ELSE send[q]
    BY <1>0, <1>4, GoesAt DEF SendBatch, Refs
  <2>2. sentIn'[q] = IF q = r THEN sub.period ELSE sentIn[q]
    BY <1>4 DEF SendBatch, TypeOK
  <2>3. CASE q = r
    BY <2>1, <2>2, <2>3 DEF Moves, IsAccepted
  <2>4. QED
    BY <2>1, <2>2, <2>3, StayingMoves
<1>5. QED
  BY <1>1, <1>2, <1>3, <1>4 DEF CampaignStep, StartCampaign, PauseCampaign, ResumeCampaign,
     SkipStart, BeginStart, RefuseCampaign, StartFails

LEMMA MessageMoves ==
    ASSUME TypeOK, NEW m \in Messages,
           RequestMessage(m) \/ AuthorizeMessage(m) \/ SendMessage(m),
           NEW q \in Refs
    PROVE  Moves(q)
<1> USE DEF queues, sends, meters, history
<1>0. m \in Refs /\ {"gate", "allowed", "done", "accepted"} \subseteq SendStates
  BY DEF SendStates, Refs
<1>1. CASE RequestMessage(m)
  <2>1. Quiet(q) /\ send[m] = "new" /\ send'[q] = IF q = m THEN "gate" ELSE send[q]
    BY <1>0, <1>1, GoesAt DEF RequestMessage, Quiet
  <2>2. CASE q = m
    BY <1>1, <2>1, <2>2 DEF Moves, IsRequested
  <2>3. QED
    BY <2>1, <2>2, StayingMoves DEF Quiet
<1>2. CASE AuthorizeMessage(m)
  <2>1. Quiet(q) /\ send[m] = "gate"
    BY <1>2 DEF AuthorizeMessage, Quiet
  <2>2. PICK s \in {"allowed", "done"} : Goes(m, s)
    BY <1>2 DEF AuthorizeMessage
  <2>3. send'[q] = IF q = m THEN s ELSE send[q]
    BY <1>0, <2>2, GoesAt
  <2>4. CASE q = m
    BY <1>2, <2>1, <2>3, <2>4 DEF Moves, IsAuthorized, IsDropped
  <2>5. QED
    BY <2>1, <2>3, <2>4, StayingMoves DEF Quiet
<1>3. CASE SendMessage(m)
  <2>1. /\ send[m] = "allowed" /\ event' = event /\ sub' = sub
        /\ send'[q] = IF q = m THEN "accepted" ELSE send[q]
    BY <1>0, <1>3, GoesAt DEF SendMessage
  <2>2. sentIn'[q] = IF q = m THEN sub.period ELSE sentIn[q]
    BY <1>0, <1>3 DEF SendMessage, TypeOK
  <2>3. CASE q = m
    BY <2>1, <2>2, <2>3 DEF Moves, IsAccepted
  <2>4. QED
    BY <2>1, <2>2, <2>3, StayingMoves
<1>4. QED
  BY <1>1, <1>2, <1>3

LEMMA SendMoves ==
    ASSUME TypeOK, SourceInv, NEW r \in Refs, SendStep(r), NEW q \in Refs
    PROVE  Moves(q)
<1> USE DEF queues, sends, meters, history
<1>0. {"recording", "done"} \subseteq SendStates /\ faults \in Nat
  BY UsageAssumption DEF SendStates, TypeOK, UsageAssumption
<1>1. CASE SendRejected(r)
  <2>1. /\ send[r] \in {"queued", "allowed"} /\ Quiet(q)
        /\ send'[q] = IF q = r THEN "done" ELSE send[q]
    BY <1>0, <1>1, GoesAt DEF SendRejected, Quiet
  <2>2. CASE q = r
    BY <2>1, <2>2 DEF Moves, IsDropped
  <2>3. QED
    BY <2>1, <2>2, StayingMoves DEF Quiet
<1>2. CASE RecordUsage(r) /\ Found(sub)
  <2>1. /\ send[r] = "accepted" /\ Quiet(q)
        /\ send'[q] = IF q = r THEN "recording" ELSE send[q]
    BY <1>0, <1>2, GoesAt DEF RecordUsage, Quiet
  <2>2. CASE q = r
    BY <2>1, <2>2 DEF Moves, IsLookedUp
  <2>3. QED
    BY <2>1, <2>2, StayingMoves DEF Quiet
<1>3. CASE RecordUsage(r) /\ ~Found(sub)
  <2>1. /\ send[r] = "accepted" /\ Quiet(q)
        /\ send'[q] = IF q = r THEN "done" ELSE send[q]
    BY <1>0, <1>3, GoesAt DEF RecordUsage, Quiet
  <2>2. CASE q = r
    BY <1>3, <2>1, <2>2 DEF Moves, IsUnmetered
  <2>3. QED
    BY <2>1, <2>2, StayingMoves DEF Quiet
<1>4. CASE RecordEvents(r)
  <2>1. /\ send[r] = "recording" /\ sentIn' = sentIn /\ sub' = sub
        /\ send'[q] = IF q = r THEN "done" ELSE send[q]
    BY <1>0, <1>4, GoesAt DEF RecordEvents
  <2>2. event[r].state = "none"
    BY <2>1 DEF SourceInv
  <2>3. event'[q] = IF q = r THEN Recorded(r) ELSE event[q]
    BY <1>4, <2>2 DEF RecordEvents, TypeOK
  <2>4. CASE q = r
    BY <2>1, <2>3, <2>4 DEF Moves, IsRecorded, Recorded
  <2>5. QED
    BY <2>1, <2>3, <2>4, StayingMoves
<1>5. CASE UsageLost(r)
  <2>1. /\ send[r] \in {"accepted", "recording"} /\ Quiet(q) /\ faults' = faults + 1
        /\ send'[q] = IF q = r THEN "done" ELSE send[q]
    BY <1>0, <1>5, GoesAt DEF UsageLost, Quiet
  <2>2. faults' # 0
    BY <1>0, <2>1
  <2>3. CASE q = r
    BY <2>1, <2>2, <2>3 DEF Moves, IsUnmetered
  <2>4. QED
    BY <2>1, <2>3, StayingMoves DEF Quiet
<1>6. QED
  BY <1>1, <1>2, <1>3, <1>4, <1>5 DEF SendStep

LEMMA RollupMoves ==
    ASSUME TypeOK, RollupStep, NEW q \in Refs
    PROVE  Moves(q)
<1>1. /\ event'[q].period = event[q].period
      /\ event'[q].state = "none" <=> event[q].state = "none"
  <2>1. CASE CommitRollup
    BY <2>1 DEF CommitRollup, Stamped, TypeOK, Events
  <2>2. CASE event' = event
    BY <2>2
  <2>3. CommitRollup \/ event' = event
    BY DEF RollupStep, SumEvents, RollupFails, meters
  <2>4. QED
    BY <2>1, <2>2, <2>3
<1>2. UNCHANGED <<send, sentIn>>
  BY DEF RollupStep, SumEvents, CommitRollup, RollupFails, sends
<1>3. QED
  BY <1>1, <1>2 DEF Moves, StaysPut

LEMMA EachMoves ==
    ASSUME TypeOK, SourceInv, [Next]_vars, NEW q \in Refs
    PROVE  Moves(q)
<1>1. CASE Subscription \/ UNCHANGED vars
  BY <1>1, StayingMoves DEF Subscription, vars, sends, meters
<1>2. QED
  BY <1>1, CampaignMoves, MessageMoves, SendMoves, RollupMoves DEF Next

(* What no step takes back.                                                *)
LEMMA OneWay ==
    ASSUME TypeOK, [Next]_vars
    PROVE  /\ sub'.period >= sub.period /\ sub'.period \in Nat
           /\ Found(sub') => Found(sub)
           /\ sub' = sub \/ Subscription
           /\ overlapped => overlapped'
           /\ faults' = 0 => faults = 0
           /\ Missed \subseteq Missed'
<1> USE DEF queues, sends, meters, history
<1>1. sub' = sub \/ Subscription
  BY DEF Next, vars, CampaignStep, StartCampaign, PauseCampaign, ResumeCampaign, SkipStart,
     BeginStart, RefuseCampaign, FanOut, StartFails, SkipBatch, SendBatch, RequestMessage,
     AuthorizeMessage, SendMessage, SendStep, SendRejected, RecordUsage, RecordEvents,
     UsageLost, RollupStep, SumEvents, CommitRollup, RollupFails
<1>2. sub'.period >= sub.period /\ sub'.period \in Nat
  <2>1. CASE sub' = sub
    BY <2>1, PeriodTypes
  <2>2. CASE Subscription
    BY <2>2, PeriodTypes DEF Subscription, Activate, Lapse, Periods, TypeOK, Subscriptions
  <2>3. QED
    BY <1>1, <2>1, <2>2
<1>3. Found(sub') => Found(sub)
  BY <1>1 DEF Subscription, Activate, Lapse, Found
<1>4. overlapped => overlapped'
  BY DEF Next, vars, Subscription, CampaignStep, StartCampaign, PauseCampaign, ResumeCampaign,
     SkipStart, BeginStart, RefuseCampaign, FanOut, StartFails, SkipBatch, SendBatch,
     RequestMessage, AuthorizeMessage, SendMessage, SendStep, SendRejected, RecordUsage,
     RecordEvents, UsageLost, RollupStep, SumEvents, CommitRollup, RollupFails
<1>5. faults' = faults \/ faults' = faults + 1
  BY DEF Next, vars, Subscription, CampaignStep, StartCampaign, PauseCampaign, ResumeCampaign,
     SkipStart, BeginStart, RefuseCampaign, FanOut, StartFails, SkipBatch, SendBatch,
     RequestMessage, AuthorizeMessage, SendMessage, SendStep, SendRejected, RecordUsage,
     RecordEvents, UsageLost, RollupStep, SumEvents, CommitRollup, RollupFails
<1>6. faults' = 0 => faults = 0
  <2>1. faults \in Nat
    BY UsageAssumption DEF TypeOK, UsageAssumption
  <2>2. QED
    BY <1>5, <2>1
<1>7. ASSUME NEW r \in Missed PROVE r \in Missed'
  <2>1. r \in Refs /\ event[r].state = "missed"
    BY DEF Missed
  <2>2. CASE CommitRollup
    BY <2>1, <2>2 DEF CommitRollup, Stamped, Missed
  <2>3. CASE event'[r] = event[r]
    BY <2>1, <2>3 DEF Missed
  <2>4. CommitRollup \/ event'[r] = event[r]
    BY <2>1, EventsGrow DEF RollupStep, SumEvents, RollupFails
  <2>5. QED
    BY <2>2, <2>3, <2>4
<1>8. QED
  BY <1>1, <1>2, <1>3, <1>4, <1>6, <1>7

LEMMA StaysUndisturbed ==
    ASSUME TypeOK, [Next]_vars, Undisturbed'
    PROVE  Undisturbed
<1>1. Missed \subseteq Missed' /\ (overlapped => overlapped') /\ (faults' = 0 => faults = 0)
  BY OneWay
<1>2. QED
  BY <1>1 DEF Undisturbed

LEMMA QuotaInit == Init => QuotaInv
<1> SUFFICES ASSUME Init PROVE QuotaInv
  OBVIOUS
<1>1. /\ \A r \in Refs : send[r] = "new" /\ sentIn[r] = 0 /\ event[r].state = "none"
      /\ \A c \in Campaigns : campaign[c] = "draft" /\ start[c].waiting = 0 /\ ~start[c].deciding
  BY DEF Init, NoEvent, NoStart
<1>2. Messages \subseteq Refs /\ \A c \in Campaigns : c \subseteq Refs
  BY CampaignSends DEF Refs
<1>3. PathInv /\ SettledInv
  BY <1>1 DEF PathInv, SettledInv
<1>4. AloneInv
  BY <1>1, <1>2 DEF AloneInv, UnderWay, Sending
<1>5. ReadInv
  BY <1>1, <1>2 DEF ReadInv
<1>6. Cleared = {} /\ \A p \in Nat \ {0} : Sent(p) = {}
  BY <1>1 DEF Cleared, Sent
<1>7. sub.period = 1 /\ Periods \subseteq Nat \ {0} /\ Allowance \in Nat
  BY UsageAssumption DEF Init, NewSubscription, Periods, UsageAssumption
<1>8. RoomInv
  BY <1>6, <1>7, FS_EmptySet DEF RoomInv
<1>9. QED
  BY <1>3, <1>4, <1>5, <1>8 DEF QuotaInv

LEMMA PathNext ==
    ASSUME TypeOK, SourceInv, PathInv, [Next]_vars
    PROVE  PathInv'
<1> SUFFICES ASSUME NEW q \in Refs
             PROVE  /\ send'[q] \in {"new", "queued", "gate", "allowed"} => sentIn'[q] = 0
                    /\ event'[q].state # "none" => event'[q].period <= sub'.period
  BY DEF PathInv
<1>1. /\ Moves(q) /\ sub'.period >= sub.period /\ sub'.period \in Nat
      /\ sub.period \in Nat /\ event[q].period \in Nat
      /\ seen[q].period \in Nat /\ seen[q].period <= sub.period
  BY EachMoves, OneWay, PeriodTypes DEF SourceInv
<1>2. /\ send[q] \in {"new", "queued", "gate", "allowed"} => sentIn[q] = 0
      /\ event[q].state # "none" => event[q].period <= sub.period
  BY DEF PathInv
<1>3. send'[q] \in {"new", "queued", "gate", "allowed"} => sentIn'[q] = 0
  BY <1>1, <1>2 DEF Moves, StaysPut, IsQueued, IsRequested, IsAuthorized, IsDropped, IsAccepted,
     IsLookedUp, IsUnmetered, IsRecorded, Quiet
<1>4. \/ event'[q].state = "none"
      \/ event[q].state # "none" /\ event'[q].period = event[q].period
      \/ event'[q].period = seen[q].period
  BY <1>1 DEF Moves, StaysPut, IsQueued, IsRequested, IsAuthorized, IsDropped, IsAccepted,
     IsLookedUp, IsUnmetered, IsRecorded, Quiet
<1>5. event'[q].state # "none" => event'[q].period <= sub'.period
  BY <1>1, <1>2, <1>4
<1>6. QED
  BY <1>3, <1>5

LEMMA SettledNext ==
    ASSUME TypeOK, SourceInv, PathInv, SettledInv, [Next]_vars
    PROVE  SettledInv'
<1> SUFFICES ASSUME faults' = 0, Found(sub'), NEW q \in Refs, send'[q] = "done", sentIn'[q] >= 1
             PROVE  event'[q].state # "none"
  BY DEF SettledInv, Found
<1>1. faults = 0 /\ Found(sub)
  BY OneWay
<1>2. Moves(q)
  BY EachMoves
<1>3. send[q] = "done" /\ sentIn[q] >= 1 => event[q].state # "none"
  BY <1>1 DEF SettledInv
<1>4. send[q] \in {"new", "queued", "gate", "allowed"} => sentIn[q] = 0
  BY DEF PathInv
<1>5. CASE StaysPut(q)
  BY <1>3, <1>5 DEF StaysPut
<1>6. CASE IsDropped(q)
  BY <1>4, <1>6 DEF IsDropped, Quiet
<1>7. CASE IsUnmetered(q)
  BY <1>1, <1>7 DEF IsUnmetered
<1>8. CASE IsRecorded(q)
  BY <1>8 DEF IsRecorded
<1>9. QED
  BY <1>2, <1>5, <1>6, <1>7, <1>8 DEF Moves, IsQueued, IsRequested, IsAuthorized, IsAccepted,
     IsLookedUp

-----------------------------------------------------------------------------
(* One at a time.                                                          *)

LEMMA OneRoster ==
    /\ Messages \subseteq Refs /\ Messages \cap Recipients = {}
    /\ \A q \in Refs : q \in Messages \/ \E c \in Campaigns : q \in c
    /\ \A c \in Campaigns : \A q \in c : q \in Refs /\ q \notin Messages
    /\ \A c, d \in Campaigns : \A q \in c : q \in d => c = d
<1>1. /\ Messages \subseteq Refs /\ Messages \cap Recipients = {}
      /\ \A q \in Refs : q \in Messages \/ \E c \in Campaigns : q \in c
      /\ \A c \in Campaigns : \A q \in c : q \in Refs /\ q \in Recipients
  BY UsageAssumption DEF UsageAssumption, Refs, Recipients
<1>2. \A c, d \in Campaigns : \A q \in c : q \in d => c = d
  BY UsageAssumption DEF UsageAssumption
<1>3. QED
  BY <1>1, <1>2

(* While one campaign, or one message, is on its way, the sends of the     *)
(* others stand still.                                                     *)
LEMMA OthersStand ==
    ASSUME AloneInv, ~overlapped
    PROVE  /\ \A c \in Campaigns, q \in Refs : UnderWay(c) /\ q \notin c => ~Sending(q)
           /\ \A m \in Messages, q \in Refs : Sending(m) /\ q # m => ~Sending(q)
<1>1. \A c \in Campaigns : \A q \in c : Sending(q) => UnderWay(c)
  BY DEF UnderWay
<1>2. \A q \in Refs : q \in Messages \/ \E c \in Campaigns : q \in c
  BY OneRoster
<1>3. /\ \A c, d \in Campaigns : UnderWay(c) /\ UnderWay(d) => c = d
      /\ \A c \in Campaigns, m \in Messages : ~(UnderWay(c) /\ Sending(m))
      /\ \A m, n \in Messages : Sending(m) /\ Sending(n) => m = n
  BY DEF AloneInv
<1>4. QED
  BY <1>1, <1>2, <1>3

LEMMA AloneKept ==
    ASSUME AloneInv, overlapped => overlapped',
           \A c \in Campaigns : UnderWay(c)' => UnderWay(c),
           \A m \in Messages : Sending(m)' => Sending(m)
    PROVE  AloneInv'
BY DEF AloneInv

(* A send sets out with its campaign, or as the request of a message.      *)
LEMMA SetsOut ==
    ASSUME TypeOK, SourceInv, [Next]_vars, NEW q \in Refs, Sending(q)'
    PROVE  \/ Sending(q)
           \/ q \in Messages /\ RequestMessage(q)
           \/ \E c \in Campaigns : q \in c /\ FanOut(c)
BY EachMoves DEF Sending, Moves, StaysPut, IsQueued, IsRequested, IsAuthorized, IsDropped,
   IsAccepted, IsLookedUp, IsUnmetered, IsRecorded, Quiet

LEMMA CampaignsSetOut ==
    ASSUME TypeOK, SourceInv, [Next]_vars, NEW c \in Campaigns, UnderWay(c)'
    PROVE  UnderWay(c) \/ StartCampaign(c) \/ ResumeCampaign(c)
<1> USE DEF queues, sends, meters, history
<1>1. CASE \E r \in c : Sending(r)'
  <2>1. PICK r \in c : Sending(r)'
    BY <1>1
  <2>2. r \in Refs /\ r \notin Messages /\ \A d \in Campaigns : r \in d => d = c
    BY OneRoster
  <2>3. Sending(r) \/ FanOut(c)
    BY <2>1, <2>2, SetsOut
  <2>4. QED
    BY <2>3 DEF UnderWay, FanOut
<1>2. CASE campaign'[c] = "running" \/ start'[c].waiting > 0 \/ start'[c].deciding
  <2>1. CASE campaign' = campaign /\ start' = start
    BY <1>2, <2>1 DEF UnderWay
  <2>2. ASSUME NEW d \in Campaigns, CampaignStep(d)
        PROVE  UnderWay(c) \/ StartCampaign(c) \/ ResumeCampaign(c)
    <3>1. CASE StartCampaign(d) \/ ResumeCampaign(d)
      BY <1>2, <3>1 DEF StartCampaign, ResumeCampaign, EnqueueStart, UnderWay, TypeOK
    <3>2. CASE PauseCampaign(d)
      BY <1>2, <3>2 DEF PauseCampaign, UnderWay, TypeOK
    <3>3. CASE SkipStart(d) \/ BeginStart(d)
      BY <1>2, <3>3 DEF SkipStart, BeginStart, TakesStart, UnderWay, TypeOK
    <3>4. CASE RefuseCampaign(d) \/ FanOut(d)
      BY <1>2, <3>4 DEF RefuseCampaign, FanOut, Decided, UnderWay, TypeOK
    <3>5. CASE StartFails(d)
      BY <1>2, <3>5 DEF StartFails, UnderWay, TypeOK
    <3>6. CASE \E r \in Recipients : SkipBatch(d, r) \/ SendBatch(d, r)
      BY <2>1, <3>6 DEF SkipBatch, SendBatch
    <3>7. QED
      BY <2>2, <3>1, <3>2, <3>3, <3>4, <3>5, <3>6 DEF CampaignStep
  <2>3. ASSUME NEW r \in Refs, SendStep(r) PROVE UnderWay(c)
    <3>1. start' = start /\ (campaign' = campaign \/ Progress(r))
      BY <2>3 DEF SendStep, SendRejected, RecordUsage, RecordEvents, UsageLost
    <3>2. campaign'[c] = "running" => campaign[c] = "running"
      BY <3>1 DEF Progress
    <3>3. QED
      BY <1>2, <3>1, <3>2 DEF UnderWay
  <2>4. QED
    BY <2>1, <2>2, <2>3 DEF Next, vars, Subscription, RequestMessage, AuthorizeMessage, SendMessage,
       RollupStep, SumEvents, CommitRollup, RollupFails
<1>3. QED
  BY <1>1, <1>2 DEF UnderWay, Sending

LEMMA AloneNext ==
    ASSUME TypeOK, SourceInv, AloneInv, [Next]_vars
    PROVE  AloneInv'
<1>1. CASE overlapped'
  BY <1>1 DEF AloneInv
<1>2. CASE ~overlapped' /\ \E c \in Campaigns : StartCampaign(c) \/ ResumeCampaign(c)
  <2>1. PICK c \in Campaigns : StartCampaign(c) \/ ResumeCampaign(c)
    BY <1>2
  <2>2. send' = send /\ ~OverlapsCampaign(c)
    BY <1>2, <2>1 DEF StartCampaign, ResumeCampaign, sends
  <2>3. \A d \in Campaigns : d # c => ~UnderWay(d)
    BY <2>2 DEF OverlapsCampaign
  <2>4. \A m \in Messages : ~Sending(m)
    BY <2>2 DEF OverlapsCampaign
  <2>5. ASSUME NEW d \in Campaigns, d # c PROVE ~UnderWay(d)'
    <3>1. ~UnderWay(d)
      BY <2>3, <2>5
    <3>2. campaign'[d] = campaign[d] /\ start'[d] = start[d]
      BY <2>1, <2>5 DEF StartCampaign, ResumeCampaign, EnqueueStart, TypeOK
    <3>3. QED
      BY <2>2, <3>1, <3>2 DEF UnderWay, Sending
  <2>6. \A m \in Messages : ~Sending(m)'
    BY <2>2, <2>4 DEF Sending
  <2>7. QED
    BY <2>5, <2>6 DEF AloneInv
<1>3. CASE ~overlapped' /\ \E m \in Messages : RequestMessage(m)
  <2>1. PICK m \in Messages : RequestMessage(m)
    BY <1>3
  <2>2. /\ ~OverlapsMessage(m) /\ campaign' = campaign /\ start' = start
        /\ \A q \in Refs : q # m => send'[q] = send[q]
    BY <1>3, <2>1 DEF RequestMessage, queues, Goes, TypeOK
  <2>3. \A c \in Campaigns : ~UnderWay(c)
    BY <2>2 DEF OverlapsMessage
  <2>4. \A n \in Messages : n # m => ~Sending(n)
    BY <2>2 DEF OverlapsMessage
  <2>5. ASSUME NEW c \in Campaigns PROVE ~UnderWay(c)'
    <3>1. ~UnderWay(c)
      BY <2>3, <2>5
    <3>2. \A q \in c : send'[q] = send[q]
      BY <2>1, <2>2, OneRoster
    <3>3. QED
      BY <2>2, <3>1, <3>2 DEF UnderWay, Sending
  <2>6. ASSUME NEW n \in Messages, n # m PROVE ~Sending(n)'
    BY <2>2, <2>4, <2>6, OneRoster DEF Sending
  <2>7. QED
    BY <2>5, <2>6 DEF AloneInv
<1>4. CASE /\ ~\E c \in Campaigns : StartCampaign(c) \/ ResumeCampaign(c)
           /\ ~\E m \in Messages : RequestMessage(m)
  <2>1. overlapped => overlapped'
    BY OneWay
  <2>2. \A c \in Campaigns : UnderWay(c)' => UnderWay(c)
    BY <1>4, CampaignsSetOut
  <2>3. ASSUME NEW m \in Messages, Sending(m)' PROVE Sending(m)
    <3>1. m \in Refs /\ \A c \in Campaigns : m \notin c
      BY OneRoster
    <3>2. QED
      BY <1>4, <2>3, <3>1, SetsOut
  <2>4. QED
    BY <2>1, <2>2, <2>3, AloneKept
<1>5. QED
  BY <1>1, <1>2, <1>3, <1>4

-----------------------------------------------------------------------------
(* What the gate has read stays true while it decides.                     *)

LEMMA ReadStays ==
    ASSUME TypeOK, SourceInv, [Next]_vars, NEW s, NEW own,
           ReadHolds(s, own),
           \A q \in Refs \ own : send[q] \in {"new", "done"}
    PROVE  ReadHolds(s, own)'
<1> SUFFICES ASSUME s.state = "active", NEW q \in Refs \ own
             PROVE  /\ sentIn'[q] <= s.period
                    /\ sentIn'[q] = s.period => /\ event'[q].state # "none"
                                                /\ event'[q].period = s.period
  BY DEF ReadHolds
<1>1. /\ sentIn[q] <= s.period
      /\ sentIn[q] = s.period => event[q].state # "none" /\ event[q].period = s.period
  BY DEF ReadHolds
<1>2. Moves(q) /\ send[q] \in {"new", "done"}
  BY EachMoves
<1>3. StaysPut(q) \/ Quiet(q)
  BY <1>2 DEF Moves, IsQueued, IsRequested, IsAuthorized, IsDropped, IsAccepted, IsLookedUp,
     IsUnmetered, IsRecorded
<1>4. QED
  BY <1>1, <1>3 DEF StaysPut, Quiet

(* Reading the subscription while nobody else sends.                       *)
LEMMA ReadFresh ==
    ASSUME TypeOK, SourceInv, PathInv, SettledInv, faults = 0, NEW own,
           \A q \in Refs \ own : send[q] \in {"new", "done"}
    PROVE  ReadHolds(sub, own)
<1> SUFFICES ASSUME sub.state = "active", NEW q \in Refs \ own
             PROVE  /\ sentIn[q] <= sub.period
                    /\ sentIn[q] = sub.period => /\ event[q].state # "none"
                                                 /\ event[q].period = sub.period
  BY DEF ReadHolds
<1>1. sub.period \in Nat \ {0} /\ sentIn[q] \in Nat /\ event[q].period \in Nat
  BY PeriodTypes
<1>2. sentIn[q] <= sub.period
  BY DEF SourceInv
<1>3. ASSUME sentIn[q] = sub.period
      PROVE  event[q].state # "none" /\ event[q].period = sub.period
  <2>1. send[q] = "done"
    BY <1>1, <1>3 DEF PathInv
  <2>2. Found(sub) /\ sentIn[q] >= 1
    BY <1>1, <1>3 DEF Found
  <2>3. event[q].state # "none"
    BY <2>1, <2>2 DEF SettledInv
  <2>4. event[q].period <= sub.period /\ sentIn[q] \in 1 .. event[q].period
    BY <2>3 DEF PathInv, SourceInv
  <2>5. QED
    BY <1>1, <1>3, <2>3, <2>4
<1>4. QED
  BY <1>2, <1>3

LEMMA SendingStates ==
    ASSUME TypeOK, NEW q \in Refs, ~Sending(q)
    PROVE  send[q] \in {"new", "done"}
BY DEF Sending

(* Whose subscription read a step may change, and how.                     *)
LEMMA DecidingKept ==
    ASSUME TypeOK, [Next]_vars, NEW c \in Campaigns, start'[c].deciding
    PROVE  \/ start[c].deciding /\ seen'[c] = seen[c]
           \/ BeginStart(c)
<1> USE DEF queues, sends, meters, history
<1>0. start[c] \in Starts /\ c \notin Refs /\ Messages \subseteq Refs
  BY UsageAssumption, OneRoster DEF TypeOK, UsageAssumption
<1>1. ASSUME NEW d \in Campaigns, CampaignStep(d)
      PROVE  \/ start[c].deciding /\ seen'[c] = seen[c]
             \/ BeginStart(c)
  <2>1. CASE StartCampaign(d) \/ ResumeCampaign(d)
    BY <2>1 DEF StartCampaign, ResumeCampaign, EnqueueStart, TypeOK
  <2>2. CASE PauseCampaign(d)
    BY <2>2 DEF PauseCampaign
  <2>3. CASE SkipStart(d)
    BY <2>3 DEF SkipStart, TakesStart, TypeOK
  <2>4. CASE BeginStart(d)
    BY <2>4 DEF BeginStart, TakesStart, Reads, TypeOK
  <2>5. CASE RefuseCampaign(d) \/ FanOut(d)
    BY <2>5 DEF RefuseCampaign, FanOut, Decided, Forgets, TypeOK
  <2>6. CASE StartFails(d)
    BY <2>6 DEF StartFails, Forgets, TypeOK
  <2>7. CASE \E r \in Recipients : SkipBatch(d, r) \/ SendBatch(d, r)
    BY <2>7 DEF SkipBatch, SendBatch
  <2>8. QED
    BY <1>1, <2>1, <2>2, <2>3, <2>4, <2>5, <2>6, <2>7 DEF CampaignStep
<1>2. ASSUME start' = start,
             seen' = seen \/ \E x \in Refs : Reads(x) \/ ReadsPeriod(x) \/ Forgets(x)
      PROVE  start[c].deciding /\ seen'[c] = seen[c]
  BY <1>0, <1>2 DEF Reads, ReadsPeriod, Forgets, TypeOK
<1>3. ASSUME NEW m \in Messages, RequestMessage(m) \/ AuthorizeMessage(m) \/ SendMessage(m)
      PROVE  start[c].deciding /\ seen'[c] = seen[c]
  <2>1. m \in Refs /\ start' = start /\ (seen' = seen \/ Reads(m) \/ Forgets(m))
    BY <1>0, <1>3 DEF RequestMessage, AuthorizeMessage, SendMessage
  <2>2. QED
    BY <1>2, <2>1
<1>4. ASSUME NEW r \in Refs, SendStep(r) PROVE start[c].deciding /\ seen'[c] = seen[c]
  <2>1. start' = start /\ (seen' = seen \/ ReadsPeriod(r) \/ Forgets(r))
    BY <1>4 DEF SendStep, SendRejected, RecordUsage, RecordEvents, UsageLost
  <2>2. QED
    BY <1>2, <2>1
<1>5. CASE Subscription \/ RollupStep \/ UNCHANGED vars
  BY <1>2, <1>5 DEF Subscription, RollupStep, SumEvents, CommitRollup, RollupFails, vars
<1>6. QED
  BY <1>1, <1>3, <1>4, <1>5 DEF Next

LEMMA GateKept ==
    ASSUME TypeOK, SourceInv, [Next]_vars, NEW m \in Messages, send'[m] = "gate"
    PROVE  \/ send[m] = "gate" /\ seen'[m] = seen[m]
           \/ RequestMessage(m)
<1> USE DEF queues, sends, meters, history
<1>0. m \in Refs /\ \A c \in Campaigns : m # c /\ m \notin c
  BY UsageAssumption, OneRoster DEF UsageAssumption
<1>1. send[m] = "gate" \/ RequestMessage(m)
  BY <1>0, EachMoves DEF Moves, StaysPut, IsQueued, IsRequested, IsAuthorized, IsDropped,
     IsAccepted, IsLookedUp, IsUnmetered, IsRecorded
<1>2. ASSUME send[m] = "gate", ~RequestMessage(m) PROVE seen'[m] = seen[m]
  <2>1. ASSUME seen' = seen \/ \E x \in Refs \cup Campaigns :
                                   x # m /\ (Reads(x) \/ ReadsPeriod(x) \/ Forgets(x))
        PROVE  seen'[m] = seen[m]
    BY <1>0, <2>1 DEF Reads, ReadsPeriod, Forgets, TypeOK
  <2>2. ASSUME NEW c \in Campaigns, CampaignStep(c) PROVE seen'[m] = seen[m]
    <3>1. seen' = seen \/ Reads(c) \/ Forgets(c)
      BY <2>2 DEF CampaignStep, StartCampaign, PauseCampaign, ResumeCampaign, SkipStart,
         BeginStart, RefuseCampaign, FanOut, StartFails, SkipBatch, SendBatch, Decided
    <3>2. QED
      BY <1>0, <2>1, <3>1
  <2>3. ASSUME NEW n \in Messages, RequestMessage(n) \/ AuthorizeMessage(n) \/ SendMessage(n)
        PROVE  seen'[m] = seen[m]
    <3>1. n \in Refs /\ (seen' = seen \/ Reads(n) \/ Forgets(n))
      BY <2>3, OneRoster DEF RequestMessage, AuthorizeMessage, SendMessage
    <3>2. CASE n = m
      <4>1. SendMessage(m) \/ AuthorizeMessage(m)
        BY <1>2, <2>3, <3>2
      <4>2. send'[m] # "gate"
        BY <1>0, <4>1, DataTypes DEF SendMessage, AuthorizeMessage, Goes, TypeOK
      <4>3. QED
        BY <4>2
    <3>3. QED
      BY <2>1, <3>1, <3>2
  <2>4. ASSUME NEW r \in Refs, SendStep(r) PROVE seen'[m] = seen[m]
    <3>1. seen' = seen \/ (r # m /\ (ReadsPeriod(r) \/ Forgets(r)))
      BY <1>2, <2>4 DEF SendStep, SendRejected, RecordUsage, RecordEvents, UsageLost
    <3>2. QED
      BY <2>1, <3>1
  <2>5. CASE Subscription \/ RollupStep \/ UNCHANGED vars
    BY <2>1, <2>5 DEF Subscription, RollupStep, SumEvents, CommitRollup, RollupFails, vars
  <2>6. QED
    BY <2>2, <2>3, <2>4, <2>5 DEF Next
<1>3. QED
  BY <1>1, <1>2

LEMMA ReadNext ==
    ASSUME TypeOK, SourceInv, PathInv, SettledInv, AloneInv, ReadInv, [Next]_vars
    PROVE  ReadInv'
<1> USE DEF queues, sends, meters, history
<1> SUFFICES ASSUME Undisturbed'
             PROVE  /\ \A c \in Campaigns : start'[c].deciding => ReadHolds(seen[c], c)'
                    /\ \A m \in Messages : send'[m] = "gate" => ReadHolds(seen[m], {m})'
  BY DEF ReadInv
<1>1. Undisturbed /\ ~overlapped /\ faults = 0 /\ ~overlapped'
  BY StaysUndisturbed DEF Undisturbed
<1>2. ASSUME NEW c \in Campaigns, UnderWay(c)
      PROVE  \A q \in Refs \ c : send[q] \in {"new", "done"}
  BY <1>1, <1>2, OthersStand, SendingStates
<1>3. ASSUME NEW s, NEW own, NEW x, seen'[x] = s, ReadHolds(s, own)'
      PROVE  ReadHolds(seen[x], own)'
  BY <1>3 DEF ReadHolds
<1>4. ASSUME NEW c \in Campaigns, start'[c].deciding PROVE ReadHolds(seen[c], c)'
  <2>1. CASE start[c].deciding /\ seen'[c] = seen[c]
    <3>1. ReadHolds(seen[c], c)
      BY <1>1, <2>1 DEF ReadInv
    <3>2. \A q \in Refs \ c : send[q] \in {"new", "done"}
      BY <1>2, <2>1 DEF UnderWay
    <3>3. PICK s : s = seen[c]
      OBVIOUS
    <3>4. ReadHolds(s, c)'
      BY <3>1, <3>2, <3>3, ReadStays
    <3>5. QED
      BY <1>3, <2>1, <3>3, <3>4
  <2>2. CASE BeginStart(c)
    <3>1. UnderWay(c) /\ seen'[c] = sub
      BY <2>2 DEF BeginStart, TakesStart, UnderWay, Reads, TypeOK
    <3>2. \A q \in Refs \ c : send[q] \in {"new", "done"}
      BY <1>2, <3>1
    <3>3. PICK s : s = sub
      OBVIOUS
    <3>4. ReadHolds(s, c)
      BY <1>1, <3>2, <3>3, ReadFresh
    <3>5. ReadHolds(s, c)'
      BY <3>2, <3>4, ReadStays
    <3>6. QED
      BY <1>3, <3>1, <3>3, <3>5
  <2>3. QED
    BY <1>4, <2>1, <2>2, DecidingKept
<1>5. ASSUME NEW m \in Messages, send'[m] = "gate" PROVE ReadHolds(seen[m], {m})'
  <2>1. CASE send[m] = "gate" /\ seen'[m] = seen[m]
    <3>1. ReadHolds(seen[m], {m})
      BY <1>1, <2>1 DEF ReadInv
    <3>2. Sending(m)
      BY <2>1 DEF Sending
    <3>3. \A q \in Refs \ {m} : send[q] \in {"new", "done"}
      BY <1>1, <3>2, OthersStand, SendingStates
    <3>4. PICK s : s = seen[m]
      OBVIOUS
    <3>5. ReadHolds(s, {m})'
      BY <3>1, <3>3, <3>4, ReadStays
    <3>6. QED
      BY <1>3, <2>1, <3>4, <3>5
  <2>2. CASE RequestMessage(m)
    <3>1. m \in Refs /\ seen'[m] = sub /\ ~OverlapsMessage(m)
      BY <1>1, <2>2, OneRoster DEF RequestMessage, Reads, TypeOK
    <3>2. \A q \in Refs \ {m} : ~Sending(q)
      BY <3>1, OneRoster DEF OverlapsMessage, UnderWay
    <3>3. \A q \in Refs \ {m} : send[q] \in {"new", "done"}
      BY <3>2, SendingStates
    <3>4. PICK s : s = sub
      OBVIOUS
    <3>5. ReadHolds(s, {m})
      BY <1>1, <3>3, <3>4, ReadFresh
    <3>6. ReadHolds(s, {m})'
      BY <3>3, <3>5, ReadStays
    <3>7. QED
      BY <1>3, <3>1, <3>4, <3>6
  <2>3. QED
    BY <1>5, <2>1, <2>2, GateKept
<1>6. QED
  BY <1>4, <1>5

-----------------------------------------------------------------------------
(* What passes the gate fits.                                              *)

LEMMA Fewer ==
    ASSUME NEW T \in SUBSET Refs, NEW S \in SUBSET T, NEW n \in Nat, Cardinality(T) <= n
    PROVE  Cardinality(S) <= n
<1>1. Cardinality(S) <= Cardinality(T) /\ Cardinality(S) \in Nat /\ Cardinality(T) \in Nat
  BY CardinalType, FS_Subset
<1>2. QED
  BY <1>1

LEMMA Together ==
    ASSUME NEW S \in SUBSET Refs, NEW T \in SUBSET Refs
    PROVE  Cardinality(S \cup T) <= Cardinality(S) + Cardinality(T)
<1>1. Cardinality(S \cup T) = Cardinality(S) + Cardinality(T) - Cardinality(S \cap T)
  BY CardinalType, FS_Union
<1>2. /\ Cardinality(S) \in Nat /\ Cardinality(T) \in Nat
      /\ S \cap T \in SUBSET Refs /\ Cardinality(S \cap T) \in Nat
  BY CardinalType
<1>3. QED
  BY <1>1, <1>2

(* If the gate authorizes a campaign or a message on a subscription read   *)
(* that still holds, then its sends fit beside everything that was sent.   *)
LEMMA GateRoom ==
    ASSUME TypeOK, CountInv, Undisturbed, NEW s \in Subscriptions, s.period <= sub.period,
           NEW own \in SUBSET Refs, ReadHolds(s, own), Authorizes(s, Cardinality(own))
    PROVE  Cardinality(Sent(sub.period) \cup own) <= Allowance
<1>0. s.period \in Periods /\ s.period \in Nat /\ sub.period \in Nat /\ Allowance \in Nat
  BY PeriodTypes, UsageAssumption DEF Subscriptions, Periods, UsageAssumption
<1> DEFINE used == CountedOf(s.period) \cup RawOf(s.period)
<1>1. used \in SUBSET Refs /\ Cardinality(used) \in Nat /\ Cardinality(own) \in Nat
  BY CardinalType DEF CountedOf, RawOf
<1>2. Cardinality(used) + Cardinality(own) <= Allowance
  BY <1>0, UsageCountsEvents DEF Authorizes, Undisturbed
<1>3. Sent(sub.period) \cup own \subseteq used \cup own
  <2>1. ASSUME NEW q \in Sent(sub.period), q \notin own PROVE q \in used
    <3>1. q \in Refs \ own /\ sentIn[q] = sub.period /\ s.state = "active"
      BY <2>1 DEF Sent, Authorizes
    <3>2. /\ sentIn[q] <= s.period
          /\ sentIn[q] = s.period => event[q].state # "none" /\ event[q].period = s.period
      BY <3>1 DEF ReadHolds
    <3>3. event[q].state # "none" /\ event[q].period = s.period
      BY <1>0, <3>1, <3>2
    <3>4. event[q].state \in EventStates /\ event[q].state # "missed"
      BY <3>1 DEF TypeOK, Events, Undisturbed, Missed
    <3>5. QED
      BY <3>1, <3>3, <3>4 DEF CountedOf, RawOf, EventStates
  <2>2. QED
    BY <2>1
<1>4. /\ Cardinality(used \cup own) <= Cardinality(used) + Cardinality(own)
      /\ used \cup own \in SUBSET Refs
      /\ Cardinality(used \cup own) \in Nat
  BY <1>1, CardinalType, Together
<1>5. Cardinality(used \cup own) <= Allowance
  BY <1>0, <1>1, <1>2, <1>4
<1>6. QED
  BY <1>0, <1>3, <1>4, <1>5, Fewer

(* A step accepts nothing that was not cleared, and clears only what the   *)
(* gate lets pass.                                                         *)
LEMMA AcceptsCleared ==
    ASSUME TypeOK, SourceInv, [Next]_vars, NEW q \in Refs
    PROVE  \/ sentIn'[q] = sentIn[q]
           \/ q \in Cleared /\ sentIn'[q] = sub.period /\ sub' = sub
BY EachMoves DEF Moves, StaysPut, IsQueued, IsRequested, IsAuthorized, IsDropped, IsAccepted,
   IsLookedUp, IsUnmetered, IsRecorded, Quiet, Cleared

LEMMA ClearsAtTheGate ==
    ASSUME TypeOK, SourceInv, [Next]_vars, NEW q \in Refs, send'[q] \in {"queued", "allowed"}
    PROVE  \/ q \in Cleared
           \/ \E c \in Campaigns : q \in c /\ FanOut(c)
           \/ q \in Messages /\ send[q] = "gate" /\ send'[q] = "allowed" /\ AuthorizeMessage(q)
BY EachMoves DEF Moves, StaysPut, IsQueued, IsRequested, IsAuthorized, IsDropped, IsAccepted,
   IsLookedUp, IsUnmetered, IsRecorded, Quiet, Cleared

SentThen(p) == {r \in Refs : sentIn'[r] = p}
ClearedThen == {r \in Refs : send'[r] \in {"queued", "allowed"}}

Room ==
    /\ Cardinality(Sent(sub.period) \cup Cleared) <= Allowance
    /\ \A p \in Periods : Cardinality(Sent(p)) <= Allowance
RoomThen ==
    /\ Cardinality(SentThen(sub'.period) \cup ClearedThen) <= Allowance
    /\ \A p \in Periods : Cardinality(SentThen(p)) <= Allowance

(* A step that clears nothing.                                             *)
LEMMA RoomKept ==
    ASSUME TypeOK, SourceInv, Room, [Next]_vars, ClearedThen \subseteq Cleared
    PROVE  RoomThen
<1>0. /\ sub.period \in Periods /\ sub.period \in Nat /\ Allowance \in Nat
      /\ sub'.period >= sub.period /\ sub'.period \in Nat
  BY PeriodTypes, OneWay, UsageAssumption DEF TypeOK, Subscriptions, UsageAssumption
<1>1. /\ Sent(sub.period) \cup Cleared \in SUBSET Refs
      /\ \A p \in Periods : Sent(p) \in SUBSET Refs
      /\ Cleared \in SUBSET Refs
  BY DEF Sent, Cleared
<1>2. /\ Cardinality(Sent(sub.period) \cup Cleared) <= Allowance
      /\ \A p \in Periods : Cardinality(Sent(p)) <= Allowance
  BY DEF Room
<1>3. \A p \in Periods : SentThen(p) \subseteq Sent(p) \/ p = sub.period
  BY AcceptsCleared DEF SentThen, Sent
<1>4. SentThen(sub.period) \subseteq Sent(sub.period) \cup Cleared
  BY AcceptsCleared DEF SentThen, Sent
<1>5. ASSUME NEW p \in Periods PROVE Cardinality(SentThen(p)) <= Allowance
  <2>1. CASE p = sub.period
    BY <1>0, <1>1, <1>2, <1>4, <2>1, Fewer
  <2>2. CASE SentThen(p) \subseteq Sent(p)
    BY <1>0, <1>1, <1>2, <1>5, <2>2, Fewer
  <2>3. QED
    BY <1>3, <1>5, <2>1, <2>2
<1>6. SentThen(sub'.period) \cup ClearedThen \subseteq Sent(sub.period) \cup Cleared
  <2>1. CASE sub' = sub
    BY <1>4, <2>1
  <2>2. CASE sub' # sub
    <3>1. \A q \in Refs : sentIn'[q] = sentIn[q] /\ sentIn[q] <= sub.period /\ sentIn[q] \in Nat
      BY <2>2, AcceptsCleared, PeriodTypes DEF SourceInv
    <3>2. SentThen(sub'.period) \subseteq Sent(sub.period)
      BY <1>0, <3>1 DEF SentThen, Sent
    <3>3. QED
      BY <3>2
  <2>3. QED
    BY <2>1, <2>2
<1>7. Cardinality(SentThen(sub'.period) \cup ClearedThen) <= Allowance
  BY <1>0, <1>1, <1>2, <1>6, Fewer
<1>8. QED
  BY <1>5, <1>7 DEF RoomThen

(* The gate lets own pass, and nothing else is cleared.                    *)
LEMMA RoomMade ==
    ASSUME TypeOK, SourceInv, CountInv, Undisturbed, Room, UNCHANGED <<sub, sentIn>>,
           NEW own \in SUBSET Refs, ClearedThen \subseteq own,
           NEW x \in Refs \cup Campaigns, ReadHolds(seen[x], own),
           Authorizes(seen[x], Cardinality(own))
    PROVE  RoomThen
<1>1. seen[x] \in Subscriptions /\ seen[x].period <= sub.period /\ Allowance \in Nat
  BY UsageAssumption DEF TypeOK, SourceInv, UsageAssumption
<1>2. Cardinality(Sent(sub.period) \cup own) <= Allowance
  BY <1>1, GateRoom
<1>3. Sent(sub.period) \cup own \in SUBSET Refs
  BY DEF Sent
<1>4. SentThen(sub'.period) \cup ClearedThen \subseteq Sent(sub.period) \cup own
  BY DEF SentThen, Sent
<1>5. Cardinality(SentThen(sub'.period) \cup ClearedThen) <= Allowance
  BY <1>1, <1>2, <1>3, <1>4, Fewer
<1>6. \A p \in Periods : SentThen(p) = Sent(p)
  BY DEF SentThen, Sent
<1>7. QED
  BY <1>5, <1>6 DEF Room, RoomThen

LEMMA RoomNext ==
    ASSUME TypeOK, SourceInv, CountInv, AloneInv, ReadInv, RoomInv, [Next]_vars
    PROVE  RoomInv'
<1> SUFFICES ASSUME Undisturbed' PROVE RoomThen
  BY DEF RoomInv, RoomThen, Sent, Cleared, SentThen, ClearedThen
<1>1. Undisturbed /\ ~overlapped
  BY StaysUndisturbed DEF Undisturbed
<1>2. Room
  BY <1>1 DEF RoomInv, Room
<1>3. CASE \E c \in Campaigns : FanOut(c)
  <2>1. PICK c \in Campaigns : FanOut(c)
    BY <1>3
  <2>2. /\ UNCHANGED <<sub, sentIn>> /\ UnderWay(c) /\ start[c].deciding
        /\ Authorizes(seen[c], Cardinality(c))
    BY <2>1 DEF FanOut, UnderWay
  <2>3. c \in SUBSET Refs /\ ReadHolds(seen[c], c)
    BY <1>1, <2>2, CampaignSends DEF ReadInv
  <2>4. \A q \in Refs \ c : send'[q] = send[q] /\ ~Sending(q)
    BY <1>1, <2>1, <2>2, OthersStand DEF FanOut
  <2>5. ClearedThen \subseteq c
    BY <2>4 DEF ClearedThen, Sending
  <2>6. QED
    BY <1>1, <1>2, <2>2, <2>3, <2>5, RoomMade
<1>4. CASE \E m \in Messages : AuthorizeMessage(m) /\ send[m] = "gate" /\ send'[m] = "allowed"
  <2>1. PICK m \in Messages : AuthorizeMessage(m) /\ send[m] = "gate" /\ send'[m] = "allowed"
    BY <1>4
  <2>2. m \in Refs /\ {m} \in SUBSET Refs /\ Cardinality({m}) = 1
    BY OneRoster, FS_Singleton
  <2>3. UNCHANGED <<sub, sentIn>> /\ Authorizes(seen[m], 1)
    BY <2>1, <2>2 DEF AuthorizeMessage, Goes, TypeOK, sends
  <2>4. ReadHolds(seen[m], {m}) /\ Sending(m)
    BY <1>1, <2>1 DEF ReadInv, Sending
  <2>5. \A q \in Refs \ {m} : send'[q] = send[q] /\ ~Sending(q)
    BY <1>1, <2>1, <2>4, OthersStand DEF AuthorizeMessage, Goes, TypeOK
  <2>6. ClearedThen \subseteq {m}
    BY <2>5 DEF ClearedThen, Sending
  <2>7. QED
    BY <1>1, <1>2, <2>2, <2>3, <2>4, <2>6, RoomMade
<1>5. CASE /\ ~\E c \in Campaigns : FanOut(c)
           /\ ~\E m \in Messages : /\ AuthorizeMessage(m)
                                   /\ send[m] = "gate" /\ send'[m] = "allowed"
  <2>1. ClearedThen \subseteq Cleared
    BY <1>5, ClearsAtTheGate DEF ClearedThen
  <2>2. QED
    BY <1>2, <2>1, RoomKept
<1>6. QED
  BY <1>3, <1>4, <1>5

LEMMA QuotaNext ==
    TypeOK /\ SourceInv /\ CountInv /\ QuotaInv /\ [Next]_vars => QuotaInv'
  BY PathNext, SettledNext, AloneNext, ReadNext, RoomNext DEF QuotaInv

(* The quota invariant holds throughout: what the gate has read stays true *)
(* while it decides, and what it has let through fits until it is metered. *)
THEOREM QuotaInvariant == Spec => [](TypeOK /\ SourceInv /\ CountInv /\ QuotaInv)
  BY UsageInvariant, QuotaInit, QuotaNext, PTL DEF Spec

(* A block-mode tenant whose sends do not overlap, and whose usage is not  *)
(* lost, never sends more than its allowance in a period                   *)
(* (QuotaHoldsWhenSerial; QuotaGate.Authorize, UsageRecorder.Record).      *)
THEOREM QuotaHolds == Spec => []QuotaHoldsWhenSerial
<1>1. QuotaInv => QuotaHoldsWhenSerial
  BY DEF QuotaInv, RoomInv, Undisturbed, Sent, QuotaHoldsWhenSerial
<1>2. QED
  BY <1>1, QuotaInvariant, PTL
=============================================================================
