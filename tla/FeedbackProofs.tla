---------------------------- MODULE FeedbackProofs ----------------------------
(* Proofs about Feedback, for any number of mails, events, workers and     *)
(* requests and any bounds.                                                *)
EXTENDS Feedback, SequenceTheorems, TLAPS

(* What the provider has said of a mail it keeps saying, and nothing is    *)
(* staged, queued, worked on or recorded that it has not said.             *)
Published(e) == notice[e].mail \in Mails

OnlyPublished ==
    /\ \A e \in EventIds : Published(e) \/ notice[e] = NoNotice
    /\ \A i \in 1 .. Len(topic) : Published(topic[i])
    /\ \A e \in EventIds : inbound[e] # "none" \/ jobs[e] > 0 \/ e \in events => Published(e)

(* The consumer is at the notification after the committed offset, and     *)
(* comes to commit one of interest only when its job is queued.            *)
Covered(e) == IsProcessed(inbound[e]) \/ jobs[e] > 0 \/ Busy(e)

ConsumerInOrder ==
    /\ consumer.at = offset + 1
    /\ offset <= Len(topic)
    /\ consumer.pc # "read" => consumer.at <= Len(topic)
    /\ consumer.pc = "commit" /\ Recognized(notice[topic[consumer.at]].kind)
         => Covered(topic[consumer.at])

(* A send that was recorded when the provider reported on it stays so,     *)
(* unless its row is overwritten; rows are those of campaign mails.        *)
GivenUp(e) == e \in early \/ notice[e].mail \in replaced

RecordsKept ==
    /\ \A e \in EventIds : Published(e) => GivenUp(e) \/ Recorded(notice[e].mail)
    /\ \A a \in Addresses : rowRef[a] # NoMail => rowRef[a].via = "campaign"

(* What a worker is about to write about its event is true of it.          *)
WorkerMatches(v) ==
    /\ v.pc # "idle" => v.event \in EventIds /\ Published(v.event)
    /\ v.pc = "mark" => IsProcessed(v.status)
    /\ v.pc = "record" => v.status = "attributed"
    /\ v.pc \in {"settings", "upsert"} => v.status = "attributed" /\ v.event \in events
    /\ v.pc = "mark" /\ v.status = "attributed" => v.event \in events
    /\ v.pc = "mark" /\ v.status = "unattributed" => GivenUp(v.event)

WorkersMatch == \A w \in Workers : WorkerMatches(worker[w])

(* The suppression of a recorded event is decided by whoever recorded it.  *)
Deciding(e) == \E w \in Workers : worker[w].event = e /\ worker[w].pc \in {"settings", "upsert"}

EventsDecided == \A e \in events : Drives(KindOf(e)) => e \in decided \cup dropped \/ Deciding(e)

StatusesHold ==
    \A e \in EventIds :
        /\ inbound[e] = "attributed" => e \in events
        /\ inbound[e] = "unattributed" => GivenUp(e)

FeedbackInv ==
    /\ TypeOK /\ OnlyPublished /\ ConsumerInOrder /\ RecordsKept
    /\ WorkersMatch /\ EventsDecided /\ StatusesHold /\ CommittedIsCovered

-----------------------------------------------------------------------------
LEMMA IdleTypes ==
    /\ IdleWorker \in WorkerStates /\ WorkerMatches(IdleWorker)
    /\ IdleWorker.pc = "idle" /\ IdleOperator \in OperatorStates
  BY DEF IdleWorker, WorkerStates, InboundStatuses, WorkerMatches, IdleOperator, OperatorStates,
         AllOperations

LEMMA FeedbackInitInv == Init => FeedbackInv
<1> SUFFICES ASSUME Init PROVE FeedbackInv
  OBVIOUS
<1>1. TypeOK
  BY IdleTypes DEF Init, TypeOK, Notices, NoNotice, Consumers, InboundStatuses,
     SuppressionReasons, BounceSettings, DefaultBounceSettings
<1>2. OnlyPublished /\ RecordsKept
  BY FeedbackAssumption DEF Init, OnlyPublished, RecordsKept, Published, NoNotice
<1>3. ConsumerInOrder /\ CommittedIsCovered
  BY DEF Init, ConsumerInOrder, CommittedIsCovered
<1>4. WorkersMatch
  BY IdleTypes DEF Init, WorkersMatch
<1>5. EventsDecided /\ StatusesHold
  BY DEF Init, EventsDecided, StatusesHold
<1>6. QED
  BY <1>1, <1>2, <1>3, <1>4, <1>5 DEF FeedbackInv

(* Events that are on the stream at or before the consumer's position.     *)
LEMMA TopicTypes ==
    ASSUME FeedbackInv
    PROVE  /\ Len(topic) \in Nat
           /\ \A i \in 1 .. Len(topic) : topic[i] \in EventIds /\ Published(topic[i])
           /\ offset \in Nat /\ consumer.at \in Nat /\ offset <= Len(topic)
           /\ consumer.pc # "read" => consumer.at \in 1 .. Len(topic)
  BY DEF FeedbackInv, TypeOK, OnlyPublished, ConsumerInOrder, Consumers

LEMMA SendsStep == ASSUME FeedbackInv, NEW m \in Mails, MarkSent(m) \/ RecordMessage(m)
                   PROVE  FeedbackInv'
<1>1. /\ UNCHANGED <<stream, staged, lists, faults, decided, dropped, early>>
      /\ rowRef' \in [Addresses -> Mails \cup {NoMail}]
      /\ txLog' \in SUBSET Mails /\ replaced' \in SUBSET Mails
      /\ replaced \subseteq replaced'
      /\ \A n \in Mails : Recorded(n) => Recorded(n)' \/ n \in replaced'
      /\ \A a \in Addresses : rowRef'[a] # NoMail => rowRef'[a].via = "campaign"
  <2>1. /\ m.to \in Addresses /\ m # NoMail
        /\ rowRef \in [Addresses -> Mails \cup {NoMail}] /\ txLog \in SUBSET Mails
        /\ replaced \in SUBSET Mails /\ RecordsKept
        /\ \A n \in Mails : n.to \in Addresses /\ n # NoMail
    BY FeedbackAssumption DEF FeedbackInv, TypeOK, Addresses
  <2>2. CASE MarkSent(m)
    BY <2>1, <2>2 DEF MarkSent, RecordsKept, Recorded
  <2>3. CASE RecordMessage(m)
    BY <2>1, <2>3 DEF RecordMessage, RecordsKept, Recorded, history
  <2>4. QED
    BY <2>2, <2>3
<1>2. TypeOK'
  BY <1>1 DEF FeedbackInv, TypeOK, stream, staged, lists
<1>3. OnlyPublished'
  BY <1>1 DEF FeedbackInv, OnlyPublished, Published, stream, staged
<1>4. ConsumerInOrder' /\ CommittedIsCovered'
  BY <1>1 DEF FeedbackInv, ConsumerInOrder, CommittedIsCovered, Covered, Busy, stream, staged
<1>5. RecordsKept'
  BY <1>1 DEF FeedbackInv, RecordsKept, Published, GivenUp, stream
<1>6. WorkersMatch' /\ StatusesHold'
  BY <1>1 DEF FeedbackInv, WorkersMatch, WorkerMatches, StatusesHold, Published, GivenUp,
     stream, staged
<1>7. EventsDecided'
  BY <1>1 DEF FeedbackInv, EventsDecided, Deciding, KindOf, stream, staged
<1>8. QED
  BY <1>2, <1>3, <1>4, <1>5, <1>6, <1>7 DEF FeedbackInv

LEMMA PublishStep ==
    ASSUME FeedbackInv, NEW e \in EventIds, NEW kind \in Kinds, NEW m \in Mails, Publish(e, kind, m)
    PROVE  FeedbackInv'
<1>1. /\ notice' \in [EventIds -> Notices] /\ notice'[e].mail = m
      /\ \A d \in EventIds : Published(d) => notice'[d] = notice[d]
      /\ \A d \in EventIds : notice'[d] = notice[d] \/ d = e
  BY FeedbackAssumption DEF FeedbackInv, TypeOK, Publish, Notices, Published, NoNotice
<1>2. /\ topic' \in Seq(EventIds) /\ Len(topic') = Len(topic) + 1
      /\ \A i \in 1 .. Len(topic) : topic'[i] = topic[i]
      /\ topic'[Len(topic) + 1] = e
  BY DEF FeedbackInv, TypeOK, Publish
<1>3. /\ UNCHANGED <<sends, offset, consumer, staged, lists, faults, decided, dropped, replaced>>
      /\ early' \in SUBSET EventIds /\ early \subseteq early'
      /\ Recorded(m) \/ e \in early'
  BY DEF FeedbackInv, TypeOK, Publish
<1>4. TypeOK'
  BY <1>1, <1>2, <1>3 DEF FeedbackInv, TypeOK, sends, staged, lists
<1>5. \A d \in EventIds : Published(d) => Published(d)'
  BY <1>1 DEF Published
<1>6. OnlyPublished'
  <2>1. \A d \in EventIds : Published(d)' \/ notice'[d] = NoNotice
    BY <1>1, <1>5 DEF FeedbackInv, OnlyPublished, Published
  <2>2. \A i \in 1 .. Len(topic') : Published(topic[i])'
    BY <1>1, <1>2, <1>5, TopicTypes DEF Published
  <2>3. QED
    BY <2>1, <2>2, <1>3, <1>5 DEF FeedbackInv, OnlyPublished, staged
<1>7. \A i \in 1 .. Len(topic) :
          topic'[i] = topic[i] /\ notice'[topic[i]] = notice[topic[i]]
  BY <1>1, <1>2, TopicTypes
<1>8. ConsumerInOrder'
  BY <1>2, <1>3, <1>7, TopicTypes DEF FeedbackInv, ConsumerInOrder, Covered, Busy, staged
<1>9. CommittedIsCovered'
  BY <1>2, <1>3, <1>7, TopicTypes DEF FeedbackInv, CommittedIsCovered, Busy, staged
<1>10. RecordsKept'
  BY <1>1, <1>3 DEF FeedbackInv, OnlyPublished, RecordsKept, Published, GivenUp, Recorded, sends,
     NoNotice
<1>11. WorkersMatch' /\ StatusesHold'
  <2>1. \A d \in EventIds : Published(d) /\ GivenUp(d) => GivenUp(d)'
    BY <1>1, <1>3 DEF GivenUp
  <2>2. QED
    BY <2>1, <1>3, <1>5
    DEF FeedbackInv, TypeOK, OnlyPublished, WorkersMatch, WorkerMatches, StatusesHold, staged,
        InboundStatuses
<1>12. EventsDecided'
  <2>1. \A d \in events : KindOf(d)' = KindOf(d)
    BY <1>1 DEF FeedbackInv, TypeOK, OnlyPublished, KindOf
  <2>2. QED
    BY <2>1, <1>3 DEF FeedbackInv, EventsDecided, Deciding, staged
<1>13. QED
  BY <1>4, <1>6, <1>8, <1>9, <1>10, <1>11, <1>12 DEF FeedbackInv

-----------------------------------------------------------------------------
(* What a step of the consumer does to notifications and jobs.             *)
OnlyStages == \A e \in EventIds :
    inbound'[e] = inbound[e] \/ (inbound[e] = "none" /\ inbound'[e] = "pending" /\ Published(e))
OnlyQueues == \A e \in EventIds : jobs'[e] >= jobs[e] /\ (jobs'[e] > jobs[e] => Published(e))

(* A step of the consumer: it stages and queues, and takes nothing back.   *)
LEMMA ConsumerStep ==
    ASSUME FeedbackInv,
           UNCHANGED <<sends, topic, notice, worker, events, lists, history>>,
           faults' \in Nat, offset' \in Nat, consumer' \in Consumers,
           inbound' \in [EventIds -> InboundStatuses], jobs' \in [EventIds -> Nat],
           OnlyStages, OnlyQueues, ConsumerInOrder',
           offset' = offset \/ (offset' = offset + 1 /\ consumer.pc = "commit")
    PROVE  FeedbackInv'
<1>1. TypeOK'
  BY DEF FeedbackInv, TypeOK, sends, lists, history
<1>2. OnlyPublished'
  BY DEF FeedbackInv, TypeOK, OnlyPublished, Published, OnlyStages, OnlyQueues
<1>3. RecordsKept'
  BY DEF FeedbackInv, RecordsKept, Published, GivenUp, Recorded, sends, history
<1>4. WorkersMatch'
  BY DEF FeedbackInv, WorkersMatch, WorkerMatches, Published, GivenUp, history
<1>5. EventsDecided'
  BY DEF FeedbackInv, EventsDecided, Deciding, KindOf, history
<1>6. StatusesHold'
  BY DEF FeedbackInv, StatusesHold, GivenUp, history, OnlyStages
<1>7. \A e \in EventIds : Covered(e) => Covered(e)'
  BY DEF FeedbackInv, TypeOK, Covered, Busy, IsProcessed, OnlyStages, OnlyQueues
<1>8. CommittedIsCovered'
  <2> SUFFICES ASSUME NEW i \in 1 .. offset', Recognized(notice[topic[i]].kind)
               PROVE  Covered(topic[i])'
    BY DEF CommittedIsCovered, Covered, Busy
  <2>1. i \in 1 .. offset \/ (i = consumer.at /\ consumer.pc = "commit")
    BY TopicTypes DEF FeedbackInv, ConsumerInOrder
  <2>2. topic[i] \in EventIds
    BY <2>1, TopicTypes
  <2>3. Covered(topic[i])
    BY <2>1 DEF FeedbackInv, ConsumerInOrder, CommittedIsCovered, Covered
  <2>4. QED
    BY <2>2, <2>3, <1>7
<1>9. QED
  BY <1>1, <1>2, <1>3, <1>4, <1>5, <1>6, <1>8 DEF FeedbackInv

LEMMA ConsumeStep == FeedbackInv /\ (Consume \/ Restart) => FeedbackInv'
<1> SUFFICES ASSUME FeedbackInv, Consume \/ Restart PROVE FeedbackInv'
  OBVIOUS
<1>1. /\ consumer \in Consumers /\ offset \in Nat /\ faults \in Nat
      /\ inbound \in [EventIds -> InboundStatuses] /\ jobs \in [EventIds -> Nat]
      /\ ConsumerInOrder
  BY DEF FeedbackInv, TypeOK
<1>2. ASSUME consumer' \in Consumers, ConsumerInOrder', offset' \in Nat,
             offset' = offset \/ (offset' = offset + 1 /\ consumer.pc = "commit"),
             faults' \in Nat, UNCHANGED <<sends, topic, notice, staged, lists, history>>
      PROVE  FeedbackInv'
  <2>1. \A e \in EventIds : inbound'[e] = inbound[e] /\ jobs'[e] = jobs[e] /\ jobs[e] \in Nat
    BY <1>1, <1>2 DEF staged
  <2>2. OnlyStages /\ OnlyQueues
    BY <2>1 DEF OnlyStages, OnlyQueues
  <2>3. inbound' \in [EventIds -> InboundStatuses] /\ jobs' \in [EventIds -> Nat]
        /\ UNCHANGED <<worker, events>>
    BY <1>1, <1>2 DEF staged
  <2>4. QED
    BY <1>2, <2>1, <2>2, <2>3, ConsumerStep
<1>3. CASE Read
  <2>1. consumer' \in Consumers
    BY <1>1, <1>3 DEF Read, Moves, Consumers
  <2>2. ConsumerInOrder'
    BY <1>1, <1>3, TopicTypes DEF Read, Moves, Consumers, ConsumerInOrder
  <2>3. QED
    BY <2>1, <2>2, <1>1, <1>2, <1>3 DEF Read
<1>4. CASE StageInbound
  <2> DEFINE e == topic[consumer.at]
  <2>1. e \in EventIds /\ Published(e)
    BY <1>4, TopicTypes DEF StageInbound
  <2>2. consumer' \in Consumers /\ ConsumerInOrder'
    BY <1>1, <1>4 DEF StageInbound, Moves, Consumers, ConsumerInOrder
  <2>3. inbound' \in [EventIds -> InboundStatuses] /\ OnlyStages
    <3>1. inbound' = inbound
          \/ (inbound[e] = "none" /\ inbound' = [inbound EXCEPT ![e] = "pending"])
      BY <1>4 DEF StageInbound
    <3>2. "pending" \in InboundStatuses
      BY DEF InboundStatuses
    <3> HIDE DEF e
    <3>3. QED
      BY <3>1, <3>2, <1>1, <2>1 DEF OnlyStages
  <2>4. /\ UNCHANGED <<sends, topic, notice, worker, events, lists, history, faults, offset, jobs>>
        /\ \A d \in EventIds : jobs[d] \in Nat
    BY <1>1, <1>4 DEF StageInbound
  <2>5. OnlyQueues
    BY <2>4 DEF OnlyQueues
  <2>6. QED
    BY <2>2, <2>3, <2>4, <2>5, <1>1, ConsumerStep
<1>5. CASE EnqueueFeedbackProcess
  <2> DEFINE e == topic[consumer.at]
  <2>1. e \in EventIds /\ Published(e)
    BY <1>5, TopicTypes DEF EnqueueFeedbackProcess
  <2>2. /\ jobs' \in [EventIds -> Nat] /\ jobs'[e] = jobs[e] + 1
        /\ OnlyQueues
    BY <1>1, <1>5, <2>1 DEF EnqueueFeedbackProcess, OnlyQueues
  <2>3. consumer' \in Consumers /\ ConsumerInOrder'
    BY <1>1, <1>5, <2>1, <2>2
    DEF EnqueueFeedbackProcess, Moves, Consumers, ConsumerInOrder, Covered
  <2>4. UNCHANGED <<sends, topic, notice, worker, events, lists, history, faults, offset, inbound>>
    BY <1>5 DEF EnqueueFeedbackProcess
  <2>5. OnlyStages
    BY <2>4 DEF OnlyStages
  <2>6. QED
    BY <2>2, <2>3, <2>4, <2>5, <1>1, ConsumerStep
<1>6. CASE Commit
  <2>1. consumer' \in Consumers /\ ConsumerInOrder' /\ offset' = offset + 1
    BY <1>1, <1>6, TopicTypes DEF Commit, Consumers, ConsumerInOrder
  <2>2. QED
    BY <2>1, <1>1, <1>2, <1>6 DEF Commit
<1>7. CASE Restart
  <2>1. consumer' \in Consumers /\ ConsumerInOrder'
    BY <1>1, <1>7 DEF Restart, Consumers, ConsumerInOrder
  <2>2. QED
    BY <2>1, <1>1, <1>2, <1>7 DEF Restart
<1>8. QED
  BY <1>3, <1>4, <1>5, <1>6, <1>7 DEF Consume

-----------------------------------------------------------------------------
(* What every step of a worker sees to.                                    *)
WorksOnPublished ==
    \A e \in EventIds : inbound'[e] # "none" \/ jobs'[e] > 0 \/ e \in events' => Published(e)
CoverLasts == \A e \in EventIds : Covered(e) => Covered(e)'

(* A step of a worker: events stay recorded and covered, decisions stay    *)
(* decided, and what the worker goes on with is true.                      *)
LEMMA WorkerStep ==
    ASSUME FeedbackInv, NEW w \in Workers, NEW v \in WorkerStates,
           worker' = [worker EXCEPT ![w] = v], WorkerMatches(v)',
           UNCHANGED <<sends, stream, early, replaced, settings, operator, audit, requests>>,
           faults' \in Nat, inbound' \in [EventIds -> InboundStatuses],
           jobs' \in [EventIds -> Nat], suppression' \in [Addresses -> SuppressionReasons],
           events \subseteq events', events' \subseteq EventIds,
           decided \subseteq decided', decided' \subseteq EventIds,
           dropped \subseteq dropped', dropped' \subseteq EventIds,
           WorksOnPublished, CoverLasts, EventsDecided', StatusesHold'
    PROVE  FeedbackInv'
<1>1. TypeOK'
  BY DEF FeedbackInv, TypeOK, sends, stream
<1>2. OnlyPublished'
  BY DEF FeedbackInv, TypeOK, OnlyPublished, Published, stream, WorksOnPublished
<1>3. RecordsKept'
  BY DEF FeedbackInv, RecordsKept, Published, GivenUp, Recorded, sends, stream
<1>4. WorkersMatch'
  BY DEF FeedbackInv, TypeOK, WorkersMatch, WorkerMatches, Published, GivenUp, stream
<1>5. ConsumerInOrder'
  BY TopicTypes DEF FeedbackInv, ConsumerInOrder, stream, CoverLasts
<1>6. CommittedIsCovered'
  <2> SUFFICES ASSUME NEW i \in 1 .. offset, Recognized(notice[topic[i]].kind)
               PROVE  Covered(topic[i])'
    BY DEF CommittedIsCovered, Covered, Busy, stream
  <2>1. topic[i] \in EventIds
    BY TopicTypes
  <2>2. Covered(topic[i])
    BY DEF FeedbackInv, CommittedIsCovered, Covered
  <2>3. QED
    BY <2>1, <2>2 DEF stream, CoverLasts
<1>7. QED
  BY <1>1, <1>2, <1>3, <1>4, <1>5, <1>6 DEF FeedbackInv

(* What the invariant says of the worker that takes a step.                *)
LEMMA WorkerFacts ==
    ASSUME FeedbackInv, NEW w \in Workers
    PROVE  /\ worker \in [Workers -> WorkerStates] /\ worker[w] \in WorkerStates
           /\ WorkerMatches(worker[w])
           /\ inbound \in [EventIds -> InboundStatuses] /\ jobs \in [EventIds -> Nat]
           /\ suppression \in [Addresses -> SuppressionReasons]
           /\ events \subseteq EventIds /\ decided \subseteq EventIds /\ dropped \subseteq EventIds
           /\ faults \in Nat
           /\ OnlyPublished /\ EventsDecided /\ StatusesHold
  BY DEF FeedbackInv, TypeOK, WorkersMatch

(* A worker that goes on with the event it has.                            *)
LEMMA WorkerGoesOn ==
    ASSUME FeedbackInv, NEW w \in Workers, NEW v \in WorkerStates,
           worker[w].pc # "idle", v.pc # "idle", v.event = worker[w].event,
           worker' = [worker EXCEPT ![w] = v], WorkerMatches(v)',
           UNCHANGED <<sends, stream, early, replaced, inbound, jobs, faults, settings, operator,
                       audit, requests>>,
           suppression' \in [Addresses -> SuppressionReasons],
           events \subseteq events', events' \subseteq events \cup {v.event},
           decided \subseteq decided', decided' \subseteq EventIds, dropped' = dropped,
           v.pc \in {"settings", "upsert"} \/ v.event \in decided' \/ ~Drives(KindOf(v.event))
              \/ (v.event \in events /\ worker[w].pc \notin {"settings", "upsert"})
    PROVE  FeedbackInv'
<1> USE WorkerFacts
<1>1. v.event \in EventIds /\ Published(v.event)
  BY DEF WorkerMatches
<1>2. \A u \in Workers : worker'[u] = IF u = w THEN v ELSE worker[u]
  OBVIOUS
<1>3. CoverLasts
  BY <1>1, <1>2 DEF CoverLasts, Covered, Busy, IsProcessed
<1>4. WorksOnPublished
  BY <1>1 DEF WorksOnPublished, OnlyPublished
<1>5. \A e \in events' : KindOf(e)' = KindOf(e)
  BY DEF KindOf, stream
<1>6. EventsDecided'
  <2> SUFFICES ASSUME NEW e \in events', Drives(KindOf(e)) PROVE (e \in decided \cup dropped \/ Deciding(e))'
    BY <1>5 DEF EventsDecided
  <2>1. CASE e = v.event /\ v.pc \in {"settings", "upsert"}
    BY <2>1, <1>2 DEF Deciding
  <2>2. CASE e = v.event /\ v.event \in decided'
    BY <2>2
  <2>3. CASE e # v.event \/ (v.event \in events /\ worker[w].pc \notin {"settings", "upsert"})
    <3>1. e \in decided \cup dropped \/ Deciding(e)
      BY <2>3 DEF EventsDecided
    <3>2. CASE e \in decided \cup dropped
      BY <3>2
    <3>3. CASE Deciding(e)
      BY <3>3, <2>3, <1>2 DEF Deciding
    <3>4. QED
      BY <3>1, <3>2, <3>3
  <2>4. QED
    BY <2>1, <2>2, <2>3
<1>7. StatusesHold'
  BY DEF StatusesHold, GivenUp, stream
<1>8. QED
  BY <1>1, <1>3, <1>4, <1>6, <1>7, WorkerStep

LEMMA TakeJobStep ==
    ASSUME FeedbackInv, NEW w \in Workers, NEW e \in EventIds,
           SkipProcessed(w, e) \/ BeginProcess(w, e)
    PROVE  FeedbackInv'
<1> USE WorkerFacts
<1>1. PICK v \in WorkerStates :
          /\ worker' = [worker EXCEPT ![w] = v]
          /\ \/ v = worker[w] /\ IsProcessed(inbound[e])
             \/ v.pc = "attribute" /\ v.event = e
  <2>1. CASE SkipProcessed(w, e)
    <3>1. worker' = [worker EXCEPT ![w] = worker[w]]
      BY <2>1 DEF SkipProcessed
    <3>2. QED
      BY <2>1, <3>1 DEF SkipProcessed
  <2>2. CASE BeginProcess(w, e)
    <3>1. [pc |-> "attribute", event |-> e, status |-> "none"] \in WorkerStates
      BY DEF WorkerStates, InboundStatuses
    <3>2. QED
      BY <2>2, <3>1 DEF BeginProcess
  <2>3. QED
    BY <2>1, <2>2
<1>2. /\ worker[w].pc = "idle" /\ jobs[e] > 0 /\ jobs' = [jobs EXCEPT ![e] = @ - 1]
      /\ UNCHANGED <<sends, stream, inbound, events, lists, faults, history>>
  BY DEF SkipProcessed, BeginProcess
<1>3. jobs' \in [EventIds -> Nat] /\ \A d \in EventIds : d # e => jobs'[d] = jobs[d]
  BY <1>2
<1>4. Published(e)
  BY <1>2 DEF OnlyPublished
<1>5. \A u \in Workers : worker'[u] = IF u = w THEN v ELSE worker[u]
  BY <1>1
<1>6. WorkerMatches(v)'
  BY <1>1, <1>2, <1>4 DEF WorkerMatches, Published, GivenUp, stream, history
<1>7. CoverLasts
  BY <1>1, <1>2, <1>3, <1>5 DEF CoverLasts, Covered, Busy
<1>8. WorksOnPublished
  BY <1>2, <1>3, <1>4 DEF WorksOnPublished, OnlyPublished
<1>9. EventsDecided'
  BY <1>1, <1>2, <1>5 DEF EventsDecided, Deciding, KindOf, stream, history
<1>10. StatusesHold'
  BY <1>2 DEF StatusesHold, GivenUp, stream, history
<1>11. /\ UNCHANGED <<sends, stream, early, replaced, settings, operator, audit, requests>>
       /\ UNCHANGED <<faults, inbound, suppression, events, decided, dropped>>
  BY <1>2 DEF lists, history
<1>12. QED
  BY <1>1, <1>3, <1>6, <1>7, <1>8, <1>9, <1>10, <1>11, WorkerStep

(* A worker that is through with its event, or gives it back.              *)
LEMMA WorkerStops ==
    ASSUME FeedbackInv, NEW w \in Workers, MarkInbound(w) \/ JobFails(w)
    PROVE  FeedbackInv'
<1> USE WorkerFacts
<1> DEFINE e == worker[w].event
<1>1. e \in EventIds /\ Published(e)
  BY DEF WorkerMatches, MarkInbound, JobFails
<1>2. /\ worker' = [worker EXCEPT ![w] = IdleWorker]
      /\ \A u \in Workers : worker'[u] = IF u = w THEN IdleWorker ELSE worker[u]
  BY DEF MarkInbound, JobFails, Finishes
<1>3. WorkerMatches(IdleWorker)'
  BY IdleTypes DEF WorkerMatches
<1>4. CASE MarkInbound(w)
  <2>1. /\ inbound' = [inbound EXCEPT ![e] = worker[w].status] /\ worker[w].pc = "mark"
        /\ UNCHANGED <<sends, stream, jobs, events, lists, faults, history>>
    BY <1>4 DEF MarkInbound
  <2>2. /\ inbound' \in [EventIds -> InboundStatuses] /\ IsProcessed(inbound'[e])
        /\ \A d \in EventIds : d # e => inbound'[d] = inbound[d]
    BY <2>1, <1>1 DEF WorkerStates, WorkerMatches
  <2>3. CoverLasts
    BY <1>2, <2>1, <2>2, IdleTypes DEF CoverLasts, Covered, Busy
  <2>4. WorksOnPublished
    BY <1>1, <2>1, <2>2 DEF WorksOnPublished, OnlyPublished
  <2>5. EventsDecided'
    BY <1>2, <2>1 DEF EventsDecided, Deciding, KindOf, stream, history
  <2>6. StatusesHold'
    BY <1>1, <2>1 DEF StatusesHold, GivenUp, WorkerMatches, IsProcessed, stream, history
  <2>7. /\ UNCHANGED <<sends, stream, early, replaced, settings, operator, audit, requests>>
        /\ UNCHANGED <<faults, jobs, suppression, events, decided, dropped>>
    BY <2>1 DEF lists, history
  <2>8. QED
    BY <1>2, <1>3, <2>2, <2>3, <2>4, <2>5, <2>6, <2>7, IdleTypes, WorkerStep
<1>5. CASE JobFails(w)
  <2>1. /\ jobs' = [jobs EXCEPT ![e] = @ + 1] /\ faults' = faults + 1
        /\ dropped' = IF worker[w].pc \in {"settings", "upsert"} THEN dropped \cup {e} ELSE dropped
        /\ UNCHANGED <<sends, stream, inbound, events, lists, decided, early, replaced>>
    BY <1>5 DEF JobFails
  <2>2. /\ jobs' \in [EventIds -> Nat] /\ jobs'[e] > 0
        /\ \A d \in EventIds : d # e => jobs'[d] = jobs[d]
    BY <2>1, <1>1
  <2>3. CoverLasts
    BY <1>2, <2>1, <2>2, IdleTypes DEF CoverLasts, Covered, Busy
  <2>4. WorksOnPublished
    BY <1>1, <2>1, <2>2 DEF WorksOnPublished, OnlyPublished
  <2>5. EventsDecided'
    BY <1>1, <1>2, <2>1 DEF EventsDecided, Deciding, KindOf, stream
  <2>6. StatusesHold'
    BY <2>1 DEF StatusesHold, GivenUp, stream
  <2>7. /\ UNCHANGED <<sends, stream, early, replaced, settings, operator, audit, requests>>
        /\ UNCHANGED <<inbound, suppression, events, decided>>
        /\ dropped \subseteq dropped' /\ dropped' \subseteq EventIds /\ faults' \in Nat
    BY <1>1, <2>1 DEF lists
  <2>8. QED
    BY <1>2, <1>3, <2>2, <2>3, <2>4, <2>5, <2>6, <2>7, IdleTypes, WorkerStep
<1>6. QED
  BY <1>4, <1>5

LEMMA WorkStep == ASSUME FeedbackInv, NEW w \in Workers, Work(w) PROVE FeedbackInv'
<1> USE WorkerFacts
<1> DEFINE e == worker[w].event
<1>1. CASE Attribute(w)
  <2> DEFINE found == Attributable(notice[e].mail)
  <2> PICK v : v = [worker[w] EXCEPT !.pc = IF found THEN "record" ELSE "mark",
                                     !.status = IF found THEN "attributed" ELSE "unattributed"]
    OBVIOUS
  <2>1. /\ worker[w].pc = "attribute" /\ worker' = [worker EXCEPT ![w] = v]
        /\ UNCHANGED <<sends, stream, inbound, jobs, events, lists, faults, history>>
    BY <1>1 DEF Attribute
  <2>2. e \in EventIds /\ Published(e)
    BY <2>1 DEF WorkerMatches
  <2>3. /\ v \in WorkerStates /\ v.event = e
        /\ v.pc = IF found THEN "record" ELSE "mark"
        /\ v.status = IF found THEN "attributed" ELSE "unattributed"
    BY DEF WorkerStates, InboundStatuses
  <2>4. ~found => GivenUp(e)
    <3>1. notice[e].mail.to \in Addresses
      BY <2>2 DEF Published, Addresses
    <3>2. QED
      BY <2>2, <3>1, FeedbackAssumption
      DEF FeedbackInv, RecordsKept, Recorded, Attributable, Published
  <2>5. WorkerMatches(v)'
    BY <2>1, <2>2, <2>3, <2>4 DEF WorkerMatches, Published, GivenUp, IsProcessed, stream, history
  <2>7. CoverLasts
    <3>1. \A u \in Workers : worker'[u] = IF u = w THEN v ELSE worker[u]
      BY <2>1
    <3>2. QED
      BY <2>1, <2>3, <3>1 DEF CoverLasts, Covered, Busy
  <2>8. EventsDecided'
    <3>1. \A u \in Workers : worker'[u] = IF u = w THEN v ELSE worker[u]
      BY <2>1
    <3>2. QED
      BY <2>1, <3>1 DEF EventsDecided, Deciding, KindOf, stream, history
  <2>9. WorksOnPublished /\ StatusesHold'
    BY <2>1 DEF WorksOnPublished, OnlyPublished, StatusesHold, GivenUp, stream, history
  <2>10. /\ UNCHANGED <<sends, stream, early, replaced, settings, operator, audit, requests>>
         /\ UNCHANGED <<faults, jobs, inbound, suppression, events, decided, dropped>>
    BY <2>1 DEF lists, history
  <2>11. QED
    BY <2>1, <2>3, <2>5, <2>7, <2>8, <2>9, <2>10, WorkerStep
<1>2. CASE RecordEvent(w)
  <2> PICK v : v = [worker[w] EXCEPT
                       !.pc = IF e \notin events /\ Drives(KindOf(e)) THEN "settings" ELSE "mark"]
    OBVIOUS
  <2>1. /\ worker[w].pc = "record" /\ worker' = [worker EXCEPT ![w] = v]
        /\ events' = events \cup {e}
        /\ UNCHANGED <<sends, stream, inbound, jobs, lists, faults, history>>
    BY <1>2 DEF RecordEvent, Goes
  <2>2. /\ e \in EventIds /\ Published(e) /\ worker[w].status = "attributed"
    BY <2>1 DEF WorkerMatches
  <2>3. /\ v \in WorkerStates /\ v.event = e /\ v.status = "attributed"
        /\ v.pc = IF e \notin events /\ Drives(KindOf(e)) THEN "settings" ELSE "mark"
    BY <2>2 DEF WorkerStates
  <2>4. WorkerMatches(v)'
    BY <2>1, <2>2, <2>3 DEF WorkerMatches, Published, IsProcessed, stream
  <2>5. /\ UNCHANGED <<sends, stream, early, replaced, inbound, jobs, faults, settings, operator,
                       audit, requests, suppression, decided, dropped>>
    BY <2>1 DEF lists, history
  <2>6. /\ worker[w].pc # "idle" /\ v.pc # "idle"
        /\ events \subseteq events' /\ events' \subseteq events \cup {v.event}
        /\ decided \subseteq decided' /\ decided' \subseteq EventIds
        /\ suppression' \in [Addresses -> SuppressionReasons] /\ dropped' = dropped
    BY <2>1, <2>3, <2>5
  <2>7. \/ v.pc \in {"settings", "upsert"} \/ ~Drives(KindOf(v.event))
        \/ (v.event \in events /\ worker[w].pc \notin {"settings", "upsert"})
    BY <2>1, <2>3
  <2>8. QED
    BY <2>1, <2>3, <2>4, <2>5, <2>6, <2>7, WorkerGoesOn
<1>3. CASE ReadSettings(w)
  <2> DEFINE suppress == ShouldSuppress(KindOf(e))
  <2> PICK v : v = [worker[w] EXCEPT !.pc = IF suppress THEN "upsert" ELSE "mark"]
    OBVIOUS
  <2>1. /\ worker[w].pc = "settings" /\ worker' = [worker EXCEPT ![w] = v]
        /\ decided' = IF suppress THEN decided ELSE decided \cup {e}
        /\ UNCHANGED <<sends, stream, inbound, jobs, events, lists, faults, dropped, early, replaced>>
    BY <1>3 DEF ReadSettings, Goes
  <2>2. /\ e \in EventIds /\ Published(e) /\ worker[w].status = "attributed" /\ e \in events
    BY <2>1 DEF WorkerMatches
  <2>3. /\ v \in WorkerStates /\ v.event = e /\ v.status = "attributed"
        /\ v.pc = IF suppress THEN "upsert" ELSE "mark"
    BY <2>2 DEF WorkerStates
  <2>4. WorkerMatches(v)'
    BY <2>1, <2>2, <2>3 DEF WorkerMatches, Published, IsProcessed, stream
  <2>5. /\ UNCHANGED <<sends, stream, early, replaced, inbound, jobs, faults, settings, operator,
                       audit, requests, suppression, events, dropped>>
    BY <2>1 DEF lists
  <2>6. decided \subseteq decided' /\ decided' \subseteq EventIds
        /\ (v.pc \in {"settings", "upsert"} \/ v.event \in decided')
    BY <2>1, <2>2, <2>3
  <2>7. /\ worker[w].pc # "idle" /\ v.pc # "idle"
        /\ events \subseteq events' /\ events' \subseteq events \cup {v.event}
        /\ suppression' \in [Addresses -> SuppressionReasons] /\ dropped' = dropped
    BY <2>1, <2>3, <2>5
  <2>8. QED
    BY <2>1, <2>3, <2>4, <2>5, <2>6, <2>7, WorkerGoesOn
<1>4. CASE Suppress(w)
  <2> PICK v : v = [worker[w] EXCEPT !.pc = "mark"]
    OBVIOUS
  <2>1. /\ worker[w].pc = "upsert" /\ worker' = [worker EXCEPT ![w] = v]
        /\ suppression' = Upserted(Target(e), Reason(KindOf(e)))
        /\ decided' = decided \cup {e}
        /\ UNCHANGED <<sends, stream, inbound, jobs, events, settings, operator, audit, requests,
                       faults, dropped, early, replaced>>
    BY <1>4 DEF Suppress, Goes
  <2>2. /\ e \in EventIds /\ Published(e) /\ worker[w].status = "attributed" /\ e \in events
    BY <2>1 DEF WorkerMatches
  <2>3. v \in WorkerStates /\ v.event = e /\ v.status = "attributed" /\ v.pc = "mark"
    BY <2>2 DEF WorkerStates
  <2>4. WorkerMatches(v)'
    BY <2>1, <2>2, <2>3 DEF WorkerMatches, Published, IsProcessed, stream
  <2>5. suppression' \in [Addresses -> SuppressionReasons]
    BY <2>1 DEF Upserted, Reason, SuppressionReasons
  <2>6. /\ worker[w].pc # "idle" /\ v.pc # "idle" /\ v.event \in decided'
        /\ events \subseteq events' /\ events' \subseteq events \cup {v.event}
        /\ decided \subseteq decided' /\ decided' \subseteq EventIds /\ dropped' = dropped
    BY <2>1, <2>2, <2>3
  <2>7. QED
    BY <2>1, <2>2, <2>3, <2>4, <2>5, <2>6, WorkerGoesOn
<1>5. QED
  BY <1>1, <1>2, <1>3, <1>4, WorkerStops DEF Work

-----------------------------------------------------------------------------
(* Operators touch neither notifications nor jobs.                         *)
LEMMA OperatorStep ==
    ASSUME FeedbackInv,
           suppression' \in [Addresses -> SuppressionReasons], settings' \in BounceSettings,
           operator' \in [Operators -> OperatorStates], audit' \in SUBSET AuditEntries,
           requests' \in Nat, faults' \in Nat, UNCHANGED <<sends, stream, staged, history>>
    PROVE  FeedbackInv'
<1>1. TypeOK'
  BY DEF FeedbackInv, TypeOK, sends, stream, staged, history
<1>2. OnlyPublished' /\ ConsumerInOrder' /\ CommittedIsCovered'
  BY DEF FeedbackInv, OnlyPublished, ConsumerInOrder, CommittedIsCovered, Published, Covered,
     Busy, stream, staged
<1>3. RecordsKept' /\ WorkersMatch' /\ StatusesHold'
  BY DEF FeedbackInv, RecordsKept, WorkersMatch, StatusesHold, WorkerMatches, Published,
     GivenUp, Recorded, sends, stream, staged, history
<1>4. EventsDecided'
  BY DEF FeedbackInv, EventsDecided, Deciding, KindOf, stream, staged, history
<1>5. QED
  BY <1>1, <1>2, <1>3, <1>4 DEF FeedbackInv

LEMMA OperatorsStep ==
    ASSUME FeedbackInv, NEW o \in Operators,
           \/ \E a \in Addresses : AddSuppression(o, a) \/ RemoveSuppression(o, a)
           \/ \E s \in Choices : UpdateBounceSettings(o, s)
           \/ RecordAudit(o) \/ RequestFails(o)
    PROVE  FeedbackInv'
<1>1. /\ suppression \in [Addresses -> SuppressionReasons] /\ settings \in BounceSettings
      /\ operator \in [Operators -> OperatorStates] /\ audit \in SUBSET AuditEntries
      /\ requests \in Nat /\ faults \in Nat
  BY DEF FeedbackInv, TypeOK
<1>2. ASSUME NEW op \in AllOperations, NEW a \in Addresses \cup {Nobody}, Changed(o, op, a)
      PROVE  operator' \in [Operators -> OperatorStates] /\ requests' \in Nat
  BY <1>1, <1>2 DEF Changed, OperatorStates
<1>3. ASSUME NEW a \in Addresses, AddSuppression(o, a) PROVE FeedbackInv'
  <2>1. suppression' \in [Addresses -> SuppressionReasons]
    BY <1>1, <1>3 DEF AddSuppression, Upserted, SuppressionReasons
  <2>2. operator' \in [Operators -> OperatorStates] /\ requests' \in Nat
    BY <1>2, <1>3 DEF AddSuppression, AllOperations
  <2>3. QED
    BY <1>1, <1>3, <2>1, <2>2, OperatorStep DEF AddSuppression
<1>4. ASSUME NEW a \in Addresses, RemoveSuppression(o, a) PROVE FeedbackInv'
  <2>1. suppression' \in [Addresses -> SuppressionReasons]
    BY <1>1, <1>4 DEF RemoveSuppression, SuppressionReasons
  <2>2. operator' \in [Operators -> OperatorStates] /\ requests' \in Nat
    BY <1>2, <1>4 DEF RemoveSuppression, AllOperations
  <2>3. QED
    BY <1>1, <1>4, <2>1, <2>2, OperatorStep DEF RemoveSuppression
<1>5. ASSUME NEW s \in Choices, UpdateBounceSettings(o, s) PROVE FeedbackInv'
  <2>1. settings' \in BounceSettings
    BY <1>5, FeedbackAssumption DEF UpdateBounceSettings, BounceSettings
  <2>2. operator' \in [Operators -> OperatorStates] /\ requests' \in Nat
    BY <1>2, <1>5 DEF UpdateBounceSettings, AllOperations
  <2>3. QED
    BY <1>1, <1>5, <2>1, <2>2, OperatorStep DEF UpdateBounceSettings
<1>6. CASE RecordAudit(o)
  <2>1. audit' \in SUBSET AuditEntries /\ operator' \in [Operators -> OperatorStates]
    BY <1>1, <1>6, IdleTypes DEF RecordAudit, AuditEntries, OperatorStates
  <2>2. QED
    BY <1>1, <1>6, <2>1, OperatorStep DEF RecordAudit
<1>7. CASE RequestFails(o)
  <2>1. operator' \in [Operators -> OperatorStates] /\ faults' \in Nat
    BY <1>1, <1>7, IdleTypes DEF RequestFails
  <2>2. QED
    BY <1>1, <1>7, <2>1, OperatorStep DEF RequestFails, history
<1>8. QED
  BY <1>3, <1>4, <1>5, <1>6, <1>7

-----------------------------------------------------------------------------
LEMMA FeedbackStep == FeedbackInv /\ [Next]_vars => FeedbackInv'
<1> SUFFICES ASSUME FeedbackInv, [Next]_vars PROVE FeedbackInv'
  OBVIOUS
<1>1. CASE UNCHANGED vars
  BY <1>1, OperatorStep DEF vars, lists, FeedbackInv, TypeOK
<1>2. ASSUME NEW m \in Mails, MarkSent(m) \/ RecordMessage(m) PROVE FeedbackInv'
  BY <1>2, SendsStep
<1>3. ASSUME NEW e \in EventIds, NEW kind \in Kinds, NEW m \in Mails, Publish(e, kind, m)
      PROVE  FeedbackInv'
  BY <1>3, PublishStep
<1>4. CASE Consume \/ Restart
  BY <1>4, ConsumeStep
<1>5. ASSUME NEW w \in Workers, NEW e \in EventIds, SkipProcessed(w, e) \/ BeginProcess(w, e)
      PROVE  FeedbackInv'
  BY <1>5, TakeJobStep
<1>6. ASSUME NEW w \in Workers, Work(w) \/ JobFails(w) PROVE FeedbackInv'
  BY <1>6, WorkStep, WorkerStops
<1>7. ASSUME NEW o \in Operators,
             \/ \E a \in Addresses : AddSuppression(o, a) \/ RemoveSuppression(o, a)
             \/ \E s \in Choices : UpdateBounceSettings(o, s)
             \/ RecordAudit(o) \/ RequestFails(o)
      PROVE  FeedbackInv'
  BY <1>7, OperatorsStep
<1>8. QED
  BY <1>1, <1>2, <1>3, <1>4, <1>5, <1>6, <1>7 DEF Next

(* Every reachable state of the feedback pipeline satisfies the invariant. *)
THEOREM FeedbackInvariant == Spec => []FeedbackInv
  BY FeedbackInitInv, FeedbackStep, PTL DEF Spec

(* No notification is lost: one that the committed offset is past has been *)
(* processed or still has a job, wherever consumer and workers crash.      *)
THEOREM NoFeedbackIsLost == Spec => []CommittedIsCovered
<1>1. FeedbackInv => CommittedIsCovered
  BY DEF FeedbackInv
<1>2. QED
  BY <1>1, FeedbackInvariant, PTL

(* A bounce or complaint that is marked attributed was recorded, and its   *)
(* suppression decided by the job that recorded it, unless that job failed *)
(* in between.                                                             *)
THEOREM AttributedFeedbackIsDecided == Spec => []AttributedIsDecided
<1>1. FeedbackInv => AttributedIsDecided
  BY DEF FeedbackInv, EventsDecided, StatusesHold, Deciding, AttributedIsDecided
<1>2. QED
  BY <1>1, FeedbackInvariant, PTL

(* Feedback on a send that was recorded before is never given up as        *)
(* unattributed, unless its row was overwritten by a later mail.           *)
THEOREM RecordedFeedbackIsAttributed == Spec => []RecordedSendIsAttributed
<1>1. FeedbackInv => RecordedSendIsAttributed
  BY DEF FeedbackInv, StatusesHold, GivenUp, RecordedSendIsAttributed
<1>2. QED
  BY <1>1, FeedbackInvariant, PTL
=============================================================================
