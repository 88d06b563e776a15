------------------------- MODULE CampaignSendProofs -------------------------
(***************************************************************************)
(* Theorems about CampaignSend, for every number of recipients, workers    *)
(* and requests, every batch size and every error threshold.               *)
(***************************************************************************)
EXTENDS CampaignSend, FiniteSetTheorems, TLAPS

-----------------------------------------------------------------------------
(* The operators the actions are built from.                               *)

(* Recipients.Counts returns natural numbers.                              *)
LEMMA CountsInTallies == Counts \in Tallies
<1>1. IsFiniteSet(Emails)
  BY CampaignAssumption, FS_Interval DEF Emails, CampaignAssumption
<1>2. \A s : IsFiniteSet(RowsWith(s)) /\ Cardinality(RowsWith(s)) \in Nat
  <2> TAKE s
  <2>1. RowsWith(s) \subseteq Emails
    BY DEF RowsWith
  <2> QED
    BY <1>1, <2>1, FS_Subset, FS_CardinalityType
<1> QED
  BY <1>2 DEF Counts, Tallies

(* Waiting and redelivered jobs are counted per job.                       *)
LEMMA QueueType ==
    ASSUME queue \in [Jobs -> Nat], NEW job, Enqueue(job) \/ Dequeue(job)
    PROVE  queue' \in [Jobs -> Nat]
BY DEF Enqueue, Dequeue

(* Whatever a closure does, the campaign row stays well formed.            *)
LEMMA ClosureType ==
    ASSUME NEW fn, NEW c \in Campaigns, NEW tally \in Tallies
    PROVE  Closure(fn, c, tally) \in Campaigns
<1>1. QuotaCancel(c) \in Campaigns
  BY DEF QuotaCancel, Campaigns, Statuses
<1>2. [c EXCEPT !.total = RecipientTotal(tally)] \in Campaigns
  BY DEF RecipientTotal, Campaigns, Tallies
<1>3. SyncProgress(c, tally) \in Campaigns
  BY DEF SyncProgress, Campaigns, Tallies
<1>4. Progress(c, tally) \in Campaigns
  BY <1>3 DEF Progress, Campaigns, Statuses
<1> QED
  BY <1>1, <1>2, <1>4 DEF Closure

LEMMA AppliedType ==
    ASSUME NEW op, NEW c \in Campaigns
    PROVE  Applied(op, c) \in Campaigns
BY DEF Applied, Campaigns, Statuses

(* The states the processes start from.                                    *)
LEMMA IdleTypes ==
    /\ NewCampaign \in Campaigns
    /\ NoTally \in Tallies
    /\ StartJob \in Jobs
    /\ IdleWorker \in WorkerStates
    /\ IdleHandler \in HandlerStates
<1>1. NewCampaign \in Campaigns /\ NoTally \in Tallies /\ StartJob \in Jobs
  BY DEF NewCampaign, Campaigns, Statuses, NoTally, Tallies, Jobs
<1>2. IdleWorker \in WorkerStates
  BY <1>1 DEF IdleWorker, WorkerStates, WorkerPCs, Closures
<1>3. IdleHandler \in HandlerStates
  BY <1>1 DEF IdleHandler, HandlerStates, AllOperations
<1> QED
  BY <1>1, <1>2, <1>3

-----------------------------------------------------------------------------
(* Type correctness.                                                       *)

(* A worker's new state is a worker state if its fields are.               *)
LEMMA WorkerType ==
    ASSUME worker \in [Workers -> WorkerStates], NEW w, NEW s \in WorkerStates,
           Becomes(w, s)
    PROVE  worker' \in [Workers -> WorkerStates]
BY DEF Becomes

LEMMA TypeInit == Init => TypeOK
<1> SUFFICES ASSUME Init PROVE TypeOK
  OBVIOUS
<1>1. worker \in [Workers -> WorkerStates] /\ handler \in [Handlers -> HandlerStates]
  BY IdleTypes DEF Init
<1>2. campaign \in Campaigns /\ queue \in [Jobs -> Nat]
  BY IdleTypes DEF Init
<1>3. requests \in 0 .. MaxRequests /\ faults \in 0 .. MaxFaults
  BY CampaignAssumption DEF Init, CampaignAssumption
<1>4. row \in [Emails -> RowStatuses] /\ delivered \in [Emails -> Nat]
  BY DEF Init, RowStatuses
<1> QED
  BY <1>1, <1>2, <1>3, <1>4 DEF Init, TypeOK

(* A request of an operator.                                               *)
LEMMA TypeApi ==
    ASSUME TypeOK, NEW h \in Handlers, Api(h)
    PROVE  TypeOK'
<1> USE DEF TypeOK, Becomes
<1>1. ASSUME NEW op \in Operations, Request(h, op) PROVE TypeOK'
  <2>1. [pc |-> "write", op |-> op, snap |-> campaign] \in HandlerStates
    BY CampaignAssumption DEF CampaignAssumption, HandlerStates
  <2> QED
    BY <1>1, <2>1, CampaignAssumption DEF Request, CampaignAssumption
<1>2. CASE Commit(h)
  <2>1. campaign' \in Campaigns
    BY <1>2, AppliedType DEF Commit, HandlerStates
  <2>2. handler' \in [Handlers -> HandlerStates]
    <3>1. Committed(handler[h].op) \in HandlerStates
      BY IdleTypes DEF Committed, HandlerStates
    <3> QED
      BY <1>2, <3>1 DEF Commit
  <2> QED
    BY <1>2, <2>1, <2>2 DEF Commit
<1>3. CASE EnqueueStart(h)
  BY <1>3, QueueType, IdleTypes DEF EnqueueStart
<1>4. CASE RequestFails(h)
  BY <1>4, IdleTypes, CampaignAssumption DEF RequestFails, CampaignAssumption
<1>5. CASE SaveTargets(h)
  BY <1>5, IdleTypes DEF SaveTargets
<1> QED
  BY <1>1, <1>2, <1>3, <1>4, <1>5 DEF Api

(* A step of campaign.start.                                               *)
LEMMA TypeStart ==
    ASSUME TypeOK, NEW w \in Workers, StartStep(w)
    PROVE  TypeOK'
<1> USE DEF TypeOK, Becomes
<1>1. CASE BeginStart(w)
  <2>1. [IdleWorker EXCEPT !.pc = "insert", !.todo = audience] \in WorkerStates
    BY IdleTypes DEF WorkerStates, WorkerPCs
  <2>2. [IdleWorker EXCEPT !.pc = "read", !.fn = "quotaCancel"] \in WorkerStates
    BY IdleTypes DEF WorkerStates, WorkerPCs, Closures
  <2> QED
    BY <1>1, <2>1, <2>2, QueueType DEF BeginStart
<1>2. CASE BulkInsert(w)
  <2>1. [worker[w] EXCEPT !.pc = "count", !.todo = {}] \in WorkerStates
    BY ZenonT(60) DEF WorkerStates, WorkerPCs
  <2>2. Inserted(worker[w].todo) \subseteq Emails
    BY DEF Inserted, WorkerStates
  <2> QED
    BY <1>2, <2>1, <2>2 DEF BulkInsert, RowStatuses
<1>3. CASE EnqueueBatch(w)
  <2>1. [worker[w] EXCEPT !.next = worker[w].next + BatchSize] \in WorkerStates
    BY CampaignAssumption DEF WorkerStates, CampaignAssumption
  <2> QED
    BY <1>3, <2>1, QueueType DEF EnqueueBatch
<1> QED
  BY <1>1, <1>2, <1>3 DEF StartStep

(* A step of campaign.batch.                                               *)
LEMMA TypeBatch ==
    ASSUME TypeOK, NEW w \in Workers, BatchStep(w)
    PROVE  TypeOK'
<1> USE DEF TypeOK, Becomes
<1>1. ASSUME NEW j \in BatchJobs, BeginBatch(w, j) PROVE TypeOK'
  <2>1. Pending(j.offset, BatchSize) \subseteq Emails
    BY DEF Pending, RowsWith
  <2>2. [IdleWorker EXCEPT !.pc = "loop", !.job = j,
                           !.todo = Pending(j.offset, BatchSize),
                           !.held = Held(Pending(j.offset, BatchSize))] \in WorkerStates
    BY <2>1, IdleTypes DEF WorkerStates, WorkerPCs, Held, Jobs
  <2> QED
    BY <1>1, <2>2, QueueType DEF BeginBatch
<1>2. ASSUME NEW e \in Emails, SkipRecipient(w, e) PROVE TypeOK'
  <2>1. [worker[w] EXCEPT !.todo = worker[w].todo \ {e}] \in WorkerStates
    BY DEF WorkerStates
  <2> QED
    BY <1>2, <2>1 DEF SkipRecipient, SkippedStatus, RowStatuses
<1>3. ASSUME NEW e \in Emails, SkipLost(w, e) PROVE TypeOK'
  <2>1. [worker[w] EXCEPT !.todo = worker[w].todo \ {e}] \in WorkerStates
    BY DEF WorkerStates
  <2> QED
    BY <1>3, <2>1, CampaignAssumption DEF SkipLost, DropError, CampaignAssumption
<1>4. ASSUME NEW e \in Emails, Send(w, e) PROVE TypeOK'
  <2>1. \A ok \in BOOLEAN : [worker[w] EXCEPT !.pc = "mark", !.ok = ok] \in WorkerStates
    BY ZenonT(60) DEF WorkerStates, WorkerPCs
  <2>2. PICK accepted, ok \in BOOLEAN :
           /\ accepted /\ ~ok => faults < MaxFaults
           /\ faults' = IF accepted /\ ~ok THEN faults + 1 ELSE faults
           /\ delivered' = IF accepted THEN [delivered EXCEPT ![e] = @ + 1] ELSE delivered
           /\ Becomes(w, [worker[w] EXCEPT !.pc = "mark", !.ok = ok])
    BY <1>4 DEF Send
  <2>3. worker' \in [Workers -> WorkerStates]
    BY <2>1, <2>2
  <2>4. delivered' \in [Emails -> Nat]
    BY <2>2
  <2>5. faults' \in 0 .. MaxFaults
    BY <2>2, CampaignAssumption DEF CampaignAssumption
  <2> QED
    BY <1>4, <2>3, <2>4, <2>5 DEF Send
<1>5. \A e \in Emails : NextRecipient(w, e) => worker' \in [Workers -> WorkerStates]
  <2> TAKE e \in Emails
  <2>1. Accepted(worker[w], e) \in SUBSET Emails
    BY DEF Accepted, WorkerStates
  <2>2. [worker[w] EXCEPT !.pc = "loop", !.todo = worker[w].todo \ {e}, !.ok = FALSE,
                          !.accepted = Accepted(worker[w], e)] \in WorkerStates
    BY <2>1, ZenonT(60) DEF WorkerStates, WorkerPCs
  <2> QED
    BY <2>2 DEF NextRecipient
<1>6. ASSUME NEW e \in Emails, Mark(w, e) PROVE TypeOK'
  BY <1>5, <1>6 DEF Mark, Outcome, RowStatuses
<1>7. ASSUME NEW e \in Emails, MarkLost(w, e) PROVE TypeOK'
  BY <1>5, <1>7, CampaignAssumption DEF MarkLost, DropError, CampaignAssumption
<1>8. CASE Throttle(w)
  <2>1. [worker[w] EXCEPT !.todo = {}, !.held = {}, !.snooze = TRUE] \in WorkerStates
    BY DEF WorkerStates
  <2> QED
    BY <1>8, <2>1 DEF Throttle
<1>9. Metered(worker[w]) \in WorkerStates
  BY ZenonT(60) DEF Metered, WorkerStates, WorkerPCs
<1>10. CASE RecordUsage(w)
  <2>1. metered' \in SUBSET Emails
    BY <1>10 DEF RecordUsage, WorkerStates
  <2> QED
    BY <1>9, <1>10, <2>1 DEF RecordUsage
<1>11. CASE UsageLost(w)
  BY <1>9, <1>11, CampaignAssumption DEF UsageLost, DropError, CampaignAssumption
<1> QED
  BY <1>1, <1>2, <1>3, <1>4, <1>6, <1>7, <1>8, <1>10, <1>11 DEF BatchStep

(* A step both jobs take, or River.                                        *)
LEMMA TypeJob ==
    ASSUME TypeOK, NEW w \in Workers, JobStep(w)
    PROVE  TypeOK'
<1> USE DEF TypeOK, Becomes
<1>1. ASSUME NEW j \in Jobs, SkipJob(w, j) PROVE TypeOK'
  BY <1>1, QueueType DEF SkipJob
<1>2. CASE Count(w)
  <2>1. \A fn \in Closures :
           [worker[w] EXCEPT !.pc = "read", !.tally = Counts, !.fn = fn] \in WorkerStates
    BY CountsInTallies, ZenonT(60) DEF WorkerStates, WorkerPCs
  <2> QED
    BY <1>2, <2>1 DEF Count, Closures
<1>3. CASE UpdateRead(w)
  <2>1. [worker[w] EXCEPT !.pc = "write", !.snap = campaign] \in WorkerStates
    BY ZenonT(60) DEF WorkerStates, WorkerPCs
  <2> QED
    BY <1>3, <2>1 DEF UpdateRead
<1>4. CASE UpdateWrite(w)
  <2>1. campaign' \in Campaigns
    BY <1>4, ClosureType DEF UpdateWrite, WorkerStates
  <2>2. \A pc \in WorkerPCs :
           [worker[w] EXCEPT !.pc = pc, !.snap = NewCampaign] \in WorkerStates
    BY IdleTypes DEF WorkerStates
  <2> QED
    BY <1>4, <2>1, <2>2 DEF UpdateWrite, WorkerPCs
<1>5. CASE JobDone(w)
  BY <1>5, QueueType, IdleTypes DEF JobDone
<1>6. CASE JobFails(w)
  BY <1>6, QueueType, IdleTypes, CampaignAssumption DEF JobFails, CampaignAssumption
<1> QED
  BY <1>1, <1>2, <1>3, <1>4, <1>5, <1>6 DEF JobStep

LEMMA TypeNext == TypeOK /\ [Next]_vars => TypeOK'
<1> SUFFICES ASSUME TypeOK, [Next]_vars PROVE TypeOK'
  OBVIOUS
<1>1. ASSUME NEW e \in Emails, Join(e) PROVE TypeOK'
  BY <1>1 DEF Join, TypeOK
<1>2. ASSUME NEW e \in Emails, Suppress(e) PROVE TypeOK'
  BY <1>2 DEF Suppress, TypeOK
<1>3. CASE UNCHANGED vars
  BY <1>3 DEF vars, TypeOK
<1> QED
  BY <1>1, <1>2, <1>3, TypeApi, TypeStart, TypeBatch, TypeJob DEF Next

(* Every variable keeps its type: in particular every status written to a  *)
(* campaign or recipient row is one its CHECK constraint admits, and the   *)
(* counters never go negative.                                             *)
THEOREM TypeCorrect == Spec => []TypeOK
BY TypeInit, TypeNext, PTL DEF Spec

-----------------------------------------------------------------------------
(* The mail, the records and the bill.  What makes SentWasMailed and       *)
(* BilledWasMailed inductive is what a worker knows between Send and the   *)
(* writes that follow it: whom it has accepted mail of, that the answer it *)
(* is about to record is the answer for the recipient it is at, and that   *)
(* all its recipients have rows.                                           *)
MailInv ==
    /\ SentWasMailed
    /\ BilledWasMailed
    /\ \A w \in Workers : worker[w].accepted \subseteq Mailed
    /\ \A w \in Workers, e \in Emails :
          worker[w].pc = "mark" /\ worker[w].ok /\ Upcoming(w, e) => e \in Mailed
    /\ \A w \in Workers :
          worker[w].pc \in {"loop", "mark"} => worker[w].todo \subseteq Rows

LEMMA MailInit == Init => MailInv
BY DEF Init, MailInv, SentWasMailed, BilledWasMailed, IdleWorker, Mailed

(* A step of worker w that neither mails, records nor meters, after which  *)
(* it is not in the batch loop.                                            *)
LEMMA MailOutsideLoop ==
    ASSUME TypeOK, MailInv, NEW w \in Workers, NEW s,
           s.pc \notin {"loop", "mark"}, s.accepted \subseteq worker[w].accepted,
           Becomes(w, s), UNCHANGED <<row, delivered, metered>>
    PROVE  MailInv'
<1>1. Mailed' = Mailed /\ Rows' = Rows
  BY DEF Mailed, Rows
<1>2. \A v \in Workers : worker'[v] = IF v = w THEN s ELSE worker[v]
  BY DEF Becomes, TypeOK
<1> QED
  BY <1>1, <1>2 DEF MailInv, SentWasMailed, BilledWasMailed, Upcoming

LEMMA MailBatch ==
    ASSUME TypeOK, MailInv, NEW w \in Workers, BatchStep(w)
    PROVE  MailInv'
<1>0. \A s : Becomes(w, s) => \A v \in Workers : worker'[v] = IF v = w THEN s ELSE worker[v]
  BY DEF Becomes, TypeOK
<1>1. ASSUME NEW j \in BatchJobs, BeginBatch(w, j) PROVE MailInv'
  <2> DEFINE todo == Pending(j.offset, BatchSize)
             s == [IdleWorker EXCEPT !.pc = "loop", !.job = j, !.todo = todo,
                                     !.held = Held(todo)]
  <2>1. Mailed' = Mailed /\ Rows' = Rows
    BY <1>1 DEF BeginBatch, Mailed, Rows
  <2>2. \A v \in Workers : worker'[v] = IF v = w THEN s ELSE worker[v]
    BY <1>0, <1>1 DEF BeginBatch
  <2>3. s.pc = "loop" /\ s.accepted = {} /\ s.todo \subseteq Rows
    BY DEF IdleWorker, Pending, RowsWith, Rows
  <2>4. UNCHANGED <<row, metered>>
    BY <1>1 DEF BeginBatch
  <2> HIDE DEF s
  <2> QED
    BY <2>1, <2>2, <2>3, <2>4 DEF MailInv, SentWasMailed, BilledWasMailed, Upcoming
<1>2. ASSUME NEW e \in Emails, SkipRecipient(w, e) PROVE MailInv'
  <2>1. Mailed' = Mailed /\ Rows \subseteq Rows' /\ UNCHANGED metered
    BY <1>2 DEF SkipRecipient, Mailed, Rows, SkippedStatus, TypeOK
  <2>2. \A v \in Workers : worker'[v] =
           IF v = w THEN [worker[w] EXCEPT !.todo = worker[w].todo \ {e}] ELSE worker[v]
    BY <1>0, <1>2 DEF SkipRecipient
  <2>3. worker[w].pc = "loop" /\ worker[w] \in WorkerStates
    BY <1>2 DEF SkipRecipient, TypeOK
  <2>4. SentWasMailed'
    BY <1>2, <2>1 DEF SkipRecipient, SkippedStatus, MailInv, SentWasMailed, TypeOK
  <2> QED
    BY <2>1, <2>2, <2>3, <2>4 DEF MailInv, BilledWasMailed, Upcoming, WorkerStates
<1>3. ASSUME NEW e \in Emails, SkipLost(w, e) PROVE MailInv'
  <2>1. Mailed' = Mailed /\ Rows' = Rows /\ UNCHANGED <<row, metered>>
    BY <1>3 DEF SkipLost, Mailed, Rows
  <2>2. \A v \in Workers : worker'[v] =
           IF v = w THEN [worker[w] EXCEPT !.todo = worker[w].todo \ {e}] ELSE worker[v]
    BY <1>0, <1>3 DEF SkipLost
  <2>3. worker[w].pc = "loop" /\ worker[w] \in WorkerStates
    BY <1>3 DEF SkipLost, TypeOK
  <2> QED
    BY <2>1, <2>2, <2>3 DEF MailInv, SentWasMailed, BilledWasMailed, Upcoming, WorkerStates
<1>4. ASSUME NEW e \in Emails, Send(w, e) PROVE MailInv'
  <2>1. PICK accepted, ok \in BOOLEAN :
           /\ ok => accepted
           /\ delivered' = IF accepted THEN [delivered EXCEPT ![e] = @ + 1] ELSE delivered
           /\ Becomes(w, [worker[w] EXCEPT !.pc = "mark", !.ok = ok])
    BY <1>4 DEF Send
  <2>2. Mailed \subseteq Mailed' /\ (ok => e \in Mailed')
    BY <2>1 DEF Mailed, TypeOK
  <2>3. \A v \in Workers : worker'[v] =
           IF v = w THEN [worker[w] EXCEPT !.pc = "mark", !.ok = ok] ELSE worker[v]
    BY <1>0, <2>1
  <2>4. UNCHANGED <<row, metered>> /\ Rows' = Rows
    BY <1>4 DEF Send, Rows
  <2>5. worker[w].pc = "loop" /\ worker[w] \in WorkerStates /\ Upcoming(w, e)
    BY <1>4 DEF Send, TypeOK
  <2>6. SentWasMailed' /\ BilledWasMailed'
    BY <2>2, <2>4 DEF MailInv, SentWasMailed, BilledWasMailed
  <2>7. \A v \in Workers : worker'[v].accepted = worker[v].accepted /\ worker'[v].todo = worker[v].todo
    <3> DEFINE s == [worker[w] EXCEPT !.pc = "mark", !.ok = ok]
    <3>1. s.accepted = worker[w].accepted /\ s.todo = worker[w].todo
      BY <2>5 DEF WorkerStates
    <3>2. \A v \in Workers : worker'[v] = IF v = w THEN s ELSE worker[v]
      BY <2>3
    <3> HIDE DEF s
    <3> QED
      BY <3>1, <3>2
  <2>8. ASSUME NEW v \in Workers, NEW f \in Emails,
               worker'[v].pc = "mark", worker'[v].ok, Upcoming(v, f)'
        PROVE  f \in Mailed'
    <3>1. Upcoming(v, f)
      BY <2>7, <2>8 DEF Upcoming
    <3>2. CASE v # w
      BY <2>2, <2>3, <2>8, <3>1, <3>2 DEF MailInv
    <3>3. CASE v = w
      <4>1. f = e
        BY <2>5, <3>1, <3>3 DEF Upcoming, Emails
      <4>2. ok
        BY <2>3, <2>5, <2>8, <3>3 DEF WorkerStates
      <4> QED
        BY <2>2, <4>1, <4>2
    <3> QED
      BY <3>2, <3>3
  <2>9. ASSUME NEW v \in Workers, worker'[v].pc \in {"loop", "mark"}
        PROVE  worker'[v].todo \subseteq Rows'
    BY <2>3, <2>4, <2>5, <2>7, <2>9 DEF MailInv
  <2> QED
    BY <2>2, <2>6, <2>7, <2>8, <2>9 DEF MailInv
<1>5. ASSUME NEW e \in Emails, worker[w].pc = "mark", Upcoming(w, e), NextRecipient(w, e),
             Mailed' = Mailed, Rows \subseteq Rows', UNCHANGED metered, SentWasMailed'
      PROVE  MailInv'
  <2> DEFINE s == [worker[w] EXCEPT !.pc = "loop", !.todo = worker[w].todo \ {e},
                                    !.ok = FALSE, !.accepted = Accepted(worker[w], e)]
  <2>1. \A v \in Workers : worker'[v] = IF v = w THEN s ELSE worker[v]
    BY <1>0, <1>5 DEF NextRecipient
  <2>2. worker[w] \in WorkerStates
    BY DEF TypeOK
  <2>3. Accepted(worker[w], e) \subseteq Mailed
    BY <1>5 DEF Accepted, MailInv
  <2>4. s.accepted \subseteq Mailed /\ s.pc = "loop" /\ s.todo \subseteq Rows
    BY <1>5, <2>2, <2>3 DEF WorkerStates, MailInv
  <2> HIDE DEF s
  <2> QED
    BY <1>5, <2>1, <2>4 DEF MailInv, BilledWasMailed, Upcoming
<1>6. ASSUME NEW e \in Emails, Mark(w, e) PROVE MailInv'
  <2>1. Mailed' = Mailed /\ Rows \subseteq Rows' /\ UNCHANGED metered
    BY <1>6 DEF Mark, Mailed, Rows, Outcome, TypeOK
  <2>2. Outcome(worker[w].ok) = "sent" => e \in Mailed
    BY <1>6 DEF Mark, Outcome, MailInv
  <2>3. SentWasMailed'
    BY <1>6, <2>1, <2>2 DEF Mark, MailInv, SentWasMailed, TypeOK
  <2> QED
    BY <1>5, <1>6, <2>1, <2>3 DEF Mark
<1>7. ASSUME NEW e \in Emails, MarkLost(w, e) PROVE MailInv'
  <2>1. Mailed' = Mailed /\ Rows' = Rows /\ UNCHANGED <<row, metered>>
    BY <1>7 DEF MarkLost, Mailed, Rows
  <2>2. SentWasMailed'
    BY <2>1 DEF MailInv, SentWasMailed
  <2> QED
    BY <1>5, <1>7, <2>1, <2>2 DEF MarkLost
<1>8. CASE Throttle(w)
  <2>1. Mailed' = Mailed /\ Rows' = Rows /\ UNCHANGED <<row, metered>>
    BY <1>8 DEF Throttle, Mailed, Rows
  <2>2. \A v \in Workers : worker'[v] =
           IF v = w THEN [worker[w] EXCEPT !.todo = {}, !.held = {}, !.snooze = TRUE]
           ELSE worker[v]
    BY <1>0, <1>8 DEF Throttle
  <2>3. worker[w].pc = "loop" /\ worker[w] \in WorkerStates
    BY <1>8 DEF Throttle, TypeOK
  <2> QED
    BY <2>1, <2>2, <2>3, ZenonT(60) DEF MailInv, SentWasMailed, BilledWasMailed, Upcoming, WorkerStates
<1>9. Metered(worker[w]).pc = "count" /\ Metered(worker[w]).accepted = {}
  BY DEF Metered, TypeOK, WorkerStates
<1>10. CASE RecordUsage(w)
  <2>1. \A v \in Workers : worker'[v] = IF v = w THEN Metered(worker[w]) ELSE worker[v]
    BY <1>0, <1>10 DEF RecordUsage
  <2>2. Mailed' = Mailed /\ Rows' = Rows /\ UNCHANGED row
    BY <1>10 DEF RecordUsage, Mailed, Rows
  <2>3. metered' \subseteq Mailed
    BY <1>10 DEF RecordUsage, MailInv, BilledWasMailed
  <2> QED
    BY <1>9, <2>1, <2>2, <2>3 DEF MailInv, SentWasMailed, BilledWasMailed, Upcoming
<1>11. CASE UsageLost(w)
  BY <1>9, <1>11, MailOutsideLoop DEF UsageLost
<1> QED
  BY <1>1, <1>2, <1>3, <1>4, <1>6, <1>7, <1>8, <1>10, <1>11 DEF BatchStep

LEMMA MailNext == TypeOK /\ MailInv /\ [Next]_vars => MailInv'
<1> SUFFICES ASSUME TypeOK, MailInv, [Next]_vars PROVE MailInv'
  OBVIOUS
<1>1. CASE UNCHANGED <<row, worker, delivered, metered>>
  BY <1>1 DEF MailInv, SentWasMailed, BilledWasMailed, Mailed, Rows, Upcoming
<1>2. ASSUME NEW w \in Workers, StartStep(w) PROVE MailInv'
  <2>1. CASE BeginStart(w)
    BY <2>1, MailOutsideLoop DEF BeginStart, IdleWorker
  <2>2. CASE BulkInsert(w)
    <3> DEFINE s == [worker[w] EXCEPT !.pc = "count", !.todo = {}]
    <3>1. \A v \in Workers : worker'[v] = IF v = w THEN s ELSE worker[v]
      BY <2>2 DEF BulkInsert, Becomes, TypeOK
    <3>2. s.pc = "count" /\ s.accepted = worker[w].accepted
      BY DEF TypeOK, WorkerStates
    <3>3. Mailed' = Mailed /\ Rows \subseteq Rows' /\ UNCHANGED metered
      BY <2>2 DEF BulkInsert, Mailed, Rows, TypeOK
    <3>4. SentWasMailed'
      BY <2>2, <3>3 DEF BulkInsert, MailInv, SentWasMailed
    <3> HIDE DEF s
    <3> QED
      BY <3>1, <3>2, <3>3, <3>4 DEF MailInv, BilledWasMailed, Upcoming
  <2>3. CASE EnqueueBatch(w)
    <3>1. [worker[w] EXCEPT !.next = worker[w].next + BatchSize].pc = "enqueue"
      BY <2>3 DEF EnqueueBatch, TypeOK, WorkerStates
    <3>2. [worker[w] EXCEPT !.next = worker[w].next + BatchSize].accepted = worker[w].accepted
      BY DEF TypeOK, WorkerStates
    <3> QED
      BY <2>3, <3>1, <3>2, MailOutsideLoop DEF EnqueueBatch
  <2> QED
    BY <1>2, <2>1, <2>2, <2>3 DEF StartStep
<1>3. ASSUME NEW w \in Workers, JobStep(w) PROVE MailInv'
  <2>1. ASSUME NEW j \in Jobs, SkipJob(w, j) PROVE MailInv'
    BY <1>1, <2>1 DEF SkipJob
  <2>2. CASE Count(w)
    <3> DEFINE s == [worker[w] EXCEPT !.pc = "read", !.tally = Counts,
                                      !.fn = IF worker[w].job.kind = "start"
                                             THEN "recipientCount" ELSE "progress"]
    <3>1. s.pc = "read" /\ s.accepted = worker[w].accepted
      BY DEF TypeOK, WorkerStates
    <3> QED
      BY <2>2, <3>1, MailOutsideLoop DEF Count
  <2>3. CASE UpdateRead(w)
    <3> DEFINE s == [worker[w] EXCEPT !.pc = "write", !.snap = campaign]
    <3>1. s.pc = "write" /\ s.accepted = worker[w].accepted
      BY DEF TypeOK, WorkerStates
    <3> QED
      BY <2>3, <3>1, MailOutsideLoop DEF UpdateRead
  <2>4. CASE UpdateWrite(w)
    <3> DEFINE s == [worker[w] EXCEPT !.pc = IF worker[w].fn = "recipientCount"
                                             THEN "enqueue" ELSE "done",
                                      !.snap = NewCampaign]
    <3>1. s.pc \notin {"loop", "mark"} /\ s.accepted = worker[w].accepted
      BY DEF TypeOK, WorkerStates
    <3> QED
      BY <2>4, <3>1, MailOutsideLoop DEF UpdateWrite
  <2>5. IdleWorker.pc = "idle" /\ IdleWorker.accepted = {}
    BY DEF IdleWorker
  <2>6. CASE JobDone(w)
    BY <2>5, <2>6, MailOutsideLoop DEF JobDone
  <2>7. CASE JobFails(w)
    BY <2>5, <2>7, MailOutsideLoop DEF JobFails
  <2> QED
    BY <1>3, <2>1, <2>2, <2>3, <2>4, <2>6, <2>7 DEF JobStep
<1>4. ASSUME NEW h \in Handlers, Api(h) PROVE MailInv'
  BY <1>1, <1>4 DEF Api, Request, Commit, SaveTargets, EnqueueStart, RequestFails
<1>5. ASSUME NEW e \in Emails, Join(e) \/ Suppress(e) PROVE MailInv'
  BY <1>1, <1>5 DEF Join, Suppress
<1>6. CASE UNCHANGED vars
  BY <1>1, <1>6 DEF vars
<1> QED
  BY <1>2, <1>3, <1>4, <1>5, <1>6, MailBatch DEF Next

LEMMA MailInvariant == Spec => []MailInv
BY MailInit, MailNext, TypeCorrect, PTL DEF Spec

(* A recipient recorded as sent was mailed, however jobs crash, are        *)
(* redelivered and overlap (BatchWorker.sendOne).                          *)
THEOREM SentOnlyIfMailed == Spec => []SentWasMailed
<1>1. MailInv => SentWasMailed
  BY DEF MailInv
<1> QED
  BY <1>1, MailInvariant, PTL

(* The usage ledger bills a subset of the accepted mail                    *)
(* (BatchWorker.recordUsage).                                              *)
THEOREM BilledOnlyIfMailed == Spec => []BilledWasMailed
<1>1. MailInv => BilledWasMailed
  BY DEF MailInv
<1> QED
  BY <1>1, MailInvariant, PTL

-----------------------------------------------------------------------------
(* Suppression.  An address is shielded from the moment it is suppressed   *)
(* with no batch having it selected; every batch that selects it later     *)
(* holds it, because it reads the list after its recipients are fixed.     *)
ShieldInv ==
    /\ shielded \subseteq suppressed
    /\ \A w \in Workers, e \in shielded : Selected(w, e) => e \in worker[w].held

LEMMA ShieldInit == Init => ShieldInv
BY DEF Init, ShieldInv

(* A step of worker w after which it selects no more than it did, and      *)
(* holds as many of those.                                                 *)
LEMMA ShieldKept ==
    ASSUME TypeOK, ShieldInv, NEW w \in Workers, NEW s,
           s.pc \in {"loop", "mark"} =>
               /\ worker[w].pc \in {"loop", "mark"}
               /\ s.todo \subseteq worker[w].todo
               /\ s.held = worker[w].held \/ s.todo = {},
           Becomes(w, s), UNCHANGED <<suppressed, shielded>>
    PROVE  ShieldInv'
<1>1. \A v \in Workers : worker'[v] = IF v = w THEN s ELSE worker[v]
  BY DEF Becomes, TypeOK
<1> QED
  BY <1>1 DEF ShieldInv, Selected

LEMMA ShieldNext == TypeOK /\ ShieldInv /\ [Next]_vars => ShieldInv'
<1> SUFFICES ASSUME TypeOK, ShieldInv, [Next]_vars PROVE ShieldInv'
  OBVIOUS
<1>0. \A w \in Workers : worker[w] \in WorkerStates
  BY DEF TypeOK
<1>1. CASE UNCHANGED <<worker, suppressed, shielded>>
  BY <1>1 DEF ShieldInv, Selected
<1>2. ASSUME NEW w \in Workers, StartStep(w) PROVE ShieldInv'
  <2>1. CASE BeginStart(w)
    BY <2>1, ShieldKept DEF BeginStart, IdleWorker
  <2>2. CASE BulkInsert(w)
    <3>1. [worker[w] EXCEPT !.pc = "count", !.todo = {}].pc = "count"
      BY <1>0 DEF WorkerStates
    <3> QED
      BY <2>2, <3>1, ShieldKept DEF BulkInsert
  <2>3. CASE EnqueueBatch(w)
    <3>1. [worker[w] EXCEPT !.next = worker[w].next + BatchSize].pc = "enqueue"
      BY <1>0, <2>3 DEF EnqueueBatch, WorkerStates
    <3> QED
      BY <2>3, <3>1, ShieldKept DEF EnqueueBatch
  <2> QED
    BY <1>2, <2>1, <2>2, <2>3 DEF StartStep
<1>3. ASSUME NEW w \in Workers, BatchStep(w) PROVE ShieldInv'
  <2>1. ASSUME NEW j \in BatchJobs, BeginBatch(w, j) PROVE ShieldInv'
    <3> DEFINE todo == Pending(j.offset, BatchSize)
               s == [IdleWorker EXCEPT !.pc = "loop", !.job = j, !.todo = todo,
                                       !.held = Held(todo)]
    <3>1. \A v \in Workers : worker'[v] = IF v = w THEN s ELSE worker[v]
      BY <2>1 DEF BeginBatch, Becomes, TypeOK
    <3>2. s.held = s.todo \cap suppressed
      BY DEF IdleWorker, Held
    <3>3. UNCHANGED <<suppressed, shielded>>
      BY <2>1 DEF BeginBatch
    <3> HIDE DEF s
    <3> QED
      BY <3>1, <3>2, <3>3 DEF ShieldInv, Selected
  <2>2. ASSUME NEW e \in Emails, SkipRecipient(w, e) \/ SkipLost(w, e) PROVE ShieldInv'
    <3> DEFINE s == [worker[w] EXCEPT !.todo = worker[w].todo \ {e}]
    <3>1. s.todo \subseteq worker[w].todo /\ s.held = worker[w].held /\ worker[w].pc = "loop"
      BY <1>0, <2>2 DEF SkipRecipient, SkipLost, WorkerStates
    <3>2. Becomes(w, s) /\ UNCHANGED <<suppressed, shielded>>
      BY <2>2 DEF SkipRecipient, SkipLost
    <3> HIDE DEF s
    <3> QED
      BY <3>1, <3>2, ShieldKept
  <2>3. ASSUME NEW e \in Emails, Send(w, e) PROVE ShieldInv'
    <3>1. PICK ok \in BOOLEAN : Becomes(w, [worker[w] EXCEPT !.pc = "mark", !.ok = ok])
      BY <2>3 DEF Send
    <3> DEFINE s == [worker[w] EXCEPT !.pc = "mark", !.ok = ok]
    <3>2. s.todo = worker[w].todo /\ s.held = worker[w].held
      BY <1>0 DEF WorkerStates
    <3>3. worker[w].pc = "loop" /\ Becomes(w, s) /\ UNCHANGED <<suppressed, shielded>>
      BY <2>3, <3>1 DEF Send
    <3> HIDE DEF s
    <3> QED
      BY <3>2, <3>3, ShieldKept
  <2>4. ASSUME NEW e \in Emails, Mark(w, e) \/ MarkLost(w, e) PROVE ShieldInv'
    <3> DEFINE s == [worker[w] EXCEPT !.pc = "loop", !.todo = worker[w].todo \ {e},
                                      !.ok = FALSE, !.accepted = Accepted(worker[w], e)]
    <3>1. s.todo \subseteq worker[w].todo /\ s.held = worker[w].held /\ worker[w].pc = "mark"
      BY <1>0, <2>4 DEF Mark, MarkLost, WorkerStates
    <3>2. Becomes(w, s) /\ UNCHANGED <<suppressed, shielded>>
      BY <2>4 DEF Mark, MarkLost, NextRecipient
    <3> HIDE DEF s
    <3> QED
      BY <3>1, <3>2, ShieldKept
  <2>5. CASE Throttle(w)
    <3> DEFINE s == [worker[w] EXCEPT !.todo = {}, !.held = {}, !.snooze = TRUE]
    <3>1. s.todo = {} /\ worker[w].pc = "loop"
      BY <1>0, <2>5 DEF Throttle, WorkerStates
    <3>2. Becomes(w, s) /\ UNCHANGED <<suppressed, shielded>>
      BY <2>5 DEF Throttle
    <3> HIDE DEF s
    <3> QED
      BY <3>1, <3>2, ShieldKept
  <2>6. CASE RecordUsage(w) \/ UsageLost(w)
    <3>1. Metered(worker[w]).pc = "count"
      BY <1>0 DEF Metered, WorkerStates
    <3> QED
      BY <2>6, <3>1, ShieldKept DEF RecordUsage, UsageLost
  <2> QED
    BY <1>3, <2>1, <2>2, <2>3, <2>4, <2>5, <2>6 DEF BatchStep
<1>4. ASSUME NEW w \in Workers, JobStep(w) PROVE ShieldInv'
  <2>1. ASSUME NEW j \in Jobs, SkipJob(w, j) PROVE ShieldInv'
    BY <1>1, <2>1 DEF SkipJob
  <2>2. CASE Count(w)
    <3> DEFINE s == [worker[w] EXCEPT !.pc = "read", !.tally = Counts,
                                      !.fn = IF worker[w].job.kind = "start"
                                             THEN "recipientCount" ELSE "progress"]
    <3>1. s.pc = "read"
      BY <1>0 DEF WorkerStates
    <3> QED
      BY <2>2, <3>1, ShieldKept DEF Count
  <2>3. CASE UpdateRead(w)
    <3>1. [worker[w] EXCEPT !.pc = "write", !.snap = campaign].pc = "write"
      BY <1>0 DEF WorkerStates
    <3> QED
      BY <2>3, <3>1, ShieldKept DEF UpdateRead
  <2>4. CASE UpdateWrite(w)
    <3> DEFINE s == [worker[w] EXCEPT !.pc = IF worker[w].fn = "recipientCount"
                                             THEN "enqueue" ELSE "done",
                                      !.snap = NewCampaign]
    <3>1. s.pc \notin {"loop", "mark"}
      BY <1>0 DEF WorkerStates
    <3> QED
      BY <2>4, <3>1, ShieldKept DEF UpdateWrite
  <2>5. CASE JobDone(w) \/ JobFails(w)
    BY <2>5, ShieldKept DEF JobDone, JobFails, IdleWorker
  <2> QED
    BY <1>4, <2>1, <2>2, <2>3, <2>4, <2>5 DEF JobStep
<1>5. ASSUME NEW h \in Handlers, Api(h) PROVE ShieldInv'
  BY <1>1, <1>5 DEF Api, Request, Commit, SaveTargets, EnqueueStart, RequestFails
<1>6. ASSUME NEW e \in Emails, Join(e) PROVE ShieldInv'
  BY <1>1, <1>6 DEF Join
<1>7. ASSUME NEW e \in Emails, Suppress(e) PROVE ShieldInv'
  BY <1>7 DEF Suppress, ShieldInv, Selected
<1>8. CASE UNCHANGED vars
  BY <1>1, <1>8 DEF vars
<1> QED
  BY <1>2, <1>3, <1>4, <1>5, <1>6, <1>7, <1>8 DEF Next

LEMMA ShieldInvariant == Spec => []ShieldInv
BY ShieldInit, ShieldNext, TypeCorrect, PTL DEF Spec

(* Mail goes out in Send only.                                             *)
LEMMA OnlySendMails ==
    ASSUME TypeOK, [Next]_vars, NEW e \in Emails, delivered'[e] # delivered[e]
    PROVE  \E w \in Workers : Send(w, e)
<1>1. ASSUME UNCHANGED delivered PROVE FALSE
  BY <1>1
<1>2. ASSUME NEW h \in Handlers, Api(h) PROVE FALSE
  BY <1>1, <1>2 DEF Api, Request, Commit, SaveTargets, EnqueueStart, RequestFails
<1>3. ASSUME NEW f \in Emails, Join(f) \/ Suppress(f) PROVE FALSE
  BY <1>1, <1>3 DEF Join, Suppress
<1>4. ASSUME NEW w \in Workers, StartStep(w) PROVE FALSE
  BY <1>1, <1>4 DEF StartStep, BeginStart, BulkInsert, EnqueueBatch
<1>5. ASSUME NEW w \in Workers, JobStep(w) PROVE FALSE
  BY <1>1, <1>5 DEF JobStep, SkipJob, Count, UpdateRead, UpdateWrite, JobDone, JobFails
<1>6. ASSUME NEW w \in Workers, BatchStep(w) PROVE Send(w, e)
  <2>1. PICK f \in Emails : Send(w, f)
    BY <1>1, <1>6 DEF BatchStep, BeginBatch, SkipRecipient, SkipLost, Mark, MarkLost,
                      Throttle, RecordUsage, UsageLost
  <2>2. f = e
    BY <2>1 DEF Send, TypeOK
  <2> QED
    BY <2>1, <2>2
<1>7. ~ UNCHANGED vars
  BY <1>1 DEF vars
<1> QED
  BY <1>2, <1>3, <1>4, <1>5, <1>6, <1>7 DEF Next

(* No mail to an address that was suppressed while no batch had it         *)
(* selected, whatever is redelivered or resumed later (BatchWorker.Work).  *)
THEOREM SuppressedStaySilent == Spec => NeverMailedOnceSuppressed
<1>1. TypeOK /\ ShieldInv /\ [Next]_vars
        => [\A e \in shielded : delivered'[e] = delivered[e]]_vars
  <2> SUFFICES ASSUME TypeOK, ShieldInv, [Next]_vars, NEW e \in shielded,
                      delivered'[e] # delivered[e]
               PROVE  FALSE
    OBVIOUS
  <2>1. e \in Emails
    BY DEF TypeOK
  <2>2. PICK w \in Workers : Send(w, e)
    BY <2>1, OnlySendMails
  <2>3. Selected(w, e) /\ e \notin worker[w].held
    BY <2>2 DEF Send, Selected, Upcoming
  <2> QED
    BY <2>3 DEF ShieldInv
<1> QED
  BY <1>1, TypeCorrect, ShieldInvariant, PTL DEF Spec, NeverMailedOnceSuppressed

-----------------------------------------------------------------------------
(* The error threshold.  Campaigns.Update writes a whole row from a        *)
(* snapshot of any age, so the snapshots must satisfy it as well; and the  *)
(* counter of a draft is 0, or Start would take an excess along.           *)
SafeRow(c) ==
    /\ ShouldAutoPause(c) => resumed
    /\ c.status = "draft" => c.failed = 0

ThresholdInv ==
    /\ SafeRow(campaign)
    /\ \A h \in Handlers : SafeRow(handler[h].snap)
    /\ \A h \in Handlers :
          handler[h].pc = "write" => Accepts(handler[h].op, handler[h].snap.status)
    /\ \A w \in Workers : SafeRow(worker[w].snap)

LEMMA NewCampaignSafe == SafeRow(NewCampaign)
BY DEF SafeRow, NewCampaign, ShouldAutoPause

LEMMA ThresholdInit == Init => ThresholdInv
BY NewCampaignSafe DEF Init, ThresholdInv, IdleHandler, IdleWorker

(* No closure of a worker takes a campaign past the threshold and leaves   *)
(* it running.                                                             *)
LEMMA ClosureSafe ==
    ASSUME NEW fn, NEW c \in Campaigns, NEW tally \in Tallies, SafeRow(c)
    PROVE  SafeRow(Closure(fn, c, tally))
<1>1. SafeRow(QuotaCancel(c))
  BY DEF SafeRow, QuotaCancel, ShouldAutoPause, Campaigns
<1>2. SafeRow([c EXCEPT !.total = RecipientTotal(tally)])
  BY DEF SafeRow, ShouldAutoPause, Campaigns
<1>3. SafeRow(Progress(c, tally))
  <2>1. CASE c.status # "running"
    BY <2>1 DEF Progress
  <2>2. CASE c.status = "running"
    <3> DEFINE synced == SyncProgress(c, tally)
    <3>1. synced \in Campaigns /\ synced.status = "running"
      BY <2>2 DEF SyncProgress, Campaigns, Tallies
    <3> HIDE DEF synced
    <3>2. CASE ShouldAutoPause(synced)
      <4>1. Progress(c, tally) = [synced EXCEPT !.status = "paused"]
        BY <2>2, <3>2 DEF Progress, synced
      <4>2. Progress(c, tally).status = "paused"
        BY <3>1, <4>1 DEF Campaigns
      <4> QED
        BY <4>2 DEF SafeRow, ShouldAutoPause
    <3>3. CASE ~ShouldAutoPause(synced) /\ tally.pending = 0
      <4>1. Progress(c, tally) = [synced EXCEPT !.status = "finished"]
        BY <2>2, <3>3 DEF Progress, synced
      <4>2. Progress(c, tally).status = "finished"
        BY <3>1, <4>1 DEF Campaigns
      <4> QED
        BY <4>2 DEF SafeRow, ShouldAutoPause
    <3>4. CASE ~ShouldAutoPause(synced) /\ tally.pending # 0
      <4>1. Progress(c, tally) = synced
        BY <2>2, <3>4 DEF Progress, synced
      <4> QED
        BY <3>1, <3>4, <4>1 DEF SafeRow
    <3> QED
      BY <3>2, <3>3, <3>4
  <2> QED
    BY <2>1, <2>2
<1> QED
  BY <1>1, <1>2, <1>3 DEF Closure

(* Nor does a command, Resume apart.                                       *)
LEMMA AppliedSafe ==
    ASSUME NEW op \in AllOperations, NEW c \in Campaigns, SafeRow(c), Accepts(op, c.status)
    PROVE  /\ ShouldAutoPause(Applied(op, c)) => resumed \/ op = "resume"
           /\ Applied(op, c).status = "draft" => Applied(op, c).failed = 0
<1>1. CASE op = "start"
  BY <1>1, CampaignAssumption
     DEF Applied, Accepts, SafeRow, ShouldAutoPause, Campaigns, CampaignAssumption
<1>2. CASE op \in {"resume", "pause", "cancel"}
  BY <1>2 DEF Applied, ShouldAutoPause, Campaigns
<1>3. CASE op \in {"update", "archive"}
  BY <1>3 DEF Applied, SafeRow
<1> QED
  BY <1>1, <1>2, <1>3 DEF AllOperations

(* A step of worker w that keeps the row and every snapshot but its own.   *)
LEMMA ThresholdKept ==
    ASSUME TypeOK, ThresholdInv, NEW w \in Workers, NEW s, SafeRow(s.snap),
           Becomes(w, s), UNCHANGED <<campaign, handler, resumed>>
    PROVE  ThresholdInv'
<1>1. \A v \in Workers : worker'[v] = IF v = w THEN s ELSE worker[v]
  BY DEF Becomes, TypeOK
<1> QED
  BY <1>1 DEF ThresholdInv, SafeRow, ShouldAutoPause

LEMMA ThresholdApi ==
    ASSUME TypeOK, ThresholdInv, NEW h \in Handlers, Api(h)
    PROVE  ThresholdInv'
<1>1. \A g \in Handlers : handler[g] \in HandlerStates
  BY DEF TypeOK
<1>2. IdleHandler.pc = "idle" /\ SafeRow(IdleHandler.snap)
  BY NewCampaignSafe DEF IdleHandler
<1>3. ASSUME NEW op \in Operations, Request(h, op) PROVE ThresholdInv'
  BY <1>3 DEF Request, ThresholdInv, SafeRow, ShouldAutoPause, TypeOK
<1>4. CASE Commit(h)
  <2> DEFINE op == handler[h].op
             next == Committed(op)
  <2>1. resumed' = (resumed \/ op = "resume") /\ campaign' = Applied(op, handler[h].snap)
    BY <1>4 DEF Commit
  <2>2. SafeRow(campaign)'
    BY <1>1, <1>4, <2>1, AppliedSafe DEF Commit, ThresholdInv, SafeRow, ShouldAutoPause, HandlerStates
  <2>3. \A c : SafeRow(c) => SafeRow(c)'
    BY <2>1 DEF SafeRow, ShouldAutoPause
  <2>4. \A g \in Handlers : handler'[g] = IF g = h THEN next ELSE handler[g]
    BY <1>4 DEF Commit, TypeOK
  <2>5. next.pc # "write" /\ next.snap = NewCampaign
    BY DEF Committed, IdleHandler
  <2>6. UNCHANGED worker
    BY <1>4 DEF Commit
  <2> HIDE DEF next
  <2> QED
    BY <2>2, <2>3, <2>4, <2>5, <2>6, NewCampaignSafe DEF ThresholdInv, SafeRow, ShouldAutoPause
<1>5. CASE SaveTargets(h) \/ EnqueueStart(h) \/ RequestFails(h)
  <2>1. \A g \in Handlers : handler'[g] = IF g = h THEN IdleHandler ELSE handler[g]
    BY <1>5 DEF SaveTargets, EnqueueStart, RequestFails, TypeOK
  <2>2. UNCHANGED <<campaign, worker, resumed>>
    BY <1>5 DEF SaveTargets, EnqueueStart, RequestFails
  <2> QED
    BY <1>2, <2>1, <2>2 DEF ThresholdInv, SafeRow, ShouldAutoPause
<1> QED
  BY <1>3, <1>4, <1>5 DEF Api

LEMMA ThresholdNext == TypeOK /\ ThresholdInv /\ [Next]_vars => ThresholdInv'
<1> SUFFICES ASSUME TypeOK, ThresholdInv, [Next]_vars PROVE ThresholdInv'
  OBVIOUS
<1>0. \A w \in Workers : worker[w] \in WorkerStates /\ SafeRow(worker[w].snap)
  BY DEF TypeOK, ThresholdInv
<1>1. CASE UNCHANGED <<campaign, handler, worker, resumed>>
  BY <1>1 DEF ThresholdInv, SafeRow, ShouldAutoPause
<1>2. SafeRow(IdleWorker.snap)
  BY NewCampaignSafe DEF IdleWorker
<1>3. ASSUME NEW w \in Workers, StartStep(w) PROVE ThresholdInv'
  <2>1. CASE BeginStart(w)
    <3>1. \A allowed \in BOOLEAN :
             (IF allowed
              THEN [IdleWorker EXCEPT !.pc = "insert", !.todo = audience]
              ELSE [IdleWorker EXCEPT !.pc = "read", !.fn = "quotaCancel"]).snap
                = IdleWorker.snap
      BY DEF IdleWorker
    <3> QED
      BY <1>2, <2>1, <3>1, ThresholdKept, CampaignAssumption DEF BeginStart, CampaignAssumption
  <2>2. CASE BulkInsert(w)
    <3>1. [worker[w] EXCEPT !.pc = "count", !.todo = {}].snap = worker[w].snap
      BY <1>0 DEF WorkerStates
    <3> QED
      BY <1>0, <2>2, <3>1, ThresholdKept DEF BulkInsert
  <2>3. CASE EnqueueBatch(w)
    <3>1. [worker[w] EXCEPT !.next = worker[w].next + BatchSize].snap = worker[w].snap
      BY <1>0 DEF WorkerStates
    <3> QED
      BY <1>0, <2>3, <3>1, ThresholdKept DEF EnqueueBatch
  <2> QED
    BY <1>3, <2>1, <2>2, <2>3 DEF StartStep
<1>4. ASSUME NEW w \in Workers, BatchStep(w) PROVE ThresholdInv'
  <2>1. PICK s : Becomes(w, s) /\ (s.snap = worker[w].snap \/ s.snap = IdleWorker.snap)
    <3>1. ASSUME NEW j \in BatchJobs, BeginBatch(w, j)
          PROVE  \E s : Becomes(w, s) /\ s.snap = IdleWorker.snap
      <4> DEFINE s == [IdleWorker EXCEPT !.pc = "loop", !.job = j,
                                         !.todo = Pending(j.offset, BatchSize),
                                         !.held = Held(Pending(j.offset, BatchSize))]
      <4>1. s.snap = IdleWorker.snap
        BY DEF IdleWorker
      <4> QED
        BY <3>1, <4>1 DEF BeginBatch
    <3>2. ASSUME NEW e \in Emails, SkipRecipient(w, e) \/ SkipLost(w, e)
          PROVE  \E s : Becomes(w, s) /\ s.snap = worker[w].snap
      <4>1. [worker[w] EXCEPT !.todo = worker[w].todo \ {e}].snap = worker[w].snap
        BY <1>0 DEF WorkerStates
      <4> QED
        BY <3>2, <4>1 DEF SkipRecipient, SkipLost
    <3>3. ASSUME NEW e \in Emails, Send(w, e)
          PROVE  \E s : Becomes(w, s) /\ s.snap = worker[w].snap
      <4>1. PICK ok \in BOOLEAN : Becomes(w, [worker[w] EXCEPT !.pc = "mark", !.ok = ok])
        BY <3>3 DEF Send
      <4>2. [worker[w] EXCEPT !.pc = "mark", !.ok = ok].snap = worker[w].snap
        BY <1>0 DEF WorkerStates
      <4> QED
        BY <4>1, <4>2
    <3>4. ASSUME NEW e \in Emails, Mark(w, e) \/ MarkLost(w, e)
          PROVE  \E s : Becomes(w, s) /\ s.snap = worker[w].snap
      <4> DEFINE s == [worker[w] EXCEPT !.pc = "loop", !.todo = worker[w].todo \ {e},
                                        !.ok = FALSE, !.accepted = Accepted(worker[w], e)]
      <4>1. s.snap = worker[w].snap
        BY <1>0 DEF WorkerStates
      <4> QED
        BY <3>4, <4>1 DEF Mark, MarkLost, NextRecipient
    <3>5. ASSUME Throttle(w)
          PROVE  \E s : Becomes(w, s) /\ s.snap = worker[w].snap
      <4>1. [worker[w] EXCEPT !.todo = {}, !.held = {}, !.snooze = TRUE].snap = worker[w].snap
        BY <1>0 DEF WorkerStates
      <4> QED
        BY <3>5, <4>1 DEF Throttle
    <3>6. ASSUME RecordUsage(w) \/ UsageLost(w)
          PROVE  \E s : Becomes(w, s) /\ s.snap = worker[w].snap
      <4>1. Metered(worker[w]).snap = worker[w].snap
        BY <1>0 DEF Metered, WorkerStates
      <4> QED
        BY <3>6, <4>1 DEF RecordUsage, UsageLost
    <3> QED
      BY <1>4, <3>1, <3>2, <3>3, <3>4, <3>5, <3>6 DEF BatchStep
  <2>2. UNCHANGED <<campaign, handler, resumed>>
    BY <1>4 DEF BatchStep, BeginBatch, SkipRecipient, SkipLost, Send, Mark, MarkLost,
                Throttle, RecordUsage, UsageLost
  <2> QED
    BY <1>0, <1>2, <2>1, <2>2, ThresholdKept
<1>5. ASSUME NEW w \in Workers, JobStep(w) PROVE ThresholdInv'
  <2>1. ASSUME NEW j \in Jobs, SkipJob(w, j) PROVE ThresholdInv'
    BY <1>1, <2>1 DEF SkipJob
  <2>2. CASE Count(w)
    <3> DEFINE s == [worker[w] EXCEPT !.pc = "read", !.tally = Counts,
                                      !.fn = IF worker[w].job.kind = "start"
                                             THEN "recipientCount" ELSE "progress"]
    <3>1. s.snap = worker[w].snap
      BY <1>0 DEF WorkerStates
    <3> QED
      BY <1>0, <2>2, <3>1, ThresholdKept DEF Count
  <2>3. CASE UpdateRead(w)
    <3>1. [worker[w] EXCEPT !.pc = "write", !.snap = campaign].snap = campaign
      BY <1>0 DEF WorkerStates
    <3> QED
      BY <2>3, <3>1, ThresholdKept DEF UpdateRead, ThresholdInv
  <2>4. CASE UpdateWrite(w)
    <3> DEFINE s == [worker[w] EXCEPT !.pc = IF worker[w].fn = "recipientCount"
                                             THEN "enqueue" ELSE "done",
                                      !.snap = NewCampaign]
    <3>1. s.snap = NewCampaign
      BY <1>0 DEF WorkerStates
    <3>2. campaign' = Closure(worker[w].fn, worker[w].snap, worker[w].tally)
      BY <2>4 DEF UpdateWrite
    <3>3. SafeRow(campaign')
      BY <1>0, <3>2, ClosureSafe DEF WorkerStates
    <3>4. UNCHANGED <<handler, resumed>>
      BY <2>4 DEF UpdateWrite
    <3>5. \A v \in Workers : worker'[v] = IF v = w THEN s ELSE worker[v]
      BY <2>4 DEF UpdateWrite, Becomes, TypeOK
    <3> HIDE DEF s
    <3> QED
      BY <3>1, <3>3, <3>4, <3>5, NewCampaignSafe DEF ThresholdInv, SafeRow, ShouldAutoPause
  <2>5. CASE JobDone(w) \/ JobFails(w)
    BY <1>2, <2>5, ThresholdKept DEF JobDone, JobFails
  <2> QED
    BY <1>5, <2>1, <2>2, <2>3, <2>4, <2>5 DEF JobStep
<1>6. ASSUME NEW e \in Emails, Join(e) \/ Suppress(e) PROVE ThresholdInv'
  BY <1>1, <1>6 DEF Join, Suppress
<1>7. CASE UNCHANGED vars
  BY <1>1, <1>7 DEF vars
<1> QED
  BY <1>3, <1>4, <1>5, <1>6, <1>7, ThresholdApi DEF Next

(* A running campaign is within its error threshold until an operator      *)
(* resumes it: no stale whole-row write of another worker or request       *)
(* undoes the auto-pause (Campaign.ShouldAutoPause, Campaigns.Update).     *)
THEOREM AutoPauseHolds == Spec => []RunsWithinErrorThreshold
<1>1. ThresholdInv => RunsWithinErrorThreshold
  BY DEF ThresholdInv, SafeRow, RunsWithinErrorThreshold
<1> QED
  BY <1>1, ThresholdInit, ThresholdNext, TypeCorrect, PTL DEF Spec

-----------------------------------------------------------------------------
(* The finish.  A count of no pending rows stays true, once there are any  *)
(* rows: a row never becomes pending again.  So the snapshots and tallies  *)
(* a worker may still write are as good as the row.  That there are rows   *)
(* whenever a batch runs holds because the fan-out counts them.            *)
Dealt == roster # {} /\ \A e \in roster : row[e] # "pending"

WorkerCovers(s) ==
    /\ s.job.kind = "batch" => roster # {}
    /\ RecipientTotal(s.tally) > 0 => roster # {}
    /\ s.snap.status = "finished" => Dealt
    /\ s.pc \in {"read", "write"} => s.fn # "none"
    /\ s.pc \in {"read", "write"} /\ s.fn = "progress" /\ s.tally.pending = 0 => Dealt

RosterInv ==
    /\ roster \subseteq Rows
    /\ Rows # {} => roster # {}
    /\ \A j \in Jobs : j.kind = "batch" /\ queue[j] > 0 => roster # {}
    /\ campaign.status = "finished" => Dealt
    /\ \A h \in Handlers : handler[h].snap.status = "finished" => Dealt
    /\ \A w \in Workers : WorkerCovers(worker[w])

LEMMA IdleCovers == WorkerCovers(IdleWorker)
BY DEF WorkerCovers, IdleWorker, StartJob, RecipientTotal, NoTally, NewCampaign

LEMMA RosterInit == Init => RosterInv
<1> SUFFICES ASSUME Init PROVE RosterInv
  OBVIOUS
<1>1. Rows = {} /\ roster = {}
  BY DEF Init, Rows
<1>2. \A h \in Handlers : handler[h].snap = NewCampaign
  BY DEF Init, IdleHandler
<1>3. \A w \in Workers : WorkerCovers(worker[w])
  BY IdleCovers DEF Init
<1> QED
  BY <1>1, <1>2, <1>3 DEF Init, RosterInv, NewCampaign

(* What an action has to establish beyond leaving the recipients alone, or *)
(* taking them further.                                                    *)
LEMMA RosterKept ==
    ASSUME TypeOK, RosterInv,
           roster' = roster, Rows' = Rows,
           \A e \in Emails : row'[e] = "pending" => row[e] = "pending",
           \A j \in Jobs : j.kind = "batch" /\ queue'[j] > 0 => queue[j] > 0 \/ roster # {},
           campaign'.status = "finished" => Dealt,
           \A h \in Handlers : handler'[h].snap.status = "finished" => Dealt,
           \A w \in Workers : WorkerCovers(worker'[w])
    PROVE  RosterInv'
<1>1. Dealt => Dealt'
  BY DEF Dealt, TypeOK
<1>2. \A w \in Workers : WorkerCovers(worker[w])'
  BY <1>1 DEF WorkerCovers
<1> QED
  BY <1>1, <1>2 DEF RosterInv

(* The same for a step of a worker that touches nothing else but the queue *)
(* of its own job.                                                         *)
LEMMA RosterWorker ==
    ASSUME TypeOK, RosterInv, NEW w \in Workers, NEW s, WorkerCovers(s), Becomes(w, s),
           UNCHANGED <<campaign, roster, handler>>, Rows' = Rows,
           \A e \in Emails : row'[e] = "pending" => row[e] = "pending",
           \/ UNCHANGED queue
           \/ \E j \in Jobs : Dequeue(j)
           \/ \E j \in Jobs : Enqueue(j) /\ (j.kind = "batch" => roster # {})
    PROVE  RosterInv'
<1>1. \A v \in Workers : worker'[v] = IF v = w THEN s ELSE worker[v]
  BY DEF Becomes, TypeOK
<1>2. \A j \in Jobs : j.kind = "batch" /\ queue'[j] > 0 => queue[j] > 0 \/ roster # {}
  BY DEF Dequeue, Enqueue, TypeOK
<1>3. \A v \in Workers : WorkerCovers(worker'[v])
  BY <1>1 DEF RosterInv
<1> QED
  BY <1>2, <1>3, RosterKept DEF RosterInv

(* A count of no pending rows, once there are rows.                        *)
LEMMA CountsCover ==
    ASSUME TypeOK, RosterInv
    PROVE  /\ RecipientTotal(Counts) > 0 => roster # {}
           /\ Counts.pending = 0 /\ roster # {} => Dealt
<1>1. \A s : IsFiniteSet(RowsWith(s)) /\ Cardinality(RowsWith(s)) \in Nat
  <2> TAKE s
  <2>1. IsFiniteSet(Emails)
    BY CampaignAssumption, FS_Interval DEF Emails, CampaignAssumption
  <2>2. RowsWith(s) \subseteq Emails
    BY DEF RowsWith
  <2> QED
    BY <2>1, <2>2, FS_Subset, FS_CardinalityType
<1>2. ASSUME RecipientTotal(Counts) > 0 PROVE roster # {}
  <2>1. PICK s \in {"sent", "failed", "pending"} : Cardinality(RowsWith(s)) # 0
    BY <1>1, <1>2 DEF RecipientTotal, Counts
  <2>2. RowsWith(s) # {}
    BY <2>1, FS_EmptySet
  <2>3. Rows # {}
    BY <2>1, <2>2 DEF Rows, RowsWith
  <2> QED
    BY <2>3 DEF RosterInv
<1>3. ASSUME Counts.pending = 0, roster # {} PROVE Dealt
  <2>1. RowsWith("pending") = {}
    BY <1>1, <1>3, FS_EmptySet DEF Counts
  <2> QED
    BY <1>3, <2>1 DEF Dealt, RowsWith, TypeOK
<1> QED
  BY <1>2, <1>3

LEMMA RosterStart ==
    ASSUME TypeOK, RosterInv, NEW w \in Workers, StartStep(w)
    PROVE  RosterInv'
<1>0. worker[w] \in WorkerStates /\ WorkerCovers(worker[w])
  BY DEF TypeOK, RosterInv
<1>1. CASE BeginStart(w)
  <2>1. PICK allowed \in BOOLEAN :
           Becomes(w, IF allowed
                      THEN [IdleWorker EXCEPT !.pc = "insert", !.todo = audience]
                      ELSE [IdleWorker EXCEPT !.pc = "read", !.fn = "quotaCancel"])
    BY <1>1, CampaignAssumption DEF BeginStart, CampaignAssumption
  <2>2. WorkerCovers([IdleWorker EXCEPT !.pc = "insert", !.todo = audience])
    BY IdleCovers DEF WorkerCovers, IdleWorker
  <2>3. WorkerCovers([IdleWorker EXCEPT !.pc = "read", !.fn = "quotaCancel"])
    BY IdleCovers DEF WorkerCovers, IdleWorker
  <2>4. UNCHANGED <<campaign, roster, handler, row>> /\ Rows' = Rows
    BY <1>1 DEF BeginStart, Rows
  <2>5. Dequeue(StartJob) /\ StartJob \in Jobs
    BY <1>1, IdleTypes DEF BeginStart
  <2> QED
    BY <2>1, <2>2, <2>3, <2>4, <2>5, RosterWorker
<1>2. CASE BulkInsert(w)
  <2> DEFINE new == Inserted(worker[w].todo)
             s == [worker[w] EXCEPT !.pc = "count", !.todo = {}]
  <2>1. row' = [e \in Emails |-> IF e \in new THEN "pending" ELSE row[e]]
    BY <1>2 DEF BulkInsert
  <2>2. new \subseteq Emails /\ new \cap Rows = {}
    BY <1>0 DEF Inserted, WorkerStates, Rows
  <2>3. Rows' = Rows \cup new
    BY <2>1, <2>2 DEF Rows
  <2>4. roster' = IF roster = {} THEN new ELSE roster
    BY <1>2 DEF BulkInsert
  <2>5. roster' \subseteq Rows' /\ (Rows' # {} => roster' # {})
    BY <2>3, <2>4 DEF RosterInv
  <2>6. roster # {} => roster' # {}
    BY <2>4
  <2>7. Dealt => Dealt'
    BY <2>1, <2>2, <2>4 DEF Dealt, RosterInv, Rows
  <2>8. \A v \in Workers : worker'[v] = IF v = w THEN s ELSE worker[v]
    BY <1>2 DEF BulkInsert, Becomes, TypeOK
  <2>9. /\ s.pc = "count" /\ s.job = worker[w].job
        /\ s.tally = worker[w].tally /\ s.snap = worker[w].snap
    BY <1>0 DEF WorkerStates
  <2>10. \A v \in Workers : WorkerCovers(worker[v])'
    <3> HIDE DEF s
    <3> QED
      BY <2>6, <2>7, <2>8, <2>9 DEF RosterInv, WorkerCovers
  <2>11. UNCHANGED <<campaign, handler, queue>>
    BY <1>2 DEF BulkInsert
  <2> QED
    BY <2>5, <2>6, <2>7, <2>10, <2>11 DEF RosterInv
<1>3. CASE EnqueueBatch(w)
  <2> DEFINE s == [worker[w] EXCEPT !.next = worker[w].next + BatchSize]
  <2>1. WorkerCovers(s)
    <3>1. /\ s.pc = "enqueue" /\ s.job = worker[w].job
          /\ s.tally = worker[w].tally /\ s.snap = worker[w].snap
      BY <1>0, <1>3 DEF EnqueueBatch, WorkerStates
    <3> QED
      BY <1>0, <3>1 DEF WorkerCovers
  <2>2. RecipientTotal(worker[w].tally) > 0
    BY <1>0, <1>3 DEF EnqueueBatch, FannedOut, WorkerStates, Tallies, RecipientTotal
  <2>3. roster # {}
    BY <1>0, <2>2 DEF WorkerCovers
  <2>4. \A j \in Jobs : j.kind = "batch" /\ queue'[j] > 0 => queue[j] > 0 \/ roster # {}
    BY <2>3
  <2>5. UNCHANGED <<campaign, roster, handler, row>> /\ Rows' = Rows
    BY <1>3 DEF EnqueueBatch, Rows
  <2>6. \A v \in Workers : WorkerCovers(worker'[v])
    BY <1>3, <2>1 DEF EnqueueBatch, Becomes, TypeOK, RosterInv
  <2> QED
    BY <2>4, <2>5, <2>6, RosterKept DEF RosterInv
<1> QED
  BY <1>1, <1>2, <1>3 DEF StartStep

LEMMA RosterBatch ==
    ASSUME TypeOK, MailInv, RosterInv, NEW w \in Workers, BatchStep(w)
    PROVE  RosterInv'
<1>0. worker[w] \in WorkerStates /\ WorkerCovers(worker[w])
  BY DEF TypeOK, RosterInv
<1>1. UNCHANGED <<campaign, roster, handler>>
  BY DEF BatchStep, BeginBatch, SkipRecipient, SkipLost, Send, Mark, MarkLost, Throttle,
         RecordUsage, UsageLost
<1>2. ASSUME NEW s, Becomes(w, s), s.pc \in {"loop", "mark", "count"},
             s.job = worker[w].job, s.tally = worker[w].tally, s.snap = worker[w].snap,
             UNCHANGED queue, Rows' = Rows,
             \A e \in Emails : row'[e] = "pending" => row[e] = "pending"
      PROVE  RosterInv'
  <2>1. WorkerCovers(s)
    BY <1>0, <1>2 DEF WorkerCovers
  <2> QED
    BY <1>1, <1>2, <2>1, RosterWorker
<1>3. ASSUME NEW j \in BatchJobs, BeginBatch(w, j) PROVE RosterInv'
  <2> DEFINE s == [IdleWorker EXCEPT !.pc = "loop", !.job = j,
                                     !.todo = Pending(j.offset, BatchSize),
                                     !.held = Held(Pending(j.offset, BatchSize))]
  <2>1. j \in Jobs /\ Dequeue(j) /\ Becomes(w, s) /\ queue[j] > 0 /\ j.kind = "batch"
    BY <1>3 DEF BeginBatch, Jobs, Dequeue
  <2>2. roster # {}
    BY <2>1 DEF RosterInv
  <2>3. s.pc = "loop" /\ s.tally = IdleWorker.tally /\ s.snap = IdleWorker.snap
    BY DEF IdleWorker
  <2>4. WorkerCovers(s)
    BY <2>2, <2>3, IdleCovers DEF WorkerCovers
  <2>5. UNCHANGED row /\ Rows' = Rows
    BY <1>3 DEF BeginBatch, Rows
  <2> QED
    BY <1>1, <2>1, <2>4, <2>5, RosterWorker
<1>4. ASSUME NEW e \in Emails, SkipRecipient(w, e) \/ SkipLost(w, e) PROVE RosterInv'
  <2> DEFINE s == [worker[w] EXCEPT !.todo = worker[w].todo \ {e}]
  <2>1. /\ s.pc = "loop" /\ s.job = worker[w].job
        /\ s.tally = worker[w].tally /\ s.snap = worker[w].snap
    BY <1>0, <1>4 DEF SkipRecipient, SkipLost, WorkerStates
  <2>2. Becomes(w, s) /\ UNCHANGED queue
    BY <1>4 DEF SkipRecipient, SkipLost
  <2>3. e \in Rows
    BY <1>4 DEF SkipRecipient, SkipLost, Upcoming, MailInv
  <2>4. Rows' = Rows /\ \A f \in Emails : row'[f] = "pending" => row[f] = "pending"
    BY <1>4, <2>3 DEF SkipRecipient, SkipLost, SkippedStatus, Rows, TypeOK
  <2> HIDE DEF s
  <2> QED
    BY <1>2, <2>1, <2>2, <2>4
<1>5. ASSUME NEW e \in Emails, Send(w, e) PROVE RosterInv'
  <2>1. PICK ok \in BOOLEAN : Becomes(w, [worker[w] EXCEPT !.pc = "mark", !.ok = ok])
    BY <1>5 DEF Send
  <2> DEFINE s == [worker[w] EXCEPT !.pc = "mark", !.ok = ok]
  <2>2. /\ s.pc = "mark" /\ s.job = worker[w].job
        /\ s.tally = worker[w].tally /\ s.snap = worker[w].snap
    BY <1>0 DEF WorkerStates
  <2>3. UNCHANGED <<row, queue>> /\ Rows' = Rows /\ Becomes(w, s)
    BY <1>5, <2>1 DEF Send, Rows
  <2> HIDE DEF s
  <2> QED
    BY <1>2, <2>2, <2>3
<1>6. ASSUME NEW e \in Emails, Mark(w, e) \/ MarkLost(w, e) PROVE RosterInv'
  <2> DEFINE s == [worker[w] EXCEPT !.pc = "loop", !.todo = worker[w].todo \ {e},
                                    !.ok = FALSE, !.accepted = Accepted(worker[w], e)]
  <2>1. /\ s.pc = "loop" /\ s.job = worker[w].job
        /\ s.tally = worker[w].tally /\ s.snap = worker[w].snap
    BY <1>0 DEF WorkerStates
  <2>2. Becomes(w, s) /\ UNCHANGED queue
    BY <1>6 DEF Mark, MarkLost, NextRecipient
  <2>3. e \in Rows
    BY <1>6 DEF Mark, MarkLost, Upcoming, MailInv
  <2>4. Rows' = Rows /\ \A f \in Emails : row'[f] = "pending" => row[f] = "pending"
    BY <1>6, <2>3 DEF Mark, MarkLost, Outcome, Rows, TypeOK
  <2> HIDE DEF s
  <2> QED
    BY <1>2, <2>1, <2>2, <2>4
<1>7. CASE Throttle(w)
  <2> DEFINE s == [worker[w] EXCEPT !.todo = {}, !.held = {}, !.snooze = TRUE]
  <2>1. /\ s.pc = "loop" /\ s.job = worker[w].job
        /\ s.tally = worker[w].tally /\ s.snap = worker[w].snap
    BY <1>0, <1>7 DEF Throttle, WorkerStates
  <2>2. Becomes(w, s) /\ UNCHANGED <<row, queue>> /\ Rows' = Rows
    BY <1>7 DEF Throttle, Rows
  <2> HIDE DEF s
  <2> QED
    BY <1>2, <2>1, <2>2
<1>8. CASE RecordUsage(w) \/ UsageLost(w)
  <2> DEFINE s == Metered(worker[w])
  <2>1. /\ s.pc = "count" /\ s.job = worker[w].job
        /\ s.tally = worker[w].tally /\ s.snap = worker[w].snap
    BY <1>0 DEF Metered, WorkerStates
  <2>2. Becomes(w, s) /\ UNCHANGED <<row, queue>> /\ Rows' = Rows
    BY <1>8 DEF RecordUsage, UsageLost, Rows
  <2> HIDE DEF s
  <2> QED
    BY <1>2, <2>1, <2>2
<1> QED
  BY <1>3, <1>4, <1>5, <1>6, <1>7, <1>8 DEF BatchStep

LEMMA RosterJob ==
    ASSUME TypeOK, RosterInv, NEW w \in Workers, JobStep(w)
    PROVE  RosterInv'
<1>0. worker[w] \in WorkerStates /\ WorkerCovers(worker[w])
  BY DEF TypeOK, RosterInv
<1>1. UNCHANGED <<roster, handler, row>> /\ Rows' = Rows
  BY DEF JobStep, SkipJob, Count, UpdateRead, UpdateWrite, JobDone, JobFails, Rows
<1>2. ASSUME NEW j \in Jobs, SkipJob(w, j) PROVE RosterInv'
  <2>1. \A i \in Jobs : i.kind = "batch" /\ queue'[i] > 0 => queue[i] > 0 \/ roster # {}
    BY <1>2 DEF SkipJob, Dequeue, TypeOK
  <2>2. UNCHANGED <<campaign, worker>>
    BY <1>2 DEF SkipJob
  <2> QED
    BY <1>1, <2>1, <2>2, RosterKept DEF RosterInv
<1>3. CASE Count(w)
  <2> DEFINE fn == IF worker[w].job.kind = "start" THEN "recipientCount" ELSE "progress"
             s == [worker[w] EXCEPT !.pc = "read", !.tally = Counts, !.fn = fn]
  <2>1. /\ s.pc = "read" /\ s.fn = fn /\ s.tally = Counts
        /\ s.job = worker[w].job /\ s.snap = worker[w].snap
    BY <1>0 DEF WorkerStates
  <2>2. fn = "progress" => worker[w].job.kind = "batch"
    BY <1>0 DEF WorkerStates, Jobs, StartJob, BatchJobs, BatchJob
  <2>3. WorkerCovers(s)
    <3> HIDE DEF s
    <3> QED
      BY <1>0, <2>1, <2>2, CountsCover DEF WorkerCovers
  <2>4. Becomes(w, s) /\ UNCHANGED <<campaign, queue>>
    BY <1>3 DEF Count
  <2> HIDE DEF s
  <2> QED
    BY <1>1, <2>3, <2>4, RosterWorker
<1>4. CASE UpdateRead(w)
  <2> DEFINE s == [worker[w] EXCEPT !.pc = "write", !.snap = campaign]
  <2>1. /\ s.pc = "write" /\ s.fn = worker[w].fn /\ s.tally = worker[w].tally
        /\ s.job = worker[w].job /\ s.snap = campaign /\ worker[w].pc = "read"
    BY <1>0, <1>4 DEF WorkerStates, UpdateRead
  <2>2. WorkerCovers(s)
    <3> HIDE DEF s
    <3> QED
      BY <1>0, <2>1 DEF WorkerCovers, RosterInv
  <2>3. Becomes(w, s) /\ UNCHANGED <<campaign, queue>>
    BY <1>4 DEF UpdateRead
  <2> HIDE DEF s
  <2> QED
    BY <1>1, <2>2, <2>3, RosterWorker
<1>5. CASE UpdateWrite(w)
  <2> DEFINE c == worker[w].snap
             s == [worker[w] EXCEPT !.pc = IF worker[w].fn = "recipientCount"
                                           THEN "enqueue" ELSE "done",
                                    !.snap = NewCampaign]
  <2>1. campaign' = Closure(worker[w].fn, c, worker[w].tally)
    BY <1>5 DEF UpdateWrite
  <2>2. c \in Campaigns /\ (c.status = "finished" => Dealt)
    BY <1>0 DEF WorkerStates, WorkerCovers
  <2>3. worker[w].pc = "write" /\ worker[w].fn \in {"quotaCancel", "recipientCount", "progress"}
    BY <1>0, <1>5 DEF UpdateWrite, WorkerCovers, WorkerStates, Closures
  <2>4. worker[w].fn = "progress" /\ worker[w].tally.pending = 0 => Dealt
    BY <1>0, <2>3 DEF WorkerCovers
  <2>5. campaign'.status = "finished" => Dealt
    <3>1. CASE worker[w].fn = "quotaCancel"
      BY <2>1, <2>2, <3>1 DEF Closure, QuotaCancel, Campaigns
    <3>2. CASE worker[w].fn = "recipientCount"
      BY <2>1, <2>2, <3>2 DEF Closure, Campaigns
    <3>3. CASE worker[w].fn = "progress" /\ worker[w].tally.pending # 0
      <4>1. campaign' = Progress(c, worker[w].tally)
        BY <2>1, <3>3 DEF Closure
      <4>2. SyncProgress(c, worker[w].tally) \in Campaigns
            /\ SyncProgress(c, worker[w].tally).status = c.status
        BY <1>0, <2>2 DEF SyncProgress, Campaigns, WorkerStates, Tallies
      <4> QED
        BY <2>2, <3>3, <4>1, <4>2 DEF Progress, Campaigns
    <3> QED
      BY <2>3, <2>4, <3>1, <3>2, <3>3
  <2>6. /\ s.pc \notin {"read", "write"} /\ s.tally = worker[w].tally
        /\ s.job = worker[w].job /\ s.snap.status = "draft"
    BY <1>0 DEF WorkerStates, NewCampaign
  <2>7. WorkerCovers(s)
    <3> HIDE DEF s
    <3> QED
      BY <1>0, <2>6 DEF WorkerCovers
  <2>8. Becomes(w, s) /\ UNCHANGED queue
    BY <1>5 DEF UpdateWrite
  <2>9. \A v \in Workers : WorkerCovers(worker'[v])
    <3> HIDE DEF s
    <3> QED
      BY <2>7, <2>8 DEF Becomes, TypeOK, RosterInv
  <2> QED
    BY <1>1, <2>5, <2>8, <2>9, RosterKept DEF RosterInv
<1>6. CASE JobDone(w) \/ JobFails(w)
  <2>1. worker[w].job \in Jobs /\ (worker[w].job.kind = "batch" => roster # {})
    BY <1>0 DEF WorkerStates, WorkerCovers
  <2>2. Becomes(w, IdleWorker) /\ UNCHANGED campaign
    BY <1>6 DEF JobDone, JobFails
  <2>3. UNCHANGED queue \/ Enqueue(worker[w].job)
    BY <1>6 DEF JobDone, JobFails
  <2> QED
    BY <1>1, <2>1, <2>2, <2>3, IdleCovers, RosterWorker
<1> QED
  BY <1>2, <1>3, <1>4, <1>5, <1>6 DEF JobStep

LEMMA RosterApi ==
    ASSUME TypeOK, RosterInv, NEW h \in Handlers, Api(h)
    PROVE  RosterInv'
<1>0. handler[h] \in HandlerStates /\ (handler[h].snap.status = "finished" => Dealt)
  BY DEF TypeOK, RosterInv
<1>1. UNCHANGED <<roster, row, worker>> /\ Rows' = Rows
  BY DEF Api, Request, Commit, SaveTargets, EnqueueStart, RequestFails, Rows
<1>2. ASSUME NEW s, handler' = [handler EXCEPT ![h] = s], s.snap.status = "finished" => Dealt
      PROVE  \A g \in Handlers : handler'[g].snap.status = "finished" => Dealt
  BY <1>2 DEF RosterInv, TypeOK
<1>3. IdleHandler.snap.status = "draft"
  BY DEF IdleHandler, NewCampaign
<1>4. ASSUME NEW op \in Operations, Request(h, op) PROVE RosterInv'
  <2>1. \A g \in Handlers : handler'[g].snap.status = "finished" => Dealt
    BY <1>2, <1>4 DEF Request, RosterInv
  <2> QED
    BY <1>1, <1>4, <2>1, RosterKept DEF Request, RosterInv
<1>5. CASE Commit(h)
  <2> DEFINE op == handler[h].op
             s == Committed(op)
  <2>1. s.snap.status = "draft" /\ handler' = [handler EXCEPT ![h] = s]
    BY <1>3, <1>5 DEF Commit, Committed, IdleHandler
  <2>2. campaign' = Applied(op, handler[h].snap) /\ UNCHANGED queue
    BY <1>5 DEF Commit
  <2>3. campaign'.status = "finished" => Dealt
    BY <1>0, <2>2 DEF Applied, HandlerStates, Campaigns
  <2>4. \A g \in Handlers : handler'[g].snap.status = "finished" => Dealt
    <3> HIDE DEF s
    <3> QED
      BY <1>2, <2>1
  <2> QED
    BY <1>1, <2>2, <2>3, <2>4, RosterKept DEF RosterInv
<1>6. CASE SaveTargets(h) \/ EnqueueStart(h) \/ RequestFails(h)
  <2>1. \A g \in Handlers : handler'[g].snap.status = "finished" => Dealt
    BY <1>2, <1>3, <1>6 DEF SaveTargets, EnqueueStart, RequestFails
  <2>2. UNCHANGED campaign
    BY <1>6 DEF SaveTargets, EnqueueStart, RequestFails
  <2>3. \A j \in Jobs : j.kind = "batch" /\ queue'[j] > 0 => queue[j] > 0
    BY <1>6, IdleTypes DEF SaveTargets, EnqueueStart, RequestFails, Enqueue, TypeOK, StartJob
  <2> QED
    BY <1>1, <2>1, <2>2, <2>3, RosterKept DEF RosterInv
<1> QED
  BY <1>4, <1>5, <1>6 DEF Api

LEMMA RosterNext == TypeOK /\ MailInv /\ RosterInv /\ [Next]_vars => RosterInv'
<1> SUFFICES ASSUME TypeOK, MailInv, RosterInv, [Next]_vars PROVE RosterInv'
  OBVIOUS
<1>1. ASSUME UNCHANGED <<campaign, row, roster, queue, worker, handler>> PROVE RosterInv'
  BY <1>1 DEF RosterInv, WorkerCovers, Dealt, Rows
<1>2. ASSUME NEW e \in Emails, Join(e) \/ Suppress(e) PROVE RosterInv'
  BY <1>1, <1>2 DEF Join, Suppress
<1>3. CASE UNCHANGED vars
  BY <1>1, <1>3 DEF vars
<1> QED
  BY <1>2, <1>3, RosterApi, RosterStart, RosterBatch, RosterJob DEF Next

(* A finished campaign has dealt with every recipient its first start job  *)
(* materialised, although Finish is decided on a count and written over a  *)
(* snapshot that are both stale by then (BatchWorker.syncProgress).        *)
THEOREM FinishLeavesNobodyPending == Spec => []FinishedCoversRoster
<1>1. RosterInv => FinishedCoversRoster
  BY DEF RosterInv, Dealt, FinishedCoversRoster
<1> QED
  BY <1>1, RosterInit, RosterNext, TypeCorrect, MailInvariant, PTL DEF Spec

-----------------------------------------------------------------------------
(* One start job, undisturbed.  A job is then in one place: it waits, or   *)
(* one worker runs it.  The rows are materialised once, before the first   *)
(* batch is enqueued, so the windows of the batches do not overlap and     *)
(* each recipient is in the hands of one worker.                           *)
Runs(w, j) == worker[w].pc # "idle" /\ worker[w].job = j
Live(j) == queue[j] > 0 \/ \E w \in Workers : Runs(w, j)

Offsets == 0 .. NumEmails

Starting(w) ==
    Runs(w, StartJob) /\ worker[w].pc \in {"insert", "count", "read", "write"}
Unmaterialised ==
    starts = 0 \/ queue[StartJob] > 0 \/ \E w \in Workers : worker[w].pc = "insert"

(* What a worker is at fits the job it runs.                               *)
FitsJob(s) ==
    /\ s.pc \in {"insert", "enqueue"} => s.job = StartJob
    /\ s.pc \in {"loop", "mark"} => s.job.kind = "batch"
    /\ s.pc \in {"read", "write"} =>
         /\ s.fn # "none"
         /\ s.fn = "recipientCount" => s.job = StartJob
         /\ s.fn = "progress" => s.job.kind = "batch"
    /\ s.snooze => s.job.kind = "batch"

WorkInv == \A w \in Workers : FitsJob(worker[w])

JobOnce(j) ==
    /\ queue[j] <= 1
    /\ \A w \in Workers : Runs(w, j) => queue[j] = 0
    /\ \A v, w \in Workers : Runs(v, j) /\ Runs(w, j) => v = w

JobsInv ==
    UndisturbedRun =>
        /\ \A j \in Jobs : JobOnce(j)
        /\ starts = 0 => ~Live(StartJob)

Apart ==
    \A o, p \in Offsets :
        Live(BatchJob(o)) /\ Live(BatchJob(p)) /\ o < p => o + BatchSize <= p
FannedBehind ==
    \A w \in Workers, o \in Offsets :
        worker[w].pc = "enqueue" /\ Live(BatchJob(o)) => o + BatchSize <= worker[w].next
NoBatchYet ==
    Unmaterialised \/ (\E w \in Workers : Starting(w))
        => \A o \in Offsets : ~Live(BatchJob(o))

WindowInv == UndisturbedRun => Apart /\ FannedBehind /\ NoBatchYet

InWindow(e, o) ==
    LET position == Cardinality({f \in Rows : f < e})
    IN  o <= position /\ position < o + BatchSize

InHand ==
    \A w \in Workers : worker[w].pc \in {"loop", "mark"} =>
        \A e \in worker[w].todo :
            row[e] = "pending" /\ InWindow(e, worker[w].job.offset)
MailedOnce ==
    \A e \in Emails :
        /\ delivered[e] <= 1
        /\ row[e] \in {"none", "pending"} =>
             \/ delivered[e] = 0
             \/ \E w \in Workers : worker[w].pc = "mark" /\ Upcoming(w, e)

OnceInv == UndisturbedRun => InHand /\ MailedOnce

(* Once nothing is pending, the rows never change again, and neither do    *)
(* the counts that a finish was decided on.                                *)
Over == ~Unmaterialised /\ RowsWith("pending") = {}
Exact(sent, failed) ==
    Over /\ sent = Cardinality(RowsWith("sent")) /\ failed = Cardinality(RowsWith("failed"))

ExactRow(c) == c.status = "finished" => Exact(c.sent, c.failed)
ExactWorker(s) ==
    /\ ExactRow(s.snap)
    /\ s.pc \in {"read", "write"} /\ s.fn = "progress" /\ s.tally.pending = 0
         => Exact(s.tally.sent, s.tally.failed)

ExactInv ==
    UndisturbedRun =>
        /\ ExactRow(campaign)
        /\ \A h \in Handlers : ExactRow(handler[h].snap)
        /\ \A w \in Workers : ExactWorker(worker[w])

-----------------------------------------------------------------------------
(* What a step does to one worker.                                         *)
Keeps(w) == worker'[w].job = worker[w].job /\ worker'[w].snooze = worker[w].snooze
KeepsSnap(w) == Keeps(w) /\ worker'[w].snap = worker[w].snap

TakesStart(w) ==
    /\ BeginStart(w) /\ worker[w].pc = "idle"
    /\ worker'[w].pc \in {"insert", "read"} /\ worker'[w].job = StartJob
    /\ ~worker'[w].snooze /\ worker'[w].snap = NewCampaign
    /\ worker'[w].pc = "read" => worker'[w].fn = "quotaCancel"
TakesBatch(w) ==
    /\ worker'[w].job \in BatchJobs /\ BeginBatch(w, worker'[w].job)
    /\ worker[w].pc = "idle" /\ worker'[w].pc = "loop"
    /\ worker'[w].todo = Pending(worker'[w].job.offset, BatchSize)
    /\ ~worker'[w].snooze /\ worker'[w].snap = NewCampaign
Inserts(w) ==
    /\ BulkInsert(w) /\ worker[w].pc = "insert" /\ worker'[w].pc = "count"
    /\ KeepsSnap(w)
CountsRows(w) ==
    /\ Count(w) /\ worker[w].pc = "count" /\ worker'[w].pc = "read"
    /\ KeepsSnap(w) /\ worker'[w].tally = Counts
    /\ worker'[w].fn = IF worker[w].job.kind = "start" THEN "recipientCount" ELSE "progress"
ReadsRow(w) ==
    /\ UpdateRead(w) /\ worker[w].pc = "read" /\ worker'[w].pc = "write"
    /\ Keeps(w) /\ worker'[w].fn = worker[w].fn /\ worker'[w].tally = worker[w].tally
    /\ worker'[w].snap = campaign
WritesRow(w) ==
    /\ UpdateWrite(w) /\ worker[w].pc = "write"
    /\ worker'[w].pc = IF worker[w].fn = "recipientCount" THEN "enqueue" ELSE "done"
    /\ Keeps(w) /\ worker'[w].snap = NewCampaign
FansOut(w) ==
    /\ EnqueueBatch(w) /\ worker[w].pc = "enqueue" /\ worker'[w].pc = "enqueue"
    /\ KeepsSnap(w) /\ worker'[w].next = worker[w].next + BatchSize
GoesOn(w) ==
    /\ worker[w].pc \in {"loop", "mark"} /\ worker'[w].pc \in {"loop", "mark", "count"}
    /\ worker'[w].job = worker[w].job /\ worker'[w].snap = worker[w].snap
    /\ worker'[w].todo \subseteq worker[w].todo
    /\ worker[w].pc = "mark" => worker'[w].pc = "loop"
Ends(w) ==
    /\ worker[w].pc # "idle" /\ worker'[w] = IdleWorker
    /\ JobDone(w) \/ JobFails(w)

WorkerMoves(w) ==
    \/ worker'[w] = worker[w]
    \/ TakesStart(w) \/ TakesBatch(w) \/ Inserts(w) \/ CountsRows(w) \/ ReadsRow(w)
    \/ WritesRow(w) \/ FansOut(w) \/ GoesOn(w) \/ Ends(w)

LEMMA StartMoves ==
    ASSUME TypeOK, NEW w \in Workers, StartStep(w)
    PROVE  WorkerMoves(w)
<1>0. worker[w] \in WorkerStates
  BY DEF TypeOK
<1>1. CASE BeginStart(w)
  <2>1. PICK allowed \in BOOLEAN :
           Becomes(w, IF allowed
                      THEN [IdleWorker EXCEPT !.pc = "insert", !.todo = audience]
                      ELSE [IdleWorker EXCEPT !.pc = "read", !.fn = "quotaCancel"])
    BY <1>1, CampaignAssumption DEF BeginStart, CampaignAssumption
  <2>2. CASE allowed
    <3>1. worker'[w] = [IdleWorker EXCEPT !.pc = "insert", !.todo = audience]
      BY <2>1, <2>2 DEF Becomes, TypeOK
    <3>2. QED
      BY <1>1, <3>1 DEF WorkerMoves, TakesStart, IdleWorker, BeginStart
  <2>3. CASE ~allowed
    <3>1. worker'[w] = [IdleWorker EXCEPT !.pc = "read", !.fn = "quotaCancel"]
      BY <2>1, <2>3 DEF Becomes, TypeOK
    <3>2. QED
      BY <1>1, <3>1 DEF WorkerMoves, TakesStart, IdleWorker, BeginStart
  <2>4. QED
    BY <2>2, <2>3
<1>2. CASE BulkInsert(w)
  <2>1. worker'[w] = [worker[w] EXCEPT !.pc = "count", !.todo = {}]
    BY <1>2 DEF BulkInsert, Becomes, TypeOK
  <2>2. QED
    BY <1>0, <1>2, <2>1 DEF WorkerMoves, Inserts, KeepsSnap, Keeps, BulkInsert, WorkerStates
<1>3. CASE EnqueueBatch(w)
  <2>1. worker'[w] = [worker[w] EXCEPT !.next = worker[w].next + BatchSize]
    BY <1>3 DEF EnqueueBatch, Becomes, TypeOK
  <2>2. QED
    BY <1>0, <1>3, <2>1 DEF WorkerMoves, FansOut, KeepsSnap, Keeps, EnqueueBatch, WorkerStates
<1>4. QED
  BY <1>1, <1>2, <1>3 DEF StartStep

LEMMA BatchMoves ==
    ASSUME TypeOK, NEW w \in Workers, BatchStep(w)
    PROVE  WorkerMoves(w)
<1>0. worker[w] \in WorkerStates
  BY DEF TypeOK
<1>1. ASSUME NEW j \in BatchJobs, BeginBatch(w, j) PROVE WorkerMoves(w)
  <2>1. worker'[w] = [IdleWorker EXCEPT !.pc = "loop", !.job = j,
                                        !.todo = Pending(j.offset, BatchSize),
                                        !.held = Held(Pending(j.offset, BatchSize))]
    BY <1>1 DEF BeginBatch, Becomes, TypeOK
  <2>2. /\ worker'[w].pc = "loop" /\ worker'[w].job = j /\ ~worker'[w].snooze
        /\ worker'[w].todo = Pending(j.offset, BatchSize) /\ worker'[w].snap = NewCampaign
    BY <2>1 DEF IdleWorker
  <2>3. worker[w].pc = "idle"
    BY <1>1 DEF BeginBatch
  <2>4. QED
    BY <1>1, <2>2, <2>3 DEF WorkerMoves, TakesBatch
<1>2. ASSUME NEW e \in Emails, SkipRecipient(w, e) \/ SkipLost(w, e) PROVE WorkerMoves(w)
  <2>1. /\ worker'[w] = [worker[w] EXCEPT !.todo = worker[w].todo \ {e}]
        /\ worker[w].pc = "loop"
    BY <1>2 DEF SkipRecipient, SkipLost, Becomes, TypeOK
  <2>2. QED
    BY <1>0, <2>1 DEF WorkerMoves, GoesOn, WorkerStates
<1>3. ASSUME NEW e \in Emails, Send(w, e) PROVE WorkerMoves(w)
  <2>1. PICK ok \in BOOLEAN : Becomes(w, [worker[w] EXCEPT !.pc = "mark", !.ok = ok])
    BY <1>3 DEF Send
  <2>2. worker'[w] = [worker[w] EXCEPT !.pc = "mark", !.ok = ok] /\ worker[w].pc = "loop"
    BY <1>3, <2>1 DEF Send, Becomes, TypeOK
  <2>3. QED
    BY <1>0, <2>2 DEF WorkerMoves, GoesOn, WorkerStates
<1>4. ASSUME NEW e \in Emails, Mark(w, e) \/ MarkLost(w, e) PROVE WorkerMoves(w)
  <2>1. /\ worker'[w] = [worker[w] EXCEPT !.pc = "loop", !.todo = worker[w].todo \ {e},
                                          !.ok = FALSE, !.accepted = Accepted(worker[w], e)]
        /\ worker[w].pc = "mark"
    BY <1>4 DEF Mark, MarkLost, NextRecipient, Becomes, TypeOK
  <2>2. QED
    BY <1>0, <2>1 DEF WorkerMoves, GoesOn, WorkerStates
<1>5. CASE Throttle(w)
  <2>1. /\ worker'[w] = [worker[w] EXCEPT !.todo = {}, !.held = {}, !.snooze = TRUE]
        /\ worker[w].pc = "loop"
    BY <1>5 DEF Throttle, Becomes, TypeOK
  <2>2. QED
    BY <1>0, <2>1 DEF WorkerMoves, GoesOn, WorkerStates
<1>6. CASE RecordUsage(w) \/ UsageLost(w)
  <2>1. worker'[w] = Metered(worker[w]) /\ worker[w].pc = "loop"
    BY <1>6 DEF RecordUsage, UsageLost, LoopOver, Becomes, TypeOK
  <2>2. QED
    BY <1>0, <2>1 DEF WorkerMoves, GoesOn, WorkerStates, Metered
<1>7. QED
  BY <1>1, <1>2, <1>3, <1>4, <1>5, <1>6 DEF BatchStep

LEMMA JobStepMoves ==
    ASSUME TypeOK, NEW w \in Workers, JobStep(w)
    PROVE  WorkerMoves(w)
<1>0. worker[w] \in WorkerStates
  BY DEF TypeOK
<1>1. ASSUME NEW j \in Jobs, SkipJob(w, j) PROVE WorkerMoves(w)
  BY <1>1 DEF SkipJob, WorkerMoves
<1>2. CASE Count(w)
  <2>1. worker'[w] = [worker[w] EXCEPT !.pc = "read", !.tally = Counts,
                                       !.fn = IF worker[w].job.kind = "start"
                                              THEN "recipientCount" ELSE "progress"]
    BY <1>2 DEF Count, Becomes, TypeOK
  <2>2. /\ worker'[w].pc = "read" /\ KeepsSnap(w) /\ worker'[w].tally = Counts
        /\ worker'[w].fn = IF worker[w].job.kind = "start"
                           THEN "recipientCount" ELSE "progress"
    BY <1>0, <2>1 DEF WorkerStates, KeepsSnap, Keeps
  <2>3. QED
    BY <1>2, <2>2 DEF WorkerMoves, CountsRows, Count
<1>3. CASE UpdateRead(w)
  <2>1. worker'[w] = [worker[w] EXCEPT !.pc = "write", !.snap = campaign]
    BY <1>3 DEF UpdateRead, Becomes, TypeOK
  <2>2. QED
    BY <1>0, <1>3, <2>1 DEF WorkerMoves, ReadsRow, Keeps, UpdateRead, WorkerStates
<1>4. CASE UpdateWrite(w)
  <2>1. worker'[w] = [worker[w] EXCEPT !.pc = IF worker[w].fn = "recipientCount"
                                              THEN "enqueue" ELSE "done",
                                       !.snap = NewCampaign]
    BY <1>4 DEF UpdateWrite, Becomes, TypeOK
  <2>2. QED
    BY <1>0, <1>4, <2>1 DEF WorkerMoves, WritesRow, Keeps, UpdateWrite, WorkerStates
<1>5. CASE JobDone(w) \/ JobFails(w)
  <2>1. worker'[w] = IdleWorker /\ worker[w].pc # "idle"
    BY <1>5 DEF JobDone, JobFails, FannedOut, Becomes, TypeOK
  <2>2. QED
    BY <1>5, <2>1 DEF WorkerMoves, Ends
<1>6. QED
  BY <1>1, <1>2, <1>3, <1>4, <1>5 DEF JobStep

(* A worker's step is no other worker's.                                   *)
LEMMA OthersRest ==
    ASSUME TypeOK, NEW w \in Workers, StartStep(w) \/ BatchStep(w) \/ JobStep(w),
           NEW v \in Workers, v # w
    PROVE  worker'[v] = worker[v]
<1>1. ASSUME NEW s, Becomes(w, s) PROVE worker'[v] = worker[v]
  BY <1>1 DEF Becomes, TypeOK
<1>2. CASE StartStep(w)
  BY <1>1, <1>2 DEF StartStep, BeginStart, BulkInsert, EnqueueBatch
<1>3. CASE BatchStep(w)
  BY <1>1, <1>3 DEF BatchStep, BeginBatch, SkipRecipient, SkipLost, Send, Mark, MarkLost,
     NextRecipient, Throttle, RecordUsage, UsageLost
<1>4. CASE JobStep(w)
  BY <1>1, <1>4 DEF JobStep, SkipJob, Count, UpdateRead, UpdateWrite, JobDone, JobFails
<1>5. QED
  BY <1>2, <1>3, <1>4

LEMMA EachWorkerMoves ==
    ASSUME TypeOK, [Next]_vars, NEW w \in Workers
    PROVE  WorkerMoves(w)
<1>1. CASE UNCHANGED worker
  BY <1>1 DEF WorkerMoves
<1>2. ASSUME NEW v \in Workers, StartStep(v) \/ BatchStep(v) \/ JobStep(v)
      PROVE  WorkerMoves(w)
  BY <1>2, OthersRest, StartMoves, BatchMoves, JobStepMoves DEF WorkerMoves
<1>3. QED
  BY <1>1, <1>2 DEF Next, vars, Api, Request, Commit, SaveTargets, EnqueueStart, RequestFails,
     Join, Suppress

(* What a worker is at fits the job it runs.                               *)
LEMMA WorkInit == Init => WorkInv
BY DEF Init, WorkInv, FitsJob, IdleWorker

LEMMA JobKinds ==
    ASSUME NEW j \in Jobs
    PROVE  /\ j = StartJob \/ j \in BatchJobs
           /\ j.kind = "start" <=> j = StartJob
           /\ j.kind = "batch" <=> j \in BatchJobs
           /\ j \in BatchJobs => j.offset \in Offsets /\ j = BatchJob(j.offset)
BY DEF Jobs, StartJob, BatchJobs, BatchJob, Offsets

LEMMA WorkNext ==
    ASSUME TypeOK, TypeOK', WorkInv, [Next]_vars
    PROVE  WorkInv'
<1> SUFFICES ASSUME NEW w \in Workers PROVE FitsJob(worker'[w])
  BY DEF WorkInv
<1>1. /\ FitsJob(worker[w]) /\ WorkerMoves(w)
      /\ worker[w].job \in Jobs /\ worker'[w].job \in Jobs
  BY EachWorkerMoves DEF WorkInv, TypeOK, WorkerStates
<1>2. CASE worker'[w] = worker[w]
  BY <1>1, <1>2
<1>3. CASE TakesStart(w) \/ TakesBatch(w)
  BY <1>1, <1>3, JobKinds DEF TakesStart, TakesBatch, FitsJob
<1>4. CASE Inserts(w) \/ CountsRows(w) \/ ReadsRow(w) \/ WritesRow(w) \/ FansOut(w)
  BY <1>1, <1>4, JobKinds DEF Inserts, CountsRows, ReadsRow, WritesRow, FansOut, KeepsSnap, Keeps,
     FitsJob
<1>5. CASE GoesOn(w)
  BY <1>1, <1>5 DEF GoesOn, FitsJob
<1>6. CASE Ends(w)
  BY <1>6 DEF Ends, FitsJob, IdleWorker
<1>7. QED
  BY <1>1, <1>2, <1>3, <1>4, <1>5, <1>6 DEF WorkerMoves

-----------------------------------------------------------------------------
(* What a step does to the jobs, when nothing fails.                       *)
SameWork == \A v \in Workers, j \in Jobs : Runs(v, j)' <=> Runs(v, j)
OthersSame(w) == \A v \in Workers : v # w => worker'[v] = worker[v]

HandsOut(w, j) ==
    /\ Dequeue(j) /\ OthersSame(w)
    /\ worker[w].pc = "idle" /\ worker'[w].pc # "idle" /\ worker'[w].job = j
TakesBack(w) ==
    /\ OthersSame(w) /\ worker[w].pc # "idle" /\ worker'[w].pc = "idle"
    /\ queue' = queue \/ (worker[w].snooze /\ Enqueue(worker[w].job))

JobsMove ==
    \/ SameWork /\ queue' = queue
    \/ SameWork /\ \E j \in Jobs : Dequeue(j)
    \/ SameWork /\ \E h \in Handlers : EnqueueStart(h)
    \/ SameWork /\ \E w \in Workers : EnqueueBatch(w)
    \/ \E w \in Workers, j \in Jobs : HandsOut(w, j)
    \/ \E w \in Workers : TakesBack(w)

LEMMA WorksOn ==
    ASSUME NEW w \in Workers, NEW j \in Jobs,
           worker[w].pc # "idle", worker'[w].pc # "idle", worker'[w].job = worker[w].job
    PROVE  Runs(w, j)' <=> Runs(w, j)
BY DEF Runs

LEMMA StartsJobs ==
    ASSUME TypeOK, NEW w \in Workers, StartStep(w) \/ BatchStep(w) \/ JobStep(w)
    PROVE  JobsMove \/ faults' # 0
<1>0. OthersSame(w) /\ WorkerMoves(w) /\ worker[w].job \in Jobs
  BY OthersRest, StartMoves, BatchMoves, JobStepMoves DEF OthersSame, TypeOK, WorkerStates
<1>1. ASSUME worker[w].pc # "idle", worker'[w].pc # "idle", worker'[w].job = worker[w].job
      PROVE  SameWork
  BY <1>0, <1>1, WorksOn DEF SameWork, OthersSame, Runs
<1>2. CASE TakesStart(w)
  <2>1. HandsOut(w, StartJob) /\ StartJob \in Jobs
    BY <1>0, <1>2, IdleTypes DEF TakesStart, BeginStart, HandsOut
  <2>2. QED
    BY <2>1 DEF JobsMove
<1>3. CASE TakesBatch(w)
  <2>1. HandsOut(w, worker'[w].job) /\ worker'[w].job \in Jobs
    BY <1>0, <1>3 DEF TakesBatch, BeginBatch, HandsOut, Jobs
  <2>2. QED
    BY <2>1 DEF JobsMove
<1>4. CASE Inserts(w) \/ CountsRows(w) \/ ReadsRow(w) \/ WritesRow(w)
  <2>1. SameWork
    BY <1>1, <1>4 DEF Inserts, CountsRows, ReadsRow, WritesRow, KeepsSnap, Keeps
  <2>2. queue' = queue
    BY <1>4 DEF Inserts, CountsRows, ReadsRow, WritesRow, BulkInsert, Count, UpdateRead,
       UpdateWrite
  <2>3. QED
    BY <2>1, <2>2 DEF JobsMove
<1>5. CASE FansOut(w)
  BY <1>1, <1>5 DEF FansOut, KeepsSnap, Keeps, JobsMove
<1>6. CASE GoesOn(w)
  <2>1. SameWork
    BY <1>1, <1>6 DEF GoesOn
  <2>2. worker[w].pc \in {"loop", "mark"} /\ worker'[w].pc \in {"loop", "mark", "count"}
    BY <1>6 DEF GoesOn
  <2>3. queue' = queue
    <3>1. CASE StartStep(w)
      BY <2>2, <3>1 DEF StartStep, BeginStart, BulkInsert, EnqueueBatch
    <3>2. CASE BatchStep(w)
      BY <2>2, <3>2 DEF BatchStep, BeginBatch, SkipRecipient, SkipLost, Send, Mark, MarkLost,
         Throttle, RecordUsage, UsageLost
    <3>3. CASE JobStep(w)
      <4>1. ~JobDone(w) /\ ~JobFails(w)
        BY <2>2 DEF JobDone, JobFails, Becomes, IdleWorker, TypeOK
      <4>2. QED
        BY <2>2, <3>3, <4>1 DEF JobStep, SkipJob, Count, UpdateRead, UpdateWrite
    <3>4. QED
      BY <3>1, <3>2, <3>3
  <2>4. QED
    BY <2>1, <2>3 DEF JobsMove
<1>7. CASE Ends(w)
  <2>1. CASE JobDone(w)
    <3>1. queue' = queue \/ (worker[w].snooze /\ Enqueue(worker[w].job))
      BY <2>1 DEF JobDone
    <3>2. TakesBack(w)
      BY <1>0, <1>7, <3>1 DEF Ends, TakesBack, IdleWorker
    <3>3. QED
      BY <3>2 DEF JobsMove
  <2>2. CASE JobFails(w)
    <3>1. faults \in Nat /\ faults' = faults + 1
      BY <2>2, CampaignAssumption DEF JobFails, TypeOK, CampaignAssumption
    <3>2. QED
      BY <3>1
  <2>3. QED
    BY <1>7, <2>1, <2>2 DEF Ends
<1>8. CASE worker'[w] = worker[w]
  <2>1. SameWork
    BY <1>0, <1>8 DEF SameWork, OthersSame, Runs
  <2>2. \/ queue' = queue
        \/ \E j \in Jobs : Dequeue(j)
        \/ EnqueueBatch(w)
    <3>1. CASE StartStep(w)
      BY <3>1, IdleTypes DEF StartStep, BeginStart, BulkInsert
    <3>2. CASE BatchStep(w)
      BY <3>2 DEF BatchStep, BeginBatch, SkipRecipient, SkipLost, Send, Mark, MarkLost,
         Throttle, RecordUsage, UsageLost, Jobs
    <3>3. CASE JobStep(w)
      <4>1. ~JobDone(w) /\ ~JobFails(w)
        BY <1>8 DEF JobDone, JobFails, FannedOut, Becomes, IdleWorker, TypeOK
      <4>2. QED
        BY <3>3, <4>1 DEF JobStep, SkipJob, Count, UpdateRead, UpdateWrite
    <3>4. QED
      BY <3>1, <3>2, <3>3
  <2>3. QED
    BY <2>1, <2>2 DEF JobsMove
<1>9. QED
  BY <1>0, <1>2, <1>3, <1>4, <1>5, <1>6, <1>7, <1>8 DEF WorkerMoves

LEMMA EachJobMoves ==
    ASSUME TypeOK, [Next]_vars, faults' = 0
    PROVE  JobsMove
<1>1. CASE UNCHANGED worker
  <2>1. SameWork
    BY <1>1 DEF SameWork, Runs
  <2>2. \/ queue' = queue
        \/ \E h \in Handlers : EnqueueStart(h)
        \/ \E w \in Workers : StartStep(w) \/ BatchStep(w) \/ JobStep(w)
    BY DEF Next, vars, Api, Request, Commit, SaveTargets, RequestFails, Join, Suppress
  <2>3. QED
    BY <2>1, <2>2, StartsJobs DEF JobsMove
<1>2. CASE \E w \in Workers : StartStep(w) \/ BatchStep(w) \/ JobStep(w)
  BY <1>2, StartsJobs
<1>3. QED
  BY <1>1, <1>2 DEF Next, vars, Api, Request, Commit, SaveTargets, EnqueueStart, RequestFails,
     Join, Suppress

(* Which steps may change what.                                            *)
LEMMA ApiFrame ==
    ASSUME NEW h \in Handlers, Api(h)
    PROVE  /\ UNCHANGED <<row, delivered>>
           /\ starts' = starts \/ EnqueueStart(h)
           /\ campaign' = campaign \/ Commit(h)
BY DEF Api, Request, Commit, SaveTargets, EnqueueStart, RequestFails

LEMMA StartFrame ==
    ASSUME NEW w \in Workers, StartStep(w)
    PROVE  UNCHANGED <<starts, delivered, campaign, handler>> /\ (row' = row \/ BulkInsert(w))
BY DEF StartStep, BeginStart, BulkInsert, EnqueueBatch

LEMMA BatchFrame ==
    ASSUME NEW w \in Workers, BatchStep(w)
    PROVE  /\ UNCHANGED <<starts, campaign, handler>>
           /\ delivered' = delivered \/ \E e \in Emails : Send(w, e)
           /\ row' = row \/ \E e \in Emails : SkipRecipient(w, e) \/ Mark(w, e)
<1>1. UNCHANGED <<starts, campaign, handler>>
  BY DEF BatchStep, BeginBatch, SkipRecipient, SkipLost, Send, Mark, MarkLost, Throttle,
     RecordUsage, UsageLost
<1>2. delivered' = delivered \/ \E e \in Emails : Send(w, e)
  BY DEF BatchStep, BeginBatch, SkipRecipient, SkipLost, Mark, MarkLost, Throttle,
     RecordUsage, UsageLost
<1>3. row' = row \/ \E e \in Emails : SkipRecipient(w, e) \/ Mark(w, e)
  BY DEF BatchStep, BeginBatch, SkipLost, Send, MarkLost, Throttle, RecordUsage, UsageLost
<1>4. QED
  BY <1>1, <1>2, <1>3

LEMMA JobFrame ==
    ASSUME NEW w \in Workers, JobStep(w)
    PROVE  /\ UNCHANGED <<starts, row, delivered, handler>>
           /\ campaign' = campaign \/ UpdateWrite(w)
BY DEF JobStep, SkipJob, Count, UpdateRead, UpdateWrite, JobDone, JobFails

LEMMA OtherFrame ==
    ASSUME [Next]_vars, ~\E h \in Handlers : Api(h),
           ~\E w \in Workers : StartStep(w) \/ BatchStep(w) \/ JobStep(w)
    PROVE  UNCHANGED <<campaign, row, delivered, starts, handler>>
BY DEF Next, vars, Join, Suppress

(* What no step takes back.                                                *)
LEMMA StaysUndisturbed ==
    ASSUME TypeOK, [Next]_vars, UndisturbedRun'
    PROVE  /\ UndisturbedRun /\ faults' = 0 /\ faults = 0
           /\ \/ starts' = starts /\ ~\E h \in Handlers : EnqueueStart(h)
              \/ starts = 0 /\ starts' = 1 /\ \E h \in Handlers : EnqueueStart(h)
<1>1. faults \in Nat /\ starts \in Nat
  BY CampaignAssumption DEF TypeOK, CampaignAssumption
<1>2. faults' = faults \/ faults' = faults + 1
  <2>1. ASSUME NEW w \in Workers, StartStep(w) \/ JobStep(w)
        PROVE  faults' = faults \/ faults' = faults + 1
    BY <2>1 DEF StartStep, JobStep, BeginStart, BulkInsert, EnqueueBatch, SkipJob, Count,
       UpdateRead, UpdateWrite, JobDone, JobFails
  <2>2. ASSUME NEW w \in Workers, BatchStep(w)
        PROVE  faults' = faults \/ faults' = faults + 1
    <3>1. CASE \E e \in Emails : Send(w, e)
      BY <3>1 DEF Send
    <3>2. QED
      BY <2>2, <3>1 DEF BatchStep, BeginBatch, SkipRecipient, SkipLost, DropError, Mark, MarkLost,
         Throttle, RecordUsage, UsageLost
  <2>3. QED
    BY <2>1, <2>2 DEF Next, vars, Api, Request, Commit, SaveTargets, EnqueueStart, RequestFails,
       Join, Suppress
<1>3. starts' = starts \/ \E h \in Handlers : EnqueueStart(h)
  BY ApiFrame, StartFrame, BatchFrame, JobFrame, OtherFrame
<1>4. (\E h \in Handlers : EnqueueStart(h)) => starts' = starts + 1
  BY DEF EnqueueStart
<1>5. faults' = 0 /\ starts' <= 1
  BY DEF UndisturbedRun
<1>6. QED
  BY <1>1, <1>2, <1>3, <1>4, <1>5 DEF UndisturbedRun

LEMMA EnqueueAt ==
    ASSUME TypeOK, NEW k, Enqueue(k), NEW j \in Jobs
    PROVE  queue'[j] = IF j = k THEN queue[j] + 1 ELSE queue[j]
BY DEF Enqueue, TypeOK

LEMMA DequeueAt ==
    ASSUME TypeOK, NEW k, Dequeue(k), NEW j \in Jobs
    PROVE  /\ queue'[j] = IF j = k THEN queue[j] - 1 ELSE queue[j]
           /\ queue[k] > 0
BY DEF Dequeue, TypeOK

(* A job is new only as one that is enqueued.                              *)
LEMMA NewJobs ==
    ASSUME TypeOK, JobsMove, NEW j \in Jobs, Live(j)'
    PROVE  \/ Live(j)
           \/ j = StartJob /\ \E h \in Handlers : EnqueueStart(h)
           \/ \E w \in Workers : EnqueueBatch(w) /\ j = BatchJob(worker[w].next)
<1>0. queue \in [Jobs -> Nat] /\ queue[j] \in Nat
  BY DEF TypeOK
<1>1. CASE SameWork
  <2>1. CASE queue'[j] > 0 /\ ~queue[j] > 0
    <3>1. CASE \E h \in Handlers : EnqueueStart(h)
      BY <2>1, <3>1, EnqueueAt DEF EnqueueStart
    <3>2. CASE \E w \in Workers : EnqueueBatch(w)
      BY <2>1, <3>2, EnqueueAt DEF EnqueueBatch
    <3>3. CASE \E k \in Jobs : Dequeue(k)
      BY <1>0, <2>1, <3>3, DequeueAt
    <3>4. CASE \E w \in Workers, k \in Jobs : HandsOut(w, k)
      BY <1>0, <2>1, <3>4, DequeueAt DEF HandsOut
    <3>5. CASE \E w \in Workers : TakesBack(w)
      <4>1. PICK w \in Workers : TakesBack(w)
        BY <3>5
      <4>2. Runs(w, j)
        BY <2>1, <4>1, EnqueueAt DEF TakesBack, Runs
      <4>3. QED
        BY <4>2 DEF Live
    <3>6. QED
      BY <2>1, <3>1, <3>2, <3>3, <3>4, <3>5 DEF JobsMove
  <2>2. CASE \E w \in Workers : Runs(w, j)'
    BY <1>1, <2>2 DEF SameWork, Live
  <2>3. QED
    BY <2>1, <2>2 DEF Live
<1>2. ASSUME NEW w \in Workers, NEW k \in Jobs, HandsOut(w, k) PROVE Live(j)
  <2>1. queue[k] > 0 /\ (queue'[j] > 0 => queue[j] > 0)
    BY <1>0, <1>2, DequeueAt DEF HandsOut
  <2>2. \A v \in Workers : Runs(v, j)' => Runs(v, j) \/ j = k
    BY <1>2 DEF HandsOut, OthersSame, Runs
  <2>3. QED
    BY <2>1, <2>2 DEF Live
<1>3. ASSUME NEW w \in Workers, TakesBack(w) PROVE Live(j)
  <2>1. queue'[j] > 0 => queue[j] > 0 \/ Runs(w, j)
    BY <1>0, <1>3, EnqueueAt DEF TakesBack, Runs
  <2>2. \A v \in Workers : Runs(v, j)' => Runs(v, j)
    BY <1>3 DEF TakesBack, OthersSame, Runs
  <2>3. QED
    BY <2>1, <2>2 DEF Live
<1>4. QED
  BY <1>1, <1>2, <1>3 DEF JobsMove

LEMMA OnceInits == Init => JobsInv /\ WindowInv
<1> SUFFICES ASSUME Init PROVE JobsInv /\ WindowInv
  OBVIOUS
<1>1. \A w \in Workers : worker[w].pc = "idle"
  BY DEF Init, IdleWorker
<1>2. \A j \in Jobs : queue[j] = 0 /\ ~Live(j) /\ JobOnce(j)
  BY <1>1 DEF Init, Live, JobOnce, Runs
<1>3. \A o \in Offsets : BatchJob(o) \in Jobs
  BY DEF Jobs, BatchJobs, Offsets
<1>4. StartJob \in Jobs
  BY IdleTypes
<1>5. Apart /\ NoBatchYet
  BY <1>2, <1>3 DEF Apart, NoBatchYet
<1>6. FannedBehind
  BY <1>1 DEF FannedBehind
<1>7. QED
  BY <1>2, <1>4, <1>5, <1>6 DEF JobsInv, WindowInv

(* Whoever fans out runs the one start job, and the rows are there.        *)
LEMMA OneFanOut ==
    ASSUME TypeOK, WorkInv, JobsInv, UndisturbedRun,
           NEW w \in Workers, worker[w].pc \in {"insert", "enqueue"}
    PROVE  /\ queue[StartJob] = 0 /\ starts # 0
           /\ \A v \in Workers : Runs(v, StartJob) => v = w
           /\ \A v \in Workers : worker[v].pc \in {"insert", "enqueue"} => v = w
<1>1. \A v \in Workers : worker[v].pc \in {"insert", "enqueue"} => Runs(v, StartJob)
  BY DEF WorkInv, FitsJob, Runs
<1>2. Runs(w, StartJob) /\ JobOnce(StartJob) /\ Live(StartJob)
  BY <1>1, IdleTypes DEF JobsInv, Live
<1>3. QED
  BY <1>1, <1>2 DEF JobOnce, JobsInv

LEMMA BatchIsNew ==
    ASSUME TypeOK, WindowInv, UndisturbedRun, NEW w \in Workers, EnqueueBatch(w),
           NEW j \in Jobs, j = BatchJob(worker[w].next)
    PROVE  ~Live(j)
<1>1. worker[w].next \in Offsets /\ worker[w].pc = "enqueue" /\ BatchSize \in Nat \ {0}
  BY JobKinds, CampaignAssumption DEF StartJob, BatchJob, EnqueueBatch, CampaignAssumption
<1>2. ASSUME Live(BatchJob(worker[w].next)) PROVE FALSE
  <2>1. worker[w].next + BatchSize <= worker[w].next
    BY <1>1, <1>2 DEF WindowInv, FannedBehind
  <2>2. QED
    BY <1>1, <2>1, CampaignAssumption DEF Offsets, CampaignAssumption
<1>3. QED
  BY <1>2

LEMMA JobsNext ==
    ASSUME TypeOK, TypeOK', WorkInv, JobsInv, WindowInv, [Next]_vars
    PROVE  JobsInv'
<1> SUFFICES ASSUME UndisturbedRun'
             PROVE  /\ \A j \in Jobs : JobOnce(j)'
                    /\ starts' = 0 => ~Live(StartJob)'
  BY DEF JobsInv
<1>1. /\ UndisturbedRun /\ JobsMove
      /\ \/ starts' = starts /\ ~\E h \in Handlers : EnqueueStart(h)
         \/ starts = 0 /\ starts' = 1 /\ \E h \in Handlers : EnqueueStart(h)
  BY StaysUndisturbed, EachJobMoves
<1>2. \A j \in Jobs : JobOnce(j) /\ queue[j] \in Nat
  BY <1>1 DEF JobsInv, TypeOK
<1>3. ASSUME starts' = 0, Live(StartJob)' PROVE FALSE
  <2>1. starts = 0 /\ ~\E h \in Handlers : EnqueueStart(h)
    BY <1>1, <1>3
  <2>2. ~Live(StartJob) /\ StartJob \in Jobs
    BY <1>1, <2>1, IdleTypes DEF JobsInv
  <2>3. \A o : StartJob # BatchJob(o)
    BY DEF StartJob, BatchJob
  <2>4. QED
    BY <1>1, <1>3, <2>1, <2>2, <2>3, NewJobs
<1>4. ASSUME NEW j \in Jobs PROVE JobOnce(j)'
  <2>1. ASSUME SameWork, queue'[j] <= 1, ~Live(j) \/ queue'[j] <= queue[j]
        PROVE  JobOnce(j)'
    <3>1. queue'[j] \in Nat
      BY DEF TypeOK
    <3>2. \A w \in Workers : Runs(w, j) => queue'[j] = 0
      BY <1>2, <2>1, <3>1 DEF JobOnce, Live
    <3>3. QED
      BY <1>2, <2>1, <3>2 DEF JobOnce, SameWork
  <2>2. CASE SameWork /\ queue' = queue
    BY <1>2, <2>1, <2>2 DEF JobOnce
  <2>3. CASE SameWork /\ \E k \in Jobs : Dequeue(k)
    <3>1. queue'[j] <= queue[j]
      BY <1>2, <2>3, DequeueAt
    <3>2. queue[j] <= 1 /\ queue'[j] \in Int
      BY <1>2, <2>3, DequeueAt DEF JobOnce
    <3>3. QED
      BY <1>2, <2>1, <2>3, <3>1, <3>2
  <2>4. CASE SameWork /\ \E h \in Handlers : EnqueueStart(h)
    <3>1. starts = 0 /\ ~Live(StartJob)
      BY <1>1, <2>4 DEF JobsInv
    <3>2. queue'[j] = IF j = StartJob THEN queue[j] + 1 ELSE queue[j]
      BY <2>4, EnqueueAt DEF EnqueueStart
    <3>3. QED
      BY <1>2, <2>1, <2>4, <3>1, <3>2 DEF JobOnce, Live
  <2>5. CASE SameWork /\ \E w \in Workers : EnqueueBatch(w)
    <3>1. PICK w \in Workers : EnqueueBatch(w)
      BY <2>5
    <3>2. queue'[j] = IF j = BatchJob(worker[w].next) THEN queue[j] + 1 ELSE queue[j]
      BY <3>1, EnqueueAt DEF EnqueueBatch
    <3>3. j = BatchJob(worker[w].next) => ~Live(j)
      BY <1>1, <3>1, BatchIsNew
    <3>4. QED
      BY <1>2, <2>1, <2>5, <3>2, <3>3 DEF JobOnce, Live
  <2>6. ASSUME NEW w \in Workers, NEW k \in Jobs, HandsOut(w, k) PROVE JobOnce(j)'
    <3>1. /\ queue'[j] = IF j = k THEN queue[j] - 1 ELSE queue[j]
          /\ queue[k] > 0
      BY <2>6, DequeueAt DEF HandsOut
    <3>2. /\ \A v \in Workers : v # w => (Runs(v, j)' <=> Runs(v, j))
          /\ ~Runs(w, j) /\ (Runs(w, j)' <=> j = k)
      BY <2>6 DEF HandsOut, OthersSame, Runs
    <3>3. queue[j] <= 1 /\ \A v \in Workers : Runs(v, j) => queue[j] = 0
      BY <1>2 DEF JobOnce
    <3>4. \A u, v \in Workers : Runs(u, j) /\ Runs(v, j) => u = v
      BY <1>2 DEF JobOnce
    <3>5. CASE j = k
      <4>1. queue'[j] = 0 /\ \A v \in Workers : ~Runs(v, j)
        BY <1>2, <3>1, <3>3, <3>5
      <4>2. \A v \in Workers : Runs(v, j)' => v = w
        BY <3>2, <4>1
      <4>3. QED
        BY <4>1, <4>2 DEF JobOnce
    <3>6. CASE j # k
      <4>1. queue'[j] = queue[j] /\ \A v \in Workers : Runs(v, j)' => Runs(v, j)
        BY <3>1, <3>2, <3>6
      <4>2. QED
        BY <3>3, <3>4, <4>1 DEF JobOnce
    <3>7. QED
      BY <3>5, <3>6
  <2>7. ASSUME NEW w \in Workers, TakesBack(w) PROVE JobOnce(j)'
    <3>1. \A v \in Workers : Runs(v, j)' => Runs(v, j) /\ v # w
      BY <2>7 DEF TakesBack, OthersSame, Runs
    <3>2. queue'[j] = queue[j] \/ (queue'[j] = queue[j] + 1 /\ Runs(w, j))
      BY <2>7, EnqueueAt DEF TakesBack, Runs
    <3>3. queue[j] <= 1 /\ \A v \in Workers : Runs(v, j) => queue[j] = 0
      BY <1>2 DEF JobOnce
    <3>4. \A u, v \in Workers : Runs(u, j) /\ Runs(v, j) => u = v
      BY <1>2 DEF JobOnce
    <3>5. CASE queue'[j] = queue[j]
      BY <3>1, <3>3, <3>4, <3>5 DEF JobOnce
    <3>6. CASE queue'[j] = queue[j] + 1 /\ Runs(w, j)
      <4>1. queue'[j] = 1 /\ \A v \in Workers : ~Runs(v, j)'
        BY <3>1, <3>3, <3>4, <3>6
      <4>2. QED
        BY <4>1 DEF JobOnce
    <3>7. QED
      BY <3>2, <3>5, <3>6
  <2>8. QED
    BY <1>1, <2>2, <2>3, <2>4, <2>5, <2>6, <2>7 DEF JobsMove
<1>5. QED
  BY <1>3, <1>4

-----------------------------------------------------------------------------
(* The rows are materialised once, before the first batch.                 *)

LEMMA MaterialisedStays ==
    ASSUME TypeOK, TypeOK', WorkInv, [Next]_vars, UndisturbedRun'
    PROVE  /\ Unmaterialised' => Unmaterialised
           /\ \A w \in Workers : Starting(w)' => Starting(w) \/ Unmaterialised
<1>1. /\ JobsMove
      /\ \/ starts' = starts /\ ~\E h \in Handlers : EnqueueStart(h)
         \/ starts = 0 /\ starts' = 1 /\ \E h \in Handlers : EnqueueStart(h)
  BY StaysUndisturbed, EachJobMoves
<1>2. \A w \in Workers : worker[w].job \in Jobs /\ WorkerMoves(w) /\ FitsJob(worker[w])
  BY EachWorkerMoves DEF TypeOK, WorkerStates, WorkInv
<1>3. ASSUME starts' = 0 PROVE Unmaterialised
  BY <1>1, <1>3 DEF Unmaterialised
<1>4. ASSUME queue'[StartJob] > 0, ~queue[StartJob] > 0 PROVE Unmaterialised
  <2>1. CASE \E h \in Handlers : EnqueueStart(h)
    BY <1>1, <2>1 DEF Unmaterialised
  <2>2. \A o : StartJob # BatchJob(o)
    BY DEF StartJob, BatchJob
  <2>3. ~\E w \in Workers : EnqueueBatch(w)
    <3>1. ASSUME NEW w \in Workers, EnqueueBatch(w) PROVE FALSE
      <4>1. Enqueue(BatchJob(worker[w].next)) /\ StartJob # BatchJob(worker[w].next)
        BY <2>2, <3>1 DEF EnqueueBatch
      <4>2. queue'[StartJob] = queue[StartJob]
        BY <4>1, EnqueueAt, IdleTypes
      <4>3. QED
        BY <1>4, <4>2
    <3>2. QED
      BY <3>1
  <2>4. ~\E j \in Jobs : Dequeue(j)
    BY <1>4, DequeueAt, IdleTypes DEF TypeOK
  <2>5. ~\E w \in Workers : TakesBack(w)
    <3>1. ASSUME NEW w \in Workers, TakesBack(w) PROVE FALSE
      <4>1. worker[w].snooze /\ Enqueue(worker[w].job)
        BY <1>4, <3>1 DEF TakesBack
      <4>2. worker[w].job = StartJob
        BY <1>4, <4>1, EnqueueAt, IdleTypes
      <4>3. worker[w].job.kind = "batch"
        BY <1>2, <4>1 DEF FitsJob
      <4>4. QED
        BY <4>2, <4>3 DEF StartJob
    <3>2. QED
      BY <3>1
  <2>6. QED
    BY <1>1, <1>4, <2>1, <2>3, <2>4, <2>5 DEF JobsMove, HandsOut
<1>5. ASSUME NEW w \in Workers, TakesStart(w) PROVE Unmaterialised
  BY <1>5, DequeueAt, IdleTypes DEF TakesStart, BeginStart, Unmaterialised
<1>6. ASSUME NEW w \in Workers, worker'[w].pc = "insert" PROVE Unmaterialised
  <2>1. CASE worker'[w] = worker[w]
    BY <1>6, <2>1 DEF Unmaterialised
  <2>2. CASE TakesStart(w)
    BY <1>5, <2>2
  <2>3. QED
    BY <1>2, <1>6, <2>1, <2>2 DEF WorkerMoves, TakesBatch, Inserts, CountsRows, ReadsRow,
       WritesRow, FansOut, GoesOn, Ends, IdleWorker
<1>7. Unmaterialised' => Unmaterialised
  BY <1>3, <1>4, <1>6 DEF Unmaterialised
<1>8. ASSUME NEW w \in Workers, Starting(w)', ~Unmaterialised PROVE Starting(w)
  <2>1. /\ worker'[w].pc \in {"insert", "count", "read", "write"}
        /\ worker'[w].job = StartJob /\ ~TakesStart(w)
    BY <1>5, <1>8 DEF Starting, Runs
  <2>2. CASE worker'[w] = worker[w]
    BY <2>1, <2>2 DEF Starting, Runs
  <2>3. CASE Inserts(w) \/ CountsRows(w) \/ ReadsRow(w)
    BY <2>1, <2>3 DEF Starting, Runs, Inserts, CountsRows, ReadsRow, KeepsSnap, Keeps
  <2>4. ~GoesOn(w)
    BY <1>2, <2>1 DEF GoesOn, FitsJob, StartJob
  <2>5. QED
    BY <1>2, <2>1, <2>2, <2>3, <2>4 DEF WorkerMoves, TakesBatch, WritesRow, FansOut, Ends,
       IdleWorker
<1>9. QED
  BY <1>7, <1>8

LEMMA FanningKeepsNext ==
    ASSUME TypeOK, NEW w \in Workers, EnqueueBatch(w)
    PROVE  worker'[w].next = worker[w].next + BatchSize /\ worker[w].pc = "enqueue"
<1>1. worker'[w] = [worker[w] EXCEPT !.next = worker[w].next + BatchSize]
  BY DEF EnqueueBatch, Becomes, TypeOK
<1>2. worker[w] \in WorkerStates
  BY DEF TypeOK
<1>3. QED
  BY <1>1, <1>2 DEF EnqueueBatch, WorkerStates

LEMMA WindowNext ==
    ASSUME TypeOK, TypeOK', WorkInv, JobsInv, WindowInv, [Next]_vars
    PROVE  WindowInv'
<1> SUFFICES ASSUME UndisturbedRun' PROVE Apart' /\ FannedBehind' /\ NoBatchYet'
  BY DEF WindowInv
<1>0. BatchSize \in Nat \ {0} /\ NumEmails \in Nat
      /\ \A w \in Workers : worker[w].next \in Nat /\ worker'[w].next \in Nat
  BY CampaignAssumption DEF CampaignAssumption, TypeOK, WorkerStates
<1>1. UndisturbedRun /\ JobsMove
  BY StaysUndisturbed, EachJobMoves
<1>2. \A o \in Offsets : BatchJob(o) \in Jobs /\ BatchJob(o) # StartJob /\ o \in Nat
  <2>1. \A o \in Offsets : BatchJob(o) \in Jobs /\ BatchJob(o) # StartJob
    BY DEF Jobs, BatchJobs, Offsets, BatchJob, StartJob
  <2>2. Offsets \subseteq Nat
    BY <1>0 DEF Offsets
  <2>3. QED
    BY <2>1, <2>2
<1>3. ASSUME NEW o \in Offsets, Live(BatchJob(o))'
      PROVE  \/ Live(BatchJob(o))
             \/ \E w \in Workers : EnqueueBatch(w) /\ o = worker[w].next
  <2>1. \/ Live(BatchJob(o))
        \/ \E w \in Workers : EnqueueBatch(w) /\ BatchJob(o) = BatchJob(worker[w].next)
    BY <1>1, <1>2, <1>3, NewJobs
  <2>2. \A n : BatchJob(o) = BatchJob(n) => o = n
    BY DEF BatchJob
  <2>3. QED
    BY <2>1, <2>2
<1>4. \A o, p \in Offsets :
         Live(BatchJob(o)) /\ Live(BatchJob(p)) /\ o < p => o + BatchSize <= p
  BY <1>1 DEF WindowInv, Apart
<1>5. \A w \in Workers, o \in Offsets :
         worker[w].pc = "enqueue" /\ Live(BatchJob(o)) => o + BatchSize <= worker[w].next
  BY <1>1 DEF WindowInv, FannedBehind
<1>6. \A v, w \in Workers : EnqueueBatch(v) /\ worker[w].pc = "enqueue" => v = w
  BY <1>1, OneFanOut, FanningKeepsNext
<1>7. ASSUME NEW w \in Workers, EnqueueBatch(w)
      PROVE  ~Unmaterialised /\ \A v \in Workers : ~Starting(v)
  <2>1. /\ worker[w].pc = "enqueue" /\ queue[StartJob] = 0 /\ starts # 0
        /\ \A v \in Workers : Runs(v, StartJob) => v = w
        /\ \A v \in Workers : worker[v].pc = "insert" => v = w
    BY <1>1, <1>7, OneFanOut, FanningKeepsNext
  <2>2. QED
    BY <2>1 DEF Unmaterialised, Starting
<1>8. Apart'
  <2> SUFFICES ASSUME NEW o \in Offsets, NEW p \in Offsets,
                      Live(BatchJob(o))', Live(BatchJob(p))', o < p
               PROVE  o + BatchSize <= p
    BY DEF Apart
  <2>1. CASE Live(BatchJob(o)) /\ Live(BatchJob(p))
    BY <1>4, <2>1
  <2>2. ASSUME NEW w \in Workers, EnqueueBatch(w), p = worker[w].next, Live(BatchJob(o))
        PROVE  o + BatchSize <= p
    BY <1>5, <2>2, FanningKeepsNext
  <2>3. ASSUME NEW w \in Workers, EnqueueBatch(w), o = worker[w].next, Live(BatchJob(p))
        PROVE  FALSE
    <3>1. p + BatchSize <= o
      BY <1>5, <2>3, FanningKeepsNext
    <3>2. QED
      BY <1>0, <1>2, <3>1
  <2>4. ASSUME NEW v \in Workers, NEW w \in Workers, EnqueueBatch(v), EnqueueBatch(w),
               o = worker[v].next, p = worker[w].next
        PROVE  FALSE
    <3>1. v = w
      BY <1>6, <2>4, FanningKeepsNext
    <3>2. QED
      BY <1>2, <2>4, <3>1
  <2>5. QED
    BY <1>3, <2>1, <2>2, <2>3, <2>4
<1>9. FannedBehind'
  <2> SUFFICES ASSUME NEW w \in Workers, NEW o \in Offsets,
                      worker'[w].pc = "enqueue", Live(BatchJob(o))'
               PROVE  o + BatchSize <= worker'[w].next
    BY DEF FannedBehind
  <2>1. WorkerMoves(w) /\ FitsJob(worker[w])
    BY EachWorkerMoves DEF WorkInv
  <2>2. CASE worker[w].pc = "enqueue"
    <3>1. worker'[w].next \in {worker[w].next, worker[w].next + BatchSize}
      BY <2>1, <2>2 DEF WorkerMoves, TakesStart, TakesBatch, Inserts, CountsRows, ReadsRow,
         WritesRow, FansOut, GoesOn, Ends, IdleWorker
    <3>2. CASE Live(BatchJob(o))
      <4>1. o + BatchSize <= worker[w].next
        BY <1>5, <2>2, <3>2
      <4>2. QED
        BY <1>0, <1>2, <3>1, <4>1
    <3>3. ASSUME NEW v \in Workers, EnqueueBatch(v), o = worker[v].next
          PROVE  o + BatchSize <= worker'[w].next
      <4>1. v = w
        BY <1>6, <2>2, <3>3
      <4>2. worker'[w].next = o + BatchSize
        BY <3>3, <4>1, FanningKeepsNext
      <4>3. QED
        BY <1>0, <1>2, <4>2
    <3>4. QED
      BY <1>3, <3>2, <3>3
  <2>3. CASE worker[w].pc # "enqueue"
    <3>1. WritesRow(w) /\ worker[w].fn = "recipientCount"
      BY <2>1, <2>3 DEF WorkerMoves, TakesStart, TakesBatch, Inserts, CountsRows, ReadsRow,
         WritesRow, FansOut, GoesOn, Ends, IdleWorker
    <3>2. Starting(w)
      BY <2>1, <3>1 DEF WritesRow, FitsJob, Starting, Runs
    <3>3. ~Live(BatchJob(o)) /\ ~\E v \in Workers : EnqueueBatch(v)
      BY <1>1, <1>7, <3>2 DEF WindowInv, NoBatchYet
    <3>4. QED
      BY <1>3, <3>3
  <2>4. QED
    BY <2>2, <2>3
<1>10. NoBatchYet'
  <2> SUFFICES ASSUME Unmaterialised' \/ \E w \in Workers : Starting(w)',
                      NEW o \in Offsets, Live(BatchJob(o))'
               PROVE  FALSE
    BY DEF NoBatchYet
  <2>1. Unmaterialised \/ \E w \in Workers : Starting(w)
    BY MaterialisedStays
  <2>2. ~Live(BatchJob(o)) /\ ~\E v \in Workers : EnqueueBatch(v)
    BY <1>1, <1>7, <2>1 DEF WindowInv, NoBatchYet
  <2>3. QED
    BY <1>3, <2>2
<1>11. QED
  BY <1>8, <1>9, <1>10

(* What a step does to the rows.                                           *)
LEMMA RowMoves ==
    ASSUME [Next]_vars
    PROVE  \/ row' = row
           \/ \E w \in Workers : BulkInsert(w)
           \/ \E w \in Workers, e \in Emails : SkipRecipient(w, e) \/ Mark(w, e)
BY ApiFrame, StartFrame, BatchFrame, JobFrame, OtherFrame

LEMMA DealingKeepsRows ==
    ASSUME TypeOK, MailInv, NEW w \in Workers, NEW e \in Emails,
           SkipRecipient(w, e) \/ Mark(w, e)
    PROVE  Rows' = Rows /\ e \in Rows
<1>1. e \in Rows
  BY DEF SkipRecipient, Mark, Upcoming, MailInv
<1>2. Rows' = Rows
  BY <1>1 DEF SkipRecipient, Mark, SkippedStatus, Outcome, Rows, TypeOK
<1>3. QED
  BY <1>1, <1>2

-----------------------------------------------------------------------------
(* A recipient is in the hands of one worker.                              *)

LEMMA PositionType ==
    ASSUME NEW e
    PROVE  Cardinality({f \in Rows : f < e}) \in Nat
<1>1. IsFiniteSet(Emails) /\ {f \in Rows : f < e} \subseteq Emails
  BY CampaignAssumption, FS_Interval DEF Emails, CampaignAssumption, Rows
<1>2. QED
  BY <1>1, FS_Subset, FS_CardinalityType

LEMMA OneWindow ==
    ASSUME NEW e, NEW o \in Offsets, NEW p \in Offsets, InWindow(e, o), InWindow(e, p)
    PROVE  ~(o + BatchSize <= p)
<1>1. /\ Cardinality({f \in Rows : f < e}) \in Nat
      /\ o \in Int /\ p \in Int /\ BatchSize \in Nat
  BY PositionType, CampaignAssumption DEF Offsets, CampaignAssumption
<1>2. /\ Cardinality({f \in Rows : f < e}) < o + BatchSize
      /\ p <= Cardinality({f \in Rows : f < e})
  BY DEF InWindow
<1>3. QED
  BY <1>1, <1>2

LEMMA LoopLives ==
    ASSUME TypeOK, WorkInv, NEW w \in Workers, worker[w].pc \in {"loop", "mark"}
    PROVE  /\ worker[w].job \in BatchJobs /\ worker[w].job.offset \in Offsets
           /\ Runs(w, worker[w].job) /\ Live(worker[w].job)
           /\ worker[w].job = BatchJob(worker[w].job.offset)
<1>1. worker[w].job \in Jobs /\ worker[w].job.kind = "batch"
  BY DEF TypeOK, WorkerStates, WorkInv, FitsJob
<1>2. Runs(w, worker[w].job)
  BY DEF Runs
<1>3. QED
  BY <1>1, <1>2, JobKinds DEF Live

LEMMA OneHand ==
    ASSUME TypeOK, WorkInv, JobsInv, WindowInv, InHand, UndisturbedRun,
           NEW v \in Workers, worker[v].pc \in {"loop", "mark"},
           NEW w \in Workers, worker[w].pc \in {"loop", "mark"},
           NEW e, e \in worker[v].todo, e \in worker[w].todo
    PROVE  v = w
<1>1. /\ worker[v].job = BatchJob(worker[v].job.offset) /\ worker[v].job.offset \in Offsets
      /\ Live(worker[v].job) /\ Runs(v, worker[v].job) /\ worker[v].job \in Jobs
  BY LoopLives DEF Jobs
<1>2. /\ worker[w].job = BatchJob(worker[w].job.offset) /\ worker[w].job.offset \in Offsets
      /\ Live(worker[w].job) /\ Runs(w, worker[w].job)
  BY LoopLives
<1>3. PICK o \in Offsets, p \in Offsets :
        o = worker[v].job.offset /\ p = worker[w].job.offset
  BY <1>1, <1>2
<1>4. InWindow(e, o) /\ InWindow(e, p)
  BY <1>3 DEF InHand
<1>5. ~(o + BatchSize <= p) /\ ~(p + BatchSize <= o)
  BY <1>4, OneWindow
<1>6. Live(BatchJob(o)) /\ Live(BatchJob(p))
  BY <1>1, <1>2, <1>3
<1>7. ~(o < p) /\ ~(p < o)
  BY <1>5, <1>6 DEF WindowInv, Apart
<1>8. o = p
  BY <1>7 DEF Offsets
<1>9. worker[v].job = worker[w].job
  BY <1>1, <1>2, <1>3, <1>8
<1>10. JobOnce(worker[v].job)
  BY <1>1 DEF JobsInv
<1>11. QED
  BY <1>1, <1>2, <1>9, <1>10 DEF JobOnce

(* While the rows are inserted no batch runs, so no window moves.          *)
LEMMA InsertsBeforeBatches ==
    ASSUME TypeOK, WorkInv, WindowInv, UndisturbedRun, [Next]_vars,
           NEW v \in Workers, BulkInsert(v)
    PROVE  \A w \in Workers : worker'[w].pc \notin {"loop", "mark"}
<1> SUFFICES ASSUME NEW w \in Workers, worker'[w].pc \in {"loop", "mark"} PROVE FALSE
  OBVIOUS
<1>1. Unmaterialised
  BY DEF BulkInsert, Unmaterialised
<1>2. \A j \in BatchJobs : ~Live(j)
  BY <1>1 DEF WindowInv, NoBatchYet, BatchJobs, Offsets
<1>3. CASE worker'[w] = worker[w] \/ GoesOn(w)
  <2>1. worker[w].pc \in {"loop", "mark"}
    BY <1>3 DEF GoesOn
  <2>2. QED
    BY <1>2, <2>1, LoopLives
<1>4. CASE TakesBatch(w)
  <2>1. worker'[w].job \in BatchJobs /\ Dequeue(worker'[w].job)
    BY <1>4 DEF TakesBatch, BeginBatch
  <2>2. queue[worker'[w].job] > 0
    BY <2>1 DEF Dequeue
  <2>3. QED
    BY <1>2, <2>1, <2>2 DEF Live
<1>5. QED
  BY <1>3, <1>4, EachWorkerMoves DEF WorkerMoves, TakesStart, Inserts, CountsRows, ReadsRow,
     WritesRow, FansOut, Ends, IdleWorker

LEMMA DealingLetsGo ==
    ASSUME TypeOK, NEW v \in Workers, NEW f \in Emails, SkipRecipient(v, f) \/ Mark(v, f)
    PROVE  /\ worker[v].pc \in {"loop", "mark"} /\ f \in worker[v].todo
           /\ f \notin worker'[v].todo
           /\ \A e \in Emails : e # f => row'[e] = row[e]
           /\ row'[f] \in {"sent", "failed", "skipped"}
<1>1. worker[v] \in WorkerStates
  BY DEF TypeOK
<1>2. /\ worker[v].pc \in {"loop", "mark"} /\ f \in worker[v].todo
      /\ \A e \in Emails : e # f => row'[e] = row[e]
      /\ row'[f] \in {"sent", "failed", "skipped"}
  BY DEF SkipRecipient, Mark, Upcoming, SkippedStatus, Outcome, TypeOK
<1>3. CASE SkipRecipient(v, f)
  <2>1. worker'[v] = [worker[v] EXCEPT !.todo = worker[v].todo \ {f}]
    BY <1>3 DEF SkipRecipient, Becomes, TypeOK
  <2>2. QED
    BY <1>1, <1>2, <2>1 DEF WorkerStates
<1>4. CASE Mark(v, f)
  <2>1. worker'[v] = [worker[v] EXCEPT !.pc = "loop", !.todo = worker[v].todo \ {f},
                                       !.ok = FALSE, !.accepted = Accepted(worker[v], f)]
    BY <1>4 DEF Mark, NextRecipient, Becomes, TypeOK
  <2>2. QED
    BY <1>1, <1>2, <2>1 DEF WorkerStates
<1>5. QED
  BY <1>3, <1>4

LEMMA InHandNext ==
    ASSUME TypeOK, MailInv, WorkInv, JobsInv, WindowInv, InHand, UndisturbedRun, faults' = 0,
           [Next]_vars
    PROVE  InHand'
<1> SUFFICES ASSUME NEW w \in Workers, worker'[w].pc \in {"loop", "mark"},
                    NEW e \in worker'[w].todo
             PROVE  row'[e] = "pending" /\ InWindow(e, worker[w].job.offset)'
  BY DEF InHand
<1>1. ~\E v \in Workers : BulkInsert(v)
  BY InsertsBeforeBatches
<1>2. \/ row' = row
      \/ \E v \in Workers, f \in Emails : SkipRecipient(v, f) \/ Mark(v, f)
  BY <1>1, RowMoves
<1>3. Rows' = Rows
  BY <1>2, DealingKeepsRows DEF Rows
<1>4. ASSUME NEW o, InWindow(e, o) PROVE InWindow(e, o)'
  BY <1>3, <1>4 DEF InWindow
<1>5. PICK o : o = worker'[w].job.offset
  OBVIOUS
<1>6. ASSUME InWindow(e, o)' PROVE InWindow(e, worker[w].job.offset)'
  BY <1>5, <1>6 DEF InWindow
<1>7. CASE worker'[w] = worker[w] \/ GoesOn(w)
  <2>1. /\ worker[w].pc \in {"loop", "mark"} /\ e \in worker[w].todo
        /\ o = worker[w].job.offset
    BY <1>5, <1>7 DEF GoesOn
  <2>2. row[e] = "pending" /\ InWindow(e, o)
    BY <2>1 DEF InHand
  <2>3. worker[w].todo \subseteq Emails
    BY DEF TypeOK, WorkerStates
  <2>4. ASSUME NEW v \in Workers, NEW f \in Emails, SkipRecipient(v, f) \/ Mark(v, f)
        PROVE  row'[e] = row[e]
    <3>1. CASE f = e
      <4>1. v = w
        BY <2>1, <2>4, <3>1, DealingLetsGo, OneHand
      <4>2. QED
        BY <2>4, <3>1, <4>1, DealingLetsGo
    <3>2. QED
      BY <2>1, <2>3, <2>4, <3>1, DealingLetsGo
  <2>5. row'[e] = "pending"
    BY <1>2, <2>2, <2>4
  <2>6. QED
    BY <1>4, <1>6, <2>2, <2>5
<1>8. CASE TakesBatch(w)
  <2>1. e \in Pending(o, BatchSize) /\ row' = row
    BY <1>5, <1>8 DEF TakesBatch, BeginBatch
  <2>2. row[e] = "pending" /\ InWindow(e, o)
    BY <2>1 DEF Pending, RowsWith, InWindow
  <2>3. QED
    BY <1>4, <1>6, <2>1, <2>2
<1>9. QED
  BY <1>7, <1>8, EachWorkerMoves DEF WorkerMoves, TakesStart, Inserts, CountsRows, ReadsRow,
     WritesRow, FansOut, Ends, IdleWorker

(* Who is back from the provider marks the row.                            *)
LEMMA MarksNext ==
    ASSUME TypeOK, [Next]_vars, faults = 0, faults' = 0,
           NEW w \in Workers, worker[w].pc = "mark"
    PROVE  worker'[w] = worker[w] \/ \E f \in Emails : Mark(w, f)
<1>1. CASE StartStep(w)
  BY <1>1 DEF StartStep, BeginStart, BulkInsert, EnqueueBatch
<1>2. CASE BatchStep(w)
  BY <1>2 DEF BatchStep, BeginBatch, SkipRecipient, SkipLost, Send, MarkLost, DropError, Throttle,
     RecordUsage, UsageLost, LoopOver
<1>3. CASE JobStep(w)
  BY <1>3 DEF JobStep, SkipJob, Count, UpdateRead, UpdateWrite, JobDone, FannedOut, JobFails
<1>4. ASSUME NEW v \in Workers, v # w, StartStep(v) \/ BatchStep(v) \/ JobStep(v)
      PROVE  worker'[w] = worker[w]
  BY <1>4, OthersRest
<1>5. CASE UNCHANGED worker
  BY <1>5
<1>6. QED
  BY <1>1, <1>2, <1>3, <1>4, <1>5 DEF Next, vars, Api, Request, Commit, SaveTargets,
     EnqueueStart, RequestFails, Join, Suppress

LEMMA DeliveredMoves ==
    ASSUME [Next]_vars
    PROVE  delivered' = delivered \/ \E w \in Workers, e \in Emails : Send(w, e)
BY ApiFrame, StartFrame, BatchFrame, JobFrame, OtherFrame

LEMMA MailedOnceSend ==
    ASSUME TypeOK, WorkInv, JobsInv, WindowInv, InHand, MailedOnce, UndisturbedRun,
           NEW w \in Workers, NEW e \in Emails, Send(w, e)
    PROVE  MailedOnce'
<1>1. /\ worker[w].pc = "loop" /\ e \in worker[w].todo /\ Upcoming(w, e) /\ row' = row
      /\ delivered' = delivered \/ delivered' = [delivered EXCEPT ![e] = @ + 1]
  BY DEF Send, Upcoming
<1>2. PICK ok \in BOOLEAN : Becomes(w, [worker[w] EXCEPT !.pc = "mark", !.ok = ok])
  BY DEF Send
<1>3. /\ worker'[w].pc = "mark" /\ worker'[w].todo = worker[w].todo
      /\ \A v \in Workers : v # w => worker'[v] = worker[v]
  BY <1>2 DEF Becomes, TypeOK, WorkerStates
<1>4. delivered[e] = 0
  <2>1. row[e] = "pending"
    BY <1>1 DEF InHand
  <2>2. ASSUME NEW v \in Workers, worker[v].pc = "mark", Upcoming(v, e) PROVE FALSE
    <3>1. v = w
      BY <1>1, <2>2, OneHand DEF Upcoming
    <3>2. QED
      BY <1>1, <2>2, <3>1
  <2>3. QED
    BY <2>1, <2>2 DEF MailedOnce
<1>5. ASSUME NEW f \in Emails
      PROVE  /\ delivered'[f] <= 1
             /\ row'[f] \in {"none", "pending"} =>
                  \/ delivered'[f] = 0
                  \/ \E v \in Workers : worker'[v].pc = "mark" /\ Upcoming(v, f)'
  <2>1. CASE f = e
    <3>1. delivered'[f] <= 1
      BY <1>1, <1>4, <2>1 DEF TypeOK
    <3>2. Upcoming(w, e)'
      BY <1>1, <1>3 DEF Upcoming
    <3>3. QED
      BY <1>3, <2>1, <3>1, <3>2
  <2>2. CASE f # e
    <3>1. delivered'[f] = delivered[f]
      BY <1>1, <2>2 DEF TypeOK
    <3>2. ASSUME NEW v \in Workers, worker[v].pc = "mark", Upcoming(v, f)
          PROVE  worker'[v].pc = "mark" /\ Upcoming(v, f)'
      BY <1>1, <1>3, <3>2 DEF Upcoming
    <3>3. QED
      BY <1>1, <3>1, <3>2 DEF MailedOnce
  <2>3. QED
    BY <2>1, <2>2
<1>6. QED
  BY <1>5 DEF MailedOnce

LEMMA MailedOnceNext ==
    ASSUME TypeOK, WorkInv, JobsInv, WindowInv, InHand, MailedOnce, UndisturbedRun, faults' = 0,
           [Next]_vars
    PROVE  MailedOnce'
<1>1. CASE \E w \in Workers, e \in Emails : Send(w, e)
  BY <1>1, MailedOnceSend
<1>2. CASE delivered' = delivered
  <2> SUFFICES ASSUME NEW e \in Emails, row'[e] \in {"none", "pending"}, delivered[e] # 0
               PROVE  \E w \in Workers : worker'[w].pc = "mark" /\ Upcoming(w, e)'
    BY <1>2 DEF MailedOnce
  <2>1. row[e] \in {"none", "pending"}
    <3>1. CASE row' = row
      BY <3>1
    <3>2. ASSUME NEW w \in Workers, BulkInsert(w) PROVE row[e] \in {"none", "pending"}
      BY <3>2 DEF BulkInsert, Inserted
    <3>3. ASSUME NEW w \in Workers, NEW f \in Emails, SkipRecipient(w, f) \/ Mark(w, f)
          PROVE  row[e] \in {"none", "pending"}
      BY <3>3, DealingLetsGo
    <3>4. QED
      BY <3>1, <3>2, <3>3, RowMoves
  <2>2. PICK w \in Workers : worker[w].pc = "mark" /\ Upcoming(w, e)
    BY <2>1 DEF MailedOnce
  <2>3. ASSUME NEW f \in Emails, Mark(w, f) PROVE FALSE
    <3>1. f = e
      BY <2>2, <2>3 DEF Mark, Upcoming, Emails
    <3>2. QED
      BY <2>3, <3>1, DealingLetsGo
  <2>4. worker'[w] = worker[w]
    BY <2>2, <2>3, MarksNext DEF UndisturbedRun
  <2>5. QED
    BY <2>2, <2>4 DEF Upcoming
<1>3. QED
  BY <1>1, <1>2, DeliveredMoves

LEMMA OnceInit == Init => OnceInv
BY DEF Init, OnceInv, InHand, MailedOnce, IdleWorker

LEMMA OnceNext ==
    ASSUME TypeOK, MailInv, WorkInv, JobsInv, WindowInv, OnceInv, [Next]_vars
    PROVE  OnceInv'
<1> SUFFICES ASSUME UndisturbedRun' PROVE InHand' /\ MailedOnce'
  BY DEF OnceInv
<1>1. UndisturbedRun /\ faults' = 0
  BY StaysUndisturbed
<1>2. QED
  BY <1>1, InHandNext, MailedOnceNext DEF OnceInv

-----------------------------------------------------------------------------
(* The counts that a finish is decided on.                                 *)

LEMMA OverStays ==
    ASSUME TypeOK, TypeOK', WorkInv, InHand, Over, UndisturbedRun', [Next]_vars
    PROVE  Over' /\ row' = row
<1>1. ~Unmaterialised' /\ faults' = 0
  BY MaterialisedStays, StaysUndisturbed DEF Over
<1>2. ASSUME NEW w \in Workers, BulkInsert(w) PROVE FALSE
  BY <1>2 DEF BulkInsert, Over, Unmaterialised
<1>3. ASSUME NEW w \in Workers, NEW e \in Emails, SkipRecipient(w, e) \/ Mark(w, e)
      PROVE  FALSE
  <2>1. row[e] = "pending"
    BY <1>3, DealingLetsGo DEF InHand
  <2>2. QED
    BY <2>1 DEF Over, RowsWith
<1>4. row' = row
  BY <1>1, <1>2, <1>3, RowMoves
<1>5. QED
  BY <1>1, <1>4 DEF Over, RowsWith

LEMMA ExactStays ==
    ASSUME TypeOK, TypeOK', WorkInv, InHand, UndisturbedRun', [Next]_vars
    PROVE  /\ \A c : ExactRow(c) => ExactRow(c)'
           /\ \A s : ExactWorker(s) => ExactWorker(s)'
<1>1. ASSUME NEW sent, NEW failed, Exact(sent, failed) PROVE Exact(sent, failed)'
  <2>1. Over' /\ row' = row
    BY <1>1, OverStays DEF Exact
  <2>2. QED
    BY <1>1, <2>1 DEF Exact, RowsWith
<1>2. ASSUME NEW c, ExactRow(c) PROVE ExactRow(c)'
  BY <1>1, <1>2 DEF ExactRow
<1>3. ASSUME NEW s, ExactWorker(s) PROVE ExactWorker(s)'
  <2>1. PICK c : c = s.snap
    OBVIOUS
  <2>2. ExactRow(c)'
    BY <1>2, <1>3, <2>1 DEF ExactWorker
  <2>3. PICK sent, failed : sent = s.tally.sent /\ failed = s.tally.failed
    OBVIOUS
  <2>4. s.pc \in {"read", "write"} /\ s.fn = "progress" /\ s.tally.pending = 0
          => Exact(sent, failed)'
    BY <1>1, <1>3, <2>3 DEF ExactWorker
  <2>5. QED
    BY <2>1, <2>2, <2>3, <2>4 DEF ExactWorker
<1>4. QED
  BY <1>2, <1>3

(* What is written over a snapshot is exact if it says finished.           *)
LEMMA AppliedExact ==
    ASSUME NEW op, NEW c \in Campaigns, ExactRow(c)
    PROVE  ExactRow(Applied(op, c))
BY DEF Applied, ExactRow, Campaigns

LEMMA ClosureExact ==
    ASSUME NEW s \in WorkerStates, s.pc = "write", FitsJob(s), ExactWorker(s)
    PROVE  ExactRow(Closure(s.fn, s.snap, s.tally))
<1>1. s.snap \in Campaigns /\ s.tally \in Tallies /\ ExactRow(s.snap)
      /\ s.fn \in {"quotaCancel", "recipientCount", "progress"}
  BY DEF WorkerStates, FitsJob, Closures, ExactWorker
<1>2. CASE s.fn = "quotaCancel"
  BY <1>1, <1>2 DEF Closure, QuotaCancel, ExactRow, Campaigns
<1>3. CASE s.fn = "recipientCount"
  BY <1>1, <1>3 DEF Closure, ExactRow, Campaigns
<1>4. CASE s.fn = "progress"
  <2> DEFINE synced == SyncProgress(s.snap, s.tally)
             done == [synced EXCEPT !.status = "finished"]
  <2>1. Closure(s.fn, s.snap, s.tally) = Progress(s.snap, s.tally)
    BY <1>4 DEF Closure
  <2>2. /\ synced \in Campaigns /\ synced.status = s.snap.status
        /\ done.sent = s.tally.sent /\ done.failed = s.tally.failed
    BY <1>1 DEF SyncProgress, Campaigns, Tallies
  <2>3. CASE s.snap.status # "running"
    BY <1>1, <2>1, <2>3 DEF Progress
  <2>4. CASE s.snap.status = "running" /\ ShouldAutoPause(synced)
    BY <2>1, <2>2, <2>4 DEF Progress, ExactRow, Campaigns
  <2>5. CASE s.snap.status = "running" /\ ~ShouldAutoPause(synced) /\ s.tally.pending = 0
    <3>1. Progress(s.snap, s.tally) = done
      BY <2>5 DEF Progress
    <3>2. Exact(s.tally.sent, s.tally.failed)
      BY <1>4, <2>5 DEF ExactWorker
    <3>3. QED
      BY <2>1, <2>2, <3>1, <3>2 DEF ExactRow
  <2>6. CASE s.snap.status = "running" /\ ~ShouldAutoPause(synced) /\ s.tally.pending # 0
    <3>1. Progress(s.snap, s.tally) = synced
      BY <2>6 DEF Progress
    <3>2. QED
      BY <2>1, <2>2, <2>6, <3>1 DEF ExactRow
  <2>7. QED
    BY <2>3, <2>4, <2>5, <2>6
<1>5. QED
  BY <1>1, <1>2, <1>3, <1>4

(* A batch that counts no pending rows counts for good.                    *)
LEMMA CountsExact ==
    ASSUME TypeOK, WorkInv, WindowInv, UndisturbedRun, Counts.pending = 0,
           NEW w \in Workers, worker[w].pc # "idle", worker[w].job.kind = "batch"
    PROVE  Exact(Counts.sent, Counts.failed)
<1>1. worker[w].job \in BatchJobs
  BY JobKinds DEF TypeOK, WorkerStates
<1>2. Live(worker[w].job)
  BY DEF Live, Runs
<1>3. PICK o \in Offsets : worker[w].job = BatchJob(o)
  BY <1>1, JobKinds DEF Jobs
<1>4. ~Unmaterialised
  BY <1>2, <1>3 DEF WindowInv, NoBatchYet
<1>5. IsFiniteSet(RowsWith("pending"))
  <2>1. IsFiniteSet(Emails)
    BY CampaignAssumption, FS_Interval DEF Emails, CampaignAssumption
  <2>2. RowsWith("pending") \subseteq Emails
    BY DEF RowsWith
  <2>3. QED
    BY <2>1, <2>2, FS_Subset
<1>6. RowsWith("pending") = {}
  BY <1>5, FS_EmptySet DEF Counts
<1>7. QED
  BY <1>4, <1>6 DEF Exact, Over, Counts

LEMMA NewCampaignExact == ExactRow(NewCampaign)
BY DEF ExactRow, NewCampaign

LEMMA IdleExact == ExactWorker(IdleWorker)
BY NewCampaignExact DEF ExactWorker, IdleWorker

LEMMA ExactInit == Init => ExactInv
BY NewCampaignExact, IdleExact DEF Init, ExactInv, IdleHandler

LEMMA ExactNext ==
    ASSUME TypeOK, TypeOK', WorkInv, WindowInv, OnceInv, ExactInv, [Next]_vars
    PROVE  ExactInv'
<1> SUFFICES ASSUME UndisturbedRun'
             PROVE  /\ ExactRow(campaign)'
                    /\ \A h \in Handlers : ExactRow(handler[h].snap)'
                    /\ \A w \in Workers : ExactWorker(worker[w])'
  BY DEF ExactInv
<1>1. UndisturbedRun /\ InHand
  BY StaysUndisturbed DEF OnceInv
<1>2. /\ ExactRow(campaign)
      /\ \A h \in Handlers : ExactRow(handler[h].snap)
      /\ \A w \in Workers : ExactWorker(worker[w])
  BY <1>1 DEF ExactInv
<1>3. ExactRow(campaign')
  <2>1. ASSUME NEW h \in Handlers, Commit(h) PROVE ExactRow(campaign')
    <3>1. campaign' = Applied(handler[h].op, handler[h].snap)
      BY <2>1 DEF Commit
    <3>2. handler[h].snap \in Campaigns
      BY DEF TypeOK, HandlerStates
    <3>3. QED
      BY <1>2, <3>1, <3>2, AppliedExact
  <2>2. ASSUME NEW w \in Workers, UpdateWrite(w) PROVE ExactRow(campaign')
    <3>1. /\ campaign' = Closure(worker[w].fn, worker[w].snap, worker[w].tally)
          /\ worker[w].pc = "write"
      BY <2>2 DEF UpdateWrite
    <3>2. worker[w] \in WorkerStates /\ FitsJob(worker[w]) /\ ExactWorker(worker[w])
      BY <1>2 DEF TypeOK, WorkInv
    <3>3. QED
      BY <3>1, <3>2, ClosureExact
  <2>3. \/ campaign' = campaign
        \/ \E h \in Handlers : Commit(h)
        \/ \E w \in Workers : UpdateWrite(w)
    BY ApiFrame, StartFrame, BatchFrame, JobFrame, OtherFrame
  <2>4. QED
    BY <1>2, <2>1, <2>2, <2>3
<1>4. ASSUME NEW h \in Handlers PROVE ExactRow(handler'[h].snap)
  <2>1. handler'[h].snap \in {handler[h].snap, campaign, NewCampaign}
    <3>1. ASSUME NEW g \in Handlers, Api(g)
          PROVE  handler'[h].snap \in {handler[h].snap, campaign, NewCampaign}
      <4>1. ASSUME NEW s, handler' = [handler EXCEPT ![g] = s], s.snap \in {campaign, NewCampaign}
            PROVE  handler'[h].snap \in {handler[h].snap, campaign, NewCampaign}
        BY <4>1 DEF TypeOK
      <4>2. IdleHandler.snap = NewCampaign /\ \A op : Committed(op).snap = NewCampaign
        BY DEF Committed, IdleHandler
      <4>3. CASE \E op \in Operations : Request(g, op)
        BY <4>1, <4>3 DEF Request
      <4>4. CASE Commit(g) \/ SaveTargets(g) \/ EnqueueStart(g) \/ RequestFails(g)
        BY <4>1, <4>2, <4>4 DEF Commit, SaveTargets, EnqueueStart, RequestFails
      <4>5. QED
        BY <3>1, <4>3, <4>4 DEF Api
    <3>2. QED
      BY <3>1, StartFrame, BatchFrame, JobFrame, OtherFrame
  <2>2. QED
    BY <1>2, <2>1, NewCampaignExact
<1>5. ASSUME NEW w \in Workers PROVE ExactWorker(worker'[w])
  <2>1. WorkerMoves(w) /\ ExactWorker(worker[w]) /\ ExactRow(worker[w].snap)
    BY <1>2, EachWorkerMoves DEF ExactWorker
  <2>2. CASE worker'[w] = worker[w]
    BY <2>1, <2>2
  <2>3. CASE TakesStart(w) \/ TakesBatch(w) \/ WritesRow(w)
    BY <2>3, NewCampaignExact DEF TakesStart, TakesBatch, WritesRow, ExactWorker
  <2>4. CASE Inserts(w) \/ FansOut(w) \/ GoesOn(w)
    BY <2>1, <2>4 DEF Inserts, FansOut, GoesOn, KeepsSnap, ExactWorker
  <2>5. CASE ReadsRow(w)
    BY <1>2, <2>1, <2>5 DEF ReadsRow, ExactWorker
  <2>6. CASE CountsRows(w)
    <3>1. /\ worker'[w].snap = worker[w].snap /\ worker'[w].tally = Counts
          /\ worker'[w].fn = IF worker[w].job.kind = "start" THEN "recipientCount" ELSE "progress"
          /\ worker[w].pc = "count"
      BY <2>6 DEF CountsRows, KeepsSnap
    <3>2. ASSUME worker'[w].fn = "progress" PROVE worker[w].job.kind = "batch"
      BY <3>1, <3>2, JobKinds DEF TypeOK, WorkerStates, StartJob
    <3>3. worker'[w].fn = "progress" /\ Counts.pending = 0 => Exact(Counts.sent, Counts.failed)
      BY <1>1, <3>1, <3>2, CountsExact
    <3>4. QED
      BY <2>1, <3>1, <3>3 DEF ExactWorker
  <2>7. CASE Ends(w)
    BY <2>7, IdleExact DEF Ends
  <2>8. QED
    BY <2>1, <2>2, <2>3, <2>4, <2>5, <2>6, <2>7 DEF WorkerMoves
<1>6. ExactRow(campaign)'
  <2>1. PICK c : c = campaign'
    OBVIOUS
  <2>2. ExactRow(c)'
    BY <1>1, <1>3, <2>1, ExactStays
  <2>3. QED
    BY <2>1, <2>2 DEF ExactRow
<1>7. ASSUME NEW h \in Handlers PROVE ExactRow(handler[h].snap)'
  <2>1. PICK c : c = handler'[h].snap
    OBVIOUS
  <2>2. ExactRow(c)'
    BY <1>1, <1>4, <2>1, ExactStays
  <2>3. QED
    BY <2>1, <2>2 DEF ExactRow
<1>8. ASSUME NEW w \in Workers PROVE ExactWorker(worker[w])'
  <2>1. PICK s : s = worker'[w]
    OBVIOUS
  <2>2. ExactWorker(s)'
    BY <1>1, <1>5, <2>1, ExactStays
  <2>3. QED
    BY <2>1, <2>2 DEF ExactWorker, ExactRow
<1>9. QED
  BY <1>6, <1>7, <1>8

(* The undisturbed send throughout: one place for a job, disjoint windows, *)
(* one hand for a recipient, one finish.                                   *)
UndisturbedInv ==
    WorkInv /\ JobsInv /\ WindowInv /\ OnceInv /\ ExactInv

(* UndisturbedInv holds in every reachable state.                          *)
THEOREM UndisturbedInvariant == Spec => []UndisturbedInv
<1>1. Init => UndisturbedInv
  BY WorkInit, OnceInits, OnceInit, ExactInit DEF UndisturbedInv
<1>2. TypeOK /\ TypeOK' /\ MailInv /\ UndisturbedInv /\ [Next]_vars => UndisturbedInv'
  BY WorkNext, JobsNext, WindowNext, OnceNext, ExactNext DEF UndisturbedInv
<1>3. QED
  BY <1>1, <1>2, TypeCorrect, MailInvariant, PTL DEF Spec

(* Without a crash, an error or a second start job nobody is mailed twice, *)
(* although batches run side by side, get throttled and are snoozed        *)
(* (MailedOnceWhenUndisturbed; Recipients.Pending, StartWorker.Work).      *)
THEOREM NobodyIsMailedTwice == Spec => []MailedOnceWhenUndisturbed
<1>1. UndisturbedInv => MailedOnceWhenUndisturbed
  BY DEF UndisturbedInv, OnceInv, MailedOnce, MailedOnceWhenUndisturbed
<1>2. QED
  BY <1>1, UndisturbedInvariant, PTL

(* The counters that a finished campaign shows are those of its rows:      *)
(* whichever of the racing syncProgress writes finishes it has counted     *)
(* rows that never change again (FinishedCountersExact).                   *)
THEOREM FinishIsExact == Spec => []FinishedCountersExact
<1>1. UndisturbedInv => FinishedCountersExact
  BY DEF UndisturbedInv, ExactInv, ExactRow, Exact, FinishedCountersExact
<1>2. QED
  BY <1>1, UndisturbedInvariant, PTL

-----------------------------------------------------------------------------
(* Refinement.                                                             *)

LEMMA LedgerInit == Init => Ledger!Init
BY DEF Init, Ledger!Init, Mailed

LEMMA LedgerStep == TypeOK /\ MailInv /\ [Next]_vars => [Ledger!Next]_(Ledger!vars)
<1> SUFFICES ASSUME TypeOK, MailInv, [Next]_vars PROVE [Ledger!Next]_(Ledger!vars)
  OBVIOUS
<1>1. ASSUME UNCHANGED <<row, delivered, metered>> PROVE UNCHANGED Ledger!vars
  BY <1>1 DEF Ledger!vars, Mailed
<1>2. ASSUME NEW h \in Handlers, Api(h) PROVE UNCHANGED Ledger!vars
  BY <1>1, <1>2 DEF Api, Request, Commit, SaveTargets, EnqueueStart, RequestFails
<1>3. ASSUME NEW w \in Workers, JobStep(w) PROVE UNCHANGED Ledger!vars
  BY <1>1, <1>3 DEF JobStep, SkipJob, Count, UpdateRead, UpdateWrite, JobDone, JobFails
<1>4. ASSUME NEW e \in Emails, Join(e) \/ Suppress(e) PROVE UNCHANGED Ledger!vars
  BY <1>1, <1>4 DEF Join, Suppress
<1>5. CASE UNCHANGED vars
  BY <1>1, <1>5 DEF vars
<1>6. ASSUME NEW w \in Workers, StartStep(w) PROVE [Ledger!Next]_(Ledger!vars)
  <2>1. CASE BulkInsert(w)
    <3> DEFINE new == Inserted(worker[w].todo)
    <3>1. new \in SUBSET Emails /\ \A e \in new : row[e] = "none"
      BY DEF Inserted, TypeOK, WorkerStates
    <3>2. Ledger!Materialise(new)
      BY <2>1, <3>1 DEF BulkInsert, Ledger!Materialise, Mailed
    <3> QED
      BY <3>1, <3>2 DEF Ledger!Next
  <2>2. CASE BeginStart(w) \/ EnqueueBatch(w)
    BY <1>1, <2>2 DEF BeginStart, EnqueueBatch
  <2> QED
    BY <1>6, <2>1, <2>2 DEF StartStep
<1>7. ASSUME NEW w \in Workers, BatchStep(w) PROVE [Ledger!Next]_(Ledger!vars)
  <2>1. ASSUME NEW e \in Emails, SkipRecipient(w, e) PROVE Ledger!Next
    <3>1. row[e] # "none"
      BY <2>1 DEF SkipRecipient, Upcoming, MailInv, Rows
    <3>2. Ledger!Record(e, "skipped")
      BY <2>1, <3>1 DEF SkipRecipient, SkippedStatus, Ledger!Record, Mailed
    <3> QED
      BY <3>2 DEF Ledger!Next
  <2>2. ASSUME NEW e \in Emails, Send(w, e) PROVE [Ledger!Next]_(Ledger!vars)
    <3>1. PICK accepted \in BOOLEAN :
             delivered' = IF accepted THEN [delivered EXCEPT ![e] = @ + 1] ELSE delivered
      BY <2>2 DEF Send
    <3>2. CASE accepted
      <4>1. Mailed' = Mailed \cup {e}
        BY <3>1, <3>2 DEF Mailed, TypeOK
      <4>2. row[e] # "none"
        BY <2>2 DEF Send, Upcoming, MailInv, Rows
      <4>3. Ledger!Mail(e)
        BY <2>2, <4>1, <4>2 DEF Send, Ledger!Mail
      <4> QED
        BY <4>3 DEF Ledger!Next
    <3>3. CASE ~accepted
      BY <1>1, <2>2, <3>1, <3>3 DEF Send
    <3> QED
      BY <3>2, <3>3
  <2>3. ASSUME NEW e \in Emails, Mark(w, e) PROVE Ledger!Next
    <3> DEFINE result == Outcome(worker[w].ok)
    <3>1. row[e] # "none" /\ (result = "sent" => e \in Mailed)
      BY <2>3 DEF Mark, Upcoming, MailInv, Rows, Outcome
    <3>2. Ledger!Record(e, result)
      BY <2>3, <3>1 DEF Mark, Ledger!Record, Mailed
    <3>3. result \in {"sent", "failed", "skipped"}
      BY DEF Outcome
    <3> QED
      BY <3>2, <3>3 DEF Ledger!Next
  <2>4. CASE RecordUsage(w)
    <3>1. worker[w].accepted \in SUBSET Emails /\ worker[w].accepted \subseteq Mailed
      BY DEF TypeOK, WorkerStates, MailInv
    <3>2. Ledger!Bill(worker[w].accepted)
      BY <2>4, <3>1 DEF RecordUsage, Ledger!Bill, Mailed
    <3> QED
      BY <3>1, <3>2 DEF Ledger!Next
  <2>5. ASSUME NEW j \in BatchJobs, BeginBatch(w, j) PROVE UNCHANGED Ledger!vars
    BY <1>1, <2>5 DEF BeginBatch
  <2>6. ASSUME NEW e \in Emails, SkipLost(w, e) \/ MarkLost(w, e) PROVE UNCHANGED Ledger!vars
    BY <1>1, <2>6 DEF SkipLost, MarkLost
  <2>7. CASE Throttle(w) \/ UsageLost(w)
    BY <1>1, <2>7 DEF Throttle, UsageLost
  <2> QED
    BY <1>7, <2>1, <2>2, <2>3, <2>4, <2>5, <2>6, <2>7 DEF BatchStep
<1> QED
  BY <1>2, <1>3, <1>4, <1>5, <1>6, <1>7 DEF Next

(* The send keeps the promises of SendLedger: materialised once, mailed    *)
(* only then, recorded as sent and billed only after the mail, never       *)
(* pending again.                                                          *)
THEOREM SendImplementsLedger == Spec => KeepsLedger
BY LedgerInit, LedgerStep, TypeCorrect, MailInvariant, PTL
   DEF Spec, KeepsLedger, Ledger!Spec
=============================================================================
