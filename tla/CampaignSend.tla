---------------------------- MODULE CampaignSend ----------------------------
(***************************************************************************)
(* One campaign's send, as the api and worker processes run it: the status *)
(* commands (internal/campaign/app/command/campaigns.go), the              *)
(* campaign.start and campaign.batch workers                               *)
(* (internal/campaign/adapters/{start,batch}_worker.go), the recipient     *)
(* rows (recipients_pg.go), the campaign row (campaigns_pg.go) and the     *)
(* River queue between them (internal/platform/jobs/jobs.go).              *)
(*                                                                         *)
(* Every repository call is a transaction of its own and one action here.  *)
(* Campaigns.Update reads the row without locking it, runs a closure and   *)
(* writes the whole row back, so it is two actions with other processes    *)
(* in between.  Reads that directly follow one another are one action.     *)
(*                                                                         *)
(* A recipient row is identified by its email.  Emails are numbered in the *)
(* order of campaign_recipients.id, a random uuid: which of them are in    *)
(* the audience from the start, and which join later, is arbitrary, so a   *)
(* late joiner can take any place in the id order.                         *)
(***************************************************************************)
EXTENDS Integers, FiniteSets

CONSTANTS
    NumEmails,       \* bound: how many addresses the audience can ever hold
    BatchSize,       \* recipients per campaign.batch job
    MaxSendErrors,   \* campaigns.max_send_errors, the auto-pause threshold
    QuotaAnswers,    \* what QuotaGate.Authorize may answer: a set of BOOLEANs
    LateJoiners,     \* addresses that may join a target list at any time
    MaySuppress,     \* addresses that may enter the suppression list
    Workers,         \* goroutines of the River send queue, over all processes
    Handlers,        \* concurrent API requests
    Operations,      \* the API operations that are requested
    DroppedErrors,   \* may a write whose error the batch worker drops fail?
    MaxRequests,     \* bound: API requests in a behaviour
    MaxFaults        \* bound: crashes, errors and lost writes in a behaviour

Emails == 1 .. NumEmails

AllOperations == {"update", "archive", "start", "pause", "resume", "cancel"}

ASSUME CampaignAssumption ==
    /\ NumEmails \in Nat
    /\ BatchSize \in Nat \ {0}
    /\ MaxSendErrors \in Nat \ {0}
    /\ QuotaAnswers \in SUBSET BOOLEAN
    /\ LateJoiners \in SUBSET Emails
    /\ MaySuppress \in SUBSET Emails
    /\ Operations \in SUBSET AllOperations
    /\ DroppedErrors \in BOOLEAN
    /\ MaxRequests \in Nat
    /\ MaxFaults \in Nat

VARIABLES
    campaign,     \* the campaigns row: status and progress counters
    row,          \* campaign_recipients.status of each email, "none" if no row
    audience,     \* the members of the campaign's target lists
    suppressed,   \* the tenant's suppression list
    queue,        \* how many copies of each job wait in river_job
    worker,       \* what each send worker is doing
    handler,      \* what each API request is doing
    requests,     \* API requests so far (bounded)
    faults,       \* crashes, errors and lost writes so far (bounded)
    delivered,    \* history: messages the provider accepted, per email
    metered,      \* emails with a campaign_send usage event
    roster,       \* history: the rows the first non-empty BulkInsert created
    starts,       \* history: how many campaign.start jobs were enqueued
    resumed,      \* history: a Resume was committed
    shielded      \* history: who got suppressed while no batch had selected them

vars == <<campaign, row, audience, suppressed, queue, worker, handler,
          requests, faults, delivered, metered, roster, starts, resumed,
          shielded>>

-----------------------------------------------------------------------------
(* Data.                                                                   *)

Statuses == {"draft", "running", "paused", "finished", "cancelled"}
RowStatuses == {"none", "pending", "sent", "failed", "skipped"}

Campaigns == [status : Statuses, sent : Nat, failed : Nat, total : Nat]

NewCampaign == [status |-> "draft", sent |-> 0, failed |-> 0, total |-> 0]

StartJob == [kind |-> "start", offset |-> 0]
BatchJob(offset) == [kind |-> "batch", offset |-> offset]
BatchJobs == {BatchJob(o) : o \in 0 .. NumEmails}
Jobs == {StartJob} \cup BatchJobs

(* A worker's local state; Update's closure is named by fn.                *)
WorkerPCs == {"idle", "insert", "count", "read", "write", "enqueue",
              "loop", "mark", "done"}
Closures == {"none", "quotaCancel", "recipientCount", "progress"}
Tallies == [sent : Nat, failed : Nat, pending : Nat]
NoTally == [sent |-> 0, failed |-> 0, pending |-> 0]

WorkerStates ==
    [pc : WorkerPCs, job : Jobs, todo : SUBSET Emails, held : SUBSET Emails,
     accepted : SUBSET Emails, ok : BOOLEAN, tally : Tallies, fn : Closures,
     snap : Campaigns, next : Nat, snooze : BOOLEAN]

IdleWorker ==
    [pc |-> "idle", job |-> StartJob, todo |-> {}, held |-> {},
     accepted |-> {}, ok |-> FALSE, tally |-> NoTally, fn |-> "none",
     snap |-> NewCampaign, next |-> 0, snooze |-> FALSE]

HandlerStates ==
    [pc : {"idle", "write", "targets", "enqueue"}, op : AllOperations, snap : Campaigns]

IdleHandler == [pc |-> "idle", op |-> "update", snap |-> NewCampaign]

-----------------------------------------------------------------------------
(* Queries on the recipient rows.                                          *)

Rows == {e \in Emails : row[e] # "none"}
RowsWith(s) == {e \in Emails : row[e] = s}

PendingAnyStatus(offset, limit) ==
    {e \in Rows : Cardinality({f \in Rows : f < e}) \in offset .. offset + limit - 1}

PendingShifts(offset, limit) ==
    LET waiting == RowsWith("pending")
    IN  {e \in waiting :
            Cardinality({f \in waiting : f < e}) \in offset .. offset + limit - 1}

(* Recipients.Pending: the rows of the window [offset, offset + limit) of  *)
(* the id-ordered recipients, sent or not, that are still pending.         *)
Pending(offset, limit) ==
    {e \in RowsWith("pending") :
        LET position == Cardinality({f \in Rows : f < e})
        IN  offset <= position /\ position < offset + limit}

(* Recipients.Counts.                                                      *)
Counts == [sent |-> Cardinality(RowsWith("sent")),
           failed |-> Cardinality(RowsWith("failed")),
           pending |-> Cardinality(RowsWith("pending"))]

(* Worker w goes on in another local state.                                *)
Becomes(w, state) == worker' = [worker EXCEPT ![w] = state]

Enqueue(job) == queue' = [queue EXCEPT ![job] = @ + 1]
Dequeue(job) == queue[job] > 0 /\ queue' = [queue EXCEPT ![job] = @ - 1]

-----------------------------------------------------------------------------
(* The aggregate: what each closure given to Campaigns.Update does.        *)

ShouldAutoPause(c) == c.status = "running" /\ c.failed > MaxSendErrors

RecordProgress(c, tally) ==
    [c EXCEPT !.sent = @ + tally.sent, !.failed = @ + tally.failed]

SyncProgress(c, tally) == [c EXCEPT !.sent = tally.sent, !.failed = tally.failed]

ProgressNeverPauses(c, tally) ==
    LET synced == SyncProgress(c, tally)
    IN  IF c.status = "running" /\ tally.pending = 0
        THEN [synced EXCEPT !.status = "finished"] ELSE synced

ProgressFinishesWithBatch(c, tally) ==
    IF c.status = "running"
    THEN [SyncProgress(c, tally) EXCEPT !.status = "finished"] ELSE c

(* BatchWorker.syncProgress.                                               *)
Progress(c, tally) ==
    LET synced == SyncProgress(c, tally)
    IN  IF c.status # "running" THEN c
        ELSE IF ShouldAutoPause(synced) THEN [synced EXCEPT !.status = "paused"]
        ELSE IF tally.pending = 0 THEN [synced EXCEPT !.status = "finished"]
        ELSE synced

(* StartWorker: total := sent + failed + pending; SetRecipientCount(total). *)
RecipientTotal(tally) == tally.sent + tally.failed + tally.pending

QuotaCancel(c) ==
    IF c.status = "running" THEN [c EXCEPT !.status = "cancelled"] ELSE c

Closure(fn, c, tally) ==
    CASE fn = "quotaCancel" -> QuotaCancel(c)
      [] fn = "recipientCount" -> [c EXCEPT !.total = RecipientTotal(tally)]
      [] OTHER -> Progress(c, tally)

(* The statuses an operation accepts, and the one it sets.                 *)
Accepts(op, status) ==
    CASE op = "start"  -> status = "draft"
      [] op = "update" -> status = "draft"
      [] op = "pause"  -> status = "running"
      [] op = "resume" -> status = "paused"
      [] op = "cancel" -> status \in {"draft", "running", "paused"}
      [] OTHER         -> TRUE

Applied(op, c) ==
    CASE op \in {"start", "resume"} -> [c EXCEPT !.status = "running"]
      [] op = "pause"  -> [c EXCEPT !.status = "paused"]
      [] op = "cancel" -> [c EXCEPT !.status = "cancelled"]
      [] OTHER         -> c

-----------------------------------------------------------------------------
Init ==
    /\ campaign = NewCampaign
    /\ row = [e \in Emails |-> "none"]
    /\ audience = Emails \ LateJoiners
    /\ suppressed = {}
    /\ queue = [j \in Jobs |-> 0]
    /\ worker = [w \in Workers |-> IdleWorker]
    /\ handler = [h \in Handlers |-> IdleHandler]
    /\ requests = 0
    /\ faults = 0
    /\ delivered = [e \in Emails |-> 0]
    /\ metered = {}
    /\ roster = {}
    /\ starts = 0
    /\ resumed = FALSE
    /\ shielded = {}

-----------------------------------------------------------------------------
(* API handlers.                                                           *)

(* The handler's checks and the SELECT of Campaigns.Update.  A refused     *)
(* operation changes nothing and is not a step.                            *)
Request(h, op) ==
    /\ handler[h].pc = "idle"
    /\ requests < MaxRequests
    /\ Accepts(op, campaign.status)
    /\ requests' = requests + 1
    /\ handler' = [handler EXCEPT ![h] = [pc |-> "write", op |-> op, snap |-> campaign]]
    /\ UNCHANGED <<campaign, row, audience, suppressed, queue, worker,
                   faults, delivered, metered, roster, starts, resumed,
                   shielded>>

(* Where a handler goes on once its Update has committed.                  *)
Committed(op) ==
    CASE op \in {"start", "resume"} -> [IdleHandler EXCEPT !.pc = "enqueue", !.op = op]
      [] op = "update" -> [IdleHandler EXCEPT !.pc = "targets"]
      [] OTHER -> IdleHandler

(* The UPDATE of Campaigns.Update, which writes every column from the      *)
(* snapshot, and its commit.                                               *)
Commit(h) ==
    LET op == handler[h].op IN
    /\ handler[h].pc = "write"
    /\ campaign' = Applied(op, handler[h].snap)
    /\ resumed' = (resumed \/ op = "resume")
    /\ handler' = [handler EXCEPT ![h] = Committed(op)]
    /\ UNCHANGED <<row, audience, suppressed, queue, worker, requests,
                   faults, delivered, metered, roster, starts, shielded>>

(* SaveTargets of an edited draft, in a transaction of its own: the new    *)
(* target lists have the late joiners among their members, or not.         *)
SaveTargets(h) ==
    /\ handler[h].pc = "targets"
    /\ audience' \in {Emails \ LateJoiners, Emails}
    /\ handler' = [handler EXCEPT ![h] = IdleHandler]
    /\ UNCHANGED <<campaign, row, suppressed, queue, worker, requests, faults,
                   delivered, metered, roster, starts, resumed, shielded>>

(* EnqueueStart, after the commit and in a transaction of its own.         *)
EnqueueStart(h) ==
    /\ handler[h].pc = "enqueue"
    /\ Enqueue(StartJob)
    /\ starts' = starts + 1
    /\ handler' = [handler EXCEPT ![h] = IdleHandler]
    /\ UNCHANGED <<campaign, row, audience, suppressed, worker, requests,
                   faults, delivered, metered, roster, resumed, shielded>>

(* The api process dies, or a database call fails, inside a request.       *)
RequestFails(h) ==
    /\ handler[h].pc # "idle"
    /\ faults < MaxFaults
    /\ faults' = faults + 1
    /\ handler' = [handler EXCEPT ![h] = IdleHandler]
    /\ UNCHANGED <<campaign, row, audience, suppressed, queue, worker,
                   requests, delivered, metered, roster, starts, resumed,
                   shielded>>

-----------------------------------------------------------------------------
(* campaign.start.                                                         *)

SkipJobSnoozes(w, j) == FALSE

(* River hands a worker the job; the campaign is no longer running.        *)
SkipJob(w, j) ==
    /\ worker[w].pc = "idle"
    /\ campaign.status # "running"
    /\ Dequeue(j)
    /\ UNCHANGED <<campaign, row, audience, suppressed, worker, handler,
                   requests, faults, delivered, metered, roster, starts,
                   resumed, shielded>>

(* Get, resolveMembers and QuotaGate.Authorize.                            *)
BeginStart(w) ==
    /\ worker[w].pc = "idle"
    /\ campaign.status = "running"
    /\ Dequeue(StartJob)
    /\ \E allowed \in QuotaAnswers :
         Becomes(w, IF allowed
                    THEN [IdleWorker EXCEPT !.pc = "insert", !.todo = audience]
                    ELSE [IdleWorker EXCEPT !.pc = "read", !.fn = "quotaCancel"])
    /\ UNCHANGED <<campaign, row, audience, suppressed, handler, requests,
                   faults, delivered, metered, roster, starts, resumed,
                   shielded>>

InsertedAgain(members) == members
Inserted(members) == {e \in members : row[e] = "none"}

(* Recipients.BulkInsert: ON CONFLICT (campaign_id, email) DO NOTHING.     *)
BulkInsert(w) ==
    LET new == Inserted(worker[w].todo) IN
    /\ worker[w].pc = "insert"
    /\ row' = [e \in Emails |-> IF e \in new THEN "pending" ELSE row[e]]
    /\ roster' = IF roster = {} THEN new ELSE roster
    /\ Becomes(w, [worker[w] EXCEPT !.pc = "count", !.todo = {}])
    /\ UNCHANGED <<campaign, audience, suppressed, queue, handler,
                   requests, faults, delivered, metered, starts, resumed,
                   shielded>>

(* Recipients.Counts, before the Update of either worker.                  *)
Count(w) ==
    /\ worker[w].pc = "count"
    /\ Becomes(w, [worker[w] EXCEPT !.pc = "read", !.tally = Counts,
                                    !.fn = IF worker[w].job.kind = "start"
                                           THEN "recipientCount" ELSE "progress"])
    /\ UNCHANGED <<campaign, row, audience, suppressed, queue, handler,
                   requests, faults, delivered, metered, roster, starts,
                   resumed, shielded>>

(* The SELECT and the UPDATE of Campaigns.Update in a worker.              *)
UpdateRead(w) ==
    /\ worker[w].pc = "read"
    /\ Becomes(w, [worker[w] EXCEPT !.pc = "write", !.snap = campaign])
    /\ UNCHANGED <<campaign, row, audience, suppressed, queue, handler,
                   requests, faults, delivered, metered, roster, starts,
                   resumed, shielded>>

UpdateWrite(w) ==
    LET s == worker[w] IN
    /\ s.pc = "write"
    /\ campaign' = Closure(s.fn, s.snap, s.tally)
    /\ Becomes(w, [s EXCEPT !.pc = IF s.fn = "recipientCount" THEN "enqueue" ELSE "done",
                            !.snap = NewCampaign])
    /\ UNCHANGED <<row, audience, suppressed, queue, handler, requests,
                   faults, delivered, metered, roster, starts, resumed,
                   shielded>>

FannedOut(w) ==
    worker[w].pc = "enqueue" /\ worker[w].next >= RecipientTotal(worker[w].tally)

(* One iteration of StartWorker's fan-out loop.                            *)
EnqueueBatch(w) ==
    /\ worker[w].pc = "enqueue"
    /\ ~FannedOut(w)
    /\ Enqueue(BatchJob(worker[w].next))
    /\ Becomes(w, [worker[w] EXCEPT !.next = worker[w].next + BatchSize])
    /\ UNCHANGED <<campaign, row, audience, suppressed, handler, requests,
                   faults, delivered, metered, roster, starts, resumed,
                   shielded>>

-----------------------------------------------------------------------------
(* campaign.batch.                                                         *)

HeldNobody(todo) == {}
Held(todo) == todo \cap suppressed

(* Get, Pending and one look at the suppression list for the whole batch.  *)
BeginBatch(w, j) ==
    LET todo == Pending(j.offset, BatchSize) IN
    /\ worker[w].pc = "idle"
    /\ campaign.status = "running"
    /\ j.kind = "batch"
    /\ Dequeue(j)
    /\ Becomes(w, [IdleWorker EXCEPT !.pc = "loop", !.job = j, !.todo = todo,
                                     !.held = Held(todo)])
    /\ UNCHANGED <<campaign, row, audience, suppressed, handler, requests,
                   faults, delivered, metered, roster, starts, resumed,
                   shielded>>

(* The batch loop takes its recipients in id order.                        *)
Upcoming(w, e) ==
    /\ e \in worker[w].todo
    /\ \A f \in worker[w].todo : e <= f

(* A write of the batch loop fails and its error is dropped.               *)
DropError == DroppedErrors /\ faults < MaxFaults /\ faults' = faults + 1

SkippedStatus == "skipped"

(* A recipient found suppressed: MarkSkipped, no message.                  *)
SkipRecipient(w, e) ==
    /\ worker[w].pc = "loop"
    /\ Upcoming(w, e)
    /\ e \in worker[w].held
    /\ row' = [row EXCEPT ![e] = SkippedStatus]
    /\ Becomes(w, [worker[w] EXCEPT !.todo = worker[w].todo \ {e}])
    /\ UNCHANGED <<campaign, audience, suppressed, queue, handler,
                   requests, faults, delivered, metered, roster, starts,
                   resumed, shielded>>

SkipLost(w, e) ==
    /\ worker[w].pc = "loop"
    /\ Upcoming(w, e)
    /\ e \in worker[w].held
    /\ DropError
    /\ Becomes(w, [worker[w] EXCEPT !.todo = worker[w].todo \ {e}])
    /\ UNCHANGED <<campaign, row, audience, suppressed, queue, handler,
                   requests, delivered, metered, roster, starts, resumed,
                   shielded>>

(* RateLimiter.Allow admits the message and Messenger.Send is called.  An  *)
(* error means a rejection, or an answer that got lost on the way back.    *)
Send(w, e) ==
    /\ worker[w].pc = "loop"
    /\ Upcoming(w, e)
    /\ e \notin worker[w].held
    /\ \E accepted, ok \in BOOLEAN :
         /\ ok => accepted
         /\ accepted /\ ~ok => faults < MaxFaults
         /\ faults' = IF accepted /\ ~ok THEN faults + 1 ELSE faults
         /\ delivered' = IF accepted THEN [delivered EXCEPT ![e] = @ + 1] ELSE delivered
         /\ Becomes(w, [worker[w] EXCEPT !.pc = "mark", !.ok = ok])
    /\ UNCHANGED <<campaign, row, audience, suppressed, queue, handler,
                   requests, metered, roster, starts, resumed, shielded>>

AcceptedAnyway(s, e) == s.accepted \cup {e}
Accepted(s, e) == IF s.ok THEN s.accepted \cup {e} ELSE s.accepted

(* Back from the provider: on to the next recipient of the batch.          *)
NextRecipient(w, e) ==
    Becomes(w, [worker[w] EXCEPT !.pc = "loop", !.todo = worker[w].todo \ {e},
                                 !.ok = FALSE, !.accepted = Accepted(worker[w], e)])

OutcomeSent(ok) == "sent"
Outcome(ok) == IF ok THEN "sent" ELSE "failed"

(* MarkSent or MarkFailed, whatever the row's status has become.           *)
Mark(w, e) ==
    /\ worker[w].pc = "mark"
    /\ Upcoming(w, e)
    /\ row' = [row EXCEPT ![e] = Outcome(worker[w].ok)]
    /\ NextRecipient(w, e)
    /\ UNCHANGED <<campaign, audience, suppressed, queue, handler,
                   requests, faults, delivered, metered, roster, starts,
                   resumed, shielded>>

(* The error of MarkSent or MarkFailed is dropped: the loop goes on.       *)
MarkLost(w, e) ==
    /\ worker[w].pc = "mark"
    /\ Upcoming(w, e)
    /\ DropError
    /\ NextRecipient(w, e)
    /\ UNCHANGED <<campaign, row, audience, suppressed, queue, handler,
                   requests, delivered, metered, roster, starts, resumed,
                   shielded>>

(* RateLimiter.Allow refuses: the rest of the batch is snoozed.            *)
Throttle(w) ==
    /\ worker[w].pc = "loop"
    /\ \E e \in Emails \ worker[w].held : Upcoming(w, e)
    /\ Becomes(w, [worker[w] EXCEPT !.todo = {}, !.held = {}, !.snooze = TRUE])
    /\ UNCHANGED <<campaign, row, audience, suppressed, queue, handler,
                   requests, faults, delivered, metered, roster, starts,
                   resumed, shielded>>

LoopOver(w) == worker[w].pc = "loop" /\ worker[w].todo = {}

Metered(s) == [s EXCEPT !.pc = "count", !.held = {}, !.accepted = {}]

(* recordUsage: one usage event per accepted message, keyed by recipient.  *)
RecordUsage(w) ==
    /\ LoopOver(w)
    /\ metered' = metered \cup worker[w].accepted
    /\ Becomes(w, Metered(worker[w]))
    /\ UNCHANGED <<campaign, row, audience, suppressed, queue, handler,
                   requests, faults, delivered, roster, starts, resumed,
                   shielded>>

(* recordUsage drops the recorder's error.                                 *)
UsageLost(w) ==
    /\ LoopOver(w)
    /\ worker[w].accepted # {}
    /\ DropError
    /\ Becomes(w, Metered(worker[w]))
    /\ UNCHANGED <<campaign, row, audience, suppressed, queue, handler,
                   requests, delivered, metered, roster, starts, resumed,
                   shielded>>

-----------------------------------------------------------------------------
(* River.                                                                  *)

(* Work returned nil, or JobSnooze: the job is completed, or waits again.  *)
JobDone(w) ==
    /\ worker[w].pc = "done" \/ FannedOut(w)
    /\ IF worker[w].snooze THEN Enqueue(worker[w].job) ELSE UNCHANGED queue
    /\ Becomes(w, IdleWorker)
    /\ UNCHANGED <<campaign, row, audience, suppressed, handler, requests,
                   faults, delivered, metered, roster, starts, resumed,
                   shielded>>

(* Work returned an error (a database call failed, the job's context ended *)
(* between two recipients) or its process died: River runs the job again.  *)
JobFails(w) ==
    /\ worker[w].pc # "idle"
    /\ faults < MaxFaults
    /\ faults' = faults + 1
    /\ Enqueue(worker[w].job)
    /\ Becomes(w, IdleWorker)
    /\ UNCHANGED <<campaign, row, audience, suppressed, handler, requests,
                   delivered, metered, roster, starts, resumed, shielded>>

-----------------------------------------------------------------------------
Selected(w, e) == worker[w].pc \in {"loop", "mark"} /\ e \in worker[w].todo

(* Other components: a subscriber joins a target list; a bounce, complaint *)
(* or operator puts an address on the suppression list.                    *)
Join(e) ==
    /\ e \in LateJoiners \ audience
    /\ audience' = audience \cup {e}
    /\ UNCHANGED <<campaign, row, suppressed, queue, worker, handler,
                   requests, faults, delivered, metered, roster, starts,
                   resumed, shielded>>

Suppress(e) ==
    /\ e \in MaySuppress \ suppressed
    /\ suppressed' = suppressed \cup {e}
    /\ shielded' = IF \E w \in Workers : Selected(w, e)
                   THEN shielded ELSE shielded \cup {e}
    /\ UNCHANGED <<campaign, row, audience, queue, worker, handler, requests,
                   faults, delivered, metered, roster, starts, resumed>>

-----------------------------------------------------------------------------
Api(h) ==
    \/ \E op \in Operations : Request(h, op)
    \/ Commit(h)
    \/ SaveTargets(h)
    \/ EnqueueStart(h)
    \/ RequestFails(h)

StartStep(w) ==
    \/ BeginStart(w)
    \/ BulkInsert(w)
    \/ EnqueueBatch(w)

BatchStep(w) ==
    \/ \E j \in BatchJobs : BeginBatch(w, j)
    \/ \E e \in Emails :
         \/ SkipRecipient(w, e)
         \/ SkipLost(w, e)
         \/ Send(w, e)
         \/ Mark(w, e)
         \/ MarkLost(w, e)
    \/ Throttle(w)
    \/ RecordUsage(w)
    \/ UsageLost(w)

JobStep(w) ==
    \/ \E j \in Jobs : SkipJob(w, j)
    \/ Count(w)
    \/ UpdateRead(w)
    \/ UpdateWrite(w)
    \/ JobDone(w)
    \/ JobFails(w)

Next ==
    \/ \E h \in Handlers : Api(h)
    \/ \E w \in Workers : StartStep(w) \/ BatchStep(w) \/ JobStep(w)
    \/ \E e \in Emails : Join(e) \/ Suppress(e)

Spec == Init /\ [][Next]_vars

(* What keeps going: a request and a worker that got their turn finish it, *)
(* River gives every waiting job a worker in the end, and the rate limiter *)
(* admits a message to those who keep asking, for its windows slide.       *)
WorkerStep(w) ==
    \/ BulkInsert(w) \/ Count(w) \/ UpdateRead(w) \/ UpdateWrite(w)
    \/ EnqueueBatch(w) \/ RecordUsage(w) \/ JobDone(w)
    \/ \E e \in Emails : SkipRecipient(w, e) \/ Mark(w, e)

RunJob(j) ==
    \E w \in Workers :
        SkipJob(w, j) \/ BeginBatch(w, j) \/ (j = StartJob /\ BeginStart(w))

Fairness ==
    /\ \A h \in Handlers : WF_vars(Commit(h) \/ SaveTargets(h) \/ EnqueueStart(h))
    /\ \A w \in Workers : WF_vars(WorkerStep(w)) /\ SF_vars(\E e \in Emails : Send(w, e))
    /\ \A j \in Jobs : SF_vars(RunJob(j))

FairSpec == Spec /\ Fairness

-----------------------------------------------------------------------------
(* Every variable stays in its domain: campaign.go, recipients_pg.go and   *)
(* the CHECK constraints of db/migrations/000009 and 000011.               *)
TypeOK ==
    /\ campaign \in Campaigns
    /\ row \in [Emails -> RowStatuses]
    /\ audience \in SUBSET Emails
    /\ suppressed \in SUBSET Emails
    /\ queue \in [Jobs -> Nat]
    /\ worker \in [Workers -> WorkerStates]
    /\ handler \in [Handlers -> HandlerStates]
    /\ requests \in 0 .. MaxRequests
    /\ faults \in 0 .. MaxFaults
    /\ delivered \in [Emails -> Nat]
    /\ metered \in SUBSET Emails
    /\ roster \in SUBSET Emails
    /\ starts \in Nat
    /\ resumed \in BOOLEAN
    /\ shielded \in SUBSET Emails

Mailed == {e \in Emails : delivered[e] > 0}

(* A recipient recorded as sent was mailed, whatever crashes and however   *)
(* many batches overlap on it: no row is written off before Send returned  *)
(* (BatchWorker.sendOne).                                                  *)
SentWasMailed == \A e \in Emails : row[e] = "sent" => e \in Mailed

(* The tenant is billed only for mail the provider accepted               *)
(* (BatchWorker.Work collects sentIDs, recordUsage meters them).           *)
BilledWasMailed == metered \subseteq Mailed

(* When the campaign is finished, every recipient its first start job      *)
(* materialised has been dealt with, although Finish rests on a count that *)
(* is stale when it is written (BatchWorker.syncProgress).                 *)
FinishedCoversRoster ==
    campaign.status = "finished" => \A e \in roster : row[e] # "pending"

(* A campaign never runs past its error threshold unless an operator has   *)
(* resumed it: no stale write of another worker or request undoes the      *)
(* auto-pause (Campaign.ShouldAutoPause, Campaigns.Update).                *)
RunsWithinErrorThreshold ==
    ShouldAutoPause(campaign) => resumed

(* Nothing went wrong and only one campaign.start was ever enqueued.       *)
UndisturbedRun == faults = 0 /\ starts <= 1

(* Without a crash, an error or a second start job, nobody is mailed       *)
(* twice: the batches' windows are disjoint and a snoozed batch re-selects *)
(* only what is pending (Recipients.Pending).                              *)
MailedOnceWhenUndisturbed ==
    UndisturbedRun => \A e \in Emails : delivered[e] <= 1

(* The counters of a finished campaign are those of its recipient rows:    *)
(* of all the racing syncProgress writes, the one that finishes is exact.  *)
FinishedCountersExact ==
    UndisturbedRun /\ campaign.status = "finished"
        => /\ campaign.sent = Cardinality(RowsWith("sent"))
           /\ campaign.failed = Cardinality(RowsWith("failed"))

(* An address that gets on the suppression list while no batch has it      *)
(* selected is never mailed again: the one look a batch takes at the list  *)
(* covers all its recipients, and nothing selects around it                *)
(* (BatchWorker.Work).                                                     *)
NeverMailedOnceSuppressed ==
    [][\A e \in shielded : delivered'[e] = delivered[e]]_vars

(* The recipients' records, the mail and the bill are those of SendLedger. *)
Ledger == INSTANCE SendLedger WITH outcome <- row, mailed <- Mailed, billed <- metered

KeepsLedger == Ledger!Spec

(* Every recipient with a row is dealt with in the end, unless the         *)
(* campaign stops running, through crashes, retries, duplicated batches    *)
(* and snoozes (BatchWorker.Work, Recipients.Pending).                     *)
EveryRecipientReached ==
    \A e \in Emails :
        row[e] = "pending" ~> (row[e] # "pending" \/ campaign.status # "running")

Quiet ==
    /\ \A j \in Jobs : queue[j] = 0
    /\ \A w \in Workers : worker[w].pc = "idle"
    /\ \A h \in Handlers : handler[h].pc = "idle"

(* The queue drains: snoozed and retried jobs do not come back forever     *)
(* (river.JobSnooze in BatchWorker.Work).                                  *)
QueueDrains == <>[]Quiet

-----------------------------------------------------------------------------
(* What the repository says and the code does not do.                      *)

(* Resume "re-enqueues its send so the still-pending recipients are picked *)
(* up" (internal/campaign/app/command/campaigns.go:298-299): when nothing  *)
(* is left to run, a running campaign has no pending recipient.            *)
ResumeReachesPending ==
    Quiet /\ faults = 0 /\ campaign.status = "running" => RowsWith("pending") = {}
=============================================================================
