------------------------------ MODULE Feedback ------------------------------
(***************************************************************************)
(* Delivery feedback of one tenant: the consumer of the provider's stream  *)
(* (cmd/consumer, internal/platform/datastreams), the feedback.process     *)
(* worker (internal/deliverability/app/command/feedback.go), the           *)
(* suppression list, and the bounce settings with their operators'         *)
(* requests.                                                               *)
(*                                                                         *)
(* One action is one call that commits: a repository method, a River       *)
(* insert, a commit of the stream's offset.  TenantForMessage and          *)
(* Attribute are one action: a send that is found by the first and not by  *)
(* the second is unattributed, as it is to a single later read.            *)
(*                                                                         *)
(* The send paths are input: a mail is accepted by the provider and        *)
(* recorded some time later, or never (CampaignSend and Usage model why).  *)
(* A campaign recipient that is mailed twice has one row for both mails.   *)
(***************************************************************************)
EXTENDS Integers, Sequences, FiniteSets

CONSTANTS
    Mails,         \* mails the provider may accept, see AllMails
    EventIds,      \* the provider's event ids
    Kinds,         \* the types of notification that occur
    Workers,       \* goroutines that run feedback.process
    Operators,     \* concurrent requests on suppressions and settings
    Operations,    \* what the operators may ask for
    Choices,       \* the bounce settings they may choose
    MaxTopic,      \* bound: notifications on the stream, repeats included
    MaxRequests,   \* bound: requests of the operators
    MaxFaults      \* bound: crashes and failed calls

RawKinds == {"Bounce", "Complaint", "Delivery", "Send", "malformed"}
AllMails(addresses, copies) ==
    [to : addresses, via : {"campaign", "transactional"}, copy : 1 .. copies]
Addresses == {m.to : m \in Mails}

(* Requests: add or remove an address, change the settings.                *)
AllOperations == {"add", "remove", "settings"}

Nobody == "nobody"
NoEvent == "none"
NoMail == [to |-> Nobody, via |-> "none", copy |-> 0]

ASSUME FeedbackAssumption ==
    /\ \A m \in Mails : m.via \in {"campaign", "transactional"}
    /\ NoMail \notin Mails
    /\ IsFiniteSet(Mails)
    /\ Kinds \in SUBSET RawKinds
    /\ Operations \in SUBSET AllOperations
    /\ Choices \in SUBSET [hardBounce : BOOLEAN, complaint : BOOLEAN]
    /\ MaxTopic \in Nat
    /\ MaxRequests \in Nat
    /\ MaxFaults \in Nat

VARIABLES
    rowRef,       \* campaign_recipients.provider_message_id, per address
    txLog,        \* transactional_messages
    topic,        \* the stream: event ids in the order they were written
    notice,       \* what each event id says: its type and its mail
    offset,       \* the committed offset of the consumer
    consumer,     \* the consumer process and the position it is at
    inbound,      \* inbound_feedback_events.status, "none" if not staged
    jobs,         \* waiting feedback.process jobs, per event id
    worker,       \* what each worker is doing
    events,       \* event ids that have a delivery_events row
    suppression,  \* suppression_list: the reason per address, or "none"
    settings,     \* bounce_settings
    operator,     \* what each request is doing
    audit,        \* audit_log entries
    requests,     \* requests so far (bounded)
    faults,       \* faults so far (bounded)
    decided,      \* history: events whose suppression was decided
    dropped,      \* history: events whose job failed after RecordEvent
    early,        \* history: events written before their send was recorded
    replaced      \* history: mails whose row was overwritten by a later copy

sends == <<rowRef, txLog>>
stream == <<topic, notice, offset, consumer>>
staged == <<inbound, jobs, worker, events>>
history == <<decided, dropped, early, replaced>>
lists == <<suppression, settings, operator, audit, requests>>
vars == <<sends, stream, staged, lists, faults, history>>

-----------------------------------------------------------------------------
(* Data.                                                                   *)

EventKinds == {"bounce", "complaint", "delivery"}
InboundStatuses == {"none", "pending", "attributed", "unattributed"}
IsProcessed(status) == status \in {"attributed", "unattributed"}

(* NotificationParser.Parse: Open and Click are as Delivery.               *)
Recognized(raw) == raw \in {"Bounce", "Complaint", "Delivery"}
Parsed(raw) == CASE raw = "Bounce" -> "bounce" [] raw = "Complaint" -> "complaint"
                 [] OTHER -> "delivery"
KindOf(e) == Parsed(notice[e].kind)
Target(e) == notice[e].mail.to

(* DeliveryEvent.SuppressionReason.                                        *)
Drives(kind) == kind \in {"bounce", "complaint"}
Reason(kind) == IF kind = "bounce" THEN "hard_bounce" ELSE "complaint"
SuppressionReasons == {"none", "hard_bounce", "complaint", "manual"}

BounceSettings == [hardBounce : BOOLEAN, complaint : BOOLEAN]
DefaultBounceSettings == [hardBounce |-> TRUE, complaint |-> TRUE]
ShouldSuppress(kind) ==
    IF kind = "bounce" THEN settings.hardBounce ELSE settings.complaint

Notices == [kind : Kinds \cup {"none"}, mail : Mails \cup {NoMail}]
NoNotice == [kind |-> "none", mail |-> NoMail]

Consumers == [pc : {"read", "stage", "enqueue", "commit"}, at : Nat]
WorkerStates ==
    [pc : {"idle", "attribute", "record", "settings", "upsert", "mark"},
     event : EventIds \cup {NoEvent}, status : InboundStatuses]
IdleWorker == [pc |-> "idle", event |-> NoEvent, status |-> "none"]
OperatorStates ==
    [pc : {"idle", "audit"}, op : AllOperations, address : Addresses \cup {Nobody}]
IdleOperator == [pc |-> "idle", op |-> "add", address |-> Nobody]
AuditEntries == [op : AllOperations, address : Addresses \cup {Nobody}]

-----------------------------------------------------------------------------
(* Queries.                                                                *)

AttributableRows(m) == m.via = "campaign" /\ rowRef[m.to] = m

(* MarkSent has stored the mail's id in its recipient's row, or            *)
(* TransactionalMessages.Record has logged it: feedback_tenant_for_message *)
(* and Events.Attribute look there.                                        *)
Attributable(m) ==
    \/ m.via = "campaign" /\ rowRef[m.to] = m
    \/ m \in txLog

Recorded(m) == rowRef[m.to] = m \/ m \in txLog

-----------------------------------------------------------------------------
Init ==
    /\ rowRef = [a \in Addresses |-> NoMail]
    /\ txLog = {}
    /\ topic = <<>>
    /\ notice = [e \in EventIds |-> NoNotice]
    /\ offset = 0
    /\ consumer = [pc |-> "read", at |-> 1]
    /\ inbound = [e \in EventIds |-> "none"]
    /\ jobs = [e \in EventIds |-> 0]
    /\ worker = [w \in Workers |-> IdleWorker]
    /\ events = {}
    /\ suppression = [a \in Addresses |-> "none"]
    /\ settings = DefaultBounceSettings
    /\ operator = [o \in Operators |-> IdleOperator]
    /\ audit = {}
    /\ requests = 0
    /\ faults = 0
    /\ decided = {}
    /\ dropped = {}
    /\ early = {}
    /\ replaced = {}

-----------------------------------------------------------------------------
(* The send paths and the provider.                                        *)

(* BatchWorker.persist: Recipients.MarkSent overwrites the message id.     *)
MarkSent(m) ==
    /\ m.via = "campaign"
    /\ rowRef[m.to] # m
    /\ m \notin replaced
    /\ rowRef' = [rowRef EXCEPT ![m.to] = m]
    /\ replaced' = replaced \cup ({rowRef[m.to]} \ {NoMail})
    /\ UNCHANGED <<txLog, stream, staged, lists, faults, decided,
                   dropped, early>>

(* TransactionalMessages.Record.                                           *)
RecordMessage(m) ==
    /\ m.via = "transactional"
    /\ m \notin txLog
    /\ txLog' = txLog \cup {m}
    /\ UNCHANGED <<rowRef, stream, staged, lists, faults, history>>

(* The provider writes a notification about a mail; an event id that was   *)
(* written before is repeated as it was.                                   *)
Publish(e, kind, m) ==
    /\ Len(topic) < MaxTopic
    /\ notice[e] \in {NoNotice, [kind |-> kind, mail |-> m]}
    /\ notice' = [notice EXCEPT ![e] = [kind |-> kind, mail |-> m]]
    /\ topic' = Append(topic, e)
    /\ early' = IF Recorded(m) THEN early ELSE early \cup {e}
    /\ UNCHANGED <<sends, offset, consumer, staged, lists, faults, decided,
                   dropped, replaced>>

-----------------------------------------------------------------------------
(* cmd/consumer.                                                           *)

Moves(pc) == consumer' = [consumer EXCEPT !.pc = pc]

(* Reader.Read and Parse: what is malformed or of no interest is skipped.  *)
Read ==
    /\ consumer.pc = "read"
    /\ consumer.at <= Len(topic)
    /\ Moves(IF Recognized(notice[topic[consumer.at]].kind) THEN "stage" ELSE "commit")
    /\ UNCHANGED <<sends, topic, notice, offset, staged, lists, faults, history>>

(* Events.StageInbound: a duplicate inserts nothing.                       *)
StageInbound ==
    LET e == topic[consumer.at]
    IN  /\ consumer.pc = "stage"
        /\ inbound' = IF inbound[e] = "none"
                      THEN [inbound EXCEPT ![e] = "pending"] ELSE inbound
        /\ Moves("enqueue")
        /\ UNCHANGED <<sends, topic, notice, offset, jobs, worker, events,
                       lists, faults, history>>

(* SendEnqueuer.EnqueueFeedbackProcess: also for a duplicate.              *)
EnqueueFeedbackProcess ==
    LET e == topic[consumer.at]
    IN  /\ consumer.pc = "enqueue"
        /\ jobs' = [jobs EXCEPT ![e] = @ + 1]
        /\ Moves("commit")
        /\ UNCHANGED <<sends, topic, notice, offset, inbound, worker, events,
                       lists, faults, history>>

(* Reader.Commit.                                                          *)
Commit ==
    /\ consumer.pc = "commit"
    /\ offset' = consumer.at
    /\ consumer' = [pc |-> "read", at |-> consumer.at + 1]
    /\ UNCHANGED <<sends, topic, notice, staged, lists, faults, history>>

RestartAfterRead ==
    /\ faults < MaxFaults
    /\ faults' = faults + 1
    /\ consumer.pc # "read"
    /\ consumer' = [pc |-> "read", at |-> consumer.at + 1]
    /\ UNCHANGED <<sends, topic, notice, offset, staged, lists, history>>

(* Any error but a malformed notification ends the process; a restart      *)
(* resumes after the committed offset.                                     *)
Restart ==
    /\ faults < MaxFaults
    /\ faults' = faults + 1
    /\ consumer.pc # "read"
    /\ consumer' = [pc |-> "read", at |-> offset + 1]
    /\ UNCHANGED <<sends, topic, notice, offset, staged, lists, history>>


Consume == Read \/ StageInbound \/ EnqueueFeedbackProcess \/ Commit

-----------------------------------------------------------------------------
(* feedback.process: ProcessFeedbackHandler.Handle.                        *)

Goes(w, pc) == worker' = [worker EXCEPT ![w].pc = pc]
Finishes(w) == worker' = [worker EXCEPT ![w] = IdleWorker]

(* LoadInbound finds it processed: an idempotent no-op, the job is done.   *)
SkipProcessed(w, e) ==
    /\ worker[w].pc = "idle"
    /\ jobs[e] > 0
    /\ IsProcessed(inbound[e])
    /\ jobs' = [jobs EXCEPT ![e] = @ - 1]
    /\ UNCHANGED <<sends, stream, inbound, worker, events, lists, faults, history>>

(* LoadInbound.                                                            *)
BeginProcess(w, e) ==
    /\ worker[w].pc = "idle"
    /\ jobs[e] > 0
    /\ ~IsProcessed(inbound[e])
    /\ jobs' = [jobs EXCEPT ![e] = @ - 1]
    /\ worker' = [worker EXCEPT ![w] = [pc |-> "attribute", event |-> e, status |-> "none"]]
    /\ UNCHANGED <<sends, stream, inbound, events, lists, faults, history>>

(* TenantForMessage and Attribute; markUnattributed when they find nothing. *)
Attribute(w) ==
    LET found == Attributable(notice[worker[w].event].mail)
    IN  /\ worker[w].pc = "attribute"
        /\ worker' = [worker EXCEPT
               ![w].pc = IF found THEN "record" ELSE "mark",
               ![w].status = IF found THEN "attributed" ELSE "unattributed"]
        /\ UNCHANGED <<sends, stream, inbound, jobs, events, lists, faults, history>>

RecordedTwice(w) ==
    LET e == worker[w].event
    IN  /\ worker[w].pc = "record"
        /\ events' = events \cup {e}
        /\ Goes(w, IF e \in events /\ Drives(KindOf(e)) THEN "settings" ELSE "mark")
        /\ UNCHANGED <<sends, stream, inbound, jobs, lists, faults, history>>

(* Events.RecordEvent: ON CONFLICT (inbound_event_id) DO NOTHING.  Only    *)
(* the job that has inserted the row goes on to the Suppressor.            *)
RecordEvent(w) ==
    LET e == worker[w].event
    IN  /\ worker[w].pc = "record"
        /\ events' = events \cup {e}
        /\ Goes(w, IF e \notin events /\ Drives(KindOf(e)) THEN "settings" ELSE "mark")
        /\ UNCHANGED <<sends, stream, inbound, jobs, lists, faults, history>>

(* SuppressionApplier.Apply reads the settings ...                         *)
ReadSettings(w) ==
    LET e == worker[w].event
        suppress == ShouldSuppress(KindOf(e))
    IN  /\ worker[w].pc = "settings"
        /\ Goes(w, IF suppress THEN "upsert" ELSE "mark")
        /\ decided' = IF suppress THEN decided ELSE decided \cup {e}
        /\ UNCHANGED <<sends, stream, inbound, jobs, events, lists, faults,
                       dropped, early, replaced>>

(* Suppressions.Upsert: ON CONFLICT DO NOTHING.                            *)
Upserted(address, reason) ==
    IF suppression[address] = "none"
    THEN [suppression EXCEPT ![address] = reason] ELSE suppression

(* ... and adds the address.                                               *)
Suppress(w) ==
    LET e == worker[w].event
    IN  /\ worker[w].pc = "upsert"
        /\ suppression' = Upserted(Target(e), Reason(KindOf(e)))
        /\ decided' = decided \cup {e}
        /\ Goes(w, "mark")
        /\ UNCHANGED <<sends, stream, inbound, jobs, events, settings, operator,
                       audit, requests, faults, dropped, early,
                       replaced>>

(* Events.MarkInbound, whatever the status is by now; the job is done.     *)
MarkInbound(w) ==
    LET e == worker[w].event
    IN  /\ worker[w].pc = "mark"
        /\ inbound' = [inbound EXCEPT ![e] = worker[w].status]
        /\ Finishes(w)
        /\ UNCHANGED <<sends, stream, jobs, events, lists, faults, history>>

(* An error or a crash: River runs the job again.                          *)
JobFails(w) ==
    LET e == worker[w].event
    IN  /\ worker[w].pc # "idle"
        /\ faults < MaxFaults
        /\ faults' = faults + 1
        /\ jobs' = [jobs EXCEPT ![e] = @ + 1]
        /\ Finishes(w)
        /\ dropped' = IF worker[w].pc \in {"settings", "upsert"}
                      THEN dropped \cup {e} ELSE dropped
        /\ UNCHANGED <<sends, stream, inbound, events, lists, decided, early,
                       replaced>>

Work(w) ==
    \/ Attribute(w) \/ RecordEvent(w) \/ ReadSettings(w) \/ Suppress(w) \/ MarkInbound(w)

-----------------------------------------------------------------------------
(* Operators: the change, then its audit entry in another transaction.     *)

Changed(o, op, a) ==
    /\ operator[o].pc = "idle"
    /\ op \in Operations
    /\ requests < MaxRequests
    /\ requests' = requests + 1
    /\ operator' = [operator EXCEPT ![o] = [pc |-> "audit", op |-> op, address |-> a]]

(* AddSuppressionHandler: idempotent.                                      *)
AddSuppression(o, a) ==
    /\ Changed(o, "add", a)
    /\ suppression' = Upserted(a, "manual")
    /\ UNCHANGED <<sends, stream, staged, settings, audit, faults, history>>

(* RemoveSuppressionHandler: ErrSuppressionNotFound ends the request.      *)
RemoveSuppression(o, a) ==
    /\ suppression[a] # "none"
    /\ Changed(o, "remove", a)
    /\ suppression' = [suppression EXCEPT ![a] = "none"]
    /\ UNCHANGED <<sends, stream, staged, settings, audit, faults, history>>

(* UpdateBounceSettingsHandler: Settings.Put.                              *)
UpdateBounceSettings(o, s) ==
    /\ Changed(o, "settings", Nobody)
    /\ settings' = s
    /\ UNCHANGED <<sends, stream, staged, suppression, audit, faults, history>>

(* AuditLog.Record.                                                        *)
RecordAudit(o) ==
    /\ operator[o].pc = "audit"
    /\ audit' = audit \cup {[op |-> operator[o].op, address |-> operator[o].address]}
    /\ operator' = [operator EXCEPT ![o] = IdleOperator]
    /\ UNCHANGED <<sends, stream, staged, suppression, settings,
                   requests, faults, history>>

(* Record fails or the process dies: the change stands.                    *)
RequestFails(o) ==
    /\ operator[o].pc = "audit"
    /\ faults < MaxFaults
    /\ faults' = faults + 1
    /\ operator' = [operator EXCEPT ![o] = IdleOperator]
    /\ UNCHANGED <<sends, stream, staged, suppression, settings, audit,
                   requests, decided, dropped, early, replaced>>

Next ==
    \/ \E m \in Mails : MarkSent(m) \/ RecordMessage(m)
    \/ \E e \in EventIds, kind \in Kinds, m \in Mails : Publish(e, kind, m)
    \/ Consume \/ Restart
    \/ \E w \in Workers, e \in EventIds : SkipProcessed(w, e) \/ BeginProcess(w, e)
    \/ \E w \in Workers : Work(w) \/ JobFails(w)
    \/ \E o \in Operators, a \in Addresses : AddSuppression(o, a) \/ RemoveSuppression(o, a)
    \/ \E o \in Operators, s \in Choices : UpdateBounceSettings(o, s)
    \/ \E o \in Operators : RecordAudit(o) \/ RequestFails(o)

Spec == Init /\ [][Next]_vars

-----------------------------------------------------------------------------
(* Properties.                                                             *)

TypeOK ==
    /\ rowRef \in [Addresses -> Mails \cup {NoMail}]
    /\ txLog \in SUBSET Mails
    /\ topic \in Seq(EventIds)
    /\ notice \in [EventIds -> Notices]
    /\ offset \in Nat
    /\ consumer \in Consumers
    /\ inbound \in [EventIds -> InboundStatuses]
    /\ jobs \in [EventIds -> Nat]
    /\ worker \in [Workers -> WorkerStates]
    /\ events \in SUBSET EventIds
    /\ suppression \in [Addresses -> SuppressionReasons]
    /\ settings \in BounceSettings
    /\ operator \in [Operators -> OperatorStates]
    /\ audit \in SUBSET AuditEntries
    /\ requests \in Nat
    /\ faults \in Nat
    /\ decided \in SUBSET EventIds
    /\ dropped \in SUBSET EventIds
    /\ early \in SUBSET EventIds
    /\ replaced \in SUBSET Mails

Busy(e) == \E w \in Workers : worker[w].pc # "idle" /\ worker[w].event = e

(* No notification is lost: one that the committed offset is past has been *)
(* processed or still has a job that waits or runs (cmd/consumer commits   *)
(* only after staging and enqueuing, whatever crashes).                    *)
CommittedIsCovered ==
    \A i \in 1 .. offset :
        LET e == topic[i]
        IN  Recognized(notice[e].kind) =>
                IsProcessed(inbound[e]) \/ jobs[e] > 0 \/ Busy(e)

(* InboundAttributed means that a bounce or complaint was recorded and its *)
(* suppression decided (applied, or waived by the settings): by the job    *)
(* that recorded it, which may still be at it while a second job of the    *)
(* same event marks it, unless that job failed in between.                 *)
AttributedIsDecided ==
    \A e \in EventIds :
        inbound[e] = "attributed" =>
            /\ e \in events
            /\ Drives(KindOf(e)) =>
                \/ e \in decided \cup dropped
                \/ \E w \in Workers : worker[w].event = e /\ worker[w].pc \in {"settings", "upsert"}

(* Feedback on a send that was recorded before the provider reported on it *)
(* is never given up as unattributed, unless the recipient was mailed again *)
(* and its row now names the later mail.                                   *)
RecordedSendIsAttributed ==
    \A e \in EventIds :
        inbound[e] = "unattributed" => e \in early \/ notice[e].mail \in replaced
=============================================================================
