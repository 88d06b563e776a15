# nvelope in TLA+

nvelope is a multi-tenant e-mail marketing service. Its Go back end runs as five
processes over one Postgres database:

| process | what it runs |
| --- | --- |
| `cmd/api` | HTTP handlers: commands and queries of every bounded context |
| `cmd/worker` | River workers: campaign send, feedback, billing, import and export, opt-in mail, domain verification, analytics |
| `cmd/scheduler` | tickers that enqueue sweeps: billing, usage rollup, analytics, domain verification, token clean-up |
| `cmd/consumer` | reads the provider's feedback stream into Postgres |
| `cmd/migrate` | schema migrations |

They share no memory. They meet in Postgres rows, in the River job table, in a
Redis rate limiter, at the Postbox mail provider, in an S3 bucket and at a payment
gateway. Three facts about that meeting shape every module here:

- *A repository call is a transaction of its own* (`platform/tenantdb/tenantdb.go`,
  READ COMMITTED). A use case that makes five calls is five atomic steps, with any
  step of any other process in between, and may die after each of them.
- *A job is delivered at least once.* River runs a job again when its worker
  returns an error or dies, and many workers run jobs at the same time.
- *The outside world is not transactional.* Mail is accepted, money is taken and
  objects are stored before anything about it is written down.

The models have exactly this granularity: one action per repository call or
outside call, a process's local state carrying what it read into its next action.
Where a transaction itself reads what other transactions change (a DELETE that sees
only committed rows, the two statements of a rollup, a read that is written back),
its statements are actions too.

## 1. Inventory

### Components with protocol state

| component | state | operations | interacts with | module |
| --- | --- | --- | --- | --- |
| **campaign send** (`internal/campaign`) | campaign row, recipient rows, campaign jobs | edit, archive, start, pause, resume, cancel; start job, batch job | audience (targets), quota gate, usage recorder, limiter, suppression, mail provider, River | `CampaignSend` |
| **content** (`internal/campaign`) | bodies and documents of templates and campaigns | create, edit as code, visual save, opt out, copy, delete | open editors, starting a campaign | `Content` |
| **merge tags** (`campaign/visualrender`, `sending/domain`) | placeholders of a body, field registry, recipient's attributes | validate, convert, substitute | fields, visual save, batch worker | `MergeTags` |
| **billing** (`internal/billing`) | subscription, invoices, payment attempts, charge job | subscribe, settle, cancel, sweep, charge | payment gateway, scheduler, River | `Billing` |
| **usage and quota** (`internal/billing`) | usage events, usage counters | record, rollup, current usage, authorize | campaign send, transactional send, subscription, scheduler | `Usage` |
| **transactional send** (`campaign/app/command/transactional.go`) | message log | send | quota gate, limiter, suppression, mail provider, usage recorder | `Usage`, `Feedback` |
| **rate limiter** (`platform/ratelimit`) | two sorted sets in Redis | allow | both send paths | `RateLimiter` |
| **deliverability** (`internal/deliverability`, `cmd/consumer`) | stream offset, inbound events, delivery events, suppression list, settings | ingest, process, suppress, unsuppress, settings | provider's stream, recipient rows, message log | `Feedback` |
| **audience** (`internal/audience`) | subscribers, lists, memberships, pending subscriptions, page | CRUD, attach and detach, public subscribe, confirm, resend, unsubscribe, preferences | opt-in mail job, suppression, send (targets) | `Audience` |
| **import and export** (`audience/adapters/*_worker.go`) | import and export jobs, staged files | request, run | subscribers, memberships, River | `Audience` |
| **segments** (`audience/domain/segment.go`, `adapters/segment_sql.go`) | none; a query in progress | count, view, roster of a campaign | subscribers that change meanwhile | `Segments` |
| **custom fields** (`audience/app/command/fields.go`) | field registry and its order | create, patch, delete, reorder | merge tags | `SubscriberFields` |
| **authentication** (`internal/auth`) | users, sessions, verification tokens | sign up, verify, resend, log in and out, clean up | verification mail job, resend throttle | `Accounts` |
| **tenants and invitations** (`internal/tenant`, `internal/service/onboarding.go`) | tenants, memberships, invitations | create, invite, accept, revoke, settings | authentication | `Accounts` |
| **identity and access** (`internal/iam`) | roles, assignments, API keys, workspace sessions, TOTP, recovery codes | CRUD, assign, revoke, challenge | every API request | `Access` |
| **sending domains** (`internal/sending`) | domains and their status | add, recheck; verify job, recovery sweep | Postbox identities, River, scheduler | `DomainVerification` |
| **media** (`internal/media`) | asset rows, objects in S3 | upload, delete | S3 | `MediaLibrary` |
| **job queue** (River on Postgres) | job rows | insert (also unique by arguments), run, retry, snooze | all of the above | with each kind of job |
| **scheduler** (`cmd/scheduler`) | none | tick | River | with each tick |

### Components without protocol state of their own

Rendering and sanitising (`campaign/visualrender`) transform documents. Tracking,
archive and RSS append counters and read. Analytics recomputes aggregates. The HTTP
layer parses, authorises and calls one use case per route. Service wiring,
configuration, logging and health construct and report. The web front end is a
user interface over the HTTP API.

### What is hard, and what makes each component correct

| component | hard behaviour | correct when |
| --- | --- | --- |
| campaign send | `Campaigns.Update` reads the row unlocked and writes every column back; `syncProgress` counts in one transaction and writes in another; batches are windows over a table that changes; a job dies or is throttled anywhere in its loop; the provider's answer gets lost | nobody is forgotten; records and bill match the mail; auto-pause holds; no mail to suppressed addresses; no duplicates but where redelivery makes them; the queue drains |
| content | every write reads the row unlocked and writes all of it; the freshness gate compares a stamp that the editor may have been given by a later read | a save never overwrites content its editor has not been shown |
| merge tags | a body is validated against a registry that changes before it is mailed; conversion and code edits let placeholders past the validation | a tag that was checked resolves, unless its field is deleted |
| billing | the gateway call sits between transactions; guard, attempt number and record are three transactions; invoice and subscription are written one after the other; sweeps list what has changed by the time the job runs | service only for paid periods; periods billed once, in order; an invoice charged once; dunning ends |
| usage and quota | recording, rollup and gate race one another; the gate checks before the send, the meter runs after it; the period moves on in between | usage never overstated nor dropped; the allowance holds; a refused campaign has mailed nobody |
| deliverability | offsets, staging, processing and suppression commit separately; feedback may overtake the record of its send | no notification is lost; feedback on a recorded send is attributed; an attributed bounce is decided |
| rate limiter | the script is atomic, the callers' clocks are not Redis's; keys expire as a whole | never more than the limit in a window, less skew and lag |
| audience | confirmation touches suppression list, subscriber, memberships and pending row apart; unsubscribe races it; an export pages over a table that changes | nobody is confirmed without consent; the suppressed stay out; a job accounts for its rows |
| segments | conditions are translated to SQL over JSON text, in three-valued logic; pages of a roster are transactions of their own | the query selects whom its tree describes |
| custom fields | a patch writes back the position it read before a reorder | an order that was given lasts |
| authentication | verify and consume are two writes; overlapping resends do not see each other's rows; the mail job is enqueued after the commit | a used link has verified its account; a valid link is mailed |
| tenants | accept races revoke and accept | an invitation lets in one person |
| identity and access | the Owner bootstrap looks the role up and creates it; challenge and session are two writes | one Owner by bootstrap; a recovery code opens one session |
| sending domains | the provider is asked outside the transaction; rechecks add pollers; the poll snoozes itself; a job may be lost | every domain is decided, for good |
| media | row and object are written apart; a commit may succeed and report an error | a listed asset has its object |

`PROJECT.json` lists the hazards at their lines.

## 2. Plan

| order | module | state |
| --- | --- | --- |
| 1 | `CampaignSend`, with `SendLedger` | checked, proved, refinement proved |
| 2 | `Billing`, with `PaidService` | checked, proved, refinement proved |
| 3 | `Usage`: metering, rollup, quota, transactional send; composes the subscription, a coarse campaign and the meter | checked, proved |
| 4 | `Feedback` | checked, proved |
| 5 | `Audience` | checked, proved |
| 6 | `Accounts`, `Access` | checked, proved |
| 7 | `RateLimiter`, `MediaLibrary`, `DomainVerification` | checked and proved; that every domain settles is liveness |
| 8 | `Content`, `SubscriberFields`, `Segments`, `MergeTags` | checked, proved |
| 9 | the invariant of an undisturbed send, the invariant of the allowance | proved |

Every safety property that a run checks is proved. What is left is liveness, which stays
with TLC.

`MCPlatform` and `MCScheduler` put components that share no step into one instance
each, so that they are explored side by side without multiplying their states: a
behaviour moves one of them. That is sound for properties of single components, which
is what those runs check; components that do share steps are composed in one module
(the subscription, the campaign and the meter in `Usage`; the send paths, the consumer
and the suppression list in `Feedback`; form, operators, import and export in `Audience`;
accounts and invitations in `Accounts`).

No module has a RECURSIVE operator: what is recursive (condition trees, documents) is
written with recursive functions over the trees and levels that a constant gives. The sets of workers,
requests, recipients, people, assets, tenants are constants, so the theorems hold for
any number of them.

## 3. The modules

`MC*.tla` hold the instances of the runs: symmetry, and the enumerations given to
constants. `*Proofs.tla` hold the theorems.

### CampaignSend

State: `campaign` (status and counters of the campaign row), `row` (status of each
recipient row), `audience`, `suppressed`, `queue` (copies of each job), `worker`
and `handler` (local state of each goroutine and request), `delivered` and `metered`
(what the provider accepted, what is billed). `roster`, `starts`, `resumed` and
`shielded` are history variables: no guard reads them.

| code | actions |
| --- | --- |
| commands (`app/command/campaigns.go`, `set_archive_visibility.go`) | `Request` (checks and the read half of Update), `Commit` (closure and write half), `SaveTargets`, `EnqueueStart`, `RequestFails` |
| `StartWorker.Work` | `BeginStart` (load, resolve, authorize), `BulkInsert`, `Count`, `UpdateRead`, `UpdateWrite`, `EnqueueBatch` per window |
| `BatchWorker.Work` | `BeginBatch` (load, select, suppression), `SkipRecipient`, `Send`, `Mark`, `Throttle`, `RecordUsage`, then `Count`, `UpdateRead`, `UpdateWrite` for `syncProgress` |
| errors the code drops | `SkipLost`, `MarkLost`, `UsageLost` |
| River | `SkipJob` (campaign not running), `JobDone` (complete or snooze), `JobFails` (error or crash at any point) |
| other components | `Join`, `Suppress` |

Recipients are numbered in the order of their row ids, which are random: which
numbers are in the audience at first is a parameter, so a late joiner can land
anywhere in a window. `SendLedger` is the abstract specification, instantiated with
`outcome <- row, mailed <- Mailed, billed <- metered`.

### Billing

State: `sub`, `invoice`, `attempts` and `gateway` (the answer stored under each
idempotency key; the mock gateway repeats it), `actor` (each request and the worker),
`job`, `listed`, `now`; `disturbed` is history: two charges overlapped or an answer was
lost. Subscribe, settle and the charge job share the steps of
`ChargeInvoiceHandler`: `LoadSubscription`, `FoundOpen`, `FoundNoneOpen`,
`CancelAtPeriodEnd`, `RenewalInvoice`, `GuardPaid`, `NumberAttempt`, `Charge`,
`RecordAttempt`, then `SettleInvoice` and `ActivateSubscription`, or `DunInvoice`
and `DemoteSubscription`. `ListDue` and `EnqueueCharge` are the sweep, `Crash` may
hit an actor at any step, `Tick` ends a period. `Update` locks its row here
(`FOR UPDATE`), so it is one action, unlike the campaign's.

`PaidService` is the abstract specification: for each period a bill, then a charge, then
its settlement, then service, none of the first three ever taken back. `Billing`
instantiates it with `Billed`, `Charged`, `Paid` (sets of periods, read off the invoices and
the gateway), `Served` (the period of an active subscription) and `now`.

### Usage

State: `sub` (as much of the subscription as the gate and the recorder can tell
apart), `campaign` and `start` (campaigns at the grain of their jobs), `send` (how far
each recipient or message is), `seen` (the subscription a gate or recorder has read),
`event`, `counter`, `rollup`. `sentIn`, `refused`, `restarted` and `overlapped` are
history, and so is the difference between a counted and a missed event: both rows
have `rolled_up_at` set.

| code | actions |
| --- | --- |
| `QuotaGate.Authorize` | its two reads: `BeginStart` then `RefuseCampaign` or `FanOut`; `RequestMessage` then `AuthorizeMessage` |
| `UsageRecorder.Record` | `RecordUsage` (the subscription), `RecordEvents` (the insert), `UsageLost` (crash, or dropped error) |
| `Usage.Rollup` | `SumEvents` (the SELECT), `CommitRollup` (upserts, stamps and commit, invisible until then), `RollupFails` |
| sends | `SendBatch`, `SkipBatch`, `SendMessage`, `SendRejected` |
| commands, subscription | `StartCampaign`, `PauseCampaign`, `ResumeCampaign`, `Subscription` |

`CurrentUsage` is one statement in the code and one expression here. `Usage` sees a
campaign coarser than `CampaignSend` does (the start job's inner steps and whole-row
writes are there) and the subscription coarser than `Billing` (its moves are an
input: activation in this period or the next, suspension, cancellation).

### Feedback

State: the stream (`topic`, what each event says in `notice`), the consumer with its
committed `offset`, `inbound` (staged events and their status), `jobs`, `worker`,
`events` (delivery events), `suppression`, `settings`, `operator`, `audit`; of the send
paths `rowRef` (a recipient row holds the id of its last mail only) and `txLog`.
`decided`, `dropped`, `early` and `replaced` are history. `Consume` is `Read`,
`StageInbound`, `EnqueueFeedbackProcess`, `Commit`; `Work` is `Attribute`, `RecordEvent`,
`ReadSettings`, `Suppress`, `MarkInbound`; operators add and remove suppressions and
choose settings, each followed by its audit entry. `Restart` and `JobFails` may come
anywhere. `Publish` gives an event id once or repeatedly, in any order with the record
of its mail.

### Audience

State: the tables (`subs`, `member`, `lists`, `page`, `pending`, `suppressed`), the
opt-in jobs and the links in mailboxes, `request` (what each concurrent request is
doing), the import and export rows with their jobs and workers. `asked` is the history
of who asked for a membership, `handled` and `promised` that of the jobs.
`SubmitPublicSubscription`, `ConfirmSubscription`, `UpdatePreferences`,
`PublicUnsubscribe` and the operators' commands each go through the steps of their
handler; one transaction may fall between any two of another's.

### Accounts and Access

`Accounts`: `account`, `verification`, `mailJobs`, `mailbox`, `session`, and of one
workspace `memberRole` and `invitation`; `call` is what each request is doing. A
resend is two statements (`ClearPending` sees the committed rows only,
`InsertVerification` deletes what was seen), verification two transactions
(`MarkEmailVerified`, `ConsumeVerification`), accepting a lookup and one transaction.

`Access`: users with TOTP and recovery codes, workspace sessions, roles, assignments,
API keys. Entering a workspace is `OpenWorkspaceSession`, `LookForOwner`,
`CreateOwnerRole`, `AssignOwnerRole`, `ReloadUser`, `AddSession`; the challenge is
`VerifyTOTPChallenge`, `Consume`, `ReadPending`, `WriteActive`. A guarded request is
authorised first and performed later.

### RateLimiter, MediaLibrary, DomainVerification

`RateLimiter`: `ReadClock` on the pod, `SlidingWindow` (the whole script) some time
later, `Tick` with the expiry of keys. Clocks differ by up to `MaxSkew` and a call takes
up to `MaxLag`; both are parameters.

`MediaLibrary`: `PutObject`, `AddAsset`, `AddAssetFails` (which may have committed),
`CleanObject`, and the reverse order for a deletion; any step may be the last.

`DomainVerification`: `AddDomain` and `EnqueueVerify`, `RecheckDomain`,
`SweepPendingDomains`; a poll is `CheckIdentity` (the provider), `ReadDomain`,
`WriteDomain`, then a snooze or the end.

### Content, SubscriberFields, Segments, MergeTags

`Content`: `stored` (status, body, document and `updated_at` of each row), `editor` (what
an operator's open editor shows), `edit` (the request: read, write, re-read). A version
number stands for a body.

`SubscriberFields`: `position` of each field and `fieldRequest`; `ordered` and `putBack`
are history.

`Segments`: condition trees are data (`Attr`, `Field`, `Member`, `Leaf`, `Group`); `Trees`
is any set of them that has the parts of its members, and `Height` says that they are
finite. `Valid` is the validation, `Truths` the values Postgres may give to the translated
tree on a row, `Describes` the reference the property compares it with: both are
functions on `Trees`, recursive over the children. Values are the few that the conversions
between Go, JSON and SQL tell apart. Subscribers are numbered as `ORDER BY created_at
DESC` puts them, so that a page is the chosen of certain ranks (`Rank`); `found` says how
often each was read. The roster pages by offset while `ChangeSubscriber` acts.

`MergeTags`: documents are data (`Prose`, `Container`, `Opaque`, with `Chip` and `Typed`
inlines), nested up to `MaxDepth`; `Within` is every block of a document at any depth.
`ValidDocument` is the validation, `Conversions` what `Convert` may return, `Substituted`
the substitution.

## 4. The runs

| run | what it shows | instance | states |
| --- | --- | --- | --- |
| `campaign_operators` | auto-pause, completion, counters and "mailed once" survive two racing workers and an operator | 3 addresses, batches of 2, 2 workers, 3 requests (start, pause, resume, cancel), no faults | 1.3 M |
| `campaign_faults` | records, bill, suppression and the ledger survive crashes and dropped errors | 2 addresses, batches of 1, 2 workers, 2 requests, 1 fault, a late joiner, a suppression | 3.4 M |
| `campaign_progress` | every recipient is dealt with, the queue drains | 2 addresses, 2 workers, 1 crash | 63 k |
| `campaign_resume` | *disagreement*: a resumed campaign forgets its last recipients | 2 addresses, suppressions, pause and resume | |
| `billing_safety` | service, charging and order of bills survive overlaps and crashes; `PaidService` is implemented | 3 periods, 2 dunning attempts, 3 tries, 2 requests, 1 fault | 1.7 M |
| `billing_double_charge` | *disagreement*: two keys approved for one invoice | 1 period, 2 overlapping requests | |
| `usage_safety` | usage bounded by mail and growing, allowance, refusal before mail | a campaign of 2, 1 message, allowance 2, 2 periods, 1 resume, 1 fault | 3.0 M |
| `usage_rollup` | *disagreement*: a stamp without a count | one send and one rollup that overlap | |
| `feedback_safety` | no notification is lost, feedback on recorded sends is attributed, attributed bounces are decided | 2 events, one address mailed twice by a campaign, 2 workers, 1 operator, 1 fault | 3.0 M |
| `audience_safety` | consent, suppression, imports that only add and account for every row, exports that miss nobody | 2 addresses, 1 list, any 3 requests two at a time, an import and an export, 1 fault | 1.0 M |
| `platform_safety` | the eleven properties of the eight components of `MCPlatform` | see below | 2.2 M |
| `scheduler_progress` | dunning ends, renewals happen, every domain is decided | 2 periods, 1 request; 1 domain, 1 recheck, 2 faults | 36 k |

Why these bounds are enough to be interesting: two workers and two windows make
every pair of jobs race, and the third address gives a window of two and a window of
one, so that a window's rows differ in status and the last one is partial. Three
requests are start, pause and resume, or two of a kind that overlap. One fault
reaches every single crash point and lost answer; properties that need two are out of
the instance and are covered by the theorems, which do not bound faults. `MaxTries`
exceeds `MaxAttempts`, so dunning can exhaust while a settle is still trying. A
campaign of two and a message against an allowance of two make each of them fit alone
and not together, and two periods let every step straddle a renewal.

For `platform_safety`: two people, three links and four calls (a sign-up, two resends
that overlap and a verification; an invitation accepted twice at once, with a
revocation); two members, two roles, a key, two batches of recovery codes and three
guarded requests two at a time; two pods whose clocks differ by one, a lag of one,
windows of four and five and time for a window and a half, in which the bound of
`RateHolds` is reached exactly; two assets and two deletions with two faults; three
fields and six requests; a template, a campaign, two editors and three versions; two
subscribers, pages of one and one change, over nearly thirty trees of every operator and two
levels; a dozen documents and bodies with known, custom and unknown tags as chips and as
text, at the top, in containers within containers (`MaxDepth = 2`) and in opaque blocks.
Every bound on a counter is a guard named `Max...` in the module.

The systems may stop: no more requests come, a bound is reached. So deadlock is not
checked; that they stop only when nothing is left to do is `QueueDrains`.

Symmetry is used in safety runs only: over workers, handlers, callers and requests,
which the modules never order.

### Fairness

`CampaignSend!Fairness`: a request that has begun goes on and a worker that has
begun a job goes on (weak fairness: they are goroutines with nothing to wait for);
River gives every waiting job a worker again and again (strong fairness of `RunJob`,
since a job is disabled while all workers are busy); the limiter admits a message to
those who keep asking (strong fairness of `Send`: `Throttle` competes with it, and
windows slide). Nothing is assumed of operators, crashes or joiners.
`Billing!Fairness`: the scheduler keeps sweeping, River runs the job, a process
that is in a use case goes on. Nothing is assumed of the gateway's answers or of time.
`DomainsFairness`: the scheduler keeps sweeping, River runs the polls and drops
completed ones after a day (the sweep's job is unique by its arguments, completed ones
included), the verification window passes. Nothing is assumed of the tenant, of the
provider or of the process that registers a domain.

`campaign_progress` excludes dropped write errors (`DroppedErrors = FALSE`): after
one, the recipient stays pending with no job that selects it, and the campaign does
not finish. The same is true of a crash between the commit of a status and
`EnqueueStart`; there no recipient has a row yet, and the campaign runs without work.

## 5. Where the code and what is said of it disagree

Three disagreements have a run that shows them:

1. **Short fan-out** (`campaign_resume`). `StartWorker` bounds its windows by
   `sent + failed + pending` and `Recipients.Pending` offsets over all rows, the
   skipped ones included. After a resume the last windows get no batch.
2. **Double charge** (`billing_double_charge`). Guard and attempt number are
   separate transactions, and the number is part of the idempotency key.
3. **Missed usage** (`usage_rollup`). The stamp takes events the SELECT did not see.

The others follow from the models' actions and are recorded here, without a run of
their own. The properties of section 4 are stated so that they hold beside them.

*Campaigns and billing.*

- Start and cancel, or cancel and a batch's `syncProgress`, both read the row and the
  later write wins whole: a cancelled campaign runs again, against
  `specs/006-phase-3-sending-pipeline/data-model.md:108-116`.
- A worker that dies between the provider's acceptance and `MarkSent` makes the
  redelivered batch mail the recipient again, which
  `specs/006-phase-3-sending-pipeline/contracts/jobs.md:100` excludes
  (`MailedOnceWhenUndisturbed` says exactly when it cannot happen).
- The start job of a resumed campaign authorises its whole roster again, on top of what
  it has sent already, and may be refused half-way (`start_worker.go:74-78`).
- A crash between `Invoices.Update` and `Subscriptions.Update` (`charge_invoice.go:268`)
  leaves a paid subscription past due with no open invoice, which no sweep lists;
  `specs/010-phase-5-billing-metering/contracts/jobs.md:45-46` says otherwise. A failure
  that is recorded late demotes a subscription that a settle has just activated, and an
  activation that comes late, after a renewal, puts the subscription back into the
  earlier period until the next sweep. So `PaidService` promises that service is of a paid
  period, not of the last one.
- A send recorded after a renewal is attributed to the new period, where
  `specs/010-phase-5-billing-metering/spec.md:174-176` says the period of the action; the
  overage line item of step 4 in its `contracts/jobs.md` is not implemented.

*Feedback.* A job that dies between `RecordEvent` and `Suppress` finds the event
recorded when it is retried and marks it attributed without suppressing, against
`inbound.go:14-16`. Two jobs of one event can turn attributed back to unattributed.

*Audience.*

- `resolveID` (`confirm_subscription.go:100-102`) takes the first hit of a substring
  search: with an address that is part of another, the wrong subscriber's memberships
  are confirmed. The instance of `audience_safety` has addresses that do not contain
  one another (`Finds`).
- The import ignores the state column of the file, no command consults a list's opt-in
  mode, and an import whose worker dies stays running for ever.

*Segments.* `%v` writes a number from 10^6 up as `1e+06`, so that `eq`, `neq` and
`contains` never match the stored text (`specs/004-subscribers-lists-auth/spec.md:159`,
`:211`), and arrays likewise; LIKE wildcards in a value are not escaped; a cast that
fails on one row fails the query and the roster with it. A group that also carries a leaf
is accepted and the leaf ignored, against `segment.go:62-63`.

*Content and merge tags.*

- Two visual saves that overlap both pass the freshness gate, which FR-009
  (`specs/014-visual-email-editor/spec.md:207`) excludes, as the row is read without a
  lock; starting a campaign and saving it revert each other's columns; a code edit keeps
  the document of the body it replaces.
- Bodies saved as code are not validated (FR-016c, `spec.md:223`); `convert.go:331` leaves
  unknown placeholders to the validator, which does not look into text; a subject is
  substituted and never validated. `preference_url`, `archive_url` and
  `view_in_browser_url` come out empty. A recipient without an attribute is mailed the
  literal placeholder although the field exists, where `substitution.go:41-44` speaks of
  deleted fields only. A field's default value is never used.
- A patch of a field undoes an overlapping reorder for that field; fields that are created
  at the same time get the same position.

*Accounts and access.*

- Overlapping resends leave two valid links (FR-012,
  `specs/016-email-verification-registration/spec.md:82`). A person who accepts an
  invitation without an account gets a session, and an unverified account for which no
  link is issued. Accepting does not compare addresses. An expired invitation that is
  still pending blocks inviting the address again.
- The Owner role is looked up by its name: once it is renamed or deleted, the next
  newcomer becomes an Owner (`iam/app/command/sessions.go:13-17`). A crash between creating
  that role and assigning it leaves the tenant without an owner. A challenge that
  overlaps a log-out makes the revoked session active again. Confirming and disabling
  TOTP at the same time leaves TOTP on without codes, or codes without TOTP.

*Domains, media.* A poll that overlaps another writes pending or failed over verified
(`Domains.Update` has no lock); a commit that succeeds and reports an error makes the
clean-up delete the object of a listed asset (FR-029,
`specs/012-phase-6-public-pages-media/spec.md:140`).

## 6. What is proved

All theorems hold for every value of the constants that satisfies the module's
assumption: any number of recipients, workers, requests, periods, attempts, campaigns,
messages, people, tenants, pods, assets, lists, addresses, pages and editors, any batch
size, threshold, allowance, limit, window, skew and lag, any number of faults. The
assumptions give the constants their types, and say

- that the charge worker is not one of the requests;
- that audiences, mails, lists, slugs and messages are finite, campaigns are disjoint sets
  of recipients, none of them itself a recipient or message, templates are not campaigns,
  and "nobody", "no mail" and an unreadable row are none of the addresses and mails;
- that the audience starts with subscribers of different addresses, as the unique index
  requires, and a search finds the address that it is given (`Finds`; it may find others);
- that the founder of a tenant is one of the people, a role named Owner can exist, there
  is at least one asset and one tenant, and a page holds at least one row;
- that condition trees are finite (`Height` falls from a tree to its children) and the
  columns a field condition reads are never null;
- that containers are nested at most `MaxDepth` deep, whatever that is, custom slugs are
  none of the built-in ones, and code holds no chips.

One theorem has a hypothesis of its own, `ConfirmationsAreAskedFor`: addresses do not
contain one another (`NamesApart`), as in the run; section 5 says what happens when they do.

**CampaignSendProofs.**
`TypeCorrect` first, by one lemma per process. Then

- `SentOnlyIfMailed`, `BilledOnlyIfMailed` from `MailInv`: a worker between `Send`
  and `Mark` knows the answer for the recipient it is at, and what it has collected
  for the meter has been accepted. Needed because the row and the usage event are
  written from that local knowledge, after any number of other steps.
- `SuppressedStaySilent` from `ShieldInv`: whoever was suppressed while unselected is
  held by every batch that selects it.
- `AutoPauseHolds` from `ThresholdInv`: every snapshot a worker or request may still
  write back satisfies the threshold too, as an old snapshot is as good as the row.
- `FinishLeavesNobodyPending` from `RosterInv`: a tally without pending rows, once
  taken with rows present, stays true, because rows never become pending again; so
  every snapshot and tally that is still to be written covers the roster.
- `SendImplementsLedger`: each action maps to one action of `SendLedger` or a
  stutter, using `MailInv`.
- `NobodyIsMailedTwice`, `FinishIsExact` from `UndisturbedInv`, in five parts that each
  rest on those before. `JobsInv`: a job waits once or one worker runs it, never both.
  `WindowInv`: rows are materialised once, before the first batch is enqueued, and the
  windows of live batches are apart. `OnceInv`: as rows are numbered once and for all, a
  row is in one window, so a pending recipient is in one worker's hand, and has been
  mailed only if that worker is about to mark it. `ExactInv`: a finish is decided on a
  tally without pending rows; those rows never change again, so that the counts
  of the finishing write, however late it comes, and of every snapshot of a finished
  campaign, are still those of the rows. `NoBatchYet` (no batch while the start
  job may still insert rows) keeps the numbering from shifting under a batch; a second
  start job does just that, which is why the hypothesis excludes it.

**BillingProofs.** `TypeCorrect`; `PaidIsCharged` from `MoneyInv` (an actor that
records an approval has the gateway's approval under its key, an actor that settles
has a charged invoice, recorded wins are approved keys); `ActiveIsPaid` and
`BillsAreInOrder` from `PeriodInv` (an actor about to activate works on a paid
invoice, and paid is final; a renewal's snapshot, however stale, was active in a paid
period that is over), which rests on `FreshInv` (until the first invoice exists only
the subscribing request is at work, so no invoice is overwritten); `ChargesOnce` from
`SerialInv` and `KeysInv` (while undisturbed at most one actor is not idle, and an
approval not yet recorded sits under the next attempt's key, where a retry finds it).
`BillingServesWhatIsPaid`, the refinement, from the invariants of money, periods and first
invoices together: `RenewalInvoice` is `Bill` because its snapshot's period is paid and
over, `Charge` is `Take` because whoever charges has a billed invoice, `SettleInvoice` is
`Settle` because its charge was approved, and `DunInvoice`, however late, is a stutter
because it leaves a paid invoice paid or fails. The refinement implies `PaidWasCharged`,
which has no run of its own for that reason.

**UsageProofs.** `TypeCorrect`; `UsageIsMail` from `SourceInv` (an event's period is
not before the one its send was accepted in, as periods only grow) and `CountInv`
(a counter is the number of counted events of its period, and the sums a rollup
holds are those of raw events); `UsageGrows` from `CountInv`; `RefusalSendsNothing` from
`RefusalInv` (until the gate lets a campaign's first start job pass, there is at most
that one job and no send is touched). `QuotaHolds` from `QuotaInv`: a send that is over
is metered while there is a subscription (`SettledInv`); one campaign or message is on
its way (`AloneInv`); so what a gate has read of the subscription stays the whole
truth about the others' sends until it decides, a renewal in between included
(`ReadInv`); and what it has let through, with what was sent in the current period,
fits the allowance (`RoomInv`), which counting lemmas carry over each send.

**PlatformProofs.** `RateLimitHolds` from `RateInv`: the sorted sets hold every admitted send
that is younger than the window less `MaxSkew` and `MaxLag`. That is what survives
trimming by a clock that is ahead, for a score is at most `MaxLag` behind its admission
(`HistoryInOrder`) and the clock of a call at most `MaxSkew` ahead of it (`CallsRecent`),
and the expiry of keys. `OneMore` then bounds every burst: one that the new send is in
consists of sends that the set still held, which were fewer than the limit.

`ListedAssetsHaveObjects` from `MediaInv`: an upload past its row adds
nothing any more, a clean-up runs only for an upload without a row or with a misreported
one, and a deletion that has come to the object has removed the row for good.

`ReordersLast` from `FieldsInv`: a patch that no reorder has overtaken carries the place
that the last reorder gave its field (`PatchesCarryOrder`); positions are bounded by the
number of fields and requests, so that there is a last one for a new field to follow.

`SavesOverwriteWhatTheyShow` from `ContentInv`: the stamp of a write in flight is in no
row, editor or other write yet (`StampsFresh`), so that an editor with the row's stamp
shows the row, and goes on showing it while its own save is in flight, unless another
write crosses it (`InStep`).

`SegmentsSelectExactly` needs what is true of trees of every shape. `RecursionOnHeight` says
that a function defined over smaller trees exists and satisfies its equation, which the
provers do not know by themselves, and `InductionOnHeight` that what passes from
children to parents holds of every tree; both are proved here, by least counterexamples,
for sets rather than for operators (the library's induction theorems take an operator,
which these provers cannot instantiate). `PartsOf`, `TruthsOf` and `DescribesOf` are the
equations; `ConditionDescribes` compares the two readings of one condition, `TreesSound`
those of a tree: "true" is only given to rows that the tree describes, and a described row
gets "true" or an error; `TreesFail` finds the condition at fault. With them the
invariant `SegmentsInv`: whoever is in `always` is described now and whoever is described
now is in `ever` (`HistoryBrackets`), what was read had been described
(`FoundWereDescribed`), and while nobody entered or left, the total is the number
of the described and the pages read are exactly those whose rank is below the offset, each
once (`PagesInOrder`, `RankFilled`).

`CheckedTagsAlwaysResolve` from `TagsInv`: a body's placeholder that is not unchecked is a
valid tag with respect to the built-in slugs and those that were ever defined
(`CheckedTagsKnown`), for the validation sees every chip at any depth and code has none,
and the slugs that a visual save was given are such slugs (`SlugsDefined`).

`DomainsAreDecidedOnEvidence` from `DomainsInv`: what a poll has learnt of the provider and
of the window stays true, for records stay published and windows stay over, and the status
it has read was decided on evidence (`PollGrounded`), so its write is, however late. Which
of two overlapping polls has the last word is not said; that one has it for good is
`EveryDomainSettles`.

**FeedbackProofs.** All from `FeedbackInv`. `NoFeedbackIsLost`: what the consumer is
about to commit it has staged and enqueued (`ConsumerInOrder`), and a staged event stays
covered by its row, its job or a worker. `RecordedFeedbackIsAttributed`: a send that was
recorded when the provider spoke of it stays so, unless a campaign mails the address
again (`RecordsKept`), so a worker that finds nothing is right (`WorkersMatch`).
`AttributedFeedbackIsDecided`: whoever has recorded an event goes on to decide its
suppression, until it is decided or its worker dies (`EventsDecided`).

**AudienceProofs.** All from `AudienceInv`. `ConfirmationsAreAskedFor`: what a request has
learnt of its subscriber stays true, for rows are not taken back and requests to
confirm are not forgotten (`Learnt`); every confirmed membership was asked for, of
deleted subscribers too (`MembersAsked`). `SuppressedAddressesStayOut`: a barred request
has not passed its look at the suppression list (`RequestsBarred`).
`CompletedImportsCountEveryRow`: the rows before the one the worker is at are handled
once and counted once (`ImportCounts`). `ImportsOnlyAdd` is an action property of the
worker's steps. `ExportsMissNobody`: whoever was selected throughout is in the pages
read or at a rank behind the offset, and newcomers, being newer, only raise ranks
(`ExportKeepsPromise`, with the lemmas about `Rank`).

**AccountsProofs.** `UsedLinksVerify` and `InvitationsAdmitOnce` from `AccountsInv`: a call
works on rows that are there, for rows are marked and never removed; a call that is about
to consume a link has marked the account, and verified accounts stay so (`CallMatches`);
whom an invitation has let in, it let in by the one step that made it accepted
(`AdmittedByAcceptance`), so that a second acceptance, or one after a revocation, finds
its row no longer pending. `PlaneStep`, `TenancyStep` and `CallStep` say once what a step
of each kind has to respect. `LinksAreMailed` from `LinksInv`: every row, the used and
deleted ones too, is covered by its mail, its job, the call that is about to enqueue it,
the failure that dropped it, or an account that is verified by now.

**AccessProofs.** `CodesOpenOneSession` from `CodesInOnePlace`: a batch of recovery codes
belongs to one user, a code is with its user, with one challenge that has consumed it
or behind one session. `OneOwnerByEntering` from `OwnerByCreation`: while the Owner role
keeps its name, the entry that created it is the only one about to assign it.

### Only model-checked

Liveness (`EveryRecipientReached`, `QueueDrains`, `PastDueEnds`, `RenewalHappens`,
`EveryDomainSettles`): the prover handles neither fairness nor ENABLED.

## 7. What is not modelled, and why

- *Campaigns*: deleting a subscriber during a send; taking an address off the suppression
  list meanwhile. Edits of a draft's content are in `Content`, not in `CampaignSend`.
- *Billing*: subscribing again after a cancellation, amounts and line items, the waiting
  time of a retry (a retry may come due at any moment), several gateway providers.
- *Usage*: the two event types and the split into included and overage quantities, which
  no decision reads; an operator's cancellation (to the meter a pause that is never
  resumed); several rollup jobs of one tenant (the job is unique by its arguments).
- *Feedback*: River giving up on a job; what the source of a suppression was; the
  notification status "failed", which nothing sets.
- *Audience*: names and attributes, renaming a list; the throttle of the public form,
  whose refusal is a request that does nothing.
- *Accounts and access*: passwords, the display language, settings and branding (one
  validated row each); the cryptography of tokens and codes; audit rows, which are
  best-effort and decide nothing; enabling TOTP, which only mints a
  secret and writes nothing.
- *Segments, merge tags*: values beyond the few that conversions tell apart; names, which
  may be empty; subjects.
- *River*: priorities, back-off delays, discarding a job after its last attempt.
- *Not at all*: rendering and sanitising, tracking, analytics, RSS and archive, HTTP
  routing, configuration, logging, migrations and the web front end: they transform or
  read data, and hold no protocol state.
