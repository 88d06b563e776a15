------------------------------ MODULE Audience ------------------------------
(***************************************************************************)
(* The audience of one tenant (internal/audience): subscribers and their   *)
(* list memberships, the public subscription form with its double opt-in,  *)
(* the unsubscribe and preference pages, the operators' requests, and the  *)
(* import and export workers.                                              *)
(*                                                                         *)
(* One action is one transaction of a repository, or one River insert: a   *)
(* handler that makes several is a request that goes from step to step,    *)
(* and every other request may act in between.  Memberships.SetStatus and  *)
(* Attach followed by SetStatus are one action each: the status they write *)
(* does not depend on the status they read, only on a row being there.     *)
(* The reads that are only compared with nothing (throttles, form fields,  *)
(* names and attributes) are left out.                                     *)
(***************************************************************************)
EXTENDS Naturals, Sequences, FiniteSets

CONSTANTS
    Emails,        \* addresses
    Lists,         \* lists that may exist
    Finds,         \* the addresses that Search finds when given an address
    Slots,         \* concurrent requests
    Operations,    \* what they may ask for, see AllOperations
    Files,         \* uploads, each a sequence of addresses, "bad" if invalid
    Seed,          \* the subscribers at the start, in the order of creation
    PageSize,      \* subscribers read at once by an export
    MaxSubs,       \* bound: subscribers ever created
    MaxTokens,     \* bound: confirmation tokens ever issued
    MaxRequests,   \* bound: requests
    MaxFaults      \* bound: crashes and failed calls

AllOperations ==
    {"submit", "resend", "confirm", "unsubscribe", "preferences", "update",
     "create", "delete", "add", "remove", "change", "list", "page",
     "import", "export"}

Nobody == "nobody"
Ids == 1 .. MaxSubs
States == {"enabled", "disabled", "blocklisted"}
Statuses == {"none", "unconfirmed", "confirmed", "unsubscribed"}
Selections == {"all", "list", "segment"}

ASSUME AudienceAssumption ==
    /\ Finds \in [Emails -> SUBSET Emails]
    /\ \A e \in Emails : e \in Finds[e]
    /\ Nobody \notin Emails
    /\ "bad" \notin Emails
    /\ IsFiniteSet(Lists)
    /\ Operations \in SUBSET AllOperations
    /\ Files \in SUBSET Seq(Emails \cup {"bad"})
    /\ MaxSubs \in Nat
    /\ Seed \in Seq([email : Emails, state : States, in : [Lists -> Statuses]])
    /\ Len(Seed) <= MaxSubs
    /\ \A i, j \in 1 .. Len(Seed) : Seed[i].email = Seed[j].email => i = j
    /\ PageSize \in Nat \ {0}
    /\ MaxTokens \in Nat
    /\ MaxRequests \in Nat
    /\ MaxFaults \in Nat

VARIABLES
    subs,          \* subscribers rows: [email, state, live], by id
    member,        \* subscriber_lists rows: the status per id and list
    lists,         \* lists rows
    page,          \* the subscription page
    pending,       \* pending_subscriptions rows, per address
    issued,        \* confirmation tokens issued so far
    optin,         \* waiting optin.send jobs
    links,         \* confirmation links in the mailboxes
    suppressed,    \* addresses on the suppression list
    request,       \* what each request is doing
    requests,      \* requests so far (bounded)
    faults,        \* faults so far (bounded)
    import,        \* the import_export_jobs row of the import
    export,        \* the row of the export
    queue,         \* waiting subscriber.import and subscriber.export jobs
    importer,      \* what the import worker is doing
    exporter,      \* what the export worker is doing
    asked,         \* history: list choices made by their address or an operator
    handled,       \* history: how often each row of the upload was handled
    promised       \* history: subscribers the export must contain

rows == <<subs, member, lists>>
public == <<page, pending, issued, optin, links>>
asking == <<request, requests>>
bulk == <<import, export, queue, importer, exporter>>
history == <<asked, handled, promised>>
vars == <<rows, public, suppressed, asking, faults, bulk, history>>

-----------------------------------------------------------------------------
(* Rows.                                                                   *)

Known == 1 .. Len(subs)
Live == {i \in Known : subs[i].live}
Named(e) == {i \in Live : subs[i].email = e}

(* Mutant: the upsert writes the state of a new subscriber over the old.   *)
UpsertedWithState(e) ==
    IF Named(e) = {}
    THEN Append(subs, [email |-> e, state |-> "enabled", live |-> TRUE])
    ELSE [i \in Known |-> IF i \in Named(e) THEN [subs[i] EXCEPT !.state = "enabled"] ELSE subs[i]]

(* Subscribers.UpsertByEmail: an existing row keeps its state.             *)
Upserted(e) ==
    IF Named(e) = {}
    THEN Append(subs, [email |-> e, state |-> "enabled", live |-> TRUE])
    ELSE subs
RoomFor(e) == Named(e) # {} \/ Len(subs) < MaxSubs

(* Subscribers.Search with a page of one: the newest row whose address     *)
(* contains the one asked for.                                             *)
Found(e) == {i \in Live : subs[i].email \in Finds[e]}
Newest(S) == CHOOSE i \in S : \A j \in S : j <= i

(* Subscriber.ChangeState.                                                 *)
MayChangeState(from, to) == ~(from = "blocklisted" /\ to = "disabled")

(* Membership.ChangeStatus.                                                *)
MayChangeStatus(from, to) == from = to \/ to # "unconfirmed"

(* Memberships.Attach.                                                     *)
CanAttach(i, l) == i \in Live /\ l \in lists /\ member[i][l] = "none"
ListsOf(i) == {l \in Lists : member[i][l] # "none"}
SubscribedTo(i) == {l \in ListsOf(i) : member[i][l] # "unsubscribed"}
SetMember(i, l, status) == member' = [member EXCEPT ![i][l] = status]

NoPending == [id |-> 0, token |-> 0, targets |-> {}, expired |-> FALSE]
(* NewPendingSubscription.                                                 *)
PendingRows ==
    [id : 0 .. MaxTokens, token : 0 .. MaxTokens, targets : SUBSET Lists,
     expired : BOOLEAN]
HasPending(e) == pending[e].id # 0
ByToken(t) == {e \in Emails : HasPending(e) /\ pending[e].token = t}
ById(n) == {e \in Emails : HasPending(e) /\ pending[e].id = n}

(* What a request knows: the step it is at, the row it acts on, the lists  *)
(* it has still to go through and the ones it wants, the subscriber's      *)
(* state it has read.  barred is history: the address was suppressed when  *)
(* the confirmation began and has not been released since.                 *)
Requests ==
    [op : AllOperations \cup {"idle"},
     at : {"idle", "suppression", "upsert", "resolve", "attach", "refresh",
           "enqueue", "profile", "lists", "page"},
     email : Emails \cup {Nobody}, id : 0 .. MaxSubs, row : 0 .. MaxTokens,
     token : 0 .. MaxTokens, todo : SUBSET Lists, wanted : SUBSET Lists,
     state : States, active : BOOLEAN, barred : BOOLEAN]
Idle ==
    [op |-> "idle", at |-> "idle", email |-> Nobody, id |-> 0, row |-> 0,
     token |-> 0, todo |-> {}, wanted |-> {}, state |-> "enabled",
     active |-> FALSE, barred |-> FALSE]

Asks(op) == op \in Operations /\ requests < MaxRequests
Begins(p, r) ==
    /\ Asks(r.op)
    /\ request[p] = Idle
    /\ request' = [request EXCEPT ![p] = r]
    /\ requests' = requests + 1
(* A request that is a single transaction.                                 *)
Does(op) == Asks(op) /\ requests' = requests + 1 /\ UNCHANGED request
At(p, op, at) == request[p].op = op /\ request[p].at = at
Goes(p, r) == request' = [request EXCEPT ![p] = r] /\ UNCHANGED requests
Ends(p) == Goes(p, Idle)
NextStep(p, at) == Goes(p, [request[p] EXCEPT !.at = at])
Crosses(p, l) ==
    IF request[p].todo = {l} /\ request[p].op # "confirm" THEN Ends(p)
    ELSE Goes(p, [request[p] EXCEPT !.todo = @ \ {l}])

JobStatuses == {"none", "pending", "running", "completed", "failed"}
NoImport ==
    [status |-> "none", rows |-> <<>>, targets |-> {}, created |-> 0,
     updated |-> 0, failed |-> 0]
NoExport == [status |-> "none", selection |-> "all", list |-> {}, staged |-> <<>>, count |-> 0]
IdleImporter ==
    [at |-> "idle", row |-> 1, created |-> 0, updated |-> 0, failed |-> 0]
IdleExporter == [at |-> "idle", got |-> <<>>]

(* The rows an export draws from: everybody, the members of a list that    *)
(* have not left it, or a segment, here the enabled ones.                  *)
Selected ==
    {i \in Live :
        CASE export.selection = "all" -> TRUE
          [] export.selection = "list" ->
               export.list \cap SubscribedTo(i) # {}
          [] OTHER -> subs[i].state = "enabled"}

Init ==
    /\ subs = [i \in 1 .. Len(Seed) |->
                 [email |-> Seed[i].email, state |-> Seed[i].state, live |-> TRUE]]
    /\ member = [i \in Ids |-> IF i <= Len(Seed) THEN Seed[i].in
                                                 ELSE [l \in Lists |-> "none"]]
    /\ lists = Lists
    /\ page = [targets |-> Lists, active |-> TRUE]
    /\ pending = [e \in Emails |-> NoPending]
    /\ issued = 0
    /\ optin = {}
    /\ links = {}
    /\ suppressed = {}
    /\ request = [p \in Slots |-> Idle]
    /\ requests = 0
    /\ faults = 0
    /\ import = NoImport
    /\ export = NoExport
    /\ queue = {}
    /\ importer = IdleImporter
    /\ exporter = IdleExporter
    /\ asked = {c \in Emails \X Lists :
                  \E i \in 1 .. Len(Seed) : Seed[i].email = c[1] /\ Seed[i].in[c[2]] = "confirmed"}
    /\ handled = [n \in {} |-> 0]
    /\ promised = {}

-----------------------------------------------------------------------------
(* The public subscription form and its confirmation links.                *)

(* SubmitPublicSubscription: the page is read and the throttle asked, then *)
(* the pending row is written, then its mail is enqueued.                  *)
SubmitPublicSubscription(p, e) ==
    /\ page.active
    /\ Begins(p, [Idle EXCEPT !.op = "submit", !.at = "upsert", !.email = e,
                              !.todo = page.targets])
    /\ UNCHANGED <<rows, public, suppressed, faults, bulk, asked, handled>>

(* PendingSubscriptions.Upsert: a row of the same address keeps its id and *)
(* loses its token.                                                        *)
UpsertPending(p) ==
    LET e == request[p].email
        t == issued + 1
        id == IF HasPending(e) THEN pending[e].id ELSE t
    IN /\ At(p, "submit", "upsert")
       /\ issued < MaxTokens
       /\ issued' = t
       /\ pending' = [pending EXCEPT ![e] =
              [id |-> id, token |-> t, targets |-> request[p].todo, expired |-> FALSE]]
       /\ Goes(p, [request[p] EXCEPT !.at = "enqueue", !.row = id, !.token = t])
       /\ UNCHANGED <<rows, page, optin, links, suppressed, faults, bulk, asked, handled>>

EnqueueOptinSend(p) ==
    /\ request[p].op \in {"submit", "resend"}
    /\ request[p].at = "enqueue"
    /\ optin' = optin \cup {[row |-> request[p].row, token |-> request[p].token]}
    /\ Ends(p)
    /\ UNCHANGED <<rows, page, pending, issued, links, suppressed, faults, bulk, asked, handled>>

(* OptinWorker.Work: the mail goes to the row's address with the job's     *)
(* token, which may no longer be the row's.                                *)
SendOptin(job) ==
    /\ job \in optin
    /\ optin' = optin \ {job}
    /\ links' = links \cup {[email |-> e, token |-> job.token] : e \in ById(job.row)}
    /\ UNCHANGED <<rows, page, pending, issued, suppressed, asking, faults, bulk, asked, handled>>

(* Time passes: PendingSubscription.IsExpired.                             *)
Expire(e) ==
    /\ HasPending(e)
    /\ ~pending[e].expired
    /\ pending' = [pending EXCEPT ![e].expired = TRUE]
    /\ UNCHANGED <<rows, page, issued, optin, links, suppressed, asking, faults, bulk, asked, handled>>

(* ResendConfirmation: look the token up, write a fresh one, enqueue.      *)
ResendConfirmation(p, link) ==
    /\ link \in links
    /\ \E e \in ByToken(link.token) :
         Begins(p, [Idle EXCEPT !.op = "resend", !.at = "refresh", !.row = pending[e].id])
    /\ UNCHANGED <<rows, public, suppressed, faults, bulk, asked, handled>>

RefreshToken(p) ==
    /\ At(p, "resend", "refresh")
    /\ IF ById(request[p].row) = {}
       THEN Ends(p) /\ UNCHANGED <<pending, issued>>
       ELSE /\ issued < MaxTokens
            /\ issued' = issued + 1
            /\ pending' = [e \in Emails |->
                   IF e \in ById(request[p].row)
                   THEN [pending[e] EXCEPT !.token = issued + 1, !.expired = FALSE]
                   ELSE pending[e]]
            /\ Goes(p, [request[p] EXCEPT !.at = "enqueue", !.token = issued + 1])
    /\ UNCHANGED <<rows, page, optin, links, suppressed, faults, bulk, asked, handled>>

(* ConfirmSubscription: a link whose token has no row reports success and  *)
(* changes nothing, an expired one is refused.                             *)
ConfirmSubscription(p, link) ==
    /\ link \in links
    /\ \E e \in ByToken(link.token) :
         /\ ~pending[e].expired
         /\ Begins(p, [Idle EXCEPT !.op = "confirm", !.at = "suppression", !.email = e,
                                   !.row = pending[e].id, !.todo = pending[e].targets,
                                   !.barred = e \in suppressed])
         /\ asked' = asked \cup ({e} \X pending[e].targets)
    /\ UNCHANGED <<rows, public, suppressed, faults, bulk, handled>>

(* Mutant: the answer of the suppression list is not looked at.            *)
IgnoreSuppressed(p) ==
    /\ At(p, "confirm", "suppression")
    /\ NextStep(p, "upsert")
    /\ UNCHANGED <<rows, public, suppressed, faults, bulk, asked, handled>>

CheckSuppressed(p) ==
    /\ At(p, "confirm", "suppression")
    /\ IF request[p].email \in suppressed THEN Ends(p) ELSE NextStep(p, "upsert")
    /\ UNCHANGED <<rows, public, suppressed, faults, bulk, asked, handled>>

UpsertConfirmed(p) ==
    /\ At(p, "confirm", "upsert")
    /\ RoomFor(request[p].email)
    /\ subs' = Upserted(request[p].email)
    /\ NextStep(p, "resolve")
    /\ UNCHANGED <<member, lists, public, suppressed, faults, bulk, asked, handled>>

ResolveID(p) ==
    LET found == Found(request[p].email)
    IN /\ At(p, "confirm", "resolve")
       /\ IF found = {} THEN Ends(p)
          ELSE Goes(p, [request[p] EXCEPT !.at = "attach", !.id = Newest(found)])
       /\ UNCHANGED <<rows, public, suppressed, faults, bulk, asked, handled>>

(* Attach, or SetStatus when the membership exists: a subscriber or a list *)
(* that is gone fails the request.                                         *)
ConfirmMembership(p, l) ==
    /\ At(p, "confirm", "attach")
    /\ l \in request[p].todo
    /\ IF request[p].id \in Live /\ l \in lists
       THEN SetMember(request[p].id, l, "confirmed") /\ Crosses(p, l)
       ELSE Ends(p) /\ UNCHANGED member
    /\ UNCHANGED <<subs, lists, public, suppressed, faults, bulk, asked, handled>>

(* The row is deleted by its id, whatever was written to it meanwhile.     *)
DeletePending(p) ==
    /\ At(p, "confirm", "attach")
    /\ request[p].todo = {}
    /\ pending' = [e \in Emails |->
           IF e \in ById(request[p].row) THEN NoPending ELSE pending[e]]
    /\ Ends(p)
    /\ UNCHANGED <<rows, page, issued, optin, links, suppressed, faults, bulk, asked, handled>>

(* The suppression list is changed by Feedback and by operators.           *)
ChangeSuppression(e) ==
    /\ suppressed' = (suppressed \ {e}) \cup ({e} \ suppressed)
    /\ request' = [p \in Slots |->
           IF request[p].email = e THEN [request[p] EXCEPT !.barred = FALSE] ELSE request[p]]
    /\ UNCHANGED <<rows, public, requests, faults, bulk, asked, handled>>

-----------------------------------------------------------------------------
(* The subscriber's own pages, reached by a signed link with their id.     *)

(* PublicUnsubscribe from every list: the memberships are read first.      *)
PublicUnsubscribe(p, i) ==
    /\ i \in Live
    /\ SubscribedTo(i) # {}
    /\ Begins(p, [Idle EXCEPT !.op = "unsubscribe", !.at = "lists", !.id = i,
                              !.todo = SubscribedTo(i)])
    /\ UNCHANGED <<rows, public, suppressed, faults, bulk, asked, handled>>

(* UpdatePreferences: the lists and the profile are read, the profile is   *)
(* written back with the state it had, then every list is set.  The form   *)
(* was rendered earlier, so any set of lists may be ticked.                *)
UpdatePreferences(p, i, ticked) ==
    /\ i \in Live
    /\ Begins(p, [Idle EXCEPT !.op = "preferences", !.at = "profile", !.id = i,
                              !.todo = ListsOf(i), !.wanted = ListsOf(i) \cap ticked,
                              !.state = subs[i].state])
    /\ asked' = asked \cup ({subs[i].email} \X (ListsOf(i) \cap ticked))
    /\ UNCHANGED <<rows, public, suppressed, faults, bulk, handled>>

(* Memberships.SetStatus of the two pages: the preference page passes over *)
(* a membership that is gone, the unsubscribe page fails on it.            *)
SetStatus(p, l) ==
    LET i == request[p].id
    IN /\ request[p].at = "lists"
       /\ l \in request[p].todo
       /\ IF member[i][l] = "none"
          THEN /\ UNCHANGED member
               /\ IF request[p].op = "preferences" THEN Crosses(p, l) ELSE Ends(p)
          ELSE /\ SetMember(i, l, IF l \in request[p].wanted THEN "confirmed" ELSE "unsubscribed")
               /\ Crosses(p, l)
       /\ UNCHANGED <<subs, lists, public, suppressed, faults, bulk, asked, handled>>

-----------------------------------------------------------------------------
(* The operators' requests.                                                *)

(* UpdateSubscriber reads the row and checks the transition ...            *)
UpdateSubscriber(p, i, state) ==
    /\ i \in Live
    /\ MayChangeState(subs[i].state, state)
    /\ Begins(p, [Idle EXCEPT !.op = "update", !.at = "profile", !.id = i, !.state = state])
    /\ UNCHANGED <<rows, public, suppressed, faults, bulk, asked, handled>>

(* ... and writes every column back, as UpdatePreferences does: no lock is *)
(* held in between.                                                        *)
WriteSubscriber(p) ==
    LET i == request[p].id
    IN /\ request[p].at = "profile"
       /\ subs' = [subs EXCEPT ![i].state = IF subs[i].live THEN request[p].state ELSE @]
       /\ IF request[p].op = "preferences" /\ request[p].todo # {}
          THEN NextStep(p, "lists") ELSE Ends(p)
       /\ UNCHANGED <<member, lists, public, suppressed, faults, bulk, asked, handled>>

(* CreateSubscriber adds the row, then attaches it to each list.           *)
CreateSubscriber(p, e, chosen) ==
    /\ Named(e) = {}
    /\ Len(subs) < MaxSubs
    /\ subs' = Append(subs, [email |-> e, state |-> "enabled", live |-> TRUE])
    /\ IF chosen = {} THEN Does("create")
       ELSE Begins(p, [Idle EXCEPT !.op = "create", !.at = "attach", !.id = Len(subs) + 1,
                                   !.todo = chosen])
    /\ UNCHANGED <<member, lists, public, suppressed, faults, bulk, asked, handled>>

AttachCreated(p, l) ==
    LET i == request[p].id
    IN /\ At(p, "create", "attach")
       /\ l \in request[p].todo
       /\ IF CanAttach(i, l)
          THEN SetMember(i, l, "unconfirmed") /\ Crosses(p, l)
          ELSE Ends(p) /\ UNCHANGED member
       /\ UNCHANGED <<subs, lists, public, suppressed, faults, bulk, asked, handled>>

DeleteSubscriber(i) ==
    /\ Does("delete")
    /\ i \in Live
    /\ subs' = [subs EXCEPT ![i].live = FALSE]
    /\ member' = [member EXCEPT ![i] = [l \in Lists |-> "none"]]
    /\ UNCHANGED <<lists, public, suppressed, faults, bulk, asked, handled>>

AddToList(i, l) ==
    /\ Does("add")
    /\ CanAttach(i, l)
    /\ SetMember(i, l, "unconfirmed")
    /\ UNCHANGED <<subs, lists, public, suppressed, faults, bulk, asked, handled>>

RemoveFromList(i, l) ==
    /\ Does("remove")
    /\ member[i][l] # "none"
    /\ SetMember(i, l, "none")
    /\ UNCHANGED <<subs, lists, public, suppressed, faults, bulk, asked, handled>>

ChangeSubscriptionState(i, l, status) ==
    /\ Does("change")
    /\ member[i][l] # "none"
    /\ MayChangeStatus(member[i][l], status)
    /\ SetMember(i, l, status)
    /\ asked' = IF status = "confirmed" THEN asked \cup {<<subs[i].email, l>>} ELSE asked
    /\ UNCHANGED <<subs, lists, public, suppressed, faults, bulk, handled>>

CreateList(l) ==
    /\ Does("list")
    /\ l \notin lists
    /\ lists' = lists \cup {l}
    /\ UNCHANGED <<subs, member, public, suppressed, faults, bulk, asked, handled>>

(* A list takes its memberships with it; pages and pending rows keep it.   *)
DeleteList(l) ==
    /\ Does("list")
    /\ l \in lists
    /\ lists' = lists \ {l}
    /\ member' = [i \in Ids |-> [member[i] EXCEPT ![l] = "none"]]
    /\ UNCHANGED <<subs, public, suppressed, faults, bulk, asked, handled>>

(* SaveSubscriptionPage: the lists are looked up before the page is saved. *)
ValidPage(targets) == targets # {}
SaveSubscriptionPage(p, targets, active) ==
    /\ ValidPage(targets)
    /\ targets \subseteq lists
    /\ Begins(p, [Idle EXCEPT !.op = "page", !.at = "page", !.todo = targets, !.active = active])
    /\ UNCHANGED <<rows, public, suppressed, faults, bulk, asked, handled>>

Reconfigure(p) ==
    /\ At(p, "page", "page")
    /\ page' = [targets |-> request[p].todo, active |-> request[p].active]
    /\ Ends(p)
    /\ UNCHANGED <<rows, pending, issued, optin, links, suppressed, faults, bulk, asked, handled>>

(* A call fails or the process dies between two steps of a request.        *)
RequestFails(p) ==
    /\ request[p] # Idle
    /\ faults < MaxFaults
    /\ faults' = faults + 1
    /\ Ends(p)
    /\ UNCHANGED <<rows, public, suppressed, bulk, asked, handled>>

-----------------------------------------------------------------------------
(* Imports.                                                                *)

StartImport(p, file, targets) ==
    /\ import.status = "none"
    /\ Begins(p, [Idle EXCEPT !.op = "import", !.at = "enqueue"])
    /\ import' = [NoImport EXCEPT !.status = "pending", !.rows = file, !.targets = targets]
    /\ handled' = [n \in 1 .. Len(file) |-> 0]
    /\ UNCHANGED <<rows, public, suppressed, faults, export, queue, importer, exporter, asked>>

(* JobEnqueuer: EnqueueImport and EnqueueExport.                           *)
EnqueueJob(p) ==
    /\ request[p].op \in {"import", "export"}
    /\ request[p].at = "enqueue"
    /\ queue' = queue \cup {request[p].op}
    /\ Ends(p)
    /\ UNCHANGED <<rows, public, suppressed, faults, import, export, importer, exporter, asked, handled>>

(* Mutant: a job that is delivered again starts from the first row.        *)
RestartImport ==
    /\ "import" \in queue
    /\ importer = IdleImporter
    /\ import' = [import EXCEPT !.status = "running"]
    /\ importer' = [IdleImporter EXCEPT !.at = "upsert"]
    /\ UNCHANGED <<rows, public, suppressed, asking, faults, export, queue, exporter, asked, handled>>

(* ImportWorker.Work: a job that is not pending any more is left as it is. *)
BeginImport ==
    /\ "import" \in queue
    /\ importer = IdleImporter
    /\ IF import.status = "pending"
       THEN /\ import' = [import EXCEPT !.status = "running"]
            /\ importer' = [IdleImporter EXCEPT !.at = "upsert"]
            /\ UNCHANGED queue
       ELSE /\ queue' = queue \ {"import"}
            /\ UNCHANGED <<import, importer>>
    /\ UNCHANGED <<rows, public, suppressed, asking, faults, export, exporter, asked, handled>>

Skips == importer' = [importer EXCEPT !.row = @ + 1, !.failed = @ + 1]

(* One row of the file: an invalid one, or one whose upsert fails, is      *)
(* counted as failed.                                                      *)
ImportRow ==
    LET e == import.rows[importer.row]
    IN /\ importer.at = "upsert"
       /\ importer.row <= Len(import.rows)
       /\ handled' = [handled EXCEPT ![importer.row] = @ + 1]
       /\ \/ /\ e = "bad"
             /\ Skips
             /\ UNCHANGED <<subs, faults>>
          \/ /\ e # "bad"
             /\ faults < MaxFaults
             /\ faults' = faults + 1
             /\ Skips
             /\ UNCHANGED subs
          \/ /\ e # "bad"
             /\ RoomFor(e)
             /\ subs' = Upserted(e)
             /\ importer' =
                  IF Named(e) = {} THEN [importer EXCEPT !.at = "attach", !.created = @ + 1]
                                   ELSE [importer EXCEPT !.at = "attach", !.updated = @ + 1]
             /\ UNCHANGED faults
       /\ UNCHANGED <<member, lists, public, suppressed, asking, import, export, queue,
                      exporter, asked>>

(* Mutant: imported subscribers count as confirmed.                        *)
AttachConfirmed ==
    LET found == Found(import.rows[importer.row])
    IN /\ importer.at = "attach"
       /\ importer' = [importer EXCEPT !.at = "upsert", !.row = @ + 1]
       /\ member' =
            IF found = {} THEN member
            ELSE [member EXCEPT ![Newest(found)] = [l \in Lists |->
                    IF l \in import.targets /\ CanAttach(Newest(found), l)
                    THEN "confirmed" ELSE @[l]]]
       /\ UNCHANGED <<subs, lists, public, suppressed, asking, faults, import, export, queue,
                      exporter, asked, handled>>

(* attachToLists: what cannot be attached is passed over.                  *)
AttachToLists ==
    LET found == Found(import.rows[importer.row])
    IN /\ importer.at = "attach"
       /\ importer' = [importer EXCEPT !.at = "upsert", !.row = @ + 1]
       /\ member' =
            IF found = {} THEN member
            ELSE [member EXCEPT ![Newest(found)] = [l \in Lists |->
                    IF l \in import.targets /\ CanAttach(Newest(found), l)
                    THEN "unconfirmed" ELSE @[l]]]
       /\ UNCHANGED <<subs, lists, public, suppressed, asking, faults, import, export, queue,
                      exporter, asked, handled>>

CompleteImport ==
    /\ importer.at = "upsert"
    /\ importer.row > Len(import.rows)
    /\ import' = [import EXCEPT !.status = "completed", !.created = importer.created,
                                !.updated = importer.updated, !.failed = importer.failed]
    /\ importer' = IdleImporter
    /\ queue' = queue \ {"import"}
    /\ UNCHANGED <<rows, public, suppressed, asking, faults, export, exporter, asked, handled>>

-----------------------------------------------------------------------------
(* Exports.                                                                *)

StartExport(p, selection, list) ==
    /\ export.status = "none"
    /\ (list = {}) = (selection # "list")
    /\ Begins(p, [Idle EXCEPT !.op = "export", !.at = "enqueue"])
    /\ export' = [NoExport EXCEPT !.status = "pending", !.selection = selection, !.list = list]
    /\ UNCHANGED <<rows, public, suppressed, faults, import, queue, importer, exporter, asked, handled>>

BeginExport ==
    /\ "export" \in queue
    /\ exporter = IdleExporter
    /\ IF export.status = "pending"
       THEN /\ export' = [export EXCEPT !.status = "running"]
            /\ exporter' = [IdleExporter EXCEPT !.at = "page"]
            /\ UNCHANGED queue
       ELSE /\ queue' = queue \ {"export"}
            /\ UNCHANGED <<export, exporter>>
    /\ UNCHANGED <<rows, public, suppressed, asking, faults, import, importer, asked, handled>>

(* The selected rows in the order of the queries, newest first: the rank   *)
(* of a row is the number of newer ones.                                   *)
Rank(i) == Cardinality({j \in Selected : j > i})
Batch(offset) ==
    LET n == IF offset >= Cardinality(Selected) THEN 0
             ELSE IF Cardinality(Selected) - offset > PageSize THEN PageSize
             ELSE Cardinality(Selected) - offset
    IN [k \in 1 .. n |-> CHOOSE i \in Selected : Rank(i) = offset + k - 1]
(* Mutant: the offset advances by the page size that was asked for, twice  *)
(* the size that Page.Normalize allows.                                    *)
OffsetAsked == IF exporter.got = <<>> THEN 0 ELSE 2 * PageSize
Offset == Len(exporter.got)

(* pageAll: one page by offset; the last page is the one that reaches the  *)
(* total it was counted with.                                              *)
ReadPage ==
    LET batch == Batch(Offset)
    IN /\ exporter.at = "page"
       /\ exporter' =
            [at |-> IF batch = <<>> \/ Offset + Len(batch) >= Cardinality(Selected)
                    THEN "stage" ELSE "page",
             got |-> exporter.got \o batch]
       /\ UNCHANGED <<rows, public, suppressed, asking, faults, import, export, queue, importer,
                      asked, handled>>

StageResult ==
    /\ exporter.at = "stage"
    /\ export' = [export EXCEPT !.staged = exporter.got]
    /\ exporter' = [exporter EXCEPT !.at = "complete"]
    /\ UNCHANGED <<rows, public, suppressed, asking, faults, import, queue, importer, asked, handled>>

CompleteExport ==
    /\ exporter.at = "complete"
    /\ export' = [export EXCEPT !.status = "completed", !.count = Len(exporter.got)]
    /\ exporter' = IdleExporter
    /\ queue' = queue \ {"export"}
    /\ UNCHANGED <<rows, public, suppressed, asking, faults, import, importer, asked, handled>>

(* gather fails: the export fails, and the job is run once more for nothing.*)
FailExport ==
    /\ exporter.at = "page"
    /\ faults < MaxFaults
    /\ faults' = faults + 1
    /\ export' = [export EXCEPT !.status = "failed"]
    /\ exporter' = IdleExporter
    /\ UNCHANGED <<rows, public, suppressed, asking, import, queue, importer, asked, handled>>

(* A worker dies, or a call that its job returns the error of fails: River *)
(* keeps the job and runs it again.                                        *)
WorkerFails ==
    /\ faults < MaxFaults
    /\ faults' = faults + 1
    /\ \/ importer # IdleImporter /\ importer' = IdleImporter /\ UNCHANGED exporter
       \/ exporter # IdleExporter /\ exporter' = IdleExporter /\ UNCHANGED importer
    /\ UNCHANGED <<rows, public, suppressed, asking, import, export, queue, asked, handled>>

-----------------------------------------------------------------------------
Public ==
    \/ \E p \in Slots, e \in Emails : SubmitPublicSubscription(p, e)
    \/ \E p \in Slots : UpsertPending(p)
    \/ \E p \in Slots : EnqueueOptinSend(p)
    \/ \E job \in optin : SendOptin(job)
    \/ \E e \in Emails : Expire(e)
    \/ \E p \in Slots, link \in links : ResendConfirmation(p, link)
    \/ \E p \in Slots : RefreshToken(p)
    \/ \E p \in Slots, link \in links : ConfirmSubscription(p, link)
    \/ \E p \in Slots : CheckSuppressed(p)
    \/ \E p \in Slots : UpsertConfirmed(p)
    \/ \E p \in Slots : ResolveID(p)
    \/ \E p \in Slots, l \in Lists : ConfirmMembership(p, l)
    \/ \E p \in Slots : DeletePending(p)
    \/ \E e \in Emails : ChangeSuppression(e)
    \/ \E p \in Slots, i \in Known : PublicUnsubscribe(p, i)
    \/ \E p \in Slots, i \in Known, ticked \in SUBSET Lists : UpdatePreferences(p, i, ticked)
    \/ \E p \in Slots, l \in Lists : SetStatus(p, l)

Operate ==
    \/ \E p \in Slots, i \in Known, state \in States : UpdateSubscriber(p, i, state)
    \/ \E p \in Slots : WriteSubscriber(p)
    \/ \E p \in Slots, e \in Emails, chosen \in SUBSET Lists : CreateSubscriber(p, e, chosen)
    \/ \E p \in Slots, l \in Lists : AttachCreated(p, l)
    \/ \E i \in Known : DeleteSubscriber(i)
    \/ \E i \in Known, l \in Lists : AddToList(i, l)
    \/ \E i \in Known, l \in Lists : RemoveFromList(i, l)
    \/ \E i \in Known, l \in Lists, status \in Statuses \ {"none"} : ChangeSubscriptionState(i, l, status)
    \/ \E l \in Lists : CreateList(l)
    \/ \E l \in Lists : DeleteList(l)
    \/ \E p \in Slots, targets \in SUBSET Lists, active \in BOOLEAN :
         SaveSubscriptionPage(p, targets, active)
    \/ \E p \in Slots : Reconfigure(p)
    \/ \E p \in Slots : RequestFails(p)

Bulk ==
    \/ \E p \in Slots, file \in Files, targets \in SUBSET Lists : StartImport(p, file, targets)
    \/ \E p \in Slots : EnqueueJob(p)
    \/ BeginImport
    \/ ImportRow
    \/ AttachToLists
    \/ CompleteImport
    \/ \E p \in Slots, selection \in Selections, list \in {{}} \cup {{l} : l \in Lists} :
         StartExport(p, selection, list)
    \/ BeginExport
    \/ ReadPage
    \/ StageResult
    \/ CompleteExport
    \/ FailExport
    \/ WorkerFails

(* What the export owes: everybody selected when it began, as long as      *)
(* nobody has left the selection since.                                    *)
Watch ==
    promised' = IF exporter.at = "idle" THEN Selected'
                ELSE IF Selected \subseteq Selected' THEN promised ELSE {}

Next == (Public \/ Operate \/ Bulk) /\ Watch

Spec == Init /\ [][Next]_vars

-----------------------------------------------------------------------------
(* Properties.                                                             *)

(* Types of the rows, the requests and the jobs.                           *)
TypeOK ==
    /\ subs \in Seq([email : Emails, state : States, live : BOOLEAN])
    /\ Len(subs) <= MaxSubs
    /\ member \in [Ids -> [Lists -> Statuses]]
    /\ lists \subseteq Lists
    /\ page \in [targets : SUBSET Lists, active : BOOLEAN]
    /\ pending \in [Emails -> PendingRows]
    /\ issued \in 0 .. MaxTokens
    /\ optin \subseteq [row : 0 .. MaxTokens, token : 0 .. MaxTokens]
    /\ links \subseteq [email : Emails, token : 0 .. MaxTokens]
    /\ suppressed \subseteq Emails
    /\ request \in [Slots -> Requests]
    /\ import.status \in JobStatuses \ {"failed"}
    /\ export.status \in JobStatuses
    /\ queue \subseteq {"import", "export"}
    /\ asked \subseteq Emails \X Lists

(* A membership is confirmed only if its address has opened a confirmation *)
(* link for that list or ticked it, or an operator has confirmed it: no    *)
(* submission, import or creation skips the opt-in.  It needs addresses    *)
(* that do not contain one another, see Finds.                             *)
ConfirmedByConsent ==
    \A i \in Live, l \in Lists :
        member[i][l] = "confirmed" => <<subs[i].email, l>> \in asked

(* A confirmation of an address that was suppressed when it began, and has *)
(* not been released since, writes no row at any of its steps.             *)
SuppressedStayOut ==
    [][\A p \in Slots :
          request[p].barred /\ request'[p] # request[p] => UNCHANGED <<rows, pending>>]_vars

(* A step of an import changes no existing subscriber, whatever its state, *)
(* and no existing membership, even one that was unsubscribed after the    *)
(* import began.                                                           *)
ImportOnlyAdds ==
    [][importer' # importer =>
          \A i \in Known :
              /\ subs'[i] = subs[i]
              /\ \A l \in Lists :
                    \/ member'[i][l] = member[i][l]
                    \/ member[i][l] = "none" /\ member'[i][l] = "unconfirmed"]_vars

(* A completed import has handled every row of its file exactly once and   *)
(* counted it exactly once, however often its job was delivered.           *)
ImportAccountsForRows ==
    import.status = "completed" =>
        /\ \A n \in DOMAIN handled : handled[n] = 1
        /\ import.created + import.updated + import.failed = Len(import.rows)

(* An export that completes contains everybody who was selected when it    *)
(* began, if nobody has left the selection since: rows that are added      *)
(* while its pages are read may be repeated, but push nobody out.          *)
ExportMissesNobody ==
    [][export.status # "completed" /\ export'.status = "completed" =>
          \A i \in promised : \E k \in DOMAIN export.staged : export.staged[k] = i]_vars

=============================================================================
