------------------------------ MODULE Accounts ------------------------------
(***************************************************************************)
(* Platform accounts (internal/auth) and the members of one workspace      *)
(* (internal/tenant): sign-up with e-mail verification, sessions, and      *)
(* invitations, which create an account of their own when the invited      *)
(* person has none.                                                        *)
(*                                                                         *)
(* An account is named by its address, which the database keeps unique.    *)
(* A verification, session or invitation is named by its place in the      *)
(* order of creation, which stands for its token: tokens are random and    *)
(* only their hashes are stored.  One action is one transaction; a handler *)
(* that makes several is a call that goes from step to step.               *)
(***************************************************************************)
EXTENDS Naturals, Sequences, FiniteSets

CONSTANTS
    People,            \* addresses
    Founder,           \* the one whose account is verified at the start
    Permitted,         \* addresses whose domain may register
    Callers,           \* concurrent calls
    MaxVerifications,  \* bound: verification links ever issued
    MaxSessions,       \* bound: sessions ever issued
    MaxInvitations,    \* bound: invitations ever created
    MaxCalls,          \* bound: sign-ups, resends, verifications, acceptances
    MaxAccountFaults   \* bound: crashes and failed enqueues

ASSUME AccountsAssumption ==
    /\ Founder \in People
    /\ Permitted \subseteq People
    /\ MaxVerifications \in Nat
    /\ MaxSessions \in Nat
    /\ MaxInvitations \in Nat
    /\ MaxCalls \in Nat
    /\ MaxAccountFaults \in Nat

VARIABLES
    account,        \* platform_users, per address
    verification,   \* email_verification_tokens
    mailJobs,       \* waiting auth.verification_send jobs
    mailbox,        \* verification links that have been mailed
    session,        \* platform_sessions
    workspace,      \* the workspace exists
    memberRole,     \* platform_user_tenants
    invitation,     \* invitations
    call,           \* what each call is doing
    calls,          \* calls so far (bounded)
    accountFaults,  \* faults so far (bounded)
    unmailed,       \* history: addresses that a fault has cost a link
    admitted        \* history: whom each invitation has let in

plane == <<account, verification, mailJobs, mailbox>>
tenancy == <<workspace, memberRole, invitation, admitted>>
calling == <<call, calls, accountFaults, unmailed>>
accountsVars == <<plane, session, tenancy, calling>>

-----------------------------------------------------------------------------
(* Rows.                                                                   *)

AccountStates == {"none", "unverified", "verified"}
Verifications == [user : People, consumed : BOOLEAN, expired : BOOLEAN, deleted : BOOLEAN]
NewVerification(u) == [user |-> u, consumed |-> FALSE, expired |-> FALSE, deleted |-> FALSE]
Unconsumed(u) ==
    {t \in DOMAIN verification :
        verification[t].user = u /\ ~verification[t].consumed /\ ~verification[t].deleted}

(* Session.IsLive: the row is neither revoked nor expired.                 *)
Sessions == [user : People, state : {"live", "revoked", "expired"}]
SignedIn(u) == \E s \in DOMAIN session : session[s] = [user |-> u, state |-> "live"]
CanIssueSession == Len(session) < MaxSessions
IssueSession(u) == session' = Append(session, [user |-> u, state |-> "live"])

Roles == {"none", "owner", "admin"}
Invitations == [email : People, status : {"pending", "accepted", "revoked"}, expired : BOOLEAN]
IsAcceptable(n) == invitation[n].status = "pending" /\ ~invitation[n].expired
Addressed(n, e) == invitation[n].status = "pending" /\ invitation[n].email = e
IsMember(u) == workspace /\ memberRole[u] # "none"

Calls ==
    [op : {"idle", "signup", "resend", "verify", "invite", "accept"},
     at : {"idle", "clear", "insert", "enqueue", "mark", "consume", "create", "admit",
           "register"},
     user : People, token : 0 .. MaxVerifications + MaxInvitations,
     seen : SUBSET (1 .. MaxVerifications)]
NoCall ==
    [op |-> "idle", at |-> "idle", user |-> Founder, token |-> 0, seen |-> {}]

Starts(c, r) ==
    /\ calls < MaxCalls
    /\ call[c] = NoCall
    /\ calls' = calls + 1
    /\ call' = [call EXCEPT ![c] = r]
    /\ UNCHANGED <<accountFaults, unmailed>>
IsAt(c, op, at) == call[c].op = op /\ call[c].at = at
Continues(c, r) == call' = [call EXCEPT ![c] = r] /\ UNCHANGED <<calls, accountFaults, unmailed>>
Returns(c) == Continues(c, NoCall)

AccountsInit ==
    /\ account = [u \in People |-> IF u = Founder THEN "verified" ELSE "none"]
    /\ verification = <<>>
    /\ mailJobs = {}
    /\ mailbox = {}
    /\ session = <<>>
    /\ workspace = FALSE
    /\ memberRole = [u \in People |-> "none"]
    /\ invitation = <<>>
    /\ call = [c \in Callers |-> NoCall]
    /\ calls = 0
    /\ accountFaults = 0
    /\ unmailed = {}
    /\ admitted = [n \in 1 .. MaxInvitations |-> {}]

-----------------------------------------------------------------------------
(* Registration and verification.                                          *)

(* Users.CreateWithVerification: the account and its first verification in *)
(* one transaction; the address is unique.                                 *)
CreateWithVerification(u) ==
    /\ account[u] = "none"
    /\ Len(verification) < MaxVerifications
    /\ account' = [account EXCEPT ![u] = "unverified"]
    /\ verification' = Append(verification, NewVerification(u))

(* RegistrationPolicy.Allows.                                              *)
Allows(u) == u \in Permitted

(* SignUpHandler: the mail job is enqueued after the transaction.          *)
SignUp(c, u) ==
    /\ Allows(u)
    /\ CreateWithVerification(u)
    /\ Starts(c, [NoCall EXCEPT !.op = "signup", !.at = "enqueue", !.user = u,
                                !.token = Len(verification) + 1])
    /\ UNCHANGED <<mailJobs, mailbox, session, tenancy>>

(* ResendEmailVerificationHandler: past the throttle, the account is       *)
(* looked up; only an unverified one gets a link.                          *)
ResendVerification(c, u) ==
    /\ account[u] = "unverified"
    /\ Starts(c, [NoCall EXCEPT !.op = "resend", !.at = "clear", !.user = u])
    /\ UNCHANGED <<plane, session, tenancy>>

(* EmailVerifications.Issue, first statement: DELETE sees the unconsumed   *)
(* rows that other transactions have committed by now.                     *)
ClearPending(c) ==
    /\ IsAt(c, "resend", "clear")
    /\ Continues(c, [call[c] EXCEPT !.at = "insert", !.seen = Unconsumed(call[c].user)])
    /\ UNCHANGED <<plane, session, tenancy>>

(* Second statement and commit: what was seen, and has not been consumed   *)
(* since, goes; the new row comes.                                         *)
InsertVerification(c) ==
    /\ IsAt(c, "resend", "insert")
    /\ Len(verification) < MaxVerifications
    /\ verification' =
         Append([t \in DOMAIN verification |->
                    IF t \in call[c].seen /\ ~verification[t].consumed
                    THEN [verification[t] EXCEPT !.deleted = TRUE]
                    ELSE verification[t]],
                NewVerification(call[c].user))
    /\ Continues(c, [call[c] EXCEPT !.at = "enqueue", !.token = Len(verification) + 1,
                                    !.seen = {}])
    /\ UNCHANGED <<account, mailJobs, mailbox, session, tenancy>>

(* Mutant: one waiting job per account is taken to be enough.              *)
EnqueueUnlessWaiting(c) ==
    /\ call[c].at = "enqueue"
    /\ mailJobs' = IF \E t \in mailJobs : verification[t].user = call[c].user THEN mailJobs
                   ELSE mailJobs \cup {call[c].token}
    /\ Returns(c)
    /\ UNCHANGED <<account, verification, mailbox, session, tenancy>>

EnqueueVerificationSend(c) ==
    /\ call[c].at = "enqueue"
    /\ mailJobs' = mailJobs \cup {call[c].token}
    /\ Returns(c)
    /\ UNCHANGED <<account, verification, mailbox, session, tenancy>>

(* VerificationWorker.Work: an account verified meanwhile gets no mail.  A *)
(* send that fails leaves the job for River to run again.                  *)
SendVerification(t) ==
    /\ t \in mailJobs
    /\ mailJobs' = mailJobs \ {t}
    /\ mailbox' = IF account[verification[t].user] = "verified" THEN mailbox
                  ELSE mailbox \cup {t}
    /\ UNCHANGED <<account, verification, session, tenancy, calling>>

(* VerifyEmailHandler.  A link whose row is gone, or that has expired, is  *)
(* refused, and a used one reports success; neither changes anything.      *)
VerifyEmail(c, t) ==
    /\ t \in mailbox
    /\ ~verification[t].deleted /\ ~verification[t].consumed /\ ~verification[t].expired
    /\ Starts(c, [NoCall EXCEPT !.op = "verify", !.at = "mark", !.token = t,
                                !.user = verification[t].user])
    /\ UNCHANGED <<plane, session, tenancy>>

(* Mutant: the token is consumed before the account is marked.             *)
ConsumeFirst(c) ==
    /\ IsAt(c, "verify", "mark")
    /\ \/ /\ ~verification[call[c].token].consumed
          /\ verification' = [verification EXCEPT ![call[c].token].consumed = TRUE]
          /\ UNCHANGED <<account, calling>>
       \/ /\ verification[call[c].token].consumed
          /\ account' = [account EXCEPT ![call[c].user] = "verified"]
          /\ Continues(c, [call[c] EXCEPT !.at = "consume"])
          /\ UNCHANGED verification
    /\ UNCHANGED <<mailJobs, mailbox, session, tenancy>>

MarkEmailVerified(c) ==
    /\ IsAt(c, "verify", "mark")
    /\ account' = [account EXCEPT ![call[c].user] = "verified"]
    /\ Continues(c, [call[c] EXCEPT !.at = "consume"])
    /\ UNCHANGED <<verification, mailJobs, mailbox, session, tenancy>>

(* Consume touches the row if it is still there and not consumed yet.      *)
ConsumeVerification(c) ==
    /\ IsAt(c, "verify", "consume")
    /\ verification' = [verification EXCEPT ![call[c].token].consumed =
                            @ \/ ~verification[call[c].token].deleted]
    /\ Returns(c)
    /\ UNCHANGED <<account, mailJobs, mailbox, session, tenancy>>

(* Time passes: EmailVerification.IsExpired, Session.IsLive,               *)
(* Invitation.IsAcceptable.                                                *)
VerificationExpires(t) ==
    /\ ~verification[t].expired
    /\ verification' = [verification EXCEPT ![t].expired = TRUE]
    /\ UNCHANGED <<account, mailJobs, mailbox, session, tenancy, calling>>

(* VerificationCleanupWorker: DeleteExpiredBefore, consumed or not.        *)
CleanUpVerifications ==
    /\ \E t \in DOMAIN verification : verification[t].expired /\ ~verification[t].deleted
    /\ verification' = [t \in DOMAIN verification |->
            [verification[t] EXCEPT !.deleted = @ \/ verification[t].expired]]
    /\ UNCHANGED <<account, mailJobs, mailbox, session, tenancy, calling>>

-----------------------------------------------------------------------------
(* Sessions and workspaces.                                                *)

(* LogInHandler.  The account is read before the session is written, but   *)
(* a verified account stays one, so the two are one step.                  *)
LogIn(u) ==
    /\ account[u] = "verified"
    /\ CanIssueSession
    /\ IssueSession(u)
    /\ UNCHANGED <<plane, tenancy, calling>>

LogOut(s) ==
    /\ session[s].state = "live"
    /\ session' = [session EXCEPT ![s].state = "revoked"]
    /\ UNCHANGED <<plane, tenancy, calling>>

SessionExpires(s) ==
    /\ session[s].state = "live"
    /\ session' = [session EXCEPT ![s].state = "expired"]
    /\ UNCHANGED <<plane, tenancy, calling>>

(* Tenants.CreateWorkspace: the workspace and its owner in one transaction; *)
(* the slug is unique.                                                     *)
CreateWorkspace(u) ==
    /\ SignedIn(u)
    /\ ~workspace
    /\ workspace' = TRUE
    /\ memberRole' = [memberRole EXCEPT ![u] = "owner"]
    /\ UNCHANGED <<plane, session, invitation, admitted, calling>>

-----------------------------------------------------------------------------
(* Invitations.                                                            *)

(* InviteTeammateHandler: the directory is asked first.                    *)
InviteTeammate(c, u, e) ==
    /\ SignedIn(u) /\ IsMember(u)
    /\ ~IsMember(e)
    /\ Starts(c, [NoCall EXCEPT !.op = "invite", !.at = "create", !.user = e])
    /\ UNCHANGED <<plane, session, tenancy>>

(* Invitations.Create: one pending row per address, even an expired one.   *)
CreateInvitation(c) ==
    /\ IsAt(c, "invite", "create")
    /\ IF \E n \in DOMAIN invitation : Addressed(n, call[c].user)
       THEN UNCHANGED invitation
       ELSE /\ Len(invitation) < MaxInvitations
            /\ invitation' = Append(invitation,
                   [email |-> call[c].user, status |-> "pending", expired |-> FALSE])
    /\ Returns(c)
    /\ UNCHANGED <<plane, session, workspace, memberRole, admitted>>

(* Invitations.Update locks the row: Invitation.Revoke.                    *)
RevokeInvitation(u, n) ==
    /\ SignedIn(u) /\ IsMember(u)
    /\ invitation[n].status = "pending"
    /\ invitation' = [invitation EXCEPT ![n].status = "revoked"]
    /\ UNCHANGED <<plane, session, workspace, memberRole, admitted, calling>>

InvitationExpires(n) ==
    /\ invitation[n].status = "pending"
    /\ ~invitation[n].expired
    /\ invitation' = [invitation EXCEPT ![n].expired = TRUE]
    /\ UNCHANGED <<plane, session, workspace, memberRole, admitted, calling>>

(* AcceptInvitationHandler: the row is looked up, then one transaction of  *)
(* onboarding does the rest.  A person who is signed in joins whatever the *)
(* address of the invitation; an anonymous one registers that address.     *)
AcceptInvitation(c, n, u, at) ==
    /\ IsAcceptable(n)
    /\ at = "admit" => SignedIn(u)
    /\ at = "register" => u = invitation[n].email
    /\ Starts(c, [NoCall EXCEPT !.op = "accept", !.at = at, !.user = u, !.token = n])
    /\ UNCHANGED <<plane, session, tenancy>>

(* Mutant: the status is only looked at by the lookup.                     *)
AcceptRow(n) == invitation' = [invitation EXCEPT ![n].status = "accepted"]

(* acceptInvitationRow: UPDATE ... WHERE pending and unexpired.            *)
AcceptInvitationRow(n) ==
    IsAcceptable(n) /\ invitation' = [invitation EXCEPT ![n].status = "accepted"]

(* addMembershipRow: a member keeps its role.                              *)
AddMembershipRow(n, u) ==
    /\ memberRole' = [memberRole EXCEPT ![u] = IF @ = "none" THEN "admin" ELSE @]
    /\ admitted' = [admitted EXCEPT ![n] = @ \cup {u}]

AcceptForExistingUser(c) ==
    /\ IsAt(c, "accept", "admit")
    /\ AcceptInvitationRow(call[c].token)
    /\ AddMembershipRow(call[c].token, call[c].user)
    /\ Returns(c)
    /\ UNCHANGED <<plane, session, workspace>>

(* The account is created unverified, with a session but no verification.  *)
AcceptForNewUser(c) ==
    /\ IsAt(c, "accept", "register")
    /\ account[call[c].user] = "none"
    /\ CanIssueSession
    /\ AcceptInvitationRow(call[c].token)
    /\ account' = [account EXCEPT ![call[c].user] = "unverified"]
    /\ IssueSession(call[c].user)
    /\ AddMembershipRow(call[c].token, call[c].user)
    /\ Returns(c)
    /\ UNCHANGED <<verification, mailJobs, mailbox, workspace>>

(* The transaction rolls back: the row is not acceptable any more, or the  *)
(* address has an account already.                                         *)
AcceptFails(c) ==
    /\ call[c].op = "accept"
    /\ \/ ~IsAcceptable(call[c].token)
       \/ call[c].at = "register" /\ account[call[c].user] # "none"
    /\ Returns(c)
    /\ UNCHANGED <<plane, session, tenancy>>

(* A call fails or its process dies between two steps.                     *)
CallFails(c) ==
    /\ call[c] # NoCall
    /\ accountFaults < MaxAccountFaults
    /\ accountFaults' = accountFaults + 1
    /\ unmailed' = IF call[c].at = "enqueue" THEN unmailed \cup {call[c].user} ELSE unmailed
    /\ call' = [call EXCEPT ![c] = NoCall]
    /\ UNCHANGED <<plane, session, tenancy, calls>>

-----------------------------------------------------------------------------
Register ==
    \/ \E c \in Callers, u \in People : SignUp(c, u)
    \/ \E c \in Callers, u \in People : ResendVerification(c, u)
    \/ \E c \in Callers : ClearPending(c)
    \/ \E c \in Callers : InsertVerification(c)
    \/ \E c \in Callers : EnqueueVerificationSend(c)
    \/ \E t \in mailJobs : SendVerification(t)
    \/ \E c \in Callers, t \in mailbox : VerifyEmail(c, t)
    \/ \E c \in Callers : MarkEmailVerified(c)
    \/ \E c \in Callers : ConsumeVerification(c)
    \/ \E t \in DOMAIN verification : VerificationExpires(t)
    \/ CleanUpVerifications

Join ==
    \/ \E u \in People : LogIn(u)
    \/ \E s \in DOMAIN session : LogOut(s)
    \/ \E s \in DOMAIN session : SessionExpires(s)
    \/ \E u \in People : CreateWorkspace(u)
    \/ \E c \in Callers, u, e \in People : InviteTeammate(c, u, e)
    \/ \E c \in Callers : CreateInvitation(c)
    \/ \E u \in People, n \in DOMAIN invitation : RevokeInvitation(u, n)
    \/ \E n \in DOMAIN invitation : InvitationExpires(n)
    \/ \E c \in Callers, n \in DOMAIN invitation, u \in People, at \in {"admit", "register"} :
          AcceptInvitation(c, n, u, at)
    \/ \E c \in Callers : AcceptForExistingUser(c)
    \/ \E c \in Callers : AcceptForNewUser(c)
    \/ \E c \in Callers : AcceptFails(c)

AccountsNext == Register \/ Join \/ \E c \in Callers : CallFails(c)

AccountsSpec == AccountsInit /\ [][AccountsNext]_accountsVars

-----------------------------------------------------------------------------
(* Properties.                                                             *)

(* Types of the rows and the calls.                                        *)
AccountsTypeOK ==
    /\ account \in [People -> AccountStates]
    /\ verification \in Seq(Verifications)
    /\ Len(verification) <= MaxVerifications
    /\ mailJobs \subseteq DOMAIN verification
    /\ mailbox \subseteq DOMAIN verification
    /\ session \in Seq(Sessions)
    /\ workspace \in BOOLEAN
    /\ memberRole \in [People -> Roles]
    /\ invitation \in Seq(Invitations)
    /\ Len(invitation) <= MaxInvitations
    /\ call \in [Callers -> Calls]
    /\ unmailed \subseteq People
    /\ admitted \in [1 .. MaxInvitations -> SUBSET People]

(* A used link never belongs to an account that is still unverified: no    *)
(* crash between marking the account and consuming the link strands a      *)
(* person behind a link that reports success.                              *)
ConsumedMeansVerified ==
    \A t \in DOMAIN verification :
        verification[t].consumed => account[verification[t].user] = "verified"

(* An invitation lets one person in, however many accept it at once, and   *)
(* nobody once it has been revoked, even if its lookup had succeeded.      *)
InvitationAdmitsOnce ==
    \A n \in DOMAIN invitation :
        /\ Cardinality(admitted[n]) <= 1
        /\ admitted[n] # {} => invitation[n].status = "accepted"

(* The links that could verify an unverified account are queued or mailed, *)
(* once its calls have returned, unless a fault came between the row and   *)
(* the job: overlapping resends do not leave a valid link that nobody gets. *)
ValidLinksAreMailed ==
    \A u \in People :
        \/ account[u] = "verified"
        \/ u \in unmailed
        \/ \E c \in Callers : call[c].user = u /\ call[c].at = "enqueue"
        \/ Unconsumed(u) \subseteq mailJobs \cup mailbox

=============================================================================
