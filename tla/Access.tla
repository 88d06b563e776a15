------------------------------- MODULE Access -------------------------------
(***************************************************************************)
(* Identity and access inside one workspace (internal/iam): the workspace  *)
(* users and the bootstrap of the Owner role, workspace sessions with the  *)
(* two-factor challenge and its recovery codes, roles and their            *)
(* assignments, and API keys.                                              *)
(*                                                                         *)
(* Permissions come down to one question, whether their holder manages     *)
(* roles and keys; a batch of recovery codes is one code, named by its     *)
(* batch; a user has a role on the workspace and one on the only list.     *)
(* Audit rows are best-effort and decide nothing, so they are left out.    *)
(* One action is one transaction or, where a transaction reads a row that  *)
(* it writes back later without a lock, one statement of it.               *)
(***************************************************************************)
EXTENDS Naturals, Sequences, FiniteSets

CONSTANTS
    Members,          \* platform users who are members of the workspace
    RoleNames,        \* names a role may have, "Owner" among them
    AccessCallers,    \* concurrent requests
    MaxLogins,        \* bound: workspace sessions ever opened
    MaxRoles,         \* bound: roles ever created
    MaxKeys,          \* bound: API keys ever issued
    MaxBatches,       \* bound: batches of recovery codes
    MaxRequests,      \* bound: challenges and guarded requests
    MaxAccessFaults   \* bound: crashes and failed statements

ASSUME AccessAssumption ==
    /\ "Owner" \in RoleNames
    /\ MaxLogins \in Nat
    /\ MaxRoles \in Nat \ {0}
    /\ MaxKeys \in Nat
    /\ MaxBatches \in Nat \ {0}
    /\ MaxRequests \in Nat
    /\ MaxAccessFaults \in Nat

VARIABLES
    totp,           \* users: no row yet, or two-factor off or on
    codes,          \* recovery_codes that are unused, per user
    batches,        \* batches made so far
    login,          \* sessions
    role,           \* roles
    tenantRole,     \* user_roles: the workspace role of each user, 0 if none
    listRole,       \* user_list_roles, on the one list
    apiKey,         \* api_keys
    request,        \* what each request is doing
    requests,       \* challenges and guarded requests so far (bounded)
    accessFaults,   \* faults so far (bounded)
    bootstrapped,   \* history: users that were given the Owner role on entry
    ownerKept,      \* history: the Owner role was never renamed or deleted
    opened          \* history: sessions each recovery code has opened

people == <<totp, codes, batches>>
roles == <<role, tenantRole, listRole>>
requesting == <<request, requests, accessFaults>>
histories == <<bootstrapped, ownerKept, opened>>
accessVars == <<people, login, roles, apiKey, requesting, histories>>

-----------------------------------------------------------------------------
(* Rows.                                                                   *)

TotpStates == {"absent", "off", "on"}
Logins == [user : Members, state : {"totp-pending", "active", "revoked"}]
RoleRows == [name : RoleNames, manages : BOOLEAN, deleted : BOOLEAN]
Keys == [manages : BOOLEAN, revoked : BOOLEAN]

LiveRoles == {r \in DOMAIN role : ~role[r].deleted}
HasRoleNamed(n) == \E r \in LiveRoles : role[r].name = n

(* Roles.EffectiveFor: the permissions of the workspace role.              *)
EffectiveFor(u) == tenantRole[u] # 0 /\ role[tenantRole[u]].manages

Requests ==
    [op : {"idle", "enter", "challenge", "guarded", "confirm", "disable"},
     at : {"idle", "roles", "owner", "assign", "reload", "open", "meet", "read", "write",
           "perform", "clear", "insert"},
     user : Members \cup {"nobody"}, login : 0 .. MaxLogins, code : 0 .. MaxBatches, role : 0 .. MaxRoles,
     totp : BOOLEAN, bySession : BOOLEAN, manages : BOOLEAN, seen : SUBSET (1 .. MaxBatches)]
NoRequest ==
    [op |-> "idle", at |-> "idle", user |-> "nobody", login |-> 0, code |-> 0,
     role |-> 0, totp |-> FALSE, bySession |-> FALSE, manages |-> FALSE, seen |-> {}]

Accepts(c, r) ==
    /\ request[c] = NoRequest
    /\ r.op # "enter" => requests < MaxRequests
    /\ requests' = IF r.op = "enter" THEN requests ELSE requests + 1
    /\ request' = [request EXCEPT ![c] = r]
    /\ UNCHANGED accessFaults
Doing(c, op, at) == request[c].op = op /\ request[c].at = at
Proceeds(c, r) == request' = [request EXCEPT ![c] = r] /\ UNCHANGED <<requests, accessFaults>>
Answers(c) == Proceeds(c, NoRequest)

(* A new workspace, or one whose first member is its Owner and has enrolled *)
(* in two-factor sign-in.                                                  *)
AccessInit ==
    /\ \/ /\ totp = [u \in Members |-> "absent"]
          /\ codes = [u \in Members |-> {}]
          /\ batches = 0
          /\ role = <<>>
          /\ tenantRole = [u \in Members |-> 0]
          /\ bootstrapped = {}
       \/ \E first \in Members :
             /\ totp = [u \in Members |-> IF u = first THEN "on" ELSE "absent"]
             /\ codes = [u \in Members |-> IF u = first THEN {1} ELSE {}]
             /\ batches = 1
             /\ role = <<[name |-> "Owner", manages |-> TRUE, deleted |-> FALSE]>>
             /\ tenantRole = [u \in Members |-> IF u = first THEN 1 ELSE 0]
             /\ bootstrapped = {first}
    /\ login = <<>>
    /\ listRole = [u \in Members |-> 0]
    /\ apiKey = <<>>
    /\ request = [c \in AccessCallers |-> NoRequest]
    /\ requests = 0
    /\ accessFaults = 0
    /\ ownerKept = TRUE
    /\ opened = [b \in 1 .. MaxBatches |-> {}]

-----------------------------------------------------------------------------
(* Entering the workspace.                                                 *)

(* OpenWorkspaceSessionHandler: a known user goes on with the row as read; *)
(* Users.Add makes a row for a new one.                                    *)
OpenWorkspaceSession(c, u) ==
    \/ /\ totp[u] # "absent"
       /\ Accepts(c, [NoRequest EXCEPT !.op = "enter", !.at = "open", !.user = u,
                                       !.totp = totp[u] = "on"])
       /\ UNCHANGED <<people, login, roles, apiKey, histories>>
    \/ /\ totp[u] = "absent"
       /\ totp' = [totp EXCEPT ![u] = "off"]
       /\ Accepts(c, [NoRequest EXCEPT !.op = "enter", !.at = "roles", !.user = u])
       /\ UNCHANGED <<codes, batches, login, roles, apiKey, histories>>

(* hasOwnerRole looks for the role by its name.                            *)
LookForOwner(c) ==
    /\ Doing(c, "enter", "roles")
    /\ Proceeds(c, [request[c] EXCEPT !.at = IF HasRoleNamed("Owner") THEN "reload" ELSE "owner"])
    /\ UNCHANGED <<people, login, roles, apiKey, histories>>

(* Mutant: names are not unique.                                           *)
AddAnyRole(n, m) ==
    /\ Len(role) < MaxRoles
    /\ role' = Append(role, [name |-> n, manages |-> m, deleted |-> FALSE])

(* Roles.Add: the name is unique.                                          *)
AddRole(n, m) ==
    /\ ~HasRoleNamed(n)
    /\ Len(role) < MaxRoles
    /\ role' = Append(role, [name |-> n, manages |-> m, deleted |-> FALSE])

(* The entry fails if another one has created the role since.              *)
CreateOwnerRole(c) ==
    /\ Doing(c, "enter", "owner")
    /\ \/ /\ AddRole("Owner", TRUE)
          /\ Proceeds(c, [request[c] EXCEPT !.at = "assign", !.role = Len(role) + 1])
       \/ /\ HasRoleNamed("Owner")
          /\ UNCHANGED role
          /\ Answers(c)
    /\ UNCHANGED <<people, login, tenantRole, listRole, apiKey, histories>>

(* The entry fails if the role has been deleted since.                     *)
AssignOwnerRole(c) ==
    /\ Doing(c, "enter", "assign")
    /\ IF request[c].role \in LiveRoles
       THEN /\ tenantRole' = [tenantRole EXCEPT ![request[c].user] = request[c].role]
            /\ bootstrapped' = bootstrapped \cup {request[c].user}
            /\ Proceeds(c, [request[c] EXCEPT !.at = "reload", !.role = 0])
       ELSE Answers(c) /\ UNCHANGED <<tenantRole, bootstrapped>>
    /\ UNCHANGED <<people, login, role, listRole, apiKey, ownerKept, opened>>

ReloadUser(c) ==
    /\ Doing(c, "enter", "reload")
    /\ Proceeds(c, [request[c] EXCEPT !.at = "open", !.totp = totp[request[c].user] = "on"])
    /\ UNCHANGED <<people, login, roles, apiKey, histories>>

(* NewSession and Sessions.Add: pending if two-factor was on when read.    *)
AddSession(c) ==
    /\ Doing(c, "enter", "open")
    /\ Len(login) < MaxLogins
    /\ login' = Append(login,
           [user |-> request[c].user,
            state |-> IF request[c].totp THEN "totp-pending" ELSE "active"])
    /\ Answers(c)
    /\ UNCHANGED <<people, roles, apiKey, histories>>

(* CloseSessionHandler: whatever state was read, "revoked" is written.  An *)
(* expired session authenticates nothing either, so this stands for it too. *)
CloseSession(s) ==
    /\ login[s].state # "revoked"
    /\ login' = [login EXCEPT ![s].state = "revoked"]
    /\ UNCHANGED <<people, roles, apiKey, requesting, histories>>

-----------------------------------------------------------------------------
(* The two-factor challenge.                                               *)

(* VerifyTOTPChallengeHandler: the session is pending and its user has     *)
(* two-factor on; the answer is a one-time password or a recovery code,    *)
(* 0 or the number of a code that the user was given.                      *)
VerifyTOTPChallenge(c, s, code) ==
    /\ login[s].state = "totp-pending"
    /\ totp[login[s].user] = "on"
    /\ code \in 0 .. batches
    /\ Accepts(c, [NoRequest EXCEPT !.op = "challenge", !.at = "meet", !.login = s,
                                    !.user = login[s].user, !.code = code])
    /\ UNCHANGED <<people, login, roles, apiKey, histories>>

(* Mutant: the code is looked up but not marked as used.                   *)
ConsumeNothing(c) ==
    /\ request[c].code \in codes[request[c].user]
    /\ UNCHANGED codes

(* RecoveryCodes.Consume: UPDATE ... WHERE used_at IS NULL.                *)
Consume(c) ==
    /\ request[c].code \in codes[request[c].user]
    /\ codes' = [codes EXCEPT ![request[c].user] = @ \ {request[c].code}]

ChallengeMet(c) ==
    /\ Doing(c, "challenge", "meet")
    /\ \/ /\ request[c].code = 0
          /\ UNCHANGED codes
          /\ Proceeds(c, [request[c] EXCEPT !.at = "read"])
       \/ /\ Consume(c)
          /\ Proceeds(c, [request[c] EXCEPT !.at = "read"])
       \/ /\ request[c].code \notin codes[request[c].user] \cup {0}
          /\ UNCHANGED codes
          /\ Answers(c)
    /\ UNCHANGED <<totp, batches, login, roles, apiKey, histories>>

(* Sessions.Update, SELECT: Session.CompleteTOTP insists on a pending one. *)
ReadPending(c) ==
    /\ Doing(c, "challenge", "read")
    /\ IF login[request[c].login].state = "totp-pending"
       THEN Proceeds(c, [request[c] EXCEPT !.at = "write"])
       ELSE Answers(c)
    /\ UNCHANGED <<people, login, roles, apiKey, histories>>

(* Sessions.Update, UPDATE: the row is not locked in between.              *)
WriteActive(c) ==
    /\ Doing(c, "challenge", "write")
    /\ login' = [login EXCEPT ![request[c].login].state = "active"]
    /\ opened' = IF request[c].code = 0 THEN opened
                 ELSE [opened EXCEPT ![request[c].code] = @ \cup {request[c].login}]
    /\ Answers(c)
    /\ UNCHANGED <<people, roles, apiKey, bootstrapped, ownerKept>>

-----------------------------------------------------------------------------
(* Guarded requests: authz resolves the principal first, and the handler   *)
(* acts on what was resolved.                                              *)

AuthenticatePrincipal(c, s) ==
    /\ login[s].state = "active"
    /\ Accepts(c, [NoRequest EXCEPT !.op = "guarded", !.at = "perform", !.user = login[s].user,
                                    !.bySession = TRUE, !.manages = EffectiveFor(login[s].user)])
    /\ UNCHANGED <<people, login, roles, apiKey, histories>>

AuthenticateAPIKey(c, k) ==
    /\ ~apiKey[k].revoked
    /\ Accepts(c, [NoRequest EXCEPT !.op = "guarded", !.at = "perform",
                                    !.manages = apiKey[k].manages])
    /\ UNCHANGED <<people, login, roles, apiKey, histories>>

(* Server.requirePermission.                                               *)
MayManage(c) == Doing(c, "guarded", "perform") /\ request[c].manages

CreateRole(c, n, m) ==
    /\ MayManage(c)
    /\ AddRole(n, m)
    /\ Answers(c)
    /\ UNCHANGED <<people, login, tenantRole, listRole, apiKey, histories>>

(* Roles.Update writes the whole row whatever it read.                     *)
UpdateRole(c, r, n, m) ==
    /\ MayManage(c)
    /\ r \in LiveRoles
    /\ role[r].name = n \/ ~HasRoleNamed(n)
    /\ role' = [role EXCEPT ![r].name = n, ![r].manages = m]
    /\ ownerKept' = (ownerKept /\ (role[r].name = "Owner" => n = "Owner"))
    /\ Answers(c)
    /\ UNCHANGED <<people, login, tenantRole, listRole, apiKey, bootstrapped, opened>>

(* Roles.Delete: a role in use stays; the foreign keys cover assignments   *)
(* that come after the count.                                              *)
DeleteRole(c, r) ==
    /\ MayManage(c)
    /\ r \in LiveRoles
    /\ \A u \in Members : tenantRole[u] # r /\ listRole[u] # r
    /\ role' = [role EXCEPT ![r].deleted = TRUE]
    /\ ownerKept' = (ownerKept /\ role[r].name # "Owner")
    /\ Answers(c)
    /\ UNCHANGED <<people, login, tenantRole, listRole, apiKey, bootstrapped, opened>>

AssignRole(c, u, r) ==
    /\ MayManage(c)
    /\ totp[u] # "absent" /\ r \in LiveRoles
    /\ tenantRole' = [tenantRole EXCEPT ![u] = r]
    /\ Answers(c)
    /\ UNCHANGED <<people, login, role, listRole, apiKey, histories>>

AssignListRole(c, u, r) ==
    /\ MayManage(c)
    /\ totp[u] # "absent" /\ r \in LiveRoles
    /\ listRole' = [listRole EXCEPT ![u] = r]
    /\ Answers(c)
    /\ UNCHANGED <<people, login, role, tenantRole, apiKey, histories>>

RevokeRole(c, u) ==
    /\ MayManage(c)
    /\ listRole' = [listRole EXCEPT ![u] = 0]
    /\ Answers(c)
    /\ UNCHANGED <<people, login, role, tenantRole, apiKey, histories>>

(* created_by references a user, so a key cannot issue another one.        *)
IssueAPIKey(c, m) ==
    /\ MayManage(c)
    /\ request[c].bySession
    /\ Len(apiKey) < MaxKeys
    /\ apiKey' = Append(apiKey, [manages |-> m, revoked |-> FALSE])
    /\ Answers(c)
    /\ UNCHANGED <<people, login, roles, histories>>

RevokeAPIKey(c, k) ==
    /\ MayManage(c)
    /\ ~apiKey[k].revoked
    /\ apiKey' = [apiKey EXCEPT ![k].revoked = TRUE]
    /\ Answers(c)
    /\ UNCHANGED <<people, login, roles, histories>>

(* ConfirmTOTPHandler: the user row first, the codes in a transaction of   *)
(* their own, whose DELETE and INSERTs see only what is committed.         *)
ConfirmTOTP(c) ==
    /\ Doing(c, "guarded", "perform") /\ request[c].bySession
    /\ batches < MaxBatches
    /\ totp' = [totp EXCEPT ![request[c].user] = "on"]
    /\ Proceeds(c, [NoRequest EXCEPT !.op = "confirm", !.at = "clear", !.user = request[c].user])
    /\ UNCHANGED <<codes, batches, login, roles, apiKey, histories>>

ClearCodes(c) ==
    /\ Doing(c, "confirm", "clear")
    /\ Proceeds(c, [request[c] EXCEPT !.at = "insert", !.seen = codes[request[c].user]])
    /\ UNCHANGED <<people, login, roles, apiKey, histories>>

AddBatch(c) ==
    /\ Doing(c, "confirm", "insert")
    /\ batches < MaxBatches
    /\ batches' = batches + 1
    /\ codes' = [codes EXCEPT ![request[c].user] = (@ \ request[c].seen) \cup {batches + 1}]
    /\ Answers(c)
    /\ UNCHANGED <<totp, login, roles, apiKey, histories>>

DisableTOTP(c) ==
    /\ Doing(c, "guarded", "perform") /\ request[c].bySession
    /\ totp' = [totp EXCEPT ![request[c].user] = "off"]
    /\ Proceeds(c, [NoRequest EXCEPT !.op = "disable", !.at = "clear", !.user = request[c].user])
    /\ UNCHANGED <<codes, batches, login, roles, apiKey, histories>>

DeleteCodes(c) ==
    /\ Doing(c, "disable", "clear")
    /\ codes' = [codes EXCEPT ![request[c].user] = {}]
    /\ Answers(c)
    /\ UNCHANGED <<totp, batches, login, roles, apiKey, histories>>

(* The handler refuses: not permitted, not found, taken or in use.         *)
Refuse(c) ==
    /\ Doing(c, "guarded", "perform")
    /\ Answers(c)
    /\ UNCHANGED <<people, login, roles, apiKey, histories>>

(* A statement fails or the process dies between two of them.              *)
RequestFails(c) ==
    /\ request[c].op \in {"enter", "challenge", "confirm", "disable"}
    /\ accessFaults < MaxAccessFaults
    /\ accessFaults' = accessFaults + 1
    /\ request' = [request EXCEPT ![c] = NoRequest]
    /\ UNCHANGED <<people, login, roles, apiKey, requests, histories>>

-----------------------------------------------------------------------------
Enter ==
    \/ \E c \in AccessCallers, u \in Members : OpenWorkspaceSession(c, u)
    \/ \E c \in AccessCallers : LookForOwner(c)
    \/ \E c \in AccessCallers : CreateOwnerRole(c)
    \/ \E c \in AccessCallers : AssignOwnerRole(c)
    \/ \E c \in AccessCallers : ReloadUser(c)
    \/ \E c \in AccessCallers : AddSession(c)
    \/ \E s \in DOMAIN login : CloseSession(s)
    \/ \E c \in AccessCallers, s \in DOMAIN login, b \in 0 .. MaxBatches :
          VerifyTOTPChallenge(c, s, b)
    \/ \E c \in AccessCallers : ChallengeMet(c)
    \/ \E c \in AccessCallers : ReadPending(c)
    \/ \E c \in AccessCallers : WriteActive(c)

Manage ==
    \/ \E c \in AccessCallers, s \in DOMAIN login : AuthenticatePrincipal(c, s)
    \/ \E c \in AccessCallers, k \in DOMAIN apiKey : AuthenticateAPIKey(c, k)
    \/ \E c \in AccessCallers, n \in RoleNames, m \in BOOLEAN : CreateRole(c, n, m)
    \/ \E c \in AccessCallers, r \in DOMAIN role, n \in RoleNames, m \in BOOLEAN :
          UpdateRole(c, r, n, m)
    \/ \E c \in AccessCallers, r \in DOMAIN role : DeleteRole(c, r)
    \/ \E c \in AccessCallers, u \in Members, r \in DOMAIN role : AssignRole(c, u, r)
    \/ \E c \in AccessCallers, u \in Members, r \in DOMAIN role : AssignListRole(c, u, r)
    \/ \E c \in AccessCallers, u \in Members : RevokeRole(c, u)
    \/ \E c \in AccessCallers, m \in BOOLEAN : IssueAPIKey(c, m)
    \/ \E c \in AccessCallers, k \in DOMAIN apiKey : RevokeAPIKey(c, k)
    \/ \E c \in AccessCallers : ConfirmTOTP(c)
    \/ \E c \in AccessCallers : ClearCodes(c)
    \/ \E c \in AccessCallers : AddBatch(c)
    \/ \E c \in AccessCallers : DisableTOTP(c)
    \/ \E c \in AccessCallers : DeleteCodes(c)
    \/ \E c \in AccessCallers : Refuse(c)

AccessNext == Enter \/ Manage \/ \E c \in AccessCallers : RequestFails(c)

AccessSpec == AccessInit /\ [][AccessNext]_accessVars

-----------------------------------------------------------------------------
(* Properties.                                                             *)

(* Types of the rows and the requests.                                     *)
AccessTypeOK ==
    /\ totp \in [Members -> TotpStates]
    /\ codes \in [Members -> SUBSET (1 .. MaxBatches)]
    /\ batches \in 0 .. MaxBatches
    /\ login \in Seq(Logins)
    /\ Len(login) <= MaxLogins
    /\ role \in Seq(RoleRows)
    /\ Len(role) <= MaxRoles
    /\ tenantRole \in [Members -> 0 .. Len(role)]
    /\ listRole \in [Members -> 0 .. Len(role)]
    /\ apiKey \in Seq(Keys)
    /\ request \in [AccessCallers -> Requests]
    /\ bootstrapped \subseteq Members
    /\ ownerKept \in BOOLEAN
    /\ opened \in [1 .. MaxBatches -> SUBSET (1 .. MaxLogins)]

(* A recovery code opens one session, however many pending sessions answer *)
(* with it at once and wherever their handlers stop.                       *)
CodeOpensOneSession == \A b \in 1 .. MaxBatches : Cardinality(opened[b]) <= 1

(* However many members enter a new workspace at once, entering makes one  *)
(* of them its Owner; as long as the role keeps its name.                  *)
OneBootstrapOwner == ownerKept => Cardinality(bootstrapped) <= 1

=============================================================================
