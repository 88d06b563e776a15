----------------------------- MODULE AccessProofs -----------------------------
(* Proofs about Access, for any number of members and requests, any role   *)
(* names and any bounds.                                                   *)
EXTENDS Access, FiniteSetTheorems, SequenceTheorems, TLAPS

(* The types of everything but the requests.                               *)
RowsOK ==
    /\ totp \in [Members -> TotpStates]
    /\ codes \in [Members -> SUBSET (1 .. MaxBatches)]
    /\ batches \in 0 .. MaxBatches
    /\ login \in Seq(Logins)
    /\ Len(login) <= MaxLogins
    /\ role \in Seq(RoleRows)
    /\ Len(role) <= MaxRoles
    /\ tenantRole \in [Members -> 0 .. Len(role)]
    /\ listRole \in [Members -> 0 .. Len(role)]
    /\ apiKey \in Seq(Keys)
    /\ bootstrapped \subseteq Members
    /\ ownerKept \in BOOLEAN
    /\ opened \in [1 .. MaxBatches -> SUBSET (1 .. MaxLogins)]

(* A request is about a user and a session that exist.                     *)
ByUser(r) == r.op \in {"enter", "challenge", "confirm", "disable"} \/ (r.op = "guarded" /\ r.bySession)
RequestMatches(r) ==
    /\ ByUser(r) => r.user \in Members
    /\ r.op = "challenge" => r.login \in DOMAIN login

RequestsMatch == \A c \in AccessCallers : RequestMatches(request[c])

(* A recovery code is in one place: one user still has it, or one          *)
(* challenge has consumed it and not yet opened its session, or it has     *)
(* opened a session.                                                       *)
Spending(r) == r.op = "challenge" /\ r.at \in {"read", "write"} /\ r.code # 0
Given(b) == \E u \in Members : b \in codes[u]

CodesInOnePlace ==
    /\ \A u \in Members : \A b \in codes[u] : b <= batches /\ opened[b] = {}
    /\ \A u, v \in Members : u # v => codes[u] \cap codes[v] = {}
    /\ \A c \in AccessCallers : Spending(request[c]) =>
           LET b == request[c].code IN b <= batches /\ opened[b] = {} /\ ~Given(b)
    /\ \A c, d \in AccessCallers :
           c # d /\ Spending(request[c]) /\ Spending(request[d]) => request[c].code # request[d].code
    /\ \A b \in 1 .. MaxBatches :
           opened[b] = {} \/ (b <= batches /\ \E s \in 1 .. MaxLogins : opened[b] = {s})

(* While the Owner role keeps its name, the entry that has created it is   *)
(* the only one to assign it.                                              *)
Assigning(r) == r.op = "enter" /\ r.at = "assign"

OwnerByCreation ==
    ownerKept =>
        /\ bootstrapped = {} \/ \E u \in Members : bootstrapped = {u}
        /\ bootstrapped # {} => HasRoleNamed("Owner")
        /\ \A c \in AccessCallers : Assigning(request[c]) => HasRoleNamed("Owner") /\ bootstrapped = {}
        /\ \A c, d \in AccessCallers : Assigning(request[c]) /\ Assigning(request[d]) => c = d

AccessInv == AccessTypeOK /\ RequestsMatch /\ CodesInOnePlace /\ OwnerByCreation

-----------------------------------------------------------------------------
LEMMA NoRequestType ==
    /\ NoRequest \in Requests
    /\ NoRequest.op = "idle" /\ NoRequest.at = "idle" /\ NoRequest.code = 0
  BY AccessAssumption DEF NoRequest, Requests

LEMMA NoRequestMatches ==
    RequestMatches(NoRequest) /\ RequestMatches(NoRequest)' /\ ~Spending(NoRequest) /\ ~Assigning(NoRequest)
  BY NoRequestType DEF RequestMatches, ByUser, Spending, Assigning

LEMMA TypeParts == AccessTypeOK <=> RowsOK /\ request \in [AccessCallers -> Requests]
  BY DEF AccessTypeOK, RowsOK

LEMMA RowFacts ==
    ASSUME AccessTypeOK
    PROVE  /\ DOMAIN login = 1 .. Len(login) /\ Len(login) \in Nat
           /\ \A s \in DOMAIN login : login[s] \in Logins /\ login[s].user \in Members
                                      /\ s \in 1 .. MaxLogins
           /\ DOMAIN role = 1 .. Len(role) /\ Len(role) \in Nat
           /\ \A r \in DOMAIN role : role[r] \in RoleRows
           /\ DOMAIN apiKey = 1 .. Len(apiKey) /\ Len(apiKey) \in Nat
           /\ \A k \in DOMAIN apiKey : apiKey[k] \in Keys
           /\ MaxLogins \in Nat /\ MaxRoles \in Nat /\ MaxBatches \in Nat
<1>1. /\ login \in Seq(Logins) /\ role \in Seq(RoleRows) /\ apiKey \in Seq(Keys)
      /\ Len(login) <= MaxLogins
  BY DEF AccessTypeOK
<1>2. /\ DOMAIN login = 1 .. Len(login) /\ Len(login) \in Nat
      /\ \A s \in DOMAIN login : login[s] \in Logins
  BY <1>1
<1>3. /\ DOMAIN role = 1 .. Len(role) /\ Len(role) \in Nat
      /\ \A r \in DOMAIN role : role[r] \in RoleRows
  BY <1>1
<1>4. /\ DOMAIN apiKey = 1 .. Len(apiKey) /\ Len(apiKey) \in Nat
      /\ \A k \in DOMAIN apiKey : apiKey[k] \in Keys
  BY <1>1
<1>5. \A s \in DOMAIN login : login[s].user \in Members
  BY <1>2 DEF Logins
<1>6. MaxLogins \in Nat /\ MaxRoles \in Nat /\ MaxBatches \in Nat
  BY AccessAssumption
<1>7. \A s \in DOMAIN login : s \in 1 .. MaxLogins
  BY <1>1, <1>2, <1>6
<1>8. QED
  BY <1>2, <1>3, <1>4, <1>5, <1>6, <1>7

LEMMA AccessInitInv == AccessInit => AccessInv
<1> SUFFICES ASSUME AccessInit PROVE AccessInv
  OBVIOUS
<1> USE AccessAssumption
<1>1. /\ login = <<>> /\ apiKey = <<>> /\ listRole = [u \in Members |-> 0]
      /\ request = [c \in AccessCallers |-> NoRequest]
      /\ ownerKept = TRUE /\ opened = [b \in 1 .. MaxBatches |-> {}]
  BY DEF AccessInit
<1>2. CASE /\ totp = [u \in Members |-> "absent"]
           /\ codes = [u \in Members |-> {}]
           /\ batches = 0
           /\ role = <<>>
           /\ tenantRole = [u \in Members |-> 0]
           /\ bootstrapped = {}
  <2>1. AccessTypeOK
    BY <1>1, <1>2, NoRequestType DEF AccessTypeOK, TotpStates
  <2>2. RequestsMatch /\ CodesInOnePlace /\ OwnerByCreation
    BY <1>1, <1>2, NoRequestMatches DEF RequestsMatch, CodesInOnePlace, OwnerByCreation
  <2>3. QED
    BY <2>1, <2>2 DEF AccessInv
<1>3. ASSUME NEW first \in Members,
             totp = [u \in Members |-> IF u = first THEN "on" ELSE "absent"],
             codes = [u \in Members |-> IF u = first THEN {1} ELSE {}],
             batches = 1,
             role = <<[name |-> "Owner", manages |-> TRUE, deleted |-> FALSE]>>,
             tenantRole = [u \in Members |-> IF u = first THEN 1 ELSE 0],
             bootstrapped = {first}
      PROVE  AccessInv
  <2> DEFINE owner == [name |-> "Owner", manages |-> TRUE, deleted |-> FALSE]
  <2>1. owner \in RoleRows
    BY DEF RoleRows
  <2>2. role = <<owner>>
    BY <1>3
  <2>3. role \in Seq(RoleRows) /\ Len(role) = 1 /\ role[1] = owner /\ 1 \in DOMAIN role
    BY <2>1, <2>2
  <2>4. AccessTypeOK
    BY <1>1, <1>3, <2>3, NoRequestType DEF AccessTypeOK, TotpStates
  <2>5. HasRoleNamed("Owner")
    BY <2>3 DEF HasRoleNamed, LiveRoles
  <2>6. RequestsMatch /\ CodesInOnePlace /\ OwnerByCreation
    BY <1>1, <1>3, <2>5, NoRequestMatches DEF RequestsMatch, CodesInOnePlace, OwnerByCreation
  <2>7. QED
    BY <2>4, <2>6 DEF AccessInv
<1>4. QED
  BY <1>2, <1>3 DEF AccessInit

-----------------------------------------------------------------------------
(* What remains to be shown of a step that gives one request its next      *)
(* state, or none.                                                         *)
LEMMA RequestStep ==
    ASSUME AccessInv, NEW c, NEW r \in Requests,
           request' = request \/ (c \in AccessCallers /\ request' = [request EXCEPT ![c] = r]),
           RequestMatches(r)', RowsOK', DOMAIN login \subseteq DOMAIN login',
           CodesInOnePlace', OwnerByCreation'
    PROVE  AccessInv'
<1>1. request \in [AccessCallers -> Requests] /\ RequestsMatch
  BY DEF AccessInv, AccessTypeOK
<1>2. request' \in [AccessCallers -> Requests]
  BY <1>1
<1>3. AccessTypeOK'
  BY <1>2 DEF AccessTypeOK, RowsOK
<1>4. RequestsMatch'
  BY <1>1 DEF RequestsMatch, RequestMatches
<1>5. QED
  BY <1>3, <1>4 DEF AccessInv

(* A step that touches neither recovery codes nor sessions opened by them. *)
LEMMA CodesKept ==
    ASSUME AccessInv, NEW c, NEW r,
           request' = request \/ (c \in AccessCallers /\ request' = [request EXCEPT ![c] = r]),
           Spending(r) => c \in AccessCallers /\ Spending(request[c]) /\ r.code = request[c].code,
           UNCHANGED <<codes, batches, opened>>
    PROVE  CodesInOnePlace'
<1>1. \A d \in AccessCallers : Spending(request'[d]) =>
          Spending(request[d]) /\ request'[d].code = request[d].code
  BY DEF AccessInv, AccessTypeOK
<1>2. CodesInOnePlace
  BY DEF AccessInv
<1>3. \A b : Given(b)' = Given(b)
  BY DEF Given
<1>4. \A d \in AccessCallers : Spending(request[d])' = Spending(request'[d])
  BY DEF Spending
<1>5. QED
  BY <1>1, <1>2, <1>3, <1>4 DEF CodesInOnePlace

(* A step that neither starts an assignment of the Owner role nor ends the *)
(* role.                                                                   *)
LEMMA OwnerKept ==
    ASSUME AccessInv, NEW c, NEW r,
           request' = request \/ (c \in AccessCallers /\ request' = [request EXCEPT ![c] = r]),
           ~Assigning(r), bootstrapped' = bootstrapped,
           ownerKept' => ownerKept /\ (HasRoleNamed("Owner") => HasRoleNamed("Owner")')
    PROVE  OwnerByCreation'
<1>1. \A d \in AccessCallers : Assigning(request'[d]) => Assigning(request[d])
  BY DEF AccessInv, AccessTypeOK
<1>2. \A d \in AccessCallers : Assigning(request[d])' = Assigning(request'[d])
  BY DEF Assigning
<1>3. QED
  BY <1>1, <1>2 DEF AccessInv, OwnerByCreation

(* A step that changes neither codes nor roles.                            *)
LEMMA PlainStep ==
    ASSUME AccessInv, NEW c, NEW r \in Requests,
           request' = request \/ (c \in AccessCallers /\ request' = [request EXCEPT ![c] = r]),
           RequestMatches(r)', ~Assigning(r),
           Spending(r) => c \in AccessCallers /\ Spending(request[c]) /\ r.code = request[c].code,
           UNCHANGED <<codes, batches, role, histories>>,
           totp' \in [Members -> TotpStates],
           login' \in Seq(Logins), Len(login') <= MaxLogins, DOMAIN login \subseteq DOMAIN login',
           tenantRole' \in [Members -> 0 .. Len(role)], listRole' \in [Members -> 0 .. Len(role)],
           apiKey' \in Seq(Keys)
    PROVE  AccessInv'
<1>1. RowsOK'
  BY DEF AccessInv, AccessTypeOK, RowsOK, histories
<1>2. CodesInOnePlace'
  BY CodesKept DEF histories
<1>3. OwnerByCreation'
  <2>1. HasRoleNamed("Owner")' = HasRoleNamed("Owner")
    BY DEF HasRoleNamed, LiveRoles
  <2>2. QED
    BY <2>1, OwnerKept DEF histories
<1>4. QED
  BY <1>1, <1>2, <1>3, RequestStep

(* A step that changes a request only.                                     *)
LEMMA QuietStep ==
    ASSUME AccessInv, NEW c \in AccessCallers, NEW r \in Requests,
           request' = [request EXCEPT ![c] = r], RequestMatches(r), ~Assigning(r),
           Spending(r) => Spending(request[c]) /\ r.code = request[c].code,
           UNCHANGED <<people, login, roles, apiKey, histories>>
    PROVE  AccessInv'
<1>1. RequestMatches(r)'
  BY DEF RequestMatches
<1>2. QED
  BY <1>1, PlainStep DEF AccessInv, AccessTypeOK, people, roles

LEMMA RequestFacts ==
    ASSUME AccessInv, NEW c \in AccessCallers
    PROVE  /\ request \in [AccessCallers -> Requests] /\ request[c] \in Requests
           /\ RequestMatches(request[c])
           /\ request[c].at \in {"idle", "roles", "owner", "assign", "reload", "open", "meet",
                                 "read", "write", "perform", "clear", "insert"}
           /\ request[c].code \in 0 .. MaxBatches /\ request[c].seen \in SUBSET (1 .. MaxBatches)
           /\ request[c].login \in 0 .. MaxLogins
           /\ request[c].role \in 0 .. MaxRoles
<1>1. request \in [AccessCallers -> Requests] /\ RequestMatches(request[c])
  BY DEF AccessInv, AccessTypeOK, RequestsMatch
<1>2. QED
  BY <1>1 DEF Requests

LEMMA TypeFacts ==
    ASSUME AccessInv
    PROVE  /\ AccessTypeOK /\ CodesInOnePlace /\ OwnerByCreation
           /\ totp \in [Members -> TotpStates]
           /\ codes \in [Members -> SUBSET (1 .. MaxBatches)] /\ batches \in 0 .. MaxBatches
           /\ login \in Seq(Logins) /\ Len(login) <= MaxLogins
           /\ role \in Seq(RoleRows) /\ Len(role) <= MaxRoles
           /\ tenantRole \in [Members -> 0 .. Len(role)]
           /\ listRole \in [Members -> 0 .. Len(role)]
           /\ apiKey \in Seq(Keys) /\ bootstrapped \subseteq Members
           /\ ownerKept \in BOOLEAN /\ opened \in [1 .. MaxBatches -> SUBSET (1 .. MaxLogins)]
  BY DEF AccessInv, AccessTypeOK

-----------------------------------------------------------------------------
LEMMA EnterStep == AccessInv /\ Enter => AccessInv'
<1> SUFFICES ASSUME AccessInv, Enter PROVE AccessInv'
  OBVIOUS
<1> USE TypeFacts, RequestFacts
<1>1. ASSUME NEW c \in AccessCallers, NEW u \in Members, OpenWorkspaceSession(c, u) PROVE AccessInv'
  <2> DEFINE known == [NoRequest EXCEPT !.op = "enter", !.at = "open", !.user = u,
                                        !.totp = totp[u] = "on"]
             new == [NoRequest EXCEPT !.op = "enter", !.at = "roles", !.user = u]
  <2>1. /\ known \in Requests /\ known.op = "enter" /\ known.at = "open" /\ known.user = u
        /\ new \in Requests /\ new.op = "enter" /\ new.at = "roles" /\ new.user = u
    <3>1. known \in Requests /\ known.op = "enter" /\ known.at = "open" /\ known.user = u
      BY NoRequestType, ZenonT(60) DEF Requests
    <3>2. new \in Requests /\ new.op = "enter" /\ new.at = "roles" /\ new.user = u
      BY NoRequestType, ZenonT(60) DEF Requests
    <3>3. QED
      BY <3>1, <3>2
  <2> HIDE DEF known, new
  <2>2. RequestMatches(known) /\ RequestMatches(new)' /\ ~Spending(known) /\ ~Spending(new)
        /\ ~Assigning(known) /\ ~Assigning(new)
    BY <2>1 DEF RequestMatches, Spending, Assigning
  <2>3. CASE /\ Accepts(c, known)
             /\ UNCHANGED <<people, login, roles, apiKey, histories>>
    BY <2>1, <2>2, <2>3, QuietStep DEF Accepts
  <2>4. CASE /\ totp' = [totp EXCEPT ![u] = "off"] /\ Accepts(c, new)
             /\ UNCHANGED <<codes, batches, login, roles, apiKey, histories>>
    BY <2>1, <2>2, <2>4, PlainStep DEF Accepts, TotpStates, roles
  <2>5. QED
    BY <1>1, <2>3, <2>4 DEF OpenWorkspaceSession, known, new
<1>2. ASSUME NEW c \in AccessCallers, LookForOwner(c) PROVE AccessInv'
  <2> PICK r : r = [request[c] EXCEPT !.at = IF HasRoleNamed("Owner") THEN "reload" ELSE "owner"]
    OBVIOUS
  <2>1. r \in Requests /\ r.op = "enter" /\ r.at \in {"reload", "owner"} /\ r.user = request[c].user
    BY <1>2, ZenonT(60) DEF LookForOwner, Doing, Requests
  <2>2. RequestMatches(r) /\ ~Spending(r) /\ ~Assigning(r)
    BY <1>2, <2>1 DEF RequestMatches, ByUser, Spending, Assigning, LookForOwner, Doing
  <2>3. QED
    BY <1>2, <2>1, <2>2, QuietStep DEF LookForOwner, Proceeds
<1>3. ASSUME NEW c \in AccessCallers, CreateOwnerRole(c) PROVE AccessInv'
  <2> DEFINE row == [name |-> "Owner", manages |-> TRUE, deleted |-> FALSE]
  <2> PICK r : r = [request[c] EXCEPT !.at = "assign", !.role = Len(role) + 1]
    OBVIOUS
  <2>1. Doing(c, "enter", "owner") /\ request[c].user \in Members
        /\ UNCHANGED <<people, login, tenantRole, listRole, apiKey, histories>>
    BY <1>3 DEF CreateOwnerRole, Doing, RequestMatches, ByUser
  <2>2. CASE AddRole("Owner", TRUE) /\ Proceeds(c, r)
    <3>1. /\ role' = Append(role, row) /\ Len(role) < MaxRoles /\ ~HasRoleNamed("Owner")
          /\ request' = [request EXCEPT ![c] = r]
      BY <2>2 DEF AddRole, Proceeds
    <3>2. row \in RoleRows
      BY AccessAssumption DEF RoleRows
    <3> HIDE DEF row
    <3>3. /\ role' \in Seq(RoleRows) /\ Len(role') = Len(role) + 1
          /\ DOMAIN role' = 1 .. (Len(role) + 1)
          /\ role'[Len(role) + 1] = row
      BY <3>1, <3>2, RowFacts, AppendProperties, LenProperties
    <3>4. r \in Requests /\ r.op = "enter" /\ r.at = "assign" /\ r.user = request[c].user
      <4>1. Len(role) + 1 \in 0 .. MaxRoles
        BY <3>1, RowFacts
      <4>2. QED
        BY <4>1, <2>1, ZenonT(60) DEF Requests, Doing
    <3>5. RequestMatches(r)' /\ ~Spending(r)
      BY <2>1, <3>4 DEF RequestMatches, Spending
    <3>6. RowsOK'
      <4>1. 0 .. Len(role) \subseteq 0 .. Len(role') /\ Len(role') <= MaxRoles
        BY <3>1, <3>3, RowFacts
      <4>2. QED
        BY <2>1, <3>3, <4>1 DEF RowsOK, people, histories
    <3>7. CodesInOnePlace'
      BY <2>1, <3>1, <3>5, CodesKept DEF people, histories
    <3>8. OwnerByCreation'
      <4>1. HasRoleNamed("Owner")'
        <5>1. Len(role) + 1 \in DOMAIN role' /\ row.name = "Owner" /\ ~row.deleted
          BY <3>3, RowFacts DEF row
        <5>2. QED
          BY <3>3, <5>1 DEF HasRoleNamed, LiveRoles
      <4>2. ownerKept => bootstrapped = {} /\ \A d \in AccessCallers : ~Assigning(request[d])
        BY <3>1 DEF OwnerByCreation
      <4>3. \A d \in AccessCallers : request'[d] = IF d = c THEN r ELSE request[d]
        BY <3>1
      <4>4. UNCHANGED <<bootstrapped, ownerKept>>
        BY <2>1 DEF histories
      <4>5. ownerKept => bootstrapped' = {}
                          /\ \A d \in AccessCallers : Assigning(request[d])' => d = c
        BY <4>2, <4>3, <4>4 DEF Assigning
      <4>6. QED
        BY <4>1, <4>4, <4>5 DEF OwnerByCreation
    <3>9. QED
      BY <2>1, <3>1, <3>4, <3>5, <3>6, <3>7, <3>8, RequestStep
  <2>3. CASE UNCHANGED role /\ Answers(c)
    BY <2>1, <2>3, NoRequestType, NoRequestMatches, QuietStep DEF Answers, Proceeds, roles
  <2>4. QED
    BY <1>3, <2>2, <2>3 DEF CreateOwnerRole
<1>4. ASSUME NEW c \in AccessCallers, AssignOwnerRole(c) PROVE AccessInv'
  <2> PICK r : r = [request[c] EXCEPT !.at = "reload", !.role = 0]
    OBVIOUS
  <2>1. Doing(c, "enter", "assign") /\ request[c].user \in Members
        /\ UNCHANGED <<people, login, role, listRole, apiKey, ownerKept, opened>>
    BY <1>4 DEF AssignOwnerRole, Doing, RequestMatches, ByUser
  <2>2. CASE /\ request[c].role \in LiveRoles
             /\ tenantRole' = [tenantRole EXCEPT ![request[c].user] = request[c].role]
             /\ bootstrapped' = bootstrapped \cup {request[c].user}
             /\ request' = [request EXCEPT ![c] = r]
    <3>1. r \in Requests /\ r.op = "enter" /\ r.at = "reload" /\ r.user = request[c].user
      <4>1. 0 \in 0 .. MaxRoles
        BY RowFacts
      <4>2. QED
        BY <2>1, <4>1, ZenonT(60) DEF Requests, Doing
    <3>2. RequestMatches(r)' /\ ~Spending(r) /\ ~Assigning(r)
      BY <2>1, <3>1 DEF RequestMatches, Spending, Assigning
    <3>3. request[c].role \in 0 .. Len(role)
      BY <2>2, RowFacts DEF LiveRoles
    <3>4. RowsOK'
      BY <2>1, <2>2, <3>3 DEF RowsOK, people
    <3>5. CodesInOnePlace'
      BY <2>1, <2>2, <3>2, CodesKept DEF people
    <3>6. OwnerByCreation'
      <4>1. HasRoleNamed("Owner")' = HasRoleNamed("Owner")
        BY <2>1 DEF HasRoleNamed, LiveRoles
      <4>2. ownerKept => /\ HasRoleNamed("Owner") /\ bootstrapped = {}
                         /\ \A d \in AccessCallers : Assigning(request[d]) => d = c
        BY <2>1 DEF OwnerByCreation, Assigning, Doing
      <4>3. \A d \in AccessCallers : request'[d] = IF d = c THEN r ELSE request[d]
        BY <2>2
      <4>4. ownerKept => \A d \in AccessCallers : ~Assigning(request'[d])
        BY <3>2, <4>2, <4>3
      <4>5. \A d \in AccessCallers : Assigning(request[d])' = Assigning(request'[d])
        BY DEF Assigning
      <4>6. QED
        BY <2>1, <2>2, <4>1, <4>2, <4>4, <4>5 DEF OwnerByCreation
    <3>7. QED
      BY <2>1, <2>2, <3>1, <3>2, <3>4, <3>5, <3>6, RequestStep
  <2>3. CASE Answers(c) /\ UNCHANGED <<tenantRole, bootstrapped>>
    BY <2>1, <2>3, NoRequestType, NoRequestMatches, QuietStep
    DEF Answers, Proceeds, roles, histories
  <2>4. QED
    BY <1>4, <2>2, <2>3 DEF AssignOwnerRole, Proceeds
<1>5. ASSUME NEW c \in AccessCallers, ReloadUser(c) PROVE AccessInv'
  <2> PICK r : r = [request[c] EXCEPT !.at = "open", !.totp = totp[request[c].user] = "on"]
    OBVIOUS
  <2>1. r \in Requests /\ r.op = "enter" /\ r.at = "open" /\ r.user = request[c].user
    BY <1>5, ZenonT(60) DEF ReloadUser, Doing, Requests
  <2>2. RequestMatches(r) /\ ~Spending(r) /\ ~Assigning(r)
    BY <1>5, <2>1 DEF RequestMatches, ByUser, Spending, Assigning, ReloadUser, Doing
  <2>3. QED
    BY <1>5, <2>1, <2>2, QuietStep DEF ReloadUser, Proceeds
<1>6. ASSUME NEW c \in AccessCallers, AddSession(c) PROVE AccessInv'
  <2> DEFINE row == [user |-> request[c].user,
                     state |-> IF request[c].totp THEN "totp-pending" ELSE "active"]
  <2>1. row \in Logins
    BY <1>6 DEF AddSession, Doing, RequestMatches, ByUser, Logins
  <2>2. login' = Append(login, row) /\ Len(login) < MaxLogins
        /\ request' = [request EXCEPT ![c] = NoRequest]
        /\ UNCHANGED <<people, roles, apiKey, histories>>
    BY <1>6 DEF AddSession, Answers, Proceeds
  <2> HIDE DEF row
  <2>3. /\ login' \in Seq(Logins) /\ Len(login') = Len(login) + 1
        /\ DOMAIN login' = 1 .. (Len(login) + 1)
    BY <2>1, <2>2, RowFacts, AppendProperties, LenProperties
  <2>4. Len(login') <= MaxLogins /\ DOMAIN login \subseteq DOMAIN login'
    BY <2>2, <2>3, RowFacts
  <2>5. QED
    BY <2>2, <2>3, <2>4, NoRequestType, NoRequestMatches, PlainStep DEF people, roles
<1>7. ASSUME NEW s \in DOMAIN login, CloseSession(s) PROVE AccessInv'
  <2> DEFINE row == [login[s] EXCEPT !.state = "revoked"]
  <2>1. row \in Logins
    BY RowFacts DEF Logins
  <2>2. login' = [login EXCEPT ![s] = row] /\ request' = request
        /\ UNCHANGED <<people, roles, apiKey, histories>>
    BY <1>7 DEF CloseSession, requesting
  <2> HIDE DEF row
  <2>3. /\ login' \in Seq(Logins) /\ Len(login') = Len(login) /\ DOMAIN login' = DOMAIN login
    BY <2>1, <2>2, RowFacts, ExceptSeq
  <2>4. QED
    BY <2>2, <2>3, NoRequestType, NoRequestMatches, PlainStep DEF people, roles
<1>8. ASSUME NEW c \in AccessCallers, NEW s \in DOMAIN login, NEW b \in 0 .. MaxBatches,
             VerifyTOTPChallenge(c, s, b)
      PROVE  AccessInv'
  <2> DEFINE r == [NoRequest EXCEPT !.op = "challenge", !.at = "meet", !.login = s,
                                    !.user = login[s].user, !.code = b]
  <2>1. s \in 0 .. MaxLogins /\ login[s].user \in Members
    BY RowFacts
  <2>2. r \in Requests /\ r.op = "challenge" /\ r.at = "meet" /\ r.user = login[s].user /\ r.login = s
    BY <2>1, NoRequestType, ZenonT(60) DEF Requests
  <2> HIDE DEF r
  <2>3. RequestMatches(r) /\ ~Spending(r) /\ ~Assigning(r)
    BY <2>1, <2>2 DEF RequestMatches, Spending, Assigning
  <2>4. QED
    BY <1>8, <2>2, <2>3, QuietStep DEF VerifyTOTPChallenge, Accepts, r
<1>9. ASSUME NEW c \in AccessCallers, ChallengeMet(c) PROVE AccessInv'
  <2> PICK r : r = [request[c] EXCEPT !.at = "read"]
    OBVIOUS
  <2> DEFINE b == request[c].code
             u == request[c].user
  <2>1. Doing(c, "challenge", "meet") /\ u \in Members /\ request[c].login \in DOMAIN login
        /\ UNCHANGED <<totp, batches, login, roles, apiKey, histories>>
    BY <1>9 DEF ChallengeMet, Doing, RequestMatches, ByUser
  <2>2. r \in Requests /\ r.op = "challenge" /\ r.at = "read" /\ r.user = u /\ r.code = b
        /\ r.login = request[c].login
    BY <2>1, ZenonT(60) DEF Requests, Doing
  <2>3. RequestMatches(r)' /\ ~Assigning(r)
    BY <2>1, <2>2 DEF RequestMatches, Assigning
  <2>4. CASE b = 0 /\ UNCHANGED codes /\ Proceeds(c, r)
    <3>1. ~Spending(r) /\ RequestMatches(r)
      BY <2>1, <2>2, <2>4 DEF Spending, RequestMatches
    <3>2. QED
      BY <2>1, <2>2, <2>3, <2>4, <3>1, QuietStep DEF Proceeds, people
  <2>5. CASE Consume(c) /\ Proceeds(c, r)
    <3>1. /\ b \in codes[u] /\ codes' = [codes EXCEPT ![u] = @ \ {b}]
          /\ request' = [request EXCEPT ![c] = r]
      BY <2>5 DEF Consume, Proceeds
    <3>2. /\ b \in 1 .. MaxBatches
          /\ \A v \in Members : codes'[v] = IF v = u THEN codes[u] \ {b} ELSE codes[v]
          /\ codes' \in [Members -> SUBSET (1 .. MaxBatches)]
      BY <2>1, <3>1
    <3>3. RowsOK'
      BY <2>1, <3>2 DEF RowsOK, roles, histories
    <3>4. CodesInOnePlace'
      <4>1. \A d \in AccessCallers : request'[d] = IF d = c THEN r ELSE request[d]
        BY <3>1
      <4>2. b <= batches /\ opened[b] = {} /\ \A v \in Members : b \notin codes'[v]
        <5>1. \A v \in Members : v # u => b \notin codes[v]
          BY <2>1, <3>1 DEF CodesInOnePlace
        <5>2. \A v \in Members : b \notin codes'[v]
          BY <5>1, <3>2
        <5>3. QED
          BY <2>1, <3>1, <5>2 DEF CodesInOnePlace
      <4>3. \A d \in AccessCallers : Spending(request[d]) => request[d].code # b
        BY <2>1, <3>1 DEF CodesInOnePlace, Given
      <4>5. \A d \in AccessCallers : Spending(request[d])' = Spending(request'[d])
        BY DEF Spending
      <4>6. UNCHANGED <<batches, opened>>
        BY <2>1 DEF histories
      <4>7. \A v \in Members : codes'[v] \subseteq codes[v]
        BY <3>2
      <4>8. \A d \in AccessCallers : Spending(request'[d]) =>
                request'[d].code <= batches /\ opened[request'[d].code] = {}
                /\ \A v \in Members : request'[d].code \notin codes'[v]
        <5> SUFFICES ASSUME NEW d \in AccessCallers, Spending(request'[d])
                     PROVE  request'[d].code <= batches /\ opened[request'[d].code] = {}
                            /\ \A v \in Members : request'[d].code \notin codes'[v]
          OBVIOUS
        <5>1. CASE d = c
          <6>1. request'[d].code = b
            BY <5>1, <2>2, <4>1
          <6>2. QED
            BY <6>1, <4>2
        <5>2. CASE d # c
          <6>1. Spending(request[d]) /\ request'[d] = request[d]
            BY <5>2, <4>1
          <6>2. request[d].code <= batches /\ opened[request[d].code] = {} /\ ~Given(request[d].code)
            BY <6>1 DEF CodesInOnePlace
          <6>3. QED
            BY <6>1, <6>2, <4>7 DEF Given
        <5>3. QED
          BY <5>1, <5>2
      <4>9. \A d, e \in AccessCallers : d # e /\ Spending(request'[d]) /\ Spending(request'[e])
                => request'[d].code # request'[e].code
        <5>1. \A d \in AccessCallers : d # c /\ Spending(request'[d]) =>
                  Spending(request[d]) /\ request'[d].code = request[d].code
                  /\ request[d].code # b
          BY <4>1, <4>3
        <5>2. request'[c].code = b
          BY <2>2, <4>1
        <5>3. \A d, e \in AccessCallers :
                  d # e /\ Spending(request[d]) /\ Spending(request[e])
                  => request[d].code # request[e].code
          BY DEF CodesInOnePlace
        <5>4. QED
          BY <5>1, <5>2, <5>3
      <4>10. \A v \in Members : \A d \in codes'[v] : d <= batches /\ opened[d] = {}
        BY <4>7 DEF CodesInOnePlace
      <4>11. \A v, w \in Members : v # w => codes'[v] \cap codes'[w] = {}
        BY <4>7 DEF CodesInOnePlace
      <4>12. QED
        <5>1. \A d \in 1 .. MaxBatches :
                  opened[d] = {} \/ (d <= batches /\ \E s \in 1 .. MaxLogins : opened[d] = {s})
          BY DEF CodesInOnePlace
        <5>2. QED
          BY <5>1, <4>5, <4>6, <4>8, <4>9, <4>10, <4>11 DEF CodesInOnePlace, Given
    <3>5. OwnerByCreation'
      <4>1. HasRoleNamed("Owner")' = HasRoleNamed("Owner")
        BY <2>1 DEF HasRoleNamed, LiveRoles, roles
      <4>2. QED
        BY <2>1, <2>3, <3>1, <4>1, OwnerKept DEF histories
    <3>6. QED
      BY <2>1, <2>2, <2>3, <3>1, <3>3, <3>4, <3>5, RequestStep
  <2>6. CASE UNCHANGED codes /\ Answers(c)
    BY <2>1, <2>6, NoRequestType, NoRequestMatches, QuietStep DEF Answers, Proceeds, people
  <2>7. QED
    BY <1>9, <2>4, <2>5, <2>6 DEF ChallengeMet
<1>10. ASSUME NEW c \in AccessCallers, ReadPending(c) PROVE AccessInv'
  <2> PICK r : r = [request[c] EXCEPT !.at = "write"]
    OBVIOUS
  <2>1. Doing(c, "challenge", "read") /\ UNCHANGED <<people, login, roles, apiKey, histories>>
    BY <1>10 DEF ReadPending
  <2>2. r \in Requests /\ r.op = "challenge" /\ r.at = "write" /\ r.user = request[c].user
        /\ r.code = request[c].code /\ r.login = request[c].login
    BY <2>1, ZenonT(60) DEF Requests, Doing
  <2>3. RequestMatches(r) /\ ~Assigning(r) /\ (Spending(r) => Spending(request[c]))
    BY <2>1, <2>2 DEF RequestMatches, ByUser, Assigning, Spending, Doing
  <2>4. CASE Proceeds(c, r)
    BY <2>1, <2>2, <2>3, <2>4, QuietStep DEF Proceeds
  <2>5. CASE Answers(c)
    BY <2>1, <2>5, NoRequestType, NoRequestMatches, QuietStep DEF Answers, Proceeds
  <2>6. QED
    BY <1>10, <2>4, <2>5 DEF ReadPending
<1>11. ASSUME NEW c \in AccessCallers, WriteActive(c) PROVE AccessInv'
  <2> DEFINE b == request[c].code
             s == request[c].login
             row == [login[s] EXCEPT !.state = "active"]
  <2>1. /\ Doing(c, "challenge", "write") /\ s \in DOMAIN login
        /\ request' = [request EXCEPT ![c] = NoRequest]
        /\ login' = [login EXCEPT ![s].state = "active"]
        /\ opened' = IF b = 0 THEN opened ELSE [opened EXCEPT ![b] = @ \cup {s}]
        /\ UNCHANGED <<people, roles, apiKey, bootstrapped, ownerKept>>
    BY <1>11 DEF WriteActive, Doing, RequestMatches, Answers, Proceeds
  <2>2. row \in Logins /\ s \in 1 .. MaxLogins
    BY <2>1, RowFacts DEF Logins
  <2>3. login' = [login EXCEPT ![s] = row]
    BY <2>1
  <2>4. Spending(request[c]) <=> b # 0
    BY <2>1 DEF Spending, Doing
  <2> HIDE DEF row
  <2>5. /\ login' \in Seq(Logins) /\ Len(login') = Len(login) /\ DOMAIN login' = DOMAIN login
    BY <2>1, <2>2, <2>3, RowFacts, ExceptSeq
  <2>6. CASE b = 0
    <3>1. opened' = opened
      BY <2>1, <2>6
    <3>2. QED
      BY <2>1, <2>5, <3>1, NoRequestType, NoRequestMatches, PlainStep DEF people, roles, histories
  <2>7. CASE b # 0
    <3>1. /\ b \in 1 .. MaxBatches /\ b <= batches /\ opened[b] = {} /\ ~Given(b)
          /\ \A d \in AccessCallers : d # c /\ Spending(request[d]) => request[d].code # b
      BY <2>4, <2>7 DEF CodesInOnePlace
    <3>2. /\ opened' \in [1 .. MaxBatches -> SUBSET (1 .. MaxLogins)] /\ opened'[b] = {s}
          /\ \A d \in 1 .. MaxBatches : d # b => opened'[d] = opened[d]
      BY <2>1, <2>2, <2>7, <3>1
    <3>3. RowsOK'
      BY <2>1, <2>5, <3>2 DEF RowsOK, people, roles
    <3>4. CodesInOnePlace'
      <4>1. \A d \in AccessCallers : Spending(request'[d]) => d # c /\ request'[d] = request[d]
        BY <2>1, NoRequestMatches
      <4>2. \A d \in AccessCallers : Spending(request[d])' = Spending(request'[d])
        BY DEF Spending
      <4>3. codes' = codes /\ batches' = batches /\ \A d : Given(d)' = Given(d)
        BY <2>1 DEF people, Given
      <4>4. \A v \in Members : \A d \in codes[v] : d # b /\ d \in 1 .. MaxBatches
        BY <3>1 DEF Given
      <4>5. \A d \in AccessCallers : Spending(request'[d]) =>
                request'[d].code <= batches /\ opened'[request'[d].code] = {} /\ ~Given(request'[d].code)
        <5> SUFFICES ASSUME NEW d \in AccessCallers, Spending(request'[d])
                     PROVE  request[d].code <= batches /\ opened'[request[d].code] = {} /\ ~Given(request[d].code)
          BY <4>1
        <5>1. d # c /\ Spending(request[d]) /\ request[d].code # b
          BY <3>1, <4>1
        <5>2. request[d].code \in 1 .. MaxBatches
          BY <5>1 DEF Spending
        <5>3. QED
          BY <3>2, <5>1, <5>2 DEF CodesInOnePlace
      <4>6. \A d \in 1 .. MaxBatches :
                opened'[d] = {} \/ (d <= batches /\ \E x \in 1 .. MaxLogins : opened'[d] = {x})
        <5>1. \A d \in 1 .. MaxBatches :
                  opened[d] = {} \/ (d <= batches /\ \E x \in 1 .. MaxLogins : opened[d] = {x})
          BY DEF CodesInOnePlace
        <5>2. QED
          BY <2>2, <3>1, <3>2, <5>1, ZenonT(60)
      <4>7. \A v \in Members : \A d \in codes[v] : d <= batches /\ opened'[d] = {}
        BY <3>2, <4>4, ZenonT(60) DEF CodesInOnePlace
      <4>8. \A d, e \in AccessCallers : d # e /\ Spending(request'[d]) /\ Spending(request'[e])
                => request'[d].code # request'[e].code
        BY <4>1 DEF CodesInOnePlace
      <4>9. \A v, w \in Members : v # w => codes[v] \cap codes[w] = {}
        BY DEF CodesInOnePlace
      <4>10. QED
        BY <4>2, <4>3, <4>5, <4>6, <4>7, <4>8, <4>9 DEF CodesInOnePlace
    <3>5. OwnerByCreation'
      <4>1. HasRoleNamed("Owner")' = HasRoleNamed("Owner")
        BY <2>1 DEF HasRoleNamed, LiveRoles, roles
      <4>2. QED
        BY <2>1, <4>1, NoRequestMatches, OwnerKept
    <3>6. QED
      BY <2>1, <2>5, <3>3, <3>4, <3>5, NoRequestType, NoRequestMatches, RequestStep
  <2>8. QED
    BY <2>6, <2>7
<1>12. QED
  BY <1>1, <1>2, <1>3, <1>4, <1>5, <1>6, <1>7, <1>8, <1>9, <1>10, <1>11 DEF Enter

-----------------------------------------------------------------------------
(* A guarded request that changes rows other than codes and roles.         *)
LEMMA GuardedStep ==
    ASSUME AccessInv, NEW c \in AccessCallers, request' = [request EXCEPT ![c] = NoRequest],
           UNCHANGED <<people, login, role, histories>>,
           tenantRole' \in [Members -> 0 .. Len(role)], listRole' \in [Members -> 0 .. Len(role)],
           apiKey' \in Seq(Keys)
    PROVE  AccessInv'
  BY NoRequestType, NoRequestMatches, TypeFacts, PlainStep DEF people

(* A guarded request that changes the roles.                               *)
LEMMA RolesStep ==
    ASSUME AccessInv, NEW c \in AccessCallers, request' = [request EXCEPT ![c] = NoRequest],
           UNCHANGED <<people, login, tenantRole, listRole, apiKey, bootstrapped, opened>>,
           role' \in Seq(RoleRows), Len(role') <= MaxRoles, Len(role) <= Len(role'),
           ownerKept' \in BOOLEAN,
           ownerKept' => ownerKept /\ (HasRoleNamed("Owner") => HasRoleNamed("Owner")')
    PROVE  AccessInv'
<1> USE TypeFacts
<1>1. 0 .. Len(role) \subseteq 0 .. Len(role')
  BY RowFacts
<1>2. RowsOK'
  BY <1>1 DEF RowsOK, people
<1>3. CodesInOnePlace'
  BY NoRequestMatches, CodesKept DEF people
<1>4. OwnerByCreation'
  BY NoRequestMatches, OwnerKept
<1>5. QED
  BY <1>2, <1>3, <1>4, NoRequestType, NoRequestMatches, RequestStep

(* Confirming and disabling two-factor sign-in: the codes come later.      *)
LEMMA TotpStep ==
    ASSUME AccessInv, NEW c \in AccessCallers, ConfirmTOTP(c) \/ DisableTOTP(c)
    PROVE  AccessInv'
<1> USE TypeFacts, RequestFacts
<1>1. PICK op \in {"confirm", "disable"}, state \in TotpStates :
          /\ totp' = [totp EXCEPT ![request[c].user] = state]
          /\ request' = [request EXCEPT ![c] =
                 [NoRequest EXCEPT !.op = op, !.at = "clear", !.user = request[c].user]]
  BY DEF ConfirmTOTP, DisableTOTP, Proceeds, TotpStates
<1>2. /\ request[c].user \in Members
      /\ UNCHANGED <<codes, batches, login, roles, apiKey, histories>>
  BY DEF ConfirmTOTP, DisableTOTP, Doing, RequestMatches, ByUser
<1> PICK r : r = [NoRequest EXCEPT !.op = op, !.at = "clear", !.user = request[c].user]
  OBVIOUS
<1>3. r \in Requests /\ r.op \in {"confirm", "disable"} /\ r.at = "clear" /\ r.user \in Members
  BY <1>2, NoRequestType, ZenonT(60) DEF Requests
<1>4. RequestMatches(r)' /\ ~Spending(r) /\ ~Assigning(r)
  BY <1>3 DEF RequestMatches, Spending, Assigning
<1>5. totp' \in [Members -> TotpStates]
  BY <1>1
<1>6. QED
  BY <1>1, <1>2, <1>3, <1>4, <1>5, PlainStep DEF roles

(* New recovery codes are of a batch that nobody has seen yet.             *)
LEMMA AddBatchStep ==
    ASSUME AccessInv, NEW c \in AccessCallers, AddBatch(c)
    PROVE  AccessInv'
<1> USE TypeFacts, RequestFacts
<1> PICK u, kept, fresh : /\ u = request[c].user /\ fresh = batches + 1
                          /\ kept = codes[request[c].user] \ request[c].seen
  OBVIOUS
<1>1. /\ batches < MaxBatches /\ batches' = fresh /\ u \in Members
      /\ codes' = [codes EXCEPT ![u] = kept \cup {fresh}]
      /\ request' = [request EXCEPT ![c] = NoRequest]
      /\ UNCHANGED <<totp, login, roles, apiKey, histories>>
  BY DEF AddBatch, Answers, Proceeds, Doing, RequestMatches, ByUser
<1>2. fresh \in 1 .. MaxBatches /\ kept \subseteq codes[u] /\ batches' \in 0 .. MaxBatches
      /\ batches \in Nat /\ fresh = batches + 1
  BY <1>1, RowFacts
<1>3. \A v \in Members : codes'[v] = IF v = u THEN kept \cup {fresh} ELSE codes[v]
  BY <1>1
<1>4. codes' \in [Members -> SUBSET (1 .. MaxBatches)]
  BY <1>1, <1>2
<1>5. RowsOK'
  BY <1>1, <1>2, <1>4 DEF RowsOK, roles, histories
<1>6. CodesInOnePlace'
  <2>1. \A d \in AccessCallers : Spending(request'[d]) => d # c /\ request'[d] = request[d]
    BY <1>1, NoRequestMatches
  <2>2. \A d \in AccessCallers : Spending(request[d])' = Spending(request'[d])
    BY DEF Spending
  <2>3. opened' = opened /\ opened[fresh] = {}
    <3>1. opened[fresh] = {} \/ fresh <= batches
      BY <1>2 DEF CodesInOnePlace
    <3>2. QED
      BY <1>1, <1>2, <3>1 DEF histories
  <2>4. \A v \in Members : \A b \in codes[v] : b \in 1 .. MaxBatches /\ b # fresh
    BY <1>2 DEF CodesInOnePlace
  <2>5. \A v \in Members : \A b \in codes'[v] : b <= batches' /\ opened'[b] = {}
    <3> SUFFICES ASSUME NEW v \in Members, NEW b \in codes'[v]
                 PROVE  b <= batches' /\ opened[b] = {}
      BY <2>3
    <3>1. CASE b = fresh
      BY <3>1, <1>1, <1>2, <2>3
    <3>2. CASE b # fresh
      <4>1. b \in codes[v]
        BY <3>2, <1>2, <1>3
      <4>2. b <= batches /\ opened[b] = {} /\ b \in 1 .. MaxBatches
        BY <4>1, <2>4 DEF CodesInOnePlace
      <4>3. QED
        BY <4>2, <1>1, <1>2
    <3>3. QED
      BY <3>1, <3>2
  <2>6. \A v, w \in Members : v # w => codes'[v] \cap codes'[w] = {}
    <3>1. \A v, w \in Members : v # w => codes[v] \cap codes[w] = {}
      BY DEF CodesInOnePlace
    <3>2. QED
      BY <3>1, <1>2, <1>3, <2>4
  <2>7. \A d \in AccessCallers : Spending(request'[d]) =>
            /\ request'[d].code <= batches' /\ opened'[request'[d].code] = {}
            /\ \A v \in Members : request'[d].code \notin codes'[v]
    <3> SUFFICES ASSUME NEW d \in AccessCallers, Spending(request[d])
                 PROVE  /\ request[d].code <= batches' /\ opened[request[d].code] = {}
                        /\ \A v \in Members : request[d].code \notin codes'[v]
      BY <2>1, <2>3
    <3>1. /\ request[d].code <= batches /\ opened[request[d].code] = {}
          /\ \A v \in Members : request[d].code \notin codes[v]
      BY DEF CodesInOnePlace, Given
    <3>2. request[d].code \in 0 .. MaxBatches
      OBVIOUS
    <3>3. request[d].code <= batches' /\ request[d].code # fresh
      BY <1>1, <1>2, <3>1, <3>2
    <3>4. QED
      BY <1>2, <1>3, <3>1, <3>3
  <2>8. \A d, e \in AccessCallers : d # e /\ Spending(request'[d]) /\ Spending(request'[e])
            => request'[d].code # request'[e].code
    BY <2>1 DEF CodesInOnePlace
  <2>9. \A b \in 1 .. MaxBatches :
            opened'[b] = {} \/ (b <= batches' /\ \E s \in 1 .. MaxLogins : opened'[b] = {s})
    <3>1. \A b \in 1 .. MaxBatches :
              opened[b] = {} \/ (b <= batches /\ \E s \in 1 .. MaxLogins : opened[b] = {s})
      BY DEF CodesInOnePlace
    <3>2. QED
      BY <3>1, <1>1, <1>2, <2>3
  <2>10. QED
    BY <2>2, <2>5, <2>6, <2>7, <2>8, <2>9 DEF CodesInOnePlace, Given
<1>7. OwnerByCreation'
  <2>1. HasRoleNamed("Owner")' = HasRoleNamed("Owner")
    BY <1>1 DEF HasRoleNamed, LiveRoles, roles
  <2>2. QED
    BY <1>1, <2>1, NoRequestMatches, OwnerKept DEF histories
<1>8. QED
  BY <1>1, <1>5, <1>6, <1>7, NoRequestType, NoRequestMatches, RequestStep

LEMMA DeleteCodesStep ==
    ASSUME AccessInv, NEW c \in AccessCallers, DeleteCodes(c)
    PROVE  AccessInv'
<1> USE TypeFacts, RequestFacts
<1>1. /\ request[c].user \in Members /\ codes' = [codes EXCEPT ![request[c].user] = {}]
      /\ request' = [request EXCEPT ![c] = NoRequest]
      /\ UNCHANGED <<totp, batches, login, roles, apiKey, histories>>
  BY DEF DeleteCodes, Answers, Proceeds, Doing, RequestMatches, ByUser
<1>2. /\ codes' \in [Members -> SUBSET (1 .. MaxBatches)]
      /\ \A v \in Members : codes'[v] \subseteq codes[v]
  BY <1>1
<1>3. RowsOK'
  BY <1>1, <1>2 DEF RowsOK, roles, histories
<1>4. CodesInOnePlace'
  <2>1. \A d \in AccessCallers : Spending(request'[d]) => d # c /\ request'[d] = request[d]
    BY <1>1, NoRequestMatches
  <2>2. \A d \in AccessCallers : Spending(request[d])' = Spending(request'[d])
    BY DEF Spending
  <2>3. batches' = batches /\ opened' = opened
    BY <1>1 DEF histories
  <2>4. \A v \in Members : \A b \in codes'[v] : b <= batches' /\ opened'[b] = {}
    BY <1>2, <2>3 DEF CodesInOnePlace
  <2>5. \A v, w \in Members : v # w => codes'[v] \cap codes'[w] = {}
    <3>1. \A v, w \in Members : v # w => codes[v] \cap codes[w] = {}
      BY DEF CodesInOnePlace
    <3>2. QED
      BY <3>1, <1>2
  <2>6. \A d \in AccessCallers : Spending(request'[d]) =>
            /\ request'[d].code <= batches' /\ opened'[request'[d].code] = {}
            /\ \A v \in Members : request'[d].code \notin codes'[v]
    BY <1>2, <2>1, <2>3 DEF CodesInOnePlace, Given
  <2>7. \A d, e \in AccessCallers : d # e /\ Spending(request'[d]) /\ Spending(request'[e])
            => request'[d].code # request'[e].code
    BY <2>1 DEF CodesInOnePlace
  <2>8. \A b \in 1 .. MaxBatches :
            opened'[b] = {} \/ (b <= batches' /\ \E s \in 1 .. MaxLogins : opened'[b] = {s})
    BY <2>3 DEF CodesInOnePlace
  <2>9. QED
    BY <2>2, <2>4, <2>5, <2>6, <2>7, <2>8 DEF CodesInOnePlace, Given
<1>5. OwnerByCreation'
  <2>1. HasRoleNamed("Owner")' = HasRoleNamed("Owner")
    BY <1>1 DEF HasRoleNamed, LiveRoles, roles
  <2>2. QED
    BY <1>1, <2>1, NoRequestMatches, OwnerKept DEF histories
<1>6. QED
  BY <1>1, <1>3, <1>4, <1>5, NoRequestType, NoRequestMatches, RequestStep

LEMMA ManageStep == AccessInv /\ Manage => AccessInv'
<1> SUFFICES ASSUME AccessInv, Manage PROVE AccessInv'
  OBVIOUS
<1> USE TypeFacts, RequestFacts
<1>1. ASSUME NEW c \in AccessCallers, NEW s \in DOMAIN login, AuthenticatePrincipal(c, s)
      PROVE  AccessInv'
  <2> DEFINE r == [NoRequest EXCEPT !.op = "guarded", !.at = "perform", !.user = login[s].user,
                                    !.bySession = TRUE, !.manages = EffectiveFor(login[s].user)]
  <2>1. login[s].user \in Members /\ EffectiveFor(login[s].user) \in BOOLEAN
    <3>1. tenantRole[login[s].user] \in 0 .. Len(role) /\ login[s].user \in Members
      BY RowFacts
    <3>2. \A k \in DOMAIN role : role[k].manages \in BOOLEAN
      BY RowFacts DEF RoleRows
    <3>3. tenantRole[login[s].user] = 0 \/ tenantRole[login[s].user] \in DOMAIN role
      BY <3>1, RowFacts
    <3>4. QED
      BY <3>1, <3>2, <3>3 DEF EffectiveFor
  <2>2. r \in Requests /\ r.op = "guarded" /\ r.at = "perform" /\ r.user = login[s].user
    BY <2>1, NoRequestType, ZenonT(60) DEF Requests
  <2> HIDE DEF r
  <2>3. RequestMatches(r) /\ ~Spending(r) /\ ~Assigning(r)
    BY <2>1, <2>2 DEF RequestMatches, Spending, Assigning
  <2>4. QED
    BY <1>1, <2>2, <2>3, QuietStep DEF AuthenticatePrincipal, Accepts, r
<1>2. ASSUME NEW c \in AccessCallers, NEW k \in DOMAIN apiKey, AuthenticateAPIKey(c, k)
      PROVE  AccessInv'
  <2> DEFINE r == [NoRequest EXCEPT !.op = "guarded", !.at = "perform",
                                    !.manages = apiKey[k].manages]
  <2>1. apiKey[k].manages \in BOOLEAN
    BY RowFacts DEF Keys
  <2>2. r \in Requests /\ r.op = "guarded" /\ r.at = "perform" /\ ~r.bySession
    BY <2>1, NoRequestType DEF Requests, NoRequest
  <2> HIDE DEF r
  <2>3. RequestMatches(r) /\ ~Spending(r) /\ ~Assigning(r)
    BY <2>2 DEF RequestMatches, ByUser, Spending, Assigning
  <2>4. QED
    BY <1>2, <2>2, <2>3, QuietStep DEF AuthenticateAPIKey, Accepts, r
<1>3. ASSUME NEW c \in AccessCallers, NEW n \in RoleNames, NEW m \in BOOLEAN, CreateRole(c, n, m)
      PROVE  AccessInv'
  <2> DEFINE row == [name |-> n, manages |-> m, deleted |-> FALSE]
  <2>1. /\ role' = Append(role, row) /\ Len(role) < MaxRoles
        /\ request' = [request EXCEPT ![c] = NoRequest]
        /\ UNCHANGED <<people, login, tenantRole, listRole, apiKey, histories>>
    BY <1>3 DEF CreateRole, AddRole, Answers, Proceeds
  <2>2. row \in RoleRows
    BY DEF RoleRows
  <2> HIDE DEF row
  <2>3. /\ role' \in Seq(RoleRows) /\ Len(role') = Len(role) + 1
        /\ DOMAIN role \subseteq DOMAIN role' /\ \A k \in DOMAIN role : role'[k] = role[k]
    BY <2>1, <2>2, RowFacts, AppendProperties, LenProperties
  <2>4. Len(role') <= MaxRoles /\ Len(role) <= Len(role')
    BY <2>1, <2>3, RowFacts
  <2>5. HasRoleNamed("Owner") => HasRoleNamed("Owner")'
    BY <2>3 DEF HasRoleNamed, LiveRoles
  <2>6. QED
    BY <2>1, <2>3, <2>4, <2>5, RolesStep DEF histories
<1>4. ASSUME NEW c \in AccessCallers, NEW k \in DOMAIN role, NEW row \in RoleRows,
             request' = [request EXCEPT ![c] = NoRequest], role' = [role EXCEPT ![k] = row],
             ownerKept' \in BOOLEAN,
             ownerKept' => ownerKept /\ (k \in LiveRoles /\ role[k].name = "Owner" =>
                                            row.name = "Owner" /\ ~row.deleted),
             UNCHANGED <<people, login, tenantRole, listRole, apiKey, bootstrapped, opened>>
      PROVE  AccessInv'
  <2>1. /\ role' \in Seq(RoleRows) /\ Len(role') = Len(role) /\ DOMAIN role' = DOMAIN role
        /\ \A j \in DOMAIN role : role'[j] = IF j = k THEN row ELSE role[j]
    BY <1>4, RowFacts, ExceptSeq
  <2>2. ownerKept' => ownerKept /\ (HasRoleNamed("Owner") => HasRoleNamed("Owner")')
    BY <1>4, <2>1 DEF HasRoleNamed, LiveRoles
  <2>3. Len(role') <= MaxRoles /\ Len(role) <= Len(role')
    BY <2>1, RowFacts
  <2>4. QED
    BY <1>4, <2>1, <2>2, <2>3, RolesStep
<1>5. ASSUME NEW c \in AccessCallers, NEW k \in DOMAIN role, NEW n \in RoleNames, NEW m \in BOOLEAN,
             UpdateRole(c, k, n, m)
      PROVE  AccessInv'
  <2> PICK row : row = [role[k] EXCEPT !.name = n, !.manages = m]
    OBVIOUS
  <2>1. row \in RoleRows /\ row.name = n /\ row.deleted = role[k].deleted
    BY RowFacts DEF RoleRows
  <2>2. /\ role' = [role EXCEPT ![k] = row] /\ ~role[k].deleted
        /\ ownerKept' = (ownerKept /\ (role[k].name = "Owner" => n = "Owner"))
        /\ request' = [request EXCEPT ![c] = NoRequest]
        /\ UNCHANGED <<people, login, tenantRole, listRole, apiKey, bootstrapped, opened>>
    BY <1>5 DEF UpdateRole, LiveRoles, Answers, Proceeds
  <2>3. QED
    BY <1>4, <2>1, <2>2
<1>6. ASSUME NEW c \in AccessCallers, NEW k \in DOMAIN role, DeleteRole(c, k) PROVE AccessInv'
  <2> PICK row : row = [role[k] EXCEPT !.deleted = TRUE]
    OBVIOUS
  <2>1. row \in RoleRows
    BY RowFacts DEF RoleRows
  <2>2. /\ role' = [role EXCEPT ![k] = row]
        /\ ownerKept' = (ownerKept /\ role[k].name # "Owner")
        /\ request' = [request EXCEPT ![c] = NoRequest]
        /\ UNCHANGED <<people, login, tenantRole, listRole, apiKey, bootstrapped, opened>>
    BY <1>6 DEF DeleteRole, Answers, Proceeds
  <2>3. QED
    BY <1>4, <2>1, <2>2
<1>7. ASSUME NEW c \in AccessCallers, NEW u \in Members, NEW k \in DOMAIN role,
             AssignRole(c, u, k) \/ AssignListRole(c, u, k)
      PROVE  AccessInv'
  <2>1. k \in 0 .. Len(role)
    BY RowFacts
  <2>2. /\ tenantRole' \in [Members -> 0 .. Len(role)] /\ listRole' \in [Members -> 0 .. Len(role)]
        /\ request' = [request EXCEPT ![c] = NoRequest]
        /\ UNCHANGED <<people, login, role, apiKey, histories>>
    BY <1>7, <2>1 DEF AssignRole, AssignListRole, Answers, Proceeds
  <2>3. QED
    BY <2>2, GuardedStep
<1>8. ASSUME NEW c \in AccessCallers, NEW u \in Members, RevokeRole(c, u) PROVE AccessInv'
  <2>1. 0 \in 0 .. Len(role)
    BY RowFacts
  <2>2. /\ listRole' \in [Members -> 0 .. Len(role)]
        /\ request' = [request EXCEPT ![c] = NoRequest]
        /\ UNCHANGED <<people, login, role, tenantRole, apiKey, histories>>
    BY <1>8, <2>1 DEF RevokeRole, Answers, Proceeds
  <2>3. QED
    BY <2>2, GuardedStep
<1>9. ASSUME NEW c \in AccessCallers, NEW m \in BOOLEAN, IssueAPIKey(c, m) PROVE AccessInv'
  <2>1. [manages |-> m, revoked |-> FALSE] \in Keys
    BY DEF Keys
  <2>2. apiKey' \in Seq(Keys)
    BY <1>9, <2>1, AppendProperties DEF IssueAPIKey
  <2>3. QED
    BY <1>9, <2>2, GuardedStep DEF IssueAPIKey, Answers, Proceeds, roles
<1>10. ASSUME NEW c \in AccessCallers, NEW k \in DOMAIN apiKey, RevokeAPIKey(c, k) PROVE AccessInv'
  <2> PICK row : row = [apiKey[k] EXCEPT !.revoked = TRUE]
    OBVIOUS
  <2>1. row \in Keys
    BY RowFacts DEF Keys
  <2>2. apiKey' = [apiKey EXCEPT ![k] = row]
    BY <1>10 DEF RevokeAPIKey
  <2>3. apiKey' \in Seq(Keys)
    BY <2>1, <2>2, RowFacts, ExceptSeq
  <2>4. QED
    BY <1>10, <2>3, GuardedStep DEF RevokeAPIKey, Answers, Proceeds, roles
<1>11. ASSUME NEW c \in AccessCallers, ClearCodes(c) PROVE AccessInv'
  <2> PICK r : r = [request[c] EXCEPT !.at = "insert", !.seen = codes[request[c].user]]
    OBVIOUS
  <2>1. request[c].op = "confirm" /\ request[c].user \in Members
    BY <1>11 DEF ClearCodes, Doing, RequestMatches, ByUser
  <2>2. r \in Requests /\ r.op = "confirm" /\ r.user = request[c].user
    BY <2>1, ZenonT(60) DEF Requests
  <2>3. RequestMatches(r) /\ ~Spending(r) /\ ~Assigning(r)
    BY <2>1, <2>2 DEF RequestMatches, Spending, Assigning
  <2>4. QED
    BY <1>11, <2>2, <2>3, QuietStep DEF ClearCodes, Proceeds
<1>12. ASSUME NEW c \in AccessCallers, Refuse(c) PROVE AccessInv'
  BY <1>12, NoRequestType, NoRequestMatches, QuietStep DEF Refuse, Answers, Proceeds
<1>13. QED
  BY <1>1, <1>2, <1>3, <1>5, <1>6, <1>7, <1>8, <1>9, <1>10, <1>11, <1>12, TotpStep,
     AddBatchStep, DeleteCodesStep DEF Manage

LEMMA AccessStep == AccessInv /\ [AccessNext]_accessVars => AccessInv'
<1> SUFFICES ASSUME AccessInv, [AccessNext]_accessVars PROVE AccessInv'
  OBVIOUS
<1>1. ASSUME NEW c \in AccessCallers, RequestFails(c) PROVE AccessInv'
  BY <1>1, NoRequestType, NoRequestMatches, QuietStep DEF RequestFails
<1>2. CASE UNCHANGED accessVars
  BY <1>2, NoRequestType, NoRequestMatches, TypeFacts, PlainStep
  DEF accessVars, people, roles, requesting
<1>3. QED
  BY <1>1, <1>2, EnterStep, ManageStep DEF AccessNext

(* Every reachable state of the workspace satisfies the invariant.         *)
THEOREM AccessInvariant == AccessSpec => []AccessInv
  BY AccessInitInv, AccessStep, PTL DEF AccessSpec

(* A recovery code opens one session, however many pending sessions answer *)
(* with it at once and wherever their handlers stop.                       *)
THEOREM CodesOpenOneSession == AccessSpec => []CodeOpensOneSession
<1>1. AccessInv => CodeOpensOneSession
  <2> SUFFICES ASSUME AccessInv, NEW b \in 1 .. MaxBatches PROVE Cardinality(opened[b]) <= 1
    BY DEF CodeOpensOneSession
  <2>1. opened[b] = {} \/ \E s \in 1 .. MaxLogins : opened[b] = {s}
    BY DEF AccessInv, CodesInOnePlace
  <2>2. CASE opened[b] = {}
    BY <2>2, FS_EmptySet
  <2>3. ASSUME NEW s \in 1 .. MaxLogins, opened[b] = {s} PROVE Cardinality(opened[b]) <= 1
    <3>1. Cardinality({s}) = 1
      BY FS_Singleton
    <3>2. QED
      BY <2>3, <3>1
  <2>4. QED
    BY <2>1, <2>2, <2>3
<1>2. QED
  BY <1>1, AccessInvariant, PTL

(* However many members enter a new workspace at once, one of them becomes *)
(* its Owner by entering, as long as the role keeps its name.              *)
THEOREM OneOwnerByEntering == AccessSpec => []OneBootstrapOwner
<1>1. AccessInv => OneBootstrapOwner
  <2> SUFFICES ASSUME AccessInv, ownerKept PROVE Cardinality(bootstrapped) <= 1
    BY DEF OneBootstrapOwner
  <2>1. bootstrapped = {} \/ \E u \in Members : bootstrapped = {u}
    BY DEF AccessInv, OwnerByCreation
  <2>2. CASE bootstrapped = {}
    BY <2>2, FS_EmptySet
  <2>3. ASSUME NEW u \in Members, bootstrapped = {u} PROVE Cardinality(bootstrapped) <= 1
    <3>1. Cardinality({u}) = 1
      BY FS_Singleton
    <3>2. QED
      BY <2>3, <3>1
  <2>4. QED
    BY <2>1, <2>2, <2>3
<1>2. QED
  BY <1>1, AccessInvariant, PTL
=============================================================================
