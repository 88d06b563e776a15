---------------------------- MODULE AccountsProofs ----------------------------
(* Proofs about Accounts, for any number of people and calls and any       *)
(* bounds.                                                                 *)
EXTENDS Accounts, FiniteSetTheorems, SequenceTheorems, TLAPS

(* A call works on rows that are there (rows are marked, never removed),   *)
(* and a link is consumed only after its account has been marked.          *)
CallMatches(r) ==
    /\ r.at \in {"mark", "consume"} => r.op = "verify"
    /\ r.at = "enqueue" => r.token \in DOMAIN verification
    /\ r.op = "verify" => /\ r.token \in DOMAIN verification
                          /\ r.user = verification[r.token].user
    /\ r.op = "accept" => r.token \in DOMAIN invitation
    /\ r.at = "consume" => account[r.user] = "verified"

CallsMatch == \A c \in Callers : CallMatches(call[c])

(* Whom an invitation let in, it let in when it was accepted.              *)
AdmittedByAcceptance ==
    \A n \in 1 .. MaxInvitations :
        \/ admitted[n] = {}
        \/ /\ n \in DOMAIN invitation
           /\ invitation[n].status = "accepted"
           /\ \E u \in People : admitted[n] = {u}

AccountsInv == AccountsTypeOK /\ CallsMatch /\ ConsumedMeansVerified /\ AdmittedByAcceptance

-----------------------------------------------------------------------------
LEMMA NoCallType ==
    /\ NoCall \in Calls
    /\ NoCall.op = "idle" /\ NoCall.at = "idle" /\ NoCall.token = 0
    /\ NoCall.user = Founder /\ NoCall.seen = {}
  BY AccountsAssumption DEF NoCall, Calls

LEMMA NoCallMatches == CallMatches(NoCall)
  BY NoCallType DEF CallMatches

(* Changing some rows of a table, or all of them, keeps its shape.         *)
LEMMA FunctionIsSeq ==
    ASSUME NEW S, NEW q \in Seq(S), NEW f \in [DOMAIN q -> S]
    PROVE  f \in Seq(S) /\ Len(f) = Len(q) /\ DOMAIN f = DOMAIN q
  OBVIOUS

LEMMA RowTypes ==
    ASSUME AccountsTypeOK
    PROVE  /\ DOMAIN verification = 1 .. Len(verification) /\ Len(verification) \in Nat
           /\ \A t \in DOMAIN verification : /\ verification[t] \in Verifications
                                            /\ verification[t].user \in People
           /\ DOMAIN session = 1 .. Len(session)
           /\ \A s \in DOMAIN session : session[s] \in Sessions
           /\ DOMAIN invitation = 1 .. Len(invitation) /\ Len(invitation) \in Nat
           /\ \A n \in DOMAIN invitation : /\ invitation[n] \in Invitations
                                          /\ invitation[n].email \in People
<1>1. /\ verification \in Seq(Verifications)
      /\ session \in Seq(Sessions)
      /\ invitation \in Seq(Invitations)
  BY DEF AccountsTypeOK
<1>2. /\ DOMAIN verification = 1 .. Len(verification) /\ Len(verification) \in Nat
      /\ \A t \in DOMAIN verification : verification[t] \in Verifications
  BY <1>1
<1>3. DOMAIN session = 1 .. Len(session) /\ \A s \in DOMAIN session : session[s] \in Sessions
  BY <1>1
<1>4. /\ DOMAIN invitation = 1 .. Len(invitation) /\ Len(invitation) \in Nat
      /\ \A n \in DOMAIN invitation : invitation[n] \in Invitations
  BY <1>1
<1>5. \A t \in DOMAIN verification : verification[t].user \in People
  BY <1>2 DEF Verifications
<1>6. \A n \in DOMAIN invitation : invitation[n].email \in People
  BY <1>4 DEF Invitations
<1>7. QED
  BY <1>2, <1>3, <1>4, <1>5, <1>6

LEMMA AccountsInitInv == AccountsInit => AccountsInv
<1> SUFFICES ASSUME AccountsInit PROVE AccountsInv
  OBVIOUS
<1>1. /\ account \in [People -> AccountStates]
      /\ memberRole \in [People -> Roles]
      /\ workspace \in BOOLEAN
      /\ admitted \in [1 .. MaxInvitations -> SUBSET People]
      /\ unmailed \subseteq People
  BY DEF AccountsInit, AccountStates, Roles
<1>2. /\ verification \in Seq(Verifications) /\ Len(verification) <= MaxVerifications
      /\ session \in Seq(Sessions)
      /\ invitation \in Seq(Invitations) /\ Len(invitation) <= MaxInvitations
      /\ mailJobs \subseteq DOMAIN verification /\ mailbox \subseteq DOMAIN verification
      /\ DOMAIN verification = {}
  BY AccountsAssumption DEF AccountsInit
<1>3. call \in [Callers -> Calls]
  BY NoCallType DEF AccountsInit
<1>4. CallsMatch
  BY NoCallMatches DEF AccountsInit, CallsMatch
<1>5. ConsumedMeansVerified /\ AdmittedByAcceptance
  BY <1>2 DEF AccountsInit, ConsumedMeansVerified, AdmittedByAcceptance
<1>6. QED
  BY <1>1, <1>2, <1>3, <1>4, <1>5 DEF AccountsInv, AccountsTypeOK

-----------------------------------------------------------------------------
(* A step of a call that leaves the tables alone.                          *)
LEMMA CallStep ==
    ASSUME AccountsInv, NEW c \in Callers, NEW r \in Calls, CallMatches(r),
           call' = [call EXCEPT ![c] = r],
           mailJobs' \subseteq DOMAIN verification, unmailed' \subseteq People,
           UNCHANGED <<account, verification, mailbox, session, tenancy>>
    PROVE  AccountsInv'
<1>1. AccountsTypeOK'
  BY DEF AccountsInv, AccountsTypeOK, tenancy
<1>2. CallsMatch'
  BY DEF AccountsInv, AccountsTypeOK, CallsMatch, CallMatches, tenancy
<1>3. ConsumedMeansVerified' /\ AdmittedByAcceptance'
  BY DEF AccountsInv, ConsumedMeansVerified, AdmittedByAcceptance, tenancy
<1>4. QED
  BY <1>1, <1>2, <1>3 DEF AccountsInv

(* A step of the sign-up plane: links keep their owners, verified accounts *)
(* stay so, and only links of verified accounts are consumed.              *)
LEMMA PlaneStep ==
    ASSUME AccountsInv, NEW c, NEW r \in Calls,
           \/ call' = call
           \/ c \in Callers /\ call' = [call EXCEPT ![c] = r] /\ CallMatches(r)',
           account' \in [People -> AccountStates],
           \A u \in People : account[u] = "verified" => account'[u] = "verified",
           verification' \in Seq(Verifications),
           Len(verification') <= MaxVerifications,
           DOMAIN verification \subseteq DOMAIN verification',
           \A t \in DOMAIN verification : verification'[t].user = verification[t].user,
           \A t \in DOMAIN verification' : verification'[t].consumed =>
               \/ account'[verification'[t].user] = "verified"
               \/ t \in DOMAIN verification /\ verification[t].consumed,
           mailJobs' \subseteq DOMAIN verification',
           mailbox' \subseteq DOMAIN verification',
           UNCHANGED <<session, tenancy, unmailed>>
    PROVE  AccountsInv'
<1>1. \A c1 \in Callers : call'[c1] = call[c1] \/ (call'[c1] = r /\ CallMatches(r)')
  BY DEF AccountsInv, AccountsTypeOK
<1>2. call' \in [Callers -> Calls]
  BY DEF AccountsInv, AccountsTypeOK
<1>3. AccountsTypeOK'
  BY <1>2 DEF AccountsInv, AccountsTypeOK, tenancy
<1>4. CallsMatch'
  <2> SUFFICES ASSUME NEW c1 \in Callers PROVE CallMatches(call[c1])'
    BY DEF CallsMatch
  <2>1. CASE call'[c1] = r /\ CallMatches(r)'
    BY <2>1 DEF CallMatches
  <2>2. CASE call'[c1] = call[c1]
    <3>1. CallMatches(call[c1]) /\ call[c1] \in Calls
      BY DEF AccountsInv, AccountsTypeOK, CallsMatch
    <3>2. call[c1].user \in People
      BY <3>1 DEF Calls
    <3>3. QED
      BY <3>1, <3>2, <2>2 DEF CallMatches, tenancy
  <2>3. QED
    BY <2>1, <2>2, <1>1
<1>5. ConsumedMeansVerified'
  <2>1. \A t \in DOMAIN verification : verification[t].user \in People
    BY RowTypes DEF AccountsInv
  <2>2. QED
    BY <2>1 DEF AccountsInv, ConsumedMeansVerified
<1>6. AdmittedByAcceptance'
  BY DEF AccountsInv, AdmittedByAcceptance, tenancy
<1>7. QED
  BY <1>3, <1>4, <1>5, <1>6 DEF AccountsInv

(* A step of the workspace: invitations keep their places.                 *)
LEMMA TenancyStep ==
    ASSUME AccountsInv, NEW c,
           \/ call' = call
           \/ c \in Callers /\ call' = [call EXCEPT ![c] = NoCall],
           account' \in [People -> AccountStates],
           \A u \in People : account[u] = "verified" => account'[u] = "verified",
           session' \in Seq(Sessions), workspace' \in BOOLEAN,
           memberRole' \in [People -> Roles],
           invitation' \in Seq(Invitations), Len(invitation') <= MaxInvitations,
           DOMAIN invitation \subseteq DOMAIN invitation',
           admitted' \in [1 .. MaxInvitations -> SUBSET People],
           AdmittedByAcceptance',
           UNCHANGED <<verification, mailJobs, mailbox, unmailed>>
    PROVE  AccountsInv'
<1>1. \A c1 \in Callers : call'[c1] = call[c1] \/ call'[c1] = NoCall
  BY DEF AccountsInv, AccountsTypeOK
<1>2. call' \in [Callers -> Calls]
  BY NoCallType DEF AccountsInv, AccountsTypeOK
<1>3. AccountsTypeOK'
  BY <1>2 DEF AccountsInv, AccountsTypeOK
<1>4. CallsMatch'
  <2> SUFFICES ASSUME NEW c1 \in Callers PROVE CallMatches(call[c1])'
    BY DEF CallsMatch
  <2>1. CASE call'[c1] = NoCall
    BY <2>1, NoCallType DEF CallMatches
  <2>2. CASE call'[c1] = call[c1]
    <3>1. CallMatches(call[c1]) /\ call[c1].user \in People
      BY DEF AccountsInv, AccountsTypeOK, CallsMatch, Calls
    <3>2. QED
      BY <3>1, <2>2 DEF CallMatches
  <2>3. QED
    BY <2>1, <2>2, <1>1
<1>5. ConsumedMeansVerified'
  <2>1. \A t \in DOMAIN verification : verification[t].user \in People
    BY RowTypes DEF AccountsInv
  <2>2. QED
    BY <2>1 DEF AccountsInv, ConsumedMeansVerified
<1>6. QED
  BY <1>3, <1>4, <1>5 DEF AccountsInv

-----------------------------------------------------------------------------
LEMMA RegisterStep == AccountsInv /\ Register => AccountsInv'
<1> SUFFICES ASSUME AccountsInv, Register PROVE AccountsInv'
  OBVIOUS
<1>1. /\ AccountsTypeOK /\ CallsMatch /\ ConsumedMeansVerified
      /\ account \in [People -> AccountStates]
      /\ verification \in Seq(Verifications) /\ Len(verification) <= MaxVerifications
      /\ mailJobs \subseteq DOMAIN verification /\ mailbox \subseteq DOMAIN verification
      /\ unmailed \subseteq People /\ call \in [Callers -> Calls]
  BY DEF AccountsInv, AccountsTypeOK
<1>2. /\ DOMAIN verification = 1 .. Len(verification) /\ Len(verification) \in Nat
      /\ \A t \in DOMAIN verification : /\ verification[t] \in Verifications
                                       /\ verification[t].user \in People
      /\ MaxVerifications \in Nat /\ MaxInvitations \in Nat
  BY <1>1, RowTypes, AccountsAssumption
<1>3. \A t \in DOMAIN verification :
          verification[t].consumed => account[verification[t].user] = "verified"
  BY <1>1 DEF ConsumedMeansVerified
<1>4. \A c \in Callers : call[c] \in Calls /\ CallMatches(call[c]) /\ call[c].user \in People
  BY <1>1 DEF CallsMatch, Calls
<1>5. ASSUME NEW u \in People
      PROVE  /\ NewVerification(u) \in Verifications
             /\ NewVerification(u).user = u /\ ~NewVerification(u).consumed
  BY DEF NewVerification, Verifications
<1>6. ASSUME NEW c \in Callers, NEW u \in People, SignUp(c, u) PROVE AccountsInv'
  <2> PICK r : r = [NoCall EXCEPT !.op = "signup", !.at = "enqueue", !.user = u,
                                  !.token = Len(verification) + 1]
    OBVIOUS
  <2>1. /\ account[u] = "none" /\ Len(verification) < MaxVerifications
        /\ account' = [account EXCEPT ![u] = "unverified"]
        /\ verification' = Append(verification, NewVerification(u))
        /\ call' = [call EXCEPT ![c] = r]
        /\ UNCHANGED <<mailJobs, mailbox, session, tenancy, unmailed>>
    BY <1>6 DEF SignUp, CreateWithVerification, Starts
  <2>2. /\ verification' \in Seq(Verifications)
        /\ Len(verification') = Len(verification) + 1
        /\ DOMAIN verification' = 1 .. (Len(verification) + 1)
        /\ verification'[Len(verification) + 1] = NewVerification(u)
        /\ \A t \in DOMAIN verification : verification'[t] = verification[t]
    BY <1>1, <1>2, <1>5, <2>1, AppendProperties, LenProperties
  <2>3. r \in Calls /\ r.at = "enqueue" /\ r.op = "signup" /\ r.token = Len(verification) + 1
    <3>1. Len(verification) + 1 \in 0 .. MaxVerifications + MaxInvitations
      BY <1>2, <2>1
    <3>2. QED
      BY <3>1, NoCallType DEF Calls
  <2>4. CallMatches(r)'
    BY <2>2, <2>3, <1>2 DEF CallMatches
  <2>5. account' \in [People -> AccountStates]
        /\ \A v \in People : account[v] = "verified" => account'[v] = "verified"
    BY <1>1, <2>1 DEF AccountStates
  <2>6. \A t \in DOMAIN verification' : verification'[t].consumed =>
            t \in DOMAIN verification /\ verification[t].consumed
    BY <2>2, <1>2, <1>5
  <2>7. /\ DOMAIN verification \subseteq DOMAIN verification'
        /\ Len(verification') <= MaxVerifications
        /\ mailJobs' \subseteq DOMAIN verification' /\ mailbox' \subseteq DOMAIN verification'
        /\ \A t \in DOMAIN verification : verification'[t].user = verification[t].user
    BY <2>1, <2>2, <1>1, <1>2
  <2>8. account' \in [People -> AccountStates] /\ verification' \in Seq(Verifications)
        /\ call' = [call EXCEPT ![c] = r] /\ UNCHANGED <<session, tenancy, unmailed>>
    BY <2>1, <2>2, <2>5
  <2>9. QED
    BY <2>3, <2>4, <2>5, <2>6, <2>7, <2>8, PlaneStep
<1>7. ASSUME NEW c \in Callers, NEW u \in People, ResendVerification(c, u) PROVE AccountsInv'
  <2> DEFINE r == [NoCall EXCEPT !.op = "resend", !.at = "clear", !.user = u]
  <2>1. r \in Calls /\ CallMatches(r)
    BY NoCallType DEF Calls, CallMatches
  <2> HIDE DEF r
  <2>2. QED
    BY <2>1, <1>1, <1>7, CallStep DEF ResendVerification, Starts, plane, r
<1>8. ASSUME NEW c \in Callers, ClearPending(c) PROVE AccountsInv'
  <2> DEFINE r == [call[c] EXCEPT !.at = "insert", !.seen = Unconsumed(call[c].user)]
  <2>1. Unconsumed(call[c].user) \subseteq 1 .. MaxVerifications
    BY <1>1, <1>2 DEF Unconsumed
  <2>2. r \in Calls /\ CallMatches(r)
    BY <2>1, <1>4, <1>8 DEF Calls, CallMatches, ClearPending, IsAt
  <2> HIDE DEF r
  <2>3. QED
    BY <2>2, <1>1, <1>8, CallStep DEF ClearPending, Continues, plane, r
<1>9. ASSUME NEW c \in Callers, InsertVerification(c) PROVE AccountsInv'
  <2> PICK r : r = [call[c] EXCEPT !.at = "enqueue", !.token = Len(verification) + 1,
                                   !.seen = {}]
    OBVIOUS
  <2> DEFINE u == call[c].user
             cleared == [t \in DOMAIN verification |->
                            IF t \in call[c].seen /\ ~verification[t].consumed
                            THEN [verification[t] EXCEPT !.deleted = TRUE]
                            ELSE verification[t]]
  <2>1. /\ IsAt(c, "resend", "insert") /\ Len(verification) < MaxVerifications
        /\ verification' = Append(cleared, NewVerification(u))
        /\ call' = [call EXCEPT ![c] = r]
        /\ UNCHANGED <<account, mailJobs, mailbox, session, tenancy, unmailed>>
    BY <1>9 DEF InsertVerification, Continues
  <2>2. \A t \in DOMAIN verification :
            /\ cleared[t] \in Verifications
            /\ cleared[t].user = verification[t].user
            /\ cleared[t].consumed = verification[t].consumed
    BY <1>2 DEF Verifications
  <2>3. cleared \in [DOMAIN verification -> Verifications]
    BY <2>2
  <2> HIDE DEF cleared
  <2>4. cleared \in Seq(Verifications) /\ Len(cleared) = Len(verification)
    BY <2>3, <1>1, FunctionIsSeq
  <2>5. /\ verification' \in Seq(Verifications)
        /\ Len(verification') = Len(verification) + 1
        /\ DOMAIN verification' = 1 .. (Len(verification) + 1)
        /\ verification'[Len(verification) + 1] = NewVerification(u)
        /\ \A t \in DOMAIN verification : verification'[t] = cleared[t]
    BY <1>2, <1>4, <1>5, <2>1, <2>4, AppendProperties, LenProperties
  <2>6. r \in Calls /\ r.at = "enqueue" /\ r.op = "resend" /\ r.token = Len(verification) + 1
    <3>1. Len(verification) + 1 \in 0 .. MaxVerifications + MaxInvitations
      BY <1>2, <2>1
    <3>2. QED
      BY <3>1, <1>4, <2>1 DEF Calls, IsAt
  <2>7. CallMatches(r)'
    BY <2>5, <2>6, <1>2 DEF CallMatches
  <2>8. /\ DOMAIN verification \subseteq DOMAIN verification'
        /\ \A t \in DOMAIN verification : verification'[t].user = verification[t].user
        /\ \A t \in DOMAIN verification' : verification'[t].consumed =>
               t \in DOMAIN verification /\ verification[t].consumed
    BY <2>2, <2>5, <1>2, <1>4, <1>5
  <2>9. /\ Len(verification') <= MaxVerifications
        /\ mailJobs' \subseteq DOMAIN verification' /\ mailbox' \subseteq DOMAIN verification'
        /\ account' \in [People -> AccountStates]
        /\ \A v \in People : account[v] = "verified" => account'[v] = "verified"
    BY <2>1, <2>5, <2>8, <1>1, <1>2
  <2>10. verification' \in Seq(Verifications) /\ call' = [call EXCEPT ![c] = r]
         /\ UNCHANGED <<session, tenancy, unmailed>>
    BY <2>1, <2>5
  <2>11. QED
    BY <2>6, <2>7, <2>8, <2>9, <2>10, PlaneStep
<1>10. ASSUME NEW c \in Callers, EnqueueVerificationSend(c) PROVE AccountsInv'
  <2>1. call[c].token \in DOMAIN verification
    BY <1>4, <1>10 DEF CallMatches, EnqueueVerificationSend
  <2>2. QED
    BY <2>1, <1>1, <1>10, NoCallType, NoCallMatches, CallStep
    DEF EnqueueVerificationSend, Returns, Continues
<1>11. ASSUME NEW t \in mailJobs, SendVerification(t) PROVE AccountsInv'
  BY <1>1, <1>3, <1>11, NoCallType, PlaneStep DEF SendVerification, calling
<1>12. ASSUME NEW c \in Callers, NEW t \in mailbox, VerifyEmail(c, t) PROVE AccountsInv'
  <2> DEFINE r == [NoCall EXCEPT !.op = "verify", !.at = "mark", !.token = t,
                                 !.user = verification[t].user]
  <2>1. t \in DOMAIN verification /\ t \in 0 .. MaxVerifications + MaxInvitations
    BY <1>1, <1>2
  <2>2. r \in Calls /\ CallMatches(r)
    BY <2>1, <1>2, NoCallType DEF Calls, CallMatches
  <2> HIDE DEF r
  <2>3. QED
    BY <2>2, <1>1, <1>12, CallStep DEF VerifyEmail, Starts, plane, r
<1>13. ASSUME NEW c \in Callers, MarkEmailVerified(c) PROVE AccountsInv'
  <2> PICK r : r = [call[c] EXCEPT !.at = "consume"]
    OBVIOUS
  <2>1. r \in Calls /\ r.op = "verify" /\ r.at = "consume" /\ r.token = call[c].token
        /\ r.user = call[c].user
    BY <1>4, <1>13 DEF Calls, MarkEmailVerified, IsAt
  <2>2. /\ account' = [account EXCEPT ![call[c].user] = "verified"]
        /\ call' = [call EXCEPT ![c] = r]
        /\ UNCHANGED <<verification, mailJobs, mailbox, session, tenancy, unmailed>>
    BY <1>13 DEF MarkEmailVerified, Continues
  <2>3. /\ account' \in [People -> AccountStates]
        /\ \A u \in People : account[u] = "verified" => account'[u] = "verified"
        /\ account'[r.user] = "verified"
    BY <1>1, <1>4, <2>1, <2>2 DEF AccountStates
  <2>4. CallMatches(r)'
    BY <1>4, <1>13, <2>1, <2>2, <2>3 DEF CallMatches, MarkEmailVerified, IsAt
  <2>5. QED
    BY <1>1, <1>3, <2>1, <2>2, <2>3, <2>4, PlaneStep
<1>14. ASSUME NEW c \in Callers, ConsumeVerification(c) PROVE AccountsInv'
  <2> DEFINE k == call[c].token
             row == [verification[k] EXCEPT !.consumed = @ \/ ~verification[k].deleted]
  <2>1. /\ k \in DOMAIN verification
        /\ account[verification[k].user] = "verified"
    BY <1>4, <1>14 DEF CallMatches, ConsumeVerification, IsAt
  <2>2. row \in Verifications /\ row.user = verification[k].user
    BY <2>1, <1>2 DEF Verifications
  <2>3. /\ verification' = [verification EXCEPT ![k] = row]
        /\ call' = [call EXCEPT ![c] = NoCall]
        /\ UNCHANGED <<account, mailJobs, mailbox, session, tenancy, unmailed>>
    BY <1>14 DEF ConsumeVerification, Returns, Continues
  <2> HIDE DEF row, k
  <2>4. /\ verification' \in Seq(Verifications) /\ Len(verification') = Len(verification)
        /\ DOMAIN verification' = DOMAIN verification
        /\ \A t \in DOMAIN verification :
               verification'[t] = IF t = k THEN row ELSE verification[t]
    BY <2>1, <2>2, <2>3, <1>1, <1>2, ExceptSeq
  <2>5. CallMatches(NoCall)'
    BY NoCallType DEF CallMatches
  <2>6. QED
    BY <1>1, <1>2, <1>3, <2>1, <2>2, <2>3, <2>4, <2>5, NoCallType, PlaneStep
<1>15. ASSUME NEW t \in DOMAIN verification, VerificationExpires(t) PROVE AccountsInv'
  <2> DEFINE row == [verification[t] EXCEPT !.expired = TRUE]
  <2>1. /\ row \in Verifications /\ row.user = verification[t].user
        /\ row.consumed = verification[t].consumed
    BY <1>2 DEF Verifications
  <2>2. /\ verification' = [verification EXCEPT ![t] = row]
        /\ UNCHANGED <<account, mailJobs, mailbox, session, tenancy, call, unmailed>>
    BY <1>15 DEF VerificationExpires, calling
  <2> HIDE DEF row
  <2>3. /\ verification' \in Seq(Verifications) /\ Len(verification') = Len(verification)
        /\ DOMAIN verification' = DOMAIN verification
        /\ \A s \in DOMAIN verification :
               verification'[s] = IF s = t THEN row ELSE verification[s]
    BY <2>1, <2>2, <1>1, <1>2, ExceptSeq
  <2>4. QED
    BY <1>1, <1>2, <1>3, <2>1, <2>2, <2>3, NoCallType, PlaneStep
<1>16. CASE CleanUpVerifications
  <2> DEFINE swept == [t \in DOMAIN verification |->
                          [verification[t] EXCEPT !.deleted = @ \/ verification[t].expired]]
  <2>1. verification' = swept
        /\ UNCHANGED <<account, mailJobs, mailbox, session, tenancy, call, unmailed>>
    BY <1>16 DEF CleanUpVerifications, calling
  <2>2. \A t \in DOMAIN verification :
            /\ swept[t] \in Verifications
            /\ swept[t].user = verification[t].user
            /\ swept[t].consumed = verification[t].consumed
    BY <1>2 DEF Verifications
  <2>3. swept \in [DOMAIN verification -> Verifications]
    BY <2>2
  <2> HIDE DEF swept
  <2>4. swept \in Seq(Verifications) /\ Len(swept) = Len(verification)
        /\ DOMAIN swept = DOMAIN verification
    BY <2>3, <1>1, FunctionIsSeq
  <2>5. QED
    BY <1>1, <1>2, <1>3, <2>1, <2>2, <2>4, NoCallType, PlaneStep
<1>17. QED
  BY <1>6, <1>7, <1>8, <1>9, <1>10, <1>11, <1>12, <1>13, <1>14, <1>15, <1>16 DEF Register

-----------------------------------------------------------------------------
LEMMA JoinStep == AccountsInv /\ Join => AccountsInv'
<1> SUFFICES ASSUME AccountsInv, Join PROVE AccountsInv'
  OBVIOUS
<1>1. /\ AccountsTypeOK /\ CallsMatch /\ AdmittedByAcceptance
      /\ account \in [People -> AccountStates]
      /\ session \in Seq(Sessions) /\ workspace \in BOOLEAN
      /\ memberRole \in [People -> Roles]
      /\ invitation \in Seq(Invitations) /\ Len(invitation) <= MaxInvitations
      /\ admitted \in [1 .. MaxInvitations -> SUBSET People]
      /\ mailJobs \subseteq DOMAIN verification /\ unmailed \subseteq People
      /\ call \in [Callers -> Calls]
  BY DEF AccountsInv, AccountsTypeOK
<1>2. /\ DOMAIN invitation = 1 .. Len(invitation) /\ Len(invitation) \in Nat
      /\ \A n \in DOMAIN invitation : /\ invitation[n] \in Invitations
                                     /\ invitation[n].email \in People
      /\ DOMAIN session = 1 .. Len(session)
      /\ \A s \in DOMAIN session : session[s] \in Sessions
      /\ MaxVerifications \in Nat /\ MaxInvitations \in Nat
      /\ DOMAIN invitation \subseteq 1 .. MaxInvitations
  BY <1>1, RowTypes, AccountsAssumption
<1>3. \A c \in Callers : call[c] \in Calls /\ CallMatches(call[c]) /\ call[c].user \in People
  BY <1>1 DEF CallsMatch, Calls
<1>4. ASSUME NEW u \in People, IssueSession(u) PROVE session' \in Seq(Sessions)
  <2>1. [user |-> u, state |-> "live"] \in Sessions
    BY DEF Sessions
  <2>2. QED
    BY <1>1, <1>4, <2>1, AppendProperties DEF IssueSession
<1>5. ASSUME call' = call \/ \E c \in Callers : call' = [call EXCEPT ![c] = NoCall],
             session' \in Seq(Sessions), workspace' \in BOOLEAN,
             memberRole' \in [People -> Roles],
             UNCHANGED <<plane, invitation, admitted, unmailed>>
      PROVE  AccountsInv'
  <2>1. AdmittedByAcceptance'
    BY <1>1, <1>5 DEF AdmittedByAcceptance
  <2>2. PICK c : call' = call \/ (c \in Callers /\ call' = [call EXCEPT ![c] = NoCall])
    BY <1>5
  <2>3. QED
    BY <1>1, <1>5, <2>1, <2>2, TenancyStep DEF plane
<1>6. ASSUME NEW u \in People, LogIn(u) PROVE AccountsInv'
  <2>1. session' \in Seq(Sessions)
    BY <1>4, <1>6 DEF LogIn
  <2>2. call' = call /\ UNCHANGED <<plane, workspace, memberRole, invitation, admitted, unmailed>>
    BY <1>6 DEF LogIn, tenancy, calling
  <2>3. workspace' \in BOOLEAN /\ memberRole' \in [People -> Roles]
    BY <2>2, <1>1
  <2>4. QED
    BY <2>1, <2>2, <2>3, <1>5
<1>7. ASSUME NEW s \in DOMAIN session, NEW e \in {"revoked", "expired"},
             session' = [session EXCEPT ![s].state = e], UNCHANGED <<plane, tenancy, calling>>
      PROVE  AccountsInv'
  <2> DEFINE row == [session[s] EXCEPT !.state = e]
  <2>1. row \in Sessions
    BY <1>2 DEF Sessions
  <2>2. session' = [session EXCEPT ![s] = row]
    BY <1>7
  <2> HIDE DEF row
  <2>3. session' \in Seq(Sessions)
    BY <2>1, <2>2, <1>1, <1>2, ExceptSeq
  <2>4. call' = call /\ UNCHANGED <<plane, workspace, memberRole, invitation, admitted, unmailed>>
    BY <1>7 DEF tenancy, calling
  <2>5. workspace' \in BOOLEAN /\ memberRole' \in [People -> Roles]
    BY <2>4, <1>1
  <2>6. QED
    BY <2>3, <2>4, <2>5, <1>5
<1>8. ASSUME NEW s \in DOMAIN session, LogOut(s) PROVE AccountsInv'
  BY <1>7, <1>8 DEF LogOut
<1>9. ASSUME NEW s \in DOMAIN session, SessionExpires(s) PROVE AccountsInv'
  BY <1>7, <1>9 DEF SessionExpires
<1>10. ASSUME NEW u \in People, CreateWorkspace(u) PROVE AccountsInv'
  <2>1. memberRole' \in [People -> Roles]
    BY <1>1, <1>10 DEF CreateWorkspace, Roles
  <2>2. /\ workspace' \in BOOLEAN /\ call' = call
        /\ UNCHANGED <<plane, session, invitation, admitted, unmailed>>
    BY <1>10 DEF CreateWorkspace, calling
  <2>3. session' \in Seq(Sessions)
    BY <2>2, <1>1
  <2>4. QED
    BY <2>1, <2>2, <2>3, <1>5
<1>11. ASSUME NEW c \in Callers, NEW u \in People, NEW e \in People, InviteTeammate(c, u, e)
       PROVE  AccountsInv'
  <2> DEFINE r == [NoCall EXCEPT !.op = "invite", !.at = "create", !.user = e]
  <2>1. r \in Calls /\ CallMatches(r)
    BY NoCallType DEF Calls, CallMatches
  <2> HIDE DEF r
  <2>2. QED
    BY <2>1, <1>1, <1>11, CallStep DEF InviteTeammate, Starts, plane, r
<1>12. ASSUME NEW c \in Callers, CreateInvitation(c) PROVE AccountsInv'
  <2> DEFINE row == [email |-> call[c].user, status |-> "pending", expired |-> FALSE]
  <2>1. CASE UNCHANGED invitation
    BY <2>1, <1>1, <1>5, <1>12 DEF CreateInvitation, Returns, Continues
  <2>2. CASE Len(invitation) < MaxInvitations /\ invitation' = Append(invitation, row)
    <3>1. row \in Invitations
      BY <1>3 DEF Invitations
    <3> HIDE DEF row
    <3>2. /\ invitation' \in Seq(Invitations) /\ Len(invitation') = Len(invitation) + 1
          /\ DOMAIN invitation' = 1 .. (Len(invitation) + 1)
          /\ \A n \in DOMAIN invitation : invitation'[n] = invitation[n]
      BY <1>1, <1>2, <2>2, <3>1, AppendProperties, LenProperties
    <3>3. /\ Len(invitation') <= MaxInvitations
          /\ DOMAIN invitation \subseteq DOMAIN invitation'
      BY <1>2, <2>2, <3>2
    <3>4. /\ call' = [call EXCEPT ![c] = NoCall]
          /\ UNCHANGED <<plane, session, workspace, memberRole, admitted, unmailed>>
      BY <1>12 DEF CreateInvitation, Returns, Continues
    <3>5. AdmittedByAcceptance'
      BY <1>1, <3>2, <3>3, <3>4 DEF AdmittedByAcceptance
    <3>6. QED
      BY <1>1, <3>2, <3>3, <3>4, <3>5, TenancyStep DEF plane
  <2>3. QED
    BY <2>1, <2>2, <1>12 DEF CreateInvitation
<1>13. ASSUME NEW n \in DOMAIN invitation, NEW row \in Invitations,
              invitation[n].status = "pending",
              invitation' = [invitation EXCEPT ![n] = row],
              UNCHANGED <<plane, session, workspace, memberRole, admitted, calling>>
       PROVE  AccountsInv'
  <2>1. /\ invitation' \in Seq(Invitations) /\ Len(invitation') = Len(invitation)
        /\ DOMAIN invitation' = DOMAIN invitation
        /\ \A m \in DOMAIN invitation : m # n => invitation'[m] = invitation[m]
    BY <1>1, <1>2, <1>13, ExceptSeq
  <2>2. AdmittedByAcceptance'
    BY <1>1, <1>13, <2>1 DEF AdmittedByAcceptance
  <2>3. QED
    BY <1>1, <1>13, <2>1, <2>2, TenancyStep DEF plane, calling
<1>14. ASSUME NEW u \in People, NEW n \in DOMAIN invitation, RevokeInvitation(u, n)
       PROVE  AccountsInv'
  <2>1. [invitation[n] EXCEPT !.status = "revoked"] \in Invitations
    BY <1>2 DEF Invitations
  <2>2. QED
    BY <2>1, <1>13, <1>14 DEF RevokeInvitation
<1>15. ASSUME NEW n \in DOMAIN invitation, InvitationExpires(n) PROVE AccountsInv'
  <2>1. [invitation[n] EXCEPT !.expired = TRUE] \in Invitations
    BY <1>2 DEF Invitations
  <2>2. QED
    BY <2>1, <1>13, <1>15 DEF InvitationExpires
<1>16. ASSUME NEW c \in Callers, NEW n \in DOMAIN invitation, NEW u \in People,
              NEW at \in {"admit", "register"}, AcceptInvitation(c, n, u, at)
       PROVE  AccountsInv'
  <2> DEFINE r == [NoCall EXCEPT !.op = "accept", !.at = at, !.user = u, !.token = n]
  <2>1. n \in 0 .. MaxVerifications + MaxInvitations
    BY <1>2
  <2>2. r \in Calls /\ CallMatches(r)
    BY <2>1, NoCallType DEF Calls, CallMatches
  <2> HIDE DEF r
  <2>3. QED
    BY <2>2, <1>1, <1>16, CallStep DEF AcceptInvitation, Starts, plane, r
<1>17. ASSUME NEW c \in Callers, call[c].op = "accept",
              AcceptInvitationRow(call[c].token), AddMembershipRow(call[c].token, call[c].user),
              call' = [call EXCEPT ![c] = NoCall],
              account' \in [People -> AccountStates],
              \A u \in People : account[u] = "verified" => account'[u] = "verified",
              session' \in Seq(Sessions),
              UNCHANGED <<verification, mailJobs, mailbox, workspace, unmailed>>
       PROVE  AccountsInv'
  <2> DEFINE n == call[c].token
             u == call[c].user
             row == [invitation[n] EXCEPT !.status = "accepted"]
  <2>1. n \in DOMAIN invitation /\ n \in 1 .. MaxInvitations /\ u \in People
    BY <1>2, <1>3, <1>17 DEF CallMatches
  <2>2. invitation[n].status = "pending"
    BY <1>17 DEF AcceptInvitationRow, IsAcceptable
  <2>3. row \in Invitations /\ row.status = "accepted"
    BY <1>2, <2>1 DEF Invitations
  <2>4. invitation' = [invitation EXCEPT ![n] = row]
    BY <1>17 DEF AcceptInvitationRow
  <2>5. memberRole' \in [People -> Roles]
        /\ admitted' = [admitted EXCEPT ![n] = @ \cup {u}]
    BY <1>1, <1>17 DEF AddMembershipRow, Roles
  <2> HIDE DEF n, u, row
  <2>6. /\ invitation' \in Seq(Invitations) /\ Len(invitation') = Len(invitation)
        /\ DOMAIN invitation' = DOMAIN invitation
        /\ invitation'[n] = row
        /\ \A m \in DOMAIN invitation : m # n => invitation'[m] = invitation[m]
    BY <1>1, <1>2, <2>1, <2>3, <2>4, ExceptSeq
  <2>7. admitted[n] = {}
    BY <1>1, <2>1, <2>2 DEF AdmittedByAcceptance
  <2>8. /\ admitted' \in [1 .. MaxInvitations -> SUBSET People]
        /\ admitted'[n] = {u}
        /\ \A m \in 1 .. MaxInvitations : m # n => admitted'[m] = admitted[m]
    BY <1>1, <2>1, <2>5, <2>7
  <2>9. AdmittedByAcceptance'
    BY <1>1, <2>1, <2>3, <2>6, <2>8 DEF AdmittedByAcceptance
  <2>10. QED
    BY <1>1, <1>17, <2>5, <2>6, <2>8, <2>9, TenancyStep
<1>18. ASSUME NEW c \in Callers, AcceptForExistingUser(c) PROVE AccountsInv'
  BY <1>1, <1>17, <1>18 DEF AcceptForExistingUser, Returns, Continues, IsAt, plane
<1>19. ASSUME NEW c \in Callers, AcceptForNewUser(c) PROVE AccountsInv'
  <2>1. /\ account' \in [People -> AccountStates]
        /\ \A u \in People : account[u] = "verified" => account'[u] = "verified"
    BY <1>1, <1>19 DEF AcceptForNewUser, AccountStates
  <2>2. session' \in Seq(Sessions)
    BY <1>3, <1>4, <1>19 DEF AcceptForNewUser
  <2>3. QED
    BY <2>1, <2>2, <1>17, <1>19 DEF AcceptForNewUser, Returns, Continues, IsAt
<1>20. ASSUME NEW c \in Callers, AcceptFails(c) PROVE AccountsInv'
  BY <1>1, <1>20, NoCallType, NoCallMatches, CallStep DEF AcceptFails, Returns, Continues, plane
<1>21. QED
  BY <1>6, <1>8, <1>9, <1>10, <1>11, <1>12, <1>14, <1>15, <1>16, <1>18, <1>19, <1>20 DEF Join

LEMMA CallFailsStep == ASSUME AccountsInv, NEW c \in Callers, CallFails(c) PROVE AccountsInv'
<1>1. /\ mailJobs \subseteq DOMAIN verification /\ unmailed \subseteq People
      /\ call \in [Callers -> Calls]
  BY DEF AccountsInv, AccountsTypeOK
<1>2. unmailed' \subseteq People
  BY <1>1 DEF CallFails, Calls
<1>3. QED
  BY <1>1, <1>2, NoCallType, NoCallMatches, CallStep DEF CallFails, plane

LEMMA AccountsStep == AccountsInv /\ [AccountsNext]_accountsVars => AccountsInv'
<1> SUFFICES ASSUME AccountsInv, [AccountsNext]_accountsVars PROVE AccountsInv'
  OBVIOUS
<1>1. CASE UNCHANGED accountsVars
  BY <1>1 DEF accountsVars, plane, tenancy, calling, AccountsInv, AccountsTypeOK, CallsMatch,
     CallMatches, ConsumedMeansVerified, AdmittedByAcceptance
<1>2. QED
  BY <1>1, RegisterStep, JoinStep, CallFailsStep DEF AccountsNext

(* Every reachable state of the accounts satisfies the invariant.          *)
THEOREM AccountsInvariant == AccountsSpec => []AccountsInv
  BY AccountsInitInv, AccountsStep, PTL DEF AccountsSpec

(* A used link never belongs to an account that is still unverified.       *)
THEOREM UsedLinksVerify == AccountsSpec => []ConsumedMeansVerified
<1>1. AccountsInv => ConsumedMeansVerified
  BY DEF AccountsInv
<1>2. QED
  BY <1>1, AccountsInvariant, PTL

(* An invitation lets one person in, and none once it has been revoked.    *)
THEOREM InvitationsAdmitOnce == AccountsSpec => []InvitationAdmitsOnce
<1>1. AccountsInv => InvitationAdmitsOnce
  <2> SUFFICES ASSUME AccountsInv, NEW n \in DOMAIN invitation
               PROVE  /\ Cardinality(admitted[n]) <= 1
                      /\ admitted[n] # {} => invitation[n].status = "accepted"
    BY DEF InvitationAdmitsOnce
  <2>1. AccountsTypeOK /\ Len(invitation) <= MaxInvitations /\ AdmittedByAcceptance
    BY DEF AccountsInv, AccountsTypeOK
  <2>2. n \in 1 .. MaxInvitations
    BY <2>1, RowTypes, AccountsAssumption
  <2>3. CASE admitted[n] = {}
    BY <2>3, FS_EmptySet
  <2>4. CASE admitted[n] # {}
    <3>1. invitation[n].status = "accepted" /\ \E u \in People : admitted[n] = {u}
      BY <2>1, <2>2, <2>4 DEF AdmittedByAcceptance
    <3>2. QED
      BY <3>1, FS_Singleton
  <2>5. QED
    BY <2>3, <2>4
<1>2. QED
  BY <1>1, AccountsInvariant, PTL
-----------------------------------------------------------------------------
(* Links that are still on their way.                                      *)

(* A call that is about to enqueue the mail of this very link.             *)
IsEnqueuing(c, t) ==
    /\ call[c].at = "enqueue"
    /\ call[c].token = t
    /\ call[c].user = verification[t].user

(* Row by row, and of every row ever written, deleted and used ones too:   *)
(* that is what makes the promise inductive, because a resend deletes what *)
(* an overlapping one has yet to mail.                                     *)
IsCovered(t) ==
    \/ account[verification[t].user] = "verified"
    \/ verification[t].user \in unmailed
    \/ t \in mailJobs \cup mailbox
    \/ \E c \in Callers : IsEnqueuing(c, t)

LinksCovered == \A t \in DOMAIN verification : IsCovered(t)

(* Only sign-ups and resends enqueue: no acceptance stops there.           *)
OthersNeverEnqueue == \A c \in Callers : call[c].at = "enqueue" => call[c].op # "accept"

LinksInv == LinksCovered /\ OthersNeverEnqueue

(* A call moves on, but not one that was about to enqueue.                 *)
MovesOn ==
    \/ call' = call
    \/ \E c \in Callers, r \in Calls :
          /\ call' = [call EXCEPT ![c] = r]
          /\ call[c].at # "enqueue"
          /\ r.at = "enqueue" => r.op # "accept"

LEMMA MovesOnKeeps ==
    ASSUME AccountsInv, OthersNeverEnqueue, MovesOn
    PROVE  /\ OthersNeverEnqueue'
           /\ \A c \in Callers : call[c].at = "enqueue" => call'[c] = call[c]
<1>1. call \in [Callers -> Calls]
  BY DEF AccountsInv, AccountsTypeOK
<1>2. CASE call' = call
  BY <1>2 DEF OthersNeverEnqueue
<1>3. ASSUME NEW d \in Callers, NEW r \in Calls, call' = [call EXCEPT ![d] = r],
             call[d].at # "enqueue", r.at = "enqueue" => r.op # "accept"
      PROVE  /\ OthersNeverEnqueue'
             /\ \A c \in Callers : call[c].at = "enqueue" => call'[c] = call[c]
  <2>1. call'[d] = r /\ \A c \in Callers : c # d => call'[c] = call[c]
    BY <1>1, <1>3
  <2>2. QED
    BY <1>3, <2>1 DEF OthersNeverEnqueue
<1>4. QED
  BY <1>2, <1>3 DEF MovesOn

(* One row stays covered when what covers it stays.                        *)
LEMMA CoverStays ==
    ASSUME NEW t, IsCovered(t),
           verification'[t].user = verification[t].user,
           account[verification[t].user] = "verified" =>
               account'[verification[t].user] = "verified",
           unmailed \subseteq unmailed',
           mailJobs \cup mailbox \subseteq (mailJobs \cup mailbox)',
           \A c \in Callers : call[c].at = "enqueue" => call'[c] = call[c]
    PROVE  IsCovered(t)'
<1>1. CASE \E c \in Callers : IsEnqueuing(c, t)
  BY <1>1 DEF IsEnqueuing, IsCovered
<1>2. QED
  BY <1>1 DEF IsCovered

LEMMA LinksStay ==
    ASSUME AccountsInv, LinksInv, MovesOn,
           \A t \in DOMAIN verification : verification'[t].user = verification[t].user,
           \A t \in DOMAIN verification' : t \in DOMAIN verification \/ IsCovered(t)',
           \A u \in People : account[u] = "verified" => account'[u] = "verified",
           unmailed \subseteq unmailed',
           mailJobs \cup mailbox \subseteq (mailJobs \cup mailbox)'
    PROVE  LinksInv'
<1>1. /\ OthersNeverEnqueue'
      /\ \A c \in Callers : call[c].at = "enqueue" => call'[c] = call[c]
  BY MovesOnKeeps DEF LinksInv
<1>2. \A t \in DOMAIN verification : verification[t].user \in People
  BY RowTypes DEF AccountsInv
<1>3. ASSUME NEW t \in DOMAIN verification PROVE IsCovered(t)'
  BY <1>1, <1>2, <1>3, CoverStays DEF LinksInv, LinksCovered
<1>4. LinksCovered'
  BY <1>3 DEF LinksCovered
<1>5. QED
  BY <1>1, <1>4 DEF LinksInv

(* Steps that leave the links and the mail alone.                          *)
LEMMA LinksFrame ==
    ASSUME AccountsInv, LinksInv, MovesOn,
           UNCHANGED <<verification, mailJobs, mailbox, unmailed>>,
           \A u \in People : account[u] = "verified" => account'[u] = "verified"
    PROVE  LinksInv'
  BY LinksStay

(* The calls the handlers start, and the empty one, do not enqueue at once. *)
LEMMA StartsMovesOn ==
    ASSUME AccountsInv, NEW c \in Callers, NEW r \in Calls, Starts(c, r),
           r.at = "enqueue" => r.op # "accept"
    PROVE  MovesOn /\ unmailed' = unmailed
  BY NoCallType DEF Starts, MovesOn

LEMMA ContinuesMovesOn ==
    ASSUME AccountsInv, NEW c \in Callers, NEW r \in Calls, Continues(c, r),
           call[c].at # "enqueue", r.at = "enqueue" => r.op # "accept"
    PROVE  MovesOn /\ unmailed' = unmailed
  BY DEF Continues, MovesOn

LEMMA ReturnsMovesOn ==
    ASSUME AccountsInv, NEW c \in Callers, Returns(c), call[c].at # "enqueue"
    PROVE  MovesOn /\ unmailed' = unmailed
  BY NoCallType, ContinuesMovesOn DEF Returns

LEMMA RegisterLinks == AccountsInv /\ LinksInv /\ Register => LinksInv'
<1> SUFFICES ASSUME AccountsInv, LinksInv, Register PROVE LinksInv'
  OBVIOUS
<1>1. /\ account \in [People -> AccountStates]
      /\ verification \in Seq(Verifications)
      /\ mailJobs \subseteq DOMAIN verification /\ mailbox \subseteq DOMAIN verification
      /\ call \in [Callers -> Calls]
      /\ LinksCovered /\ OthersNeverEnqueue /\ CallsMatch
  BY DEF AccountsInv, AccountsTypeOK, LinksInv
<1>2. /\ DOMAIN verification = 1 .. Len(verification) /\ Len(verification) \in Nat
      /\ \A t \in DOMAIN verification : /\ verification[t] \in Verifications
                                       /\ verification[t].user \in People
      /\ MaxVerifications \in Nat /\ MaxInvitations \in Nat
  BY RowTypes, AccountsAssumption DEF AccountsInv
<1>3. \A c \in Callers : call[c] \in Calls /\ CallMatches(call[c]) /\ call[c].user \in People
  BY <1>1 DEF CallsMatch, Calls
<1>4. ASSUME NEW u \in People
      PROVE  NewVerification(u) \in Verifications /\ NewVerification(u).user = u
  BY DEF NewVerification, Verifications
\* A row that comes with the call that will enqueue its mail is covered.
<1>5. ASSUME NEW c \in Callers, NEW r \in Calls, NEW u \in People,
             NEW q \in Seq(Verifications), Len(q) = Len(verification),
             \A t \in DOMAIN verification : q[t].user = verification[t].user,
             verification' = Append(q, NewVerification(u)),
             call' = [call EXCEPT ![c] = r], call[c].at # "enqueue",
             r.at = "enqueue", r.op # "accept", r.user = u, r.token = Len(verification) + 1,
             \A v \in People : account[v] = "verified" => account'[v] = "verified",
             UNCHANGED <<mailJobs, mailbox, unmailed>>
      PROVE  LinksInv'
  <2>1. /\ DOMAIN verification' = 1 .. (Len(verification) + 1)
        /\ verification'[Len(verification) + 1] = NewVerification(u)
        /\ \A t \in DOMAIN verification : verification'[t] = q[t]
    BY <1>2, <1>4, <1>5, AppendProperties, LenProperties
  <2>2. MovesOn
    BY <1>5 DEF MovesOn
  <2>3. call'[c] = r
    BY <1>1, <1>5
  <2>4. ASSUME NEW t, t = Len(verification) + 1 PROVE IsCovered(t)'
    <3>1. verification'[t].user = u
      BY <1>4, <2>1, <2>4
    <3>2. IsEnqueuing(c, t)'
      BY <1>5, <2>3, <2>4, <3>1 DEF IsEnqueuing
    <3>3. QED
      BY <3>2 DEF IsCovered
  <2>5. \A t \in DOMAIN verification' :
            t \in DOMAIN verification \/ t = Len(verification) + 1
    BY <1>2, <2>1
  <2>6. \A t \in DOMAIN verification : verification'[t].user = verification[t].user
    BY <1>5, <2>1
  <2>7. \A t \in DOMAIN verification' : t \in DOMAIN verification \/ IsCovered(t)'
    BY <2>4, <2>5
  <2>8. QED
    BY <1>5, <2>2, <2>6, <2>7, LinksStay
<1>6. ASSUME NEW c \in Callers, NEW u \in People, SignUp(c, u) PROVE LinksInv'
  <2> PICK r : r = [NoCall EXCEPT !.op = "signup", !.at = "enqueue", !.user = u,
                                  !.token = Len(verification) + 1]
    OBVIOUS
  <2>1. /\ account[u] = "none" /\ Len(verification) < MaxVerifications
        /\ account' = [account EXCEPT ![u] = "unverified"]
        /\ verification' = Append(verification, NewVerification(u))
        /\ call[c] = NoCall
        /\ call' = [call EXCEPT ![c] = r]
        /\ UNCHANGED <<mailJobs, mailbox, unmailed>>
    BY <1>6 DEF SignUp, CreateWithVerification, Starts
  <2>2. /\ r \in Calls /\ r.at = "enqueue" /\ r.op # "accept" /\ r.user = u
        /\ r.token = Len(verification) + 1
    <3>1. Len(verification) + 1 \in 0 .. MaxVerifications + MaxInvitations
      BY <1>2, <2>1
    <3>2. QED
      BY <3>1, NoCallType DEF Calls
  <2>3. \A v \in People : account[v] = "verified" => account'[v] = "verified"
    BY <1>1, <2>1
  <2>4. QED
    BY <1>1, <1>5, <2>1, <2>2, <2>3, NoCallType
<1>7. ASSUME NEW c \in Callers, NEW u \in People, ResendVerification(c, u) PROVE LinksInv'
  <2> PICK r : r = [NoCall EXCEPT !.op = "resend", !.at = "clear", !.user = u]
    OBVIOUS
  <2>1. r \in Calls /\ r.at = "clear"
    BY NoCallType DEF Calls
  <2>2. Starts(c, r) /\ UNCHANGED <<account, verification, mailJobs, mailbox>>
    BY <1>7 DEF ResendVerification, plane
  <2>3. QED
    BY <2>1, <2>2, StartsMovesOn, LinksFrame
<1>8. ASSUME NEW c \in Callers, ClearPending(c) PROVE LinksInv'
  <2> PICK r : r = [call[c] EXCEPT !.at = "insert", !.seen = Unconsumed(call[c].user)]
    OBVIOUS
  <2>1. Unconsumed(call[c].user) \subseteq 1 .. MaxVerifications
    BY <1>1, <1>2 DEF Unconsumed, AccountsInv, AccountsTypeOK
  <2>2. r \in Calls /\ r.at = "insert"
    BY <2>1, <1>3 DEF Calls
  <2>3. /\ Continues(c, r) /\ call[c].at # "enqueue"
        /\ UNCHANGED <<account, verification, mailJobs, mailbox>>
    BY <1>8 DEF ClearPending, IsAt, plane
  <2>4. QED
    BY <2>2, <2>3, ContinuesMovesOn, LinksFrame
<1>9. ASSUME NEW c \in Callers, InsertVerification(c) PROVE LinksInv'
  <2> PICK r : r = [call[c] EXCEPT !.at = "enqueue", !.token = Len(verification) + 1,
                                   !.seen = {}]
    OBVIOUS
  <2> DEFINE u == call[c].user
             cleared == [t \in DOMAIN verification |->
                            IF t \in call[c].seen /\ ~verification[t].consumed
                            THEN [verification[t] EXCEPT !.deleted = TRUE]
                            ELSE verification[t]]
  <2>1. /\ IsAt(c, "resend", "insert") /\ Len(verification) < MaxVerifications
        /\ verification' = Append(cleared, NewVerification(u))
        /\ call' = [call EXCEPT ![c] = r]
        /\ UNCHANGED <<account, mailJobs, mailbox, unmailed>>
    BY <1>9 DEF InsertVerification, Continues
  <2>2. \A t \in DOMAIN verification :
            cleared[t] \in Verifications /\ cleared[t].user = verification[t].user
    BY <1>2 DEF Verifications
  <2>3. cleared \in [DOMAIN verification -> Verifications]
    BY <2>2
  <2> HIDE DEF cleared
  <2>4. cleared \in Seq(Verifications) /\ Len(cleared) = Len(verification)
    BY <2>3, <1>1, FunctionIsSeq
  <2>5. /\ r \in Calls /\ r.at = "enqueue" /\ r.op = "resend" /\ r.user = u
        /\ r.token = Len(verification) + 1
    <3>1. Len(verification) + 1 \in 0 .. MaxVerifications + MaxInvitations
      BY <1>2, <2>1
    <3>2. QED
      BY <3>1, <1>3, <2>1 DEF Calls, IsAt
  <2>6. call[c].at # "enqueue" /\ u \in People
    BY <1>3, <2>1 DEF IsAt
  <2> HIDE DEF u
  <2>7. QED
    BY <1>5, <2>1, <2>2, <2>4, <2>5, <2>6
<1>10. ASSUME NEW c \in Callers, EnqueueVerificationSend(c) PROVE LinksInv'
  <2>1. /\ call[c].at = "enqueue"
        /\ mailJobs' = mailJobs \cup {call[c].token}
        /\ call' = [call EXCEPT ![c] = NoCall]
        /\ UNCHANGED <<account, verification, mailbox, unmailed>>
    BY <1>10 DEF EnqueueVerificationSend, Returns, Continues
  <2>2. call'[c] = NoCall /\ \A d \in Callers : d # c => call'[d] = call[d]
    BY <1>1, <2>1
  <2>3. ASSUME NEW t \in DOMAIN verification PROVE IsCovered(t)'
    <3>1. IsCovered(t)
      BY <1>1, <2>3 DEF LinksCovered
    <3>2. CASE IsEnqueuing(c, t)
      BY <2>1, <3>2 DEF IsCovered, IsEnqueuing
    <3>3. CASE \E d \in Callers : d # c /\ IsEnqueuing(d, t)
      BY <2>1, <2>2, <3>3 DEF IsCovered, IsEnqueuing
    <3>4. QED
      BY <2>1, <3>1, <3>2, <3>3 DEF IsCovered
  <2>4. OthersNeverEnqueue'
    BY <1>1, <2>2, NoCallType DEF OthersNeverEnqueue
  <2>5. QED
    BY <2>1, <2>3, <2>4 DEF LinksInv, LinksCovered
<1>11. ASSUME NEW t \in mailJobs, SendVerification(t) PROVE LinksInv'
  <2>1. /\ mailJobs' = mailJobs \ {t}
        /\ \/ account[verification[t].user] = "verified" /\ mailbox' = mailbox
           \/ mailbox' = mailbox \cup {t}
        /\ UNCHANGED <<account, verification, call, unmailed>>
    BY <1>11 DEF SendVerification, calling
  <2>2. ASSUME NEW k \in DOMAIN verification PROVE IsCovered(k)'
    <3>1. IsCovered(k)
      BY <1>1, <2>2 DEF LinksCovered
    <3>2. CASE k \in mailJobs \cup mailbox
      BY <2>1, <3>2 DEF IsCovered
    <3>3. QED
      BY <2>1, <3>1, <3>2 DEF IsCovered, IsEnqueuing
  <2>3. OthersNeverEnqueue'
    BY <1>1, <2>1 DEF OthersNeverEnqueue
  <2>4. QED
    BY <2>1, <2>2, <2>3 DEF LinksInv, LinksCovered
<1>12. ASSUME NEW c \in Callers, NEW t \in mailbox, VerifyEmail(c, t) PROVE LinksInv'
  <2> PICK r : r = [NoCall EXCEPT !.op = "verify", !.at = "mark", !.token = t,
                                  !.user = verification[t].user]
    OBVIOUS
  <2>1. t \in DOMAIN verification /\ t \in 0 .. MaxVerifications + MaxInvitations
    BY <1>1, <1>2 DEF AccountsInv, AccountsTypeOK
  <2>2. r \in Calls /\ r.at = "mark"
    BY <2>1, <1>2, NoCallType DEF Calls
  <2>3. Starts(c, r) /\ UNCHANGED <<account, verification, mailJobs, mailbox>>
    BY <1>12 DEF VerifyEmail, plane
  <2>4. QED
    BY <2>2, <2>3, StartsMovesOn, LinksFrame
<1>13. ASSUME NEW c \in Callers, MarkEmailVerified(c) PROVE LinksInv'
  <2> PICK r : r = [call[c] EXCEPT !.at = "consume"]
    OBVIOUS
  <2>1. r \in Calls /\ r.at = "consume"
    BY <1>3 DEF Calls
  <2>2. /\ account' = [account EXCEPT ![call[c].user] = "verified"]
        /\ Continues(c, r) /\ call[c].at # "enqueue"
        /\ UNCHANGED <<verification, mailJobs, mailbox>>
    BY <1>13 DEF MarkEmailVerified, IsAt
  <2>3. \A u \in People : account[u] = "verified" => account'[u] = "verified"
    BY <1>1, <2>2
  <2>4. QED
    BY <2>1, <2>2, <2>3, ContinuesMovesOn, LinksFrame
<1>14. ASSUME NEW c \in Callers, ConsumeVerification(c) PROVE LinksInv'
  <2>1. /\ call[c].token \in DOMAIN verification /\ call[c].at # "enqueue"
        /\ verification' = [verification EXCEPT ![call[c].token].consumed =
                                @ \/ ~verification[call[c].token].deleted]
        /\ Returns(c) /\ UNCHANGED <<account, mailJobs, mailbox>>
    BY <1>3, <1>14 DEF CallMatches, ConsumeVerification, IsAt
  <2>2. /\ DOMAIN verification' = DOMAIN verification
        /\ \A t \in DOMAIN verification : verification'[t].user = verification[t].user
    BY <1>2, <2>1 DEF Verifications
  <2>3. QED
    BY <2>1, <2>2, ReturnsMovesOn, LinksStay
<1>15. ASSUME NEW t \in DOMAIN verification, VerificationExpires(t) PROVE LinksInv'
  <2>1. /\ verification' = [verification EXCEPT ![t].expired = TRUE]
        /\ UNCHANGED <<account, mailJobs, mailbox, call, unmailed>>
    BY <1>15 DEF VerificationExpires, calling
  <2>2. /\ DOMAIN verification' = DOMAIN verification
        /\ \A k \in DOMAIN verification : verification'[k].user = verification[k].user
    BY <1>2, <2>1 DEF Verifications
  <2>3. MovesOn
    BY <2>1 DEF MovesOn
  <2>4. QED
    BY <2>1, <2>2, <2>3, LinksStay
<1>16. CASE CleanUpVerifications
  <2>1. /\ verification' = [t \in DOMAIN verification |->
                [verification[t] EXCEPT !.deleted = @ \/ verification[t].expired]]
        /\ UNCHANGED <<account, mailJobs, mailbox, call, unmailed>>
    BY <1>16 DEF CleanUpVerifications, calling
  <2>2. /\ DOMAIN verification' = DOMAIN verification
        /\ \A k \in DOMAIN verification : verification'[k].user = verification[k].user
    BY <1>2, <2>1 DEF Verifications
  <2>3. MovesOn
    BY <2>1 DEF MovesOn
  <2>4. QED
    BY <2>1, <2>2, <2>3, LinksStay
<1>17. QED
  BY <1>6, <1>7, <1>8, <1>9, <1>10, <1>11, <1>12, <1>13, <1>14, <1>15, <1>16 DEF Register

(* Joining a workspace leaves the links alone; an acceptance may create an *)
(* account, but no link.                                                   *)
LEMMA JoinLinks == AccountsInv /\ LinksInv /\ Join => LinksInv'
<1> SUFFICES ASSUME AccountsInv, LinksInv, Join PROVE LinksInv'
  OBVIOUS
<1>1. /\ account \in [People -> AccountStates] /\ call \in [Callers -> Calls]
      /\ OthersNeverEnqueue
  BY DEF AccountsInv, AccountsTypeOK, LinksInv
<1>2. \A c \in Callers : call[c] \in Calls /\ call[c].user \in People
  BY <1>1 DEF Calls
<1>3. /\ DOMAIN invitation = 1 .. Len(invitation) /\ Len(invitation) \in Nat
      /\ MaxVerifications \in Nat /\ MaxInvitations \in Nat
      /\ DOMAIN invitation \subseteq 1 .. MaxInvitations
  BY RowTypes, AccountsAssumption DEF AccountsInv, AccountsTypeOK
<1>4. ASSUME UNCHANGED <<plane, calling>> PROVE LinksInv'
  BY <1>4, LinksFrame DEF plane, calling, MovesOn
<1>5. ASSUME NEW c \in Callers, NEW r \in Calls, Starts(c, r), r.at # "enqueue", UNCHANGED plane
      PROVE  LinksInv'
  BY <1>5, StartsMovesOn, LinksFrame DEF plane
<1>6. ASSUME NEW c \in Callers, Returns(c), call[c].at # "enqueue", UNCHANGED plane
      PROVE  LinksInv'
  BY <1>6, ReturnsMovesOn, LinksFrame DEF plane
<1>7. ASSUME NEW u \in People, LogIn(u) PROVE LinksInv'
  BY <1>4, <1>7 DEF LogIn
<1>8. ASSUME NEW s \in DOMAIN session, LogOut(s) PROVE LinksInv'
  BY <1>4, <1>8 DEF LogOut
<1>9. ASSUME NEW s \in DOMAIN session, SessionExpires(s) PROVE LinksInv'
  BY <1>4, <1>9 DEF SessionExpires
<1>10. ASSUME NEW u \in People, CreateWorkspace(u) PROVE LinksInv'
  BY <1>4, <1>10 DEF CreateWorkspace
<1>11. ASSUME NEW c \in Callers, NEW u \in People, NEW e \in People, InviteTeammate(c, u, e)
       PROVE  LinksInv'
  <2> PICK r : r = [NoCall EXCEPT !.op = "invite", !.at = "create", !.user = e]
    OBVIOUS
  <2>1. r \in Calls /\ r.at = "create"
    BY NoCallType DEF Calls
  <2>2. QED
    BY <2>1, <1>5, <1>11 DEF InviteTeammate
<1>12. ASSUME NEW c \in Callers, CreateInvitation(c) PROVE LinksInv'
  BY <1>6, <1>12 DEF CreateInvitation, IsAt
<1>13. ASSUME NEW u \in People, NEW n \in DOMAIN invitation, RevokeInvitation(u, n)
       PROVE  LinksInv'
  BY <1>4, <1>13 DEF RevokeInvitation
<1>14. ASSUME NEW n \in DOMAIN invitation, InvitationExpires(n) PROVE LinksInv'
  BY <1>4, <1>14 DEF InvitationExpires
<1>15. ASSUME NEW c \in Callers, NEW n \in DOMAIN invitation, NEW u \in People,
              NEW at \in {"admit", "register"}, AcceptInvitation(c, n, u, at)
       PROVE  LinksInv'
  <2> PICK r : r = [NoCall EXCEPT !.op = "accept", !.at = at, !.user = u, !.token = n]
    OBVIOUS
  <2>1. n \in 0 .. MaxVerifications + MaxInvitations
    BY <1>3
  <2>2. r \in Calls /\ r.at # "enqueue"
    BY <2>1, NoCallType DEF Calls
  <2>3. QED
    BY <2>2, <1>5, <1>15 DEF AcceptInvitation
<1>16. ASSUME NEW c \in Callers, AcceptForExistingUser(c) PROVE LinksInv'
  BY <1>6, <1>16 DEF AcceptForExistingUser, IsAt
<1>17. ASSUME NEW c \in Callers, AcceptForNewUser(c) PROVE LinksInv'
  <2>1. /\ call[c].at # "enqueue" /\ Returns(c)
        /\ account[call[c].user] = "none"
        /\ account' = [account EXCEPT ![call[c].user] = "unverified"]
        /\ UNCHANGED <<verification, mailJobs, mailbox>>
    BY <1>17 DEF AcceptForNewUser, IsAt
  <2>2. \A u \in People : account[u] = "verified" => account'[u] = "verified"
    BY <1>1, <1>2, <2>1
  <2>3. QED
    BY <2>1, <2>2, ReturnsMovesOn, LinksFrame
<1>18. ASSUME NEW c \in Callers, AcceptFails(c) PROVE LinksInv'
  BY <1>1, <1>6, <1>18 DEF AcceptFails, OthersNeverEnqueue
<1>19. QED
  BY <1>7, <1>8, <1>9, <1>10, <1>11, <1>12, <1>13, <1>14, <1>15, <1>16, <1>17, <1>18 DEF Join

(* A fault before the mail is enqueued is remembered.                      *)
LEMMA FailureLinks ==
    ASSUME AccountsInv, LinksInv, NEW c \in Callers, CallFails(c)
    PROVE  LinksInv'
<1>1. /\ call \in [Callers -> Calls] /\ LinksCovered /\ OthersNeverEnqueue
  BY DEF AccountsInv, AccountsTypeOK, LinksInv
<1>2. /\ call' = [call EXCEPT ![c] = NoCall]
      /\ unmailed' = IF call[c].at = "enqueue" THEN unmailed \cup {call[c].user} ELSE unmailed
      /\ UNCHANGED <<account, verification, mailJobs, mailbox>>
  BY DEF CallFails, plane
<1>3. call'[c] = NoCall /\ \A d \in Callers : d # c => call'[d] = call[d]
  BY <1>1, <1>2
<1>4. ASSUME NEW t \in DOMAIN verification PROVE IsCovered(t)'
  <2>1. IsCovered(t)
    BY <1>1, <1>4 DEF LinksCovered
  <2>2. CASE IsEnqueuing(c, t)
    BY <1>2, <2>2 DEF IsCovered, IsEnqueuing
  <2>3. CASE \E d \in Callers : d # c /\ IsEnqueuing(d, t)
    BY <1>2, <1>3, <2>3 DEF IsCovered, IsEnqueuing
  <2>4. QED
    BY <1>2, <2>1, <2>2, <2>3 DEF IsCovered
<1>5. OthersNeverEnqueue'
  BY <1>1, <1>3, NoCallType DEF OthersNeverEnqueue
<1>6. QED
  BY <1>2, <1>4, <1>5 DEF LinksInv, LinksCovered

LEMMA LinksStep == AccountsInv /\ LinksInv /\ [AccountsNext]_accountsVars => LinksInv'
<1> SUFFICES ASSUME AccountsInv, LinksInv, [AccountsNext]_accountsVars PROVE LinksInv'
  OBVIOUS
<1>1. CASE UNCHANGED accountsVars
  BY <1>1, LinksFrame DEF accountsVars, plane, calling, MovesOn
<1>2. QED
  BY <1>1, RegisterLinks, JoinLinks, FailureLinks DEF AccountsNext

LEMMA LinksInit == AccountsInit => LinksInv
<1> SUFFICES ASSUME AccountsInit PROVE LinksInv
  OBVIOUS
<1>1. DOMAIN verification = {}
  BY DEF AccountsInit
<1>2. QED
  BY <1>1, NoCallType DEF AccountsInit, LinksInv, LinksCovered, OthersNeverEnqueue

(* Every reachable state of the accounts satisfies both invariants.        *)
THEOREM LinksInvariant == AccountsSpec => [](AccountsInv /\ LinksInv)
<1>1. AccountsInit => AccountsInv /\ LinksInv
  BY AccountsInitInv, LinksInit
<1>2. AccountsInv /\ LinksInv /\ [AccountsNext]_accountsVars => (AccountsInv /\ LinksInv)'
  BY AccountsStep, LinksStep
<1>3. QED
  BY <1>1, <1>2, PTL DEF AccountsSpec

(* Overlapping sign-ups, resends and clean-ups leave no valid link that is *)
(* neither queued nor mailed, unless a fault cost it its job.              *)
THEOREM LinksAreMailed == AccountsSpec => []ValidLinksAreMailed
<1>1. LinksInv => ValidLinksAreMailed
  BY DEF LinksInv, LinksCovered, IsCovered, IsEnqueuing, ValidLinksAreMailed, Unconsumed
<1>2. QED
  BY <1>1, LinksInvariant, PTL
=============================================================================
