---------------------------- MODULE PlatformProofs ----------------------------
(* Proofs about the components that share nothing but the platform:        *)
(* RateLimiter, MediaLibrary, SubscriberFields, Content, Segments,         *)
(* MergeTags and DomainVerification, one after the other, for any values   *)
(* of their constants.                                                     *)
EXTENDS RateLimiter, MediaLibrary, SubscriberFields, Content, Segments, MergeTags,
        DomainVerification, FiniteSetTheorems, WellFoundedInduction, TLAPS

-----------------------------------------------------------------------------
(* RateLimiter: any number of tenants and worker processes, any limits and *)
(* windows, and any skew and lag.                                          *)

TenantSpan == TenantWindow - MaxSkew - MaxLag
GlobalSpan == GlobalWindow - MaxSkew - MaxLag
SendsOf(t) == {s \in admittedSends : s.tenant = t}
Bounded(set, length, max) == \A first \in set : Cardinality(Burst(set, first, length)) <= max

(* A call in flight is recent, and its clock is not far ahead.             *)
CallsRecent ==
    \A p \in Pods : asking[p].busy =>
        /\ asking[p].since <= time /\ time <= asking[p].since + MaxLag
        /\ asking[p].now <= asking[p].since + MaxSkew
        /\ asking[p].since <= asking[p].now

(* The history is finite, and a score is not far behind its admission.     *)
HistoryInOrder ==
    /\ IsFiniteSet(admittedSends)
    /\ \A s \in admittedSends : s.at <= time /\ s.at <= s.score + MaxLag

(* The sorted sets hold admitted sends only, and every one that is recent. *)
SetsHoldRecent ==
    /\ globalSet \subseteq admittedSends
    /\ \A t \in Tenants : tenantSet[t] \subseteq SendsOf(t)
    /\ \A s \in admittedSends : s.at + GlobalSpan > time => s \in globalSet
    /\ \A s \in admittedSends : s.at + TenantSpan > time => s \in tenantSet[s.tenant]

RatesBounded ==
    /\ Bounded(admittedSends, GlobalSpan, GlobalMax)
    /\ \A t \in Tenants : Bounded(SendsOf(t), TenantSpan, TenantMax)

RateInv == RateTypeOK /\ CallsRecent /\ HistoryInOrder /\ SetsHoldRecent /\ RatesBounded

-----------------------------------------------------------------------------
LEMMA NotAskingType ==
    /\ NotAsking \in [tenant : Tenants, now : Nat, since : Nat, busy : BOOLEAN]
    /\ NotAsking.busy = FALSE
  BY RateAssumption DEF NotAsking

LEMMA SpansType == TenantSpan \in Int /\ GlobalSpan \in Int
  BY RateAssumption DEF TenantSpan, GlobalSpan

(* A send admitted when fewer than max of the recent ones are kept leaves  *)
(* every burst within max.                                                 *)
LEMMA OneMore ==
    ASSUME NEW S \in SUBSET Sends, IsFiniteSet(S), NEW K \in SUBSET S,
           NEW send \in Sends, NEW length \in Int, NEW max \in Nat,
           Cardinality(K) < max,
           \A s \in S : s.at <= send.at,
           \A s \in S : s.at + length > send.at => s \in K,
           Bounded(S, length, max)
    PROVE  Bounded(S \cup {send}, length, max)
<1> SUFFICES ASSUME NEW first \in S \cup {send}
             PROVE  Cardinality(Burst(S \cup {send}, first, length)) <= max
  BY DEF Bounded
<1>1. IsFiniteSet(K) /\ IsFiniteSet(K \cup {send})
      /\ Cardinality(K) \in Nat /\ Cardinality(K \cup {send}) <= Cardinality(K) + 1
      /\ Cardinality(K \cup {send}) \in Nat
  BY FS_Subset, FS_AddElement, FS_CardinalityType
<1>2. first \in Sends /\ first.at \in Int /\ send.at \in Int /\ \A s \in S : s.at \in Int
  BY DEF Sends
<1>3. CASE send \in Burst(S \cup {send}, first, length)
  <2>1. first.at <= send.at /\ send.at < first.at + length
    BY <1>3 DEF Burst
  <2>2. Burst(S \cup {send}, first, length) \subseteq K \cup {send}
    BY <2>1, <1>2 DEF Burst
  <2>3. Cardinality(Burst(S \cup {send}, first, length)) <= Cardinality(K \cup {send})
        /\ Cardinality(Burst(S \cup {send}, first, length)) \in Nat
    BY <2>2, <1>1, FS_Subset, FS_CardinalityType
  <2>4. QED
    BY <2>3, <1>1
<1>4. CASE send \notin Burst(S \cup {send}, first, length)
  <2>1. CASE first \in S
    <3>1. Burst(S \cup {send}, first, length) = Burst(S, first, length)
      BY <1>4 DEF Burst
    <3>2. QED
      BY <3>1, <2>1 DEF Bounded
  <2>2. CASE first = send
    <3>1. ~(send.at < send.at + length)
      BY <1>4, <2>2, <1>2 DEF Burst
    <3>2. Burst(S \cup {send}, first, length) = {}
      BY <3>1, <2>2, <1>2 DEF Burst
    <3>3. Cardinality(Burst(S \cup {send}, first, length)) = 0
      BY <3>2, FS_EmptySet, Zenon
    <3>4. QED
      BY <3>3
  <2>3. QED
    BY <2>1, <2>2
<1>5. QED
  BY <1>3, <1>4

-----------------------------------------------------------------------------
LEMMA RateInitInv == RateInit => RateInv
<1> SUFFICES ASSUME RateInit PROVE RateInv
  OBVIOUS
<1>1. RateTypeOK
  BY RateAssumption, NotAskingType DEF RateInit, RateTypeOK
<1>2. CallsRecent
  BY NotAskingType DEF RateInit, CallsRecent
<1>3. HistoryInOrder /\ SetsHoldRecent
  BY FS_EmptySet DEF RateInit, HistoryInOrder, SetsHoldRecent, SendsOf
<1>4. RatesBounded
  BY DEF RateInit, RatesBounded, Bounded, SendsOf
<1>5. QED
  BY <1>1, <1>2, <1>3, <1>4 DEF RateInv

(* Starting a call, or losing one, leaves the sets alone.                  *)
LEMMA CallStep ==
    ASSUME RateInv, NEW p \in Pods, NEW call \in [tenant : Tenants, now : Nat, since : Nat,
                                                  busy : BOOLEAN],
           call.busy => /\ call.since = time
                        /\ call.now <= time + MaxSkew /\ time <= call.now,
           asking' = [asking EXCEPT ![p] = call],
           UNCHANGED <<time, tenantSet, globalSet, admittedSends>>
    PROVE  RateInv'
<1>1. RateTypeOK'
  BY DEF RateInv, RateTypeOK
<1>2. CallsRecent'
  BY RateAssumption DEF RateInv, RateTypeOK, CallsRecent
<1>3. HistoryInOrder' /\ SetsHoldRecent' /\ RatesBounded'
  BY DEF RateInv, HistoryInOrder, SetsHoldRecent, RatesBounded, SendsOf, Bounded, Burst,
         TenantSpan, GlobalSpan
<1>4. QED
  BY <1>1, <1>2, <1>3 DEF RateInv

(* What a window has lost when a call trims it is not recent.              *)
LEMMA TrimKeepsRecent ==
    ASSUME RateInv, NEW p \in Pods, asking[p].busy
    PROVE  /\ Trimmed(globalSet, asking[p].now, GlobalWindow) \subseteq globalSet
           /\ \A t \in Tenants : Trimmed(tenantSet[t], asking[p].now, TenantWindow)
                                 \subseteq tenantSet[t]
           /\ \A s \in admittedSends : s.at + GlobalSpan > time =>
                  s \in Trimmed(globalSet, asking[p].now, GlobalWindow)
           /\ \A s \in admittedSends : s.at + TenantSpan > time =>
                  s \in Trimmed(tenantSet[s.tenant], asking[p].now, TenantWindow)
<1>1. asking[p].now \in Nat /\ asking[p].since \in Nat /\ time \in Nat
      /\ asking[p].now <= time + MaxSkew
  BY RateAssumption DEF RateInv, RateTypeOK, CallsRecent
<1>2. \A s \in admittedSends : s.at \in Nat /\ s.score \in Nat /\ s.at <= s.score + MaxLag
  BY DEF RateInv, RateTypeOK, HistoryInOrder, Sends
<1>3. \A s \in admittedSends : s.at + GlobalSpan > time =>
          s.score + GlobalWindow > asking[p].now
  BY <1>1, <1>2, RateAssumption DEF GlobalSpan
<1>4. \A s \in admittedSends : s.at + TenantSpan > time =>
          s.score + TenantWindow > asking[p].now
  BY <1>1, <1>2, RateAssumption DEF TenantSpan
<1>5. QED
  BY <1>3, <1>4 DEF RateInv, SetsHoldRecent, Trimmed

LEMMA WindowStep == ASSUME RateInv, NEW p \in Pods, SlidingWindow(p) PROVE RateInv'
<1> DEFINE tenant == asking[p].tenant
           tset == Trimmed(tenantSet[tenant], asking[p].now, TenantWindow)
           gset == Trimmed(globalSet, asking[p].now, GlobalWindow)
           send == [member |-> Cardinality(admittedSends), tenant |-> tenant,
                    score |-> asking[p].now, at |-> time]
           added == IF HasRoom(tset, gset) THEN {send} ELSE {}
<1>1. /\ asking[p].busy
      /\ tenantSet' = [tenantSet EXCEPT ![tenant] = tset \cup added]
      /\ globalSet' = gset \cup added
      /\ admittedSends' = admittedSends \cup added
      /\ asking' = [asking EXCEPT ![p] = NotAsking]
      /\ time' = time
  BY DEF SlidingWindow
<1>2. /\ gset \subseteq globalSet
      /\ tset \subseteq tenantSet[tenant]
      /\ \A s \in admittedSends : s.at + GlobalSpan > time => s \in gset
      /\ \A s \in admittedSends : s.at + TenantSpan > time /\ s.tenant = tenant => s \in tset
      /\ tenant \in Tenants
  BY <1>1, TrimKeepsRecent DEF RateInv, RateTypeOK
<1>3. /\ asking[p].now \in Nat /\ time \in Nat
      /\ time <= asking[p].now + MaxLag
  BY <1>1, RateAssumption DEF RateInv, RateTypeOK, CallsRecent
<1>4. send \in Sends /\ send.at = time /\ send.tenant = tenant /\ send.score = asking[p].now
  BY <1>2, <1>3, FS_CardinalityType DEF RateInv, HistoryInOrder, Sends
<1>5. added \subseteq {send}
  OBVIOUS
<1> HIDE DEF tset, gset, send, added
<1>6. RateTypeOK'
  BY <1>1, <1>2, <1>4, <1>5, NotAskingType DEF RateInv, RateTypeOK
<1>7. CallsRecent'
  BY <1>1, NotAskingType DEF RateInv, RateTypeOK, CallsRecent
<1>8. HistoryInOrder'
  <2>1. IsFiniteSet(admittedSends')
    BY <1>1, <1>5, FS_AddElement, FS_EmptySet, FS_Subset, FS_Union, FS_Singleton
       DEF RateInv, HistoryInOrder
  <2>2. QED
    BY <2>1, <1>1, <1>3, <1>4, <1>5 DEF RateInv, HistoryInOrder
<1>9. SetsHoldRecent'
  <2>1. globalSet' \subseteq admittedSends'
    BY <1>1, <1>2 DEF RateInv, SetsHoldRecent
  <2>2. \A t \in Tenants : tenantSet'[t] \subseteq SendsOf(t)'
    BY <1>1, <1>2, <1>4, <1>5 DEF RateInv, RateTypeOK, SetsHoldRecent, SendsOf
  <2>3. \A s \in admittedSends' : s.at + GlobalSpan > time' => s \in globalSet'
    BY <1>1, <1>2
  <2>4. \A s \in admittedSends' : s.at + TenantSpan > time' => s \in tenantSet'[s.tenant]
    <3> SUFFICES ASSUME NEW s \in admittedSends', s.at + TenantSpan > time
                 PROVE  s \in tenantSet'[s.tenant]
      BY <1>1
    <3>1. CASE s \in added
      BY <3>1, <1>1, <1>2, <1>4, <1>5 DEF RateInv, RateTypeOK
    <3>2. CASE s \in admittedSends /\ s.tenant = tenant
      BY <3>2, <1>1, <1>2 DEF RateInv, RateTypeOK
    <3>3. CASE s \in admittedSends /\ s.tenant # tenant
      <4>1. s \in tenantSet[s.tenant] /\ s.tenant \in Tenants
        BY <3>3 DEF RateInv, RateTypeOK, SetsHoldRecent, Sends
      <4>2. QED
        BY <4>1, <3>3, <1>1 DEF RateInv, RateTypeOK
    <3>4. QED
      BY <3>1, <3>2, <3>3, <1>1
  <2>5. QED
    BY <2>1, <2>2, <2>3, <2>4 DEF SetsHoldRecent, TenantSpan, GlobalSpan
<1>10. RatesBounded'
  <2>1. CASE added = {}
    <3>1. admittedSends' = admittedSends
      BY <2>1, <1>1
    <3>2. QED
      BY <3>1 DEF RateInv, RatesBounded, Bounded, Burst, SendsOf, TenantSpan, GlobalSpan
  <2>2. CASE added = {send} /\ HasRoom(tset, gset)
    <3>1. admittedSends \in SUBSET Sends /\ IsFiniteSet(admittedSends)
          /\ \A s \in admittedSends : s.at <= send.at
      BY <1>4 DEF RateInv, RateTypeOK, HistoryInOrder
    <3>2. Bounded(admittedSends \cup {send}, GlobalSpan, GlobalMax)
      <4>1. gset \in SUBSET admittedSends /\ Cardinality(gset) < GlobalMax
            /\ \A s \in admittedSends : s.at + GlobalSpan > send.at => s \in gset
        BY <1>2, <1>4, <2>2 DEF HasRoom, RateInv, SetsHoldRecent
      <4>2. Bounded(admittedSends, GlobalSpan, GlobalMax) /\ GlobalMax \in Nat
        BY RateAssumption DEF RateInv, RatesBounded
      <4>3. QED
        BY <3>1, <4>1, <4>2, <1>4, SpansType, OneMore
    <3>3. ASSUME NEW t \in Tenants PROVE Bounded(SendsOf(t)', TenantSpan, TenantMax)
      <4>1. Bounded(SendsOf(t), TenantSpan, TenantMax) /\ TenantMax \in Nat
        BY RateAssumption DEF RateInv, RatesBounded
      <4>2. CASE t # tenant
        <5>1. SendsOf(t)' = SendsOf(t)
          BY <4>2, <2>2, <1>1, <1>4 DEF SendsOf
        <5>2. QED
          BY <5>1, <4>1
      <4>3. CASE t = tenant
        <5>1. SendsOf(t)' = SendsOf(t) \cup {send}
          BY <4>3, <2>2, <1>1, <1>4 DEF SendsOf
        <5>2. SendsOf(t) \in SUBSET Sends /\ IsFiniteSet(SendsOf(t))
              /\ \A s \in SendsOf(t) : s.at <= send.at
          BY <3>1, FS_Subset DEF SendsOf
        <5>3. tset \in SUBSET SendsOf(t) /\ Cardinality(tset) < TenantMax
              /\ \A s \in SendsOf(t) : s.at + TenantSpan > send.at => s \in tset
          BY <4>3, <1>2, <1>4, <2>2 DEF HasRoom, RateInv, SetsHoldRecent, SendsOf
        <5>4. Bounded(SendsOf(t) \cup {send}, TenantSpan, TenantMax)
          BY <5>2, <5>3, <4>1, <1>4, SpansType, OneMore
        <5>5. QED
          BY <5>1, <5>4
      <4>4. QED
        BY <4>2, <4>3
    <3>4. QED
      BY <3>2, <3>3, <2>2, <1>1 DEF RatesBounded, Bounded, Burst, TenantSpan, GlobalSpan
  <2>3. QED
    BY <2>1, <2>2 DEF added
<1>11. QED
  BY <1>6, <1>7, <1>8, <1>9, <1>10 DEF RateInv

LEMMA TickStep == RateInv /\ Tick => RateInv'
<1> SUFFICES ASSUME RateInv, Tick PROVE RateInv'
  OBVIOUS
<1>1. time \in Nat /\ time' = time + 1 /\ UNCHANGED <<asking, admittedSends>>
  BY RateAssumption DEF RateInv, RateTypeOK, Tick
<1>2. \A set, window : Kept(set, window) \subseteq set
  BY DEF Kept
<1>3. RateTypeOK'
  BY <1>1, <1>2, RateAssumption DEF RateInv, RateTypeOK, Tick
<1>4. CallsRecent'
  BY <1>1, RateAssumption DEF RateInv, RateTypeOK, CallsRecent, Tick
<1>5. HistoryInOrder'
  BY <1>1 DEF RateInv, RateTypeOK, HistoryInOrder, Sends
<1>6. SetsHoldRecent'
  <2>1. globalSet' \subseteq admittedSends' /\ \A t \in Tenants : tenantSet'[t] \subseteq SendsOf(t)'
    BY <1>1, <1>2 DEF RateInv, RateTypeOK, SetsHoldRecent, SendsOf, Tick
  <2>2. ASSUME NEW s \in admittedSends PROVE s.at \in Nat /\ s.tenant \in Tenants
    BY DEF RateInv, RateTypeOK, Sends
  <2>3. ASSUME NEW s \in admittedSends, s.at + GlobalSpan > time' PROVE s \in globalSet'
    <3>1. s \in globalSet
      BY <2>2, <2>3, <1>1, SpansType DEF RateInv, SetsHoldRecent
    <3>2. s.at + GlobalWindow > time + 1
      BY <2>2, <2>3, <1>1, RateAssumption DEF GlobalSpan
    <3>3. QED
      BY <3>1, <3>2 DEF Tick, Kept
  <2>4. ASSUME NEW s \in admittedSends, s.at + TenantSpan > time' PROVE s \in tenantSet'[s.tenant]
    <3>1. s \in tenantSet[s.tenant]
      BY <2>2, <2>4, <1>1, SpansType DEF RateInv, SetsHoldRecent
    <3>2. s.at + TenantWindow > time + 1
      BY <2>2, <2>4, <1>1, RateAssumption DEF TenantSpan
    <3>3. QED
      BY <3>1, <3>2, <2>2 DEF Tick, Kept
  <2>5. QED
    BY <2>1, <2>3, <2>4, <1>1 DEF SetsHoldRecent, TenantSpan, GlobalSpan
<1>7. RatesBounded'
  BY <1>1 DEF RateInv, RatesBounded, Bounded, Burst, SendsOf, TenantSpan, GlobalSpan
<1>8. QED
  BY <1>3, <1>4, <1>5, <1>6, <1>7 DEF RateInv

LEMMA RateStep == RateInv /\ [RateNext]_rateVars => RateInv'
<1> SUFFICES ASSUME RateInv, [RateNext]_rateVars PROVE RateInv'
  OBVIOUS
<1>1. ASSUME NEW p \in Pods, NEW t \in Tenants, ReadClock(p, t) PROVE RateInv'
  <2>1. time \in Nat /\ ClockAhead[p] \in 0 .. MaxSkew
    BY RateAssumption DEF RateInv, RateTypeOK
  <2> DEFINE call == [tenant |-> t, now |-> time + ClockAhead[p], since |-> time, busy |-> TRUE]
  <2>2. /\ call \in [tenant : Tenants, now : Nat, since : Nat, busy : BOOLEAN]
        /\ call.since = time /\ call.now <= time + MaxSkew /\ time <= call.now
    BY <2>1, RateAssumption
  <2>3. asking' = [asking EXCEPT ![p] = call]
        /\ UNCHANGED <<time, tenantSet, globalSet, admittedSends>>
    BY <1>1 DEF ReadClock
  <2> HIDE DEF call
  <2>4. QED
    BY <2>2, <2>3, CallStep
<1>2. ASSUME NEW p \in Pods, SlidingWindow(p) PROVE RateInv'
  BY <1>2, WindowStep
<1>3. ASSUME NEW p \in Pods, AllowFails(p) PROVE RateInv'
  BY <1>3, CallStep, NotAskingType DEF AllowFails
<1>4. CASE Tick
  BY <1>4, TickStep
<1>5. CASE UNCHANGED rateVars
  BY <1>5 DEF rateVars, RateInv, RateTypeOK, CallsRecent, HistoryInOrder, SetsHoldRecent,
     RatesBounded, Bounded, Burst, SendsOf, TenantSpan, GlobalSpan
<1>6. QED
  BY <1>1, <1>2, <1>3, <1>4, <1>5 DEF RateNext

(* Every reachable state of the limiter satisfies the invariant.           *)
THEOREM RateInvariant == RateSpec => []RateInv
  BY RateInitInv, RateStep, PTL DEF RateSpec

(* No interval shorter than a window by the skew and the lag holds more    *)
(* sends than the limit, for a tenant and for the platform.                *)
THEOREM RateLimitHolds == RateSpec => []RateHolds
<1>1. RateInv => RateHolds
  BY DEF RateInv, RateTypeOK, RatesBounded, Bounded, RateHolds, SendsOf, TenantSpan,
     GlobalSpan, Sends
<1>2. QED
  BY <1>1, RateInvariant, PTL

-----------------------------------------------------------------------------
(* MediaLibrary: any number of assets, deletions and faults.               *)

(* ListedHasObject is inductive only with what the steps rely on: a row is *)
(* there only after its object, an upload past its row adds nothing any    *)
(* more, and an object is deleted only when its row has gone for good.     *)
UploadsInOrder ==
    \A a \in Assets :
        /\ upload[a] \in {"new", "put"} => a \notin assetRow
        /\ upload[a] = "add" => a \notin assetRow /\ a \in object
        /\ upload[a] = "clean" => a \notin assetRow \/ a \in misreported

DeletionsInOrder ==
    \A d \in Deleters :
        LET a == deletion[d].asset IN
        /\ deletion[d].at \in {"row", "object"} => upload[a] \in {"clean", "over"}
        /\ deletion[d].at = "object" => a \notin assetRow

MediaInv == MediaTypeOK /\ UploadsInOrder /\ DeletionsInOrder /\ ListedHasObject

LEMMA NoDeletionType == NoDeletion \in Deletions /\ NoDeletion.at = "idle"
  BY MediaAssumption DEF NoDeletion, Deletions

LEMMA MediaInitInv == MediaInit => MediaInv
  BY NoDeletionType DEF MediaInit, MediaInv, MediaTypeOK, UploadsInOrder, DeletionsInOrder,
     ListedHasObject, UploadSteps

LEMMA MediaStep == MediaInv /\ [MediaNext]_mediaVars => MediaInv'
<1> SUFFICES ASSUME MediaInv, [MediaNext]_mediaVars PROVE MediaInv'
  OBVIOUS
<1> USE NoDeletionType DEF MediaInv, MediaTypeOK, UploadsInOrder, DeletionsInOrder,
        ListedHasObject, UploadSteps, Deletions
<1>1. ASSUME NEW a \in Assets, UploadAsset(a) PROVE MediaInv'
  BY <1>1 DEF UploadAsset
<1>2. ASSUME NEW a \in Assets, PutObject(a) PROVE MediaInv'
  BY <1>2 DEF PutObject
<1>3. ASSUME NEW a \in Assets, AddAsset(a) PROVE MediaInv'
  BY <1>3 DEF AddAsset
<1>4. ASSUME NEW a \in Assets, AddAssetFails(a) PROVE MediaInv'
  BY <1>4 DEF AddAssetFails, Fault
<1>5. ASSUME NEW a \in Assets, CleanObject(a) PROVE MediaInv'
  BY <1>5 DEF CleanObject
<1>6. ASSUME NEW a \in Assets, UploadFails(a) PROVE MediaInv'
  BY <1>6 DEF UploadFails, Fault
<1>7. ASSUME NEW d \in Deleters, NEW a \in Assets, DeleteAsset(d, a) PROVE MediaInv'
  BY <1>7 DEF DeleteAsset
<1>8. ASSUME NEW d \in Deleters, DeleteRow(d) PROVE MediaInv'
  BY <1>8 DEF DeleteRow
<1>9. ASSUME NEW d \in Deleters, DeleteObject(d) PROVE MediaInv'
  BY <1>9 DEF DeleteObject
<1>10. ASSUME NEW d \in Deleters, DeletionFails(d) PROVE MediaInv'
  BY <1>10 DEF DeletionFails, Fault
<1>11. CASE UNCHANGED mediaVars
  BY <1>11 DEF mediaVars
<1>12. QED
  BY <1>1, <1>2, <1>3, <1>4, <1>5, <1>6, <1>7, <1>8, <1>9, <1>10, <1>11 DEF MediaNext

(* Every reachable state of the media library satisfies the invariant.     *)
THEOREM MediaInvariant == MediaSpec => []MediaInv
  BY MediaInitInv, MediaStep, PTL DEF MediaSpec

(* FR-029: a listed asset has its object, but for misreported commits.     *)
THEOREM ListedAssetsHaveObjects == MediaSpec => []ListedHasObject
<1>1. MediaInv => ListedHasObject
  BY DEF MediaInv
<1>2. QED
  BY <1>1, MediaInvariant, PTL

-----------------------------------------------------------------------------
(* SubscriberFields: any finite set of slugs, any number of requests.      *)

(* A position is below the number of fields and requests so far.           *)
PositionBound == Cardinality(Slugs) + fieldRequests
PositionsBounded ==
    /\ \A s \in Slugs : position[s] < PositionBound
    /\ \A c \in FieldCallers : fieldRequest[c].kind \in {"create", "patch"} => fieldRequest[c].at < PositionBound
    /\ \A c \in FieldCallers : fieldRequest[c].kind = "order" =>
           \A s \in Slugs : fieldRequest[c].order[s] < PositionBound

(* A field that a reorder has covered is not waiting for its row.          *)
OrderedExisted == \A s \in Slugs : ordered[s] >= 0 => position[s] # Unused

(* A patch that no reorder has overtaken carries the field's place in the  *)
(* order, unless an overtaken patch has taken the field out of it.         *)
CarriesOrder(r) ==
    r.kind = "patch" /\ ~r.overtaken /\ r.slug \in Existing \ putBack /\ ordered[r.slug] >= 0
        => r.at = ordered[r.slug]
PatchesCarryOrder == \A c \in FieldCallers : CarriesOrder(fieldRequest[c])

FieldsInv == FieldsTypeOK /\ PositionsBounded /\ OrderedExisted /\ PatchesCarryOrder /\ OrderLasts

LEMMA GreatestOfBounded ==
    ASSUME NEW S, S # {}, S \subseteq Nat, NEW bound \in Nat, \A x \in S : x < bound
    PROVE  Max(S) \in S
<1> DEFINE Gaps == {bound - x : x \in S}
<1>1. Gaps \subseteq Nat /\ Gaps # {}
  <2>1. \A x \in S : bound - x \in Nat
    OBVIOUS
  <2>2. PICK x \in S : TRUE
    OBVIOUS
  <2>3. bound - x \in Gaps
    OBVIOUS
  <2>4. QED
    BY <2>1, <2>3
<1>2. PICK g \in Gaps : \A h \in Gaps : ~(<<h, g>> \in OpToRel(<, Nat))
  BY <1>1, WFMin, NatLessThanWellFounded, Zenon
<1>3. \A h \in Gaps : g <= h
  <2> HIDE DEF Gaps
  <2>1. \A h \in Gaps : h \in Nat /\ g \in Nat
    BY <1>1
  <2>2. \A h \in Gaps : h < g => <<h, g>> \in OpToRel(<, Nat)
    BY <2>1, Zenon DEF OpToRel
  <2>3. \A h \in Gaps : ~(h < g)
    BY <1>2, <2>2, Zenon
  <2>4. QED
    BY <2>1, <2>3
<1>4. PICK m \in S : g = bound - m
  OBVIOUS
<1>5. \A y \in S : m >= y
  BY <1>3, <1>4
<1>6. QED
  BY <1>5 DEF Max

LEMMA FieldBound == FieldsTypeOK => PositionBound \in Nat
  BY FieldsAssumption, FS_CardinalityType DEF FieldsTypeOK, PositionBound

LEMMA RequestFields ==
    ASSUME NEW r \in FieldRequests
    PROVE  /\ r.kind \in {"none", "create", "patch", "order"}
           /\ r.kind \in {"create", "patch"} => r.slug \in Slugs /\ r.at \in Nat /\ r.overtaken \in BOOLEAN
           /\ r.kind = "order" => r.order \in [Slugs -> Nat \cup {-1}]
  BY DEF FieldRequests

LEMMA NoFieldRequestType == NoFieldRequest \in FieldRequests /\ NoFieldRequest.kind = "none"
  BY DEF NoFieldRequest, FieldRequests

LEMMA FieldsInitInv == FieldsInit => FieldsInv
<1> SUFFICES ASSUME FieldsInit PROVE FieldsInv
  OBVIOUS
<1>1. FieldsTypeOK
  BY FieldsAssumption, NoFieldRequestType DEF FieldsInit, FieldsTypeOK, Unused
<1>2. PositionsBounded
  <2>1. PositionBound \in Nat
    BY <1>1, FieldBound
  <2>2. \A s \in Slugs : position[s] = -1
    BY DEF FieldsInit, Unused
  <2>3. \A c \in FieldCallers : fieldRequest[c].kind = "none"
    BY NoFieldRequestType DEF FieldsInit
  <2>4. QED
    BY <2>1, <2>2, <2>3 DEF PositionsBounded
<1>3. OrderedExisted /\ PatchesCarryOrder /\ OrderLasts
  <2>1. \A s \in Slugs : ordered[s] = -1 /\ position[s] = -1
    BY DEF FieldsInit, Unused
  <2>2. \A c \in FieldCallers : fieldRequest[c].kind = "none"
    BY NoFieldRequestType DEF FieldsInit
  <2>3. QED
    BY <2>1, <2>2 DEF OrderedExisted, PatchesCarryOrder, CarriesOrder, OrderLasts, Existing
<1>4. QED
  BY <1>1, <1>2, <1>3 DEF FieldsInv

(* What every request that is accepted has to keep, and every answer.      *)
LEMMA AskStep ==
    ASSUME FieldsInv, NEW c \in FieldCallers, NEW r \in FieldRequests, Asks(c, r),
           UNCHANGED <<position, ordered, putBack>>,
           r.kind \in {"create", "patch"} => r.at <= PositionBound,
           r.kind = "order" => \A s \in Slugs : r.order[s] < PositionBound,
           CarriesOrder(r)
    PROVE  FieldsInv'
<1> USE FieldsAssumption DEF FieldsInv
<1>1. FieldsTypeOK'
  BY DEF FieldsTypeOK, Asks
<1>2. /\ PositionBound \in Nat /\ PositionBound' = PositionBound + 1
      /\ \A d \in FieldCallers : fieldRequest'[d] = IF d = c THEN r ELSE fieldRequest[d]
  BY FieldBound, FS_CardinalityType DEF Asks, FieldsTypeOK, PositionBound
<1>3. PositionsBounded'
  <2>1. \A s \in Slugs : position'[s] < PositionBound'
    BY <1>2 DEF PositionsBounded, FieldsTypeOK, Unused, Deleted
  <2>2. ASSUME NEW d \in FieldCallers, fieldRequest'[d].kind \in {"create", "patch"}
        PROVE  fieldRequest'[d].at < PositionBound'
    <3>1. fieldRequest'[d] \in FieldRequests
      BY <1>1 DEF FieldsTypeOK
    <3>2. fieldRequest'[d].at \in Nat
      BY <2>2, <3>1, RequestFields
    <3>3. fieldRequest'[d].at <= PositionBound
      BY <1>2, <2>2, <3>2 DEF PositionsBounded
    <3>4. QED
      BY <1>2, <3>2, <3>3
  <2>3. ASSUME NEW d \in FieldCallers, fieldRequest'[d].kind = "order", NEW s \in Slugs
        PROVE  fieldRequest'[d].order[s] < PositionBound'
    <3>1. fieldRequest'[d] \in FieldRequests
      BY <1>1 DEF FieldsTypeOK
    <3>2. fieldRequest'[d].order[s] \in Int
      BY <2>3, <3>1, RequestFields
    <3>3. fieldRequest'[d].order[s] < PositionBound
      BY <1>2, <2>3 DEF PositionsBounded
    <3>4. QED
      BY <1>2, <3>2, <3>3
  <2>4. QED
    BY <2>1, <2>2, <2>3 DEF PositionsBounded
<1>4. OrderedExisted' /\ OrderLasts'
  BY DEF OrderedExisted, OrderLasts, Existing
<1>5. PatchesCarryOrder'
  BY <1>2 DEF PatchesCarryOrder, CarriesOrder, Existing
<1>6. QED
  BY <1>1, <1>3, <1>4, <1>5

(* A step that ends request c and may move the fields within the bound.    *)
LEMMA AnswerStep ==
    ASSUME FieldsInv, NEW c \in FieldCallers, Answered(c), FieldsTypeOK',
           \A s \in Slugs : position'[s] < PositionBound,
           OrderedExisted', OrderLasts',
           \A r \in FieldRequests : CarriesOrder(r) => CarriesOrder(r)'
    PROVE  FieldsInv'
<1> USE FieldsAssumption DEF FieldsInv
<1>1. \A d \in FieldCallers : fieldRequest'[d] = IF d = c THEN NoFieldRequest ELSE fieldRequest[d]
  BY DEF Answered, FieldsTypeOK
<1>2. PositionBound' = PositionBound
  BY DEF Answered, PositionBound
<1>3. PositionsBounded'
  BY <1>1, <1>2, NoFieldRequestType DEF PositionsBounded
<1>4. PatchesCarryOrder'
  <2>1. \A d \in FieldCallers : CarriesOrder(fieldRequest[d]) /\ fieldRequest[d] \in FieldRequests
    BY DEF PatchesCarryOrder, FieldsTypeOK
  <2>2. CarriesOrder(NoFieldRequest)
    BY NoFieldRequestType DEF CarriesOrder
  <2>3. \A d \in FieldCallers : CarriesOrder(fieldRequest'[d]) /\ fieldRequest'[d] \in FieldRequests
    BY <1>1, <2>1, <2>2, NoFieldRequestType
  <2>4. \A r \in FieldRequests : CarriesOrder(r) =>
            (r.kind = "patch" /\ ~r.overtaken /\ r.slug \in Existing' \ putBack' /\ ordered'[r.slug] >= 0
                => r.at = ordered'[r.slug])
    BY DEF CarriesOrder
  <2>5. QED
    BY <2>3, <2>4 DEF PatchesCarryOrder, CarriesOrder
<1>5. QED
  BY <1>3, <1>4

LEMMA FieldsStep == FieldsInv /\ [FieldsNext]_fieldVars => FieldsInv'
<1> SUFFICES ASSUME FieldsInv, [FieldsNext]_fieldVars PROVE FieldsInv'
  OBVIOUS
<1> USE FieldsAssumption
<1>a. FieldsTypeOK /\ PositionsBounded /\ OrderedExisted /\ PatchesCarryOrder /\ OrderLasts
  BY DEF FieldsInv
<1>b. /\ PositionBound \in Nat
      /\ \A c \in FieldCallers : fieldRequest[c] \in FieldRequests
      /\ position \in [Slugs -> Nat \cup {Unused, Deleted}]
      /\ \A s \in Existing : s \in Slugs /\ position[s] \in Nat
  BY <1>a, FieldBound DEF FieldsTypeOK, Existing, Unused, Deleted
<1>1. ASSUME NEW c \in FieldCallers, NEW s \in Slugs, NEW listed \in BOOLEAN, CreateField(c, s, listed)
      PROVE  FieldsInv'
  <2>1. NextPosition \in Nat /\ NextPosition <= PositionBound
    <3> DEFINE S == {position[t] : t \in Existing}
    <3>1. CASE Existing = {}
      BY <3>1, <1>b DEF NextPosition
    <3>2. CASE Existing # {}
      <4>1. S # {} /\ S \subseteq Nat /\ \A x \in S : x < PositionBound
        BY <3>2, <1>a, <1>b DEF PositionsBounded
      <4>2. Max(S) \in S
        BY <4>1, <1>b, GreatestOfBounded
      <4>3. NextPosition = Max(S) + 1
        BY <3>2 DEF NextPosition
      <4>4. Max(S) \in Nat /\ Max(S) < PositionBound
        BY <4>1, <4>2
      <4>5. QED
        BY <4>3, <4>4, <1>b
    <3>3. QED
      BY <3>1, <3>2
  <2> PICK at : at = IF listed THEN NextPosition ELSE 0
    OBVIOUS
  <2> PICK r : r = [kind |-> "create", slug |-> s, overtaken |-> FALSE, at |-> at]
    OBVIOUS
  <2>2. r \in FieldRequests /\ r.kind = "create" /\ r.at <= PositionBound
    BY <2>1, <1>b DEF FieldRequests
  <2>3. CarriesOrder(r)
    BY <2>2 DEF CarriesOrder
  <2>4. Asks(c, r) /\ UNCHANGED <<position, ordered, putBack>>
    BY <1>1 DEF CreateField
  <2>5. QED
    BY <2>2, <2>3, <2>4, AskStep
<1>2. ASSUME NEW c \in FieldCallers, AddField(c) PROVE FieldsInv'
  <2> PICK r : r = fieldRequest[c]
    OBVIOUS
  <2>1. /\ r.kind = "create" /\ r.slug \in Slugs /\ r.at \in Nat /\ r.at < PositionBound
        /\ position' = IF position[r.slug] = Unused THEN [position EXCEPT ![r.slug] = r.at] ELSE position
        /\ Answered(c) /\ UNCHANGED <<ordered, putBack>>
    BY <1>2, <1>a, <1>b, RequestFields DEF AddField, PositionsBounded
  <2>2. FieldsTypeOK'
    BY <2>1, <1>a, NoFieldRequestType DEF FieldsTypeOK, Answered
  <2>3. \A t \in Slugs : position'[t] = position[t]
                         \/ (position[t] = Unused /\ position'[t] = r.at)
    BY <2>1, <1>b
  <2>4. \A t \in Slugs : position[t] = Unused => ~(ordered[t] >= 0)
    BY <1>a DEF OrderedExisted
  <2>5. \A t \in Slugs : position'[t] < PositionBound
    BY <2>1, <2>3, <1>a DEF PositionsBounded
  <2>6. \A t \in Slugs : ordered[t] >= 0 => position'[t] = position[t]
    BY <2>3, <2>4
  <2>7. OrderedExisted' /\ OrderLasts'
    BY <2>1, <2>6, <1>a DEF OrderedExisted, OrderLasts, Existing
  <2>8. \A q \in FieldRequests : CarriesOrder(q) => CarriesOrder(q)'
    BY <2>1, <2>6, RequestFields DEF CarriesOrder, Existing
  <2>9. QED
    BY <2>1, <2>2, <2>5, <2>7, <2>8, AnswerStep
<1>3. ASSUME NEW c \in FieldCallers, NEW s \in Slugs, PatchField(c, s) PROVE FieldsInv'
  <2> PICK r : r = [kind |-> "patch", slug |-> s, at |-> Carried(s), overtaken |-> FALSE]
    OBVIOUS
  <2>1. s \in Existing /\ Asks(c, r) /\ UNCHANGED <<position, ordered, putBack>>
    BY <1>3 DEF PatchField
  <2>2. r \in FieldRequests /\ r.kind = "patch" /\ r.slug = s /\ r.at = position[s]
    BY <2>1, <1>b DEF FieldRequests, Carried
  <2>3. r.at <= PositionBound
    BY <2>1, <2>2, <1>a, <1>b DEF PositionsBounded
  <2>4. CarriesOrder(r)
    BY <2>2, <1>a DEF CarriesOrder, OrderLasts
  <2>5. QED
    BY <2>1, <2>2, <2>3, <2>4, AskStep
<1>4. ASSUME NEW c \in FieldCallers, UpdateField(c) PROVE FieldsInv'
  <2> PICK r : r = fieldRequest[c]
    OBVIOUS
  <2>1. /\ r.kind = "patch" /\ r.slug \in Slugs /\ r.at \in Nat /\ r.at < PositionBound
        /\ r.overtaken \in BOOLEAN /\ CarriesOrder(r)
        /\ Answered(c) /\ UNCHANGED ordered
    BY <1>4, <1>a, <1>b, RequestFields DEF UpdateField, PositionsBounded, PatchesCarryOrder
  <2>2. CASE r.slug \in Existing
    <3>1. /\ position' = [position EXCEPT ![r.slug] = r.at]
          /\ putBack' = IF r.overtaken THEN putBack \cup {r.slug} ELSE putBack
      BY <1>4, <2>2 DEF UpdateField
    <3>2. FieldsTypeOK'
      BY <2>1, <3>1, <1>a, NoFieldRequestType DEF FieldsTypeOK, Answered
    <3>3. \A t \in Slugs : position'[t] = IF t = r.slug THEN r.at ELSE position[t]
      BY <3>1, <1>b
    <3>4. Existing' = Existing
      BY <2>1, <2>2, <3>3 DEF Existing
    <3>5. \A t \in Slugs : position'[t] < PositionBound
      BY <2>1, <3>3, <1>a DEF PositionsBounded
    <3>6. OrderedExisted'
      BY <2>1, <3>3, <1>a DEF OrderedExisted, Unused
    <3>7. OrderLasts'
      BY <2>1, <2>2, <3>1, <3>3, <3>4, <1>a, <1>b DEF OrderLasts, CarriesOrder
    <3>8. \A q \in FieldRequests : CarriesOrder(q) => CarriesOrder(q)'
      BY <2>1, <3>1, <3>4 DEF CarriesOrder
    <3>9. QED
      BY <2>1, <3>2, <3>5, <3>6, <3>7, <3>8, AnswerStep
  <2>3. CASE r.slug \notin Existing
    <3>1. UNCHANGED <<position, putBack>>
      BY <1>4, <2>3 DEF UpdateField
    <3>2. FieldsTypeOK'
      BY <2>1, <3>1, <1>a, NoFieldRequestType DEF FieldsTypeOK, Answered
    <3>3. /\ OrderedExisted' /\ OrderLasts'
          /\ \A t \in Slugs : position'[t] < PositionBound
          /\ \A q \in FieldRequests : CarriesOrder(q) => CarriesOrder(q)'
      BY <2>1, <3>1, <1>a DEF OrderedExisted, OrderLasts, PositionsBounded, CarriesOrder, Existing
    <3>4. QED
      BY <2>1, <3>2, <3>3, AnswerStep
  <2>4. QED
    BY <2>2, <2>3
<1>5. ASSUME NEW c \in FieldCallers, NEW s \in Slugs, DeleteField(c, s) PROVE FieldsInv'
  <2>1. /\ position' = [position EXCEPT ![s] = Deleted]
        /\ fieldRequests < MaxFieldRequests /\ fieldRequests' = fieldRequests + 1
        /\ UNCHANGED <<fieldRequest, ordered, putBack>>
    BY <1>5 DEF DeleteField
  <2>2. FieldsTypeOK'
    BY <2>1, <1>a DEF FieldsTypeOK
  <2>3. PositionBound' = PositionBound + 1
    BY <2>1, <1>a, FS_CardinalityType DEF PositionBound, FieldsTypeOK
  <2>4. \A t \in Slugs : position'[t] = IF t = s THEN Deleted ELSE position[t]
    BY <2>1, <1>b
  <2>5. PositionsBounded'
    <3>1. \A t \in Slugs : position'[t] < PositionBound'
      BY <2>3, <2>4, <1>a, <1>b DEF PositionsBounded, Unused, Deleted
    <3>2. \A c2 \in FieldCallers : fieldRequest[c2].kind \in {"create", "patch"}
              => fieldRequest[c2].at < PositionBound'
      BY <2>3, <1>a, <1>b, RequestFields DEF PositionsBounded
    <3>3. ASSUME NEW d \in FieldCallers, fieldRequest[d].kind = "order", NEW t \in Slugs
          PROVE  fieldRequest[d].order[t] < PositionBound'
      <4>1. fieldRequest[d].order[t] \in Int
        BY <3>3, <1>b, RequestFields
      <4>2. fieldRequest[d].order[t] < PositionBound
        BY <3>3, <1>a DEF PositionsBounded
      <4>3. QED
        BY <2>3, <4>1, <4>2, <1>b
    <3>4. QED
      BY <2>1, <3>1, <3>2, <3>3 DEF PositionsBounded
  <2>6. Existing' \subseteq Existing /\ \A t \in Existing' : position'[t] = position[t]
    BY <2>4 DEF Existing, Deleted
  <2>7. OrderedExisted' /\ OrderLasts'
    BY <2>1, <2>4, <2>6, <1>a DEF OrderedExisted, OrderLasts, Unused, Deleted
  <2>8. PatchesCarryOrder'
    BY <2>1, <2>6, <1>a DEF PatchesCarryOrder, CarriesOrder
  <2>9. QED
    BY <2>2, <2>5, <2>7, <2>8 DEF FieldsInv
<1>6. ASSUME NEW c \in FieldCallers, NEW o \in Orders(Existing), ReorderFields(c, o) PROVE FieldsInv'
  <2> PICK r : r = [kind |-> "order", order |-> o]
    OBVIOUS
  <2>1. Cardinality(Existing) \in Nat /\ Cardinality(Existing) <= Cardinality(Slugs)
        /\ Cardinality(Slugs) \in Nat
    <3>1. Existing \subseteq Slugs
      BY DEF Existing
    <3>2. QED
      BY <3>1, FS_Subset, FS_CardinalityType
  <2>2. o \in [Slugs -> Nat \cup {-1}] /\ \A s \in Slugs : o[s] < Cardinality(Slugs)
    BY <2>1 DEF Orders
  <2>3. r \in FieldRequests /\ r.kind = "order" /\ r.order = o
    BY <2>2 DEF FieldRequests
  <2>4. \A s \in Slugs : r.order[s] < PositionBound
    BY <2>1, <2>2, <2>3, <1>a DEF PositionBound, FieldsTypeOK
  <2>5. CarriesOrder(r)
    BY <2>3 DEF CarriesOrder
  <2>6. QED
    BY <1>6, <2>3, <2>4, <2>5, AskStep DEF ReorderFields
<1>7. ASSUME NEW c \in FieldCallers, Reposition(c) PROVE FieldsInv'
  <2> PICK o : o = fieldRequest[c].order
    OBVIOUS
  <2> DEFINE overtaken(d) == [fieldRequest[d] EXCEPT !.overtaken = TRUE]
  <2>1. /\ fieldRequest[c].kind = "order"
        /\ \A s \in Slugs : o[s] >= 0 => s \in Existing
        /\ position' = [s \in Slugs |-> IF o[s] >= 0 THEN o[s] ELSE position[s]]
        /\ ordered' = o /\ putBack' = {} /\ UNCHANGED fieldRequests
        /\ fieldRequest' = [d \in FieldCallers |->
             IF d = c THEN NoFieldRequest
             ELSE IF fieldRequest[d].kind = "patch" THEN overtaken(d) ELSE fieldRequest[d]]
    BY <1>7 DEF Reposition
  <2>2. o \in [Slugs -> Nat \cup {-1}] /\ \A s \in Slugs : o[s] < PositionBound
    BY <2>1, <1>a, <1>b, RequestFields DEF PositionsBounded
  <2>3. \A d \in FieldCallers : fieldRequest[d].kind = "patch" =>
            /\ overtaken(d) \in FieldRequests /\ overtaken(d).kind = "patch"
            /\ overtaken(d).overtaken /\ overtaken(d).at = fieldRequest[d].at
    BY <1>b DEF FieldRequests
  <2> HIDE DEF overtaken
  <2>4. FieldsTypeOK'
    <3>1. fieldRequest' \in [FieldCallers -> FieldRequests]
      BY <2>1, <2>3, <1>b, NoFieldRequestType
    <3>2. position' \in [Slugs -> Nat \cup {Unused, Deleted}]
      BY <2>1, <2>2, <1>b
    <3>3. QED
      BY <2>1, <2>2, <3>1, <3>2, <1>a DEF FieldsTypeOK
  <2>5. PositionBound' = PositionBound
    BY <2>1 DEF PositionBound
  <2>6. PositionsBounded'
    <3>1. \A s \in Slugs : position'[s] < PositionBound
      BY <2>1, <2>2, <1>a DEF PositionsBounded
    <3>2. \A d \in FieldCallers : fieldRequest'[d].kind \in {"create", "patch"}
              => fieldRequest'[d].at < PositionBound
      BY <2>1, <2>3, <1>a, NoFieldRequestType DEF PositionsBounded
    <3>3. \A d \in FieldCallers : fieldRequest'[d].kind = "order" =>
              \A s \in Slugs : fieldRequest'[d].order[s] < PositionBound
      BY <2>1, <2>3, <1>a, NoFieldRequestType DEF PositionsBounded
    <3>4. QED
      BY <2>5, <3>1, <3>2, <3>3 DEF PositionsBounded
  <2>7. OrderedExisted' /\ OrderLasts'
    <3>1. \A s \in Slugs : ordered'[s] >= 0 => position'[s] = ordered'[s]
      BY <2>1
    <3>2. QED
      BY <3>1 DEF OrderedExisted, OrderLasts, Existing, Unused
  <2>8. PatchesCarryOrder'
    <3>1. \A d \in FieldCallers : fieldRequest'[d].kind = "patch" => fieldRequest'[d].overtaken
      BY <2>1, <2>3, NoFieldRequestType
    <3>2. QED
      BY <3>1 DEF PatchesCarryOrder, CarriesOrder
  <2>9. QED
    BY <2>4, <2>6, <2>7, <2>8 DEF FieldsInv
<1>8. ASSUME NEW c \in FieldCallers, FieldRequestFails(c) PROVE FieldsInv'
  <2>1. Answered(c) /\ UNCHANGED <<position, ordered, putBack>>
    BY <1>8 DEF FieldRequestFails
  <2>2. FieldsTypeOK'
    BY <2>1, <1>a, NoFieldRequestType DEF FieldsTypeOK, Answered
  <2>3. /\ OrderedExisted' /\ OrderLasts'
        /\ \A t \in Slugs : position'[t] < PositionBound
        /\ \A q \in FieldRequests : CarriesOrder(q) => CarriesOrder(q)'
    BY <2>1, <1>a DEF OrderedExisted, OrderLasts, PositionsBounded, CarriesOrder, Existing
  <2>4. QED
    BY <2>1, <2>2, <2>3, AnswerStep
<1>9. CASE UNCHANGED fieldVars
  BY <1>9, <1>a DEF fieldVars, FieldsInv, FieldsTypeOK, PositionsBounded, PositionBound, OrderedExisted,
     PatchesCarryOrder, CarriesOrder, OrderLasts, Existing
<1>10. QED
  BY <1>1, <1>2, <1>3, <1>4, <1>5, <1>6, <1>7, <1>8, <1>9 DEF FieldsNext

(* Every reachable state of the registry satisfies the invariant.          *)
THEOREM FieldsInvariant == FieldsSpec => []FieldsInv
  BY FieldsInitInv, FieldsStep, PTL DEF FieldsSpec

(* A reorder is all or nothing and lasts, however many fields are created, *)
(* deleted and patched meanwhile, and by however many requests at once:    *)
(* only a patch that it overtook puts a field back.                        *)
THEOREM ReordersLast == FieldsSpec => []OrderLasts
<1>1. FieldsInv => OrderLasts
  BY DEF FieldsInv
<1>2. QED
  BY <1>1, FieldsInvariant, PTL

-----------------------------------------------------------------------------
(* Content: any rows, any number of editors, any bounds.                   *)

(* The document of a request or an editor that has none yet is any value.  *)
AnyDoc == Docs \cup {NoEdit.doc}
EditorRows == [open : BOOLEAN, doc : AnyDoc, seen : 0 .. MaxStamps,
               shows : (0 .. MaxVersions) \X (0 .. MaxVersions), crossed : BOOLEAN]
Edits == [at : {"idle", "add", "write", "reread"}, kind : Kinds, doc : AnyDoc,
          read : Contents, stamp : 0 .. MaxStamps, version : 0 .. MaxVersions]
ContentRowsOK ==
    /\ stored \in [Docs -> Contents]
    /\ editor \in [Editors -> EditorRows]
    /\ edit \in [Editors -> Edits]
    /\ versions \in 0 .. MaxVersions
    /\ stamps \in 0 .. MaxStamps
    /\ contentFaults \in 0 .. MaxContentFaults

(* A request is about a row, and only a request in flight about a row that *)
(* has been there.                                                         *)
Visual(r) == r.kind = "visual" /\ r.at \in {"write", "reread"}
EditsMatch ==
    /\ \A e \in Editors : editor[e].open => editor[e].doc \in Docs /\ stored[editor[e].doc].status # "none"
    /\ \A e \in Editors : edit[e].at # "idle" => edit[e].doc \in Docs
    /\ \A e \in Editors : edit[e].at \in {"write", "reread"} => stored[edit[e].doc].status # "none"
    /\ \A e \in Editors : edit[e].at = "write" => edit[e].kind # "copy" /\ edit[e].read.status = "draft"
    /\ \A e \in Editors : edit[e].at = "reread" => edit[e].kind = "visual"
    /\ \A e \in Editors : Visual(edit[e]) => editor[e].open /\ editor[e].doc = edit[e].doc

(* The stamp of a write in flight is not yet in a row, in an editor or in  *)
(* another write.                                                          *)
StampsFresh ==
    /\ \A d \in Docs : stored[d].stamp <= stamps
    /\ \A e \in Editors : editor[e].seen <= stamps
    /\ \A e \in Editors : edit[e].at = "write" =>
           /\ edit[e].stamp <= stamps
           /\ \A d \in Docs : stored[d].stamp # edit[e].stamp
           /\ \A o \in Editors : editor[o].seen # edit[e].stamp
           /\ \A o \in Editors : o # e /\ edit[o].at = "write" => edit[o].stamp # edit[e].stamp

(* An editor shows the row if it has the row's stamp or is saving it,      *)
(* unless another write has crossed its save.                              *)
ShowsRow(e) == Shown(stored[editor[e].doc]) = editor[e].shows
InStep ==
    \A e \in Editors : editor[e].open /\ Exists(editor[e].doc) /\ ~editor[e].crossed =>
        /\ editor[e].seen = stored[editor[e].doc].stamp => ShowsRow(e)
        /\ Visual(edit[e]) => ShowsRow(e)

ContentInv == ContentRowsOK /\ EditsMatch /\ StampsFresh /\ InStep

LEMMA NoContentTypes ==
    /\ NoEdit \in Edits /\ NoEdit.at = "idle" /\ NoEdit.doc = NoEdit.doc
    /\ NoEditor \in EditorRows /\ ~NoEditor.open /\ NoEditor.seen = 0
    /\ NoContent \in Contents /\ NoContent.status = "none" /\ NoContent.stamp = 0
<1>1. NoContent \in Contents /\ NoContent.status = "none" /\ NoContent.stamp = 0
  BY ContentAssumption DEF NoContent, Contents, NoDocument
<1>2. NoEdit.doc = CHOOSE d \in Docs : TRUE
  BY DEF NoEdit
<1>3. NoEdit \in Edits /\ NoEdit.at = "idle"
  BY <1>1, ContentAssumption DEF NoEdit, Edits, Kinds, AnyDoc
<1>4. NoEditor \in EditorRows /\ ~NoEditor.open /\ NoEditor.seen = 0
  BY <1>2, ContentAssumption DEF NoEditor, EditorRows, AnyDoc
<1>5. QED
  BY <1>1, <1>3, <1>4

LEMMA ContentTypes ==
    ASSUME ContentRowsOK
    PROVE  /\ stamps \in Nat /\ versions \in Nat /\ MaxStamps \in Nat /\ MaxVersions \in Nat
           /\ \A d \in Docs : stored[d] \in Contents /\ stored[d].stamp \in Nat
                              /\ Shown(stored[d]) \in (0 .. MaxVersions) \X (0 .. MaxVersions)
           /\ \A e \in Editors : editor[e] \in EditorRows /\ editor[e].seen \in Nat
                                 /\ editor[e].open \in BOOLEAN /\ editor[e].crossed \in BOOLEAN
           /\ \A e \in Editors : edit[e] \in Edits /\ edit[e].stamp \in Nat
  BY ContentAssumption DEF ContentRowsOK, Contents, EditorRows, Edits, Shown

LEMMA ContentInitInv == ContentInit => ContentInv
<1> SUFFICES ASSUME ContentInit PROVE ContentInv
  OBVIOUS
<1>1. /\ \A d \in Docs : stored[d] = NoContent
      /\ \A e \in Editors : editor[e] = NoEditor
      /\ \A e \in Editors : edit[e] = NoEdit
      /\ stamps = 0
  BY DEF ContentInit
<1>2. ContentRowsOK
  BY NoContentTypes, ContentAssumption DEF ContentInit, ContentRowsOK
<1>3. EditsMatch
  BY <1>1, NoContentTypes DEF EditsMatch, Visual
<1>4. StampsFresh
  BY <1>1, NoContentTypes DEF StampsFresh
<1>5. InStep
  BY <1>1, NoContentTypes DEF InStep
<1>6. QED
  BY <1>2, <1>3, <1>4, <1>5 DEF ContentInv

(* A request that waits for nothing of its row, or ends.                   *)
LEMMA QuietEditStep ==
    ASSUME ContentInv, NEW e \in Editors, NEW r \in Edits,
           edit' = [edit EXCEPT ![e] = r],
           r.at \in {"idle", "add"}, r.at # "idle" => r.doc \in Docs,
           UNCHANGED <<stored, editor, versions, stamps>>,
           contentFaults' \in 0 .. MaxContentFaults
    PROVE  ContentInv'
<1>1. \A o \in Editors : edit'[o] = IF o = e THEN r ELSE edit[o]
  BY DEF ContentInv, ContentRowsOK
<1>2. ContentRowsOK'
  BY DEF ContentInv, ContentRowsOK
<1>3. EditsMatch'
  BY <1>1 DEF ContentInv, EditsMatch, Visual
<1>4. StampsFresh'
  BY <1>1 DEF ContentInv, StampsFresh
<1>5. InStep'
  BY <1>1 DEF ContentInv, InStep, Visual, ShowsRow, Exists, Shown
<1>6. QED
  BY <1>2, <1>3, <1>4, <1>5 DEF ContentInv

(* A new row has a new stamp, and nobody is about it yet.                  *)
LEMMA NewRowStep ==
    ASSUME ContentInv, NEW d \in Docs, NEW row \in Contents, NEW e \in Editors,
           stored[d].status = "none", stored' = [stored EXCEPT ![d] = row],
           row.status # "none", row.stamp = stamps + 1, NewStamp,
           versions' \in 0 .. MaxVersions, UNCHANGED <<editor, contentFaults>>,
           UNCHANGED edit \/ Ends(e)
    PROVE  ContentInv'
<1> USE ContentTypes, NoContentTypes
<1>1. /\ \A c \in Docs : stored'[c] = IF c = d THEN row ELSE stored[c]
      /\ \A o \in Editors : edit'[o] = edit[o] \/ edit'[o] = NoEdit
      /\ stamps' = stamps + 1 /\ stamps < MaxStamps
  BY DEF ContentInv, ContentRowsOK, Ends, NewStamp
<1>2. ContentRowsOK'
  <2>1. stored' \in [Docs -> Contents] /\ edit' \in [Editors -> Edits]
    BY DEF ContentInv, ContentRowsOK, Ends
  <2>2. stamps' \in 0 .. MaxStamps
    BY <1>1 DEF ContentInv
  <2>3. QED
    BY <2>1, <2>2 DEF ContentInv, ContentRowsOK
<1>3. EditsMatch'
  BY <1>1 DEF ContentInv, EditsMatch, Visual
<1>4. StampsFresh'
  BY <1>1 DEF ContentInv, StampsFresh
<1>5. InStep'
  <2>1. \A o \in Editors : editor[o].open => editor[o].doc \in Docs /\ editor[o].doc # d
    BY DEF ContentInv, EditsMatch
  <2>2. \A o \in Editors : editor[o].open => stored'[editor[o].doc] = stored[editor[o].doc]
    BY <1>1, <2>1
  <2>3. \A o \in Editors : Visual(edit'[o]) => Visual(edit[o])
    BY <1>1 DEF Visual
  <2>4. \A o \in Editors : Visual(edit[o])' = Visual(edit'[o])
    BY DEF Visual
  <2>5. QED
    BY <2>2, <2>3, <2>4 DEF ContentInv, InStep, ShowsRow, Exists, Shown
<1>6. QED
  BY <1>2, <1>3, <1>4, <1>5 DEF ContentInv

LEMMA DeleteTemplateStep ==
    ASSUME ContentInv, NEW e \in Editors, NEW d \in Docs, DeleteTemplate(e, d)
    PROVE  ContentInv'
<1> USE ContentTypes
<1> PICK row : row = [stored[d] EXCEPT !.status = "deleted"]
  OBVIOUS
<1>1. stored' = [stored EXCEPT ![d] = row] /\ UNCHANGED <<editor, edit, versions, stamps, contentFaults>>
  BY DEF DeleteTemplate
<1>2. row \in Contents /\ row.status = "deleted" /\ row.stamp = stored[d].stamp
  BY DEF ContentInv, Contents
<1>3. \A c \in Docs : stored'[c] = IF c = d THEN row ELSE stored[c]
  BY <1>1 DEF ContentInv, ContentRowsOK
<1>4. ContentRowsOK'
  BY <1>1, <1>2 DEF ContentInv, ContentRowsOK
<1>5. EditsMatch'
  BY <1>1, <1>2, <1>3 DEF ContentInv, EditsMatch, Visual
<1>6. StampsFresh'
  BY <1>1, <1>2, <1>3 DEF ContentInv, StampsFresh
<1>7. InStep'
  <2>1. \A c \in Docs : stored'[c].status \in {"draft", "started"} => stored'[c] = stored[c]
    BY <1>2, <1>3
  <2>2. \A o \in Editors : editor[o].open => editor[o].doc \in Docs
    BY DEF ContentInv, EditsMatch
  <2>3. QED
    BY <1>1, <2>1, <2>2 DEF ContentInv, InStep, Visual, ShowsRow, Exists, Shown
<1>8. QED
  BY <1>4, <1>5, <1>6, <1>7 DEF ContentInv

(* An idle operator's editor shows a row that is there.                    *)
LEMMA ShowsStep ==
    ASSUME ContentInv, NEW e \in Editors, NEW d \in Docs, Begins(e), Exists(d),
           editor' = [editor EXCEPT ![e] = Shows(d)],
           UNCHANGED <<stored, edit, versions, stamps, contentFaults>>
    PROVE  ContentInv'
<1> USE ContentTypes
<1> PICK row : row = Shows(d)
  OBVIOUS
<1>1. /\ row.open /\ row.doc = d /\ row.seen = stored[d].stamp /\ row.shows = Shown(stored[d])
      /\ row \in EditorRows
  <2>1. stored[d].stamp \in 0 .. MaxStamps
    BY DEF ContentInv, Contents
  <2>2. Shown(stored[d]) \in (0 .. MaxVersions) \X (0 .. MaxVersions)
    BY DEF ContentInv
  <2>3. QED
    BY <2>1, <2>2 DEF Shows, EditorRows, AnyDoc
<1>2. \A o \in Editors : editor'[o] = IF o = e THEN row ELSE editor[o]
  BY DEF ContentInv, ContentRowsOK
<1>3. ContentRowsOK'
  BY <1>1 DEF ContentInv, ContentRowsOK
<1>4. EditsMatch'
  BY <1>1, <1>2 DEF ContentInv, EditsMatch, Visual, Begins, Exists
<1>5. StampsFresh'
  BY <1>1, <1>2 DEF ContentInv, StampsFresh
<1>6. InStep'
  BY <1>1, <1>2 DEF ContentInv, InStep, Visual, ShowsRow, Exists, Shown, Begins
<1>7. QED
  BY <1>3, <1>4, <1>5, <1>6 DEF ContentInv

(* A write begins; a visual one has passed the gate.                       *)
LEMMA LoadsStep ==
    ASSUME ContentInv, NEW e \in Editors, NEW d \in Docs, NEW kind \in Kinds, kind # "copy",
           Loads(e, kind, d), versions' \in 0 .. MaxVersions,
           kind = "visual" => editor[e].open /\ editor[e].doc = d /\ Fresh(e, stored[d])
    PROVE  ContentInv'
<1> USE ContentTypes
<1> PICK r : r = [at |-> "write", kind |-> kind, doc |-> d, read |-> stored[d],
                  stamp |-> stamps + 1, version |-> versions']
  OBVIOUS
<1>1. /\ edit[e].at = "idle" /\ Exists(d) /\ stored[d].status = "draft"
      /\ stamps < MaxStamps /\ stamps' = stamps + 1
      /\ edit' = [edit EXCEPT ![e] = r] /\ UNCHANGED <<stored, editor, contentFaults>>
  BY DEF Loads, Begins, Editable, NewStamp
<1>2. /\ r.at = "write" /\ r.kind = kind /\ r.doc = d /\ r.read.status = "draft" /\ r.stamp = stamps + 1
      /\ stamps' \in 0 .. MaxStamps /\ r \in Edits
  <2>1. stamps + 1 \in 0 .. MaxStamps /\ stored[d] \in Contents
    BY <1>1 DEF ContentInv
  <2>2. r \in Edits
    BY <2>1 DEF Edits, AnyDoc
  <2>3. QED
    BY <1>1, <2>1, <2>2
<1>3. \A o \in Editors : edit'[o] = IF o = e THEN r ELSE edit[o]
  BY <1>1 DEF ContentInv, ContentRowsOK
<1>4. ContentRowsOK'
  BY <1>1, <1>2 DEF ContentInv, ContentRowsOK
<1>5. EditsMatch'
  BY <1>1, <1>2, <1>3 DEF ContentInv, EditsMatch, Visual
<1>6. StampsFresh'
  BY <1>1, <1>2, <1>3 DEF ContentInv, StampsFresh
<1>7. InStep'
  <2>1. \A o \in Editors : Visual(edit'[o]) => Visual(edit[o]) \/ (o = e /\ kind = "visual")
    BY <1>2, <1>3 DEF Visual
  <2>2. \A o \in Editors : Visual(edit[o])' = Visual(edit'[o])
    BY DEF Visual
  <2>3. kind = "visual" => editor[e].open /\ editor[e].seen = stored[editor[e].doc].stamp
    BY DEF Fresh
  <2>4. QED
    BY <1>1, <2>1, <2>2, <2>3 DEF ContentInv, InStep, ShowsRow, Exists, Shown
<1>8. QED
  BY <1>4, <1>5, <1>6, <1>7 DEF ContentInv

LEMMA RereadStep ==
    ASSUME ContentInv, NEW e \in Editors, Reread(e)
    PROVE  ContentInv'
<1> USE ContentTypes, NoContentTypes
<1> PICK d : d = edit[e].doc
  OBVIOUS
<1>1. /\ d \in Docs /\ Visual(edit[e]) /\ editor[e].open /\ editor[e].doc = d
      /\ edit' = [edit EXCEPT ![e] = NoEdit]
      /\ UNCHANGED <<stored, versions, stamps, contentFaults>>
  BY DEF Reread, Ends, ContentInv, EditsMatch, Visual
<1>2. CASE Exists(d)
  <2> PICK row : row = [editor[e] EXCEPT !.seen = stored[d].stamp]
    OBVIOUS
  <2>1. editor' = [editor EXCEPT ![e] = row]
    BY <1>1, <1>2 DEF Reread
  <2>2. stored[d].stamp \in 0 .. MaxStamps
    BY <1>1 DEF ContentInv, Contents
  <2>3. /\ row \in EditorRows /\ row.seen = stored[d].stamp /\ row.open /\ row.doc = d
        /\ row.crossed = editor[e].crossed /\ row.shows = editor[e].shows
    BY <1>1, <2>2 DEF ContentInv, EditorRows
  <2>4. /\ \A o \in Editors : editor'[o] = IF o = e THEN row ELSE editor[o]
        /\ \A o \in Editors : edit'[o] = IF o = e THEN NoEdit ELSE edit[o]
    BY <1>1, <2>1 DEF ContentInv, ContentRowsOK
  <2>5. /\ \A o \in Editors : /\ editor'[o].open = editor[o].open /\ editor'[o].doc = editor[o].doc
                              /\ editor'[o].crossed = editor[o].crossed
                              /\ editor'[o].shows = editor[o].shows
                              /\ editor'[o].seen = editor[o].seen \/ editor'[o].seen = stored[d].stamp
                              /\ o # e => editor'[o].seen = editor[o].seen
        /\ \A o \in Editors : edit'[o].at # "idle" => o # e /\ edit'[o] = edit[o]
    <3>1. editor'[e] = row /\ edit'[e] = NoEdit
      BY <2>4
    <3>2. \A o \in Editors \ {e} : editor'[o] = editor[o] /\ edit'[o] = edit[o]
      BY <2>4
    <3>3. /\ editor'[e].open = editor[e].open /\ editor'[e].doc = editor[e].doc
          /\ editor'[e].crossed = editor[e].crossed /\ editor'[e].shows = editor[e].shows
          /\ editor'[e].seen = stored[d].stamp /\ edit'[e].at = "idle"
      BY <1>1, <2>3, <3>1
    <3>4. QED
      BY <3>2, <3>3
  <2>6. ContentRowsOK'
    BY <1>1, <2>1, <2>3 DEF ContentInv, ContentRowsOK
  <2>7. EditsMatch'
    BY <1>1, <2>5 DEF ContentInv, EditsMatch, Visual
  <2>8. StampsFresh'
    BY <1>1, <2>5 DEF ContentInv, StampsFresh
  <2>9. InStep'
    <3>1. ~editor[e].crossed => Shown(stored[d]) = editor[e].shows
      BY <1>1, <1>2 DEF ContentInv, InStep, ShowsRow
    <3>2. \A o \in Editors : Visual(edit'[o]) => Visual(edit[o]) /\ o # e
      BY <2>5 DEF Visual
    <3>3. \A o \in Editors : Visual(edit[o])' = Visual(edit'[o])
      BY DEF Visual
    <3>4. QED
      BY <1>1, <2>5, <3>1, <3>2, <3>3 DEF ContentInv, InStep, ShowsRow, Exists, Shown
  <2>10. QED
    BY <2>6, <2>7, <2>8, <2>9 DEF ContentInv
<1>3. CASE ~Exists(d)
  <2>1. UNCHANGED editor
    BY <1>3 DEF Reread
  <2>2. contentFaults' \in 0 .. MaxContentFaults
    BY <1>1 DEF ContentInv, ContentRowsOK
  <2>3. QED
    BY <1>1, <2>1, <2>2, QuietEditStep
<1>4. QED
  BY <1>2, <1>3

(* What a write leaves in its row.                                         *)
LEMMA WrittenRow ==
    ASSUME NEW r \in Edits, r.kind # "copy", r.read.status = "draft",
           NEW row, row = [Changed(r) EXCEPT !.stamp = r.stamp]
    PROVE  row \in Contents /\ row.stamp = r.stamp /\ row.status # "none"
<1>1. /\ r.read \in Contents /\ r.version \in 0 .. MaxVersions /\ r.stamp \in 0 .. MaxStamps
      /\ r.kind \in {"visual", "code", "optout", "start"}
  BY DEF Edits, Kinds
<1>2. Changed(r) \in Contents /\ Changed(r).status # "none"
  <2> USE DEF Contents, ApplyVisualSave, Recompose, OptOutVisual, NoDocument
  <2>1. CASE r.kind = "visual"
    BY <1>1, <2>1 DEF Changed
  <2>2. CASE r.kind = "code"
    BY <1>1, <2>2 DEF Changed
  <2>3. CASE r.kind = "optout"
    BY <1>1, <2>3, ContentAssumption DEF Changed
  <2>4. CASE r.kind = "start"
    BY <1>1, <2>4 DEF Changed
  <2>5. QED
    BY <1>1, <2>1, <2>2, <2>3, <2>4
<1>3. QED
  BY <1>1, <1>2 DEF Contents

LEMMA WriteStep ==
    ASSUME ContentInv, NEW e \in Editors, Write(e)
    PROVE  ContentInv'
<1> USE ContentTypes, NoContentTypes
<1> PICK r : r = edit[e]
  OBVIOUS
<1> PICK row : row = [Changed(r) EXCEPT !.stamp = r.stamp]
  OBVIOUS
<1> PICK reread : reread = [NoEdit EXCEPT !.at = "reread", !.kind = "visual", !.doc = r.doc]
  OBVIOUS
<1>1. /\ r \in Edits /\ r.at = "write" /\ r.doc \in Docs /\ stored[r.doc].status # "none"
      /\ r.kind # "copy" /\ r.read.status = "draft"
      /\ r.kind = "visual" => editor[e].open /\ editor[e].doc = r.doc
  BY DEF Write, ContentInv, EditsMatch, Visual
<1>2. row \in Contents /\ row.stamp = r.stamp /\ row.status # "none"
  BY <1>1, WrittenRow
<1>3. /\ stored' = IF Exists(r.doc) THEN [stored EXCEPT ![r.doc] = row] ELSE stored
      /\ UNCHANGED <<versions, stamps, contentFaults>>
  BY DEF Write
<1>4. /\ \A d \in Docs : stored'[d] = stored[d] \/ (d = r.doc /\ Exists(d) /\ stored'[d] = row)
      /\ Exists(r.doc) => stored'[r.doc] = row
      /\ \A d \in Docs : stored[d].status # "none" => stored'[d].status # "none"
      /\ ~Exists(r.doc) => stored' = stored
      /\ stored' \in [Docs -> Contents]
  BY <1>1, <1>2, <1>3 DEF ContentInv, ContentRowsOK
<1>5. /\ reread \in Edits /\ reread.at = "reread" /\ reread.kind = "visual" /\ reread.doc = r.doc
  BY <1>1 DEF Edits, Kinds, AnyDoc
<1>6. /\ edit' = [edit EXCEPT ![e] = IF r.kind = "visual" THEN reread ELSE NoEdit]
      /\ \A o \in Editors \ {e} : edit'[o] = edit[o]
      /\ edit'[e] = IF r.kind = "visual" THEN reread ELSE NoEdit
  BY DEF Write, Ends, ContentInv, ContentRowsOK
<1> DEFINE crossing(o) == o # e /\ edit[o].at \in {"write", "reread"} /\ edit[o].kind = "visual"
                          /\ edit[o].doc = r.doc
           crossed(o) == [editor[o] EXCEPT !.crossed = TRUE]
           saved == [editor[e] EXCEPT !.shows = Shown(row), !.crossed = FALSE]
<1>7. /\ \A o \in Editors \ {e} : editor'[o] = IF crossing(o) THEN crossed(o) ELSE editor[o]
      /\ editor'[e] = IF r.kind = "visual" THEN saved ELSE editor[e]
      /\ editor' \in [Editors -> {editor'[o] : o \in Editors}]
  <2>1. /\ CrossedBy(e) = [o \in Editors |-> IF crossing(o) THEN crossed(o) ELSE editor[o]]
        /\ CrossedBy(e)[e] = editor[e]
    BY DEF CrossedBy
  <2>2. CASE r.kind = "visual"
    <3>1. editor' = [CrossedBy(e) EXCEPT ![e].shows = Shown(row), ![e].crossed = FALSE]
      BY <2>2 DEF Write
    <3>2. editor' = [CrossedBy(e) EXCEPT ![e] = saved]
      BY <2>1, <3>1
    <3>3. QED
      BY <2>1, <2>2, <3>2
  <2>3. CASE r.kind # "visual"
    <3>1. editor' = CrossedBy(e)
      BY <2>3 DEF Write
    <3>2. QED
      BY <2>1, <2>3, <3>1
  <2>4. QED
    BY <2>2, <2>3
<1>8. \A o \in Editors : /\ editor[o] \in EditorRows
                         /\ crossed(o) \in EditorRows /\ crossed(o).crossed
                         /\ crossed(o).open = editor[o].open /\ crossed(o).doc = editor[o].doc
                         /\ crossed(o).seen = editor[o].seen /\ crossed(o).shows = editor[o].shows
  BY DEF ContentInv, EditorRows
<1>9. /\ saved \in EditorRows /\ saved.open = editor[e].open /\ saved.doc = editor[e].doc
      /\ saved.seen = editor[e].seen /\ saved.shows = Shown(row)
  <2>1. Shown(row) \in (0 .. MaxVersions) \X (0 .. MaxVersions)
    BY <1>2 DEF Shown, Contents
  <2>2. QED
    BY <2>1, <1>8 DEF EditorRows
<1> HIDE DEF crossed, saved
<1>10. \A o \in Editors : editor'[o].open = editor[o].open /\ editor'[o].doc = editor[o].doc
                          /\ editor'[o].seen = editor[o].seen
  BY <1>7, <1>8, <1>9
<1>11. ContentRowsOK'
  <2>1. editor' \in [Editors -> EditorRows]
    BY <1>7, <1>8, <1>9
  <2>2. edit' \in [Editors -> Edits]
    BY <1>5, <1>6 DEF ContentInv, ContentRowsOK
  <2>3. QED
    BY <1>3, <1>4, <2>1, <2>2 DEF ContentInv, ContentRowsOK
<1>12. EditsMatch'
  BY <1>1, <1>4, <1>5, <1>6, <1>10 DEF ContentInv, EditsMatch, Visual
<1>13. StampsFresh'
  <2>1. \A d \in Docs : stored'[d].stamp \in {stored[d].stamp, r.stamp}
    BY <1>2, <1>4
  <2>2. \A o \in Editors : edit'[o].at = "write" => o # e /\ edit'[o] = edit[o]
    BY <1>5, <1>6
  <2>3. r.stamp <= stamps /\ \A o \in Editors : o # e /\ edit[o].at = "write" => edit[o].stamp # r.stamp
    BY <1>1 DEF ContentInv, StampsFresh
  <2>4. QED
    BY <1>3, <1>10, <2>1, <2>2, <2>3 DEF ContentInv, StampsFresh
<1>14. InStep'
  <2> SUFFICES ASSUME NEW o \in Editors, editor'[o].open, ~editor'[o].crossed,
                      stored'[editor'[o].doc].status \in {"draft", "started"}
               PROVE  /\ editor'[o].seen = stored'[editor'[o].doc].stamp
                             => Shown(stored'[editor'[o].doc]) = editor'[o].shows
                      /\ Visual(edit'[o]) => Shown(stored'[editor'[o].doc]) = editor'[o].shows
    BY DEF InStep, ShowsRow, Visual, Shown, Exists
  <2> PICK d : d = editor[o].doc
    OBVIOUS
  <2>1. /\ editor[o].open /\ editor'[o].doc = d /\ d \in Docs /\ editor'[o].seen = editor[o].seen
    BY <1>10 DEF ContentInv, EditsMatch
  <2>2. Exists(d)
    BY <2>1, <1>4 DEF Exists
  <2>3. CASE d # r.doc
    <3>1. ~(o = e /\ r.kind = "visual")
      BY <1>1, <2>3
    <3>2. ~editor[o].crossed /\ editor'[o].shows = editor[o].shows
      BY <3>1, <1>7, <1>8
    <3>3. Visual(edit'[o]) => Visual(edit[o])
      BY <3>1, <1>6 DEF Visual
    <3>4. stored'[d] = stored[d]
      BY <1>4, <2>1, <2>3
    <3>5. QED
      BY <2>1, <2>2, <3>2, <3>3, <3>4 DEF ContentInv, InStep, ShowsRow, Exists
  <2>4. CASE d = r.doc /\ o = e /\ r.kind = "visual"
    BY <1>4, <1>7, <1>9, <2>1, <2>2, <2>4
  <2>5. CASE d = r.doc /\ ~(o = e /\ r.kind = "visual")
    <3>1. stored'[d] = row /\ editor[o].seen # r.stamp
      BY <1>1, <1>4, <2>2, <2>5 DEF ContentInv, StampsFresh
    <3>2. editor'[o].seen # stored'[d].stamp
      BY <1>2, <2>1, <3>1
    <3>3. ~Visual(edit'[o])
      <4>1. ASSUME Visual(edit'[o]) PROVE FALSE
        <5>1. o # e /\ edit'[o] = edit[o]
          BY <1>6, <2>5, <4>1 DEF Visual
        <5>2. Visual(edit[o]) /\ edit[o].doc = d
          BY <2>1, <4>1, <5>1 DEF ContentInv, EditsMatch
        <5>3. crossing(o)
          BY <2>5, <5>1, <5>2 DEF Visual
        <5>4. QED
          BY <1>7, <1>8, <5>1, <5>3
      <4>2. QED
        BY <4>1
    <3>4. QED
      BY <2>1, <3>2, <3>3
  <2>6. QED
    BY <2>3, <2>4, <2>5
<1>15. QED
  BY <1>11, <1>12, <1>13, <1>14 DEF ContentInv

LEMMA ContentStep == ContentInv /\ [ContentNext]_contentVars => ContentInv'
<1> SUFFICES ASSUME ContentInv, [ContentNext]_contentVars PROVE ContentInv'
  OBVIOUS
<1> USE ContentTypes, NoContentTypes, ContentAssumption
<1>a. Templates \subseteq Docs /\ Campaigns \subseteq Docs /\ ContentRowsOK
  BY DEF Docs, ContentInv
<1>b. /\ NewVersion => versions' \in 0 .. MaxVersions /\ versions' = versions + 1
      /\ UNCHANGED versions => versions' \in 0 .. MaxVersions
  BY <1>a DEF NewVersion, ContentRowsOK
<1>1. ASSUME NEW e \in Editors, NEW t \in Templates, CreateTemplate(e, t) PROVE ContentInv'
  <2>1. versions + 1 \in 0 .. MaxVersions /\ stamps + 1 \in 0 .. MaxStamps
    BY <1>1, <1>a DEF CreateTemplate, NewVersion, NewStamp
  <2> PICK row : row = NewTemplate
    OBVIOUS
  <2>2. row \in Contents /\ row.status = "draft" /\ row.stamp = stamps + 1
    BY <2>1 DEF NewTemplate, Contents, NoDocument
  <2>3. /\ stored[t].status = "none" /\ stored' = [stored EXCEPT ![t] = row] /\ NewStamp
        /\ versions' \in 0 .. MaxVersions /\ UNCHANGED <<editor, edit, contentFaults>>
    BY <1>1, <1>b DEF CreateTemplate
  <2>4. QED
    BY <1>a, <2>2, <2>3, NewRowStep
<1>2. ASSUME NEW e \in Editors, NEW t \in Templates, DeleteTemplate(e, t) PROVE ContentInv'
  BY <1>2, <1>a, DeleteTemplateStep
<1>3. ASSUME NEW e \in Editors, NEW c \in Campaigns, NEW t \in Templates, CopyTemplate(e, c, t)
      PROVE  ContentInv'
  <2> PICK r : r = [NoEdit EXCEPT !.at = "add", !.kind = "copy", !.doc = c, !.read = stored[t]]
    OBVIOUS
  <2>1. r \in Edits /\ r.at = "add" /\ r.doc = c
    BY <1>a DEF Edits, Kinds, AnyDoc
  <2>2. /\ edit' = [edit EXCEPT ![e] = r] /\ UNCHANGED <<stored, editor, versions, stamps>>
        /\ contentFaults' \in 0 .. MaxContentFaults
    BY <1>3, <1>a DEF CopyTemplate, ContentRowsOK
  <2>3. QED
    BY <1>a, <2>1, <2>2, QuietEditStep
<1>4. ASSUME NEW e \in Editors, NEW own \in BOOLEAN, AddCampaign(e, own) PROVE ContentInv'
  <2> PICK r : r = edit[e]
    OBVIOUS
  <2>1. /\ r.at = "add" /\ r.doc \in Docs /\ r.read \in Contents
        /\ stored[r.doc].status = "none" /\ NewStamp /\ Ends(e)
        /\ IF own THEN NewVersion ELSE UNCHANGED versions
        /\ UNCHANGED <<editor, contentFaults>>
    BY <1>4, <1>a DEF AddCampaign, ContentInv, EditsMatch, Edits
  <2> PICK row : row = NewCampaign(r.read, own)
    OBVIOUS
  <2>2. row \in Contents /\ row.status = "draft" /\ row.stamp = stamps + 1
    <3>1. (own => versions + 1 \in 0 .. MaxVersions) /\ stamps + 1 \in 0 .. MaxStamps
      BY <2>1, <1>a DEF NewVersion, NewStamp
    <3>2. QED
      BY <2>1, <3>1 DEF NewCampaign, Contents
  <2>3. stored' = [stored EXCEPT ![r.doc] = row] /\ versions' \in 0 .. MaxVersions
    BY <1>4, <1>b, <2>1 DEF AddCampaign
  <2>4. QED
    BY <2>1, <2>2, <2>3, NewRowStep
<1>5. ASSUME NEW e \in Editors, NEW d \in Docs, OpenEditor(e, d) \/ TakeOver(e, d) PROVE ContentInv'
  BY <1>5, ShowsStep DEF OpenEditor, TakeOver
<1>6. ASSUME NEW e \in Editors, NEW d \in Docs, Saves(e, d) PROVE ContentInv'
  BY <1>6, <1>b, LoadsStep DEF Saves, Kinds
<1>7. ASSUME NEW e \in Editors, NEW d \in Docs, NEW kind \in {"code", "optout", "start"},
             NewVersion \/ UNCHANGED versions, Loads(e, kind, d)
      PROVE  ContentInv'
  BY <1>7, <1>b, LoadsStep DEF Kinds
<1>8. ASSUME NEW e \in Editors, EditFails(e) PROVE ContentInv'
  <2>1. contentFaults' \in 0 .. MaxContentFaults
    BY <1>8, <1>a DEF EditFails, ContentRowsOK
  <2>2. QED
    BY <1>8, <2>1, QuietEditStep DEF EditFails, Ends
<1>9. CASE UNCHANGED contentVars
  BY <1>9 DEF contentVars, ContentInv, ContentRowsOK, EditsMatch, StampsFresh, InStep, Visual, ShowsRow,
     Exists, Shown
<1>10. QED
  BY <1>a, <1>1, <1>2, <1>3, <1>4, <1>5, <1>6, <1>7, <1>8, <1>9, WriteStep, RereadStep
  DEF ContentNext, SaveVisualTemplate, SaveVisualCampaign, UpdateTemplate, UpdateCampaign,
      OptOutVisualTemplate, OptOutVisualCampaign, StartCampaign

(* Every reachable state of the templates and campaigns satisfies the      *)
(* invariant.                                                              *)
THEOREM ContentInvariant == ContentSpec => []ContentInv
  BY ContentInitInv, ContentStep, PTL DEF ContentSpec

(* FR-009: whatever a visual save replaces is what its editor shows, for   *)
(* any number of editors of a row and in any order of their requests.      *)
THEOREM SavesOverwriteWhatTheyShow == ContentSpec => OverwritesWhatItShows
<1>1. ContentInv => \A e \in Editors :
         /\ edit[e].at = "write" /\ edit[e].kind = "visual"
         /\ edit'[e].at = "reread"
         /\ Exists(edit[e].doc)
         => editor[e].crossed \/ Shown(stored[edit[e].doc]) = editor[e].shows
  BY DEF ContentInv, EditsMatch, InStep, Visual, ShowsRow
<1>2. QED
  BY <1>1, ContentInvariant, PTL DEF OverwritesWhatItShows

-----------------------------------------------------------------------------
(* Induction over data, by a least counterexample: things have a height,   *)
(* and what holds of a thing when it holds of all lower ones holds of all. *)
LEMMA InductionOnHeight ==
    ASSUME NEW S, NEW height \in [S -> Nat], NEW G,
           \A x \in S : (\A y \in S : height[y] < height[x] => y \in G) => x \in G
    PROVE  S \subseteq G
<1> SUFFICES ASSUME NEW z \in S, z \notin G PROVE FALSE
  OBVIOUS
<1> DEFINE Missed == {height[x] : x \in S \ G}
<1>1. Missed \subseteq Nat /\ Missed # {}
  OBVIOUS
<1>2. PICK h \in Missed : \A k \in Missed : ~(<<k, h>> \in OpToRel(<, Nat))
  BY <1>1, WFMin, NatLessThanWellFounded, Zenon
<1>3. PICK x \in S \ G : h = height[x]
  OBVIOUS
<1>4. \A y \in S : height[y] < height[x] => y \in G
  <2> SUFFICES ASSUME NEW y \in S, height[y] < height[x], y \notin G PROVE FALSE
    OBVIOUS
  <2>1. height[y] \in Missed /\ height[y] \in Nat /\ height[x] \in Nat
    OBVIOUS
  <2> HIDE DEF Missed
  <2>2. <<height[y], h>> \in OpToRel(<, Nat)
    BY <1>3, <2>1, Zenon DEF OpToRel
  <2>3. QED
    BY <1>2, <2>1, <2>2
<1>5. QED
  BY <1>3, <1>4

LEMMA InductionOnNat ==
    ASSUME NEW G, 0 \in G, \A n \in Nat : n \in G => n + 1 \in G
    PROVE  Nat \subseteq G
<1> DEFINE id == [n \in Nat |-> n]
<1>1. id \in [Nat -> Nat]
  OBVIOUS
<1>2. ASSUME NEW n \in Nat, \A m \in Nat : id[m] < id[n] => m \in G
      PROVE  n \in G
  <2>1. \A m \in Nat : m < n => m \in G
    BY <1>2
  <2>2. CASE n = 0
    BY <2>2
  <2>3. CASE n # 0
    <3>1. n - 1 \in Nat /\ n - 1 < n /\ n = (n - 1) + 1
      BY <2>3
    <3>2. QED
      BY <2>1, <3>1
  <2>4. QED
    BY <2>2, <2>3
<1> HIDE DEF id
<1>3. QED
  BY <1>1, <1>2, InductionOnHeight

(* A recursive function over things of a height, each step of which looks  *)
(* only at lower things.                                                   *)
Recurses(S, T, height, step) ==
    /\ T # {}
    /\ height \in [S -> Nat]
    /\ step \in [[S -> T] -> [S -> T]]
    /\ \A f, g \in [S -> T], x \in S :
          (\A y \in S : height[y] < height[x] => f[y] = g[y]) => step[f][x] = step[g][x]

(* Its definition has a solution.                                          *)
LEMMA RecursionOnHeight ==
    ASSUME NEW S, NEW T, NEW height, NEW step, Recurses(S, T, height, step)
    PROVE  \E f \in [S -> T] : f = step[f]
<1> USE DEF Recurses
<1> DEFINE Solves(f, n) == \A x \in S : height[x] < n => f[x] = step[f][x]
           Solvable == {n \in Nat : \E f \in [S -> T] : Solves(f, n)}
<1>1. 0 \in Solvable
  <2>1. PICK t \in T : TRUE
    OBVIOUS
  <2>2. [x \in S |-> t] \in [S -> T] /\ Solves([x \in S |-> t], 0)
    BY <2>1
  <2>3. QED
    BY <2>2
<1>2. ASSUME NEW n \in Nat, n \in Solvable PROVE n + 1 \in Solvable
  <2>1. PICK f \in [S -> T] : Solves(f, n)
    BY <1>2
  <2>2. step[f] \in [S -> T]
    OBVIOUS
  <2>3. ASSUME NEW x \in S, height[x] < n + 1 PROVE step[f][x] = step[step[f]][x]
    <3>1. \A y \in S : height[y] < height[x] => f[y] = step[f][y]
      BY <2>1, <2>3
    <3>2. QED
      BY <2>2, <3>1
  <2>4. QED
    BY <2>2, <2>3
<1>3. Nat \subseteq Solvable
  <2> HIDE DEF Solvable
  <2>1. QED
    BY <1>1, <1>2, InductionOnNat
<1>4. ASSUME NEW n \in Nat, NEW f \in [S -> T], NEW g \in [S -> T], Solves(f, n), Solves(g, n)
      PROVE  \A x \in S : height[x] < n => f[x] = g[x]
  <2> DEFINE Agree == {x \in S : height[x] < n => f[x] = g[x]}
  <2>1. ASSUME NEW x \in S, \A y \in S : height[y] < height[x] => y \in Agree
        PROVE  x \in Agree
    <3> SUFFICES ASSUME height[x] < n PROVE f[x] = g[x]
      OBVIOUS
    <3>1. \A y \in S : height[y] < height[x] => f[y] = g[y]
      BY <2>1
    <3>2. QED
      BY <1>4, <3>1
  <2>2. S \subseteq Agree
    <3> HIDE DEF Agree
    <3>1. QED
      BY <2>1, InductionOnHeight
  <2>3. QED
    BY <2>2
<1> DEFINE upTo == [n \in Nat |-> CHOOSE f \in [S -> T] : Solves(f, n)]
           whole == [x \in S |-> upTo[height[x] + 1][x]]
<1>5. \A n \in Nat : upTo[n] \in [S -> T] /\ Solves(upTo[n], n)
  <2> HIDE DEF Solves
  <2>1. QED
    BY <1>3
<1>6. whole \in [S -> T]
  <2> HIDE DEF upTo, Solves
  <2>1. QED
    BY <1>5
<1>7. ASSUME NEW x \in S PROVE whole[x] = step[whole][x]
  <2> DEFINE f == upTo[height[x] + 1]
  <2>1. height[x] + 1 \in Nat /\ height[x] < height[x] + 1
    OBVIOUS
  <2>2. f \in [S -> T] /\ Solves(f, height[x] + 1)
    <3> HIDE DEF upTo, Solves
    <3>1. QED
      BY <1>5, <2>1
  <2>3. ASSUME NEW y \in S, height[y] < height[x] PROVE f[y] = whole[y]
    <3> DEFINE g == upTo[height[y] + 1]
    <3>1. height[y] + 1 \in Nat
      OBVIOUS
    <3>2. g \in [S -> T] /\ Solves(g, height[y] + 1)
      <4> HIDE DEF upTo, Solves
      <4>1. QED
        BY <1>5, <3>1
    <3>3. Solves(f, height[y] + 1)
      <4> HIDE DEF upTo
      <4>1. QED
        BY <2>2, <2>3
    <3>4. f[y] = g[y]
      <4> HIDE DEF upTo, Solves
      <4>1. height[y] < height[y] + 1
        OBVIOUS
      <4>2. QED
        BY <1>4, <2>2, <3>1, <3>2, <3>3, <4>1
    <3>5. whole[y] = g[y]
      OBVIOUS
    <3>6. QED
      BY <3>4, <3>5
  <2>4. step[f][x] = step[whole][x]
    <3> HIDE DEF whole, f
    <3>1. QED
      BY <1>6, <2>2, <2>3
  <2>5. f[x] = step[f][x]
    <3> HIDE DEF upTo
    <3>1. QED
      BY <2>1, <2>2
  <2>6. whole[x] = f[x]
    OBVIOUS
  <2>7. QED
    BY <2>4, <2>5, <2>6
<1>8. whole = step[whole]
  <2> HIDE DEF whole
  <2>1. QED
    BY <1>6, <1>7
<1>9. QED
  BY <1>6, <1>8

-----------------------------------------------------------------------------
(* Segments: any subscribers, rows and trees, pages of any size and any    *)
(* number of changes between them.                                         *)

LEMMA Children ==
    ASSUME NEW tree \in Trees, NEW i \in DOMAIN tree.children
    PROVE  /\ tree.children[i] \in Trees
           /\ Height[tree] \in Nat /\ Height[tree.children[i]] \in Nat
           /\ Height[tree.children[i]] < Height[tree]
  BY SegmentsAssumption

(* What the recursive definitions of the model say of one node.            *)
LEMMA PartsOf ==
    /\ Parts \in [Trees -> SUBSET Trees]
    /\ \A tree \in Trees :
          Parts[tree] = {tree} \cup UNION {Parts[tree.children[i]] : i \in DOMAIN tree.children}
<1> DEFINE T == SUBSET Trees
           below(f, x) == {x} \cup UNION {f[x.children[i]] : i \in DOMAIN x.children}
           step == [f \in [Trees -> T] |-> [x \in Trees |-> below(f, x)]]
<1>1. \A x \in Trees : \A i \in DOMAIN x.children : x.children[i] \in Trees
  BY Children
<1>2. \A f \in [Trees -> T], x \in Trees : below(f, x) \in T
  BY <1>1
<1>3. ASSUME NEW f \in [Trees -> T], NEW g \in [Trees -> T], NEW x \in Trees,
             \A y \in Trees : Height[y] < Height[x] => f[y] = g[y]
      PROVE  below(f, x) = below(g, x)
  <2>1. \A i \in DOMAIN x.children : f[x.children[i]] = g[x.children[i]]
    BY <1>3, Children
  <2>2. {f[x.children[i]] : i \in DOMAIN x.children} = {g[x.children[i]] : i \in DOMAIN x.children}
    BY <2>1
  <2>3. QED
    BY <2>2
<1>4. Recurses(Trees, T, Height, step)
  <2>1. T # {} /\ Height \in [Trees -> Nat]
    BY SegmentsAssumption
  <2>2. step \in [[Trees -> T] -> [Trees -> T]]
    <3> HIDE DEF below, T
    <3>1. QED
      BY <1>2
  <2>3. \A f, g \in [Trees -> T], x \in Trees :
           (\A y \in Trees : Height[y] < Height[x] => f[y] = g[y]) => step[f][x] = step[g][x]
    <3> HIDE DEF below, T
    <3>1. QED
      BY <1>3
  <2> HIDE DEF step, T
  <2>4. QED
    BY <2>1, <2>2, <2>3 DEF Recurses
<1>5. \E f \in [Trees -> T] : f = step[f]
  <2> HIDE DEF step, T
  <2>1. QED
    BY <1>4, RecursionOnHeight
<1>6. PICK f \in [Trees -> T] : f = step[f]
  BY <1>5
<1>7. f = [x \in Trees |-> below(f, x)]
  <2> HIDE DEF below, T
  <2>1. QED
    BY <1>6
<1>8. Parts = [x \in Trees |-> below(Parts, x)]
  BY <1>7 DEF Parts
<1>9. \A x \in Trees : Parts[x] = below(Parts, x)
  <2> HIDE DEF below
  <2>1. QED
    BY <1>8
<1>10. Trees \subseteq {x \in Trees : Parts[x] \in T}
  <2> DEFINE G == {x \in Trees : Parts[x] \in T}
  <2>1. ASSUME NEW x \in Trees, \A y \in Trees : Height[y] < Height[x] => y \in G
        PROVE  x \in G
    <3>1. \A i \in DOMAIN x.children : Parts[x.children[i]] \subseteq Trees
      BY <2>1, Children
    <3>2. below(Parts, x) \subseteq Trees
      BY <3>1
    <3>3. QED
      BY <1>9, <3>2
  <2>2. Height \in [Trees -> Nat]
    BY SegmentsAssumption
  <2> HIDE DEF G
  <2>3. Trees \subseteq G
    BY <2>1, <2>2, InductionOnHeight
  <2>4. QED
    BY <2>3 DEF G
<1>11. Parts \in [Trees -> T]
  <2> HIDE DEF below, T
  <2>1. QED
    BY <1>8, <1>10
<1>12. QED
  BY <1>9, <1>11

(* The truth values that the parts of a group may have together.           *)
Picks(tree, row) ==
    {p \in [DOMAIN tree.children -> TruthValues] :
        \A i \in DOMAIN p : p[i] \in Truths[tree.children[i]][row]}

LEMMA ConditionTruthType ==
    ASSUME NEW c, NEW row
    PROVE  ConditionTruth(c, row) \in TruthValues
  BY DEF ConditionTruth, FieldTruth, AttrTruth, MemberTruth, TextTruth, Truth, TruthValues

LEMMA JoinedType ==
    ASSUME NEW conj, NEW truths, truths \subseteq TruthValues
    PROVE  Joined(conj, truths) \in SUBSET TruthValues
  BY DEF Joined, Truth, TruthValues

LEMMA TruthsOf ==
    /\ Truths \in [Trees -> [Rows -> SUBSET TruthValues]]
    /\ \A tree \in Trees, row \in Rows :
          Truths[tree][row] =
              IF IsGroup(tree)
              THEN UNION {Joined(tree.conj, {p[i] : i \in DOMAIN p}) : p \in Picks(tree, row)}
              ELSE {ConditionTruth(tree.condition, row)}
<1> DEFINE T == [Rows -> SUBSET TruthValues]
           picks(f, x, row) ==
               {p \in [DOMAIN x.children -> TruthValues] : \A i \in DOMAIN p : p[i] \in f[x.children[i]][row]}
           at(f, x, row) ==
               IF IsGroup(x) THEN UNION {Joined(x.conj, {p[i] : i \in DOMAIN p}) : p \in picks(f, x, row)}
               ELSE {ConditionTruth(x.condition, row)}
           below(f, x) == [row \in Rows |-> at(f, x, row)]
           step == [f \in [Trees -> T] |-> [x \in Trees |-> below(f, x)]]
<1>1. ASSUME NEW f, NEW x, NEW row PROVE at(f, x, row) \in SUBSET TruthValues
  <2>1. ASSUME NEW p \in picks(f, x, row) PROVE Joined(x.conj, {p[i] : i \in DOMAIN p}) \subseteq TruthValues
    <3>1. {p[i] : i \in DOMAIN p} \subseteq TruthValues
      OBVIOUS
    <3>2. QED
      BY <3>1, JoinedType
  <2>2. UNION {Joined(x.conj, {p[i] : i \in DOMAIN p}) : p \in picks(f, x, row)} \subseteq TruthValues
    <3> HIDE DEF picks
    <3>1. QED
      BY <2>1
  <2>3. ConditionTruth(x.condition, row) \in TruthValues
    BY ConditionTruthType
  <2> HIDE DEF picks
  <2>4. QED
    BY <2>2, <2>3
<1>2. \A f, x : below(f, x) \in T
  <2> HIDE DEF at
  <2>1. QED
    BY <1>1
<1>3. ASSUME NEW f \in [Trees -> T], NEW g \in [Trees -> T], NEW x \in Trees,
             \A y \in Trees : Height[y] < Height[x] => f[y] = g[y]
      PROVE  below(f, x) = below(g, x)
  <2>1. \A i \in DOMAIN x.children : f[x.children[i]] = g[x.children[i]]
    BY <1>3, Children
  <2>2. \A row : picks(f, x, row) = picks(g, x, row)
    BY <2>1
  <2>3. \A row : at(f, x, row) = at(g, x, row)
    <3> HIDE DEF picks
    <3>1. QED
      BY <2>2
  <2> HIDE DEF at
  <2>4. QED
    BY <2>3
<1>4. Recurses(Trees, T, Height, step)
  <2>1. T # {} /\ Height \in [Trees -> Nat]
    <3>1. [row \in Rows |-> {}] \in T
      OBVIOUS
    <3>2. QED
      BY <3>1, SegmentsAssumption
  <2>2. step \in [[Trees -> T] -> [Trees -> T]]
    <3> HIDE DEF below, T
    <3>1. QED
      BY <1>2
  <2>3. \A f, g \in [Trees -> T], x \in Trees :
           (\A y \in Trees : Height[y] < Height[x] => f[y] = g[y]) => step[f][x] = step[g][x]
    <3> HIDE DEF below, T
    <3>1. QED
      BY <1>3
  <2> HIDE DEF step, T
  <2>4. QED
    BY <2>1, <2>2, <2>3 DEF Recurses
<1>5. \E f \in [Trees -> T] : f = step[f]
  <2> HIDE DEF step, T
  <2>1. QED
    BY <1>4, RecursionOnHeight
<1>6. PICK f \in [Trees -> T] : f = step[f]
  BY <1>5
<1>7. f = [x \in Trees |-> below(f, x)]
  <2> HIDE DEF below, T
  <2>1. QED
    BY <1>6
<1>8. Truths = [x \in Trees |-> below(Truths, x)]
  BY <1>7 DEF Truths
<1>9. Truths \in [Trees -> T] /\ \A x \in Trees : Truths[x] = below(Truths, x)
  <2> HIDE DEF below, T
  <2>1. QED
    BY <1>2, <1>8
<1>10. \A x \in Trees, row \in Rows : Truths[x][row] = at(Truths, x, row)
  <2> HIDE DEF at
  <2>1. QED
    BY <1>9
<1>11. QED
  BY <1>9, <1>10 DEF Picks

LEMMA DescribesOf ==
    ASSUME NEW tree \in Trees, NEW row \in Rows
    PROVE  row \in Describes[tree] <=>
              \/ ~IsGroup(tree) /\ DescribedBy(tree.condition, row)
              \/ /\ IsGroup(tree) /\ tree.conj = "and"
                 /\ \A i \in DOMAIN tree.children : row \in Describes[tree.children[i]]
              \/ /\ IsGroup(tree) /\ tree.conj # "and"
                 /\ \E i \in DOMAIN tree.children : row \in Describes[tree.children[i]]
<1> DEFINE T == SUBSET Rows
           holds(f, x, r) ==
               \/ ~IsGroup(x) /\ DescribedBy(x.condition, r)
               \/ IsGroup(x) /\ x.conj = "and" /\ \A i \in DOMAIN x.children : r \in f[x.children[i]]
               \/ IsGroup(x) /\ x.conj # "and" /\ \E i \in DOMAIN x.children : r \in f[x.children[i]]
           below(f, x) == {r \in Rows : holds(f, x, r)}
           step == [f \in [Trees -> T] |-> [x \in Trees |-> below(f, x)]]
<1>1. \A f, x : below(f, x) \in T
  <2> HIDE DEF holds
  <2>1. QED
    OBVIOUS
<1>2. ASSUME NEW f \in [Trees -> T], NEW g \in [Trees -> T], NEW x \in Trees,
             \A y \in Trees : Height[y] < Height[x] => f[y] = g[y]
      PROVE  below(f, x) = below(g, x)
  <2>1. \A i \in DOMAIN x.children : f[x.children[i]] = g[x.children[i]]
    BY <1>2, Children
  <2>2. \A r : holds(f, x, r) <=> holds(g, x, r)
    BY <2>1
  <2> HIDE DEF holds
  <2>3. QED
    BY <2>2
<1>3. Recurses(Trees, T, Height, step)
  <2>1. T # {} /\ Height \in [Trees -> Nat]
    BY SegmentsAssumption
  <2>2. step \in [[Trees -> T] -> [Trees -> T]]
    <3> HIDE DEF below, T
    <3>1. QED
      BY <1>1
  <2>3. \A f, g \in [Trees -> T], x \in Trees :
           (\A y \in Trees : Height[y] < Height[x] => f[y] = g[y]) => step[f][x] = step[g][x]
    <3> HIDE DEF below, T
    <3>1. QED
      BY <1>2
  <2> HIDE DEF step, T
  <2>4. QED
    BY <2>1, <2>2, <2>3 DEF Recurses
<1>4. \E f \in [Trees -> T] : f = step[f]
  <2> HIDE DEF step, T
  <2>1. QED
    BY <1>3, RecursionOnHeight
<1>5. PICK f \in [Trees -> T] : f = step[f]
  BY <1>4
<1>6. f = [x \in Trees |-> below(f, x)]
  <2> HIDE DEF below, T
  <2>1. QED
    BY <1>5
<1>7. Describes = [x \in Trees |-> below(Describes, x)]
  BY <1>6 DEF Describes
<1>8. Describes[tree] = below(Describes, tree)
  <2> HIDE DEF below
  <2>1. QED
    BY <1>7
<1>9. row \in Describes[tree] <=> holds(Describes, tree, row)
  <2> HIDE DEF holds
  <2>1. QED
    BY <1>8
<1>10. QED
  BY <1>9

-----------------------------------------------------------------------------
(* Subtrees: what holds of every node of a tree holds of its children's.   *)
Clean(tree) == Valid(tree) /\ \A c \in Conditions(tree) : ~Garbled(c)

LEMMA PartsBelow ==
    ASSUME NEW tree \in Trees, NEW i \in DOMAIN tree.children
    PROVE  Parts[tree.children[i]] \subseteq Parts[tree]
  BY PartsOf

LEMMA ConditionsBelow ==
    ASSUME NEW tree \in Trees, NEW i \in DOMAIN tree.children
    PROVE  Conditions(tree.children[i]) \subseteq Conditions(tree)
  BY PartsBelow DEF Conditions

LEMMA CleanBelow ==
    ASSUME NEW tree \in Trees, Clean(tree), NEW i \in DOMAIN tree.children
    PROVE  Clean(tree.children[i])
<1>1. Valid(tree.children[i])
  BY PartsBelow DEF Clean, Valid
<1>2. QED
  BY <1>1, ConditionsBelow DEF Clean

LEMMA OfItself ==
    ASSUME NEW tree \in Trees
    PROVE  /\ Valid(tree) => ValidNode(tree)
           /\ ~IsGroup(tree) => tree.condition \in Conditions(tree)
<1>1. tree \in Parts[tree]
  BY PartsOf
<1>2. QED
  BY <1>1 DEF Valid, Conditions

-----------------------------------------------------------------------------
(* One condition: the SQL that is written for it is true of exactly the    *)
(* rows that it describes, if its value is compared as itself.             *)
LEMMA NumbersConvert ==
    ASSUME NEW value
    PROVE  /\ Written(value) \in Numbers <=> value \in Numbers
           /\ value \in Numbers => Size(Written(value)) = Size(value)
<1>1. CASE value = "million"
  BY <1>1 DEF Written, Numbers, Size
<1>2. CASE value = "array"
  BY <1>2 DEF Written, Numbers
<1>3. CASE value \notin {"million", "array"}
  <2>1. Written(value) = value
    BY <1>3 DEF Written
  <2>2. QED
    BY <2>1
<1>4. QED
  BY <1>1, <1>2, <1>3

LEMMA TextDescribes ==
    ASSUME NEW c, NEW actual, c.op \in Knows \ (Compares \cup {"exists"}), c.op = "contains" => c.value # "wild"
    PROVE  TextTruth(c.op, actual, c.value) = "true" <=>
              \/ c.op = "eq" /\ actual = c.value
              \/ c.op = "neq" /\ actual # c.value
              \/ c.op = "contains" /\ Inside(c.value, actual)
              \/ {actual, c.value} \subseteq Numbers /\ Ordered(c.op, Size(actual), Size(c.value))
<1>1. c.op \in {"eq", "neq", "contains"}
  BY DEF Knows, Compares
<1>2. ~Ordered(c.op, Size(actual), Size(c.value))
  BY <1>1 DEF Ordered
<1>3. QED
  BY <1>1, <1>2 DEF TextTruth, Truth, Like

LEMMA ConditionDescribes ==
    ASSUME NEW c, NEW row \in Rows, ValidCondition(c), ~Garbled(c)
    PROVE  ConditionTruth(c, row) = "true" <=> DescribedBy(c, row)
<1>1. CASE c.on = "member"
  BY <1>1 DEF ConditionTruth, MemberTruth, Truth, DescribedBy
<1>2. CASE c.on = "field"
  <2>1. c.op \in Knows \ Compares /\ (c.op = "contains" => c.value # "wild")
    BY <1>2 DEF ValidCondition, Garbled
  <2>2. ConditionTruth(c, row) = FieldTruth(c, row) /\ row.state \notin {"absent", "null"}
    BY <1>2, SegmentsAssumption DEF ConditionTruth
  <2>3. CASE c.op = "exists"
    BY <1>2, <2>2, <2>3 DEF FieldTruth, DescribedBy
  <2>4. CASE c.op # "exists"
    BY <1>2, <2>1, <2>2, <2>4, TextDescribes DEF FieldTruth, DescribedBy
  <2>5. QED
    BY <2>3, <2>4
<1>3. CASE c.on = "attr"
  <2>1. c.op \in Knows /\ ConditionTruth(c, row) = AttrTruth(c, row)
    BY <1>3 DEF ValidCondition, ConditionTruth
  <2>2. CASE c.op = "exists"
    <3>1. ~NoNumber(c) /\ ~CastFails(c, row)
      BY <2>2 DEF NoNumber, CastFails, Compares
    <3>2. QED
      BY <1>3, <2>1, <2>2, <3>1 DEF AttrTruth, DescribedBy, Truth
  <2>3. CASE c.op \in Compares
    <3>1. DescribedBy(c, row) <=>
             /\ row.attr \notin {"absent", "null"}
             /\ {row.attr, c.value} \subseteq Numbers /\ Ordered(c.op, Size(row.attr), Size(c.value))
      BY <1>3, <2>3 DEF DescribedBy, Compares
    <3>2. NoNumber(c) <=> c.value \notin Numbers
      BY <1>3, <2>3, NumbersConvert DEF NoNumber
    <3>3. CastFails(c, row) <=> row.attr \notin Numbers \cup {"absent", "null"}
      BY <1>3, <2>3 DEF CastFails
    <3>4. ~NoNumber(c) => Size(Written(c.value)) = Size(c.value)
      BY <3>2, NumbersConvert
    <3>5. c.op # "exists"
      BY <2>3 DEF Compares
    <3>6. AttrTruth(c, row) = "true" <=>
             /\ ~NoNumber(c) /\ ~CastFails(c, row) /\ row.attr \notin {"absent", "null"}
             /\ Ordered(c.op, Size(row.attr), Size(Written(c.value)))
      BY <2>3, <3>5 DEF AttrTruth, Truth
    <3>7. QED
      BY <2>1, <3>1, <3>2, <3>3, <3>4, <3>6
  <2>4. CASE c.op \notin Compares \cup {"exists"}
    <3>1. c.op \in {"eq", "neq", "contains"}
      BY <2>1, <2>4 DEF Knows, Compares
    <3>2. Written(c.value) = c.value /\ (c.op = "contains" => c.value # "wild")
      BY <1>3, <3>1 DEF Garbled
    <3>3. ~NoNumber(c) /\ ~CastFails(c, row)
      BY <2>4 DEF NoNumber, CastFails
    <3>4. AttrTruth(c, row) =
             IF row.attr \in {"absent", "null"} THEN "null" ELSE TextTruth(c.op, row.attr, c.value)
      BY <2>4, <3>2, <3>3 DEF AttrTruth
    <3>5. QED
      BY <1>3, <2>1, <2>4, <3>2, <3>4, TextDescribes DEF DescribedBy
  <2>5. QED
    BY <2>2, <2>3, <2>4
<1>4. QED
  BY <1>1, <1>2, <1>3 DEF ValidCondition

(* It fails on nothing but what is no number.                              *)
LEMMA ConditionFails ==
    ASSUME NEW c, NEW row, ConditionTruth(c, row) = "error"
    PROVE  NoNumber(c) \/ CastFails(c, row)
  BY DEF ConditionTruth, FieldTruth, AttrTruth, MemberTruth, TextTruth, Truth

LEMMA ConditionDecided ==
    ASSUME NEW c, NEW row \in Rows, ValidCondition(c), ~Garbled(c)
    PROVE  DescribedBy(c, row) => ConditionTruth(c, row) \in {"true", "error"}
  BY ConditionDescribes

-----------------------------------------------------------------------------
(* The truth of a group from the truths of its parts, picked in any way.   *)
LEMMA AndJoins ==
    ASSUME NEW truths, truths \subseteq TruthValues
    PROVE  /\ Joined("and", truths) # {}
           /\ "true" \in Joined("and", truths) => truths \subseteq {"true"}
           /\ truths \subseteq {"true", "error"} => Joined("and", truths) \subseteq {"true", "error"}
           /\ "error" \in Joined("and", truths) => "error" \in truths
  BY DEF Joined, Truth, TruthValues

LEMMA OrJoins ==
    ASSUME NEW truths, truths \subseteq TruthValues
    PROVE  /\ Joined("or", truths) # {}
           /\ "true" \in Joined("or", truths) => "true" \in truths
           /\ truths \cap {"true", "error"} # {} => Joined("or", truths) \subseteq {"true", "error"}
           /\ "error" \in Joined("or", truths) => "error" \in truths
  BY DEF Joined, Truth, TruthValues

LEMMA PicksExist ==
    ASSUME NEW tree \in Trees, NEW row \in Rows,
           \A i \in DOMAIN tree.children : Truths[tree.children[i]][row] # {}
    PROVE  Picks(tree, row) # {}
<1> DEFINE pick == [i \in DOMAIN tree.children |-> CHOOSE v \in TruthValues : v \in Truths[tree.children[i]][row]]
<1>1. \A i \in DOMAIN tree.children : Truths[tree.children[i]][row] \subseteq TruthValues
  BY TruthsOf, Children
<1>2. \A i \in DOMAIN tree.children : pick[i] \in TruthValues /\ pick[i] \in Truths[tree.children[i]][row]
  BY <1>1
<1>3. pick \in Picks(tree, row)
  <2>1. pick \in [DOMAIN tree.children -> TruthValues]
    BY <1>2
  <2>2. QED
    BY <1>2, <2>1 DEF Picks
<1>4. QED
  BY <1>3

(* The translation of a tree is true of nothing that the tree does not     *)
(* describe, and of what it describes it is true or fails.                 *)
Sound(tree, row) ==
    /\ Truths[tree][row] # {}
    /\ "true" \in Truths[tree][row] => row \in Describes[tree]
    /\ row \in Describes[tree] => Truths[tree][row] \subseteq {"true", "error"}

LEMMA LeafSound ==
    ASSUME NEW tree \in Trees, Clean(tree), ~IsGroup(tree), NEW row \in Rows
    PROVE  Sound(tree, row)
<1>1. ValidCondition(tree.condition) /\ ~Garbled(tree.condition)
  BY OfItself DEF Clean, ValidNode
<1>2. Truths[tree][row] = {ConditionTruth(tree.condition, row)}
  BY TruthsOf
<1>3. row \in Describes[tree] <=> DescribedBy(tree.condition, row)
  BY DescribesOf
<1>4. QED
  BY <1>1, <1>2, <1>3, ConditionDescribes DEF Sound

LEMMA GroupSound ==
    ASSUME NEW tree \in Trees, Clean(tree), IsGroup(tree), NEW row \in Rows,
           \A i \in DOMAIN tree.children : Sound(tree.children[i], row)
    PROVE  Sound(tree, row)
<1> DEFINE values(p) == {p[i] : i \in DOMAIN p}
           D == DOMAIN tree.children
<1>1. tree.conj \in {"and", "or"}
  BY OfItself DEF Clean, ValidNode
<1>2. Picks(tree, row) # {}
  BY PicksExist DEF Sound
<1>3. \A p \in Picks(tree, row) :
         /\ DOMAIN p = D /\ values(p) \subseteq TruthValues
         /\ \A i \in D : p[i] \in Truths[tree.children[i]][row]
  BY DEF Picks
<1>4. Truths[tree][row] = UNION {Joined(tree.conj, values(p)) : p \in Picks(tree, row)}
  BY TruthsOf
<1>5. \A p \in Picks(tree, row), i \in D :
         /\ p[i] = "true" => row \in Describes[tree.children[i]]
         /\ row \in Describes[tree.children[i]] => p[i] \in {"true", "error"}
  BY <1>3 DEF Sound
<1>6. \A p \in Picks(tree, row), i \in D : p[i] \in values(p)
  BY <1>3
<1>7. \A p \in Picks(tree, row) : \A v \in values(p) : \E i \in D : v = p[i]
  BY <1>3
<1>8. CASE tree.conj = "and"
  <2>1. row \in Describes[tree] <=> \A i \in D : row \in Describes[tree.children[i]]
    BY <1>8, DescribesOf
  <2>2. ASSUME NEW p \in Picks(tree, row)
        PROVE  /\ Joined("and", values(p)) # {}
               /\ "true" \in Joined("and", values(p)) => row \in Describes[tree]
               /\ row \in Describes[tree] => Joined("and", values(p)) \subseteq {"true", "error"}
    <3>1. values(p) \subseteq TruthValues
      BY <1>3
    <3>2. values(p) \subseteq {"true"} => row \in Describes[tree]
      <4> HIDE DEF values
      <4>1. QED
        BY <1>5, <1>6, <2>1
    <3>3. row \in Describes[tree] => values(p) \subseteq {"true", "error"}
      <4> HIDE DEF values
      <4>1. QED
        BY <1>5, <1>7, <2>1
    <3> HIDE DEF values
    <3>4. QED
      BY <3>1, <3>2, <3>3, AndJoins
  <2> HIDE DEF values
  <2>3. QED
    BY <1>2, <1>4, <1>8, <2>2 DEF Sound
<1>9. CASE tree.conj = "or"
  <2>1. row \in Describes[tree] <=> \E i \in D : row \in Describes[tree.children[i]]
    BY <1>9, DescribesOf
  <2>2. ASSUME NEW p \in Picks(tree, row)
        PROVE  /\ Joined("or", values(p)) # {}
               /\ "true" \in Joined("or", values(p)) => row \in Describes[tree]
               /\ row \in Describes[tree] => Joined("or", values(p)) \subseteq {"true", "error"}
    <3>1. values(p) \subseteq TruthValues
      BY <1>3
    <3>2. "true" \in values(p) => row \in Describes[tree]
      <4> HIDE DEF values
      <4>1. QED
        BY <1>5, <1>7, <2>1
    <3>3. row \in Describes[tree] => values(p) \cap {"true", "error"} # {}
      <4> HIDE DEF values
      <4>1. QED
        BY <1>5, <1>6, <2>1
    <3> HIDE DEF values
    <3>4. QED
      BY <3>1, <3>2, <3>3, OrJoins
  <2> HIDE DEF values
  <2>3. QED
    BY <1>2, <1>4, <1>9, <2>2 DEF Sound
<1>10. QED
  BY <1>1, <1>8, <1>9

LEMMA TreesSound ==
    ASSUME NEW tree \in Trees, Clean(tree), NEW row \in Rows
    PROVE  Sound(tree, row)
<1> DEFINE G == {t \in Trees : Clean(t) => Sound(t, row)}
<1>1. ASSUME NEW t \in Trees, \A u \in Trees : Height[u] < Height[t] => u \in G
      PROVE  t \in G
  <2> SUFFICES ASSUME Clean(t) PROVE Sound(t, row)
    OBVIOUS
  <2>1. \A i \in DOMAIN t.children : Sound(t.children[i], row)
    BY <1>1, Children, CleanBelow
  <2>2. QED
    BY <2>1, LeafSound, GroupSound
<1>2. Trees \subseteq G
  <2>1. Height \in [Trees -> Nat]
    BY SegmentsAssumption
  <2> HIDE DEF G
  <2>2. QED
    BY <1>1, <2>1, InductionOnHeight
<1>3. QED
  BY <1>2

(* What fails is one of its conditions.                                    *)
LEMMA TreesFail ==
    ASSUME NEW tree \in Trees, NEW row \in Rows, "error" \in Truths[tree][row], Valid(tree)
    PROVE  \E c \in Conditions(tree) : NoNumber(c) \/ CastFails(c, row)
<1> DEFINE Blames(t) == \E c \in Conditions(t) : NoNumber(c) \/ CastFails(c, row)
           G == {t \in Trees : Valid(t) /\ "error" \in Truths[t][row] => Blames(t)}
<1>1. ASSUME NEW t \in Trees, \A u \in Trees : Height[u] < Height[t] => u \in G
      PROVE  t \in G
  <2> SUFFICES ASSUME Valid(t), "error" \in Truths[t][row] PROVE Blames(t)
    OBVIOUS
  <2>1. CASE ~IsGroup(t)
    <3>1. Truths[t][row] = {ConditionTruth(t.condition, row)}
      BY <2>1, TruthsOf
    <3>2. ConditionTruth(t.condition, row) = "error"
      BY <3>1
    <3>3. NoNumber(t.condition) \/ CastFails(t.condition, row)
      BY <3>2, ConditionFails
    <3>4. t.condition \in Conditions(t)
      BY <2>1, OfItself
    <3>5. QED
      BY <3>3, <3>4
  <2>2. CASE IsGroup(t)
    <3> DEFINE values(p) == {p[i] : i \in DOMAIN p}
    <3>0. Truths[t][row] = UNION {Joined(t.conj, values(p)) : p \in Picks(t, row)}
      BY <2>2, TruthsOf
    <3>1. PICK p \in Picks(t, row) : "error" \in Joined(t.conj, values(p))
      <4> HIDE DEF values
      <4>1. QED
        BY <3>0
    <3>2. values(p) \subseteq TruthValues /\ DOMAIN p = DOMAIN t.children
      BY DEF Picks
    <3>3. t.conj \in {"and", "or"}
      BY <2>2, OfItself DEF ValidNode
    <3>4. "error" \in values(p)
      <4> HIDE DEF values
      <4>1. QED
        BY <3>1, <3>2, <3>3, AndJoins, OrJoins
    <3>5. PICK i \in DOMAIN t.children : p[i] = "error"
      BY <3>2, <3>4
    <3>6. "error" \in Truths[t.children[i]][row]
      BY <3>2, <3>5 DEF Picks
    <3>7. Valid(t.children[i])
      BY PartsBelow DEF Valid
    <3>8. Blames(t.children[i])
      BY <1>1, <3>6, <3>7, Children
    <3>9. QED
      BY <3>8, ConditionsBelow
  <2>3. QED
    BY <2>1, <2>2
<1>2. Trees \subseteq G
  <2>1. Height \in [Trees -> Nat]
    BY SegmentsAssumption
  <2> HIDE DEF G
  <2>2. QED
    BY <1>1, <2>1, InductionOnHeight
<1>3. QED
  BY <1>2

-----------------------------------------------------------------------------
(* The pages of a query: ranks number the chosen from 0.                   *)
LEMMA ChosenFinite ==
    ASSUME NEW S, S \subseteq Subscribers
    PROVE  IsFiniteSet(S) /\ Cardinality(S) \in Nat
<1>1. IsFiniteSet(Subscribers)
  <2>1. 1 \in Int /\ NumSubscribers \in Int
    BY SegmentsAssumption
  <2>2. QED
    BY <2>1, FS_Interval DEF Subscribers
<1>2. IsFiniteSet(S)
  BY <1>1, FS_Subset
<1>3. QED
  BY <1>2, FS_CardinalityType

LEMMA RankOf ==
    ASSUME NEW S, S \subseteq Subscribers, NEW s \in S
    PROVE  Rank(s, S) \in Nat /\ Rank(s, S) < Cardinality(S)
<1> DEFINE before == {t \in S : t < s}
<1>1. before \subseteq Subscribers /\ s \in Nat /\ s \notin before
  BY SegmentsAssumption DEF Subscribers
<1>2. IsFiniteSet(before) /\ Cardinality(before) \in Nat /\ IsFiniteSet(S) /\ Cardinality(S) \in Nat
  BY <1>1, ChosenFinite
<1>3. Cardinality(before \cup {s}) = Cardinality(before) + 1
  BY <1>1, <1>2, FS_AddElement
<1>4. Cardinality(before \cup {s}) <= Cardinality(S)
  <2>1. before \cup {s} \in SUBSET S
    OBVIOUS
  <2>2. QED
    BY <1>2, <2>1, FS_Subset
<1>5. Rank(s, S) = Cardinality(before)
  BY DEF Rank
<1> HIDE DEF before
<1>6. QED
  BY <1>2, <1>3, <1>4, <1>5

LEMMA RankOrders ==
    ASSUME NEW S, S \subseteq Subscribers, NEW s \in S, NEW t \in S, s < t
    PROVE  Rank(s, S) < Rank(t, S)
<1> DEFINE before == {u \in S : u < t}
<1>1. before \subseteq Subscribers /\ s \in before
  OBVIOUS
<1>2. Rank(s, before) < Cardinality(before)
  BY <1>1, RankOf
<1>3. {u \in before : u < s} = {u \in S : u < s}
  <2>1. \A u \in S : u < s => u < t
    BY SegmentsAssumption DEF Subscribers
  <2>2. QED
    BY <2>1
<1>4. Rank(s, before) = Rank(s, S) /\ Cardinality(before) = Rank(t, S)
  BY <1>3 DEF Rank
<1>5. QED
  BY <1>2, <1>4

LEMMA RankFilled ==
    ASSUME NEW S, S \subseteq Subscribers, NEW n \in Nat, n < Cardinality(S)
    PROVE  \E s \in S : Rank(s, S) = n
<1> DEFINE rank == [s \in S |-> Rank(s, S)]
           T == 0 .. Cardinality(S) - 1
<1>1. IsFiniteSet(S) /\ Cardinality(S) \in Nat
  BY ChosenFinite
<1>2. rank \in [S -> T]
  <2>1. ASSUME NEW s \in S PROVE Rank(s, S) \in T
    <3>1. Rank(s, S) \in Nat /\ Rank(s, S) < Cardinality(S)
      BY RankOf
    <3>2. QED
      BY <1>1, <3>1
  <2>2. QED
    BY <2>1
<1>3. \A s, t \in S : rank[s] = rank[t] => s = t
  <2> SUFFICES ASSUME NEW s \in S, NEW t \in S, Rank(s, S) = Rank(t, S) PROVE s = t
    OBVIOUS
  <2>1. Rank(s, S) \in Nat /\ Rank(t, S) \in Nat /\ s \in Nat /\ t \in Nat
    BY RankOf, SegmentsAssumption DEF Subscribers
  <2>2. s < t => Rank(s, S) < Rank(t, S)
    BY RankOrders
  <2>3. t < s => Rank(t, S) < Rank(s, S)
    BY RankOrders
  <2>4. QED
    BY <2>1, <2>2, <2>3
<1>4. rank \in Injection(S, T)
  BY <1>2, <1>3 DEF Injection, IsInjective
<1>5. IsFiniteSet(T) /\ Cardinality(T) = Cardinality(S)
  <2>1. 0 \in Int /\ Cardinality(S) - 1 \in Int
    BY <1>1
  <2>2. IsFiniteSet(T) /\ Cardinality(T) = IF 0 > Cardinality(S) - 1 THEN 0 ELSE Cardinality(S) - 1 - 0 + 1
    BY <2>1, FS_Interval
  <2>3. QED
    BY <1>1, <2>2
<1>6. rank \in Surjection(S, T)
  BY <1>1, <1>4, <1>5, FS_Injection
<1>7. n \in T
  BY <1>1
<1>8. PICK s \in S : rank[s] = n
  BY <1>6, <1>7 DEF Surjection
<1>9. QED
  BY <1>8

-----------------------------------------------------------------------------
(* The invariant of a query.                                               *)
Queries ==
    [at : {"count", "page", "answered", "failed", "rejected"}, caller : {"count", "view", "roster"},
     tree : Trees, offset : Nat, total : Nat, found : [Subscribers -> Nat]]

Reading == asked.at \in {"count", "page"}
Plain == \A c \in Conditions(asked.tree) : ~Garbled(c)

(* The history brackets what the tree describes now.                       *)
HistoryBrackets ==
    Reading => /\ Valid(asked.tree)
               /\ always \subseteq Described(asked.tree, rows)
               /\ Described(asked.tree, rows) \subseteq ever

FoundWereDescribed ==
    Reading /\ Plain => \A s \in Subscribers : asked.found[s] > 0 => s \in ever

(* When what the tree describes has not changed, the pages so far hold its *)
(* first subscribers, each once.                                           *)
PagesInOrder ==
    Reading /\ Plain /\ ever = always =>
        /\ \A s \in Subscribers :
              asked.found[s] = IF s \in ever /\ Rank(s, ever) < asked.offset THEN 1 ELSE 0
        /\ asked.at = "page" => asked.total = Cardinality(ever)

(* A view reads one page and a count none.                                 *)
CallersRead ==
    Reading => /\ asked.caller = "view" => asked.offset = 0
               /\ asked.caller = "count" => asked.at = "count"

SegmentsInv ==
    /\ rows \in [Subscribers -> Rows]
    /\ asked \in Queries \/ asked = NoQuery
    /\ changed \in 0..MaxChanges
    /\ always \subseteq ever /\ ever \subseteq Subscribers
    /\ HistoryBrackets /\ FoundWereDescribed /\ PagesInOrder /\ CallersRead
    /\ SegmentSelectsExactly

LEMMA QueryFields ==
    ASSUME asked \in Queries
    PROVE  /\ asked.at \in {"count", "page", "answered", "failed", "rejected"}
           /\ asked.caller \in {"count", "view", "roster"} /\ asked.tree \in Trees
           /\ asked.offset \in Nat /\ asked.total \in Nat
           /\ asked.found \in [Subscribers -> Nat]
  BY DEF Queries

LEMMA ReadingQuery ==
    ASSUME SegmentsInv, asked.at \in {"count", "page", "answered", "failed", "rejected"}
    PROVE  asked \in Queries
  BY DEF SegmentsInv, NoQuery

(* What a statement selects is described, and it misses nothing that is    *)
(* described unless it must fail.                                          *)
LEMMA SelectsDescribed ==
    ASSUME SegmentsInv, Reading, Plain
    PROVE  /\ Selected(asked.tree) \subseteq Described(asked.tree, rows)
           /\ ~MustFail(asked.tree) => Selected(asked.tree) = Described(asked.tree, rows)
<1>1. asked.tree \in Trees /\ rows \in [Subscribers -> Rows]
  BY ReadingQuery, QueryFields DEF Reading, SegmentsInv
<1>2. Clean(asked.tree)
  BY DEF SegmentsInv, HistoryBrackets, Plain, Clean
<1>3. \A s \in Subscribers : Sound(asked.tree, rows[s])
  BY <1>1, <1>2, TreesSound
<1>4. Selected(asked.tree) \subseteq Described(asked.tree, rows)
  BY <1>3 DEF Selected, Described, Sound
<1>5. ASSUME ~MustFail(asked.tree), NEW s \in Described(asked.tree, rows)
      PROVE  s \in Selected(asked.tree)
  <2>1. s \in Subscribers /\ Truths[asked.tree][rows[s]] \subseteq {"true", "error"}
    BY <1>3, <1>5 DEF Described, Sound
  <2>2. Truths[asked.tree][rows[s]] # {"error"} /\ Truths[asked.tree][rows[s]] # {}
    BY <1>3, <1>5, <2>1 DEF MustFail, Sound
  <2>3. "true" \in Truths[asked.tree][rows[s]]
    BY <2>1, <2>2
  <2>4. QED
    BY <2>1, <2>3 DEF Selected
<1>6. QED
  BY <1>4, <1>5

(* With nothing changed it selects what was described throughout.          *)
LEMMA SelectsSteady ==
    ASSUME SegmentsInv, Reading, Plain, ~MustFail(asked.tree)
    PROVE  /\ Selected(asked.tree) \subseteq ever
           /\ ever = always => Selected(asked.tree) = ever
<1>1. Selected(asked.tree) = Described(asked.tree, rows)
  BY SelectsDescribed
<1>2. QED
  BY <1>1 DEF SegmentsInv, HistoryBrackets

LEMMA SegmentsInitInv == SegmentsInit => SegmentsInv
<1>1. 0 \in 0..MaxChanges
  BY SegmentsAssumption
<1>2. QED
  BY <1>1 DEF SegmentsInit, SegmentsInv, NoQuery, Reading, HistoryBrackets, FoundWereDescribed, PagesInOrder,
         CallersRead, SegmentSelectsExactly

LEMMA AskSegmentStep ==
    ASSUME SegmentsInv, NEW tree \in Trees, NEW caller \in {"count", "view", "roster"},
           AskSegment(tree, caller)
    PROVE  SegmentsInv'
<1> DEFINE begun == IF Valid(tree) THEN "count" ELSE "rejected"
<1>1. /\ asked' = [NewQuery(tree, caller) EXCEPT !.at = begun]
      /\ rows' = rows /\ changed' = changed /\ always' = ever'
      /\ ever' = IF Valid(tree) THEN Described(tree, rows) ELSE {}
  BY DEF AskSegment
<1>2. /\ asked' \in Queries
      /\ asked'.at = begun /\ asked'.caller = caller /\ asked'.tree = tree
      /\ asked'.offset = 0 /\ asked'.total = 0 /\ asked'.found = [s \in Subscribers |-> 0]
  BY <1>1 DEF NewQuery, Queries
<1>3. ever' \subseteq Subscribers
  BY <1>1 DEF Described
<1>4. HistoryBrackets'
  BY <1>1, <1>2 DEF HistoryBrackets, Reading, Described
<1>5. FoundWereDescribed' /\ CallersRead'
  BY <1>2 DEF FoundWereDescribed, CallersRead, Reading
<1>6. PagesInOrder'
  <2>1. \A s \in ever' : Rank(s, ever') \in Nat
    BY <1>3, RankOf
  <2>2. \A s \in ever' : ~(Rank(s, ever') < 0)
    BY <2>1
  <2>3. QED
    BY <1>2, <2>2 DEF PagesInOrder, Reading
<1>7. SegmentSelectsExactly'
  BY <1>2 DEF SegmentSelectsExactly
<1>8. /\ rows' \in [Subscribers -> Rows] /\ changed' \in 0..MaxChanges
      /\ asked' \in Queries /\ always' \subseteq ever' /\ ever' \subseteq Subscribers
  BY <1>1, <1>2, <1>3 DEF SegmentsInv
<1>9. QED
  BY <1>4, <1>5, <1>6, <1>7, <1>8 DEF SegmentsInv

(* A statement leaves the rows and the history alone; what the query asks  *)
(* stays.                                                                  *)
LEMMA CountSegmentStep == ASSUME SegmentsInv, CountSegment PROVE SegmentsInv'
<1> DEFINE next == IF asked.caller = "count" THEN "answered" ELSE "page"
           total == Cardinality(Selected(asked.tree))
<1>1. Reading /\ asked \in Queries /\ asked.at = "count"
  BY ReadingQuery DEF CountSegment, Reading
<1>2. /\ asked.caller \in {"count", "view", "roster"} /\ asked.tree \in Trees
      /\ asked.offset \in Nat /\ asked.found \in [Subscribers -> Nat]
  BY <1>1, QueryFields
<1>3. /\ asked' = [asked EXCEPT !.total = total, !.at = next] /\ ~MustFail(asked.tree)
      /\ rows' = rows /\ changed' = changed /\ ever' = ever /\ always' = always
  BY DEF CountSegment
<1>4. total \in Nat
  BY ChosenFinite DEF Selected
<1>5. /\ asked' \in Queries
      /\ asked'.at = next /\ asked'.caller = asked.caller /\ asked'.tree = asked.tree
      /\ asked'.offset = asked.offset /\ asked'.total = total /\ asked'.found = asked.found
  <2> HIDE DEF total
  <2>1. QED
    BY <1>1, <1>2, <1>3, <1>4 DEF Queries
<1>6. HistoryBrackets'
  BY <1>1, <1>3, <1>5 DEF SegmentsInv, HistoryBrackets, Described
<1>7. Plain' <=> Plain
  BY <1>5 DEF Plain, Conditions
<1>8. FoundWereDescribed'
  BY <1>1, <1>3, <1>5, <1>7 DEF SegmentsInv, FoundWereDescribed
<1>9. CallersRead'
  BY <1>1, <1>5 DEF SegmentsInv, CallersRead, Reading
<1>10. ASSUME Plain, ever = always
       PROVE  /\ total = Cardinality(ever)
              /\ \A s \in Subscribers :
                    asked.found[s] = IF s \in ever /\ Rank(s, ever) < asked.offset THEN 1 ELSE 0
  BY <1>1, <1>3, <1>10, SelectsSteady DEF SegmentsInv, PagesInOrder
<1>11. PagesInOrder'
  <2> HIDE DEF total
  <2>1. QED
    BY <1>3, <1>5, <1>7, <1>10 DEF PagesInOrder
<1>12. SegmentSelectsExactly'
  <2> HIDE DEF total
  <2>1. ASSUME Plain, asked'.at = "answered"
        PROVE  /\ {s \in Subscribers : asked.found[s] > 0} \subseteq ever
               /\ asked.caller = "count"
               /\ ever = always => total = Cardinality(ever) /\ \A s \in Subscribers : asked.found[s] <= 1
    <3>1. asked.caller = "count"
      BY <1>5, <2>1
    <3>2. {s \in Subscribers : asked.found[s] > 0} \subseteq ever
      BY <1>1, <2>1 DEF SegmentsInv, FoundWereDescribed
    <3>3. ever = always => total = Cardinality(ever) /\ \A s \in Subscribers : asked.found[s] <= 1
      BY <1>10, <2>1
    <3>4. QED
      BY <3>1, <3>2, <3>3
  <2>2. asked'.at # "failed"
    BY <1>5
  <2>3. (\A c \in Conditions(asked'.tree) : ~Garbled(c)) <=> Plain
    BY <1>5 DEF Plain
  <2>4. QED
    BY <1>3, <1>5, <2>1, <2>2, <2>3 DEF SegmentSelectsExactly
<1>13. QED
  BY <1>3, <1>5, <1>6, <1>8, <1>9, <1>11, <1>12 DEF SegmentsInv

(* A page takes the next ranks.                                            *)
LEMMA RunSegmentStep == ASSUME SegmentsInv, RunSegment PROVE SegmentsInv'
<1> DEFINE chosen == Selected(asked.tree)
           next == asked.offset + PageSize
           page == {s \in chosen : asked.offset <= Rank(s, chosen) /\ Rank(s, chosen) < next}
           done == asked.caller = "view" \/ next >= asked.total \/ page = {}
           found == [s \in Subscribers |-> asked.found[s] + IF s \in page THEN 1 ELSE 0]
           offset == IF done THEN asked.offset ELSE next
           at == IF done THEN "answered" ELSE "count"
<1>1. Reading /\ asked \in Queries /\ asked.at = "page"
  BY ReadingQuery DEF RunSegment, Reading
<1>2. /\ asked.caller \in {"view", "roster"} /\ asked.tree \in Trees
      /\ asked.offset \in Nat /\ asked.total \in Nat /\ asked.found \in [Subscribers -> Nat]
      /\ asked.caller = "view" => asked.offset = 0
      /\ PageSize \in Nat \ {0} /\ next \in Nat /\ asked.offset < next
  BY <1>1, QueryFields, SegmentsAssumption DEF SegmentsInv, CallersRead
<1>3. /\ asked' = [asked EXCEPT !.found = found, !.offset = offset, !.at = at] /\ ~MustFail(asked.tree)
      /\ rows' = rows /\ changed' = changed /\ ever' = ever /\ always' = always
  BY <1>1, <1>2 DEF RunSegment
<1>4. found \in [Subscribers -> Nat] /\ \A s \in Subscribers : found[s] = asked.found[s] + IF s \in page THEN 1 ELSE 0
  <2> HIDE DEF page
  <2>1. QED
    BY <1>2
<1> HIDE DEF found
<1>5. /\ asked' \in Queries
      /\ asked'.at = at /\ asked'.caller = asked.caller /\ asked'.tree = asked.tree
      /\ asked'.offset = offset /\ asked'.total = asked.total /\ asked'.found = found
  <2> HIDE DEF page, next
  <2>1. QED
    BY <1>1, <1>2, <1>3, <1>4 DEF Queries
<1>6. HistoryBrackets'
  <2> HIDE DEF at
  <2>1. QED
    BY <1>1, <1>3, <1>5 DEF SegmentsInv, HistoryBrackets, Described
<1>7. (\A c \in Conditions(asked'.tree) : ~Garbled(c)) <=> Plain
  BY <1>5 DEF Plain
<1>8. page \subseteq chosen /\ chosen \subseteq Subscribers /\ ever \subseteq Subscribers
  BY DEF Selected, SegmentsInv
<1>9. ASSUME Plain, NEW s \in Subscribers, found[s] > 0 PROVE s \in ever
  <2>1. CASE s \in page
    BY <1>1, <1>3, <1>8, <1>9, <2>1, SelectsSteady
  <2>2. CASE s \notin page
    <3>1. asked.found[s] > 0
      <4> HIDE DEF page
      <4>1. QED
        BY <1>2, <1>4, <1>9, <2>2
    <3>2. QED
      BY <1>1, <1>9, <3>1 DEF SegmentsInv, FoundWereDescribed
  <2>3. QED
    BY <2>1, <2>2
<1>10. CallersRead'
  <2> HIDE DEF page, next
  <2>1. QED
    BY <1>2, <1>5 DEF CallersRead, Reading
(* With nothing changed: what has been found once the page is read.        *)
<1>11. ASSUME Plain, ever = always
       PROVE  /\ chosen = ever /\ asked.total = Cardinality(ever)
              /\ \A s \in Subscribers : found[s] = IF s \in ever /\ Rank(s, ever) < next THEN 1 ELSE 0
  <2>1. chosen = ever
    BY <1>1, <1>3, <1>11, SelectsSteady
  <2>2. /\ asked.total = Cardinality(ever)
        /\ \A s \in Subscribers :
              asked.found[s] = IF s \in ever /\ Rank(s, ever) < asked.offset THEN 1 ELSE 0
    BY <1>1, <1>11 DEF SegmentsInv, PagesInOrder
  <2>3. ASSUME NEW s \in Subscribers
        PROVE  found[s] = IF s \in ever /\ Rank(s, ever) < next THEN 1 ELSE 0
    <3>1. s \in ever => Rank(s, ever) \in Nat
      BY <1>8, RankOf
    <3>2. s \in page <=> s \in ever /\ asked.offset <= Rank(s, ever) /\ Rank(s, ever) < next
      BY <2>1
    <3>3. found[s] = asked.found[s] + IF s \in page THEN 1 ELSE 0
      BY <1>4
    <3> HIDE DEF page, next
    <3>4. QED
      BY <1>2, <2>2, <3>1, <3>2, <3>3
  <2>4. QED
    BY <2>1, <2>2, <2>3
<1>12. FoundWereDescribed'
  <2> HIDE DEF at, page, next
  <2>1. QED
    BY <1>3, <1>5, <1>7, <1>9 DEF FoundWereDescribed, Plain
<1>13. PagesInOrder'
  <2>1. at # "page"
    <3> HIDE DEF page, next, done
    <3>1. QED
      OBVIOUS
  <2>2. asked'.at \in {"count", "page"} => offset = next
    <3> HIDE DEF page, next, done
    <3>1. QED
      BY <1>5
  <2> HIDE DEF at, page, next, offset
  <2>3. QED
    BY <1>3, <1>5, <1>7, <1>11, <2>1, <2>2 DEF PagesInOrder, Plain, Reading
(* A roster stops when every rank has been read.                           *)
<1>14. ASSUME Plain, ever = always, done, asked.caller = "roster", NEW s \in ever
       PROVE  Rank(s, ever) < next
  <2>1. Rank(s, ever) \in Nat /\ Cardinality(ever) \in Nat /\ Rank(s, ever) < Cardinality(ever)
    BY <1>8, RankOf, ChosenFinite
  <2>2. CASE next >= asked.total
    <3>1. asked.total = Cardinality(ever)
      BY <1>11, <1>14
    <3> HIDE DEF page, next
    <3>2. QED
      BY <1>2, <2>1, <2>2, <3>1
  <2>3. CASE page = {}
    <3>1. ~(asked.offset < Cardinality(ever))
      <4> SUFFICES ASSUME asked.offset < Cardinality(ever) PROVE FALSE
        OBVIOUS
      <4>1. PICK t \in ever : Rank(t, ever) = asked.offset
        BY <1>2, <1>8, RankFilled
      <4>2. chosen = ever
        BY <1>11, <1>14
      <4>3. t \in page
        BY <1>2, <4>1, <4>2
      <4>4. QED
        BY <2>3, <4>3
    <3> HIDE DEF page, next
    <3>2. QED
      BY <1>2, <2>1, <3>1
  <2>4. QED
    BY <1>14, <2>2, <2>3
<1>15. SegmentSelectsExactly'
  <2>1. ASSUME Plain, asked'.at = "answered"
        PROVE  /\ {s \in Subscribers : found[s] > 0} \subseteq ever
               /\ ever = always =>
                     /\ asked.total = Cardinality(ever)
                     /\ asked.caller = "roster" => {s \in Subscribers : found[s] > 0} = ever
                     /\ asked.caller = "view" =>
                           {s \in Subscribers : found[s] > 0} = {s \in ever : Rank(s, ever) < PageSize}
                     /\ \A s \in Subscribers : found[s] <= 1
    <3>1. done
      <4> HIDE DEF done
      <4>1. QED
        BY <1>5, <2>1
    <3>2. {s \in Subscribers : found[s] > 0} \subseteq ever
      BY <1>9, <2>1
    <3>3. ASSUME ever = always
          PROVE  /\ asked.total = Cardinality(ever)
                 /\ {s \in Subscribers : found[s] > 0} = {s \in ever : Rank(s, ever) < next}
                 /\ \A s \in Subscribers : found[s] <= 1
      <4>1. \A s \in Subscribers : found[s] = IF s \in ever /\ Rank(s, ever) < next THEN 1 ELSE 0
        BY <1>11, <2>1, <3>3
      <4> HIDE DEF next, page
      <4>2. {s \in Subscribers : found[s] > 0} = {s \in ever : Rank(s, ever) < next}
        BY <1>8, <4>1
      <4>3. QED
        BY <1>11, <2>1, <3>3, <4>1, <4>2
    <3>4. ever = always /\ asked.caller = "roster" => {s \in ever : Rank(s, ever) < next} = ever
      BY <1>14, <2>1, <3>1
    <3>5. asked.caller = "view" => next = PageSize
      BY <1>2
    <3> HIDE DEF next, page, done
    <3>6. QED
      BY <3>2, <3>3, <3>4, <3>5
  <2>2. asked'.at # "failed" /\ asked.caller # "count"
    <3> HIDE DEF done
    <3>1. QED
      BY <1>2, <1>5
  <2> HIDE DEF at, page, next, offset
  <2>3. QED
    BY <1>3, <1>5, <1>7, <2>1, <2>2 DEF SegmentSelectsExactly
<1>16. QED
  BY <1>3, <1>5, <1>6, <1>8, <1>10, <1>12, <1>13, <1>15 DEF SegmentsInv

LEMMA FailSegmentStep == ASSUME SegmentsInv, FailSegment PROVE SegmentsInv'
<1>1. Reading /\ asked \in Queries
  BY ReadingQuery DEF FailSegment, Reading
<1>2. asked' = [asked EXCEPT !.at = "failed"] /\ rows' = rows /\ changed' = changed /\ ever' = ever /\ always' = always
  BY DEF FailSegment
<1>3. asked' \in Queries /\ asked'.at = "failed" /\ asked'.tree = asked.tree
  BY <1>1, <1>2 DEF Queries
<1>4. ~Reading'
  BY <1>3 DEF Reading
<1>5. asked.tree \in Trees /\ Valid(asked.tree) /\ rows \in [Subscribers -> Rows]
  BY <1>1, QueryFields DEF SegmentsInv, HistoryBrackets
<1>6. PICK s \in Subscribers : "error" \in Truths[asked.tree][rows[s]]
  BY DEF FailSegment, MayFail
<1>7. \E c \in Conditions(asked.tree) : NoNumber(c) \/ CastFails(c, rows[s])
  BY <1>5, <1>6, TreesFail
<1>8. SegmentSelectsExactly'
  BY <1>2, <1>3, <1>7 DEF SegmentSelectsExactly
<1>9. QED
  BY <1>2, <1>3, <1>4, <1>8
     DEF SegmentsInv, HistoryBrackets, FoundWereDescribed, PagesInOrder, CallersRead

LEMMA ChangeSubscriberStep ==
    ASSUME SegmentsInv, NEW s \in Subscribers, NEW row \in Rows, ChangeSubscriber(s, row)
    PROVE  SegmentsInv'
<1>1. Reading /\ asked' = asked /\ rows' = [rows EXCEPT ![s] = row]
  BY DEF ChangeSubscriber, Reading
<1>2. /\ ever' = ever \cup Described(asked.tree, rows')
      /\ always' = always \cap Described(asked.tree, rows')
  BY DEF ChangeSubscriber
<1>3. Described(asked.tree, rows') \subseteq Subscribers
  BY DEF Described
<1>4. /\ always \subseteq ever /\ ever \subseteq Subscribers
      /\ always' \subseteq ever' /\ ever' \subseteq Subscribers
      /\ ever \subseteq ever' /\ (ever' = always' => ever' = ever /\ ever = always)
  BY <1>2, <1>3 DEF SegmentsInv
<1>5. rows' \in [Subscribers -> Rows] /\ changed' \in 0..MaxChanges
  BY <1>1, SegmentsAssumption DEF SegmentsInv, ChangeSubscriber
<1>6. HistoryBrackets'
  BY <1>1, <1>2 DEF SegmentsInv, HistoryBrackets, Described
<1>7. Plain' <=> Plain
  BY <1>1 DEF Plain, Conditions
<1>8. FoundWereDescribed'
  BY <1>1, <1>4, <1>7 DEF SegmentsInv, FoundWereDescribed
<1>9. PagesInOrder'
  BY <1>1, <1>4, <1>7 DEF SegmentsInv, PagesInOrder
<1>10. CallersRead'
  BY <1>1 DEF SegmentsInv, CallersRead, Reading
<1>11. SegmentSelectsExactly'
  BY <1>1 DEF SegmentSelectsExactly, Reading
<1>12. QED
  BY <1>1, <1>4, <1>5, <1>6, <1>8, <1>9, <1>10, <1>11 DEF SegmentsInv

LEMMA SegmentsStays == ASSUME SegmentsInv, UNCHANGED segmentVars PROVE SegmentsInv'
  BY DEF segmentVars, SegmentsInv, HistoryBrackets, FoundWereDescribed, PagesInOrder, CallersRead, Reading,
         Plain, SegmentSelectsExactly

LEMMA SegmentsStep == SegmentsInv /\ [SegmentsNext]_segmentVars => SegmentsInv'
<1> SUFFICES ASSUME SegmentsInv, [SegmentsNext]_segmentVars PROVE SegmentsInv'
  OBVIOUS
<1>1. CASE \E tree \in Trees, caller \in {"count", "view", "roster"} : AskSegment(tree, caller)
  BY <1>1, AskSegmentStep
<1>2. CASE CountSegment
  BY <1>2, CountSegmentStep
<1>3. CASE RunSegment
  BY <1>3, RunSegmentStep
<1>4. CASE FailSegment
  BY <1>4, FailSegmentStep
<1>5. CASE \E s \in Subscribers, row \in Rows : ChangeSubscriber(s, row)
  BY <1>5, ChangeSubscriberStep
<1>6. CASE UNCHANGED segmentVars
  BY <1>6, SegmentsStays
<1>7. QED
  BY <1>1, <1>2, <1>3, <1>4, <1>5, <1>6 DEF SegmentsNext

(* Every reachable state of a query satisfies its invariant.               *)
THEOREM SegmentsInvariant == SegmentsSpec => []SegmentsInv
  BY SegmentsInitInv, SegmentsStep, PTL DEF SegmentsSpec

(* The types are part of it.                                               *)
THEOREM SegmentsTypes == SegmentsSpec => []SegmentsTypeOK
<1>1. SegmentsInv => SegmentsTypeOK
  BY DEF SegmentsInv, SegmentsTypeOK, Queries, NoQuery
<1>2. QED
  BY <1>1, SegmentsInvariant, PTL

(* FR-016, SC-006: a query selects exactly what its tree describes, for    *)
(* any tree, any rows and any pages, and fails only on what is no number.  *)
THEOREM SegmentsSelectExactly == SegmentsSpec => []SegmentSelectsExactly
<1>1. SegmentsInv => SegmentSelectsExactly
  BY DEF SegmentsInv
<1>2. QED
  BY <1>1, SegmentsInvariant, PTL

-----------------------------------------------------------------------------
(* MergeTags: any documents, nested to any depth, any slugs and any number *)
(* of edits.                                                               *)

(* A placeholder that a validation has seen names a field of the platform  *)
(* or one that has been defined, however the registry has changed since.   *)
CheckedTagsKnown ==
    \A tag \in Placeholders(body.blocks) \ unchecked : ValidMergeTag(tag, Builtins \cup defined)

(* A save in progress validates against fields that have been defined.     *)
SlugsDefined == editing.pc = "saving" => editing.slugs \subseteq Builtins \cup defined

BodyTyped == body = [blocks |-> body.blocks, visual |-> body.visual]

TagsInv == TagsTypeOK /\ BodyTyped /\ CheckedTagsKnown /\ SlugsDefined

LEMMA FreshBodies ==
    ASSUME NEW blocks
    PROVE  /\ Coded(blocks).blocks = blocks /\ Rendered(blocks).blocks = blocks
           /\ Coded(blocks).visual = FALSE /\ Rendered(blocks).visual = TRUE
  BY DEF Coded, Rendered

LEMMA MailTyped ==
    ASSUME NEW tag, NEW tenantName \in {"value", "blank"}
    PROVE  Substituted(tag, tenantName) \in {"value", "blank", "literal"}
  BY DEF Substituted, ResolveSubscriber, ResolveCampaign

(* An empty document has nothing at any depth.                             *)
LEMMA EmptyDocument == Placeholders({}) = {}
<1> DEFINE next(f, depth) == IF depth = 0 THEN {} ELSE UNION {b.blocks : b \in Containers(f[depth - 1])}
           Solves(f) == f = [depth \in 0 .. MaxDepth |-> next(f, depth)]
           level == CHOOSE f : Solves(f)
<1>1. MaxDepth \in Nat
  BY TagsAssumption
<1>2. Solves([depth \in 0 .. MaxDepth |-> {}])
  <2> DEFINE none == [depth \in 0 .. MaxDepth |-> {}]
  <2>1. \A depth \in 0 .. MaxDepth : depth # 0 => none[depth - 1] = {}
    BY <1>1
  <2>2. \A depth \in 0 .. MaxDepth : next(none, depth) = {}
    BY <2>1 DEF Containers
  <2>3. QED
    BY <2>2
<1>3. Solves(level)
  <2> HIDE DEF Solves
  <2>1. QED
    BY <1>2
<1>4. \A depth \in 0 .. MaxDepth : level[depth] = {}
  <2> DEFINE G == {n \in Nat : n \in 0 .. MaxDepth => level[n] = {}}
  <2> HIDE DEF level
  <2>1. \A depth \in 0 .. MaxDepth : level[depth] = next(level, depth)
    BY <1>3
  <2>2. 0 \in G
    BY <1>1, <2>1
  <2>3. ASSUME NEW n \in Nat, n \in G PROVE n + 1 \in G
    <3>1. CASE n + 1 \in 0 .. MaxDepth
      <4>1. n \in 0 .. MaxDepth /\ (n + 1) - 1 = n /\ n + 1 # 0
        BY <1>1, <3>1
      <4>2. level[(n + 1) - 1] = {}
        BY <2>3, <4>1
      <4>3. next(level, n + 1) = {}
        BY <4>1, <4>2 DEF Containers
      <4>4. level[n + 1] = {}
        <5> HIDE DEF next
        <5>1. QED
          BY <2>1, <3>1, <4>3
      <4>5. QED
        BY <4>4
    <3>2. QED
      BY <3>1
  <2>4. Nat \subseteq G
    <3> HIDE DEF G
    <3>1. QED
      BY <2>2, <2>3, InductionOnNat
  <2>5. QED
    BY <1>1, <2>4
<1>5. Levels({}) = level
  BY DEF Levels
<1>6. Within({}) = {}
  <2> HIDE DEF level
  <2>1. QED
    BY <1>4, <1>5 DEF Within
<1>7. QED
  BY <1>6 DEF Placeholders

LEMMA TagsInitInv == TagsInit => TagsInv
<1> SUFFICES ASSUME TagsInit PROVE TagsInv
  OBVIOUS
<1>1. TagsTypeOK
  <2>1. 0 \in 0..MaxEdits
    BY TagsAssumption
  <2>2. attributes \in [CustomSlugs -> {"absent", "null", "value"}] /\ DOMAIN mail = {}
    BY DEF TagsInit, NoMail
  <2>3. body.visual = FALSE /\ unchecked = {} /\ editing.pc = "idle"
    BY FreshBodies DEF TagsInit, Idle
  <2>4. QED
    BY <2>1, <2>2, <2>3 DEF TagsInit, TagsTypeOK
<1>2. BodyTyped
  BY DEF TagsInit, BodyTyped, Coded
<1>3. QED
  BY <1>1, <1>2, EmptyDocument, FreshBodies DEF TagsInit, TagsInv, CheckedTagsKnown, SlugsDefined, Idle

LEMMA TagsGrow ==
    ASSUME NEW tag, NEW slugs, NEW more, slugs \subseteq more, ValidMergeTag(tag, slugs)
    PROVE  ValidMergeTag(tag, more)
  BY DEF ValidMergeTag

(* What a validation has accepted.                                         *)
LEMMA ChipsAreValid ==
    ASSUME NEW blocks, NEW slugs, ValidDocument(blocks, slugs), NEW tag \in Chips(blocks)
    PROVE  ValidMergeTag(tag, slugs)
<1>1. PICK b \in Within(blocks) : b.kind = "prose" /\ \E i \in b.inlines : i.chip /\ i.tag = tag
  BY DEF Chips
<1>2. PICK i \in b.inlines : i.chip /\ i.tag = tag
  BY <1>1
<1>3. QED
  BY <1>1, <1>2 DEF ValidDocument, ValidInline

(* Steps that leave the body's placeholders alone.                         *)
LEMMA BodyStays ==
    ASSUME TagsInv, defined \subseteq defined', Placeholders(body.blocks)' = Placeholders(body.blocks), unchecked' = unchecked
    PROVE  CheckedTagsKnown'
<1>1. Builtins \cup defined \subseteq (Builtins \cup defined)'
  BY DEF Builtins
<1>2. \A tag \in Placeholders(body.blocks) \ unchecked : ValidMergeTag(tag, (Builtins \cup defined)')
  BY <1>1, TagsGrow DEF TagsInv, CheckedTagsKnown
<1>3. QED
  BY <1>2 DEF CheckedTagsKnown, ValidMergeTag, Builtins, AllowedCampaignMergeTags

LEMMA EditsTyped == ASSUME TagsTypeOK, Edit PROVE edits' \in 0..MaxEdits
  BY TagsAssumption DEF TagsTypeOK, Edit

LEMMA TagsStep == TagsInv /\ [TagsNext]_tagVars => TagsInv'
<1> SUFFICES ASSUME TagsInv, [TagsNext]_tagVars PROVE TagsInv'
  OBVIOUS
<1>0. TagsTypeOK /\ BodyTyped /\ CheckedTagsKnown /\ SlugsDefined
  BY DEF TagsInv
<1>1. ASSUME NEW slug \in CustomSlugs, DefineField(slug) \/ ForgetField(slug) PROVE TagsInv'
  <2>1. TagsTypeOK'
    BY <1>0, <1>1, EditsTyped DEF DefineField, ForgetField, TagsTypeOK
  <2>2. CheckedTagsKnown'
    BY <1>1, BodyStays DEF DefineField, ForgetField
  <2>3. QED
    BY <1>0, <1>1, <2>1, <2>2 DEF TagsInv, DefineField, ForgetField, BodyTyped, SlugsDefined
<1>2. ASSUME NEW slug \in CustomSlugs, NEW value \in {"absent", "null", "value"}, SetAttribute(slug, value)
      PROVE  TagsInv'
  <2>1. TagsTypeOK'
    BY <1>0, <1>2, EditsTyped DEF SetAttribute, TagsTypeOK
  <2>2. CheckedTagsKnown'
    BY <1>2, BodyStays DEF SetAttribute
  <2>3. QED
    BY <1>0, <1>2, <2>1, <2>2 DEF TagsInv, SetAttribute, BodyTyped, SlugsDefined
<1>3. ASSUME NEW blocks \in CodeBodies, SaveCode(blocks) PROVE TagsInv'
  <2>1. body' = [blocks |-> blocks, visual |-> body.visual]
    BY <1>0, <1>3 DEF SaveCode, BodyTyped
  <2>2. body'.blocks = blocks /\ body'.visual = body.visual /\ BodyTyped'
    BY <2>1 DEF BodyTyped
  <2>3. TagsTypeOK'
    BY <1>0, <1>3, <2>2, EditsTyped DEF SaveCode, TagsTypeOK
  <2>4. CheckedTagsKnown'
    BY <1>3, <2>2 DEF SaveCode, CheckedTagsKnown
  <2>5. QED
    BY <1>0, <1>3, <2>2, <2>3, <2>4 DEF TagsInv, SaveCode, SlugsDefined
<1>4. ASSUME NEW document, ConvertToVisual(document) \/ BeginVisualSave(document) PROVE TagsInv'
  <2>1. TagsTypeOK'
    BY <1>0, <1>4, EditsTyped DEF ConvertToVisual, BeginVisualSave, TagsTypeOK
  <2>2. CheckedTagsKnown'
    BY <1>4, BodyStays DEF ConvertToVisual, BeginVisualSave
  <2>3. SlugsDefined'
    BY <1>0, <1>4 DEF ConvertToVisual, BeginVisualSave, SlugsDefined, TagsTypeOK
  <2>4. QED
    BY <1>0, <1>4, <2>1, <2>2, <2>3 DEF TagsInv, ConvertToVisual, BeginVisualSave, BodyTyped
<1>5. CASE EndVisualSave
  <2>1. body'.blocks = editing.document /\ body'.visual = TRUE /\ BodyTyped' /\ defined' = defined
    BY <1>5, FreshBodies DEF EndVisualSave, BodyTyped, Rendered
  <2>2. TagsTypeOK'
    BY <1>0, <1>5, <2>1 DEF EndVisualSave, TagsTypeOK, Idle
  <2>3. ASSUME NEW tag \in Chips(editing.document) PROVE ValidMergeTag(tag, Builtins \cup defined)
    BY <1>0, <1>5, ChipsAreValid, TagsGrow DEF EndVisualSave, SlugsDefined
  <2>4. CheckedTagsKnown'
    BY <1>5, <2>1, <2>3 DEF EndVisualSave, CheckedTagsKnown
  <2>5. QED
    BY <1>5, <2>1, <2>2, <2>4 DEF TagsInv, EndVisualSave, SlugsDefined, Idle
<1>6. CASE VisualSaveFails \/ UNCHANGED tagVars
  <2>1. TagsTypeOK'
    BY <1>0, <1>6 DEF VisualSaveFails, tagVars, TagsTypeOK, Idle
  <2>2. CheckedTagsKnown'
    BY <1>6, BodyStays DEF VisualSaveFails, tagVars
  <2>3. QED
    BY <1>0, <1>6, <2>1, <2>2 DEF TagsInv, VisualSaveFails, tagVars, BodyTyped, SlugsDefined, Idle
<1>7. CASE OptOut
  <2>1. body' = [blocks |-> body.blocks, visual |-> FALSE]
    BY <1>0, <1>7 DEF OptOut, BodyTyped
  <2>2. body'.blocks = body.blocks /\ body'.visual = FALSE /\ BodyTyped'
    BY <2>1 DEF BodyTyped
  <2>3. TagsTypeOK'
    BY <1>0, <1>7, <2>2 DEF OptOut, TagsTypeOK
  <2>4. CheckedTagsKnown'
    BY <1>7, <2>2, BodyStays DEF OptOut
  <2>5. QED
    BY <1>0, <1>7, <2>2, <2>3, <2>4 DEF TagsInv, OptOut, SlugsDefined
<1>8. ASSUME NEW tenantName \in {"value", "blank"}, SendOne(tenantName) PROVE TagsInv'
  <2>1. DOMAIN mail' = Placeholders(body.blocks)
        /\ \A tag \in DOMAIN mail' : mail'[tag] = Substituted(tag, tenantName)
    BY <1>8 DEF SendOne
  <2>2. TagsTypeOK'
    BY <1>0, <1>8, <2>1, MailTyped DEF SendOne, TagsTypeOK
  <2>3. CheckedTagsKnown'
    BY <1>8, BodyStays DEF SendOne
  <2>4. QED
    BY <1>0, <1>8, <2>2, <2>3 DEF TagsInv, SendOne, BodyTyped, SlugsDefined
<1>9. CASE SendUnresolved
  <2>1. TagsTypeOK'
    BY <1>0, <1>9 DEF SendUnresolved, TagsTypeOK, NoMail
  <2>2. CheckedTagsKnown'
    BY <1>9, BodyStays DEF SendUnresolved
  <2>3. QED
    BY <1>0, <1>9, <2>1, <2>2 DEF TagsInv, SendUnresolved, BodyTyped, SlugsDefined
<1>10. QED
  BY <1>1, <1>2, <1>3, <1>4, <1>5, <1>6, <1>7, <1>8, <1>9 DEF TagsNext

(* Every reachable state of fields, bodies and mails satisfies it.         *)
THEOREM TagsInvariant == TagsSpec => []TagsInv
  BY TagsInitInv, TagsStep, PTL DEF TagsSpec

(* FR-016c: a placeholder that a validation has seen resolves, for any     *)
(* document, however deep, and whatever happens to the fields meanwhile,   *)
(* unless the recipient has no value for its custom field.                 *)
THEOREM CheckedTagsAlwaysResolve == TagsSpec => CheckedTagsResolve
<1>1. TagsInv => (\A tag \in DOMAIN mail', tenantName \in {"value", "blank"} : SendOne(tenantName) =>
          /\ mail'[tag] = "literal" =>
                \/ tag \in unchecked
                \/ /\ tag.namespace = "subscriber" /\ tag.key \in defined
                   /\ attributes[tag.key] = "absent"
          /\ mail'[tag] = "blank" =>
                \/ tag.key \in {"preference_url", "tenant_name"}
                \/ tag.key \in CustomSlugs /\ attributes[tag.key] = "null")
  <2> SUFFICES ASSUME TagsInv, NEW tag \in DOMAIN mail', NEW tenantName \in {"value", "blank"},
                      SendOne(tenantName)
               PROVE  /\ mail'[tag] = "literal" =>
                            \/ tag \in unchecked
                            \/ /\ tag.namespace = "subscriber" /\ tag.key \in defined
                               /\ attributes[tag.key] = "absent"
                      /\ mail'[tag] = "blank" =>
                            \/ tag.key \in {"preference_url", "tenant_name"}
                            \/ tag.key \in CustomSlugs /\ attributes[tag.key] = "null"
    OBVIOUS
  <2>1. tag \in Placeholders(body.blocks) /\ mail'[tag] = Substituted(tag, tenantName)
    BY DEF SendOne
  <2>2. tag \in unchecked \/ ValidMergeTag(tag, Builtins \cup defined)
    BY <2>1 DEF TagsInv, CheckedTagsKnown
  <2>3. CASE tag.namespace = "subscriber"
    <3>1. mail'[tag] = ResolveSubscriber(tag.key)
      BY <2>1, <2>3 DEF Substituted
    <3>2. CASE mail'[tag] = "literal"
      <4>1. tag.key \notin Builtins /\ Attribute(tag.key) = "absent"
        BY <3>1, <3>2 DEF ResolveSubscriber
      <4>2. QED
        BY <2>2, <2>3, <3>2, <4>1 DEF ValidMergeTag, Attribute, TagsInv, TagsTypeOK
    <3>3. CASE mail'[tag] = "blank"
      <4>1. Attribute(tag.key) = "null"
        BY <3>1, <3>3 DEF ResolveSubscriber
      <4>2. QED
        BY <3>3, <4>1 DEF Attribute
    <3>4. QED
      BY <3>2, <3>3
  <2>4. CASE tag.namespace = "campaign"
    <3>1. mail'[tag] = ResolveCampaign(tag.key, tenantName)
      BY <2>1, <2>4 DEF Substituted
    <3>2. mail'[tag] = "literal" => tag.key \notin AllowedCampaignMergeTags
      BY <3>1 DEF ResolveCampaign, AllowedCampaignMergeTags
    <3>3. mail'[tag] = "blank" => tag.key \in {"preference_url", "tenant_name"}
      BY <3>1 DEF ResolveCampaign
    <3>4. QED
      BY <2>2, <2>4, <3>2, <3>3 DEF ValidMergeTag
  <2>5. CASE tag.namespace \notin {"subscriber", "campaign"}
    BY <2>1, <2>2, <2>5 DEF Substituted, ValidMergeTag
  <2>6. QED
    BY <2>3, <2>4, <2>5
<1>2. QED
  BY <1>1, TagsInvariant, PTL DEF CheckedTagsResolve

-----------------------------------------------------------------------------
(* DomainVerification: any domains, any number of rechecks and faults.     *)

(* A status is one that the evidence bears: of the provider, or of time.   *)
Grounded(d, status) ==
    /\ status = "verified" => published[d]
    /\ status = "failed" => windowOver[d]

(* However polls overlap, a domain is verified only on published records   *)
(* and failed only after its window.                                       *)
DecisionsGrounded == \A d \in SendingDomains : Grounded(d, domainRow[d])

(* A domain that is registered or polled has a row, and what its polls     *)
(* have learnt and read stays grounded until they write.                   *)
PollGrounded(d, p) ==
    /\ p.at # "none" => domainRow[d] # "absent"
    /\ p.verified => published[d]
    /\ p.late => windowOver[d]
    /\ p.at = "read" => p.seen # "absent" /\ Grounded(d, p.seen)

PollsGrounded ==
    \A d \in SendingDomains :
        /\ d \in registering => domainRow[d] # "absent"
        /\ \A j \in Polls : PollGrounded(d, poll[d][j])

DomainsInv == DomainsTypeOK /\ DecisionsGrounded /\ PollsGrounded

LEMMA DomainsInitInv == DomainsInit => DomainsInv
  BY DomainsAssumption
     DEF DomainsInit, DomainsInv, DomainsTypeOK, DecisionsGrounded, PollsGrounded, PollGrounded,
         Grounded, PollAt, PollStates, DomainStates

(* A poll that moves alone, to what is grounded.                           *)
LEMMA PollMove ==
    ASSUME DomainsInv, NEW d \in SendingDomains, NEW j \in Polls, NEW p \in PollStates,
           Moves(d, j, p), PollGrounded(d, p),
           registering' \subseteq registering, domainFaults' \in 0 .. MaxDomainFaults,
           UNCHANGED <<domainRow, published, windowOver>>
    PROVE  DomainsInv'
<1>1. \A e \in SendingDomains, k \in Polls :
         poll'[e][k] = IF e = d /\ k = j THEN p ELSE poll[e][k]
  BY DEF DomainsInv, DomainsTypeOK, Moves
<1>2. poll' \in [SendingDomains -> [Polls -> PollStates]]
  BY DEF DomainsInv, DomainsTypeOK, Moves
<1>3. DomainsTypeOK'
  BY <1>2 DEF DomainsInv, DomainsTypeOK
<1>4. DecisionsGrounded' /\ PollsGrounded'
  BY <1>1 DEF DomainsInv, DecisionsGrounded, PollsGrounded, PollGrounded, Grounded
<1>5. QED
  BY <1>3, <1>4 DEF DomainsInv

(* The evidence, and the rows, only grow.                                  *)
LEMMA EvidenceGrows ==
    ASSUME DomainsInv, DomainsTypeOK',
           \A d \in SendingDomains : /\ domainRow[d] # "absent" => domainRow'[d] = domainRow[d]
                                     /\ domainRow'[d] = domainRow[d] \/ domainRow'[d] = "pending"
                                     /\ published[d] => published'[d]
                                     /\ windowOver[d] => windowOver'[d]
                                     /\ d \in registering' => domainRow'[d] # "absent",
           poll' = poll
    PROVE  DomainsInv'
  BY DEF DomainsInv, DecisionsGrounded, PollsGrounded, PollGrounded, Grounded

LEMMA WriteKeeps ==
    ASSUME DomainsInv, NEW d \in SendingDomains, NEW j \in Polls, WriteDomain(d, j)
    PROVE  DomainsInv'
<1> DEFINE p == poll[d][j]
           q == PollAt(IF Outcome(p) = "pending" THEN "queued" ELSE "completed")
<1>1. p \in PollStates /\ PollGrounded(d, p) /\ p.at = "read"
  BY DEF DomainsInv, DomainsTypeOK, PollsGrounded, WriteDomain
<1>2. Outcome(p) \in DomainStates \ {"absent"} /\ Grounded(d, Outcome(p))
  BY <1>1 DEF Outcome, PollStates, DomainStates, PollGrounded, Grounded
<1>3. q \in PollStates /\ ~q.verified /\ ~q.late /\ q.at # "read"
  BY DEF PollAt, PollStates, DomainStates
<1> HIDE DEF q
<1>4. /\ \A e \in SendingDomains : domainRow'[e] = IF e = d THEN Outcome(p) ELSE domainRow[e]
      /\ \A e \in SendingDomains, k \in Polls :
            poll'[e][k] = IF e = d /\ k = j THEN q ELSE poll[e][k]
      /\ poll' \in [SendingDomains -> [Polls -> PollStates]]
      /\ domainRow' \in [SendingDomains -> DomainStates]
  BY <1>2, <1>3 DEF DomainsInv, DomainsTypeOK, WriteDomain, Moves, q
<1>5. DomainsTypeOK'
  BY <1>4 DEF DomainsInv, DomainsTypeOK, WriteDomain
<1>6. UNCHANGED <<registering, published, windowOver>>
  BY DEF WriteDomain
<1> HIDE DEF p
<1>7. DecisionsGrounded'
  BY <1>2, <1>4, <1>6 DEF DomainsInv, DecisionsGrounded, Grounded
<1>8. PollsGrounded'
  <2>1. ASSUME NEW e \in SendingDomains
        PROVE  domainRow[e] # "absent" => domainRow'[e] # "absent"
    BY <1>2, <1>4
  <2>2. \A e \in SendingDomains : e \in registering' => domainRow'[e] # "absent"
    BY <1>6, <2>1 DEF DomainsInv, PollsGrounded
  <2>3. domainRow'[d] # "absent"
    BY <1>2, <1>4
  <2>4. ASSUME NEW e \in SendingDomains, NEW k \in Polls PROVE PollGrounded(e, poll[e][k])'
    <3>1. CASE e = d /\ k = j
      <4>1. poll'[e][k] = q
        BY <1>4, <3>1
      <4>2. QED
        BY <1>3, <2>3, <3>1, <4>1 DEF PollGrounded
    <3>2. CASE ~(e = d /\ k = j)
      <4>1. poll'[e][k] = poll[e][k] /\ PollGrounded(e, poll[e][k])
        BY <1>4, <3>2 DEF DomainsInv, PollsGrounded
      <4>2. QED
        BY <1>6, <2>1, <4>1 DEF PollGrounded, Grounded
    <3>3. QED
      BY <3>1, <3>2
  <2>5. QED
    BY <2>2, <2>4 DEF PollsGrounded
<1>9. QED
  BY <1>5, <1>7, <1>8 DEF DomainsInv

LEMMA DomainsStep == DomainsInv /\ [DomainsNext]_domainsVars => DomainsInv'
<1> SUFFICES ASSUME DomainsInv, [DomainsNext]_domainsVars PROVE DomainsInv'
  OBVIOUS
<1> USE DEF DomainsInv, DomainsTypeOK
<1>1. \A at \in {"none", "queued", "completed"} :
         /\ PollAt(at) \in PollStates
         /\ \A d \in SendingDomains : (at # "none" => domainRow[d] # "absent") => PollGrounded(d, PollAt(at))
  BY DEF PollAt, PollStates, PollGrounded, DomainStates
<1>2. {"first", "sweep"} \cup Rechecks = Polls
  BY DEF Polls
<1>3. \A d \in SendingDomains, j \in Polls : poll[d][j] \in PollStates /\ PollGrounded(d, poll[d][j])
  BY DEF PollsGrounded
<1>4. ASSUME NEW d \in SendingDomains, AddDomain(d) PROVE DomainsInv'
  <2>1. DomainsTypeOK'
    BY <1>4 DEF AddDomain, DomainStates
  <2>2. QED
    BY <1>4, <2>1, EvidenceGrows DEF AddDomain, PollsGrounded
<1>5. ASSUME NEW d \in SendingDomains, EnqueueVerify(d) PROVE DomainsInv'
  <2>1. domainRow[d] # "absent"
    BY <1>5 DEF EnqueueVerify, PollsGrounded
  <2>2. QED
    BY <1>1, <1>2, <1>5, <2>1, PollMove DEF EnqueueVerify
<1>6. ASSUME NEW d \in SendingDomains, RegistrationFails(d) PROVE DomainsInv'
  <2>1. DomainsTypeOK'
    BY <1>6, DomainsAssumption DEF RegistrationFails
  <2>2. QED
    BY <1>6, <2>1, EvidenceGrows DEF RegistrationFails, PollsGrounded
<1>7. ASSUME NEW d \in SendingDomains, NEW j \in Rechecks, RecheckDomain(d, j) PROVE DomainsInv'
  BY <1>1, <1>2, <1>7, PollMove DEF RecheckDomain
<1>8. ASSUME NEW d \in SendingDomains, SweepPendingDomains(d) PROVE DomainsInv'
  BY <1>1, <1>2, <1>8, PollMove DEF SweepPendingDomains
<1>9. ASSUME NEW d \in SendingDomains, NEW j \in Polls, CheckIdentity(d, j) PROVE DomainsInv'
  <2>1. domainRow[d] # "absent"
    BY <1>3, <1>9 DEF CheckIdentity, PollGrounded
  <2>2. CASE domainRow[d] = "pending"
    <3>1. PICK answer \in {FALSE, published[d]} :
             Moves(d, j, [at |-> "checked", verified |-> answer,
                          late |-> windowOver[d], seen |-> "absent"])
      BY <1>9, <2>2 DEF CheckIdentity
    <3> DEFINE p == [at |-> "checked", verified |-> answer, late |-> windowOver[d], seen |-> "absent"]
    <3>2. published[d] \in BOOLEAN /\ windowOver[d] \in BOOLEAN /\ answer \in BOOLEAN
      OBVIOUS
    <3>3. p \in PollStates
      BY <3>2 DEF PollStates, DomainStates
    <3>4. p.at = "checked" /\ p.verified = answer /\ p.late = windowOver[d]
      OBVIOUS
    <3>5. (answer => published[d]) /\ (windowOver[d] => windowOver[d])
      BY <3>1
    <3> HIDE DEF p
    <3>6. PollGrounded(d, p)
      BY <2>1, <3>4, <3>5 DEF PollGrounded
    <3>7. Moves(d, j, p)
      BY <3>1 DEF p
    <3>8. QED
      BY <1>9, <3>3, <3>6, <3>7, PollMove DEF CheckIdentity
  <2>3. CASE domainRow[d] # "pending"
    BY <1>1, <1>9, <2>1, <2>3, PollMove DEF CheckIdentity
  <2>4. QED
    BY <2>2, <2>3
<1>10. ASSUME NEW d \in SendingDomains, NEW j \in Polls, ReadDomain(d, j) PROVE DomainsInv'
  <2> DEFINE p == [poll[d][j] EXCEPT !.at = "read", !.seen = domainRow[d]]
  <2>1. p \in PollStates
    <3>1. poll[d][j] \in PollStates /\ domainRow[d] \in DomainStates
      BY <1>3
    <3>2. QED
      BY <3>1 DEF PollStates
  <2>2. PollGrounded(d, p)
    BY <1>3, <1>10 DEF ReadDomain, PollGrounded, DecisionsGrounded, PollStates
  <2> HIDE DEF p
  <2>3. QED
    BY <1>10, <2>1, <2>2, PollMove DEF ReadDomain, p
<1>11. ASSUME NEW d \in SendingDomains, NEW j \in Polls, WriteDomain(d, j) PROVE DomainsInv'
  BY <1>11, WriteKeeps
<1>12. ASSUME NEW d \in SendingDomains, NEW j \in Polls, PollFails(d, j) PROVE DomainsInv'
  <2>1. PICK at \in {"queued", "none"} : Moves(d, j, PollAt(at))
    BY <1>12 DEF PollFails
  <2>2. domainRow[d] # "absent"
    BY <1>3, <1>12 DEF PollFails, PollGrounded
  <2>3. domainFaults' \in 0 .. MaxDomainFaults
    BY <1>12, DomainsAssumption DEF PollFails
  <2>4. QED
    BY <1>1, <1>12, <2>1, <2>2, <2>3, PollMove DEF PollFails
<1>13. ASSUME NEW d \in SendingDomains, CleanUpPoll(d, "sweep") PROVE DomainsInv'
  BY <1>1, <1>2, <1>13, PollMove DEF CleanUpPoll
<1>14. ASSUME NEW d \in SendingDomains, PublishRecords(d) \/ WindowPasses(d) PROVE DomainsInv'
  <2>1. DomainsTypeOK'
    BY <1>14 DEF PublishRecords, WindowPasses
  <2>2. QED
    BY <1>14, <2>1, EvidenceGrows DEF PublishRecords, WindowPasses, PollsGrounded
<1>15. CASE UNCHANGED domainsVars
  BY <1>15, EvidenceGrows DEF domainsVars, PollsGrounded
<1>16. QED
  BY <1>4, <1>5, <1>6, <1>7, <1>8, <1>9, <1>10, <1>11, <1>12, <1>13, <1>14, <1>15 DEF DomainsNext

(* However many polls, rechecks and sweeps overlap and fail, a domain is   *)
(* verified only on records that were published, and failed only after its *)
(* window; which of the two a late write chooses is not said.              *)
THEOREM DomainsAreDecidedOnEvidence == DomainsSpec => []DecisionsGrounded
<1>1. DomainsInv => DecisionsGrounded
  BY DEF DomainsInv
<1>2. QED
  BY <1>1, DomainsInitInv, DomainsStep, PTL DEF DomainsSpec
=============================================================================
