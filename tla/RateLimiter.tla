---------------------------- MODULE RateLimiter ----------------------------
(***************************************************************************)
(* The send-rate limiter (internal/platform/ratelimit): one Redis script   *)
(* that checks and records a send in two sliding windows, the tenant's and *)
(* the platform's.  The script is atomic, but the time it works with is    *)
(* the caller's: it is read from the clock of the caller's host before the *)
(* script runs, so scores may be ahead of Redis or behind it.              *)
(***************************************************************************)
EXTENDS Integers, FiniteSets

CONSTANTS
    Tenants,         \* tenants that send
    Pods,            \* worker processes, one call each at a time
    ClockAhead,      \* how far each pod's clock is ahead
    MaxSkew,         \* bound on ClockAhead
    MaxLag,          \* bound: time between reading the clock and the script
    TenantMax,       \* sends per tenant window
    TenantWindow,
    GlobalMax,       \* sends per platform window
    GlobalWindow,
    MaxTime          \* bound: the last instant

ASSUME RateAssumption ==
    /\ Tenants # {}
    /\ MaxSkew \in Nat /\ MaxLag \in Nat /\ MaxTime \in Nat
    /\ ClockAhead \in [Pods -> 0 .. MaxSkew]
    /\ TenantMax \in Nat \ {0} /\ GlobalMax \in Nat \ {0}
    /\ TenantWindow \in Nat \ {0} /\ GlobalWindow \in Nat \ {0}

VARIABLES
    time,          \* true time, and Redis's
    asking,        \* each pod's call in flight
    tenantSet,     \* the sorted set rl:tenant:<id> of each tenant
    globalSet,     \* the sorted set rl:global
    admittedSends    \* history: sends admitted, with the time of their script

rateVars == <<time, asking, tenantSet, globalSet, admittedSends>>

-----------------------------------------------------------------------------
(* An admitted send: a unique member, its score, and when it was admitted. *)
Sends == [member : Nat, tenant : Tenants, score : Nat, at : Nat]
NotAsking == [tenant |-> CHOOSE t \in Tenants : TRUE, now |-> 0, since |-> 0, busy |-> FALSE]

RateInit ==
    /\ time = 0
    /\ asking = [p \in Pods |-> NotAsking]
    /\ tenantSet = [t \in Tenants |-> {}]
    /\ globalSet = {}
    /\ admittedSends = {}

(* Allow, up to the script: now := time.Now() on the pod.                  *)
ReadClock(p, t) ==
    /\ ~asking[p].busy
    /\ asking' = [asking EXCEPT ![p] = [tenant |-> t, now |-> time + ClockAhead[p],
                                        since |-> time, busy |-> TRUE]]
    /\ UNCHANGED <<time, tenantSet, globalSet, admittedSends>>

(* ZREMRANGEBYSCORE key 0 now - window.                                    *)
Trimmed(set, now, window) == {s \in set : s.score + window > now}

(* Mutant: room in either window is enough.                                *)
HasRoomInEither(tset, gset) ==
    Cardinality(tset) < TenantMax \/ Cardinality(gset) < GlobalMax

HasRoom(tset, gset) ==
    Cardinality(tset) < TenantMax /\ Cardinality(gset) < GlobalMax

(* The slidingWindow script.                                               *)
SlidingWindow(p) ==
    LET tenant == asking[p].tenant
        tset == Trimmed(tenantSet[tenant], asking[p].now, TenantWindow)
        gset == Trimmed(globalSet, asking[p].now, GlobalWindow)
        send == [member |-> Cardinality(admittedSends), tenant |-> tenant,
                 score |-> asking[p].now, at |-> time]
        added == IF HasRoom(tset, gset) THEN {send} ELSE {}
    IN  /\ asking[p].busy
        /\ tenantSet' = [tenantSet EXCEPT ![tenant] = tset \cup added]
        /\ globalSet' = gset \cup added
        /\ admittedSends' = admittedSends \cup added
        /\ asking' = [asking EXCEPT ![p] = NotAsking]
        /\ UNCHANGED time

(* PEXPIRE: a key is gone one window after its last send (the last that it *)
(* holds: the expiry of one that was trimmed would only keep it longer).   *)
Kept(set, window) ==
    IF \E s \in set : s.at + window > time + 1 THEN set ELSE {}

(* Time passes, but no call takes longer than MaxLag.                      *)
Tick ==
    /\ time < MaxTime
    /\ \A p \in Pods : asking[p].busy => time < asking[p].since + MaxLag
    /\ time' = time + 1
    /\ tenantSet' = [t \in Tenants |-> Kept(tenantSet[t], TenantWindow)]
    /\ globalSet' = Kept(globalSet, GlobalWindow)
    /\ UNCHANGED <<asking, admittedSends>>

(* The call fails before its script runs: the sender tries again later.    *)
AllowFails(p) ==
    /\ asking[p].busy
    /\ asking' = [asking EXCEPT ![p] = NotAsking]
    /\ UNCHANGED <<time, tenantSet, globalSet, admittedSends>>

RateNext ==
    \/ \E p \in Pods, t \in Tenants : ReadClock(p, t)
    \/ \E p \in Pods : SlidingWindow(p)
    \/ \E p \in Pods : AllowFails(p)
    \/ Tick

RateSpec == RateInit /\ [][RateNext]_rateVars

-----------------------------------------------------------------------------
(* Properties.                                                             *)

(* Types of the sets and calls.                                            *)
RateTypeOK ==
    /\ time \in 0 .. MaxTime
    /\ asking \in [Pods -> [tenant : Tenants, now : Nat, since : Nat, busy : BOOLEAN]]
    /\ tenantSet \in [Tenants -> SUBSET Sends]
    /\ globalSet \subseteq Sends
    /\ admittedSends \subseteq Sends

(* The sends of a set that fall into an interval that starts with one.     *)
Burst(set, first, length) == {s \in set : first.at <= s.at /\ s.at < first.at + length}

(* Both limits hold over any interval as long as the window less what the  *)
(* clocks may be apart and a call may take: skewed or late callers drop    *)
(* other callers' sends from the window early, but not earlier than that.  *)
RateHolds ==
    \A first \in admittedSends :
        /\ Cardinality(Burst({s \in admittedSends : s.tenant = first.tenant}, first,
                             TenantWindow - MaxSkew - MaxLag)) <= TenantMax
        /\ Cardinality(Burst(admittedSends, first, GlobalWindow - MaxSkew - MaxLag)) <= GlobalMax

=============================================================================
