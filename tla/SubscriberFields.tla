-------------------------- MODULE SubscriberFields --------------------------
(***************************************************************************)
(* The registry of a tenant's custom fields (internal/audience): rows with *)
(* an immutable slug and a position, which the merge-tag picker shows in   *)
(* order and the save of visual content checks its merge tags against.     *)
(* Creating and patching a field read the registry in one transaction and  *)
(* write it in another.  Built-in fields are constants and refused by      *)
(* every command.                                                          *)
(***************************************************************************)
EXTENDS Integers, FiniteSets, FiniteSetsExt

CONSTANTS
    Slugs,             \* slugs of custom fields
    FieldCallers,      \* concurrent requests
    MaxFieldRequests   \* bound: requests in all

ASSUME FieldsAssumption == IsFiniteSet(Slugs) /\ MaxFieldRequests \in Nat

VARIABLES
    position,      \* the position of each field that exists
    fieldRequest,  \* the request each caller is running
    fieldRequests, \* requests so far (bounded)
    ordered,         \* history: the positions the last reorder gave
    putBack        \* history: fields whose patch overlapped a reorder

fieldVars == <<position, fieldRequest, fieldRequests, ordered, putBack>>

-----------------------------------------------------------------------------
(* No row yet, or no longer: a slug that was used once is not used again,  *)
(* so that it names one row (a bound).                                     *)
Unused == -1
Deleted == -2
Existing == {s \in Slugs : position[s] >= 0}

FieldRequests ==
    [kind : {"none"}]
    \cup [kind : {"create", "patch"}, slug : Slugs, at : Nat, overtaken : BOOLEAN]
    \cup [kind : {"order"}, order : [Slugs -> Nat \cup {-1}]]

NoFieldRequest == [kind |-> "none"]

FieldsInit ==
    /\ position = [s \in Slugs |-> Unused]
    /\ fieldRequest = [c \in FieldCallers |-> NoFieldRequest]
    /\ fieldRequests = 0
    /\ ordered = [s \in Slugs |-> -1]
    /\ putBack = {}

Asks(c, r) ==
    /\ fieldRequest[c] = NoFieldRequest
    /\ fieldRequests < MaxFieldRequests
    /\ fieldRequests' = fieldRequests + 1
    /\ fieldRequest' = [fieldRequest EXCEPT ![c] = r]

Answered(c) ==
    /\ fieldRequest' = [fieldRequest EXCEPT ![c] = NoFieldRequest]
    /\ UNCHANGED fieldRequests

-----------------------------------------------------------------------------
(* nextSubscriberFieldPosition: after the last field; a listing that fails *)
(* counts as an empty one.                                                 *)
NextPosition == IF Existing = {} THEN 0 ELSE Max({position[s] : s \in Existing}) + 1

CreateField(c, s, listed) ==
    /\ Asks(c, [kind |-> "create", slug |-> s, overtaken |-> FALSE,
                    at |-> IF listed THEN NextPosition ELSE 0])
    /\ UNCHANGED <<position, ordered, putBack>>

(* Fields.Add: the slug is unique in the tenant.                           *)
AddField(c) ==
    LET r == fieldRequest[c]
    IN /\ r.kind = "create"
       /\ position' = IF position[r.slug] = Unused
                      THEN [position EXCEPT ![r.slug] = r.at] ELSE position
       /\ Answered(c)
       /\ UNCHANGED <<ordered, putBack>>

(* Mutant: what the request leaves out is written as zero.                 *)
CarriedAsZero(s) == 0
(* The position a patch writes back is the one it read: operators reorder  *)
(* through an endpoint of its own.                                         *)
Carried(s) == position[s]

PatchField(c, s) ==
    /\ s \in Existing
    /\ Asks(c, [kind |-> "patch", slug |-> s, at |-> Carried(s), overtaken |-> FALSE])
    /\ UNCHANGED <<position, ordered, putBack>>

(* Fields.Update writes every column but the slug.                         *)
UpdateField(c) ==
    LET r == fieldRequest[c]
    IN /\ r.kind = "patch"
       /\ IF r.slug \in Existing
          THEN /\ position' = [position EXCEPT ![r.slug] = r.at]
               /\ putBack' = IF r.overtaken THEN putBack \cup {r.slug} ELSE putBack
          ELSE UNCHANGED <<position, putBack>>
       /\ Answered(c)
       /\ UNCHANGED ordered

DeleteField(c, s) ==
    /\ fieldRequest[c] = NoFieldRequest
    /\ fieldRequests < MaxFieldRequests
    /\ s \in Existing
    /\ position' = [position EXCEPT ![s] = Deleted]
    /\ fieldRequests' = fieldRequests + 1
    /\ UNCHANGED <<fieldRequest, ordered, putBack>>

-----------------------------------------------------------------------------
(* The order must cover the registry exactly once.                         *)
Orders(S) == {o \in [Slugs -> -1 .. Cardinality(S) - 1] :
    /\ \A s \in Slugs : o[s] >= 0 <=> s \in S
    /\ \A s, t \in S : s # t => o[s] # o[t]}

ReorderFields(c, o) ==
    /\ Asks(c, [kind |-> "order", order |-> o])
    /\ UNCHANGED <<position, ordered, putBack>>

(* Fields.Reorder: one transaction, whose row locks it holds to its end; a *)
(* field that is gone rolls it back.                                       *)
Reposition(c) ==
    LET o == fieldRequest[c].order
        covered == {s \in Slugs : o[s] >= 0}
    IN /\ fieldRequest[c].kind = "order"
       /\ covered \subseteq Existing
       /\ position' = [s \in Slugs |-> IF s \in covered THEN o[s] ELSE position[s]]
       /\ ordered' = o
       /\ putBack' = {}
       /\ fieldRequest' = [d \in FieldCallers |->
            IF d = c THEN NoFieldRequest
            ELSE IF fieldRequest[d].kind = "patch" THEN [fieldRequest[d] EXCEPT !.overtaken = TRUE]
            ELSE fieldRequest[d]]
       /\ UNCHANGED fieldRequests

(* A deadlock of two reorders, a field that is gone, or a lost process.    *)
FieldRequestFails(c) ==
    /\ fieldRequest[c] # NoFieldRequest
    /\ Answered(c)
    /\ UNCHANGED <<position, ordered, putBack>>

FieldsNext ==
    \/ \E c \in FieldCallers, s \in Slugs, listed \in BOOLEAN : CreateField(c, s, listed)
    \/ \E c \in FieldCallers : AddField(c)
    \/ \E c \in FieldCallers, s \in Slugs : PatchField(c, s)
    \/ \E c \in FieldCallers : UpdateField(c)
    \/ \E c \in FieldCallers, s \in Slugs : DeleteField(c, s)
    \/ \E c \in FieldCallers : \E o \in Orders(Existing) : ReorderFields(c, o)
    \/ \E c \in FieldCallers : Reposition(c)
    \/ \E c \in FieldCallers : FieldRequestFails(c)

FieldsSpec == FieldsInit /\ [][FieldsNext]_fieldVars

-----------------------------------------------------------------------------
(* Every reachable state is well typed.                                    *)
FieldsTypeOK ==
    /\ position \in [Slugs -> Nat \cup {Unused, Deleted}]
    /\ fieldRequest \in [FieldCallers -> FieldRequests]
    /\ fieldRequests \in 0 .. MaxFieldRequests
    /\ ordered \in [Slugs -> Nat \cup {-1}]
    /\ putBack \subseteq Slugs

(* A reorder is all or nothing and lasts: every field it covered keeps the *)
(* place it was given, whatever is created, deleted or patched meanwhile.  *)
(* Only a patch that read the field before the reorder and wrote it after  *)
(* puts it back.                                                           *)
OrderLasts == \A s \in Existing \ putBack : ordered[s] >= 0 => position[s] = ordered[s]
=============================================================================
