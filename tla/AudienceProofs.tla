--------------------------- MODULE AudienceProofs ---------------------------
(***************************************************************************)
(* What is proved about Audience: the types, and the invariant behind its  *)
(* properties.  A request knows what it needs to (Learnt), a confirmed     *)
(* membership has been asked for (MembersAsked), a request that is barred  *)
(* has still to ask the suppression list (RequestsBarred), the import has  *)
(* counted the rows it has passed (ImportCounts) and whoever the export    *)
(* owes has been read or is still to come (ExportKeepsPromise).            *)
(***************************************************************************)
EXTENDS Audience, FiniteSetTheorems, SequenceTheorems, WellFoundedInduction, TLAPS

(* The types of the rows, the requests and the jobs, part by part.         *)
SubRows == [email : Emails, state : States, live : BOOLEAN]
RowsTyped ==
    /\ subs \in Seq(SubRows)
    /\ Len(subs) <= MaxSubs
    /\ member \in [Ids -> [Lists -> Statuses]]
    /\ lists \subseteq Lists
PublicTyped ==
    /\ page \in [targets : SUBSET Lists, active : BOOLEAN]
    /\ pending \in [Emails -> PendingRows]
    /\ issued \in 0 .. MaxTokens
    /\ optin \subseteq [row : 0 .. MaxTokens, token : 0 .. MaxTokens]
    /\ links \subseteq [email : Emails, token : 0 .. MaxTokens]
RequestsTyped == request \in [Slots -> Requests]
AskedTyped == suppressed \subseteq Emails /\ asked \subseteq Emails \X Lists

Imports ==
    [status : JobStatuses \ {"failed"}, rows : Seq(Emails \cup {"bad"}), targets : SUBSET Lists,
     created : Nat, updated : Nat, failed : Nat]
Exports ==
    [status : JobStatuses, selection : Selections, list : SUBSET Lists, staged : Seq(Nat), count : Nat]
Importers ==
    [at : {"idle", "upsert", "attach"}, row : Nat, created : Nat, updated : Nat, failed : Nat]
Exporters == [at : {"idle", "page", "stage", "complete"}, got : Seq(Nat)]
ImportTyped == import \in Imports /\ importer \in Importers
ExportTyped == export \in Exports /\ exporter \in Exporters
JobsTyped == ImportTyped /\ ExportTyped /\ queue \subseteq {"import", "export"}

(* Search by an address finds that address only.                          *)
NamesApart == \A e \in Emails : Finds[e] = {e}

(* What a request has learnt about its subscriber holds to its end: the    *)
(* row is there, and whoever is to be confirmed has asked for it.          *)
Learnt(r, rowsNow, askedNow) ==
    /\ r.at \in {"attach", "lists", "profile"} \/ r.wanted # {} => r.id \in 1 .. Len(rowsNow)
    /\ r.wanted # {} => r.op = "preferences"
    /\ \A l \in r.wanted : <<rowsNow[r.id].email, l>> \in askedNow
    /\ r.op \in {"submit", "confirm"} => r.email \in Emails
    /\ r.op = "confirm" => \A l \in r.todo : <<r.email, l>> \in askedNow
    /\ NamesApart /\ r.op = "confirm" /\ r.at = "attach" => rowsNow[r.id].email = r.email
RequestsLearnt == \A p \in Slots : Learnt(request[p], subs, asked)

(* Every confirmed membership, of a live subscriber or not, is of a row    *)
(* that exists and has been asked for.                                     *)
MembersAsked ==
    NamesApart => \A i \in Ids, l \in Lists :
        member[i][l] = "confirmed" => i \in Known /\ <<subs[i].email, l>> \in asked

(* Only a confirmation that has not yet asked the suppression list is      *)
(* barred, and then it will be refused.                                    *)
Barred(r, barring) == r.barred => r.op = "confirm" /\ r.at = "suppression" /\ r.email \in barring
RequestsBarred == \A p \in Slots : Barred(request[p], suppressed)

(* The rows before the one the worker is at have been handled and counted. *)
Counted(j) == j.created + j.updated + j.failed
ImportCounts ==
    /\ import.status # "none" => DOMAIN handled = 1 .. Len(import.rows)
    /\ import.status = "none" => handled = [n \in {} |-> 0]
    /\ import.status \in {"none", "pending"} => importer.at = "idle"
    /\ import.status = "pending" => \A n \in DOMAIN handled : handled[n] = 0
    /\ importer.at = "idle" => importer = IdleImporter
    /\ importer.at # "idle" =>
          LET done == IF importer.at = "attach" THEN importer.row ELSE importer.row - 1 IN
          /\ import.status = "running"
          /\ importer.row \in 1 .. Len(import.rows) + 1
          /\ done <= Len(import.rows)
          /\ Counted(importer) = done
          /\ \A n \in DOMAIN handled : handled[n] = IF n <= done THEN 1 ELSE 0
    /\ ImportAccountsForRows

(* Whoever the export has promised is in the pages it has read, or comes   *)
(* after them: newer rows only move the rest further away.                 *)
Exported(i, got) == \E k \in DOMAIN got : got[k] = i
ExportKeepsPromise ==
    /\ promised \subseteq Nat
    /\ exporter.at = "page" =>
          \A i \in promised : Exported(i, exporter.got) \/ (i \in Selected /\ Rank(i) >= Offset)
    /\ exporter.at \in {"stage", "complete"} => \A i \in promised : Exported(i, exporter.got)
    /\ exporter.at = "complete" => export.staged = exporter.got
    /\ exporter.at = "idle" => exporter = IdleExporter
    /\ exporter.at # "idle" => export.status = "running"

CoreInv == RowsTyped /\ PublicTyped /\ RequestsTyped /\ AskedTyped
           /\ RequestsLearnt /\ MembersAsked /\ RequestsBarred
AudienceInv == CoreInv /\ JobsTyped /\ ImportCounts /\ ExportKeepsPromise

-----------------------------------------------------------------------------
(* What a step does to the rows and the requests: rows are never taken     *)
(* back, only what has been asked for becomes confirmed, and a request     *)
(* that goes on knows what it has to know.                                 *)
RowsGrow ==
    /\ Len(subs) <= Len(subs')
    /\ \A i \in Known : subs'[i].email = subs[i].email
    /\ asked \subseteq asked'
MembersKept ==
    \A i \in Ids, l \in Lists : member'[i][l] = "confirmed" =>
        \/ member[i][l] = "confirmed"
        \/ NamesApart => i \in 1 .. Len(subs') /\ <<subs'[i].email, l>> \in asked'
MovesOn(r) == r \in Requests /\ Learnt(r, subs', asked') /\ Barred(r, suppressed')
RequestsKept ==
    \A p \in Slots : request'[p] \in Requests /\ (request'[p] = request[p] \/ MovesOn(request'[p]))
SubsTyped == subs' \in Seq(SubRows) /\ Len(subs') <= MaxSubs

LEMMA IdleFacts ==
    /\ Idle \in Requests /\ Idle.op = "idle" /\ Idle.at = "idle" /\ Idle.wanted = {} /\ Idle.todo = {}
    /\ ~Idle.barred /\ Idle.id = 0
  BY AudienceAssumption DEF Idle, Requests, States

LEMMA IdleMovesOn == MovesOn(Idle)
  BY IdleFacts DEF MovesOn, Learnt, Barred

LEMMA SubFacts ==
    ASSUME RowsTyped
    PROVE  /\ Len(subs) \in Nat /\ Known = 1 .. Len(subs) /\ DOMAIN subs = Known /\ MaxSubs \in Nat
           /\ Known \subseteq Ids /\ Live \subseteq Known
           /\ \A i \in Known : subs[i] \in SubRows /\ subs[i].email \in Emails
                               /\ subs[i].state \in States
           /\ \A i \in Ids : member[i] \in [Lists -> Statuses]
<1>1. subs \in Seq(SubRows) /\ Len(subs) <= MaxSubs /\ MaxSubs \in Nat
  BY AudienceAssumption DEF RowsTyped
<1>2. Len(subs) \in Nat /\ DOMAIN subs = 1 .. Len(subs) /\ \A i \in 1 .. Len(subs) : subs[i] \in SubRows
  BY <1>1
<1>3. \A i \in 1 .. Len(subs) : subs[i].email \in Emails /\ subs[i].state \in States
  BY <1>2 DEF SubRows
<1>4. QED
  BY <1>1, <1>2, <1>3 DEF Known, Live, Ids, RowsTyped

LEMMA RequestFacts ==
    ASSUME RequestsTyped, NEW p \in Slots
    PROVE  /\ request[p] \in Requests
           /\ request[p].op \in AllOperations \cup {"idle"}
           /\ request[p].email \in Emails \cup {Nobody} /\ request[p].id \in 0 .. MaxSubs
           /\ request[p].row \in 0 .. MaxTokens /\ request[p].token \in 0 .. MaxTokens
           /\ request[p].todo \in SUBSET Lists /\ request[p].wanted \in SUBSET Lists
           /\ request[p].state \in States /\ request[p].active \in BOOLEAN
           /\ request[p].barred \in BOOLEAN
  BY DEF RequestsTyped, Requests

(* The newest of some rows is one of them.                                 *)
LEMMA NewestOfSome ==
    ASSUME NEW S, S # {}, NEW bound \in Nat, S \subseteq 1 .. bound
    PROVE  Newest(S) \in S
<1> DEFINE Gaps == {bound - x : x \in S}
<1>1. Gaps \subseteq Nat /\ Gaps # {}
  <2>1. \A x \in S : bound - x \in Nat
    OBVIOUS
  <2>2. PICK x \in S : TRUE
    OBVIOUS
  <2>3. bound - x \in Gaps
    OBVIOUS
  <2>4. QED
    BY <2>1, <2>3
<1>2. PICK g \in Gaps : \A h \in Gaps : ~(<<h, g>> \in OpToRel(<, Nat))
  BY <1>1, WFMin, NatLessThanWellFounded, Zenon
<1>3. \A h \in Gaps : g <= h
  <2> HIDE DEF Gaps
  <2>1. \A h \in Gaps : h \in Nat /\ g \in Nat
    BY <1>1
  <2>2. \A h \in Gaps : h < g => <<h, g>> \in OpToRel(<, Nat)
    BY <2>1, Zenon DEF OpToRel
  <2>3. \A h \in Gaps : ~(h < g)
    BY <1>2, <2>2, Zenon
  <2>4. QED
    BY <2>1, <2>3
<1>4. PICK m \in S : g = bound - m
  OBVIOUS
<1>5. \A y \in S : y <= m
  <2>1. \A y \in S : y \in Nat /\ bound - y \in Gaps
    OBVIOUS
  <2> HIDE DEF Gaps
  <2>2. QED
    BY <1>3, <1>4, <2>1
<1>6. QED
  BY <1>5 DEF Newest

LEMMA FoundNewest ==
    ASSUME RowsTyped, NEW e \in Emails, Found(e) # {}
    PROVE  /\ Newest(Found(e)) \in Live /\ Newest(Found(e)) \in Known /\ Newest(Found(e)) \in Ids
           /\ NamesApart => subs[Newest(Found(e))].email = e
<1>1. Found(e) \subseteq Live /\ Found(e) \subseteq 1 .. Len(subs) /\ Len(subs) \in Nat
  BY SubFacts DEF Found
<1>2. Newest(Found(e)) \in Found(e)
  BY <1>1, NewestOfSome
<1>3. \A i \in Found(e) : subs[i].email \in Finds[e]
  BY DEF Found
<1>4. QED
  BY <1>1, <1>2, <1>3, SubFacts DEF NamesApart

-----------------------------------------------------------------------------
(* The core of the invariant is kept by such steps.                        *)

LEMMA LearntKept ==
    ASSUME RowsTyped, RowsTyped', RowsGrow, NEW r \in Requests, Learnt(r, subs, asked)
    PROVE  Learnt(r, subs', asked')
<1>1. Len(subs) \in Nat /\ Len(subs') \in Nat
  BY DEF RowsTyped
<1>2. r.at \in {"attach", "lists", "profile"} \/ r.wanted # {}
      => r.id \in Known /\ r.id \in 1 .. Len(subs') /\ subs'[r.id].email = subs[r.id].email
  BY <1>1 DEF Learnt, RowsGrow, Known
<1>3. \A c \in asked : c \in asked'
  BY DEF RowsGrow
<1>4. QED
  BY <1>2, <1>3 DEF Learnt

LEMMA CoreKept ==
    ASSUME CoreInv, RowsTyped', PublicTyped', AskedTyped', UNCHANGED suppressed,
           RowsGrow, MembersKept, RequestsKept, RequestsTyped'
    PROVE  CoreInv'
<1>1. RowsTyped /\ RequestsTyped /\ RequestsLearnt /\ MembersAsked /\ RequestsBarred
  BY DEF CoreInv
<1>2. \A p \in Slots : Learnt(request'[p], subs', asked')
  <2> SUFFICES ASSUME NEW p \in Slots PROVE Learnt(request'[p], subs', asked')
    OBVIOUS
  <2>1. Learnt(request[p], subs, asked) /\ request[p] \in Requests
    BY <1>1, RequestFacts DEF RequestsLearnt
  <2>2. Learnt(request[p], subs', asked')
    BY <1>1, <2>1, LearntKept
  <2>3. QED
    BY <2>2 DEF RequestsKept, MovesOn
<1>3. \A p \in Slots : Barred(request'[p], suppressed')
  BY <1>1 DEF RequestsKept, MovesOn, RequestsBarred
<1>4. MembersAsked'
  <2> SUFFICES ASSUME NamesApart, NEW i \in Ids, NEW l \in Lists, member'[i][l] = "confirmed"
               PROVE  i \in 1 .. Len(subs') /\ <<subs'[i].email, l>> \in asked'
    BY DEF MembersAsked, Known
  <2>1. CASE member[i][l] = "confirmed"
    <3>1. i \in Known /\ <<subs[i].email, l>> \in asked
      BY <1>1, <2>1 DEF MembersAsked
    <3>2. Len(subs) \in Nat /\ Len(subs') \in Nat
      BY <1>1 DEF RowsTyped
    <3>3. QED
      BY <3>1, <3>2 DEF RowsGrow, Known
  <2>2. QED
    BY <2>1 DEF MembersKept
<1>5. RequestsLearnt' /\ RequestsBarred'
  BY <1>2, <1>3 DEF RequestsLearnt, RequestsBarred, Learnt, Barred
<1>6. QED
  BY <1>4, <1>5 DEF CoreInv

LEMMA RequestGoes ==
    ASSUME RequestsTyped, NEW p \in Slots, NEW r, MovesOn(r), request' = [request EXCEPT ![p] = r]
    PROVE  RequestsTyped' /\ RequestsKept
<1>1. r \in Requests
  BY DEF MovesOn
<1>2. \A q \in Slots : request'[q] = IF q = p THEN r ELSE request[q]
  BY DEF RequestsTyped
<1>3. QED
  BY <1>1, <1>2 DEF RequestsTyped, RequestsKept

LEMMA RequestsRest == RequestsTyped /\ UNCHANGED request => RequestsTyped' /\ RequestsKept
  BY DEF RequestsTyped, RequestsKept

(* Steps that leave the rows alone.                                        *)
LEMMA RowsRest ==
    ASSUME RowsTyped, UNCHANGED rows, asked \subseteq asked'
    PROVE  RowsTyped' /\ RowsGrow /\ MembersKept
<1>1. subs' = subs /\ member' = member /\ lists' = lists
  BY DEF rows
<1>2. RowsTyped'
  BY <1>1 DEF RowsTyped
<1>3. Len(subs) \in Nat
  BY DEF RowsTyped
<1>4. RowsGrow
  BY <1>1, <1>3 DEF RowsGrow
<1>5. MembersKept
  BY <1>1 DEF MembersKept
<1>6. QED
  BY <1>2, <1>4, <1>5

LEMMA PublicRest == PublicTyped /\ UNCHANGED public => PublicTyped'
  BY DEF PublicTyped, public

LEMMA RequestStep ==
    ASSUME CoreInv, UNCHANGED <<rows, suppressed, asked>>, PublicTyped', RequestsTyped', RequestsKept
    PROVE  CoreInv'
<1>1. AskedTyped' /\ asked \subseteq asked'
  BY DEF CoreInv, AskedTyped
<1>2. QED
  BY <1>1, RowsRest, CoreKept DEF CoreInv

LEMMA RestStep == CoreInv /\ UNCHANGED <<rows, public, suppressed, request, asked>> => CoreInv'
  BY RequestStep, RequestsRest, PublicRest DEF CoreInv

LEMMA GoStep ==
    ASSUME CoreInv, UNCHANGED <<rows, public, suppressed, asked>>,
           NEW p \in Slots, NEW r, MovesOn(r), request' = [request EXCEPT ![p] = r]
    PROVE  CoreInv'
  BY RequestStep, RequestGoes, PublicRest DEF CoreInv

LEMMA AskingStep ==
    ASSUME CoreInv, UNCHANGED <<rows, public, suppressed>>, asked \subseteq asked', AskedTyped',
           NEW p \in Slots, NEW r, MovesOn(r), request' = [request EXCEPT ![p] = r]
    PROVE  CoreInv'
<1>1. CoreInv => RowsTyped /\ PublicTyped /\ RequestsTyped
  BY DEF CoreInv
<1>2. QED
  BY <1>1, RowsRest, PublicRest, RequestGoes, CoreKept

(* Steps that change one membership of a row that exists.                  *)
LEMMA MemberStep ==
    ASSUME CoreInv, NEW i \in Known, NEW l \in Lists, NEW status \in Statuses, SetMember(i, l, status),
           NamesApart /\ status = "confirmed" => <<subs[i].email, l>> \in asked',
           asked \subseteq asked', AskedTyped',
           UNCHANGED <<subs, lists, public, suppressed>>, RequestsTyped', RequestsKept
    PROVE  CoreInv'
<1>1. RowsTyped /\ PublicTyped
  BY DEF CoreInv
<1>2. i \in Ids /\ Len(subs) \in Nat
  BY <1>1, SubFacts
<1>3. member' \in [Ids -> [Lists -> Statuses]]
      /\ \A j \in Ids, k \in Lists : member'[j][k] = IF j = i /\ k = l THEN status ELSE member[j][k]
  BY <1>1, <1>2 DEF SetMember, RowsTyped
<1>4. RowsTyped'
  BY <1>1, <1>3 DEF RowsTyped
<1>5. RowsGrow
  BY <1>2 DEF RowsGrow
<1>6. MembersKept
  BY <1>3 DEF MembersKept, Known
<1>7. QED
  BY <1>1, <1>4, <1>5, <1>6, PublicRest, CoreKept

(* Steps that add or change subscribers.                                   *)
LEMMA SubsStep ==
    ASSUME CoreInv, SubsTyped, UNCHANGED <<member, lists, public, suppressed, asked>>,
           Len(subs) <= Len(subs'), \A i \in Known : subs'[i].email = subs[i].email,
           RequestsTyped', RequestsKept
    PROVE  CoreInv'
<1>1. RowsTyped /\ PublicTyped /\ AskedTyped
  BY DEF CoreInv
<1>2. RowsTyped'
  BY <1>1 DEF RowsTyped, SubsTyped
<1>3. RowsGrow /\ MembersKept /\ AskedTyped'
  BY <1>1 DEF RowsGrow, MembersKept, AskedTyped
<1>4. QED
  BY <1>1, <1>2, <1>3, PublicRest, CoreKept

LEMMA AppendSub ==
    ASSUME RowsTyped, NEW e \in Emails, Len(subs) < MaxSubs,
           subs' = Append(subs, [email |-> e, state |-> "enabled", live |-> TRUE])
    PROVE  /\ SubsTyped /\ Len(subs') = Len(subs) + 1
           /\ \A i \in Known : subs'[i] = subs[i]
<1> DEFINE row == [email |-> e, state |-> "enabled", live |-> TRUE]
<1>1. row \in SubRows
  BY DEF SubRows, States
<1>2. subs \in Seq(SubRows) /\ Len(subs) \in Nat /\ MaxSubs \in Nat
  BY SubFacts DEF RowsTyped
<1> HIDE DEF row
<1>3. /\ Append(subs, row) \in Seq(SubRows) /\ Len(Append(subs, row)) = Len(subs) + 1
      /\ \A i \in 1 .. Len(subs) : Append(subs, row)[i] = subs[i]
  BY <1>1, <1>2, AppendProperties
<1>4. subs' = Append(subs, row)
  BY DEF row
<1>5. QED
  BY <1>2, <1>3, <1>4 DEF SubsTyped, Known

LEMMA UpsertSub ==
    ASSUME RowsTyped, NEW e \in Emails, RoomFor(e), subs' = Upserted(e)
    PROVE  /\ SubsTyped /\ Len(subs) <= Len(subs')
           /\ \A i \in Known : subs'[i] = subs[i]
<1>1. CASE Named(e) = {}
  <2>1. Len(subs) < MaxSubs
    BY <1>1 DEF RoomFor
  <2>2. Len(subs) \in Nat
    BY SubFacts
  <2>3. subs' = Append(subs, [email |-> e, state |-> "enabled", live |-> TRUE])
    BY <1>1 DEF Upserted
  <2>4. /\ SubsTyped /\ Len(subs') = Len(subs) + 1
        /\ \A i \in Known : subs'[i] = subs[i]
    BY <2>1, <2>3, AppendSub
  <2>5. QED
    BY <2>2, <2>4
<1>2. CASE Named(e) # {}
  BY <1>2, SubFacts DEF Upserted, SubsTyped, RowsTyped
<1>3. QED
  BY <1>1, <1>2

-----------------------------------------------------------------------------
(* The requests, step by step.                                             *)

LEMMA CrossesOff ==
    ASSUME RequestsTyped, NEW p \in Slots, NEW l, Crosses(p, l), MovesOn(request[p])
    PROVE  RequestsTyped' /\ RequestsKept
<1> PICK r : r = [request[p] EXCEPT !.todo = @ \ {l}]
  OBVIOUS
<1>1. request' = [request EXCEPT ![p] = Idle] \/ request' = [request EXCEPT ![p] = r]
  BY DEF Crosses, Ends, Goes
<1>2. /\ r \in Requests /\ r.todo \subseteq request[p].todo
      /\ r.op = request[p].op /\ r.at = request[p].at /\ r.id = request[p].id
      /\ r.email = request[p].email /\ r.wanted = request[p].wanted /\ r.barred = request[p].barred
  BY RequestFacts DEF Requests
<1>3. MovesOn(r)
  BY <1>2 DEF MovesOn, Learnt, Barred
<1>4. QED
  BY <1>1, <1>3, IdleMovesOn, RequestGoes

(* A request stays what it is when the step adds to what is known.         *)
LEMMA StaysOn ==
    ASSUME CoreInv, RowsTyped', RowsGrow, UNCHANGED suppressed, NEW p \in Slots
    PROVE  MovesOn(request[p])
<1>1. /\ request[p] \in Requests /\ Learnt(request[p], subs, asked) /\ Barred(request[p], suppressed)
      /\ RowsTyped
  BY RequestFacts DEF CoreInv, RequestsLearnt, RequestsBarred
<1>2. Learnt(request[p], subs', asked')
  BY <1>1, LearntKept
<1>3. QED
  BY <1>1, <1>2 DEF MovesOn, Barred

LEMMA StaysOnRest ==
    ASSUME CoreInv, UNCHANGED <<rows, suppressed>>, asked \subseteq asked', NEW p \in Slots
    PROVE  MovesOn(request[p])
  BY StaysOn, RowsRest DEF CoreInv

LEMMA EndsStep ==
    ASSUME CoreInv, NEW p \in Slots, Ends(p), UNCHANGED <<rows, public, suppressed, asked>>
    PROVE  CoreInv'
  BY IdleMovesOn, GoStep DEF Ends, Goes

LEMMA SubmitStep ==
    ASSUME CoreInv, NEW p \in Slots, NEW e \in Emails, SubmitPublicSubscription(p, e)
    PROVE  CoreInv'
<1> PICK r : r = [Idle EXCEPT !.op = "submit", !.at = "upsert", !.email = e, !.todo = page.targets]
  OBVIOUS
<1>1. page.targets \in SUBSET Lists
  BY DEF CoreInv, PublicTyped
<1>2. /\ r \in Requests /\ r.op = "submit" /\ r.at = "upsert" /\ r.wanted = {} /\ ~r.barred
  BY <1>1, IdleFacts DEF Requests, AllOperations
<1>3. MovesOn(r)
  BY <1>2 DEF MovesOn, Learnt, Barred
<1>4. QED
  BY <1>3, GoStep DEF SubmitPublicSubscription, Begins

LEMMA UpsertPendingStep ==
    ASSUME CoreInv, NEW p \in Slots, UpsertPending(p)
    PROVE  CoreInv'
<1> PICK q : q = request[p]
  OBVIOUS
<1> PICK e, t, id : /\ e = q.email /\ t = issued + 1
                    /\ id = IF HasPending(e) THEN pending[e].id ELSE t
  OBVIOUS
<1> PICK r : r = [q EXCEPT !.at = "enqueue", !.row = id, !.token = t]
  OBVIOUS
<1> PICK row : row = [id |-> id, token |-> t, targets |-> q.todo, expired |-> FALSE]
  OBVIOUS
<1>1. /\ q.op = "submit" /\ issued < MaxTokens /\ issued' = t
      /\ pending' = [pending EXCEPT ![e] = row]
      /\ request' = [request EXCEPT ![p] = r]
      /\ UNCHANGED <<rows, page, optin, links, suppressed, asked>>
  BY DEF UpsertPending, At, Goes
<1>2. MovesOn(q) /\ e \in Emails
  BY <1>1, StaysOnRest DEF CoreInv, MovesOn, Learnt
<1>3. /\ q \in Requests /\ q.todo \in SUBSET Lists
      /\ issued \in 0 .. MaxTokens /\ MaxTokens \in Nat /\ pending \in [Emails -> PendingRows]
  BY RequestFacts, AudienceAssumption DEF CoreInv, PublicTyped
<1>4. t \in 0 .. MaxTokens /\ id \in 0 .. MaxTokens
  BY <1>1, <1>2, <1>3 DEF PendingRows
<1>5. PublicTyped'
  <2>1. row \in PendingRows
    BY <1>3, <1>4 DEF PendingRows
  <2>2. pending' \in [Emails -> PendingRows]
    BY <1>1, <1>3, <2>1
  <2>3. QED
    BY <1>1, <1>4, <2>2 DEF PublicTyped, CoreInv
<1>6. /\ r \in Requests /\ r.op = "submit" /\ r.at = "enqueue" /\ r.wanted = q.wanted /\ r.id = q.id
      /\ r.barred = q.barred /\ r.email = e
  BY <1>1, <1>3, <1>4, ZenonT(60) DEF Requests
<1>7. MovesOn(r)
  BY <1>1, <1>2, <1>6 DEF MovesOn, Learnt, Barred
<1>8. RequestsTyped' /\ RequestsKept
  BY <1>1, <1>7, RequestGoes DEF CoreInv
<1>9. QED
  BY <1>1, <1>5, <1>8, RequestStep

LEMMA EnqueueOptinStep ==
    ASSUME CoreInv, NEW p \in Slots, EnqueueOptinSend(p)
    PROVE  CoreInv'
<1>1. /\ optin' = optin \cup {[row |-> request[p].row, token |-> request[p].token]}
      /\ request' = [request EXCEPT ![p] = Idle]
      /\ UNCHANGED <<rows, page, pending, issued, links, suppressed, asked>>
  BY DEF EnqueueOptinSend, Ends, Goes
<1>2. PublicTyped'
  BY <1>1, RequestFacts DEF CoreInv, PublicTyped
<1>3. RequestsTyped' /\ RequestsKept
  BY <1>1, IdleMovesOn, RequestGoes DEF CoreInv
<1>4. QED
  BY <1>1, <1>2, <1>3, RequestStep

LEMMA SendOptinStep == ASSUME CoreInv, NEW job \in optin, SendOptin(job) PROVE CoreInv'
<1>1. PublicTyped'
  BY DEF SendOptin, CoreInv, PublicTyped, ById
<1>2. RequestsTyped' /\ RequestsKept
  BY RequestsRest DEF SendOptin, CoreInv, asking
<1>3. QED
  BY <1>1, <1>2, RequestStep DEF SendOptin

LEMMA ExpireStep == ASSUME CoreInv, NEW e \in Emails, Expire(e) PROVE CoreInv'
<1> PICK row : row = [pending[e] EXCEPT !.expired = TRUE]
  OBVIOUS
<1>1. /\ pending' = [pending EXCEPT ![e] = row]
      /\ UNCHANGED <<rows, page, issued, optin, links, suppressed, asked, request>>
  BY DEF Expire, asking
<1>2. row \in PendingRows
  BY DEF CoreInv, PublicTyped, PendingRows
<1>3. PublicTyped'
  BY <1>1, <1>2 DEF CoreInv, PublicTyped
<1>4. QED
  BY <1>1, <1>3, RequestsRest, RequestStep DEF CoreInv

LEMMA ResendStep == ASSUME CoreInv, NEW p \in Slots, NEW link \in links, ResendConfirmation(p, link)
    PROVE CoreInv'
<1> PICK e \in Emails : Begins(p, [Idle EXCEPT !.op = "resend", !.at = "refresh", !.row = pending[e].id])
  BY DEF ResendConfirmation, ByToken
<1> PICK r : r = [Idle EXCEPT !.op = "resend", !.at = "refresh", !.row = pending[e].id]
  OBVIOUS
<1>1. pending[e].id \in 0 .. MaxTokens
  BY DEF CoreInv, PublicTyped, PendingRows
<1>2. /\ r \in Requests /\ r.op = "resend" /\ r.at = "refresh" /\ r.wanted = {} /\ ~r.barred
  BY <1>1, IdleFacts DEF Requests, AllOperations
<1>3. MovesOn(r)
  BY <1>2 DEF MovesOn, Learnt, Barred
<1>4. QED
  BY <1>3, GoStep DEF ResendConfirmation, Begins

LEMMA RefreshStep == ASSUME CoreInv, NEW p \in Slots, RefreshToken(p) PROVE CoreInv'
<1>1. /\ request[p].op = "resend"
      /\ UNCHANGED <<rows, page, optin, links, suppressed, asked>>
  BY DEF RefreshToken, At
<1>2. CASE ById(request[p].row) = {}
  <2>1. Ends(p) /\ UNCHANGED public
    BY <1>1, <1>2 DEF RefreshToken, public
  <2>2. QED
    BY <1>1, <2>1, EndsStep
<1>3. CASE ById(request[p].row) # {}
  <2> PICK r : r = [request[p] EXCEPT !.at = "enqueue", !.token = issued + 1]
    OBVIOUS
  <2> DEFINE fresh(e) == [pending[e] EXCEPT !.token = issued + 1, !.expired = FALSE]
  <2>1. /\ issued < MaxTokens /\ issued' = issued + 1 /\ request' = [request EXCEPT ![p] = r]
        /\ pending' = [e \in Emails |-> IF e \in ById(request[p].row) THEN fresh(e) ELSE pending[e]]
    BY <1>3 DEF RefreshToken, Goes
  <2>2. issued + 1 \in 0 .. MaxTokens /\ \A e \in Emails : pending[e] \in PendingRows
    <3>1. issued \in 0 .. MaxTokens /\ pending \in [Emails -> PendingRows]
      BY DEF CoreInv, PublicTyped
    <3>2. MaxTokens \in Nat
      BY AudienceAssumption
    <3>3. issued < MaxTokens
      BY <2>1
    <3>4. QED
      BY <3>1, <3>2, <3>3
  <2>3. \A e \in Emails : fresh(e) \in PendingRows
    BY <2>2 DEF PendingRows
  <2> HIDE DEF fresh
  <2>4. PublicTyped'
    BY <1>1, <2>1, <2>2, <2>3 DEF CoreInv, PublicTyped
  <2>5. request[p] \in Requests /\ MovesOn(request[p])
    BY <1>1, RequestFacts, StaysOnRest DEF CoreInv
  <2>6. /\ r \in Requests /\ r.op = "resend" /\ r.at = "enqueue" /\ r.wanted = request[p].wanted
        /\ r.id = request[p].id /\ r.barred = request[p].barred
    BY <1>1, <2>2, <2>5 DEF Requests
  <2>7. MovesOn(r)
    BY <1>1, <2>5, <2>6 DEF MovesOn, Learnt, Barred
  <2>8. RequestsTyped' /\ RequestsKept
    BY <2>1, <2>7, RequestGoes DEF CoreInv
  <2>9. QED
    BY <1>1, <2>4, <2>8, RequestStep
<1>4. QED
  BY <1>2, <1>3

(* Opening a link is what asks for its lists.                              *)
LEMMA ConfirmStep ==
    ASSUME CoreInv, NEW p \in Slots, NEW link \in links, ConfirmSubscription(p, link)
    PROVE  CoreInv'
<1> PICK e \in Emails :
        /\ Begins(p, [Idle EXCEPT !.op = "confirm", !.at = "suppression", !.email = e,
                                  !.row = pending[e].id, !.todo = pending[e].targets,
                                  !.barred = e \in suppressed])
        /\ asked' = asked \cup ({e} \X pending[e].targets)
  BY DEF ConfirmSubscription, ByToken
<1> PICK barred : barred = (e \in suppressed)
  BY Zenon
<1>a. barred <=> e \in suppressed
  OBVIOUS
<1>b. barred \in BOOLEAN
  <2>1. (e \in suppressed) \in BOOLEAN
    BY SMT
  <2>2. QED
    BY <2>1, Zenon
<1> PICK r : r = [Idle EXCEPT !.op = "confirm", !.at = "suppression", !.email = e,
                              !.row = pending[e].id, !.todo = pending[e].targets,
                              !.barred = barred]
  OBVIOUS
<1>1. pending[e].id \in 0 .. MaxTokens /\ pending[e].targets \in SUBSET Lists
  BY DEF CoreInv, PublicTyped, PendingRows
<1>2. /\ r \in Requests /\ r.op = "confirm" /\ r.at = "suppression" /\ r.wanted = {}
      /\ r.email = e /\ r.todo = pending[e].targets /\ r.barred = barred
  BY <1>b, <1>1, IdleFacts, ZenonT(60) DEF Requests, AllOperations
<1>3. UNCHANGED <<rows, public, suppressed>> /\ request' = [request EXCEPT ![p] = r]
  BY DEF ConfirmSubscription, Begins
<1>4. MovesOn(r)
  <2>1. Learnt(r, subs', asked')
    BY <1>2 DEF Learnt
  <2>2. Barred(r, suppressed')
    BY <1>a, <1>2, <1>3 DEF Barred
  <2>3. QED
    BY <1>2, <2>1, <2>2 DEF MovesOn
<1>5. asked \subseteq asked' /\ AskedTyped'
  BY <1>1, <1>3 DEF CoreInv, AskedTyped
<1>6. QED
  BY <1>3, <1>4, <1>5, AskingStep

LEMMA CheckStep == ASSUME CoreInv, NEW p \in Slots, CheckSuppressed(p) PROVE CoreInv'
<1>1. At(p, "confirm", "suppression") /\ UNCHANGED <<rows, public, suppressed, asked>>
  BY DEF CheckSuppressed
<1>2. CASE request[p].email \in suppressed
  BY <1>1, <1>2, EndsStep DEF CheckSuppressed
<1>3. CASE request[p].email \notin suppressed
  <2> PICK r : r = [request[p] EXCEPT !.at = "upsert"]
    OBVIOUS
  <2>1. request' = [request EXCEPT ![p] = r]
    BY <1>3 DEF CheckSuppressed, NextStep, Goes
  <2>2. request[p] \in Requests /\ MovesOn(request[p])
    BY <1>1, RequestFacts, StaysOnRest DEF CoreInv
  <2>3. /\ r \in Requests /\ r.op = "confirm" /\ r.at = "upsert" /\ r.wanted = request[p].wanted
        /\ r.id = request[p].id /\ r.barred = request[p].barred /\ r.todo = request[p].todo
        /\ r.email = request[p].email
    BY <1>1, <2>2 DEF Requests, At
  <2>4. MovesOn(r)
    BY <1>1, <1>3, <2>2, <2>3 DEF MovesOn, Learnt, Barred, At
  <2>5. QED
    BY <1>1, <2>1, <2>4, GoStep
<1>4. QED
  BY <1>2, <1>3

LEMMA UpsertConfirmedStep == ASSUME CoreInv, NEW p \in Slots, UpsertConfirmed(p) PROVE CoreInv'
<1> PICK r : r = [request[p] EXCEPT !.at = "resolve"]
  OBVIOUS
<1>1. /\ request[p].op = "confirm" /\ request[p].at = "upsert" /\ RoomFor(request[p].email)
      /\ subs' = Upserted(request[p].email) /\ request' = [request EXCEPT ![p] = r]
      /\ UNCHANGED <<member, lists, public, suppressed, asked>>
  BY DEF UpsertConfirmed, At, NextStep, Goes
<1>2. /\ RowsTyped /\ request[p] \in Requests /\ Learnt(request[p], subs, asked)
      /\ Barred(request[p], suppressed)
  BY RequestFacts DEF CoreInv, RequestsLearnt, RequestsBarred
<1>3. request[p].email \in Emails
  BY <1>1, <1>2 DEF Learnt
<1>4. /\ SubsTyped /\ Len(subs) <= Len(subs')
      /\ \A i \in Known : subs'[i].email = subs[i].email
  BY <1>1, <1>2, <1>3, UpsertSub
<1>5. RowsTyped' /\ RowsGrow
  BY <1>1, <1>2, <1>4 DEF SubsTyped, RowsTyped, RowsGrow
<1>6. MovesOn(request[p])
  BY <1>1, <1>5, StaysOn
<1>7. /\ r \in Requests /\ r.op = "confirm" /\ r.at = "resolve" /\ r.wanted = request[p].wanted
      /\ r.id = request[p].id /\ r.barred = request[p].barred /\ r.todo = request[p].todo
      /\ r.email = request[p].email
  BY <1>1, <1>2 DEF Requests
<1>8. MovesOn(r)
  BY <1>1, <1>2, <1>6, <1>7 DEF MovesOn, Learnt, Barred
<1>9. RequestsTyped' /\ RequestsKept
  BY <1>1, <1>8, RequestGoes DEF CoreInv
<1>10. QED
  BY <1>1, <1>4, <1>9, SubsStep

LEMMA ResolveStep == ASSUME CoreInv, NEW p \in Slots, ResolveID(p) PROVE CoreInv'
<1>1. /\ request[p].op = "confirm" /\ request[p].at = "resolve"
      /\ UNCHANGED <<rows, public, suppressed, asked>>
  BY DEF ResolveID, At
<1>2. CASE Found(request[p].email) = {}
  BY <1>1, <1>2, EndsStep DEF ResolveID
<1>3. CASE Found(request[p].email) # {}
  <2> PICK i : i = Newest(Found(request[p].email))
    OBVIOUS
  <2> PICK r : r = [request[p] EXCEPT !.at = "attach", !.id = i]
    OBVIOUS
  <2>1. request' = [request EXCEPT ![p] = r]
    BY <1>3 DEF ResolveID, Goes
  <2>2. /\ RowsTyped /\ request[p] \in Requests /\ MovesOn(request[p])
    BY <1>1, RequestFacts, StaysOnRest DEF CoreInv
  <2>3. request[p].email \in Emails
    BY <1>1, <2>2 DEF MovesOn, Learnt
  <2>4. i \in Known /\ i \in 0 .. MaxSubs /\ (NamesApart => subs[i].email = request[p].email)
    BY <1>3, <2>2, <2>3, FoundNewest, SubFacts DEF Ids
  <2>5. /\ r \in Requests /\ r.op = "confirm" /\ r.at = "attach" /\ r.wanted = request[p].wanted
        /\ r.id = i /\ r.barred = request[p].barred /\ r.todo = request[p].todo
        /\ r.email = request[p].email
    BY <1>1, <2>2, <2>4 DEF Requests
  <2>6. request[p].wanted = {}
    BY <1>1, <2>2 DEF MovesOn, Learnt
  <2>7. MovesOn(r)
    BY <1>1, <2>2, <2>4, <2>5, <2>6 DEF MovesOn, Learnt, Barred, rows, Known
  <2>8. QED
    BY <1>1, <2>1, <2>7, GoStep
<1>4. QED
  BY <1>2, <1>3

LEMMA ConfirmMembershipStep ==
    ASSUME CoreInv, NEW p \in Slots, NEW l \in Lists, ConfirmMembership(p, l)
    PROVE  CoreInv'
<1>1. /\ request[p].op = "confirm" /\ request[p].at = "attach" /\ l \in request[p].todo
      /\ UNCHANGED <<subs, lists, public, suppressed, asked>>
  BY DEF ConfirmMembership, At
<1>2. Learnt(request[p], subs, asked) /\ RowsTyped /\ RequestsTyped /\ AskedTyped
  BY DEF CoreInv, RequestsLearnt
<1>3. CASE request[p].id \in Live /\ l \in lists
  <2> PICK i : i = request[p].id
    OBVIOUS
  <2>1. i \in Known /\ (NamesApart => <<subs[i].email, l>> \in asked)
    BY <1>1, <1>2 DEF Learnt, Known
  <2>2. SetMember(i, l, "confirmed") /\ Crosses(p, l)
    BY <1>3 DEF ConfirmMembership
  <2>3. request[p] \in Requests /\ Barred(request[p], suppressed) /\ subs' = subs /\ asked' = asked
    BY <1>1, RequestFacts DEF CoreInv, RequestsBarred
  <2>4. MovesOn(request[p])
    BY <1>1, <1>2, <2>3 DEF MovesOn
  <2>5. RequestsTyped' /\ RequestsKept
    BY <1>2, <2>2, <2>4, CrossesOff
  <2>6. AskedTyped' /\ asked \subseteq asked' /\ "confirmed" \in Statuses
    BY <1>1, <1>2 DEF AskedTyped, Statuses
  <2>7. QED
    BY <1>1, <2>1, <2>2, <2>5, <2>6, MemberStep
<1>4. CASE ~(request[p].id \in Live /\ l \in lists)
  <2>1. Ends(p) /\ UNCHANGED rows
    BY <1>1, <1>4 DEF ConfirmMembership, rows
  <2>2. QED
    BY <1>1, <2>1, EndsStep
<1>5. QED
  BY <1>3, <1>4

LEMMA DeletePendingStep == ASSUME CoreInv, NEW p \in Slots, DeletePending(p) PROVE CoreInv'
<1>1. /\ pending' = [e \in Emails |-> IF e \in ById(request[p].row) THEN NoPending ELSE pending[e]]
      /\ request' = [request EXCEPT ![p] = Idle]
      /\ UNCHANGED <<rows, page, issued, optin, links, suppressed, asked>>
  BY DEF DeletePending, Ends, Goes
<1>2. NoPending \in PendingRows
  BY AudienceAssumption DEF NoPending, PendingRows
<1>3. PublicTyped'
  BY <1>1, <1>2 DEF CoreInv, PublicTyped
<1>4. RequestsTyped' /\ RequestsKept
  BY <1>1, IdleMovesOn, RequestGoes DEF CoreInv
<1>5. QED
  BY <1>1, <1>3, <1>4, RequestStep

(* An address that gets on the list or off it frees its confirmations.     *)
LEMMA ChangeSuppressionStep == ASSUME CoreInv, NEW e \in Emails, ChangeSuppression(e) PROVE CoreInv'
<1> DEFINE freed(p) == [request[p] EXCEPT !.barred = FALSE]
<1>1. /\ suppressed' = (suppressed \ {e}) \cup ({e} \ suppressed)
      /\ request' = [p \in Slots |-> IF request[p].email = e THEN freed(p) ELSE request[p]]
      /\ UNCHANGED <<rows, public, asked>>
  BY DEF ChangeSuppression
<1>2. RowsTyped /\ PublicTyped /\ RequestsTyped /\ AskedTyped
      /\ RequestsLearnt /\ MembersAsked /\ RequestsBarred
  BY DEF CoreInv
<1>3. \A p \in Slots :
          /\ request[p] \in Requests /\ Learnt(request[p], subs, asked) /\ Barred(request[p], suppressed)
          /\ freed(p) \in Requests /\ ~freed(p).barred
          /\ freed(p).op = request[p].op /\ freed(p).at = request[p].at /\ freed(p).id = request[p].id
          /\ freed(p).email = request[p].email /\ freed(p).wanted = request[p].wanted
          /\ freed(p).todo = request[p].todo
  BY <1>2, RequestFacts, ZenonT(60) DEF Requests, RequestsLearnt, RequestsBarred
<1>4. \A p \in Slots : Learnt(freed(p), subs, asked)
  BY <1>3, ZenonT(60) DEF Learnt
<1> HIDE DEF freed
<1>5. RequestsTyped'
  BY <1>1, <1>3 DEF RequestsTyped
<1>6. \A p \in Slots : Learnt(request'[p], subs', asked') /\ Barred(request'[p], suppressed')
  <2> SUFFICES ASSUME NEW p \in Slots
               PROVE  Learnt(request'[p], subs', asked') /\ Barred(request'[p], suppressed')
    OBVIOUS
  <2>1. subs' = subs /\ asked' = asked
    BY <1>1 DEF rows
  <2>2. CASE request[p].email = e
    BY <1>1, <1>3, <1>4, <2>1, <2>2 DEF Barred
  <2>3. CASE request[p].email # e
    BY <1>1, <1>3, <2>1, <2>3 DEF Barred
  <2>4. QED
    BY <2>2, <2>3
<1>7. RequestsLearnt' /\ RequestsBarred'
  BY <1>6 DEF RequestsLearnt, RequestsBarred, Learnt, Barred
<1>8. RowsTyped' /\ PublicTyped' /\ AskedTyped' /\ MembersAsked'
  BY <1>1, <1>2 DEF RowsTyped, PublicTyped, AskedTyped, MembersAsked, rows, public, Known
<1>9. QED
  BY <1>5, <1>7, <1>8 DEF CoreInv

LEMMA UnsubscribeStep ==
    ASSUME CoreInv, NEW p \in Slots, NEW i \in Known, PublicUnsubscribe(p, i)
    PROVE  CoreInv'
<1> PICK r : r = [Idle EXCEPT !.op = "unsubscribe", !.at = "lists", !.id = i, !.todo = SubscribedTo(i)]
  OBVIOUS
<1>1. RowsTyped /\ i \in 0 .. MaxSubs /\ SubscribedTo(i) \in SUBSET Lists
  BY SubFacts DEF CoreInv, Ids, SubscribedTo, ListsOf
<1>2. /\ r \in Requests /\ r.op = "unsubscribe" /\ r.at = "lists" /\ r.wanted = {} /\ ~r.barred /\ r.id = i
  BY <1>1, IdleFacts DEF Requests, AllOperations
<1>3. UNCHANGED <<rows, public, suppressed, asked>> /\ request' = [request EXCEPT ![p] = r]
  BY DEF PublicUnsubscribe, Begins
<1>4. MovesOn(r)
  BY <1>2, <1>3 DEF MovesOn, Learnt, Barred, Known, rows
<1>5. QED
  BY <1>3, <1>4, GoStep

(* Ticking a list is what asks for it.                                     *)
LEMMA PreferencesStep ==
    ASSUME CoreInv, NEW p \in Slots, NEW i \in Known, NEW ticked \in SUBSET Lists,
           UpdatePreferences(p, i, ticked)
    PROVE  CoreInv'
<1> PICK wanted : wanted = ListsOf(i) \cap ticked
  OBVIOUS
<1> PICK r : r = [Idle EXCEPT !.op = "preferences", !.at = "profile", !.id = i,
                              !.todo = ListsOf(i), !.wanted = wanted, !.state = subs[i].state]
  OBVIOUS
<1>1. /\ RowsTyped /\ i \in 0 .. MaxSubs /\ ListsOf(i) \in SUBSET Lists /\ wanted \in SUBSET Lists
      /\ subs[i].state \in States /\ subs[i].email \in Emails
  BY SubFacts DEF CoreInv, Ids, ListsOf
<1>2. /\ r \in Requests /\ r.op = "preferences" /\ r.at = "profile" /\ r.wanted = wanted
      /\ ~r.barred /\ r.id = i
  BY <1>1, IdleFacts DEF Requests, AllOperations
<1>3. /\ UNCHANGED <<rows, public, suppressed>> /\ request' = [request EXCEPT ![p] = r]
      /\ asked' = asked \cup ({subs[i].email} \X wanted)
  BY DEF UpdatePreferences, Begins
<1>4. MovesOn(r)
  BY <1>2, <1>3 DEF MovesOn, Learnt, Barred, Known, rows
<1>5. asked \subseteq asked' /\ AskedTyped'
  BY <1>1, <1>3 DEF CoreInv, AskedTyped
<1>6. QED
  BY <1>3, <1>4, <1>5, AskingStep

LEMMA SetStatusStep == ASSUME CoreInv, NEW p \in Slots, NEW l \in Lists, SetStatus(p, l) PROVE CoreInv'
<1> PICK i : i = request[p].id
  OBVIOUS
<1>1. /\ request[p].at = "lists" /\ UNCHANGED <<subs, lists, public, suppressed, asked>>
  BY DEF SetStatus
<1>2. /\ Learnt(request[p], subs, asked) /\ RowsTyped /\ RequestsTyped /\ AskedTyped
      /\ request[p] \in Requests /\ Barred(request[p], suppressed)
  BY RequestFacts DEF CoreInv, RequestsLearnt, RequestsBarred
<1>3. MovesOn(request[p]) /\ i \in Known
  BY <1>1, <1>2 DEF MovesOn, Learnt, Known
<1>4. CASE member[i][l] = "none"
  <2>1. UNCHANGED rows /\ (Ends(p) \/ Crosses(p, l))
    BY <1>1, <1>4 DEF SetStatus, rows
  <2>2. CASE Ends(p)
    BY <1>1, <2>1, <2>2, EndsStep
  <2>3. CASE Crosses(p, l)
    <3>1. RequestsTyped' /\ RequestsKept
      BY <1>2, <1>3, <2>3, CrossesOff
    <3>2. QED
      BY <1>1, <2>1, <3>1, RequestStep, PublicRest DEF CoreInv
  <2>4. QED
    BY <2>1, <2>2, <2>3
<1>5. CASE member[i][l] # "none"
  <2> PICK status : status = IF l \in request[p].wanted THEN "confirmed" ELSE "unsubscribed"
    OBVIOUS
  <2>1. SetMember(i, l, status) /\ Crosses(p, l) /\ status \in Statuses
    BY <1>5 DEF SetStatus, Statuses
  <2>2. status = "confirmed" => <<subs[i].email, l>> \in asked'
    BY <1>1, <1>2 DEF Learnt
  <2>3. RequestsTyped' /\ RequestsKept
    BY <1>2, <1>3, <2>1, CrossesOff
  <2>4. AskedTyped' /\ asked \subseteq asked'
    BY <1>1, <1>2 DEF AskedTyped
  <2>5. QED
    BY <1>1, <1>3, <2>1, <2>2, <2>3, <2>4, MemberStep
<1>6. QED
  BY <1>4, <1>5

LEMMA UpdateStep ==
    ASSUME CoreInv, NEW p \in Slots, NEW i \in Known, NEW state \in States, UpdateSubscriber(p, i, state)
    PROVE  CoreInv'
<1> PICK r : r = [Idle EXCEPT !.op = "update", !.at = "profile", !.id = i, !.state = state]
  OBVIOUS
<1>1. RowsTyped /\ i \in 0 .. MaxSubs
  BY SubFacts DEF CoreInv, Ids
<1>2. /\ r \in Requests /\ r.op = "update" /\ r.at = "profile" /\ r.wanted = {} /\ ~r.barred /\ r.id = i
  BY <1>1, IdleFacts DEF Requests, AllOperations
<1>3. UNCHANGED <<rows, public, suppressed, asked>> /\ request' = [request EXCEPT ![p] = r]
  BY DEF UpdateSubscriber, Begins
<1>4. MovesOn(r)
  BY <1>2, <1>3 DEF MovesOn, Learnt, Barred, Known, rows
<1>5. QED
  BY <1>3, <1>4, GoStep

(* A row that is written back keeps its address.                           *)
LEMMA SubRewritten ==
    ASSUME RowsTyped, NEW i \in Known, NEW row \in SubRows, row.email = subs[i].email,
           subs' = [subs EXCEPT ![i] = row]
    PROVE  /\ SubsTyped /\ Len(subs) <= Len(subs') /\ \A j \in Known : subs'[j].email = subs[j].email
<1>1. subs \in Seq(SubRows) /\ Len(subs) \in Nat /\ i \in 1 .. Len(subs) /\ Len(subs) <= MaxSubs
  BY SubFacts DEF RowsTyped, Known
<1>2. /\ subs' \in Seq(SubRows) /\ Len(subs') = Len(subs)
      /\ \A j \in 1 .. Len(subs) : subs'[j] = IF j = i THEN row ELSE subs[j]
  BY <1>1, ExceptSeq
<1>3. QED
  BY <1>1, <1>2 DEF SubsTyped, Known

LEMMA WriteStep == ASSUME CoreInv, NEW p \in Slots, WriteSubscriber(p) PROVE CoreInv'
<1> PICK i, r : i = request[p].id /\ r = [request[p] EXCEPT !.at = "lists"]
  OBVIOUS
<1>1. /\ request[p].at = "profile" /\ UNCHANGED <<member, lists, public, suppressed, asked>>
      /\ \/ request' = [request EXCEPT ![p] = Idle]
         \/ request[p].op = "preferences" /\ request' = [request EXCEPT ![p] = r]
  BY DEF WriteSubscriber, NextStep, Ends, Goes
<1>2. /\ Learnt(request[p], subs, asked) /\ RowsTyped /\ RequestsTyped
      /\ request[p] \in Requests /\ Barred(request[p], suppressed)
      /\ request[p].state \in States
  BY RequestFacts DEF CoreInv, RequestsLearnt, RequestsBarred
<1>3. i \in Known
  BY <1>1, <1>2 DEF Learnt, Known
<1> PICK row : row = [subs[i] EXCEPT !.state = IF subs[i].live THEN request[p].state ELSE @]
  OBVIOUS
<1>4. row \in SubRows /\ row.email = subs[i].email /\ subs' = [subs EXCEPT ![i] = row]
  <2>1. subs[i] \in SubRows /\ subs[i].state \in States
    BY <1>2, <1>3, SubFacts
  <2>2. row \in SubRows /\ row.email = subs[i].email
    BY <1>2, <2>1 DEF SubRows
  <2>3. QED
    BY <2>2 DEF WriteSubscriber
<1>5. /\ SubsTyped /\ Len(subs) <= Len(subs') /\ \A j \in Known : subs'[j].email = subs[j].email
  BY <1>2, <1>3, <1>4, SubRewritten
<1>6. RowsTyped' /\ RowsGrow
  BY <1>1, <1>2, <1>5 DEF SubsTyped, RowsTyped, RowsGrow
<1>7. MovesOn(request[p])
  BY <1>1, <1>6, StaysOn
<1>8. request[p].op = "preferences" =>
        /\ r \in Requests /\ r.op = "preferences" /\ r.at = "lists" /\ r.wanted = request[p].wanted
        /\ r.id = request[p].id /\ r.barred = request[p].barred
  BY <1>2 DEF Requests
<1>9. request[p].op = "preferences" => MovesOn(r)
  BY <1>1, <1>7, <1>8 DEF MovesOn, Learnt, Barred
<1>10. RequestsTyped' /\ RequestsKept
  BY <1>1, <1>2, <1>9, IdleMovesOn, RequestGoes
<1>11. QED
  BY <1>1, <1>5, <1>10, SubsStep

LEMMA CreateStep ==
    ASSUME CoreInv, NEW p \in Slots, NEW e \in Emails, NEW chosen \in SUBSET Lists,
           CreateSubscriber(p, e, chosen)
    PROVE  CoreInv'
<1> PICK r : r = [Idle EXCEPT !.op = "create", !.at = "attach", !.id = Len(subs) + 1, !.todo = chosen]
  OBVIOUS
<1>1. /\ Len(subs) < MaxSubs
      /\ subs' = Append(subs, [email |-> e, state |-> "enabled", live |-> TRUE])
      /\ request' = [request EXCEPT ![p] = r] \/ UNCHANGED request
      /\ UNCHANGED <<member, lists, public, suppressed, asked>>
  BY DEF CreateSubscriber, Does, Begins
<1>2. RowsTyped /\ RequestsTyped /\ Len(subs) \in Nat /\ MaxSubs \in Nat
  BY SubFacts DEF CoreInv
<1>3. /\ SubsTyped /\ Len(subs') = Len(subs) + 1 /\ \A i \in Known : subs'[i] = subs[i]
  BY <1>1, <1>2, AppendSub
<1>4. /\ r \in Requests /\ r.op = "create" /\ r.at = "attach" /\ r.wanted = {} /\ ~r.barred
      /\ r.id = Len(subs) + 1
  <2>1. Len(subs) + 1 \in 0 .. MaxSubs
    BY <1>1, <1>2
  <2> PICK n : n = Len(subs) + 1
    OBVIOUS
  <2>2. QED
    BY <2>1, IdleFacts DEF Requests, AllOperations
<1>5. MovesOn(r)
  BY <1>2, <1>3, <1>4 DEF MovesOn, Learnt, Barred
<1>6. RequestsTyped' /\ RequestsKept
  BY <1>1, <1>2, <1>5, RequestGoes, RequestsRest
<1>7. Len(subs) <= Len(subs') /\ \A i \in Known : subs'[i].email = subs[i].email
  BY <1>2, <1>3
<1>8. QED
  BY <1>1, <1>3, <1>6, <1>7, SubsStep

LEMMA AttachStep == ASSUME CoreInv, NEW p \in Slots, NEW l \in Lists, AttachCreated(p, l) PROVE CoreInv'
<1> PICK i : i = request[p].id
  OBVIOUS
<1>1. UNCHANGED <<subs, lists, public, suppressed, asked>>
  BY DEF AttachCreated
<1>2. /\ RowsTyped /\ RequestsTyped /\ AskedTyped /\ request[p] \in Requests
      /\ Learnt(request[p], subs, asked) /\ Barred(request[p], suppressed)
  BY RequestFacts DEF CoreInv, RequestsLearnt, RequestsBarred
<1>3. CASE CanAttach(i, l)
  <2>1. i \in Known /\ SetMember(i, l, "unconfirmed") /\ Crosses(p, l)
    BY <1>2, <1>3, SubFacts DEF AttachCreated, CanAttach
  <2>2. MovesOn(request[p])
    BY <1>1, <1>2 DEF MovesOn
  <2>3. RequestsTyped' /\ RequestsKept
    BY <1>2, <2>1, <2>2, CrossesOff
  <2>4. AskedTyped' /\ asked \subseteq asked' /\ "unconfirmed" \in Statuses
    BY <1>1, <1>2 DEF AskedTyped, Statuses
  <2>5. QED
    BY <1>1, <2>1, <2>3, <2>4, MemberStep
<1>4. CASE ~CanAttach(i, l)
  <2>1. Ends(p) /\ UNCHANGED rows
    BY <1>1, <1>4 DEF AttachCreated, rows
  <2>2. QED
    BY <1>1, <2>1, EndsStep
<1>5. QED
  BY <1>3, <1>4

LEMMA MembersStep ==
    ASSUME CoreInv, RowsTyped', MembersKept, UNCHANGED <<subs, public, suppressed, asked, request>>
    PROVE  CoreInv'
<1>1. RowsTyped /\ PublicTyped /\ AskedTyped /\ RequestsTyped
  BY DEF CoreInv
<1>2. RowsGrow /\ AskedTyped'
  BY <1>1, SubFacts DEF RowsGrow, AskedTyped
<1>3. QED
  BY <1>1, <1>2, PublicRest, RequestsRest, CoreKept

LEMMA DeleteStep == ASSUME CoreInv, NEW i \in Known, DeleteSubscriber(i) PROVE CoreInv'
<1>1. /\ subs' = [subs EXCEPT ![i].live = FALSE]
      /\ member' = [member EXCEPT ![i] = [l \in Lists |-> "none"]]
      /\ UNCHANGED <<lists, public, suppressed, asked, request>>
  BY DEF DeleteSubscriber, Does
<1>2. RowsTyped /\ PublicTyped /\ AskedTyped /\ RequestsTyped
  BY DEF CoreInv
<1> PICK row : row = [subs[i] EXCEPT !.live = FALSE]
  OBVIOUS
<1>3. row \in SubRows /\ row.email = subs[i].email /\ subs' = [subs EXCEPT ![i] = row]
  <2>1. subs[i] \in SubRows
    BY <1>2, SubFacts
  <2>2. QED
    BY <1>1, <2>1 DEF SubRows
<1>4. /\ SubsTyped /\ Len(subs) <= Len(subs') /\ \A j \in Known : subs'[j].email = subs[j].email
  BY <1>2, <1>3, SubRewritten
<1>5. /\ member' \in [Ids -> [Lists -> Statuses]]
      /\ \A j \in Ids, l \in Lists : member'[j][l] = IF j = i THEN "none" ELSE member[j][l]
  BY <1>1, <1>2 DEF RowsTyped, Statuses
<1>6. RowsTyped' /\ RowsGrow /\ MembersKept
  BY <1>1, <1>2, <1>4, <1>5 DEF RowsTyped, SubsTyped, RowsGrow, MembersKept
<1>7. AskedTyped'
  BY <1>1, <1>2 DEF AskedTyped
<1>8. QED
  BY <1>1, <1>2, <1>6, <1>7, PublicRest, RequestsRest, CoreKept

LEMMA SetMemberStep ==
    ASSUME CoreInv, NEW i \in Known, NEW l \in Lists, NEW status \in Statuses, SetMember(i, l, status),
           status # "confirmed", UNCHANGED <<subs, lists, public, suppressed, asked, request>>
    PROVE  CoreInv'
<1>1. AskedTyped' /\ asked \subseteq asked' /\ RequestsTyped' /\ RequestsKept
  BY RequestsRest DEF CoreInv, AskedTyped
<1>2. QED
  BY <1>1, MemberStep

LEMMA AddStep == ASSUME CoreInv, NEW i \in Known, NEW l \in Lists, AddToList(i, l) PROVE CoreInv'
<1>1. "unconfirmed" \in Statuses
  BY DEF Statuses
<1>2. QED
  BY <1>1, SetMemberStep DEF AddToList, Does

LEMMA RemoveStep == ASSUME CoreInv, NEW i \in Known, NEW l \in Lists, RemoveFromList(i, l) PROVE CoreInv'
<1>1. "none" \in Statuses
  BY DEF Statuses
<1>2. QED
  BY <1>1, SetMemberStep DEF RemoveFromList, Does

(* An operator who confirms a membership answers for it.                   *)
LEMMA ChangeStep ==
    ASSUME CoreInv, NEW i \in Known, NEW l \in Lists, NEW status \in Statuses \ {"none"},
           ChangeSubscriptionState(i, l, status)
    PROVE  CoreInv'
<1>1. /\ SetMember(i, l, status) /\ UNCHANGED <<subs, lists, public, suppressed, request>>
      /\ asked' = IF status = "confirmed" THEN asked \cup {<<subs[i].email, l>>} ELSE asked
  BY DEF ChangeSubscriptionState, Does
<1>2. subs[i].email \in Emails
  BY SubFacts DEF CoreInv
<1>3. /\ status = "confirmed" => <<subs[i].email, l>> \in asked'
      /\ asked \subseteq asked' /\ AskedTyped'
  BY <1>1, <1>2 DEF CoreInv, AskedTyped
<1>4. RequestsTyped' /\ RequestsKept
  BY <1>1, RequestsRest DEF CoreInv
<1>5. QED
  BY <1>1, <1>3, <1>4, MemberStep

LEMMA CreateListStep == ASSUME CoreInv, NEW l \in Lists, CreateList(l) PROVE CoreInv'
<1>1. RowsTyped' /\ MembersKept
  BY DEF CoreInv, CreateList, RowsTyped, MembersKept
<1>2. QED
  BY <1>1, MembersStep DEF CreateList, Does

LEMMA DeleteListStep == ASSUME CoreInv, NEW l \in Lists, DeleteList(l) PROVE CoreInv'
<1>1. /\ member' = [i \in Ids |-> [member[i] EXCEPT ![l] = "none"]] /\ lists' = lists \ {l}
      /\ UNCHANGED <<subs, public, suppressed, asked, request>>
  BY DEF DeleteList, Does
<1>2. RowsTyped
  BY DEF CoreInv
<1>3. \A i \in Ids : /\ [member[i] EXCEPT ![l] = "none"] \in [Lists -> Statuses]
                     /\ \A k \in Lists : [member[i] EXCEPT ![l] = "none"][k]
                                         = IF k = l THEN "none" ELSE member[i][k]
  BY <1>2, SubFacts DEF Statuses
<1>4. RowsTyped'
  BY <1>1, <1>2, <1>3 DEF RowsTyped
<1>5. MembersKept
  BY <1>1, <1>3 DEF MembersKept
<1>6. QED
  BY <1>1, <1>4, <1>5, MembersStep

LEMMA SavePageStep ==
    ASSUME CoreInv, NEW p \in Slots, NEW targets \in SUBSET Lists, NEW active \in BOOLEAN,
           SaveSubscriptionPage(p, targets, active)
    PROVE  CoreInv'
<1> PICK r : r = [Idle EXCEPT !.op = "page", !.at = "page", !.todo = targets, !.active = active]
  OBVIOUS
<1>1. /\ r \in Requests /\ r.op = "page" /\ r.at = "page" /\ r.wanted = {} /\ ~r.barred
  BY IdleFacts DEF Requests, AllOperations
<1>2. MovesOn(r)
  BY <1>1 DEF MovesOn, Learnt, Barred
<1>3. QED
  BY <1>2, GoStep DEF SaveSubscriptionPage, Begins

LEMMA ReconfigureStep == ASSUME CoreInv, NEW p \in Slots, Reconfigure(p) PROVE CoreInv'
<1>1. /\ page' = [targets |-> request[p].todo, active |-> request[p].active]
      /\ request' = [request EXCEPT ![p] = Idle]
      /\ UNCHANGED <<rows, pending, issued, optin, links, suppressed, asked>>
  BY DEF Reconfigure, Ends, Goes
<1>2. PublicTyped'
  BY <1>1, RequestFacts DEF CoreInv, PublicTyped
<1>3. RequestsTyped' /\ RequestsKept
  BY <1>1, IdleMovesOn, RequestGoes DEF CoreInv
<1>4. QED
  BY <1>1, <1>2, <1>3, RequestStep

(* The jobs, as far as the rows and the requests go.                       *)
LEMMA StartJobStep ==
    ASSUME CoreInv, NEW p \in Slots, NEW op \in {"import", "export"},
           Begins(p, [Idle EXCEPT !.op = op, !.at = "enqueue"]),
           UNCHANGED <<rows, public, suppressed, asked>>
    PROVE  CoreInv'
<1> PICK r : r = [Idle EXCEPT !.op = op, !.at = "enqueue"]
  OBVIOUS
<1>1. r \in Requests /\ r.op = op /\ r.at = "enqueue" /\ r.wanted = {} /\ ~r.barred
  BY IdleFacts DEF Requests, AllOperations
<1>2. MovesOn(r)
  BY <1>1 DEF MovesOn, Learnt, Barred
<1>3. QED
  BY <1>2, GoStep DEF Begins

LEMMA FileRow ==
    ASSUME JobsTyped, NEW n \in 1 .. Len(import.rows)
    PROVE  import.rows[n] \in Emails \cup {"bad"}
  BY DEF JobsTyped, ImportTyped, Imports

LEMMA ImportRowStep == ASSUME CoreInv, JobsTyped, ImportCounts, ImportRow PROVE CoreInv'
<1> PICK e : e = import.rows[importer.row]
  OBVIOUS
<1>1. UNCHANGED <<member, lists, public, suppressed, asked, request>>
  BY DEF ImportRow, asking
<1>2. CASE UNCHANGED subs
  <2>1. UNCHANGED rows
    BY <1>1, <1>2 DEF rows
  <2>2. QED
    BY <1>1, <2>1, RestStep
<1>3. CASE e # "bad" /\ RoomFor(e) /\ subs' = Upserted(e)
  <2>1. importer.row \in 1 .. Len(import.rows)
    <3>1. importer.at = "upsert" /\ importer.row <= Len(import.rows)
      BY DEF ImportRow
    <3>2. importer.row \in 1 .. Len(import.rows) + 1 /\ Len(import.rows) \in Nat
      BY <3>1 DEF ImportCounts, JobsTyped, ImportTyped, Imports
    <3>3. QED
      BY <3>1, <3>2
  <2>2. e \in Emails
    BY <1>3, <2>1, FileRow
  <2>3. /\ SubsTyped /\ Len(subs) <= Len(subs') /\ \A i \in Known : subs'[i].email = subs[i].email
    BY <1>3, <2>2, UpsertSub DEF CoreInv
  <2>4. RequestsTyped' /\ RequestsKept
    BY <1>1, RequestsRest DEF CoreInv
  <2>5. QED
    BY <1>1, <2>3, <2>4, SubsStep
<1>4. QED
  BY <1>2, <1>3 DEF ImportRow

(* What attachToLists does to the memberships.                             *)
LEMMA Attached ==
    ASSUME RowsTyped, AttachToLists
    PROVE  /\ member' \in [Ids -> [Lists -> Statuses]]
           /\ \A i \in Ids, l \in Lists :
                 member'[i][l] = member[i][l] \/ (member[i][l] = "none" /\ member'[i][l] = "unconfirmed")
<1> PICK found : found = Found(import.rows[importer.row])
  OBVIOUS
<1>1. CASE found = {}
  BY <1>1 DEF AttachToLists, RowsTyped
<1>2. CASE found # {}
  <2> PICK n : n = Newest(found)
    OBVIOUS
  <2> PICK attached : attached = [l \in Lists |->
          IF l \in import.targets /\ CanAttach(n, l) THEN "unconfirmed" ELSE member[n][l]]
    OBVIOUS
  <2>1. n \in Ids
    <3>1. found \subseteq 1 .. Len(subs) /\ Len(subs) \in Nat
      BY SubFacts DEF Found
    <3>2. n \in found
      BY <1>2, <3>1, NewestOfSome
    <3>3. QED
      BY <3>1, <3>2, SubFacts
  <2>2. member' = [member EXCEPT ![n] = attached]
    BY <1>2, <2>1 DEF AttachToLists, RowsTyped
  <2>3. /\ attached \in [Lists -> Statuses]
        /\ \A l \in Lists :
              attached[l] = member[n][l] \/ (member[n][l] = "none" /\ attached[l] = "unconfirmed")
    <3>1. member[n] \in [Lists -> Statuses] /\ "unconfirmed" \in Statuses
      BY <2>1, SubFacts DEF Statuses
    <3>2. \A l \in Lists : CanAttach(n, l) => member[n][l] = "none"
      BY DEF CanAttach
    <3>3. \A l \in Lists :
              attached[l] = member[n][l] \/ (member[n][l] = "none" /\ attached[l] = "unconfirmed")
      BY <3>2
    <3>4. attached \in [Lists -> Statuses]
      BY <3>1
    <3>5. QED
      BY <3>3, <3>4
  <2>4. QED
    BY <2>1, <2>2, <2>3 DEF RowsTyped
<1>3. QED
  BY <1>1, <1>2

LEMMA AttachToListsStep == ASSUME CoreInv, AttachToLists PROVE CoreInv'
<1>1. UNCHANGED <<subs, lists, public, suppressed, asked, request>>
  BY DEF AttachToLists, asking
<1>2. RowsTyped' /\ MembersKept
  BY <1>1, Attached DEF CoreInv, RowsTyped, MembersKept
<1>3. QED
  BY <1>1, <1>2, MembersStep

LEMMA PublicStep == ASSUME CoreInv, Public PROVE CoreInv'
<1>1. CASE \E p \in Slots, e \in Emails : SubmitPublicSubscription(p, e)
  BY <1>1, SubmitStep
<1>2. CASE \E p \in Slots : UpsertPending(p)
  BY <1>2, UpsertPendingStep
<1>3. CASE \E p \in Slots : EnqueueOptinSend(p)
  BY <1>3, EnqueueOptinStep
<1>4. CASE \E job \in optin : SendOptin(job)
  BY <1>4, SendOptinStep
<1>5. CASE \E e \in Emails : Expire(e)
  BY <1>5, ExpireStep
<1>6. CASE \E p \in Slots, link \in links : ResendConfirmation(p, link)
  BY <1>6, ResendStep
<1>7. CASE \E p \in Slots : RefreshToken(p)
  BY <1>7, RefreshStep
<1>8. CASE \E p \in Slots, link \in links : ConfirmSubscription(p, link)
  BY <1>8, ConfirmStep
<1>9. CASE \E p \in Slots : CheckSuppressed(p)
  BY <1>9, CheckStep
<1>10. CASE \E p \in Slots : UpsertConfirmed(p)
  BY <1>10, UpsertConfirmedStep
<1>11. CASE \E p \in Slots : ResolveID(p)
  BY <1>11, ResolveStep
<1>12. CASE \E p \in Slots, l \in Lists : ConfirmMembership(p, l)
  BY <1>12, ConfirmMembershipStep
<1>13. CASE \E p \in Slots : DeletePending(p)
  BY <1>13, DeletePendingStep
<1>14. CASE \E e \in Emails : ChangeSuppression(e)
  BY <1>14, ChangeSuppressionStep
<1>15. CASE \E p \in Slots, i \in Known : PublicUnsubscribe(p, i)
  BY <1>15, UnsubscribeStep
<1>16. CASE \E p \in Slots, i \in Known, ticked \in SUBSET Lists : UpdatePreferences(p, i, ticked)
  BY <1>16, PreferencesStep
<1>17. CASE \E p \in Slots, l \in Lists : SetStatus(p, l)
  BY <1>17, SetStatusStep
<1>18. QED
  BY <1>1, <1>2, <1>3, <1>4, <1>5, <1>6, <1>7, <1>8, <1>9, <1>10, <1>11, <1>12, <1>13, <1>14,
     <1>15, <1>16, <1>17 DEF Public

LEMMA OperateStep == ASSUME CoreInv, Operate PROVE CoreInv'
<1>1. CASE \E p \in Slots, i \in Known, state \in States : UpdateSubscriber(p, i, state)
  BY <1>1, UpdateStep
<1>2. CASE \E p \in Slots : WriteSubscriber(p)
  BY <1>2, WriteStep
<1>3. CASE \E p \in Slots, e \in Emails, chosen \in SUBSET Lists : CreateSubscriber(p, e, chosen)
  BY <1>3, CreateStep
<1>4. CASE \E p \in Slots, l \in Lists : AttachCreated(p, l)
  BY <1>4, AttachStep
<1>5. CASE \E i \in Known : DeleteSubscriber(i)
  BY <1>5, DeleteStep
<1>6. CASE \E i \in Known, l \in Lists : AddToList(i, l)
  BY <1>6, AddStep
<1>7. CASE \E i \in Known, l \in Lists : RemoveFromList(i, l)
  BY <1>7, RemoveStep
<1>8. CASE \E i \in Known, l \in Lists, status \in Statuses \ {"none"} : ChangeSubscriptionState(i, l, status)
  BY <1>8, ChangeStep
<1>9. CASE \E l \in Lists : CreateList(l)
  BY <1>9, CreateListStep
<1>10. CASE \E l \in Lists : DeleteList(l)
  BY <1>10, DeleteListStep
<1>11. CASE \E p \in Slots, targets \in SUBSET Lists, active \in BOOLEAN :
              SaveSubscriptionPage(p, targets, active)
  BY <1>11, SavePageStep
<1>12. CASE \E p \in Slots : Reconfigure(p)
  BY <1>12, ReconfigureStep
<1>13. CASE \E p \in Slots : RequestFails(p)
  BY <1>13, EndsStep DEF RequestFails
<1>14. QED
  BY <1>1, <1>2, <1>3, <1>4, <1>5, <1>6, <1>7, <1>8, <1>9, <1>10, <1>11, <1>12, <1>13 DEF Operate

LEMMA BulkStep == ASSUME CoreInv, JobsTyped, ImportCounts, Bulk PROVE CoreInv'
<1>1. CASE \E p \in Slots, file \in Files, targets \in SUBSET Lists : StartImport(p, file, targets)
  BY <1>1, StartJobStep DEF StartImport
<1>2. CASE \E p \in Slots : EnqueueJob(p)
  BY <1>2, EndsStep DEF EnqueueJob
<1>3. CASE ImportRow
  BY <1>3, ImportRowStep
<1>4. CASE AttachToLists
  BY <1>4, AttachToListsStep
<1>5. CASE \E p \in Slots, selection \in Selections, list \in {{}} \cup {{l} : l \in Lists} :
             StartExport(p, selection, list)
  BY <1>5, StartJobStep DEF StartExport
<1>6. CASE BeginImport \/ CompleteImport
  BY <1>6, RestStep DEF BeginImport, CompleteImport, asking
<1>7. CASE BeginExport \/ ReadPage \/ StageResult \/ CompleteExport
  BY <1>7, RestStep DEF BeginExport, ReadPage, StageResult, CompleteExport, asking
<1>8. CASE FailExport \/ WorkerFails
  BY <1>8, RestStep DEF FailExport, WorkerFails, asking
<1>9. QED
  BY <1>1, <1>2, <1>3, <1>4, <1>5, <1>6, <1>7, <1>8 DEF Bulk

LEMMA CoreStep == ASSUME CoreInv, JobsTyped, ImportCounts, [Next]_vars PROVE CoreInv'
<1>1. CASE UNCHANGED vars
  BY <1>1, RestStep DEF vars, history, asking
<1>2. QED
  BY <1>1, PublicStep, OperateStep, BulkStep DEF Next

LEMMA CoreInit == Init => CoreInv
<1> SUFFICES ASSUME Init PROVE CoreInv
  OBVIOUS
<1>1. /\ Seed \in Seq([email : Emails, state : States, in : [Lists -> Statuses]])
      /\ Len(Seed) <= MaxSubs /\ MaxSubs \in Nat /\ MaxTokens \in Nat
  BY AudienceAssumption
<1>2. /\ Len(Seed) \in Nat
      /\ \A i \in 1 .. Len(Seed) : /\ Seed[i].email \in Emails /\ Seed[i].state \in States
                                   /\ Seed[i].in \in [Lists -> Statuses]
  <2> PICK R : R = [email : Emails, state : States, in : [Lists -> Statuses]]
    OBVIOUS
  <2>1. Len(Seed) \in Nat /\ \A i \in 1 .. Len(Seed) : Seed[i] \in R
    <3>1. Seed \in Seq(R)
      BY <1>1
    <3>2. QED
      BY <3>1, LenProperties, ElementOfSeq, Zenon
  <2>2. \A i \in 1 .. Len(Seed) : /\ Seed[i].email \in Emails /\ Seed[i].state \in States
                                   /\ Seed[i].in \in [Lists -> Statuses]
    BY <2>1
  <2>3. QED
    BY <2>1, <2>2
<1> DEFINE row(i) == [email |-> Seed[i].email, state |-> Seed[i].state, live |-> TRUE]
<1>3. \A i \in 1 .. Len(Seed) : row(i) \in SubRows /\ row(i).email = Seed[i].email
  BY <1>2 DEF SubRows
<1>4. subs = [i \in 1 .. Len(Seed) |-> row(i)]
  BY DEF Init
<1> HIDE DEF row
<1>5. subs \in Seq(SubRows) /\ Len(subs) = Len(Seed)
  BY <1>2, <1>3, <1>4, SeqDef, LenProperties
<1>6. \A i \in 1 .. Len(Seed) : subs[i].email = Seed[i].email
  BY <1>3, <1>4
<1>7. /\ member \in [Ids -> [Lists -> Statuses]]
      /\ \A i \in Ids, l \in Lists :
            member[i][l] = "confirmed" => i \in 1 .. Len(Seed) /\ Seed[i].in[l] = "confirmed"
  <2>1. member = [i \in Ids |-> IF i <= Len(Seed) THEN Seed[i].in ELSE [l \in Lists |-> "none"]]
    BY DEF Init
  <2>2. \A i \in Ids : i <= Len(Seed) => i \in 1 .. Len(Seed)
    BY <1>1, <1>2 DEF Ids
  <2>3. [l \in Lists |-> "none"] \in [Lists -> Statuses]
    BY DEF Statuses
  <2>4. QED
    BY <1>2, <2>1, <2>2, <2>3
<1>8. RowsTyped
  BY <1>1, <1>5, <1>7 DEF RowsTyped, Init
<1>9. PublicTyped
  <2>1. NoPending \in PendingRows
    BY <1>1 DEF NoPending, PendingRows
  <2>2. QED
    BY <1>1, <2>1 DEF PublicTyped, Init
<1>10. request = [p \in Slots |-> Idle]
  BY DEF Init
<1>11. RequestsTyped /\ RequestsLearnt /\ RequestsBarred
  BY <1>10, IdleFacts DEF RequestsTyped, RequestsLearnt, RequestsBarred, Learnt, Barred
<1>12. asked = {c \in Emails \X Lists :
                  \E i \in 1 .. Len(Seed) : Seed[i].email = c[1] /\ Seed[i].in[c[2]] = "confirmed"}
  BY DEF Init
<1>13. AskedTyped
  BY <1>12 DEF AskedTyped, Init
<1>14. MembersAsked
  BY <1>2, <1>5, <1>6, <1>7, <1>12 DEF MembersAsked, Known
<1>15. QED
  BY <1>8, <1>9, <1>11, <1>13, <1>14 DEF CoreInv

-----------------------------------------------------------------------------
(* The import worker: every row it has passed is handled and counted once. *)

LEMMA ImportFacts ==
    ASSUME ImportTyped
    PROVE  /\ import.status \in JobStatuses \ {"failed"} /\ Len(import.rows) \in Nat
           /\ importer.at \in {"idle", "upsert", "attach"} /\ importer.row \in Nat
           /\ importer.created \in Nat /\ importer.updated \in Nat /\ importer.failed \in Nat
           /\ IdleImporter \in Importers /\ IdleImporter.at = "idle"
  BY DEF ImportTyped, Imports, Importers, IdleImporter

(* What the worker knows between two steps, and after its last one.        *)
Passed(at, row) == IF at = "attach" THEN row ELSE row - 1
Passing(j, n, rowsHandled) ==
    /\ n \in 0 .. Len(import.rows)
    /\ Counted(j) = n
    /\ DOMAIN rowsHandled = 1 .. Len(import.rows)
    /\ \A k \in DOMAIN rowsHandled : rowsHandled[k] = IF k <= n THEN 1 ELSE 0

LEMMA WorkerPasses ==
    ASSUME ImportTyped, ImportCounts, importer.at # "idle"
    PROVE  /\ import.status = "running"
           /\ importer.row \in 1 .. Len(import.rows) + 1
           /\ Passing(importer, Passed(importer.at, importer.row), handled)
<1>1. /\ import.status = "running" /\ DOMAIN handled = 1 .. Len(import.rows)
      /\ importer.row \in 1 .. Len(import.rows) + 1
      /\ Passed(importer.at, importer.row) <= Len(import.rows)
      /\ Counted(importer) = Passed(importer.at, importer.row)
      /\ \A n \in DOMAIN handled : handled[n] = IF n <= Passed(importer.at, importer.row) THEN 1 ELSE 0
  BY DEF ImportCounts, Passed
<1>2. Passed(importer.at, importer.row) \in 0 .. Len(import.rows)
  BY <1>1, ImportFacts DEF Passed
<1>3. QED
  BY <1>1, <1>2 DEF Passing

LEMMA StillPasses ==
    ASSUME UNCHANGED import, import.status = "running", importer'.at \in {"upsert", "attach"},
           importer'.row \in 1 .. Len(import.rows) + 1, Len(import.rows) \in Nat,
           Passing(importer', Passed(importer'.at, importer'.row), handled')
    PROVE  ImportCounts'
<1> PICK j, h, n : j = importer' /\ h = handled' /\ n = Passed(j.at, j.row)
  OBVIOUS
<1>1. /\ n \in 0 .. Len(import.rows) /\ Counted(j) = n /\ DOMAIN h = 1 .. Len(import.rows)
      /\ \A k \in DOMAIN h : h[k] = IF k <= n THEN 1 ELSE 0
  BY DEF Passing
<1>2. n <= Len(import.rows)
  BY <1>1
<1>3. Counted(importer)' = n
  BY <1>1 DEF Counted
<1>4. j.at # "idle" /\ import'.status = "running" /\ import' = import
  OBVIOUS
<1>5. ImportAccountsForRows'
  BY <1>4 DEF ImportAccountsForRows
<1>6. QED
  BY <1>1, <1>2, <1>3, <1>4, <1>5 DEF ImportCounts, Passed

LEMMA ImportRest ==
    ImportTyped /\ ImportCounts /\ UNCHANGED <<import, importer, handled>> => ImportTyped' /\ ImportCounts'
  BY DEF ImportTyped, ImportCounts, ImportAccountsForRows, Counted

(* The other requests leave the jobs alone.                                *)
LEMMA OthersLeaveJobs == Public \/ Operate => UNCHANGED <<bulk, handled>>
<1>1. Public => UNCHANGED <<bulk, handled>>
  BY DEF Public, SubmitPublicSubscription, UpsertPending, EnqueueOptinSend, SendOptin, Expire,
         ResendConfirmation, RefreshToken, ConfirmSubscription, CheckSuppressed, UpsertConfirmed,
         ResolveID, ConfirmMembership, DeletePending, ChangeSuppression, PublicUnsubscribe,
         UpdatePreferences, SetStatus
<1>2. Operate => UNCHANGED <<bulk, handled>>
  BY DEF Operate, UpdateSubscriber, WriteSubscriber, CreateSubscriber, AttachCreated,
         DeleteSubscriber, AddToList, RemoveFromList, ChangeSubscriptionState, CreateList,
         DeleteList, SaveSubscriptionPage, Reconfigure, RequestFails
<1>3. QED
  BY <1>1, <1>2

LEMMA StartImportStep ==
    ASSUME ImportTyped, ImportCounts, NEW p \in Slots, NEW file \in Files, NEW targets \in SUBSET Lists,
           StartImport(p, file, targets)
    PROVE  ImportTyped' /\ ImportCounts'
<1>1. file \in Seq(Emails \cup {"bad"})
  BY AudienceAssumption
<1>2. /\ import.status = "none" /\ importer' = importer
      /\ import' = [NoImport EXCEPT !.status = "pending", !.rows = file, !.targets = targets]
      /\ handled' = [n \in 1 .. Len(file) |-> 0]
  BY DEF StartImport
<1>3. import' \in Imports /\ import'.status = "pending" /\ import'.rows = file
  BY <1>1, <1>2 DEF Imports, NoImport, JobStatuses
<1>4. importer = IdleImporter
  BY <1>2 DEF ImportCounts
<1>5. ImportTyped'
  BY <1>2, <1>3 DEF ImportTyped
<1>6. IdleImporter.at = "idle"
  BY DEF IdleImporter
<1>7. QED
  BY <1>2, <1>3, <1>4, <1>5, <1>6 DEF ImportCounts, ImportAccountsForRows

LEMMA BeginImportStep == ASSUME ImportTyped, ImportCounts, BeginImport PROVE ImportTyped' /\ ImportCounts'
<1>1. importer = IdleImporter /\ handled' = handled
  BY DEF BeginImport
<1>2. CASE import.status = "pending"
  <2> PICK j : j = [IdleImporter EXCEPT !.at = "upsert"]
    OBVIOUS
  <2>1. import' = [import EXCEPT !.status = "running"] /\ importer' = j
    BY <1>2 DEF BeginImport
  <2>2. /\ j \in Importers /\ j.at = "upsert" /\ j.row = 1
        /\ j.created = 0 /\ j.updated = 0 /\ j.failed = 0
    BY DEF IdleImporter, Importers
  <2>3. import' \in Imports /\ import'.status = "running" /\ import'.rows = import.rows
    BY <2>1 DEF ImportTyped, Imports, JobStatuses
  <2>4. /\ DOMAIN handled = 1 .. Len(import.rows) /\ \A n \in DOMAIN handled : handled[n] = 0
        /\ Len(import.rows) \in Nat
    BY <1>2, ImportFacts DEF ImportCounts
  <2>5. \A n \in DOMAIN handled : handled[n] = IF n <= 1 - 1 THEN 1 ELSE 0
    BY <2>4
  <2>6. Counted(importer)' = 0
    BY <2>1, <2>2 DEF Counted
  <2>7. ImportAccountsForRows'
    BY <2>3 DEF ImportAccountsForRows
  <2>8. ImportCounts'
    BY <1>1, <2>1, <2>2, <2>3, <2>4, <2>5, <2>6, <2>7 DEF ImportCounts
  <2>9. QED
    BY <2>1, <2>2, <2>3, <2>8 DEF ImportTyped
<1>3. CASE import.status # "pending"
  BY <1>1, <1>3, ImportRest DEF BeginImport
<1>4. QED
  BY <1>2, <1>3

(* What a step writes to the worker's record.                              *)
LEMMA WorkerFields ==
    ASSUME importer \in Importers, NEW at \in {"idle", "upsert", "attach"}, NEW row \in Nat,
           NEW created \in Nat, NEW updated \in Nat, NEW failed \in Nat
    PROVE  /\ [importer EXCEPT !.row = row, !.failed = failed] \in Importers
           /\ [importer EXCEPT !.at = at, !.created = created] \in Importers
           /\ [importer EXCEPT !.at = at, !.updated = updated] \in Importers
           /\ [importer EXCEPT !.at = at, !.row = row] \in Importers
<1>1. [importer EXCEPT !.row = row, !.failed = failed] \in Importers
  BY DEF Importers
<1>2. [importer EXCEPT !.at = at, !.created = created] \in Importers
  BY DEF Importers
<1>3. [importer EXCEPT !.at = at, !.updated = updated] \in Importers
  BY DEF Importers
<1>4. [importer EXCEPT !.at = at, !.row = row] \in Importers
  BY DEF Importers
<1>5. QED
  BY <1>1, <1>2, <1>3, <1>4

LEMMA OneMore ==
    \A c, u, f, n \in Nat : c + u + f = n - 1 =>
        (c + 1) + u + f = n /\ c + (u + 1) + f = n /\ c + u + (f + 1) = n
  OBVIOUS

LEMMA ImportRowCounts == ASSUME ImportTyped, ImportCounts, ImportRow PROVE ImportTyped' /\ ImportCounts'
<1> PICK row : row = importer.row
  OBVIOUS
<1>1. /\ importer.at = "upsert" /\ row <= Len(import.rows) /\ import' = import
      /\ handled' = [handled EXCEPT ![row] = @ + 1]
      /\ \/ importer' = [importer EXCEPT !.row = @ + 1, !.failed = @ + 1]
         \/ importer' = [importer EXCEPT !.at = "attach", !.created = @ + 1]
         \/ importer' = [importer EXCEPT !.at = "attach", !.updated = @ + 1]
  BY DEF ImportRow, Skips
<1>2. import.status = "running" /\ row \in 1 .. Len(import.rows) + 1 /\ Passing(importer, row - 1, handled)
  BY <1>1, WorkerPasses DEF Passed
<1>3. /\ importer \in Importers /\ row \in Nat /\ Len(import.rows) \in Nat
      /\ importer.created \in Nat /\ importer.updated \in Nat /\ importer.failed \in Nat
  BY ImportFacts DEF ImportTyped
<1>4. row \in 1 .. Len(import.rows)
  BY <1>1, <1>2, <1>3
<1>5. /\ DOMAIN handled' = 1 .. Len(import.rows)
      /\ \A k \in DOMAIN handled' : handled'[k] = IF k <= row THEN 1 ELSE 0
  <2>1. /\ DOMAIN handled = 1 .. Len(import.rows)
        /\ \A k \in DOMAIN handled : handled[k] = IF k <= row - 1 THEN 1 ELSE 0
    BY <1>2 DEF Passing
  <2>2. handled[row] = 0
    BY <1>4, <2>1
  <2>3. /\ DOMAIN handled' = DOMAIN handled
        /\ \A k \in DOMAIN handled : handled'[k] = IF k = row THEN handled[row] + 1 ELSE handled[k]
    BY <1>1
  <2>4. QED
    BY <1>4, <2>1, <2>2, <2>3
<1>6. importer.created + importer.updated + importer.failed = row - 1
  BY <1>2 DEF Passing, Counted
<1>7. /\ importer' \in Importers
      /\ \/ importer'.at = "attach" /\ importer'.row = row
         \/ importer'.at = "upsert" /\ importer'.row = row + 1
      /\ importer'.created + importer'.updated + importer'.failed = row
  <2>1. CASE importer' = [importer EXCEPT !.row = @ + 1, !.failed = @ + 1]
    <3> PICK x, y : x = importer.row + 1 /\ y = importer.failed + 1
      OBVIOUS
    <3> PICK j : j = [importer EXCEPT !.row = x, !.failed = y]
      OBVIOUS
    <3>1. x \in Nat /\ y \in Nat
      BY <1>3
    <3>2. importer' = j
      BY <2>1
    <3>3. j \in Importers
      BY <1>3, <3>1, WorkerFields
    <3>4. /\ j.at = "upsert" /\ j.row = row + 1
          /\ j.created = importer.created /\ j.updated = importer.updated /\ j.failed = importer.failed + 1
      BY <1>1, <1>3 DEF Importers
    <3>5. j.created + j.updated + j.failed = row
      <4>1. importer.created + importer.updated + (importer.failed + 1) = row
        BY <1>3, <1>6, OneMore
      <4>2. QED
        BY <3>4, <4>1, Zenon
    <3>6. QED
      BY <3>2, <3>3, <3>4, <3>5
  <2>2. CASE importer' = [importer EXCEPT !.at = "attach", !.created = @ + 1]
    <3> PICK x : x = importer.created + 1
      OBVIOUS
    <3> PICK j : j = [importer EXCEPT !.at = "attach", !.created = x]
      OBVIOUS
    <3>1. x \in Nat
      BY <1>3
    <3>2. importer' = j
      BY <2>2
    <3>3. j \in Importers
      BY <1>3, <3>1, WorkerFields
    <3>4. /\ j.at = "attach" /\ j.row = row
          /\ j.created = importer.created + 1 /\ j.updated = importer.updated /\ j.failed = importer.failed
      BY <1>1, <1>3 DEF Importers
    <3>5. j.created + j.updated + j.failed = row
      <4>1. (importer.created + 1) + importer.updated + importer.failed = row
        BY <1>3, <1>6, OneMore
      <4>2. QED
        BY <3>4, <4>1, Zenon
    <3>6. QED
      BY <3>2, <3>3, <3>4, <3>5
  <2>3. CASE importer' = [importer EXCEPT !.at = "attach", !.updated = @ + 1]
    <3> PICK x : x = importer.updated + 1
      OBVIOUS
    <3> PICK j : j = [importer EXCEPT !.at = "attach", !.updated = x]
      OBVIOUS
    <3>1. x \in Nat
      BY <1>3
    <3>2. importer' = j
      BY <2>3
    <3>3. j \in Importers
      BY <1>3, <3>1, WorkerFields
    <3>4. /\ j.at = "attach" /\ j.row = row
          /\ j.created = importer.created /\ j.updated = importer.updated + 1 /\ j.failed = importer.failed
      BY <1>1, <1>3 DEF Importers
    <3>5. j.created + j.updated + j.failed = row
      <4>1. importer.created + (importer.updated + 1) + importer.failed = row
        BY <1>3, <1>6, OneMore
      <4>2. QED
        BY <3>4, <4>1, Zenon
    <3>6. QED
      BY <3>2, <3>3, <3>4, <3>5
  <2>4. QED
    BY <1>1, <2>1, <2>2, <2>3
<1>8. Passed(importer'.at, importer'.row) = row /\ importer'.row \in 1 .. Len(import.rows) + 1
      /\ importer'.at \in {"upsert", "attach"}
  BY <1>3, <1>4, <1>7 DEF Passed
<1>9. Passing(importer', row, handled')
  BY <1>3, <1>4, <1>5, <1>7 DEF Passing, Counted
<1>10. ImportCounts'
  BY <1>1, <1>2, <1>3, <1>8, <1>9, StillPasses
<1>11. QED
  BY <1>1, <1>7, <1>10 DEF ImportTyped

LEMMA AttachCounts == ASSUME ImportTyped, ImportCounts, AttachToLists PROVE ImportTyped' /\ ImportCounts'
<1> PICK row : row = importer.row
  OBVIOUS
<1>1. /\ importer.at = "attach" /\ import' = import /\ handled' = handled
      /\ importer' = [importer EXCEPT !.at = "upsert", !.row = @ + 1]
  BY DEF AttachToLists
<1>2. import.status = "running" /\ row \in 1 .. Len(import.rows) + 1 /\ Passing(importer, row, handled)
  BY <1>1, WorkerPasses DEF Passed
<1>3. importer \in Importers /\ row \in Nat /\ Len(import.rows) \in Nat
  BY ImportFacts DEF ImportTyped
<1>4. row \in 0 .. Len(import.rows)
  BY <1>2 DEF Passing
<1>5. /\ importer' \in Importers /\ importer'.at = "upsert" /\ importer'.row = row + 1
      /\ importer'.created = importer.created /\ importer'.updated = importer.updated
      /\ importer'.failed = importer.failed
  <2> PICK x : x = importer.row + 1
    OBVIOUS
  <2> PICK j : j = [importer EXCEPT !.at = "upsert", !.row = x]
    OBVIOUS
  <2>1. importer' = j
    BY <1>1
  <2>2. j \in Importers
    <3>1. x \in Nat
      BY <1>3
    <3>2. QED
      BY <1>3, <3>1, WorkerFields
  <2>3. /\ j.at = "upsert" /\ j.row = row + 1 /\ j.created = importer.created
        /\ j.updated = importer.updated /\ j.failed = importer.failed
    BY <1>1, <1>3 DEF Importers
  <2>4. QED
    BY <2>1, <2>2, <2>3
<1>6. Passed(importer'.at, importer'.row) = row /\ importer'.row \in 1 .. Len(import.rows) + 1
  BY <1>3, <1>4, <1>5 DEF Passed
<1>7. Passing(importer', row, handled')
  BY <1>1, <1>2, <1>5 DEF Passing, Counted
<1>8. ImportCounts'
  BY <1>1, <1>2, <1>3, <1>5, <1>6, <1>7, StillPasses
<1>9. QED
  BY <1>1, <1>5, <1>8 DEF ImportTyped

LEMMA CompleteImportStep ==
    ASSUME ImportTyped, ImportCounts, CompleteImport
    PROVE  ImportTyped' /\ ImportCounts'
<1>1. /\ importer.at = "upsert" /\ importer.row > Len(import.rows) /\ handled' = handled
      /\ import' = [import EXCEPT !.status = "completed", !.created = importer.created,
                                  !.updated = importer.updated, !.failed = importer.failed]
      /\ importer' = IdleImporter
  BY DEF CompleteImport
<1>2. importer.row \in 1 .. Len(import.rows) + 1 /\ Passing(importer, importer.row - 1, handled)
  BY <1>1, WorkerPasses DEF Passed
<1>3. importer.row - 1 = Len(import.rows)
  BY <1>1, <1>2, ImportFacts
<1>4. /\ DOMAIN handled = 1 .. Len(import.rows) /\ \A k \in DOMAIN handled : handled[k] = 1
      /\ importer.created + importer.updated + importer.failed = Len(import.rows)
  BY <1>2, <1>3, ImportFacts DEF Passing, Counted
<1>5. /\ import' \in Imports /\ import'.status = "completed" /\ import'.rows = import.rows
      /\ import'.created = importer.created /\ import'.updated = importer.updated
      /\ import'.failed = importer.failed
  BY <1>1, ImportFacts DEF ImportTyped, Imports, JobStatuses
<1>6. ImportAccountsForRows'
  BY <1>1, <1>4, <1>5 DEF ImportAccountsForRows
<1>7. ImportCounts'
  BY <1>1, <1>4, <1>5, <1>6, ImportFacts DEF ImportCounts
<1>8. QED
  BY <1>1, <1>5, <1>7, ImportFacts DEF ImportTyped

LEMMA ImportStep == ASSUME ImportTyped, ImportCounts, [Next]_vars PROVE ImportTyped' /\ ImportCounts'
<1>1. CASE \E p \in Slots, file \in Files, targets \in SUBSET Lists : StartImport(p, file, targets)
  BY <1>1, StartImportStep
<1>2. CASE BeginImport
  BY <1>2, BeginImportStep
<1>3. CASE ImportRow
  BY <1>3, ImportRowCounts
<1>4. CASE AttachToLists
  BY <1>4, AttachCounts
<1>5. CASE CompleteImport
  BY <1>5, CompleteImportStep
<1>6. CASE WorkerFails
  <2>1. CASE UNCHANGED importer
    BY <1>6, <2>1, ImportRest DEF WorkerFails
  <2>2. CASE importer # IdleImporter /\ importer' = IdleImporter
    <3>1. import' = import /\ handled' = handled /\ importer' = IdleImporter
      BY <1>6, <2>2 DEF WorkerFails
    <3>2. import.status = "running"
      BY <2>2, WorkerPasses DEF ImportCounts
    <3>3. ImportAccountsForRows'
      BY <3>1, <3>2 DEF ImportAccountsForRows
    <3>4. DOMAIN handled = 1 .. Len(import.rows)
      BY <3>2 DEF ImportCounts
    <3>5. QED
      BY <3>1, <3>2, <3>3, <3>4, ImportFacts DEF ImportCounts, ImportTyped
  <2>3. QED
    BY <1>6, <2>1, <2>2 DEF WorkerFails
<1>7. CASE \E p \in Slots : EnqueueJob(p)
  BY <1>7, ImportRest DEF EnqueueJob
<1>8. CASE \E p \in Slots, selection \in Selections, list \in {{}} \cup {{l} : l \in Lists} :
             StartExport(p, selection, list)
  BY <1>8, ImportRest DEF StartExport
<1>9. CASE BeginExport \/ ReadPage \/ StageResult \/ CompleteExport \/ FailExport
  BY <1>9, ImportRest DEF BeginExport, ReadPage, StageResult, CompleteExport, FailExport
<1>10. CASE Public \/ Operate
  BY <1>10, ImportRest, OthersLeaveJobs DEF bulk
<1>11. CASE UNCHANGED vars
  BY <1>11, ImportRest DEF vars, bulk, history
<1>12. QED
  BY <1>1, <1>2, <1>3, <1>4, <1>5, <1>6, <1>7, <1>8, <1>9, <1>10, <1>11 DEF Next, Bulk

-----------------------------------------------------------------------------
(* The rank of a row in a selection: a higher row has fewer above it, and  *)
(* the ranks are the numbers from 0 up to the size of the selection.       *)
Above(S, i) == {j \in S : j > i}
RankIn(S, i) == Cardinality(Above(S, i))

LEMMA AboveFinite ==
    ASSUME NEW S, IsFiniteSet(S), NEW i
    PROVE  IsFiniteSet(Above(S, i)) /\ RankIn(S, i) \in Nat
<1>1. Above(S, i) \in SUBSET S
  BY DEF Above
<1>2. IsFiniteSet(Above(S, i))
  BY <1>1, FS_Subset
<1>3. QED
  BY <1>2, FS_CardinalityType DEF RankIn

LEMMA RankBelow ==
    ASSUME NEW S, IsFiniteSet(S), S \subseteq Nat, NEW i \in S
    PROVE  RankIn(S, i) \in Nat /\ Cardinality(S) \in Nat /\ RankIn(S, i) < Cardinality(S)
<1>1. IsFiniteSet(Above(S, i)) /\ RankIn(S, i) \in Nat /\ Cardinality(S) \in Nat
  BY AboveFinite, FS_CardinalityType
<1>2. i \notin Above(S, i)
  BY DEF Above
<1>3. Cardinality(Above(S, i) \cup {i}) = RankIn(S, i) + 1
  BY <1>1, <1>2, FS_AddElement DEF RankIn
<1>4. Above(S, i) \cup {i} \in SUBSET S
  BY DEF Above
<1>5. Cardinality(Above(S, i) \cup {i}) <= Cardinality(S)
  BY <1>4, FS_Subset
<1>6. QED
  BY <1>1, <1>3, <1>5

LEMMA RankFalls ==
    ASSUME NEW S, IsFiniteSet(S), S \subseteq Nat, NEW i \in S, NEW j \in S, i < j
    PROVE  RankIn(S, j) < RankIn(S, i)
<1>1. IsFiniteSet(Above(S, j)) /\ RankIn(S, j) \in Nat /\ IsFiniteSet(Above(S, i)) /\ RankIn(S, i) \in Nat
  BY AboveFinite
<1>2. j \notin Above(S, j)
  BY DEF Above
<1>3. Cardinality(Above(S, j) \cup {j}) = RankIn(S, j) + 1
  BY <1>1, <1>2, FS_AddElement DEF RankIn
<1>4. Above(S, j) \cup {j} \in SUBSET Above(S, i)
  <2>1. \A k \in S : k > j => k > i
    OBVIOUS
  <2>2. j > i
    OBVIOUS
  <2>3. QED
    BY <2>1, <2>2 DEF Above
<1>5. Cardinality(Above(S, j) \cup {j}) <= RankIn(S, i)
  BY <1>1, <1>4, FS_Subset DEF RankIn
<1>6. QED
  BY <1>1, <1>3, <1>5

LEMMA RankOnto ==
    ASSUME NEW S, IsFiniteSet(S), S \subseteq Nat, NEW n \in Nat, n < Cardinality(S)
    PROVE  \E i \in S : RankIn(S, i) = n
<1> DEFINE f == [i \in S |-> RankIn(S, i)]
           T == 0 .. Cardinality(S) - 1
<1>1. Cardinality(S) \in Nat
  BY FS_CardinalityType
<1>2. f \in [S -> T]
  <2>1. ASSUME NEW i \in S PROVE RankIn(S, i) \in T
    <3>1. RankIn(S, i) \in Nat /\ RankIn(S, i) < Cardinality(S)
      BY RankBelow
    <3>2. QED
      BY <1>1, <3>1
  <2>2. QED
    BY <2>1
<1>3. \A i, j \in S : f[i] = f[j] => i = j
  <2> SUFFICES ASSUME NEW i \in S, NEW j \in S, RankIn(S, i) = RankIn(S, j) PROVE i = j
    OBVIOUS
  <2>1. RankIn(S, i) \in Nat /\ RankIn(S, j) \in Nat /\ i \in Nat /\ j \in Nat
    BY AboveFinite
  <2>2. ~(i < j)
    <3> SUFFICES ASSUME i < j PROVE FALSE
      OBVIOUS
    <3>1. RankIn(S, j) < RankIn(S, i)
      BY RankFalls
    <3>2. QED
      BY <2>1, <3>1
  <2>3. ~(j < i)
    <3> SUFFICES ASSUME j < i PROVE FALSE
      OBVIOUS
    <3>1. RankIn(S, i) < RankIn(S, j)
      BY RankFalls
    <3>2. QED
      BY <2>1, <3>1
  <2>4. QED
    BY <2>1, <2>2, <2>3
<1>4. f \in Injection(S, T)
  BY <1>2, <1>3 DEF Injection, IsInjective
<1>5. IsFiniteSet(T) /\ Cardinality(T) = Cardinality(S)
  <2>1. 0 \in Int /\ Cardinality(S) - 1 \in Int
    BY <1>1
  <2>2. IsFiniteSet(T) /\ Cardinality(T) = IF 0 > Cardinality(S) - 1 THEN 0 ELSE Cardinality(S) - 1 - 0 + 1
    BY <2>1, FS_Interval
  <2>3. QED
    BY <1>1, <2>2
<1>6. f \in Surjection(S, T)
  BY <1>4, <1>5, FS_Injection
<1>7. n \in T
  BY <1>1
<1>8. PICK i \in S : f[i] = n
  BY <1>6, <1>7 DEF Surjection
<1>9. QED
  BY <1>8

(* A selection that grows pushes nobody forward.                           *)
LEMMA RankGrows ==
    ASSUME NEW S, NEW T, IsFiniteSet(T), S \subseteq T, NEW i
    PROVE  RankIn(S, i) \in Nat /\ RankIn(T, i) \in Nat /\ RankIn(S, i) <= RankIn(T, i)
<1>1. IsFiniteSet(Above(T, i)) /\ RankIn(T, i) \in Nat
  BY AboveFinite
<1>2. Above(S, i) \in SUBSET Above(T, i)
  BY DEF Above
<1>3. IsFiniteSet(Above(S, i)) /\ RankIn(S, i) <= RankIn(T, i)
  BY <1>1, <1>2, FS_Subset DEF RankIn
<1>4. QED
  BY <1>1, <1>3, FS_CardinalityType DEF RankIn

LEMMA SelectedIds ==
    ASSUME RowsTyped
    PROVE  IsFiniteSet(Selected) /\ Selected \subseteq Nat
<1>1. Selected \subseteq 1 .. Len(subs) /\ Len(subs) \in Nat
  BY SubFacts DEF Selected
<1>2. IsFiniteSet(1 .. Len(subs))
  <2>1. 1 \in Int /\ Len(subs) \in Int
    BY <1>1
  <2>2. QED
    BY <2>1, FS_Interval
<1>3. Selected \in SUBSET (1 .. Len(subs)) /\ Selected \subseteq Nat
  BY <1>1
<1>4. IsFiniteSet(Selected)
  BY <1>2, <1>3, FS_Subset
<1>5. QED
  BY <1>3, <1>4

LEMMA SelectedIdsNext ==
    ASSUME RowsTyped'
    PROVE  IsFiniteSet(Selected') /\ Selected' \subseteq Nat
<1>1. Selected' \subseteq 1 .. Len(subs')
  BY DEF Selected, Live, Known
<1>2. Len(subs') \in Nat
  BY DEF RowsTyped
<1>3. IsFiniteSet(1 .. Len(subs'))
  <2>1. 1 \in Int /\ Len(subs') \in Int
    BY <1>2
  <2>2. QED
    BY <2>1, FS_Interval
<1>4. Selected' \in SUBSET (1 .. Len(subs')) /\ Selected' \subseteq Nat
  BY <1>1, <1>2
<1>5. IsFiniteSet(Selected')
  BY <1>3, <1>4, FS_Subset
<1>6. QED
  BY <1>4, <1>5

(* A page holds the rows of the ranks from its offset on.                  *)
Size(offset) ==
    IF offset >= Cardinality(Selected) THEN 0
    ELSE IF Cardinality(Selected) - offset > PageSize THEN PageSize
    ELSE Cardinality(Selected) - offset

LEMMA SizeFacts ==
    ASSUME RowsTyped, NEW offset \in Nat
    PROVE  /\ Cardinality(Selected) \in Nat /\ Size(offset) \in Nat
           /\ Size(offset) = 0 => offset >= Cardinality(Selected)
           /\ offset < Cardinality(Selected) => offset + Size(offset) <= Cardinality(Selected)
<1>1. Cardinality(Selected) \in Nat /\ PageSize \in Nat \ {0}
  BY SelectedIds, FS_CardinalityType, AudienceAssumption
<1>2. QED
  BY <1>1 DEF Size

LEMMA BatchFacts ==
    ASSUME RowsTyped, NEW offset \in Nat
    PROVE  /\ Batch(offset) \in Seq(Nat) /\ Len(Batch(offset)) = Size(offset)
           /\ \A k \in 1 .. Size(offset) :
                 Batch(offset)[k] \in Selected /\ RankIn(Selected, Batch(offset)[k]) = offset + k - 1
<1> DEFINE of(k) == CHOOSE i \in Selected : RankIn(Selected, i) = offset + k - 1
<1>1. Batch(offset) = [k \in 1 .. Size(offset) |-> of(k)]
  BY DEF Batch, Size, Rank, RankIn, Above
<1>2. \A k \in 1 .. Size(offset) : of(k) \in Selected /\ RankIn(Selected, of(k)) = offset + k - 1
  <2> SUFFICES ASSUME NEW k \in 1 .. Size(offset)
               PROVE  of(k) \in Selected /\ RankIn(Selected, of(k)) = offset + k - 1
    OBVIOUS
  <2>1. offset < Cardinality(Selected)
    BY SizeFacts DEF Size
  <2>2. offset + k - 1 \in Nat /\ offset + k - 1 < Cardinality(Selected)
    BY <2>1, SizeFacts
  <2>3. \E i \in Selected : RankIn(Selected, i) = offset + k - 1
    BY <2>2, SelectedIds, RankOnto
  <2>4. QED
    BY <2>3
<1> HIDE DEF of
<1>3. Batch(offset) \in Seq(Nat) /\ Len(Batch(offset)) = Size(offset)
  <2>1. \A k \in 1 .. Size(offset) : of(k) \in Nat
    BY <1>2, SelectedIds
  <2>2. Size(offset) \in Nat
    BY SizeFacts
  <2>3. QED
    BY <1>1, <2>1, <2>2, SeqDef, LenProperties
<1>4. QED
  BY <1>1, <1>2, <1>3

LEMMA BatchHolds ==
    ASSUME RowsTyped, NEW offset \in Nat, NEW i \in Selected,
           RankIn(Selected, i) >= offset, RankIn(Selected, i) < offset + Size(offset)
    PROVE  Exported(i, Batch(offset))
<1>1. RankIn(Selected, i) \in Nat /\ Size(offset) \in Nat /\ i \in Nat
  BY SelectedIds, AboveFinite, SizeFacts
<1> PICK k : k = RankIn(Selected, i) - offset + 1
  OBVIOUS
<1>2. k \in 1 .. Size(offset) /\ RankIn(Selected, i) = offset + k - 1
  BY <1>1
<1> PICK j : j = Batch(offset)[k]
  OBVIOUS
<1>3. j \in Selected /\ RankIn(Selected, j) = RankIn(Selected, i)
  BY <1>2, BatchFacts
<1>4. ~(i < j) /\ ~(j < i) /\ j \in Nat
  <2>1. IsFiniteSet(Selected) /\ Selected \subseteq Nat
    BY SelectedIds
  <2>2. ~(i < j)
    <3> SUFFICES ASSUME i < j PROVE FALSE
      OBVIOUS
    <3>1. RankIn(Selected, j) < RankIn(Selected, i)
      BY <1>3, <2>1, RankFalls
    <3>2. QED
      BY <1>1, <1>3, <3>1
  <2>3. ~(j < i)
    <3> SUFFICES ASSUME j < i PROVE FALSE
      OBVIOUS
    <3>1. RankIn(Selected, i) < RankIn(Selected, j)
      BY <1>3, <2>1, RankFalls
    <3>2. QED
      BY <1>1, <1>3, <3>1
  <2>4. QED
    BY <1>3, <2>1, <2>2, <2>3
<1>5. j = i
  BY <1>1, <1>4
<1>6. k \in DOMAIN Batch(offset)
  BY <1>2, BatchFacts
<1>7. QED
  BY <1>5, <1>6 DEF Exported

(* What has been read stays read when another page is added.               *)
LEMMA ExportedConcat ==
    ASSUME NEW s \in Seq(Nat), NEW t \in Seq(Nat), NEW i, Exported(i, s) \/ Exported(i, t)
    PROVE  Exported(i, s \o t)
<1>1. /\ Len(s) \in Nat /\ Len(t) \in Nat /\ DOMAIN s = 1 .. Len(s) /\ DOMAIN t = 1 .. Len(t)
      /\ s \o t \in Seq(Nat) /\ Len(s \o t) = Len(s) + Len(t)
      /\ DOMAIN (s \o t) = 1 .. Len(s) + Len(t)
      /\ \A k \in 1 .. Len(s) + Len(t) : (s \o t)[k] = IF k <= Len(s) THEN s[k] ELSE t[k - Len(s)]
  BY ConcatProperties, LenProperties
<1>2. CASE Exported(i, s)
  <2> PICK k \in DOMAIN s : s[k] = i
    BY <1>2 DEF Exported
  <2>1. k \in DOMAIN (s \o t) /\ (s \o t)[k] = i
    BY <1>1
  <2>2. QED
    BY <2>1 DEF Exported
<1>3. CASE Exported(i, t)
  <2> PICK k \in DOMAIN t : t[k] = i
    BY <1>3 DEF Exported
  <2>1. Len(s) + k \in 1 .. Len(s) + Len(t) /\ ~(Len(s) + k <= Len(s)) /\ Len(s) + k - Len(s) = k
    BY <1>1
  <2>2. Len(s) + k \in DOMAIN (s \o t) /\ (s \o t)[Len(s) + k] = i
    BY <1>1, <2>1
  <2>3. QED
    BY <2>2 DEF Exported
<1>4. QED
  BY <1>2, <1>3

-----------------------------------------------------------------------------
(* The export worker: what it owes is read or still to come.               *)
Owed(i, got) == Exported(i, got) \/ (i \in Selected /\ RankIn(Selected, i) >= Len(got))

LEMMA ExportFacts ==
    ASSUME ExportTyped
    PROVE  /\ export.status \in JobStatuses
           /\ exporter.at \in {"idle", "page", "stage", "complete"} /\ exporter.got \in Seq(Nat)
           /\ Len(exporter.got) \in Nat
           /\ IdleExporter \in Exporters /\ IdleExporter.at = "idle" /\ IdleExporter.got = <<>>
<1>1. /\ export.status \in JobStatuses /\ exporter.got \in Seq(Nat)
      /\ exporter.at \in {"idle", "page", "stage", "complete"}
  BY DEF ExportTyped, Exports, Exporters
<1>2. IdleExporter \in Exporters /\ IdleExporter.at = "idle" /\ IdleExporter.got = <<>>
  <2>1. <<>> \in Seq(Nat)
    OBVIOUS
  <2>2. QED
    BY <2>1 DEF IdleExporter, Exporters
<1>3. QED
  BY <1>1, <1>2, LenProperties

(* While it is at work a promise is only kept or given up.                 *)
Watching ==
    /\ exporter.at # "idle" => promised' = {} \/ (promised' = promised /\ Selected \subseteq Selected')
    /\ exporter.at = "idle" => promised' = promised \/ promised' = Selected'

LEMMA NextWatches == [Next]_vars => Watching
<1>1. Watch => Watching
  BY DEF Watch, Watching
<1>2. UNCHANGED vars => promised' = promised /\ Selected' = Selected
  BY DEF vars, rows, bulk, history, Selected, Live, Known, SubscribedTo, ListsOf
<1>3. UNCHANGED vars => Watching
  BY <1>2 DEF Watching
<1>4. QED
  BY <1>1, <1>3 DEF Next

LEMMA PromisedIds ==
    ASSUME RowsTyped', promised \subseteq Nat, Watching
    PROVE  promised' \subseteq Nat
  BY SelectedIdsNext, Zenon DEF Watching

(* The promise, said of a state that may be the next one.                  *)
Kept(j, x, owed, chosen) ==
    /\ owed \subseteq Nat
    /\ j.at = "page" =>
          \A i \in owed : Exported(i, j.got) \/ (i \in chosen /\ RankIn(chosen, i) >= Len(j.got))
    /\ j.at \in {"stage", "complete"} => \A i \in owed : Exported(i, j.got)
    /\ j.at = "complete" => x.staged = j.got
    /\ j.at = "idle" => j = IdleExporter
    /\ j.at # "idle" => x.status = "running"

LEMMA KeptNow == ExportKeepsPromise <=> Kept(exporter, export, promised, Selected)
  BY DEF ExportKeepsPromise, Kept, Rank, RankIn, Above, Offset

LEMMA KeptNext == ExportKeepsPromise' <=> Kept(exporter', export', promised', Selected')
  BY DEF ExportKeepsPromise, Kept, Rank, RankIn, Above, Offset, Exported

(* A step that leaves the worker alone.                                    *)
LEMMA WorkerRests ==
    ASSUME RowsTyped, RowsTyped', ExportTyped, Kept(exporter, export, promised, Selected), Watching,
           UNCHANGED exporter, exporter.at # "idle" => UNCHANGED export
    PROVE  Kept(exporter', export', promised', Selected')
<1>1. promised' \subseteq Nat
  BY PromisedIds DEF Kept
<1>2. CASE exporter.at = "idle"
  BY <1>1, <1>2 DEF Kept
<1>3. CASE exporter.at # "idle" /\ promised' = {}
  BY <1>1, <1>3 DEF Kept
<1>4. CASE exporter.at # "idle" /\ promised' = promised /\ Selected \subseteq Selected'
  <2>1. ASSUME exporter.at = "page", NEW i \in promised
        PROVE  Exported(i, exporter.got) \/ (i \in Selected' /\ RankIn(Selected', i) >= Len(exporter.got))
    <3>1. CASE Exported(i, exporter.got)
      BY <3>1
    <3>2. CASE i \in Selected /\ RankIn(Selected, i) >= Len(exporter.got)
      <4>1. /\ RankIn(Selected, i) \in Nat /\ RankIn(Selected', i) \in Nat
            /\ RankIn(Selected, i) <= RankIn(Selected', i)
        BY <1>4, SelectedIdsNext, RankGrows
      <4>2. Len(exporter.got) \in Nat
        BY ExportFacts
      <4>3. QED
        BY <1>4, <3>2, <4>1, <4>2
    <3>3. QED
      BY <2>1, <3>1, <3>2 DEF Kept
  <2>2. QED
    BY <1>1, <1>4, <2>1 DEF Kept
<1>5. QED
  BY <1>2, <1>3, <1>4 DEF Watching

(* A worker that stops owes nothing.                                       *)
LEMMA WorkerStops ==
    ASSUME RowsTyped', ExportTyped, promised \subseteq Nat, Watching, exporter' = IdleExporter
    PROVE  Kept(exporter', export', promised', Selected')
  BY PromisedIds, ExportFacts DEF Kept

LEMMA BeginExportStep ==
    ASSUME RowsTyped, RowsTyped', ExportTyped, Kept(exporter, export, promised, Selected), Watch,
           BeginExport
    PROVE  ExportTyped' /\ Kept(exporter', export', promised', Selected')
<1>1. exporter = IdleExporter /\ exporter.at = "idle" /\ exporter.got = <<>>
  BY ExportFacts DEF BeginExport
<1>2. Watching
  BY NextWatches DEF Watch, Watching
<1>3. CASE export.status = "pending"
  <2> PICK j : j = [IdleExporter EXCEPT !.at = "page"]
    OBVIOUS
  <2>1. exporter' = j /\ export' = [export EXCEPT !.status = "running"]
    BY <1>3 DEF BeginExport
  <2>2. j \in Exporters /\ j.at = "page" /\ j.got = <<>>
    BY ExportFacts DEF Exporters
  <2>3. export' \in Exports /\ export'.status = "running"
    BY <2>1 DEF ExportTyped, Exports, JobStatuses
  <2>4. promised' = Selected'
    BY <1>1 DEF Watch
  <2>5. \A i \in promised' : i \in Selected' /\ RankIn(Selected', i) >= Len(j.got)
    <3>1. \A i \in Selected' : RankIn(Selected', i) \in Nat
      BY SelectedIdsNext, AboveFinite
    <3>2. Len(j.got) = 0
      BY <2>2
    <3>3. QED
      BY <2>4, <3>1, <3>2
  <2>6. promised' \subseteq Nat
    BY <1>2, PromisedIds DEF Kept
  <2>7. QED
    BY <2>1, <2>2, <2>3, <2>5, <2>6 DEF Kept, ExportTyped
<1>4. CASE export.status # "pending"
  <2>1. UNCHANGED <<export, exporter>>
    BY <1>4 DEF BeginExport
  <2>2. QED
    BY <1>2, <2>1, WorkerRests DEF ExportTyped
<1>5. QED
  BY <1>3, <1>4

(* One page more: whoever is not in it still comes after it, and after the *)
(* last page nobody does.                                                  *)
LEMMA ReadPageStep ==
    ASSUME RowsTyped, RowsTyped', ExportTyped, Kept(exporter, export, promised, Selected), Watching,
           ReadPage
    PROVE  ExportTyped' /\ Kept(exporter', export', promised', Selected')
<1> PICK offset, batch, n : offset = Len(exporter.got) /\ batch = Batch(offset) /\ n = Size(offset)
  OBVIOUS
<1> PICK got : got = exporter.got \o batch
  OBVIOUS
<1>1. /\ exporter.at = "page" /\ export' = export
      /\ exporter' = [at |-> IF batch = <<>> \/ offset + Len(batch) >= Cardinality(Selected)
                             THEN "stage" ELSE "page", got |-> got]
  BY DEF ReadPage, Offset
<1>2. offset \in Nat /\ exporter.got \in Seq(Nat)
  BY ExportFacts
<1>3. /\ batch \in Seq(Nat) /\ Len(batch) = n /\ n \in Nat /\ Cardinality(Selected) \in Nat
      /\ n = 0 => offset >= Cardinality(Selected)
  BY <1>2, BatchFacts, SizeFacts
<1>4. got \in Seq(Nat) /\ Len(got) = offset + n
  BY <1>2, <1>3, ConcatProperties, ZenonT(60)
<1>5. /\ exporter' \in Exporters /\ exporter'.got = got /\ exporter'.at \in {"stage", "page"}
      /\ exporter'.at = "stage" => offset + n >= Cardinality(Selected)
  <2>1. exporter'.got = got /\ exporter'.at \in {"stage", "page"} /\ exporter' \in Exporters
    BY <1>1, <1>4 DEF Exporters
  <2>2. exporter'.at = "stage" => batch = <<>> \/ offset + n >= Cardinality(Selected)
    BY <1>1, <1>3
  <2>3. batch = <<>> => n = 0
    BY <1>3
  <2>4. QED
    BY <1>2, <1>3, <2>1, <2>2, <2>3
<1>6. ExportTyped'
  BY <1>1, <1>5 DEF ExportTyped
<1>7. promised' \subseteq Nat /\ export'.status = "running"
  BY <1>1, PromisedIds DEF Kept
<1> PICK j : j = exporter'
  OBVIOUS
<1> PICK x, owed, chosen : x = export' /\ owed = promised' /\ chosen = Selected'
  OBVIOUS
<1>a. /\ j.got = got /\ j.at \in {"stage", "page"} /\ owed \subseteq Nat /\ x.status = "running"
      /\ j.at # "idle" /\ j.at # "complete"
  BY <1>5, <1>7
<1> SUFFICES ExportTyped' /\ Kept(j, x, owed, chosen)
  OBVIOUS
<1>8. CASE promised' = {}
  BY <1>6, <1>8, <1>a DEF Kept
<1>9. CASE promised' = promised /\ Selected \subseteq Selected'
  <2>1. ASSUME NEW i \in promised
        PROVE  Exported(i, got) \/ (i \in Selected' /\ RankIn(Selected', i) >= offset + n
                                    /\ offset + n < Cardinality(Selected))
    <3>1. CASE Exported(i, exporter.got)
      BY <1>2, <1>3, <3>1, ExportedConcat
    <3>2. CASE i \in Selected /\ RankIn(Selected, i) >= offset
      <4>1. /\ RankIn(Selected, i) \in Nat /\ RankIn(Selected', i) \in Nat
            /\ RankIn(Selected, i) <= RankIn(Selected', i)
        BY <1>9, SelectedIdsNext, RankGrows
      <4>2. RankIn(Selected, i) < Cardinality(Selected)
        BY <3>2, SelectedIds, RankBelow
      <4>3. CASE RankIn(Selected, i) < offset + n
        <5>1. Exported(i, batch)
          BY <1>2, <3>2, <4>3, BatchHolds
        <5>2. QED
          BY <1>2, <1>3, <5>1, ExportedConcat
      <4>4. CASE ~(RankIn(Selected, i) < offset + n)
        BY <1>2, <1>3, <1>9, <3>2, <4>1, <4>2, <4>4
      <4>5. QED
        BY <4>3, <4>4
    <3>3. QED
      BY <1>1, <3>1, <3>2 DEF Kept
  <2>2. CASE exporter'.at = "stage"
    <3>1. ~(offset + n < Cardinality(Selected))
      BY <1>2, <1>3, <1>5, <2>2
    <3>2. \A i \in promised' : Exported(i, got)
      BY <1>9, <2>1, <3>1
    <3>3. QED
      BY <1>6, <1>a, <2>2, <3>2 DEF Kept
  <2>3. CASE exporter'.at = "page"
    <3>1. \A i \in promised' : Exported(i, got) \/ (i \in Selected' /\ RankIn(Selected', i) >= Len(got))
      BY <1>4, <1>9, <2>1
    <3>2. QED
      BY <1>6, <1>a, <2>3, <3>1 DEF Kept
  <2>4. QED
    BY <1>5, <2>2, <2>3
<1>10. QED
  BY <1>1, <1>6, <1>8, <1>9 DEF Watching

LEMMA StageStep ==
    ASSUME RowsTyped', ExportTyped, Kept(exporter, export, promised, Selected), Watching, StageResult
    PROVE  ExportTyped' /\ Kept(exporter', export', promised', Selected')
<1> PICK j : j = [exporter EXCEPT !.at = "complete"]
  OBVIOUS
<1>1. exporter.at = "stage" /\ exporter' = j /\ export' = [export EXCEPT !.staged = exporter.got]
  BY DEF StageResult
<1>2. j \in Exporters /\ j.at = "complete" /\ j.got = exporter.got
  BY DEF ExportTyped, Exporters
<1>3. export' \in Exports /\ export'.staged = exporter.got /\ export'.status = export.status
  BY <1>1, ExportFacts DEF ExportTyped, Exports
<1>4. promised' \subseteq Nat /\ promised' \subseteq promised /\ export.status = "running"
      /\ \A i \in promised : Exported(i, exporter.got)
  BY <1>1, PromisedIds DEF Kept, Watching
<1>5. QED
  BY <1>1, <1>2, <1>3, <1>4 DEF Kept, ExportTyped

LEMMA ExportStep ==
    ASSUME RowsTyped, RowsTyped', ExportTyped, ExportKeepsPromise, [Next]_vars
    PROVE  ExportTyped' /\ ExportKeepsPromise'
<1>1. Kept(exporter, export, promised, Selected) /\ promised \subseteq Nat /\ Watching
  BY KeptNow, NextWatches DEF Kept
<1> SUFFICES ExportTyped' /\ Kept(exporter', export', promised', Selected')
  BY KeptNext
<1>2. CASE UNCHANGED <<export, exporter>>
  BY <1>1, <1>2, WorkerRests DEF ExportTyped
<1>3. CASE \E p \in Slots, selection \in Selections, list \in {{}} \cup {{l} : l \in Lists} :
             StartExport(p, selection, list)
  <2> PICK p \in Slots, selection \in Selections, list \in {{}} \cup {{l} : l \in Lists} :
             StartExport(p, selection, list)
    BY <1>3
  <2>1. /\ export.status = "none" /\ exporter' = exporter /\ list \in SUBSET Lists
        /\ export' = [NoExport EXCEPT !.status = "pending", !.selection = selection, !.list = list]
    BY DEF StartExport
  <2>2. export' \in Exports
    <3>1. <<>> \in Seq(Nat)
      OBVIOUS
    <3>2. QED
      BY <2>1, <3>1 DEF NoExport, Exports, JobStatuses
  <2>3. exporter.at = "idle"
    BY <1>1, <2>1 DEF Kept
  <2>4. QED
    BY <1>1, <2>1, <2>2, <2>3, WorkerRests DEF ExportTyped
<1>4. CASE BeginExport /\ Watch
  BY <1>1, <1>4, BeginExportStep
<1>5. CASE ReadPage
  BY <1>1, <1>5, ReadPageStep
<1>6. CASE StageResult
  BY <1>1, <1>6, StageStep
<1>7. CASE CompleteExport
  <2>1. export' \in Exports
    <3>1. export' = [export EXCEPT !.status = "completed", !.count = Len(exporter.got)]
      BY <1>7 DEF CompleteExport
    <3>2. QED
      BY <3>1, ExportFacts DEF ExportTyped, Exports, JobStatuses
  <2>2. exporter' = IdleExporter
    BY <1>7 DEF CompleteExport
  <2>3. QED
    BY <1>1, <2>1, <2>2, ExportFacts, WorkerStops DEF ExportTyped
<1>8. CASE FailExport
  <2>1. export' \in Exports
    BY <1>8 DEF FailExport, ExportTyped, Exports, JobStatuses
  <2>2. exporter' = IdleExporter
    BY <1>8 DEF FailExport
  <2>3. QED
    BY <1>1, <2>1, <2>2, ExportFacts, WorkerStops DEF ExportTyped
<1>9. CASE WorkerFails
  <2>1. export' = export /\ (exporter' = exporter \/ exporter' = IdleExporter)
    BY <1>9 DEF WorkerFails
  <2>2. CASE exporter' = exporter
    BY <1>2, <2>1, <2>2
  <2>3. CASE exporter' = IdleExporter
    BY <1>1, <2>1, <2>3, ExportFacts, WorkerStops DEF ExportTyped
  <2>4. QED
    BY <2>1, <2>2, <2>3
<1>10. CASE UNCHANGED vars
  BY <1>2, <1>10 DEF vars, bulk
<1>11. CASE Public \/ Operate
  BY <1>2, <1>11, OthersLeaveJobs DEF bulk
<1>12. CASE \E p \in Slots, file \in Files, targets \in SUBSET Lists : StartImport(p, file, targets)
  BY <1>2, <1>12 DEF StartImport
<1>13. CASE (\E p \in Slots : EnqueueJob(p)) \/ BeginImport \/ ImportRow \/ AttachToLists \/ CompleteImport
  BY <1>2, <1>13 DEF EnqueueJob, BeginImport, ImportRow, AttachToLists, CompleteImport
<1>14. QED
  BY <1>3, <1>4, <1>5, <1>6, <1>7, <1>8, <1>9, <1>10, <1>11, <1>12, <1>13 DEF Next, Bulk

-----------------------------------------------------------------------------
(* The invariant.                                                          *)

LEMMA JobsInit == Init => JobsTyped /\ ImportCounts /\ ExportKeepsPromise
<1> SUFFICES ASSUME Init PROVE JobsTyped /\ ImportCounts /\ ExportKeepsPromise
  OBVIOUS
<1>1. /\ import = NoImport /\ export = NoExport /\ queue = {} /\ importer = IdleImporter
      /\ exporter = IdleExporter /\ handled = [n \in {} |-> 0] /\ promised = {}
  BY DEF Init
<1>2. <<>> \in Seq(Emails \cup {"bad"}) /\ <<>> \in Seq(Nat)
  OBVIOUS
<1>3. ImportTyped
  BY <1>1, <1>2 DEF ImportTyped, NoImport, IdleImporter, Imports, Importers, JobStatuses
<1>4. ExportTyped
  BY <1>1, <1>2 DEF ExportTyped, NoExport, IdleExporter, Exports, Exporters, JobStatuses, Selections
<1>5. ImportCounts
  BY <1>1 DEF ImportCounts, ImportAccountsForRows, NoImport, IdleImporter
<1>6. ExportKeepsPromise
  BY <1>1 DEF ExportKeepsPromise, IdleExporter
<1>7. QED
  BY <1>1, <1>3, <1>4, <1>5, <1>6 DEF JobsTyped

LEMMA QueueStep ==
    ASSUME queue \subseteq {"import", "export"}, [Next]_vars
    PROVE  queue' \subseteq {"import", "export"}
<1>1. CASE UNCHANGED vars
  BY <1>1 DEF vars, bulk
<1>2. CASE Public \/ Operate
  BY <1>2, OthersLeaveJobs DEF bulk
<1>3. CASE Bulk
  BY <1>3 DEF Bulk, StartImport, EnqueueJob, BeginImport, ImportRow, AttachToLists, CompleteImport,
              StartExport, BeginExport, ReadPage, StageResult, CompleteExport, FailExport, WorkerFails
<1>4. QED
  BY <1>1, <1>2, <1>3 DEF Next

LEMMA AudienceStep == AudienceInv /\ [Next]_vars => AudienceInv'
<1> SUFFICES ASSUME AudienceInv, [Next]_vars PROVE AudienceInv'
  OBVIOUS
<1>1. CoreInv /\ JobsTyped /\ ImportTyped /\ ExportTyped /\ ImportCounts /\ ExportKeepsPromise
      /\ queue \subseteq {"import", "export"}
  BY DEF AudienceInv, JobsTyped
<1>2. CoreInv'
  BY <1>1, CoreStep
<1>3. RowsTyped /\ RowsTyped'
  BY <1>1, <1>2 DEF CoreInv
<1>4. ImportTyped' /\ ImportCounts'
  BY <1>1, ImportStep
<1>5. ExportTyped' /\ ExportKeepsPromise'
  BY <1>1, <1>3, ExportStep
<1>6. queue' \subseteq {"import", "export"}
  BY <1>1, QueueStep
<1>7. QED
  BY <1>2, <1>4, <1>5, <1>6 DEF AudienceInv, JobsTyped

(* The rows, the requests and the jobs have their types, and the invariant *)
(* the properties below rest on holds: what a request knows, who has asked *)
(* for what, what the import has counted and what the export owes.         *)
THEOREM AudienceInvariant == Spec => [](TypeOK /\ AudienceInv)
<1>1. Init => AudienceInv
  BY CoreInit, JobsInit DEF AudienceInv
<1>2. AudienceInv => TypeOK
  <2> SUFFICES ASSUME AudienceInv PROVE TypeOK
    OBVIOUS
  <2>1. RowsTyped /\ PublicTyped /\ RequestsTyped /\ AskedTyped /\ ImportTyped /\ ExportTyped
        /\ queue \subseteq {"import", "export"}
    BY DEF AudienceInv, CoreInv, JobsTyped
  <2>2. import.status \in JobStatuses \ {"failed"} /\ export.status \in JobStatuses
    BY <2>1, ImportFacts, ExportFacts
  <2>3. QED
    BY <2>1, <2>2 DEF TypeOK, RowsTyped, SubRows, PublicTyped, RequestsTyped, AskedTyped
<1>3. QED
  BY <1>1, <1>2, AudienceStep, PTL DEF Spec

(* No membership is confirmed that its address, or an operator, has not    *)
(* asked for: not through a link of another address, an import, a creation *)
(* or a preference page that was left open.  It holds for any lists and    *)
(* addresses, as long as Search finds an address by itself alone.          *)
THEOREM ConfirmationsAreAskedFor ==
    ASSUME NamesApart
    PROVE  Spec => []ConfirmedByConsent
<1>1. AudienceInv => ConfirmedByConsent
  <2> SUFFICES ASSUME AudienceInv, NEW i \in Live, NEW l \in Lists, member[i][l] = "confirmed"
               PROVE  <<subs[i].email, l>> \in asked
    BY DEF ConfirmedByConsent
  <2>1. RowsTyped /\ MembersAsked
    BY DEF AudienceInv, CoreInv
  <2>2. i \in Ids
    BY <2>1, SubFacts
  <2>3. QED
    BY <2>1, <2>2 DEF MembersAsked
<1>2. QED
  BY <1>1, AudienceInvariant, PTL

(* However often the import job is delivered and wherever its worker dies, *)
(* a completed import has handled and counted each row of its file once.   *)
THEOREM CompletedImportsCountEveryRow == Spec => []ImportAccountsForRows
<1>1. AudienceInv => ImportAccountsForRows
  BY DEF AudienceInv, ImportCounts
<1>2. QED
  BY <1>1, AudienceInvariant, PTL

-----------------------------------------------------------------------------
(* What a step may do.                                                     *)

(* The worker's steps add rows and memberships and touch no others.        *)
LEMMA ImportAdds ==
    ASSUME AudienceInv, [Next]_vars, importer' # importer, NEW i \in Known
    PROVE  /\ subs'[i] = subs[i]
           /\ \A l \in Lists :
                 \/ member'[i][l] = member[i][l]
                 \/ member[i][l] = "none" /\ member'[i][l] = "unconfirmed"
<1>1. RowsTyped /\ ImportTyped /\ ImportCounts /\ JobsTyped
  BY DEF AudienceInv, CoreInv, JobsTyped
<1>2. i \in Ids
  BY <1>1, SubFacts
<1>3. CASE ImportRow
  <2>1. UNCHANGED member
    BY <1>3 DEF ImportRow
  <2>2. CASE UNCHANGED subs
    BY <2>1, <2>2
  <2>3. CASE ~UNCHANGED subs
    <3> PICK e : e = import.rows[importer.row]
      OBVIOUS
    <3>1. e # "bad" /\ RoomFor(e) /\ subs' = Upserted(e) /\ importer.at = "upsert"
          /\ importer.row <= Len(import.rows)
      BY <1>3, <2>3 DEF ImportRow
    <3>2. importer.row \in 1 .. Len(import.rows) + 1 /\ Len(import.rows) \in Nat
      BY <1>1, <3>1, WorkerPasses, ImportFacts
    <3>3. importer.row \in 1 .. Len(import.rows)
      BY <3>1, <3>2
    <3>4. e \in Emails
      BY <1>1, <3>1, <3>3, FileRow
    <3>5. subs'[i] = subs[i]
      BY <1>1, <3>1, <3>4, UpsertSub
    <3>6. QED
      BY <2>1, <3>5
  <2>4. QED
    BY <2>2, <2>3
<1>4. CASE AttachToLists
  BY <1>1, <1>2, <1>4, Attached DEF AttachToLists
<1>5. CASE BeginImport \/ CompleteImport \/ WorkerFails
  BY <1>5 DEF BeginImport, CompleteImport, WorkerFails, rows
<1>6. CASE Public \/ Operate
  BY <1>6, OthersLeaveJobs DEF bulk
<1>7. CASE UNCHANGED vars
  BY <1>7 DEF vars, bulk
<1>8. CASE \/ \E p \in Slots, file \in Files, targets \in SUBSET Lists : StartImport(p, file, targets)
           \/ \E p \in Slots : EnqueueJob(p)
           \/ \E p \in Slots, selection \in Selections, list \in {{}} \cup {{l} : l \in Lists} :
                StartExport(p, selection, list)
  BY <1>8 DEF StartImport, EnqueueJob, StartExport
<1>9. CASE BeginExport \/ ReadPage \/ StageResult \/ CompleteExport \/ FailExport
  BY <1>9 DEF BeginExport, ReadPage, StageResult, CompleteExport, FailExport
<1>10. QED
  BY <1>3, <1>4, <1>5, <1>6, <1>7, <1>8, <1>9 DEF Next, Bulk

(* An import leaves every subscriber and every membership that is there as *)
(* it is, among them those that unsubscribe while it runs.                 *)
THEOREM ImportsOnlyAdd == Spec => ImportOnlyAdds
<1>1. AudienceInv /\ [Next]_vars =>
          [importer' # importer =>
              \A i \in Known :
                  /\ subs'[i] = subs[i]
                  /\ \A l \in Lists :
                        \/ member'[i][l] = member[i][l]
                        \/ member[i][l] = "none" /\ member'[i][l] = "unconfirmed"]_vars
  BY ImportAdds
<1>2. QED
  BY <1>1, AudienceInvariant, PTL DEF Spec, ImportOnlyAdds

(* The only step that completes an export is the one after its result was  *)
(* staged, and the staged result holds everybody it owes.                  *)
LEMMA ExportCompletes ==
    ASSUME AudienceInv, [Next]_vars, export.status # "completed", export'.status = "completed",
           NEW i \in promised
    PROVE  \E k \in DOMAIN export.staged : export.staged[k] = i
<1>1. ExportTyped /\ ExportKeepsPromise
  BY DEF AudienceInv, JobsTyped
<1>2. CompleteExport
  <2>1. ~(Public \/ Operate \/ UNCHANGED vars)
    BY OthersLeaveJobs DEF vars, bulk
  <2>2. ~\E p \in Slots, selection \in Selections, list \in {{}} \cup {{l} : l \in Lists} :
            StartExport(p, selection, list)
    BY DEF StartExport, NoExport
  <2>3. ~(BeginExport \/ StageResult \/ FailExport)
    BY <1>1 DEF BeginExport, StageResult, FailExport, ExportTyped, Exports
  <2>4. ~(ReadPage \/ WorkerFails \/ BeginImport \/ ImportRow \/ AttachToLists \/ CompleteImport)
    BY DEF ReadPage, WorkerFails, BeginImport, ImportRow, AttachToLists, CompleteImport
  <2>5. ~\E p \in Slots, file \in Files, targets \in SUBSET Lists : StartImport(p, file, targets)
    BY DEF StartImport
  <2>6. ~\E p \in Slots : EnqueueJob(p)
    BY DEF EnqueueJob
  <2>7. QED
    BY <2>1, <2>2, <2>3, <2>4, <2>5, <2>6 DEF Next, Bulk
<1>3. exporter.at = "complete"
  BY <1>2 DEF CompleteExport
<1>4. QED
  BY <1>1, <1>3 DEF ExportKeepsPromise, Exported

(* An export by pages misses nobody who stays selected while it runs, for  *)
(* any page size and however many rows are added between two pages.        *)
THEOREM ExportsMissNobody == Spec => ExportMissesNobody
<1>1. AudienceInv /\ [Next]_vars =>
          [export.status # "completed" /\ export'.status = "completed" =>
              \A i \in promised : \E k \in DOMAIN export.staged : export.staged[k] = i]_vars
  BY ExportCompletes
<1>2. QED
  BY <1>1, AudienceInvariant, PTL DEF Spec, ExportMissesNobody

(* A step that writes rows or pending subscriptions is the step of another *)
(* request than one that is still to ask the suppression list.             *)
OnlyMoves(q) == \A p \in Slots : p # q => request'[p] = request[p]

LEMMA GoesMoves ==
    ASSUME RequestsTyped, NEW q \in Slots, NEW r, request' = [request EXCEPT ![q] = r]
    PROVE  OnlyMoves(q)
  BY DEF RequestsTyped, OnlyMoves

LEMMA BarredWaits ==
    ASSUME AudienceInv, [Next]_vars, NEW p \in Slots, request[p].barred, request'[p] # request[p]
    PROVE  UNCHANGED <<rows, pending>>
<1>1. RequestsTyped /\ request[p].op = "confirm" /\ request[p].at = "suppression" /\ request[p] # Idle
  BY IdleFacts DEF AudienceInv, CoreInv, RequestsBarred, Barred
<1>2. \A q \in Slots : OnlyMoves(q) => q = p
  BY DEF OnlyMoves
<1>3. ASSUME NEW q \in Slots
      PROVE  /\ ~UpsertPending(q) /\ ~RefreshToken(q) /\ ~UpsertConfirmed(q) /\ ~DeletePending(q)
             /\ ~WriteSubscriber(q)
             /\ \A l \in Lists : ~ConfirmMembership(q, l) /\ ~SetStatus(q, l) /\ ~AttachCreated(q, l)
  <2>1. \A r : request' = [request EXCEPT ![q] = r] => q = p
    BY <1>1, <1>2, GoesMoves
  <2>2. /\ \A r : Goes(q, r) => q = p
        /\ \A at : NextStep(q, at) => q = p
        /\ \A l : Crosses(q, l) => q = p
        /\ Ends(q) => q = p
    BY <2>1, Zenon DEF Goes, NextStep, Crosses, Ends
  <2>3. /\ UpsertPending(q) => q = p /\ request[q].op = "submit"
        /\ RefreshToken(q) => q = p /\ request[q].op = "resend"
        /\ UpsertConfirmed(q) => q = p /\ request[q].at = "upsert"
        /\ DeletePending(q) => q = p /\ request[q].at = "attach"
        /\ WriteSubscriber(q) => q = p /\ request[q].at = "profile"
        /\ \A l \in Lists : /\ ConfirmMembership(q, l) => q = p /\ request[q].at = "attach"
                            /\ SetStatus(q, l) => q = p /\ request[q].at = "lists"
                            /\ AttachCreated(q, l) => q = p /\ request[q].at = "attach"
    BY <2>2, Zenon DEF UpsertPending, RefreshToken, UpsertConfirmed, DeletePending, WriteSubscriber,
                ConfirmMembership, SetStatus, AttachCreated, At
  <2>4. QED
    BY <1>1, <2>3
<1>4. ASSUME NEW q \in Slots, NEW e \in Emails, NEW chosen \in SUBSET Lists
      PROVE  ~CreateSubscriber(q, e, chosen)
  <2>1. \A r : Begins(q, r) => OnlyMoves(q) /\ request[q] = Idle
    BY <1>1, GoesMoves DEF Begins
  <2>2. \A r : ~Begins(q, r)
    BY <1>1, <1>2, <2>1
  <2>3. QED
    BY <2>2 DEF CreateSubscriber, Does
<1>5. CASE Public
  <2>1. ~\E e \in Emails : Expire(e)
    BY DEF Expire, asking
  <2>2. QED
    BY <1>3, <1>5, <2>1
       DEF Public, SubmitPublicSubscription, EnqueueOptinSend, SendOptin, ResendConfirmation,
           ConfirmSubscription, CheckSuppressed, ResolveID, ChangeSuppression, PublicUnsubscribe,
           UpdatePreferences, public
<1>6. CASE Operate
  <2>1. /\ ~\E i \in Known : DeleteSubscriber(i)
        /\ ~\E i \in Known, l \in Lists : AddToList(i, l)
        /\ ~\E i \in Known, l \in Lists : RemoveFromList(i, l)
        /\ ~\E i \in Known, l \in Lists, status \in Statuses \ {"none"} : ChangeSubscriptionState(i, l, status)
        /\ ~\E l \in Lists : CreateList(l)
        /\ ~\E l \in Lists : DeleteList(l)
    BY DEF DeleteSubscriber, AddToList, RemoveFromList, ChangeSubscriptionState, CreateList,
           DeleteList, Does
  <2>2. QED
    BY <1>3, <1>4, <1>6, <2>1
       DEF Operate, UpdateSubscriber, SaveSubscriptionPage, Reconfigure, RequestFails, public
<1>7. CASE Bulk
  <2>1. ~ImportRow /\ ~AttachToLists
    BY DEF ImportRow, AttachToLists, asking
  <2>2. QED
    BY <1>7, <2>1
       DEF Bulk, StartImport, EnqueueJob, BeginImport, CompleteImport, StartExport, BeginExport,
           ReadPage, StageResult, CompleteExport, FailExport, WorkerFails, public
<1>8. CASE UNCHANGED vars
  BY <1>8 DEF vars, public
<1>9. QED
  BY <1>5, <1>6, <1>7, <1>8 DEF Next

(* A confirmation of a suppressed address is refused before it writes      *)
(* anything, whatever the other requests do meanwhile.                     *)
THEOREM SuppressedAddressesStayOut == Spec => SuppressedStayOut
<1>1. AudienceInv /\ [Next]_vars =>
          [\A p \in Slots :
              request[p].barred /\ request'[p] # request[p] => UNCHANGED <<rows, pending>>]_vars
  BY BarredWaits
<1>2. QED
  BY <1>1, AudienceInvariant, PTL DEF Spec, SuppressedStayOut

=============================================================================
