------------------------------ MODULE Content -------------------------------
(***************************************************************************)
(* The content of templates and campaigns (internal/campaign): each row    *)
(* has an HTML body, the visual document it was rendered from or none, and *)
(* updated_at.  A visual save is refused unless updated_at is what its     *)
(* editor last saw.  Every write reads the row without a lock and writes   *)
(* all of it back, so writes that overlap lose one another.                *)
(***************************************************************************)
EXTENDS Naturals

CONSTANTS
    Templates, Campaigns,  \* rows
    Editors,               \* operators, each with one row open and one request
    MaxVersions,           \* bound: bodies written in all
    MaxStamps,             \* bound: write transactions
    MaxContentFaults       \* bound: requests that die

ASSUME ContentAssumption ==
    /\ Templates \cap Campaigns = {}
    /\ MaxVersions \in Nat /\ MaxStamps \in Nat /\ MaxContentFaults \in Nat

VARIABLES
    stored,         \* the rows of templates and campaigns
    editor,         \* what each open editor shows
    edit,           \* the request each operator is running
    versions,       \* bodies written so far (bounded)
    stamps,         \* write transactions so far: their now() (bounded)
    contentFaults   \* faults so far (bounded)

contentVars == <<stored, editor, edit, versions, stamps, contentFaults>>

-----------------------------------------------------------------------------
Docs == Templates \cup Campaigns
NoDocument == 0
Versions == 1 .. MaxVersions
Contents == [status : {"none", "draft", "started", "deleted"}, html : 0 .. MaxVersions,
         document : 0 .. MaxVersions, stamp : 0 .. MaxStamps]
NoContent == [status |-> "none", html |-> 0, document |-> NoDocument, stamp |-> 0]
Exists(d) == stored[d].status \in {"draft", "started"}
(* What an operator sees of a row.                                         *)
Shown(r) == <<r.html, r.document>>

Kinds == {"visual", "code", "optout", "start", "copy"}
NoEdit == [at |-> "idle", kind |-> "code", doc |-> CHOOSE d \in Docs : TRUE,
           read |-> NoContent, stamp |-> 0, version |-> 0]
NoEditor == [open |-> FALSE, doc |-> CHOOSE d \in Docs : TRUE, seen |-> 0,
             shows |-> <<0, 0>>, crossed |-> FALSE]

ContentInit ==
    /\ stored = [d \in Docs |-> NoContent]
    /\ editor = [e \in Editors |-> NoEditor]
    /\ edit = [e \in Editors |-> NoEdit]
    /\ versions = 0
    /\ stamps = 0
    /\ contentFaults = 0

Ends(e) == edit' = [edit EXCEPT ![e] = NoEdit]
NewVersion == versions < MaxVersions /\ versions' = versions + 1
NewStamp == stamps < MaxStamps /\ stamps' = stamps + 1
Begins(e) == edit[e].at = "idle"

-----------------------------------------------------------------------------
(* A new template is code only.                                            *)
NewTemplate == [status |-> "draft", html |-> versions + 1, document |-> NoDocument, stamp |-> stamps + 1]

CreateTemplate(e, t) ==
    /\ Begins(e)
    /\ stored[t].status = "none"
    /\ NewVersion
    /\ NewStamp
    /\ stored' = [stored EXCEPT ![t] = NewTemplate]
    /\ UNCHANGED <<editor, edit, contentFaults>>

(* Templates.Delete.                                                       *)
DeleteTemplate(e, t) ==
    /\ Begins(e)
    /\ Exists(t)
    /\ stored' = [stored EXCEPT ![t].status = "deleted"]
    /\ UNCHANGED <<editor, edit, versions, stamps, contentFaults>>

(* CreateCampaignHandler: what the request leaves out comes from the       *)
(* template, which is read first; Campaigns.Add is another transaction.    *)
CopyTemplate(e, c, t) ==
    /\ Begins(e)
    /\ Exists(t)
    /\ stored[c].status = "none"
    /\ edit' = [edit EXCEPT ![e] = [NoEdit EXCEPT !.at = "add", !.kind = "copy",
                                                  !.doc = c, !.read = stored[t]]]
    /\ UNCHANGED <<stored, editor, versions, stamps, contentFaults>>

(* NewCampaign, AttachVisualContent: the document comes with the template  *)
(* even when the request brings a body of its own.                         *)
NewCampaign(template, own) ==
    [status |-> "draft", html |-> IF own THEN versions + 1 ELSE template.html,
     document |-> template.document, stamp |-> stamps + 1]

AddCampaign(e, own) ==
    LET r == edit[e]
    IN /\ r.at = "add"
       /\ stored[r.doc].status = "none"
       /\ NewStamp
       /\ IF own THEN NewVersion ELSE UNCHANGED versions
       /\ stored' = [stored EXCEPT ![r.doc] = NewCampaign(r.read, own)]
       /\ Ends(e)
       /\ UNCHANGED <<editor, contentFaults>>

-----------------------------------------------------------------------------
(* GetTemplate, GetCampaign: the editor shows the row and keeps its stamp. *)
Shows(d) == [open |-> TRUE, doc |-> d, seen |-> stored[d].stamp, shows |-> Shown(stored[d]),
             crossed |-> FALSE]

OpenEditor(e, d) ==
    /\ Begins(e)
    /\ Exists(d)
    /\ editor' = [editor EXCEPT ![e] = Shows(d)]
    /\ editor' # editor
    /\ UNCHANGED <<stored, edit, versions, stamps, contentFaults>>

(* Mutant: the gate accepts a row that is newer than what was loaded.      *)
FreshOrNewer(e, r) == editor[e].seen <= r.stamp
(* ErrStaleRow unless updated_at is the one the editor loaded.             *)
Fresh(e, r) == editor[e].seen = r.stamp

(* Campaign.Recompose, ApplyVisualSave, OptOutVisual and Start reject a    *)
(* campaign that is no longer a draft; templates are always editable.      *)
Editable(r) == r.status = "draft"

(* Update: the transaction begins (now() is its beginning) and reads the   *)
(* row.                                                                    *)
Loads(e, kind, d) ==
    /\ Begins(e)
    /\ Exists(d)
    /\ Editable(stored[d])
    /\ NewStamp
    /\ edit' = [edit EXCEPT ![e] = [at |-> "write", kind |-> kind, doc |-> d,
            read |-> stored[d], stamp |-> stamps + 1, version |-> versions']]
    /\ UNCHANGED <<stored, editor, contentFaults>>

(* The stamp is checked first, then the document.                          *)
Saves(e, d) ==
    /\ editor[e].open /\ editor[e].doc = d
    /\ Fresh(e, stored[d])
    /\ NewVersion
    /\ Loads(e, "visual", d)

SaveVisualTemplate(e, t) == Saves(e, t)
SaveVisualCampaign(e, c) == Saves(e, c)

UpdateTemplate(e, t) == NewVersion /\ Loads(e, "code", t)
UpdateCampaign(e, c) == NewVersion /\ Loads(e, "code", c)

OptOutVisualTemplate(e, t) == UNCHANGED versions /\ Loads(e, "optout", t)
OptOutVisualCampaign(e, c) == UNCHANGED versions /\ Loads(e, "optout", c)

StartCampaign(e, c) == UNCHANGED versions /\ Loads(e, "start", c)

(* A stale save is answered with the row's stamp, and the operator chooses *)
(* to overwrite: the editor takes the stamp over for its next save.        *)
TakeOver(e, d) ==
    /\ Begins(e)
    /\ editor[e].open /\ editor[e].doc = d
    /\ Exists(d)
    /\ ~Fresh(e, stored[d])
    /\ editor' = [editor EXCEPT ![e] = Shows(d)]
    /\ UNCHANGED <<stored, edit, versions, stamps, contentFaults>>

(* A visual save replaces body and document, a code edit keeps the         *)
(* document, and opting out drops it.                                      *)
ApplyVisualSave(r) == [r.read EXCEPT !.html = r.version, !.document = r.version]
Recompose(r) == [r.read EXCEPT !.html = r.version]
OptOutVisual(r) == [r.read EXCEPT !.document = NoDocument]
Changed(r) ==
    CASE r.kind = "visual" -> ApplyVisualSave(r)
      [] r.kind = "code"   -> Recompose(r)
      [] r.kind = "optout" -> OptOutVisual(r)
      [] r.kind = "start"  -> [r.read EXCEPT !.status = "started"]

(* Another operator's write lands between the read and the write of a      *)
(* visual save, or between its write and the read of the new stamp.        *)
CrossedBy(e) == [o \in Editors |->
    IF o # e /\ edit[o].at \in {"write", "reread"} /\ edit[o].kind = "visual" /\ edit[o].doc = edit[e].doc
    THEN [editor[o] EXCEPT !.crossed = TRUE] ELSE editor[o]]

(* The UPDATE of a row that was deleted meanwhile changes nothing.         *)
Write(e) ==
    LET r == edit[e]
        written == [Changed(r) EXCEPT !.stamp = r.stamp]
    IN /\ r.at = "write"
       /\ stored' = IF Exists(r.doc) THEN [stored EXCEPT ![r.doc] = written] ELSE stored
       /\ IF r.kind = "visual"
          THEN /\ editor' = [CrossedBy(e) EXCEPT ![e].shows = Shown(written), ![e].crossed = FALSE]
               /\ edit' = [edit EXCEPT ![e] = [NoEdit EXCEPT !.at = "reread", !.kind = "visual", !.doc = r.doc]]
          ELSE editor' = CrossedBy(e) /\ Ends(e)
       /\ UNCHANGED <<versions, stamps, contentFaults>>

(* The new updated_at is read in a transaction of its own and becomes what *)
(* the editor has seen.                                                    *)
Reread(e) ==
    LET d == edit[e].doc
    IN /\ edit[e].at = "reread"
       /\ IF Exists(d) THEN editor' = [editor EXCEPT ![e].seen = stored[d].stamp] ELSE UNCHANGED editor
       /\ Ends(e)
       /\ UNCHANGED <<stored, versions, stamps, contentFaults>>

(* A lost process or an error between two steps, or a document with an     *)
(* unknown merge tag or a foreign image.                                   *)
EditFails(e) ==
    /\ edit[e].at # "idle"
    /\ contentFaults < MaxContentFaults /\ contentFaults' = contentFaults + 1
    /\ Ends(e)
    /\ UNCHANGED <<stored, editor, versions, stamps>>

ContentNext ==
    \/ \E e \in Editors, t \in Templates : CreateTemplate(e, t)
    \/ \E e \in Editors, t \in Templates : DeleteTemplate(e, t)
    \/ \E e \in Editors, c \in Campaigns, t \in Templates : CopyTemplate(e, c, t)
    \/ \E e \in Editors, own \in BOOLEAN : AddCampaign(e, own)
    \/ \E e \in Editors, d \in Docs : OpenEditor(e, d)
    \/ \E e \in Editors, t \in Templates : SaveVisualTemplate(e, t)
    \/ \E e \in Editors, c \in Campaigns : SaveVisualCampaign(e, c)
    \/ \E e \in Editors, t \in Templates : UpdateTemplate(e, t)
    \/ \E e \in Editors, c \in Campaigns : UpdateCampaign(e, c)
    \/ \E e \in Editors, t \in Templates : OptOutVisualTemplate(e, t)
    \/ \E e \in Editors, c \in Campaigns : OptOutVisualCampaign(e, c)
    \/ \E e \in Editors, c \in Campaigns : StartCampaign(e, c)
    \/ \E e \in Editors, d \in Docs : TakeOver(e, d)
    \/ \E e \in Editors : Write(e)
    \/ \E e \in Editors : Reread(e)
    \/ \E e \in Editors : EditFails(e)

ContentSpec == ContentInit /\ [][ContentNext]_contentVars

-----------------------------------------------------------------------------
(* Every reachable state is well typed.                                    *)
ContentTypeOK ==
    /\ stored \in [Docs -> Contents]
    /\ editor \in [Editors -> [open : BOOLEAN, doc : Docs, seen : 0 .. MaxStamps,
                               shows : (0 .. MaxVersions) \X (0 .. MaxVersions), crossed : BOOLEAN]]
    /\ edit \in [Editors -> [at : {"idle", "add", "write", "reread"}, kind : Kinds, doc : Docs,
                             read : Contents, stamp : 0 .. MaxStamps, version : 0 .. MaxVersions]]
    /\ versions \in 0 .. MaxVersions
    /\ stamps \in 0 .. MaxStamps
    /\ contentFaults \in 0 .. MaxContentFaults

(* FR-009: a visual save never silently overwrites a change made in        *)
(* another tab since the editor was opened: what it replaces is what its   *)
(* editor shows.  Only a write that crosses the save itself, or the        *)
(* reading of its new stamp, escapes the gate.                             *)
OverwritesWhatItShows ==
    [][\A e \in Editors :
         /\ edit[e].at = "write" /\ edit[e].kind = "visual"
         /\ edit'[e].at = "reread"
         /\ Exists(edit[e].doc)
         => editor[e].crossed \/ Shown(stored[edit[e].doc]) = editor[e].shows]_contentVars
=============================================================================
