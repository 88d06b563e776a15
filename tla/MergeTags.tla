------------------------------ MODULE MergeTags ------------------------------
(* Merge tags from the editor to the mail: a visual document is validated  *)
(* against the field registry when it is saved                             *)
(* (campaign/domain/visualdoc_validate.go), its body keeps the tags as     *)
(* placeholders, and the batch worker substitutes them per recipient       *)
(* (sending/domain/substitution.go).  In between operators define and      *)
(* delete fields, edit bodies as code, convert them to visual documents    *)
(* and edit the recipient.                                                 *)
(*                                                                         *)
(* A block is prose, whose inlines are chips (merge tags) or typed text, a *)
(* container of blocks, or opaque: bytes that nothing looks into.          *)
EXTENDS Naturals

CONSTANTS
    CustomSlugs,   \* slugs that operators define fields for
    Documents,     \* documents an operator may save in the visual editor
    CodeBodies,    \* bodies an operator may save as code: no chips
    MaxDepth,      \* bound: containers nested in one another
    MaxEdits       \* bound: changes of fields, attributes and bodies

VARIABLES
    registry,    \* the defined custom fields
    attributes,  \* the recipient's attributes
    body,        \* the campaign's body and whether it has a visual document
    editing,     \* the visual save in progress
    mail,        \* what the last mail shows for each placeholder
    unchecked,   \* placeholders of the body that no validation has seen
    defined,     \* custom slugs that were ever in the registry
    edits

tagVars == <<registry, attributes, body, editing, mail, unchecked, defined, edits>>

-----------------------------------------------------------------------------
(* Tags.                                                                   *)

Builtins == {"email", "first_name", "last_name", "name", "state"}
AllowedCampaignMergeTags == {"unsubscribe_url", "preference_url", "tenant_name"}

Tag(namespace, key) == [namespace |-> namespace, key |-> key]
Chip(tag) == [chip |-> TRUE, tag |-> tag]
Typed(tag) == [chip |-> FALSE, tag |-> tag]

(* Text between two blocks is prose too, but bare.                         *)
Prose(chips, typed) ==
    [kind |-> "prose", bare |-> FALSE,
     inlines |-> {Chip(t) : t \in chips} \cup {Typed(t) : t \in typed}]
Bare(typed) == [Prose({}, typed) EXCEPT !.bare = TRUE]
Opaque(typed) == [kind |-> "opaque", inlines |-> {Typed(t) : t \in typed}]
Container(blocks) == [kind |-> "container", blocks |-> blocks]

(* parseMergeTag: the two namespaces of the platform.                      *)
Recognized(tag) == tag.namespace \in {"subscriber", "campaign"}

Containers(blocks) == {b \in blocks : b.kind = "container"}

(* The blocks of a document at each depth, and at any.                     *)
Levels(blocks) ==
    LET level[depth \in 0 .. MaxDepth] ==
            IF depth = 0 THEN blocks ELSE UNION {b.blocks : b \in Containers(level[depth - 1])}
    IN  level
Within(blocks) == UNION {Levels(blocks)[depth] : depth \in 0 .. MaxDepth}

(* Only prose has chips.                                                   *)
Placeholders(blocks) ==
    UNION {{i.tag : i \in b.inlines} : b \in Within(blocks) \ Containers(Within(blocks))}
Chips(blocks) ==
    UNION {{i.tag : i \in {j \in b.inlines : j.chip}} :
              b \in {c \in Within(blocks) : c.kind = "prose"}}

ASSUME TagsAssumption ==
    /\ MaxDepth \in Nat /\ MaxEdits \in Nat
    /\ CustomSlugs \cap Builtins = {}
    /\ \A blocks \in CodeBodies : Chips(blocks) = {}
    /\ \A blocks \in Documents \cup CodeBodies : Containers(Levels(blocks)[MaxDepth]) = {}

ValidMergeTag(tag, slugs) ==
    \/ tag.namespace = "subscriber" /\ tag.key \in slugs
    \/ tag.namespace = "campaign" /\ tag.key \in AllowedCampaignMergeTags

(* validateInline: typed text is not searched for placeholders.            *)
ValidInline(inline, slugs) == inline.chip => ValidMergeTag(inline.tag, slugs)

(* A bug a validation could have: it does not enter containers.            *)
ValidOutside(blocks, slugs) ==
    \A b \in blocks : b.kind = "prose" => \A i \in b.inlines : ValidInline(i, slugs)

(* Validate: prose at every depth.  Opaque blocks are not looked into.     *)
ValidDocument(blocks, slugs) ==
    \A b \in Within(blocks) : b.kind = "prose" => \A i \in b.inlines : ValidInline(i, slugs)

(* appendTextSegments: a placeholder in prose becomes a chip; text between *)
(* blocks is taken as it is, and what does not round-trip becomes opaque.  *)
Tokenized(block) ==
    [block EXCEPT !.inlines = {[i EXCEPT !.chip = Recognized(i.tag)] : i \in @}]

(* One form of each block.                                                 *)
OneOfEach(blocks, forms) ==
    {{choice[b] : b \in blocks} :
        choice \in {c \in [blocks -> UNION {forms[b] : b \in blocks}] : \A b \in blocks : c[b] \in forms[b]}}

(* Convert: a container that does not round-trip becomes opaque as a whole. *)
Conversions(blocks) ==
    LET converted[b \in Within(blocks)] ==
            CASE b.kind = "prose" /\ ~b.bare -> {Tokenized(b)}
              [] b.kind = "container" ->
                   {Opaque(Placeholders({b}))}
                   \cup {Container(inner) : inner \in OneOfEach(b.blocks, converted)}
              [] OTHER -> {b}
    IN  OneOfEach(blocks, converted)

-----------------------------------------------------------------------------
(* Substitution: a value, which a name may leave empty, or nothing.        *)

Attribute(key) == IF key \in CustomSlugs THEN attributes[key] ELSE "absent"

ResolveSubscriber(key) ==
    CASE key \in Builtins -> "value"
      [] key \notin Builtins /\ Attribute(key) = "absent" -> "literal"
      [] OTHER -> IF Attribute(key) = "null" THEN "blank" ELSE "value"

(* The worker knows no address of the preference page.                     *)
ResolveCampaign(key, tenantName) ==
    CASE key = "unsubscribe_url" -> "value"
      [] key = "preference_url" -> "blank"
      [] key = "tenant_name" -> tenantName
      [] OTHER -> "literal"

Substituted(tag, tenantName) ==
    CASE tag.namespace = "subscriber" -> ResolveSubscriber(tag.key)
      [] tag.namespace = "campaign" -> ResolveCampaign(tag.key, tenantName)
      [] OTHER -> "literal"

-----------------------------------------------------------------------------
Idle == [pc |-> "idle"]
NoMail == [tag \in {} |-> "value"]
Rendered(blocks) == [blocks |-> blocks, visual |-> TRUE]
Coded(blocks) == [blocks |-> blocks, visual |-> FALSE]

TagsTypeOK ==
    /\ registry \subseteq defined /\ defined \subseteq CustomSlugs
    /\ attributes \in [CustomSlugs -> {"absent", "null", "value"}]
    /\ body.visual \in BOOLEAN
    /\ unchecked \subseteq Placeholders(body.blocks)
    /\ editing.pc \in {"idle", "converted", "saving"}
    /\ \A tag \in DOMAIN mail : mail[tag] \in {"value", "blank", "literal"}
    /\ edits \in 0..MaxEdits

TagsInit ==
    /\ registry = {} /\ defined = {}
    /\ attributes = [s \in CustomSlugs |-> "absent"]
    /\ body = Coded({}) /\ unchecked = {}
    /\ editing = Idle
    /\ mail = NoMail
    /\ edits = 0

Edit == edits < MaxEdits /\ edits' = edits + 1

(* The operators who keep the fields and the subscribers.  Deleting a      *)
(* field leaves the attributes as they are, and an attribute needs none.   *)
DefineField(slug) ==
    /\ Edit
    /\ slug \notin registry
    /\ registry' = registry \cup {slug}
    /\ defined' = defined \cup {slug}
    /\ UNCHANGED <<attributes, body, editing, mail, unchecked>>

ForgetField(slug) ==
    /\ Edit
    /\ slug \in registry
    /\ registry' = registry \ {slug}
    /\ UNCHANGED <<attributes, body, editing, mail, unchecked, defined>>

SetAttribute(slug, value) ==
    /\ Edit
    /\ attributes' = [attributes EXCEPT ![slug] = value]
    /\ UNCHANGED <<registry, body, editing, mail, unchecked, defined>>

(* A code edit is not validated; it keeps a visual document there is.      *)
SaveCode(blocks) ==
    /\ Edit
    /\ body' = [body EXCEPT !.blocks = blocks]
    /\ unchecked' = Placeholders(blocks)
    /\ UNCHANGED <<registry, attributes, editing, mail, defined>>

(* The conversion only reads: the operator saves what it returns, or not.  *)
ConvertToVisual(document) ==
    /\ editing.pc = "idle"
    /\ ~body.visual /\ body.blocks # {}
    /\ editing' = [pc |-> "converted", document |-> document]
    /\ UNCHANGED <<registry, attributes, body, mail, unchecked, defined, edits>>

(* A visual save reads the slugs in a transaction of its own.              *)
BeginVisualSave(document) ==
    /\ Edit
    /\ \/ editing.pc = "idle"
       \/ editing.pc = "converted" /\ document = editing.document
    /\ editing' = [pc |-> "saving", document |-> document, slugs |-> Builtins \cup registry]
    /\ UNCHANGED <<registry, attributes, body, mail, unchecked, defined>>

EndVisualSave ==
    /\ editing.pc = "saving"
    /\ ValidDocument(editing.document, editing.slugs)
    /\ body' = Rendered(editing.document)
    /\ unchecked' = Placeholders(editing.document) \ Chips(editing.document)
    /\ editing' = Idle
    /\ UNCHANGED <<registry, attributes, mail, defined, edits>>

(* The document is invalid, the campaign stale or no draft any more; or a  *)
(* conversion is given up.                                                 *)
VisualSaveFails ==
    /\ editing.pc # "idle"
    /\ editing' = Idle
    /\ UNCHANGED <<registry, attributes, body, mail, unchecked, defined, edits>>

OptOut ==
    /\ body.visual
    /\ body' = [body EXCEPT !.visual = FALSE]
    /\ UNCHANGED <<registry, attributes, editing, mail, unchecked, defined, edits>>

(* One recipient's mail: a tenant without a name, or whose lookup fails,   *)
(* has a blank one; if the recipient's lookup fails nothing is replaced.   *)
SendOne(tenantName) ==
    /\ mail' = [tag \in Placeholders(body.blocks) |-> Substituted(tag, tenantName)]
    /\ UNCHANGED <<registry, attributes, body, editing, unchecked, defined, edits>>

SendUnresolved ==
    /\ mail' = NoMail
    /\ UNCHANGED <<registry, attributes, body, editing, unchecked, defined, edits>>

TagsNext ==
    \/ \E slug \in CustomSlugs : DefineField(slug) \/ ForgetField(slug)
    \/ \E slug \in CustomSlugs, value \in {"absent", "null", "value"} : SetAttribute(slug, value)
    \/ \E blocks \in CodeBodies : SaveCode(blocks)
    \/ \E document \in Conversions(body.blocks) : ConvertToVisual(document)
    \/ \E document \in Documents : BeginVisualSave(document)
    \/ editing.pc = "converted" /\ BeginVisualSave(editing.document)
    \/ EndVisualSave \/ VisualSaveFails \/ OptOut
    \/ \E tenantName \in {"value", "blank"} : SendOne(tenantName)
    \/ SendUnresolved

TagsSpec == TagsInit /\ [][TagsNext]_tagVars

-----------------------------------------------------------------------------
(* FR-016c: a mail shows a placeholder literally only if no validation has *)
(* seen it (it was typed, in code or as text, or is in an opaque block) or *)
(* if it names a custom field that the recipient has no attribute for, and *)
(* then one that was defined; blank is only an empty attribute, a nameless *)
(* tenant and the preference page.                                         *)
CheckedTagsResolve ==
    [][\A tag \in DOMAIN mail', tenantName \in {"value", "blank"} : SendOne(tenantName) =>
          /\ mail'[tag] = "literal" =>
                \/ tag \in unchecked
                \/ /\ tag.namespace = "subscriber" /\ tag.key \in defined
                   /\ attributes[tag.key] = "absent"
          /\ mail'[tag] = "blank" =>
                \/ tag.key \in {"preference_url", "tenant_name"}
                \/ tag.key \in CustomSlugs /\ attributes[tag.key] = "null"]_tagVars
=============================================================================
