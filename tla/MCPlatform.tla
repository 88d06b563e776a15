----------------------------- MODULE MCPlatform -----------------------------
(* Model-checking instances of the components that share nothing but the   *)
(* platform: Accounts, Access, RateLimiter, MediaLibrary, SubscriberFields,*)
(* Content, Segments and MergeTags.  They have no step in common, so a     *)
(* behaviour moves one of them, chosen at its start, and leaves the others *)
(* in their initial states.                                                *)
EXTENDS Accounts, Access, RateLimiter, MediaLibrary, SubscriberFields, Content, Segments,
        MergeTags, TLC

CONSTANTS f, p, c1, c2, u1, u2, s1, s2, s3, x, y    \* model values

(* A subscriber about whom little is known.                                *)
Blank == [state |-> "enabled", attr |-> "absent", member |-> "none"]

VARIABLE moving    \* the component that moves

vars == <<accountsVars, accessVars, rateVars, mediaVars, fieldVars, contentVars,
          segmentVars, tagVars, moving>>

Init ==
    /\ AccountsInit /\ RateInit /\ MediaInit /\ FieldsInit /\ ContentInit /\ TagsInit
    /\ moving \in {"accounts", "access", "rate", "media", "fields", "content", "segments", "tags"}
    /\ AccessInit /\ (moving = "access" \/ role = <<>>)
    /\ SegmentsInit /\ (moving = "segments" \/ rows = [s \in Subscribers |-> Blank])

Next ==
    \/ /\ moving = "accounts" /\ AccountsNext
       /\ UNCHANGED <<accessVars, rateVars, mediaVars, fieldVars, contentVars,
                      segmentVars, tagVars, moving>>
    \/ /\ moving = "access" /\ AccessNext
       /\ UNCHANGED <<accountsVars, rateVars, mediaVars, fieldVars, contentVars,
                      segmentVars, tagVars, moving>>
    \/ /\ moving = "rate" /\ RateNext
       /\ UNCHANGED <<accountsVars, accessVars, mediaVars, fieldVars, contentVars,
                      segmentVars, tagVars, moving>>
    \/ /\ moving = "media" /\ MediaNext
       /\ UNCHANGED <<accountsVars, accessVars, rateVars, fieldVars, contentVars,
                      segmentVars, tagVars, moving>>
    \/ /\ moving = "fields" /\ FieldsNext
       /\ UNCHANGED <<accountsVars, accessVars, rateVars, mediaVars, contentVars,
                      segmentVars, tagVars, moving>>
    \/ /\ moving = "content" /\ ContentNext
       /\ UNCHANGED <<accountsVars, accessVars, rateVars, mediaVars, fieldVars,
                      segmentVars, tagVars, moving>>
    \/ /\ moving = "segments" /\ SegmentsNext
       /\ UNCHANGED <<accountsVars, accessVars, rateVars, mediaVars, fieldVars,
                      contentVars, tagVars, moving>>
    \/ /\ moving = "tags" /\ TagsNext
       /\ UNCHANGED <<accountsVars, accessVars, rateVars, mediaVars, fieldVars,
                      contentVars, segmentVars, moving>>

Spec == Init /\ [][Next]_vars

(* The second pod's clock is ahead.                                        *)
Clocks == [pod \in {"p1", "p2"} |-> IF pod = "p1" THEN 0 ELSE 1]

(* Which call, request or operator does something does not matter, nor     *)
(* which member it is about; the components have the same two callers, of  *)
(* which only those of the component that moves do something.              *)
CallSymmetry == Permutations(Callers) \cup Permutations(Members)
-----------------------------------------------------------------------------
(* The queries: conditions of every kind and operator, valid or not, alone *)
(* and in groups of one and of two levels.                                 *)
Positive == Leaf(Attr("gt", "five"))
Others == {Leaf(Attr("neq", "five")), Leaf(Attr("eq", "million")),
           Leaf(Member("confirmed")), Leaf(Field("neq", "enabled"))}
SomeTrees ==
    {Positive, Leaf(Attr("lte", "million")), Leaf(Member("any"))} \cup Others
    \cup {Group("and", <<Leaf(Attr("lte", "million")), Leaf(Member("any"))>>)}
    \cup {Group(conj, <<Positive, a>>) : conj \in {"and", "or"}, a \in Others}
    \cup {Group("or", <<Leaf(Field("neq", "enabled")),
                       Group("and", <<Leaf(Attr("lte", "million")), Leaf(Member("any"))>>)>>)}
    \cup {Leaf(Attr("eq", "word")), Leaf(Attr("exists", "word")), Leaf(Attr("contains", "part")),
          Leaf(Attr("contains", "wild")), Leaf(Attr("gte", "word")),
          Leaf(Attr("lt", "million")), Leaf(Attr("near", "five")), Leaf(Field("contains", "part")),
          Leaf(Field("gt", "word")), Group("or", <<>>),
          Group("", <<Positive>>)}
SomeHeights[tree \in SomeTrees] ==
    IF tree.children = <<>> THEN 0
    ELSE 1 + Max({SomeHeights[tree.children[i]] : i \in DOMAIN tree.children})
SomeRows ==
    {[state |-> "enabled", attr |-> a, member |-> "none"] : a \in {"absent", "five", "word"}}
    \cup {[state |-> "enabled", attr |-> a, member |-> "confirmed"] : a \in {"five", "million"}}
    \cup {[state |-> "enabled", attr |-> "null", member |-> "unsubscribed"],
          [state |-> "blocklisted", attr |-> "array", member |-> "unconfirmed"]}

(* The bodies: tags that are known, custom and unknown, as chips and typed *)
(* text, at the top, between blocks, in containers and in opaque blocks.   *)
City == Tag("subscriber", "city")
UnknownTags == {Tag("campaign", "bogus"), Tag("user", "email"), Tag("subscriber", "ghost")}
KnownTags == {Tag("subscriber", "email"), Tag("campaign", "preference_url"), Tag("campaign", "tenant_name")}
SomeDocuments ==
    {{Prose(KnownTags, {}), Container({Prose({City}, {})})},
     {Container({Container({Prose({t}, {})})}) : t \in UnknownTags},
     {Prose({City}, UnknownTags)}, {Opaque(UnknownTags), Prose({Tag("campaign", "unsubscribe_url")}, {})}}
    \cup {{Prose({t}, {})} : t \in UnknownTags}
    \cup {{Container({Prose({t}, {})})} : t \in UnknownTags}
SomeBodies ==
    {{Prose({}, {City, Tag("user", "email")}), Bare({City}), Container({Prose({}, {Tag("campaign", "bogus")})})},
     {Container({Prose({}, {City}), Opaque({Tag("subscriber", "ghost")})})}}
=============================================================================
