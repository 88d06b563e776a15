------------------------------ MODULE Segments ------------------------------
(* Segment queries: a condition tree over the subscribers of a tenant is   *)
(* validated (audience/domain/segment.go), translated to a SQL condition   *)
(* (audience/adapters/segment_sql.go) and evaluated by Postgres in three-  *)
(* valued logic, for the API (a count, or a count and a page) and for the  *)
(* roster of a campaign (service/bridges.go), which pages by offset over   *)
(* one transaction per page while subscribers change.                      *)
(*                                                                         *)
(* Values are the few that conversions tell apart: "five" and "million"    *)
(* are numbers, "part" is a piece of "word", "wild" holds a LIKE wildcard, *)
(* "array" is a JSON array.                                                *)
EXTENDS Naturals, Sequences, FiniteSets

CONSTANTS
    NumSubscribers,   \* subscribers, numbered as the pages order them: 1 is the newest
    Rows,             \* the contents a subscriber's row may have
    Trees,            \* the condition trees there are: parts of trees are trees
    Height,           \* how deep each tree is
    PageSize,         \* subscribers per page
    MaxChanges        \* bound: changes of subscribers

Subscribers == 1..NumSubscribers

(* Trees are finite, and a state is a column that is never null.           *)
ASSUME SegmentsAssumption ==
    /\ NumSubscribers \in Nat /\ PageSize \in Nat \ {0} /\ MaxChanges \in Nat
    /\ \A row \in Rows : row.state \notin {"absent", "null"}
    /\ Height \in [Trees -> Nat]
    /\ \A tree \in Trees :
          /\ tree.children \in Seq(Trees)
          /\ \A i \in DOMAIN tree.children : Height[tree.children[i]] < Height[tree]

VARIABLES
    rows,       \* the subscriber rows: state, attribute, membership of the list
    asked,      \* the query: its tree, its caller and where its reading is
    changed,    \* how many changes there were
    ever,       \* subscribers that the tree described at some moment since it was asked
    always      \* subscribers that the tree described ever since it was asked

segmentVars == <<rows, asked, changed, ever, always>>

-----------------------------------------------------------------------------
(* A tree: a node has a conjunction, children and a condition.             *)

Knows == {"eq", "neq", "exists", "contains", "gt", "lt", "gte", "lte"}
Compares == {"gt", "lt", "gte", "lte"}
NoCondition == [on |-> "none"]
Attr(op, value) == [on |-> "attr", op |-> op, value |-> value]
Field(op, value) == [on |-> "field", op |-> op, value |-> value]
Member(value) == [on |-> "member", value |-> value]
Leaf(condition) == [conj |-> "", children |-> <<>>, condition |-> condition]
Group(conj, nodes) == [conj |-> conj, children |-> nodes, condition |-> NoCondition]

IsGroup(node) == node.conj # "" \/ node.children # <<>>

(* validateNode: a condition on a field is textual, one on membership has  *)
(* no operator.                                                            *)
ValidCondition(c) ==
    \/ c.on = "attr" /\ c.op \in Knows
    \/ c.on = "field" /\ c.op \in Knows \ Compares
    \/ c.on = "member" /\ c.value \in {"any", "unconfirmed", "confirmed", "unsubscribed"}

ValidNode(node) ==
    IF IsGroup(node) THEN node.conj \in {"and", "or"} /\ node.children # <<>>
    ELSE ValidCondition(node.condition)

(* The nodes of a tree.                                                    *)
Parts[node \in Trees] ==
    {node} \cup UNION {Parts[node.children[i]] : i \in DOMAIN node.children}

Valid(tree) == \A node \in Parts[tree] : ValidNode(node)

Conditions(tree) == {node.condition : node \in {part \in Parts[tree] : ~IsGroup(part)}}

-----------------------------------------------------------------------------
(* What the translation computes; what it knows no operator for is true.   *)

TruthValues == {"true", "false", "null", "error"}

Numbers == {"five", "million", "1e+06"}
Size(n) == IF n = "five" THEN 5 ELSE 1000000

(* fmt.Sprintf("%v"): a number of seven digits gets an exponent and an     *)
(* array loses its commas; jsonb's ->> writes neither so.                  *)
Written(value) ==
    CASE value = "million" -> "1e+06"
      [] value = "array" -> "[a b]"
      [] OTHER -> value

Inside(piece, text) == piece = text \/ (piece = "part" /\ text \in {"word", "enabled"})

(* ILIKE: the operand's wildcards are not escaped.                         *)
Like(text, pattern) == pattern = "wild" \/ Inside(pattern, text)

Ordered(op, m, n) ==
    \/ op = "gt" /\ m > n
    \/ op = "lt" /\ m < n
    \/ op = "gte" /\ m >= n
    \/ op = "lte" /\ m <= n

Truth(holds) == IF holds THEN "true" ELSE "false"

TextTruth(op, text, operand) ==
    CASE op = "eq" -> Truth(text = operand)
      [] op = "neq" -> Truth(text # operand)
      [] op = "contains" -> Truth(Like(text, operand))
      [] OTHER -> "true"

FieldTruth(c, row) ==
    IF c.op = "exists" THEN "true" ELSE TextTruth(c.op, row.state, c.value)

NoNumber(c) == c.on = "attr" /\ c.op \in Compares /\ Written(c.value) \notin Numbers

(* The cast to a number fails on an attribute that is there and is none.   *)
CastFails(c, row) ==
    c.on = "attr" /\ c.op \in Compares /\ row.attr \notin Numbers \cup {"absent", "null"}

AttrTruth(c, row) ==
    IF NoNumber(c) \/ CastFails(c, row) THEN "error"
    ELSE IF c.op = "exists" THEN Truth(row.attr # "absent")
    ELSE IF row.attr \in {"absent", "null"} THEN "null"
    ELSE IF c.op \in Compares THEN Truth(Ordered(c.op, Size(row.attr), Size(Written(c.value))))
    ELSE TextTruth(c.op, row.attr, Written(c.value))

MemberTruth(c, row) ==
    Truth(row.member # "none" /\ c.value \in {"any", row.member})

ConditionTruth(c, row) ==
    CASE c.on = "field" -> FieldTruth(c, row)
      [] c.on = "attr" -> AttrTruth(c, row)
      [] c.on = "member" -> MemberTruth(c, row)
      [] OTHER -> "true"

(* A bug a translation could have: every group joins its parts with AND.   *)
JoinedByAnd(conj, truths) ==
    IF truths \cap {"false", "error"} # {} THEN truths \cap {"false", "error"}
    ELSE IF "null" \in truths THEN {"null"} ELSE {"true"}

(* AND and OR of SQL over the children's truths: Postgres evaluates them   *)
(* in an order of its choice and may stop at the first that decides.       *)
Joined(conj, truths) ==
    LET decides == Truth(conj = "or")
        neutral == Truth(conj = "and")
    IN  IF truths \cap {decides, "error"} # {} THEN truths \cap {decides, "error"}
        ELSE IF "null" \in truths THEN {"null"} ELSE {neutral}

Truths[node \in Trees] ==
    [row \in Rows |->
        IF IsGroup(node)
        THEN UNION {Joined(node.conj, {pick[i] : i \in DOMAIN pick}) :
                       pick \in {p \in [DOMAIN node.children -> TruthValues] :
                                    \A i \in DOMAIN p : p[i] \in Truths[node.children[i]][row]}}
        ELSE {ConditionTruth(node.condition, row)}]

(* An operand that is no number fails the statement before any row is      *)
(* read, an error on one row when it comes; a null row is not selected.    *)
MayFail(tree) == \E s \in Subscribers : "error" \in Truths[tree][rows[s]]
MustFail(tree) ==
    \/ \E c \in Conditions(tree) : NoNumber(c)
    \/ \E s \in Subscribers : Truths[tree][rows[s]] = {"error"}
Selected(tree) == {s \in Subscribers : "true" \in Truths[tree][rows[s]]}

(* ORDER BY created_at DESC: how many of the chosen come before s.         *)
Rank(s, chosen) == Cardinality({t \in chosen : t < s})

-----------------------------------------------------------------------------
(* What a tree describes, of a row and two-valued: an attribute that is    *)
(* absent or null satisfies no comparison, not even "neq".                 *)

DescribedBy(c, row) ==
    LET actual == IF c.on = "field" THEN row.state ELSE row.attr IN
    IF c.on = "member" THEN row.member # "none" /\ c.value \in {"any", row.member}
    ELSE IF c.op = "exists" THEN c.on = "field" \/ row.attr # "absent"
    ELSE /\ actual \notin {"absent", "null"}
         /\ \/ c.op = "eq" /\ actual = c.value
            \/ c.op = "neq" /\ actual # c.value
            \/ c.op = "contains" /\ Inside(c.value, actual)
            \/ {actual, c.value} \subseteq Numbers /\ Ordered(c.op, Size(actual), Size(c.value))

(* The rows that a tree describes.                                         *)
Describes[node \in Trees] ==
    {row \in Rows :
        \/ ~IsGroup(node) /\ DescribedBy(node.condition, row)
        \/ /\ IsGroup(node) /\ node.conj = "and"
           /\ \A i \in DOMAIN node.children : row \in Describes[node.children[i]]
        \/ /\ IsGroup(node) /\ node.conj # "and"
           /\ \E i \in DOMAIN node.children : row \in Describes[node.children[i]]}

Described(tree, table) == {s \in Subscribers : table[s] \in Describes[tree]}

(* A value that its comparison as text does not stand for.                 *)
Garbled(c) ==
    \/ c.on = "attr" /\ c.op \in {"eq", "neq", "contains"} /\ Written(c.value) # c.value
    \/ c.on # "member" /\ c.op = "contains" /\ c.value = "wild"

-----------------------------------------------------------------------------
NoQuery == [at |-> "idle"]

(* found is how often each subscriber is in what has been read.            *)
NewQuery(tree, caller) ==
    [at |-> "count", caller |-> caller, tree |-> tree, offset |-> 0, total |-> 0,
     found |-> [s \in Subscribers |-> 0]]

SegmentsTypeOK ==
    /\ rows \in [Subscribers -> Rows]
    /\ asked.at \in {"idle", "count", "page", "answered", "failed", "rejected"}
    /\ asked.at # "idle" => asked.caller \in {"count", "view", "roster"} /\ asked.tree \in Trees
    /\ changed \in 0..MaxChanges
    /\ always \subseteq ever /\ ever \subseteq Subscribers

SegmentsInit ==
    /\ rows \in [Subscribers -> Rows]
    /\ asked = NoQuery
    /\ changed = 0 /\ ever = {} /\ always = {}

(* A request or a starting campaign asks for a tree; an invalid one is     *)
(* refused before anything is read.                                        *)
AskSegment(tree, caller) ==
    /\ asked.at = "idle"
    /\ asked' = [NewQuery(tree, caller) EXCEPT !.at = IF Valid(tree) THEN "count" ELSE "rejected"]
    /\ ever' = IF Valid(tree) THEN Described(tree, rows) ELSE {}
    /\ always' = ever'
    /\ UNCHANGED <<rows, changed>>

(* Every caller counts first.  A view is one page, a roster goes on.       *)
CountSegment ==
    /\ asked.at = "count"
    /\ ~MustFail(asked.tree)
    /\ asked' = [asked EXCEPT !.total = Cardinality(Selected(asked.tree)),
                              !.at = IF asked.caller = "count" THEN "answered" ELSE "page"]
    /\ UNCHANGED <<rows, changed, ever, always>>

RunSegment ==
    /\ asked.at = "page"
    /\ ~MustFail(asked.tree)
    /\ LET chosen == Selected(asked.tree)
           next == asked.offset + PageSize
           page == {s \in chosen : asked.offset <= Rank(s, chosen) /\ Rank(s, chosen) < next}
           done == asked.caller = "view" \/ next >= asked.total \/ page = {}
       IN  asked' = [asked EXCEPT !.found = [s \in Subscribers |-> @[s] + IF s \in page THEN 1 ELSE 0],
                                  !.offset = IF done THEN @ ELSE next,
                                  !.at = IF done THEN "answered" ELSE "count"]
    /\ UNCHANGED <<rows, changed, ever, always>>

(* A statement fails as a whole, and with it the query.                    *)
FailSegment ==
    /\ asked.at \in {"count", "page"}
    /\ MayFail(asked.tree)
    /\ asked' = [asked EXCEPT !.at = "failed"]
    /\ UNCHANGED <<rows, changed, ever, always>>

(* A subscriber is edited, suppressed, joins a list or leaves it.          *)
ChangeSubscriber(s, row) ==
    /\ asked.at \in {"count", "page"}
    /\ changed < MaxChanges /\ row # rows[s]
    /\ rows' = [rows EXCEPT ![s] = row]
    /\ changed' = changed + 1
    /\ ever' = ever \cup Described(asked.tree, rows')
    /\ always' = always \cap Described(asked.tree, rows')
    /\ UNCHANGED asked

SegmentsNext ==
    \/ \E tree \in Trees, caller \in {"count", "view", "roster"} : AskSegment(tree, caller)
    \/ CountSegment
    \/ RunSegment
    \/ FailSegment
    \/ \E s \in Subscribers, row \in Rows : ChangeSubscriber(s, row)

SegmentsSpec == SegmentsInit /\ [][SegmentsNext]_segmentVars

-----------------------------------------------------------------------------
(* FR-016, SC-006: a query selects exactly the subscribers that its tree   *)
(* describes.  While subscribers change, nobody is selected whom it never  *)
(* described; when none that it describes changes, a roster has every one  *)
(* of them, a view the newest and a count their number, each once.  It     *)
(* fails only on a comparison of something that is no number.  Excepted    *)
(* are values that the translation compares as another text: numbers of    *)
(* seven digits and more, arrays, and pieces with a LIKE wildcard.         *)
SegmentSelectsExactly ==
    LET conditions == Conditions(asked.tree)
        found == {s \in Subscribers : asked.found[s] > 0}
    IN
    /\ (asked.at = "answered" /\ \A c \in conditions : ~Garbled(c)) =>
          /\ found \subseteq ever
          /\ ever = always =>
                /\ asked.total = Cardinality(ever)
                /\ asked.caller = "roster" => found = ever
                /\ asked.caller = "view" => found = {s \in ever : Rank(s, ever) < PageSize}
                /\ \A s \in Subscribers : asked.found[s] <= 1
    /\ asked.at = "failed" =>
          \E c \in conditions :
             NoNumber(c) \/ \E s \in Subscribers : CastFails(c, rows[s])
=============================================================================
