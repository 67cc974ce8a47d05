------------------------------ MODULE Assertions ------------------------------
(***************************************************************************)
(* The assertion operators and how the assertions of a case are run on the *)
(* unified result of an agent. A value is what a path leads to. A text is  *)
(* the set of words that occur in it once both sides are folded to lower   *)
(* case, {} for an empty or a blank one; a list is the set of its members. *)
(***************************************************************************)
EXTENDS Integers, FiniteSets

CONSTANTS
    Words,     \* words, members of lists and values compared, folded
    ToolNames,
    Shares     \* thresholds of an F1, in percent

ASSUME AssertionsAssumption == IsFiniteSet(Words) /\ Shares \subseteq Nat

VARIABLE unified   \* the result in hand: answer, the list in question, tool calls

Missing == [type |-> "missing"]
Null == [type |-> "null"]
Text(ws) == [type |-> "text", of |-> ws]
\* Nothing but spaces: blank, and not empty.
Spaces == [type |-> "text", of |-> {}, blank |-> TRUE]
List(ws) == [type |-> "list", of |-> ws]
\* What set(...) refuses: a list whose members are objects.
Objects == [type |-> "objects"]
Number(k) == [type |-> "number", n |-> k]
Boolean(k) == [type |-> "boolean", n |-> k]   \* 0 or 1
Scalars == {Number(n) : n \in 0..2} \cup {Boolean(n) : n \in 0..1}
Values == {Missing, Null, Objects, Spaces} \cup Scalars \cup {Text(ws) : ws \in SUBSET Words} \cup {List(ws) : ws \in SUBSET Words}
Calls == [name : ToolNames, sources : {Missing, Null, List({}), List(Words)}]
Results == [answer : Values, list : Values \ Scalars, calls : {cs \in SUBSET Calls : Cardinality(cs) <= 1}]
-----------------------------------------------------------------------------
FieldPresent(v) == v # Missing
\* Empty, as Python takes it.
FieldNonempty(v) == v \notin {Missing, Null, Text({}), List({})}
\* Equality of Python: a boolean equals the number it stands for.
ValueEquals(v, expected) ==
    v = expected \/ (v \in Scalars /\ expected \in Scalars /\ v.n = expected.n)
ValueRange(v, low, high) == v.type = "number" /\ v.n \in low..high

\* Hits counts keywords one by one, so all of them hit is a subset and any is an intersection.
Hits(v, keywords) == keywords \cap v.of
KeywordContains(v, keywords, match) ==
    /\ v.type = "text"
    /\ IF match = "all" THEN Hits(v, keywords) = keywords ELSE Hits(v, keywords) # {}
\* A blank answer is a failure, though it contains none of the keywords.
KeywordNotContains(v, keywords, match) ==
    /\ v.type = "text" /\ v.of # {}
    /\ IF match = "all" THEN Hits(v, keywords) = {} ELSE Hits(v, keywords) # keywords

ToolCalled(calls, tool) == \E c \in calls : c.name = tool
ToolNotCalled(calls, tool) == ~ToolCalled(calls, tool)
SourceHit(calls, tool) == \E c \in calls : c.name = tool /\ FieldNonempty(c.sources)

\* A TypeError of set() is caught by the runner and is a failure of this assertion alone.
ListContains(v, expected) == v.type = "list" /\ expected \subseteq v.of

\* Precision and recall as fractions <<over, under>>, with their conventions for empty sets.
Precision(a, e) == IF a = {} THEN <<IF e = {} THEN 1 ELSE 0, 1>> ELSE <<Cardinality(a \cap e), Cardinality(a)>>

\* Mutation: nothing expected counts as nothing recalled.
NothingRecalled(a, e) == <<Cardinality(a \cap e), IF e = {} THEN 1 ELSE Cardinality(e)>>

Recall(a, e) == IF e = {} THEN <<1, 1>> ELSE <<Cardinality(a \cap e), Cardinality(e)>>
\* 2PR/(P+R), a fraction again; 0 when both are 0.
F1(a, e) ==
    LET p == Precision(a, e)  r == Recall(a, e) IN
    IF p[1] + r[1] = 0 THEN <<0, 1>>
    ELSE <<2 * p[1] * r[1], p[1] * r[2] + r[1] * p[2]>>
ListPrecisionRecall(v, expected, share) ==
    /\ v.type = "list"
    /\ F1(v.of, expected)[1] * 100 >= share * F1(v.of, expected)[2]
-----------------------------------------------------------------------------
\* An assertion as the case states it. One without what its operator needs, or of an operator
\* nobody registered, fails and lets the others run.
Passes(r, a) ==
    CASE a.op = "field_present" -> FieldPresent(r[a.path])
      [] a.op = "field_nonempty" -> FieldNonempty(r[a.path])
      [] a.op = "value_equals" -> ValueEquals(r[a.path], a.expected)
      [] a.op = "value_range" -> ValueRange(r[a.path], a.low, a.high)
      [] a.op = "keyword_contains" -> a.words # {} /\ KeywordContains(r[a.path], a.words, a.match)
      [] a.op = "keyword_not_contains" -> a.words # {} /\ KeywordNotContains(r[a.path], a.words, a.match)
      [] a.op = "tool_called" -> ToolCalled(r.calls, a.tool)
      [] a.op = "tool_not_called" -> ToolNotCalled(r.calls, a.tool)
      [] a.op = "source_hit" -> SourceHit(r.calls, a.tool)
      [] a.op = "list_contains" -> ListContains(r[a.path], a.words)
      [] a.op = "list_precision_recall" -> ListPrecisionRecall(r[a.path], a.words, a.share)
      [] OTHER -> FALSE
RunAssertions(r, as) == {a \in as : Passes(r, a)}

\* The verdict of an error run: no assertion is no evidence.
ErrorVerdict(r, as) == IF as # {} /\ RunAssertions(r, as) = as THEN "pass" ELSE "fail"

AssertionsInit == unified \in Results
\* The next sample of the agent.
AssertionsNext == \E part \in {"answer", "list"}, v \in {Missing, Text({}), Spaces, List(Words)} :
    unified' = [unified EXCEPT ![part] = v]
-----------------------------------------------------------------------------
\* F1 grades by the overlap alone: it is twice the common members over the members of both sides,
\* and two empty lists agree, whatever conventions precision and recall have for empty sets.
OverlapDecides(e, share) ==
    unified.list.type = "list" =>
        LET a == unified.list.of  both == Cardinality(a) + Cardinality(e) IN
        ListPrecisionRecall(unified.list, e, share)
            <=> (both = 0 /\ share <= 100) \/ (both > 0 /\ 200 * Cardinality(a \cap e) >= share * both)

\* No answer satisfies an assertion and its contrary; an answer with something in it satisfies one
\* of the two.
Contraries(ws, p, q) ==
    LET verdict(a) == ErrorVerdict(unified, {a})
        has == verdict([op |-> "keyword_contains", path |-> "answer", words |-> ws, match |-> p])
        not == verdict([op |-> "keyword_not_contains", path |-> "answer", words |-> ws, match |-> q])
    IN  /\ ~(has = "pass" /\ not = "pass")
        /\ unified.answer.type = "text" /\ unified.answer.of # {} => "pass" \in {has, not}

\* A number in a range of one is that number.
RangeOfOne(n) == ValueRange(unified.answer, n, n) => ValueEquals(unified.answer, Number(n))

\* The operators agree with each other and with the measure they are named after, for every
\* result, list of words and threshold: an empty list, an empty expectation, a blank answer and a
\* field that is not there are where each of them has a convention of its own.
OpsAgree ==
    /\ \A n \in 0..2 : RangeOfOne(n)
    /\ \A e \in SUBSET Words, share \in Shares : OverlapDecides(e, share)
    /\ \A ws \in (SUBSET Words) \ {{}} : Contraries(ws, "any", "all") /\ Contraries(ws, "all", "any")
=============================================================================
