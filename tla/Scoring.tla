-------------------------------- MODULE Scoring --------------------------------
(***************************************************************************)
(* How a run is scored: the metrics of a case, their weighted mean over    *)
(* the dimensions that apply, the gates, what a failed judge does to the   *)
(* verdict, the counts of the run, and the dashboard's card of the         *)
(* interface. All of it is one transaction of the scorer. Scores are whole *)
(* numbers of units, Scale units to the point; weights are percents.       *)
(***************************************************************************)
EXTENDS Integers, Sequences, FiniteSets, FiniteSetsExt

CONSTANTS
    Scale,         \* units per point: a multiple of 100 that makes every pass rate whole
    NaThreshold,   \* judge_na_threshold, in percent
    Suites,        \* the rows a run may end its execution with
    WeightTables,  \* bodies of PUT weights for the interface and for its agent: [own, default],
                   \* each a partial function of Dims4
    TargetTables,  \* baseline_target: likewise, and pending, what one person alone has signed
    WeightPuts, TargetPuts, MaxTuning  \* requests that change either later on, and a bound on them

RuleDims == {"completeness", "tool_usage"}
SemanticDims == {"factuality", "reasoning_quality"}
Dims4 == RuleDims \cup SemanticDims
DefaultWeight == [completeness |-> 30, factuality |-> 35, reasoning_quality |-> 15, tool_usage |-> 20]
Levels6 == 0..5   \* of the rubric; a level is worth 20 points
Step == 20 * Scale
NA == -1
Unjudged == -1    \* the platform has no judge
Lost == -2        \* the task of the judge has failed

Cent == Scale \div 100
\* Rows as the execution leaves them, and what the columns of weights and of targets (two decimals) hold.
Graded == {g \in [passed : Nat, of : Nat] : g.passed <= g.of}
Answered == [error : BOOLEAN, enabled : SUBSET Dims4, graded : [RuleDims -> Graded],
             judged : [SemanticDims -> Levels6 \cup {Unjudged, Lost}]]
Targets == {t \in 0..(100 * Scale) : t % Cent = 0}
IsTable(t, column) == DOMAIN t \subseteq Dims4 /\ t \in [DOMAIN t -> column]
Places == {"own", "default"}

ASSUME ScoringAssumption ==
    /\ Scale \in Nat /\ Scale % 100 = 0 /\ Scale > 0 /\ NaThreshold \in 0..100
    /\ Suites \subseteq Seq(Answered)
    /\ \A bodies \in WeightTables : IsTable(bodies.own, 0..100) /\ IsTable(bodies.default, 0..100)
    /\ \A t \in TargetTables :
        /\ IsTable(t.own, Targets) /\ IsTable(t.default, Targets)
        /\ t \in [own : {t.own}, default : {t.default}, pending : SUBSET (Places \X Dims4)]
    /\ \A body \in WeightPuts : IsTable(body, Int)
    /\ TargetPuts \subseteq [dim : Dims4, score : Int] /\ \A t \in TargetPuts : t.score % Cent = 0

VARIABLES
    result,    \* eval_result: error, the enabled dimensions, assertions passed per rule dimension,
               \* what the judge said per semantic one, a level, Unjudged or Lost;
               \* outcome is pass_fail and total its score
    weights, targets,
    score      \* eval_run: status, the four counts, judge_incomplete; tuned is the bound, current
               \* remembers that nothing was changed since the run was scored

scoringVars == <<result, weights, targets, score>>

\* n / d rounded to a multiple of m.
Rounded(n, d, m) == m * ((2 * n + d * m) \div (2 * d * m))
Mean(n, d) == Rounded(n, d, Cent)
-----------------------------------------------------------------------------
\* _validated_weight: from 0 to 1. A target of a judged dimension is new or changed to a level only.
LegalWeight(w) == w \in 0..100
LegalTarget(row, t) ==
    /\ t.score \in 0..(100 * Scale)
    /\ t.dim \in SemanticDims =>
        t.score % Step = 0 \/ (t.dim \in DOMAIN row /\ row[t.dim] = t.score)
\* The rows of the dimensions named are made or overwritten, the others stay.
Overwrite(row, body) ==
    [d \in DOMAIN row \cup DOMAIN body |-> IF d \in DOMAIN body THEN body[d] ELSE row[d]]

\* _resolve_weights, _resolve_targets: the interface's own entry, then the agent's default.
Resolved(table, d) == IF d \in DOMAIN table.own THEN table.own[d] ELSE table.default[d]
Configured(table) == DOMAIN table.own \cup DOMAIN table.default
WeightOf(d) == IF d \in Configured(weights) THEN Resolved(weights, d) ELSE DefaultWeight[d]
WeightsOf(ds) == MapThenSumSet(WeightOf, ds)

\* The metrics. A rule dimension without assertions and a semantic one without a verdict are N/A.
PassRate(g) == IF g.of = 0 THEN NA ELSE (100 * Scale * g.passed) \div g.of
JudgedScore(said) == IF said \in Levels6 THEN said * Step ELSE NA
Value(r, d) == IF d \in RuleDims THEN PassRate(r.graded[d]) ELSE JudgedScore(r.judged[d])

\* Mutation: a score of 0 is taken for a missing one.
TruthyValue(r) == {d \in r.enabled : Value(r, d) > 0}

Applies(r) == {d \in r.enabled : Value(r, d) # NA}
Points(r) == LET worth(d) == Value(r, d) * WeightOf(d) IN MapThenSumSet(worth, Applies(r))

\* _gate_met: a semantic target counts as the level it lies in, a rule target as it is.
GateMet(value, target, d) ==
    IF d \in SemanticDims THEN value \div Step >= target \div Step ELSE value >= target
GateFailed(r) ==
    \E d \in Applies(r) \cap Configured(targets) : ~GateMet(Value(r, d), Resolved(targets, d), d)

LostDims(r) == {d \in r.enabled \cap SemanticDims : r.judged[d] = Lost}
TooFewJudged(r) ==
    /\ LostDims(r) # {} /\ WeightsOf(r.enabled) > 0
    /\ 100 * WeightsOf(LostDims(r)) > NaThreshold * WeightsOf(r.enabled)

\* score_case; dividing by the weight of what applies is what raises.
Raises(r) == Applies(r) # {} /\ WeightsOf(Applies(r)) = 0
ScoreCase(r) ==
    IF Applies(r) = {} THEN [outcome |-> "na", total |-> NA]
    ELSE [outcome |-> IF GateFailed(r) THEN "fail" ELSE IF TooFewJudged(r) THEN "na" ELSE "pass",
          total |-> Mean(Points(r), WeightsOf(Applies(r)))]
-----------------------------------------------------------------------------
Executed == {i \in DOMAIN result : ~result[i].error}
Count(rows, o) == Cardinality({i \in DOMAIN rows : rows[i].outcome = o})

\* Mutation: the weights of a case that ended N/A are not added up.
RowsWithVerdict(rows) == {i \in Executed : rows[i].outcome \in {"pass", "fail"}}

\* judge_incomplete: the weight of semantic dimensions without a score, over all executed rows.
RowsCounted(rows) == {i \in DOMAIN rows : rows[i].outcome # "error"}
Incomplete(rows) ==
    LET missing(i) == WeightsOf((rows[i].enabled \cap SemanticDims) \ Applies(rows[i]))
        due(i) == WeightsOf(rows[i].enabled)
        lost == MapThenSumSet(missing, RowsCounted(rows))
        all == MapThenSumSet(due, RowsCounted(rows))
    IN  all > 0 /\ 100 * lost > NaThreshold * all

\* A row is stored as "pass" when the agent answered, until it is scored.
Stored(r) == [error |-> r.error, enabled |-> r.enabled, graded |-> r.graded, judged |-> r.judged,
              outcome |-> IF r.error THEN "error" ELSE "pass", total |-> NA]
Counts(rows) == [pass |-> Count(rows, "pass"), fail |-> Count(rows, "fail"),
                 na |-> Count(rows, "na"), error |-> Count(rows, "error")]
ScoringInit ==
    /\ \E rows \in Suites : result = [i \in DOMAIN rows |-> Stored(rows[i])]
    /\ \E bodies \in WeightTables :
        weights = [own |-> Overwrite(<<>>, bodies.own), default |-> Overwrite(DefaultWeight, bodies.default)]
    /\ targets \in TargetTables
    \* _finish has counted what was executed; a salvaged run is one the scanner has closed.
    /\ \E s \in {"scoring", "timeout"} :
        /\ s = "scoring" => Executed # {}
        /\ score = [status |-> s, counts |-> Counts(result), incomplete |-> FALSE, scored |-> FALSE,
                     tuned |-> 0, current |-> FALSE]

\* What score_case says is stored on the row.
WithScore(r) == LET given == ScoreCase(r) IN [r EXCEPT !.outcome = given.outcome, !.total = given.total]
\* The rows before the one that raises keep what they were given when the run is closed, and lose
\* it with the transaction when it is salvaged.
Scored(upto) == [i \in DOMAIN result |->
                    IF i < upto /\ i \in Executed THEN WithScore(result[i]) ELSE result[i]]
Breaking == {i \in Executed : Raises(result[i])}

\* _score_executed_results from score_run, and from score_run_salvage which keeps the status.
ScoreRun ==
    /\ ~score.scored
    /\ UNCHANGED <<weights, targets>>
    /\ LET salvage == score.status = "timeout"
           all == Scored(Len(result) + 1)
       IN  IF Breaking # {}
           THEN /\ result' = IF salvage THEN result ELSE Scored(Min(Breaking))
                /\ score' = [score EXCEPT !.scored = TRUE, !.current = TRUE,
                                          !.status = IF salvage THEN @ ELSE "partial_failed"]
           ELSE /\ result' = all
                /\ score' = [status |-> IF salvage THEN "timeout"
                                        ELSE IF Executed # DOMAIN result THEN "partial_failed"
                                        ELSE "completed",
                             counts |-> Counts(all), incomplete |-> Incomplete(all), scored |-> TRUE,
                             tuned |-> score.tuned, current |-> TRUE]

Tuned ==
    /\ score.tuned < MaxTuning
    /\ score' = [score EXCEPT !.tuned = @ + 1, !.current = FALSE]
    /\ UNCHANGED result

\* PUT weights of the interface and of the agent: a body with an illegal weight changes nothing.
SetWeights == \E place \in Places, body \in WeightPuts :
    /\ Tuned
    /\ \A d \in DOMAIN body : LegalWeight(body[d])
    /\ weights' = [weights EXCEPT ![place] = Overwrite(@, body)]
    /\ UNCHANGED targets

\* PUT targets, one dimension of one level. The first signature leaves it pending; Curation has
\* who may sign and what the second one does.
SetTargets == \E place \in Places, t \in TargetPuts, pending \in BOOLEAN :
    LET row == targets[place] IN
    /\ Tuned
    /\ LegalTarget(row, t) /\ (t.dim \notin DOMAIN row => pending)
    /\ targets' = [targets EXCEPT ![place] = Overwrite(@, [d \in {t.dim} |-> t.score]),
                                  !.pending = IF pending THEN @ \cup {<<place, t.dim>>}
                                              ELSE @ \ {<<place, t.dim>>}]
    /\ UNCHANGED weights

ScoringNext == ScoreRun \/ SetWeights \/ SetTargets
-----------------------------------------------------------------------------
\* Mutation: the agent's default is looked up before the interface's own target.
DefaultFirst(table, d) == IF d \in DOMAIN table.default THEN table.default[d] ELSE table.own[d]

\* build_baseline: the card of the interface on the dashboard, one dimension of it. It leaves out
\* what is pending, which the scorer and the list of failures do not.
Effective ==
    LET signed(place) == {d \in DOMAIN targets[place] : <<place, d>> \notin targets.pending}
    IN  [own |-> [d \in signed("own") |-> targets.own[d]],
         default |-> [d \in signed("default") |-> targets.default[d]]]
CardTarget(table, d) == IF d \in DOMAIN table.own THEN table.own[d] ELSE table.default[d]
ShownOn(d) == {i \in Executed : result[i].total # NA /\ d \in Applies(result[i])}
CardScore(d) == LET value(i) == Value(result[i], d) IN
                Mean(MapThenSumSet(value, ShownOn(d)), Cardinality(ShownOn(d)))
CardMet(d) == GateMet(CardScore(d), CardTarget(Effective, d), d)
\* run_failures: the dimensions listed under a failed case, looked up anew from its scores.
FailDims(r) ==
    {d \in Applies(r) \cap Configured(targets) : ~GateMet(Value(r, d), CardTarget(targets, d), d)}
-----------------------------------------------------------------------------
\* What is a little better: one more assertion passed, or the next level of the judge.
Improvements(r) ==
    {[r EXCEPT !.graded[d].passed = @ + 1] : d \in {e \in RuleDims : r.graded[e].passed < r.graded[e].of}}
    \cup {[r EXCEPT !.judged[d] = @ + 1] : d \in {e \in SemanticDims : r.judged[e] \in 0..4}}

\* An answer that passes one assertion more or is judged one level better never gets a lower score
\* or a worse verdict, whatever weights, gates, inapplicable dimensions and lost verdicts its case
\* has: the weights that are redistributed depend on what applies and not on how it went.
BetterIsNeverWorse ==
    LET worth == [fail |-> 0, na |-> 1, pass |-> 2] IN
    \A i \in Executed : \A r \in Improvements(result[i]) : Raises(r) \/
        LET was == ScoreCase(result[i])  is == ScoreCase(r) IN
        is.total >= was.total /\ worth[is.outcome] >= worth[was.outcome]

\* A run in which every answer is left without a verdict because too much of its judging failed
\* says so itself: the same threshold is kept case by case and over the run. Weights that were
\* changed since are not those it was scored with.
UnjudgedRunIsFlagged ==
    score.current /\ Breaking = {} /\ Executed # {}
        /\ (\A i \in Executed : result[i].outcome = "na" /\ TooFewJudged(result[i]))
    => score.incomplete

\* If every answer of a run meets the gate of a dimension, the card of the interface shows it
\* as met, with the mean rounded and the targets looked up by other code. A target that waits for
\* its second signature is a gate and not on the card.
CardFollowsGates ==
    \A d \in Configured(targets) :
        /\ \A place \in Places : <<place, d>> \notin targets.pending
        /\ ShownOn(d) # {}
        /\ \A i \in ShownOn(d) : GateMet(Value(result[i], d), Resolved(targets, d), d)
        => CardMet(d)

\* A case that was scored and failed has a dimension listed that it failed on; no other has one.
\* The list is made with the targets of today, which may not be those of the run.
FailIsExplained ==
    score.current => \A i \in Executed : result[i].total # NA =>
        (result[i].outcome = "fail" <=> FailDims(result[i]) # {})

\* The card of an interface and the list of failed cases look up targets and compare scores in code
\* of their own; both say what the gates of the scorer have decided.
ViewsFollowGates == CardFollowsGates /\ FailIsExplained

\* Weights from 0 to 1 are legal, 0 for all four of them included: once a run has been scored,
\* every answer to which a dimension applies has its score.
LegalWeightsAreScored ==
    score.scored => \A i \in Executed : Applies(result[i]) # {} => result[i].total # NA
=============================================================================
