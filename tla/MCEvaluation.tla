----------------------------- MODULE MCEvaluation -----------------------------
(***************************************************************************)
(* What an evaluation is computed from and how: the versions of the cases, *)
(* what people enter about them, the assertions, the judge's samples and   *)
(* the scores. None of them changes a row of another while it works, so    *)
(* interleaving them shows nothing: a behaviour moves one of them, chosen  *)
(* at its start.                                                           *)
(***************************************************************************)
EXTENDS CaseVersions, Curation, InterfaceRegistry, AdapterWiring, ContractProbe,
        Assertions, JudgeSampling, Scoring

VARIABLE part
vars == <<versionVars, curationVars, registryVars, wiringVars, probeVars, unified, samplingVars, scoringVars, part>>

\* "race": two runs of a suite of one case; "suite": one run of a suite of all cases.
\* "adopt": the configuration of an agent changes; "ask": the input of a probe is chosen; "tune":
\* weights and targets change before and after a run of one case is scored.
Parts == {"race", "suite", "annotate", "sign", "register", "wire", "adopt", "probe", "ask", "assert", "judge", "score", "tune"}
MCContents == 1..2
TheCase == CHOOSE c \in Cases : TRUE
TheRun == CHOOSE r \in Runs : TRUE
MCPrompts == {"p", "q"}
MCVerdicts == {2, 4}
AModel == CHOOSE m \in Models : TRUE
ATask == CHOOSE t \in Tasks : TRUE
APrompt == CHOOSE p \in Prompts : TRUE
MCShares == {0, 50, 67, 100}
-----------------------------------------------------------------------------
\* Contracts: up to two steps, each with what may go wrong between them and the request.
NestedRef == InputRef(<<"a", "b">>)
Refs == {InputRef(<<"a">>), NestedRef, AuthRef("k"), ProductRef("s", "f"), ProductRef("s", "g"),
         ProductRef("t", "f"), Deep("s", "f"), ProductRef("s", NoField), OtherRef}
AtMostOne(S) == {{}} \cup {{x} : x \in S}
Extractions == {<<>>, [f |-> "g"]}
Steps(uses, paths) == [name : {"s", "t"}, uses : uses, path : paths, extract : Extractions]
Sequels == {<<p, q>> : p \in Steps({{}, {NestedRef}, {ProductRef("t", "f")}}, {{}}),
                       q \in Steps({{}, {ProductRef("s", "f")}}, AtMostOne({NestedRef}))}
MCContracts ==
    [steps : {<<>>} \cup {<<p>> : p \in Steps(AtMostOne(Refs), {{}}) \cup Steps({{}}, AtMostOne(Refs))}
             \cup Sequels,
     request : AtMostOne(Refs) \cup {{InputRef(<<"a">>), r} : r \in {NestedRef, ProductRef("t", "f")}},
     unsent : AtMostOne({NestedRef}), llm : {TRUE}]
MCInputs == {{}, {<<"a">>}, {<<"a">>, <<"a", "b">>}, {<<"c">>}}
MCSecrets == {{}, {"k"}}
MCAnswers == {[name \in {"s", "t"} |-> fs] : fs \in {{}, {"f"}, {"f", "g"}}}
PlainContract == [steps |-> <<>>, request |-> {}, unsent |-> {}, llm |-> TRUE]
MCOffered == {PlainContract, [PlainContract EXCEPT !.request = {InputRef(<<"a">>)}],
              [PlainContract EXCEPT !.request = {NestedRef}, !.unsent = {InputRef(<<"c">>)}]}
MCExchanges == Streams \cup Replies
AnExchange == [contract |-> "sse", prepare |-> "ok", status |-> 200, events |-> {},
               delta |-> "text", end |-> "whole"]
AQuestion == [enabled |-> TRUE, interface |-> "own", body |-> "input", declared |-> "absent",
              suite |-> "input", file |-> TRUE]
-----------------------------------------------------------------------------
\* Declarations: up to two interfaces, one in small letters, one auxiliary, one without a type.
Declare(n, m, p) == [name |-> n, method |-> m, path |-> p, type |-> "sse", llm |-> TRUE]
Declared == {Declare(Named("chat"), "POST", "/a"), Declare(Named("chat"), "POST", "/b"),
             Declare(<<"chat", 2>>, "POST", "/b"), Declare(Named("chat"), "post", "/a"),
             [Declare(Named("up"), "POST", "/b") EXCEPT !.llm = FALSE, !.type = "none"],
             [Declare(Named("chat"), "POST", "/b") EXCEPT !.type = "none"]}
MCManifests == [v2 : {FALSE}, interfaces : {<<i>> : i \in Declared} \cup (Declared \X Declared)]
         \cup [v2 : {TRUE}, interfaces : {<<i, j>> \in Declared \X Declared : IfaceKey(i) = IfaceKey(j)}]
MCEntered == {[name |-> Named("chat"), method |-> "post", path |-> "/a", type |-> "sse", enabled |-> TRUE]}
-----------------------------------------------------------------------------
\* Suites: one row with any metrics, pass rates and levels, or two of a few.
Rates == {[passed |-> 0, of |-> 0], [passed |-> 0, of |-> 1], [passed |-> 2, of |-> 3], [passed |-> 3, of |-> 3]}
Said == {<<Unjudged, Unjudged>>} \cup ({Lost, 0, 3, 4} \X {Lost, 1, 4, 5})
Enabled == {Dims4, {"completeness", "factuality"}, {"factuality", "reasoning_quality"},
            {"completeness", "reasoning_quality"}, {"tool_usage"}, {"reasoning_quality"}}
Row(error, ds, c, t, s) ==
    [error |-> error, enabled |-> ds, graded |-> [completeness |-> c, tool_usage |-> t],
     judged |-> [factuality |-> s[1], reasoning_quality |-> s[2]]]
AnyRow == {Row(FALSE, ds, c, t, s) : ds \in Enabled, c \in Rates, t \in Rates, s \in Said}
FewRows == LET c == [passed |-> 2, of |-> 3]  t == [passed |-> 1, of |-> 2] IN
    {Row(e, ds, c, t, s) : e \in BOOLEAN, ds \in {Dims4, {"completeness"}, {"reasoning_quality"}},
                           s \in {<<Lost, Lost>>, <<4, 3>>, <<3, Lost>>}}
MCSuites == {<<r>> : r \in AnyRow} \cup {<<r, s>> : r \in FewRows, s \in FewRows}
\* The default weights, weights of the interface, and an agent that counts two dimensions only.
MCWeightTables == {
    [own |-> <<>>, default |-> <<>>],
    [own |-> [factuality |-> 10, reasoning_quality |-> 60], default |-> [factuality |-> 50]],
    [own |-> <<>>, default |-> [completeness |-> 0, factuality |-> 100, reasoning_quality |-> 0, tool_usage |-> 0]]}
Pt(n) == n * Scale
MCTargetTables == {
    [own |-> <<>>, default |-> <<>>, pending |-> {}],
    [own |-> [completeness |-> Pt(60)], default |-> [completeness |-> Pt(90), factuality |-> Pt(85)],
     pending |-> {<<"own", "completeness">>}],
    [own |-> [factuality |-> Pt(70), reasoning_quality |-> Pt(61)],
     default |-> [tool_usage |-> Pt(66) + 67 * (Scale \div 100)], pending |-> {}]}
MCWeightPuts == {[factuality |-> 0, reasoning_quality |-> 100], [completeness |-> 101]}
MCTargetPuts == {[dim |-> "completeness", score |-> Pt(70)], [dim |-> "factuality", score |-> Pt(80)],
                 [dim |-> "factuality", score |-> Pt(85)]}
-----------------------------------------------------------------------------
Outside(c) == case[c] = [active |-> FALSE, heldOut |-> FALSE, content |-> Min(Contents)]
Init ==
    /\ part \in Parts
    /\ VersionsInit
    /\ \A c \in Cases : part = "suite" \/ (part = "race" /\ c = TheCase /\ ~case[c].heldOut) \/ Outside(c)
    /\ CurationInit
    /\ target = NoTarget \/ part = "sign"
    /\ RegistryInit /\ SamplingInit
    \* Any other choice renames them; the cache may be switched off by a change.
    /\ setting = [model |-> AModel, on |-> TRUE] /\ prompt[ATask] = APrompt
    /\ part = "judge" \/ \A t \in Tasks : prompt[t] = APrompt
    /\ IF part \in {"wire", "adopt"} THEN WiringInit
       ELSE /\ call = [contract |-> PlainContract, input |-> {}, auth |-> {}, answers |-> <<>>]
            /\ kept = [manifest |-> NoManifest, rewritten |-> FALSE, form |-> NoForm]
    /\ part = "adopt" => call.contract = PlainContract
    /\ part = "probe" \/ exchange = AnExchange
    /\ part = "ask" \/ asked = AQuestion
    /\ part \in {"probe", "ask"} => ProbeInit
    /\ IF part = "assert" THEN AssertionsInit ELSE unified = [answer |-> Null, list |-> Null, calls |-> {}]
    /\ IF part \in {"score", "tune"} THEN ScoringInit
       ELSE /\ result = <<>> /\ weights = <<>> /\ targets = [own |-> <<>>, default |-> <<>>, pending |-> {}]
            /\ score = [scored |-> FALSE, current |-> FALSE]
    /\ part = "tune" => Len(result) = 1 /\ result[1].enabled = Dims4 
                      /\ result[1].graded = [completeness |-> [passed |-> 2, of |-> 3], tool_usage |-> [passed |-> 3, of |-> 3]]

\* Which side of the held-out split a case is on decides who loads it: that is for "suite".
OneCase == \A c \in Cases : case'[c].heldOut = case[c].heldOut /\ (c # TheCase => case'[c] = case[c])
OneRun == \A r \in Runs \ {TheRun} : run'[r] = run[r]
OneKind == \A p \in People : request'[p].kind \in {"none", part} \ (IF p \in Admins THEN {"annotate"} ELSE {})
\* A change of both settings is two that no round came between.
OneSetting == setting'.model = setting.model \/ setting'.on = setting.on

Only(p) ==
    /\ part = p /\ UNCHANGED part
    /\ p \notin {"race", "suite"} => UNCHANGED versionVars
    /\ p \notin {"annotate", "sign"} => UNCHANGED curationVars
    /\ p # "register" => UNCHANGED registryVars
    /\ p \notin {"wire", "adopt"} => UNCHANGED wiringVars
    /\ p \notin {"probe", "ask"} => UNCHANGED probeVars
    /\ p # "assert" => UNCHANGED unified
    /\ p # "judge" => UNCHANGED samplingVars
    /\ p \notin {"score", "tune"} => UNCHANGED scoringVars
Next ==
    \/ Only("race") /\ VersionsNext /\ OneCase
    \/ Only("suite") /\ VersionsNext /\ OneRun
    \/ Only("annotate") /\ CurationNext /\ OneKind
    \/ Only("sign") /\ CurationNext /\ OneKind
    \/ Only("register") /\ RegistryNext
    \/ Only("wire") /\ NextCase
    \/ Only("adopt") /\ WiringNext
    \/ Only("probe") /\ ProbeNext
    \/ Only("ask") /\ ProbeAgain
    \/ Only("assert") /\ AssertionsNext
    \/ Only("judge") /\ SamplingNext /\ OneSetting
    \/ Only("score") /\ ScoreRun
    \/ Only("tune") /\ ScoringNext

Spec == Init /\ [][Next]_vars
=============================================================================
