----------------------------- MODULE CaseVersions -----------------------------
(***************************************************************************)
(* The cases of one ordinary suite, the versions kept of their content and *)
(* the runs that execute them. A run loads the cases once, at its start,   *)
(* and every coroutine of it later writes a result that names a version of *)
(* its case; people edit, invalidate and re-enable cases all the while.    *)
(* The scorer judges a result by its version, so the version has to be the *)
(* content the run has sent.                                               *)
(***************************************************************************)
EXTENDS Naturals, Sequences, FiniteSets, FiniteSetsExt

CONSTANTS
    Cases, Runs,
    Contents,   \* what _content_hash tells apart: input, expected, assertions, metrics
    MaxEdits    \* bound: calls that change a case

ASSUME VersionsAssumption == IsFiniteSet(Cases) /\ MaxEdits \in Nat

VARIABLES
    case,       \* test_case: what decides who runs it, and its content
    versions,   \* case_version by version_no: the contents
    run,        \* eval_run with its coroutines
    edits

versionVars == <<case, versions, run, edits>>

Triggers == {"manual", "held_out"}
All == {}       \* case_ids NULL
NoFn == [c \in {} |-> 0]

\* Who writes results of a run: the coroutines of its cases, and the refill of missing rows.
\* todo: cases whose version has not been looked up yet; newest: the number found for the others;
\* seen: the content in hand.
Writers == {"case", "finish", "salvage"}
Idle == [todo |-> {}, newest |-> NoFn, seen |-> NoFn]
\* gathering: the task of the run still awaits its coroutines; plan: cases it has loaded, of which
\* only their number is kept (total_case); rows: eval_result.
NewRun == [stage |-> "none", trigger |-> "manual", ids |-> All, gathering |-> FALSE,
           plan |-> {}, work |-> [w \in Writers |-> Idle], rows |-> NoFn]

Eligible(trigger) == {c \in Cases : case[c].active /\ case[c].heldOut = (trigger = "held_out")}
Loaded(r) == IF run[r].ids = All THEN Eligible(run[r].trigger)
                                 ELSE Eligible(run[r].trigger) \cap run[r].ids
Put(f, c, x) == [d \in DOMAIN f \cup {c} |-> IF d = c THEN x ELSE f[d]]
Drop(f, c) == [d \in DOMAIN f \ {c} |-> f[d]]
-----------------------------------------------------------------------------
VersionsInit ==
    /\ case \in [Cases -> [active : BOOLEAN, heldOut : BOOLEAN, content : {Min(Contents)}]]
    /\ versions = [c \in Cases |-> <<>>]
    /\ run = [r \in Runs |-> NewRun]
    /\ edits = 0

\* PUT and DELETE /cases/{id}, one transaction each. A run that is not loaded yet will see it.
Changed(c, new) ==
    /\ edits < MaxEdits /\ new # case[c]
    /\ edits' = edits + 1
    /\ case' = [case EXCEPT ![c] = new]
    /\ UNCHANGED <<versions, run>>
UpdateCase(c) ==
    \/ \E x \in Contents : Changed(c, [case[c] EXCEPT !.content = x])
    \/ Changed(c, [case[c] EXCEPT !.heldOut = ~@])
    \/ Changed(c, [case[c] EXCEPT !.active = TRUE])
InvalidateCase(c) == Changed(c, [case[c] EXCEPT !.active = FALSE])

\* A list of ids is refused as a whole when one of them would not be loaded; no list, when
\* nothing would be loaded.
ValidIds(ids, trigger) == ids = All \/ ids \subseteq Eligible(trigger)
HasCases(ids, trigger) == ids # All \/ Eligible(trigger) # {}

Created(r, trigger, ids) ==
    /\ run' = [run EXCEPT ![r] = [NewRun EXCEPT !.stage = "pending", !.trigger = trigger, !.ids = ids]]
    /\ UNCHANGED <<case, versions, edits>>
CreateRun(r) == \E trigger \in Triggers, ids \in SUBSET Cases :
    /\ run[r].stage = "none"
    /\ ValidIds(ids, trigger) /\ HasCases(ids, trigger)
    /\ Created(r, trigger, ids)
\* A rerun without a body inherits the list of its source and does not look at it again; an empty
\* list of its own makes it a run of everything.
RerunRun(r, src) == \E ids \in SUBSET Cases :
    /\ run[r].stage = "none" /\ run[src].stage = "ended"
    /\ ids = run[src].ids \/ ValidIds(ids, run[src].trigger)
    /\ HasCases(ids, run[src].trigger)
    /\ Created(r, run[src].trigger, ids)

Loading(cs) == [todo |-> cs, newest |-> NoFn, seen |-> [c \in cs |-> case[c].content]]
\* _load_run_cases at the start of the run: what is not active any more is left out silently.
LoadRunCases(r) ==
    /\ run[r].stage = "pending"
    /\ run' = [run EXCEPT
        ![r].stage = IF Loaded(r) = {} THEN "ended" ELSE "running",
        ![r].gathering = Loaded(r) # {},
        ![r].plan = Loaded(r),
        ![r].work["case"] = Loading(Loaded(r))]
    /\ UNCHANGED <<case, versions, edits>>
-----------------------------------------------------------------------------
Busy(r, w) == run[r].work[w].todo # {} \/ run[r].work[w].newest # NoFn

\* A case whose row is written, and one of which only the newest number is known so far.
Dealt(k, c) == [k EXCEPT !.todo = @ \ {c}, !.newest = Drop(@, c)]
Noted(k, c, n) == [k EXCEPT !.todo = @ \ {c}, !.newest = Put(@, c, n)]
\* _save_result keeps the row that is already there.
Written(r, w, c, no) ==
    [run[r] EXCEPT !.work[w] = Dealt(@, c),
                   !.rows = IF c \in DOMAIN @ THEN @
                            ELSE Put(@, c, [no |-> no, by |-> w, content |-> run[r].work[w].seen[c]])]

\* Mutation: the newest version serves every run, as it did before the hash was compared.
ReusesAny(r, w, c) == versions[c] # <<>>

\* _ensure_case_version: the newest version serves when its hash is that of the content in hand.
\* _ensure_salvage_version: the newest version serves whatever it holds.
Reusable(r, w, c) == LET v == versions[c] IN
    v # <<>> /\ (w = "salvage" \/ v[Len(v)] = run[r].work[w].seen[c])

EnsureCaseVersion(r, w, c) ==
    /\ c \in run[r].work[w].todo
    /\ run' = [run EXCEPT ![r] =
        IF Reusable(r, w, c) THEN Written(r, w, c, Len(versions[c]))
        ELSE [run[r] EXCEPT !.work[w] = Noted(run[r].work[w], c, Len(versions[c]))]]
    /\ UNCHANGED <<case, versions, edits>>

\* What a taken number leaves: the coroutine raises and gather ends the run; a refill is gone.
GivenUp(r, c) == [run[r] EXCEPT !.stage = "ended", !.gathering = FALSE,
                                !.work["case"].newest = Drop(@, c)]
RolledBack(r, w) == [run[r] EXCEPT !.work[w] = Idle,
                        !.rows = [d \in {e \in DOMAIN @ : @[e].by # w} |-> @[d]]]

\* The insert, under the unique key (case_id, version_no). A number that was taken in between
\* raises: gather gives the run up while its other coroutines go on; a refill is rolled back.
InsertVersion(r, w, c) ==
    /\ c \in DOMAIN run[r].work[w].newest
    /\ LET no == run[r].work[w].newest[c] + 1 IN
       IF no \notin DOMAIN versions[c]
       THEN /\ versions' = [versions EXCEPT ![c] = Append(@, run[r].work[w].seen[c])]
            /\ run' = [run EXCEPT ![r] = Written(r, w, c, no)]
       ELSE /\ run' = [run EXCEPT ![r] = IF w = "case" THEN GivenUp(r, c) ELSE RolledBack(r, w)]
            /\ UNCHANGED versions
    /\ UNCHANGED <<case, edits>>

\* A cancelled coroutine leaves no row.
SkipCase(r, c) ==
    /\ c \in run[r].work["case"].todo
    /\ run' = [run EXCEPT ![r].work["case"].todo = @ \ {c}]
    /\ UNCHANGED <<case, versions, edits>>

\* Mutation: the list of the run is forgotten when its cases are loaded again.
RefillsFromSuite(r, w) ==
    IF Cardinality(DOMAIN run[r].rows) < Cardinality(run[r].plan)
    THEN [run[r].work EXCEPT ![w] = Loading(Eligible(run[r].trigger) \ DOMAIN run[r].rows)]
    ELSE run[r].work

\* Fewer rows than planned: the cases are loaded again, and those without a row are filled in.
Refill(r, w) ==
    IF Cardinality(DOMAIN run[r].rows) < Cardinality(run[r].plan)
    THEN [run[r].work EXCEPT ![w] = Loading(Loaded(r) \ DOMAIN run[r].rows)]
    ELSE run[r].work
Finish(r) ==
    /\ run[r].gathering /\ ~Busy(r, "case") /\ ~Busy(r, "salvage")
    /\ run' = [run EXCEPT ![r].gathering = FALSE, ![r].stage = "ended",
                          ![r].work = Refill(r, "finish")]
    /\ UNCHANGED <<case, versions, edits>>
\* The scanner has taken the run for dead, which its process need not be, and salvages it.
ScoreRunSalvage(r) ==
    /\ run[r].stage = "running"
    /\ run' = [run EXCEPT ![r].stage = "ended", ![r].work = Refill(r, "salvage")]
    /\ UNCHANGED <<case, versions, edits>>
\* The process that executes the run dies.
Crash(r) ==
    /\ run[r].gathering
    /\ run' = [run EXCEPT ![r].gathering = FALSE, ![r].work["case"] = Idle]
    /\ UNCHANGED <<case, versions, edits>>

VersionsNext ==
    \/ \E c \in Cases : UpdateCase(c) \/ InvalidateCase(c)
    \/ \E r \in Runs :
        \/ CreateRun(r) \/ LoadRunCases(r) \/ Finish(r) \/ ScoreRunSalvage(r) \/ Crash(r)
        \/ \E src \in Runs : RerunRun(r, src)
        \/ \E c \in Cases :
            \/ SkipCase(r, c)
            \/ \E w \in Writers : EnsureCaseVersion(r, w, c) \/ InsertVersion(r, w, c)

VersionsSpec == VersionsInit /\ [][VersionsNext]_versionVars
-----------------------------------------------------------------------------
\* The result of a case a run has executed names a version that holds exactly what the run had
\* loaded and sent, however the case was edited since and whichever runs wrote versions of it
\* meanwhile: the scorer judges by that version.
SnapshotIsWhatRan ==
    \A r \in Runs : \A c \in DOMAIN run[r].rows :
        LET row == run[r].rows[c] IN
        row.by # "salvage" => row.no \in DOMAIN versions[c] /\ versions[c][row.no] = row.content

\* Whoever ends a run, its own task or the scanner while its coroutines go on, sees what is missing
\* although it compares two numbers, and cases were retired, enabled and moved since the run
\* loaded them: every loaded case that is still to be run has a row or is filled in now. Rows of
\* cases the run did not load can only be there for its own task, when the scanner was there first;
\* then the numbers may mislead. A run of a list gets no row outside it.
MissingIsRefilled ==
    [][\A r \in Runs :
        LET rows == run[r].rows
            foreign == DOMAIN rows \ run[r].plan
            Ends(w, step) ==
                step => /\ \A c \in foreign : w = "finish" /\ rows[c].by = "salvage"
                        /\ foreign # {} \/ run[r].plan \cap Loaded(r) \subseteq
                                             DOMAIN rows \cup run[r]'.work[w].todo
                        /\ run[r].ids = All \/ DOMAIN rows \cup run[r]'.work[w].todo \subseteq run[r].ids
        IN  Ends("finish", Finish(r)) /\ Ends("salvage", ScoreRunSalvage(r))]_versionVars

\* NOT TRUE of the code. orchestrator.py:761 has a difference of the numbers stand for what is
\* missing. A salvage that has filled in a case which was enabled meanwhile makes up for one that
\* was retired then and is back when the run's own task counts.
NumbersTell ==
    [][\A r \in Runs : Finish(r) => run[r].plan \cap Loaded(r) \subseteq
                                     DOMAIN run[r].rows \cup run[r]'.work["finish"].todo]_versionVars

\* NOT TRUE of the code. runs.py:397-398 has the list of a rerun protected by the check of ids, so
\* that no run is made that has nothing to do. An inherited list is not checked.
NoIdleRun ==
    [][\A r \in Runs : run[r].stage = "none" /\ run[r]'.stage = "pending"
                           => Loaded(r)' # {}]_versionVars
=============================================================================
