---------------------------- MODULE AdapterWiring ----------------------------
(***************************************************************************)
(* How the requests of a case come out of the templates of an agent: the   *)
(* manifest from which a configuration is generated, the steps before the  *)
(* main request whose products later templates use, and the check that the *)
(* input of a pulled case gets into a request. A template is the set of    *)
(* its placeholders; one that cannot be resolved is sent as it stands, and *)
(* the agent answers whatever it answers to it. The path of an ordinary    *)
(* step is scanned like a template, and sent without being rendered.       *)
(***************************************************************************)
EXTENDS Naturals, Sequences

CONSTANTS
    Contracts,  \* the contract part of a manifest, or a configuration somebody wrote
    Inputs,     \* of a case: the paths that lead to something, each a sequence of keys
    Secrets,    \* the credentials of the agent
    Answers,    \* of the steps before the request: the fields of each step's answer
    Offered     \* the contracts an admin confirms or writes while the agent is in use

\* {{input.p}} {{auth.f}} {{prepare.s.f}}, and one of no domain of the manifest. Deep leads on into
\* the field, whose value the agent chooses.
InputRef(p) == [domain |-> "input", path |-> p]
AuthRef(f) == [domain |-> "auth", field |-> f]
ProductRef(s, f) == [domain |-> "prepare", step |-> s, field |-> f, deep |-> FALSE]
Deep(s, f) == [ProductRef(s, f) EXCEPT !.deep = TRUE]
NoField == "none"
OtherRef == [domain |-> "other"]

VARIABLES
    call,   \* contract, input, auth and answers of the case in hand; the contract is what is
            \* left of the manifest in adapter_config
    kept    \* the manifest kept beside it (_manifest_v2); rewritten: a person has changed the
            \* configuration since; form: what an admin has open to edit

wiringVars == <<call, kept>>

NoManifest == [none |-> TRUE]
NoForm == [open |-> FALSE]
-----------------------------------------------------------------------------
\* Every string of the contract is scanned: the request, the steps and what is never sent. A step
\* uses its templates (headers, body, files, data and the path of a poll); the path of an ordinary
\* step goes into its URL as it is written.
StepRefs(c) == UNION {c.steps[i].uses : i \in DOMAIN c.steps}
PathRefs(c) == UNION {c.steps[i].path : i \in DOMAIN c.steps}
CollectRefs(c) == c.request \cup StepRefs(c) \cup PathRefs(c) \cup c.unsent
Extracts(c, s) == UNION {DOMAIN c.steps[i].extract : i \in {j \in DOMAIN c.steps : c.steps[j].name = s}}

\* _validate_refs: unknown domain, unknown step, no field, a field that step does not extract.
BadRef(c, ref) ==
    \/ ref.domain = "other"
    \/ ref.domain = "prepare" /\ ref.field \notin Extracts(c, ref.step)

\* V2Contract, V2Manifest: step names are unique, one interface is evaluated.
WellFormed(c) ==
    /\ c.llm
    /\ \A i, j \in DOMAIN c.steps : c.steps[i].name = c.steps[j].name => i = j
\* build_adapter_config; the placeholders are renamed one by one and stay where they are.
Accepted(c) == WellFormed(c) /\ \A ref \in CollectRefs(c) : ~BadRef(c, ref)
InputFields(c) == {ref.path : ref \in {r \in CollectRefs(c) : r.domain = "input"}}
RequiresAuth(c) == \E ref \in CollectRefs(c) : ref.domain = "auth"

\* The steps are a list; a placeholder of a manifest names at least one key of the input.
Domains == {"input", "auth", "prepare", "other"}
ASSUME WiringAssumption == \A c \in Contracts \cup Offered :
    /\ Len(c.steps) \in Nat /\ DOMAIN c.steps = 1..Len(c.steps)
    /\ \A ref \in CollectRefs(c) : ref.domain \in Domains
    /\ Accepted(c) => \A f \in InputFields(c) : f \in Seq(STRING) /\ f # <<>>
-----------------------------------------------------------------------------
\* _store: the answer of a step and, under their keys, what is extracted from it.
Product(i) == call.answers[call.contract.steps[i].name] \cup DOMAIN call.contract.steps[i].extract
ExtractRaises(i) ==
    \E key \in DOMAIN call.contract.steps[i].extract :
        call.contract.steps[i].extract[key] \notin call.answers[call.contract.steps[i].name]

\* _get_path after the first n steps.
Resolves(ref, n) ==
    \/ ref.domain = "input" /\ ref.path \in call.input
    \/ ref.domain = "auth" /\ ref.field \in call.auth
    \/ /\ ref.domain = "prepare"
       /\ \E i \in 1..n :
            /\ call.contract.steps[i].name = ref.step
            /\ ref.field = NoField \/ (ref.field \in Product(i) /\ ~ref.deep)

\* render_template leaves what it cannot resolve; where it is not called, all is left.
Left(template, n) == {ref \in template : ~Resolves(ref, n)}

\* prepare runs the steps in their order and ends at the first that raises.
StepsRun == {i \in DOMAIN call.contract.steps : \A j \in 1..(i - 1) : ~ExtractRaises(j)}
RequestSent == \A i \in DOMAIN call.contract.steps : ~ExtractRaises(i)
LeftInSteps == UNION {Left(call.contract.steps[i].uses, i - 1) : i \in StepsRun}
LeftInPaths == UNION {call.contract.steps[i].path : i \in StepsRun}
LeftInRequest == IF RequestSent THEN Left(call.contract.request, Len(call.contract.steps)) ELSE {}

\* Mutation: the steps before the request are not looked at.
RequestAlone(c) == {ref \in c.request : ref.domain = "input"}

\* check_input_wiring: the placeholders found in the whole configuration.
InputRefs(c) == {ref \in CollectRefs(c) : ref.domain = "input"}
Wired(c, input) == InputRefs(c) # {} /\ \A ref \in InputRefs(c) : ref.path \in input
\* build_case_skeleton: the fields a manifest lists, each with a blank value, and a sample merged
\* into them; where the sample has a plain value, what the fields have below it goes.
Leads(p, q) == Len(p) < Len(q) /\ SubSeq(q, 1, Len(p)) = p
UnpackFields(fields) == UNION {{SubSeq(f, 1, n) : n \in 1..Len(f)} : f \in fields}
Plain(sample) == {p \in sample : ~\E q \in sample : Leads(p, q)}
MergeInput(base, sample) == sample \cup {p \in base : ~\E q \in Plain(sample) : Leads(q, p)}
Skeleton(c, sample) == MergeInput(UnpackFields(InputFields(c)), sample)
-----------------------------------------------------------------------------
\* An agent that was configured by hand.
WiringInit ==
    /\ call \in [contract : Contracts, input : Inputs, auth : Secrets, answers : Answers]
    /\ kept = [manifest |-> NoManifest, rewritten |-> FALSE, form |-> NoForm]
\* The next case of the agent.
NextCase == \E input \in Inputs : call' = [call EXCEPT !.input = input] /\ UNCHANGED kept

\* confirm_adapter: the configuration is generated from the manifest, which is kept beside it in
\* the same column; an admin may have edited it since the discovery.
ConfirmAdapter == \E c \in Offered :
    /\ Accepted(c)
    /\ call' = [call EXCEPT !.contract = c]
    /\ kept' = [kept EXCEPT !.manifest = c, !.rewritten = FALSE]

\* The form of the agent shows the column as it is, and update_agent writes what comes back, however
\* long that takes: as it was, with other templates, or without the manifest.
OpenForm ==
    /\ ~kept.form.open
    /\ kept' = [kept EXCEPT !.form = [open |-> TRUE, contract |-> call.contract,
                                      manifest |-> kept.manifest, rewritten |-> kept.rewritten]]
    /\ UNCHANGED call

UpdateAgent ==
    /\ kept.form.open
    /\ \E c \in Offered \cup {kept.form.contract}, m \in {kept.form.manifest, NoManifest} :
       /\ call' = [call EXCEPT !.contract = c]
       /\ kept' = [manifest |-> m, form |-> NoForm,
                   rewritten |-> kept.form.rewritten \/ c # kept.form.contract]

WiringNext == NextCase \/ ConfirmAdapter \/ OpenForm \/ UpdateAgent
-----------------------------------------------------------------------------
\* A pulled case that passes the check sends no placeholder in place of its input, in the request or
\* in what is rendered of a step, and where all steps are done and the input stands in nothing but
\* templates, some of it is filled in.
Filled(ref) == ref.domain = "input" /\ ref.path \in call.input
WiringIsRendering ==
    Wired(call.contract, call.input) =>
        /\ \A ref \in LeftInSteps \cup LeftInRequest : ref.domain # "input"
        /\ /\ RequestSent
           /\ InputRefs(call.contract) \cap (call.contract.unsent \cup PathRefs(call.contract)) = {}
           => \/ \E ref \in call.contract.request : Filled(ref)
              \/ \E i \in StepsRun : \E ref \in call.contract.steps[i].uses : Filled(ref)

\* NOT TRUE of the code: the check is the rendering's own behaviour (engine.py:72), so that a pulled
\* case that passes it sends no placeholder in place of its input. It accepts one in the path of a
\* step, which is not rendered; the same holds of the scan of a manifest.
NothingIsSentLiterally ==
    Wired(call.contract, call.input) => \A ref \in LeftInPaths : ref.domain # "input"

\* A configuration generated from a manifest tells what it needs: with the input fields it lists
\* and the credentials it uses, its request is sent without a placeholder, unless one leads into
\* the value of a field; what is rendered of a step before it lacks at most the product of one that
\* is not done.
DraftTellsItsNeeds ==
    /\ Accepted(call.contract) /\ InputFields(call.contract) \subseteq call.input
    /\ \A ref \in CollectRefs(call.contract) : ref.domain = "auth" => ref.field \in call.auth
    => /\ \A ref \in LeftInRequest : ref.domain = "prepare" /\ ref.deep
       /\ \A ref \in LeftInSteps : ref.domain = "prepare"
       /\ ~RequiresAuth(call.contract) => \A ref \in LeftInSteps : ref.domain # "auth"

\* The manifest has input fields and the sample no plain value where it looks further down.
Fills(c) == Accepted(c) /\ InputFields(c) # {} /\ \A p \in Plain(call.input), f \in InputFields(c) : ~Leads(p, f)

\* The case generated from a manifest passes the check of the configuration generated from it,
\* whatever sample it was filled with.
SkeletonIsWired == Fills(call.contract) => Wired(call.contract, Skeleton(call.contract, call.input))

\* case_skeleton works with the manifest that was kept, execution with the configuration in force:
\* the two belong together, whatever forms opened long ago are saved over a confirmation, until a
\* person changes the templates themselves.
KeptIsInForce ==
    LET m == kept.manifest IN
    (m # NoManifest /\ ~kept.rewritten /\ Fills(m)) => Wired(call.contract, Skeleton(m, call.input))

\* What the two checks of templates let through is what rendering resolves, wherever the code renders
\* at all, though neither of them renders anything: they look at a configuration before there is an
\* answer of any step. Of the paths of steps it says nothing: they are NothingIsSentLiterally.
TemplatesAreFilled == WiringIsRendering /\ DraftTellsItsNeeds /\ SkeletonIsWired /\ KeptIsInForce
=============================================================================
