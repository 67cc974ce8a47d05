--------------------------- MODULE EvaluationProofs ---------------------------
(***************************************************************************)
(* What an evaluation is computed from, for any number of people, cases,   *)
(* runs and tasks: a target that counts has two signers, the status of the *)
(* annotations catches up with them, a result names a version that holds   *)
(* what was run, who ends a run sees what is missing, a verdict is shared  *)
(* only where asking again would have been the same question, and what     *)
(* the checks of templates let through is sent as the code sends it.       *)
(***************************************************************************)
EXTENDS CaseVersions, Curation, JudgeSampling, AdapterWiring, FiniteSetTheorems, SequenceTheorems, TLAPS

-----------------------------------------------------------------------------
(* Curation.                                                               *)

Maybe(S) == S \cup {Nobody}
TargetRows == [state : {"none", "auto", "pending_approval", "approved"},
               score : Levels \cup {NoLevel}, by1 : Maybe(People), by2 : Maybe(People)]
NoteRows == UNION {[keys -> Levels \cup {NoLevel}] : keys \in SUBSET (People \X Dims)}
Statuses == {"draft", "disputed", "single", "consensus", "double"}
Annotating == [kind : {"annotate"}, dim : Dims, level : Levels \cup {NoLevel}, rows : NoteRows,
               status : Statuses, undisturbed : BOOLEAN]
Signing == [kind : {"sign"}, score : Levels, row : TargetRows, undisturbed : BOOLEAN]

\* The types of the variables people write.
CurationTypeOK ==
    /\ notes \in NoteRows
    /\ status \in Statuses
    /\ target \in TargetRows
    /\ request \in [People -> {NoRequest} \cup Annotating \cup Signing]
    /\ sent \in [People -> [annotate : Nat, sign : Nat]]

\* A second name comes after a first one and is another one.
Names(row) ==
    /\ row.by2 # Nobody => row.by1 # Nobody /\ row.by1 # row.by2
    /\ row.state = "approved" => row.by2 # Nobody

\* While a person has a request open nobody else writes that person's name: who found no first
\* name is not the second by now, who found somebody else's is not the first; and a name that
\* was found is not taken out again.
Signs(p) == request[p].kind = "sign"
FoundStands(p) ==
    LET row == request[p].row IN
    /\ Names(row)
    /\ row # NoTarget => target # NoTarget
    /\ row.by1 # Nobody => target.by1 # Nobody
    /\ row.by2 # Nobody => target.by2 # Nobody
    /\ row.by1 = Nobody => target.by2 # p
    /\ row.by1 \notin {Nobody, p} => target.by1 # p

\* A request for an annotation that overlapped none has the rows as they still are.
Overlapping(p, q) == request[q].kind = "annotate" /\ q # p
SeesNow(p) ==
    (request[p].kind = "annotate" /\ request[p].undisturbed) =>
        /\ request[p].rows = notes /\ request[p].status = status
        /\ \A q \in People : ~Overlapping(p, q)

CurationInv ==
    /\ CurationTypeOK
    /\ Names(target)
    /\ \A p \in People : Signs(p) => FoundStands(p)
    /\ \A p \in People : SeesNow(p)

\* The status that is computed is one of the five.
LEMMA RecalculatedType == \A rows : Recalculated(rows) \in Statuses
  BY DEF Recalculated, Statuses

\* The rows after a note was written.
LEMMA UpsertType ==
    ASSUME NEW rows \in NoteRows, NEW p \in People, NEW d \in Dims, NEW x \in Levels \cup {NoLevel}
    PROVE  Upsert(rows, <<p, d>>, x) \in NoteRows
<1>1. PICK keys \in SUBSET (People \X Dims) : rows \in [keys -> Levels \cup {NoLevel}]
  BY DEF NoteRows
<1>2. /\ keys \cup {<<p, d>>} \in SUBSET (People \X Dims)
      /\ Upsert(rows, <<p, d>>, x) \in [keys \cup {<<p, d>>} -> Levels \cup {NoLevel}]
  BY <1>1 DEF Upsert
<1> QED
  BY <1>2 DEF NoteRows

\* At the start nobody has a request open.
LEMMA InitCuration == CurationInit => CurationInv
<1> SUFFICES ASSUME CurationInit PROVE CurationInv
  OBVIOUS
<1>1. NoTarget \in TargetRows /\ \A s \in Levels : Seeded(s) \in TargetRows
  BY DEF NoTarget, Seeded, TargetRows, Maybe
<1>2. notes \in NoteRows
  <2>1. notes \in [{} -> Levels \cup {NoLevel}]
    BY DEF CurationInit
  <2> QED
    BY <2>1 DEF NoteRows
<1>3. CurationTypeOK
  <2>1. target \in TargetRows /\ status \in Statuses
    BY <1>1 DEF CurationInit, Statuses
  <2>2. request \in [People -> {NoRequest} \cup Annotating \cup Signing]
    BY DEF CurationInit
  <2>3. sent \in [People -> [annotate : Nat, sign : Nat]]
    BY DEF CurationInit
  <2> QED
    BY <1>2, <2>1, <2>2, <2>3 DEF CurationTypeOK
<1>4. Names(target)
  <2>1. \A s \in Levels : Seeded(s).state = "auto" /\ Seeded(s).by2 = Nobody
    BY DEF Seeded, NoTarget
  <2>2. NoTarget.state = "none" /\ NoTarget.by2 = Nobody
    BY DEF NoTarget
  <2>3. target.state # "approved" /\ target.by2 = Nobody
    BY <2>1, <2>2 DEF CurationInit
  <2> QED
    BY <2>3 DEF Names
<1> QED
  BY <1>3, <1>4 DEF CurationInit, CurationInv, Signs, SeesNow, NoRequest

\* A request that begins tells those of its kind that they are not alone.
LEMMA BeginsKeeps ==
    ASSUME CurationInv, NEW p \in People, NEW kind \in {"annotate", "sign"},
           NEW req \in Annotating \cup Signing, req.kind = kind, Begins(p, kind, req),
           req.undisturbed => Undisturbed(kind),
           kind = "annotate" => req.rows = notes /\ req.status = status,
           kind = "sign" => req.row = target
    PROVE  CurationInv'
<1>1. /\ request[p] = NoRequest /\ UNCHANGED <<notes, status, target>>
      /\ sent' = [sent EXCEPT ![p][kind] = @ + 1]
      /\ request' = [q \in People |->
                    IF q = p THEN req
                    ELSE IF request[q].kind = kind THEN [request[q] EXCEPT !.undisturbed = FALSE]
                    ELSE request[q]]
      /\ CurationTypeOK
  BY DEF Begins, CurationInv
<1>2. ASSUME NEW q \in People, q # p
      PROVE  /\ request'[q] \in {NoRequest} \cup Annotating \cup Signing
             /\ request'[q].kind = request[q].kind
             /\ request[q].kind = "sign" => request'[q].row = request[q].row
             /\ request[q].kind = "annotate" =>
                    /\ request'[q].rows = request[q].rows
                    /\ request'[q].status = request[q].status
                    /\ kind = "annotate" => ~request'[q].undisturbed
             /\ request[q].kind # kind => request'[q] = request[q]
  <2>1. CASE request[q] = NoRequest
    BY <1>1, <1>2, <2>1 DEF NoRequest
  <2>2. CASE request[q] \in Annotating
    BY <1>1, <1>2, <2>2 DEF Annotating
  <2>3. CASE request[q] \in Signing
    BY <1>1, <1>2, <2>3 DEF Signing
  <2> QED
    BY <1>1, <2>1, <2>2, <2>3 DEF CurationTypeOK
<1>3. request'[p] = req
  BY <1>1
<1>4. CurationTypeOK'
  <2>1. request' \in [People -> {NoRequest} \cup Annotating \cup Signing]
    BY <1>1, <1>2, <1>3
  <2>2. sent' \in [People -> [annotate : Nat, sign : Nat]]
    BY <1>1 DEF CurationTypeOK
  <2> QED
    BY <1>1, <2>1, <2>2 DEF CurationTypeOK
<1>5. ASSUME NEW q \in People, Signs(q)' PROVE FoundStands(q)'
  <2>1. CASE q = p
    <3>1. kind = "sign" /\ req.row = target /\ request'[q].row = target
      BY <1>3, <1>5, <2>1 DEF Signs
    <3>2. Names(target)
      BY DEF CurationInv
    <3> QED
      BY <1>1, <2>1, <3>1, <3>2, CurationAssumption DEF FoundStands, Names, CurationAssumption
  <2>2. CASE q # p
    <3>1. Signs(q) /\ request'[q].row = request[q].row
      BY <1>2, <1>5, <2>2 DEF Signs
    <3> QED
      BY <1>1, <3>1 DEF CurationInv, FoundStands, Names
  <2> QED
    BY <2>1, <2>2
<1>6. ASSUME NEW q \in People PROVE SeesNow(q)'
  <2>1. CASE q = p
    <3>1. request'[q] = req /\ \A o \in People : o # p => request'[o].kind = request[o].kind
      BY <1>2, <1>3, <2>1
    <3> QED
      BY <1>1, <2>1, <3>1 DEF SeesNow, Overlapping, Undisturbed
  <2>2. CASE q # p /\ kind = "annotate"
    BY <1>2, <2>2 DEF SeesNow
  <2>3. CASE q # p /\ kind = "sign"
    <3>1. /\ request[q].kind = "annotate" => request'[q] = request[q]
          /\ request'[q].kind = request[q].kind
          /\ \A o \in People : request'[o].kind = "annotate" => request[o].kind = "annotate"
      BY <1>2, <1>3, <2>3
    <3> QED
      BY <1>1, <3>1 DEF CurationInv, SeesNow, Overlapping
  <2> QED
    BY <2>1, <2>2, <2>3
<1>7. Names(target)'
  BY <1>1 DEF CurationInv, Names
<1> QED
  BY <1>4, <1>5, <1>6, <1>7 DEF CurationInv

\* What a request that ends leaves to the others: their requests, which know of one fewer.
LEMMA EndKeepsSeeing ==
    ASSUME CurationInv, NEW p \in People, request' = [request EXCEPT ![p] = NoRequest],
           UNCHANGED <<notes, status>> \/ request[p].kind = "annotate"
    PROVE  \A q \in People : SeesNow(q)'
<1>1. request \in [People -> {NoRequest} \cup Annotating \cup Signing]
  BY DEF CurationInv, CurationTypeOK
<1>2. request'[p].kind = "none" /\ \A q \in People : q # p => request'[q] = request[q]
  BY <1>1 DEF NoRequest
<1> QED
  BY <1>1, <1>2 DEF CurationInv, SeesNow, Overlapping

\* The commit of an annotation: its row is there, the status is written when it differs from
\* the one that was loaded.
LEMMA CommitAnnotationKeeps ==
    ASSUME CurationInv, NEW p \in People, CommitAnnotation(p)
    PROVE  CurationInv'
<1>1. /\ request[p].kind = "annotate" /\ CurationTypeOK
      /\ notes' = Upsert(notes, <<p, request[p].dim>>, request[p].level)
      /\ status' \in {StatusOf(p), status}
      /\ request' = [request EXCEPT ![p] = NoRequest] /\ UNCHANGED <<target, sent>>
  BY DEF CommitAnnotation, CurationInv
<1>2. request[p] \in Annotating
  BY <1>1 DEF CurationTypeOK, Signing, NoRequest
<1>3. notes' \in NoteRows
  <2>1. request[p].dim \in Dims /\ request[p].level \in Levels \cup {NoLevel} /\ notes \in NoteRows
    BY <1>1, <1>2 DEF Annotating, CurationTypeOK
  <2> QED
    BY <1>1, <2>1, UpsertType
<1>4. status' \in Statuses
  BY <1>1, RecalculatedType DEF StatusOf, CurationTypeOK
<1>5. request' \in [People -> {NoRequest} \cup Annotating \cup Signing]
  BY <1>1 DEF CurationTypeOK
<1>6. CurationTypeOK'
  BY <1>1, <1>3, <1>4, <1>5 DEF CurationTypeOK
<1>7. ASSUME NEW q \in People, Signs(q)' PROVE FoundStands(q)'
  <2>1. Signs(q) /\ request'[q] = request[q]
    BY <1>1, <1>7 DEF CurationTypeOK, Signs, NoRequest
  <2> QED
    BY <1>1, <2>1 DEF CurationInv, FoundStands, Names
<1>8. Names(target)'
  BY <1>1 DEF CurationInv, Names
<1> QED
  BY <1>1, <1>6, <1>7, <1>8, EndKeepsSeeing DEF CurationInv

\* The commit of a signature writes what differs from what its request had loaded.
LEMMA CommitSigningKeeps ==
    ASSUME CurationInv, NEW p \in People, CommitSigning(p)
    PROVE  CurationInv'
<1> DEFINE old == request[p].row
           new == Signed(p, old, request[p].score)
<1>1. /\ request[p].kind = "sign" /\ CurationTypeOK
      /\ target' = IF old # NoTarget
                   THEN [f \in DOMAIN old |-> IF new[f] # old[f] THEN new[f] ELSE target[f]]
                   ELSE IF target = NoTarget THEN new ELSE target
      /\ request' = [request EXCEPT ![p] = NoRequest] /\ UNCHANGED <<notes, status, sent>>
  BY DEF CommitSigning, CurationInv
<1>2. request[p] \in Signing /\ old \in TargetRows /\ request[p].score \in Levels /\ target \in TargetRows
  BY <1>1 DEF CurationTypeOK, Annotating, Signing, NoRequest
<1>3. FoundStands(p) /\ Names(target) /\ p # Nobody
  BY <1>1, CurationAssumption DEF CurationInv, Signs, CurationAssumption
<1>4. /\ new \in TargetRows
      /\ \/ /\ old.by1 \in {Nobody, p} /\ new.by1 = p /\ new.by2 = old.by2
            /\ new.state = "pending_approval"
         \/ /\ old.by1 \notin {Nobody, p} /\ new.by2 = p /\ new.by1 = old.by1
            /\ new.state = "approved"
  BY <1>2 DEF Signed, FirstSigner, TargetRows, Maybe
<1>5. /\ target' \in TargetRows
      /\ target'.by1 \in {p, target.by1} /\ target'.by2 \in {p, target.by2}
      /\ target' # target => target'.by1 # Nobody
      /\ Names(target')
  <2>1. CASE old = NoTarget /\ target = NoTarget
    <3>1. target' = new /\ old.by1 = Nobody /\ old.by2 = Nobody /\ target.by2 = Nobody
      BY <1>1, <2>1 DEF NoTarget
    <3> QED
      BY <1>3, <1>4, <3>1 DEF Names
  <2>2. CASE old = NoTarget /\ target # NoTarget
    BY <1>1, <1>2, <1>3, <2>2
  <2>3. CASE old # NoTarget
    <3>1. DOMAIN old = {"state", "score", "by1", "by2"}
      BY <1>2 DEF TargetRows
    <3>2. target' = [f \in {"state", "score", "by1", "by2"} |->
                       IF new[f] # old[f] THEN new[f] ELSE target[f]]
      BY <1>1, <2>3, <3>1
    <3>3. /\ target'.state = IF new.state # old.state THEN new.state ELSE target.state
          /\ target'.score = IF new.score # old.score THEN new.score ELSE target.score
          /\ target'.by1 = IF new.by1 # old.by1 THEN new.by1 ELSE target.by1
          /\ target'.by2 = IF new.by2 # old.by2 THEN new.by2 ELSE target.by2
      BY <3>2
    <3>4. target' = [state |-> target'.state, score |-> target'.score,
                     by1 |-> target'.by1, by2 |-> target'.by2]
      BY <3>2
    <3>5. target' \in TargetRows
      BY <1>2, <1>4, <3>3, <3>4 DEF TargetRows
    <3>6. /\ target'.by1 \in {p, target.by1} /\ target'.by2 \in {p, target.by2}
          /\ target'.by1 # Nobody
      BY <1>3, <1>4, <2>3, <3>3 DEF FoundStands
    <3> HIDE DEF new
    <3>7. Names(target')
      BY <1>3, <1>4, <2>3, <3>3 DEF FoundStands, Names
    <3> QED
      BY <3>5, <3>6, <3>7
  <2> QED
    BY <2>1, <2>2, <2>3
<1>6. CurationTypeOK'
  BY <1>1, <1>5 DEF CurationTypeOK
<1>7. ASSUME NEW q \in People, Signs(q)' PROVE FoundStands(q)'
  <2>1. q # p /\ Signs(q) /\ request'[q] = request[q]
    BY <1>1, <1>7 DEF CurationTypeOK, Signs, NoRequest
  <2>2. FoundStands(q)
    BY <2>1 DEF CurationInv
  <2>3. q # Nobody /\ (target' # target => target' # NoTarget)
    BY <1>5, CurationAssumption DEF CurationAssumption, NoTarget
  <2> QED
    BY <1>3, <1>5, <2>1, <2>2, <2>3 DEF FoundStands
<1> QED
  BY <1>1, <1>5, <1>6, <1>7, EndKeepsSeeing DEF CurationInv

\* A request that is rolled back leaves no trace.
LEMMA AbortKeeps ==
    ASSUME CurationInv, NEW p \in People, Abort(p)
    PROVE  CurationInv'
<1>1. request' = [request EXCEPT ![p] = NoRequest] /\ UNCHANGED <<notes, status, target, sent>>
  BY DEF Abort
<1>2. CurationTypeOK'
  BY <1>1 DEF CurationInv, CurationTypeOK
<1>3. ASSUME NEW q \in People, Signs(q)' PROVE FoundStands(q)'
  <2>1. Signs(q) /\ request'[q] = request[q]
    BY <1>1, <1>3 DEF CurationInv, CurationTypeOK, Signs, NoRequest
  <2> QED
    BY <1>1, <2>1 DEF CurationInv, FoundStands, Names
<1> QED
  BY <1>1, <1>2, <1>3, EndKeepsSeeing DEF CurationInv, Names

\* Every request of everybody keeps the invariant.
LEMMA StepCuration == CurationInv /\ [CurationNext]_curationVars => CurationInv'
<1> SUFFICES ASSUME CurationInv, [CurationNext]_curationVars PROVE CurationInv'
  OBVIOUS
<1>1. ASSUME NEW p \in People, BeginAnnotation(p) PROVE CurationInv'
  <2>1. PICK d \in Dims, x \in Levels \cup {NoLevel} :
          Begins(p, "annotate", [kind |-> "annotate", dim |-> d, level |-> x, rows |-> notes,
                                 status |-> status, undisturbed |-> Undisturbed("annotate")])
    BY <1>1 DEF BeginAnnotation
  <2>2. PICK req : req = [kind |-> "annotate", dim |-> d, level |-> x, rows |-> notes,
                          status |-> status, undisturbed |-> Undisturbed("annotate")]
    OBVIOUS
  <2>3. Undisturbed("annotate") \in BOOLEAN
    BY DEF Undisturbed
  <2>4. req \in Annotating
    BY <2>2, <2>3 DEF CurationInv, CurationTypeOK, Annotating
  <2> QED
    BY <2>1, <2>2, <2>4, BeginsKeeps
<1>2. ASSUME NEW p \in People, BeginSigning(p) PROVE CurationInv'
  <2>1. PICK s \in Levels :
          Begins(p, "sign", [kind |-> "sign", score |-> s, row |-> target,
                             undisturbed |-> Undisturbed("sign")])
    BY <1>2 DEF BeginSigning
  <2>2. PICK req : req = [kind |-> "sign", score |-> s, row |-> target,
                          undisturbed |-> Undisturbed("sign")]
    OBVIOUS
  <2>3. Undisturbed("sign") \in BOOLEAN
    BY DEF Undisturbed
  <2>4. req \in Signing
    BY <2>2, <2>3 DEF CurationInv, CurationTypeOK, Signing
  <2> QED
    BY <2>1, <2>2, <2>4, BeginsKeeps
<1>3. CASE UNCHANGED curationVars
  BY <1>3 DEF curationVars, CurationInv, CurationTypeOK, Names, Signs, FoundStands, SeesNow,
     Overlapping
<1> QED
  BY <1>1, <1>2, <1>3, CommitAnnotationKeeps, CommitSigningKeeps, AbortKeeps DEF CurationNext

\* A target counts as approved only with the names of two different people under it, for any
\* number of people, admins and requests that overlap.
THEOREM ApprovedHasTwoSigners == CurationSpec => []TwoSigners
<1>1. CurationInv => TwoSigners
  BY DEF CurationInv, CurationTypeOK, TargetRows, Maybe, Names, TwoSigners
<1> QED
  BY <1>1, InitCuration, StepCuration, PTL DEF CurationSpec

\* A request for an annotation that overlaps no other leaves the status the rows have by then,
\* its own included, whatever status earlier requests that overlapped have left.
THEOREM StatusCaughtUp == CurationSpec => StatusCatchesUp
<1>1. ASSUME CurationInv, [CurationNext]_curationVars
      PROVE  [\A p \in People : CommitAnnotation(p) /\ request[p].undisturbed
                => status' = Recalculated(notes')]_curationVars
  <2>1. ASSUME NEW p \in People, CommitAnnotation(p), request[p].undisturbed
        PROVE  status' = Recalculated(notes')
    <3>1. request[p].rows = notes /\ request[p].status = status
      BY <1>1, <2>1 DEF CurationInv, SeesNow, CommitAnnotation
    <3>2. StatusOf(p) = Recalculated(notes')
      BY <2>1, <3>1 DEF CommitAnnotation, StatusOf
    <3> QED
      BY <2>1, <3>1, <3>2 DEF CommitAnnotation
  <2> QED
    BY <2>1
<1> QED
  BY <1>1, InitCuration, StepCuration, PTL DEF CurationSpec, StatusCatchesUp
-----------------------------------------------------------------------------
(* Versions.                                                               *)

Partial(S, T) == UNION {[D -> T] : D \in SUBSET S}
Kept == Contents \cup {Min(Contents)}
CaseRows == [active : BOOLEAN, heldOut : BOOLEAN, content : Kept]
Works == [todo : SUBSET Cases, newest : Partial(Cases, Nat), seen : Partial(Cases, Kept)]
ResultRow == [no : Nat, by : Writers, content : Kept]
ResultRows == Partial(Cases, ResultRow)
RunRows == [stage : {"none", "pending", "running", "ended"}, trigger : Triggers, ids : SUBSET Cases,
            gathering : BOOLEAN, plan : SUBSET Cases,
            work : [Writers -> Works], rows : ResultRows]

\* The types of the variables of the cases, their versions and the runs.
VersionsTypeOK ==
    /\ case \in [Cases -> CaseRows]
    /\ versions \in [Cases -> Seq(Kept)]
    /\ run \in [Runs -> RunRows]
    /\ edits \in Nat

\* Who writes has the content in hand, and the newest number that was found is not ahead of the
\* versions there are.
WorkFits(x, vs) ==
    \A w \in Writers :
        /\ x.work[w].todo \subseteq DOMAIN x.work[w].seen
        /\ DOMAIN x.work[w].newest \subseteq DOMAIN x.work[w].seen
        /\ \A c \in DOMAIN x.work[w].newest : x.work[w].newest[c] <= Len(vs[c])

\* The rows of a run are true to the versions they name.
RowsAreTrue(x, vs) ==
    \A c \in DOMAIN x.rows :
        x.rows[c].by # "salvage" => /\ x.rows[c].no \in DOMAIN vs[c]
                                    /\ vs[c][x.rows[c].no] = x.rows[c].content

\* What a writer works on.
Hand(k) == k.todo \cup DOMAIN k.newest

\* Coroutines have planned cases only, a list is kept to, the task of the run fills nothing in
\* before it ends, and the scanner nothing before it takes the run for dead.
KeepsToPlan(x) ==
    /\ \A w \in Writers : x.ids = All \/ Hand(x.work[w]) \subseteq x.ids
    /\ x.ids = All \/ x.plan \cup DOMAIN x.rows \subseteq x.ids
    /\ Hand(x.work["case"]) \subseteq x.plan
    /\ \A c \in DOMAIN x.rows : x.rows[c].by = "case" => c \in x.plan
    /\ x.gathering => Hand(x.work["finish"]) = {} /\ \A c \in DOMAIN x.rows : x.rows[c].by # "finish"
    /\ x.stage # "ended" => /\ Hand(x.work["finish"]) = {} /\ Hand(x.work["salvage"]) = {}
                            /\ \A c \in DOMAIN x.rows : x.rows[c].by = "case"
    /\ x.stage \in {"none", "pending"} => /\ Hand(x.work["case"]) = {} /\ DOMAIN x.rows = {}
                                          /\ ~x.gathering

\* A run that goes on: nobody takes up a case, rows are of cases that were in hand, and it may end.
SameHead(x, y) ==
    /\ x.ids = y.ids /\ x.plan = y.plan /\ x.gathering \in {y.gathering, FALSE}
    /\ x.stage \in {y.stage, "ended"}
GoesOn(x, y) ==
    /\ SameHead(x, y)
    /\ \A w \in Writers : Hand(x.work[w]) \subseteq Hand(y.work[w])
    /\ \A c \in DOMAIN x.rows :
         \/ c \in DOMAIN y.rows /\ x.rows[c].by = y.rows[c].by
         \/ x.rows[c].by \in Writers /\ c \in Hand(y.work[x.rows[c].by])

VersionsInv ==
    /\ VersionsTypeOK
    /\ \A r \in Runs : WorkFits(run[r], versions) /\ RowsAreTrue(run[r], versions) /\ KeepsToPlan(run[r])

\* Putting an entry into a partial function, and taking one out.
LEMMA PartialType ==
    ASSUME NEW S, NEW T, NEW f \in Partial(S, T), NEW c \in S, NEW x \in T
    PROVE  /\ Put(f, c, x) \in Partial(S, T) /\ Drop(f, c) \in Partial(S, T)
           /\ DOMAIN Put(f, c, x) = DOMAIN f \cup {c} /\ DOMAIN Drop(f, c) = DOMAIN f \ {c}
           /\ DOMAIN f \subseteq S /\ \A d \in DOMAIN f : f[d] \in T
<1>1. PICK D \in SUBSET S : f \in [D -> T]
  BY DEF Partial
<1>2. Put(f, c, x) \in [D \cup {c} -> T] /\ Drop(f, c) \in [D \ {c} -> T]
  BY <1>1 DEF Put, Drop
<1>3. D \cup {c} \in SUBSET S /\ D \ {c} \in SUBSET S
  OBVIOUS
<1> QED
  BY <1>1, <1>2, <1>3 DEF Partial

\* The function without entries.
LEMMA NoFnType == \A S, T : NoFn \in Partial(S, T)
<1> SUFFICES ASSUME NEW S, NEW T PROVE NoFn \in Partial(S, T)
  OBVIOUS
<1>1. NoFn \in [{} -> T] /\ {} \in SUBSET S
  BY DEF NoFn
<1> QED
  BY <1>1 DEF Partial

\* What a writer starts from.
LEMMA WorkTypes ==
    ASSUME VersionsTypeOK
    PROVE  /\ Idle \in Works /\ \A cs \in SUBSET Cases : Loading(cs) \in Works
           /\ DOMAIN NoFn = {} /\ NewRun \in RunRows
<1>1. Idle \in Works
  BY NoFnType DEF Idle, Works
<1>2. ASSUME NEW cs \in SUBSET Cases PROVE Loading(cs) \in Works
  <2>1. [c \in cs |-> case[c].content] \in [cs -> Kept]
    BY DEF VersionsTypeOK, CaseRows
  <2>2. [c \in cs |-> case[c].content] \in Partial(Cases, Kept)
    BY <2>1 DEF Partial
  <2> QED
    BY <2>2, NoFnType DEF Loading, Works
<1>3. NewRun \in RunRows
  <2>1. [w \in Writers |-> Idle] \in [Writers -> Works] /\ NoFn \in ResultRows
    BY <1>1, NoFnType DEF ResultRows
  <2> QED
    BY <2>1 DEF NewRun, RunRows, All, Triggers
<1> QED
  BY <1>1, <1>2, <1>3 DEF NoFn

\* At the start there are no runs, no versions and no results.
LEMMA InitVersions == VersionsInit => VersionsInv
<1> SUFFICES ASSUME VersionsInit PROVE VersionsInv
  OBVIOUS
<1>1. case \in [Cases -> CaseRows] /\ edits \in Nat
  BY DEF VersionsInit, CaseRows, Kept
<1>2. versions \in [Cases -> Seq(Kept)]
  BY EmptySeq DEF VersionsInit
<1>3. run \in [Runs -> RunRows]
  <2>1. [w \in Writers |-> Idle] \in [Writers -> Works] /\ NoFn \in ResultRows
    BY NoFnType DEF ResultRows, Idle, Works
  <2>2. NewRun \in RunRows
    BY <2>1 DEF NewRun, RunRows, All, Triggers
  <2> QED
    BY <2>2 DEF VersionsInit
<1>4. ASSUME NEW r \in Runs PROVE WorkFits(run[r], versions) /\ RowsAreTrue(run[r], versions) /\ KeepsToPlan(run[r])
  <2>1. run[r] = NewRun
    BY DEF VersionsInit
  <2>2. DOMAIN NoFn = {}
    BY DEF NoFn
  <2> QED
    BY <2>1, <2>2 DEF NewRun, WorkFits, RowsAreTrue, KeepsToPlan, Hand, Idle, Writers
<1> QED
  BY <1>1, <1>2, <1>3, <1>4 DEF VersionsInv, VersionsTypeOK
-----------------------------------------------------------------------------
\* Versions are only added, behind those there are.
Grows ==
    /\ versions' \in [Cases -> Seq(Kept)]
    /\ \A c \in Cases :
        /\ Len(versions[c]) <= Len(versions'[c])
        /\ \A i \in DOMAIN versions[c] : i \in DOMAIN versions'[c] /\ versions'[c][i] = versions[c][i]

\* What fits the versions fits more of them.
LEMMA GrowingKeeps ==
    ASSUME VersionsTypeOK, Grows, NEW x \in RunRows, WorkFits(x, versions), RowsAreTrue(x, versions)
    PROVE  WorkFits(x, versions') /\ RowsAreTrue(x, versions')
<1>1. DOMAIN x.rows \subseteq Cases
  <2>1. PICK D \in SUBSET Cases : x.rows \in [D -> ResultRow]
    BY DEF RunRows, ResultRows, Partial
  <2> QED
    BY <2>1
<1>2. ASSUME NEW w \in Writers, NEW c \in DOMAIN x.work[w].newest
      PROVE  x.work[w].newest[c] <= Len(versions'[c])
  <2>1. x.work[w].newest \in Partial(Cases, Nat)
    BY DEF RunRows, Works
  <2>2. PICK D \in SUBSET Cases : x.work[w].newest \in [D -> Nat]
    BY <2>1 DEF Partial
  <2>3. c \in Cases /\ x.work[w].newest[c] \in Nat /\ x.work[w].newest[c] <= Len(versions[c])
    BY <1>2, <2>2 DEF WorkFits
  <2>4. Len(versions[c]) \in Nat /\ Len(versions'[c]) \in Nat
    BY <2>3 DEF VersionsTypeOK, Grows
  <2> QED
    BY <2>3, <2>4 DEF Grows
<1> QED
  BY <1>1, <1>2 DEF WorkFits, RowsAreTrue, Grows

\* Where no version is written there are as many as before.
LEMMA StandingGrows == VersionsTypeOK /\ UNCHANGED versions => Grows
<1> SUFFICES ASSUME VersionsTypeOK, UNCHANGED versions PROVE Grows
  OBVIOUS
<1>1. \A c \in Cases : Len(versions[c]) \in Nat
  BY DEF VersionsTypeOK
<1> QED
  BY <1>1 DEF VersionsTypeOK, Grows

\* A step that changes one run and at most adds versions.
LEMMA OneRunMoves ==
    ASSUME VersionsInv, UNCHANGED <<case, edits>>, Grows, NEW r \in Runs, NEW x \in RunRows,
           run' = [run EXCEPT ![r] = x], WorkFits(x, versions'), RowsAreTrue(x, versions'),
           KeepsToPlan(x)
    PROVE  VersionsInv'
<1>1. VersionsTypeOK'
  BY DEF VersionsInv, VersionsTypeOK, Grows
<1>2. ASSUME NEW q \in Runs
      PROVE  (WorkFits(run[q], versions) /\ RowsAreTrue(run[q], versions) /\ KeepsToPlan(run[q]))'
  <2>1. PICK y : y = run'[q]
    OBVIOUS
  <2>2. WorkFits(y, versions') /\ RowsAreTrue(y, versions') /\ KeepsToPlan(y)
    <3>1. CASE q = r
      BY <2>1, <3>1 DEF VersionsInv, VersionsTypeOK
    <3>2. CASE q # r
      BY <2>1, <3>2, GrowingKeeps DEF VersionsInv, VersionsTypeOK
    <3> QED
      BY <3>1, <3>2
  <2> QED
    BY <2>1, <2>2 DEF WorkFits, RowsAreTrue, KeepsToPlan
<1> QED
  BY <1>1, <1>2 DEF VersionsInv

\* A run that goes on keeps to its plan.
LEMMA GoingOnKeeps ==
    ASSUME NEW x, NEW y, KeepsToPlan(y), GoesOn(x, y), x.gathering \in BOOLEAN
    PROVE  KeepsToPlan(x)
<1>1. /\ x.ids = y.ids /\ x.plan = y.plan /\ (x.gathering => y.gathering)
      /\ (x.stage # "ended" => x.stage = y.stage)
  BY DEF GoesOn, SameHead
<1>2. \A w \in Writers : x.ids = All \/ Hand(x.work[w]) \subseteq x.ids
  BY <1>1 DEF GoesOn, KeepsToPlan
<1>3. x.ids = All \/ x.plan \cup DOMAIN x.rows \subseteq x.ids
  BY <1>1 DEF GoesOn, KeepsToPlan
<1>4. Hand(x.work["case"]) \subseteq x.plan
  BY <1>1 DEF GoesOn, KeepsToPlan, Writers
<1>5. \A c \in DOMAIN x.rows : x.rows[c].by = "case" => c \in x.plan
  BY <1>1 DEF GoesOn, KeepsToPlan
<1>6. x.gathering => Hand(x.work["finish"]) = {} /\ \A c \in DOMAIN x.rows : x.rows[c].by # "finish"
  BY <1>1 DEF GoesOn, KeepsToPlan, Writers
<1>7. x.stage # "ended" => /\ Hand(x.work["finish"]) = {} /\ Hand(x.work["salvage"]) = {}
                          /\ \A c \in DOMAIN x.rows : x.rows[c].by = "case"
  BY <1>1 DEF GoesOn, KeepsToPlan, Writers
<1>8. x.stage \in {"none", "pending"} => /\ Hand(x.work["case"]) = {} /\ DOMAIN x.rows = {}
                                        /\ ~x.gathering
  <2> SUFFICES ASSUME x.stage \in {"none", "pending"}
               PROVE  Hand(x.work["case"]) = {} /\ DOMAIN x.rows = {} /\ ~x.gathering
    OBVIOUS
  <2>1. y.stage = x.stage /\ x.stage # "ended"
    BY <1>1
  <2>2. \A w \in Writers : Hand(y.work[w]) = {}
    BY <2>1 DEF KeepsToPlan, Writers
  <2> QED
    BY <1>1, <2>1, <2>2 DEF GoesOn, KeepsToPlan, Writers
<1> QED
  BY <1>2, <1>3, <1>4, <1>5, <1>6, <1>7, <1>8 DEF KeepsToPlan

\* Editing a case changes no version, no result and no run.
LEMMA ChangedKeeps ==
    ASSUME VersionsInv, NEW c \in Cases, NEW new \in CaseRows, Changed(c, new)
    PROVE  VersionsInv'
<1>1. /\ case' = [case EXCEPT ![c] = new] /\ edits' = edits + 1 /\ UNCHANGED <<versions, run>>
      /\ VersionsTypeOK
  BY DEF Changed, VersionsInv
<1>2. VersionsTypeOK'
  BY <1>1 DEF VersionsTypeOK
<1> QED
  BY <1>1, <1>2 DEF VersionsInv, WorkFits, RowsAreTrue, KeepsToPlan

\* A new run has nothing in hand.
LEMMA CreatedKeeps ==
    ASSUME VersionsInv, NEW r \in Runs, NEW trigger \in Triggers, NEW ids \in SUBSET Cases,
           Created(r, trigger, ids)
    PROVE  VersionsInv'
<1> DEFINE x == [NewRun EXCEPT !.stage = "pending", !.trigger = trigger, !.ids = ids]
<1>1. NewRun \in RunRows /\ DOMAIN NoFn = {}
  BY WorkTypes DEF VersionsInv
<1>2. /\ x \in RunRows /\ x.work = NewRun.work /\ x.rows = NewRun.rows /\ x.plan = NewRun.plan
      /\ x.gathering = NewRun.gathering /\ x.stage = "pending"
  BY <1>1 DEF RunRows
<1>3. UNCHANGED <<case, versions, edits>> /\ run' = [run EXCEPT ![r] = x]
  BY DEF Created
<1> HIDE DEF x
<1>4. WorkFits(x, versions) /\ RowsAreTrue(x, versions) /\ KeepsToPlan(x)
  BY <1>1, <1>2 DEF NewRun, Idle, WorkFits, RowsAreTrue, KeepsToPlan, Hand, Writers
<1> QED
  BY <1>2, <1>3, <1>4, StandingGrows, OneRunMoves DEF VersionsInv

\* The cases a run would load are cases.
LEMMA LoadedType ==
    ASSUME NEW r
    PROVE  Loaded(r) \in SUBSET Cases /\ (run[r].ids = All \/ Loaded(r) \subseteq run[r].ids)
  BY DEF Loaded, Eligible

\* A loaded list is in hand, with nothing looked up yet.
LEMMA LoadingFits ==
    ASSUME NEW cs
    PROVE  /\ Loading(cs).todo = cs /\ DOMAIN Loading(cs).seen = cs
           /\ DOMAIN Loading(cs).newest = {}
  BY DEF Loading, NoFn

\* A run that starts has its cases in hand.
LEMMA LoadRunCasesKeeps ==
    ASSUME VersionsInv, NEW r \in Runs, LoadRunCases(r)
    PROVE  VersionsInv'
<1> DEFINE x == [run[r] EXCEPT !.stage = IF Loaded(r) = {} THEN "ended" ELSE "running",
                               !.gathering = Loaded(r) # {}, !.plan = Loaded(r),
                               !.work = [@ EXCEPT !["case"] = Loading(Loaded(r))]]
<1>1. /\ VersionsTypeOK /\ run[r] \in RunRows /\ WorkFits(run[r], versions)
      /\ RowsAreTrue(run[r], versions) /\ KeepsToPlan(run[r]) /\ run[r].stage = "pending"
  BY DEF VersionsInv, VersionsTypeOK, LoadRunCases
<1>2. Loaded(r) \in SUBSET Cases /\ Loading(Loaded(r)) \in Works
  BY <1>1, LoadedType, WorkTypes
<1>3. run' = [run EXCEPT ![r] = x] /\ UNCHANGED <<case, versions, edits>>
  BY <1>1 DEF LoadRunCases, VersionsTypeOK, RunRows
<1>4. /\ x.work = [run[r].work EXCEPT !["case"] = Loading(Loaded(r))]
      /\ x.rows = run[r].rows /\ x.plan = Loaded(r) /\ x.ids = run[r].ids
  BY <1>1 DEF RunRows
<1>5. x.work \in [Writers -> Works]
  BY <1>1, <1>2, <1>4 DEF RunRows
<1>6. x \in RunRows
  BY <1>1, <1>2, <1>5 DEF RunRows
<1> HIDE DEF x
<1>7. WorkFits(x, versions)
  BY <1>1, <1>4, LoadingFits DEF WorkFits, RunRows
<1>8. RowsAreTrue(x, versions)
  BY <1>1, <1>4 DEF RowsAreTrue
<1>9. /\ x.work["case"] = Loading(Loaded(r)) /\ x.work["finish"] = run[r].work["finish"]
      /\ x.work["salvage"] = run[r].work["salvage"]
  BY <1>1, <1>4 DEF RunRows, Writers
<1>10. Hand(x.work["case"]) = Loaded(r)
  BY <1>9, LoadingFits DEF Hand
<1>11. /\ Hand(x.work["finish"]) = {} /\ Hand(x.work["salvage"]) = {} /\ DOMAIN x.rows = {}
  BY <1>1, <1>4, <1>9 DEF KeepsToPlan
<1>12. x.stage \notin {"none", "pending"}
  BY <1>1 DEF x, RunRows
<1>13. KeepsToPlan(x)
  BY <1>4, <1>10, <1>11, <1>12, LoadedType DEF KeepsToPlan, Writers
<1> QED
  BY <1>3, <1>6, <1>7, <1>8, <1>13, StandingGrows, OneRunMoves DEF VersionsInv

\* One writer of a run changes what it has in hand.
LEMMA WorkMoves ==
    ASSUME VersionsInv, UNCHANGED <<case, versions, edits>>, NEW r \in Runs, NEW w \in Writers,
           NEW k \in Works, run' = [run EXCEPT ![r].work[w] = k],
           k.todo \subseteq DOMAIN k.seen, DOMAIN k.newest \subseteq DOMAIN k.seen,
           \A c \in DOMAIN k.newest : k.newest[c] <= Len(versions[c]),
           Hand(k) \subseteq Hand(run[r].work[w])
    PROVE  VersionsInv'
<1> DEFINE x == [run[r] EXCEPT !.work = [@ EXCEPT ![w] = k]]
<1>1. run[r] \in RunRows /\ WorkFits(run[r], versions) /\ RowsAreTrue(run[r], versions) /\ KeepsToPlan(run[r])
  BY DEF VersionsInv, VersionsTypeOK
<1>2. run' = [run EXCEPT ![r] = x]
  BY <1>1 DEF RunRows
<1>3. /\ x.work = [run[r].work EXCEPT ![w] = k] /\ x.rows = run[r].rows /\ SameHead(x, run[r])
      /\ x \in RunRows
  BY <1>1 DEF RunRows, SameHead
<1> HIDE DEF x
<1>4. WorkFits(x, versions)
  BY <1>1, <1>3 DEF WorkFits, RunRows
<1>5. RowsAreTrue(x, versions)
  BY <1>1, <1>3 DEF RowsAreTrue
<1>6. GoesOn(x, run[r]) /\ x.gathering \in BOOLEAN
  BY <1>1, <1>3 DEF GoesOn, RunRows
<1>7. KeepsToPlan(x)
  BY <1>1, <1>6, GoingOnKeeps
<1> QED
  BY <1>2, <1>3, <1>4, <1>5, <1>7, StandingGrows, OneRunMoves DEF VersionsInv

\* What a writer has in hand once a case is off its hands.
LEMMA DealtType ==
    ASSUME NEW k \in Works, NEW c \in Cases
    PROVE  /\ Dealt(k, c) = [todo |-> k.todo \ {c}, newest |-> Drop(k.newest, c), seen |-> k.seen]
           /\ Dealt(k, c) \in Works
<1>1. k.newest \in Partial(Cases, Nat)
  BY DEF Works
<1>2. PICK D \in SUBSET Cases : k.newest \in [D -> Nat]
  BY <1>1 DEF Partial
<1>3. Drop(k.newest, c) \in [D \ {c} -> Nat] /\ D \ {c} \in SUBSET Cases
  BY <1>2 DEF Drop
<1>4. Drop(k.newest, c) \in Partial(Cases, Nat)
  BY <1>3 DEF Partial
<1>5. Dealt(k, c) = [k EXCEPT !.todo = k.todo \ {c}, !.newest = Drop(k.newest, c)]
  <2>1. [k EXCEPT !.todo = k.todo \ {c}].newest = k.newest
    BY DEF Works
  <2> QED
    BY <2>1 DEF Dealt
<1> QED
  BY <1>4, <1>5 DEF Works

\* The row a writer adds, and what is left in its hand.
LEMMA WrittenIs ==
    ASSUME VersionsTypeOK, NEW r \in Runs, NEW w \in Writers, NEW c \in Cases, NEW no \in Nat,
           c \in DOMAIN run[r].work[w].seen
    PROVE  LET x == Written(r, w, c, no)
               k == run[r].work[w]
           IN  /\ x \in RunRows
               /\ \A v \in Writers : v # w => x.work[v] = run[r].work[v]
               /\ x.work[w] = [todo |-> k.todo \ {c}, newest |-> Drop(k.newest, c), seen |-> k.seen]
               /\ x.rows = IF c \in DOMAIN run[r].rows THEN run[r].rows
                           ELSE Put(run[r].rows, c, [no |-> no, by |-> w, content |-> k.seen[c]])
               /\ SameHead(x, run[r])
<1> DEFINE k == run[r].work[w]
           row == [no |-> no, by |-> w, content |-> k.seen[c]]
<1>1. run[r] \in RunRows /\ k \in Works /\ row \in ResultRow
  <2>1. run[r] \in RunRows
    BY DEF VersionsTypeOK
  <2>2. k \in Works
    BY <2>1 DEF RunRows
  <2>3. k.seen \in Partial(Cases, Kept)
    BY <2>2 DEF Works
  <2>4. PICK D \in SUBSET Cases : k.seen \in [D -> Kept]
    BY <2>3 DEF Partial
  <2> QED
    BY <2>1, <2>2, <2>4 DEF ResultRow
<1> DEFINE k2 == Dealt(k, c)
           rows == IF c \in DOMAIN run[r].rows THEN run[r].rows ELSE Put(run[r].rows, c, row)
<1>2. k2 = [todo |-> k.todo \ {c}, newest |-> Drop(k.newest, c), seen |-> k.seen]
  BY <1>1, DealtType
<1>3. k2 \in Works
  BY <1>1, DealtType
<1>4. rows \in ResultRows
  <2>1. run[r].rows \in Partial(Cases, ResultRow)
    BY <1>1 DEF RunRows, ResultRows
  <2>2. Put(run[r].rows, c, row) \in Partial(Cases, ResultRow)
    BY <1>1, <2>1, PartialType
  <2> QED
    BY <2>1, <2>2 DEF ResultRows
<1>5. Written(r, w, c, no) = [run[r] EXCEPT !.work = [@ EXCEPT ![w] = k2], !.rows = rows]
  BY <1>1 DEF Written, RunRows
<1> HIDE DEF k2, rows
<1>6. /\ [run[r].work EXCEPT ![w] = k2] \in [Writers -> Works]
      /\ [run[r].work EXCEPT ![w] = k2][w] = k2
      /\ \A v \in Writers : v # w => [run[r].work EXCEPT ![w] = k2][v] = run[r].work[v]
  BY <1>1, <1>3 DEF RunRows
<1> DEFINE x == Written(r, w, c, no)
<1>7. /\ x.work = [run[r].work EXCEPT ![w] = k2] /\ x.rows = rows /\ x \in RunRows
      /\ SameHead(x, run[r])
  BY <1>1, <1>4, <1>5, <1>6 DEF RunRows, SameHead
<1> QED
  BY <1>2, <1>6, <1>7 DEF k2, rows, x

\* What a writer has in hand once it knows the newest number.
LEMMA NotedType ==
    ASSUME NEW k \in Works, NEW c \in Cases, NEW n \in Nat
    PROVE  /\ Noted(k, c, n) = [todo |-> k.todo \ {c}, newest |-> Put(k.newest, c, n), seen |-> k.seen]
           /\ DOMAIN Put(k.newest, c, n) = DOMAIN k.newest \cup {c}
           /\ Noted(k, c, n) \in Works
<1>1. k.newest \in Partial(Cases, Nat)
  BY DEF Works
<1>2. PICK D \in SUBSET Cases : k.newest \in [D -> Nat]
  BY <1>1 DEF Partial
<1>3. /\ Put(k.newest, c, n) \in [D \cup {c} -> Nat] /\ D \cup {c} \in SUBSET Cases
      /\ DOMAIN Put(k.newest, c, n) = DOMAIN k.newest \cup {c}
  BY <1>2 DEF Put
<1>4. Put(k.newest, c, n) \in Partial(Cases, Nat)
  BY <1>3 DEF Partial
<1>5. Noted(k, c, n) = [k EXCEPT !.todo = k.todo \ {c}, !.newest = Put(k.newest, c, n)]
  <2>1. [k EXCEPT !.todo = k.todo \ {c}].newest = k.newest
    BY DEF Works
  <2> QED
    BY <2>1 DEF Noted
<1> QED
  BY <1>3, <1>4, <1>5 DEF Works

\* What a writer has in hand once it has given up a case.
LEMMA GivenUpType ==
    ASSUME NEW k \in Works, NEW c
    PROVE  /\ [k EXCEPT !.newest = Drop(k.newest, c)] =
                  [todo |-> k.todo, newest |-> Drop(k.newest, c), seen |-> k.seen]
           /\ [todo |-> k.todo, newest |-> Drop(k.newest, c), seen |-> k.seen] \in Works
           /\ DOMAIN Drop(k.newest, c) = DOMAIN k.newest \ {c}
           /\ \A d \in DOMAIN Drop(k.newest, c) : Drop(k.newest, c)[d] = k.newest[d]
<1>1. k.newest \in Partial(Cases, Nat)
  BY DEF Works
<1>2. PICK D \in SUBSET Cases : k.newest \in [D -> Nat]
  BY <1>1 DEF Partial
<1>3. Drop(k.newest, c) \in [D \ {c} -> Nat] /\ D \ {c} \in SUBSET Cases
  BY <1>2 DEF Drop
<1>4. Drop(k.newest, c) \in Partial(Cases, Nat)
  BY <1>3 DEF Partial
<1>5. /\ [k EXCEPT !.newest = Drop(k.newest, c)] =
                  [todo |-> k.todo, newest |-> Drop(k.newest, c), seen |-> k.seen]
      /\ [todo |-> k.todo, newest |-> Drop(k.newest, c), seen |-> k.seen] \in Works
  BY <1>4 DEF Works
<1>6. /\ DOMAIN Drop(k.newest, c) = DOMAIN k.newest \ {c}
      /\ \A d \in DOMAIN Drop(k.newest, c) : Drop(k.newest, c)[d] = k.newest[d]
  BY DEF Drop
<1> QED
  BY <1>5, <1>6

\* What a writer has in hand is of cases, and so is every row.
LEMMA InHandType ==
    ASSUME VersionsTypeOK, NEW r \in Runs, NEW w \in Writers
    PROVE  LET k == run[r].work[w] IN
           /\ run[r] \in RunRows /\ k \in Works
           /\ DOMAIN k.seen \subseteq Cases /\ DOMAIN k.newest \subseteq Cases
           /\ \A c \in DOMAIN k.newest : k.newest[c] \in Nat
           /\ \A c \in DOMAIN k.seen : k.seen[c] \in Kept
<1> DEFINE k == run[r].work[w]
<1>1. run[r] \in RunRows
  BY DEF VersionsTypeOK
<1>2. k \in Works
  BY <1>1 DEF RunRows
<1>3. k.seen \in Partial(Cases, Kept) /\ k.newest \in Partial(Cases, Nat)
  BY <1>2 DEF Works
<1>4. PICK D \in SUBSET Cases : k.seen \in [D -> Kept]
  BY <1>3 DEF Partial
<1>5. PICK D2 \in SUBSET Cases : k.newest \in [D2 -> Nat]
  BY <1>3 DEF Partial
<1> QED
  BY <1>1, <1>2, <1>4, <1>5

\* A row that names a version which holds what its writer has in hand is a true one.
LEMMA WrittenKeeps ==
    ASSUME VersionsInv, UNCHANGED <<case, edits>>, Grows,
           NEW r \in Runs, NEW w \in Writers, NEW c \in Cases, NEW no \in Nat,
           c \in DOMAIN run[r].work[w].seen, c \in Hand(run[r].work[w]),
           run' = [run EXCEPT ![r] = Written(r, w, c, no)],
           w # "salvage" => no \in DOMAIN versions'[c] /\ versions'[c][no] = run[r].work[w].seen[c]
    PROVE  VersionsInv'
<1> DEFINE x == Written(r, w, c, no)
           k == run[r].work[w]
<1>1. /\ x \in RunRows
      /\ \A v \in Writers : v # w => x.work[v] = run[r].work[v]
      /\ x.work[w] = [todo |-> k.todo \ {c}, newest |-> Drop(k.newest, c), seen |-> k.seen]
      /\ x.rows = IF c \in DOMAIN run[r].rows THEN run[r].rows
                  ELSE Put(run[r].rows, c, [no |-> no, by |-> w, content |-> k.seen[c]])
      /\ SameHead(x, run[r])
  BY WrittenIs DEF VersionsInv
<1>2. /\ WorkFits(run[r], versions') /\ RowsAreTrue(run[r], versions') /\ KeepsToPlan(run[r])
  BY GrowingKeeps DEF VersionsInv, VersionsTypeOK
<1> HIDE DEF x
<1>3. WorkFits(x, versions')
  BY <1>1, <1>2 DEF WorkFits, Drop
<1>4. RowsAreTrue(x, versions')
  <2>1. CASE c \in DOMAIN run[r].rows
    BY <1>1, <1>2, <2>1 DEF RowsAreTrue
  <2>2. CASE c \notin DOMAIN run[r].rows
    <3>1. /\ DOMAIN x.rows = DOMAIN run[r].rows \cup {c}
          /\ x.rows[c] = [no |-> no, by |-> w, content |-> k.seen[c]]
          /\ \A d \in DOMAIN run[r].rows : x.rows[d] = run[r].rows[d]
      BY <1>1, <2>2 DEF Put
    <3> QED
      BY <1>2, <3>1 DEF RowsAreTrue
  <2> QED
    BY <2>1, <2>2
<1>5. KeepsToPlan(x)
  <2>1. /\ \A v \in Writers : Hand(x.work[v]) \subseteq Hand(run[r].work[v])
        /\ DOMAIN Drop(k.newest, c) = DOMAIN k.newest \ {c}
    BY <1>1 DEF Hand, Drop
  <2>2. ASSUME NEW d \in DOMAIN x.rows
        PROVE  \/ d \in DOMAIN run[r].rows /\ x.rows[d].by = run[r].rows[d].by
               \/ x.rows[d].by = w /\ d = c
    BY <1>1 DEF Put
  <2>3. GoesOn(x, run[r])
    BY <1>1, <2>1, <2>2 DEF GoesOn
  <2>4. x.gathering \in BOOLEAN
    BY <1>1 DEF RunRows
  <2> QED
    BY <1>2, <2>3, <2>4, GoingOnKeeps
<1> QED
  BY <1>1, <1>3, <1>4, <1>5, OneRunMoves DEF x

\* The newest version serves when it holds the content in hand; otherwise its number is noted.
LEMMA EnsureCaseVersionKeeps ==
    ASSUME VersionsInv, NEW r \in Runs, NEW w \in Writers, NEW c \in Cases,
           EnsureCaseVersion(r, w, c)
    PROVE  VersionsInv'
<1> DEFINE k == run[r].work[w]
           n == Len(versions[c])
<1>1. /\ c \in k.todo /\ UNCHANGED <<case, versions, edits>> /\ VersionsTypeOK
      /\ run' = [run EXCEPT ![r] = IF Reusable(r, w, c) THEN Written(r, w, c, n)
                                   ELSE [run[r] EXCEPT !.work[w] = Noted(k, c, n)]]
  BY DEF EnsureCaseVersion, VersionsInv
<1>2. k \in Works /\ WorkFits(run[r], versions) /\ run[r] \in RunRows
  BY <1>1, InHandType DEF VersionsInv
<1>3. c \in DOMAIN k.seen /\ c \in Hand(k)
  BY <1>1, <1>2 DEF WorkFits, Hand
<1>4. versions[c] \in Seq(Kept) /\ n \in Nat
  <2>1. versions[c] \in Seq(Kept)
    BY <1>1 DEF VersionsTypeOK
  <2> QED
    BY <2>1
<1>5. CASE Reusable(r, w, c)
  <2>1. w # "salvage" => n \in DOMAIN versions[c] /\ versions[c][n] = k.seen[c]
    BY <1>4, <1>5 DEF Reusable
  <2> QED
    BY <1>1, <1>3, <1>4, <1>5, <2>1, WrittenKeeps, StandingGrows
<1>6. CASE ~Reusable(r, w, c)
  <2> DEFINE k2 == Noted(k, c, n)
  <2>1. run' = [run EXCEPT ![r].work[w] = k2]
    BY <1>1, <1>6
  <2>2. /\ k2 = [todo |-> k.todo \ {c}, newest |-> Put(k.newest, c, n), seen |-> k.seen]
        /\ DOMAIN Put(k.newest, c, n) = DOMAIN k.newest \cup {c}
    BY <1>2, <1>4, NotedType
  <2>3. k2 \in Works
    BY <1>2, <1>4, NotedType
  <2> HIDE DEF k2
  <2>5. k2.todo \subseteq DOMAIN k2.seen /\ DOMAIN k2.newest \subseteq DOMAIN k2.seen
    BY <1>2, <1>3, <2>2 DEF WorkFits
  <2>6. \A d \in DOMAIN k2.newest : k2.newest[d] <= Len(versions[d])
    BY <1>2, <1>4, <2>2 DEF WorkFits, Put
  <2>7. Hand(k2) \subseteq Hand(k)
    BY <1>1, <2>2 DEF Hand
  <2> QED
    BY <1>1, <2>1, <2>3, <2>5, <2>6, <2>7, WorkMoves
<1> QED
  BY <1>5, <1>6

\* A version that is inserted takes the number behind all others, or its writer is given up.
LEMMA InsertVersionKeeps ==
    ASSUME VersionsInv, NEW r \in Runs, NEW w \in Writers, NEW c \in Cases,
           InsertVersion(r, w, c)
    PROVE  VersionsInv'
<1> DEFINE k == run[r].work[w]
           no == k.newest[c] + 1
<1>1. c \in DOMAIN k.newest /\ UNCHANGED <<case, edits>> /\ VersionsTypeOK
  BY DEF InsertVersion, VersionsInv
<1>2. /\ k \in Works /\ run[r] \in RunRows /\ k.newest[c] \in Nat
      /\ WorkFits(run[r], versions) /\ RowsAreTrue(run[r], versions) /\ KeepsToPlan(run[r])
  BY <1>1, InHandType DEF VersionsInv
<1>3. /\ c \in DOMAIN k.seen /\ k.newest[c] <= Len(versions[c]) /\ k.seen[c] \in Kept
      /\ c \in Hand(k)
  BY <1>1, <1>2, InHandType DEF WorkFits, Hand
<1>4. versions[c] \in Seq(Kept) /\ Len(versions[c]) \in Nat
  BY <1>1 DEF VersionsTypeOK
<1>5. CASE no \notin DOMAIN versions[c]
  <2>1. /\ versions' = [versions EXCEPT ![c] = Append(@, k.seen[c])]
        /\ run' = [run EXCEPT ![r] = Written(r, w, c, no)]
    BY <1>5 DEF InsertVersion
  <2>2. no = Len(versions[c]) + 1 /\ no \in Nat
    BY <1>2, <1>3, <1>4, <1>5
  <2>3. versions'[c] = Append(versions[c], k.seen[c])
        /\ \A d \in Cases : d # c => versions'[d] = versions[d]
    BY <1>1, <2>1 DEF VersionsTypeOK
  <2>4. /\ versions'[c] \in Seq(Kept) /\ Len(versions'[c]) = no
        /\ no \in DOMAIN versions'[c] /\ versions'[c][no] = k.seen[c]
        /\ \A i \in DOMAIN versions[c] : i \in DOMAIN versions'[c] /\ versions'[c][i] = versions[c][i]
    BY <1>3, <1>4, <2>2, <2>3, AppendProperties
  <2>5. Grows
    <3>1. versions' \in [Cases -> Seq(Kept)]
      BY <1>1, <2>1, <2>3, <2>4 DEF VersionsTypeOK
    <3>2. \A d \in Cases : Len(versions[d]) \in Nat
      BY <1>1 DEF VersionsTypeOK
    <3>3. ASSUME NEW d \in Cases
          PROVE  /\ Len(versions[d]) <= Len(versions'[d])
                 /\ \A i \in DOMAIN versions[d] : i \in DOMAIN versions'[d] /\ versions'[d][i] = versions[d][i]
      <4>1. CASE d = c
        BY <1>4, <2>2, <2>4, <4>1
      <4>2. CASE d # c
        BY <2>3, <3>2, <4>2
      <4> QED
        BY <4>1, <4>2
    <3> QED
      BY <3>1, <3>3 DEF Grows
  <2> QED
    BY <1>1, <1>3, <2>1, <2>2, <2>4, <2>5, WrittenKeeps
<1>6. CASE no \in DOMAIN versions[c] /\ w = "case"
  <2> DEFINE k2 == [todo |-> k.todo, newest |-> Drop(k.newest, c), seen |-> k.seen]
             x == GivenUp(r, c)
  <2>1. /\ run' = [run EXCEPT ![r] = x] /\ UNCHANGED versions
    BY <1>6 DEF InsertVersion
  <2>2. /\ [k EXCEPT !.newest = Drop(k.newest, c)] = k2 /\ k2 \in Works
        /\ DOMAIN k2.newest = DOMAIN k.newest \ {c}
        /\ \A d \in DOMAIN k2.newest : k2.newest[d] = k.newest[d]
    <3>1. k \in Works
      BY <1>2
    <3> HIDE DEF k
    <3>2. [k EXCEPT !.newest = Drop(k.newest, c)] = k2
      BY <3>1, GivenUpType, Zenon
    <3>3. k2 \in Works
      BY <3>1, GivenUpType, Zenon
    <3>4. /\ DOMAIN Drop(k.newest, c) = DOMAIN k.newest \ {c}
          /\ \A d \in DOMAIN Drop(k.newest, c) : Drop(k.newest, c)[d] = k.newest[d]
      BY <3>1, GivenUpType, Zenon
    <3>5. k2.newest = Drop(k.newest, c)
      OBVIOUS
    <3> HIDE DEF k2
    <3> QED
      BY <3>2, <3>3, <3>4, <3>5, Zenon
  <2>3. x = [run[r] EXCEPT !.stage = "ended", !.gathering = FALSE,
                           !.work = [run[r].work EXCEPT ![w] = k2]]
    BY <1>2, <1>6, <2>2 DEF GivenUp, RunRows
  <2>4. k2.todo = k.todo /\ k2.seen = k.seen
    OBVIOUS
  <2> HIDE DEF k2, x
  <2>5. /\ x.work = [run[r].work EXCEPT ![w] = k2] /\ x.rows = run[r].rows
        /\ SameHead(x, run[r])
        /\ x \in RunRows
    BY <1>2, <2>2, <2>3 DEF RunRows, SameHead
  <2>6. \A v \in Writers : x.work[v] = IF v = w THEN k2 ELSE run[r].work[v]
    BY <1>2, <2>5 DEF RunRows
  <2>7. WorkFits(x, versions)
    BY <1>2, <2>2, <2>4, <2>6 DEF WorkFits
  <2>8. RowsAreTrue(x, versions)
    BY <1>2, <2>5 DEF RowsAreTrue
  <2>9. \A v \in Writers : Hand(x.work[v]) \subseteq Hand(run[r].work[v])
    BY <2>2, <2>4, <2>6 DEF Hand
  <2>10. GoesOn(x, run[r]) /\ x.gathering \in BOOLEAN
    BY <2>5, <2>9 DEF GoesOn, RunRows
  <2>11. KeepsToPlan(x)
    BY <1>2, <2>10, GoingOnKeeps
  <2> QED
    BY <1>1, <2>1, <2>5, <2>7, <2>8, <2>11, StandingGrows, OneRunMoves
<1>7. CASE no \in DOMAIN versions[c] /\ w # "case"
  <2> DEFINE rows == [d \in {e \in DOMAIN run[r].rows : run[r].rows[e].by # w} |-> run[r].rows[d]]
             x == RolledBack(r, w)
  <2>1. /\ run' = [run EXCEPT ![r] = x] /\ UNCHANGED versions
    BY <1>7 DEF InsertVersion
  <2>2. rows \in ResultRows
    <3>1. PICK D \in SUBSET Cases : run[r].rows \in [D -> ResultRow]
      BY <1>2 DEF RunRows, ResultRows, Partial
    <3>2. rows \in [{e \in D : run[r].rows[e].by # w} -> ResultRow]
      BY <3>1
    <3> QED
      BY <3>1, <3>2 DEF ResultRows, Partial
  <2>3. \A d \in DOMAIN rows : d \in DOMAIN run[r].rows /\ rows[d] = run[r].rows[d]
    OBVIOUS
  <2>4. x = [run[r] EXCEPT !.work = [run[r].work EXCEPT ![w] = Idle], !.rows = rows]
    BY <1>2 DEF RolledBack, RunRows
  <2> HIDE DEF rows, x
  <2>5. /\ x.work = [run[r].work EXCEPT ![w] = Idle] /\ x.rows = rows
        /\ SameHead(x, run[r])
        /\ x \in RunRows
    BY <1>1, <1>2, <2>2, <2>4, WorkTypes DEF RunRows, SameHead
  <2>6. \A v \in Writers : x.work[v] = IF v = w THEN Idle ELSE run[r].work[v]
    BY <1>2, <2>5 DEF RunRows
  <2>7. Idle.todo = {} /\ DOMAIN Idle.newest = {}
    BY WorkTypes, <1>1 DEF Idle
  <2>8. WorkFits(x, versions)
    BY <1>2, <2>6, <2>7 DEF WorkFits
  <2>9. RowsAreTrue(x, versions)
    BY <1>2, <2>3, <2>5 DEF RowsAreTrue
  <2>10. \A v \in Writers : Hand(x.work[v]) \subseteq Hand(run[r].work[v])
    BY <2>6, <2>7 DEF Hand
  <2>11. GoesOn(x, run[r]) /\ x.gathering \in BOOLEAN
    BY <2>3, <2>5, <2>10 DEF GoesOn, RunRows
  <2>12. KeepsToPlan(x)
    BY <1>2, <2>11, GoingOnKeeps
  <2> QED
    BY <1>1, <2>1, <2>5, <2>8, <2>9, <2>12, StandingGrows, OneRunMoves
<1> QED
  BY <1>5, <1>6, <1>7

\* A cancelled coroutine leaves no row.
LEMMA SkipCaseKeeps ==
    ASSUME VersionsInv, NEW r \in Runs, NEW c \in Cases, SkipCase(r, c)
    PROVE  VersionsInv'
<1> DEFINE w == "case"
           k == run[r].work[w]
           k2 == [k EXCEPT !.todo = k.todo \ {c}]
<1>1. UNCHANGED <<case, versions, edits>> /\ VersionsTypeOK /\ w \in Writers
  BY DEF SkipCase, VersionsInv, Writers
<1>2. k \in Works /\ WorkFits(run[r], versions) /\ run[r] \in RunRows
  BY <1>1, InHandType DEF VersionsInv
<1>3. run' = [run EXCEPT ![r].work[w] = k2]
  <2>1. run' = [run EXCEPT ![r].work["case"].todo = k.todo \ {c}]
    BY DEF SkipCase
  <2> QED
    BY <2>1, <1>1, <1>2 DEF RunRows, VersionsTypeOK
<1>4. k2 \in Works /\ k2.todo = k.todo \ {c} /\ k2.newest = k.newest /\ k2.seen = k.seen
  BY <1>2 DEF Works
<1> HIDE DEF k2
<1>5. /\ k2.todo \subseteq DOMAIN k2.seen /\ DOMAIN k2.newest \subseteq DOMAIN k2.seen
      /\ \A d \in DOMAIN k2.newest : k2.newest[d] <= Len(versions[d])
  BY <1>1, <1>2, <1>4 DEF WorkFits
<1>6. Hand(k2) \subseteq Hand(k)
  BY <1>4 DEF Hand
<1> QED
  BY <1>1, <1>3, <1>4, <1>5, <1>6, WorkMoves

\* Rows that are missing are filled in from the cases as they are now.
LEMMA RefillFits ==
    ASSUME VersionsInv, NEW r \in Runs, NEW w \in {"finish", "salvage"}, NEW x \in RunRows,
           x.work = Refill(r, w), x.rows = run[r].rows, SameHead(x, run[r]), x.stage = "ended",
           w = "finish" => ~x.gathering,
           run' = [run EXCEPT ![r] = x], UNCHANGED <<case, versions, edits>>
    PROVE  VersionsInv'
<1> DEFINE cs == Loaded(r) \ DOMAIN run[r].rows
<1>1. run[r] \in RunRows /\ WorkFits(run[r], versions) /\ RowsAreTrue(run[r], versions) /\ KeepsToPlan(run[r])
  BY DEF VersionsInv, VersionsTypeOK
<1>2. /\ Loading(cs).todo = cs /\ DOMAIN Loading(cs).seen = cs /\ DOMAIN Loading(cs).newest = {}
  BY LoadingFits
<1>3. \A v \in Writers : /\ x.work[v] \in {run[r].work[v], Loading(cs)}
                         /\ v # w => x.work[v] = run[r].work[v]
  BY <1>1 DEF Refill, RunRows
<1>4. WorkFits(x, versions)
  BY <1>1, <1>2, <1>3 DEF WorkFits
<1>5. RowsAreTrue(x, versions)
  BY <1>1 DEF RowsAreTrue
<1>6. Hand(Loading(cs)) = cs
  BY <1>2 DEF Hand
<1>7. x.ids = run[r].ids /\ x.plan = run[r].plan /\ (x.gathering => run[r].gathering /\ w = "salvage")
  BY <1>1 DEF SameHead, RunRows
<1>8. \A v \in Writers : x.ids = All \/ Hand(x.work[v]) \subseteq x.ids
  BY <1>1, <1>3, <1>6, <1>7, LoadedType DEF KeepsToPlan
<1>9. KeepsToPlan(x)
  BY <1>1, <1>3, <1>7, <1>8 DEF KeepsToPlan, Writers
<1> QED
  BY <1>4, <1>5, <1>9, StandingGrows, OneRunMoves DEF VersionsInv

\* The refill of a run is work of its writers.
LEMMA RefillType ==
    ASSUME VersionsTypeOK, NEW r \in Runs, NEW w \in Writers
    PROVE  Refill(r, w) \in [Writers -> Works]
<1>1. run[r].work \in [Writers -> Works]
  BY DEF VersionsTypeOK, RunRows
<1>2. Loaded(r) \ DOMAIN run[r].rows \in SUBSET Cases
  BY LoadedType
<1>3. Loading(Loaded(r) \ DOMAIN run[r].rows) \in Works
  BY <1>2, WorkTypes
<1> QED
  BY <1>1, <1>3 DEF Refill

\* A run that ends by itself fills in what its coroutines left out.
LEMMA FinishKeeps ==
    ASSUME VersionsInv, NEW r \in Runs, Finish(r)
    PROVE  VersionsInv'
<1> DEFINE x == [run[r] EXCEPT !.gathering = FALSE, !.stage = "ended", !.work = Refill(r, "finish")]
<1>1. VersionsTypeOK /\ run[r] \in RunRows /\ "finish" \in Writers
  BY DEF VersionsInv, VersionsTypeOK, Writers
<1>2. Refill(r, "finish") \in [Writers -> Works]
  BY <1>1, RefillType
<1>3. run' = [run EXCEPT ![r] = x] /\ UNCHANGED <<case, versions, edits>>
  BY <1>1 DEF Finish, VersionsTypeOK, RunRows
<1>4. /\ x \in RunRows /\ x.work = Refill(r, "finish") /\ x.rows = run[r].rows
      /\ SameHead(x, run[r]) /\ x.stage = "ended" /\ ~x.gathering
  BY <1>1, <1>2 DEF RunRows, SameHead
<1> HIDE DEF x
<1> QED
  BY <1>1, <1>3, <1>4, RefillFits

\* A run that is taken for dead is filled in as well, while its coroutines go on.
LEMMA ScoreRunSalvageKeeps ==
    ASSUME VersionsInv, NEW r \in Runs, ScoreRunSalvage(r)
    PROVE  VersionsInv'
<1> DEFINE x == [run[r] EXCEPT !.stage = "ended", !.work = Refill(r, "salvage")]
<1>1. VersionsTypeOK /\ run[r] \in RunRows /\ "salvage" \in Writers
  BY DEF VersionsInv, VersionsTypeOK, Writers
<1>2. Refill(r, "salvage") \in [Writers -> Works]
  BY <1>1, RefillType
<1>3. run' = [run EXCEPT ![r] = x] /\ UNCHANGED <<case, versions, edits>>
  BY <1>1 DEF ScoreRunSalvage, VersionsTypeOK, RunRows
<1>4. /\ x \in RunRows /\ x.work = Refill(r, "salvage") /\ x.rows = run[r].rows
      /\ SameHead(x, run[r]) /\ x.stage = "ended"
  BY <1>1, <1>2 DEF RunRows, SameHead
<1> HIDE DEF x
<1> QED
  BY <1>1, <1>3, <1>4, RefillFits

\* A process that dies has nothing in hand any more.
LEMMA CrashKeeps ==
    ASSUME VersionsInv, NEW r \in Runs, Crash(r)
    PROVE  VersionsInv'
<1> DEFINE x == [run[r] EXCEPT !.gathering = FALSE, !.work = [run[r].work EXCEPT !["case"] = Idle]]
<1>1. /\ VersionsTypeOK /\ run[r] \in RunRows /\ WorkFits(run[r], versions)
      /\ RowsAreTrue(run[r], versions) /\ KeepsToPlan(run[r])
  BY DEF VersionsInv, VersionsTypeOK
<1>2. Idle \in Works /\ Idle.todo = {} /\ DOMAIN Idle.newest = {}
  BY <1>1, WorkTypes DEF Idle
<1>3. run' = [run EXCEPT ![r] = x] /\ UNCHANGED <<case, versions, edits>>
  BY <1>1 DEF Crash, VersionsTypeOK, RunRows
<1>4. /\ x \in RunRows /\ x.work = [run[r].work EXCEPT !["case"] = Idle] /\ x.rows = run[r].rows
      /\ SameHead(x, run[r])
  BY <1>1, <1>2 DEF RunRows, SameHead
<1> HIDE DEF x
<1>5. \A v \in Writers : x.work[v] \in {run[r].work[v], Idle}
  BY <1>1, <1>4 DEF RunRows
<1>6. WorkFits(x, versions)
  BY <1>1, <1>2, <1>5 DEF WorkFits
<1>7. RowsAreTrue(x, versions)
  BY <1>1, <1>4 DEF RowsAreTrue
<1>8. \A v \in Writers : Hand(x.work[v]) \subseteq Hand(run[r].work[v])
  BY <1>2, <1>5 DEF Hand
<1>9. GoesOn(x, run[r]) /\ x.gathering \in BOOLEAN
  BY <1>4, <1>8 DEF GoesOn, RunRows
<1>10. KeepsToPlan(x)
  BY <1>1, <1>9, GoingOnKeeps
<1> QED
  BY <1>1, <1>3, <1>4, <1>6, <1>7, <1>10, StandingGrows, OneRunMoves

\* The calls that change a case.
LEMMA EditKeeps ==
    ASSUME VersionsInv, NEW c \in Cases, UpdateCase(c) \/ InvalidateCase(c)
    PROVE  VersionsInv'
<1>1. case[c] \in CaseRows
  BY DEF VersionsInv, VersionsTypeOK
<1>2. /\ \A y \in Contents : [case[c] EXCEPT !.content = y] \in CaseRows
      /\ [case[c] EXCEPT !.heldOut = ~case[c].heldOut] \in CaseRows
      /\ [case[c] EXCEPT !.active = TRUE] \in CaseRows
      /\ [case[c] EXCEPT !.active = FALSE] \in CaseRows
  BY <1>1 DEF CaseRows, Kept
<1>3. PICK new \in CaseRows : Changed(c, new)
  BY <1>2 DEF UpdateCase, InvalidateCase
<1> QED
  BY <1>3, ChangedKeeps

\* The calls that make a run.
LEMMA RequestKeeps ==
    ASSUME VersionsInv, NEW r \in Runs, CreateRun(r) \/ \E src \in Runs : RerunRun(r, src)
    PROVE  VersionsInv'
<1>1. CASE CreateRun(r)
  <2>1. PICK trigger \in Triggers, ids \in SUBSET Cases : Created(r, trigger, ids)
    BY <1>1 DEF CreateRun
  <2> QED
    BY <2>1, CreatedKeeps
<1>2. CASE \E src \in Runs : RerunRun(r, src)
  <2>1. PICK src \in Runs : RerunRun(r, src)
    BY <1>2
  <2>2. PICK ids \in SUBSET Cases : Created(r, run[src].trigger, ids)
    BY <2>1 DEF RerunRun
  <2>3. run[src].trigger \in Triggers
    BY <2>1 DEF VersionsInv, VersionsTypeOK, RunRows
  <2> QED
    BY <2>2, <2>3, CreatedKeeps
<1> QED
  BY <1>1, <1>2

\* Every step of people, runs, coroutines and scanners keeps the invariant.
LEMMA StepVersions == VersionsInv /\ [VersionsNext]_versionVars => VersionsInv'
<1> SUFFICES ASSUME VersionsInv, [VersionsNext]_versionVars PROVE VersionsInv'
  OBVIOUS
<1>1. ASSUME NEW c \in Cases, UpdateCase(c) \/ InvalidateCase(c) PROVE VersionsInv'
  BY <1>1, EditKeeps
<1>2. ASSUME NEW r \in Runs, CreateRun(r) \/ \E src \in Runs : RerunRun(r, src) PROVE VersionsInv'
  BY <1>2, RequestKeeps
<1>3. ASSUME NEW r \in Runs, LoadRunCases(r) PROVE VersionsInv'
  BY <1>3, LoadRunCasesKeeps
<1>4. ASSUME NEW r \in Runs, Finish(r) PROVE VersionsInv'
  BY <1>4, FinishKeeps
<1>5. ASSUME NEW r \in Runs, ScoreRunSalvage(r) PROVE VersionsInv'
  BY <1>5, ScoreRunSalvageKeeps
<1>6. ASSUME NEW r \in Runs, Crash(r) PROVE VersionsInv'
  BY <1>6, CrashKeeps
<1>7. ASSUME NEW r \in Runs, NEW c \in Cases, SkipCase(r, c) PROVE VersionsInv'
  BY <1>7, SkipCaseKeeps
<1>8. ASSUME NEW r \in Runs, NEW c \in Cases, NEW w \in Writers, EnsureCaseVersion(r, w, c)
      PROVE  VersionsInv'
  BY <1>8, EnsureCaseVersionKeeps
<1>9. ASSUME NEW r \in Runs, NEW c \in Cases, NEW w \in Writers, InsertVersion(r, w, c)
      PROVE  VersionsInv'
  BY <1>9, InsertVersionKeeps
<1>10. CASE UNCHANGED versionVars
  BY <1>10 DEF versionVars, VersionsInv, VersionsTypeOK, WorkFits, RowsAreTrue, KeepsToPlan
<1> QED
  BY <1>1, <1>2, <1>3, <1>4, <1>5, <1>6, <1>7, <1>8, <1>9, <1>10 DEF VersionsNext

\* Whatever is edited and whichever runs write versions of the same case, the result of a case a
\* run has executed names a version with the content the run had loaded (orchestrator.py
\* _ensure_case_version): a number, once given, keeps its content, and a writer that comes second
\* to a number gives up its row instead of taking the other's content for its own.
THEOREM ResultsNameWhatRan == VersionsSpec => []SnapshotIsWhatRan
<1>1. VersionsInv => SnapshotIsWhatRan
  BY DEF VersionsInv, RowsAreTrue, SnapshotIsWhatRan
<1> QED
  BY <1>1, InitVersions, StepVersions, PTL DEF VersionsSpec

\* The numbers _finish and score_run_salvage compare tell what is missing (orchestrator.py, scorer.py,
\* case_loader.py): a coroutine has planned cases only, so as long as nobody has filled in a case the
\* run did not load its rows are a part of the plan, and where they are as many they are all of it.
\* That is not so behind a salvage that came first. Whoever loads again keeps to the list.
THEOREM MissingIsSeen == VersionsSpec => MissingIsRefilled
<1>1. ASSUME VersionsInv, [VersionsNext]_versionVars, NEW r \in Runs, NEW w \in {"finish", "salvage"},
             \/ w = "finish" /\ Finish(r)
             \/ w = "salvage" /\ ScoreRunSalvage(r)
      PROVE  LET rows == run[r].rows
                 foreign == DOMAIN rows \ run[r].plan
             IN  /\ \A c \in foreign : w = "finish" /\ rows[c].by = "salvage"
                 /\ foreign # {} \/ run[r].plan \cap Loaded(r) \subseteq
                                      DOMAIN rows \cup run'[r].work[w].todo
                 /\ run[r].ids = All \/ DOMAIN rows \cup run'[r].work[w].todo \subseteq run[r].ids
  <2> DEFINE rows == run[r].rows
             foreign == DOMAIN rows \ run[r].plan
             cs == Loaded(r) \ DOMAIN rows
  <2>1. /\ run[r] \in RunRows /\ KeepsToPlan(run[r]) /\ run \in [Runs -> RunRows] /\ w \in Writers
        /\ run[r].gathering \/ run[r].stage = "running"
        /\ w = "salvage" => run[r].stage = "running"
        /\ w = "finish" => run[r].gathering
    BY <1>1 DEF VersionsInv, VersionsTypeOK, Finish, ScoreRunSalvage, Writers
  <2>2. run'[r].work = Refill(r, w)
    BY <1>1, <2>1 DEF Finish, ScoreRunSalvage, RunRows
  <2>3. run'[r].work[w] = IF Cardinality(DOMAIN rows) < Cardinality(run[r].plan) THEN Loading(cs)
                          ELSE run[r].work[w]
    BY <2>1, <2>2 DEF Refill, RunRows
  <2>4. DOMAIN rows \subseteq Cases /\ run[r].plan \subseteq Cases /\ \A c \in DOMAIN rows : rows[c].by \in Writers
    <3>1. PICK D \in SUBSET Cases : rows \in [D -> ResultRow]
      BY <2>1 DEF RunRows, ResultRows, Partial
    <3> QED
      BY <2>1, <3>1 DEF RunRows, ResultRow
  <2>5. \A c \in foreign : w = "finish" /\ rows[c].by = "salvage"
    BY <2>1, <2>4 DEF KeepsToPlan, Writers
  <2>6. ASSUME foreign = {}, NEW c \in run[r].plan \cap Loaded(r), c \notin DOMAIN rows
        PROVE  c \in run'[r].work[w].todo
    <3>1. IsFiniteSet(run[r].plan)
      BY <2>4, VersionsAssumption, FS_Subset DEF VersionsAssumption
    <3>2. DOMAIN rows \in SUBSET run[r].plan /\ IsFiniteSet(run[r].plan)
      BY <2>6, <3>1
    <3>3. Cardinality(DOMAIN rows) # Cardinality(run[r].plan)
      BY <2>6, <3>2, FS_Subset
    <3>4. /\ Cardinality(DOMAIN rows) <= Cardinality(run[r].plan) /\ IsFiniteSet(DOMAIN rows)
      BY <3>2, FS_Subset
    <3>5. Cardinality(DOMAIN rows) \in Nat /\ Cardinality(run[r].plan) \in Nat
      BY <3>1, <3>4, FS_CardinalityType
    <3>6. run'[r].work[w] = Loading(cs)
      BY <2>3, <3>3, <3>4, <3>5
    <3> QED
      BY <2>6, <3>6, LoadingFits
  <2>7. run[r].ids = All \/ DOMAIN rows \cup run'[r].work[w].todo \subseteq run[r].ids
    <3>1. Loading(cs).todo = cs
      BY LoadingFits
    <3>2. run[r].ids = All \/ cs \subseteq run[r].ids
      BY LoadedType
    <3>3. run[r].ids = All \/ run[r].work[w].todo \cup DOMAIN rows \subseteq run[r].ids
      BY <2>1 DEF KeepsToPlan, Hand
    <3> QED
      BY <2>3, <3>1, <3>2, <3>3
  <2> QED
    BY <2>5, <2>6, <2>7
<1>2. ASSUME VersionsInv, [VersionsNext]_versionVars
      PROVE  [\A r \in Runs :
                LET rows == run[r].rows
                    foreign == DOMAIN rows \ run[r].plan
                    Ends(w, step) ==
                        step => /\ \A c \in foreign : w = "finish" /\ rows[c].by = "salvage"
                                /\ foreign # {} \/ run[r].plan \cap Loaded(r) \subseteq
                                                     DOMAIN rows \cup run[r]'.work[w].todo
                                /\ run[r].ids = All \/ DOMAIN rows \cup run[r]'.work[w].todo \subseteq run[r].ids
                IN  Ends("finish", Finish(r)) /\ Ends("salvage", ScoreRunSalvage(r))]_versionVars
  BY <1>1, <1>2
<1> QED
  BY <1>2, InitVersions, StepVersions, PTL DEF VersionsSpec, MissingIsRefilled
-----------------------------------------------------------------------------
(* Sampling.                                                               *)

Sample(ps, ms) == [level : Verdicts, prompt : ps, model : ms, epoch : Nat, strayed : BOOLEAN]
TaskRows(T) == [pc : {"waiting", "claimed", "lookup", "calling", "done", "failed"}, attempts : Nat,
                samples : T, asked : Nat]
SampleRows == TaskRows(Seq(Sample(Prompts, Models)))

\* What a coroutine may count as its own: given for its prompt by its model, since it read cache_on
\* unless it strayed.
OwnSamples(t) ==
    {x \in Sample({prompt[t]}, {client[t].model}) :
        x.epoch <= epoch /\ (x.strayed \/ x.epoch >= client[t].since)}

\* What an entry may hold: a verdict on what its key says, of the present epoch unless it strayed.
FreshEntries ==
    {e \in [key : Prompts \X Models, verdict : Sample(Prompts, Models)] :
        /\ e.key = KeyOf(e.verdict.prompt, e.verdict.model)
        /\ e.verdict.epoch <= epoch /\ (e.verdict.strayed \/ e.verdict.epoch = epoch)}

\* A coroutine that judges, and may have samples.
Judges(row) == row.pc \in {"lookup", "calling"}

\* A cache that is off holds nothing; a task that is not judged has no samples.
SamplingInv ==
    /\ prompt \in [Tasks -> Prompts]
    /\ round \in [batch : SUBSET Tasks, on : BOOLEAN]
    /\ setting \in [model : Models, on : BOOLEAN]
    /\ changes \in Nat /\ epoch \in Nat
    /\ client \in [Tasks -> [model : Models \cup {NoModel}, on : BOOLEAN, since : Nat]]
    /\ task \in [Tasks -> SampleRows]
    /\ \A t \in Tasks : /\ client[t].since <= epoch
                        /\ t \in Active => client[t].model \in Models
                        /\ task[t].samples \in Seq(IF Judges(task[t]) THEN OwnSamples(t) ELSE {})
    /\ cache \in Seq(FreshEntries)
    /\ ~round.on => cache = <<>>

\* A set of naturals has a least element.
LEMMA LeastOf ==
    ASSUME NEW T \in SUBSET Nat, T # {}
    PROVE  Min(T) \in T
<1>1. PICK x \in T : \A y \in T : ~(<<y, x>> \in OpToRel(<, Nat))
  BY NatLessThanWellFounded, WFMin
<1>2. \A y \in T : ~(y < x)
  BY <1>1 DEF OpToRel
<1>3. \A y \in T : x <= y
  BY <1>2
<1> QED
  BY <1>3 DEF Min

\* Taking an element out of a sequence leaves a sequence of the same elements.
LEMMA RemoveAtType ==
    ASSUME NEW S, NEW s \in Seq(S), NEW k \in DOMAIN s
    PROVE  RemoveAt(s, k) \in Seq(S)
<1>1. Len(s) \in Nat /\ k \in 1..Len(s)
  OBVIOUS
<1>2. \A i \in 1..(k - 1) : s[i] \in S
  BY <1>1, ElementOfSeq
<1>3. \A i \in (k + 1)..Len(s) : s[i] \in S
  BY <1>1, ElementOfSeq
<1>4. SubSeq(s, 1, k - 1) \in Seq(S)
  BY <1>1, <1>2, SubSeqProperties
<1>5. SubSeq(s, k + 1, Len(s)) \in Seq(S)
  BY <1>1, <1>3, SubSeqProperties
<1> QED
  BY <1>4, <1>5, ConcatProperties DEF RemoveAt

\* The cache without a key holds no other entries than it held.
LEMMA WithoutType ==
    ASSUME NEW S, cache \in Seq(S), NEW k
    PROVE  Without(k) \in Seq(S)
<1>1. CASE At(k) = {}
  BY <1>1 DEF Without
<1>2. CASE At(k) # {}
  <2>1. At(k) \in SUBSET Nat /\ At(k) \subseteq DOMAIN cache
    BY DEF At
  <2>2. Min(At(k)) \in At(k)
    BY <1>2, <2>1, LeastOf
  <2> QED
    BY <1>2, <2>1, <2>2, RemoveAtType DEF Without
<1> QED
  BY <1>1, <1>2

\* A level is given between no time and as often as there are samples.
LEMMA TimesType ==
    ASSUME NEW S, NEW s \in Seq(S), NEW l
    PROVE  Times(s, l) \in Nat /\ Times(s, l) <= Len(s)
<1>1. Len(s) \in Nat /\ DOMAIN s = 1..Len(s)
  OBVIOUS
<1>2. IsFiniteSet(1..Len(s)) /\ Cardinality(1..Len(s)) = Len(s)
  BY <1>1, FS_Interval
<1>3. {i \in DOMAIN s : s[i].level = l} \in SUBSET (1..Len(s))
  BY <1>1
<1>4. /\ IsFiniteSet({i \in DOMAIN s : s[i].level = l})
      /\ Cardinality({i \in DOMAIN s : s[i].level = l}) <= Len(s)
  BY <1>2, <1>3, FS_Subset
<1> QED
  BY <1>4, FS_CardinalityType DEF Times

\* Samples there are have a level that is given most often, and one of them stands for it.
LEMMA AnchorType ==
    ASSUME NEW S, \A x \in S : x.level \in Nat, NEW s \in Seq(S), s # <<>>
    PROVE  Anchor(s) \in S
<1>1. Len(s) \in Nat /\ 1 \in DOMAIN s /\ DOMAIN s \in SUBSET Nat /\ \A i \in DOMAIN s : s[i] \in S
  OBVIOUS
<1>2. Given(s) \in SUBSET Nat /\ Given(s) # {}
  BY <1>1 DEF Given
<1> DEFINE rest == {Len(s) - Times(s, l) : l \in Given(s)}
           most == {l \in Given(s) : \A k \in Given(s) : Times(s, k) <= Times(s, l)}
<1>3. most # {}
  <2>1. \A l \in Given(s) : Times(s, l) \in Nat /\ Times(s, l) <= Len(s)
    BY TimesType
  <2>2. \A l \in Given(s) : Len(s) - Times(s, l) \in Nat
    BY <1>1, <2>1
  <2>3. rest \in SUBSET Nat /\ rest # {}
    BY <1>2, <2>2
  <2>4. PICK x \in rest : \A y \in rest : ~(<<y, x>> \in OpToRel(<, Nat))
    BY <2>3, NatLessThanWellFounded, WFMin
  <2>5. PICK l \in Given(s) : x = Len(s) - Times(s, l)
    BY <2>4
  <2>6. \A k \in Given(s) : ~(Len(s) - Times(s, k) < Len(s) - Times(s, l))
    BY <2>2, <2>3, <2>4, <2>5 DEF OpToRel
  <2>7. \A k \in Given(s) : Times(s, k) <= Times(s, l)
    BY <1>1, <2>1, <2>6
  <2> QED
    BY <2>7
<1>4. Majority(s) \in Given(s)
  <2>1. most \in SUBSET Nat
    BY <1>2
  <2>2. Min(most) \in most
    BY <1>3, <2>1, LeastOf
  <2> QED
    BY <2>2 DEF Majority
<1> DEFINE I == {i \in DOMAIN s : s[i].level = Majority(s)}
<1>5. I # {} /\ I \in SUBSET Nat
  BY <1>1, <1>4 DEF Given
<1>6. Min(I) \in I
  BY <1>5, LeastOf
<1> QED
  BY <1>1, <1>6 DEF Anchor

\* A verdict takes at least one sample.
LEMMA ThresholdPositive == DoneThreshold \in Nat /\ DoneThreshold >= 1
<1>1. Repeat \in Nat
  BY SamplingAssumption DEF SamplingAssumption
<1> DEFINE half == (Repeat + 1) \div 2
<1>2. half \in Nat
  BY <1>1
<1> HIDE DEF half
<1>3. \E x \in {2, half} : \A y \in {2, half} : x >= y
  BY <1>2
<1>4. Max({2, half}) \in {2, half} /\ Max({2, half}) >= 2
  BY <1>3 DEF Max
<1> QED
  BY <1>2, <1>4 DEF DoneThreshold, half

\* At the start there is no round and the cache is empty.
LEMMA InitSampling == SamplingInit => SamplingInv
<1> SUFFICES ASSUME SamplingInit PROVE SamplingInv
  OBVIOUS
<1>1. /\ \A S : <<>> \in Seq(S)
      /\ NewTask \in SampleRows /\ NewTask.pc = "waiting" /\ NewTask.samples = <<>>
  BY EmptySeq DEF NewTask, SampleRows, TaskRows
<1>2. \A t \in Tasks : task[t] = NewTask /\ t \notin Active /\ ~Judges(task[t])
  BY <1>1 DEF SamplingInit, Active, Judges
<1>3. setting \in [model : Models, on : BOOLEAN] /\ round \in [batch : SUBSET Tasks, on : BOOLEAN]
  BY DEF SamplingInit
<1>4. /\ prompt \in [Tasks -> Prompts] /\ changes \in Nat /\ epoch = 0
      /\ cache \in Seq(FreshEntries) /\ cache = <<>>
  BY <1>1 DEF SamplingInit
<1>5. /\ task \in [Tasks -> SampleRows]
      /\ client \in [Tasks -> [model : Models \cup {NoModel}, on : BOOLEAN, since : Nat]]
      /\ \A t \in Tasks : client[t].since = 0
  BY <1>1 DEF SamplingInit, NoClient
<1>6. \A t \in Tasks : task[t].samples \in Seq(IF Judges(task[t]) THEN OwnSamples(t) ELSE {})
  BY <1>1, <1>2
<1>7. epoch \in Nat /\ \A t \in Tasks : client[t].since <= epoch
  BY <1>4, <1>5
<1> QED
  BY <1>2, <1>3, <1>4, <1>5, <1>6, <1>7 DEF SamplingInv

\* One task moves, and its coroutine with it.
LEMMA OneTaskMoves ==
    ASSUME SamplingInv, UNCHANGED <<prompt, setting, epoch>>,
           NEW t \in Tasks, NEW k \in SampleRows,
           NEW c \in [model : Models \cup {NoModel}, on : BOOLEAN, since : Nat],
           task' = [task EXCEPT ![t] = k], client' = [client EXCEPT ![t] = c],
           changes' \in Nat, round' \in [batch : SUBSET Tasks, on : {round.on}],
           c.since <= epoch, k.pc \in {"claimed", "lookup", "calling"} => c.model \in Models,
           \/ Judges(k) /\ c = client[t] /\ k.samples \in Seq(OwnSamples(t))
           \/ k.samples = <<>>,
           cache' \in Seq(FreshEntries), ~round.on => cache' = <<>>
    PROVE  SamplingInv'
<1>1. /\ task' \in [Tasks -> SampleRows]
      /\ client' \in [Tasks -> [model : Models \cup {NoModel}, on : BOOLEAN, since : Nat]]
  BY DEF SamplingInv
<1>2. \A q \in Tasks : /\ task'[q] = IF q = t THEN k ELSE task[q]
                      /\ client'[q] = IF q = t THEN c ELSE client[q]
  BY DEF SamplingInv
<1>3. ASSUME NEW q \in Tasks
      PROVE  task'[q].samples \in Seq(IF Judges(task'[q]) THEN OwnSamples(q)' ELSE {})
  <2>1. CASE q = t /\ k.samples = <<>>
    <3>1. <<>> \in Seq(OwnSamples(q)') /\ <<>> \in Seq({})
      BY EmptySeq
    <3>2. task'[q].samples = <<>>
      BY <1>2, <2>1
    <3>3. CASE Judges(task'[q])
      BY <3>1, <3>2, <3>3
    <3>4. CASE ~Judges(task'[q])
      BY <3>1, <3>2, <3>4
    <3> QED
      BY <3>3, <3>4
  <2>2. CASE q = t /\ k.samples # <<>>
    <3>1. OwnSamples(q)' = OwnSamples(q)
      BY <1>2, <2>2 DEF OwnSamples
    <3> QED
      BY <1>2, <2>2, <3>1
  <2>3. CASE q # t
    <3>1. OwnSamples(q)' = OwnSamples(q)
      BY <1>2, <2>3 DEF OwnSamples
    <3>2. task[q].samples \in Seq(IF Judges(task[q]) THEN OwnSamples(q) ELSE {})
      BY DEF SamplingInv
    <3> QED
      BY <1>2, <2>3, <3>1, <3>2
  <2> QED
    BY <2>1, <2>2, <2>3
<1>4. ASSUME NEW q \in Tasks
      PROVE  client'[q].since <= epoch' /\ (q \in Active' => client'[q].model \in Models)
  BY <1>2 DEF SamplingInv, Active
<1>5. FreshEntries' = FreshEntries
  BY DEF FreshEntries
<1>6. round' \in [batch : SUBSET Tasks, on : BOOLEAN] /\ round'.on = round.on
  BY DEF SamplingInv
<1> QED
  BY <1>1, <1>3, <1>4, <1>5, <1>6 DEF SamplingInv

\* What a coroutine may count as its own is a sample of the model.
LEMMA OwnIsSample ==
    ASSUME SamplingInv, NEW t \in Active
    PROVE  /\ OwnSamples(t) \subseteq Sample(Prompts, Models)
           /\ \A x \in OwnSamples(t) : x.level \in Nat
           /\ \A s \in Seq(OwnSamples(t)) : s \in Seq(Sample(Prompts, Models))
<1>1. prompt[t] \in Prompts /\ client[t].model \in Models
  BY DEF SamplingInv, Active
<1>2. OwnSamples(t) \subseteq Sample(Prompts, Models)
  BY <1>1 DEF OwnSamples, Sample
<1>3. \A x \in OwnSamples(t) : x.level \in Nat
  BY SamplingAssumption DEF OwnSamples, Sample, SamplingAssumption
<1> QED
  BY <1>2, <1>3

\* Everything in hand of a task that is judged is its own.
LEMMA InRound ==
    ASSUME SamplingInv, NEW t \in Tasks, Judges(task[t])
    PROVE  /\ task[t].samples \in Seq(OwnSamples(t)) /\ task[t] \in SampleRows /\ t \in Active
           /\ client[t].model \in Models /\ client[t].since <= epoch
           /\ client[t] \in [model : Models \cup {NoModel}, on : BOOLEAN, since : Nat]
           /\ client' = client => client' = [client EXCEPT ![t] = client[t]]
           /\ round' = round => round' \in [batch : SUBSET Tasks, on : {round.on}]
           /\ changes' = changes => changes' \in Nat
           /\ cache' = cache => cache' \in Seq(FreshEntries) /\ (~round.on => cache' = <<>>)
<1>1. t \in Active
  BY DEF Active, Judges
<1> QED
  BY <1>1 DEF SamplingInv

\* A task that is asked once more, with one more sample, in either place.
LEMMA MoreOfTask ==
    ASSUME NEW T, NEW x \in TaskRows(T), NEW s \in T
    PROVE  /\ [x EXCEPT !.pc = "lookup", !.asked = x.asked + 1, !.samples = s] \in TaskRows(T)
           /\ [x EXCEPT !.asked = x.asked + 1, !.samples = s] \in TaskRows(T)
           /\ [x EXCEPT !.pc = "lookup", !.asked = x.asked + 1] \in TaskRows(T)
<1> DEFINE n == x.asked + 1
<1>1. n \in Nat
  BY DEF TaskRows
<1> HIDE DEF n
<1>2. ASSUME NEW y \in TaskRows(T)
      PROVE  /\ [y EXCEPT !.samples = s] \in TaskRows(T) /\ [y EXCEPT !.asked = n] \in TaskRows(T)
             /\ [y EXCEPT !.pc = "lookup"] \in TaskRows(T)
  BY <1>1 DEF TaskRows
<1>3. [x EXCEPT !.asked = n, !.samples = s] = [[x EXCEPT !.asked = n] EXCEPT !.samples = s]
  OBVIOUS
<1>4. [x EXCEPT !.pc = "lookup", !.asked = n, !.samples = s]
       = [[[x EXCEPT !.pc = "lookup"] EXCEPT !.asked = n] EXCEPT !.samples = s]
  OBVIOUS
<1>5. [x EXCEPT !.pc = "lookup", !.asked = n] = [[x EXCEPT !.pc = "lookup"] EXCEPT !.asked = n]
  OBVIOUS
<1> QED
  BY <1>2, <1>3, <1>4, <1>5 DEF n

\* A change of the settings is seen by the next round.
LEMMA ChangeSettingKeeps == SamplingInv /\ ChangeSetting => SamplingInv'
<1> SUFFICES ASSUME SamplingInv, ChangeSetting PROVE SamplingInv'
  OBVIOUS
<1>1. UNCHANGED <<prompt, task, client, round, cache, epoch>> /\ changes' = changes + 1
  BY DEF ChangeSetting
<1>2. setting' \in [model : Models, on : BOOLEAN]
  BY DEF ChangeSetting
<1>3. Active' = Active /\ FreshEntries' = FreshEntries /\ \A t \in Tasks : OwnSamples(t)' = OwnSamples(t)
  BY <1>1 DEF Active, FreshEntries, OwnSamples
<1> QED
  BY <1>1, <1>2, <1>3 DEF SamplingInv

\* A round begins beside coroutines of earlier ones: they keep what they have, and those that begin
\* have nothing yet.
LEMMA StartRoundKeeps == SamplingInv /\ StartRound => SamplingInv'
<1> SUFFICES ASSUME SamplingInv, StartRound PROVE SamplingInv'
  OBVIOUS
<1>1. PICK batch \in SUBSET {t \in Tasks : task[t].pc = "waiting"} :
        /\ round' = [batch |-> batch, on |-> setting.on]
        /\ task' = [t \in Tasks |-> IF t \in batch THEN [task[t] EXCEPT !.pc = "claimed"] ELSE task[t]]
        /\ client' = [t \in Tasks |-> IF t \in batch THEN [client[t] EXCEPT !.model = setting.model]
                                      ELSE client[t]]
  BY DEF StartRound
<1>2. /\ UNCHANGED <<prompt, setting, changes>>
      /\ cache' = AfterConfigure(setting.on)
      /\ epoch' = IF round.on /\ ~setting.on THEN epoch + 1 ELSE epoch
  BY DEF StartRound
<1>3. epoch \in Nat /\ epoch' \in Nat /\ epoch <= epoch' /\ round'.on = setting.on
      /\ round' \in [batch : SUBSET Tasks, on : BOOLEAN]
  BY <1>1, <1>2 DEF SamplingInv
<1>4. ASSUME NEW t \in Tasks
      PROVE  /\ task'[t] \in SampleRows
             /\ client'[t] \in [model : Models \cup {NoModel}, on : BOOLEAN, since : Nat]
             /\ client'[t].since <= epoch'
             /\ t \in Active' => client'[t].model \in Models
             /\ task'[t].samples \in Seq(IF Judges(task'[t]) THEN OwnSamples(t)' ELSE {})
  <2>1. /\ task[t] \in SampleRows /\ client[t].since <= epoch /\ client[t].since \in Nat
        /\ client[t] \in [model : Models \cup {NoModel}, on : BOOLEAN, since : Nat]
        /\ (t \in Active => client[t].model \in Models)
        /\ task[t].samples \in Seq(IF Judges(task[t]) THEN OwnSamples(t) ELSE {})
        /\ setting.model \in Models
    BY DEF SamplingInv
  <2>2. CASE t \in batch
    <3>1. task'[t] = [task[t] EXCEPT !.pc = "claimed"] /\ task[t].pc = "waiting"
      BY <1>1, <2>2
    <3>2. client'[t] = [client[t] EXCEPT !.model = setting.model]
      BY <1>1, <2>2
    <3>3. task'[t] \in SampleRows /\ ~Judges(task'[t]) /\ task'[t].samples = task[t].samples
      BY <2>1, <3>1 DEF SampleRows, TaskRows, Judges
    <3>4. task[t].samples \in Seq({})
      BY <2>1, <3>1 DEF Judges
    <3>5. /\ client'[t] \in [model : Models \cup {NoModel}, on : BOOLEAN, since : Nat]
          /\ client'[t].since = client[t].since /\ client'[t].model \in Models
      BY <2>1, <3>2
    <3> QED
      BY <1>3, <2>1, <3>3, <3>4, <3>5
  <2>3. CASE t \notin batch
    <3>1. task'[t] = task[t] /\ client'[t] = client[t]
      BY <1>1, <2>3
    <3>2. t \in Active' => t \in Active
      BY <3>1 DEF Active
    <3>3. OwnSamples(t) \subseteq OwnSamples(t)'
      BY <1>2, <1>3, <3>1 DEF OwnSamples, Sample
    <3>4. task[t].samples \in Seq(IF Judges(task'[t]) THEN OwnSamples(t)' ELSE {})
      BY <2>1, <3>1, <3>3
    <3> QED
      BY <1>3, <2>1, <3>1, <3>2, <3>4
  <2> QED
    BY <2>2, <2>3
<1>5. /\ task' \in [Tasks -> SampleRows]
      /\ client' \in [Tasks -> [model : Models \cup {NoModel}, on : BOOLEAN, since : Nat]]
  <2>1. task' = [t \in Tasks |-> task'[t]] /\ client' = [t \in Tasks |-> client'[t]]
    BY <1>1
  <2> QED
    BY <1>4, <2>1
<1>6. cache' \in Seq(FreshEntries')
  <2>1. CASE round.on /\ ~setting.on
    BY <1>2, <2>1, EmptySeq DEF AfterConfigure
  <2>2. CASE ~(round.on /\ ~setting.on)
    <3>1. FreshEntries' = FreshEntries
      BY <1>2, <2>2 DEF FreshEntries
    <3> QED
      BY <1>2, <2>2, <3>1 DEF AfterConfigure, SamplingInv
  <2> QED
    BY <2>1, <2>2
<1>7. ~round'.on => cache' = <<>>
  BY <1>2, <1>3 DEF AfterConfigure, SamplingInv
<1> QED
  BY <1>2, <1>3, <1>4, <1>5, <1>6, <1>7 DEF SamplingInv

\* The coroutine begins to judge: it reads whether the cache is on.
LEMMA PrepareKeeps == ASSUME SamplingInv, NEW t \in Tasks, Prepare(t) PROVE SamplingInv'
<1> DEFINE k == [task[t] EXCEPT !.pc = "lookup"]
           c == [client[t] EXCEPT !.on = round.on, !.since = epoch]
<1>1. /\ UNCHANGED <<prompt, round, setting, cache, changes, epoch>> /\ task[t].pc = "claimed"
      /\ task' = [task EXCEPT ![t] = k]
      /\ client' = [client EXCEPT ![t] = c]
  BY DEF Prepare, SamplingInv
<1>2. /\ task[t] \in SampleRows /\ t \in Active /\ client[t].model \in Models /\ epoch \in Nat
      /\ client[t] \in [model : Models \cup {NoModel}, on : BOOLEAN, since : Nat]
      /\ task[t].samples \in Seq({}) /\ round.on \in BOOLEAN
  BY <1>1 DEF SamplingInv, Active, Judges
<1>3. k \in SampleRows /\ k.pc = "lookup" /\ k.samples = <<>>
  BY <1>2 DEF SampleRows, TaskRows
<1>4. /\ c \in [model : Models \cup {NoModel}, on : BOOLEAN, since : Nat]
      /\ c.since = epoch /\ c.model \in Models
  BY <1>2
<1>5. /\ round' \in [batch : SUBSET Tasks, on : {round.on}] /\ changes' \in Nat
      /\ cache' \in Seq(FreshEntries) /\ (~round.on => cache' = <<>>)
  BY <1>1 DEF SamplingInv
<1> HIDE DEF k, c
<1>6. UNCHANGED <<prompt, setting, epoch>> /\ c.since <= epoch
  BY <1>1, <1>2, <1>4
<1>7. k.pc \in {"claimed", "lookup", "calling"} => c.model \in Models
  BY <1>4
<1>8. task' = [task EXCEPT ![t] = k] /\ client' = [client EXCEPT ![t] = c]
  BY <1>1
<1> QED
  BY <1>3, <1>4, <1>5, <1>6, <1>7, <1>8, OneTaskMoves

\* An entry that is found answers the question of the task.
LEMMA HitKeeps == ASSUME SamplingInv, NEW t \in Tasks, Hit(t) PROVE SamplingInv'
<1>1. PICK i \in At(Key(t)) :
        /\ cache' = Append(Without(Key(t)), cache[i])
        /\ task' = [task EXCEPT ![t].asked = @ + 1, ![t].samples = Append(@, cache[i].verdict)]
  BY DEF Hit
<1>2. /\ UNCHANGED <<prompt, client, round, setting, changes, epoch>> /\ round.on
      /\ task[t].pc = "lookup" /\ Judges(task[t])
  BY DEF Hit, Asks, UsesCache, Judges
<1>3. cache \in Seq(FreshEntries) /\ i \in DOMAIN cache /\ cache[i].key = Key(t)
  BY <1>1 DEF SamplingInv, At
<1>4. cache[i] \in FreshEntries
  BY <1>3
<1>5. cache' \in Seq(FreshEntries)
  BY <1>1, <1>3, <1>4, WithoutType, AppendProperties
<1> DEFINE v == cache[i].verdict
           k == [task[t] EXCEPT !.asked = task[t].asked + 1, !.samples = Append(task[t].samples, v)]
<1>6. v \in OwnSamples(t)
  <2>1. client[t].since <= epoch /\ client[t].since \in Nat /\ epoch \in Nat
    BY DEF SamplingInv
  <2>2. /\ v \in Sample(Prompts, Models) /\ v.prompt = prompt[t] /\ v.model = client[t].model
        /\ v.epoch <= epoch /\ (v.strayed \/ v.epoch = epoch)
    BY <1>3, <1>4 DEF FreshEntries, Key, KeyOf
  <2> QED
    BY <2>1, <2>2 DEF OwnSamples, Sample
<1>7. task[t].samples \in Seq(OwnSamples(t)) /\ task[t] \in SampleRows /\ t \in Active
  BY <1>2, InRound
<1>8. Append(task[t].samples, v) \in Seq(OwnSamples(t))
  BY <1>6, <1>7, AppendProperties
<1>9. task' = [task EXCEPT ![t] = k]
  BY <1>1, <1>7 DEF SamplingInv, SampleRows, TaskRows
<1>10. /\ k \in SampleRows /\ k.pc = "lookup" /\ k.samples = Append(task[t].samples, v)
  <2>1. Append(task[t].samples, v) \in Seq(Sample(Prompts, Models))
    BY <1>7, <1>8, OwnIsSample
  <2> HIDE DEF v
  <2>2. k \in SampleRows
    BY <1>7, <2>1, MoreOfTask DEF SampleRows
  <2>3. k.pc = "lookup" /\ k.samples = Append(task[t].samples, v)
    BY <1>2, <1>7 DEF SampleRows, TaskRows
  <2> QED
    BY <2>2, <2>3
<1> HIDE DEF k, v
<1> QED
  BY <1>2, <1>5, <1>8, <1>9, <1>10, InRound, OneTaskMoves DEF Judges

\* What is not in the cache is asked.
LEMMA MissKeeps == ASSUME SamplingInv, NEW t \in Tasks, Miss(t) PROVE SamplingInv'
<1> DEFINE k == [task[t] EXCEPT !.pc = "calling"]
<1>1. /\ UNCHANGED <<prompt, client, round, setting, cache, changes, epoch>> /\ task[t].pc = "lookup"
      /\ task' = [task EXCEPT ![t] = k]
  BY DEF Miss, Asks
<1>2. Judges(task[t])
  BY <1>1 DEF Judges
<1>3. task[t].samples \in Seq(OwnSamples(t)) /\ task[t] \in SampleRows
  BY <1>2, InRound
<1>4. k \in SampleRows /\ k.pc = "calling" /\ k.samples = task[t].samples
  BY <1>3 DEF SampleRows, TaskRows
<1> HIDE DEF k
<1> QED
  BY <1>1, <1>2, <1>3, <1>4, InRound, OneTaskMoves DEF Judges

\* An entry that has run out is gone.
LEMMA ExpireKeeps == ASSUME SamplingInv, NEW key, Expire(key) PROVE SamplingInv'
<1>1. /\ UNCHANGED <<prompt, task, client, round, setting, changes, epoch>> /\ cache' = Without(key)
      /\ At(key) # {}
  BY DEF Expire
<1>2. cache' \in Seq(FreshEntries)
  BY <1>1, WithoutType DEF SamplingInv
<1>3. round.on
  BY <1>1 DEF At, SamplingInv
<1>4. Active' = Active /\ FreshEntries' = FreshEntries /\ \A t \in Tasks : OwnSamples(t)' = OwnSamples(t)
  BY <1>1 DEF Active, FreshEntries, OwnSamples
<1> QED
  BY <1>1, <1>2, <1>3, <1>4 DEF SamplingInv

\* A verdict that is given is given for the prompt of the task by its model, now.
LEMMA AnswerKeeps == ASSUME SamplingInv, NEW t \in Tasks, Answer(t) PROVE SamplingInv'
<1>1. UNCHANGED <<prompt, client, round, setting, cache, changes, epoch>> /\ Judges(task[t])
  BY DEF Answer, Judges
<1>2. /\ task[t].samples \in Seq(OwnSamples(t)) /\ task[t] \in SampleRows /\ t \in Active
      /\ client[t].model \in Models /\ client[t].since <= epoch
  BY <1>1, InRound
<1>3. ASSUME NEW l \in Verdicts,
             task' = [task EXCEPT ![t].pc = "lookup", ![t].asked = @ + 1,
                        ![t].samples = Append(@, [level |-> l, prompt |-> prompt[t],
                                                  model |-> client[t].model, epoch |-> epoch,
                                                  strayed |-> FALSE])]
      PROVE  SamplingInv'
  <2> DEFINE v == [level |-> l, prompt |-> prompt[t], model |-> client[t].model, epoch |-> epoch,
                   strayed |-> FALSE]
  <2>1. v \in OwnSamples(t)
    <3>1. epoch \in Nat
      BY DEF SamplingInv
    <3> QED
      BY <1>2, <3>1 DEF OwnSamples, Sample
  <2>2. task' = [task EXCEPT ![t].pc = "lookup", ![t].asked = @ + 1, ![t].samples = Append(@, v)]
    BY <1>3
  <2> HIDE DEF v
  <2>3. PICK s : s = Append(task[t].samples, v)
    OBVIOUS
  <2>4. s \in Seq(OwnSamples(t)) /\ s \in Seq(Sample(Prompts, Models))
    BY <1>2, <2>1, <2>3, AppendProperties, OwnIsSample
  <2> DEFINE k == [task[t] EXCEPT !.pc = "lookup", !.asked = task[t].asked + 1, !.samples = s]
  <2>5. task' = [task EXCEPT ![t] = k]
    BY <1>2, <2>2, <2>3 DEF SamplingInv, SampleRows, TaskRows
  <2>6. k \in SampleRows
    BY <1>2, <2>4, MoreOfTask DEF SampleRows
  <2>7. k.pc = "lookup" /\ k.samples = s
    BY <1>2 DEF SampleRows, TaskRows
  <2> HIDE DEF k
  <2> QED
    BY <1>1, <2>4, <2>5, <2>6, <2>7, InRound, OneTaskMoves DEF Judges
<1>4. ASSUME task' = [task EXCEPT ![t].pc = "lookup", ![t].asked = @ + 1]
      PROVE  SamplingInv'
  <2> DEFINE k == [task[t] EXCEPT !.pc = "lookup", !.asked = task[t].asked + 1]
  <2>1. task' = [task EXCEPT ![t] = k]
    BY <1>2, <1>4 DEF SamplingInv, SampleRows, TaskRows
  <2>2. k \in SampleRows
    <3>1. task[t].samples \in Seq(Sample(Prompts, Models))
      BY <1>2 DEF SampleRows, TaskRows
    <3> QED
      BY <1>2, <3>1, MoreOfTask DEF SampleRows
  <2>3. k.pc = "lookup" /\ k.samples = task[t].samples
    BY <1>2 DEF SampleRows, TaskRows
  <2> HIDE DEF k
  <2> QED
    BY <1>1, <1>2, <2>1, <2>2, <2>3, InRound, OneTaskMoves DEF Judges
<1> QED
  BY <1>3, <1>4 DEF Answer

\* What is stored is one of the samples, under the question it was given for, and strayed if the
\* coroutine did.
LEMMA StoreKeeps ==
    ASSUME SamplingInv, NEW t \in Tasks, Over(t), Enough(t), Store(t)
    PROVE  cache' \in Seq(FreshEntries) /\ (~round.on => cache' = <<>>)
<1> DEFINE s == task[t].samples
           e == EntryOf(t)
<1>1. /\ Judges(task[t]) /\ Len(s) >= DoneThreshold
      /\ cache' = IF UsesCache(t) THEN Trimmed(Append(Without(Key(t)), e)) ELSE cache
  BY DEF Over, Enough, Store, Judges
<1>2. /\ s \in Seq(OwnSamples(t)) /\ t \in Active /\ client[t].model \in Models
      /\ client[t].since <= epoch
  BY <1>1, InRound
<1>3. s # <<>>
  <2>1. Len(s) \in Nat
    BY <1>2
  <2>2. Len(s) # 0
    BY <1>1, <2>1, ThresholdPositive
  <2> QED
    BY <2>2
<1>4. Anchor(s) \in OwnSamples(t)
  BY <1>2, <1>3, OwnIsSample, AnchorType
<1>5. e \in FreshEntries
  <2>1. prompt[t] \in Prompts /\ client[t].since \in Nat /\ epoch \in Nat
    BY DEF SamplingInv
  <2>2. PICK v : v = Anchor(s)
    OBVIOUS
  <2>3. /\ v \in Sample({prompt[t]}, {client[t].model})
        /\ v.epoch <= epoch /\ (v.strayed \/ v.epoch >= client[t].since)
    BY <1>4, <2>2 DEF OwnSamples
  <2>4. PICK w : w = [v EXCEPT !.strayed = v.strayed \/ client[t].since # epoch]
    OBVIOUS
  <2>5. /\ w \in Sample(Prompts, Models) /\ w.prompt = prompt[t] /\ w.model = client[t].model
        /\ w.epoch = v.epoch /\ w.strayed = (v.strayed \/ client[t].since # epoch)
    BY <1>2, <2>1, <2>3, <2>4 DEF Sample
  <2>6. w.epoch <= epoch /\ (w.strayed \/ w.epoch = epoch)
    BY <1>2, <2>1, <2>3, <2>5 DEF Sample
  <2>7. e = [key |-> Key(t), verdict |-> w]
    BY <2>2, <2>4 DEF EntryOf
  <2> QED
    BY <1>2, <2>1, <2>5, <2>6, <2>7 DEF FreshEntries, Key, KeyOf
<1> HIDE DEF e
<1>6. cache \in Seq(FreshEntries) /\ (~round.on => cache = <<>>)
  BY DEF SamplingInv
<1>7. Trimmed(Append(Without(Key(t)), e)) \in Seq(FreshEntries)
  <2>1. PICK b : b = Append(Without(Key(t)), e)
    OBVIOUS
  <2>2. b \in Seq(FreshEntries) /\ b # <<>>
    <3>1. Without(Key(t)) \in Seq(FreshEntries)
      BY <1>6, WithoutType
    <3>2. b \in Seq(FreshEntries)
      BY <1>5, <2>1, <3>1, AppendProperties
    <3>3. Len(b) = Len(Without(Key(t))) + 1 /\ Len(Without(Key(t))) \in Nat
      BY <1>5, <2>1, <3>1, AppendProperties
    <3> QED
      BY <3>2, <3>3
  <2>3. Tail(b) \in Seq(FreshEntries)
    BY <2>2, HeadTailProperties
  <2> QED
    BY <2>1, <2>2, <2>3 DEF Trimmed
<1> QED
  BY <1>1, <1>6, <1>7 DEF UsesCache

\* A coroutine that is over leaves a row without samples.
LEMMA LeavesKeeps ==
    ASSUME SamplingInv, NEW t \in Tasks, NEW row \in SampleRows, row.samples = <<>>,
           row.pc \in {"waiting", "done", "failed"}, NEW awaited \in SUBSET Tasks,
           Leaves(t, row, awaited), UNCHANGED <<prompt, setting, epoch>>, changes' \in Nat,
           cache' \in Seq(FreshEntries), ~round.on => cache' = <<>>
    PROVE  SamplingInv'
<1>1. /\ NoClient \in [model : Models \cup {NoModel}, on : BOOLEAN, since : Nat]
      /\ NoClient.since = 0
  BY DEF NoClient
<1>2. epoch \in Nat /\ NoClient.since <= epoch
  BY <1>1 DEF SamplingInv
<1>3. /\ task' = [task EXCEPT ![t] = row] /\ client' = [client EXCEPT ![t] = NoClient]
      /\ round' \in [batch : SUBSET Tasks, on : {round.on}]
  BY DEF Leaves, SamplingInv
<1> QED
  BY <1>1, <1>2, <1>3, OneTaskMoves

\* The rows a coroutine may leave.
LEMMA RowsLeft ==
    ASSUME SamplingInv, NEW t \in Tasks
    PROVE  /\ [NewTask EXCEPT !.pc = "done"] \in SampleRows
           /\ [NewTask EXCEPT !.pc = "failed"] \in SampleRows
           /\ [NewTask EXCEPT !.attempts = task[t].attempts + 1] \in SampleRows
           /\ [NewTask EXCEPT !.attempts = task[t].attempts] \in SampleRows
           /\ round.batch \ {t} \in SUBSET Tasks /\ round.batch \in SUBSET Tasks
           /\ changes \in Nat /\ cache \in Seq(FreshEntries) /\ (~round.on => cache = <<>>)
<1>1. task[t].attempts \in Nat
  BY DEF SamplingInv, SampleRows, TaskRows
<1>2. NewTask \in SampleRows
  <2>1. <<>> \in Seq(Sample(Prompts, Models))
    BY EmptySeq
  <2> QED
    BY <2>1 DEF NewTask, SampleRows, TaskRows
<1>3. PICK n : n = task[t].attempts + 1
  OBVIOUS
<1>4. n \in Nat
  BY <1>1, <1>3
<1>5. \A m \in Nat : [NewTask EXCEPT !.attempts = m] \in SampleRows
  BY <1>2 DEF SampleRows, TaskRows
<1>6. /\ [NewTask EXCEPT !.pc = "done"] \in SampleRows
      /\ [NewTask EXCEPT !.pc = "failed"] \in SampleRows
  BY <1>2 DEF SampleRows, TaskRows
<1>7. /\ round.batch \ {t} \in SUBSET Tasks /\ round.batch \in SUBSET Tasks
      /\ changes \in Nat /\ cache \in Seq(FreshEntries) /\ (~round.on => cache = <<>>)
  BY DEF SamplingInv
<1> QED
  BY <1>1, <1>3, <1>4, <1>5, <1>6, <1>7

\* A task is done, and its verdict is stored.
LEMMA DoneKeeps == ASSUME SamplingInv, NEW t \in Tasks, Done(t) PROVE SamplingInv'
<1>1. /\ Leaves(t, [NewTask EXCEPT !.pc = "done"], round.batch \ {t})
      /\ UNCHANGED <<prompt, setting, changes, epoch>>
      /\ cache' \in Seq(FreshEntries) /\ (~round.on => cache' = <<>>)
  BY StoreKeeps DEF Done
<1>2. [NewTask EXCEPT !.pc = "done"].samples = <<>> /\ [NewTask EXCEPT !.pc = "done"].pc = "done"
  BY DEF NewTask
<1>3. changes' \in Nat
  BY <1>1, RowsLeft
<1> QED
  BY <1>1, <1>2, <1>3, RowsLeft, LeavesKeeps

\* Another attempt starts from nothing.
LEMMA RetryKeeps == ASSUME SamplingInv, NEW t \in Tasks, Retry(t) PROVE SamplingInv'
<1>1. PICK hopeless \in {task[t].attempts + 1 >= MaxRetries, TRUE} :
        Leaves(t, IF hopeless THEN [NewTask EXCEPT !.pc = "failed"]
                  ELSE [NewTask EXCEPT !.attempts = task[t].attempts + 1], round.batch \ {t})
  BY DEF Retry
<1> DEFINE k == IF hopeless THEN [NewTask EXCEPT !.pc = "failed"]
                ELSE [NewTask EXCEPT !.attempts = task[t].attempts + 1]
<1>2. k \in SampleRows
  BY RowsLeft
<1>3. k.samples = <<>> /\ k.pc \in {"waiting", "failed"}
  BY DEF NewTask
<1>4. Leaves(t, k, round.batch \ {t})
  BY <1>1
<1> HIDE DEF k
<1>5. UNCHANGED <<prompt, setting, cache, changes, epoch>>
  BY DEF Retry
<1>6. changes' \in Nat /\ cache' \in Seq(FreshEntries) /\ (~round.on => cache' = <<>>)
  BY <1>5, RowsLeft
<1> QED
  BY <1>2, <1>3, <1>4, <1>5, <1>6, RowsLeft, LeavesKeeps

\* What was stored before the database failed was stored well.
LEMMA DatabaseFailsKeeps == ASSUME SamplingInv, NEW t \in Tasks, DatabaseFails(t) PROVE SamplingInv'
<1> DEFINE k == [NewTask EXCEPT !.attempts = task[t].attempts]
           awaited == IF t \in round.batch THEN {} ELSE round.batch
<1>1. Leaves(t, k, awaited) /\ UNCHANGED <<prompt, setting, epoch>> /\ changes' = changes + 1
  BY DEF DatabaseFails
<1>2. cache' \in Seq(FreshEntries) /\ (~round.on => cache' = <<>>)
  <2>1. cache' = cache \/ (Over(t) /\ Enough(t) /\ Store(t))
    BY DEF DatabaseFails
  <2> QED
    BY <2>1, RowsLeft, StoreKeeps
<1>3. k \in SampleRows /\ awaited \in SUBSET Tasks /\ changes' \in Nat
  <2>1. k \in SampleRows /\ awaited \in SUBSET Tasks
    BY RowsLeft
  <2>2. changes \in Nat
    BY RowsLeft
  <2> QED
    BY <1>1, <2>1, <2>2
<1>4. k.samples = <<>> /\ k.pc = "waiting"
  BY DEF NewTask
<1> HIDE DEF k, awaited
<1> QED
  BY <1>1, <1>2, <1>3, <1>4, LeavesKeeps

\* Every step of the judge, of its settings, of its clock and of its database keeps the invariant.
LEMMA StepSampling == SamplingInv /\ [SamplingNext]_samplingVars => SamplingInv'
<1> SUFFICES ASSUME SamplingInv, [SamplingNext]_samplingVars PROVE SamplingInv'
  OBVIOUS
<1>1. CASE UNCHANGED samplingVars
  <2>1. Active' = Active /\ FreshEntries' = FreshEntries /\ \A t \in Tasks : OwnSamples(t)' = OwnSamples(t)
    BY <1>1 DEF samplingVars, Active, FreshEntries, OwnSamples
  <2> QED
    BY <1>1, <2>1 DEF samplingVars, SamplingInv
<1> QED
  BY <1>1, ChangeSettingKeeps, StartRoundKeeps, ExpireKeeps, PrepareKeeps, HitKeeps, MissKeeps,
     AnswerKeeps, DoneKeeps, RetryKeeps, DatabaseFailsKeeps DEF SamplingNext

\* Verdicts are shared only where asking again would have been the same question (verdict_cache.py,
\* worker.py _process_one): whatever the settings, and however many coroutines of rounds that ended
\* early go on beside the present one, the samples of a task that is judged were given for its
\* prompt by its model, and none but a strayed one before the clearing its cache_on was read after.
\* The majority that is stored is one of the samples and keeps what it was given for, and the switch
\* clears the cache.
THEOREM SharedVerdictsAreSound ==
    SamplingInit /\ [][SamplingNext]_samplingVars => []ReuseIsSound
<1>1. SamplingInv => ReuseIsSound
  <2> SUFFICES ASSUME SamplingInv, NEW t \in Active, NEW i \in DOMAIN task[t].samples
               PROVE  LET s == task[t].samples[i] IN
                      /\ s.prompt = prompt[t] /\ s.model = client[t].model
                      /\ s.strayed \/ s.epoch >= client[t].since
    BY DEF ReuseIsSound
  <2>1. t \in Tasks /\ task[t].samples \in Seq(IF Judges(task[t]) THEN OwnSamples(t) ELSE {})
    BY DEF SamplingInv, Active
  <2>2. task[t].samples[i] \in OwnSamples(t)
    BY <2>1
  <2> QED
    BY <2>2 DEF OwnSamples, Sample
<1> QED
  BY <1>1, InitSampling, StepSampling, PTL

-----------------------------------------------------------------------------
(* AdapterWiring.                                                          *)

Known == Contracts \cup Offered
Forms == [open : {TRUE}, contract : Known, manifest : Known \cup {NoManifest}, rewritten : BOOLEAN]

\* What a form or the column holds of a manifest is the configuration, until a person changed that.
Belongs(manifest, rewritten, contract) == manifest # NoManifest /\ ~rewritten => contract = manifest

WiringInv ==
    /\ call \in [contract : Known, input : Inputs, auth : Secrets, answers : Answers]
    /\ kept \in [manifest : Known \cup {NoManifest}, rewritten : BOOLEAN, form : {NoForm} \cup Forms]
    /\ Belongs(kept.manifest, kept.rewritten, call.contract)
    /\ kept.form.open => Belongs(kept.form.manifest, kept.form.rewritten, kept.form.contract)

\* An agent that was configured by hand has no manifest (create_agent).
LEMMA InitWiring == WiringInit => WiringInv
<1> SUFFICES ASSUME WiringInit PROVE WiringInv
  OBVIOUS
<1>1. call \in [contract : Known, input : Inputs, auth : Secrets, answers : Answers]
  BY DEF WiringInit, Known
<1>2. kept = [manifest |-> NoManifest, rewritten |-> FALSE, form |-> NoForm]
  BY DEF WiringInit
<1>3. ~NoForm.open
  BY DEF NoForm
<1> QED
  BY <1>1, <1>2, <1>3 DEF WiringInv, Belongs

\* A confirmation replaces both at once, a form is what was there, and what it is saved as is a
\* change by a person unless the templates are the ones it was opened with (confirm_adapter,
\* update_agent).
LEMMA StepWiring == WiringInv /\ [WiringNext]_wiringVars => WiringInv'
<1> SUFFICES ASSUME WiringInv, [WiringNext]_wiringVars PROVE WiringInv'
  OBVIOUS
<1>1. CASE NextCase
  <2>1. PICK input \in Inputs : call' = [call EXCEPT !.input = input] /\ kept' = kept
    BY <1>1 DEF NextCase
  <2>2. /\ call' \in [contract : Known, input : Inputs, auth : Secrets, answers : Answers]
        /\ call'.contract = call.contract
    BY <2>1 DEF WiringInv
  <2> QED
    BY <2>1, <2>2 DEF WiringInv, Belongs
<1>2. CASE ConfirmAdapter
  <2>1. PICK c \in Offered : /\ call' = [call EXCEPT !.contract = c]
                             /\ kept' = [kept EXCEPT !.manifest = c, !.rewritten = FALSE]
    BY <1>2 DEF ConfirmAdapter
  <2>2. /\ call' \in [contract : Known, input : Inputs, auth : Secrets, answers : Answers]
        /\ call'.contract = c
    BY <2>1 DEF WiringInv, Known
  <2>3. /\ kept' \in [manifest : Known \cup {NoManifest}, rewritten : BOOLEAN, form : {NoForm} \cup Forms]
        /\ kept'.manifest = c /\ kept'.form = kept.form
    BY <2>1 DEF WiringInv, Known
  <2> QED
    BY <2>2, <2>3 DEF WiringInv, Belongs
<1>3. CASE OpenForm
  <2> DEFINE opened == [open |-> TRUE, contract |-> call.contract,
                        manifest |-> kept.manifest, rewritten |-> kept.rewritten]
  <2>1. kept' = [kept EXCEPT !.form = opened] /\ call' = call
    BY <1>3 DEF OpenForm
  <2>2. opened \in Forms
    BY DEF WiringInv, Forms
  <2>3. /\ kept' \in [manifest : Known \cup {NoManifest}, rewritten : BOOLEAN, form : {NoForm} \cup Forms]
        /\ kept'.manifest = kept.manifest /\ kept'.rewritten = kept.rewritten /\ kept'.form = opened
    BY <2>1, <2>2 DEF WiringInv
  <2> QED
    BY <2>1, <2>3 DEF WiringInv, Belongs
<1>4. CASE UpdateAgent
  <2>1. kept.form.open
    BY <1>4 DEF UpdateAgent
  <2>2. kept.form \in Forms
    BY <2>1 DEF WiringInv, NoForm
  <2>3. PICK c \in Offered \cup {kept.form.contract}, m \in {kept.form.manifest, NoManifest} :
          /\ call' = [call EXCEPT !.contract = c]
          /\ kept' = [manifest |-> m, form |-> NoForm,
                      rewritten |-> kept.form.rewritten \/ c # kept.form.contract]
    BY <1>4 DEF UpdateAgent
  <2>4. c \in Known /\ m \in Known \cup {NoManifest}
    BY <2>2, <2>3 DEF Forms, Known
  <2>5. /\ call' \in [contract : Known, input : Inputs, auth : Secrets, answers : Answers]
        /\ call'.contract = c
    BY <2>3, <2>4 DEF WiringInv
  <2>6. kept' \in [manifest : Known \cup {NoManifest}, rewritten : BOOLEAN, form : {NoForm} \cup Forms]
    BY <2>3, <2>4
  <2>7. Belongs(kept'.manifest, kept'.rewritten, call'.contract)
    BY <2>1, <2>3, <2>5 DEF WiringInv, Belongs
  <2>8. ~kept'.form.open
    BY <2>3 DEF NoForm
  <2> QED
    BY <2>5, <2>6, <2>7, <2>8 DEF WiringInv, Belongs
<1>5. CASE UNCHANGED wiringVars
  BY <1>5 DEF WiringInv, wiringVars, Belongs
<1> QED
  BY <1>1, <1>2, <1>3, <1>4, <1>5 DEF WiringNext

\* A placeholder is only left where the case lacks the input field or the credential it names
\* (engine.py render_template).
LEMMA UnresolvedIs ==
    ASSUME NEW n, NEW template, NEW ref \in Left(template, n)
    PROVE  /\ ref \in template
           /\ ref.domain = "input" => ref.path \notin call.input
           /\ ref.domain = "auth" => ref.field \notin call.auth
BY DEF Left, Resolves

\* What is left of the request or of a step is part of the contract (engine.py prepare,
\* build_request).
LEMMA LeftIsPart ==
    /\ LeftInRequest \subseteq Left(call.contract.request, Len(call.contract.steps))
    /\ \A ref \in LeftInSteps : \E i \in DOMAIN call.contract.steps :
            ref \in Left(call.contract.steps[i].uses, i - 1)
    /\ LeftInSteps \cup LeftInRequest \subseteq CollectRefs(call.contract)
<1>1. LeftInRequest \subseteq Left(call.contract.request, Len(call.contract.steps))
  BY DEF LeftInRequest
<1>2. \A ref \in LeftInSteps : \E i \in DOMAIN call.contract.steps :
          ref \in Left(call.contract.steps[i].uses, i - 1)
  BY DEF LeftInSteps, StepsRun
<1> QED
  BY <1>1, <1>2 DEF Left, CollectRefs, StepRefs

\* The path of every field of the manifest is a path of the skeleton, and one that no plain value
\* of the sample hides (skeleton.py _unpack_fields, _merge_input).
LEMMA SkeletonWires ==
    ASSUME NEW c \in Known, Fills(c) PROVE Wired(c, Skeleton(c, call.input))
<1>1. InputRefs(c) # {}
  BY DEF Fills, InputFields, InputRefs
<1>2. ASSUME NEW f \in InputFields(c) PROVE f \in Skeleton(c, call.input)
  <2>1. f \in Seq(STRING) /\ f # <<>>
    BY WiringAssumption DEF Known, Fills
  <2>2. Len(f) \in 1..Len(f) /\ SubSeq(f, 1, Len(f)) = f
    BY <2>1
  <2>3. f \in UnpackFields(InputFields(c))
    <3>1. f \in {SubSeq(f, 1, n) : n \in 1..Len(f)}
      BY <2>2
    <3> QED
      BY <3>1 DEF UnpackFields
  <2>4. ~\E q \in Plain(call.input) : Leads(q, f)
    BY DEF Fills
  <2> QED
    BY <2>3, <2>4 DEF Skeleton, MergeInput
<1>3. \A ref \in InputRefs(c) : ref.path \in InputFields(c)
  BY DEF InputRefs, InputFields
<1> QED
  BY <1>1, <1>2, <1>3 DEF Wired

\* The check of a pulled case looks at every template, so that what it lets through is resolved in
\* all that is rendered of the steps and the request (engine.py check_input_wiring).
LEMMA WiredIsRendered == WiringInv => WiringIsRendering
<1> SUFFICES ASSUME WiringInv, Wired(call.contract, call.input) PROVE
        /\ \A ref \in LeftInSteps \cup LeftInRequest : ref.domain # "input"
        /\ /\ RequestSent
           /\ InputRefs(call.contract) \cap (call.contract.unsent \cup PathRefs(call.contract)) = {}
           => \/ \E ref \in call.contract.request : Filled(ref)
              \/ \E i \in StepsRun : \E ref \in call.contract.steps[i].uses : Filled(ref)
  BY DEF WiringIsRendering
<1>1. ASSUME NEW ref \in LeftInSteps \cup LeftInRequest, ref.domain = "input" PROVE FALSE
  <2>1. ref.path \notin call.input
    BY <1>1, LeftIsPart, UnresolvedIs
  <2>2. ref \in InputRefs(call.contract)
    BY <1>1, LeftIsPart DEF InputRefs
  <2> QED
    BY <2>1, <2>2 DEF Wired
<1>2. PICK ref \in InputRefs(call.contract) : Filled(ref) /\ ref \in CollectRefs(call.contract)
  BY DEF Wired, InputRefs, Filled
<1>3. ASSUME RequestSent,
             InputRefs(call.contract) \cap (call.contract.unsent \cup PathRefs(call.contract)) = {}
      PROVE  \/ \E r \in call.contract.request : Filled(r)
             \/ \E i \in StepsRun : \E r \in call.contract.steps[i].uses : Filled(r)
  <2>1. ref \in call.contract.request \cup StepRefs(call.contract)
    BY <1>2, <1>3 DEF CollectRefs
  <2>2. CASE ref \in call.contract.request
    BY <1>2, <2>2
  <2>3. CASE ref \in StepRefs(call.contract)
    <3>1. PICK i \in DOMAIN call.contract.steps : ref \in call.contract.steps[i].uses
      BY <2>3 DEF StepRefs
    <3>2. DOMAIN call.contract.steps = 1..Len(call.contract.steps) /\ Len(call.contract.steps) \in Nat
      BY WiringAssumption DEF WiringInv, Known
    <3>3. \A j \in 1..(i - 1) : j \in DOMAIN call.contract.steps
      BY <3>1, <3>2
    <3>4. i \in StepsRun
      BY <1>3, <3>1, <3>3 DEF StepsRun, RequestSent
    <3> QED
      BY <1>2, <3>1, <3>4
  <2> QED
    BY <2>1, <2>2, <2>3
<1> QED
  BY <1>1, <1>3

\* What an accepted manifest lists is all its templates need: a product that is missing from the
\* request leads into a value of the agent, all steps having run (contracts_v2.py _validate_refs).
LEMMA DraftIsComplete == WiringInv => DraftTellsItsNeeds
<1> SUFFICES ASSUME WiringInv, Accepted(call.contract), InputFields(call.contract) \subseteq call.input,
                    \A ref \in CollectRefs(call.contract) : ref.domain = "auth" => ref.field \in call.auth
             PROVE  /\ \A ref \in LeftInRequest : ref.domain = "prepare" /\ ref.deep
                    /\ \A ref \in LeftInSteps : ref.domain = "prepare"
                    /\ ~RequiresAuth(call.contract) => \A ref \in LeftInSteps : ref.domain # "auth"
  BY DEF DraftTellsItsNeeds
<1>1. call.contract \in Known
  BY DEF WiringInv
<1>2. ASSUME NEW ref \in LeftInSteps \cup LeftInRequest PROVE ref.domain = "prepare"
  <2>1. ref \in CollectRefs(call.contract)
    BY <1>2, LeftIsPart
  <2>2. ref.domain \in Domains
    BY <1>1, <2>1, WiringAssumption DEF Known
  <2>3. ref.domain # "other"
    BY <2>1 DEF Accepted, BadRef
  <2>4. ref.domain # "input"
    BY <2>1, LeftIsPart, UnresolvedIs DEF InputFields
  <2>5. ref.domain # "auth"
    BY <2>1, LeftIsPart, UnresolvedIs
  <2> QED
    BY <2>2, <2>3, <2>4, <2>5 DEF Domains
<1>3. ASSUME NEW ref \in LeftInRequest PROVE ref.deep
  <2>1. ref.domain = "prepare" /\ ref \in CollectRefs(call.contract)
    BY <1>2, LeftIsPart
  <2>2. ref.field \in Extracts(call.contract, ref.step)
    BY <2>1 DEF Accepted, BadRef
  <2>3. PICK i \in DOMAIN call.contract.steps :
            call.contract.steps[i].name = ref.step /\ ref.field \in DOMAIN call.contract.steps[i].extract
    BY <2>2 DEF Extracts
  <2>4. i \in 1..Len(call.contract.steps)
    BY <1>1, WiringAssumption DEF Known
  <2>5. ref.field \in Product(i)
    BY <2>3 DEF Product
  <2>6. ~Resolves(ref, Len(call.contract.steps))
    BY LeftIsPart DEF Left
  <2> QED
    BY <2>1, <2>3, <2>4, <2>5, <2>6 DEF Resolves
<1> QED
  BY <1>2, <1>3

\* What the checks of templates let through, rendering resolves where the code renders, which is
\* everywhere but in the path of an ordinary step (engine.py, contracts_v2.py, skeleton.py,
\* scaffold.py, agents.py): for any contracts, inputs, credentials and answers, and whatever forms
\* are saved over a confirmation. The check of a pulled case covers every template;
\* a manifest is accepted only with references to declared products; the skeleton holds the path
\* of every field; and the manifest that is kept is the configuration until a person changes it.
THEOREM CheckedIsRendered ==
    WiringInit /\ [][WiringNext]_wiringVars => []TemplatesAreFilled
<1>1. WiringInv => TemplatesAreFilled
  <2> SUFFICES ASSUME WiringInv PROVE TemplatesAreFilled
    OBVIOUS
  <2>1. SkeletonIsWired
    BY SkeletonWires DEF SkeletonIsWired, WiringInv
  <2>2. KeptIsInForce
    <3> SUFFICES ASSUME kept.manifest # NoManifest, ~kept.rewritten, Fills(kept.manifest)
                 PROVE  Wired(call.contract, Skeleton(kept.manifest, call.input))
      BY DEF KeptIsInForce
    <3>1. call.contract = kept.manifest /\ call.contract \in Known
      BY DEF WiringInv, Belongs
    <3> QED
      BY <3>1, SkeletonWires
  <2> QED
    BY <2>1, <2>2, WiredIsRendered, DraftIsComplete DEF TemplatesAreFilled
<1> QED
  BY <1>1, InitWiring, StepWiring, PTL
============================================================================
