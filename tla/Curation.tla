------------------------------- MODULE Curation -------------------------------
(***************************************************************************)
(* What people enter about a case and about an agent, each by requests     *)
(* that read, decide and write in one transaction whose plain reads see    *)
(* the database as it was when the transaction began: the annotations of   *)
(* a case, whose status is computed anew by every request, and one target  *)
(* score, which two people sign. A person sends one request at a time.     *)
(***************************************************************************)
EXTENDS Naturals, FiniteSets, FiniteSetsExt

CONSTANTS
    People, Admins,
    Dims,      \* dimension codes
    Levels,    \* levels given, and scores targeted
    NoLevel,   \* an annotation without a level
    Nobody,
    MaxWrites  \* bound: requests per person and kind

ASSUME CurationAssumption ==
    /\ Admins \subseteq People /\ Nobody \notin People /\ NoLevel \notin Levels
    /\ MaxWrites \in Nat

VARIABLES
    notes,     \* case_annotation: (person, dimension) -> level; the key is unique
    status,    \* test_case.annotation_status
    target,    \* the baseline_target row, or NoTarget
    request,   \* the transaction each person has open
    sent

curationVars == <<notes, status, target, request, sent>>

NoRequest == [kind |-> "none"]
NoTarget == [state |-> "none", score |-> NoLevel, by1 |-> Nobody, by2 |-> Nobody]
Seeded(s) == [NoTarget EXCEPT !.state = "auto", !.score = s]
-----------------------------------------------------------------------------
\* recalc_annotation_status over rows: a dimension of one annotator alone cannot be disputed.
By(rows, d) == {k[1] : k \in {l \in DOMAIN rows : l[2] = d}}
LevelsOf(rows, d) == {rows[<<p, d>>] : p \in By(rows, d)} \ {NoLevel}
Alone(rows, d) == Cardinality(By(rows, d)) = 1
Disputed(rows, d) == Cardinality(By(rows, d)) > 1 /\ Cardinality(LevelsOf(rows, d)) > 1
Recalculated(rows) ==
    LET dims == {k[2] : k \in DOMAIN rows} IN
    IF rows = <<>> THEN "draft"
    ELSE IF \E d \in dims : Disputed(rows, d) THEN "disputed"
    ELSE IF \E d \in dims : Alone(rows, d) THEN "single"
    ELSE IF \A k \in DOMAIN rows : rows[k] # NoLevel THEN "consensus"
    ELSE "double"

Upsert(rows, k, x) == [l \in DOMAIN rows \cup {k} |-> IF l = k THEN x ELSE rows[l]]
-----------------------------------------------------------------------------
CurationInit ==
    /\ notes = <<>> /\ status = "draft"
    /\ target \in {NoTarget} \cup {Seeded(s) : s \in Levels}
    /\ request = [p \in People |-> NoRequest]
    /\ sent = [p \in People |-> [annotate |-> 0, sign |-> 0]]

Begins(p, kind, req) ==
    /\ request[p] = NoRequest /\ sent[p][kind] < MaxWrites
    /\ sent' = [sent EXCEPT ![p][kind] = @ + 1]
    /\ request' = [q \in People |->
                    IF q = p THEN req
                    ELSE IF request[q].kind = kind THEN [request[q] EXCEPT !.undisturbed = FALSE]
                    ELSE request[q]]
    /\ UNCHANGED <<notes, status, target>>
Undisturbed(kind) == \A q \in People : request[q].kind # kind

\* POST /annotations/cases/{id}: the snapshot the whole request works on.
BeginAnnotation(p) == \E d \in Dims, x \in Levels \cup {NoLevel} :
    Begins(p, "annotate", [kind |-> "annotate", dim |-> d, level |-> x, rows |-> notes,
                           status |-> status, undisturbed |-> Undisturbed("annotate")])

\* Mutation: the new row is not flushed before the rows are read.
StatusBefore(p) == Recalculated(request[p].rows)

\* The query after db.add flushes the new row, so it is among the rows; the status is written
\* when it differs from the one loaded.
StatusOf(p) == Recalculated(Upsert(request[p].rows, <<p, request[p].dim>>, request[p].level))
CommitAnnotation(p) ==
    /\ request[p].kind = "annotate"
    /\ notes' = Upsert(notes, <<p, request[p].dim>>, request[p].level)
    /\ status' = IF StatusOf(p) # request[p].status THEN StatusOf(p) ELSE status
    /\ request' = [request EXCEPT ![p] = NoRequest]
    /\ UNCHANGED <<target, sent>>

\* PUT /agents/{id}/interfaces/{iid}/targets for one dimension.
Refused(p, row) == row.state = "approved" /\ p \notin Admins
BeginSigning(p) == \E s \in Levels :
    /\ ~Refused(p, target)
    /\ Begins(p, "sign", [kind |-> "sign", score |-> s, row |-> target,
                          undisturbed |-> Undisturbed("sign")])

\* Mutation: a first signer who comes again counts as the second.
NobodySigned(p, row) == row.by1 = Nobody

FirstSigner(p, row) == row.by1 \in {Nobody, p}
Signed(p, row, s) ==
    IF FirstSigner(p, row)
    THEN [row EXCEPT !.score = s, !.by1 = p, !.state = "pending_approval"]
    ELSE [row EXCEPT !.score = s, !.by2 = p, !.state = "approved"]

\* The mapper writes the columns whose value differs from the one loaded, into whatever row there
\* is by then; two inserts of the same key fail the second.
CommitSigning(p) ==
    /\ request[p].kind = "sign"
    /\ LET old == request[p].row
           new == Signed(p, old, request[p].score)
       IN  target' = IF old # NoTarget
                     THEN [f \in DOMAIN old |-> IF new[f] # old[f] THEN new[f] ELSE target[f]]
                     ELSE IF target = NoTarget THEN new ELSE target
    /\ request' = [request EXCEPT ![p] = NoRequest]
    /\ UNCHANGED <<notes, status, sent>>

\* An exception, a lost connection, a restart: the transaction is rolled back.
Abort(p) ==
    /\ request[p] # NoRequest
    /\ request' = [request EXCEPT ![p] = NoRequest]
    /\ UNCHANGED <<notes, status, target, sent>>

CurationNext == \E p \in People :
    \/ BeginAnnotation(p) \/ CommitAnnotation(p)
    \/ BeginSigning(p) \/ CommitSigning(p)
    \/ Abort(p)

CurationSpec == CurationInit /\ [][CurationNext]_curationVars
-----------------------------------------------------------------------------
\* The status is computed from the rows a request saw, so requests that overlap may leave it
\* behind them; any later request that overlaps none brings it back to what the rows say, the
\* one just written included.
StatusCatchesUp ==
    [][\A p \in People : CommitAnnotation(p) /\ request[p].undisturbed
          => status' = Recalculated(notes')]_curationVars

\* A target counts as approved only with the names of two different people under it, whatever
\* requests of theirs, and of an admin's, overlap.
TwoSigners ==
    target.state = "approved" =>
        /\ {target.by1, target.by2} \subseteq People
        /\ target.by1 # target.by2
=============================================================================
