--------------------------- MODULE ComputationProofs ---------------------------
(***************************************************************************)
(* What is computed from data of any size: the scores of a run, which are  *)
(* sums over its rows and their dimensions, and the two views of a run;    *)
(* what an assertion's operator answers; what a probe of an agent says     *)
(* about its later wiring; the rows a registration leaves behind, which    *)
(* are folds over a manifest.                                              *)
(*                                                                         *)
(* An induction over a set, a list or a number looks at a smallest case    *)
(* for which a claim fails (WFMin, LeastSubset) and finds a smaller one.   *)
(***************************************************************************)
EXTENDS Scoring, Assertions, ContractProbe, InterfaceRegistry, FiniteSetTheorems, SequenceTheorems, WellFoundedInduction, TLAPS

-----------------------------------------------------------------------------
\* Rounding down.
LEMMA ProductOrder ==
    ASSUME NEW b \in Nat, NEW x \in Int, NEW y \in Int, x <= y
    PROVE  b * x <= b * y
OBVIOUS

\* Dividing leaves less than the divisor.
LEMMA Quotient ==
    ASSUME NEW a \in Int, NEW b \in Nat \ {0}
    PROVE  a \div b \in Int /\ b * (a \div b) <= a /\ a < b * (a \div b) + b
OBVIOUS

\* A quotient is the greatest number that fits.
LEMMA QuotientAtLeast ==
    ASSUME NEW a \in Int, NEW b \in Nat \ {0}, NEW q \in Int, b * q <= a
    PROVE  q <= a \div b
<1> DEFINE p == a \div b
<1>1. p \in Int /\ a < b * p + b
  BY Quotient
<1> HIDE DEF p
<1> SUFFICES ASSUME p + 1 <= q PROVE FALSE
  BY <1>1 DEF p
<1>2. b * (p + 1) <= b * q
  BY <1>1, ProductOrder
<1>3. b * (p + 1) = b * p + b
  BY <1>1
<1> QED
  BY <1>1, <1>2, <1>3

\* Of greater numbers it is no smaller.
LEMMA QuotientOrder ==
    ASSUME NEW a \in Int, NEW c \in Int, NEW b \in Nat \ {0}, a <= c
    PROVE  a \div b <= c \div b
<1>1. a \div b \in Int /\ b * (a \div b) <= a
  BY Quotient
<1>2. b * (a \div b) <= c
  BY <1>1
<1> QED
  BY <1>1, <1>2, QuotientAtLeast

(* Sums.                                                                   *)

\* Among sets of subsets of a finite set there is one without a smaller one: induction over a
\* finite set, by looking at a smallest set for which a claim fails.
LEMMA LeastSubset ==
    ASSUME NEW S, IsFiniteSet(S), NEW T, T \in SUBSET (SUBSET S), T # {}
    PROVE  \E s \in T : \A t \in T : t \subseteq s => t = s
<1>1. IsWellFoundedOn(StrictSubsetOrdering(S), SUBSET S)
  BY FS_StrictSubsetOrderingWellFounded, FS_FiniteSubsetsOfFinite
<1>2. PICK s \in T : \A t \in T : <<t, s>> \notin StrictSubsetOrdering(S)
  BY <1>1, WFMin
<1> QED
  BY <1>2 DEF StrictSubsetOrdering

\* A set of numbers has a least one.
LEMMA LeastOfNat ==
    ASSUME NEW T \in SUBSET Nat, T # {}
    PROVE  \E n \in T : \A m \in T : ~(m < n)
<1>1. IsWellFoundedOn(OpToRel(<, Nat), Nat)
  BY NatLessThanWellFounded
<1>2. PICK n \in T : \A m \in T : <<m, n>> \notin OpToRel(<, Nat)
  BY <1>1, WFMin
<1>3. \A m \in T : <<m, n>> \in OpToRel(<, Nat) <=> m < n
  BY DEF OpToRel
<1> QED
  BY <1>2, <1>3

\* MapThenSumSet with a function for its operator: the sum over a set takes out one element after
\* the other.
Pick(s) == CHOOSE x \in s : TRUE
IsSum(g, w, S) == g = [s \in SUBSET S |-> IF s = {} THEN 0 ELSE w[Pick(s)] + g[s \ {Pick(s)}]]
Total(w, S) == (CHOOSE g : IsSum(g, w, S))[S]

\* The element taken out is one of the set.
LEMMA PickIs == ASSUME NEW s, s # {} PROVE Pick(s) \in s
BY DEF Pick

\* Two functions that sum up the same values agree where both are defined.
LEMMA SumUnique ==
    ASSUME NEW w, NEW T, IsFiniteSet(T), NEW S \in SUBSET T, NEW g, IsSum(g, w, S), NEW h, IsSum(h, w, T)
    PROVE  \A s \in SUBSET S : g[s] = h[s]
<1> DEFINE bad == {s \in SUBSET S : g[s] # h[s]}
<1> SUFFICES ASSUME bad # {} PROVE FALSE
  OBVIOUS
<1>1. IsFiniteSet(S) /\ bad \in SUBSET (SUBSET S)
  BY FS_Subset
<1>2. PICK s \in bad : \A t \in bad : t \subseteq s => t = s
  <2> HIDE DEF bad
  <2> QED
    BY <1>1, LeastSubset
<1>3. s \in SUBSET S /\ s \in SUBSET T
  OBVIOUS
<1>4. g[s] = IF s = {} THEN 0 ELSE w[Pick(s)] + g[s \ {Pick(s)}]
  BY <1>3 DEF IsSum
<1>5. h[s] = IF s = {} THEN 0 ELSE w[Pick(s)] + h[s \ {Pick(s)}]
  BY <1>3 DEF IsSum
<1>6. s # {} 
  BY <1>4, <1>5
<1>7. s \ {Pick(s)} \notin bad
  BY <1>2, <1>6, PickIs
<1>8. g[s \ {Pick(s)}] = h[s \ {Pick(s)}]
  BY <1>7, <1>3
<1> QED
  BY <1>4, <1>5, <1>8, <1>2

\* There is such a function on the subsets of any finite set.
LEMMA SumExists ==
    ASSUME NEW w, NEW X, IsFiniteSet(X)
    PROVE  \E g : IsSum(g, w, X)
<1> DEFINE bad == {S \in SUBSET X : ~\E g : IsSum(g, w, S)}
<1> SUFFICES ASSUME bad # {} PROVE FALSE
  OBVIOUS
<1>1. PICK S \in bad : \A t \in bad : t \subseteq S => t = S
  <2>1. bad \in SUBSET (SUBSET X)
    OBVIOUS
  <2> HIDE DEF bad
  <2> QED
    BY <2>1, LeastSubset
<1>2. IsFiniteSet(S) /\ \A s \in SUBSET S : IsFiniteSet(s)
  BY FS_Subset
<1> DEFINE sum(s) == CHOOSE g : IsSum(g, w, s)
           G == [s \in SUBSET S |-> IF s = {} THEN 0
                   ELSE w[Pick(s)] + sum(s \ {Pick(s)})[s \ {Pick(s)}]]
<1>3. ASSUME NEW s \in SUBSET S, s # S PROVE IsSum(sum(s), w, s)
  BY <1>1, <1>3
<1>4. ASSUME NEW s \in SUBSET S, s # {} PROVE G[s \ {Pick(s)}] = sum(s \ {Pick(s)})[s \ {Pick(s)}]
  <2> DEFINE r == s \ {Pick(s)}  q == r \ {Pick(r)}
  <2>1. Pick(s) \in s /\ r \in SUBSET S /\ r # S
    BY <1>4, PickIs
  <2>2. IsSum(sum(r), w, r)
    BY <1>3, <2>1
  <2>3. CASE r = {}
    <3>1. sum(r)[r] = 0
      BY <2>2, <2>3 DEF IsSum
    <3> QED
      BY <2>1, <2>3, <3>1
  <2>4. CASE r # {}
    <3>1. Pick(r) \in r /\ q \in SUBSET r /\ q \in SUBSET S /\ q # S
      BY <2>1, <2>4, PickIs
    <3>2. IsSum(sum(q), w, q)
      BY <1>3, <3>1
    <3>3. sum(q)[q] = sum(r)[q]
      <4>1. IsFiniteSet(r)
        BY <1>2, <2>1
      <4> HIDE DEF sum, r, q
      <4> QED
        BY <4>1, <2>2, <3>1, <3>2, SumUnique
    <3>4. sum(r)[r] = w[Pick(r)] + sum(r)[q]
      <4> HIDE DEF sum
      <4> QED
        BY <2>2, <2>4 DEF IsSum
    <3>5. G[r] = w[Pick(r)] + sum(q)[q]
      <4> HIDE DEF sum
      <4> QED
        BY <2>1, <2>4
    <3> QED
      BY <3>3, <3>4, <3>5
  <2> QED
    BY <2>3, <2>4
<1>5. IsSum(G, w, S)
  <2> HIDE DEF sum
  <2> QED
    BY <1>4 DEF IsSum
<1> QED
  BY <1>1, <1>5

\* So a sum is an element and the sum over the others.
LEMMA TotalIs ==
    ASSUME NEW w, NEW S, IsFiniteSet(S)
    PROVE  Total(w, S) = IF S = {} THEN 0 ELSE w[Pick(S)] + Total(w, S \ {Pick(S)})
<1> DEFINE sum(s) == CHOOSE g : IsSum(g, w, s)
<1>1. ASSUME NEW s \in SUBSET S PROVE IsSum(sum(s), w, s)
  BY FS_Subset, SumExists
<1>2. \A s : Total(w, s) = sum(s)[s]
  BY DEF Total
<1> HIDE DEF sum
<1>3. sum(S)[S] = IF S = {} THEN 0 ELSE w[Pick(S)] + sum(S)[S \ {Pick(S)}]
  BY <1>1 DEF IsSum
<1>4. sum(S)[S \ {Pick(S)}] = sum(S \ {Pick(S)})[S \ {Pick(S)}]
  <2>1. IsSum(sum(S), w, S) /\ IsSum(sum(S \ {Pick(S)}), w, S \ {Pick(S)})
    BY <1>1
  <2> QED
    BY <2>1, SumUnique
<1> QED
  BY <1>2, <1>3, <1>4

\* What holds of no smallest set in its place holds of all: the step of an induction over a sum.
LEMMA Below ==
    ASSUME NEW S, IsFiniteSet(S), NEW bad, bad \in SUBSET (SUBSET S), bad # {}, {} \notin bad
    PROVE  \E s \in bad : Pick(s) \in s /\ s \ {Pick(s)} \in (SUBSET S) \ bad /\ IsFiniteSet(s)
<1>1. PICK s \in bad : \A t \in bad : t \subseteq s => t = s
  BY LeastSubset
<1>2. Pick(s) \in s
  BY PickIs
<1> QED
  BY <1>1, <1>2, FS_Subset

\* Whole numbers have a whole sum, natural ones a natural one.
LEMMA TotalType ==
    ASSUME NEW S, IsFiniteSet(S), NEW w, NEW Numbers \in {Int, Nat}, \A x \in S : w[x] \in Numbers
    PROVE  Total(w, S) \in Numbers
<1> DEFINE bad == {s \in SUBSET S : Total(w, s) \notin Numbers}
<1>1. Total(w, {}) = 0
  BY FS_EmptySet, TotalIs
<1>2. bad \in SUBSET (SUBSET S) /\ {} \notin bad
  BY <1>1
<1> SUFFICES ASSUME bad # {} PROVE FALSE
  OBVIOUS
<1>3. PICK s \in bad : Pick(s) \in s /\ s \ {Pick(s)} \in (SUBSET S) \ bad /\ IsFiniteSet(s)
  <2> HIDE DEF bad
  <2> QED
    BY <1>2, Below
<1>4. Total(w, s) = w[Pick(s)] + Total(w, s \ {Pick(s)})
  BY <1>3, TotalIs
<1>5. w[Pick(s)] \in Numbers /\ Total(w, s \ {Pick(s)}) \in Numbers
  BY <1>3
<1> QED
  BY <1>3, <1>4, <1>5

\* Any element can be taken out.
LEMMA TotalTakes ==
    ASSUME NEW S, IsFiniteSet(S), NEW w, \A y \in S : w[y] \in Int
    PROVE  \A x \in S : Total(w, S) = w[x] + Total(w, S \ {x})
<1> DEFINE bad == {s \in SUBSET S : ~\A x \in s : Total(w, s) = w[x] + Total(w, s \ {x})}
<1>1. bad \in SUBSET (SUBSET S) /\ {} \notin bad
  OBVIOUS
<1> SUFFICES ASSUME bad # {} PROVE FALSE
  OBVIOUS
<1>2. PICK s \in bad : \A t \in bad : t \subseteq s => t = s
  <2> HIDE DEF bad
  <2> QED
    BY <1>1, LeastSubset
<1>3. PICK x \in s : Total(w, s) # w[x] + Total(w, s \ {x})
  BY <1>2
<1> DEFINE p == Pick(s)
<1>4. p \in s /\ IsFiniteSet(s) /\ s \subseteq S
  BY <1>3, PickIs, FS_Subset
<1>5. Total(w, s) = w[p] + Total(w, s \ {p})
  BY <1>3, <1>4, TotalIs
<1>6. x # p
  BY <1>3, <1>5
<1> DEFINE a == Total(w, s \ {p})  b == Total(w, s \ {x})  c == Total(w, (s \ {p}) \ {x})
<1>7. a = w[x] + c
  <2>1. s \ {p} \notin bad
    BY <1>2, <1>4
  <2> QED
    BY <2>1, <1>4, <1>6
<1>8. b = w[p] + c
  <2>1. s \ {x} \notin bad
    BY <1>2
  <2>2. (s \ {x}) \ {p} = (s \ {p}) \ {x}
    OBVIOUS
  <2> QED
    BY <2>1, <2>2, <1>4, <1>6
<1>9. w[x] \in Int /\ w[p] \in Int /\ c \in Int
  <2>1. IsFiniteSet((s \ {p}) \ {x})
    BY <1>4, FS_Subset
  <2> QED
    BY <1>4, <2>1, TotalType
<1> HIDE DEF a, b, c, p
<1> QED
  BY <1>3, <1>5, <1>7, <1>8, <1>9 DEF a, b

\* Greater values have a greater sum.
LEMMA TotalOrder ==
    ASSUME NEW S, IsFiniteSet(S), NEW w, NEW v,
           \A x \in S : w[x] \in Int /\ v[x] \in Int /\ w[x] <= v[x]
    PROVE  Total(w, S) <= Total(v, S)
<1> DEFINE bad == {s \in SUBSET S : ~(Total(w, s) <= Total(v, s))}
<1>1. Total(w, {}) = 0 /\ Total(v, {}) = 0
  BY FS_EmptySet, TotalIs
<1>2. bad \in SUBSET (SUBSET S) /\ {} \notin bad
  BY <1>1
<1> SUFFICES ASSUME bad # {} PROVE FALSE
  OBVIOUS
<1>3. PICK s \in bad : Pick(s) \in s /\ s \ {Pick(s)} \in (SUBSET S) \ bad /\ IsFiniteSet(s)
  <2> HIDE DEF bad
  <2> QED
    BY <1>2, Below
<1> DEFINE r == s \ {Pick(s)}
<1>4. Total(w, s) = w[Pick(s)] + Total(w, r) /\ Total(v, s) = v[Pick(s)] + Total(v, r)
  BY <1>3, TotalIs
<1>5. Total(w, r) \in Int /\ Total(v, r) \in Int /\ Total(w, r) <= Total(v, r)
  <2>1. IsFiniteSet(r)
    BY <1>3, FS_Subset
  <2> QED
    BY <1>3, <2>1, TotalType
<1>6. w[Pick(s)] \in Int /\ v[Pick(s)] \in Int /\ w[Pick(s)] <= v[Pick(s)]
  BY <1>3
<1> QED
  BY <1>3, <1>4, <1>5, <1>6

\* The sum over fewer is smaller.
LEMMA TotalPart ==
    ASSUME NEW S, IsFiniteSet(S), NEW T \in SUBSET S, NEW w, \A x \in S : w[x] \in Nat
    PROVE  Total(w, T) <= Total(w, S)
<1> DEFINE bad == {s \in SUBSET S : T \subseteq s /\ ~(Total(w, T) <= Total(w, s))}
<1> SUFFICES ASSUME bad # {} PROVE FALSE
  OBVIOUS
<1>1. PICK s \in bad : \A t \in bad : t \subseteq s => t = s
  <2>1. bad \in SUBSET (SUBSET S)
    OBVIOUS
  <2> HIDE DEF bad
  <2> QED
    BY <2>1, LeastSubset
<1>2. Total(w, T) \in Nat
  BY FS_Subset, TotalType
<1>3. PICK x \in s : x \notin T
  BY <1>2
<1>4. s \ {x} \notin bad
  BY <1>1
<1>5. Total(w, T) <= Total(w, s \ {x})
  BY <1>3, <1>4
<1>6. IsFiniteSet(s) /\ IsFiniteSet(s \ {x})
  BY FS_Subset
<1>7. Total(w, s) = w[x] + Total(w, s \ {x})
  BY <1>6, TotalTakes
<1>8. w[x] \in Nat /\ Total(w, s \ {x}) \in Nat
  BY <1>6, TotalType
<1>9. ~(Total(w, T) <= Total(w, s))
  OBVIOUS
<1> QED
  BY <1>2, <1>5, <1>7, <1>8, <1>9

\* A share that is exceeded everywhere is exceeded in the sums.
LEMMA TotalShare ==
    ASSUME NEW S, IsFiniteSet(S), S # {}, NEW m, NEW d, NEW a \in Nat, NEW b \in Nat,
           \A x \in S : m[x] \in Int /\ d[x] \in Int /\ b * d[x] < a * m[x]
    PROVE  b * Total(d, S) < a * Total(m, S)
<1> DEFINE holds(s) == s # {} => b * Total(d, s) < a * Total(m, s)
           bad == {s \in SUBSET S : ~holds(s)}
<1>1. bad \in SUBSET (SUBSET S) /\ {} \notin bad
  OBVIOUS
<1> SUFFICES ASSUME bad # {} PROVE FALSE
  OBVIOUS
<1>2. PICK s \in bad : Pick(s) \in s /\ s \ {Pick(s)} \in (SUBSET S) \ bad /\ IsFiniteSet(s)
  <2> HIDE DEF bad
  <2> QED
    BY <1>1, Below
<1> DEFINE r == s \ {Pick(s)}
<1>3. Total(d, s) = d[Pick(s)] + Total(d, r) /\ Total(m, s) = m[Pick(s)] + Total(m, r)
  BY <1>2, TotalIs
<1>4. IsFiniteSet(r)
  BY <1>2, FS_Subset
<1>5. Total(d, r) \in Int /\ Total(m, r) \in Int
  BY <1>2, <1>4, TotalType
<1>6. r = {} => Total(d, r) = 0 /\ Total(m, r) = 0
  BY <1>4, TotalIs
<1>7. r # {} => b * Total(d, r) < a * Total(m, r)
  BY <1>2
<1>8. d[Pick(s)] \in Int /\ m[Pick(s)] \in Int /\ b * d[Pick(s)] < a * m[Pick(s)]
  BY <1>2
<1>9. ASSUME NEW p \in Int, NEW q \in Int, NEW k \in Int, NEW l \in Int, b * p < a * q, b * k <= a * l
      PROVE  b * (p + k) < a * (q + l)
  BY <1>9
<1>10. b * Total(d, r) <= a * Total(m, r)
  BY <1>5, <1>6, <1>7
<1>11. b * Total(d, s) < a * Total(m, s)
  BY <1>3, <1>5, <1>8, <1>9, <1>10
<1> QED
  BY <1>2, <1>11

\* What is at least as great everywhere is so in the mean.
LEMMA TotalLeast ==
    ASSUME NEW S, IsFiniteSet(S), NEW w, NEW c \in Nat, \A x \in S : w[x] \in Int /\ c <= w[x]
    PROVE  Cardinality(S) * c <= Total(w, S)
<1> DEFINE bad == {s \in SUBSET S : ~(Cardinality(s) * c <= Total(w, s))}
<1>1. Total(w, {}) = 0 /\ Cardinality({}) * c = 0
  <2>1. IsFiniteSet({}) /\ Cardinality({}) = 0
    BY FS_EmptySet
  <2>2. Total(w, {}) = 0
    BY <2>1, TotalIs
  <2> QED
    BY <2>1, <2>2
<1>2. bad \in SUBSET (SUBSET S) /\ {} \notin bad
  BY <1>1
<1> SUFFICES ASSUME bad # {} PROVE FALSE
  OBVIOUS
<1>3. PICK s \in bad : Pick(s) \in s /\ s \ {Pick(s)} \in (SUBSET S) \ bad /\ IsFiniteSet(s)
  <2> HIDE DEF bad
  <2> QED
    BY <1>2, Below
<1> DEFINE r == s \ {Pick(s)}  n == Cardinality(r)
<1>4. Total(w, s) = w[Pick(s)] + Total(w, r)
  BY <1>3, TotalIs
<1>5. IsFiniteSet(r) /\ n \in Nat /\ Cardinality(s) = n + 1
  <2> HIDE DEF bad
  <2>1. IsFiniteSet(r)
    BY <1>3, FS_Subset
  <2>2. n \in Nat /\ n = Cardinality(s) - 1 /\ Cardinality(s) \in Nat
    BY <1>3, <2>1, FS_RemoveElement, FS_CardinalityType
  <2> QED
    BY <2>1, <2>2
<1>6. Total(w, r) \in Int /\ n * c <= Total(w, r)
  BY <1>3, <1>5, TotalType
<1>7. w[Pick(s)] \in Int /\ c <= w[Pick(s)]
  BY <1>3
<1> HIDE DEF n
<1>8. (n + 1) * c = n * c + c
  BY <1>5
<1>9. (n + 1) * c <= Total(w, s)
  BY <1>4, <1>5, <1>6, <1>7, <1>8
<1> QED
  BY <1>3, <1>5, <1>9

-----------------------------------------------------------------------------
(* Scoring.                                                                *)

\* A row, whatever was written into it since.
Row(r) == r \in [error : BOOLEAN, enabled : SUBSET Dims4, graded : [RuleDims -> Graded],
                 judged : [SemanticDims -> Levels6 \cup {Unjudged, Lost}],
                 outcome : {r.outcome}, total : {r.total}]

WeightsOK ==
    /\ IsTable(weights.own, 0..100) /\ IsTable(weights.default, 0..100)
    /\ weights \in [own : {weights.own}, default : {weights.default}]
TargetsOK ==
    /\ IsTable(targets.own, Targets) /\ IsTable(targets.default, Targets)
    /\ targets \in [own : {targets.own}, default : {targets.default}, pending : SUBSET (Places \X Dims4)]

\* A row with a score has the outcome that is computed from it today.
ScoredRow(r) == r.total # NA => r.outcome = ScoreCase(r).outcome

ScoreOK == score \in [status : {score.status}, counts : {score.counts}, incomplete : BOOLEAN,
                      scored : BOOLEAN, tuned : Nat, current : BOOLEAN]
ScoringInv ==
    /\ WeightsOK /\ TargetsOK
    /\ Len(result) \in Nat /\ DOMAIN result = 1..Len(result)
    /\ \A i \in DOMAIN result : Row(result[i]) /\ (result[i].outcome = "error" <=> result[i].error)
    /\ ScoreOK
    /\ ~score.scored => \A i \in DOMAIN result : result[i].total = NA
    /\ score.current => score.scored /\ \A i \in Executed : ScoredRow(result[i])
    /\ score.current /\ Breaking = {} => score.incomplete = Incomplete(result)

\* The four dimensions and their units.
LEMMA Units ==
    /\ IsFiniteSet(Dims4)
    /\ Cent \in Nat \ {0} /\ Scale \in Nat \ {0} /\ Step = 2000 * Cent /\ Step \in Nat \ {0}
<1>1. IsFiniteSet({"completeness"}) /\ IsFiniteSet({"factuality"})
      /\ IsFiniteSet({"reasoning_quality"}) /\ IsFiniteSet({"tool_usage"})
  BY FS_Singleton
<1>2. Dims4 = (({"completeness"} \cup {"factuality"}) \cup {"reasoning_quality"}) \cup {"tool_usage"}
  BY DEF Dims4, RuleDims, SemanticDims
<1>3. IsFiniteSet(Dims4)
  BY <1>1, <1>2, FS_Union
<1>4. Scale \in Nat \ {0} /\ Scale % 100 = 0
  BY ScoringAssumption
<1>5. Scale = 100 * (Scale \div 100) /\ Scale \div 100 \in Nat \ {0}
  BY <1>4
<1> QED
  BY <1>3, <1>4, <1>5 DEF Cent, Step

\* Weights are percents, and a dimension without one has the default (scorer.py _resolve_weights).
LEMMA WeightType == WeightsOK => \A d \in Dims4 : WeightOf(d) \in Nat
<1> SUFFICES ASSUME WeightsOK, NEW d \in Dims4 PROVE WeightOf(d) \in Nat
  OBVIOUS
<1>1. DefaultWeight[d] \in Nat
  BY DEF DefaultWeight, Dims4, RuleDims, SemanticDims
<1>2. d \in DOMAIN weights.own => weights.own[d] \in 0..100
  BY DEF WeightsOK, IsTable
<1>3. d \in DOMAIN weights.default => weights.default[d] \in 0..100
  BY DEF WeightsOK, IsTable
<1> QED
  BY <1>1, <1>2, <1>3 DEF WeightOf, Configured, Resolved

\* The weights of some dimensions as a sum.
WeightRow == [d \in Dims4 |-> WeightOf(d)]
\* The weight of a set of dimensions is a sum (scorer.py, score_case).
LEMMA WeightsOfIs ==
    ASSUME NEW ds \in SUBSET Dims4
    PROVE  WeightsOf(ds) = Total(WeightRow, ds)
<1> DEFINE fits(g) == g = [s \in SUBSET ds |-> IF s = {} THEN 0 ELSE WeightOf(Pick(s)) + g[s \ {Pick(s)}]]
<1>1. \A s \in SUBSET ds : s # {} => WeightOf(Pick(s)) = WeightRow[Pick(s)]
  BY PickIs DEF WeightRow
<1>2. \A g : fits(g) <=> IsSum(g, WeightRow, ds)
  BY <1>1 DEF IsSum
<1>3. WeightsOf(ds) = (CHOOSE g : fits(g))[ds]
  BY DEF WeightsOf, MapThenSumSet, MapThenFoldSet, Pick
<1> HIDE DEF fits
<1>4. (CHOOSE g : fits(g)) = (CHOOSE g : IsSum(g, WeightRow, ds))
  BY <1>2
<1> QED
  BY <1>3, <1>4 DEF Total

\* It is a natural number, and no smaller set of them weighs more.
LEMMA WeightsOfType ==
    ASSUME WeightsOK, NEW ds \in SUBSET Dims4
    PROVE  /\ WeightsOf(ds) \in Nat
           /\ \A part \in SUBSET ds : WeightsOf(part) <= WeightsOf(ds)
<1>1. \A d \in Dims4 : WeightRow[d] \in Nat
  BY WeightType DEF WeightRow
<1>2. IsFiniteSet(ds)
  BY Units, FS_Subset
<1>3. Total(WeightRow, ds) \in Nat
  BY <1>1, <1>2, TotalType
<1>4. \A part \in SUBSET ds : Total(WeightRow, part) <= Total(WeightRow, ds)
  BY <1>1, <1>2, TotalPart
<1> QED
  BY <1>3, <1>4, WeightsOfIs

\* A metric has a value or none: it is none without assertions and without a verdict of the judge
\* (metrics.py).
LEMMA ValueIs ==
    ASSUME NEW r, Row(r), NEW d \in Dims4
    PROVE  /\ Value(r, d) \in Nat \cup {NA}
           /\ d \in RuleDims => /\ r.graded[d].of \in Nat /\ r.graded[d].passed \in Nat
                                /\ Value(r, d) = NA <=> r.graded[d].of = 0
                                /\ r.graded[d].of # 0 =>
                                     Value(r, d) = (100 * Scale * r.graded[d].passed) \div r.graded[d].of
           /\ d \notin RuleDims => /\ d \in SemanticDims
                                   /\ Value(r, d) = NA <=> r.judged[d] \notin Levels6
                                   /\ r.judged[d] \in Levels6 => Value(r, d) = r.judged[d] * Step
<1>1. CASE d \in RuleDims
  <2> DEFINE g == r.graded[d]
  <2>1. g.of \in Nat /\ g.passed \in Nat
    BY <1>1 DEF Row, Graded
  <2>2. Value(r, d) = IF g.of = 0 THEN NA ELSE (100 * Scale * g.passed) \div g.of
    BY <1>1 DEF Value, PassRate
  <2>3. 100 * Scale * g.passed \in Nat
    BY <2>1, Units
  <2>4. g.of # 0 => (100 * Scale * g.passed) \div g.of \in Nat
    <3> DEFINE a == 100 * Scale * g.passed  b == g.of
    <3> HIDE DEF a, b
    <3>1. a \in Nat /\ b \in Nat
      BY <2>1, <2>3 DEF a, b
    <3>2. b # 0 => a \div b \in Int /\ 0 <= a \div b
      BY <3>1, Quotient, QuotientAtLeast
    <3> QED
      BY <3>2 DEF a, b
  <2> HIDE DEF g
  <2> QED
    BY <1>1, <2>1, <2>2, <2>4 DEF NA, g
<1>2. CASE d \notin RuleDims
  <2>1. d \in SemanticDims
    BY <1>2 DEF Dims4
  <2>2. Value(r, d) = IF r.judged[d] \in Levels6 THEN r.judged[d] * Step ELSE NA
    BY <1>2 DEF Value, JudgedScore
  <2>3. r.judged[d] \in Levels6 => r.judged[d] * Step \in Nat
    BY Units DEF Levels6
  <2> QED
    BY <1>2, <2>1, <2>2, <2>3 DEF NA
<1> QED
  BY <1>1, <1>2

\* What applies has a value.
LEMMA AppliesIs ==
    ASSUME NEW r, Row(r)
    PROVE  /\ Applies(r) \in SUBSET Dims4 /\ IsFiniteSet(Applies(r))
           /\ \A d \in Applies(r) : Value(r, d) \in Nat
<1>1. Applies(r) \in SUBSET Dims4 /\ \A d \in Applies(r) : Value(r, d) # NA
  BY DEF Applies, Row
<1> QED
  BY <1>1, ValueIs, Units, FS_Subset

\* The weighted values of some dimensions as a sum.
Worth(r) == [d \in Dims4 |-> Value(r, d) * WeightOf(d)]
\* So are the weighted points of a row.
LEMMA PointsIs ==
    ASSUME NEW r, Row(r)
    PROVE  Points(r) = Total(Worth(r), Applies(r))
<1> DEFINE ds == Applies(r)
           fits(g) == g = [s \in SUBSET ds |-> IF s = {} THEN 0
                             ELSE (Value(r, Pick(s)) * WeightOf(Pick(s))) + g[s \ {Pick(s)}]]
<1>1. \A s \in SUBSET ds : s # {} => Value(r, Pick(s)) * WeightOf(Pick(s)) = Worth(r)[Pick(s)]
  BY PickIs, AppliesIs DEF Worth
<1>2. Points(r) = (CHOOSE g : fits(g))[ds]
  BY DEF Points, MapThenSumSet, MapThenFoldSet, Pick
<1> HIDE DEF ds
<1>3. \A g : fits(g) <=> IsSum(g, Worth(r), ds)
  BY <1>1 DEF IsSum
<1> HIDE DEF fits
<1>4. (CHOOSE g : fits(g)) = (CHOOSE g : IsSum(g, Worth(r), ds))
  BY <1>3
<1> QED
  BY <1>2, <1>4 DEF Total, ds

\* A mean is rounded to cents in one direction: it keeps the order, and does not fall below a
\* number of whole cents that it was not below (scorer.py score_case, dashboard_rules.py).
LEMMA MeanOrder ==
    ASSUME NEW n \in Int, NEW m \in Int, NEW d \in Nat \ {0}, n <= m
    PROVE  Mean(n, d) \in Int /\ Mean(m, d) \in Int /\ Mean(n, d) <= Mean(m, d)
<1> DEFINE c == Cent  b == 2 * d * c
<1>1. c \in Nat \ {0}
  BY Units
<1> HIDE DEF c
<1>2. d * c \in Nat \ {0}
  BY <1>1
<1>3. b \in Nat \ {0}
  BY <1>1, <1>2
<1>4. 2 * n + d * c \in Int /\ 2 * m + d * c \in Int /\ 2 * n + d * c <= 2 * m + d * c
  BY <1>2
<1> DEFINE p == (2 * n + d * c) \div b  q == (2 * m + d * c) \div b
<1>5. Mean(n, d) = c * p /\ Mean(m, d) = c * q
  BY DEF Mean, Rounded, c
<1> HIDE DEF b
<1>6. p \in Int /\ q \in Int /\ p <= q
  BY <1>3, <1>4, Quotient, QuotientOrder
<1> HIDE DEF p, q
<1> QED
  BY <1>1, <1>5, <1>6, ProductOrder

\* If a sum is at least so many times a number of cents, the rounded mean is at least that number.
LEMMA MeanAtLeast ==
    ASSUME NEW n \in Int, NEW d \in Nat \ {0}, NEW k \in Nat, d * (Cent * k) <= n
    PROVE  Cent * k <= Mean(n, d)
<1> DEFINE c == Cent  b == 2 * d * c
<1>1. c \in Nat \ {0}
  BY Units
<1> HIDE DEF c
<1>2. d * c \in Nat \ {0}
  BY <1>1
<1>3. b \in Nat \ {0}
  BY <1>1, <1>2
<1> DEFINE p == (2 * n + d * c) \div b
<1>4. Mean(n, d) = c * p
  BY DEF Mean, Rounded, c
<1>5. b * k <= 2 * n + d * c
  <2>1. d * (c * k) <= n
    BY DEF c
  <2>2. b * k = 2 * (d * (c * k))
    BY <1>1
  <2> QED
    BY <1>1, <1>2, <2>1, <2>2
<1>6. k <= p /\ p \in Int
  <2>1. 2 * n + d * c \in Int
    BY <1>1
  <2> HIDE DEF b
  <2> QED
    BY <1>3, <1>5, <2>1, Quotient, QuotientAtLeast
<1> HIDE DEF p
<1> QED
  BY <1>1, <1>4, <1>6, ProductOrder DEF c
-----------------------------------------------------------------------------
\* An answer that is a little better has the same dimensions, and a value at least as great.
LEMMA BetterRule ==
    ASSUME NEW r, Row(r), NEW d \in RuleDims, r.graded[d].passed < r.graded[d].of,
           NEW q, q = [r EXCEPT !.graded = [r.graded EXCEPT ![d] = [r.graded[d] EXCEPT !.passed = r.graded[d].passed + 1]]]
    PROVE  /\ Row(q) /\ q.enabled = r.enabled /\ q.judged = r.judged
           /\ \A e \in RuleDims : /\ q.graded[e].of = r.graded[e].of
                                  /\ r.graded[e].passed <= q.graded[e].passed
<1>1. r.graded \in [RuleDims -> Graded]
  BY DEF Row
<1>2. q = [r EXCEPT !.graded = [r.graded EXCEPT ![d] = [r.graded[d] EXCEPT !.passed = r.graded[d].passed + 1]]]
  OBVIOUS
<1> DEFINE g == [r.graded[d] EXCEPT !.passed = r.graded[d].passed + 1]
           gs == [r.graded EXCEPT ![d] = g]
<1>3. g \in Graded /\ g.of = r.graded[d].of /\ g.passed = r.graded[d].passed + 1
  BY <1>1 DEF Graded
<1>4. q = [r EXCEPT !.graded = gs]
  BY <1>2
<1> HIDE DEF g
<1>5. gs \in [RuleDims -> Graded]
  BY <1>1, <1>3
<1>6. \A e \in RuleDims : gs[e].of = r.graded[e].of /\ r.graded[e].passed <= gs[e].passed
  <2> TAKE e \in RuleDims
  <2>1. r.graded[e].passed \in Nat
    BY <1>1 DEF Graded
  <2> QED
    BY <1>1, <1>3, <2>1
<1> HIDE DEF gs
<1>7. q.graded = gs /\ q.enabled = r.enabled /\ q.judged = r.judged /\ Row(q)
  BY <1>4, <1>5 DEF Row
<1> QED
  BY <1>6, <1>7

\* One level more of the judge raises one verdict by one and leaves the others.
LEMMA BetterVerdict ==
    ASSUME NEW r, Row(r), NEW d \in SemanticDims, r.judged[d] \in 0..4,
           NEW q, q = [r EXCEPT !.judged[d] = @ + 1]
    PROVE  /\ Row(q) /\ q.enabled = r.enabled /\ q.graded = r.graded
           /\ \A e \in SemanticDims : \/ q.judged[e] = r.judged[e]
                                      \/ /\ r.judged[e] \in 0..4 /\ q.judged[e] = r.judged[e] + 1
<1>1. r.judged \in [SemanticDims -> Levels6 \cup {Unjudged, Lost}]
  BY DEF Row
<1> DEFINE js == [r.judged EXCEPT ![d] = r.judged[d] + 1]
<1>2. q = [r EXCEPT !.judged = js]
  OBVIOUS
<1>3. r.judged[d] + 1 \in Levels6
  BY DEF Levels6
<1>4. js \in [SemanticDims -> Levels6 \cup {Unjudged, Lost}]
  BY <1>1, <1>3
<1>5. \A e \in SemanticDims : \/ js[e] = r.judged[e]
                              \/ r.judged[e] \in 0..4 /\ js[e] = r.judged[e] + 1
  BY <1>1
<1> HIDE DEF js
<1>6. q.judged = js /\ q.enabled = r.enabled /\ q.graded = r.graded /\ Row(q)
  BY <1>2, <1>4 DEF Row
<1> QED
  BY <1>5, <1>6

\* An improved row has the same dimensions, the same that apply, and no value that is lower.
LEMMA BetterIs ==
    ASSUME NEW r, Row(r), NEW q \in Improvements(r)
    PROVE  /\ Row(q) /\ q.enabled = r.enabled /\ LostDims(q) = LostDims(r)
           /\ \A d \in Dims4 : /\ Value(q, d) = NA <=> Value(r, d) = NA
                               /\ Value(r, d) # NA => Value(r, d) <= Value(q, d)
<1>1. ASSUME NEW d \in RuleDims, r.graded[d].passed < r.graded[d].of,
             q = [r EXCEPT !.graded[d].passed = @ + 1]
      PROVE  /\ Row(q) /\ q.enabled = r.enabled /\ LostDims(q) = LostDims(r)
             /\ \A e \in Dims4 : /\ Value(q, e) = NA <=> Value(r, e) = NA
                                 /\ Value(r, e) # NA => Value(r, e) <= Value(q, e)
  <2>1. /\ Row(q) /\ q.enabled = r.enabled /\ q.judged = r.judged
        /\ \A e \in RuleDims : q.graded[e].of = r.graded[e].of /\ r.graded[e].passed <= q.graded[e].passed
    <3>1. q = [r EXCEPT !.graded = [r.graded EXCEPT ![d] = [r.graded[d] EXCEPT !.passed = r.graded[d].passed + 1]]]
      BY <1>1
    <3> QED
      BY <1>1, <3>1, BetterRule
  <2>2. LostDims(q) = LostDims(r)
    BY <2>1 DEF LostDims
  <2>3. ASSUME NEW e \in Dims4, e \notin RuleDims
        PROVE  Value(q, e) = Value(r, e) /\ Value(r, e) \in Nat \cup {NA}
    BY <2>1, <2>3, ValueIs DEF Value
  <2>4. ASSUME NEW e \in RuleDims, r.graded[e].of # 0 PROVE Value(r, e) <= Value(q, e)
    <3> DEFINE n == r.graded[e].of  a == r.graded[e].passed  b == q.graded[e].passed  k == 100 * Scale
    <3>1. n \in Nat \ {0} /\ a \in Nat /\ b \in Nat /\ a <= b
      BY <2>1, <2>4, ValueIs DEF Dims4
    <3>2. Value(r, e) = (k * a) \div n /\ Value(q, e) = (k * b) \div n
      BY <2>1, <2>4, ValueIs DEF Dims4
    <3>3. k \in Nat
      BY Units
    <3> HIDE DEF n, a, b, k
    <3>4. k * a \in Int /\ k * b \in Int /\ k * a <= k * b
      BY <3>1, <3>3, ProductOrder
    <3> QED
      BY <3>1, <3>2, <3>4, QuotientOrder
  <2>5. ASSUME NEW e \in RuleDims PROVE Value(q, e) = NA <=> Value(r, e) = NA
    BY <2>1, ValueIs DEF Dims4
  <2>6. ASSUME NEW e \in RuleDims, Value(r, e) # NA PROVE r.graded[e].of # 0
    BY <2>6, ValueIs DEF Dims4
  <2>7. \A e \in Dims4 : /\ Value(q, e) = NA <=> Value(r, e) = NA
                         /\ Value(r, e) # NA => Value(r, e) <= Value(q, e)
    BY <2>3, <2>4, <2>5, <2>6
  <2> QED
    BY <2>1, <2>2, <2>7
<1>2. ASSUME NEW d \in SemanticDims, r.judged[d] \in 0..4, q = [r EXCEPT !.judged[d] = @ + 1]
      PROVE  /\ Row(q) /\ q.enabled = r.enabled /\ LostDims(q) = LostDims(r)
             /\ \A e \in Dims4 : /\ Value(q, e) = NA <=> Value(r, e) = NA
                                 /\ Value(r, e) # NA => Value(r, e) <= Value(q, e)
  <2>1. /\ Row(q) /\ q.enabled = r.enabled /\ q.graded = r.graded
        /\ \A e \in SemanticDims : \/ q.judged[e] = r.judged[e]
                                   \/ r.judged[e] \in 0..4 /\ q.judged[e] = r.judged[e] + 1
    BY <1>2, BetterVerdict
  <2>2. LostDims(q) = LostDims(r)
    <3>1. \A e \in SemanticDims : q.judged[e] = Lost <=> r.judged[e] = Lost
      BY <2>1 DEF Lost
    <3> QED
      BY <2>1, <3>1 DEF LostDims
  <2>3. ASSUME NEW e \in RuleDims PROVE Value(q, e) = Value(r, e) /\ Value(r, e) \in Nat \cup {NA}
    BY <2>1, ValueIs DEF Value, Dims4
  <2>4. ASSUME NEW e \in SemanticDims, e \notin RuleDims
        PROVE  /\ Value(q, e) = NA <=> Value(r, e) = NA
               /\ Value(r, e) # NA => Value(r, e) <= Value(q, e)
    <3>1. e \in Dims4
      BY DEF Dims4
    <3>2. CASE q.judged[e] = r.judged[e]
      <4>1. Value(q, e) = Value(r, e) /\ Value(r, e) \in Nat \cup {NA}
        BY <2>4, <3>1, <3>2, ValueIs DEF Value
      <4> QED
        BY <4>1
    <3>3. CASE r.judged[e] \in 0..4 /\ q.judged[e] = r.judged[e] + 1
      <4> DEFINE k == r.judged[e]
      <4>1. k \in Levels6 /\ k + 1 \in Levels6 /\ k \in Nat
        BY <3>3 DEF Levels6
      <4>2. Value(r, e) = k * Step /\ Value(q, e) = (k + 1) * Step
        BY <2>1, <2>4, <3>1, <3>3, <4>1, ValueIs
      <4>3. Value(r, e) \in Nat \cup {NA} /\ Value(r, e) # NA /\ Value(q, e) # NA
        BY <2>1, <2>4, <3>1, <3>3, <4>1, ValueIs
      <4> HIDE DEF k
      <4>4. k * Step <= (k + 1) * Step
        BY <4>1, Units
      <4> QED
        BY <4>2, <4>3, <4>4
    <3> QED
      BY <2>1, <3>2, <3>3
  <2>5. \A e \in Dims4 : /\ Value(q, e) = NA <=> Value(r, e) = NA
                         /\ Value(r, e) # NA => Value(r, e) <= Value(q, e)
    BY <2>3, <2>4 DEF Dims4
  <2> QED
    BY <2>1, <2>2, <2>5
<1> QED
  BY <1>1, <1>2 DEF Improvements

\* A target has its two decimals, and a gate that a value meets is met by a greater one
\* (scorer.py _gate_met).
LEMMA TargetType ==
    ASSUME TargetsOK, NEW d \in Configured(targets)
    PROVE  /\ d \in Dims4 /\ Resolved(targets, d) \in Targets
           /\ CardTarget(targets, d) = Resolved(targets, d)
<1>1. d \in DOMAIN targets.own => d \in Dims4 /\ targets.own[d] \in Targets
  BY DEF TargetsOK, IsTable
<1>2. d \in DOMAIN targets.default => d \in Dims4 /\ targets.default[d] \in Targets
  BY DEF TargetsOK, IsTable
<1> QED
  BY <1>1, <1>2 DEF Configured, Resolved, CardTarget

\* A gate that was met is met by a higher value.
LEMMA GateOrder ==
    ASSUME NEW v \in Int, NEW u \in Int, v <= u, NEW target \in Int, NEW d, GateMet(v, target, d)
    PROVE  GateMet(u, target, d)
<1> DEFINE s == Step
<1>1. s \in Nat \ {0}
  BY Units
<1> HIDE DEF s
<1> DEFINE a == v \div s  b == u \div s  c == target \div s
<1>2. a \in Int /\ b \in Int /\ c \in Int /\ a <= b
  BY <1>1, Quotient, QuotientOrder
<1>3. GateMet(v, target, d) <=> IF d \in SemanticDims THEN a >= c ELSE v >= target
  BY DEF GateMet, s
<1>4. GateMet(u, target, d) <=> IF d \in SemanticDims THEN b >= c ELSE u >= target
  BY DEF GateMet, s
<1> HIDE DEF a, b, c
<1> QED
  BY <1>2, <1>3, <1>4
-----------------------------------------------------------------------------
\* The score and the verdict of a row that is a little better: the mean of greater values under the
\* same weights, and fewer gates it fails (scorer.py score_case).
BetterScore(r, q) ==
    LET worth == [fail |-> 0, na |-> 1, pass |-> 2]
        was == ScoreCase(r)  is == ScoreCase(q)
    IN  is.total >= was.total /\ worth[is.outcome] >= worth[was.outcome]

\* Its mean is no lower, because the weights are the same.
LEMMA BetterMean ==
    ASSUME WeightsOK, NEW r, Row(r), NEW q \in Improvements(r), ~Raises(q), Applies(r) # {}
    PROVE  LET W == WeightsOf(Applies(r)) IN
           /\ Mean(Points(r), W) \in Int /\ Mean(Points(q), WeightsOf(Applies(q))) \in Int
           /\ Mean(Points(r), W) <= Mean(Points(q), WeightsOf(Applies(q)))
<1>1. /\ Row(q) /\ q.enabled = r.enabled
      /\ \A d \in Dims4 : /\ Value(q, d) = NA <=> Value(r, d) = NA
                          /\ Value(r, d) # NA => Value(r, d) <= Value(q, d)
  BY BetterIs
<1>2. /\ Applies(r) \in SUBSET Dims4 /\ IsFiniteSet(Applies(r))
      /\ \A d \in Applies(r) : Value(r, d) \in Nat
  BY AppliesIs
<1>3. Applies(q) = Applies(r) /\ \A d \in Applies(q) : Value(q, d) \in Nat
  <2>1. Applies(q) = Applies(r)
    BY <1>1 DEF Applies, Row
  <2> QED
    BY <1>1, <2>1, AppliesIs
<1> DEFINE A == Applies(r)  W == WeightsOf(A)
<1>4. W \in Nat \ {0}
  BY <1>2, <1>3, WeightsOfType DEF Raises
<1>5. Points(r) = Total(Worth(r), A) /\ Points(q) = Total(Worth(q), A)
  BY <1>1, <1>3, PointsIs
<1>6. \A d \in A : Worth(r)[d] \in Int /\ Worth(q)[d] \in Int /\ Worth(r)[d] <= Worth(q)[d]
  <2> TAKE d \in A
  <2> DEFINE w == WeightOf(d)  u == Value(r, d)  v == Value(q, d)
  <2>1. d \in Dims4 /\ u \in Nat /\ v \in Nat /\ u # NA
    BY <1>2, <1>3 DEF NA
  <2>2. w \in Nat /\ u <= v
    BY <1>1, <2>1, WeightType
  <2>3. Worth(r)[d] = u * w /\ Worth(q)[d] = v * w
    BY <2>1 DEF Worth
  <2> HIDE DEF u, v, w
  <2>4. u * w = w * u /\ v * w = w * v /\ w * u <= w * v
    BY <2>1, <2>2, ProductOrder
  <2> QED
    BY <2>1, <2>2, <2>3, <2>4
<1>7. Total(Worth(r), A) \in Int /\ Total(Worth(q), A) \in Int
  BY <1>2, <1>6, TotalType
<1>8. Total(Worth(r), A) <= Total(Worth(q), A)
  BY <1>2, <1>6, TotalOrder
<1> HIDE DEF W
<1>9. /\ Mean(Points(r), W) \in Int /\ Mean(Points(q), W) \in Int
      /\ Mean(Points(r), W) <= Mean(Points(q), W)
  BY <1>4, <1>5, <1>7, <1>8, MeanOrder
<1> QED
  BY <1>3, <1>9 DEF W

\* A gate it fails the row it improves fails too, and what was lost in judging is the same.
LEMMA BetterGates ==
    ASSUME TargetsOK, NEW r, Row(r), NEW q \in Improvements(r)
    PROVE  /\ Applies(q) = Applies(r) /\ TooFewJudged(q) = TooFewJudged(r)
           /\ GateFailed(q) => GateFailed(r)
<1>1. /\ Row(q) /\ q.enabled = r.enabled /\ LostDims(q) = LostDims(r)
      /\ \A d \in Dims4 : /\ Value(q, d) = NA <=> Value(r, d) = NA
                          /\ Value(r, d) # NA => Value(r, d) <= Value(q, d)
  BY BetterIs
<1>2. Applies(q) = Applies(r)
  BY <1>1 DEF Applies, Row
<1>3. TooFewJudged(q) = TooFewJudged(r)
  BY <1>1 DEF TooFewJudged
<1>4. ASSUME NEW d \in Applies(r) \cap Configured(targets), GateMet(Value(r, d), Resolved(targets, d), d)
      PROVE  GateMet(Value(q, d), Resolved(targets, d), d)
  <2> DEFINE u == Value(r, d)  v == Value(q, d)  t == Resolved(targets, d)
  <2>1. d \in Dims4 /\ t \in Targets
    BY TargetType
  <2>2. t \in Int
    BY <2>1, Units DEF Targets
  <2>3. u \in Nat /\ v \in Nat
    BY <1>1, <1>2, AppliesIs
  <2>4. u <= v
    BY <1>1, <2>1, <2>3 DEF NA
  <2> HIDE DEF u, v, t
  <2>5. GateMet(u, t, d)
    BY <1>4 DEF u, t
  <2>6. GateMet(v, t, d)
    BY <2>2, <2>3, <2>4, <2>5, GateOrder
  <2> QED
    BY <2>6 DEF v, t
<1>5. GateFailed(q) => GateFailed(r)
  BY <1>2, <1>4 DEF GateFailed
<1> QED
  BY <1>2, <1>3, <1>5

\* So it has no lower score and no worse verdict.
LEMMA BetterVerdictScore ==
    ASSUME WeightsOK, TargetsOK, NEW r, Row(r), NEW q \in Improvements(r), ~Raises(q)
    PROVE  BetterScore(r, q)
<1>1. /\ Applies(q) = Applies(r) /\ TooFewJudged(q) = TooFewJudged(r)
      /\ GateFailed(q) => GateFailed(r)
  BY BetterGates
<1>2. CASE Applies(r) = {}
  <2>1. ScoreCase(r) = [outcome |-> "na", total |-> NA] /\ ScoreCase(q) = [outcome |-> "na", total |-> NA]
    BY <1>1, <1>2 DEF ScoreCase
  <2> QED
    BY <2>1 DEF BetterScore, NA
<1>3. CASE Applies(r) # {}
  <2> DEFINE x == Mean(Points(r), WeightsOf(Applies(r)))  y == Mean(Points(q), WeightsOf(Applies(q)))
             ox == IF GateFailed(r) THEN "fail" ELSE IF TooFewJudged(r) THEN "na" ELSE "pass"
             oy == IF GateFailed(q) THEN "fail" ELSE IF TooFewJudged(q) THEN "na" ELSE "pass"
  <2>1. x \in Int /\ y \in Int /\ x <= y
    BY <1>3, BetterMean
  <2>2. ScoreCase(r) = [outcome |-> ox, total |-> x] /\ ScoreCase(q) = [outcome |-> oy, total |-> y]
    BY <1>1, <1>3 DEF ScoreCase
  <2> DEFINE worth == [fail |-> 0, na |-> 1, pass |-> 2]
  <2>3. worth[oy] >= worth[ox]
    BY <1>1
  <2> HIDE DEF x, y, ox, oy
  <2> QED
    BY <2>1, <2>2, <2>3 DEF BetterScore
<1> QED
  BY <1>2, <1>3

\* For every improvement of every row.
LEMMA ScoresAreMonotone == ScoringInv => BetterIsNeverWorse
<1> SUFFICES ASSUME ScoringInv, NEW i \in Executed, NEW q \in Improvements(result[i]), ~Raises(q)
             PROVE  BetterScore(result[i], q)
  BY DEF BetterIsNeverWorse, BetterScore
<1>1. WeightsOK /\ TargetsOK /\ Row(result[i])
  BY DEF ScoringInv, Executed
<1> QED
  BY <1>1, BetterVerdictScore
-----------------------------------------------------------------------------
\* judge_incomplete with its two sums written as such (orchestrator.py, the end of the scoring).
MissingWeights(rs) == [i \in DOMAIN rs |-> WeightsOf((rs[i].enabled \cap SemanticDims) \ Applies(rs[i]))]
DueWeights(rs) == [i \in DOMAIN rs |-> WeightsOf(rs[i].enabled)]

\* The flag of the run compares two sums over its rows (scorer.py, judge_incomplete).
LEMMA IncompleteIs ==
    ASSUME NEW rs
    PROVE  LET R == RowsCounted(rs) IN
           Incomplete(rs) <=> /\ Total(DueWeights(rs), R) > 0
                                /\ 100 * Total(MissingWeights(rs), R) > NaThreshold * Total(DueWeights(rs), R)
<1> DEFINE R == RowsCounted(rs)
           missing(i) == WeightsOf((rs[i].enabled \cap SemanticDims) \ Applies(rs[i]))
           due(i) == WeightsOf(rs[i].enabled)
           fitsM(g) == g = [s \in SUBSET R |-> IF s = {} THEN 0 ELSE missing(Pick(s)) + g[s \ {Pick(s)}]]
           fitsD(g) == g = [s \in SUBSET R |-> IF s = {} THEN 0 ELSE due(Pick(s)) + g[s \ {Pick(s)}]]
           lost == (CHOOSE g : fitsM(g))[R]
           all == (CHOOSE g : fitsD(g))[R]
<1>1. Incomplete(rs) <=> all > 0 /\ 100 * lost > NaThreshold * all
  BY DEF Incomplete, MapThenSumSet, MapThenFoldSet, Pick
<1>2. \A i \in R : missing(i) = MissingWeights(rs)[i] /\ due(i) = DueWeights(rs)[i]
  BY DEF RowsCounted, MissingWeights, DueWeights
<1> HIDE DEF missing, due
<1>3. \A s \in SUBSET R : s # {} => /\ missing(Pick(s)) = MissingWeights(rs)[Pick(s)]
                                    /\ due(Pick(s)) = DueWeights(rs)[Pick(s)]
  BY <1>2, PickIs
<1> HIDE DEF R
<1>4. (\A g : fitsM(g) <=> IsSum(g, MissingWeights(rs), R)) /\ (\A g : fitsD(g) <=> IsSum(g, DueWeights(rs), R))
  BY <1>3 DEF IsSum
<1> HIDE DEF fitsM, fitsD
<1>5. lost = Total(MissingWeights(rs), R) /\ all = Total(DueWeights(rs), R)
  <2>1. (CHOOSE g : fitsM(g)) = (CHOOSE g : IsSum(g, MissingWeights(rs), R))
    BY <1>4
  <2>2. (CHOOSE g : fitsD(g)) = (CHOOSE g : IsSum(g, DueWeights(rs), R))
    BY <1>4
  <2> QED
    BY <2>1, <2>2 DEF Total
<1> HIDE DEF lost, all
<1> QED
  BY <1>1, <1>5 DEF R

\* The threshold is a percentage.
LEMMA Threshold == NaThreshold \in Nat
<1>1. NaThreshold \in 0..100
  BY ScoringAssumption
<1> QED
  BY <1>1

\* In a row whose verdict is void the weight that is due counts, and the lost part of it, which is
\* among what is missing, exceeds the threshold.
LEMMA LostIsMissing ==
    ASSUME WeightsOK, NEW r, Row(r), TooFewJudged(r)
    PROVE  LET m == WeightsOf((r.enabled \cap SemanticDims) \ Applies(r))
               d == WeightsOf(r.enabled)
           IN  m \in Nat /\ d \in Nat \ {0} /\ NaThreshold * d < 100 * m
<1> DEFINE M == (r.enabled \cap SemanticDims) \ Applies(r)
           m == WeightsOf(M)  d == WeightsOf(r.enabled)  l == WeightsOf(LostDims(r))
<1>1. r.enabled \in SUBSET Dims4 /\ r.judged \in [SemanticDims -> Levels6 \cup {Unjudged, Lost}]
  BY DEF Row
<1>2. LostDims(r) \in SUBSET M
  <2> SUFFICES ASSUME NEW e \in LostDims(r) PROVE e \notin Applies(r)
    BY DEF LostDims
  <2>1. e \in SemanticDims /\ e \in Dims4 /\ e \notin RuleDims /\ r.judged[e] \notin Levels6
    BY DEF LostDims, Lost, Levels6, Dims4, SemanticDims, RuleDims
  <2> QED
    BY <2>1, ValueIs DEF Applies
<1>3. M \in SUBSET Dims4 /\ r.enabled \in SUBSET Dims4 /\ LostDims(r) \in SUBSET Dims4
  BY <1>1, <1>2
<1>4. m \in Nat /\ d \in Nat /\ l \in Nat /\ l <= m
  BY <1>2, <1>3, WeightsOfType
<1>5. d > 0 /\ 100 * l > NaThreshold * d
  BY DEF TooFewJudged
<1>6. NaThreshold \in Nat
  BY Threshold
<1> HIDE DEF m, d, l
<1>7. NaThreshold * d \in Nat /\ 100 * l <= 100 * m
  BY <1>4, <1>6
<1>8. m \in Nat /\ d \in Nat \ {0} /\ NaThreshold * d < 100 * m
  BY <1>4, <1>5, <1>7
<1> QED
  BY <1>8 DEF m, d, M

\* A run has finitely many rows.
LEMMA ExecutedIsFinite == ScoringInv => IsFiniteSet(Executed)
<1> SUFFICES ASSUME ScoringInv PROVE IsFiniteSet(Executed)
  OBVIOUS
<1> DEFINE n == Len(result)
<1>1. n \in Nat /\ Executed \in SUBSET (1..n)
  BY DEF ScoringInv, Executed
<1> HIDE DEF n
<1>2. IsFiniteSet(1..n)
  BY <1>1, FS_Interval
<1> QED
  BY <1>1, <1>2, FS_Subset

\* The threshold of the run is that of a row.
LEMMA LostRunsAreFlagged == ScoringInv => UnjudgedRunIsFlagged
<1> SUFFICES ASSUME ScoringInv, score.current, Breaking = {}, Executed # {},
                    \A i \in Executed : result[i].outcome = "na" /\ TooFewJudged(result[i])
             PROVE  score.incomplete
  BY DEF UnjudgedRunIsFlagged
<1>1. WeightsOK /\ score.incomplete = Incomplete(result)
  BY DEF ScoringInv
<1>2. RowsCounted(result) = Executed
  BY DEF ScoringInv, RowsCounted, Executed
<1>3. IsFiniteSet(Executed)
  BY ExecutedIsFinite
<1> DEFINE w == MissingWeights(result)  d == DueWeights(result)
<1>4. \A i \in Executed : w[i] \in Nat /\ d[i] \in Nat \ {0} /\ NaThreshold * d[i] < 100 * w[i]
  <2> TAKE i \in Executed
  <2>1. Row(result[i]) /\ TooFewJudged(result[i]) /\ i \in DOMAIN result
    BY DEF ScoringInv, Executed
  <2> QED
    BY <1>1, <2>1, LostIsMissing DEF MissingWeights, DueWeights
<1>5. NaThreshold \in Nat
  BY Threshold
<1> HIDE DEF w, d
<1>6. NaThreshold * Total(d, Executed) < 100 * Total(w, Executed)
  BY <1>3, <1>4, <1>5, TotalShare
<1>7. Total(d, Executed) \in Nat /\ Total(w, Executed) \in Int
  BY <1>3, <1>4, TotalType
<1>8. Total(d, Executed) > 0
  <2>1. \A i \in Executed : d[i] \in Int /\ 1 <= d[i]
    BY <1>4
  <2>2. Cardinality(Executed) * 1 <= Total(d, Executed)
    BY <1>3, <2>1, TotalLeast
  <2>3. Cardinality(Executed) \in Nat /\ Cardinality(Executed) # 0
    BY <1>3, FS_CardinalityType, FS_EmptySet
  <2> QED
    BY <1>7, <2>2, <2>3
<1>9. NaThreshold * Total(d, Executed) \in Nat
  BY <1>5, <1>7
<1> QED
  BY <1>1, <1>2, <1>6, <1>7, <1>8, <1>9, IncompleteIs DEF w, d
-----------------------------------------------------------------------------
\* The card's target of a dimension that has none waiting for a signature is the scorer's
\* (dashboard_rules.py, scorer.py _resolve_targets).
LEMMA CardTargetIs ==
    ASSUME TargetsOK, NEW d \in Configured(targets), \A place \in Places : <<place, d>> \notin targets.pending
    PROVE  CardTarget(Effective, d) = Resolved(targets, d)
<1>1. <<"own", d>> \notin targets.pending /\ <<"default", d>> \notin targets.pending
  BY DEF Places
<1>2. d \in DOMAIN Effective.own <=> d \in DOMAIN targets.own
  BY <1>1 DEF Effective
<1>3. d \in DOMAIN targets.own => Effective.own[d] = targets.own[d]
  BY <1>1 DEF Effective
<1>4. d \in DOMAIN targets.default => Effective.default[d] = targets.default[d]
  BY <1>1 DEF Effective
<1> QED
  BY <1>2, <1>3, <1>4 DEF Configured, Resolved, CardTarget

\* The mean of the card as a sum.
CardValues(d) == [i \in DOMAIN result |-> Value(result[i], d)]
\* The card's score is the sum of what the rows show, divided by their number and rounded.
LEMMA CardScoreIs ==
    ASSUME NEW d
    PROVE  CardScore(d) = Mean(Total(CardValues(d), ShownOn(d)), Cardinality(ShownOn(d)))
<1> DEFINE S == ShownOn(d)  n == Cardinality(S)
           fits(g) == g = [s \in SUBSET S |-> IF s = {} THEN 0 ELSE Value(result[Pick(s)], d) + g[s \ {Pick(s)}]]
           sum == (CHOOSE g : fits(g))[S]
<1>1. CardScore(d) = Mean(sum, n)
  BY DEF CardScore, MapThenSumSet, MapThenFoldSet, Pick
<1>2. \A i \in S : Value(result[i], d) = CardValues(d)[i]
  BY DEF ShownOn, Executed, CardValues
<1>3. \A s \in SUBSET S : s # {} => Value(result[Pick(s)], d) = CardValues(d)[Pick(s)]
  BY <1>2, PickIs
<1> HIDE DEF S
<1>4. \A g : fits(g) <=> IsSum(g, CardValues(d), S)
  BY <1>3 DEF IsSum
<1> HIDE DEF fits
<1>5. (CHOOSE g : fits(g)) = (CHOOSE g : IsSum(g, CardValues(d), S))
  BY <1>4
<1>6. sum = Total(CardValues(d), S)
  BY <1>5 DEF Total
<1> HIDE DEF sum, n
<1> QED
  BY <1>1, <1>6 DEF n, S

\* Whole cents that no value is below are not above the rounded mean.
LEMMA MeanKeeps ==
    ASSUME NEW S, IsFiniteSet(S), S # {}, NEW w, NEW k \in Nat,
           \A x \in S : w[x] \in Int /\ Cent * k <= w[x]
    PROVE  /\ Mean(Total(w, S), Cardinality(S)) \in Int
           /\ Cent * k <= Mean(Total(w, S), Cardinality(S))
<1> DEFINE c == Cent * k  n == Cardinality(S)  t == Total(w, S)
<1>1. c \in Nat
  BY Units
<1>2. n \in Nat \ {0}
  BY FS_CardinalityType, FS_EmptySet
<1>3. t \in Int
  BY TotalType
<1> HIDE DEF c
<1>4. \A x \in S : w[x] \in Int /\ c <= w[x]
  BY DEF c
<1>5. n * c <= t
  BY <1>1, <1>4, TotalLeast
<1> HIDE DEF n, t
<1>6. Mean(t, n) \in Int
  BY <1>2, <1>3, MeanOrder
<1>7. c <= Mean(t, n)
  BY <1>2, <1>3, <1>5, MeanAtLeast DEF c
<1> QED
  BY <1>6, <1>7 DEF n, t, c

\* If every value meets a gate, so does their rounded mean: a level is 2000 cents, and a target of
\* a rule dimension is whole cents (scorer.py _gate_met).
LEMMA MeanMeetsGate ==
    ASSUME NEW S, IsFiniteSet(S), S # {}, NEW w, NEW target \in Targets, NEW d,
           \A x \in S : w[x] \in Nat /\ GateMet(w[x], target, d)
    PROVE  GateMet(Mean(Total(w, S), Cardinality(S)), target, d)
<1> DEFINE mean == Mean(Total(w, S), Cardinality(S))
<1>1. target \in Nat /\ target % Cent = 0
  BY Units DEF Targets
<1>2. CASE d \in SemanticDims
  <2> DEFINE s == Step  k == target \div s  m == 2000 * k
  <2>1. s \in Nat \ {0} /\ s = 2000 * Cent /\ Cent \in Nat \ {0}
    BY Units
  <2> HIDE DEF s
  <2>2. k \in Nat
    BY <1>1, <2>1
  <2>3. \A x \in S : w[x] \in Int /\ k <= w[x] \div s
    BY <1>2 DEF GateMet, s
  <2> HIDE DEF k
  <2>4. m \in Nat /\ Cent * m = s * k
    BY <2>1, <2>2
  <2>5. \A x \in S : w[x] \in Int /\ s * k <= w[x]
    <3> TAKE x \in S
    <3> DEFINE v == w[x]  q == v \div s
    <3>1. v \in Int /\ k <= q
      BY <2>3
    <3> HIDE DEF v
    <3>0. v \in Int /\ s \in Nat \ {0}
      BY <2>1, <3>1
    <3>2. q \in Int /\ s * q <= v
      BY ONLY <3>0, Quotient
    <3> HIDE DEF q
    <3>3. s * k <= s * q /\ s * k \in Int /\ s * q \in Int
      BY <2>1, <2>2, <3>1, <3>2, ProductOrder
    <3>4. v \in Int /\ s * k <= v
      BY <3>1, <3>2, <3>3
    <3> QED
      BY <3>4 DEF v
  <2> HIDE DEF m
  <2>6. mean \in Int /\ Cent * m <= mean
    BY <2>4, <2>5, MeanKeeps
  <2> HIDE DEF mean
  <2>7. k <= mean \div s
    BY <2>1, <2>2, <2>4, <2>6, QuotientAtLeast
  <2>8. GateMet(mean, target, d)
    BY <1>2, <2>1, <2>2, <2>6, <2>7 DEF GateMet, k, s
  <2> QED
    BY <2>8 DEF mean
<1>3. CASE d \notin SemanticDims
  <2> DEFINE c == Cent  k == target \div c
  <2>1. c \in Nat \ {0}
    BY Units
  <2>2. target % c = 0
    BY <1>1
  <2> HIDE DEF c
  <2>3. k \in Nat /\ c * k = target
    BY <1>1, <2>1, <2>2
  <2> HIDE DEF k
  <2>4. \A x \in S : w[x] \in Int /\ target <= w[x]
    BY <1>3, <1>1 DEF GateMet
  <2>5. \A x \in S : w[x] \in Int /\ Cent * k <= w[x]
    BY <2>3, <2>4 DEF c
  <2>6. mean \in Int /\ Cent * k <= mean
    BY <2>3, <2>5, MeanKeeps
  <2> HIDE DEF mean
  <2>7. GateMet(mean, target, d)
    BY <1>1, <1>3, <2>3, <2>6 DEF GateMet, c
  <2> QED
    BY <2>7 DEF mean
<1> QED
  BY <1>2, <1>3

\* A dimension all rows of a run meet is met on the card.
LEMMA GatesOnTheCard == ScoringInv => CardFollowsGates
<1> SUFFICES ASSUME ScoringInv, NEW d \in Configured(targets),
                    \A place \in Places : <<place, d>> \notin targets.pending, ShownOn(d) # {},
                    \A i \in ShownOn(d) : GateMet(Value(result[i], d), Resolved(targets, d), d)
             PROVE  CardMet(d)
  BY DEF CardFollowsGates
<1> DEFINE S == ShownOn(d)  w == CardValues(d)  t == Resolved(targets, d)
<1>1. TargetsOK
  BY DEF ScoringInv
<1>2. CardTarget(Effective, d) = t /\ t \in Targets
  BY <1>1, CardTargetIs, TargetType
<1>3. IsFiniteSet(S)
  BY ExecutedIsFinite, FS_Subset DEF ShownOn
<1>4. \A i \in S : w[i] = Value(result[i], d) /\ w[i] \in Nat
  <2> TAKE i \in S
  <2>1. i \in DOMAIN result /\ Row(result[i]) /\ d \in Applies(result[i])
    BY DEF ScoringInv, ShownOn, Executed
  <2> QED
    BY <2>1, AppliesIs DEF CardValues
<1>5. \A i \in S : w[i] \in Nat /\ GateMet(w[i], t, d)
  BY <1>4
<1>6. CardScore(d) = Mean(Total(w, S), Cardinality(S))
  BY CardScoreIs
<1> HIDE DEF S, w, t
<1>7. GateMet(Mean(Total(w, S), Cardinality(S)), t, d)
  BY <1>2, <1>3, <1>5, MeanMeetsGate DEF S
<1> QED
  BY <1>2, <1>6, <1>7 DEF CardMet

\* A failed case has a dimension listed, and no other case has.
LEMMA FailsAreListed == ScoringInv => FailIsExplained
<1> SUFFICES ASSUME ScoringInv, score.current, NEW i \in Executed, result[i].total # NA
             PROVE  result[i].outcome = "fail" <=> FailDims(result[i]) # {}
  BY DEF FailIsExplained
<1> DEFINE r == result[i]
<1>1. TargetsOK /\ r.outcome = ScoreCase(r).outcome
  BY DEF ScoringInv, ScoredRow
<1>2. \A d \in Configured(targets) : CardTarget(targets, d) = Resolved(targets, d)
  BY <1>1, TargetType
<1>3. GateFailed(r) <=> FailDims(r) # {}
  BY <1>2 DEF GateFailed, FailDims
<1>4. Applies(r) = {} => FailDims(r) = {}
  BY DEF FailDims
<1>5. ScoreCase(r).outcome = "fail" <=> Applies(r) # {} /\ GateFailed(r)
  BY DEF ScoreCase
<1> HIDE DEF r
<1>6. r.outcome = "fail" <=> FailDims(r) # {}
  BY <1>1, <1>3, <1>4, <1>5
<1> QED
  BY <1>6 DEF r
-----------------------------------------------------------------------------
\* The invariant. What is written into the two tables keeps their columns (agents.py).
LEMMA OverwriteIs ==
    ASSUME NEW column, NEW row, IsTable(row, column), NEW body, IsTable(body, column)
    PROVE  IsTable(Overwrite(row, body), column)
BY DEF IsTable, Overwrite

\* A row as the execution leaves it.
LEMMA StoredIs ==
    ASSUME NEW r \in Answered
    PROVE  /\ Row(Stored(r)) /\ Stored(r).total = NA
           /\ Stored(r).outcome = "error" <=> Stored(r).error
BY DEF Answered, Row, Stored

\* The scorer finds rows, weights and targets of this kind.
LEMMA ScoringStarts == ScoringInit => ScoringInv
<1> SUFFICES ASSUME ScoringInit PROVE ScoringInv
  OBVIOUS
<1>1. WeightsOK
  <2> PICK bodies \in WeightTables :
        weights = [own |-> Overwrite(<<>>, bodies.own), default |-> Overwrite(DefaultWeight, bodies.default)]
    BY DEF ScoringInit
  <2>1. IsTable(bodies.own, 0..100) /\ IsTable(bodies.default, 0..100)
    BY ScoringAssumption
  <2>2. IsTable(<<>>, 0..100)
    BY DEF IsTable
  <2>3. IsTable(DefaultWeight, 0..100)
    BY DEF IsTable, DefaultWeight, Dims4, RuleDims, SemanticDims
  <2>4. IsTable(weights.own, 0..100) /\ IsTable(weights.default, 0..100)
    BY <2>1, <2>2, <2>3, OverwriteIs
  <2> QED
    BY <2>4 DEF WeightsOK
<1>2. TargetsOK
  BY ScoringAssumption DEF ScoringInit, TargetsOK
<1>3. PICK rs \in Suites : result = [i \in DOMAIN rs |-> Stored(rs[i])]
  BY DEF ScoringInit
<1>4. rs \in Seq(Answered)
  BY ScoringAssumption
<1>5. Len(result) \in Nat /\ DOMAIN result = 1..Len(result)
  BY <1>3, <1>4
<1>6. \A i \in DOMAIN result : /\ Row(result[i]) /\ result[i].total = NA
                               /\ result[i].outcome = "error" <=> result[i].error
  BY <1>3, <1>4, StoredIs
<1>7. ScoreOK /\ ~score.scored /\ ~score.current
  BY DEF ScoringInit, ScoreOK
<1> QED
  BY <1>1, <1>2, <1>5, <1>6, <1>7 DEF ScoringInv

\* What a row is scored with is not what the scorer writes into it (scorer.py score_case).
LEMMA SameScore ==
    ASSUME NEW r, Row(r), NEW q, Row(q),
           q.enabled = r.enabled /\ q.graded = r.graded /\ q.judged = r.judged
    PROVE  Applies(q) = Applies(r) /\ ScoreCase(q) = ScoreCase(r) /\ (Raises(q) <=> Raises(r))
<1>1. \A d : Value(q, d) = Value(r, d)
  BY DEF Value
<1>2. Applies(q) = Applies(r)
  BY <1>1 DEF Applies
<1>3. Worth(q) = Worth(r)
  BY <1>1 DEF Worth
<1>4. Points(q) = Points(r)
  BY <1>2, <1>3, PointsIs
<1>5. GateFailed(q) <=> GateFailed(r)
  BY <1>1, <1>2 DEF GateFailed
<1>6. TooFewJudged(q) <=> TooFewJudged(r)
  BY DEF TooFewJudged, LostDims
<1>7. ScoreCase(q) = ScoreCase(r)
  BY <1>2, <1>4, <1>5, <1>6 DEF ScoreCase
<1> QED
  BY <1>2, <1>7 DEF Raises

\* A row that is scored has the outcome of its own content.
LEMMA WithScoreIs ==
    ASSUME NEW r, Row(r)
    PROVE  LET q == WithScore(r) IN
           /\ Row(q) /\ q.error = r.error
           /\ q.enabled = r.enabled /\ q.graded = r.graded /\ q.judged = r.judged
           /\ q.outcome = ScoreCase(r).outcome /\ q.outcome \in {"na", "fail", "pass"}
           /\ ScoredRow(q) /\ Applies(q) = Applies(r) /\ (Raises(q) <=> Raises(r))
<1> DEFINE q == WithScore(r)
<1>1. /\ Row(q) /\ q.error = r.error
      /\ q.enabled = r.enabled /\ q.graded = r.graded /\ q.judged = r.judged
      /\ q.outcome = ScoreCase(r).outcome
  BY DEF Row, WithScore
<1>2. ScoreCase(r).outcome \in {"na", "fail", "pass"}
  BY DEF ScoreCase
<1> HIDE DEF q
<1>3. Applies(q) = Applies(r) /\ ScoreCase(q) = ScoreCase(r) /\ (Raises(q) <=> Raises(r))
  BY <1>1, SameScore
<1>4. ScoredRow(q)
  BY <1>1, <1>3 DEF ScoredRow
<1> QED
  BY <1>1, <1>2, <1>3, <1>4 DEF q

\* What is computed from a row changes with the weights and the targets only.
LEMMA SameTables ==
    ASSUME UNCHANGED <<weights, targets>>, NEW r, NEW i, result'[i] = r
    PROVE  /\ Applies(result[i])' = Applies(r)
           /\ ScoreCase(result[i])' = ScoreCase(r) /\ (Raises(result[i])' <=> Raises(r))
<1>1. weights' = weights /\ targets' = targets
  OBVIOUS
<1>2. \A ds : WeightsOf(ds)' = WeightsOf(ds)
  BY <1>1 DEF WeightsOf, MapThenSumSet, MapThenFoldSet, WeightOf, Configured, Resolved
<1>3. Points(result[i])' = Points(r)
  BY <1>1 DEF Points, Value, Applies, PassRate, JudgedScore, MapThenSumSet, MapThenFoldSet,
              WeightOf, Configured, Resolved
<1>4. Applies(result[i])' = Applies(r) /\ LostDims(result[i])' = LostDims(r)
  BY DEF Applies, LostDims, Value, PassRate, JudgedScore
<1>5. GateFailed(result[i])' <=> GateFailed(r)
  BY <1>1 DEF GateFailed, Applies, Configured, Resolved, Value, PassRate, JudgedScore, GateMet
<1>6. WeightsOf(Applies(result[i]))' = WeightsOf(Applies(r))
  BY <1>1 DEF Applies, Value, PassRate, JudgedScore, WeightsOf, MapThenSumSet, MapThenFoldSet,
              WeightOf, Configured, Resolved
<1>7. TooFewJudged(result[i])' <=> TooFewJudged(r)
  BY <1>1 DEF TooFewJudged, LostDims, WeightsOf, MapThenSumSet, MapThenFoldSet, WeightOf,
              Configured, Resolved
<1>8. ScoreCase(result[i])' = ScoreCase(r)
  BY <1>3, <1>4, <1>5, <1>6, <1>7 DEF ScoreCase, Mean, Rounded
<1> QED
  BY <1>4, <1>6, <1>8 DEF Raises

\* The flag depends on the rows' dimensions and judging, not on the verdicts given.
LEMMA SameFlag ==
    ASSUME weights' = weights, NEW rs, result' = rs
    PROVE  Incomplete(result)' <=> Incomplete(rs)
BY DEF Incomplete, RowsCounted, Applies, Value, PassRate, JudgedScore, WeightsOf, MapThenSumSet,
       MapThenFoldSet, WeightOf, Configured, Resolved

\* The first row that raises.
LEMMA LeastBreaking ==
    ASSUME NEW n \in Nat, NEW S \in SUBSET (1..n), S # {}
    PROVE  Min(S) \in Int
<1>1. S \in SUBSET Nat
  OBVIOUS
<1>2. PICK k \in S : \A m \in S : ~(m < k)
  BY <1>1, LeastOfNat
<1>3. \A m \in S : k <= m
  BY <1>1, <1>2
<1>4. Min(S) \in S
  BY <1>3 DEF Min
<1>5. Min(S) \in Nat
  BY <1>1, <1>4, Zenon
<1> QED
  BY <1>5

\* The rows after scoring those before one of them.
LEMMA ScoredIs ==
    ASSUME ScoringInv, NEW upto \in Int, UNCHANGED <<weights, targets>>, result' = Scored(upto)
    PROVE  /\ Len(result') = Len(result) /\ DOMAIN result' = 1..Len(result)
           /\ Executed' = Executed /\ Breaking' = Breaking
           /\ \A i \in DOMAIN result' :
                /\ Row(result[i])' /\ ((result[i].outcome = "error")' <=> (result[i].error)')
                /\ i \in Executed => ScoredRow(result[i])' \/ result'[i] = result[i]
<1>1. Len(result) \in Nat /\ DOMAIN result = 1..Len(result)
  BY DEF ScoringInv
<1>2. result' = [i \in 1..Len(result) |->
                   IF i < upto /\ i \in Executed THEN WithScore(result[i]) ELSE result[i]]
  BY <1>1 DEF Scored
<1>3. Len(result') = Len(result) /\ DOMAIN result' = 1..Len(result)
  BY <1>1, <1>2
<1>4. ASSUME NEW i \in 1..Len(result), i \in Executed, result'[i] = WithScore(result[i])
      PROVE  /\ Row(result[i])' /\ ((result[i].outcome = "error")' <=> (result[i].error)')
             /\ ScoredRow(result[i])' /\ result'[i].error = result[i].error
             /\ (Raises(result[i])' <=> Raises(result[i]))
  <2>1. Row(result[i]) /\ ~result[i].error
    BY <1>1, <1>4 DEF ScoringInv, Executed
  <2> PICK q : q = WithScore(result[i])
    OBVIOUS
  <2>2. /\ Row(q) /\ q.error = result[i].error /\ q.outcome \in {"na", "fail", "pass"}
        /\ ScoredRow(q) /\ (Raises(q) <=> Raises(result[i]))
    BY <2>1, WithScoreIs
  <2>3. result'[i] = q
    BY <1>4
  <2>4. Row(result[i])'
    BY <2>2, <2>3 DEF Row
  <2>5. ScoreCase(result[i])' = ScoreCase(q) /\ (Raises(result[i])' <=> Raises(q))
    BY <2>3, SameTables
  <2> QED
    BY <2>1, <2>2, <2>3, <2>4, <2>5 DEF ScoredRow
<1>5. ASSUME NEW i \in 1..Len(result), result'[i] = result[i]
      PROVE  /\ Row(result[i])' /\ ((result[i].outcome = "error")' <=> (result[i].error)')
             /\ result'[i].error = result[i].error /\ (Raises(result[i])' <=> Raises(result[i]))
  <2>1. Row(result[i]) /\ (result[i].outcome = "error" <=> result[i].error)
    BY <1>1 DEF ScoringInv
  <2> PICK q : q = result[i]
    OBVIOUS
  <2>2. Raises(result[i])' <=> Raises(q)
    BY <1>5, SameTables
  <2>3. Row(result[i])'
    BY <1>5, <2>1 DEF Row
  <2> QED
    BY <1>5, <2>1, <2>2, <2>3
<1>6. \A i \in 1..Len(result) : (i \in Executed /\ result'[i] = WithScore(result[i])) \/ result'[i] = result[i]
  BY <1>2
<1>7. \A i \in 1..Len(result) : result'[i].error = result[i].error /\ (Raises(result[i])' <=> Raises(result[i]))
  BY <1>4, <1>5, <1>6
<1>8. Executed' = Executed
  BY <1>1, <1>3, <1>7 DEF Executed
<1>9. Breaking' = Breaking
  BY <1>1, <1>7, <1>8 DEF Breaking, Executed
<1>10. \A i \in 1..Len(result) :
        /\ Row(result[i])' /\ ((result[i].outcome = "error")' <=> (result[i].error)')
        /\ i \in Executed => ScoredRow(result[i])' \/ result'[i] = result[i]
  BY <1>4, <1>5, <1>6
<1> QED
  BY <1>3, <1>8, <1>9, <1>10

\* Rows that are left alone under the same tables are what they were.
LEMMA SameRun ==
    ASSUME ScoringInv, result' = result, weights' = weights, targets' = targets
    PROVE  /\ Executed' = Executed /\ Breaking' = Breaking
           /\ \A i \in DOMAIN result : Row(result[i])' /\ (ScoredRow(result[i])' <=> ScoredRow(result[i]))
<1>1. Executed' = Executed
  BY DEF Executed
<1>2. ASSUME NEW i \in DOMAIN result
      PROVE  /\ Row(result[i])' /\ (ScoredRow(result[i])' <=> ScoredRow(result[i]))
             /\ Raises(result[i])' <=> Raises(result[i])
  <2> PICK q : q = result[i]
    OBVIOUS
  <2>1. result'[i] = q /\ Row(q)
    BY DEF ScoringInv
  <2>2. ScoreCase(result[i])' = ScoreCase(q) /\ (Raises(result[i])' <=> Raises(q))
    BY <2>1, SameTables
  <2> QED
    BY <2>1, <2>2 DEF Row, ScoredRow
<1>3. Breaking' = Breaking
  BY <1>1, <1>2 DEF Breaking, Executed
<1> QED
  BY <1>1, <1>2, <1>3

\* Scoring writes outcomes and totals, the counts and the flag; a row that raises leaves the flag.
LEMMA ScoreRunKeeps == ScoringInv /\ ScoreRun => ScoringInv'
<1> SUFFICES ASSUME ScoringInv, ScoreRun PROVE ScoringInv'
  OBVIOUS
<1>1. /\ weights' = weights /\ targets' = targets /\ UNCHANGED <<weights, targets>>
      /\ ~score.scored /\ Len(result) \in Nat /\ DOMAIN result = 1..Len(result)
      /\ \A i \in DOMAIN result : result[i].total = NA
  BY DEF ScoringInv, ScoreRun
<1>2. WeightsOK' /\ TargetsOK'
  BY <1>1 DEF ScoringInv, WeightsOK, TargetsOK
<1> DEFINE all == Scored(Len(result) + 1)
<1>3. ASSUME Breaking # {} PROVE ScoreOK' /\ score'.scored /\ score'.current
  <2> DEFINE status == IF score.status = "timeout" THEN score.status ELSE "partial_failed"
  <2>1. score' = [score EXCEPT !.scored = TRUE, !.current = TRUE, !.status = status]
    BY <1>3 DEF ScoreRun
  <2> HIDE DEF status
  <2> QED
    BY <2>1 DEF ScoringInv, ScoreOK
<1>4. Breaking = {} => /\ ScoreOK' /\ score'.scored /\ score'.current
                        /\ result' = all /\ score'.incomplete = Incomplete(all)
  <2> SUFFICES ASSUME Breaking = {}
               PROVE  /\ ScoreOK' /\ score'.scored /\ score'.current
                      /\ result' = all /\ score'.incomplete = Incomplete(all)
    OBVIOUS
  <2> DEFINE status == IF score.status = "timeout" THEN "timeout"
                       ELSE IF Executed # DOMAIN result THEN "partial_failed" ELSE "completed"
             counts == Counts(all)  flag == Incomplete(all)  tuned == score.tuned
  <2>1. /\ result' = all
        /\ score' = [status |-> status, counts |-> counts, incomplete |-> flag, scored |-> TRUE,
                     tuned |-> tuned, current |-> TRUE]
    BY Zenon DEF ScoreRun
  <2>2. flag \in BOOLEAN
    BY DEF Incomplete
  <2>3. tuned \in Nat
    BY DEF ScoringInv, ScoreOK
  <2> HIDE DEF status, counts, flag, tuned
  <2>4. ScoreOK' /\ score'.scored /\ score'.current /\ score'.incomplete = flag
    BY <2>1, <2>2, <2>3 DEF ScoreOK
  <2> QED
    BY <2>1, <2>4 DEF flag
<1>5. ScoreOK' /\ score'.scored /\ score'.current
  BY <1>3, <1>4
<1>6. \/ result' = result
      \/ \E upto \in Int : result' = Scored(upto)
  <2>1. Breaking # {} => Min(Breaking) \in Int
    <3> SUFFICES ASSUME Breaking # {} PROVE Min(Breaking) \in Int
      OBVIOUS
    <3>1. Breaking \in SUBSET (1..Len(result)) /\ Breaking # {}
      BY <1>1 DEF Breaking, Executed
    <3> QED
      BY <1>1, <3>1, LeastBreaking
  <2> QED
    BY <1>1, <2>1 DEF ScoreRun
<1>7. /\ Len(result') = Len(result) /\ DOMAIN result' = 1..Len(result)
      /\ Executed' = Executed /\ Breaking' = Breaking
      /\ \A i \in DOMAIN result' :
           /\ Row(result[i])' /\ ((result[i].outcome = "error")' <=> (result[i].error)')
           /\ i \in Executed => ScoredRow(result[i])'
  <2>1. CASE result' = result
    <3>1. /\ Executed' = Executed /\ Breaking' = Breaking
          /\ \A i \in DOMAIN result : Row(result[i])'
      BY <1>1, <2>1, SameRun
    <3>2. \A i \in DOMAIN result : ScoredRow(result[i])'
      BY <1>1, <2>1 DEF ScoredRow
    <3>3. \A i \in DOMAIN result : (result[i].outcome = "error")' <=> (result[i].error)'
      BY <2>1 DEF ScoringInv
    <3> QED
      BY <1>1, <2>1, <3>1, <3>2, <3>3
  <2>2. CASE \E upto \in Int : result' = Scored(upto)
    <3> PICK upto \in Int : result' = Scored(upto)
      BY <2>2
    <3>1. /\ Len(result') = Len(result) /\ DOMAIN result' = 1..Len(result)
          /\ Executed' = Executed /\ Breaking' = Breaking
          /\ \A i \in DOMAIN result' :
               /\ Row(result[i])' /\ ((result[i].outcome = "error")' <=> (result[i].error)')
               /\ i \in Executed => ScoredRow(result[i])' \/ result'[i] = result[i]
      BY <1>1, ScoredIs
    <3>2. \A i \in DOMAIN result : result'[i] = result[i] => ScoredRow(result[i])'
      BY <1>1 DEF ScoredRow
    <3> QED
      BY <1>1, <3>1, <3>2
  <2> QED
    BY <1>6, <2>1, <2>2
<1>8. (score.current /\ Breaking = {} => score.incomplete = Incomplete(result))'
  <2> SUFFICES ASSUME Breaking = {} PROVE score'.incomplete = Incomplete(result)'
    BY <1>7
  <2> PICK rs : rs = all
    OBVIOUS
  <2>1. result' = rs /\ score'.incomplete = Incomplete(rs)
    BY <1>4
  <2> HIDE DEF all
  <2>2. Incomplete(result)' <=> Incomplete(rs)
    BY <1>1, <2>1, SameFlag
  <2>3. Incomplete(result)' \in BOOLEAN /\ Incomplete(rs) \in BOOLEAN
    BY DEF Incomplete
  <2> QED
    BY <2>1, <2>2, <2>3
<1>9. (Len(result) \in Nat /\ DOMAIN result = 1..Len(result))'
  BY <1>1, <1>7
<1>10. (\A i \in DOMAIN result : Row(result[i]) /\ (result[i].outcome = "error" <=> result[i].error))'
  BY <1>7
<1>11. (score.current => score.scored /\ \A i \in Executed : ScoredRow(result[i]))'
  <2>1. \A i \in Executed' : i \in DOMAIN result'
    BY DEF Executed
  <2> QED
    BY <1>7, <1>5, <2>1
<1> QED
  BY <1>2, <1>5, <1>8, <1>9, <1>10, <1>11 DEF ScoringInv

\* Weights and targets that are changed keep their columns; what was scored is no longer current.
LEMMA TunedKeeps ==
    ASSUME ScoringInv, Tuned, WeightsOK', TargetsOK'
    PROVE  ScoringInv'
<1>1. result' = result /\ score' = [score EXCEPT !.tuned = score.tuned + 1, !.current = FALSE]
  BY DEF Tuned
<1>2. ScoreOK' /\ ~score'.current /\ score'.scored = score.scored
  <2> DEFINE n == score.tuned + 1
  <2>1. ScoreOK /\ score' = [score EXCEPT !.tuned = n, !.current = FALSE]
    BY <1>1 DEF ScoringInv
  <2>2. n \in Nat
    BY <2>1 DEF ScoreOK
  <2> HIDE DEF n
  <2> QED
    BY <2>1, <2>2 DEF ScoreOK
<1>3. (Len(result) \in Nat /\ DOMAIN result = 1..Len(result))'
  BY <1>1 DEF ScoringInv
<1>4. (\A i \in DOMAIN result : Row(result[i]) /\ (result[i].outcome = "error" <=> result[i].error))'
  BY <1>1 DEF ScoringInv, Row
<1>5. (~score.scored => \A i \in DOMAIN result : result[i].total = NA)'
  BY <1>1, <1>2 DEF ScoringInv, NA
<1> QED
  BY <1>2, <1>3, <1>4, <1>5 DEF ScoringInv

\* PUT of weights.
LEMMA SetWeightsKeeps == ScoringInv /\ SetWeights => ScoringInv'
<1> SUFFICES ASSUME ScoringInv, SetWeights PROVE ScoringInv'
  OBVIOUS
<1> PICK place \in Places, body \in WeightPuts :
      /\ Tuned /\ UNCHANGED targets
      /\ \A d \in DOMAIN body : LegalWeight(body[d])
      /\ weights' = [weights EXCEPT ![place] = Overwrite(weights[place], body)]
  BY DEF SetWeights
<1>1. IsTable(body, 0..100)
  <2>1. IsTable(body, Int)
    BY ScoringAssumption
  <2> QED
    BY <2>1 DEF IsTable, LegalWeight
<1>2. WeightsOK /\ TargetsOK
  BY DEF ScoringInv
<1>3. IsTable(weights[place], 0..100)
  BY <1>2 DEF WeightsOK, Places
<1> DEFINE new == Overwrite(weights[place], body)
<1>4. IsTable(new, 0..100)
  BY <1>1, <1>3, OverwriteIs
<1> HIDE DEF new
<1>5. weights' = [weights EXCEPT ![place] = new]
  BY DEF new
<1>6. WeightsOK'
  BY <1>2, <1>4, <1>5 DEF WeightsOK, Places
<1>7. TargetsOK'
  BY <1>2 DEF TargetsOK
<1> QED
  BY <1>6, <1>7, TunedKeeps

\* PUT of targets.
LEMMA SetTargetsKeeps == ScoringInv /\ SetTargets => ScoringInv'
<1> SUFFICES ASSUME ScoringInv, SetTargets PROVE ScoringInv'
  OBVIOUS
<1> PICK place \in Places, t \in TargetPuts, pending \in BOOLEAN :
      /\ Tuned /\ UNCHANGED weights /\ LegalTarget(targets[place], t)
      /\ targets' = [targets EXCEPT ![place] = Overwrite(@, [d \in {t.dim} |-> t.score]),
                                    !.pending = IF pending THEN @ \cup {<<place, t.dim>>}
                                                ELSE @ \ {<<place, t.dim>>}]
  BY DEF SetTargets
<1> DEFINE body == [d \in {t.dim} |-> t.score]
           new == Overwrite(targets[place], body)
           left == IF pending THEN targets.pending \cup {<<place, t.dim>>}
                   ELSE targets.pending \ {<<place, t.dim>>}
<1>1. t.dim \in Dims4 /\ t.score \in Targets
  BY ScoringAssumption DEF LegalTarget, Targets
<1>2. WeightsOK /\ TargetsOK
  BY DEF ScoringInv
<1>3. IsTable(body, Targets) /\ IsTable(targets[place], Targets)
  BY <1>1, <1>2 DEF TargetsOK, Places, IsTable
<1>4. left \in SUBSET (Places \X Dims4)
  <2>1. targets.pending \in SUBSET (Places \X Dims4)
    BY <1>2 DEF TargetsOK
  <2>2. <<place, t.dim>> \in Places \X Dims4
    BY <1>1
  <2> QED
    BY <2>1, <2>2
<1>5. targets' = [targets EXCEPT ![place] = new, !.pending = left]
  <2>1. place # "pending"
    BY DEF Places
  <2> QED
    BY <2>1, <1>2 DEF TargetsOK, Places
<1> HIDE DEF body
<1>6. IsTable(new, Targets)
  BY <1>3, OverwriteIs
<1> HIDE DEF new, left
<1>7. TargetsOK'
  BY <1>2, <1>4, <1>5, <1>6 DEF TargetsOK, Places
<1>8. WeightsOK'
  BY <1>2 DEF WeightsOK
<1> QED
  BY <1>7, <1>8, TunedKeeps

\* Nothing happens.
LEMMA ScoringStutters == ScoringInv /\ UNCHANGED scoringVars => ScoringInv'
<1> SUFFICES ASSUME ScoringInv, UNCHANGED scoringVars PROVE ScoringInv'
  OBVIOUS
<1>1. result' = result /\ weights' = weights /\ targets' = targets /\ score' = score
  BY DEF scoringVars
<1>2. WeightsOK' /\ TargetsOK' /\ ScoreOK'
  BY <1>1 DEF ScoringInv, WeightsOK, TargetsOK, ScoreOK
<1>3. /\ Executed' = Executed /\ Breaking' = Breaking
      /\ \A i \in DOMAIN result : Row(result[i])' /\ (ScoredRow(result[i])' <=> ScoredRow(result[i]))
  BY <1>1, SameRun
<1>4. (\A i \in DOMAIN result : Row(result[i]) /\ (result[i].outcome = "error" <=> result[i].error))'
  BY <1>1, <1>3 DEF ScoringInv
<1>5. (~score.scored => \A i \in DOMAIN result : result[i].total = NA)'
  BY <1>1 DEF ScoringInv, NA
<1>6. (score.current => score.scored /\ \A i \in Executed : ScoredRow(result[i]))'
  <2>1. \A i \in Executed : i \in DOMAIN result
    BY DEF Executed
  <2> QED
    BY <1>1, <1>3, <2>1 DEF ScoringInv
<1>7. (score.current /\ Breaking = {} => score.incomplete = Incomplete(result))'
  <2> SUFFICES ASSUME score.current, Breaking = {} PROVE score.incomplete = Incomplete(result)'
    BY <1>1, <1>3
  <2> PICK rs : rs = result
    OBVIOUS
  <2>1. result' = rs /\ score.incomplete = Incomplete(rs)
    BY <1>1 DEF ScoringInv
  <2>2. Incomplete(result)' <=> Incomplete(rs)
    BY <1>1, <2>1, SameFlag
  <2>3. Incomplete(result)' \in BOOLEAN /\ Incomplete(rs) \in BOOLEAN
    BY DEF Incomplete
  <2> QED
    BY <2>1, <2>2, <2>3
<1>8. (Len(result) \in Nat /\ DOMAIN result = 1..Len(result))'
  BY <1>1 DEF ScoringInv
<1> QED
  BY <1>2, <1>4, <1>5, <1>6, <1>7, <1>8 DEF ScoringInv

\* What is true of a run from its execution on.
LEMMA ScoringSafe == ScoringInit /\ [][ScoringNext]_scoringVars => []ScoringInv
<1>1. ScoringInv /\ [ScoringNext]_scoringVars => ScoringInv'
  BY ScoreRunKeeps, SetWeightsKeeps, SetTargetsKeeps, ScoringStutters DEF ScoringNext
<1> QED
  BY <1>1, ScoringStarts, PTL

\* Whatever weights, gates, inapplicable dimensions and lost verdicts a case has, and however they
\* are changed (scorer.py score_case): an answer that passes one assertion more, or is judged one
\* level better, has the same dimensions under the same weights, so its mean does not fall, and a
\* gate that was met still is.
THEOREM ScoresDoNotPunish == ScoringInit /\ [][ScoringNext]_scoringVars => []BetterIsNeverWorse
BY ScoringSafe, ScoresAreMonotone, PTL

\* For runs of any length (scorer.py score_case, orchestrator.py the end of the scoring): if every
\* answer is left without a verdict because too much of its judging failed, the run is flagged. What
\* is lost in a row exceeds the threshold, and a share that is exceeded in every row is in the sums.
THEOREM LostJudgingIsFlagged == ScoringInit /\ [][ScoringNext]_scoringVars => []UnjudgedRunIsFlagged
BY ScoringSafe, LostRunsAreFlagged, PTL

\* For runs of any length and targets of whole cents (scorer.py _gate_met, dashboard_rules.py
\* build_baseline, runs.py run_failures): the card follows gates that every answer meets, since the
\* rounded mean is no less than the target, and a failed case has a dimension listed.
THEOREM ViewsAgree == ScoringInit /\ [][ScoringNext]_scoringVars => []ViewsFollowGates
<1>1. ScoringInv => ViewsFollowGates
  BY GatesOnTheCard, FailsAreListed DEF ViewsFollowGates
<1> QED
  BY <1>1, ScoringSafe, PTL
-----------------------------------------------------------------------------
(* The probe.                                                              *)

ProbeInv == exchange \in Streams \cup Replies /\ asked \in AllQuestions

\* For any exchange and any request for a probe (probe.py, agents.py probe_agent, engine.py
\* parse_sync, assembler.py, executor.py _dispatch): an exchange the probe accepts was answered and
\* lacks neither its end nor its usage for the execution of a case, which scores it if its values are
\* texts within the limits of a case; and a probe that has an input and its file is sent.
THEOREM ProbesForetell == ProbeInit /\ [][ProbeNext \/ ProbeAgain]_probeVars => []ProbeForetells
<1>1. ProbeInit => ProbeInv
  BY ProbeAssumption DEF ProbeInit, ProbeInv
<1>2. ProbeInv /\ [ProbeNext \/ ProbeAgain]_probeVars => ProbeInv'
  <2> SUFFICES ASSUME ProbeInv, [ProbeNext \/ ProbeAgain]_probeVars PROVE ProbeInv'
    OBVIOUS
  <2>1. CASE ProbeNext
    <3> PICK es \in SUBSET EventTypes :
          exchange.contract = "sse" /\ exchange' = [exchange EXCEPT !.events = es] /\ UNCHANGED asked
      BY <2>1 DEF ProbeNext
    <3>1. exchange \in Streams
      BY DEF ProbeInv, Replies
    <3>2. exchange' \in Streams
      BY <3>1 DEF Streams
    <3> QED
      BY <3>2 DEF ProbeInv
  <2>2. CASE ProbeAgain
    <3> PICK again \in {[asked EXCEPT !.body = "input"], [asked EXCEPT !.file = TRUE]} :
          asked' = again /\ UNCHANGED exchange
      BY <2>2 DEF ProbeAgain
    <3>1. again \in AllQuestions
      BY DEF ProbeInv, AllQuestions
    <3> QED
      BY <3>1 DEF ProbeInv
  <2>3. CASE UNCHANGED probeVars
    BY <2>3 DEF ProbeInv, probeVars
  <2> QED
    BY <2>1, <2>2, <2>3
<1>3. ProbeInv => ProbeFindsInput
  BY DEF ProbeInv, AllQuestions, ProbeFindsInput, Probed, ProbeAgent, LooksForCase, Source, ResolveProbeInput
<1>4. ProbeInv => AcceptedIsUsable
  <2> SUFFICES ASSUME ProbeInv PROVE AcceptedIsUsable
    OBVIOUS
  <2> USE DEF AcceptedIsUsable, ProbeOk, ProbeErrors, ExecuteCase, InputError, Texts, WithinLimits, AsContracted
  <2>1. CASE exchange \in Streams
    <3> USE DEF Streams, Statuses, SseErrors, ExecutedStream, HasDelta
    <3>1. exchange.contract = "sse" /\ exchange.events \in SUBSET EventTypes
      BY <2>1
    <3>2. ASSUME ProbeOk(exchange)
          PROVE  /\ exchange.prepare = "ok" /\ exchange.status = 200
                 /\ {"usage", "done"} \subseteq exchange.events
                 /\ exchange.end \notin {"broken", "cut"}
      <4>1. exchange.prepare = "ok" /\ exchange.status = 200
        BY <3>2
      <4>2. SseErrors(exchange) \cup ({"broken", "cut"} \cap {exchange.end}) = {}
        BY <3>1, <3>2, <4>1
      <4> QED
        BY <4>1, <4>2
    <3>3. InputError(exchange) => ~ProbeOk(exchange) /\ ExecuteCase(exchange) # "ok"
      BY <2>1, <3>1
    <3>4. ASSUME ProbeOk(exchange)
          PROVE  ExecuteCase(exchange) = ExecutedStream(exchange)
      BY <3>1, <3>2, <3>4
    <3>5. ASSUME ProbeOk(exchange)
          PROVE  /\ ExecutedStream(exchange) \in {"ok", "contract_error", "body_too_large", "timeout"}
                 /\ Texts(exchange) /\ WithinLimits(exchange) => ExecutedStream(exchange) = "ok"
      BY <2>1, <3>1, <3>2, <3>5
    <3> QED
      BY <3>3, <3>4, <3>5
  <2>2. CASE exchange \in Replies
    BY <2>2 DEF Replies, Statuses, Shapes, SyncErrors, UsageOk, ExecutedReply, Ingests, HasUsage
  <2> QED
    BY <2>1, <2>2 DEF ProbeInv
<1>5. ProbeInv => ProbeForetells
  BY <1>3, <1>4 DEF ProbeForetells
<1> QED
  BY <1>1, <1>2, <1>5, PTL
-----------------------------------------------------------------------------
(* The assertions.                                                         *)

AssertionsInv ==
    /\ unified \in [answer : Values, list : Values, calls : {unified.calls}]
    /\ unified.list \notin Scalars

\* Comparisons do not change when both sides are multiplied.
LEMMA Cancelled ==
    ASSUME NEW c \in Nat \ {0}, NEW x \in Int, NEW y \in Int
    PROVE  c * x >= c * y <=> x >= y
<1>1. x >= y => c * x >= c * y
  BY ProductOrder
<1>2. x < y => c * x < c * y
  <2> SUFFICES ASSUME x < y PROVE c * x < c * y
    OBVIOUS
  <2>1. x + 1 <= y
    OBVIOUS
  <2>2. c * (x + 1) <= c * y
    BY <2>1, ProductOrder
  <2> QED
    BY <2>2
<1> QED
  BY <1>1, <1>2

\* F1 of two finite sets is twice what is common over the members of both (structural.py
\* list_precision_recall).
LEMMA OverlapIs ==
    ASSUME NEW a, IsFiniteSet(a), NEW e, IsFiniteSet(e), NEW share \in Nat
    PROVE  LET both == Cardinality(a) + Cardinality(e) IN
           F1(a, e)[1] * 100 >= share * F1(a, e)[2]
             <=> (both = 0 /\ share <= 100) \/ (both > 0 /\ 200 * Cardinality(a \cap e) >= share * both)
<1> DEFINE m == Cardinality(a)  n == Cardinality(e)  c == Cardinality(a \cap e)
           p == Precision(a, e)  q == Recall(a, e)
<1>1. m \in Nat /\ n \in Nat /\ c \in Nat /\ (a = {} <=> m = 0) /\ (e = {} <=> n = 0)
  BY FS_CardinalityType, FS_EmptySet, FS_Intersection
<1>2. m = 0 \/ n = 0 => c = 0
  <2>1. m = 0 \/ n = 0 => a \cap e = {}
    BY <1>1
  <2> QED
    BY <2>1, FS_EmptySet
<1>3. p = IF m = 0 THEN <<IF n = 0 THEN 1 ELSE 0, 1>> ELSE <<c, m>>
  BY <1>1 DEF Precision
<1>4. q = IF n = 0 THEN <<1, 1>> ELSE <<c, n>>
  BY <1>1 DEF Recall
<1>5. F1(a, e) = IF p[1] + q[1] = 0 THEN <<0, 1>>
                 ELSE <<2 * p[1] * q[1], p[1] * q[2] + q[1] * p[2]>>
  BY DEF F1
<1> HIDE DEF m, n, c, p, q
<1>6. F1(a, e)[1] * 100 >= share * F1(a, e)[2]
        <=> (m + n = 0 /\ share <= 100) \/ (m + n > 0 /\ 200 * c >= share * (m + n))
  <2>1. CASE m = 0 /\ n = 0
    <3>1. F1(a, e) = <<2, 2>>
      BY <2>1, <1>3, <1>4, <1>5
    <3> QED
      BY <2>1, <3>1
  <2>2. CASE c = 0 /\ ~(m = 0 /\ n = 0)
    <3>1. F1(a, e)[1] = 0 /\ F1(a, e)[2] \in Nat \ {0}
      <4>1. CASE m = 0
        BY <4>1, <2>2, <1>1, <1>3, <1>4, <1>5
      <4>2. CASE m # 0 /\ n = 0
        BY <4>2, <2>2, <1>1, <1>3, <1>4, <1>5
      <4>3. CASE m # 0 /\ n # 0
        BY <4>3, <2>2, <1>1, <1>3, <1>4, <1>5
      <4> QED
        BY <4>1, <4>2, <4>3
    <3>2. ASSUME NEW k \in Nat \ {0} PROVE 0 >= share * k <=> share = 0
      <4>1. k * 0 >= k * share <=> 0 >= share
        BY <3>2, Cancelled
      <4> QED
        BY <4>1
    <3>3. m + n \in Nat \ {0}
      BY <1>1, <2>2
    <3> QED
      BY <2>2, <3>1, <3>2, <3>3
  <2>3. CASE c # 0
    <3>1. m # 0 /\ n # 0
      BY <1>2, <2>3
    <3>2. F1(a, e) = <<2 * c * c, c * n + c * m>>
      BY <1>1, <1>3, <1>4, <1>5, <2>3, <3>1
    <3>3. F1(a, e)[1] * 100 = c * (200 * c) /\ share * F1(a, e)[2] = c * (share * (m + n))
      BY <1>1, <3>2
    <3>4. c * (200 * c) >= c * (share * (m + n)) <=> 200 * c >= share * (m + n)
      <4>1. 200 * c \in Int /\ share * (m + n) \in Int /\ c \in Nat \ {0}
        BY <1>1, <2>3
      <4> QED
        BY <4>1, Cancelled
    <3> QED
      BY <1>1, <3>1, <3>3, <3>4
  <2> QED
    BY <2>1, <2>2, <2>3
<1> QED
  BY <1>6 DEF m, n, c

\* What a value is that has a type.
LEMMA ValueTypes ==
    ASSUME NEW v \in Values
    PROVE  /\ v.type = "text" => v.of \in SUBSET Words
           /\ v.type = "list" => v.of \in SUBSET Words
           /\ v.type = "number" => v \in Scalars /\ v = Number(v.n)
BY DEF Values, Missing, Null, Objects, Spaces, Scalars, Number, Boolean, Text, List

\* An assertion alone decides the verdict.
LEMMA VerdictOfOne ==
    ASSUME NEW r, NEW a
    PROVE  ErrorVerdict(r, {a}) = IF Passes(r, a) THEN "pass" ELSE "fail"
BY DEF ErrorVerdict, RunAssertions

\* Every comparison of an operator with its reference.
LEMMA OperatorsAgree == AssertionsInv => OpsAgree
<1> SUFFICES ASSUME AssertionsInv PROVE OpsAgree
  OBVIOUS
<1>1. unified.answer \in Values /\ unified.list \in Values
  BY DEF AssertionsInv
<1>2. \A n \in 0..2 : RangeOfOne(n)
  <2> TAKE n \in 0..2
  <2> DEFINE v == unified.answer
  <2> SUFFICES ASSUME v.type = "number", v.n \in n..n PROVE ValueEquals(v, Number(n))
    BY DEF RangeOfOne, ValueRange
  <2>1. v = Number(v.n) /\ v.n = n
    BY <1>1, ValueTypes
  <2> QED
    BY <2>1 DEF ValueEquals
<1>3. ASSUME NEW e \in SUBSET Words, NEW share \in Shares PROVE OverlapDecides(e, share)
  <2> SUFFICES ASSUME unified.list.type = "list" PROVE OverlapDecides(e, share)
    BY DEF OverlapDecides
  <2> DEFINE a == unified.list.of
  <2>1. IsFiniteSet(a) /\ IsFiniteSet(e) /\ share \in Nat
    BY <1>1, AssertionsAssumption, ValueTypes, FS_Subset
  <2> HIDE DEF a
  <2>2. LET both == Cardinality(a) + Cardinality(e) IN
        F1(a, e)[1] * 100 >= share * F1(a, e)[2]
          <=> (both = 0 /\ share <= 100) \/ (both > 0 /\ 200 * Cardinality(a \cap e) >= share * both)
    BY <2>1, OverlapIs
  <2> QED
    BY <2>2 DEF OverlapDecides, ListPrecisionRecall, a
<1>4. ASSUME NEW ws \in (SUBSET Words) \ {{}}, NEW p \in {"any", "all"}, NEW q \in {"any", "all"}, p # q
      PROVE  Contraries(ws, p, q)
  <2> DEFINE v == unified.answer
             with == [op |-> "keyword_contains", path |-> "answer", words |-> ws, match |-> p]
             without == [op |-> "keyword_not_contains", path |-> "answer", words |-> ws, match |-> q]
  <2>1. Passes(unified, with) <=> KeywordContains(v, ws, p)
    <3>1. with.op = "keyword_contains" /\ with.path = "answer" /\ with.words = ws /\ with.match = p
      OBVIOUS
    <3> HIDE DEF with
    <3> QED
      BY <1>4, <3>1 DEF Passes
  <2>2. Passes(unified, without) <=> KeywordNotContains(v, ws, q)
    <3>1. without.op = "keyword_not_contains" /\ without.path = "answer" /\ without.words = ws /\ without.match = q
      OBVIOUS
    <3> HIDE DEF without
    <3> QED
      BY <1>4, <3>1 DEF Passes
  <2>3. ~(KeywordContains(v, ws, p) /\ KeywordNotContains(v, ws, q))
    BY <1>4 DEF KeywordContains, KeywordNotContains
  <2>4. v.type = "text" /\ v.of # {} => KeywordContains(v, ws, p) \/ KeywordNotContains(v, ws, q)
    BY <1>4 DEF KeywordContains, KeywordNotContains
  <2> HIDE DEF with, without
  <2>5. /\ ErrorVerdict(unified, {with}) = IF Passes(unified, with) THEN "pass" ELSE "fail"
        /\ ErrorVerdict(unified, {without}) = IF Passes(unified, without) THEN "pass" ELSE "fail"
    BY VerdictOfOne
  <2>6. /\ ~(ErrorVerdict(unified, {with}) = "pass" /\ ErrorVerdict(unified, {without}) = "pass")
        /\ v.type = "text" /\ v.of # {} => "pass" \in {ErrorVerdict(unified, {with}), ErrorVerdict(unified, {without})}
    BY <2>1, <2>2, <2>3, <2>4, <2>5
  <2> QED
    BY <2>6 DEF Contraries, with, without
<1> QED
  BY <1>2, <1>3, <1>4 DEF OpsAgree

\* For any words, lists and thresholds (assertions of engine.py): F1 grades by the overlap alone, the
\* empty sets of its conventions included, keyword_contains and keyword_not_contains are contrary,
\* and a range of one is a value.
THEOREM OperatorsMeanWhatTheySay == AssertionsInit /\ [][AssertionsNext]_unified => []OpsAgree
<1>1. AssertionsInit => AssertionsInv
  BY DEF AssertionsInit, AssertionsInv, Results
<1>2. AssertionsInv /\ [AssertionsNext]_unified => AssertionsInv'
  <2> SUFFICES ASSUME AssertionsInv, AssertionsNext PROVE AssertionsInv'
    BY DEF AssertionsInv
  <2> PICK part \in {"answer", "list"}, v \in {Missing, Text({}), Spaces, List(Words)} :
        unified' = [unified EXCEPT ![part] = v]
    BY DEF AssertionsNext
  <2>1. v \in Values /\ v \notin Scalars
    BY DEF Values, Scalars, Missing, Spaces, Text, List, Number, Boolean
  <2> QED
    BY <2>1 DEF AssertionsInv
<1> QED
  BY <1>1, <1>2, OperatorsAgree, PTL
-----------------------------------------------------------------------------
(* Lists.                                                                  *)

\* Max of a set of positions is what its name says.
LEMMA GreatestOf ==
    ASSUME NEW k \in Nat, NEW s \in SUBSET (1..k), s # {}
    PROVE  Max(s) \in s /\ \A y \in s : y <= Max(s)
<1> DEFINE T == {b \in Nat : \A y \in s : y <= b}
<1>1. k \in T
  OBVIOUS
<1>2. PICK n \in T : \A b \in T : ~(b < n)
  BY <1>1, LeastOfNat
<1>3. n \in s
  <2> SUFFICES ASSUME n \notin s PROVE FALSE
    OBVIOUS
  <2>1. \A y \in s : y <= n - 1
    BY <1>2
  <2>2. PICK y \in s : y \in 1..k
    OBVIOUS
  <2>3. n - 1 \in Nat
    BY <2>1, <2>2
  <2> QED
    BY <1>2, <2>1, <2>3
<1>4. \A y \in s : n >= y
  BY <1>2, <1>3
<1>5. \A y \in s : y \in Nat
  OBVIOUS
<1>6. Max(s) \in s /\ \A y \in s : Max(s) >= y
  BY <1>3, <1>4, Zenon DEF Max
<1> QED
  BY <1>5, <1>6

\* Min of a set of numbers is one of them.
LEMMA LeastNumber ==
    ASSUME NEW s \in SUBSET Nat, s # {}
    PROVE  Min(s) \in s
<1>1. PICK n \in s : \A m \in s : ~(m < n)
  BY LeastOfNat
<1>2. \A m \in s : n <= m
  BY <1>1
<1> QED
  BY <1>2, Zenon DEF Min

\* A list is a sequence of its own elements.
LEMMA ListIs ==
    ASSUME NEW s, IsList(s)
    PROVE  /\ Len(s) \in Nat /\ DOMAIN s = 1..Len(s)
           /\ \A S : (\A k \in 1..Len(s) : s[k] \in S) => s \in Seq(S)
<1>1. Len(s) \in Nat /\ s = [k \in 1..Len(s) |-> s[k]]
  BY DEF IsList
<1>2. DOMAIN s = 1..Len(s)
  BY <1>1
<1>3. ASSUME NEW S, \A k \in 1..Len(s) : s[k] \in S PROVE s \in Seq(S)
  <2>1. s \in [1..Len(s) -> S]
    BY <1>1, <1>3
  <2> QED
    BY <1>1, <2>1
<1> QED
  BY <1>1, <1>2, <1>3

\* Sequences of whatever kind are lists.
LEMMA SeqIsList == ASSUME NEW S, NEW s \in Seq(S) PROVE IsList(s)
<1>1. Len(s) \in Nat /\ s \in [1..Len(s) -> S]
  BY LenProperties
<1> QED
  BY <1>1 DEF IsList

\* The empty list.
LEMMA EmptyIsList == IsList(<<>>) /\ Len(<<>>) = 0 /\ DOMAIN <<>> = {}
<1>1. <<>> \in Seq({})
  OBVIOUS
<1>2. IsList(<<>>) /\ Len(<<>>) = 0
  BY <1>1, SeqIsList
<1>3. DOMAIN <<>> = 1..0
  BY <1>2, ListIs
<1> QED
  BY <1>2, <1>3

\* A list with one element more.
LEMMA AppendIs ==
    ASSUME NEW s, NEW x, IsList(s)
    PROVE  /\ IsList(Append(s, x)) /\ Len(Append(s, x)) = Len(s) + 1
           /\ \A k \in 1..Len(s) : Append(s, x)[k] = s[k]
           /\ Append(s, x)[Len(s) + 1] = x
<1> DEFINE S == {s[k] : k \in 1..Len(s)} \cup {x}
<1>1. s \in Seq(S) /\ x \in S /\ Len(s) \in Nat
  BY ListIs
<1> HIDE DEF S
<1>2. Append(s, x) \in Seq(S) /\ Len(Append(s, x)) = Len(s) + 1
      /\ (\A k \in 1..Len(s) : Append(s, x)[k] = s[k]) /\ Append(s, x)[Len(s) + 1] = x
  BY <1>1, AppendProperties
<1> QED
  BY <1>2, SeqIsList

\* One list after the other.
LEMMA ConcatIs ==
    ASSUME NEW s, NEW t, IsList(s), IsList(t)
    PROVE  /\ IsList(s \o t) /\ Len(s \o t) = Len(s) + Len(t)
           /\ \A k \in 1..Len(s) : (s \o t)[k] = s[k]
           /\ \A k \in 1..Len(t) : (s \o t)[Len(s) + k] = t[k]
<1> DEFINE S == {s[k] : k \in 1..Len(s)} \cup {t[k] : k \in 1..Len(t)}
<1>1. s \in Seq(S) /\ t \in Seq(S) /\ Len(s) \in Nat /\ Len(t) \in Nat
  BY ListIs
<1> HIDE DEF S
<1>2. /\ s \o t \in Seq(S) /\ Len(s \o t) = Len(s) + Len(t)
      /\ \A i \in 1 .. Len(s) + Len(t) : (s \o t)[i] = IF i <= Len(s) THEN s[i] ELSE t[i - Len(s)]
  BY <1>1, ConcatProperties
<1>3. IsList(s \o t)
  BY <1>2, SeqIsList
<1>4. ASSUME NEW k \in 1..Len(s) PROVE (s \o t)[k] = s[k]
  BY <1>1, <1>2
<1>5. ASSUME NEW k \in 1..Len(t) PROVE (s \o t)[Len(s) + k] = t[k]
  <2>1. Len(s) + k \in 1..Len(s) + Len(t) /\ ~(Len(s) + k <= Len(s)) /\ (Len(s) + k) - Len(s) = k
    BY <1>1
  <2> QED
    BY <1>2, <2>1
<1> QED
  BY <1>2, <1>3, <1>4, <1>5

\* What was added to a list is what follows it.
LEMMA RestIs ==
    ASSUME NEW s, NEW t, IsList(s), IsList(t)
    PROVE  SubSeq(s \o t, Len(s) + 1, Len(s \o t)) = t
<1> DEFINE S == {t[k] : k \in 1..Len(t)}
           m == Len(s) + 1
           n == Len(s \o t)
           u == s \o t
<1>1. t \in Seq(S) /\ Len(s) \in Nat /\ Len(t) \in Nat
  BY ListIs
<1>2. Len(u) = Len(s) + Len(t) /\ \A k \in 1..Len(t) : u[Len(s) + k] = t[k]
  BY ConcatIs
<1>3. m \in Int /\ n \in Int /\ n - m + 1 = Len(t)
  BY <1>1, <1>2
<1>4. \A i \in m..n : u[i] \in S
  <2> SUFFICES ASSUME NEW i \in m..n PROVE u[i] \in S
    OBVIOUS
  <2>1. i - Len(s) \in 1..Len(t) /\ Len(s) + (i - Len(s)) = i
    BY <1>1, <1>2
  <2>2. u[i] = t[i - Len(s)]
    BY <1>2, <2>1
  <2> QED
    BY <2>1, <2>2
<1>5. \A k \in 1..Len(t) : u[m + k - 1] = t[k]
  <2> SUFFICES ASSUME NEW k \in 1..Len(t) PROVE u[m + k - 1] = t[k]
    OBVIOUS
  <2>1. m + k - 1 = Len(s) + k
    BY <1>1
  <2> QED
    BY <1>2, <2>1
<1>6. m <= n => n - m + 1 = Len(t)
  BY <1>3
<1>7. ~(m <= n) => Len(t) = 0
  BY <1>1, <1>3
<1> HIDE DEF S, m, n, u
<1>8. /\ SubSeq(u, m, n) \in Seq(S) /\ Len(SubSeq(u, m, n)) = IF m <= n THEN n - m + 1 ELSE 0
      /\ \A i \in 1 .. n - m + 1 : SubSeq(u, m, n)[i] = u[m + i - 1]
  BY <1>3, <1>4, SubSeqProperties
<1>9. Len(SubSeq(u, m, n)) = Len(t) /\ \A i \in 1..Len(t) : SubSeq(u, m, n)[i] = t[i]
  BY <1>3, <1>8, <1>6, <1>7, <1>5
<1>10. SubSeq(u, m, n) = t
  BY <1>1, <1>8, <1>9, SeqEqual
<1> QED
  BY <1>10 DEF u, m, n
\* A function on the first numbers is a list.
LEMMA FunctionIsList ==
    ASSUME NEW n \in Nat, NEW S, NEW t \in [1..n -> S]
    PROVE  IsList(t) /\ Len(t) = n
<1>1. t \in Seq(S)
  OBVIOUS
<1>2. IsList(t) /\ Len(t) \in Nat /\ DOMAIN t = 1..Len(t)
  BY <1>1, SeqIsList, LenProperties
<1>3. 1..n = 1..Len(t)
  BY <1>2
<1> QED
  BY <1>2, <1>3
-----------------------------------------------------------------------------
(* Folds over a list.                                                      *)

NextNew(known, list, i) == IF i.llm /\ IfaceKey(i) \notin KeysOf(known) THEN Append(list, i) ELSE list
FoldStep(kind, known, list, i) == IF kind = "added" THEN NextNew(known, list, i) ELSE Register(list, i, known)
IsFold(g, kind, known, seq, n) ==
    g = [s \in SUBSET (1..n) |->
           IF s = {} THEN <<>> ELSE FoldStep(kind, known, g[s \ {Max(s)}], seq[Max(s)])]
Folded(kind, known, seq, n) == (CHOOSE g : IsFold(g, kind, known, seq, n))[1..n]

\* What FoldLeft looks up in exists.
LEMMA FoldExists ==
    ASSUME NEW kind, NEW known, NEW seq, NEW n \in Nat
    PROVE  \E g : IsFold(g, kind, known, seq, n)
<1> SUFFICES ASSUME ~\E g : IsFold(g, kind, known, seq, n) PROVE FALSE
  OBVIOUS
<1> DEFINE T == {k \in Nat : ~\E g : IsFold(g, kind, known, seq, k)}
<1>1. n \in T
  OBVIOUS
<1>2. PICK k \in T : \A m \in T : ~(m < k)
  BY <1>1, LeastOfNat
<1>3. k # 0
  <2> SUFFICES ASSUME k = 0 PROVE FALSE
    OBVIOUS
  <2> DEFINE g == [s \in SUBSET (1..k) |-> <<>>]
  <2>1. \A s \in SUBSET (1..k) : s = {}
    OBVIOUS
  <2>2. g = [s \in SUBSET (1..k) |->
               IF s = {} THEN <<>> ELSE FoldStep(kind, known, g[s \ {Max(s)}], seq[Max(s)])]
    BY <2>1
  <2>3. IsFold(g, kind, known, seq, k)
    BY <2>2 DEF IsFold
  <2> QED
    BY <2>3
<1>4. k \in Nat /\ k - 1 \in Nat /\ k - 1 \notin T
  BY <1>2, <1>3
<1>5. PICK g : IsFold(g, kind, known, seq, k - 1)
  BY <1>4
<1> DEFINE G == [s \in SUBSET (1..k) |-> IF k \in s THEN FoldStep(kind, known, g[s \ {k}], seq[k]) ELSE g[s]]
           step(s) == IF s = {} THEN <<>> ELSE FoldStep(kind, known, G[s \ {Max(s)}], seq[Max(s)])
<1>6. ASSUME NEW s \in SUBSET (1..k) PROVE G[s] = step(s)
  <2>1. \A x \in s : s \ {x} \in SUBSET (1..k)
    OBVIOUS
  <2>2. CASE k \in s
    <3>1. Max(s) \in s /\ \A y \in s : y <= Max(s)
      BY <1>4, <2>2, GreatestOf
    <3>2. Max(s) \in 1..k /\ k <= Max(s)
      BY <2>2, <3>1
    <3>3. Max(s) = k
      BY <1>4, <3>2
    <3>4. G[s \ {k}] = g[s \ {k}]
      BY <2>1, <2>2
    <3>5. G[s] = FoldStep(kind, known, g[s \ {k}], seq[k])
      BY <2>2
    <3> QED
      BY <2>2, <3>3, <3>4, <3>5
  <2>3. CASE k \notin s
    <3>1. G[s] = g[s]
      BY <2>3
    <3>2. \A x \in 1..k : x # k => x \in 1..(k - 1)
      BY <1>4
    <3>3. s \in SUBSET (1..(k - 1))
      BY <2>3, <3>2
    <3>4. g[s] = IF s = {} THEN <<>> ELSE FoldStep(kind, known, g[s \ {Max(s)}], seq[Max(s)])
      BY <1>5, <3>3 DEF IsFold
    <3>5. CASE s = {}
      BY <3>1, <3>4, <3>5
    <3>6. CASE s # {}
      <4>1. Max(s) \in s
        BY <1>4, <3>6, GreatestOf
      <4>2. G[s \ {Max(s)}] = g[s \ {Max(s)}]
        BY <2>1, <2>3, <4>1
      <4> QED
        BY <3>1, <3>4, <3>6, <4>2
    <3> QED
      BY <3>5, <3>6
  <2> QED
    BY <2>2, <2>3
<1>7. G = [s \in SUBSET (1..k) |-> step(s)]
  <2>1. G = [s \in SUBSET (1..k) |-> G[s]]
    OBVIOUS
  <2> HIDE DEF G, step
  <2>2. [s \in SUBSET (1..k) |-> G[s]] = [s \in SUBSET (1..k) |-> step(s)]
    BY <1>6
  <2> QED
    BY <2>1, <2>2
<1>8. IsFold(G, kind, known, seq, k)
  BY <1>7 DEF IsFold
<1> QED
  BY <1>2, <1>8

\* A fold works through the list from its first element to its last.
LEMMA FoldIs ==
    ASSUME NEW kind, NEW known, NEW seq, NEW n \in Nat
    PROVE  \E h : /\ h[0] = <<>> /\ Folded(kind, known, seq, n) = h[n]
                  /\ \A k \in 1..n : h[k] = FoldStep(kind, known, h[k - 1], seq[k])
<1> DEFINE g == CHOOSE g : IsFold(g, kind, known, seq, n)
           h == [k \in 0..n |-> g[1..k]]
<1>1. IsFold(g, kind, known, seq, n)
  BY FoldExists
<1> HIDE DEF g
<1>2. \A s \in SUBSET (1..n) :
        g[s] = IF s = {} THEN <<>> ELSE FoldStep(kind, known, g[s \ {Max(s)}], seq[Max(s)])
  BY <1>1 DEF IsFold
<1>3. h[0] = <<>>
  <2>1. 0 \in 0..n /\ 1..0 = {} /\ 1..0 \in SUBSET (1..n)
    OBVIOUS
  <2> QED
    BY <1>2, <2>1
<1>4. ASSUME NEW k \in 1..n PROVE h[k] = FoldStep(kind, known, h[k - 1], seq[k])
  <2>1. k \in Nat /\ k \in 0..n /\ k - 1 \in 0..n /\ 1..k \in SUBSET (1..n) /\ k \in 1..k
    OBVIOUS
  <2>2. Max(1..k) \in 1..k /\ \A y \in 1..k : y <= Max(1..k)
    BY <2>1, GreatestOf
  <2>3. Max(1..k) = k
    BY <2>1, <2>2
  <2>4. (1..k) \ {k} = 1..(k - 1)
    BY <2>1
  <2>5. g[1..k] = FoldStep(kind, known, g[(1..k) \ {k}], seq[k])
    BY <1>2, <2>1, <2>3
  <2>6. h[k] = g[1..k] /\ h[k - 1] = g[1..(k - 1)]
    BY <2>1
  <2> HIDE DEF h
  <2> QED
    BY <2>4, <2>5, <2>6
<1>5. h[n] = g[1..n]
  OBVIOUS
<1> QED
  BY <1>3, <1>4, <1>5 DEF Folded, g

\* diff_manifest goes through the interfaces in their order.
LEMMA AddedIsFold ==
    ASSUME NEW m, NEW known, DOMAIN m.interfaces = 1..Len(m.interfaces)
    PROVE  Added(m, known) = Folded("added", known, m.interfaces, Len(m.interfaces))
<1> DEFINE seq == m.interfaces
           n == Len(m.interfaces)
           new(list, i) == IF i.llm /\ IfaceKey(i) \notin KeysOf(known) THEN Append(list, i) ELSE list
           fits(g) == g = [s \in SUBSET (DOMAIN seq) |->
                             IF s = {} THEN <<>> ELSE new(g[s \ {Max(s)}], seq[Max(s)])]
<1>1. Added(m, known) = (CHOOSE g : fits(g))[DOMAIN seq]
  BY DEF Added, FoldLeft, MapThenFoldSet
<1>2. \A g : fits(g) <=> IsFold(g, "added", known, seq, n)
  BY DEF IsFold, FoldStep, NextNew
<1> HIDE DEF fits
<1>3. (CHOOSE g : fits(g)) = (CHOOSE g : IsFold(g, "added", known, seq, n))
  BY <1>2
<1> QED
  BY <1>1, <1>3 DEF Folded

\* sync_interfaces goes through the items in their order.
LEMMA NewRowsIsFold ==
    ASSUME NEW items, NEW existing, DOMAIN items = 1..Len(items)
    PROVE  NewRows(items, existing) = Folded("rows", existing, items, Len(items))
<1> DEFINE n == Len(items)
           register(made, item) == Register(made, item, existing)
           fits(g) == g = [s \in SUBSET (DOMAIN items) |->
                             IF s = {} THEN <<>> ELSE register(g[s \ {Max(s)}], items[Max(s)])]
<1>1. NewRows(items, existing) = (CHOOSE g : fits(g))[DOMAIN items]
  BY DEF NewRows, FoldLeft, MapThenFoldSet
<1>2. \A g : fits(g) <=> IsFold(g, "rows", existing, items, n)
  BY DEF IsFold, FoldStep
<1> HIDE DEF fits
<1>3. (CHOOSE g : fits(g)) = (CHOOSE g : IsFold(g, "rows", existing, items, n))
  BY <1>2
<1> QED
  BY <1>1, <1>3 DEF Folded

\* Induction up to a number, for the set of those a claim holds of.
LEMMA UpTo ==
    ASSUME NEW n \in Nat, NEW T, 0 \in T, \A k \in 1..n : k - 1 \in T => k \in T
    PROVE  \A k \in 0..n : k \in T
<1> SUFFICES ASSUME NEW j \in 0..n, j \notin T PROVE FALSE
  OBVIOUS
<1> DEFINE F == {k \in 0..n : k \notin T}
<1>1. F \in SUBSET Nat /\ j \in F
  OBVIOUS
<1>2. PICK k \in F : \A m \in F : ~(m < k)
  BY <1>1, LeastOfNat
<1>3. k # 0 /\ k \in 0..n
  BY <1>2
<1>4. k \in 1..n /\ k - 1 \in 0..n /\ k - 1 < k
  BY <1>3
<1>5. k - 1 \notin F
  BY <1>2, <1>4
<1> QED
  BY <1>2, <1>4, <1>5
-----------------------------------------------------------------------------
(* Names.                                                                  *)

\* A list has finitely many names.
LEMMA NamesFinite ==
    ASSUME NEW is, IsList(is)
    PROVE  IsFiniteSet(NamesOf(is))
<1> DEFINE f == [k \in 1..Len(is) |-> is[k].name]
<1>1. DOMAIN is = 1..Len(is) /\ Len(is) \in Nat
  BY ListIs
<1>2. f \in Surjection(1..Len(is), NamesOf(is))
  BY <1>1 DEF Surjection, NamesOf
<1>3. IsFiniteSet(1..Len(is))
  BY <1>1, FS_Interval
<1> QED
  BY <1>2, <1>3, FS_Surjection

\* Appending different numbers makes different names.
LEMMA AppendDiffers ==
    ASSUME NEW s, IsList(s), NEW x, NEW y, Append(s, x) = Append(s, y)
    PROVE  x = y
<1>1. Append(s, x)[Len(s) + 1] = x /\ Append(s, y)[Len(s) + 1] = y
  BY AppendIs
<1> QED
  BY <1>1

\* unique_name finds a name that is not taken: one of the first numbers is free.
LEMMA UniqueNameIs ==
    ASSUME NEW name, IsList(name), NEW taken, IsFiniteSet(taken)
    PROVE  IsList(UniqueName(name, taken)) /\ UniqueName(name, taken) \notin taken
<1>1. CASE name \notin taken
  BY <1>1 DEF UniqueName
<1>2. CASE name \in taken
  <2> DEFINE c == Cardinality(taken)
             free == {n \in 2..(c + 2) : Append(name, n) \notin taken}
             f == [n \in 2..(c + 2) |-> Append(name, n)]
  <2>1. c \in Nat
    BY FS_CardinalityType
  <2> HIDE DEF c
  <2>2. free # {}
    <3> SUFFICES ASSUME free = {} PROVE FALSE
      OBVIOUS
    <3>1. f \in [2..(c + 2) -> taken]
      OBVIOUS
    <3>2. 2 \in Int /\ c + 2 \in Int /\ ~(2 > c + 2) /\ (c + 2) - 2 + 1 = c + 1
      BY <2>1
    <3>3. IsFiniteSet(2..(c + 2)) /\ Cardinality(2..(c + 2)) = c + 1
      BY <3>2, FS_Interval
    <3>4. Cardinality(taken) < Cardinality(2..(c + 2))
      BY <2>1, <3>3 DEF c
    <3>5. \E x, y \in 2..(c + 2) : x # y /\ f[x] = f[y]
      <4> DEFINE D == 2..(c + 2)
      <4>1. IsFiniteSet(D) /\ Cardinality(taken) < Cardinality(D) /\ f \in [D -> taken]
        BY <3>1, <3>3, <3>4
      <4> HIDE DEF f, D
      <4>2. \E x, y \in D : x # y /\ f[x] = f[y]
        BY <4>1, FS_PigeonHole
      <4> QED
        BY <4>2 DEF D
    <3> QED
      BY <3>5, AppendDiffers
  <2>3. free \in SUBSET Nat
    BY <2>1
  <2>4. Min(free) \in free
    BY <2>2, <2>3, LeastNumber
  <2>5. UniqueName(name, taken) = Append(name, Min(free))
    BY <1>2 DEF UniqueName, c
  <2>6. IsList(Append(name, Min(free)))
    BY AppendIs
  <2> QED
    BY <2>4, <2>5, <2>6
<1> QED
  BY <1>1, <1>2
-----------------------------------------------------------------------------
(* What a registration makes.                                              *)

IsRow(r) == /\ r \in [name : {r.name}, method : {r.method}, path : {r.path}, type : {r.type}, enabled : {r.enabled}]
            /\ IsList(r.name)
AreRows(rs) == IsList(rs) /\ \A k \in 1..Len(rs) : IsRow(rs[k])
AreItems(is) == IsList(is) /\ \A k \in 1..Len(is) : IsList(is[k].name)

\* After the first k items: only what was not known is made, every one of them is known then,
\* and no name is used twice.
Made(made, items, existing, k) ==
    /\ AreRows(made)
    /\ \A j \in 1..Len(made) : IfaceKey(made[j]) \notin KeysOf(existing)
    /\ \A i \in 1..k : IfaceKey(items[i]) \in KeysOf(existing) \cup KeysOf(made)
    /\ \A j \in 1..Len(made) : \E i \in 1..k : IfaceKey(items[i]) = IfaceKey(made[j])
    /\ \A j \in 1..Len(made) : made[j].name \notin NamesOf(existing)
    /\ \A j, l \in 1..Len(made) : j # l => made[j].name # made[l].name
    /\ ~Twice(items) => \A j, l \in 1..Len(made) : j # l => IfaceKey(made[j]) # IfaceKey(made[l])

\* Keys and names of a list, by position.
LEMMA KeysAre ==
    ASSUME NEW is, IsList(is)
    PROVE  /\ \A key : key \in KeysOf(is) <=> \E k \in 1..Len(is) : IfaceKey(is[k]) = key
           /\ \A name : name \in NamesOf(is) <=> \E k \in 1..Len(is) : is[k].name = name
<1>1. DOMAIN is = 1..Len(is)
  BY ListIs
<1> QED
  BY <1>1 DEF KeysOf, NamesOf

\* One item more: known, it is skipped; unknown, it becomes a row with a name of its own.
LEMMA RegisterMakes ==
    ASSUME NEW items, AreItems(items), NEW existing, IsList(existing), NEW k \in 1..Len(items),
           NEW made, Made(made, items, existing, k - 1)
    PROVE  Made(Register(made, items[k], existing), items, existing, k)
<1> DEFINE item == items[k]
           made2 == Register(made, item, existing)
<1>1. k \in Nat /\ \A i \in 1..k : i \in 1..(k - 1) \/ i = k
  <2>1. Len(items) \in Nat
    BY ListIs DEF AreItems
  <2> QED
    BY <2>1
<1>2. k \in 1..k /\ \A i \in 1..(k - 1) : i \in 1..k
  BY <1>1
<1>3. CASE IfaceKey(item) \in KeysOf(existing)
  <2>1. made2 = made
    BY <1>3 DEF Register, Known
  <2>2. \A i \in 1..k : IfaceKey(items[i]) \in KeysOf(existing) \cup KeysOf(made)
    BY <1>1, <1>3 DEF Made
  <2>3. \A j \in 1..Len(made) : \E i \in 1..k : IfaceKey(items[i]) = IfaceKey(made[j])
    BY <1>2 DEF Made
  <2> QED
    BY <2>1, <2>2, <2>3 DEF Made
<1>4. CASE IfaceKey(item) \notin KeysOf(existing)
  <2> DEFINE name == UniqueName(item.name, NamesOf(existing) \cup NamesOf(made))
             row == [name |-> name, method |-> Upper(item.method), path |-> item.path, type |-> item.type,
                     enabled |-> TRUE]
             n == Len(made)
  <2>1. made2 = Append(made, row)
    BY <1>4 DEF Register, Known
  <2>2. IsList(made) /\ n \in Nat /\ DOMAIN made = 1..n
    BY ListIs DEF Made, AreRows
  <2>3. IsFiniteSet(NamesOf(existing) \cup NamesOf(made))
    BY <2>2, NamesFinite, FS_Union
  <2>4. IsList(item.name)
    BY DEF AreItems
  <2>5. IsList(name) /\ name \notin NamesOf(existing) \cup NamesOf(made)
    BY <2>3, <2>4, UniqueNameIs
  <2>6. row.name = name /\ IfaceKey(row) = IfaceKey(item)
    BY DEF IfaceKey, Upper
  <2>7. IsRow(row)
    BY <2>5 DEF IsRow
  <2> HIDE DEF name, row, made2, item
  <2>8. /\ IsList(made2) /\ Len(made2) = n + 1
        /\ \A j \in 1..n : made2[j] = made[j]
        /\ made2[n + 1] = row
    BY <2>1, <2>2, AppendIs
  <2>9. \A j \in 1..Len(made2) : j \in 1..n \/ j = n + 1
    BY <2>2, <2>8
  <2>10. \A j \in 1..n : j \in 1..Len(made2) /\ j # n + 1
    BY <2>2, <2>8
  <2>11. n + 1 \in 1..Len(made2)
    BY <2>2, <2>8
  <2> HIDE DEF n
  <2>12. AreRows(made2)
    BY <2>7, <2>8, <2>9 DEF AreRows, Made, n
  <2>13. \A j \in 1..Len(made2) : IfaceKey(made2[j]) \notin KeysOf(existing)
    BY <1>4, <2>6, <2>8, <2>9 DEF Made, n
  <2>14. KeysOf(made) \subseteq KeysOf(made2) /\ IfaceKey(item) \in KeysOf(made2)
    <3>1. \A key \in KeysOf(made) : \E j \in 1..n : IfaceKey(made[j]) = key
      BY <2>2, KeysAre DEF n
    <3>2. \A key \in KeysOf(made) : \E j \in 1..Len(made2) : IfaceKey(made2[j]) = key
      BY <3>1, <2>8, <2>10
    <3>3. IfaceKey(made2[n + 1]) = IfaceKey(item)
      BY <2>6, <2>8
    <3> QED
      BY <3>2, <3>3, <2>8, <2>11, KeysAre
  <2>15. \A i \in 1..k : IfaceKey(items[i]) \in KeysOf(existing) \cup KeysOf(made2)
    BY <1>1, <2>14 DEF Made, item
  <2>16. \A j \in 1..Len(made2) : \E i \in 1..k : IfaceKey(items[i]) = IfaceKey(made2[j])
    BY <1>2, <2>6, <2>8, <2>9 DEF Made, item, n
  <2>17. \A j \in 1..Len(made2) : made2[j].name \notin NamesOf(existing)
    BY <2>5, <2>6, <2>8, <2>9 DEF Made, n
  <2>18. \A j \in 1..n : made[j].name # name
    BY <2>2, <2>5, KeysAre DEF n
  <2>19. \A j, l \in 1..Len(made2) : j # l => made2[j].name # made2[l].name
    BY <2>6, <2>8, <2>9, <2>18 DEF Made, n
  <2>20. ASSUME ~Twice(items), NEW j \in 1..n PROVE IfaceKey(made[j]) # IfaceKey(item)
    <3>1. PICK i \in 1..(k - 1) : IfaceKey(items[i]) = IfaceKey(made[j])
      BY DEF Made, n
    <3>2. i \in DOMAIN items /\ k \in DOMAIN items /\ i # k
      <4>1. IsList(items)
        BY DEF AreItems
      <4>2. DOMAIN items = 1..Len(items) /\ Len(items) \in Nat
        BY <4>1, ListIs
      <4> QED
        BY <4>2
    <3>3. IfaceKey(items[i]) # IfaceKey(items[k])
      BY <2>20, <3>2 DEF Twice
    <3> QED
      BY <3>1, <3>3 DEF item
  <2>21. ~Twice(items) => \A j, l \in 1..Len(made2) : j # l => IfaceKey(made2[j]) # IfaceKey(made2[l])
    BY <2>6, <2>8, <2>9, <2>20 DEF Made, n
  <2>22. Made(made2, items, existing, k)
    BY <2>12, <2>13, <2>15, <2>16, <2>17, <2>19, <2>21 DEF Made
  <2> QED
    BY <2>22 DEF made2, item
<1> QED
  BY <1>3, <1>4

\* All items of a registration.
LEMMA NewRowsAreMade ==
    ASSUME NEW items, AreItems(items), NEW existing, IsList(existing)
    PROVE  Made(NewRows(items, existing), items, existing, Len(items))
<1> DEFINE n == Len(items)
<1>1. DOMAIN items = 1..n /\ n \in Nat
  BY ListIs DEF AreItems
<1>2. NewRows(items, existing) = Folded("rows", existing, items, n)
  BY <1>1, NewRowsIsFold
<1>3. PICK h : /\ h[0] = <<>> /\ NewRows(items, existing) = h[n]
               /\ \A k \in 1..n : h[k] = FoldStep("rows", existing, h[k - 1], items[k])
  BY <1>1, <1>2, FoldIs
<1> DEFINE T == {k \in 0..n : Made(h[k], items, existing, k)}
<1>4. Made(<<>>, items, existing, 0)
  BY EmptyIsList DEF Made, AreRows
<1>5. 0 \in T
  BY <1>1, <1>3, <1>4
<1>6. ASSUME NEW k \in 1..n, k - 1 \in T PROVE k \in T
  <2>1. h[k] = Register(h[k - 1], items[k], existing)
    BY <1>3 DEF FoldStep
  <2>2. Made(h[k - 1], items, existing, k - 1)
    BY <1>6
  <2>3. Made(Register(h[k - 1], items[k], existing), items, existing, k)
    BY <2>2, RegisterMakes
  <2> QED
    BY <1>1, <2>1, <2>3
<1> HIDE DEF T
<1>7. n \in T
  <2>1. \A k \in 0..n : k \in T
    BY <1>1, <1>5, <1>6, UpTo
  <2> QED
    BY <1>1, <2>1
<1> QED
  BY <1>3, <1>7 DEF T

\* Of items that are all known nothing is made.
LEMMA NothingIsMade ==
    ASSUME NEW items, IsList(items), NEW existing,
           \A k \in 1..Len(items) : IfaceKey(items[k]) \in KeysOf(existing)
    PROVE  NewRows(items, existing) = <<>>
<1> DEFINE n == Len(items)
<1>1. DOMAIN items = 1..n /\ n \in Nat
  BY ListIs
<1>2. NewRows(items, existing) = Folded("rows", existing, items, n)
  BY <1>1, NewRowsIsFold
<1>3. \A k \in 1..n : IfaceKey(items[k]) \in KeysOf(existing)
  OBVIOUS
<1> HIDE DEF n
<1>4. PICK h : /\ h[0] = <<>> /\ NewRows(items, existing) = h[n]
               /\ \A k \in 1..n : h[k] = FoldStep("rows", existing, h[k - 1], items[k])
  BY <1>1, <1>2, FoldIs
<1> DEFINE T == {k \in 0..n : h[k] = <<>>}
<1>5. 0 \in T
  BY <1>1, <1>4
<1>6. ASSUME NEW k \in 1..n, k - 1 \in T PROVE k \in T
  <2>1. h[k] = Register(h[k - 1], items[k], existing)
    BY <1>4 DEF FoldStep
  <2>2. h[k] = h[k - 1]
    BY <1>3, <2>1 DEF Register, Known
  <2> QED
    BY <1>1, <1>6, <2>2
<1> HIDE DEF T
<1>7. n \in T
  <2>1. \A k \in 0..n : k \in T
    BY <1>1, <1>5, <1>6, UpTo
  <2> QED
    BY <1>1, <2>1
<1> QED
  BY <1>4, <1>7 DEF T
-----------------------------------------------------------------------------
(* What a discovery calls new.                                             *)

IsNew(i, known) == i.llm /\ IfaceKey(i) \notin KeysOf(known)
News(list, seq, known, k) ==
    /\ IsList(list)
    /\ \A j \in 1..Len(list) : \E i \in 1..k : seq[i] = list[j] /\ IsNew(seq[i], known)
    /\ \A i \in 1..k : IsNew(seq[i], known) => \E j \in 1..Len(list) : list[j] = seq[i]

\* What is new is exactly what an evaluated interface declares and no row has.
LEMMA AddedIs ==
    ASSUME NEW m, IsList(m.interfaces), NEW known
    PROVE  News(Added(m, known), m.interfaces, known, Len(m.interfaces))
<1> DEFINE seq == m.interfaces
           n == Len(seq)
<1>1. DOMAIN seq = 1..n /\ n \in Nat
  BY ListIs
<1>2. Added(m, known) = Folded("added", known, seq, n)
  BY <1>1, AddedIsFold
<1>3. PICK h : /\ h[0] = <<>> /\ Added(m, known) = h[n]
               /\ \A k \in 1..n : h[k] = FoldStep("added", known, h[k - 1], seq[k])
  BY <1>1, <1>2, FoldIs
<1> HIDE DEF seq
<1> DEFINE T == {k \in 0..n : News(h[k], seq, known, k)}
<1>4. News(<<>>, seq, known, 0)
  BY EmptyIsList DEF News
<1>5. 0 \in T
  BY <1>1, <1>3, <1>4
<1>6. ASSUME NEW k \in 1..n, k - 1 \in T PROVE k \in T
  <2> DEFINE list == h[k - 1]
             next == h[k]
  <2>1. next = NextNew(known, list, seq[k])
    BY <1>3 DEF FoldStep
  <2>2. News(list, seq, known, k - 1)
    BY <1>6
  <2> HIDE DEF list, next
  <2>3. k \in 1..k /\ (\A i \in 1..(k - 1) : i \in 1..k) /\ (\A i \in 1..k : i \in 1..(k - 1) \/ i = k)
    BY <1>1
  <2>4. CASE IsNew(seq[k], known)
    <3>1. next = Append(list, seq[k]) /\ IsList(list)
      BY <2>1, <2>2, <2>4 DEF NextNew, IsNew, News
    <3>2. /\ IsList(next) /\ Len(next) = Len(list) + 1 /\ Len(list) \in Nat
          /\ \A j \in 1..Len(list) : next[j] = list[j]
          /\ next[Len(list) + 1] = seq[k]
      BY <3>1, AppendIs, ListIs
    <3>3. /\ \A j \in 1..Len(next) : j \in 1..Len(list) \/ j = Len(list) + 1
          /\ \A j \in 1..Len(list) : j \in 1..Len(next)
          /\ Len(list) + 1 \in 1..Len(next)
      BY <3>2
    <3>4. \A j \in 1..Len(next) : \E i \in 1..k : seq[i] = next[j] /\ IsNew(seq[i], known)
      <4>1. \A j \in 1..Len(list) : \E i \in 1..k : seq[i] = next[j] /\ IsNew(seq[i], known)
        <5>1. \A j \in 1..Len(list) : \E i \in 1..(k - 1) : seq[i] = list[j] /\ IsNew(seq[i], known)
          BY <2>2 DEF News
        <5> QED
          BY <5>1, <2>3, <3>2
      <4> QED
        BY <4>1, <2>3, <2>4, <3>2, <3>3
    <3>5. \A i \in 1..k : IsNew(seq[i], known) => \E j \in 1..Len(next) : next[j] = seq[i]
      BY <2>2, <2>3, <3>2, <3>3 DEF News
    <3> QED
      BY <1>1, <3>2, <3>4, <3>5 DEF News, next
  <2>5. CASE ~IsNew(seq[k], known)
    <3>1. next = list
      BY <2>1, <2>5 DEF NextNew, IsNew
    <3> QED
      BY <1>1, <2>2, <2>3, <2>5, <3>1 DEF News, next
  <2> QED
    BY <2>4, <2>5
<1> HIDE DEF T
<1>7. n \in T
  <2>1. \A k \in 0..n : k \in T
    BY <1>1, <1>5, <1>6, UpTo
  <2> QED
    BY <1>1, <2>1
<1> QED
  BY <1>3, <1>7 DEF T, seq

\* Of a manifest whose interfaces are all known nothing is new.
LEMMA NothingIsNew ==
    ASSUME NEW m, IsList(m.interfaces), NEW known,
           \A i \in 1..Len(m.interfaces) : ~IsNew(m.interfaces[i], known)
    PROVE  Added(m, known) = <<>>
<1>1. News(Added(m, known), m.interfaces, known, Len(m.interfaces))
  BY AddedIs
<1>2. Len(Added(m, known)) \in Nat /\ \A j \in 1..Len(Added(m, known)) : FALSE
  BY <1>1, ListIs DEF News
<1>3. Len(Added(m, known)) = 0
  BY <1>2
<1>4. Added(m, known) \in Seq({})
  BY <1>1, <1>3, ListIs DEF News
<1> QED
  BY <1>3, <1>4, EmptySeq
-----------------------------------------------------------------------------
(* The rows and the registrations of one agent.                            *)

\* Only what is enabled may have changed.
SameRows(is, js) ==
    /\ Len(is) = Len(js)
    /\ \A k \in 1..Len(is) : /\ is[k].name = js[k].name /\ is[k].type = js[k].type
                             /\ is[k].method = js[k].method /\ is[k].path = js[k].path
SyncOK(s) ==
    \/ s = NoSync
    \/ s \in [stage : {"offered"}, items : {s.items}] /\ AreItems(s.items)
    \/ /\ s \in [stage : {"open"}, items : {s.items}, existing : {s.existing}, alone : BOOLEAN]
       /\ AreItems(s.items) /\ AreRows(s.existing)
\* Who registers alone sees the rows as they are, but for what was disabled since.
RegistryInv ==
    /\ AreRows(rows)
    /\ syncing = [p \in Registrars |-> syncing[p]]
    /\ \A p \in Registrars : /\ SyncOK(syncing[p])
                             /\ (syncing[p].stage = "open" /\ syncing[p].alone) => SameRows(syncing[p].existing, rows)

\* No row, and nobody at work.
LEMMA RegistryStarts == RegistryInit => RegistryInv
  BY EmptyIsList DEF RegistryInit, RegistryInv, AreRows, SyncOK, NoSync

\* Each stage of a registration has its fields.
LEMMA SyncShape ==
    ASSUME NEW s, SyncOK(s)
    PROVE  /\ s = NoSync => s.stage = "none"
           /\ s.stage = "offered" => s \in [stage : {"offered"}, items : {s.items}] /\ AreItems(s.items)
           /\ s.stage = "open" =>
                /\ s \in [stage : {"open"}, items : {s.items}, existing : {s.existing}, alone : BOOLEAN]
                /\ AreItems(s.items) /\ AreRows(s.existing)
  BY DEF SyncOK, NoSync

\* Once somebody wrote, nobody registers alone any more.
LEMMA DisturbedIs ==
    ASSUME RegistryInv
    PROVE  /\ Disturbed = [p \in Registrars |-> Disturbed[p]]
           /\ \A p \in Registrars : /\ SyncOK(Disturbed[p])
                                    /\ ~(Disturbed[p].stage = "open" /\ Disturbed[p].alone)
<1>1. Disturbed = [p \in Registrars |-> Disturbed[p]]
  BY DEF Disturbed
<1>2. ASSUME NEW p \in Registrars
      PROVE  SyncOK(Disturbed[p]) /\ ~(Disturbed[p].stage = "open" /\ Disturbed[p].alone)
  <2> DEFINE s == syncing[p]
             d == Disturbed[p]
  <2>1. SyncOK(s)
    BY DEF RegistryInv
  <2>2. d = IF s.stage = "open" THEN [s EXCEPT !.alone = FALSE] ELSE s
    BY DEF Disturbed
  <2> HIDE DEF s, d
  <2>3. CASE s.stage = "open"
    <3>1. /\ s \in [stage : {"open"}, items : {s.items}, existing : {s.existing}, alone : BOOLEAN]
          /\ AreItems(s.items) /\ AreRows(s.existing)
      BY <2>1, <2>3, SyncShape
    <3>2. d = [s EXCEPT !.alone = FALSE]
      BY <2>2, <2>3
    <3>3. /\ d \in [stage : {"open"}, items : {s.items}, existing : {s.existing}, alone : BOOLEAN]
          /\ d.items = s.items /\ d.existing = s.existing /\ d.alone = FALSE
      BY <3>1, <3>2
    <3>4. /\ d \in [stage : {"open"}, items : {d.items}, existing : {d.existing}, alone : BOOLEAN]
          /\ AreItems(d.items) /\ AreRows(d.existing)
      BY <3>1, <3>3
    <3> QED
      BY <3>3, <3>4 DEF SyncOK, d
  <2>4. CASE s.stage # "open"
    BY <2>1, <2>2, <2>4 DEF d
  <2> QED
    BY <2>3, <2>4
<1> QED
  BY <1>1, <1>2

\* POST of an interface.
LEMMA CreateKeeps == RegistryInv /\ CreateInterface => RegistryInv'
<1> SUFFICES ASSUME RegistryInv, NEW i \in Entered, rows' = Append(rows, [i EXCEPT !.enabled = TRUE]),
                    syncing' = Disturbed
             PROVE  RegistryInv'
  BY DEF CreateInterface
<1> DEFINE r == [i EXCEPT !.enabled = TRUE]
<1>1. IsList(i.name) /\ i \in [name : {i.name}, method : {i.method}, path : {i.path}, type : {i.type},
                               enabled : {i.enabled}]
  BY RegistryAssumption DEF RegistryAssumption
<1>2. IsRow(r)
  BY <1>1 DEF IsRow
<1> HIDE DEF r
<1>3. IsList(rows) /\ Len(rows) \in Nat
  BY ListIs DEF RegistryInv, AreRows
<1>4. PICK rs : rs = Append(rows, r)
  OBVIOUS
<1>5. /\ IsList(rs) /\ Len(rs) = Len(rows) + 1 /\ \A k \in 1..Len(rows) : rs[k] = rows[k]
      /\ rs[Len(rows) + 1] = r
  BY <1>3, <1>4, AppendIs
<1>6. \A k \in 1..Len(rs) : k \in 1..Len(rows) \/ k = Len(rows) + 1
  BY <1>3, <1>5
<1>7. AreRows(rs)
  BY <1>2, <1>5, <1>6 DEF AreRows, RegistryInv
<1>8. AreRows(rows')
  BY <1>4, <1>7 DEF r
<1> QED
  BY <1>8, DisturbedIs DEF RegistryInv

\* PUT of an interface.
LEMMA UpdateKeeps == RegistryInv /\ UpdateInterface => RegistryInv'
<1> SUFFICES ASSUME RegistryInv, NEW k \in DOMAIN rows, NEW i \in Entered,
                    rows' = [rows EXCEPT ![k] = [i EXCEPT !.enabled = rows[k].enabled]], syncing' = Disturbed
             PROVE  RegistryInv'
  BY DEF UpdateInterface
<1> DEFINE r == [i EXCEPT !.enabled = rows[k].enabled]
<1>1. IsList(i.name) /\ i \in [name : {i.name}, method : {i.method}, path : {i.path}, type : {i.type},
                               enabled : {i.enabled}]
  BY RegistryAssumption DEF RegistryAssumption
<1>2. IsRow(r)
  BY <1>1 DEF IsRow
<1> HIDE DEF r
<1>3. IsList(rows) /\ k \in 1..Len(rows)
  BY ListIs DEF RegistryInv, AreRows
<1>4. PICK rs : rs = [rows EXCEPT ![k] = r]
  OBVIOUS
<1>5. PICK n, S : n = Len(rows) /\ S = {rows[j] : j \in 1..Len(rows)} \cup {r}
  OBVIOUS
<1>6. n \in Nat /\ DOMAIN rows = 1..n
  BY <1>3, <1>5, ListIs
<1>7. rs \in [1..n -> S] /\ \A j \in 1..n : rs[j] = IF j = k THEN r ELSE rows[j]
  BY <1>4, <1>5, <1>6
<1>8. IsList(rs) /\ Len(rs) = n
  BY <1>6, <1>7, FunctionIsList
<1>9. IsList(rs) /\ Len(rs) = Len(rows) /\ \A j \in 1..Len(rows) : rs[j] = IF j = k THEN r ELSE rows[j]
  BY <1>5, <1>7, <1>8
<1>10. AreRows(rs)
  BY <1>2, <1>9 DEF AreRows, RegistryInv
<1>11. AreRows(rows')
  BY <1>4, <1>10 DEF r
<1> QED
  BY <1>11, DisturbedIs DEF RegistryInv

\* Disabling leaves what a registration looks at.
LEMMA DeleteKeeps == RegistryInv /\ DeleteInterface => RegistryInv'
<1> SUFFICES ASSUME RegistryInv, NEW k \in DOMAIN rows,
                    rows' = [rows EXCEPT ![k] = [rows[k] EXCEPT !.enabled = FALSE]], UNCHANGED syncing
             PROVE  RegistryInv'
  BY DEF DeleteInterface
<1> DEFINE r == [rows[k] EXCEPT !.enabled = FALSE]
<1>1. IsList(rows) /\ k \in 1..Len(rows)
  BY ListIs DEF RegistryInv, AreRows
<1>2. IsRow(rows[k])
  BY <1>1 DEF RegistryInv, AreRows
<1>3. /\ IsRow(r) /\ r.name = rows[k].name /\ r.type = rows[k].type
      /\ r.method = rows[k].method /\ r.path = rows[k].path
  BY <1>2 DEF IsRow
<1> HIDE DEF r
<1>4. PICK rs : rs = [rows EXCEPT ![k] = r]
  OBVIOUS
<1>5. PICK n, S : n = Len(rows) /\ S = {rows[j] : j \in 1..Len(rows)} \cup {r}
  OBVIOUS
<1>6. n \in Nat /\ DOMAIN rows = 1..n
  BY <1>1, <1>5, ListIs
<1>7. rs \in [1..n -> S] /\ \A j \in 1..n : rs[j] = IF j = k THEN r ELSE rows[j]
  BY <1>4, <1>5, <1>6
<1>8. IsList(rs) /\ Len(rs) = n
  BY <1>6, <1>7, FunctionIsList
<1>9. IsList(rs) /\ Len(rs) = Len(rows) /\ \A j \in 1..Len(rows) : rs[j] = IF j = k THEN r ELSE rows[j]
  BY <1>5, <1>7, <1>8
<1>10. AreRows(rs)
  BY <1>3, <1>9 DEF AreRows, RegistryInv
<1>11. ASSUME NEW is, SameRows(is, rows) PROVE SameRows(is, rs)
  BY <1>3, <1>9, <1>11 DEF SameRows
<1>12. rows' = rs
  BY <1>4 DEF r
<1> QED
  BY <1>10, <1>11, <1>12 DEF RegistryInv

\* One registration is replaced and the rows stay: what holds of each still does.
LEMMA SyncReplaced ==
    ASSUME RegistryInv, NEW p \in Registrars, NEW others,
           others = [q \in Registrars |-> others[q]],
           \A q \in Registrars : /\ SyncOK(others[q])
                                 /\ (others[q].stage = "open" /\ others[q].alone) => SameRows(others[q].existing, rows),
           NEW s, SyncOK(s), (s.stage = "open" /\ s.alone) => SameRows(s.existing, rows),
           syncing' = [others EXCEPT ![p] = s], rows' = rows
    PROVE  RegistryInv'
<1>1. PICK sy : sy = [others EXCEPT ![p] = s]
  OBVIOUS
<1>2. sy = [q \in Registrars |-> sy[q]] /\ \A q \in Registrars : sy[q] = IF q = p THEN s ELSE others[q]
  BY <1>1
<1>3. \A q \in Registrars : /\ SyncOK(sy[q])
                            /\ (sy[q].stage = "open" /\ sy[q].alone) => SameRows(sy[q].existing, rows)
  BY <1>2
<1>4. syncing' = sy
  BY <1>1
<1> QED
  BY <1>2, <1>3, <1>4 DEF RegistryInv

\* What is offered are interfaces of a manifest.
LEMMA DiscoverKeeps == ASSUME NEW p \in Registrars PROVE RegistryInv /\ Discover(p) => RegistryInv'
<1> SUFFICES ASSUME RegistryInv, NEW m \in Manifests,
                    NEW items \in {Added(m, rows)} \cup {<<i>> : i \in ToSet(Added(m, rows))},
                    syncing' = [syncing EXCEPT ![p] = [stage |-> "offered", items |-> items]], rows' = rows
             PROVE  RegistryInv'
  BY DEF Discover
<1>1. IsList(m.interfaces) /\ DOMAIN m.interfaces = 1..Len(m.interfaces)
  BY RegistryAssumption, ListIs DEF RegistryAssumption
<1>2. \A k \in 1..Len(m.interfaces) : IsList(m.interfaces[k].name)
  BY <1>1, RegistryAssumption DEF RegistryAssumption
<1>3. News(Added(m, rows), m.interfaces, rows, Len(m.interfaces))
  BY <1>1, AddedIs
<1>4. AreItems(Added(m, rows))
  BY <1>2, <1>3 DEF AreItems, News
<1>5. AreItems(items)
  <2>1. CASE items = Added(m, rows)
    BY <1>4, <2>1
  <2>2. CASE items \in {<<i>> : i \in ToSet(Added(m, rows))}
    <3>1. PICK i \in ToSet(Added(m, rows)) : items = <<i>>
      BY <2>2
    <3>2. DOMAIN Added(m, rows) = 1..Len(Added(m, rows))
      BY <1>4, ListIs DEF AreItems
    <3>3. IsList(i.name)
      BY <1>4, <3>2 DEF ToSet, AreItems
    <3>4. <<i>> \in Seq({i}) /\ Len(<<i>>) = 1 /\ <<i>>[1] = i
      OBVIOUS
    <3>5. IsList(<<i>>)
      BY <3>4, SeqIsList
    <3>6. \A k \in 1..Len(<<i>>) : <<i>>[k] = i
      BY <3>4
    <3> QED
      BY <3>1, <3>3, <3>5, <3>6 DEF AreItems
  <2> QED
    BY <2>1, <2>2
<1> DEFINE s == [stage |-> "offered", items |-> items]
<1>6. SyncOK(s) /\ s.stage # "open"
  BY <1>5 DEF SyncOK
<1>7. syncing = [q \in Registrars |-> syncing[q]]
      /\ \A q \in Registrars : /\ SyncOK(syncing[q])
                               /\ (syncing[q].stage = "open" /\ syncing[q].alone) => SameRows(syncing[q].existing, rows)
  BY DEF RegistryInv
<1>8. syncing' = [syncing EXCEPT ![p] = s]
  OBVIOUS
<1> HIDE DEF s
<1>9. PICK sy, t : sy = syncing /\ t = s
  OBVIOUS
<1> QED
  BY <1>6, <1>7, <1>8, <1>9, SyncReplaced

\* A registration that begins sees the rows as they are; every other one is no longer alone.
LEMMA BeginKeeps == ASSUME NEW p \in Registrars PROVE RegistryInv /\ BeginSync(p) => RegistryInv'
<1> DEFINE s == [stage |-> "open", items |-> syncing[p].items, existing |-> rows,
                 alone |-> \A q \in Registrars : syncing[q].stage # "open"]
<1> SUFFICES ASSUME RegistryInv, syncing[p].stage = "offered", syncing' = [Disturbed EXCEPT ![p] = s], rows' = rows
             PROVE  RegistryInv'
  BY DEF BeginSync
<1>1. AreItems(syncing[p].items)
  BY SyncShape DEF RegistryInv
<1>2. AreRows(rows) /\ SameRows(rows, rows)
  BY DEF RegistryInv, SameRows
<1>3. SyncOK(s) /\ SameRows(s.existing, rows)
  BY <1>1, <1>2 DEF SyncOK
<1> HIDE DEF s
<1> QED
  BY <1>3, DisturbedIs, SyncReplaced

\* A registration that is given up leaves the rows.
LEMMA AbortKeeps == ASSUME NEW p \in Registrars PROVE RegistryInv /\ AbortSync(p) => RegistryInv'
<1> SUFFICES ASSUME RegistryInv, syncing' = [syncing EXCEPT ![p] = NoSync], rows' = rows
             PROVE  RegistryInv'
  BY DEF AbortSync
<1>1. SyncOK(NoSync) /\ NoSync.stage # "open"
  BY DEF SyncOK, NoSync
<1>2. syncing = [q \in Registrars |-> syncing[q]]
      /\ \A q \in Registrars : /\ SyncOK(syncing[q])
                               /\ (syncing[q].stage = "open" /\ syncing[q].alone) => SameRows(syncing[q].existing, rows)
  BY DEF RegistryInv
<1> QED
  BY <1>1, <1>2, SyncReplaced

\* A registration that commits adds rows; nobody is alone any more.
LEMMA CommitKeeps == ASSUME NEW p \in Registrars PROVE RegistryInv /\ CommitSync(p) => RegistryInv'
<1> SUFFICES ASSUME RegistryInv, syncing[p].stage = "open",
                    rows' = rows \o NewRows(syncing[p].items, syncing[p].existing),
                    syncing' = [Disturbed EXCEPT ![p] = NoSync]
             PROVE  RegistryInv'
  BY DEF CommitSync
<1>1. AreItems(syncing[p].items) /\ AreRows(syncing[p].existing)
  BY SyncShape DEF RegistryInv
<1>2. PICK old, new : old = rows /\ new = NewRows(syncing[p].items, syncing[p].existing)
  OBVIOUS
<1>3. AreRows(new)
  BY <1>1, <1>2, NewRowsAreMade DEF Made, AreRows
<1>4. AreRows(old)
  BY <1>2 DEF RegistryInv
<1>5. /\ IsList(old \o new) /\ Len(old \o new) = Len(old) + Len(new)
      /\ \A k \in 1..Len(old) : (old \o new)[k] = old[k]
      /\ \A k \in 1..Len(new) : (old \o new)[Len(old) + k] = new[k]
      /\ Len(old) \in Nat /\ Len(new) \in Nat
  BY <1>3, <1>4, ConcatIs, ListIs DEF AreRows
<1>6. ASSUME NEW k \in 1..(Len(old) + Len(new)) PROVE IsRow((old \o new)[k])
  <2>1. CASE k \in 1..Len(old)
    BY <1>4, <1>5, <2>1 DEF AreRows
  <2>2. CASE k \notin 1..Len(old)
    <3>1. k - Len(old) \in 1..Len(new) /\ Len(old) + (k - Len(old)) = k
      BY <1>5, <2>2
    <3> QED
      BY <1>3, <1>5, <3>1 DEF AreRows
  <2> QED
    BY <2>1, <2>2
<1>7. AreRows(old \o new)
  BY <1>5, <1>6 DEF AreRows
<1>8. AreRows(rows')
  BY <1>2, <1>7
<1>9. PICK ds : ds = Disturbed
  OBVIOUS
<1>10. ds = [q \in Registrars |-> ds[q]]
       /\ \A q \in Registrars : SyncOK(ds[q]) /\ ~(ds[q].stage = "open" /\ ds[q].alone)
  BY <1>9, DisturbedIs
<1>11. PICK sy : sy = [ds EXCEPT ![p] = NoSync]
  OBVIOUS
<1>12. SyncOK(NoSync) /\ NoSync.stage # "open"
  BY DEF SyncOK, NoSync
<1>13. sy = [q \in Registrars |-> sy[q]] /\ \A q \in Registrars : sy[q] = IF q = p THEN NoSync ELSE ds[q]
  BY <1>10, <1>11
<1>14. \A q \in Registrars : SyncOK(sy[q]) /\ ~(sy[q].stage = "open" /\ sy[q].alone)
  BY <1>10, <1>12, <1>13
<1>15. syncing' = sy
  BY <1>9, <1>11
<1> QED
  BY <1>8, <1>13, <1>14, <1>15 DEF RegistryInv

\* So every step keeps the invariant.
LEMMA RegistrySteps == RegistryInv /\ [RegistryNext]_registryVars => RegistryInv'
<1>1. RegistryInv /\ UNCHANGED registryVars => RegistryInv'
  BY DEF RegistryInv, registryVars
<1> QED
  BY <1>1, CreateKeeps, UpdateKeeps, DeleteKeeps, DiscoverKeeps, BeginKeeps, CommitKeeps, AbortKeeps DEF RegistryNext
-----------------------------------------------------------------------------
(* What a confirmed discovery leaves.                                      *)

\* Keys and names depend on nothing a row's enabling changes.
LEMMA SameKeys ==
    ASSUME NEW is, IsList(is), NEW js, IsList(js), SameRows(is, js)
    PROVE  KeysOf(is) = KeysOf(js) /\ NamesOf(is) = NamesOf(js)
<1>1. Len(is) = Len(js) /\ \A k \in 1..Len(is) : is[k].name = js[k].name /\ IfaceKey(is[k]) = IfaceKey(js[k])
  BY DEF SameRows, IfaceKey
<1>2. \A key : key \in KeysOf(is) <=> key \in KeysOf(js)
  BY <1>1, KeysAre
<1>3. \A name : name \in NamesOf(is) <=> name \in NamesOf(js)
  BY <1>1, KeysAre
<1> QED
  BY <1>2, <1>3

\* The rows of a joined list are those of its two parts.
Joined(all, old, new) ==
    /\ IsList(all) /\ Len(old) \in Nat
    /\ KeysOf(all) = KeysOf(old) \cup KeysOf(new)
    /\ \A k \in 1..Len(old) : k \in 1..Len(all) /\ all[k] = old[k]
    /\ \A k \in 1..Len(new) : Len(old) + k \in 1..Len(all) /\ all[Len(old) + k] = new[k]
    /\ \A k \in 1..Len(all) : k \in 1..Len(old) \/ \E j \in 1..Len(new) : k = Len(old) + j

\* Rows that were there and rows that were made.
LEMMA JoinedIs ==
    ASSUME NEW old, IsList(old), NEW new, IsList(new), NEW all, all = old \o new
    PROVE  Joined(all, old, new)
<1>1. /\ IsList(all) /\ Len(all) = Len(old) + Len(new) /\ Len(old) \in Nat /\ Len(new) \in Nat
      /\ \A k \in 1..Len(old) : all[k] = old[k]
      /\ \A k \in 1..Len(new) : all[Len(old) + k] = new[k]
  BY ConcatIs, ListIs
<1>2. ASSUME NEW k \in 1..Len(all) PROVE k \in 1..Len(old) \/ \E j \in 1..Len(new) : k = Len(old) + j
  <2> SUFFICES ASSUME k \notin 1..Len(old) PROVE \E j \in 1..Len(new) : k = Len(old) + j
    OBVIOUS
  <2>1. k - Len(old) \in 1..Len(new) /\ k = Len(old) + (k - Len(old))
    BY <1>1
  <2> QED
    BY <2>1
<1>3. \A k \in 1..Len(old) : k \in 1..Len(all)
  BY <1>1
<1>4. \A k \in 1..Len(new) : Len(old) + k \in 1..Len(all)
  BY <1>1
<1>5. ASSUME NEW key PROVE key \in KeysOf(all) <=> (key \in KeysOf(old) \/ key \in KeysOf(new))
  <2>1. key \in KeysOf(all) <=> \E k \in 1..Len(all) : IfaceKey(all[k]) = key
    BY <1>1, KeysAre
  <2>2. key \in KeysOf(old) <=> \E k \in 1..Len(old) : IfaceKey(old[k]) = key
    BY KeysAre
  <2>3. key \in KeysOf(new) <=> \E k \in 1..Len(new) : IfaceKey(new[k]) = key
    BY KeysAre
  <2>4. key \in KeysOf(all) => (key \in KeysOf(old) \/ key \in KeysOf(new))
    BY <1>1, <1>2, <2>1, <2>2, <2>3
  <2>5. key \in KeysOf(old) => key \in KeysOf(all)
    BY <1>1, <1>3, <2>1, <2>2
  <2>6. key \in KeysOf(new) => key \in KeysOf(all)
    BY <1>1, <1>4, <2>1, <2>3
  <2> QED
    BY <2>4, <2>5, <2>6
<1> QED
  BY <1>1, <1>2, <1>3, <1>4, <1>5 DEF Joined

\* Names that differ are as many as the rows.
LEMMA NamesCount ==
    ASSUME NEW is, IsList(is), \A j, l \in 1..Len(is) : j # l => is[j].name # is[l].name
    PROVE  Cardinality(NamesOf(is)) = Len(is)
<1> DEFINE f == [k \in 1..Len(is) |-> is[k].name]
           D == 1..Len(is)
           N == NamesOf(is)
<1>1. DOMAIN is = 1..Len(is) /\ Len(is) \in Nat
  BY ListIs
<1>2. f \in Surjection(D, N)
  BY <1>1 DEF Surjection, NamesOf
<1>3. f \in Injection(D, N)
  BY <1>2 DEF Injection, Surjection, IsInjective
<1>4. IsFiniteSet(D) /\ Cardinality(D) = Len(is)
  <2>1. 1 \in Int /\ Len(is) \in Int /\ (1 > Len(is) => Len(is) = 0) /\ Len(is) - 1 + 1 = Len(is)
    BY <1>1
  <2> QED
    BY <2>1, FS_Interval
<1> HIDE DEF f, D, N
<1>5. Cardinality(N) = Cardinality(D)
  BY <1>2, <1>3, <1>4, FS_Surjection
<1> QED
  BY <1>4, <1>5 DEF N

\* What a registration leaves, and what the discovery it confirms finds then.
Settled(items, new, old, all) ==
    /\ NewRows(items, all) = <<>>
    /\ NamesOf(new) \cap NamesOf(old) = {} /\ Cardinality(NamesOf(new)) = Len(new)
    /\ Twice(items) \/ \A key \in KeysOf(new) : RowsWith(key, all) = 1
SettledFor(m, items, old, all) ==
    /\ Added(m, all) = <<>> /\ Gone(m, all) = Gone(m, old)
    /\ Differing(m, all) \subseteq ToSet(items) \cup Differing(m, old)

\* A registration whose rows are those that are there.
LEMMA Settles ==
    ASSUME NEW old, AreRows(old), NEW items, AreItems(items), NEW existing, AreRows(existing),
           SameRows(existing, old), NEW new, new = NewRows(items, existing), NEW all, all = old \o new
    PROVE  Settled(items, new, old, all)
<1>1. IsList(old) /\ IsList(items) /\ IsList(existing)
  BY DEF AreRows, AreItems
<1>2. Made(new, items, existing, Len(items))
  BY <1>1, NewRowsAreMade
<1>3. IsList(new)
  BY <1>2 DEF Made, AreRows
<1>4. KeysOf(existing) = KeysOf(old) /\ NamesOf(existing) = NamesOf(old)
  BY <1>1, SameKeys
<1>5. Joined(all, old, new)
  BY <1>1, <1>3, JoinedIs
<1>6. KeysOf(all) = KeysOf(old) \cup KeysOf(new)
  BY <1>5 DEF Joined
<1>7. NewRows(items, all) = <<>>
  <2>1. \A i \in 1..Len(items) : IfaceKey(items[i]) \in KeysOf(all)
    BY <1>2, <1>4, <1>6 DEF Made
  <2> QED
    BY <1>1, <2>1, NothingIsMade
<1>8. NamesOf(new) \cap NamesOf(old) = {}
  <2>1. \A name \in NamesOf(new) : \E j \in 1..Len(new) : new[j].name = name
    BY <1>3, KeysAre
  <2> QED
    BY <1>2, <1>4, <2>1 DEF Made
<1>9. Cardinality(NamesOf(new)) = Len(new)
  BY <1>2, <1>3, NamesCount DEF Made
<1>10. ASSUME ~Twice(items), NEW key \in KeysOf(new) PROVE RowsWith(key, all) = 1
  <2>1. PICK j \in 1..Len(new) : IfaceKey(new[j]) = key
    BY <1>3, KeysAre
  <2>2. \A l \in 1..Len(new) : IfaceKey(new[l]) = key => l = j
    BY <1>2, <1>10, <2>1 DEF Made
  <2>3. \A k \in 1..Len(old) : IfaceKey(old[k]) # key
    <3>1. key \notin KeysOf(old)
      BY <1>2, <1>4, <2>1 DEF Made
    <3> QED
      BY <1>1, <3>1, KeysAre
  <2>4. /\ IsList(all)
        /\ \A k \in 1..Len(old) : all[k] = old[k]
        /\ \A k \in 1..Len(new) : Len(old) + k \in 1..Len(all) /\ all[Len(old) + k] = new[k]
        /\ \A k \in 1..Len(all) : k \in 1..Len(old) \/ \E l \in 1..Len(new) : k = Len(old) + l
    BY <1>5 DEF Joined
  <2>5. DOMAIN all = 1..Len(all)
    BY <2>4, ListIs
  <2>6. Len(old) + j \in DOMAIN all /\ IfaceKey(all[Len(old) + j]) = key
    BY <2>1, <2>4, <2>5
  <2>7. ASSUME NEW k \in DOMAIN all, IfaceKey(all[k]) = key PROVE k = Len(old) + j
    <3>1. k \notin 1..Len(old)
      BY <2>3, <2>4, <2>7
    <3>2. PICK l \in 1..Len(new) : k = Len(old) + l
      BY <2>4, <2>5, <2>7, <3>1
    <3>3. IfaceKey(new[l]) = key
      BY <2>4, <2>7, <3>2
    <3> QED
      BY <2>2, <3>2, <3>3
  <2> DEFINE S == {k \in DOMAIN all : IfaceKey(all[k]) = key}
  <2>8. S = {Len(old) + j}
    BY <2>6, <2>7
  <2> HIDE DEF S
  <2>9. Cardinality(S) = 1
    BY <2>8, FS_Singleton
  <2> QED
    BY <2>9 DEF RowsWith, S
<1> QED
  BY <1>7, <1>8, <1>9, <1>10 DEF Settled

\* The discovery that was confirmed finds nothing more.
LEMMA SettlesDiscovery ==
    ASSUME NEW m, IsList(m.interfaces), NEW old, AreRows(old), NEW existing, AreRows(existing),
           SameRows(existing, old), NEW items, AreItems(items), items = Added(m, old),
           NEW new, new = NewRows(items, existing), NEW all, all = old \o new
    PROVE  SettledFor(m, items, old, all)
<1> DEFINE seq == m.interfaces
<1>1. IsList(old) /\ IsList(items) /\ IsList(existing)
  BY DEF AreRows, AreItems
<1>2. Made(new, items, existing, Len(items))
  BY <1>1, NewRowsAreMade
<1>3. IsList(new)
  BY <1>2 DEF Made, AreRows
<1>4. KeysOf(existing) = KeysOf(old)
  BY <1>1, SameKeys
<1>5. Joined(all, old, new)
  BY <1>1, <1>3, JoinedIs
<1>6. /\ KeysOf(all) = KeysOf(old) \cup KeysOf(new)
      /\ IsList(all)
      /\ \A k \in 1..Len(old) : k \in 1..Len(all) /\ all[k] = old[k]
      /\ \A k \in 1..Len(new) : Len(old) + k \in 1..Len(all) /\ all[Len(old) + k] = new[k]
      /\ \A k \in 1..Len(all) : k \in 1..Len(old) \/ \E l \in 1..Len(new) : k = Len(old) + l
  BY <1>5 DEF Joined
<1>7. News(items, seq, old, Len(seq))
  BY AddedIs
<1>8. /\ DOMAIN seq = 1..Len(seq) /\ DOMAIN items = 1..Len(items) /\ DOMAIN all = 1..Len(all)
      /\ DOMAIN old = 1..Len(old)
  BY <1>1, <1>6, ListIs
<1>9. Added(m, all) = <<>>
  <2>1. ASSUME NEW i \in 1..Len(seq) PROVE ~IsNew(seq[i], all)
    <3> SUFFICES ASSUME IsNew(seq[i], all) PROVE FALSE
      OBVIOUS
    <3>1. IsNew(seq[i], old)
      BY <1>6 DEF IsNew
    <3>2. PICK j \in 1..Len(items) : items[j] = seq[i]
      BY <1>7, <3>1 DEF News
    <3>3. IfaceKey(seq[i]) \in KeysOf(all)
      BY <1>2, <1>4, <1>6, <3>2 DEF Made
    <3> QED
      BY <3>3 DEF IsNew
  <2> QED
    BY <2>1, NothingIsNew
<1>10. ASSUME NEW k \in 1..Len(new) PROVE IfaceKey(new[k]) \in KeysOf(seq) /\ IfaceKey(new[k]) \notin KeysOf(old)
  <2>1. PICK i \in 1..Len(items) : IfaceKey(items[i]) = IfaceKey(new[k])
    BY <1>2 DEF Made
  <2>2. PICK j \in 1..Len(seq) : seq[j] = items[i]
    BY <1>7 DEF News
  <2>3. IfaceKey(new[k]) \in KeysOf(seq)
    BY <1>8, <2>1, <2>2 DEF KeysOf
  <2> QED
    BY <1>2, <1>4, <2>3 DEF Made
<1>11. Gone(m, all) = Gone(m, old)
  <2>1. ASSUME NEW k PROVE k \in Gone(m, all) <=> k \in Gone(m, old)
    <3>1. k \in Gone(m, all) => k \in 1..Len(old)
      BY <1>6, <1>8, <1>10 DEF Gone
    <3> QED
      BY <1>6, <1>8, <3>1 DEF Gone
  <2> QED
    BY <2>1
<1>12. ASSUME NEW i \in Differing(m, all), i \notin ToSet(items) PROVE i \in Differing(m, old)
  <2>1. /\ i \in ToSet(seq) /\ i.llm /\ IfaceKey(i) \in KeysOf(all)
        /\ <<i.name, i.type>> # <<RowOf(i, all).name, RowOf(i, all).type>>
    BY <1>12 DEF Differing
  <2>2. PICK n \in 1..Len(seq) : seq[n] = i
    BY <1>8, <2>1 DEF ToSet
  <2>3. IfaceKey(i) \in KeysOf(old)
    <3> SUFFICES ASSUME IfaceKey(i) \notin KeysOf(old) PROVE FALSE
      OBVIOUS
    <3>1. IsNew(seq[n], old)
      BY <2>1, <2>2 DEF IsNew
    <3>2. \E j \in 1..Len(items) : items[j] = i
      BY <1>7, <2>2, <3>1 DEF News
    <3> QED
      BY <1>8, <1>12, <3>2 DEF ToSet
  <2> DEFINE A == {k \in DOMAIN all : IfaceKey(all[k]) = IfaceKey(i)}
             O == {k \in DOMAIN old : IfaceKey(old[k]) = IfaceKey(i)}
  <2>4. A = O
    <3>1. \A k \in A : k \in O
      BY <1>6, <1>8, <1>10, <2>3
    <3>2. \A k \in O : k \in A
      BY <1>6, <1>8
    <3> QED
      BY <3>1, <3>2
  <2>5. O # {} /\ O \in SUBSET (1..Len(old)) /\ Len(old) \in Nat
    BY <1>1, <1>8, <2>3, ListIs DEF KeysOf
  <2> HIDE DEF A, O
  <2>6. Max(O) \in O
    BY <2>5, GreatestOf
  <2>7. all[Max(O)] = old[Max(O)]
    BY <1>6, <2>5, <2>6
  <2>8. RowOf(i, all) = RowOf(i, old)
    BY <2>4, <2>7 DEF RowOf, A, O
  <2> QED
    BY <2>1, <2>3, <2>8 DEF Differing
<1> QED
  BY <1>9, <1>11, <1>12 DEF SettledFor

\* Committing a registration that was alone.
LEMMA CommitSettles ==
    ASSUME RegistryInv, NEW p \in Registrars, CommitSync(p), syncing[p].alone
    PROVE  LET items == syncing[p].items
               new == SubSeq(rows', Len(rows) + 1, Len(rows'))
           IN  /\ NewRows(items, rows') = <<>>
               /\ NamesOf(new) \cap NamesOf(rows) = {} /\ Cardinality(NamesOf(new)) = Len(new)
               /\ Twice(items) \/ \A key \in KeysOf(new) : RowsWith(key, rows') = 1
               /\ \A m \in Manifests : Parsed(m) /\ Added(m, rows) = items =>
                   /\ Added(m, rows') = <<>> /\ Gone(m, rows') = Gone(m, rows)
                   /\ Differing(m, rows') \subseteq ToSet(items) \cup Differing(m, rows)
<1>1. syncing[p].stage = "open" /\ rows' = rows \o NewRows(syncing[p].items, syncing[p].existing)
  BY DEF CommitSync
<1>2. /\ AreItems(syncing[p].items) /\ AreRows(syncing[p].existing)
      /\ SameRows(syncing[p].existing, rows) /\ AreRows(rows)
  BY <1>1, SyncShape DEF RegistryInv
<1>3. PICK old, items, existing, new, all :
        /\ old = rows /\ items = syncing[p].items /\ existing = syncing[p].existing
        /\ new = NewRows(items, existing) /\ all = old \o new
  OBVIOUS
<1>4. rows' = all
  BY <1>1, <1>3
<1>5. AreRows(old) /\ AreItems(items) /\ AreRows(existing) /\ SameRows(existing, old)
  BY <1>2, <1>3
<1>6. Settled(items, new, old, all)
  BY <1>3, <1>5, Settles
<1>7. SubSeq(all, Len(old) + 1, Len(all)) = new
  <2>1. IsList(old) /\ IsList(items) /\ IsList(existing)
    BY <1>5 DEF AreRows, AreItems
  <2>2. IsList(new)
    BY <1>3, <1>5, <2>1, NewRowsAreMade DEF Made, AreRows
  <2> QED
    BY <1>3, <2>1, <2>2, RestIs
<1>8. ASSUME NEW m \in Manifests, Added(m, old) = items
      PROVE  SettledFor(m, items, old, all)
  <2>1. IsList(m.interfaces)
    BY RegistryAssumption DEF RegistryAssumption
  <2> QED
    BY <1>3, <1>5, <1>8, <2>1, SettlesDiscovery
<1>9. SubSeq(rows', Len(rows) + 1, Len(rows')) = new
  BY <1>3, <1>4, <1>7
<1>10. NewRows(syncing[p].items, rows') = <<>>
  BY <1>3, <1>4, <1>6 DEF Settled
<1>11. NamesOf(new) \cap NamesOf(rows) = {} /\ Cardinality(NamesOf(new)) = Len(new)
  BY <1>3, <1>6 DEF Settled
<1>12. Twice(syncing[p].items) \/ \A key \in KeysOf(new) : RowsWith(key, rows') = 1
  BY <1>3, <1>4, <1>6 DEF Settled
<1>13. \A m \in Manifests : Parsed(m) /\ Added(m, rows) = syncing[p].items =>
         /\ Added(m, rows') = <<>> /\ Gone(m, rows') = Gone(m, rows)
         /\ Differing(m, rows') \subseteq ToSet(syncing[p].items) \cup Differing(m, rows)
  BY <1>3, <1>4, <1>8 DEF SettledFor
<1> QED
  BY <1>9, <1>10, <1>11, <1>12, <1>13

\* Confirming all that a discovery called new settles it, for any manifests, rows and admins
\* (SyncSettles).
THEOREM RegistrationsSettle == RegistryInit /\ [][RegistryNext]_registryVars => SyncSettles
<1>1. RegistryInv /\ [RegistryNext]_registryVars =>
        [\A p \in Registrars : CommitSync(p) /\ syncing[p].alone =>
        LET items == syncing[p].items
            new == SubSeq(rows', Len(rows) + 1, Len(rows'))
        IN  /\ NewRows(items, rows') = <<>>
            /\ NamesOf(new) \cap NamesOf(rows) = {} /\ Cardinality(NamesOf(new)) = Len(new)
            /\ Twice(items) \/ \A key \in KeysOf(new) : RowsWith(key, rows') = 1
            /\ \A m \in Manifests : Parsed(m) /\ Added(m, rows) = items =>
                /\ Added(m, rows') = <<>> /\ Gone(m, rows') = Gone(m, rows)
                /\ Differing(m, rows') \subseteq ToSet(items) \cup Differing(m, rows)]_registryVars
  BY CommitSettles
<1> QED
  BY <1>1, RegistryStarts, RegistrySteps, PTL DEF SyncSettles
=============================================================================
