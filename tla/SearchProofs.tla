---------------------------- MODULE SearchProofs ----------------------------
(***************************************************************************)
(* Proofs about the optimizer service at work, for any box, objectives,    *)
(* constraints, outcomes, prices and limits: a search stops for the reason *)
(* that it gives and in time; its books agree; the surrogate that it       *)
(* proposes by keeps the order of what it has evaluated; its frontier and  *)
(* its parents are those of the Pareto order; and the hypervolume that the *)
(* harness records is the measure of what its archive dominates.           *)
(***************************************************************************)
EXTENDS Search, NumberProofs

-----------------------------------------------------------------------------
(* Scores are numbers. *)
LEMMA ViolationIs ==
    ASSUME NEW c, IsConstraint(c), c.kind # "rejects", NEW v \in Int
    PROVE  Shortfall(c, v) \in Nat /\ Excess(c, v) \in Nat
  <1> DEFINE short == [b \in c.low |-> IF v < b THEN b - v ELSE 0]
             over  == [b \in c.high |-> IF v > b THEN v - b ELSE 0]
  <1>1. /\ \A b \in c.low \cup c.high : b \in Int
        /\ IsFiniteSet(c.low) /\ IsFiniteSet(c.high)
    BY DEF IsConstraint
  <1>2. DOMAIN short = c.low /\ \A b \in DOMAIN short : short[b] \in Nat /\ short[b] \in Int
    BY <1>1
  <1>3. DOMAIN over = c.high /\ \A b \in DOMAIN over : over[b] \in Nat /\ over[b] \in Int
    BY <1>1
  <1>4. Shortfall(c, v) = SumOf(short) /\ Excess(c, v) = SumOf(over)
    BY DEF Shortfall, Excess
  <1> HIDE DEF short, over
  <1> QED
    BY <1>1, <1>2, <1>3, <1>4, SumIs

LEMMA PenaltyIs ==
    ASSUME NEW c, IsConstraint(c), NEW lever \in Int,
           NEW metrics, \A n \in DOMAIN metrics : metrics[n] \in Int
    PROVE  Penalty(c, lever, metrics) \in Int
  <1> DEFINE v == Subject(c, lever, metrics)
  <1>1. v \in Int
    BY DEF Subject, Measured
  <1>2. c.weight \in Int
    BY DEF IsConstraint
  <1> HIDE DEF v
  <1>3. CASE c.kind = "rejects"
    BY <1>2, <1>3 DEF Penalty
  <1>4. CASE c.kind # "rejects"
    <2>1. Shortfall(c, v) \in Nat /\ Excess(c, v) \in Nat
      BY <1>1, <1>4, ViolationIs
    <2>2. (Shortfall(c, v) + Excess(c, v)) * c.weight \in Int
      BY <1>2, <2>1
    <2> QED
      BY <1>4, <2>2 DEF Penalty, v
  <1> QED
    BY <1>3, <1>4

LEMMA TotalPenaltyIs ==
    ASSUME NEW constraints, IsFiniteSet(constraints), \A c \in constraints : IsConstraint(c),
           NEW lever \in Int, NEW metrics, \A n \in DOMAIN metrics : metrics[n] \in Int
    PROVE  TotalPenalty(constraints, lever, metrics) \in Int
  <1> DEFINE p == [c \in constraints |-> Penalty(c, lever, metrics)]
  <1>1. DOMAIN p = constraints /\ \A c \in DOMAIN p : p[c] \in Int
    BY PenaltyIs
  <1>2. TotalPenalty(constraints, lever, metrics) = SumOf(p)
    BY DEF TotalPenalty
  <1> HIDE DEF p
  <1> QED
    BY <1>1, <1>2, SumIs

Vector == [Objectives -> Int]

LEMMA ScoresAre ==
    ASSUME setting \in Settings, batch.fidelity \in Fidelities, NEW p \in Box
    PROVE  Scores(p) \in Vector
  <1> DEFINE metrics == setting.outcome[Fidelity][p]
             extracted == Extracted(metrics)
  <1>1. Fidelity \in Fidelities
    BY DEF Fidelity, Fidelities
  <1>2. \A n \in DOMAIN metrics : metrics[n] \in Int
    BY <1>1, SettingsAssumption
  <1>3. p \in Int /\ IsFiniteSet(setting.constraints) /\ \A c \in setting.constraints : IsConstraint(c)
    BY SearchAssumption, SettingsAssumption
  <1>4. Scores(p) = Penalised(setting.constraints, p, extracted, metrics)
    BY DEF Scores
  <1>5. extracted \in Vector
    BY <1>2 DEF Extracted, Measured, Vector
  <1> HIDE DEF metrics, extracted
  <1>6. TotalPenalty(setting.constraints, p, metrics) \in Int
    BY <1>2, <1>3, TotalPenaltyIs
  <1>7. /\ DOMAIN extracted = Objectives
        /\ \A n \in Objectives : extracted[n] - TotalPenalty(setting.constraints, p, metrics) \in Int
    BY <1>5, <1>6 DEF Vector
  <1>8. Penalised(setting.constraints, p, extracted, metrics) \in Vector
    BY <1>5, <1>7 DEF Penalised, Vector
  <1> QED
    BY <1>4, <1>8

-----------------------------------------------------------------------------
(* Batches. *)
LEMMA TuplesAre ==
    ASSUME NEW S, NEW n \in Nat, NEW s \in TupleOf(S, n)
    PROVE  s \in Seq(S) /\ Len(s) = n
  BY FunctionIsSeq DEF TupleOf

LEMMA KeptIs ==
    ASSUME NEW raw \in Seq(Box)
    PROVE  /\ Kept(raw) \in Seq(Box)
           /\ Len(Kept(raw)) \in 0..Len(raw)
           /\ setting.constraints = {} => Len(Kept(raw)) = Len(raw)
  <1> DEFINE P == {i \in DOMAIN raw : Feasible(raw[i])}
  <1>1. Len(raw) \in Nat /\ DOMAIN raw = 1..Len(raw) /\ \A i \in DOMAIN raw : raw[i] \in Box
    BY LenProperties, ElementOfSeq
  <1>2. IsFiniteSet(DOMAIN raw) /\ Cardinality(DOMAIN raw) = Len(raw)
    <2>1. /\ IsFiniteSet(1..Len(raw))
          /\ Cardinality(1..Len(raw)) = IF 1 > Len(raw) THEN 0 ELSE Len(raw) - 1 + 1
      BY <1>1, FS_Interval
    <2> QED
      BY <1>1, <2>1
  <1>3. P \in SUBSET DOMAIN raw /\ P \subseteq Int
    BY <1>1
  <1>4. setting.constraints = {} => P = DOMAIN raw
    BY DEF Feasible, AllSatisfied, HardViolations
  <1>5. Kept(raw) = Picked(raw, P)
    BY DEF Kept
  <1> HIDE DEF P
  <1>6. IsFiniteSet(P) /\ Cardinality(P) <= Len(raw) /\ Cardinality(P) \in Nat
    BY <1>2, <1>3, FS_Subset, FS_CardinalityType
  <1>7. \A i \in P : raw[i] \in Box
    BY <1>1, <1>3
  <1>8. Picked(raw, P) \in Seq(Box) /\ Len(Picked(raw, P)) = Cardinality(P)
    BY <1>3, <1>6, <1>7, PickedIs
  <1> QED
    BY <1>1, <1>2, <1>4, <1>5, <1>6, <1>8

LEMMA SharesAre ==
    ASSUME NEW n \in Nat
    PROVE  BayesianShare(n) \in 0..n /\ GeneticShare(n) \in 0..(n - BayesianShare(n))
  <1>1. n \div 2 \in 0..n
    OBVIOUS
  <1>2. BayesianShare(n) \in 0..n
    BY <1>1 DEF BayesianShare
  <1>3. PopulationSize \in Nat
    BY SearchAssumption
  <1>4. Generation \in Nat
    BY <1>3 DEF Generation
  <1>5. Min({n - BayesianShare(n), Generation}) \in 0..(n - BayesianShare(n))
    BY <1>2, <1>4, MinOfTwo
  <1> QED
    BY <1>2, <1>5 DEF GeneticShare

LEMMA RawIs ==
    ASSUME NEW n \in Nat, NEW raw \in Raw(n)
    PROVE  raw \in Seq(Box) /\ Len(raw) \in 0..n
  <1> DEFINE s == BayesianShare(n)
             m == GeneticShare(n)
  <1>1. s \in 0..n /\ m \in 0..(n - s)
    BY SharesAre
  <1>2. PICK a \in TupleOf(Box, s) : \E o \in TupleOf(Box, m) : raw = a \o o
    BY DEF Raw, Acquired, Offspring
  <1>3. PICK o \in TupleOf(Box, m) : raw = a \o o
    BY <1>2
  <1> HIDE DEF s, m
  <1>4. /\ a \in Seq(Box) /\ Len(a) = s
        /\ o \in Seq(Box) /\ Len(o) = m
    BY <1>1, <1>2, <1>3, TuplesAre
  <1>5. raw \in Seq(Box) /\ Len(raw) = s + m
    BY <1>3, <1>4, ConcatProperties
  <1> QED
    BY <1>1, <1>5

LEMMA FillIs ==
    ASSUME NEW room \in Nat, NEW fill \in Fills(room)
    PROVE  /\ fill \in Seq(Box)
           /\ Len(fill) \in 0..room
           /\ setting.constraints = {} => Len(fill) = room
  <1>1. PICK m \in 0..room : fill \in [1..m -> {p \in Box : Feasible(p)}]
    BY DEF Fills, BoundedSeq, SeqOf
  <1>2. fill \in [1..m -> Box]
    BY <1>1
  <1>3. fill \in Seq(Box) /\ Len(fill) = m
    BY <1>2, FunctionIsSeq
  <1>4. setting.constraints = {} => \A p \in Box : Feasible(p)
    BY DEF Feasible, AllSatisfied, HardViolations
  <1>5. Len(fill) = room \/ \E p \in Box : ~Feasible(p)
    BY DEF Fills
  <1> QED
    BY <1>1, <1>3, <1>4, <1>5

LEMMA UnifiedBatchIs ==
    ASSUME NEW n \in Nat, NEW points \in UnifiedBatches(n)
    PROVE  /\ points \in Seq(Box)
           /\ Len(points) \in 0..n
           /\ setting.constraints = {} => Len(points) = n
  <1>1. PICK raw \in Raw(n) : \E fill \in Fills(n - Len(Kept(raw))) : points = Kept(raw) \o fill
    BY DEF UnifiedBatches
  <1>2. raw \in Seq(Box) /\ Len(raw) \in 0..n
    BY RawIs
  <1>3. /\ Kept(raw) \in Seq(Box)
        /\ Len(Kept(raw)) \in 0..Len(raw)
    BY <1>2, KeptIs
  <1> DEFINE room == n - Len(Kept(raw))
  <1>4. PICK fill \in Fills(room) : points = Kept(raw) \o fill
    BY <1>1
  <1>5. room \in Nat
    BY <1>2, <1>3
  <1> HIDE DEF room
  <1>6. /\ fill \in Seq(Box)
        /\ Len(fill) \in 0..room
        /\ setting.constraints = {} => Len(fill) = room
    BY <1>5, FillIs
  <1>7. points \in Seq(Box) /\ Len(points) = Len(Kept(raw)) + Len(fill)
    BY <1>3, <1>4, <1>6, ConcatProperties
  <1> QED
    BY <1>2, <1>3, <1>5, <1>6, <1>7 DEF room

LEMMA BackendBatchIs ==
    ASSUME NEW n \in Nat \ {0}, NEW points \in BackendBatches(n)
    PROVE  points \in Seq(Box) /\ Len(points) \in 1..n
  <1>1. PopulationSize \in Nat \ {0}
    BY SearchAssumption
  <1>2. PICK m \in 1..n : points \in TupleOf(Box, m)
    <2>1. Min({n, PopulationSize}) \in 1..n
      BY <1>1, MinOfTwo
    <2>2. n \in 1..n
      OBVIOUS
    <2> QED
      BY <2>1, <2>2 DEF BackendBatches, Acquired, Offspring
  <1> QED
    BY <1>2, TuplesAre

-----------------------------------------------------------------------------
(* Types.  The books of the surrogate are those of the hybrid engine; other  *)
(* backends keep theirs in a form of their own.                              *)
Candidate == [point : Box, fidelity : Fidelities, objectives : Vector]

Reasons == {"none", "budget_exhausted", "max_iterations", "max_evaluations",
            "plateau", "convergence"}

Rules == [iteration : Nat, evaluations : Nat, spent : Int, best : Seq(Int), reason : Reasons]

TypeOK ==
    /\ setting \in Settings
    /\ pc \in {"propose", "evaluate", "done"}
    /\ batch \in [points : Seq(Box), fidelity : Fidelities]
    /\ candidates \in Seq(Candidate)
    /\ rules \in Rules
    /\ purse \in Int

LEMMA PricesAre ==
    ASSUME NEW f \in Fidelities
    PROVE  Price(f) \in Nat /\ Allowance \in Nat
  BY SearchAssumption DEF Price, Allowance, Plenty

LEMMA ChoicesAre ==
    ASSUME NEW f \in FidelityChoices
    PROVE  f \in Fidelities
  <1>1. \A g \in Affordable : g \in Fidelities
    BY DEF Affordable
  <1>2. {"high"} \subseteq Fidelities /\ {"cheap"} \subseteq Fidelities
    BY DEF Fidelities
  <1> QED
    BY <1>1, <1>2 DEF FidelityChoices, BanditChoices

(* The evaluated batch follows the candidates, one row for each point. *)
LEMMA EvaluatedIs ==
    ASSUME TypeOK
    PROVE  /\ Evaluated \in Seq(Candidate) /\ Len(Evaluated) = Len(batch.points)
           /\ \A i \in 1..Len(Evaluated) : Evaluated[i].fidelity = Fidelity
           /\ Fidelity \in Fidelities
  <1>1. /\ batch.fidelity \in Fidelities /\ setting \in Settings
        /\ batch.points \in Seq(Box)
    BY DEF TypeOK
  <1>2. Fidelity \in Fidelities
    BY <1>1 DEF Fidelity, Fidelities
  <1> DEFINE n == Len(batch.points)
             row(i) == [point |-> batch.points[i], fidelity |-> Fidelity,
                        objectives |-> Scores(batch.points[i])]
  <1>3. n \in Nat /\ DOMAIN batch.points = 1..n
    BY <1>1, LenProperties
  <1>4. ASSUME NEW i \in 1..n
        PROVE  row(i) \in Candidate /\ row(i).fidelity = Fidelity
    <2>1. batch.points[i] \in Box
      BY <1>1, <1>4, ElementOfSeq
    <2>2. Scores(batch.points[i]) \in Vector
      BY <1>1, <2>1, ScoresAre
    <2> QED
      BY <1>2, <2>1, <2>2 DEF Candidate
  <1> HIDE DEF n, row
  <1>5. Evaluated = [i \in 1..n |-> row(i)]
    BY <1>3 DEF Evaluated, row
  <1>6. Evaluated \in [1..n -> Candidate]
    BY <1>4, <1>5
  <1>7. Evaluated \in Seq(Candidate) /\ Len(Evaluated) = n
    BY <1>3, <1>6, FunctionIsSeq
  <1>8. \A i \in 1..n : Evaluated[i].fidelity = Fidelity
    BY <1>4, <1>5
  <1> QED
    BY <1>2, <1>7, <1>8 DEF n

LEMMA BatchIs ==
    ASSUME TypeOK, Evaluate
    PROVE  /\ candidates' \in Seq(Candidate)
           /\ Len(candidates') = Len(candidates) + Len(batch.points)
           /\ SubSeq(candidates', Len(candidates) + 1, Len(candidates')) = Evaluated
  <1>1. candidates \in Seq(Candidate) /\ candidates' = candidates \o Evaluated
    BY DEF TypeOK, Evaluate
  <1>2. Evaluated \in Seq(Candidate) /\ Len(Evaluated) = Len(batch.points)
    BY EvaluatedIs
  <1>3. candidates' \in Seq(Candidate) /\ Len(candidates') = Len(candidates) + Len(Evaluated)
    BY <1>1, <1>2, ConcatProperties
  <1>4. Len(candidates) \in Nat /\ Len(Evaluated) \in Nat
    BY <1>1, <1>2, LenProperties
  <1>5. SubSeq(candidates', Len(candidates) + 1, Len(candidates')) = Evaluated
    <2> DEFINE a == Len(candidates)
               b == Len(Evaluated)
    <2>1. CASE b = 0
      <3>1. Evaluated = <<>>
        BY <1>2, <2>1, EmptySeq
      <3>2. a + 1 \in Int /\ Len(candidates') \in Int /\ Len(candidates') < a + 1
        BY <1>3, <1>4, <2>1
      <3> HIDE DEF a
      <3>3. SubSeq(candidates', a + 1, Len(candidates')) = <<>>
        BY <3>2, SubSeqEmpty
      <3> QED
        BY <3>1, <3>3 DEF a
    <2>2. CASE b # 0
      <3>1. a + 1 \in a + 1..a + b /\ a + b \in a + 1..a + b
        BY <1>4, <2>2
      <3>2. SubSeq(candidates \o Evaluated, a + 1, a + b) = SubSeq(Evaluated, a + 1 - a, a + b - a)
        BY <1>1, <1>2, <3>1, SubSeqOfConcat2
      <3>3. a + 1 - a = 1 /\ a + b - a = b
        BY <1>4
      <3>4. SubSeq(Evaluated, 1, b) = Evaluated
        BY <1>2, SubSeqFull
      <3> QED
        BY <1>1, <1>3, <3>2, <3>3, <3>4
    <2> QED
      BY <2>1, <2>2
  <1> QED
    BY <1>2, <1>3, <1>5

(* The best so far. *)
LEMMA ExtremeIs ==
    ASSUME NEW S, S \subseteq Int, IsFiniteSet(S), S # {}, NEW m \in BOOLEAN
    PROVE  \E x \in S : /\ Extreme(S, m) = {x}
                        /\ \A y \in S : IF m THEN y <= x ELSE y >= x
  <1>1. Max(S) \in S /\ \A y \in S : Max(S) >= y
    BY MaxIs
  <1>2. Min(S) \in S /\ \A y \in S : Min(S) <= y
    BY LeastIs
  <1>3. \A y \in S : y \in Int
    OBVIOUS
  <1>4. CASE m
    <2>1. Extreme(S, m) = {Max(S)}
      BY <1>4 DEF Extreme
    <2> QED
      BY <1>1, <1>3, <1>4, <2>1
  <1>5. CASE ~m
    <2>1. Extreme(S, m) = {Min(S)}
      BY <1>5 DEF Extreme
    <2> QED
      BY <1>2, <1>3, <1>5, <2>1
  <1> QED
    BY <1>4, <1>5

LEMMA PrimariesAre ==
    ASSUME NEW rows \in Seq(Candidate)
    PROVE  /\ Primaries(rows) \in Seq(Int) /\ Len(Primaries(rows)) = Len(rows)
           /\ \A i \in 1..Len(rows) : Primaries(rows)[i] = rows[i].objectives[Primary]
           /\ Range(Primaries(rows)) \subseteq Int /\ IsFiniteSet(Range(Primaries(rows)))
           /\ Range(Primaries(rows)) = {} <=> rows = <<>>
  <1> DEFINE n == Len(rows)
             p == Primaries(rows)
  <1>1. n \in Nat /\ DOMAIN rows = 1..n /\ \A i \in 1..n : rows[i] \in Candidate
    BY LenProperties, ElementOfSeq
  <1>2. Primary \in Objectives
    BY SearchAssumption
  <1>3. \A i \in 1..n : rows[i].objectives[Primary] \in Int
    BY <1>1, <1>2 DEF Candidate, Vector
  <1>4. p = [i \in 1..n |-> rows[i].objectives[Primary]]
    BY <1>1 DEF Primaries
  <1>5. p \in [1..n -> Int] /\ \A i \in 1..n : p[i] = rows[i].objectives[Primary]
    BY <1>3, <1>4
  <1> HIDE DEF p
  <1>6. p \in Seq(Int) /\ Len(p) = n /\ DOMAIN p = 1..n
    BY <1>1, <1>5, FunctionIsSeq
  <1>7. Range(p) \subseteq Int
    BY <1>5, <1>6 DEF Range
  <1>8. IsFiniteSet(Range(p))
    <2>1. p \in [1..n -> Range(p)] /\ \A y \in Range(p) : \E i \in 1..n : p[i] = y
      BY <1>5, <1>6 DEF Range
    <2>2. ExistsSurjection(1..n, Range(p))
      BY <2>1 DEF ExistsSurjection, Surjection
    <2> QED
      BY <1>1, <2>2, FS_NatSurjection
  <1>9. Range(p) = {} <=> n = 0
    <2>1. n # 0 => 1 \in 1..n
      BY <1>1
    <2>2. \A i \in 1..n : p[i] \in Range(p)
      BY <1>6 DEF Range
    <2>3. n = 0 => Range(p) = {}
      BY <1>6 DEF Range
    <2> QED
      BY <2>1, <2>2, <2>3
  <1>10. n = 0 <=> rows = <<>>
    BY EmptySeq
  <1> QED
    BY <1>5, <1>6, <1>7, <1>8, <1>9, <1>10 DEF p

LEMMA BestIs ==
    ASSUME NEW rows \in Seq(Candidate)
    PROVE  /\ rows = <<>> => Best(rows) = {}
           /\ rows # <<>> => \E x \in Int : Best(rows) = {x}
           /\ SetToSeq(Best(rows)) \in Seq(Int)
  <1> DEFINE S == Range(Primaries(rows))
             m == Primary \in setting.up
  <1>1. S \subseteq Int /\ IsFiniteSet(S) /\ (S = {} <=> rows = <<>>)
    BY PrimariesAre
  <1>2. m \in BOOLEAN
    OBVIOUS
  <1>3. Best(rows) = Extreme(S, m)
    BY DEF Best
  <1> HIDE DEF S, m
  <1>4. CASE rows = <<>>
    <2>1. Best(rows) = {}
      BY <1>1, <1>3, <1>4 DEF Extreme
    <2> QED
      BY <1>4, <2>1, OneAsSeq, EmptySeq
  <1>5. CASE rows # <<>>
    <2>1. PICK x \in S : Extreme(S, m) = {x}
      BY <1>1, <1>2, <1>5, ExtremeIs
    <2>2. x \in Int /\ <<x>> \in Seq(Int)
      BY <1>1
    <2>3. SetToSeq({x}) = <<x>>
      BY OneAsSeq
    <2> QED
      BY <1>3, <1>5, <2>1, <2>2, <2>3
  <1> QED
    BY <1>4, <1>5

-----------------------------------------------------------------------------
(* What evaluating a batch does to the state of the stopping rules. *)
LEMMA ChecksAre ==
    ASSUME NEW s
    PROVE  /\ Check(s) \in Reasons
           /\ Check(s) = "budget_exhausted" => s.spent >= setting.limits.spend
           /\ Check(s) = "max_iterations" => s.iteration >= setting.limits.iterations
           /\ Check(s) = "max_evaluations" => s.evaluations >= setting.limits.evaluations
           /\ Check(s) = "plateau" => Plateau(s.best)
           /\ Check(s) = "convergence" => Converged(s.best)
           /\ Harness => Check(s) = "none"
           /\ ~Harness /\ Check(s) = "none" =>
                 \/ s.iteration < setting.limits.minimum
                 \/ /\ ~(s.spent >= setting.limits.spend)
                    /\ ~(s.iteration >= setting.limits.iterations)
                    /\ ~(s.evaluations >= setting.limits.evaluations)
                    /\ ~Plateau(s.best) /\ ~Converged(s.best)
  BY DEF Check, Reasons

LEMMA RulesAre ==
    ASSUME TypeOK, Evaluate, Unified
    PROVE  /\ rules' \in Rules
           /\ rules'.iteration = rules.iteration + 1
           /\ rules'.evaluations = rules.evaluations + Len(batch.points)
           /\ rules'.spent = rules.spent + Len(batch.points) * Price(Fidelity)
           /\ rules'.best = rules.best \o SetToSeq(Best(candidates'))
           /\ rules'.reason = IF Check(rules') = "none" THEN rules.reason ELSE Check(rules')
           /\ purse' = purse - Len(batch.points) * Price(Fidelity)
           /\ purse' \in Int
  <1> DEFINE s == Updated(Evaluated, candidates')
  <1>1. /\ candidates' \in Seq(Candidate)
        /\ SubSeq(candidates', Len(candidates) + 1, Len(candidates')) = Evaluated
        /\ Len(Evaluated) = Len(batch.points)
    BY BatchIs, EvaluatedIs
  <1>2. /\ rules' = Ruled(s)
        /\ purse' = purse - Len(Evaluated) * Price(Fidelity)
    BY <1>1 DEF Evaluate, UnifiedUpdates
  <1>3. rules \in Rules /\ purse \in Int /\ Len(Evaluated) \in Nat /\ Price(Fidelity) \in Nat
    BY EvaluatedIs, PricesAre, LenProperties DEF TypeOK
  <1>4. SetToSeq(Best(candidates')) \in Seq(Int)
    BY <1>1, BestIs
  <1>5. Len(Evaluated) * Price(Fidelity) \in Int
    BY <1>3
  <1>6. /\ s \in Rules /\ s.reason = rules.reason
        /\ s.iteration = rules.iteration + 1
        /\ s.evaluations = rules.evaluations + Len(Evaluated)
        /\ s.spent = rules.spent + Len(Evaluated) * Price(Fidelity)
        /\ s.best = rules.best \o SetToSeq(Best(candidates'))
    <2>1. s = [rules EXCEPT !.iteration = rules.iteration + 1,
                            !.evaluations = rules.evaluations + Len(Evaluated),
                            !.spent = rules.spent + Len(Evaluated) * Price(Fidelity),
                            !.best = rules.best \o SetToSeq(Best(candidates'))]
      BY DEF Updated
    <2>2. rules.best \o SetToSeq(Best(candidates')) \in Seq(Int)
      BY <1>3, <1>4, ConcatProperties DEF Rules
    <2>3. /\ rules.iteration + 1 \in Nat
          /\ rules.evaluations + Len(Evaluated) \in Nat
          /\ rules.spent + Len(Evaluated) * Price(Fidelity) \in Int
      BY <1>3, <1>5 DEF Rules
    <2> HIDE DEF s
    <2> QED
      BY <1>3, <2>1, <2>2, <2>3 DEF Rules
  <1> HIDE DEF s
  <1>7. /\ rules' \in Rules
        /\ rules'.iteration = s.iteration /\ rules'.evaluations = s.evaluations
        /\ rules'.spent = s.spent /\ rules'.best = s.best
        /\ rules'.reason = IF Check(s) = "none" THEN s.reason ELSE Check(s)
    <2>1. Check(s) \in Reasons
      BY ChecksAre
    <2> QED
      BY <1>2, <1>6, <2>1 DEF Ruled, Rules
  <1>8. Check(rules') = Check(s)
    BY <1>7 DEF Check
  <1> QED
    BY <1>1, <1>2, <1>3, <1>5, <1>6, <1>7, <1>8

(* What keeps a search going.  A loop goes on as long as no rule held: then  *)
(* it is its first iteration, or one before min_iterations, or the limits   *)
(* of iterations and evaluations are ahead.  The harness goes on while it   *)
(* has budget left, and no batch exceeds what is left.                      *)
Going ==
    /\ ~Harness =>
         /\ pc # "done" =>
              \/ rules.iteration = 0
              \/ rules.iteration < setting.limits.minimum
              \/ /\ rules.iteration < setting.limits.iterations
                 /\ rules.evaluations < setting.limits.evaluations
         /\ rules.evaluations <= BatchSize * rules.iteration
         /\ pc = "evaluate" => Len(batch.points) <= BatchSize
    /\ Harness =>
         /\ rules.reason = "none"
         /\ pc = "propose" => Len(candidates) < EvalBudget
         /\ pc = "evaluate" => Len(batch.points) \in 1..(EvalBudget - Len(candidates))

Inv == TypeOK /\ Going /\ StopIsHonest

LEMMA ProposedIs ==
    ASSUME TypeOK, Going, HarnessProposes
    PROVE  /\ setting' = setting /\ candidates' = candidates /\ rules' = rules /\ purse' = purse
           /\ batch' \in [points : Seq(Box), fidelity : Fidelities]
           /\ Len(batch'.points) \in 1..(EvalBudget - Len(candidates))
           /\ pc' = "evaluate"
  <1>1. /\ setting \in Settings /\ Harness /\ setting.constraints = {}
        /\ Len(candidates) \in Nat /\ Len(candidates) < EvalBudget
    <2>1. Harness /\ pc = "propose"
      BY DEF HarnessProposes
    <2> QED
      BY <2>1, LenProperties, SettingsAssumption DEF TypeOK, Going, Harness
  <1>2. Room \in 1..(EvalBudget - Len(candidates))
    <2>1. EvalBudget - Len(candidates) \in Nat \ {0} /\ BatchSize \in Nat \ {0}
      BY <1>1, SearchAssumption
    <2>2. Room = IF BatchSize <= EvalBudget - Len(candidates) THEN BatchSize
                 ELSE EvalBudget - Len(candidates)
      BY <2>1, MinOfTwo DEF Room
    <2> QED
      BY <2>1, <2>2
  <1>3. PICK points \in IF Unified THEN UnifiedBatches(Room) ELSE BackendBatches(Room) :
           /\ Proposed(points, "cheap")
           /\ pc' = IF points = <<>> THEN "done" ELSE "evaluate"
    BY DEF HarnessProposes
  <1>4. Room \in Nat \ {0} /\ EvalBudget - Len(candidates) \in Nat
    BY <1>1, <1>2, SearchAssumption
  <1>5. points \in Seq(Box) /\ Len(points) \in 1..Room
    <2>1. CASE Unified
      <3>1. points \in UnifiedBatches(Room)
        BY <1>3, <2>1
      <3>2. points \in Seq(Box) /\ Len(points) = Room
        BY <1>1, <1>4, <3>1, UnifiedBatchIs
      <3> QED
        BY <1>4, <3>2
    <2>2. CASE ~Unified
      <3>1. points \in BackendBatches(Room)
        BY <1>3, <2>2
      <3> QED
        BY <1>4, <3>1, BackendBatchIs
    <2> QED
      BY <2>1, <2>2
  <1>6. Len(points) \in 1..(EvalBudget - Len(candidates)) /\ points # <<>>
    <2>1. Len(points) # 0
      BY <1>5
    <2>2. points # <<>>
      BY <2>1, EmptySeq
    <2> QED
      BY <1>2, <1>4, <1>5, <2>2
  <1>7. batch' = [points |-> points, fidelity |-> "cheap"] /\ "cheap" \in Fidelities
    BY <1>3 DEF Proposed, Fidelities
  <1>8. batch'.points = points /\ batch' \in [points : Seq(Box), fidelity : Fidelities]
    BY <1>5, <1>7
  <1> QED
    BY <1>3, <1>6, <1>8 DEF Proposed

LEMMA TypePreserved ==
    ASSUME TypeOK, Going, [Next]_vars
    PROVE  TypeOK'
  <1> USE DEF TypeOK
  <1>1. CASE LoopProposes
    <2>1. PICK points \in UnifiedBatches(BatchSize), f \in FidelityChoices : Proposed(points, f)
      BY <1>1 DEF LoopProposes
    <2>2. points \in Seq(Box) /\ f \in Fidelities
      BY SearchAssumption, UnifiedBatchIs, ChoicesAre
    <2>3. batch' \in [points : Seq(Box), fidelity : Fidelities]
      BY <2>1, <2>2 DEF Proposed
    <2> QED
      BY <1>1, <2>1, <2>3 DEF LoopProposes, Proposed
  <1>2. CASE HarnessProposes
    BY <1>2, ProposedIs
  <1>3. CASE Evaluate
    <2>1. candidates' \in Seq(Candidate)
      BY <1>3, BatchIs
    <2>2. setting' = setting /\ batch' = batch /\ pc' \in {"propose", "done"}
      BY <1>3 DEF Evaluate
    <2>3. rules' \in Rules /\ purse' \in Int
      <3>1. CASE Unified
        BY <1>3, <3>1, RulesAre
      <3>2. CASE ~Unified
        BY <1>3, <3>2 DEF Evaluate, BackendUpdates
      <3> QED
        BY <3>1, <3>2
    <2> QED
      BY <2>1, <2>2, <2>3
  <1>4. CASE UNCHANGED vars
    BY <1>4 DEF vars
  <1> QED
    BY <1>1, <1>2, <1>3, <1>4 DEF Next

LEMMA StopBegins == Init => Inv
  <1> SUFFICES ASSUME Init PROVE Inv
    OBVIOUS
  <1>1. TypeOK
    BY PricesAre, EmptySeq DEF Init, TypeOK, NoRules, Rules, Reasons, Fidelities
  <1> DEFINE m == setting.limits.minimum
             n == setting.limits.iterations
             e == setting.limits.evaluations
  <1>2. m \in Nat /\ n \in Nat /\ e \in Nat /\ BatchSize \in Nat \ {0} /\ EvalBudget \in Nat \ {0}
    BY SettingsAssumption, SearchAssumption DEF Init
  <1> HIDE DEF m, n, e
  <1>3. Max({n, m, 1}) >= 1 /\ Max({n, m, 1}) \in Int
    BY <1>2, MaxWithOne
  <1> DEFINE z == BatchSize * (m - 1) + 1
  <1>4. z \in Int
    BY <1>2
  <1> HIDE DEF z
  <1>5. Max({e, z, 1}) \in Int /\ 1 <= Max({e, z, 1})
    <2>1. e \in Int
      BY <1>2
    <2> QED
      BY <1>4, <2>1, MaxWithOne
  <1>6. 0 <= Max({n, m, 1}) /\ 0 < BatchSize + Max({e, z, 1})
    BY <1>2, <1>3, <1>5
  <1>7. Len(candidates) = 0
    BY EmptySeq DEF Init
  <1>8. Going
    BY <1>2, <1>7 DEF Init, Going, NoRules
  <1>9. StopIsHonest
    <2>1. ~(0 >= Max({m, 1}))
      BY <1>2, MaxOfTwo
    <2>2. /\ pc = "propose" /\ rules.reason = "none" /\ rules.iteration = 0
          /\ rules.evaluations = 0
      BY DEF Init, NoRules
    <2> QED
      BY <1>2, <1>6, <1>7, <2>1, <2>2 DEF StopIsHonest, m, n, e, z
  <1> QED
    BY <1>1, <1>8, <1>9 DEF Inv

(* A step of a loop stays in time. *)
LEMMA InTime ==
    ASSUME NEW b \in Nat \ {0}, NEW m \in Nat, NEW n \in Nat, NEW e \in Nat,
           NEW i \in Nat, NEW v \in Nat, NEW w \in 0..b, v <= b * i,
           i = 0 \/ i < m \/ (i < n /\ v < e)
    PROVE  /\ i + 1 <= Max({n, m, 1})
           /\ v + w < b + Max({e, b * (m - 1) + 1, 1})
           /\ v + w <= b * (i + 1)
  <1>1. b * (i + 1) = b * i + b
    OBVIOUS
  <1>2. Max({n, m, 1}) \in Int /\ n <= Max({n, m, 1}) /\ m <= Max({n, m, 1}) /\ 1 <= Max({n, m, 1})
    BY MaxWithOne
  <1> DEFINE z == b * (m - 1) + 1
  <1>3. z \in Int /\ (i < m => b * i < z) /\ (i = 0 => b * i = 0)
    OBVIOUS
  <1> HIDE DEF z
  <1>4. /\ Max({e, z, 1}) \in Int
        /\ e <= Max({e, z, 1}) /\ z <= Max({e, z, 1}) /\ 1 <= Max({e, z, 1})
    BY <1>3, MaxWithOne
  <1>5. v < Max({e, z, 1})
    BY <1>3, <1>4
  <1> QED
    BY <1>1, <1>2, <1>4, <1>5 DEF z

LEMMA StopPreserved ==
    ASSUME Inv, [Next]_vars
    PROVE  Inv'
  <1>1. TypeOK /\ Going /\ StopIsHonest
    BY DEF Inv
  <1>2. TypeOK'
    BY <1>1, TypePreserved
  <1>3. CASE LoopProposes
    <2>1. PICK points \in UnifiedBatches(BatchSize), f \in FidelityChoices : Proposed(points, f)
      BY <1>3 DEF LoopProposes
    <2>2. Len(points) \in 0..BatchSize
      BY SearchAssumption, UnifiedBatchIs
    <2>3. /\ pc = "propose" /\ pc' = "evaluate" /\ ~Harness
          /\ setting' = setting /\ rules' = rules /\ candidates' = candidates
          /\ batch'.points = points
      BY <1>3, <2>1 DEF LoopProposes, Proposed
    <2>4. Len(batch'.points) <= BatchSize
      BY <2>2, <2>3, SearchAssumption
    <2>5. Going'
      BY <1>1, <2>3, <2>4 DEF Going, Harness
    <2>6. StopIsHonest'
      BY <1>1, <2>3 DEF StopIsHonest, Reached, Harness, Plateau, Converged
    <2> QED
      BY <1>2, <2>5, <2>6 DEF Inv
  <1>4. CASE HarnessProposes
    <2>1. /\ setting' = setting /\ candidates' = candidates /\ rules' = rules
          /\ Len(batch'.points) \in 1..(EvalBudget - Len(candidates))
          /\ pc = "propose" /\ pc' = "evaluate" /\ Harness
      BY <1>1, <1>4, ProposedIs DEF HarnessProposes
    <2>2. Going'
      BY <1>1, <2>1 DEF Going, Harness
    <2>3. StopIsHonest'
      BY <1>1, <2>1 DEF StopIsHonest, Reached, Harness, Plateau, Converged
    <2> QED
      BY <1>2, <2>2, <2>3 DEF Inv
  <1>5. CASE Evaluate
    <2>1. /\ pc = "evaluate" /\ setting' = setting /\ batch' = batch /\ setting \in Settings
          /\ Len(candidates') = Len(candidates) + Len(batch.points)
          /\ Len(batch.points) \in Nat /\ Len(candidates) \in Nat
          /\ rules \in Rules
      BY <1>1, <1>5, BatchIs, LenProperties DEF Evaluate, TypeOK
    <2>2. CASE ~Harness
      <3>1. Unified
        BY <2>1, <2>2, SettingsAssumption DEF Harness, Unified
      <3>2. /\ rules'.iteration = rules.iteration + 1
            /\ rules'.evaluations = rules.evaluations + Len(batch.points)
            /\ rules'.reason = IF Check(rules') = "none" THEN rules.reason ELSE Check(rules')
        BY <1>1, <1>5, <3>1, RulesAre
      <3>3. rules.reason = "none" /\ pc' = IF Check(rules') = "none" THEN "propose" ELSE "done"
        BY <1>1, <1>5, <2>1, <2>2 DEF StopIsHonest, Evaluate
      <3>4. rules'.reason # "none" => Reached(rules.reason)'
        <4>1. rules'.reason = Check(rules')
          BY <3>2, <3>3
        <4> QED
          BY <2>1, <4>1, ChecksAre DEF Reached, Reasons, Plateau, Converged
      <3> DEFINE m == setting.limits.minimum
                 n == setting.limits.iterations
                 e == setting.limits.evaluations
                 i == rules.iteration
                 v == rules.evaluations
                 w == Len(batch.points)
      <3>5. /\ m \in Nat /\ n \in Nat /\ e \in Nat /\ i \in Nat /\ v \in Nat
            /\ BatchSize \in Nat \ {0}
        BY <2>1, SettingsAssumption, SearchAssumption DEF Rules
      <3>6. /\ w \in 0..BatchSize /\ v <= BatchSize * i
            /\ i = 0 \/ i < m \/ (i < n /\ v < e)
        BY <1>1, <2>1, <2>2, <3>5 DEF Going
      <3> HIDE DEF m, n, e, i, v, w
      <3>7. /\ i + 1 <= Max({n, m, 1})
            /\ v + w < BatchSize + Max({e, BatchSize * (m - 1) + 1, 1})
            /\ v + w <= BatchSize * (i + 1)
        BY <3>5, <3>6, InTime
      <3>8. pc' # "done" => \/ rules'.iteration < m
                            \/ rules'.iteration < n /\ rules'.evaluations < e
        <4>1. ASSUME Check(rules') = "none"
              PROVE  \/ rules'.iteration < m
                     \/ /\ ~(rules'.iteration >= n)
                        /\ ~(rules'.evaluations >= e)
          BY <2>2, <4>1, ChecksAre DEF m, n, e
        <4>2. rules'.iteration \in Nat /\ rules'.evaluations \in Nat
          BY <1>2 DEF TypeOK, Rules
        <4> QED
          BY <3>3, <3>5, <4>1, <4>2
      <3>a. pc' # "done" /\ rules'.iteration >= Max({m, 1}) =>
                \A reason \in {"budget_exhausted", "max_iterations", "max_evaluations",
                               "plateau", "convergence"} : ~Reached(reason)'
        <4> SUFFICES ASSUME pc' # "done", rules'.iteration >= Max({m, 1})
                     PROVE  \A reason \in {"budget_exhausted", "max_iterations", "max_evaluations",
                                           "plateau", "convergence"} : ~Reached(reason)'
          OBVIOUS
        <4>1. ~(rules'.iteration < m)
          BY <3>2, <3>5, MaxOfTwo DEF i
        <4>2. Check(rules') = "none"
          BY <3>3
        <4>3. /\ ~(rules'.spent >= setting.limits.spend)
              /\ ~(rules'.iteration >= setting.limits.iterations)
              /\ ~(rules'.evaluations >= setting.limits.evaluations)
              /\ ~Plateau(rules'.best) /\ ~Converged(rules'.best)
          BY <2>2, <4>1, <4>2, ChecksAre DEF m
        <4>4. Plateau(rules.best)' = Plateau(rules'.best) /\ Converged(rules.best)' = Converged(rules'.best)
          BY <2>1 DEF Plateau, Converged
        <4> QED
          BY <2>1, <4>3, <4>4 DEF Reached
      <3>9. Going'
        BY <2>1, <2>2, <3>2, <3>3, <3>7, <3>8 DEF Going, Harness, m, n, i, v, w, e
      <3>10. StopIsHonest'
        BY <2>1, <2>2, <3>2, <3>3, <3>4, <3>7, <3>a DEF StopIsHonest, Harness, m, n, i, v, w, e
      <3> QED
        BY <1>2, <3>9, <3>10 DEF Inv
    <2>3. CASE Harness
      <3>1. rules.reason = "none" /\ Len(batch.points) \in 1..(EvalBudget - Len(candidates))
        BY <1>1, <2>1, <2>3 DEF Going
      <3>2. rules'.reason = "none"
        <4>1. CASE Unified
          BY <1>1, <1>5, <2>3, <3>1, <4>1, RulesAre, ChecksAre
        <4>2. CASE ~Unified
          BY <1>5, <3>1, <4>2 DEF Evaluate, BackendUpdates
        <4> QED
          BY <4>1, <4>2
      <3>3. pc' = IF Len(candidates') < EvalBudget THEN "propose" ELSE "done"
        BY <1>5, <2>3 DEF Evaluate
      <3>4. EvalBudget \in Nat /\ Len(candidates') <= EvalBudget /\ Len(candidates') \in Nat
        BY <2>1, <3>1, SearchAssumption
      <3>5. Going'
        BY <2>1, <2>3, <3>2, <3>3 DEF Going, Harness
      <3>6. StopIsHonest'
        BY <2>1, <2>3, <3>2, <3>3, <3>4 DEF StopIsHonest, Harness
      <3> QED
        BY <1>2, <3>5, <3>6 DEF Inv
    <2> QED
      BY <2>2, <2>3
  <1>6. CASE UNCHANGED vars
    <2>1. Going' /\ StopIsHonest'
      BY <1>1, <1>6 DEF vars, Going, StopIsHonest, Reached, Harness, Plateau, Converged
    <2> QED
      BY <1>2, <2>1 DEF Inv
  <1> QED
    BY <1>3, <1>4, <1>5, <1>6 DEF Next

(* A search stops for the reason that it gives, and in time: from           *)
(* min_iterations on a loop goes on only while none of the reasons holds; it *)
(* overruns iterations and evaluations by at most the batches before         *)
(* min_iterations and the batch in hand.  The harness spends its budget and  *)
(* no more.                                                                  *)
THEOREM Stops == Spec => []StopIsHonest
  <1>1. Spec => []Inv
    <2> USE DEF Spec
    <2> QED
      BY StopBegins, StopPreserved, PTL
  <1>2. Inv => StopIsHonest
    BY DEF Inv
  <1> QED
    BY <1>1, <1>2, PTL

-----------------------------------------------------------------------------
(* The books of the hybrid engine.  The best of some scores and of others    *)
(* is the best of the best of the former and of the latter: a surrogate that *)
(* is told of one batch after another knows the best of all.                 *)
LEMMA ExtremeOfMore ==
    ASSUME NEW A, A \subseteq Int, IsFiniteSet(A), NEW B, B \subseteq Int, IsFiniteSet(B),
           NEW m \in BOOLEAN
    PROVE  Extreme(Extreme(A, m) \cup B, m) = Extreme(A \cup B, m)
  <1>1. CASE A = {}
    <2>1. Extreme(A, m) = {}
      BY <1>1 DEF Extreme
    <2> QED
      BY <1>1, <2>1
  <1>2. CASE A # {}
    <2>1. PICK a \in A : Extreme(A, m) = {a} /\ \A y \in A : IF m THEN y <= a ELSE y >= a
      BY <1>2, ExtremeIs
    <2> DEFINE P == {a} \cup B
               Q == A \cup B
    <2>2. /\ P \subseteq Int /\ IsFiniteSet(P) /\ P # {} /\ P \subseteq Q /\ a \in P
          /\ Q \subseteq Int /\ IsFiniteSet(Q) /\ Q # {}
      <3>1. IsFiniteSet({a})
        BY FS_Singleton
      <3>2. IsFiniteSet(P) /\ IsFiniteSet(Q)
        BY <3>1, FS_Union
      <3> QED
        BY <3>2
    <2>3. \A y \in Q : y \in A \/ y \in P
      OBVIOUS
    <2> HIDE DEF P, Q
    <2>4. PICK p \in P : Extreme(P, m) = {p} /\ \A y \in P : IF m THEN y <= p ELSE y >= p
      BY <2>2, ExtremeIs
    <2>5. PICK q \in Q : Extreme(Q, m) = {q} /\ \A y \in Q : IF m THEN y <= q ELSE y >= q
      BY <2>2, ExtremeIs
    <2>6. a \in Int /\ p \in Int /\ q \in Int /\ p \in Q
      BY <2>2
    <2>7. ASSUME m PROVE p = q
      <3>1. p <= q /\ a <= p
        BY <2>2, <2>4, <2>5, <2>6, <2>7
      <3>2. q <= a \/ q <= p
        BY <2>1, <2>3, <2>4, <2>7
      <3> QED
        BY <2>6, <3>1, <3>2
    <2>8. ASSUME ~m PROVE p = q
      <3>1. p >= q /\ a >= p
        BY <2>2, <2>4, <2>5, <2>6, <2>8
      <3>2. q >= a \/ q >= p
        BY <2>1, <2>3, <2>4, <2>8
      <3> QED
        BY <2>6, <3>1, <3>2
    <2>9. Extreme(P, m) = Extreme(Q, m)
      BY <2>4, <2>5, <2>7, <2>8
    <2> QED
      BY <2>1, <2>9 DEF P, Q
  <1> QED
    BY <1>1, <1>2

LEMMA PrimariesOfMore ==
    ASSUME NEW a \in Seq(Candidate), NEW b \in Seq(Candidate)
    PROVE  Primaries(a \o b) = Primaries(a) \o Primaries(b)
  <1>1. /\ a \o b \in Seq(Candidate) /\ Len(a \o b) = Len(a) + Len(b)
        /\ \A i \in 1..Len(a) + Len(b) : (a \o b)[i] = IF i <= Len(a) THEN a[i] ELSE b[i - Len(a)]
    BY ConcatProperties
  <1> DEFINE p == Primaries(a)
             q == Primaries(b)
             r == Primaries(a \o b)
  <1>2. /\ p \in Seq(Int) /\ Len(p) = Len(a) /\ Len(a) \in Nat
        /\ \A i \in 1..Len(a) : p[i] = a[i].objectives[Primary]
    BY PrimariesAre, LenProperties
  <1>3. /\ q \in Seq(Int) /\ Len(q) = Len(b) /\ Len(b) \in Nat
        /\ \A i \in 1..Len(b) : q[i] = b[i].objectives[Primary]
    BY PrimariesAre, LenProperties
  <1>4. /\ r \in Seq(Int) /\ Len(r) = Len(a) + Len(b)
        /\ \A i \in 1..Len(a) + Len(b) : r[i] = (a \o b)[i].objectives[Primary]
    BY <1>1, PrimariesAre
  <1> HIDE DEF p, q, r
  <1>5. /\ p \o q \in Seq(Int) /\ Len(p \o q) = Len(a) + Len(b)
        /\ \A i \in 1..Len(a) + Len(b) : (p \o q)[i] = IF i <= Len(a) THEN p[i] ELSE q[i - Len(a)]
    <2>1. /\ p \o q \in Seq(Int) /\ Len(p \o q) = Len(p) + Len(q)
          /\ \A i \in 1..Len(p) + Len(q) : (p \o q)[i] = IF i <= Len(p) THEN p[i] ELSE q[i - Len(p)]
      <3>1. p \in Seq(Int) /\ q \in Seq(Int)
        BY <1>2, <1>3
      <3> QED
        BY ONLY <3>1, ConcatProperties
    <2> QED
      BY ONLY <1>2, <1>3, <2>1
  <1>6. ASSUME NEW i \in 1..Len(a) + Len(b)
        PROVE  r[i] = (p \o q)[i]
    <2>1. CASE i <= Len(a)
      <3>1. i \in 1..Len(a)
        BY <1>2, <2>1
      <3> QED
        BY <1>1, <1>2, <1>4, <1>5, <2>1, <3>1
    <2>2. CASE ~(i <= Len(a))
      <3>1. i - Len(a) \in 1..Len(b)
        BY <1>2, <1>3, <2>2
      <3> QED
        BY <1>1, <1>3, <1>4, <1>5, <2>2, <3>1
    <2> QED
      BY <2>1, <2>2
  <1>7. r = p \o q
    BY <1>4, <1>5, <1>6, SeqEqual
  <1> QED
    BY <1>7 DEF p, q, r

LEMMA BestOfMore ==
    ASSUME NEW a \in Seq(Candidate), NEW b \in Seq(Candidate)
    PROVE  Extreme(Best(a) \cup Range(Primaries(b)), Primary \in setting.up) = Best(a \o b)
  <1> DEFINE A == Range(Primaries(a))
             B == Range(Primaries(b))
             m == Primary \in setting.up
  <1>1. /\ A \subseteq Int /\ IsFiniteSet(A) /\ Primaries(a) \in Seq(Int)
        /\ B \subseteq Int /\ IsFiniteSet(B) /\ Primaries(b) \in Seq(Int)
    BY PrimariesAre
  <1>2. Range(Primaries(a \o b)) = A \cup B
    <2>1. Primaries(a \o b) = Primaries(a) \o Primaries(b)
      BY PrimariesOfMore
    <2>2. Range(Primaries(a) \o Primaries(b)) = A \cup B
      BY <1>1, RangeConcatenation
    <2> QED
      BY <2>1, <2>2
  <1>3. Best(a) = Extreme(A, m) /\ Best(a \o b) = Extreme(A \cup B, m) /\ m \in BOOLEAN
    BY <1>2 DEF Best
  <1> HIDE DEF A, B, m
  <1>4. Extreme(Extreme(A, m) \cup B, m) = Extreme(A \cup B, m)
    BY <1>1, <1>3, ExtremeOfMore
  <1> QED
    BY <1>3, <1>4 DEF B, m

(* What the evaluations cost. *)
Prices == [i \in DOMAIN candidates |-> Price(candidates[i].fidelity)]

LEMMA PricesOfMore ==
    ASSUME TypeOK, Evaluate
    PROVE  SumOf(Prices') = SumOf(Prices) + Len(batch.points) * Price(Fidelity)
  <1> DEFINE a == Len(candidates)
             b == Len(batch.points)
             c == Price(Fidelity)
             g == Prices'
  <1>1. /\ candidates \in Seq(Candidate) /\ Evaluated \in Seq(Candidate) /\ Len(Evaluated) = b
        /\ a \in Nat /\ b \in Nat /\ c \in Int
        /\ \A i \in 1..b : Evaluated[i].fidelity = Fidelity
        /\ setting' = setting /\ candidates' = candidates \o Evaluated
    BY EvaluatedIs, PricesAre, LenProperties DEF TypeOK, Evaluate
  <1>2. /\ candidates' \in Seq(Candidate) /\ Len(candidates') = a + b
        /\ \A i \in 1..a + b : candidates'[i] = IF i <= a THEN candidates[i] ELSE Evaluated[i - a]
    <2>1. /\ candidates \o Evaluated \in Seq(Candidate)
          /\ Len(candidates \o Evaluated) = Len(candidates) + Len(Evaluated)
          /\ \A i \in 1..Len(candidates) + Len(Evaluated) :
                (candidates \o Evaluated)[i]
                  = IF i <= Len(candidates) THEN candidates[i] ELSE Evaluated[i - Len(candidates)]
      BY <1>1, ConcatProperties
    <2> QED
      BY <1>1, <2>1
  <1>3. DOMAIN candidates = 1..a /\ DOMAIN candidates' = 1..a + b
    BY <1>1, <1>2, LenProperties
  <1>4. g = [i \in 1..a + b |-> Price(candidates'[i].fidelity)]
    BY <1>1, <1>3 DEF Prices, Price, Harness
  <1>5. Prices = [i \in 1..a |-> Price(candidates[i].fidelity)]
    BY <1>3 DEF Prices
  <1>6. \A i \in 1..a : g[i] = Price(candidates[i].fidelity) /\ g[i] \in Int
    <2>1. ASSUME NEW i \in 1..a
          PROVE  Price(candidates[i].fidelity) \in Int /\ candidates'[i] = candidates[i] /\ i \in 1..a + b
      <3>1. candidates[i].fidelity \in Fidelities
        <4>1. candidates[i] \in Candidate
          BY <1>1, <2>1, ElementOfSeq
        <4> QED
          BY <4>1 DEF Candidate
      <3>2. i \in 1..a + b /\ i <= a
        BY <1>1
      <3> QED
        BY <1>2, <3>1, <3>2, PricesAre
    <2> QED
      BY <1>4, <2>1
  <1>7. \A i \in a + 1..a + b : g[i] = c
    <2>1. ASSUME NEW i \in a + 1..a + b
          PROVE  candidates'[i].fidelity = Fidelity /\ i \in 1..a + b
      <3>1. i \in 1..a + b /\ ~(i <= a) /\ i - a \in 1..b
        BY <1>1
      <3> QED
        BY <1>1, <1>2, <3>1
    <2> QED
      BY <1>4, <2>1
  <1>8. Upto(g, a) = Prices
    BY <1>5, <1>6 DEF Upto
  <1>9. Upto(g, a + b) = g
    BY <1>4 DEF Upto
  <1> HIDE DEF a, b, c, g
  <1>10. SumOf(Upto(g, a + b)) = SumOf(Upto(g, a)) + b * c
    <2>1. a \in Nat /\ b \in Nat /\ c \in Int
      BY <1>1
    <2>2. \A i \in 1..a : g[i] \in Int
      BY <1>6
    <2> QED
      BY ONLY <1>7, <2>1, <2>2, SumGrows
  <1> QED
    BY <1>8, <1>9, <1>10 DEF b, c, g

(* The books, as they are kept from batch to batch. *)
Books ==
    Unified =>
      /\ rules.evaluations = Len(candidates)
      /\ rules.spent = Allowance - purse
      /\ rules.spent = SumOf(Prices)
      /\ surrogate.values = Primaries(candidates)
      /\ surrogate.best = Best(candidates)
      /\ candidates # <<>> => Best(candidates) = {Last(rules.best)}

LEMMA BooksBegin == Init => Books
  <1> SUFFICES ASSUME Init, Unified
               PROVE  /\ rules.evaluations = Len(candidates)
                      /\ rules.spent = Allowance - purse
                      /\ rules.spent = SumOf(Prices)
                      /\ surrogate.values = Primaries(candidates)
                      /\ surrogate.best = Best(candidates)
                      /\ candidates # <<>> => Best(candidates) = {Last(rules.best)}
    BY DEF Books
  <1>1. candidates = <<>> /\ Len(candidates) = 0 /\ DOMAIN candidates = {}
    BY EmptySeq DEF Init
  <1>2. Allowance \in Int /\ purse = Allowance
    BY PricesAre DEF Init, Fidelities
  <1>3. SumOf(Prices) = 0
    <2>1. DOMAIN Prices = {} /\ IsFiniteSet(DOMAIN Prices)
      BY <1>1, FS_EmptySet DEF Prices
    <2> QED
      BY <2>1, SumIs
  <1>4. candidates \in Seq(Candidate)
    BY <1>1, EmptySeq
  <1>5. Best(candidates) = {}
    BY <1>1, <1>4, BestIs
  <1>6. Primaries(candidates) = <<>>
    <2>1. Primaries(candidates) \in Seq(Int) /\ Len(Primaries(candidates)) = 0
      BY <1>1, <1>4, PrimariesAre
    <2> QED
      BY <2>1, EmptySeq
  <1> QED
    BY <1>1, <1>2, <1>3, <1>5, <1>6 DEF Init, NoRules, Blank

LEMMA BooksKept ==
    ASSUME TypeOK, Books, Evaluate, Unified
    PROVE  /\ rules'.evaluations = Len(candidates')
           /\ rules'.spent = Allowance - purse'
           /\ rules'.spent = SumOf(Prices')
           /\ surrogate'.values = Primaries(candidates')
           /\ surrogate'.best = Best(candidates')
           /\ candidates' # <<>> => Best(candidates') = {Last(rules'.best)}
  <1> DEFINE w == Len(batch.points)
             c == Price(Fidelity)
  <1>1. /\ candidates \in Seq(Candidate) /\ Evaluated \in Seq(Candidate)
        /\ candidates' = candidates \o Evaluated /\ candidates' \in Seq(Candidate)
        /\ Len(candidates') = Len(candidates) + w
        /\ SubSeq(candidates', Len(candidates) + 1, Len(candidates')) = Evaluated
        /\ w \in Nat /\ c \in Nat /\ purse \in Int /\ rules \in Rules
    BY BatchIs, EvaluatedIs, PricesAre, LenProperties DEF TypeOK, Evaluate
  <1>2. /\ rules'.evaluations = rules.evaluations + w
        /\ rules'.spent = rules.spent + w * c
        /\ rules'.best = rules.best \o SetToSeq(Best(candidates'))
        /\ purse' = purse - w * c
    BY RulesAre
  <1>3. surrogate' = ObservedAll(surrogate, Primaries(Evaluated), Primary \in setting.up)
    BY <1>1 DEF Evaluate, UnifiedUpdates
  <1>4. /\ rules.evaluations = Len(candidates)
        /\ rules.spent = Allowance - purse
        /\ rules.spent = SumOf(Prices)
        /\ surrogate.values = Primaries(candidates)
        /\ surrogate.best = Best(candidates)
    BY DEF Books
  <1>5. SumOf(Prices') = SumOf(Prices) + w * c
    BY PricesOfMore
  <1> HIDE DEF w, c
  <1>6. rules'.evaluations = Len(candidates')
    BY <1>1, <1>2, <1>4
  <1>7. rules'.spent = SumOf(Prices')
    BY <1>2, <1>4, <1>5
  <1>8. rules'.spent = Allowance - purse'
    <2>1. Allowance \in Int /\ w * c \in Int
      BY <1>1, PricesAre DEF Fidelities
    <2> QED
      BY <1>1, <1>2, <1>4, <2>1
  <1>9. surrogate'.values = Primaries(candidates')
    <2>1. surrogate'.values = surrogate.values \o Primaries(Evaluated)
      BY <1>3 DEF ObservedAll
    <2>2. Primaries(candidates \o Evaluated) = Primaries(candidates) \o Primaries(Evaluated)
      BY <1>1, PrimariesOfMore
    <2> QED
      BY <1>1, <1>4, <2>1, <2>2
  <1>10. surrogate'.best = Best(candidates')
    <2>1. surrogate'.best
            = Extreme(surrogate.best \cup Range(Primaries(Evaluated)), Primary \in setting.up)
      BY <1>3 DEF ObservedAll
    <2>2. Extreme(Best(candidates) \cup Range(Primaries(Evaluated)), Primary \in setting.up)
            = Best(candidates \o Evaluated)
      BY <1>1, BestOfMore
    <2> QED
      BY <1>1, <1>4, <2>1, <2>2
  <1>11. ASSUME candidates' # <<>>
         PROVE  Best(candidates') = {Last(rules'.best)}
    <2>1. PICK x \in Int : Best(candidates') = {x}
      BY <1>1, <1>11, BestIs
    <2>2. rules'.best = rules.best \o <<x>> /\ rules.best \in Seq(Int) /\ <<x>> \in Seq(Int)
      <3>1. SetToSeq({x}) = <<x>>
        BY OneAsSeq
      <3>2. rules.best \in Seq(Int)
        BY <1>1 DEF Rules
      <3>3. rules'.best = rules.best \o <<x>>
        BY ONLY <1>2, <2>1, <3>1
      <3> QED
        BY <2>1, <3>2, <3>3
    <2>3. Last(rules.best \o <<x>>) = x
      BY <2>2 DEF Last
    <2> QED
      BY <2>1, <2>2, <2>3
  <1> QED
    BY <1>6, <1>7, <1>8, <1>9, <1>10, <1>11

LEMMA BooksPreserved ==
    ASSUME Inv, Books, [Next]_vars
    PROVE  Books'
  <1>1. TypeOK /\ Going
    BY DEF Inv
  <1>2. CASE LoopProposes \/ HarnessProposes \/ UNCHANGED vars
    <2> SUFFICES ASSUME Unified' PROVE Unified /\ UNCHANGED <<setting, rules, candidates, purse, surrogate>>
      BY DEF Books, Prices, Price, Allowance, Harness, Primaries, Best, Unified
    <2>1. UNCHANGED <<setting, rules, candidates, purse>>
      BY <1>1, <1>2, ProposedIs DEF LoopProposes, Proposed, vars
    <2>2. Unified
      BY <2>1 DEF Unified
    <2>3. UNCHANGED surrogate
      BY <1>2, <2>2 DEF LoopProposes, HarnessProposes, Retrains, vars
    <2> QED
      BY <2>1, <2>2, <2>3
  <1>3. CASE Evaluate
    <2> SUFFICES ASSUME Unified' PROVE Books'
      BY DEF Books
    <2>1. setting' = setting /\ Unified /\ Allowance' = Allowance
      BY <1>3 DEF Evaluate, Unified, Allowance, Harness
    <2>2. Best(candidates)' = Best(candidates') /\ Primaries(candidates)' = Primaries(candidates')
      BY <2>1 DEF Best, Primaries
    <2>3. /\ rules'.evaluations = Len(candidates')
          /\ rules'.spent = Allowance - purse'
          /\ rules'.spent = SumOf(Prices')
          /\ surrogate'.values = Primaries(candidates')
          /\ surrogate'.best = Best(candidates')
          /\ candidates' # <<>> => Best(candidates') = {Last(rules'.best)}
      BY <1>1, <1>3, <2>1, BooksKept
    <2> QED
      BY <2>1, <2>2, <2>3 DEF Books
  <1> QED
    BY <1>2, <1>3 DEF Next

LEMMA BooksTell ==
    ASSUME TypeOK, Books
    PROVE  BooksAgree
  <1> SUFFICES ASSUME Unified,
                      NEW y \in Best(candidates), NEW i \in DOMAIN candidates
               PROVE  LET other == candidates[i].objectives[Primary]
                      IN  IF Primary \in setting.up THEN other <= y ELSE other >= y
    BY DEF Books, BooksAgree, Prices
  <1> DEFINE S == Range(Primaries(candidates))
             m == Primary \in setting.up
             other == candidates[i].objectives[Primary]
  <1>1. candidates \in Seq(Candidate) /\ i \in 1..Len(candidates)
    BY LenProperties DEF TypeOK
  <1>2. other \in S
    <2>1. DOMAIN Primaries(candidates) = DOMAIN candidates /\ Primaries(candidates)[i] = other
      BY DEF Primaries
    <2> QED
      BY <2>1 DEF Range
  <1>3. S \subseteq Int /\ IsFiniteSet(S) /\ S # {}
    BY <1>1, <1>2, PrimariesAre
  <1>4. Best(candidates) = Extreme(S, m) /\ m \in BOOLEAN
    BY DEF Best
  <1> HIDE DEF S, m
  <1>5. PICK x \in S : Extreme(S, m) = {x} /\ \A z \in S : IF m THEN z <= x ELSE z >= x
    BY <1>3, <1>4, ExtremeIs
  <1>6. y = x
    BY <1>4, <1>5
  <1> QED
    BY <1>2, <1>5, <1>6 DEF m

(* The bandit, the stopping rules, the surrogate and the list of candidates  *)
(* agree on how many evaluations there were, what they cost and which was    *)
(* the best.                                                                 *)
THEOREM BooksBalance == Spec => []BooksAgree
  <1>1. Init => Inv /\ Books
    BY StopBegins, BooksBegin
  <1>2. Inv /\ Books /\ [Next]_vars => (Inv /\ Books)'
    BY StopPreserved, BooksPreserved
  <1>3. Inv /\ Books => BooksAgree
    BY BooksTell DEF Inv
  <1> QED
    BY <1>1, <1>2, <1>3, PTL DEF Spec

-----------------------------------------------------------------------------
(* The surrogate of the Bayesian backend.  To normalise, to weight, to take *)
(* the greatest and to add up all keep the order of two rows of which one   *)
(* is nowhere worse.                                                        *)
LEMMA DivisionKeepsOrder ==
    ASSUME NEW a \in Nat, NEW b \in Nat, a <= b, NEW d \in Nat \ {0}
    PROVE  a \div d \in Nat /\ b \div d \in Nat /\ a \div d <= b \div d
  <1> DEFINE p == a \div d
             q == b \div d
  <1>1. /\ p \in Int /\ d * p <= a /\ a < d * p + d
        /\ q \in Int /\ d * q <= b /\ b < d * q + d
    OBVIOUS
  <1> HIDE DEF p, q
  <1>2. ASSUME q < p
        PROVE  FALSE
    <2>1. q + 1 <= p /\ q + 1 \in Int
      BY <1>1, <1>2
    <2>2. d * (q + 1) <= d * p
      <3>1. \A x, y \in Int : x <= y => d * x <= d * y
        OBVIOUS
      <3> QED
        BY <1>1, <2>1, <3>1
    <2>3. d * (q + 1) = d * q + d
      BY <1>1
    <2> QED
      BY <1>1, <2>2, <2>3
  <1>3. \A x \in Int : x < 0 => d * x + d <= 0
    OBVIOUS
  <1>4. p \in Nat /\ q \in Nat
    BY <1>1, <1>3
  <1> QED
    BY <1>2, <1>4 DEF p, q

LEMMA SignKeepsOrder ==
    ASSUME NEW n, NEW x \in Int, NEW y \in Int
    PROVE  /\ Sign(n) * x \in Int
           /\ (IF n \in setting.up THEN x >= y ELSE x <= y) => Sign(n) * x <= Sign(n) * y
  BY DEF Sign

LEMMA NormalisedKeepsOrder ==
    ASSUME NEW rows \in Seq(Candidate), NEW n \in Objectives,
           NEW i \in DOMAIN rows, NEW j \in DOMAIN rows,
           IF n \in setting.up THEN rows[i].objectives[n] >= rows[j].objectives[n]
                               ELSE rows[i].objectives[n] <= rows[j].objectives[n]
    PROVE  /\ Normalised(rows, n, i) \in Nat /\ Normalised(rows, n, j) \in Nat
           /\ Normalised(rows, n, i) <= Normalised(rows, n, j)
  <1> DEFINE v(k) == Sign(n) * rows[k].objectives[n]
             column == {v(k) : k \in DOMAIN rows}
             spread == Max(column) - Min(column)
             f == [k \in DOMAIN rows |-> v(k)]
  <1>1. Len(rows) \in Nat /\ DOMAIN rows = 1..Len(rows) /\ \A k \in DOMAIN rows : rows[k] \in Candidate
    BY LenProperties, ElementOfSeq
  <1>2. \A k \in DOMAIN rows : rows[k].objectives[n] \in Int
    BY <1>1 DEF Candidate, Vector
  <1>3. (\A k \in DOMAIN rows : v(k) \in Int) /\ v(i) <= v(j)
    BY <1>2, SignKeepsOrder
  <1>4. Normalised(rows, n, i) = (IF spread = 0 THEN 0 ELSE ((v(i) - Min(column)) * Unit) \div spread)
        /\ Normalised(rows, n, j) = (IF spread = 0 THEN 0 ELSE ((v(j) - Min(column)) * Unit) \div spread)
    BY DEF Normalised
  <1>5. column \subseteq Int /\ IsFiniteSet(column) /\ v(i) \in column /\ v(j) \in column
    <2>1. f \in Surjection(DOMAIN rows, column)
      BY DEF Surjection
    <2>2. IsFiniteSet(DOMAIN rows)
      BY <1>1, FS_Interval
    <2>3. IsFiniteSet(column)
      <3> HIDE DEF f, column
      <3> QED
        BY <2>1, <2>2, FS_Surjection
    <2>4. column \subseteq Int
      <3> HIDE DEF v
      <3> QED
        BY <1>3
    <2> QED
      BY <2>3, <2>4
  <1> HIDE DEF v, column, f
  <1>6. Max(column) \in column /\ \A x \in column : Max(column) >= x
    BY <1>5, MaxIs
  <1>7. Min(column) \in column /\ \A x \in column : Min(column) <= x
    BY <1>5, LeastIs
  <1>8. Min(column) \in Int /\ Max(column) \in Int /\ v(i) \in Int /\ v(j) \in Int
    BY <1>5, <1>6, <1>7
  <1>9. spread \in Nat
    BY <1>6, <1>7, <1>8
  <1>10. CASE spread = 0
    BY <1>4, <1>10
  <1>11. CASE spread # 0
    <2> DEFINE a == (v(i) - Min(column)) * Unit
               b == (v(j) - Min(column)) * Unit
    <2>1. a \in Nat /\ b \in Nat /\ a <= b
      BY <1>3, <1>5, <1>7, <1>8 DEF Unit
    <2>2. spread \in Nat \ {0}
      BY <1>9, <1>11
    <2>3. Normalised(rows, n, i) = a \div spread /\ Normalised(rows, n, j) = b \div spread
      BY <1>4, <1>11
    <2> HIDE DEF a, b, spread
    <2> QED
      BY <2>1, <2>2, <2>3, DivisionKeepsOrder
  <1> QED
    BY <1>10, <1>11

LEMMA WeightedKeepsOrder ==
    ASSUME NEW k \in Nat, NEW a \in Nat, NEW b \in Nat, a <= b
    PROVE  k * a \in Nat /\ k * b \in Nat /\ k * a <= k * b
  <1>1. \A x, y \in Nat : k * x \in Nat /\ (x <= y => k * x <= k * y)
    OBVIOUS
  <1> QED
    BY <1>1

(* The greatest of all objectives' weighted values, and their sum. *)
LEMMA GreatestKeepsOrder ==
    ASSUME NEW f \in [Objectives -> Nat], NEW g \in [Objectives -> Nat],
           \A n \in Objectives : f[n] <= g[n]
    PROVE  Max(Range(f)) \in Nat /\ Max(Range(g)) \in Nat /\ Max(Range(f)) <= Max(Range(g))
  <1>1. IsFiniteSet(Objectives) /\ Objectives # {}
    BY SearchAssumption
  <1>2. ASSUME NEW h \in [Objectives -> Nat]
        PROVE  /\ \A n \in Objectives : h[n] \in Range(h)
               /\ Max(Range(h)) \in Nat
               /\ \A n \in Objectives : Max(Range(h)) >= h[n]
               /\ \E n \in Objectives : Max(Range(h)) = h[n]
    <2>1. Range(h) \subseteq Nat /\ Range(h) # {} /\ h \in Surjection(Objectives, Range(h))
      BY <1>1 DEF Range, Surjection
    <2>2. IsFiniteSet(Range(h))
      BY <1>1, <2>1, FS_Surjection
    <2>3. Range(h) \subseteq Int
      BY <2>1
    <2>4. Max(Range(h)) \in Range(h) /\ \A x \in Range(h) : Max(Range(h)) >= x
      BY <2>1, <2>2, <2>3, MaxIs
    <2>5. \A n \in Objectives : h[n] \in Range(h)
      BY DEF Range
    <2>6. \A x \in Range(h) : \E n \in Objectives : x = h[n]
      BY DEF Range
    <2> QED
      BY <2>1, <2>4, <2>5, <2>6
  <1>3. PICK n \in Objectives : Max(Range(f)) = f[n]
    BY <1>2
  <1>4. Max(Range(g)) >= g[n] /\ Max(Range(g)) \in Nat
    BY <1>2
  <1>5. f[n] \in Nat /\ g[n] \in Nat /\ f[n] <= g[n]
    OBVIOUS
  <1> QED
    BY <1>3, <1>4, <1>5

LEMMA ScalarisedKeepsOrder ==
    ASSUME NEW rows \in Seq(Candidate), NEW w \in [Objectives -> Nat]
    PROVE  /\ Scalarised(rows, w) \in Seq(Int) /\ Len(Scalarised(rows, w)) = Len(rows)
           /\ \A i, j \in DOMAIN rows :
                 NowhereWorse(rows[i].objectives, rows[j].objectives) =>
                    Scalarised(rows, w)[i] <= Scalarised(rows, w)[j]
  <1> DEFINE weighted(i) == [n \in Objectives |-> w[n] * Normalised(rows, n, i)]
             value(i) == 20 * Max(Range(weighted(i))) + SumOf(weighted(i))
  <1>1. Len(rows) \in Nat /\ DOMAIN rows = 1..Len(rows) /\ \A k \in DOMAIN rows : rows[k] \in Candidate
    BY LenProperties, ElementOfSeq
  <1>2. \A k \in DOMAIN rows : \A n \in Objectives : rows[k].objectives[n] \in Int
    BY <1>1 DEF Candidate, Vector
  <1>3. ASSUME NEW i \in DOMAIN rows, NEW j \in DOMAIN rows,
               NowhereWorse(rows[i].objectives, rows[j].objectives)
        PROVE  /\ weighted(i) \in [Objectives -> Nat] /\ weighted(j) \in [Objectives -> Nat]
               /\ \A n \in Objectives : weighted(i)[n] <= weighted(j)[n]
    <2>1. ASSUME NEW n \in Objectives
          PROVE  /\ w[n] * Normalised(rows, n, i) \in Nat
                 /\ w[n] * Normalised(rows, n, j) \in Nat
                 /\ w[n] * Normalised(rows, n, i) <= w[n] * Normalised(rows, n, j)
      <3>1. IF n \in setting.up THEN rows[i].objectives[n] >= rows[j].objectives[n]
                                ELSE rows[i].objectives[n] <= rows[j].objectives[n]
        BY <1>3 DEF NowhereWorse
      <3>2. /\ Normalised(rows, n, i) \in Nat /\ Normalised(rows, n, j) \in Nat
            /\ Normalised(rows, n, i) <= Normalised(rows, n, j)
        BY <3>1, NormalisedKeepsOrder
      <3>3. w[n] \in Nat
        OBVIOUS
      <3> QED
        BY <3>2, <3>3, WeightedKeepsOrder
    <2> QED
      BY <2>1
  <1>4. ASSUME NEW i \in DOMAIN rows
        PROVE  NowhereWorse(rows[i].objectives, rows[i].objectives)
    BY <1>2 DEF NowhereWorse
  <1>5. ASSUME NEW i \in DOMAIN rows, NEW j \in DOMAIN rows,
               NowhereWorse(rows[i].objectives, rows[j].objectives)
        PROVE  value(i) \in Int /\ value(j) \in Int /\ value(i) <= value(j)
    <2> DEFINE f == weighted(i)
               g == weighted(j)
    <2>1. f \in [Objectives -> Nat] /\ g \in [Objectives -> Nat] /\ \A n \in Objectives : f[n] <= g[n]
      BY <1>3, <1>5
    <2> HIDE DEF f, g
    <2>2. Max(Range(f)) \in Nat /\ Max(Range(g)) \in Nat /\ Max(Range(f)) <= Max(Range(g))
      BY <2>1, GreatestKeepsOrder
    <2>3. IsFiniteSet(Objectives) /\ DOMAIN f = Objectives /\ DOMAIN g = Objectives
      BY <2>1, SearchAssumption
    <2>4. \A n \in Objectives : f[n] \in Int /\ g[n] \in Int /\ f[n] <= 1 * g[n]
      BY <2>1
    <2>5. SumOf(f) \in Int /\ SumOf(g) \in Int
      BY <2>3, <2>4, SumIs
    <2>6. SumOf(f) <= 1 * SumOf(g)
      BY <2>3, <2>4, SumBounded
    <2>7. value(i) = 20 * Max(Range(f)) + SumOf(f) /\ value(j) = 20 * Max(Range(g)) + SumOf(g)
      BY DEF f, g
    <2> HIDE DEF value
    <2> QED
      BY <2>2, <2>5, <2>6, <2>7
  <1>6. Scalarised(rows, w) = [i \in 1..Len(rows) |-> value(i)]
    BY <1>1 DEF Scalarised
  <1> HIDE DEF value, weighted
  <1>7. Scalarised(rows, w) \in [1..Len(rows) -> Int]
    BY <1>1, <1>4, <1>5, <1>6
  <1>8. Scalarised(rows, w) \in Seq(Int) /\ Len(Scalarised(rows, w)) = Len(rows)
    BY <1>1, <1>7, FunctionIsSeq
  <1> QED
    BY <1>1, <1>5, <1>6, <1>8

(* While a batch of the Bayesian backend is out, its surrogate is that of one*)
(* draw, trained on the whole archive.                                       *)
Trained ==
    Retrains /\ pc = "evaluate" /\ candidates # <<>> =>
      \E w \in Weights : surrogate = ObservedAll(Blank, Scalarised(candidates, w), FALSE)

LEMMA TrainedPreserved ==
    ASSUME TypeOK, Trained, [Next]_vars
    PROVE  Trained'
  <1>1. CASE LoopProposes
    <2>1. setting' = setting /\ ~Harness
      BY <1>1 DEF LoopProposes, Proposed
    <2>2. setting.driver = "loop"
      BY <2>1, SettingsAssumption DEF TypeOK, Harness
    <2>3. ~Retrains'
      BY <2>1, <2>2 DEF Retrains, Unified
    <2> QED
      BY <2>3 DEF Trained
  <1>2. CASE HarnessProposes
    <2>1. setting' = setting /\ candidates' = candidates
      BY <1>2 DEF HarnessProposes, Proposed
    <2>2. Retrains' = Retrains
      BY <2>1 DEF Retrains, Unified, Harness
    <2>3. Retrains /\ candidates # <<>> => surrogate' \in Retrained
      BY <1>2 DEF HarnessProposes
    <2>4. \A w : Scalarised(candidates, w)' = Scalarised(candidates, w)
      BY <2>1 DEF Scalarised, Normalised, Sign
    <2>5. ASSUME Retrains, candidates # <<>>
          PROVE  \E w \in Weights : surrogate' = ObservedAll(Blank, Scalarised(candidates, w), FALSE)
      BY <2>3, <2>5 DEF Retrained
    <2> QED
      BY <2>1, <2>2, <2>4, <2>5 DEF Trained, ObservedAll, Scalarised, Normalised, Sign
  <1>3. CASE Evaluate
    <2>1. pc' # "evaluate"
      BY <1>3 DEF Evaluate
    <2> QED
      BY <2>1 DEF Trained
  <1>4. CASE UNCHANGED vars
    <2>1. UNCHANGED <<setting, pc, candidates, surrogate>>
      BY <1>4 DEF vars
    <2>2. Retrains' = Retrains
      BY <2>1 DEF Retrains, Unified, Harness
    <2>3. \A w : Scalarised(candidates, w)' = Scalarised(candidates, w)
      BY <2>1 DEF Scalarised, Normalised, Sign
    <2> QED
      BY <2>1, <2>2, <2>3 DEF Trained, ObservedAll
  <1> QED
    BY <1>1, <1>2, <1>3, <1>4 DEF Next

LEMMA TrainedTells ==
    ASSUME TypeOK, Trained
    PROVE  SurrogateRanks
  <1> SUFFICES ASSUME Retrains, pc = "evaluate", candidates # <<>>
               PROVE  /\ Len(surrogate.values) = Len(candidates)
                      /\ \A i, j \in DOMAIN candidates :
                            NowhereWorse(candidates[i].objectives, candidates[j].objectives) =>
                                surrogate.values[i] <= surrogate.values[j]
                      /\ \E i \in DOMAIN surrogate.values :
                            /\ surrogate.best = {surrogate.values[i]}
                            /\ \A j \in DOMAIN surrogate.values :
                                  surrogate.values[i] <= surrogate.values[j]
    BY DEF SurrogateRanks
  <1>1. candidates \in Seq(Candidate) /\ candidates # <<>>
    BY DEF TypeOK
  <1>2. PICK w \in Weights : surrogate = ObservedAll(Blank, Scalarised(candidates, w), FALSE)
    BY DEF Trained
  <1>3. w \in [Objectives -> Nat]
    BY SearchAssumption
  <1> DEFINE v == Scalarised(candidates, w)
  <1>4. /\ v \in Seq(Int) /\ Len(v) = Len(candidates)
        /\ \A i, j \in DOMAIN candidates :
              NowhereWorse(candidates[i].objectives, candidates[j].objectives) => v[i] <= v[j]
    BY <1>1, <1>3, ScalarisedKeepsOrder
  <1>5. surrogate.values = <<>> \o v /\ surrogate.best = Extreme({} \cup Range(v), FALSE)
    BY <1>2 DEF ObservedAll, Blank
  <1> HIDE DEF v
  <1>6. surrogate.values = v /\ surrogate.best = Extreme(Range(v), FALSE)
    BY <1>4, <1>5, ConcatEmptySeq
  <1>7. Len(candidates) \in Nat /\ Len(candidates) # 0 /\ DOMAIN v = 1..Len(candidates)
    <2>1. Len(candidates) # 0
      BY <1>1, EmptySeq
    <2> QED
      BY <1>1, <1>4, <2>1, LenProperties
  <1>8. v \in [1..Len(candidates) -> Int]
    BY <1>4, <1>7, LenProperties, ElementOfSeq
  <1>9. Range(v) \subseteq Int /\ Range(v) # {} /\ IsFiniteSet(Range(v))
    <2>1. Range(v) \subseteq Int /\ v[1] \in Range(v) /\ v \in Surjection(1..Len(candidates), Range(v))
      BY <1>7, <1>8 DEF Range, Surjection
    <2>2. IsFiniteSet(1..Len(candidates))
      BY <1>7, FS_Interval
    <2> QED
      BY <2>1, <2>2, FS_Surjection
  <1>10. PICK x \in Range(v) : Extreme(Range(v), FALSE) = {x} /\ \A y \in Range(v) : y >= x
    BY <1>9, ExtremeIs
  <1>11. PICK i \in DOMAIN v : v[i] = x
    BY <1>10 DEF Range
  <1>12. \A j \in DOMAIN v : v[j] \in Range(v) /\ v[j] \in Int
    BY <1>7, <1>8 DEF Range
  <1>13. surrogate.best = {v[i]} /\ \A j \in DOMAIN v : v[i] <= v[j]
    BY <1>6, <1>10, <1>11, <1>12
  <1> QED
    BY <1>4, <1>6, <1>13

(* The surrogate of the Bayesian backend has a value for each evaluation,    *)
(* never better than that of one that is nowhere worse, and the best of them *)
(* for its best (BayesianBackend propose, SurrogateRanks).                   *)
THEOREM SurrogateKeepsOrder == Spec => []SurrogateRanks
  <1>1. Init => Inv /\ Trained
    BY StopBegins DEF Init, Trained
  <1>2. Inv /\ Trained /\ [Next]_vars => (Inv /\ Trained)'
    BY StopPreserved, TrainedPreserved DEF Inv
  <1>3. Inv /\ Trained => SurrogateRanks
    BY TrainedTells DEF Inv
  <1> QED
    BY <1>1, <1>2, <1>3, PTL DEF Spec

-----------------------------------------------------------------------------
(* Selection.  A population is finitely many points with their vectors.     *)
Peopled(pop) ==
    /\ IsFiniteSet(DOMAIN pop) /\ DOMAIN pop \subseteq Int
    /\ \A p \in DOMAIN pop : pop[p] \in Vector

LEMMA DominationIs ==
    ASSUME NEW up, NEW a \in Vector, NEW b \in Vector, NEW c \in Vector
    PROVE  /\ ~Dominates(up, a, a)
           /\ Dominates(up, a, b) /\ Dominates(up, b, c) => Dominates(up, a, c)
  <1>1. /\ DOMAIN a = Objectives /\ DOMAIN b = Objectives /\ DOMAIN c = Objectives
        /\ \A n \in Objectives : a[n] \in Int /\ b[n] \in Int /\ c[n] \in Int
    BY DEF Vector
  <1>2. ASSUME Dominates(up, a, b), Dominates(up, b, c)
        PROVE  Dominates(up, a, c)
    <2>1. \A n \in Objectives : IF n \in up THEN a[n] >= b[n] /\ b[n] >= c[n]
                                           ELSE a[n] <= b[n] /\ b[n] <= c[n]
      BY <1>1, <1>2 DEF Dominates, NotWorse
    <2>2. PICK n \in Objectives : a[n] # b[n]
      BY <1>1, <1>2 DEF Dominates
    <2>3. a[n] # c[n]
      BY <1>1, <2>1, <2>2
    <2>4. \A m \in Objectives : IF m \in up THEN a[m] >= c[m] ELSE a[m] <= c[m]
      BY <1>1, <2>1
    <2> QED
      BY <1>1, <2>2, <2>3, <2>4 DEF Dominates, NotWorse
  <1>3. ~Dominates(up, a, a)
    BY DEF Dominates
  <1> QED
    BY <1>2, <1>3

LEMMA DominatorsAre ==
    ASSUME NEW up, NEW pop, Peopled(pop), NEW p \in DOMAIN pop
    PROVE  /\ Dominators(up, pop, p) \in SUBSET DOMAIN pop
           /\ IsFiniteSet(Dominators(up, pop, p))
           /\ Cardinality(Dominators(up, pop, p)) \in Nat
           /\ \A q \in Dominators(up, pop, p) :
                 /\ q # p
                 /\ Dominators(up, pop, q) \subseteq Dominators(up, pop, p)
                 /\ Cardinality(Dominators(up, pop, q)) < Cardinality(Dominators(up, pop, p))
  <1> DEFINE D == DOMAIN pop
             A(q) == Dominators(up, pop, q)
  <1>1. IsFiniteSet(D) /\ \A q \in D : pop[q] \in Vector
    BY DEF Peopled
  <1>2. \A q \in D : A(q) = {r \in D : Dominates(up, pop[r], pop[q])}
    BY DEF Dominators
  <1> HIDE DEF A
  <1>3. A(p) \in SUBSET D
    BY <1>2
  <1>4. IsFiniteSet(A(p)) /\ Cardinality(A(p)) \in Nat
    BY <1>1, <1>3, FS_Subset, FS_CardinalityType
  <1>5. ASSUME NEW q \in A(p)
        PROVE  q # p /\ A(q) \subseteq A(p) /\ Cardinality(A(q)) < Cardinality(A(p))
    <2>1. q \in D /\ Dominates(up, pop[q], pop[p])
      BY <1>2
    <2>2. q # p /\ q \notin A(q)
      BY <1>1, <1>2, <2>1, DominationIs
    <2>3. ASSUME NEW r \in A(q)
          PROVE  r \in A(p)
      <3>1. r \in D /\ Dominates(up, pop[r], pop[q])
        BY <1>2, <2>1
      <3>2. Dominates(up, pop[r], pop[p])
        BY <1>1, <2>1, <3>1, DominationIs
      <3> QED
        BY <1>2, <3>1, <3>2
    <2>4. A(q) \in SUBSET A(p) /\ A(q) # A(p)
      BY <2>2, <2>3
    <2>5. Cardinality(A(q)) <= Cardinality(A(p)) /\ Cardinality(A(q)) # Cardinality(A(p))
      BY <1>4, <2>4, FS_Subset
    <2>6. Cardinality(A(q)) \in Nat
      BY <1>4, <2>4, FS_Subset, FS_CardinalityType
    <2> QED
      BY <1>4, <2>2, <2>4, <2>5, <2>6
  <1> QED
    BY <1>3, <1>4, <1>5 DEF A

(* The points of the first k fronts: all whose dominators are in the first   *)
(* k - 1.                                                                    *)
Placing(up, pop, h) ==
    /\ h[0] = {}
    /\ \A k \in 1..Cardinality(DOMAIN pop) :
          h[k] = {p \in DOMAIN pop : Dominators(up, pop, p) \subseteq h[k - 1]}

(* The layers that the fronts are the differences of.                    *)
Layered(up, pop, h) ==
    /\ Placing(up, pop, h)
    /\ Fronts(up, pop) = [k \in 1..Cardinality(DOMAIN pop) |-> h[k] \ h[k - 1]]

LEMMA FrontsAre ==
    ASSUME NEW up, NEW pop, Peopled(pop)
    PROVE  \E h : Layered(up, pop, h)
  <1> DEFINE D == DOMAIN pop
             n == Cardinality(D)
             above == [p \in D |-> Dominators(up, pop, p)]
             Made(h) == h = [k \in 0..n |-> IF k = 0 THEN {}
                                           ELSE {p \in D : above[p] \subseteq h[k - 1]}]
             V == SUBSET D
             f == [k \in 1..n |-> [v \in V |-> {p \in D : above[p] \subseteq v}]]
             F == CHOOSE h : Made(h)
  <1>1. n \in Nat
    BY FS_CardinalityType DEF Peopled
  <1>2. \A p \in D : above[p] = Dominators(up, pop, p)
    OBVIOUS
  <1>3. \A k \in 1..n : \A v \in V : f[k][v] = {p \in D : above[p] \subseteq v} /\ f[k][v] \in V
    OBVIOUS
  <1> HIDE DEF above, n
  <1>4. PICK h : Stepping(V, n, {}, f, h)
    <2>1. {} \in V
      OBVIOUS
    <2> HIDE DEF f, V
    <2> QED
      BY <1>1, <1>3, <2>1, SteppingExists
  <1> HIDE DEF f
  <1>5. Made(h)
    <2>1. /\ h = [k \in 0..n |-> h[k]] /\ h[0] = {}
          /\ \A k \in 1..n : h[k] = f[k][h[k - 1]]
          /\ \A k \in 0..n : h[k] \in V
      BY <1>4 DEF Stepping
    <2>2. ASSUME NEW k \in 1..n
          PROVE  h[k] = {p \in D : above[p] \subseteq h[k - 1]}
      <3>1. k - 1 \in 0..n
        BY <1>1
      <3>2. h[k - 1] \in V
        BY <2>1, <3>1
      <3> QED
        BY <1>3, <2>1, <3>2
    <2>3. \A k \in 0..n : k = 0 \/ k \in 1..n
      BY <1>1
    <2>4. \A k \in 0..n : h[k] = IF k = 0 THEN {} ELSE {p \in D : above[p] \subseteq h[k - 1]}
      BY <2>1, <2>2, <2>3
    <2> HIDE DEF D
    <2> QED
      BY <2>1, <2>4, Zenon
  <1>6. Made(F)
    <2> HIDE DEF Made
    <2> QED
      BY <1>5
  <1>7. Fronts(up, pop) = [k \in 1..n |-> F[k] \ F[k - 1]]
    BY DEF Fronts, above, n
  <1> HIDE DEF F
  <1>8. F[0] = {} /\ \A k \in 1..n : F[k] = {p \in D : above[p] \subseteq F[k - 1]}
    <2>1. 0 \in 0..n /\ \A k \in 1..n : k \in 0..n /\ k # 0
      BY <1>1
    <2> QED
      BY <1>6, <2>1
  <1>9. Placing(up, pop, F)
    BY <1>2, <1>8 DEF Placing, n
  <1> QED
    BY <1>7, <1>9 DEF Layered, n

(* Every point is in some front. *)
LEMMA AllPlaced ==
    ASSUME NEW up, NEW pop, Peopled(pop), NEW h, Placing(up, pop, h)
    PROVE  LET n == Cardinality(DOMAIN pop)
           IN  /\ n \in Nat
               /\ \A k \in 0..n : h[k] \in SUBSET DOMAIN pop
               /\ \A k \in 1..n : h[k - 1] \subseteq h[k]
               /\ h[n] = DOMAIN pop
  <1> DEFINE D == DOMAIN pop
             n == Cardinality(D)
             A(p) == Dominators(up, pop, p)
             c == [p \in D |-> Cardinality(A(p))]
  <1>1. IsFiniteSet(D) /\ n \in Nat
    BY FS_CardinalityType DEF Peopled
  <1>2. h[0] = {} /\ \A k \in 1..n : h[k] = {p \in D : A(p) \subseteq h[k - 1]}
    BY DEF Placing
  <1>3. \A p \in D : c[p] \in Nat /\ A(p) \subseteq D /\ \A q \in A(p) : c[q] < c[p]
    BY DominatorsAre
  <1> HIDE DEF D, n, A, c
  <1>4. \A k \in 0..n : h[k] \in SUBSET D
    <2>1. \A k \in 0..n : k = 0 \/ k \in 1..n
      BY <1>1
    <2> QED
      BY <1>2, <2>1
  <1>5. \A k \in 1..n : h[k - 1] \subseteq h[k]
    <2> DEFINE T == {k \in Nat : k + 1 \in 1..n => h[k] \subseteq h[k + 1]}
    <2>1. 0 \in T
      BY <1>2
    <2>2. ASSUME NEW k \in Nat, k \in T, k + 2 \in 1..n
          PROVE  h[k + 1] \subseteq h[k + 2]
      <3>1. k + 1 \in 1..n /\ (k + 1) - 1 = k /\ (k + 2) - 1 = k + 1
        BY <1>1, <2>2
      <3>2. h[k] \subseteq h[k + 1]
        BY <2>2, <3>1
      <3> QED
        BY <1>2, <2>2, <3>1, <3>2
    <2>3. \A k \in Nat : k \in T => k + 1 \in T
      <3>1. \A k \in Nat : (k + 1) + 1 = k + 2 /\ k + 1 \in Nat
        OBVIOUS
      <3> QED
        BY <2>2, <3>1
    <2>4. \A k \in Nat : k \in T
      <3> HIDE DEF T
      <3> QED
        BY <2>1, <2>3, Climbing
    <2>5. \A k \in 1..n : k - 1 \in Nat /\ (k - 1) + 1 = k
      BY <1>1
    <2> QED
      BY <2>4, <2>5
  <1>6. ASSUME NEW k \in Nat, k + 1 \in 1..n, h[k] # D
        PROVE  \E p \in h[k + 1] : p \notin h[k]
    <2> DEFINE X == {c[p] : p \in D \ h[k]}
    <2>1. h[k] \in SUBSET D
      BY <1>1, <1>4, <1>6
    <2>2. X \in SUBSET Nat /\ X # {}
      BY <1>3, <1>6, <2>1
    <2>3. PICK x \in X : \A y \in X : x <= y
      <3> HIDE DEF X
      <3> QED
        BY <2>2, Least
    <2>4. PICK p \in D \ h[k] : x = c[p]
      BY <2>3
    <2>5. ASSUME NEW q \in A(p), q \notin h[k]
          PROVE  FALSE
      <3>1. q \in D /\ c[q] < c[p] /\ c[q] \in Nat /\ c[p] \in Nat
        BY <1>3, <2>4, <2>5
      <3>2. c[q] \in X
        BY <2>5, <3>1
      <3> QED
        BY <2>3, <2>4, <3>1, <3>2
    <2>6. (k + 1) - 1 = k
      OBVIOUS
    <2>7. p \in h[k + 1]
      BY <1>2, <1>6, <2>4, <2>5, <2>6
    <2> QED
      BY <2>4, <2>7
  <1>7. h[n] = D
    <2> DEFINE T == {k \in Nat : k <= n => h[k] = D \/ Cardinality(h[k]) >= k}
    <2>1. 0 \in T
      BY <1>2, FS_EmptySet
    <2>2. ASSUME NEW k \in Nat, k \in T, k + 1 <= n
          PROVE  h[k + 1] = D \/ Cardinality(h[k + 1]) >= k + 1
      <3>1. k + 1 \in 1..n /\ k \in 0..n /\ k + 1 \in 0..n /\ (k + 1) - 1 = k /\ k <= n
        BY <1>1, <2>2
      <3>2. h[k] \subseteq h[k + 1] /\ h[k + 1] \in SUBSET D
        BY <1>4, <1>5, <3>1
      <3>3. CASE h[k] = D
        BY <3>2, <3>3
      <3>4. CASE h[k] # D
        <4>1. h[k + 1] # h[k]
          BY <1>6, <3>1, <3>4
        <4>2. IsFiniteSet(h[k + 1]) /\ h[k] \in SUBSET h[k + 1]
          BY <1>1, <3>2, FS_Subset
        <4>3. /\ Cardinality(h[k]) <= Cardinality(h[k + 1])
              /\ Cardinality(h[k]) # Cardinality(h[k + 1])
              /\ IsFiniteSet(h[k])
          BY <4>1, <4>2, FS_Subset
        <4>4. Cardinality(h[k]) \in Nat /\ Cardinality(h[k + 1]) \in Nat
          BY <4>2, <4>3, FS_CardinalityType
        <4>5. Cardinality(h[k]) >= k
          BY <2>2, <3>1, <3>4
        <4> QED
          BY <4>3, <4>4, <4>5
      <3> QED
        BY <3>3, <3>4
    <2>3. n \in T
      <3>1. \A k \in Nat : k \in T => k + 1 \in T
        BY <2>2
      <3> HIDE DEF T
      <3> QED
        BY <1>1, <2>1, <3>1, Climbing
    <2>4. h[n] \in SUBSET D /\ (h[n] = D \/ Cardinality(h[n]) >= n)
      BY <1>1, <1>4, <2>3
    <2>5. Cardinality(h[n]) <= n /\ (n = Cardinality(h[n]) => D = h[n]) /\ Cardinality(h[n]) \in Nat
      BY <1>1, <2>4, FS_Subset, FS_CardinalityType DEF n
    <2> QED
      BY <1>1, <2>4, <2>5
  <1> QED
    BY <1>1, <1>4, <1>5, <1>7 DEF D, n

(* Crowding distances are integers: a line of the front by an objective goes *)
(* up, so that its width is 0 or divides.                                    *)
LEMMA LineIs ==
    ASSUME NEW pop, Peopled(pop), NEW front \in SUBSET DOMAIN pop, front # {},
           NEW n \in Objectives
    PROVE  LET line == Sorted(pop, front, n)
           IN  /\ Len(line) = Cardinality(front) /\ Len(line) \in Nat \ {0}
               /\ DOMAIN line = 1..Len(line)
               /\ \A i \in DOMAIN line : line[i] \in front
               /\ \A p \in front : \E i \in DOMAIN line : line[i] = p
               /\ pop[line[Len(line)]][n] - pop[line[1]][n] \in Nat
  <1> DEFINE above == [p \in front |-> {q \in front : pop[q][n] < pop[p][n]}]
             line == Sorted(pop, front, n)
             c == Cardinality(front)
  <1>1. IsFiniteSet(front) /\ front \subseteq Int /\ \A p \in front : pop[p][n] \in Int
    BY FS_Subset DEF Peopled, Vector
  <1>2. /\ DOMAIN above = front
        /\ \A p, q \in front : q \in above[p] <=> pop[q][n] < pop[p][n]
        /\ \A p \in front : above[p] \subseteq front
    OBVIOUS
  <1>3. line = RankedBy(above)
    BY DEF Sorted
  <1> HIDE DEF above, line
  <1>4. WeakOrder(above)
    <2>1. \A p, q \in front : p \in above[q] => q \notin above[p]
      BY <1>1, <1>2
    <2>2. \A p, q, r \in front : p \in above[r] => p \in above[q] \/ q \in above[r]
      BY <1>1, <1>2
    <2> QED
      BY <1>2, <2>1, <2>2 DEF WeakOrder
  <1>5. IsRanking(line, above) /\ line \in [1..c -> front]
    BY <1>1, <1>2, <1>3, <1>4, RankedByIs
  <1>6. /\ c \in Nat /\ DOMAIN line = 1..c
        /\ \A p \in front : \E i \in 1..c : line[i] = p
        /\ \A i, j \in 1..c : i < j => line[j] \notin above[line[i]]
    BY <1>2, <1>5 DEF IsRanking
  <1>7. Len(line) = c /\ \A i \in 1..c : line[i] \in front
    <2> HIDE DEF c
    <2> QED
      BY <1>5, <1>6, FunctionIsSeq
  <1> HIDE DEF c
  <1>8. c # 0
    <2>1. PICK p \in front : TRUE
      OBVIOUS
    <2>2. PICK i \in 1..c : line[i] = p
      BY <1>6, <2>1
    <2> QED
      BY <1>6, <2>2
  <1>9. pop[line[c]][n] - pop[line[1]][n] \in Nat
    <2>1. c \in 1..c /\ 1 \in 1..c /\ (c = 1 \/ 1 < c)
      BY <1>6, <1>8
    <2>2. /\ line[c] \in front /\ line[1] \in front
          /\ pop[line[c]][n] \in Int /\ pop[line[1]][n] \in Int
      BY <1>1, <1>7, <2>1
    <2>3. ~(pop[line[c]][n] < pop[line[1]][n])
      <3>1. CASE c = 1
        BY <2>2, <3>1
      <3>2. CASE 1 < c
        BY <1>2, <1>6, <2>1, <2>2, <3>2
      <3> QED
        BY <2>1, <3>1, <3>2
    <2> QED
      BY <2>2, <2>3
  <1> QED
    BY <1>6, <1>7, <1>8, <1>9 DEF c, line

LEMMA GapIs ==
    ASSUME NEW pop, Peopled(pop), NEW front \in SUBSET DOMAIN pop,
           NEW n \in Objectives, NEW p \in front
    PROVE  Gap(pop, front, n, p) \in Int
  <1> DEFINE line == Sorted(pop, front, n)
             c == Len(line)
             width == pop[line[c]][n] - pop[line[1]][n]
             at == CHOOSE i \in DOMAIN line : line[i] = p
  <1>1. /\ c \in Nat \ {0} /\ DOMAIN line = 1..c
        /\ \A i \in 1..c : line[i] \in front
        /\ \A q \in front : \E i \in 1..c : line[i] = q
        /\ width \in Nat
    <2>1. front # {}
      OBVIOUS
    <2>2. LET lined == Sorted(pop, front, n)
          IN  /\ Len(lined) = Cardinality(front) /\ Len(lined) \in Nat \ {0}
              /\ DOMAIN lined = 1..Len(lined)
              /\ \A i \in DOMAIN lined : lined[i] \in front
              /\ \A q \in front : \E i \in DOMAIN lined : lined[i] = q
              /\ pop[lined[Len(lined)]][n] - pop[lined[1]][n] \in Nat
      BY ONLY <2>1, LineIs, Peopled(pop), front \in SUBSET DOMAIN pop, n \in Objectives
    <2> QED
      BY <2>2
  <1>2. Head(line) = line[1] /\ Last(line) = line[c]
    BY DEF Last
  <1>3. at \in 1..c
    <2>1. \E i \in DOMAIN line : line[i] = p
      BY <1>1
    <2> HIDE DEF line
    <2>2. at \in DOMAIN line
      BY <2>1
    <2> QED
      BY <1>1, <2>2
  <1>4. Gap(pop, front, n, p)
          = IF at \in {1, c} THEN Infinite
            ELSE IF width = 0 THEN 0
            ELSE ((pop[line[at + 1]][n] - pop[line[at - 1]][n]) * Unit) \div width
    BY <1>2 DEF Gap
  <1> HIDE DEF line, c, at, width
  <1>5. Infinite \in Int /\ Unit \in Int
    BY DEF Infinite, Unit
  <1>6. ASSUME at \notin {1, c}, width # 0
        PROVE  ((pop[line[at + 1]][n] - pop[line[at - 1]][n]) * Unit) \div width \in Int
    <2>1. at + 1 \in 1..c /\ at - 1 \in 1..c
      BY <1>1, <1>3, <1>6
    <2>2. line[at + 1] \in front /\ line[at - 1] \in front
      BY <1>1, <2>1
    <2>3. pop[line[at + 1]][n] \in Int /\ pop[line[at - 1]][n] \in Int
      BY <2>2 DEF Peopled, Vector
    <2> DEFINE z == (pop[line[at + 1]][n] - pop[line[at - 1]][n]) * Unit
    <2>4. z \in Int
      BY <1>5, <2>3
    <2>5. width \in Nat \ {0}
      BY <1>1, <1>6
    <2> HIDE DEF z
    <2>6. z \div width \in Int
      BY <2>4, <2>5
    <2> QED
      BY <2>6 DEF z
  <1> QED
    BY <1>4, <1>5, <1>6

LEMMA CrowdingIs ==
    ASSUME NEW pop, Peopled(pop), NEW front \in SUBSET DOMAIN pop, NEW p \in front
    PROVE  Crowding(pop, front, p) \in Int
  <1> DEFINE gaps == [n \in DOMAIN pop[p] |-> Gap(pop, front, n, p)]
  <1>1. DOMAIN pop[p] = Objectives
    BY DEF Peopled, Vector
  <1>2. DOMAIN gaps = Objectives /\ \A n \in Objectives : gaps[n] \in Int
    BY <1>1, GapIs
  <1>3. Crowding(pop, front, p) = IF Cardinality(front) <= 2 THEN Infinite
                                  ELSE Min({Infinite, SumOf(gaps)})
    BY DEF Crowding
  <1> HIDE DEF gaps
  <1>4. SumOf(gaps) \in Int /\ Infinite \in Int
    BY <1>2, SearchAssumption, SumIs DEF Infinite, Unit
  <1>5. Min({Infinite, SumOf(gaps)}) \in Int
    BY <1>4, MinOfTwo
  <1> QED
    BY <1>3, <1>4, <1>5

(* Of a front as many as there is room for. *)
LEMMA LeastCrowdedIs ==
    ASSUME NEW pop, Peopled(pop), NEW front \in SUBSET DOMAIN pop, NEW count \in Int
    PROVE  LET taken == LeastCrowded(pop, front, count)
           IN  /\ taken \in SUBSET front
               /\ count \in Nat => Cardinality(taken) = Min({count, Cardinality(front)})
               /\ count >= Cardinality(front) => taken = front
  <1> DEFINE crowd == Crowd(pop, front)
             above == [p \in front |-> {q \in front : crowd[q] > crowd[p]}]
             order == RankedBy(above)
             c == Cardinality(front)
             m == Min({count, c})
             taken == LeastCrowded(pop, front, count)
  <1>1. IsFiniteSet(front) /\ front \subseteq Int
    BY FS_Subset DEF Peopled
  <1>2. \A p \in front : crowd[p] \in Int
    BY CrowdingIs DEF Crowd
  <1> HIDE DEF crowd
  <1>3. /\ DOMAIN above = front
        /\ \A p, q \in front : q \in above[p] <=> crowd[q] > crowd[p]
        /\ \A p \in front : above[p] \subseteq front
    OBVIOUS
  <1>4. taken = {order[i] : i \in 1..m}
    BY DEF LeastCrowded, crowd
  <1> HIDE DEF above, taken
  <1>5. WeakOrder(above)
    <2>1. \A p, q \in front : p \in above[q] => q \notin above[p]
      BY <1>2, <1>3
    <2>2. \A p, q, r \in front : p \in above[r] => p \in above[q] \/ q \in above[r]
      BY <1>2, <1>3
    <2> QED
      BY <1>3, <2>1, <2>2 DEF WeakOrder
  <1>6. IsRanking(order, above)
    BY <1>1, <1>3, <1>5, RankedByIs
  <1> HIDE DEF order
  <1>7. /\ c \in Nat /\ DOMAIN order = 1..c
        /\ \A i \in 1..c : order[i] \in front
        /\ \A p \in front : \E i \in 1..c : order[i] = p
        /\ \A i, j \in 1..c : order[i] = order[j] => i = j
    BY <1>3, <1>6 DEF IsRanking
  <1>8. m \in Int /\ m <= c /\ (count >= c => m = c) /\ (count \in Nat => m \in Nat)
    <2>1. m = IF count <= c THEN count ELSE c
      BY <1>7, MinOfTwo
    <2> QED
      BY <1>7, <2>1
  <1> HIDE DEF c, m
  <1>9. \A i \in 1..m : i \in 1..c
    BY <1>7, <1>8
  <1>10. taken \in SUBSET front
    BY <1>4, <1>7, <1>9
  <1>11. count >= c => taken = front
    BY <1>4, <1>7, <1>8, <1>9
  <1>12. ASSUME count \in Nat
         PROVE  Cardinality(taken) = m
    <2> DEFINE g == [i \in 1..m |-> order[i]]
    <2>1. g \in Bijection(1..m, taken)
      BY <1>4, <1>7, <1>9 DEF Bijection, Injection, Surjection, IsInjective
    <2> HIDE DEF g
    <2>2. ExistsBijection(1..m, taken)
      BY <2>1 DEF ExistsBijection
    <2>3. IsFiniteSet(1..m) /\ Cardinality(1..m) = IF 1 > m THEN 0 ELSE m - 1 + 1
      BY <1>8, <1>12, FS_Interval
    <2>4. Cardinality(1..m) = m
      BY <1>8, <1>12, <2>3
    <2> QED
      BY <2>2, <2>3, <2>4, FS_Bijection
  <1> QED
    BY <1>10, <1>11, <1>12 DEF taken, c, m

(* The parents picked out of the first k fronts. *)
Picking(pop, size, h, g) ==
    /\ g[0] = {}
    /\ \A k \in 1..Cardinality(DOMAIN pop) :
          g[k] = g[k - 1] \cup LeastCrowded(pop, h[k] \ h[k - 1], size - Cardinality(g[k - 1]))

LEMMA PickingIs ==
    ASSUME NEW up, NEW pop, Peopled(pop), NEW size \in Nat
    PROVE  \E h, g : /\ Placing(up, pop, h) /\ Picking(pop, size, h, g)
                     /\ Parents(up, pop, size) = g[Cardinality(DOMAIN pop)]
  <1>0. PICK h : Layered(up, pop, h)
    BY FrontsAre
  <1>1. /\ Placing(up, pop, h)
        /\ Fronts(up, pop) = [k \in 1..Cardinality(DOMAIN pop) |-> h[k] \ h[k - 1]]
    BY <1>0 DEF Layered
  <1> DEFINE D == DOMAIN pop
             n == Cardinality(D)
             V == SUBSET D
  <1>2. n \in Nat /\ \A k \in 0..n : h[k] \in SUBSET D
    BY <1>1, AllPlaced
  <1> DEFINE fronts == Fronts(up, pop)
             f == [k \in 1..n |-> [v \in V |->
                      v \cup LeastCrowded(pop, fronts[k], size - Cardinality(v))]]
             Made(g) == g = [k \in 0..Len(fronts) |->
                               IF k = 0 THEN {}
                               ELSE g[k - 1] \cup LeastCrowded(pop, fronts[k],
                                                               size - Cardinality(g[k - 1]))]
             F == CHOOSE g : Made(g)
  <1>3. \A k \in 1..n : fronts[k] = h[k] \ h[k - 1]
    BY <1>1
  <1>4. Len(fronts) = n
    <2>1. \A k \in 1..n : fronts[k] \in V
      BY <1>2, <1>3
    <2>2. fronts \in [1..n -> V]
      BY <1>1, <2>1
    <2> HIDE DEF n, fronts, V
    <2> QED
      BY <1>2, <2>2, FunctionIsSeq
  <1>5. Parents(up, pop, size) = F[Len(fronts)]
    BY DEF Parents
  <1> HIDE DEF n, fronts
  <1>6. ASSUME NEW k \in 1..n, NEW v \in V
        PROVE  v \cup LeastCrowded(pop, fronts[k], size - Cardinality(v)) \in V
    <2>1. k \in 0..n
      BY <1>2
    <2>2. IsFiniteSet(v) /\ Cardinality(v) \in Nat
      BY FS_Subset, FS_CardinalityType DEF Peopled
    <2>3. fronts[k] \in SUBSET D /\ size - Cardinality(v) \in Int
      BY <1>2, <1>3, <2>1, <2>2
    <2>4. LeastCrowded(pop, fronts[k], size - Cardinality(v)) \in SUBSET fronts[k]
      BY <2>3, LeastCrowdedIs
    <2> QED
      BY <2>3, <2>4
  <1>7. \A k \in 1..n : \A v \in V :
           /\ f[k][v] = v \cup LeastCrowded(pop, fronts[k], size - Cardinality(v))
           /\ f[k][v] \in V
    BY <1>6
  <1>8. PICK g : Stepping(V, n, {}, f, g)
    <2>1. {} \in V
      OBVIOUS
    <2> HIDE DEF f, V
    <2> QED
      BY <1>2, <1>7, <2>1, SteppingExists
  <1> HIDE DEF f
  <1>9. Made(g)
    <2>1. /\ g = [k \in 0..n |-> g[k]] /\ g[0] = {}
          /\ \A k \in 1..n : g[k] = f[k][g[k - 1]]
          /\ \A k \in 0..n : g[k] \in V
      BY <1>8 DEF Stepping
    <2>2. ASSUME NEW k \in 1..n
          PROVE  g[k] = g[k - 1] \cup LeastCrowded(pop, fronts[k], size - Cardinality(g[k - 1]))
      <3>1. k - 1 \in 0..n
        BY <1>2
      <3>2. g[k - 1] \in V
        BY <2>1, <3>1
      <3> QED
        BY <1>7, <2>1, <3>2
    <2>3. \A k \in 0..n : k = 0 \/ k \in 1..n
      BY <1>2
    <2>4. \A k \in 0..n : g[k] = IF k = 0 THEN {}
                                 ELSE g[k - 1] \cup LeastCrowded(pop, fronts[k],
                                                                 size - Cardinality(g[k - 1]))
      BY <2>1, <2>2, <2>3
    <2> HIDE DEF D
    <2> QED
      BY <1>4, <2>1, <2>4, Zenon
  <1>10. Made(F)
    <2> HIDE DEF Made
    <2> QED
      BY <1>9
  <1> HIDE DEF F
  <1>11. F[0] = {} /\ \A k \in 1..n :
            F[k] = F[k - 1] \cup LeastCrowded(pop, fronts[k], size - Cardinality(F[k - 1]))
    <2>1. 0 \in 0..n /\ \A k \in 1..n : k \in 0..n /\ k # 0
      BY <1>2
    <2> QED
      BY <1>4, <1>10, <2>1
  <1>12. Picking(pop, size, h, F)
    BY <1>3, <1>11 DEF Picking, n
  <1> QED
    BY <1>1, <1>4, <1>5, <1>12 DEF n

(* Evolution picks as many parents as it may, and passes over no point for   *)
(* one that it dominates.                                                    *)
LEMMA ParentsAre ==
    ASSUME NEW up, NEW pop, Peopled(pop), NEW size \in Nat
    PROVE  LET parents == Parents(up, pop, size)
           IN  /\ Cardinality(parents) = Min({size, Cardinality(DOMAIN pop)})
               /\ \A p \in parents, q \in DOMAIN pop \ parents : ~Dominates(up, pop[q], pop[p])
  <1> DEFINE D == DOMAIN pop
             n == Cardinality(D)
             A(p) == Dominators(up, pop, p)
             Over(q, p) == Dominates(up, pop[q], pop[p])
  <1>1. PICK h, g : Placing(up, pop, h) /\ Picking(pop, size, h, g) /\ Parents(up, pop, size) = g[n]
    BY PickingIs
  <1>2. /\ n \in Nat /\ h[n] = D
        /\ \A k \in 0..n : h[k] \in SUBSET D
        /\ \A k \in 1..n : h[k - 1] \subseteq h[k]
    BY <1>1, AllPlaced
  <1>3. /\ h[0] = {} /\ g[0] = {}
        /\ \A k \in 1..n : h[k] = {p \in D : A(p) \subseteq h[k - 1]}
        /\ \A k \in 1..n :
              g[k] = g[k - 1] \cup LeastCrowded(pop, h[k] \ h[k - 1], size - Cardinality(g[k - 1]))
    BY <1>1 DEF Placing, Picking
  <1>4. IsFiniteSet(D) /\ \A S \in SUBSET D : IsFiniteSet(S) /\ Cardinality(S) \in Nat
    BY FS_Subset, FS_CardinalityType DEF Peopled
  <1>5. \A p, q \in D : q \in A(p) <=> Over(q, p)
    BY DEF Dominators
  <1> HIDE DEF D, n, A, Over
  <1> DEFINE Good(k) ==
               /\ g[k] \in SUBSET h[k]
               /\ Cardinality(g[k]) = IF size <= Cardinality(h[k]) THEN size ELSE Cardinality(h[k])
               /\ Cardinality(h[k]) <= size => g[k] = h[k]
               /\ \A p \in g[k] : \A q \in D \ g[k] : ~Over(q, p)
  <1>6. ASSUME NEW k \in 1..n, Good(k - 1)
        PROVE  Good(k)
    <2> DEFINE S == h[k - 1]
               T == h[k]
               E == T \ S
               G == g[k - 1]
               room == size - Cardinality(G)
               taken == LeastCrowded(pop, E, room)
    <2>1. k - 1 \in 0..n /\ k \in 0..n
      BY <1>2
    <2>2. S \in SUBSET D /\ T \in SUBSET D /\ S \subseteq T
      BY <1>2, <2>1
    <2>3. G \in SUBSET S /\ E \in SUBSET D
      BY <1>6, <2>2
    <2> DEFINE s == Cardinality(S)
               t == Cardinality(T)
               e == Cardinality(E)
    <2>4. /\ s \in Nat /\ t \in Nat /\ e \in Nat
          /\ IsFiniteSet(S) /\ IsFiniteSet(E) /\ IsFiniteSet(G)
      BY <1>4, <2>2, <2>3
    <2>5. t = s + e
      <3>1. S \cup E = T /\ S \cap E = {}
        BY <2>2
      <3>2. Cardinality(S \cup E) = s + e - Cardinality(S \cap E)
        BY <2>4, FS_Union
      <3> HIDE DEF S, T, E
      <3>3. Cardinality(S \cap E) = 0
        BY <3>1, FS_EmptySet
      <3>4. t = s + e - Cardinality(S \cap E)
        BY <3>1, <3>2, Zenon
      <3> QED
        BY <2>4, <3>3, <3>4
    <2>6. Cardinality(G) = (IF size <= s THEN size ELSE s) /\ (s <= size => G = S)
      BY <1>6
    <2>7. /\ \A p \in G : \A q \in D \ G : ~Over(q, p)
          /\ g[k] = G \cup taken
          /\ \A p \in T : A(p) \subseteq S
      BY <1>3, <1>6
    <2> HIDE DEF S, T, E, G
    <2>8. room \in Nat
      BY <2>4, <2>6
    <2>9. /\ taken \in SUBSET E
          /\ Cardinality(taken) = Min({room, e})
          /\ room >= e => taken = E
      BY <2>3, <2>8, LeastCrowdedIs DEF D
    <2> HIDE DEF room, taken, s, t, e
    <2>10. Cardinality(taken) = IF room <= e THEN room ELSE e
      BY <2>4, <2>8, <2>9, MinOfTwo
    <2>11. taken \in SUBSET D /\ IsFiniteSet(taken)
      BY <1>4, <2>3, <2>9
    <2>12. Cardinality(G \cup taken) = Cardinality(G) + Cardinality(taken)
      <3>1. G \cap taken = {}
        BY <2>3, <2>9 DEF E
      <3>2. Cardinality(G \cup taken)
              = Cardinality(G) + Cardinality(taken) - Cardinality(G \cap taken)
        BY <2>4, <2>11, FS_Union
      <3>3. Cardinality(G \cap taken) = 0
        BY <3>1, FS_EmptySet
      <3>4. Cardinality(G) \in Nat /\ Cardinality(taken) \in Nat
        BY <2>4, <2>11, FS_CardinalityType
      <3> QED
        BY <3>2, <3>3, <3>4
    <2>13. room = size - Cardinality(G)
      BY DEF room
    <2>14. Cardinality(g[k]) = IF size <= t THEN size ELSE t
      BY <2>4, <2>5, <2>6, <2>7, <2>10, <2>12, <2>13
    <2>15. g[k] \in SUBSET T
      BY <2>2, <2>3, <2>7, <2>9 DEF E
    <2>16. ASSUME t <= size
           PROVE  g[k] = T
      <3>1. G = S /\ room >= e
        BY <2>4, <2>5, <2>6, <2>13, <2>16 DEF s
      <3> QED
        BY <2>2, <2>7, <2>9, <3>1 DEF E
    <2>17. ASSUME NEW p \in g[k], NEW q \in D \ g[k], Over(q, p)
           PROVE  FALSE
      <3>1. p \in taken
        BY <2>7, <2>17
      <3>2. p \in T /\ p \in D /\ q \in S /\ q \notin G
        BY <1>5, <2>2, <2>7, <2>9, <2>17, <3>1 DEF E
      <3>3. room = 0
        BY <2>4, <2>6, <2>13, <3>2
      <3>4. Cardinality(taken) = 0
        BY <2>4, <2>10, <3>3
      <3> QED
        BY <2>11, <3>1, <3>4, FS_EmptySet
    <2> QED
      BY <2>14, <2>15, <2>16, <2>17 DEF T, t
  <1> DEFINE U == {k \in Nat : k <= n => Good(k)}
  <1>7. 0 \in U
    <2>1. Cardinality(g[0]) = 0 /\ Cardinality(h[0]) = 0
      BY <1>3, FS_EmptySet
    <2>2. \A p \in g[0] : \A q \in D \ g[0] : ~Over(q, p)
      BY <1>3
    <2>3. Good(0)
      BY <1>3, <2>1, <2>2
    <2> HIDE DEF Good
    <2> QED
      BY <2>3
  <1>8. \A k \in Nat : k \in U => k + 1 \in U
    <2> SUFFICES ASSUME NEW k \in Nat, k + 1 <= n, Good(k)
                 PROVE  Good(k + 1)
      <3> HIDE DEF Good
      <3> QED
        BY <1>2
    <2>1. k + 1 \in 1..n /\ (k + 1) - 1 = k
      BY <1>2
    <2> HIDE DEF Good
    <2> QED
      BY <1>6, <2>1
  <1>9. Good(n)
    <2> HIDE DEF Good
    <2>1. n \in U
      <3> HIDE DEF U
      <3> QED
        BY <1>2, <1>7, <1>8, Climbing
    <2> QED
      BY <1>2, <2>1
  <1>10. Cardinality(g[n]) = Min({size, n})
    BY <1>2, <1>9, MinOfTwo DEF n
  <1> QED
    BY <1>1, <1>9, <1>10 DEF D, n, Over

(* The first front is what no point dominates. *)
LEMMA FirstFrontIs ==
    ASSUME NEW up, NEW pop, Peopled(pop)
    PROVE  FirstFront(up, pop)
             = {p \in DOMAIN pop : ~ \E q \in DOMAIN pop : Dominates(up, pop[q], pop[p])}
  <1> DEFINE D == DOMAIN pop
             n == Cardinality(D)
  <1>1. CASE D = {}
    BY <1>1 DEF FirstFront
  <1>2. CASE D # {}
    <2>0. PICK h : Layered(up, pop, h)
      BY FrontsAre
    <2>1. /\ Placing(up, pop, h)
          /\ Fronts(up, pop) = [k \in 1..n |-> h[k] \ h[k - 1]]
      BY <2>0 DEF Layered
    <2>2. 1 \in 1..n
      <3>1. IsFiniteSet(D) /\ n \in Nat
        BY FS_CardinalityType DEF Peopled
      <3>2. n # 0
        BY <1>2, <3>1, FS_EmptySet
      <3> QED
        BY <3>1, <3>2
    <2>3. h[0] = {} /\ h[1] = {p \in D : Dominators(up, pop, p) \subseteq h[1 - 1]} /\ 1 - 1 = 0
      BY <2>1, <2>2 DEF Placing
    <2>4. FirstFront(up, pop) = h[1] \ h[0]
      BY <1>2, <2>1, <2>2, <2>3 DEF FirstFront
    <2>5. FirstFront(up, pop) = {p \in D : Dominators(up, pop, p) = {}}
      BY <2>3, <2>4
    <2>6. \A p \in D : Dominators(up, pop, p) = {} <=> ~ \E q \in D : Dominates(up, pop[q], pop[p])
      BY DEF Dominators
    <2> QED
      BY <2>5, <2>6
  <1> QED
    BY <1>1, <1>2

(* The population is of the points that were evaluated, and the frontier is  *)
(* up to date with both.                                                     *)
Chosen ==
    /\ Peopled(population)
    /\ Unified => /\ DOMAIN population \subseteq Known(candidates)
                  /\ frontier = Frontier(candidates, population)

LEMMA KnownIs ==
    ASSUME NEW rows \in Seq(Candidate)
    PROVE  /\ Known(rows) \subseteq Box /\ IsFiniteSet(Known(rows))
           /\ \A p : p \in Known(rows) <=> \E i \in DOMAIN rows : rows[i].point = p
  <1> DEFINE f == [i \in DOMAIN rows |-> rows[i].point]
  <1>1. Known(rows) = {f[i] : i \in DOMAIN rows}
    BY DEF Known, Range
  <1>2. DOMAIN rows = 1..Len(rows) /\ Len(rows) \in Nat
    BY LenProperties
  <1>3. IsFiniteSet(DOMAIN rows)
    BY <1>2, FS_Interval
  <1>4. \A i \in DOMAIN rows : rows[i].point \in Box
    <2>1. \A i \in DOMAIN rows : rows[i] \in Candidate
      BY <1>2, ElementOfSeq
    <2> QED
      BY <2>1 DEF Candidate
  <1>5. \A i \in DOMAIN rows : f[i] = rows[i].point
    OBVIOUS
  <1> HIDE DEF f
  <1>6. IsFiniteSet(Known(rows))
    <2>1. f \in [DOMAIN rows -> Known(rows)] /\ \A y \in Known(rows) : \E i \in DOMAIN rows : f[i] = y
      BY <1>1 DEF f
    <2>2. f \in Surjection(DOMAIN rows, Known(rows))
      BY <2>1 DEF Surjection
    <2> QED
      BY <1>3, <2>2, FS_Surjection
  <1> QED
    BY <1>1, <1>4, <1>5, <1>6

LEMMA ChosenBegins == Init => Chosen
  <1> SUFFICES ASSUME Init PROVE Chosen
    OBVIOUS
  <1>1. DOMAIN population = {} /\ candidates = <<>> /\ frontier = {}
    BY EmptySeq DEF Init
  <1>2. Peopled(population)
    BY <1>1, FS_EmptySet DEF Peopled
  <1>3. Frontier(candidates, population) = {}
    BY <1>1 DEF Frontier, FirstFront
  <1> QED
    BY <1>1, <1>2, <1>3 DEF Chosen

LEMMA LatestIs ==
    ASSUME TypeOK, Peopled(population)
    PROVE  /\ Peopled(Latest(Evaluated))
           /\ DOMAIN Latest(Evaluated) = DOMAIN population \cup Known(Evaluated)
  <1> DEFINE K == Known(Evaluated)
             D == DOMAIN population \cup K
  <1>1. Evaluated \in Seq(Candidate)
    BY EvaluatedIs
  <1>2. K \subseteq Box /\ IsFiniteSet(K)
    BY <1>1, KnownIs
  <1>3. \A p \in K : Scores(p) \in Vector
    BY <1>2, ScoresAre DEF TypeOK
  <1>4. Latest(Evaluated) = [p \in D |-> IF p \in K THEN Scores(p) ELSE population[p]]
    BY DEF Latest
  <1> HIDE DEF K
  <1>5. IsFiniteSet(D) /\ D \subseteq Int
    BY <1>2, FS_Union, SearchAssumption DEF Peopled
  <1>6. \A p \in D : Latest(Evaluated)[p] \in Vector
    BY <1>3, <1>4 DEF Peopled
  <1> QED
    BY <1>4, <1>5, <1>6 DEF Peopled, K

LEMMA ChosenPreserved ==
    ASSUME Inv, Chosen, [Next]_vars
    PROVE  Chosen'
  <1>1. TypeOK /\ Going
    BY DEF Inv
  <1>2. CASE LoopProposes \/ HarnessProposes \/ UNCHANGED vars
    <2>1. UNCHANGED <<setting, candidates, population, frontier>>
      BY <1>2 DEF LoopProposes, HarnessProposes, Proposed, vars
    <2> QED
      BY <2>1 DEF Chosen, Unified, Peopled, Known, Frontier
  <1>3. CASE Evaluate
    <2>1. /\ setting' = setting /\ candidates' = candidates \o Evaluated
          /\ SubSeq(candidates', Len(candidates) + 1, Len(candidates')) = Evaluated
          /\ candidates \in Seq(Candidate) /\ Evaluated \in Seq(Candidate)
          /\ candidates' \in Seq(Candidate)
      BY <1>1, <1>3, BatchIs, EvaluatedIs DEF Evaluate, TypeOK
    <2>2. /\ Peopled(Latest(Evaluated))
          /\ DOMAIN Latest(Evaluated) = DOMAIN population \cup Known(Evaluated)
      BY <1>1, LatestIs DEF Chosen
    <2>3. CASE Unified
      <3>1. /\ population' = Latest(Evaluated)
            /\ frontier' = Frontier(candidates', population')
        BY <1>3, <2>1, <2>3 DEF Evaluate, UnifiedUpdates
      <3>2. Known(candidates) \subseteq Known(candidates') /\ Known(Evaluated) \subseteq Known(candidates')
        <4>1. /\ DOMAIN candidates = 1..Len(candidates) /\ Len(candidates) \in Nat
              /\ DOMAIN Evaluated = 1..Len(Evaluated) /\ Len(Evaluated) \in Nat
              /\ DOMAIN candidates' = 1..Len(candidates') /\ Len(candidates') \in Nat
          BY <2>1, LenProperties
        <4>2. Len(candidates') = Len(candidates) + Len(Evaluated)
          BY <2>1, ConcatProperties
        <4>3. ASSUME NEW i \in DOMAIN candidates
              PROVE  i \in DOMAIN candidates' /\ candidates'[i] = candidates[i]
          BY <2>1, <4>1, <4>2, ConcatProperties
        <4>4. ASSUME NEW i \in DOMAIN Evaluated
              PROVE  \E j \in DOMAIN candidates' : candidates'[j] = Evaluated[i]
          <5> DEFINE j == Len(candidates) + i
          <5>1. j \in DOMAIN candidates' /\ j > Len(candidates) /\ j - Len(candidates) = i
            BY <4>1, <4>2
          <5>2. candidates'[j] = Evaluated[i]
            BY <2>1, <4>1, <4>2, <5>1, ConcatProperties
          <5> QED
            BY <5>1, <5>2
        <4>5. \A p : p \in Known(candidates') <=> \E j \in DOMAIN candidates' : candidates'[j].point = p
          BY <2>1, KnownIs
        <4>6. \A p : p \in Known(candidates) <=> \E i \in DOMAIN candidates : candidates[i].point = p
          BY <2>1, KnownIs
        <4>7. \A p : p \in Known(Evaluated) <=> \E i \in DOMAIN Evaluated : Evaluated[i].point = p
          BY <2>1, KnownIs
        <4>8. ASSUME NEW p \in Known(candidates)
              PROVE  p \in Known(candidates')
          BY <4>3, <4>5, <4>6
        <4>9. ASSUME NEW p \in Known(Evaluated)
              PROVE  p \in Known(candidates')
          BY <4>4, <4>5, <4>7
        <4> QED
          BY <4>8, <4>9
      <3>3. DOMAIN population \subseteq Known(candidates)
        BY <2>3 DEF Chosen
      <3>4. DOMAIN population' \subseteq Known(candidates')
        BY <2>2, <3>1, <3>2, <3>3
      <3>5. /\ Peopled(population)' = Peopled(population')
            /\ Known(candidates)' = Known(candidates')
            /\ Frontier(candidates, population)' = Frontier(candidates', population')
        BY <2>1 DEF Peopled, Known, Frontier
      <3> QED
        BY <2>2, <3>1, <3>4, <3>5 DEF Chosen
    <2>4. CASE ~Unified
      <3>1. ~Unified'
        BY <2>1, <2>4 DEF Unified
      <3>2. population' = Latest(Evaluated) \/ population' = population
        BY <1>3, <2>1, <2>4 DEF Evaluate, BackendUpdates
      <3>3. Peopled(population') /\ Peopled(population)' = Peopled(population')
        BY <2>2, <3>2 DEF Chosen, Peopled
      <3> QED
        BY <3>1, <3>3 DEF Chosen
    <2> QED
      BY <2>3, <2>4
  <1> QED
    BY <1>2, <1>3 DEF Next

LEMMA ChosenTells ==
    ASSUME TypeOK, Chosen
    PROVE  SelectionIsPareto
  <1> DEFINE up == setting.up
             D == DOMAIN population
             Foremost == FirstFront(up, population)
  <1>1. Peopled(population)
    BY DEF Chosen
  <1>2. Foremost = Undominated
    <2>1. Foremost = {p \in D : ~ \E q \in D : Dominates(up, population[q], population[p])}
      BY <1>1, FirstFrontIs
    <2>2. ASSUME NEW p \in D, NEW q \in D
          PROVE  Dominates(up, population[q], population[p])
                   <=> /\ \A n \in Objectives : IF n \in up
                             THEN population[q][n] >= population[p][n]
                             ELSE population[q][n] <= population[p][n]
                       /\ population[q] # population[p]
      <3>1. population[p] \in Vector /\ population[q] \in Vector
        BY <1>1 DEF Peopled
      <3>2. DOMAIN population[q] = Objectives
        BY <3>1 DEF Vector
      <3>3. population[q] # population[p]
              <=> \E n \in Objectives : population[q][n] # population[p][n]
        BY <3>1 DEF Vector
      <3> QED
        BY <3>2, <3>3 DEF Dominates, NotWorse
    <2> QED
      BY <2>1, <2>2 DEF Undominated
  <1>3. ASSUME Unified
        PROVE  {candidates[i].point : i \in frontier} = Foremost
    <2> DEFINE first(p) == Min({i \in DOMAIN candidates : candidates[i].point = p})
    <2>1. frontier = {first(p) : p \in Foremost} /\ D \subseteq Known(candidates)
      BY <1>3 DEF Chosen, Frontier
    <2>2. ASSUME NEW p \in Foremost
          PROVE  candidates[first(p)].point = p
      <3> DEFINE at == {i \in DOMAIN candidates : candidates[i].point = p}
      <3>1. p \in D
        BY <1>2 DEF Undominated
      <3>2. candidates \in Seq(Candidate)
        BY DEF TypeOK
      <3>3. at # {} /\ at \in SUBSET Nat
        <4>1. DOMAIN candidates \subseteq Nat
          BY <3>2, LenProperties
        <4>2. \E i \in DOMAIN candidates : candidates[i].point = p
          BY <2>1, <3>1, <3>2, KnownIs
        <4> QED
          BY <4>1, <4>2
      <3>4. Min(at) \in at
        <4> HIDE DEF at
        <4> QED
          BY <3>3, MinIs
      <3> QED
        BY <3>4
    <2> HIDE DEF first, Foremost
    <2> QED
      BY <2>1, <2>2
  <1>4. LET parents == Parents(up, population, PopulationSize)
        IN  /\ Cardinality(parents) = Min({PopulationSize, Cardinality(D)})
            /\ \A p \in parents, q \in D \ parents : ~Dominates(up, population[q], population[p])
    BY <1>1, ParentsAre, SearchAssumption
  <1> QED
    BY <1>2, <1>3, <1>4 DEF SelectionIsPareto

(* The frontier holds one candidate of every point that no evaluated point   *)
(* dominates and of no other, and evolution passes over no point for a       *)
(* parent that it dominates.                                                 *)
THEOREM SelectsPareto == Spec => []SelectionIsPareto
  <1>1. Init => Inv /\ Chosen
    BY StopBegins, ChosenBegins
  <1>2. Inv /\ Chosen /\ [Next]_vars => (Inv /\ Chosen)'
    BY StopPreserved, ChosenPreserved
  <1>3. Inv /\ Chosen => SelectionIsPareto
    BY ChosenTells DEF Inv
  <1> QED
    BY <1>1, <1>2, <1>3, PTL DEF Spec

-----------------------------------------------------------------------------
(* Hypervolume.  What a row dominates, in unit cells up to the reference.    *)
AxesAssumption == Objectives = {Primary, Second}

LEMMA BeyondIs ==
    ASSUME NEW r \in Vector
    PROVE  /\ IsFiniteSet(Beyond(r))
           /\ \A c : c \in Beyond(r) <=>
                 /\ c \in Int \X Int
                 /\ r[Primary] <= c[1] /\ c[1] < Reference[Primary]
                 /\ r[Second] <= c[2] /\ c[2] < Reference[Second]
  <1>1. /\ r[Primary] \in Int /\ r[Second] \in Int
        /\ Reference[Primary] \in Int /\ Reference[Second] \in Int
    BY SearchAssumption DEF Vector
  <1> DEFINE S == r[Primary]..Reference[Primary] - 1
             T == r[Second]..Reference[Second] - 1
  <1>2. IsFiniteSet(S) /\ IsFiniteSet(T)
    BY <1>1, FS_Interval
  <1>3. /\ \A a : a \in S <=> a \in Int /\ r[Primary] <= a /\ a < Reference[Primary]
        /\ \A a : a \in T <=> a \in Int /\ r[Second] <= a /\ a < Reference[Second]
    BY <1>1
  <1>4. Beyond(r) = S \X T
    BY DEF Beyond
  <1> HIDE DEF S, T
  <1>5. IsFiniteSet(S \X T)
    BY <1>2, FS_Product
  <1> QED
    BY <1>3, <1>4, <1>5

LEMMA CellsAre ==
    ASSUME NEW rows, NEW c
    PROVE  c \in Cells(rows) <=> \E r \in ToSet(rows) : c \in Beyond(r)
  BY DEF Cells, ToSet

(* A row that is nowhere worse dominates whatever the other does. *)
LEMMA ReachesFurther ==
    ASSUME NEW a \in Vector, NEW b \in Vector, NotWorse({}, a, b)
    PROVE  Beyond(b) \subseteq Beyond(a)
  <1>1. a[Primary] <= b[Primary] /\ a[Second] <= b[Second]
    BY SearchAssumption DEF NotWorse, Vector
  <1>2. /\ a[Primary] \in Int /\ a[Second] \in Int
        /\ b[Primary] \in Int /\ b[Second] \in Int
    BY SearchAssumption DEF Vector
  <1>3. ASSUME NEW c \in Beyond(b)
        PROVE  c \in Beyond(a)
    <2>1. /\ c \in Int \X Int
          /\ b[Primary] <= c[1] /\ c[1] < Reference[Primary]
          /\ b[Second] <= c[2] /\ c[2] < Reference[Second]
      BY BeyondIs
    <2>2. a[Primary] <= c[1] /\ a[Second] <= c[2]
      <3>1. c[1] \in Int /\ c[2] \in Int
        BY <2>1
      <3> QED
        BY <1>1, <1>2, <2>1, <3>1
    <2> QED
      BY <2>1, <2>2, BeyondIs
  <1> QED
    BY <1>3

LEMMA NotWorseIs ==
    ASSUME NEW a \in Vector, NEW b \in Vector, NEW c \in Vector
    PROVE  /\ NotWorse({}, a, a)
           /\ NotWorse({}, a, b) /\ NotWorse({}, b, c) => NotWorse({}, a, c)
  BY DEF NotWorse, Vector

(* The rows kept of the first k. *)
Keeping(rows, h) ==
    /\ h[0] = DOMAIN rows
    /\ \A i \in 1..Len(rows) :
          h[i] = IF \E k \in h[i - 1] : Dominates({}, rows[k], rows[i]) THEN h[i - 1] \ {i}
                 ELSE h[i - 1]

LEMMA KeepingIs ==
    ASSUME NEW rows, Len(rows) \in Nat
    PROVE  \E h : Keeping(rows, h) /\ Survivors(rows) = h[Len(rows)]
  <1> DEFINE n == Len(rows)
             D == DOMAIN rows
             V == SUBSET D
             Keep(v, i) == IF \E k \in v : Dominates({}, rows[k], rows[i]) THEN v \ {i} ELSE v
             f == [i \in 1..n |-> [v \in V |-> Keep(v, i)]]
             Made(h) == h = [i \in 0..n |-> IF i = 0 THEN D ELSE Keep(h[i - 1], i)]
             F == CHOOSE h : Made(h)
  <1>1. Survivors(rows) = F[n]
    BY DEF Survivors
  <1> HIDE DEF n
  <1>2. \A v \in V : \A i \in 1..n : Keep(v, i) \in V
    OBVIOUS
  <1> HIDE DEF Keep
  <1>3. \A i \in 1..n : \A v \in V : f[i][v] = Keep(v, i) /\ f[i][v] \in V
    BY <1>2
  <1>4. PICK h : Stepping(V, n, D, f, h)
    <2>1. D \in V
      OBVIOUS
    <2> HIDE DEF f, V
    <2> QED
      BY <1>3, <2>1, SteppingExists DEF n
  <1> HIDE DEF f
  <1>5. Made(h)
    <2>1. /\ h = [i \in 0..n |-> h[i]] /\ h[0] = D
          /\ \A i \in 1..n : h[i] = f[i][h[i - 1]]
          /\ \A i \in 0..n : h[i] \in V
      BY <1>4 DEF Stepping
    <2>2. ASSUME NEW i \in 1..n
          PROVE  h[i] = Keep(h[i - 1], i)
      <3>1. i - 1 \in 0..n
        BY DEF n
      <3>2. h[i - 1] \in V
        BY <2>1, <3>1
      <3> QED
        BY <1>3, <2>1, <3>2
    <2>3. \A i \in 0..n : i = 0 \/ i \in 1..n
      BY DEF n
    <2>4. \A i \in 0..n : h[i] = IF i = 0 THEN D ELSE Keep(h[i - 1], i)
      BY <2>1, <2>2, <2>3
    <2> HIDE DEF D
    <2> QED
      BY <2>1, <2>4, Zenon
  <1>6. Made(F)
    <2> HIDE DEF Made
    <2> QED
      BY <1>5
  <1> HIDE DEF F
  <1>7. F[0] = D /\ \A i \in 1..n : F[i] = Keep(F[i - 1], i)
    <2>1. 0 \in 0..n /\ \A i \in 1..n : i \in 0..n /\ i # 0
      BY DEF n
    <2> QED
      BY <1>6, <2>1
  <1>8. Keeping(rows, F)
    BY <1>7 DEF Keeping, Keep, n
  <1> QED
    BY <1>1, <1>8 DEF n

(* Every row has one among the survivors that is nowhere worse. *)
LEMMA SurvivorsAre ==
    ASSUME NEW rows \in Seq(Vector)
    PROVE  /\ Survivors(rows) \in SUBSET DOMAIN rows
           /\ \A i \in DOMAIN rows : \E k \in Survivors(rows) : NotWorse({}, rows[k], rows[i])
  <1> DEFINE n == Len(rows)
             D == DOMAIN rows
             Under(k, i) == NotWorse({}, rows[k], rows[i])
  <1>1. n \in Nat /\ D = 1..n /\ \A i \in D : rows[i] \in Vector
    BY LenProperties, ElementOfSeq
  <1>2. PICK h : Keeping(rows, h) /\ Survivors(rows) = h[n]
    BY <1>1, KeepingIs
  <1>3. /\ h[0] = D
        /\ \A i \in 1..n :
              h[i] = IF \E k \in h[i - 1] : Dominates({}, rows[k], rows[i]) THEN h[i - 1] \ {i}
                     ELSE h[i - 1]
    BY <1>2 DEF Keeping
  <1>4. /\ \A i \in D : Under(i, i)
        /\ \A i, j, k \in D : Under(i, j) /\ Under(j, k) => Under(i, k)
    BY <1>1, NotWorseIs
  <1>5. \A i, j \in D : Dominates({}, rows[i], rows[j]) => Under(i, j) /\ i # j
    BY <1>1, DominationIs DEF Dominates
  <1> HIDE DEF n, D, Under
  <1> DEFINE Good(i) == h[i] \in SUBSET D /\ \A j \in D : \E k \in h[i] : Under(k, j)
  <1>6. ASSUME NEW i \in 1..n, Good(i - 1)
        PROVE  Good(i)
    <2>1. CASE \E k \in h[i - 1] : Dominates({}, rows[k], rows[i])
      <3>1. PICK k \in h[i - 1] : Dominates({}, rows[k], rows[i])
        BY <2>1
      <3>2. h[i] = h[i - 1] \ {i} /\ i \in D /\ k \in D
        BY <1>1, <1>3, <1>6, <2>1, <3>1
      <3>3. Under(k, i) /\ k \in h[i]
        BY <1>5, <3>1, <3>2
      <3>4. ASSUME NEW j \in D
            PROVE  \E l \in h[i] : Under(l, j)
        <4>1. PICK l \in h[i - 1] : Under(l, j)
          BY <1>6
        <4>2. CASE l = i
          BY <1>4, <3>2, <3>3, <4>1, <4>2
        <4>3. CASE l # i
          BY <3>2, <4>1, <4>3
        <4> QED
          BY <4>2, <4>3
      <3> QED
        BY <1>6, <3>2, <3>4
    <2>2. CASE ~ \E k \in h[i - 1] : Dominates({}, rows[k], rows[i])
      <3>1. h[i] = h[i - 1]
        BY <1>3, <2>2
      <3> QED
        BY <1>6, <3>1
    <2> QED
      BY <2>1, <2>2
  <1> DEFINE U == {i \in Nat : i <= n => Good(i)}
  <1>7. 0 \in U
    BY <1>3, <1>4
  <1>8. \A i \in Nat : i \in U => i + 1 \in U
    <2> SUFFICES ASSUME NEW i \in Nat, i + 1 <= n, Good(i)
                 PROVE  Good(i + 1)
      <3> HIDE DEF Good
      <3> QED
        BY <1>1
    <2>1. i + 1 \in 1..n /\ (i + 1) - 1 = i
      BY <1>1
    <2> HIDE DEF Good
    <2> QED
      BY <1>6, <2>1
  <1>9. Good(n)
    <2> HIDE DEF Good
    <2>1. n \in U
      <3> HIDE DEF U
      <3> QED
        BY <1>1, <1>7, <1>8, Climbing
    <2> QED
      BY <1>1, <2>1
  <1> QED
    BY <1>2, <1>9 DEF D, Under

(* Rows picked out of a sequence. *)
LEMMA PickedRows ==
    ASSUME NEW rows \in Seq(Vector), NEW P \in SUBSET DOMAIN rows
    PROVE  /\ Picked(rows, P) \in Seq(Vector)
           /\ \A r : r \in ToSet(Picked(rows, P)) <=> \E i \in P : rows[i] = r
  <1>1. /\ DOMAIN rows = 1..Len(rows) /\ Len(rows) \in Nat
        /\ \A i \in DOMAIN rows : rows[i] \in Vector
    BY LenProperties, ElementOfSeq
  <1>2. IsFiniteSet(DOMAIN rows)
    BY <1>1, FS_Interval
  <1>3. IsFiniteSet(P) /\ P \subseteq Int /\ \A i \in P : rows[i] \in Vector
    BY <1>1, <1>2, FS_Subset
  <1>4. /\ Picked(rows, P) \in Seq(Vector)
        /\ ToSet(Picked(rows, P)) = RowsAt(rows, P)
    BY <1>3, PickedIs
  <1> QED
    BY <1>4 DEF RowsAt

LEMMA NonDominatedIs ==
    ASSUME NEW rows \in Seq(Vector)
    PROVE  /\ NonDominated(rows) \in Seq(Vector)
           /\ ToSet(NonDominated(rows)) \subseteq ToSet(rows)
           /\ Cells(NonDominated(rows)) = Cells(rows)
  <1> DEFINE front == NonDominated(rows)
             K == Survivors(rows)
  <1>1. \A i \in DOMAIN rows : rows[i] \in Vector
    BY LenProperties, ElementOfSeq
  <1>2. K \in SUBSET DOMAIN rows /\ \A i \in DOMAIN rows : \E k \in K : NotWorse({}, rows[k], rows[i])
    BY SurvivorsAre
  <1> HIDE DEF K
  <1>3. front = Picked(rows, K)
    BY DEF NonDominated, K
  <1>4. front \in Seq(Vector) /\ \A r : r \in ToSet(front) <=> \E i \in K : rows[i] = r
    BY <1>2, <1>3, PickedRows
  <1>5. \A r : r \in ToSet(rows) <=> \E i \in DOMAIN rows : rows[i] = r
    BY DEF ToSet
  <1> HIDE DEF front
  <1>6. ToSet(front) \subseteq ToSet(rows)
    BY <1>2, <1>4, <1>5
  <1>7. ASSUME NEW c \in Cells(front)
        PROVE  c \in Cells(rows)
    BY <1>6, CellsAre
  <1>8. ASSUME NEW c \in Cells(rows)
        PROVE  c \in Cells(front)
    <2>1. PICK r \in ToSet(rows) : c \in Beyond(r)
      BY CellsAre
    <2>2. PICK i \in DOMAIN rows : rows[i] = r
      BY <1>5, <2>1
    <2>3. PICK k \in K : NotWorse({}, rows[k], rows[i])
      BY <1>2
    <2>4. Beyond(rows[i]) \subseteq Beyond(rows[k])
      <3>1. rows[i] \in Vector /\ rows[k] \in Vector
        BY <1>1, <1>2
      <3> QED
        BY <2>3, <3>1, ReachesFurther
    <2>5. rows[k] \in ToSet(front) /\ c \in Beyond(rows[k])
      BY <1>4, <2>1, <2>2, <2>4
    <2> QED
      BY <2>5, CellsAre
  <1> QED
    BY <1>4, <1>6, <1>7, <1>8 DEF front

LEMMA InsideIs ==
    ASSUME AxesAssumption, NEW rows \in Seq(Vector)
    PROVE  /\ Inside(rows, Reference) \in Seq(Vector)
           /\ \A r \in ToSet(Inside(rows, Reference)) :
                 r[Primary] < Reference[Primary] /\ r[Second] < Reference[Second]
           /\ Cells(Inside(rows, Reference)) = Cells(rows)
  <1> DEFINE within == Inside(rows, Reference)
             K == {i \in DOMAIN rows : \A n \in DOMAIN rows[i] : rows[i][n] < Reference[n]}
  <1>1. \A i \in DOMAIN rows : rows[i] \in Vector /\ DOMAIN rows[i] = {Primary, Second}
    <2>1. \A i \in DOMAIN rows : rows[i] \in Vector
      BY LenProperties, ElementOfSeq
    <2>2. \A r \in Vector : DOMAIN r = {Primary, Second}
      BY DEF AxesAssumption, Vector
    <2> QED
      BY <2>1, <2>2
  <1>2. within = Picked(rows, K) /\ K \in SUBSET DOMAIN rows
    BY DEF Inside
  <1>3. \A i \in DOMAIN rows :
           i \in K <=> rows[i][Primary] < Reference[Primary] /\ rows[i][Second] < Reference[Second]
    BY <1>1
  <1> HIDE DEF K, within
  <1>4. within \in Seq(Vector) /\ \A r : r \in ToSet(within) <=> \E i \in K : rows[i] = r
    BY <1>2, PickedRows
  <1>5. \A r : r \in ToSet(rows) <=> \E i \in DOMAIN rows : rows[i] = r
    BY DEF ToSet
  <1>6. ASSUME NEW c \in Cells(within)
        PROVE  c \in Cells(rows)
    BY <1>2, <1>4, <1>5, <1>6, CellsAre
  <1>7. ASSUME NEW c \in Cells(rows)
        PROVE  c \in Cells(within)
    <2>1. PICK i \in DOMAIN rows : c \in Beyond(rows[i])
      BY <1>5, CellsAre
    <2> DEFINE r == rows[i]
    <2>2. r \in Vector
      BY <1>1
    <2>3. /\ c \in Int \X Int /\ r[Primary] \in Int /\ r[Second] \in Int
          /\ Reference[Primary] \in Int /\ Reference[Second] \in Int
      BY <2>1, <2>2, BeyondIs, SearchAssumption DEF Vector
    <2>4. /\ r[Primary] <= c[1] /\ c[1] < Reference[Primary]
          /\ r[Second] <= c[2] /\ c[2] < Reference[Second]
      BY <2>1, <2>2, BeyondIs
    <2>5. r[Primary] < Reference[Primary] /\ r[Second] < Reference[Second]
      <3>1. c[1] \in Int /\ c[2] \in Int
        BY <2>3
      <3> QED
        BY <2>3, <2>4, <3>1
    <2>6. r \in ToSet(within)
      BY <1>3, <1>4, <2>5
    <2> QED
      BY <2>1, <2>6, CellsAre
  <1> QED
    BY <1>2, <1>3, <1>4, <1>6, <1>7 DEF within

(* Sorted along the first axis, the same rows. *)
LEMMA AlongIs ==
    ASSUME NEW rows \in Seq(Vector)
    PROVE  LET line == Along(rows, Primary)
           IN  /\ line \in Seq(Vector)
               /\ ToSet(line) = ToSet(rows)
               /\ \A i, j \in 1..Len(line) : i < j => line[i][Primary] <= line[j][Primary]
  <1> DEFINE D == DOMAIN rows
             above == [i \in D |-> {j \in D : rows[j][Primary] < rows[i][Primary]}]
             order == RankedBy(above)
             line == Along(rows, Primary)
             n == Len(rows)
             c == Cardinality(D)
  <1>1. n \in Nat /\ D = 1..n /\ \A i \in D : rows[i] \in Vector
    BY LenProperties, ElementOfSeq
  <1>2. IsFiniteSet(D) /\ D \subseteq Int /\ \A i \in D : rows[i][Primary] \in Int
    BY <1>1, FS_Interval, SearchAssumption DEF Vector
  <1>3. line = [k \in DOMAIN order |-> rows[order[k]]]
    BY DEF Along
  <1>4. \A r : r \in ToSet(rows) <=> \E i \in D : rows[i] = r
    BY DEF ToSet
  <1> HIDE DEF D, n, line
  <1>5. /\ DOMAIN above = D
        /\ \A i, j \in D : j \in above[i] <=> rows[j][Primary] < rows[i][Primary]
        /\ \A i \in D : above[i] \subseteq D
    OBVIOUS
  <1> HIDE DEF above
  <1>6. WeakOrder(above)
    <2>1. \A i, j \in D : i \in above[j] => j \notin above[i]
      BY <1>2, <1>5
    <2>2. \A i, j, k \in D : i \in above[k] => i \in above[j] \/ j \in above[k]
      BY <1>2, <1>5
    <2> QED
      BY <1>5, <2>1, <2>2 DEF WeakOrder
  <1>7. IsRanking(order, above)
    BY <1>2, <1>5, <1>6, RankedByIs
  <1> HIDE DEF order
  <1>8. /\ c \in Nat /\ DOMAIN order = 1..c
        /\ \A k \in 1..c : order[k] \in D
        /\ \A i \in D : \E k \in 1..c : order[k] = i
        /\ \A i, j \in 1..c : i < j => order[j] \notin above[order[i]]
    BY <1>5, <1>7 DEF IsRanking
  <1> HIDE DEF c
  <1>9. \A k \in 1..c : line[k] = rows[order[k]] /\ line[k] \in Vector
    BY <1>1, <1>3, <1>8
  <1>10. line \in Seq(Vector) /\ Len(line) = c /\ DOMAIN line = 1..c
    <2>1. line \in [1..c -> Vector]
      BY <1>3, <1>8, <1>9
    <2> QED
      BY <1>8, <2>1, FunctionIsSeq
  <1>11. ToSet(line) = ToSet(rows)
    <2>1. \A r : r \in ToSet(line) <=> \E k \in 1..c : line[k] = r
      BY <1>10 DEF ToSet
    <2>2. ASSUME NEW r \in ToSet(line)
          PROVE  r \in ToSet(rows)
      <3>1. PICK k \in 1..c : line[k] = r
        BY <2>1
      <3> QED
        BY <1>4, <1>8, <1>9, <3>1
    <2>3. ASSUME NEW r \in ToSet(rows)
          PROVE  r \in ToSet(line)
      <3>1. PICK i \in D : rows[i] = r
        BY <1>4
      <3>2. PICK k \in 1..c : order[k] = i
        BY <1>8
      <3> QED
        BY <1>9, <2>1, <3>1, <3>2
    <2> QED
      BY <2>2, <2>3
  <1>12. ASSUME NEW i \in 1..c, NEW j \in 1..c, i < j
         PROVE  line[i][Primary] <= line[j][Primary]
    <2>1. order[i] \in D /\ order[j] \in D /\ order[j] \notin above[order[i]]
      BY <1>8, <1>12
    <2>2. ~(rows[order[j]][Primary] < rows[order[i]][Primary])
      BY <1>5, <2>1
    <2>3. rows[order[i]][Primary] \in Int /\ rows[order[j]][Primary] \in Int
      BY <1>2, <2>1
    <2> DEFINE a == rows[order[i]][Primary]
               b == rows[order[j]][Primary]
    <2>4. a <= b
      <3> HIDE DEF order, a, b
      <3>1. a \in Int /\ b \in Int /\ ~(b < a)
        BY <2>2, <2>3 DEF a, b
      <3> QED
        BY <3>1
    <2> QED
      BY <1>9, <2>4
  <1> QED
    BY <1>10, <1>11, <1>12 DEF line

(* A row adds what it dominates below the last one that added. *)
LEMMA Adds ==
    ASSUME NEW U, IsFiniteSet(U), NEW r \in Vector, NEW p \in Int,
           r[Primary] < Reference[Primary], p <= Reference[Second],
           \A c \in Beyond(r) : c \in U <=> p <= c[2]
    PROVE  /\ IsFiniteSet(U \cup Beyond(r))
           /\ Cardinality(U \cup Beyond(r))
                = IF r[Second] >= p THEN Cardinality(U)
                  ELSE Cardinality(U) + (Reference[Primary] - r[Primary]) * (p - r[Second])
  <1> DEFINE a == r[Primary]
             b == r[Second]
             X == Reference[Primary]
             Y == Reference[Second]
             S == a..X - 1
             T == b..p - 1
             N == S \X T
  <1>1. a \in Int /\ b \in Int /\ X \in Int /\ Y \in Int /\ a < X /\ p <= Y
    BY SearchAssumption DEF Vector
  <1>2. IsFiniteSet(Beyond(r)) /\ IsFiniteSet(U \cup Beyond(r))
    BY BeyondIs, FS_Union
  <1>3. \A c : c \in Beyond(r) <=> c \in Int \X Int /\ a <= c[1] /\ c[1] < X /\ b <= c[2] /\ c[2] < Y
    BY BeyondIs
  <1> HIDE DEF a, b, X, Y
  <1>4. CASE b >= p
    <2>1. ASSUME NEW c \in Beyond(r)
          PROVE  c \in U
      <3>1. c[2] \in Int /\ b <= c[2]
        BY <1>3
      <3>2. p <= c[2]
        BY <1>1, <1>4, <3>1
      <3> QED
        BY <3>2
    <2>2. U \cup Beyond(r) = U
      BY <2>1
    <2> QED
      BY <1>2, <1>4, <2>2 DEF b
  <1>5. CASE ~(b >= p)
    <2>1. /\ IsFiniteSet(S) /\ Cardinality(S) = X - a
          /\ IsFiniteSet(T) /\ Cardinality(T) = p - b
      <3>1. IsFiniteSet(S) /\ Cardinality(S) = IF a > X - 1 THEN 0 ELSE (X - 1) - a + 1
        BY <1>1, FS_Interval
      <3>2. IsFiniteSet(T) /\ Cardinality(T) = IF b > p - 1 THEN 0 ELSE (p - 1) - b + 1
        BY <1>1, FS_Interval
      <3> QED
        BY <1>1, <1>5, <3>1, <3>2
    <2>2. /\ \A x : x \in S <=> x \in Int /\ a <= x /\ x < X
          /\ \A x : x \in T <=> x \in Int /\ b <= x /\ x < p
      BY <1>1
    <2> HIDE DEF S, T
    <2>3. IsFiniteSet(N) /\ Cardinality(N) = (X - a) * (p - b)
      BY <2>1, FS_Product
    <2>4. \A c : c \in N <=> c \in Int \X Int /\ a <= c[1] /\ c[1] < X /\ b <= c[2] /\ c[2] < p
      BY <2>2
    <2> HIDE DEF N
    <2>5. ASSUME NEW c \in N
          PROVE  c \in Beyond(r) /\ c \notin U
      <3>1. /\ c \in Int \X Int /\ a <= c[1] /\ c[1] < X /\ b <= c[2] /\ c[2] < p
            /\ c[2] \in Int
        BY <2>4
      <3>2. c[2] < Y /\ ~(p <= c[2])
        BY <1>1, <3>1
      <3> QED
        BY <1>3, <3>1, <3>2
    <2>6. ASSUME NEW c \in Beyond(r)
          PROVE  c \in U \/ c \in N
      <3>1. /\ c \in Int \X Int /\ a <= c[1] /\ c[1] < X /\ b <= c[2] /\ c[2] \in Int
        BY <1>3
      <3>2. p <= c[2] \/ c[2] < p
        BY <3>1
      <3> QED
        BY <2>4, <3>1, <3>2
    <2>7. U \cup Beyond(r) = U \cup N /\ U \cap N = {}
      BY <2>5, <2>6
    <2>8. Cardinality(U \cup N) = Cardinality(U) + Cardinality(N) - Cardinality(U \cap N)
      BY <2>3, FS_Union
    <2>9. Cardinality(U \cap N) = 0
      BY <2>7, FS_EmptySet
    <2>10. Cardinality(U) \in Nat /\ Cardinality(N) \in Nat
      BY <2>3, FS_CardinalityType
    <2>11. Cardinality(U \cup N) = Cardinality(U) + Cardinality(N)
      BY <2>8, <2>9, <2>10
    <2>12. Cardinality(U \cup Beyond(r)) = Cardinality(U) + (X - a) * (p - b)
      BY ONLY <2>3, <2>7, <2>11, Zenon
    <2> QED
      BY <1>2, <1>5, <2>12 DEF a, b, X
  <1> QED
    BY <1>4, <1>5

(* The sweep after k rows. *)
Sweeping(line, h) ==
    /\ h[0] = [volume |-> 0, previous |-> Reference[Second]]
    /\ \A k \in 1..Len(line) :
          h[k] = IF line[k][Second] >= h[k - 1].previous THEN h[k - 1]
                 ELSE [volume   |-> h[k - 1].volume
                                      + (Reference[Primary] - line[k][Primary])
                                          * (h[k - 1].previous - line[k][Second]),
                       previous |-> line[k][Second]]

LEMMA SweepingIs ==
    ASSUME NEW line \in Seq(Vector)
    PROVE  \E h : /\ Sweeping(line, h)
                  /\ Swept(line, Primary, Second, Reference) = h[Len(line)].volume
  <1> DEFINE n == Len(line)
             V == [volume : Int, previous : Int]
             Sweep(v, r) == IF r[Second] >= v.previous THEN v
                            ELSE [volume   |-> v.volume
                                                 + (Reference[Primary] - r[Primary])
                                                     * (v.previous - r[Second]),
                                  previous |-> r[Second]]
             a == [volume |-> 0, previous |-> Reference[Second]]
             f == [k \in 1..n |-> [v \in V |-> Sweep(v, line[k])]]
             Made(h) == h = [k \in 0..n |-> IF k = 0 THEN a ELSE Sweep(h[k - 1], line[k])]
             F == CHOOSE h : Made(h)
  <1>1. Swept(line, Primary, Second, Reference) = F[n].volume
    BY DEF Swept
  <1>2. /\ n \in Nat /\ \A k \in 1..n : line[k] \in Vector
        /\ Reference[Primary] \in Int /\ Reference[Second] \in Int
        /\ \A r \in Vector : r[Primary] \in Int /\ r[Second] \in Int
    BY LenProperties, ElementOfSeq, SearchAssumption DEF Vector
  <1> HIDE DEF n
  <1>3. a \in V
    BY <1>2
  <1>4. ASSUME NEW v \in V, NEW r \in Vector
        PROVE  Sweep(v, r) \in V
    <2> DEFINE z == v.volume + (Reference[Primary] - r[Primary]) * (v.previous - r[Second])
    <2>1. z \in Int /\ r[Second] \in Int
      BY <1>2
    <2> HIDE DEF z
    <2>2. [volume |-> z, previous |-> r[Second]] \in V
      BY <2>1
    <2> QED
      BY <2>2 DEF z
  <1> HIDE DEF V, Sweep, a
  <1>5. \A k \in 1..n : \A v \in V : f[k][v] = Sweep(v, line[k]) /\ f[k][v] \in V
    BY <1>2, <1>4
  <1>6. PICK h : Stepping(V, n, a, f, h)
    <2> HIDE DEF f
    <2> QED
      BY <1>2, <1>3, <1>5, SteppingExists
  <1> HIDE DEF f
  <1>7. Made(h)
    <2>1. /\ h = [k \in 0..n |-> h[k]] /\ h[0] = a
          /\ \A k \in 1..n : h[k] = f[k][h[k - 1]]
          /\ \A k \in 0..n : h[k] \in V
      BY <1>6 DEF Stepping
    <2>2. ASSUME NEW k \in 1..n
          PROVE  h[k] = Sweep(h[k - 1], line[k])
      <3>1. k - 1 \in 0..n
        BY <1>2
      <3>2. h[k - 1] \in V
        BY <2>1, <3>1
      <3> QED
        BY <1>5, <2>1, <3>2
    <2>3. \A k \in 0..n : k = 0 \/ k \in 1..n
      BY <1>2
    <2>4. \A k \in 0..n : h[k] = IF k = 0 THEN a ELSE Sweep(h[k - 1], line[k])
      BY <2>1, <2>2, <2>3
    <2> QED
      BY <2>1, <2>4, Zenon
  <1>8. Made(F)
    <2> HIDE DEF Made
    <2> QED
      BY <1>7
  <1> HIDE DEF F
  <1>9. F[0] = a /\ \A k \in 1..n : F[k] = Sweep(F[k - 1], line[k])
    <2>1. 0 \in 0..n /\ \A k \in 1..n : k \in 0..n /\ k # 0
      BY <1>2
    <2> QED
      BY <1>8, <2>1
  <1>10. Sweeping(line, F)
    BY <1>9 DEF Sweeping, Sweep, a, n
  <1> QED
    BY <1>1, <1>10 DEF n

(* Swept in order, the volume is the number of cells. *)
LEMMA SweptIs ==
    ASSUME NEW line \in Seq(Vector),
           \A i, j \in 1..Len(line) : i < j => line[i][Primary] <= line[j][Primary],
           \A i \in 1..Len(line) : line[i][Primary] < Reference[Primary]
    PROVE  /\ Swept(line, Primary, Second, Reference) = Cardinality(Cells(line))
           /\ IsFiniteSet(Cells(line))
  <1> DEFINE n == Len(line)
             X == Reference[Primary]
             Y == Reference[Second]
             Reach(k) == UNION {Beyond(line[i]) : i \in 1..k}
  <1>1. /\ n \in Nat /\ \A i \in 1..n : line[i] \in Vector
        /\ X \in Int /\ Y \in Int
        /\ \A i \in 1..n : line[i][Primary] \in Int /\ line[i][Second] \in Int
        /\ DOMAIN line = 1..n
    BY LenProperties, ElementOfSeq, SearchAssumption DEF Vector
  <1>2. PICK h : /\ Sweeping(line, h)
                 /\ Swept(line, Primary, Second, Reference) = h[n].volume
    BY SweepingIs
  <1>3. /\ h[0] = [volume |-> 0, previous |-> Y]
        /\ \A k \in 1..n :
              h[k] = IF line[k][Second] >= h[k - 1].previous THEN h[k - 1]
                     ELSE [volume   |-> h[k - 1].volume
                                          + (X - line[k][Primary])
                                              * (h[k - 1].previous - line[k][Second]),
                           previous |-> line[k][Second]]
    BY <1>2 DEF Sweeping
  <1>4. \A i \in 1..n : \A c :
           c \in Beyond(line[i]) <=>
              /\ c \in Int \X Int
              /\ line[i][Primary] <= c[1] /\ c[1] < X
              /\ line[i][Second] <= c[2] /\ c[2] < Y
    BY <1>1, BeyondIs
  <1>5. \A k, c : c \in Reach(k) <=> \E i \in 1..k : c \in Beyond(line[i])
    OBVIOUS
  <1>6. /\ \A i, j \in 1..n : i < j => line[i][Primary] <= line[j][Primary]
        /\ \A i \in 1..n : line[i][Primary] < X
    OBVIOUS
  <1>7. Cells(line) = Reach(n)
    BY <1>1 DEF Cells
  <1> HIDE DEF n, X, Y, Reach
  <1> DEFINE p(k) == h[k].previous
             Good(k) ==
               /\ IsFiniteSet(Reach(k))
               /\ h[k].volume = Cardinality(Reach(k))
               /\ p(k) \in Int /\ p(k) <= Y
               /\ \A i \in 1..k : p(k) <= line[i][Second]
               /\ p(k) = Y \/ \E i \in 1..k : line[i][Second] = p(k)
  <1>8. ASSUME NEW k \in 1..n, Good(k - 1)
        PROVE  Good(k)
    <2> DEFINE r == line[k]
               U == Reach(k - 1)
               q == p(k - 1)
    <2>1. /\ IsFiniteSet(U) /\ h[k - 1].volume = Cardinality(U)
          /\ q \in Int /\ q <= Y
          /\ \A i \in 1..(k - 1) : q <= line[i][Second]
          /\ q = Y \/ \E i \in 1..(k - 1) : line[i][Second] = q
      BY <1>8
    <2>2. /\ \A i \in 1..(k - 1) : i \in 1..n /\ i < k /\ i \in 1..k
          /\ \A i \in 1..k : i \in 1..n /\ (i = k \/ i \in 1..(k - 1))
          /\ k \in 1..k
      BY <1>1
    <2>3. /\ r \in Vector /\ r[Primary] \in Int /\ r[Second] \in Int
          /\ r[Primary] < X
      BY <1>1, <1>6
    <2>4. ASSUME NEW c \in Beyond(r)
          PROVE  c \in U <=> q <= c[2]
      <3>1. /\ c \in Int \X Int /\ c[1] \in Int /\ c[2] \in Int
            /\ r[Primary] <= c[1] /\ c[1] < X /\ c[2] < Y
        BY <1>4
      <3>2. ASSUME c \in U
            PROVE  q <= c[2]
        <4>1. PICK i \in 1..(k - 1) : c \in Beyond(line[i])
          BY <1>5, <3>2
        <4>2. line[i][Second] <= c[2] /\ line[i][Second] \in Int /\ q <= line[i][Second]
          BY <1>1, <1>4, <2>1, <2>2, <4>1
        <4> QED
          BY <2>1, <3>1, <4>2
      <3>3. ASSUME q <= c[2]
            PROVE  c \in U
        <4>1. q # Y
          BY <1>1, <2>1, <3>1, <3>3
        <4>2. PICK i \in 1..(k - 1) : line[i][Second] = q
          BY <2>1, <4>1
        <4>3. i \in 1..n /\ line[i][Primary] <= r[Primary] /\ line[i][Primary] \in Int
          BY <1>1, <1>6, <2>2
        <4>4. line[i][Primary] <= c[1]
          BY <2>3, <3>1, <4>3
        <4>5. c \in Beyond(line[i])
          BY <1>4, <3>1, <3>3, <4>2, <4>3, <4>4
        <4> QED
          BY <1>5, <4>5
      <3> QED
        BY <3>2, <3>3
    <2>5. ASSUME NEW c
          PROVE  c \in Reach(k) <=> c \in U \/ c \in Beyond(r)
      BY <1>5, <2>2
    <2>6. Reach(k) = U \cup Beyond(r)
      BY <2>5
    <2> HIDE DEF r, U, q
    <2>7. /\ IsFiniteSet(U \cup Beyond(r))
          /\ Cardinality(U \cup Beyond(r))
               = IF r[Second] >= q THEN Cardinality(U)
                 ELSE Cardinality(U) + (X - r[Primary]) * (q - r[Second])
      BY <2>1, <2>3, <2>4, Adds DEF X, Y
    <2>8. h[k] = IF r[Second] >= q THEN h[k - 1]
                 ELSE [volume   |-> h[k - 1].volume + (X - r[Primary]) * (q - r[Second]),
                       previous |-> r[Second]]
      BY <1>3 DEF r, q
    <2>9. IsFiniteSet(Reach(k)) /\ h[k].volume = Cardinality(Reach(k))
      <3> DEFINE z == (X - r[Primary]) * (q - r[Second])
      <3>1. CASE r[Second] >= q
        BY <2>1, <2>6, <2>7, <2>8, <3>1
      <3>2. CASE ~(r[Second] >= q)
        <4>1. h[k].volume = h[k - 1].volume + z
          BY <2>8, <3>2
        <4>2. Cardinality(U \cup Beyond(r)) = Cardinality(U) + z
          BY <2>7, <3>2
        <4> HIDE DEF z
        <4> QED
          BY <2>1, <2>6, <2>7, <4>1, <4>2
      <3> QED
        BY <3>1, <3>2
    <2>10. p(k) = IF r[Second] >= q THEN q ELSE r[Second]
      <3>1. CASE r[Second] >= q
        BY <2>8, <3>1 DEF q
      <3>2. CASE ~(r[Second] >= q)
        BY <2>8, <3>2
      <3> QED
        BY <3>1, <3>2
    <2> HIDE DEF p
    <2>11. p(k) \in Int /\ p(k) <= Y /\ p(k) <= q /\ p(k) <= r[Second]
      BY <1>1, <2>1, <2>3, <2>10
    <2>12. ASSUME NEW i \in 1..k
           PROVE  p(k) <= line[i][Second]
      <3>1. CASE i = k
        BY <2>11, <3>1 DEF r
      <3>2. CASE i \in 1..(k - 1)
        <4>1. q <= line[i][Second] /\ line[i][Second] \in Int
          BY <1>1, <2>1, <2>2, <3>2
        <4> QED
          BY <2>1, <2>11, <4>1
      <3> QED
        BY <2>2, <3>1, <3>2
    <2>13. p(k) = Y \/ \E i \in 1..k : line[i][Second] = p(k)
      <3>1. CASE p(k) = q
        BY <2>1, <2>2, <3>1
      <3>2. CASE p(k) = r[Second]
        BY <2>2, <3>2 DEF r
      <3> QED
        BY <2>10, <3>1, <3>2
    <2> QED
      BY <2>9, <2>11, <2>12, <2>13
  <1>9. Good(0)
    <2>1. Reach(0) = {}
      BY <1>5
    <2>2. IsFiniteSet(Reach(0)) /\ Cardinality(Reach(0)) = 0
      BY <2>1, FS_EmptySet
    <2>3. h[0].volume = 0 /\ h[0].previous = Y
      BY <1>3
    <2> QED
      BY <1>1, <2>2, <2>3
  <1> DEFINE W == {k \in Nat : k <= n => Good(k)}
  <1>10. 0 \in W
    <2> HIDE DEF Good
    <2> QED
      BY <1>9
  <1>11. \A k \in Nat : k \in W => k + 1 \in W
    <2> SUFFICES ASSUME NEW k \in Nat, k + 1 <= n, Good(k)
                 PROVE  Good(k + 1)
      <3> HIDE DEF Good
      <3> QED
        BY <1>1
    <2>1. k + 1 \in 1..n /\ (k + 1) - 1 = k
      BY <1>1
    <2> HIDE DEF Good
    <2> QED
      BY <1>8, <2>1
  <1>12. Good(n)
    <2> HIDE DEF Good
    <2>1. n \in W
      <3> HIDE DEF W
      <3> QED
        BY <1>1, <1>10, <1>11, Climbing
    <2> QED
      BY <1>1, <2>1
  <1> QED
    BY <1>2, <1>7, <1>12

LEMMA HypervolumeIs ==
    ASSUME AxesAssumption, NEW rows \in Seq(Vector)
    PROVE  /\ Hypervolume(rows, Primary, Second, Reference) = Cardinality(Cells(rows))
           /\ IsFiniteSet(Cells(rows))
  <1> DEFINE within == Inside(rows, Reference)
             front == NonDominated(within)
             line == Along(front, Primary)
             n == Len(line)
  <1>1. /\ within \in Seq(Vector) /\ Cells(within) = Cells(rows)
        /\ \A r \in ToSet(within) : r[Primary] < Reference[Primary]
    BY InsideIs
  <1>2. Hypervolume(rows, Primary, Second, Reference) = Swept(line, Primary, Second, Reference)
    BY DEF Hypervolume
  <1> HIDE DEF within
  <1>3. front \in Seq(Vector) /\ Cells(front) = Cells(within) /\ ToSet(front) \subseteq ToSet(within)
    BY <1>1, NonDominatedIs
  <1> HIDE DEF front
  <1>4. /\ line \in Seq(Vector) /\ ToSet(line) = ToSet(front)
        /\ \A i, j \in 1..n : i < j => line[i][Primary] <= line[j][Primary]
    BY <1>3, AlongIs
  <1> HIDE DEF line
  <1>5. DOMAIN line = 1..n
    BY <1>4, LenProperties
  <1>6. \A i \in 1..n : line[i][Primary] < Reference[Primary]
    <2>1. \A i \in 1..n : line[i] \in ToSet(line)
      BY <1>5 DEF ToSet
    <2> QED
      BY <1>1, <1>3, <1>4, <2>1
  <1>7. /\ Swept(line, Primary, Second, Reference) = Cardinality(Cells(line))
        /\ IsFiniteSet(Cells(line))
    BY <1>4, <1>6, SweptIs
  <1>8. Cells(line) = Cells(front)
    <2>1. \A c : c \in Cells(line) <=> c \in Cells(front)
      BY <1>4, CellsAre
    <2> QED
      BY <2>1
  <1> QED
    BY <1>1, <1>2, <1>3, <1>7, <1>8

(* What has been recorded stays true, since the archive only grows. *)
Records == [evaluations : Nat, size : Nat, volume : Nat]

Recorded ==
    /\ history \in Seq(Records)
    /\ \A k \in 1..Len(history) : history[k].evaluations <= Len(candidates)
    /\ \A k \in 1..Len(history) :
          history[k].volume
            = Cardinality(Cells(Vectors(SubSeq(candidates, 1, history[k].evaluations))))

LEMMA VectorsAre ==
    ASSUME NEW rows \in Seq(Candidate)
    PROVE  Vectors(rows) \in Seq(Vector)
  <1> DEFINE n == Len(rows)
  <1>1. n \in Nat /\ DOMAIN rows = 1..n /\ \A i \in 1..n : rows[i] \in Candidate
    BY LenProperties, ElementOfSeq
  <1>2. \A i \in 1..n : rows[i].objectives \in Vector
    BY <1>1 DEF Candidate
  <1> HIDE DEF n
  <1>3. Vectors(rows) \in [1..n -> Vector]
    BY <1>1, <1>2 DEF Vectors
  <1> QED
    BY <1>1, <1>3, FunctionIsSeq

LEMMA PrefixStays ==
    ASSUME NEW s \in Seq(Candidate), NEW t \in Seq(Candidate), NEW e \in Nat, e <= Len(s)
    PROVE  SubSeq(s \o t, 1, e) = SubSeq(s, 1, e)
  <1> DEFINE r == s \o t
             a == SubSeq(r, 1, e)
             b == SubSeq(s, 1, e)
  <1>1. /\ r \in Seq(Candidate) /\ Len(r) = Len(s) + Len(t)
        /\ Len(s) \in Nat /\ Len(t) \in Nat
        /\ \A i \in 1..Len(s) : r[i] = s[i]
    BY ConcatProperties, LenProperties
  <1> HIDE DEF r
  <1>2. a = [i \in 1..e |-> r[i]] /\ b = [i \in 1..e |-> s[i]]
    BY <1>1, SubSeqProperties
  <1>3. \A i \in 1..e : r[i] = s[i]
    BY <1>1
  <1> QED
    BY <1>2, <1>3 DEF r

LEMMA RecordIs ==
    ASSUME AxesAssumption, NEW all \in Seq(Candidate)
    PROVE  /\ Record(all) \in Records
           /\ Record(all).evaluations = Len(all)
           /\ Record(all).volume = Cardinality(Cells(Vectors(SubSeq(all, 1, Len(all)))))
  <1> DEFINE rows == Vectors(all)
             front == NonDominated(rows)
  <1>1. rows \in Seq(Vector)
    BY VectorsAre
  <1>2. /\ Record(all) = [evaluations |-> Len(all), size |-> Len(front),
                          volume |-> Hypervolume(front, Primary, Second, Reference)]
        /\ SubSeq(all, 1, Len(all)) = all
    <2>1. SubSeq(all, 1, Len(all)) = all
      BY SubSeqFull
    <2> QED
      BY <2>1 DEF Record
  <1> HIDE DEF rows
  <1>3. front \in Seq(Vector) /\ Cells(front) = Cells(rows)
    BY <1>1, NonDominatedIs
  <1> HIDE DEF front
  <1>4. /\ Hypervolume(front, Primary, Second, Reference) = Cardinality(Cells(rows))
        /\ Cardinality(Cells(rows)) \in Nat
    BY <1>3, HypervolumeIs, FS_CardinalityType
  <1>5. Len(all) \in Nat /\ Len(front) \in Nat
    BY <1>3, LenProperties
  <1> DEFINE v == Hypervolume(front, Primary, Second, Reference)
  <1>6. v = Cardinality(Cells(rows)) /\ v \in Nat
    BY <1>4
  <1> HIDE DEF v
  <1>7. Record(all) = [evaluations |-> Len(all), size |-> Len(front), volume |-> v]
    BY <1>2 DEF v
  <1>8. Record(all) \in Records /\ Record(all).evaluations = Len(all) /\ Record(all).volume = v
    BY <1>5, <1>6, <1>7 DEF Records
  <1>9. SubSeq(all, 1, Len(all)) = all
    BY <1>2
  <1>10. v = Cardinality(Cells(Vectors(SubSeq(all, 1, Len(all)))))
    BY <1>6, <1>9 DEF rows
  <1> QED
    BY <1>8, <1>10

LEMMA RecordedBegins == Init => Recorded
  BY EmptySeq DEF Init, Recorded

LEMMA RecordedPreserved ==
    ASSUME AxesAssumption, Inv, Recorded, [Next]_vars
    PROVE  Recorded'
  <1>1. TypeOK /\ candidates \in Seq(Candidate)
    BY DEF Inv, TypeOK
  <1>2. CASE LoopProposes \/ HarnessProposes \/ UNCHANGED vars
    <2>1. UNCHANGED <<candidates, history>>
      BY <1>2 DEF LoopProposes, HarnessProposes, Proposed, vars
    <2> QED
      BY <2>1 DEF Recorded, Vectors
  <1>3. CASE Evaluate
    <2> DEFINE n == Len(history)
               Told(k, h, rows) ==
                 /\ h[k].evaluations <= Len(rows)
                 /\ h[k].volume = Cardinality(Cells(Vectors(SubSeq(rows, 1, h[k].evaluations))))
    <2>1. /\ candidates' = candidates \o Evaluated /\ Evaluated \in Seq(Candidate)
          /\ candidates' \in Seq(Candidate) /\ Len(candidates') = Len(candidates) + Len(Evaluated)
          /\ Len(candidates) \in Nat /\ Len(Evaluated) \in Nat
      BY <1>1, <1>3, BatchIs, EvaluatedIs, ConcatProperties, LenProperties DEF Evaluate
    <2>2. history \in Seq(Records) /\ \A k \in 1..n : Told(k, history, candidates)
      BY DEF Recorded
    <2>3. ASSUME NEW k \in 1..n
          PROVE  Told(k, history, candidates')
      <3>1. history[k].evaluations \in Nat
        <4>1. history[k] \in Records
          BY <2>2, ElementOfSeq
        <4> QED
          BY <4>1 DEF Records
      <3>2. history[k].evaluations <= Len(candidates)
        BY <2>2
      <3>3. SubSeq(candidates', 1, history[k].evaluations)
              = SubSeq(candidates, 1, history[k].evaluations)
        BY <1>1, <2>1, <3>1, <3>2, PrefixStays
      <3>4. history[k].evaluations <= Len(candidates')
        BY <2>1, <3>1, <3>2
      <3>5. history[k].volume
              = Cardinality(Cells(Vectors(SubSeq(candidates, 1, history[k].evaluations))))
        BY <2>2
      <3>6. history[k].volume
              = Cardinality(Cells(Vectors(SubSeq(candidates', 1, history[k].evaluations))))
        BY ONLY <3>3, <3>5
      <3> QED
        BY <3>4, <3>6
    <2> HIDE DEF Told
    <2>4. CASE ~Harness
      <3>1. history' = history
        BY <1>3, <2>4 DEF Evaluate
      <3>2. \A k \in 1..Len(history') : Told(k, history', candidates')
        BY <2>3, <3>1
      <3> QED
        BY <2>2, <3>1, <3>2 DEF Recorded, Told, Vectors
    <2>5. CASE Harness
      <3> DEFINE e == Record(candidates')
      <3>1. history' = Append(history, e)
        BY <1>3, <2>5 DEF Evaluate
      <3>2. /\ e \in Records /\ e.evaluations = Len(candidates')
            /\ e.volume = Cardinality(Cells(Vectors(SubSeq(candidates', 1, Len(candidates')))))
        BY <2>1, RecordIs
      <3> HIDE DEF e
      <3>3. /\ history' \in Seq(Records) /\ Len(history') = n + 1 /\ n \in Nat
            /\ \A k \in 1..n : history'[k] = history[k]
            /\ history'[n + 1] = e
        BY <2>2, <3>1, <3>2, AppendProperties, LenProperties
      <3>4. ASSUME NEW k \in 1..Len(history')
            PROVE  Told(k, history', candidates')
        <4>1. CASE k \in 1..n
          BY <2>3, <3>3, <4>1 DEF Told
        <4>2. CASE k = n + 1
          <5>1. history'[k] = e /\ Len(candidates') \in Nat
            BY <2>1, <3>3, <4>2
          <5> QED
            BY <3>2, <5>1 DEF Told
        <4> QED
          BY <3>3, <4>1, <4>2
      <3> QED
        BY <3>3, <3>4 DEF Recorded, Told, Vectors
    <2> QED
      BY <2>4, <2>5
  <1> QED
    BY <1>2, <1>3 DEF Next

(* With two objectives, the hypervolume that the harness records is the      *)
(* number of unit cells that its archive dominated at the time.              *)
THEOREM VolumeCounts ==
    ASSUME AxesAssumption
    PROVE  Spec => []VolumeIsCells
  <1>1. Init => Inv /\ Recorded
    BY StopBegins, RecordedBegins
  <1>2. Inv /\ Recorded /\ [Next]_vars => (Inv /\ Recorded)'
    BY StopPreserved, RecordedPreserved
  <1>3. Recorded => VolumeIsCells
    <2> SUFFICES ASSUME Recorded PROVE VolumeIsCells
      OBVIOUS
    <2>1. DOMAIN history = 1..Len(history)
      BY LenProperties DEF Recorded
    <2> QED
      BY <2>1 DEF Recorded, VolumeIsCells
  <1> QED
    BY <1>1, <1>2, <1>3, PTL DEF Spec
=============================================================================
