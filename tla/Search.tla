------------------------------- MODULE Search -------------------------------
(***************************************************************************)
(* The optimizer service at work: an engine (UnifiedOptimizer, or one of   *)
(* the other two backends) proposes batches of candidates, its driver      *)
(* evaluates them and feeds the outcomes back, until the stopping rules    *)
(* (the driver "loop") or the budget of evaluations (the "harness") end    *)
(* the search.  A candidate is a point of the box; what the surrogate, the *)
(* crossover and the mutation propose is any point of the box, since each  *)
(* of them is clipped to it.  wall_time_seconds is left out, infinite by   *)
(* default, and so is the confidence, which no caller passes.              *)
(***************************************************************************)
EXTENDS Pareto, SearchConstraints

CONSTANTS
    Box,             \* the points of the search box
    Objectives,      \* names; Primary is the first of them
    Primary,
    Second,          \* the other axis of a two-dimensional hypervolume
    Settings,        \* what a search may be started with
    Cost,            \* of an evaluation, by fidelity
    Budget,          \* of the bandit
    BatchSize,
    PopulationSize,
    Weights,         \* the draws of the scalarisation
    EvalBudget,      \* of the harness
    Reference        \* the point that hypervolume is measured from

Fidelities == {"cheap", "mid", "high"}

(* A search has finitely many constraints, and the harness makes none.      *)
ASSUME SettingsAssumption ==
    \A s \in Settings :
      /\ s.driver \in {"loop", "harness"}
      /\ s.engine \in {"hybrid", "bayesian", "evolutionary"}
      /\ {s.limits.minimum, s.limits.iterations, s.limits.evaluations} \subseteq Nat
      /\ \A f \in Fidelities : \A p \in Box : \A n \in DOMAIN s.outcome[f][p] :
            s.outcome[f][p][n] \in Int
      /\ IsFiniteSet(s.constraints)
      /\ \A c \in s.constraints : IsConstraint(c)
      /\ s.driver = "harness" => s.constraints = {}

ASSUME SearchAssumption ==
    /\ Box \subseteq Int
    /\ {Primary, Second} \subseteq Objectives /\ IsFiniteSet(Objectives)
    /\ Cost \in [Fidelities -> Nat \ {0}]
    /\ Budget \in Nat /\ EvalBudget \in Nat \ {0}
    /\ BatchSize \in Nat \ {0}
    /\ PopulationSize \in Nat /\ PopulationSize >= 2
    /\ Weights \subseteq [Objectives -> Nat]
    /\ Reference \in [Objectives -> Int]

VARIABLES
    setting,     \* engine, driver, up, constraints, outcome, reports, limits
    pc,          \* "propose", "evaluate" or "done"
    batch,       \* the points proposed last, and their fidelity
    candidates,  \* UnifiedOptimizer.candidates, or the archive of a backend
    population,  \* the evaluated individuals: their latest objectives
    surrogate,   \* y_observed and best_score of the BayesianOptimizer
    frontier,    \* UnifiedOptimizer.pareto_frontier, as candidate numbers
    purse,       \* MultiFidelityBandit.remaining_budget
    rules,       \* StoppingState
    iteration,   \* of the optimizer or backend
    history      \* IterationRecords of the harness

vars == <<setting, pc, batch, candidates, population, surrogate, frontier,
          purse, rules, iteration, history>>

Harness  == setting.driver = "harness"
Unified  == setting.driver = "loop" \/ setting.engine = "hybrid"

(* HybridBackend makes every fidelity cost 1 of an unbounded budget. *)
Plenty    == 1000
Price(f)  == IF Harness THEN 1 ELSE Cost[f]
Allowance == IF Harness THEN Plenty ELSE Budget

NoRules == [iteration |-> 0, evaluations |-> 0, spent |-> 0, best |-> <<>>, reason |-> "none"]
Blank   == [values |-> <<>>, best |-> {}]

Init ==
    /\ setting \in Settings
    /\ pc = "propose"
    /\ batch = [points |-> <<>>, fidelity |-> "cheap"]
    /\ candidates = <<>>
    /\ population = << >>
    /\ surrogate = Blank
    /\ frontier = {}
    /\ purse = Allowance
    /\ rules = NoRules
    /\ iteration = 0
    /\ history = <<>>

-----------------------------------------------------------------------------
(* MultiFidelityBandit.select_fidelity, and what its caller tells it of the *)
(* evaluations that remain: what was spent so far.  Thompson sampling may   *)
(* choose any fidelity that the purse can pay.                              *)
Affordable == {f \in Fidelities : Price(f) <= purse}

BanditChoices(remaining) ==
    IF remaining <= 5 THEN {"high"}
    ELSE IF Affordable = {} THEN {"cheap"}
    ELSE IF "high" \notin Affordable THEN
           {f \in Affordable : \A g \in Affordable : Price(g) <= Price(f)}
    ELSE Affordable

FidelityChoices ==
    IF iteration < 3 THEN {"cheap"}
    ELSE BanditChoices((Allowance - purse) \div Price("cheap"))

(* The Gaussian process minimises its acquisition function within the box;  *)
(* random individuals, crossover and mutation stay within it too.           *)
Acquired  == Box
Offspring == Box

(* What an engine asks of its two parts; a generation may be smaller.       *)
Generation ==
    LET half == PopulationSize \div 2
    IN  IF Cardinality(DOMAIN population) < 4 THEN half ELSE 2 * ((half + 1) \div 2)

BayesianShare(n) ==
    CASE setting.engine = "bayesian" -> n
      [] setting.engine = "hybrid"   -> n \div 2
      [] OTHER                       -> 0

GeneticShare(n) ==
    IF setting.engine = "bayesian" THEN 0 ELSE Min({n - BayesianShare(n), Generation})

Raw(n) ==
    UNION {{acquired \o offspring : offspring \in TupleOf(Offspring, GeneticShare(n))} :
              acquired \in TupleOf(Acquired, BayesianShare(n))}

Feasible(p) == AllSatisfied(setting.constraints, p, Unmeasured)

Kept(raw) == Picked(raw, {i \in DOMAIN raw : Feasible(raw[i])})

FillsFull(room) == TupleOf({p \in Box : Feasible(p)}, room)   \* variant: tries on and on

(* 3 * n random tries fill the batch up; they may all be infeasible, unless *)
(* every point is feasible.                                                 *)
Fills(room) ==
    {fill \in BoundedSeq({p \in Box : Feasible(p)}, room) :
        Len(fill) = room \/ \E p \in Box : ~Feasible(p)}

UnifiedBatches(n) ==
    UNION {{Kept(raw) \o fill : fill \in Fills(n - Len(Kept(raw)))} :
              raw \in Raw(n)}

(* The other backends know no constraints.  The evolutionary one begins     *)
(* with its initial population, then evolves until the batch is full.       *)
BackendBatches(n) ==
    IF setting.engine = "bayesian" THEN TupleOf(Acquired, n)
    ELSE IF iteration = 0 THEN TupleOf(Offspring, Min({n, PopulationSize}))
    ELSE TupleOf(Offspring, n)

-----------------------------------------------------------------------------
(* BayesianOptimizer.observe, of one score after another *)
Extreme(S, maximise) == IF S = {} THEN {} ELSE {IF maximise THEN Max(S) ELSE Min(S)}

ObservedAll(s, ys, maximise) ==
    [values |-> s.values \o ys, best |-> Extreme(s.best \cup Range(ys), maximise)]

(* BayesianBackend._scalarise, times 20: the augmented Chebyshev value of    *)
(* every row, each objective normalised to 0..Unit and weighted.            *)
Sign(n) == IF n \in setting.up THEN -1 ELSE 1

Normalised(rows, n, i) ==
    LET column == {Sign(n) * rows[k].objectives[n] : k \in DOMAIN rows}
        spread == Max(column) - Min(column)
    IN  IF spread = 0 THEN 0
        ELSE ((Sign(n) * rows[i].objectives[n] - Min(column)) * Unit) \div spread

Scalarised(rows, w) ==
    [i \in DOMAIN rows |->
        LET weighted == [n \in Objectives |-> w[n] * Normalised(rows, n, i)]
        IN  20 * Max(Range(weighted)) + SumOf(weighted)]

(* What proposing does to the surrogate of the Bayesian backend: it draws    *)
(* weights and trains a new one on its archive.  (Every benchmark problem    *)
(* has several objectives.)                                                  *)
Retrains == ~Unified /\ setting.engine = "bayesian"

RetrainedFurther ==    \* variant: the surrogate of the last weights is trained on
    {ObservedAll(surrogate, Scalarised(candidates, w), FALSE) : w \in Weights}

Retrained == {ObservedAll(Blank, Scalarised(candidates, w), FALSE) : w \in Weights}

Proposed(points, fidelity) ==
    /\ batch' = [points |-> points, fidelity |-> fidelity]
    /\ UNCHANGED <<setting, candidates, population, frontier, purse, rules, iteration, history>>

(* One round of a driver's loop; of the harness, the batch that its budget  *)
(* still has room for, and the end if it comes empty.                       *)
LoopProposes ==
    /\ pc = "propose" /\ ~Harness
    /\ \E points \in UnifiedBatches(BatchSize), f \in FidelityChoices : Proposed(points, f)
    /\ pc' = "evaluate"
    /\ UNCHANGED surrogate

Room == Min({BatchSize, EvalBudget - Len(candidates)})

HarnessProposes ==
    /\ pc = "propose" /\ Harness
    /\ \E points \in IF Unified THEN UnifiedBatches(Room) ELSE BackendBatches(Room) :
          /\ Proposed(points, "cheap")
          /\ pc' = IF points = <<>> THEN "done" ELSE "evaluate"
    /\ IF Retrains /\ candidates # <<>> THEN surrogate' \in Retrained ELSE UNCHANGED surrogate

-----------------------------------------------------------------------------
(* Evaluating a batch: the fidelity that the driver reports, "cheap" if it  *)
(* does not say, and the objectives that the optimizer reads off.           *)
Fidelity == IF setting.reports THEN batch.fidelity ELSE "cheap"

Extracted(metrics) == [n \in Objectives |-> Measured(metrics, n)]

Scores(p) ==
    LET metrics == setting.outcome[Fidelity][p]
    IN  Penalised(setting.constraints, p, Extracted(metrics), metrics)

Evaluated ==
    [i \in DOMAIN batch.points |->
        [point |-> batch.points[i], fidelity |-> Fidelity, objectives |-> Scores(batch.points[i])]]

Known(rows) == Range([i \in DOMAIN rows |-> rows[i].point])

Latest(rows) ==
    [p \in DOMAIN population \cup Known(rows) |->
        IF p \in Known(rows) THEN Scores(p) ELSE population[p]]

(* _update_pareto_frontier: the first candidate of every point in the front. *)
Frontier(rows, pop) ==
    {Min({i \in DOMAIN rows : rows[i].point = p}) : p \in FirstFront(setting.up, pop)}

Primaries(rows) == [i \in DOMAIN rows |-> rows[i].objectives[Primary]]

BestMaximised(rows) == Extreme(Range(Primaries(rows)), TRUE)     \* variant

Best(rows) == Extreme(Range(Primaries(rows)), Primary \in setting.up)

-----------------------------------------------------------------------------
(* StoppingRules.check, on the state that update leaves: the first rule that *)
(* holds, none of them before min_iterations.  HybridBackend sets all        *)
(* limits out of reach.                                                      *)
LastOf(best, n) == SubSeq(best, Len(best) - n + 1, Len(best))

Plateau(best) ==
    /\ Len(best) >= setting.limits.window
    /\ LET last == Range(LastOf(best, setting.limits.window))
       IN  Max(last) - Min(last) < setting.limits.threshold

Converged(best) ==
    /\ Len(best) >= 3
    /\ LET last == LastOf(best, 3)
       IN  \A i \in {1, 2} : Max({last[i] - last[i + 1], last[i + 1] - last[i]}) < setting.limits.tolerance

CheckedLate(s) ==      \* variant: stops when a limit is passed, not reached
    IF Harness \/ s.iteration < setting.limits.minimum THEN "none"
    ELSE IF s.spent > setting.limits.spend THEN "budget_exhausted"
    ELSE IF s.iteration > setting.limits.iterations THEN "max_iterations"
    ELSE IF s.evaluations > setting.limits.evaluations THEN "max_evaluations"
    ELSE "none"

Check(s) ==
    IF Harness \/ s.iteration < setting.limits.minimum THEN "none"
    ELSE IF s.spent >= setting.limits.spend THEN "budget_exhausted"
    ELSE IF s.iteration >= setting.limits.iterations THEN "max_iterations"
    ELSE IF s.evaluations >= setting.limits.evaluations THEN "max_evaluations"
    ELSE IF Plateau(s.best) THEN "plateau"
    ELSE IF Converged(s.best) THEN "convergence"
    ELSE "none"

Updated(rows, all) ==
    [rules EXCEPT !.iteration   = @ + 1,
                  !.evaluations = @ + Len(rows),
                  !.spent       = @ + Len(rows) * Price(Fidelity),
                  !.best        = @ \o SetToSeq(Best(all))]

Ruled(s) == [s EXCEPT !.reason = IF Check(s) = "none" THEN @ ELSE Check(s)]

(* The books of a UnifiedOptimizer, of a BayesianBackend and of an          *)
(* EvolutionaryBackend after a batch.                                       *)
UnifiedUpdates(rows, all) ==
    /\ population' = Latest(rows)
    /\ surrogate' = ObservedAll(surrogate, Primaries(rows), Primary \in setting.up)
    /\ frontier' = Frontier(all, population')
    /\ purse' = purse - Len(rows) * Price(Fidelity)
    /\ rules' = Ruled(Updated(rows, all))

BackendUpdates(rows) ==
    /\ population' = IF setting.engine = "evolutionary" THEN Latest(rows) ELSE population
    /\ UNCHANGED <<surrogate, frontier, purse, rules>>

Vectors(rows) == [i \in DOMAIN rows |-> rows[i].objectives]

Record(all) ==
    LET front == NonDominated(Vectors(all))
    IN  [evaluations |-> Len(all), size |-> Len(front),
         volume |-> Hypervolume(front, Primary, Second, Reference)]

Evaluate ==
    /\ pc = "evaluate"
    /\ candidates' = candidates \o Evaluated
    /\ LET rows == SubSeq(candidates', Len(candidates) + 1, Len(candidates'))
       IN  IF Unified THEN UnifiedUpdates(rows, candidates') ELSE BackendUpdates(rows)
    /\ iteration' = iteration + 1
    /\ IF Harness THEN /\ history' = Append(history, Record(candidates'))
                       /\ pc' = IF Len(candidates') < EvalBudget THEN "propose" ELSE "done"
                  ELSE /\ pc' = IF Check(rules') = "none" THEN "propose" ELSE "done"
                       /\ UNCHANGED history
    /\ UNCHANGED <<setting, batch>>

Next == LoopProposes \/ HarnessProposes \/ Evaluate

(* The next step of the driver, as what changes pc: a step is possible iff   *)
(* the search goes on and, in a loop, the optimizer comes up with a batch.   *)
BatchComes == \E raw \in Raw(BatchSize) : Fills(BatchSize - Len(Kept(raw))) # {}

Goes ==
    /\ pc # "done"
    /\ pc = "propose" /\ ~Harness => BatchComes
    /\ \E step \in {"propose", "evaluate", "done"} \ {pc} : pc' = step

Spec == Init /\ [][Next]_vars /\ WF_pc(Goes)

-----------------------------------------------------------------------------

(* A search stops for the reason that it gives (stopping.py check), and in   *)
(* time: from min_iterations on, though never before its first batch, at the *)
(* first round after which any of the reasons holds.  It overruns iterations *)
(* and evaluations by no more than the batches before min_iterations and the *)
(* batch in hand.  The harness ends with all its budget spent and no more    *)
(* (harness.py: strategies are compared at equal budgets).                   *)
Reached(reason) ==
    \/ reason = "budget_exhausted" /\ rules.spent >= setting.limits.spend
    \/ reason = "max_iterations"   /\ rules.iteration >= setting.limits.iterations
    \/ reason = "max_evaluations"  /\ rules.evaluations >= setting.limits.evaluations
    \/ reason = "plateau"          /\ Plateau(rules.best)
    \/ reason = "convergence"      /\ Converged(rules.best)

StopIsHonest ==
    /\ rules.reason # "none" => Reached(rules.reason)
    /\ ~Harness =>
         /\ pc = "done" <=> rules.reason # "none"
         /\ pc # "done" /\ rules.iteration >= Max({setting.limits.minimum, 1}) =>
               \A reason \in {"budget_exhausted", "max_iterations", "max_evaluations",
                              "plateau", "convergence"} : ~Reached(reason)
         /\ rules.iteration <= Max({setting.limits.iterations, setting.limits.minimum, 1})
         /\ rules.evaluations < BatchSize
              + Max({setting.limits.evaluations, BatchSize * (setting.limits.minimum - 1) + 1, 1})
    /\ Harness =>
         /\ Len(candidates) <= EvalBudget
         /\ pc = "done" => Len(candidates) = EvalBudget

(* The bandit, the stopping rules, the surrogate and the list of candidates  *)
(* keep books of their own of the same evaluations; they agree on how many   *)
(* there were, what they cost and which was the best (optimizer.py update).  *)
BooksAgree ==
    Unified =>
      /\ rules.evaluations = Len(candidates)
      /\ rules.spent = Allowance - purse
      /\ rules.spent = SumOf([i \in DOMAIN candidates |-> Price(candidates[i].fidelity)])
      /\ surrogate.values = Primaries(candidates)
      /\ \A y \in surrogate.best : \A i \in DOMAIN candidates :
            LET other == candidates[i].objectives[Primary]
            IN  IF Primary \in setting.up THEN other <= y ELSE other >= y
      /\ candidates # <<>> => surrogate.best = {Last(rules.best)}

(* The Bayesian backend proposes by a surrogate of all it has evaluated,     *)
(* made anew for every draw of weights ("always consistent with the          *)
(* scalarisation it was trained on", BayesianBackend): it has one value for  *)
(* each evaluation, not better than that of another which is nowhere worse,  *)
(* and its best is the best of them and not of an earlier draw.              *)
NowhereWorse(a, b) == \A n \in Objectives : IF n \in setting.up THEN a[n] >= b[n]
                                                                ELSE a[n] <= b[n]

SurrogateRanks ==
    Retrains /\ pc = "evaluate" /\ candidates # <<>> =>
      LET values == surrogate.values
      IN  /\ Len(values) = Len(candidates)
          /\ \A i, j \in DOMAIN candidates :
                NowhereWorse(candidates[i].objectives, candidates[j].objectives) =>
                    values[i] <= values[j]
          /\ \E i \in DOMAIN values : /\ surrogate.best = {values[i]}
                                      /\ \A j \in DOMAIN values : values[i] <= values[j]

(* The frontier holds one candidate of every point that no evaluated point   *)
(* dominates, and no other point; and evolution never passes over a point    *)
(* for a parent that it dominates (_non_dominated_sort, evolve).             *)
Undominated == {p \in DOMAIN population :
                  ~ \E q \in DOMAIN population :
                       /\ \A n \in Objectives : IF n \in setting.up
                             THEN population[q][n] >= population[p][n]
                             ELSE population[q][n] <= population[p][n]
                       /\ population[q] # population[p]}

SelectionIsPareto ==
    /\ Unified => {candidates[i].point : i \in frontier} = Undominated
    /\ LET parents == Parents(setting.up, population, PopulationSize)
       IN  /\ Cardinality(parents) = Min({PopulationSize, Cardinality(DOMAIN population)})
           /\ \A p \in parents, q \in DOMAIN population \ parents :
                 ~Dominates(setting.up, population[q], population[p])

(* The hypervolume that the harness records is the measure of what its       *)
(* archive dominated at the time, counted in unit cells up to the reference  *)
(* (metrics.py _hypervolume_2d), however the archive grew.                   *)
Beyond(r) == (r[Primary]..Reference[Primary] - 1) \X (r[Second]..Reference[Second] - 1)

Cells(rows) == UNION {Beyond(rows[i]) : i \in DOMAIN rows}

VolumeIsCells ==
    \A k \in DOMAIN history :
        history[k].volume
          = Cardinality(Cells(Vectors(SubSeq(candidates, 1, history[k].evaluations))))

(* Every search ends: by its limits, also when its constraints reject every  *)
(* proposal, or by the budget of the harness.  Weak fairness: the driver is  *)
(* a loop that goes on.                                                      *)
SearchEnds == <>(pc = "done")
=============================================================================
