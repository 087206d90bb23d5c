-------------------------- MODULE SearchConstraints --------------------------
(***************************************************************************)
(* Constraints on a candidate: on its lever (kind "bounds"), on a metric   *)
(* of its outcome ("metric") or a set of levers that a caller's function   *)
(* rejects ("rejects").  Metrics are a function from names to numbers; a   *)
(* candidate that was not evaluated has none.                              *)
(***************************************************************************)
EXTENDS Orders

IsConstraint(c) ==
    /\ c.kind \in {"bounds", "metric", "rejects"} /\ c.type \in {"hard", "soft"}
    /\ c.weight \in Int
    /\ c.kind # "rejects" => /\ c.low \cup c.high \subseteq Int
                            /\ IsFiniteSet(c.low) /\ IsFiniteSet(c.high)

Unmeasured == [n \in {} |-> 0]

(* metrics.get(name, 0).  Metrics that come as a list of names and values,   *)
(* where one that is missing breaks no constraint (constraints.py 202-209),  *)
(* are left out.                                                             *)
Measured(metrics, n) == IF n \in DOMAIN metrics THEN metrics[n] ELSE 0

(* low and high are sets of at most one bound. *)
Shortfall(c, v) == SumOf([b \in c.low |-> IF v < b THEN b - v ELSE 0])
Excess(c, v)    == SumOf([b \in c.high |-> IF v > b THEN v - b ELSE 0])

Subject(c, lever, metrics) ==
    IF c.kind = "metric" THEN Measured(metrics, c.metric) ELSE lever

Satisfied(c, lever, metrics) ==
    IF c.kind = "rejects" THEN lever \notin c.rejects
    ELSE Shortfall(c, Subject(c, lever, metrics)) + Excess(c, Subject(c, lever, metrics)) = 0

(* Only an unsatisfied soft constraint has a penalty: the violation, or 1   *)
(* for a function of the caller's; times the weight.                        *)
Penalty(c, lever, metrics) ==
    LET v == Subject(c, lever, metrics)
    IN  IF c.type = "hard" \/ Satisfied(c, lever, metrics) THEN 0
        ELSE IF c.kind = "rejects" THEN c.weight
        ELSE (Shortfall(c, v) + Excess(c, v)) * c.weight

(* ConstraintHandler.evaluate, all_satisfied and total_penalty. *)
HardViolations(constraints, lever, metrics) ==
    {c \in constraints : c.type = "hard" /\ ~Satisfied(c, lever, metrics)}

AllSatisfied(constraints, lever, metrics) == HardViolations(constraints, lever, metrics) = {}

TotalPenalty(constraints, lever, metrics) ==
    SumOf([c \in constraints |-> Penalty(c, lever, metrics)])

(* apply_penalties: off every objective, whether minimised or maximised. *)
Penalised(constraints, lever, objectives, metrics) ==
    LET penalty == TotalPenalty(constraints, lever, metrics)
    IN  IF penalty = 0 THEN objectives
        ELSE [n \in DOMAIN objectives |-> objectives[n] - penalty]

BoundsConstraint(low, high) ==
    [kind |-> "bounds", type |-> "soft", weight |-> 1, low |-> low, high |-> high]

MetricThreshold(metric, low, high, type) ==
    [kind |-> "metric", type |-> type, weight |-> 1, metric |-> metric, low |-> low, high |-> high]
=============================================================================
