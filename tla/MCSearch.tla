------------------------------ MODULE MCSearch ------------------------------
(* Model checking of Search: a box of four points, two objectives.         *)
EXTENDS Search

V(a, b) == [n \in {"f1", "f2"} |-> IF n = "f1" THEN a ELSE b]

(* outcome[fidelity][point]: cheap simulations are biased, or do not measure*)
(* f2 at all.                                                               *)
Biased == [f \in Fidelities |-> CASE f = "cheap" -> <<V(0, 3), V(1, 2), V(1, 2), V(3, 0)>>
                                  [] f = "mid"   -> <<V(0, 3), V(1, 1), V(1, 2), V(3, 0)>>
                                  [] OTHER       -> <<V(2, 2), V(1, 1), V(2, 0), V(3, 1)>>]
Partial == [f \in Fidelities |->
              IF f = "cheap" THEN [p \in 1..4 |-> [n \in {"f1"} |-> p]]
              ELSE <<V(0, 3), V(1, 1), V(1, 1), V(2, 0)>>]

Tight == [minimum |-> 2, spend |-> 7, iterations |-> 4, evaluations |-> 5,
          window |-> 9, threshold |-> 1, tolerance |-> 1]
Poor  == [Tight EXCEPT !.spend = 9, !.evaluations = 99]
Slack == [minimum |-> 4, spend |-> 99, iterations |-> 5, evaluations |-> 99,
          window |-> 4, threshold |-> 2, tolerance |-> 1]

Loop(engine, constraints, outcome, reports, limits) ==
    [driver |-> "loop", engine |-> engine, up |-> {"f1"}, constraints |-> constraints,
     outcome |-> outcome, reports |-> reports, limits |-> limits]
Bench(engine) ==
    [driver |-> "harness", engine |-> engine, up |-> {}, constraints |-> {},
     outcome |-> Biased, reports |-> FALSE, limits |-> Slack]

Hard(rejected) == [kind |-> "rejects", type |-> "hard", weight |-> 1, rejects |-> rejected]

MCSettings ==
    {Bench(e) : e \in {"hybrid", "evolutionary", "bayesian"}}
      \cup {Loop("hybrid", {}, Biased, TRUE, Tight),
            Loop("bayesian", {Hard({1, 2})}, Biased, TRUE, Poor),
            Loop("bayesian", {Hard({1}), BoundsConstraint({2}, {})}, Biased, FALSE, Tight),
            Loop("evolutionary", {MetricThreshold("f2", {}, {1}, "soft")}, Partial, TRUE, Tight),
            Loop("hybrid", {MetricThreshold("f1", {1}, {}, "hard")}, Partial, FALSE, Tight),
            Loop("hybrid", {Hard({1})}, Partial, TRUE, Slack)}

MCCost == [f \in Fidelities |-> CASE f = "cheap" -> 1 [] f = "mid" -> 2 [] OTHER -> 5]
MCWeights == {V(1, 0), V(1, 2)}
MCReference == V(4, 3)
=============================================================================
