----------------------------- MODULE RunScoring -----------------------------
(***************************************************************************)
(* How a run scores, ranks and sums up the outcomes of its simulations.    *)
(* An outcome is a record with the scenario it belongs to, its status      *)
(* (completed, cached or failed) and its metrics, a function from names to *)
(* numbers.                                                                *)
(***************************************************************************)
EXTENDS Orders

Mute == [n \in {} |-> 0]     \* no metrics, no weights

-----------------------------------------------------------------------------
(* The weights of the rubric, else of the objectives (signed by their       *)
(* direction), else 1 for each metric of the first outcome that has any.    *)
Signed(objective) ==
    IF objective.direction = "minimize" THEN -objective.weight ELSE objective.weight

Judged(outcome) == outcome.status \in {"completed", "cached"}

Weights(rubric, objectives, outcomes) ==
    LET measured == {i \in DOMAIN outcomes :
                        Judged(outcomes[i]) /\ DOMAIN outcomes[i].metrics # {}}
    IN  IF DOMAIN rubric # {} THEN rubric
        ELSE IF DOMAIN objectives # {} THEN [n \in DOMAIN objectives |-> Signed(objectives[n])]
        ELSE IF measured # {} THEN [n \in DOMAIN outcomes[Min(measured)].metrics |-> 1]
        ELSE Mute

Measure(metrics, n) == IF n \in DOMAIN metrics THEN metrics[n] ELSE 0

Score(weights, metrics) ==
    SumOf([n \in DOMAIN weights |-> weights[n] * Measure(metrics, n)])

(* judge_score_outcomes.  A failed outcome has no score; a cached one does  *)
(* not say what its scenario was (given).                                   *)
JudgeScoreOutcomes(rubric, objectives, outcomes) ==
    LET weights == Weights(rubric, objectives, outcomes)
        Judge(o) ==
            IF Judged(o)
              THEN [s |-> o.s, status |-> "scored", score |-> Score(weights, o.metrics),
                    metrics |-> o.metrics, given |-> o.status = "completed"]
              ELSE [s |-> o.s, status |-> "failed", score |-> 0,
                    metrics |-> Mute, given |-> FALSE]
    IN  [i \in DOMAIN outcomes |-> Judge(outcomes[i])]

Scored(rows) == Picked(rows, {i \in DOMAIN rows : rows[i].status = "scored"})

-----------------------------------------------------------------------------
(* sorted(..., reverse = True): best first, and equals in their old order.  *)
Before(rows, i, j) == \/ rows[i].score > rows[j].score
                      \/ rows[i].score = rows[j].score /\ i < j

Ranked(rows) ==
    LET order == Ordered([i \in DOMAIN rows |-> {j \in DOMAIN rows : Before(rows, j, i)}])
    IN  [k \in DOMAIN order |-> rows[order[k]]]

Top(rows, count) == SubSeq(rows, 1, Min({count, Len(rows)}))

(* aggregate_results. *)
Optional(S, x) == IF S = {} THEN {} ELSE {x}

BestScore(rows) == LET scores == {rows[i].score : i \in DOMAIN rows}
                   IN  Optional(scores, Max(scores))

Summary(allScored, rows) ==
    LET best == {i \in DOMAIN rows : rows[i].score \in BestScore(rows)}
    IN  [total        |-> Len(allScored),
         completed    |-> Len(rows),
         failed       |-> Len(allScored) - Len(rows),
         best         |-> BestScore(rows),
         bestScenario |-> Optional(best, rows[Min(best)].s)]

(* The candidates of persist_run_progress: one row per scenario, its best   *)
(* at the place of its first, and at most TopCount of them.                 *)
TopCount == 20

Place(rows, i) == Min({j \in DOMAIN rows : rows[j].s = rows[i].s})

Bests(rows) ==
    {i \in DOMAIN rows : \A j \in DOMAIN rows : rows[j].s = rows[i].s =>
        \/ rows[j].score < rows[i].score
        \/ rows[j].score = rows[i].score /\ j >= i}

(* level_for: fifths of the way from the best rank (1) to the worst (n). *)
Level(i, n) ==
    LET frac == 5 * (i - 1)
    IN  IF n <= 1 THEN "good"
        ELSE IF frac <= n - 1 THEN "excellent"
        ELSE IF frac <= 2 * (n - 1) THEN "very_good"
        ELSE IF frac <= 3 * (n - 1) THEN "good"
        ELSE IF frac <= 4 * (n - 1) THEN "acceptable"
        ELSE "unacceptable"

(* Variant: sorted upwards and then reversed, ties with it. *)
CandidatesReversed(rows) ==
    LET bests == Bests(rows)
        After(i, j) == \/ rows[i].score > rows[j].score
                       \/ rows[i].score = rows[j].score /\ Place(rows, i) > Place(rows, j)
        order == Ordered([i \in bests |-> {j \in bests : After(j, i)}])
    IN  [k \in 1..Min({TopCount, Cardinality(bests)}) |->
            LET row == rows[order[k]]
            IN  [s |-> row.s, score |-> row.score, level |-> Level(k, Cardinality(bests))]]

Candidates(rows) ==
    LET bests == Bests(rows)
        Sooner(i, j) == \/ rows[i].score > rows[j].score
                        \/ rows[i].score = rows[j].score /\ Place(rows, i) < Place(rows, j)
        order == Ordered([i \in bests |-> {j \in bests : Sooner(j, i)}])
    IN  [k \in 1..Min({TopCount, Cardinality(bests)}) |->
            LET row == rows[order[k]]
            IN  [s |-> row.s, score |-> row.score, level |-> Level(k, Cardinality(bests))]]
=============================================================================
