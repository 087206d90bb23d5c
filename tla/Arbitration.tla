----------------------------- MODULE Arbitration -----------------------------
(***************************************************************************)
(* How the answers of several experts become one: what a majority assumes, *)
(* which scenarios go on, and whether a stronger model, a finer simulation *)
(* or a human has to look again.  A contract (an expert's answer) is a     *)
(* record with the fields expert, confidence, assumptions, benchmarks,     *)
(* ideas, drivers and flagged.  Confidences, priorities, stakes and scores *)
(* are percentages.                                                        *)
(***************************************************************************)
EXTENDS Orders

(* All that the contracts state, one after the other. *)
Stated(outputs, Part(_)) == FlattenSeq([i \in DOMAIN outputs |-> Part(outputs[i])])

Assumed(outputs)   == Stated(outputs, LAMBDA o : o.assumptions)
Benchmarks(outputs) == Stated(outputs, LAMBDA o : o.benchmarks)

Count(x, said) == Cardinality({i \in DOMAIN said : said[i] = x})

(* int(0.6 * n + 0.5), and at least one *)
RequiredTruncated(outputs) == Max({1, (6 * Len(outputs)) \div 10})
Required(outputs) == Max({1, (6 * Len(outputs) + 5) \div 10})

Consensus(outputs, said) == {x \in ToSet(said) : Count(x, said) >= Required(outputs)}
Conflicts(outputs, said) == ToSet(said) \ Consensus(outputs, said)

(* The disagreement is the share of items that are in conflict. *)
Items(outputs) ==
    Cardinality(ToSet(Assumed(outputs))) + Cardinality(ToSet(Benchmarks(outputs)))
Disputed(outputs) ==
    Cardinality(Conflicts(outputs, Assumed(outputs)))
      + Cardinality(Conflicts(outputs, Benchmarks(outputs)))

-----------------------------------------------------------------------------
(* _merge_scenarios: every scenario once, with the mean of the priorities   *)
(* that it was given, weighted by the confidence of who gave it; best first.*)
Votes(outputs) ==
    Stated(outputs, LAMBDA o : [i \in DOMAIN o.ideas |->
        [id |-> o.ideas[i].id, priority |-> o.ideas[i].priority, by |-> o.confidence]])

Weight(votes, id) ==
    SumOf([i \in DOMAIN votes |-> IF votes[i].id = id THEN votes[i].by ELSE 0])
Total(votes, id) ==
    SumOf([i \in DOMAIN votes |-> IF votes[i].id = id THEN votes[i].priority * votes[i].by ELSE 0])

(* a's mean priority is above b's; without any weight it is 0.              *)
Preferred(votes, a, b) ==
    IF Weight(votes, b) = 0 THEN Total(votes, a) > 0
    ELSE Total(votes, a) * Weight(votes, b) > Total(votes, b) * Weight(votes, a)

(* The ids of some rows, each once, from the best down and equals as they    *)
(* came first; above maps an id to those that rank above it.                *)
Ids(rows) == {rows[i].id : i \in DOMAIN rows}

FirstPlaces(rows) ==
    {i \in DOMAIN rows : \A j \in DOMAIN rows : j < i => rows[j].id # rows[i].id}

Ranking(rows, above) ==
    LET places == FirstPlaces(rows)
        order  == RankedBy([i \in places |-> {j \in places : rows[j].id \in above[rows[i].id]}])
    IN  [p \in DOMAIN order |-> rows[order[p]].id]

PreferredTo(votes) ==
    [id \in Ids(votes) |-> {other \in Ids(votes) : Preferred(votes, other, id)}]

Merged(outputs) == Ranking(Votes(outputs), PreferredTo(Votes(outputs)))

(* The score of an id is the last one given; its place is the first.        *)
ScoreOf(results, id) ==
    results[Max({i \in DOMAIN results : results[i].id = id})].score

ScoredAbove(results) ==
    [id \in Ids(results) |->
        {other \in Ids(results) : ScoreOf(results, other) > ScoreOf(results, id)}]

Standing(results) == Ranking(results, ScoredAbove(results))

(* _tournament_select: the best against the worst, then inwards.            *)
WinnersReversed(results, k) ==
    LET order == Standing(results)
        n     == Len(order)
    IN  [i \in 1..Min({k, (n + 1) \div 2}) |->
            IF ScoreOf(results, order[i]) > ScoreOf(results, order[n + 1 - i])
              THEN order[n + 1 - i] ELSE order[i]]

Winners(results, k) ==
    LET order == Standing(results)
        n     == Len(order)
    IN  [i \in 1..Min({k, (n + 1) \div 2}) |->
            IF ScoreOf(results, order[i]) >= ScoreOf(results, order[n + 1 - i])
              THEN order[i] ELSE order[n + 1 - i]]

Selected(outputs, results, k) ==
    LET candidates == Merged(outputs)
        winners    == Winners(results, k)
    IN  IF results # <<>>
          THEN Picked(winners, {i \in DOMAIN winners : winners[i] \in ToSet(candidates)})
          ELSE SubSeq(candidates, 1, Min({k, Len(candidates)}))

-----------------------------------------------------------------------------
(* compute_top_gap, as a set of at most one number. *)
TopGap(results) ==
    LET best == RankedBy([i \in DOMAIN results |->
                            {j \in DOMAIN results : results[j].score > results[i].score}])
    IN  IF Len(results) < 2 THEN {}
        ELSE {results[best[1]].score - results[best[2]].score}

Confidence(outputs) == SumOf([i \in DOMAIN outputs |-> outputs[i].confidence])

When(condition, action) == IF condition THEN {action} ELSE {}

(* EscalationPolicy.decide.  Disagreement and uncertainty are one number.   *)
Actions(outputs, stakes, results) ==
    When(Items(outputs) > 0 /\ 100 * Disputed(outputs) >= 35 * Items(outputs),
         "upgrade_llm_tier")
      \cup When(Items(outputs) > 0 /\ 2 * Disputed(outputs) >= Items(outputs),
                "upgrade_simulation_fidelity")
      \cup When(\E gap \in TopGap(results) : gap <= 5, "upgrade_simulation_fidelity")
      \cup When(/\ stakes >= 80
                /\ outputs # <<>>
                /\ Confidence(outputs) <= 55 * Len(outputs), "human_review")
      \cup When(\E i \in DOMAIN outputs : outputs[i].flagged, "human_review")
=============================================================================
