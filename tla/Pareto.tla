------------------------------- MODULE Pareto -------------------------------
(***************************************************************************)
(* Pareto order, NSGA-II selection and the measures of the benchmark       *)
(* harness.  An objective vector is a function from the objectives' names  *)
(* to integers; up is the set of the objectives that are maximised.        *)
(***************************************************************************)
EXTENDS Orders

Unit == 12       \* a crowding distance of 1; the ranges of values divide it

(* _dominates, or weakly_better & strictly_better when all are minimised.   *)
NotWorse(up, a, b) ==
    \A n \in DOMAIN a : IF n \in up THEN a[n] >= b[n] ELSE a[n] <= b[n]

DominatesWeakly(up, a, b) == NotWorse(up, a, b)      \* variant: equals too

Dominates(up, a, b) == NotWorse(up, a, b) /\ \E n \in DOMAIN a : a[n] # b[n]

(* _non_dominated_sort of a population, a function from points to vectors:  *)
(* a point whose last dominator went into front k goes into front k + 1.    *)
Dominators(up, pop, p) == {q \in DOMAIN pop : Dominates(up, pop[q], pop[p])}

Fronts(up, pop) ==
    LET n == Cardinality(DOMAIN pop)
        above == [p \in DOMAIN pop |-> Dominators(up, pop, p)]
        placed[k \in 0..n] ==
            IF k = 0 THEN {} ELSE {p \in DOMAIN pop : above[p] \subseteq placed[k - 1]}
    IN  [k \in 1..n |-> placed[k] \ placed[k - 1]]

FirstFront(up, pop) == IF DOMAIN pop = {} THEN {} ELSE Fronts(up, pop)[1]

(* _crowding_distance: the ends of the front in any objective are infinitely*)
(* far apart, the others as far as their neighbours.  Ties fall by point.   *)
Infinite == 1000 * Unit

Sorted(pop, front, n) == RankedBy([p \in front |-> {q \in front : pop[q][n] < pop[p][n]}])

Gap(pop, front, n, p) ==
    LET line  == Sorted(pop, front, n)
        width == pop[Last(line)][n] - pop[Head(line)][n]
        at    == CHOOSE i \in DOMAIN line : line[i] = p
    IN  IF at \in {1, Len(line)} THEN Infinite
        ELSE IF width = 0 THEN 0
        ELSE ((pop[line[at + 1]][n] - pop[line[at - 1]][n]) * Unit) \div width

Crowding(pop, front, p) ==
    IF Cardinality(front) <= 2 THEN Infinite
    ELSE Min({Infinite, SumOf([n \in DOMAIN pop[p] |-> Gap(pop, front, n, p)])})

(* The parents that evolve picks: front by front, the least crowded first,  *)
(* up to the size of the population.                                        *)
Crowd(pop, front) == [p \in front |-> Crowding(pop, front, p)]

LeastCrowded(pop, front, count) ==
    LET crowd == Crowd(pop, front)
        order == RankedBy([p \in front |-> {q \in front : crowd[q] > crowd[p]}])
    IN  {order[i] : i \in 1..Min({count, Cardinality(front)})}

Parents(up, pop, size) ==
    LET fronts == Fronts(up, pop)
        picked[k \in 0..Len(fronts)] ==
            IF k = 0 THEN {}
            ELSE picked[k - 1]
                   \cup LeastCrowded(pop, fronts[k], size - Cardinality(picked[k - 1]))
    IN  picked[Len(fronts)]

-----------------------------------------------------------------------------
(* metrics.non_dominated: the rows of an archive that no kept row dominates;*)
(* of equal rows none dominates the other.                                  *)
Survivors(rows) ==
    LET kept[i \in 0..Len(rows)] ==
          IF i = 0 THEN DOMAIN rows
          ELSE LET before == kept[i - 1]
               IN  IF \E k \in before : Dominates({}, rows[k], rows[i]) THEN before \ {i}
                   ELSE before
    IN  kept[Len(rows)]

NonDominated(rows) == Picked(rows, Survivors(rows))

(* hypervolume of the rows within the reference; _hypervolume_2d, the sweep *)
(* along the first axis of the front.                                       *)
Inside(rows, ref) ==
    Picked(rows, {i \in DOMAIN rows : \A n \in DOMAIN rows[i] : rows[i][n] < ref[n]})

Along(rows, x) ==
    LET order == RankedBy([i \in DOMAIN rows |-> {j \in DOMAIN rows : rows[j][x] < rows[i][x]}])
    IN  [k \in DOMAIN order |-> rows[order[k]]]

Swept(line, x, y, ref) ==
    LET state[k \in 0..Len(line)] ==
          IF k = 0 THEN [volume |-> 0, previous |-> ref[y]]
          ELSE LET before == state[k - 1]
                   r      == line[k]
               IN  IF r[y] >= before.previous THEN before
                   ELSE [volume   |-> before.volume + (ref[x] - r[x]) * (before.previous - r[y]),
                         previous |-> r[y]]
    IN  state[Len(line)].volume

(* Variant: swept from the far end. *)
HypervolumeReversed(rows, x, y, ref) ==
    Swept(Reverse(Along(NonDominated(Inside(rows, ref)), x)), x, y, ref)

Hypervolume(rows, x, y, ref) == Swept(Along(NonDominated(Inside(rows, ref)), x), x, y, ref)
=============================================================================
