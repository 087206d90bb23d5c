---------------------------- MODULE RunLoopProofs ----------------------------
(***************************************************************************)
(* Proofs about the working part of a run, for any batches, packs, budgets *)
(* and numbers of faults: its reason to stop is there and is true (SInv),  *)
(* the ledger has more than one row of an instance only if two attempts at *)
(* an activity have overlapped (LInv), a run ranks by what the ledger says *)
(* (TInv, PInv), everybody agrees on the best (BInv), and a budget is      *)
(* overrun by one batch in the loop (OInv, RInv) and by what the finalists *)
(* make behind it (RInv).                                                  *)
(***************************************************************************)
EXTENDS RunLoop, NumberProofs

-----------------------------------------------------------------------------
(* What the operators of RunScoring return, for any outcomes: a selection is *)
(* what was there, a score is a number, and the first candidate is the best *)
(* row of the summary.                                                      *)
LEMMA ScoredIs ==
    ASSUME NEW S, NEW rows \in Seq(S)
    PROVE  /\ Scored(rows) \in Seq({r \in S : r.status = "scored"})
           /\ Len(Scored(rows)) \in 0..Len(rows)
           /\ ToSet(Scored(rows)) = {r \in ToSet(rows) : r.status = "scored"}
  <1> DEFINE P == {i \in DOMAIN rows : rows[i].status = "scored"}
             T == {r \in S : r.status = "scored"}
  <1>1. Len(rows) \in Nat /\ DOMAIN rows = 1..Len(rows) /\ \A i \in DOMAIN rows : rows[i] \in S
    BY LenProperties, ElementOfSeq
  <1>2. /\ IsFiniteSet(1..Len(rows))
        /\ Cardinality(1..Len(rows)) = IF 1 > Len(rows) THEN 0 ELSE Len(rows) - 1 + 1
    BY <1>1, FS_Interval
  <1>3. P \in SUBSET (1..Len(rows)) /\ P \subseteq Int
    BY <1>1
  <1>4. IsFiniteSet(P) /\ Cardinality(P) <= Len(rows) /\ Cardinality(P) \in Nat
    BY <1>1, <1>2, <1>3, FS_Subset, FS_CardinalityType
  <1>5. \A i \in P : rows[i] \in T
    BY <1>1
  <1>6. Scored(rows) = Picked(rows, P)
    BY DEF Scored
  <1>7. RowsAt(rows, P) = {r \in ToSet(rows) : r.status = "scored"}
    BY DEF ToSet, RowsAt
  <1> HIDE DEF P
  <1>8. /\ Picked(rows, P) \in Seq(T)
        /\ Len(Picked(rows, P)) = Cardinality(P)
        /\ ToSet(Picked(rows, P)) = RowsAt(rows, P)
    <2> HIDE DEF T
    <2> QED
      BY <1>3, <1>4, <1>5, PickedIs
  <1>9. Len(Scored(rows)) \in 0..Len(rows)
    BY <1>1, <1>4, <1>6, <1>8
  <1> QED
    BY <1>6, <1>7, <1>8, <1>9

(* Ranking keeps the rows. *)
LEMMA RankedIs ==
    ASSUME NEW S, NEW rows \in Seq(S), \A r \in S : r.score \in Int
    PROVE  /\ Ranked(rows) \in Seq(S)
           /\ Len(Ranked(rows)) = Len(rows)
  <1> DEFINE ahead == [i \in DOMAIN rows |-> {j \in DOMAIN rows : Before(rows, j, i)}]
             order == Ordered(ahead)
  <1>1. Len(rows) \in Nat /\ DOMAIN rows = 1..Len(rows) /\ \A i \in DOMAIN rows : rows[i] \in S
    BY LenProperties, ElementOfSeq
  <1>2. IsFiniteSet(DOMAIN rows) /\ Cardinality(DOMAIN rows) = Len(rows)
    <2>1. /\ IsFiniteSet(1..Len(rows))
          /\ Cardinality(1..Len(rows)) = IF 1 > Len(rows) THEN 0 ELSE Len(rows) - 1 + 1
      BY <1>1, FS_Interval
    <2> QED
      BY <1>1, <2>1
  <1>3. \A i \in DOMAIN rows : rows[i].score \in Int /\ i \in Int
    BY <1>1
  <1>4. Enumerable(ahead)
    BY <1>2, <1>3 DEF Enumerable, Before
  <1>5. DOMAIN ahead = DOMAIN rows
    OBVIOUS
  <1> HIDE DEF ahead
  <1>6. /\ DOMAIN order = 1..Len(rows)
        /\ \A k \in DOMAIN order : order[k] \in DOMAIN rows
    BY <1>2, <1>4, <1>5, OrderedEnumerates
  <1>7. Ranked(rows) = [k \in DOMAIN order |-> rows[order[k]]]
    BY DEF Ranked, ahead
  <1> HIDE DEF order
  <1>8. Ranked(rows) \in [1..Len(rows) -> S]
    BY <1>1, <1>6, <1>7
  <1> QED
    BY <1>1, <1>8, FunctionIsSeq

-----------------------------------------------------------------------------
(* Scores. *)
(* What a score is: over one metric at most, its weighted measure. *)
LEMMA ScoreIs ==
    ASSUME NEW weights, DOMAIN weights \subseteq {"m"}, \A n \in DOMAIN weights : weights[n] \in Int,
           NEW metrics, \A n \in DOMAIN metrics : metrics[n] \in Int
    PROVE  /\ Score(weights, metrics) \in Int
           /\ Score(weights, metrics) =
                  IF DOMAIN weights = {} THEN 0 ELSE weights["m"] * Measure(metrics, "m")
  <1> DEFINE terms == [n \in DOMAIN weights |-> weights[n] * Measure(metrics, n)]
  <1>1. Score(weights, metrics) = SumOf(terms)
    BY DEF Score
  <1>2. \A n \in DOMAIN weights : Measure(metrics, n) \in Int /\ n = "m"
    BY DEF Measure
  <1>3. DOMAIN terms = DOMAIN weights /\ \A n \in DOMAIN weights : terms[n] \in Int
    BY <1>2
  <1>4. IsFiniteSet(DOMAIN weights)
    <2>1. IsFiniteSet({"m"})
      BY FS_Singleton
    <2> QED
      BY <2>1, FS_Subset
  <1>5. DOMAIN weights # {} =>
           DOMAIN weights = {"m"} /\ terms["m"] = weights["m"] * Measure(metrics, "m")
    OBVIOUS
  <1> HIDE DEF terms
  <1>6. /\ SumOf(terms) \in Int
        /\ DOMAIN terms = {} => SumOf(terms) = 0
        /\ DOMAIN terms = {"m"} => SumOf(terms) = terms["m"]
    BY <1>3, <1>4, SumIs
  <1> QED
    BY <1>1, <1>3, <1>5, <1>6

-----------------------------------------------------------------------------
(* The summary and the candidates. *)
(* The rows of a run in which a scenario has one score. *)
OneScore(rows) ==
    /\ rows \in Seq({rows[i] : i \in DOMAIN rows})
    /\ \A i \in DOMAIN rows : rows[i].score \in Int
    /\ \A i, j \in DOMAIN rows : rows[i].s = rows[j].s => rows[i].score = rows[j].score

LEMMA Positions ==
    ASSUME NEW rows, OneScore(rows)
    PROVE  /\ Len(rows) \in Nat
           /\ DOMAIN rows = 1..Len(rows)
           /\ DOMAIN rows \subseteq Nat \ {0}
           /\ IsFiniteSet(DOMAIN rows)
  <1>1. Len(rows) \in Nat /\ DOMAIN rows = 1..Len(rows)
    BY LenProperties DEF OneScore
  <1>2. IsFiniteSet(1..Len(rows))
    BY <1>1, FS_Interval
  <1> QED
    BY <1>1, <1>2

(* The best row of a scenario is the first. *)
LEMMA Places ==
    ASSUME NEW rows, OneScore(rows)
    PROVE  /\ \A i \in DOMAIN rows :
                 /\ Place(rows, i) \in Bests(rows) /\ Place(rows, i) <= i
                 /\ rows[Place(rows, i)].s = rows[i].s
                 /\ rows[Place(rows, i)].score = rows[i].score
           /\ \A i \in Bests(rows) : i \in DOMAIN rows /\ Place(rows, i) = i
  <1>1. ASSUME NEW i \in DOMAIN rows
        PROVE  /\ Place(rows, i) \in DOMAIN rows /\ Place(rows, i) <= i
               /\ rows[Place(rows, i)].s = rows[i].s
               /\ rows[Place(rows, i)].score = rows[i].score
               /\ \A j \in DOMAIN rows : rows[j].s = rows[i].s => Place(rows, i) <= j
    <2> DEFINE T == {j \in DOMAIN rows : rows[j].s = rows[i].s}
    <2>1. T \in SUBSET Nat /\ i \in T
      BY Positions
    <2>2. Place(rows, i) = Min(T)
      BY DEF Place
    <2>3. Place(rows, i) \in T /\ \A j \in T : Place(rows, i) <= j
      <3> HIDE DEF T
      <3> QED
        BY <2>1, <2>2, MinIs
    <2> QED
      BY <2>1, <2>3 DEF OneScore
  <1>2. ASSUME NEW i \in DOMAIN rows
        PROVE  Place(rows, i) \in Bests(rows)
    <2>1. ASSUME NEW j \in DOMAIN rows, rows[j].s = rows[Place(rows, i)].s
          PROVE  rows[j].score = rows[Place(rows, i)].score /\ j >= Place(rows, i)
      <3>1. rows[j].s = rows[i].s /\ j \in Nat /\ Place(rows, i) \in Nat
        BY <1>1, <2>1, Positions
      <3> QED
        BY <1>1, <2>1, <3>1 DEF OneScore
    <2> QED
      BY <1>1, <2>1 DEF Bests
  <1>3. ASSUME NEW i \in Bests(rows)
        PROVE  i \in DOMAIN rows /\ Place(rows, i) = i
    <2>1. i \in DOMAIN rows
      BY DEF Bests
    <2> DEFINE p == Place(rows, i)
    <2>2. p \in DOMAIN rows /\ rows[p].s = rows[i].s /\ rows[p].score = rows[i].score /\ p <= i
      BY <1>1, <2>1
    <2>3. rows[p].score < rows[i].score \/ p >= i
      BY <2>2 DEF Bests
    <2>4. i \in Nat /\ p \in Nat /\ rows[i].score \in Int
      BY <2>1, <2>2, Positions DEF OneScore
    <2> QED
      BY <2>1, <2>2, <2>3, <2>4
  <1> QED
    BY <1>1, <1>2, <1>3

(* What goes before what among the candidates. *)
Sooner(rows, i, j) == \/ rows[i].score > rows[j].score
                      \/ rows[i].score = rows[j].score /\ Place(rows, i) < Place(rows, j)

BestsAhead(rows) == [i \in Bests(rows) |-> {j \in Bests(rows) : Sooner(rows, j, i)}]

(* Sooner is a strict total order of the best rows. *)
LEMMA BestsEnumerable ==
    ASSUME NEW rows, OneScore(rows)
    PROVE  Enumerable(BestsAhead(rows))
  <1> DEFINE B == Bests(rows)
             ahead == BestsAhead(rows)
  <1>1. DOMAIN ahead = B /\ \A i \in B : ahead[i] = {j \in B : Sooner(rows, j, i)}
    BY DEF BestsAhead
  <1>2. \A i \in B : i \in Int /\ rows[i].score \in Int /\ Place(rows, i) = i
    BY Places, Positions DEF OneScore
  <1>3. IsFiniteSet(B)
    BY Positions, FS_Subset DEF Bests
  <1>4. \A i, j \in B : Sooner(rows, i, j) <=> \/ rows[i].score > rows[j].score
                                               \/ rows[i].score = rows[j].score /\ i < j
    BY <1>2 DEF Sooner
  <1> HIDE DEF ahead, B
  <1>5. \A i \in B : ahead[i] \subseteq B \ {i}
    BY <1>1, <1>2, <1>4
  <1>6. ASSUME NEW i \in B, NEW j \in B, j \in ahead[i]
        PROVE  ahead[j] \subseteq ahead[i]
    <2>1. ASSUME NEW x \in B, Sooner(rows, x, j)
          PROVE  Sooner(rows, x, i)
      <3>1. Sooner(rows, j, i)
        BY <1>1, <1>6
      <3> QED
        BY <1>2, <1>4, <2>1, <3>1
    <2> QED
      BY <1>1, <2>1
  <1>7. ASSUME NEW i \in B, NEW j \in B, i # j
        PROVE  i \in ahead[j] \/ j \in ahead[i]
    <2>1. Sooner(rows, i, j) \/ Sooner(rows, j, i)
      BY <1>2, <1>4, <1>7
    <2> QED
      BY <1>1, <2>1
  <1>8. Enumerable(ahead)
    BY <1>1, <1>3, <1>5, <1>6, <1>7, Zenon DEF Enumerable
  <1> QED
    BY <1>8 DEF ahead

(* The candidates are the best rows in this order. *)
LEMMA CandidatesAre ==
    ASSUME NEW rows
    PROVE  LET order == Ordered(BestsAhead(rows))
           IN  /\ DOMAIN Candidates(rows) = 1..Min({TopCount, Cardinality(Bests(rows))})
               /\ \A k \in DOMAIN Candidates(rows) :
                     /\ Candidates(rows)[k].s = rows[order[k]].s
                     /\ Candidates(rows)[k].score = rows[order[k]].score
  BY DEF Candidates, BestsAhead, Sooner

(* The best score of a run is a score, and none is above it. *)
LEMMA BestScoreIs ==
    ASSUME NEW rows, OneScore(rows)
    PROVE  /\ Len(rows) = 0 => BestScore(rows) = {}
           /\ Len(rows) # 0 => \E g \in DOMAIN rows :
                 /\ BestScore(rows) = {rows[g].score}
                 /\ \A j \in DOMAIN rows : rows[j].score <= rows[g].score
  <1> DEFINE scores == {rows[i].score : i \in DOMAIN rows}
  <1>1. CASE Len(rows) = 0
    <2>1. scores = {}
      BY <1>1, Positions
    <2>2. BestScore(rows) = {}
      BY <2>1 DEF BestScore, Optional
    <2> QED
      BY <1>1, <2>2
  <1>2. CASE Len(rows) # 0
    <2> DEFINE f == [i \in 1..Len(rows) |-> rows[i].score]
    <2>1. Len(rows) \in Nat /\ DOMAIN rows = 1..Len(rows) /\ \A i \in 1..Len(rows) : f[i] \in Int
      BY Positions DEF OneScore
    <2>2. PICK g \in 1..Len(rows) : \A j \in 1..Len(rows) : f[j] <= f[g]
      <3> HIDE DEF f
      <3> QED
        BY <1>2, <2>1, Greatest
    <2>3. g \in DOMAIN rows /\ \A j \in DOMAIN rows : rows[j].score <= rows[g].score
      BY <2>1, <2>2
    <2>4. rows[g].score \in scores /\ \A x \in scores : x \in Int /\ rows[g].score >= x
      BY <2>1, <2>3
    <2>5. Max(scores) = rows[g].score
      <3> DEFINE m == rows[g].score
      <3>1. \E x \in scores : \A y \in scores : x >= y
        BY <2>4
      <3> HIDE DEF scores
      <3>2. Max(scores) \in scores /\ \A y \in scores : Max(scores) >= y
        BY <3>1 DEF Max
      <3> QED
        BY <2>4, <3>2
    <2>6. BestScore(rows) = {rows[g].score}
      BY <2>4, <2>5 DEF BestScore, Optional
    <2> QED
      BY <1>2, <2>3, <2>6
  <1> QED
    BY <1>1, <1>2

(* The first candidate is the first of the rows with the best score. *)
LEMMA FirstCandidate ==
    ASSUME NEW all, NEW rows, OneScore(rows)
    PROVE  LET first == DOMAIN Candidates(rows) \cap {1}
           IN  /\ Summary(all, rows).best = {Candidates(rows)[i].score : i \in first}
               /\ Summary(all, rows).bestScenario = {Candidates(rows)[i].s : i \in first}
  <1> DEFINE C == Candidates(rows)
             B == Bests(rows)
             ahead == BestsAhead(rows)
             order == Ordered(ahead)
             best == {i \in DOMAIN rows : rows[i].score \in BestScore(rows)}
  <1> SUFFICES /\ Summary(all, rows).best = {C[k].score : k \in DOMAIN C \cap {1}}
               /\ Summary(all, rows).bestScenario = {C[k].s : k \in DOMAIN C \cap {1}}
    OBVIOUS
  <1>1. /\ Summary(all, rows).best = BestScore(rows)
        /\ Summary(all, rows).bestScenario = Optional(best, rows[Min(best)].s)
    BY DEF Summary
  <1>2. DOMAIN ahead = B /\ \A i \in B : ahead[i] = {j \in B : Sooner(rows, j, i)}
    BY DEF BestsAhead
  <1>3. IsFiniteSet(B) /\ Cardinality(B) \in Nat
    BY Positions, FS_Subset, FS_CardinalityType DEF Bests
  <1>4. DOMAIN C = 1..Min({TopCount, Cardinality(B)})
    BY CandidatesAre
  <1>5. CASE Len(rows) = 0
    <2>1. B = {} /\ best = {}
      BY <1>5, Positions DEF Bests
    <2>2. Cardinality(B) = 0
      BY <2>1, FS_EmptySet
    <2>3. Min({TopCount, 0}) = 0
      <3>1. {TopCount, 0} \in SUBSET Nat /\ {TopCount, 0} # {}
        BY DEF TopCount
      <3>2. Min({TopCount, 0}) \in {TopCount, 0} /\ Min({TopCount, 0}) <= 0
        BY <3>1, MinIs
      <3> QED
        BY <3>2 DEF TopCount
    <2>4. DOMAIN C = {}
      BY <1>4, <2>2, <2>3
    <2>5. BestScore(rows) = {}
      BY <1>5, BestScoreIs
    <2>6. Optional(best, rows[Min(best)].s) = {}
      BY <2>1 DEF Optional
    <2> HIDE DEF C, best
    <2> QED
      BY <1>1, <2>4, <2>5, <2>6
  <1>6. CASE Len(rows) # 0
    <2>1. PICK g \in DOMAIN rows :
              /\ BestScore(rows) = {rows[g].score}
              /\ \A j \in DOMAIN rows : rows[j].score <= rows[g].score
      BY <1>6, BestScoreIs
    <2>2. B # {}
      BY Places
    <2>3. Cardinality(B) # 0
      BY <1>3, <2>2, FS_EmptySet
    <2>4. 1 \in DOMAIN C
      <3>1. {TopCount, Cardinality(B)} \in SUBSET Nat /\ {TopCount, Cardinality(B)} # {}
        BY <1>3 DEF TopCount
      <3>2. Min({TopCount, Cardinality(B)}) \in {TopCount, Cardinality(B)}
        BY <3>1, MinIs
      <3> QED
        BY <1>3, <1>4, <2>3, <3>2 DEF TopCount
    <2>5. /\ DOMAIN order = 1..Cardinality(B)
          /\ order[1] \in B /\ Cardinality(ahead[order[1]]) = 0
      <3> HIDE DEF ahead
      <3>1. Enumerable(ahead)
        BY BestsEnumerable DEF ahead
      <3>2. /\ DOMAIN order = 1..Cardinality(B)
            /\ \A k \in DOMAIN order : order[k] \in B /\ Cardinality(ahead[order[k]]) = k - 1
        BY <1>2, <3>1, OrderedEnumerates
      <3>3. 1 \in DOMAIN order
        BY <1>3, <2>3, <3>2
      <3> QED
        BY <3>2, <3>3
    <2> DEFINE i == order[1]
    <2>6. i \in DOMAIN rows /\ Place(rows, i) = i
      BY <2>5, Places
    <2>7. \A j \in B : ~Sooner(rows, j, i)
      <3>1. ahead[i] \subseteq B
        BY <1>2, <2>5
      <3>2. ahead[i] = {}
        <4>1. IsFiniteSet(ahead[i])
          BY <1>3, <3>1, FS_Subset
        <4> QED
          BY <2>5, <4>1, FS_EmptySet
      <3> HIDE DEF ahead
      <3> QED
        BY <1>2, <2>5, <3>2
    <2> HIDE DEF i
    <2>8. \A j \in DOMAIN rows : j \in Nat /\ rows[j].score \in Int
      BY Positions DEF OneScore
    <2>9. rows[i].score = rows[g].score
      <3>1. Place(rows, g) \in B /\ rows[Place(rows, g)].score = rows[g].score
        BY Places
      <3>2. ~(rows[g].score > rows[i].score)
        BY <2>7, <3>1 DEF Sooner
      <3> QED
        BY <2>1, <2>6, <2>8, <3>2
    <2>10. \A j \in best : i <= j
      <3> SUFFICES ASSUME NEW j \in DOMAIN rows, rows[j].score = rows[g].score
                   PROVE  i <= j
        BY <2>1
      <3>1. /\ Place(rows, j) \in B /\ Place(rows, j) <= j
            /\ rows[Place(rows, j)].score = rows[i].score
        BY <2>9, Places
      <3>2. Place(rows, Place(rows, j)) = Place(rows, j) /\ Place(rows, j) \in Nat
        BY <2>8, <3>1, Places
      <3>3. ~(Place(rows, j) < i)
        BY <2>6, <2>7, <3>1, <3>2 DEF Sooner
      <3> QED
        BY <2>6, <2>8, <3>1, <3>2, <3>3
    <2>11. Min(best) = i
      <3>1. i \in best /\ best \in SUBSET Nat
        BY <2>1, <2>6, <2>8, <2>9
      <3> HIDE DEF best
      <3>2. Min(best) \in best /\ Min(best) <= i
        BY <3>1, MinIs
      <3>3. Min(best) \in Nat /\ i \in Nat /\ i <= Min(best)
        BY <2>10, <3>1, <3>2
      <3> QED
        BY <3>2, <3>3
    <2>12. C[1].s = rows[i].s /\ C[1].score = rows[i].score
      BY <2>4, CandidatesAre DEF i
    <2>13. Optional(best, rows[Min(best)].s) = {rows[i].s}
      <3>1. best # {}
        BY <2>1
      <3> QED
        BY <2>11, <3>1 DEF Optional
    <2>14. DOMAIN C \cap {1} = {1}
      BY <2>4
    <2> HIDE DEF C, best
    <2> QED
      BY <1>1, <2>1, <2>9, <2>12, <2>13, <2>14
  <1> QED
    BY <1>5, <1>6, Positions
-----------------------------------------------------------------------------
(* Constants. *)
LEMMA Iterations == MaxIterations \in Nat \ {0}
  BY MaxOfTwo, LoopAssumption DEF MaxIterations

-----------------------------------------------------------------------------
(* The reason to stop.  Where the workflow is says whether it has left the  *)
(* loop; from then on nothing changes what the reason speaks of.            *)
Common == {"persist", "fetch", "simulate", "metrics", "scores"}

Control ==
    \/ phase = "initial" /\ step \in {"generate", "persist"}
    \/ phase = "loop"    /\ step \in Common \cup {"head", "propose", "update", "record", "converge"}
    \/ phase = "promote" /\ step \in Common \cup {"promote"}
    \/ phase = "robust"  /\ step \in Common \cup {"perturb"}
    \/ phase = "final"   /\ step \in {"progress", "ended", "failed"}

Outside == phase \in {"promote", "robust"} \/ step \in {"progress", "ended"}

Counted ==
    /\ iteration \in 0..MaxIterations
    /\ converged \subseteq {"score_plateau", "no_improvement"}

SInv == Control /\ Counted /\ StopReasonIsTrue

(* A step that leaves the counters alone and does not leave the loop. *)
LEMMA Moving ==
    ASSUME SInv, Control', Outside' => Outside,
           UNCHANGED <<iteration, converged, stopReason, compute, storage>>
    PROVE  SInv'
  BY DEF SInv, Counted, StopReasonIsTrue, Outside, MaxIterations

(* A step within the loop may count. *)
LEMMA Counting ==
    ASSUME SInv, Control', ~Outside', Counted'
    PROVE  SInv'
  BY DEF SInv, StopReasonIsTrue, Outside

LEMMA Metering ==
    ASSUME SInv, step = "metrics", Count, phase' = phase, step' = step,
           UNCHANGED loop
    PROVE  SInv'
  <1>1. Control' /\ (Outside' <=> Outside)
    BY DEF SInv, Control, Common, Outside
  <1>2. CASE phase = "loop"
    <2>1. ~Outside' /\ Counted'
      BY <1>2 DEF Outside, SInv, Counted, loop, MaxIterations
    <2> QED
      BY <1>1, <2>1, Counting
  <1>3. CASE phase # "loop"
    BY <1>1, <1>3, Moving DEF Count, totals, loop
  <1> QED
    BY <1>2, <1>3

LEMMA Retrying ==
    ASSUME SInv, Awaiting, Retry, UNCHANGED <<loop, totals>>
    PROVE  SInv'
  <1>1. Control' /\ (Outside' => Outside)
    BY DEF SInv, Control, Common, Outside, Retry, GoTo
  <1> QED
    BY <1>1, Moving DEF loop, totals

LEMMA Leaving ==
    ASSUME SInv, Leave
    PROVE  SInv'
  <1>1. PICK overtime \in BOOLEAN :
          LET reason == IF Looping THEN Exceeded(overtime) ELSE {}
          IN  /\ Looping => reason # {}
              /\ stopReason' = StopReason(reason)
    BY DEF Leave
  <1> DEFINE reason == IF Looping THEN Exceeded(overtime) ELSE {}
  <1>2. /\ Looping => reason # {}
        /\ stopReason' = StopReason(reason)
    BY <1>1
  <1>3. /\ "max_iterations" \notin reason
        /\ "max_compute_time" \in reason => compute > MaxCompute
        /\ "max_storage" \in reason => storage > MaxStorage
        /\ reason # {} => converged = {}
    BY DEF Exceeded, Looping
  <1>4. UNCHANGED <<iteration, converged, compute, storage>>
    BY DEF Leave, totals
  <1>5. Control' /\ Counted'
    <2>1. Control'
      BY DEF Leave, GoTo, Control, Common
    <2>2. Counted'
      BY <1>4 DEF SInv, Counted, MaxIterations
    <2> QED
      BY <2>1, <2>2
  <1> HIDE DEF reason
  <1>6. /\ stopReason' # {}
        /\ converged # {} => stopReason' = converged
        /\ "max_iterations" \in stopReason' => iteration = MaxIterations
        /\ "max_compute_time" \in stopReason' => compute > MaxCompute
        /\ "max_storage" \in stopReason' => storage > MaxStorage
    <2>1. CASE reason # {}
      BY <1>2, <1>3, <2>1 DEF StopReason
    <2>2. CASE reason = {} /\ converged # {}
      <3>1. stopReason' = converged
        BY <1>2, <2>2 DEF StopReason
      <3>2. converged \subseteq {"score_plateau", "no_improvement"}
        BY DEF SInv, Counted
      <3> QED
        BY <2>2, <3>1, <3>2
    <2>3. CASE reason = {} /\ converged = {}
      <3>1. iteration = MaxIterations
        BY <1>2, <2>3, Iterations DEF Looping, SInv, Counted
      <3>2. stopReason' = {"max_iterations"}
        BY <1>2, <2>3, <3>1, Iterations DEF StopReason
      <3> QED
        BY <2>3, <3>1, <3>2
    <2> QED
      BY <2>1, <2>2, <2>3
  <1>7. StopReasonIsTrue'
    BY <1>4, <1>6 DEF StopReasonIsTrue, MaxIterations
  <1> QED
    BY <1>5, <1>7 DEF SInv

LEMMA Converging ==
    ASSUME SInv, Converge
    PROVE  SInv'
  <1>1. converged' \subseteq {"score_plateau", "no_improvement"}
    BY DEF Converge, Convergence
  <1>2. Control' /\ ~Outside'
    BY DEF Converge, GoTo, Control, Outside
  <1>3. Counted'
    BY <1>1 DEF Converge, SInv, Counted, MaxIterations
  <1> QED
    BY <1>2, <1>3, Counting

LEMMA Iterating ==
    ASSUME SInv, Iterate
    PROVE  SInv'
  <1>1. Control' /\ ~Outside'
    BY DEF Iterate, GoTo, Control, Outside
  <1>2. Counted'
    BY Iterations DEF Iterate, Looping, SInv, Counted, MaxIterations
  <1> QED
    BY <1>1, <1>2, Counting

LEMMA StopInductive == SInv /\ [Next]_vars => SInv'
  <1> SUFFICES ASSUME SInv, [Next]_vars PROVE SInv'
    OBVIOUS
  <1> USE DEF Awaits, Replied, GoTo, Advance, Control, Common, Outside, loop, totals, data, env, SInv
  <1>1. CASE Generate
    <2>1. Control' /\ (Outside' => Outside)
      BY <1>1 DEF Generate
    <2> QED
      BY <1>1, <2>1, Moving DEF Generate
  <1>2. CASE PersistCommit
    <2>1. Control' /\ (Outside' => Outside)
      BY <1>2 DEF PersistCommit
    <2> QED
      BY <1>2, <2>1, Moving DEF PersistCommit
  <1>3. CASE PersistReply
    <2>1. Control' /\ (Outside' => Outside)
      BY <1>3 DEF PersistReply
    <2> QED
      BY <1>3, <2>1, Moving DEF PersistReply
  <1>4. CASE Iterate
    BY <1>4, Iterating
  <1>5. CASE Leave
    BY <1>5, Leaving
  <1>6. CASE Propose
    <2>1. Control' /\ (Outside' => Outside)
      BY <1>6 DEF Propose
    <2> QED
      BY <1>6, <2>1, Moving DEF Propose
  <1>7. CASE Fetch
    <2>1. Control' /\ (Outside' => Outside)
      BY <1>7 DEF Fetch
    <2> QED
      BY <1>7, <2>1, Moving DEF Fetch
  <1>8. CASE Simulate
    <2>1. Control' /\ (Outside' => Outside)
      BY <1>8 DEF Simulate
    <2> QED
      BY <1>8, <2>1, Moving DEF Simulate
  <1>9. CASE SkipMetrics
    BY <1>9, Metering DEF SkipMetrics, control
  <1>10. CASE MetricsRead
    <2>1. Control' /\ (Outside' => Outside)
      BY <1>10 DEF MetricsRead
    <2> QED
      BY <1>10, <2>1, Moving DEF MetricsRead
  <1>11. CASE MetricsCommit
    <2>1. Control' /\ (Outside' => Outside)
      BY <1>11 DEF MetricsCommit
    <2> QED
      BY <1>11, <2>1, Moving DEF MetricsCommit
  <1>12. CASE MetricsReply
    BY <1>12, Metering DEF MetricsReply
  <1>13. CASE Judge
    <2>1. Control' /\ (Outside' => Outside)
      BY <1>13 DEF Judge
    <2> QED
      BY <1>13, <2>1, Moving DEF Judge
  <1>14. CASE ScoresRead
    <2>1. Control' /\ (Outside' => Outside)
      BY <1>14 DEF ScoresRead
    <2> QED
      BY <1>14, <2>1, Moving DEF ScoresRead
  <1>15. CASE ScoresCommit
    <2>1. Control' /\ (Outside' => Outside)
      BY <1>15 DEF ScoresCommit
    <2> QED
      BY <1>15, <2>1, Moving DEF ScoresCommit
  <1>16. CASE ScoresReply
    <2>1. phase \in {"loop", "promote", "robust"}
      BY <1>16 DEF ScoresReply
    <2>2. Control' /\ (Outside' => Outside)
      BY <1>16, <2>1 DEF ScoresReply
    <2> QED
      BY <1>16, <2>2, Moving DEF ScoresReply
  <1>17. CASE ScoresRaise
    BY <1>17, Retrying DEF ScoresRaise, Awaiting
  <1>18. CASE Update
    <2>1. Control' /\ (Outside' => Outside)
      BY <1>18 DEF Update
    <2> QED
      BY <1>18, <2>1, Moving DEF Update
  <1>19. CASE RecordCommit
    <2>1. Control' /\ (Outside' => Outside)
      BY <1>19 DEF RecordCommit
    <2> QED
      BY <1>19, <2>1, Moving DEF RecordCommit
  <1>20. CASE RecordReply
    <2>1. Control' /\ (Outside' => Outside)
      BY <1>20 DEF RecordReply
    <2> QED
      BY <1>20, <2>1, Moving DEF RecordReply
  <1>21. CASE Converge
    BY <1>21, Converging
  <1>22. CASE Promote
    <2>1. Control' /\ (Outside' => Outside)
      BY <1>22 DEF Promote
    <2> QED
      BY <1>22, <2>1, Moving DEF Promote
  <1>23. CASE Perturb
    <2>1. Control' /\ (Outside' => Outside)
      BY <1>23 DEF Perturb
    <2> QED
      BY <1>23, <2>1, Moving DEF Perturb
  <1>24. CASE Progress
    <2>1. Control' /\ (Outside' => Outside)
      BY <1>24 DEF Progress
    <2> QED
      BY <1>24, <2>1, Moving DEF Progress
  <1>25. CASE AttemptFails
    BY <1>25, Retrying DEF AttemptFails
  <1>26. CASE TimesOut
    BY <1>26, Retrying DEF TimesOut, Awaiting, Storing
  <1>27. ASSUME NEW l \in late, LateRead(l) \/ LateCommit(l)
         PROVE  SInv'
    <2>1. Control' /\ (Outside' => Outside)
      BY <1>27 DEF LateRead, LateCommit, control
    <2> QED
      BY <1>27, <2>1, Moving DEF LateRead, LateCommit
  <1>28. CASE UNCHANGED vars
    <2>1. Control' /\ (Outside' => Outside)
      BY <1>28 DEF vars, control
    <2> QED
      BY <1>28, <2>1, Moving DEF vars
  <1> QED
    BY <1>1, <1>2, <1>3, <1>4, <1>5, <1>6, <1>7, <1>8, <1>9, <1>10, <1>11, <1>12, <1>13,
       <1>14, <1>15, <1>16, <1>17, <1>18, <1>19, <1>20, <1>21, <1>22, <1>23, <1>24, <1>25,
       <1>26, <1>27, <1>28
       DEF Next, Work

LEMMA StopAtFirst == Init => SInv
  BY Iterations DEF Init, SInv, Control, Counted, StopReasonIsTrue

(* Whatever ends the loop, and however often attempts are repeated or run   *)
(* late, the finalists are chosen and the results are shown with a reason   *)
(* to stop that is true (simulation_run.py:331-349).                        *)
THEOREM StopsForAReason == Spec => []StopReasonIsTrue
  <1>1. Init => SInv
    BY StopAtFirst
  <1>2. SInv => StopReasonIsTrue
    BY DEF SInv
  <1> QED
    BY <1>1, <1>2, StopInductive, PTL DEF Spec

-----------------------------------------------------------------------------
(* The ledger.  Without attempts that overlap, what an attempt has found is *)
(* still what there is when it inserts.                                     *)
AtMostOne(table) == \A s \in DOMAIN table : \E v : table[s] = <<v>>

Undisturbed ==
    /\ late = {}
    /\ AtMostOne(ledger.metrics) /\ AtMostOne(ledger.scores)
    /\ call.at = "read" => Storing \/ step = "scores"
    /\ step = "metrics" /\ call.at = "read" => call.found = FoundMetrics(outcomes[next])
    /\ step = "scores" /\ call.at = "read"  => call.found = FoundScores(scored)

LInv ==
    /\ {"scenarios", "metrics", "scores", "steps"} \subseteq DOMAIN ledger
    /\ {"number", "at", "found"} \subseteq DOMAIN call
    /\ zombies \in Nat
    /\ zombies = 0 => Undisturbed

LEMMA SingleRow ==
    ASSUME NEW v
    PROVE  <<v>> \o <<>> = <<v>> /\ <<>> \o <<v>> = <<v>>
  <1>1. <<v>> \in Seq({v})
    OBVIOUS
  <1> QED
    BY <1>1, ConcatEmptySeq

LEMMA Inserting ==
    ASSUME NEW table, NEW new, AtMostOne(table), AtMostOne(new),
           DOMAIN table \cap DOMAIN new = {}
    PROVE  AtMostOne(Inserted(table, new))
  <1> SUFFICES ASSUME NEW s \in DOMAIN table \cup DOMAIN new
               PROVE  \E v : Rows(table, s) \o Rows(new, s) = <<v>>
    BY DEF Inserted, AtMostOne
  <1>1. CASE s \in DOMAIN table
    <2>1. PICK v : table[s] = <<v>>
      BY <1>1 DEF AtMostOne
    <2>2. Rows(table, s) = <<v>> /\ Rows(new, s) = <<>>
      BY <1>1, <2>1 DEF Rows
    <2> QED
      BY <2>2, SingleRow
  <1>2. CASE s \in DOMAIN new
    <2>1. PICK v : new[s] = <<v>>
      BY <1>2 DEF AtMostOne
    <2>2. Rows(table, s) = <<>> /\ Rows(new, s) = <<v>>
      BY <1>2, <2>1 DEF Rows
    <2> QED
      BY <2>2, SingleRow
  <1> QED
    BY <1>1, <1>2

LEMMA MetricsInserted ==
    ASSUME LInv, NEW outcome, AtMostOne(ledger.metrics),
           ledger' = WithMetrics(ledger, outcome, FoundMetrics(outcome))
    PROVE  /\ {"scenarios", "metrics", "scores", "steps"} \subseteq DOMAIN ledger'
           /\ AtMostOne(ledger'.metrics) /\ ledger'.scores = ledger.scores
  <1> DEFINE new == [s \in {outcome.s} \ FoundMetrics(outcome) |-> <<outcome.metrics["m"]>>]
  <1>1. /\ DOMAIN ledger' = DOMAIN ledger
        /\ ledger'.metrics = Inserted(ledger.metrics, new)
        /\ ledger'.scores = ledger.scores
    BY DEF WithMetrics, LInv
  <1>2. AtMostOne(new) /\ DOMAIN ledger.metrics \cap DOMAIN new = {}
    BY DEF AtMostOne, FoundMetrics
  <1> HIDE DEF new
  <1> QED
    BY <1>1, <1>2, Inserting DEF LInv

LEMMA ScoresInserted ==
    ASSUME LInv, NEW rows, AtMostOne(ledger.scores),
           ledger' = WithScores(ledger, rows, FoundScores(rows))
    PROVE  /\ {"scenarios", "metrics", "scores", "steps"} \subseteq DOMAIN ledger'
           /\ AtMostOne(ledger'.scores) /\ ledger'.metrics = ledger.metrics
  <1> DEFINE first(s) == Min({i \in DOMAIN rows : rows[i].s = s})
             new == [s \in {rows[i].s : i \in DOMAIN rows} \ FoundScores(rows) |->
                        <<rows[first(s)].score>>]
  <1>1. /\ DOMAIN ledger' = DOMAIN ledger
        /\ ledger'.scores = Inserted(ledger.scores, new)
        /\ ledger'.metrics = ledger.metrics
    BY DEF WithScores, LInv
  <1>2. AtMostOne(new) /\ DOMAIN ledger.scores \cap DOMAIN new = {}
    BY DEF AtMostOne, FoundScores
  <1> HIDE DEF new
  <1> QED
    BY <1>1, <1>2, Inserting DEF LInv

(* A step that leaves the ledger alone and starts an attempt or goes on     *)
(* with what it has found.                                                  *)
LEMMA Reading ==
    ASSUME LInv, UNCHANGED <<ledger, late, zombies>>,
           {"number", "at", "found"} \subseteq DOMAIN call', call'.at # "read"
    PROVE  LInv'
  BY DEF LInv, Undisturbed

LEMMA Waiting ==
    ASSUME LInv, UNCHANGED <<ledger, late, zombies, call, phase, step, outcomes, next, scored>>
    PROVE  LInv'
  BY DEF LInv, Undisturbed, Storing, FoundMetrics, FoundScores

LEMMA Beginning ==
    ASSUME NEW n
    PROVE  LET c == [FirstAttempt EXCEPT !.number = n]
           IN  {"number", "at", "found"} \subseteq DOMAIN c /\ c.at # "read"
  BY DEF FirstAttempt

LEMMA Going ==
    ASSUME LInv, NEW p, NEW s, GoTo(p, s), UNCHANGED <<ledger, late, zombies>>
    PROVE  LInv'
  <1>1. {"number", "at", "found"} \subseteq DOMAIN call' /\ call'.at # "read"
    BY DEF GoTo, FirstAttempt
  <1> QED
    BY <1>1, Reading

LEMMA RetryBegins ==
    ASSUME Retry
    PROVE  {"number", "at", "found"} \subseteq DOMAIN call' /\ call'.at # "read"
  BY Beginning DEF Retry, GoTo, FirstAttempt

(* What has been found goes in with what had been stored. *)
LEMMA Committing ==
    ASSUME LInv, Advance("committed"), UNCHANGED <<late, zombies>>,
           {"scenarios", "metrics", "scores", "steps"} \subseteq DOMAIN ledger',
           zombies = 0 => AtMostOne(ledger'.metrics) /\ AtMostOne(ledger'.scores)
    PROVE  LInv'
  <1>1. {"number", "at", "found"} \subseteq DOMAIN call' /\ call'.at # "read"
    BY DEF Advance, LInv
  <1> QED
    BY <1>1 DEF LInv, Undisturbed

LEMMA LedgerInductive == LInv /\ [Next]_vars => LInv'
  <1> SUFFICES ASSUME LInv, [Next]_vars PROVE LInv'
    OBVIOUS
  <1> USE DEF env
  <1>1. CASE Generate \/ PersistReply \/ Iterate \/ Leave \/ Propose \/ Fetch \/ Simulate
    BY <1>1, Going DEF Generate, PersistReply, Iterate, Leave, Propose, Fetch, Simulate
  <1>2. CASE MetricsReply \/ Judge \/ ScoresReply \/ Update \/ RecordReply \/ Converge
    BY <1>2, Going DEF MetricsReply, Judge, ScoresReply, Update, RecordReply, Converge
  <1>3. CASE Promote \/ Perturb \/ Progress
    BY <1>3, Going DEF Promote, Perturb, Progress
  <1>4. CASE PersistCommit \/ RecordCommit
    <2>1. /\ DOMAIN ledger' = DOMAIN ledger
          /\ ledger'.metrics = ledger.metrics /\ ledger'.scores = ledger.scores
      BY <1>4 DEF PersistCommit, RecordCommit, WithScenarios, LInv
    <2>2. Advance("committed") /\ UNCHANGED <<late, zombies>>
      BY <1>4 DEF PersistCommit, RecordCommit
    <2> QED
      BY <2>1, <2>2, Committing DEF LInv, Undisturbed
  <1>5. CASE SkipMetrics
    <2>1. UNCHANGED <<call, step, scored, late, zombies, ledger>> /\ step = "metrics" /\ ~Storing
      BY <1>5 DEF SkipMetrics, Count, control
    <2>2. zombies = 0 => call.at # "read"
      BY <2>1 DEF LInv, Undisturbed
    <2> QED
      BY <2>1, <2>2 DEF LInv, Undisturbed
  <1>6. CASE MetricsRead
    <2>1. /\ Storing' /\ step' = "metrics" /\ call'.found = FoundMetrics(outcomes[next])
          /\ {"number", "at", "found"} \subseteq DOMAIN call'
          /\ UNCHANGED <<late, zombies, ledger, outcomes, next>>
      BY <1>6 DEF MetricsRead, Storing, LInv, data
    <2> QED
      BY <2>1 DEF LInv, Undisturbed, FoundMetrics
  <1>7. CASE ScoresRead
    <2>1. /\ step' = "scores" /\ call'.found = FoundScores(scored)
          /\ {"number", "at", "found"} \subseteq DOMAIN call'
          /\ UNCHANGED <<late, zombies, ledger, scored>>
      BY <1>7 DEF ScoresRead, Awaits, LInv, data
    <2> QED
      BY <2>1 DEF LInv, Undisturbed, FoundScores
  <1>8. CASE MetricsCommit
    <2>1. zombies = 0 => call.found = FoundMetrics(outcomes[next])
      BY <1>8 DEF MetricsCommit, Storing, LInv, Undisturbed
    <2>2. zombies = 0 => AtMostOne(ledger'.metrics) /\ AtMostOne(ledger'.scores)
      BY <1>8, <2>1, MetricsInserted DEF MetricsCommit, LInv, Undisturbed
    <2>3. {"scenarios", "metrics", "scores", "steps"} \subseteq DOMAIN ledger'
      BY <1>8 DEF MetricsCommit, WithMetrics, LInv
    <2> QED
      BY <1>8, <2>2, <2>3, Committing DEF MetricsCommit
  <1>9. CASE ScoresCommit
    <2>1. zombies = 0 => call.found = FoundScores(scored)
      BY <1>9 DEF ScoresCommit, LInv, Undisturbed
    <2>2. zombies = 0 => AtMostOne(ledger'.metrics) /\ AtMostOne(ledger'.scores)
      BY <1>9, <2>1, ScoresInserted DEF ScoresCommit, LInv, Undisturbed
    <2>3. {"scenarios", "metrics", "scores", "steps"} \subseteq DOMAIN ledger'
      BY <1>9 DEF ScoresCommit, WithScores, LInv
    <2> QED
      BY <1>9, <2>2, <2>3, Committing DEF ScoresCommit
  <1>10. CASE ScoresRaise \/ AttemptFails
    BY <1>10, RetryBegins, Reading DEF ScoresRaise, AttemptFails
  <1>11. CASE TimesOut
    <2>1. zombies' \in Nat /\ zombies' # 0 /\ ledger' = ledger
      BY <1>11 DEF TimesOut, LInv
    <2> QED
      BY <1>11, <2>1, RetryBegins DEF TimesOut, LInv
  <1>12. ASSUME NEW l \in late, LateRead(l) \/ LateCommit(l)
         PROVE  LInv'
    <2>1. zombies # 0
      BY <1>12 DEF LInv, Undisturbed
    <2>2. zombies' = zombies /\ call' = call
      BY <1>12 DEF LateRead, LateCommit, control
    <2>3. {"scenarios", "metrics", "scores", "steps"} \subseteq DOMAIN ledger'
      BY <1>12 DEF LateRead, LateCommit, WithMetrics, WithScores, LInv
    <2> QED
      BY <2>1, <2>2, <2>3 DEF LInv
  <1>13. CASE UNCHANGED vars
    BY <1>13, Waiting DEF vars, control, data
  <1> QED
    BY <1>1, <1>2, <1>3, <1>4, <1>5, <1>6, <1>7, <1>8, <1>9, <1>10, <1>11, <1>12, <1>13
       DEF Next, Work

LEMMA LedgerAtFirst == Init => LInv
  BY DEF Init, LInv, Undisturbed, NewLedger, FirstAttempt, AtMostOne

(* However attempts fail after their commit or are repeated: as long as no  *)
(* two of them overlap, no instance gets a second row of metrics or a       *)
(* second score (persistence.py:472-494 and 559-590).                       *)
THEOREM OverlapsAlone == Spec => []TwiceOnlyIfOverlapping
  <1>1. Init => LInv
    BY LedgerAtFirst
  <1>2. LInv => TwiceOnlyIfOverlapping
    <2> SUFFICES ASSUME LInv, zombies = 0, NEW s
                 PROVE  Len(Rows(ledger.metrics, s)) <= 1 /\ Len(Rows(ledger.scores, s)) <= 1
      BY DEF TwiceOnlyIfOverlapping
    <2>1. AtMostOne(ledger.metrics) /\ AtMostOne(ledger.scores)
      BY DEF LInv, Undisturbed
    <2>2. ASSUME NEW table, AtMostOne(table)
          PROVE  Len(Rows(table, s)) <= 1
      <3>1. CASE s \in DOMAIN table
        <4>1. PICK v : Rows(table, s) = <<v>>
          BY <2>2, <3>1 DEF AtMostOne, Rows
        <4> QED
          BY <4>1
      <3>2. CASE s \notin DOMAIN table
        BY <3>2 DEF Rows
      <3> QED
        BY <3>1, <3>2
    <2> QED
      BY <2>1, <2>2
  <1> QED
    BY <1>1, <1>2, LedgerInductive, PTL DEF Spec

-----------------------------------------------------------------------------
(* What is true of a scenario.  A pack answers a scenario always the same,  *)
(* and so does the judge: every outcome, row and table says what the pack   *)
(* says and what the judge makes of it, wherever it came from.              *)
Picks == [acts : Seq(Int), seed : Int]

Standard ==
    IF DOMAIN Objectives = {} THEN [n \in {"m"} |-> 1]
    ELSE [n \in DOMAIN Objectives |-> Signed(Objectives[n])]

Verdict(s) ==
    IF Run(s).status = "completed" THEN Score(Standard, Run(s).metrics) ELSE 0

TrueOutcomes ==
    {o \in [s : Scenarios, status : {"completed", "cached", "failed"}, metrics : Metrics] :
        /\ o.metrics = Run(o.s).metrics
        /\ Judged(o) <=> Run(o.s).status = "completed"}

TrueRows ==
    {r \in [s : Scenarios, status : {"scored", "failed"}, score : Int, metrics : Metrics,
            given : BOOLEAN] :
        /\ r.metrics = Run(r.s).metrics
        /\ r.status = "scored" <=> Run(r.s).status = "completed"
        /\ r.score = Verdict(r.s)}

TrueLedger ==
    /\ DOMAIN ledger = {"scenarios", "metrics", "scores", "steps"}
    /\ \A s \in DOMAIN ledger.metrics :
          /\ s \in Scenarios /\ DOMAIN Run(s).metrics = {"m"}
          /\ ledger.metrics[s] \in Seq({Run(s).metrics["m"]}) /\ ledger.metrics[s] # << >>
    /\ \A s \in DOMAIN ledger.scores :
          /\ s \in Scenarios
          /\ ledger.scores[s] \in Seq({Verdict(s)}) /\ ledger.scores[s] # << >>

TrueLate ==
    \A l \in late :
        /\ l.step \in {"metrics", "scores"} /\ l.rows \in Seq(TrueRows)
        /\ l.step = "metrics" => l.outcomes[1] \in TrueOutcomes /\ DOMAIN l.outcomes[1].metrics # {}

TInv ==
    /\ pack \in Packs
    /\ batch \in Seq(Scenarios) /\ finalists \in Seq(Picks)
    /\ outcomes \in Seq(TrueOutcomes) /\ next \in Nat \ {0}
    /\ scored \in Seq(TrueRows) /\ allScored \in Seq(TrueRows)
    /\ TrueLedger /\ TrueLate

(* What a pack answers. *)
LEMMA Answers ==
    ASSUME pack \in Packs, NEW s \in Scenarios
    PROVE  /\ Run(s) \in [s : {s}, status : {"completed", "failed"}, metrics : Metrics]
           /\ Run(s).status = "failed" => DOMAIN Run(s).metrics = {}
  <1> DEFINE n == Cardinality(DOMAIN pack)
             a == pack[s.seed % n]
  <1>1. /\ IsFiniteSet(DOMAIN pack) /\ DOMAIN pack # {} /\ DOMAIN pack = 0..n - 1
        /\ \A k \in DOMAIN pack : \/ pack[k] \in [status : {"completed"}, metrics : Metrics]
                                  \/ pack[k] = [status |-> "failed", metrics |-> Mute]
    BY WorldAssumption
  <1>2. n \in Nat /\ n # 0
    BY <1>1, FS_CardinalityType, FS_EmptySet
  <1>3. s.seed \in Int
    BY DEF Scenarios
  <1>4. s.seed % n \in DOMAIN pack
    BY <1>1, <1>2, <1>3
  <1>5. Mute \in Metrics /\ DOMAIN Mute = {}
    BY DEF Mute, Metrics
  <1>6. \/ a \in [status : {"completed"}, metrics : Metrics]
        \/ a = [status |-> "failed", metrics |-> Mute]
    BY <1>1, <1>4
  <1>7. Run(s) = [s |-> s, status |-> a.status, metrics |-> a.metrics]
    BY DEF Run
  <1> HIDE DEF a
  <1> QED
    BY <1>5, <1>6, <1>7

LEMMA MetricsAre ==
    ASSUME NEW metrics \in Metrics
    PROVE  /\ DOMAIN metrics \subseteq {"m"}
           /\ \A n \in DOMAIN metrics : metrics[n] \in Int
           /\ DOMAIN metrics # {} => DOMAIN metrics = {"m"} /\ metrics = [n \in {"m"} |-> metrics["m"]]
  BY DEF Metrics

LEMMA SameWorld ==
    ASSUME pack' = pack
    PROVE  TrueOutcomes' = TrueOutcomes /\ TrueRows' = TrueRows
  BY DEF TrueOutcomes, TrueRows, Run, Verdict

LEMMA SameLedger ==
    ASSUME pack' = pack, ledger' = ledger, TrueLedger
    PROVE  TrueLedger'
  BY DEF TrueLedger, Run, Verdict

LEMMA SameLate ==
    ASSUME pack' = pack, late' \subseteq late, TrueLate
    PROVE  TrueLate'
  BY SameWorld DEF TrueLate

(* The judge: whatever else is scored with it, an outcome gets the score    *)
(* that its scenario has.                                                   *)
LEMMA StandardIs ==
    /\ DOMAIN Standard \subseteq {"m"}
    /\ \A n \in DOMAIN Standard : Standard[n] \in Int
  BY WorldAssumption DEF Standard, Signed

LEMMA VerdictIs ==
    ASSUME pack \in Packs, NEW s \in Scenarios
    PROVE  Verdict(s) \in Int
  <1>1. Run(s).metrics \in Metrics
    BY Answers
  <1>2. Score(Standard, Run(s).metrics) \in Int
    BY <1>1, MetricsAre, StandardIs, ScoreIs
  <1> QED
    BY <1>2 DEF Verdict

LEMMA MutedScore ==
    ASSUME NEW metrics, DOMAIN metrics = {}
    PROVE  Score([n \in {"m"} |-> 1], metrics) = 0 /\ Score(Mute, metrics) = 0
  <1> DEFINE one == [n \in {"m"} |-> 1]
  <1>1. DOMAIN one = {"m"} /\ one["m"] = 1 /\ DOMAIN Mute = {}
    BY DEF Mute
  <1> HIDE DEF one
  <1>2. Score(one, metrics) = one["m"] * Measure(metrics, "m")
    BY <1>1, ScoreIs
  <1>3. Measure(metrics, "m") = 0
    BY DEF Measure
  <1>4. Score(Mute, metrics) = 0
    BY <1>1, ScoreIs
  <1> QED
    BY <1>1, <1>2, <1>3, <1>4 DEF one

LEMMA JudgedAlike ==
    ASSUME NEW given \in Seq(TrueOutcomes), NEW i \in DOMAIN given, Judged(given[i])
    PROVE  Score(Weights(Mute, Objectives, given), given[i].metrics)
               = Score(Standard, given[i].metrics)
  <1> DEFINE measured == {k \in DOMAIN given : Judged(given[k]) /\ DOMAIN given[k].metrics # {}}
  <1>1. DOMAIN Mute = {}
    BY DEF Mute
  <1>2. DOMAIN given \subseteq Nat /\ \A k \in DOMAIN given : given[k] \in TrueOutcomes
    BY LenProperties, ElementOfSeq
  <1>3. \A k \in DOMAIN given : given[k].metrics \in Metrics
    BY <1>2 DEF TrueOutcomes
  <1>4. CASE DOMAIN Objectives # {}
    BY <1>1, <1>4 DEF Weights, Standard
  <1>5. CASE DOMAIN Objectives = {} /\ measured # {}
    <2>1. measured \in SUBSET Nat
      BY <1>2
    <2>2. Min(measured) \in measured
      <3> HIDE DEF measured
      <3> QED
        BY <1>5, <2>1, MinIs
    <2>3. DOMAIN given[Min(measured)].metrics = {"m"}
      BY <1>3, <2>2, MetricsAre
    <2>4. Weights(Mute, Objectives, given) = [n \in DOMAIN given[Min(measured)].metrics |-> 1]
      BY <1>1, <1>5 DEF Weights
    <2> QED
      BY <1>5, <2>3, <2>4 DEF Standard
  <1>6. CASE DOMAIN Objectives = {} /\ measured = {}
    <2>1. DOMAIN given[i].metrics = {}
      BY <1>6
    <2>2. Weights(Mute, Objectives, given) = Mute /\ Standard = [n \in {"m"} |-> 1]
      BY <1>1, <1>6 DEF Weights, Standard
    <2> QED
      BY <2>1, <2>2, MutedScore
  <1> QED
    BY <1>4, <1>5, <1>6

LEMMA JudgeIsTrue ==
    ASSUME TInv
    PROVE  /\ JudgeScoreOutcomes(Mute, Objectives, outcomes) \in Seq(TrueRows)
           /\ DOMAIN JudgeScoreOutcomes(Mute, Objectives, outcomes) = DOMAIN outcomes
           /\ Len(JudgeScoreOutcomes(Mute, Objectives, outcomes)) = Len(outcomes)
           /\ \A i \in DOMAIN outcomes :
                 JudgeScoreOutcomes(Mute, Objectives, outcomes)[i].s = outcomes[i].s
  <1> DEFINE rows == JudgeScoreOutcomes(Mute, Objectives, outcomes)
             w == Weights(Mute, Objectives, outcomes)
  <1>1. /\ Len(outcomes) \in Nat /\ DOMAIN outcomes = 1..Len(outcomes)
        /\ \A i \in DOMAIN outcomes : outcomes[i] \in TrueOutcomes
    BY LenProperties, ElementOfSeq DEF TInv
  <1>2. DOMAIN rows = DOMAIN outcomes
    BY DEF JudgeScoreOutcomes
  <1>3. ASSUME NEW i \in DOMAIN outcomes
        PROVE  rows[i] \in TrueRows /\ rows[i].s = outcomes[i].s
    <2> DEFINE o == outcomes[i]
    <2>1. rows[i] = IF Judged(o)
                      THEN [s |-> o.s, status |-> "scored", score |-> Score(w, o.metrics),
                            metrics |-> o.metrics, given |-> o.status = "completed"]
                      ELSE [s |-> o.s, status |-> "failed", score |-> 0,
                            metrics |-> Mute, given |-> FALSE]
      BY DEF JudgeScoreOutcomes
    <2>2. /\ o.s \in Scenarios /\ o.metrics \in Metrics
          /\ o.metrics = Run(o.s).metrics
          /\ Judged(o) <=> Run(o.s).status = "completed"
      BY <1>1 DEF TrueOutcomes
    <2>3. Verdict(o.s) \in Int
      BY <2>2, VerdictIs DEF TInv
    <2>4. CASE Judged(o)
      <3>1. Score(w, o.metrics) = Verdict(o.s)
        BY <2>2, <2>4, JudgedAlike DEF Verdict, TInv
      <3> HIDE DEF rows, o
      <3>2. rows[i] = [s |-> o.s, status |-> "scored", score |-> Verdict(o.s),
                       metrics |-> o.metrics, given |-> o.status = "completed"]
        BY <2>1, <2>4, <3>1
      <3> DEFINE r == [s |-> o.s, status |-> "scored", score |-> Verdict(o.s),
                       metrics |-> o.metrics, given |-> o.status = "completed"]
      <3>3. r \in [s : Scenarios, status : {"scored", "failed"}, score : Int, metrics : Metrics,
                   given : BOOLEAN]
        BY <2>2, <2>3
      <3>4. /\ r.s = o.s /\ r.metrics = Run(r.s).metrics /\ r.score = Verdict(r.s)
            /\ r.status = "scored" /\ Run(r.s).status = "completed"
        BY <2>2, <2>4
      <3> HIDE DEF r
      <3>5. r \in TrueRows
        BY <3>3, <3>4 DEF TrueRows
      <3>6. rows[i] = r
        BY <3>2 DEF r
      <3> QED
        BY <3>4, <3>5, <3>6 DEF o
    <2>5. CASE ~Judged(o)
      <3>1. Run(o.s).status = "failed" /\ DOMAIN Run(o.s).metrics = {} /\ Verdict(o.s) = 0
        BY <2>2, <2>5, Answers DEF Verdict, TInv
      <3>2. Run(o.s).metrics = Mute /\ Mute \in Metrics
        BY <2>2, <3>1 DEF Metrics, Mute
      <3> HIDE DEF rows, o
      <3> DEFINE r == [s |-> o.s, status |-> "failed", score |-> 0, metrics |-> Mute, given |-> FALSE]
      <3>3. r \in [s : Scenarios, status : {"scored", "failed"}, score : Int, metrics : Metrics,
                   given : BOOLEAN]
        BY <2>2, <3>2
      <3>4. /\ r.s = o.s /\ r.metrics = Run(r.s).metrics /\ r.score = Verdict(r.s)
            /\ r.status # "scored" /\ Run(r.s).status # "completed"
        BY <3>1, <3>2
      <3>5. rows[i] = r
        BY <2>1, <2>5
      <3> HIDE DEF r
      <3>6. r \in TrueRows
        BY <3>3, <3>4 DEF TrueRows
      <3> QED
        BY <3>4, <3>5, <3>6 DEF o
    <2> QED
      BY <2>4, <2>5
  <1> HIDE DEF rows
  <1>4. rows \in [1..Len(outcomes) -> TrueRows]
    <2>1. rows = [i \in DOMAIN outcomes |-> rows[i]]
      BY DEF rows, JudgeScoreOutcomes
    <2> QED
      BY <1>1, <1>2, <1>3, <2>1
  <1>5. rows \in Seq(TrueRows) /\ Len(rows) = Len(outcomes)
    BY <1>1, <1>4, FunctionIsSeq
  <1> QED
    BY <1>2, <1>3, <1>5 DEF rows

-----------------------------------------------------------------------------
(* What the activities make of it. *)
LEMMA RunIsTrue ==
    ASSUME pack \in Packs, NEW s \in Scenarios
    PROVE  Run(s) \in TrueOutcomes /\ Run(s).s = s
  <1> DEFINE o == Run(s)
  <1>1. /\ o \in [s : {s}, status : {"completed", "failed"}, metrics : Metrics]
        /\ o.s = s
    BY Answers
  <1>2. o \in [s : Scenarios, status : {"completed", "cached", "failed"}, metrics : Metrics]
    <2> HIDE DEF o
    <2> QED
      BY <1>1
  <1>3. o.metrics = Run(o.s).metrics /\ (Judged(o) <=> Run(o.s).status = "completed")
    BY <1>1 DEF Judged
  <1> QED
    BY <1>1, <1>2, <1>3 DEF TrueOutcomes

LEMMA SimulatedIsTrue ==
    ASSUME pack \in Packs, batch \in Seq(Scenarios)
    PROVE  LET simulated == [i \in DOMAIN batch |-> Run(batch[i])]
           IN  simulated \in Seq(TrueOutcomes) /\ Len(simulated) = Len(batch)
  <1>1. Len(batch) \in Nat /\ DOMAIN batch = 1..Len(batch) /\ \A i \in DOMAIN batch : batch[i] \in Scenarios
    BY LenProperties, ElementOfSeq
  <1>2. [i \in DOMAIN batch |-> Run(batch[i])] \in [1..Len(batch) -> TrueOutcomes]
    BY <1>1, RunIsTrue
  <1> QED
    BY <1>1, <1>2, FunctionIsSeq

(* Who has metrics in the ledger has completed, with these metrics.         *)
LEMMA KnownIsTrue ==
    ASSUME TInv, NEW s \in DOMAIN ledger.metrics
    PROVE  LET o == [s |-> s, status |-> "cached",
                     metrics |-> [m \in {"m"} |-> Last(ledger.metrics[s])]]
           IN  o \in TrueOutcomes
  <1> DEFINE o == [s |-> s, status |-> "cached",
                   metrics |-> [m \in {"m"} |-> Last(ledger.metrics[s])]]
             v == Run(s).metrics["m"]
  <1>1. /\ s \in Scenarios /\ DOMAIN Run(s).metrics = {"m"}
        /\ ledger.metrics[s] \in Seq({v}) /\ ledger.metrics[s] # << >>
    BY DEF TInv, TrueLedger
  <1>2. Last(ledger.metrics[s]) = v
    <2>1. Len(ledger.metrics[s]) \in 1..Len(ledger.metrics[s])
      BY <1>1, LenProperties, EmptySeq
    <2>2. ledger.metrics[s][Len(ledger.metrics[s])] \in {v}
      BY <1>1, <2>1, ElementOfSeq
    <2> QED
      BY <2>2 DEF Last
  <1>3. /\ Run(s).metrics \in Metrics /\ Run(s).status = "completed"
    BY <1>1, Answers DEF TInv
  <1>4. o.metrics = Run(s).metrics
    BY <1>1, <1>2, <1>3, MetricsAre
  <1>5. o.s = s /\ Judged(o)
    BY DEF Judged
  <1>6. o \in [s : Scenarios, status : {"completed", "cached", "failed"}, metrics : Metrics]
    <2>1. o.metrics \in Metrics
      BY <1>3, <1>4
    <2> QED
      BY <1>1, <2>1
  <1> HIDE DEF o
  <1>7. o \in TrueOutcomes
    BY <1>3, <1>4, <1>5, <1>6 DEF TrueOutcomes
  <1> QED
    BY <1>7 DEF o

LEMMA Divided ==
    ASSUME NEW S, IsFiniteSet(S), NEW P \in SUBSET S
    PROVE  /\ IsFiniteSet(P) /\ IsFiniteSet(S \ P) /\ Cardinality(P) \in Nat
           /\ Cardinality(S \ P) = Cardinality(S) - Cardinality(P)
  <1>1. IsFiniteSet(P) /\ Cardinality(P) \in Nat
    BY FS_Subset, FS_CardinalityType
  <1>2. S \cap P = P
    OBVIOUS
  <1>3. IsFiniteSet(S \ P) /\ Cardinality(S \ P) = Cardinality(S) - Cardinality(S \cap P)
    BY FS_Difference
  <1> QED
    BY <1>1, <1>2, <1>3

(* The scenarios at hand are divided into those with and those without      *)
(* metrics in the ledger.                                                   *)
LEMMA FetchedIsTrue ==
    ASSUME TInv
    PROVE  /\ Cached(batch) \in Seq(TrueOutcomes) /\ Pending(batch) \in Seq(Scenarios)
           /\ Len(Cached(batch)) + Len(Pending(batch)) = Len(batch)
           /\ \A i \in DOMAIN Cached(batch) : Cached(batch)[i].s \in ToSet(batch)
           /\ ToSet(Pending(batch)) \subseteq ToSet(batch)
  <1> DEFINE P == {i \in DOMAIN batch : batch[i] \in DOMAIN ledger.metrics}
             Q == {i \in DOMAIN batch : batch[i] \notin DOMAIN ledger.metrics}
             known == Picked(batch, P)
  <1>1. Len(batch) \in Nat /\ DOMAIN batch = 1..Len(batch) /\ \A i \in DOMAIN batch : batch[i] \in Scenarios
    BY LenProperties, ElementOfSeq DEF TInv
  <1>2. IsFiniteSet(DOMAIN batch) /\ Cardinality(DOMAIN batch) = Len(batch)
    <2>1. /\ IsFiniteSet(1..Len(batch))
          /\ Cardinality(1..Len(batch)) = IF 1 > Len(batch) THEN 0 ELSE Len(batch) - 1 + 1
      BY <1>1, FS_Interval
    <2> QED
      BY <1>1, <2>1
  <1>3. P \in SUBSET DOMAIN batch /\ Q = DOMAIN batch \ P /\ DOMAIN batch \cap P = P
    OBVIOUS
  <1>4. /\ IsFiniteSet(P) /\ IsFiniteSet(Q) /\ P \subseteq Int /\ Q \subseteq Int
        /\ Cardinality(P) \in Nat /\ Cardinality(Q) = Len(batch) - Cardinality(P)
    <2>1. P \subseteq Int /\ Q \subseteq Int
      BY <1>1
    <2> HIDE DEF P, Q
    <2> QED
      BY <1>2, <1>3, <2>1, Divided
  <1>5. \A i \in P : batch[i] \in DOMAIN ledger.metrics
    OBVIOUS
  <1>6. \A i \in P \cup Q : batch[i] \in Scenarios /\ batch[i] \in ToSet(batch)
    BY <1>1 DEF ToSet
  <1>7. RowsAt(batch, P) \subseteq ToSet(batch) /\ RowsAt(batch, Q) \subseteq ToSet(batch)
    BY <1>6 DEF RowsAt
  <1>8. Pending(batch) = Picked(batch, Q)
    BY DEF Pending
  <1>9. Cached(batch) = [i \in DOMAIN known |-> [s |-> known[i], status |-> "cached",
                                 metrics |-> [m \in {"m"} |-> Last(ledger.metrics[known[i]])]]]
    BY DEF Cached
  <1> HIDE DEF P, Q
  <1>10. /\ known \in Seq(DOMAIN ledger.metrics) /\ Len(known) = Cardinality(P)
        /\ ToSet(known) = RowsAt(batch, P)
    <2>1. IsFiniteSet(P) /\ P \subseteq Int /\ \A i \in P : batch[i] \in DOMAIN ledger.metrics
      BY <1>4, <1>5
    <2> QED
      BY ONLY <2>1, PickedIs DEF known
  <1>11. /\ Pending(batch) \in Seq(Scenarios) /\ Len(Pending(batch)) = Cardinality(Q)
         /\ ToSet(Pending(batch)) = RowsAt(batch, Q)
    <2>1. IsFiniteSet(Q) /\ Q \subseteq Int /\ \A i \in Q : batch[i] \in Scenarios
      BY <1>4, <1>6
    <2> DEFINE rest == Picked(batch, Q)
    <2>2. /\ rest \in Seq(Scenarios) /\ Len(rest) = Cardinality(Q)
          /\ ToSet(rest) = RowsAt(batch, Q)
      BY ONLY <2>1, PickedIs DEF rest
    <2> HIDE DEF rest
    <2>3. Pending(batch) = rest
      BY <1>8 DEF rest
    <2> QED
      BY ONLY <2>2, <2>3
  <1> HIDE DEF known
  <1>12. /\ DOMAIN known = 1..Len(known) /\ Len(known) \in Nat
         /\ \A i \in DOMAIN known : known[i] \in DOMAIN ledger.metrics /\ known[i] \in ToSet(batch)
    <2>1. \A i \in DOMAIN known : known[i] \in ToSet(known)
      BY DEF ToSet
    <2> QED
      BY <1>7, <1>10, <2>1, LenProperties, ElementOfSeq
  <1>13. Cached(batch) \in [1..Len(known) -> TrueOutcomes]
    BY <1>9, <1>12, KnownIsTrue
  <1>14. Cached(batch) \in Seq(TrueOutcomes) /\ Len(Cached(batch)) = Cardinality(P)
    BY <1>10, <1>12, <1>13, FunctionIsSeq
  <1>15. \A i \in DOMAIN Cached(batch) : Cached(batch)[i].s \in ToSet(batch)
    BY <1>9, <1>12
  <1>16. ToSet(Pending(batch)) \subseteq ToSet(batch)
    BY <1>7, <1>11
  <1>17. Len(Cached(batch)) + Len(Pending(batch)) = Len(batch)
    BY <1>1, <1>4, <1>11, <1>14
  <1> QED
    BY <1>11, <1>14, <1>15, <1>16, <1>17

LEMMA FinalistsAre ==
    ASSUME NEW rows \in Seq(TrueRows)
    PROVE  Finalists(rows) \in Seq(Picks)
  <1> DEFINE n == Min({FinalistCount, Len(rows)})
             top == Top(Ranked(rows), FinalistCount)
  <1>1. \A r \in TrueRows : r.score \in Int /\ r.s \in Scenarios
    BY DEF TrueRows
  <1>2. Ranked(rows) \in Seq(TrueRows) /\ Len(Ranked(rows)) = Len(rows)
    BY <1>1, RankedIs
  <1>3. Len(rows) \in Nat /\ FinalistCount \in Nat
    BY LenProperties, LoopAssumption
  <1>4. n \in Nat /\ n <= Len(rows)
    <2>1. {FinalistCount, Len(rows)} \in SUBSET Nat /\ {FinalistCount, Len(rows)} # {}
      BY <1>3
    <2> QED
      BY <1>3, <2>1, MinIs
  <1>5. top = SubSeq(Ranked(rows), 1, n)
    BY <1>2 DEF Top
  <1> HIDE DEF n
  <1>6. \A i \in 1..n : Ranked(rows)[i] \in TrueRows
    BY <1>2, <1>3, <1>4, ElementOfSeq
  <1>7. top \in Seq(TrueRows)
    BY <1>4, <1>5, <1>6, SubSeqProperties
  <1> HIDE DEF top
  <1>8. Len(top) \in Nat /\ DOMAIN top = 1..Len(top) /\ \A i \in DOMAIN top : top[i] \in TrueRows
    BY <1>7, LenProperties, ElementOfSeq
  <1>9. ASSUME NEW i \in DOMAIN top
        PROVE  [acts |-> IF top[i].given THEN top[i].s.acts ELSE <<>>,
                seed |-> IF top[i].given THEN top[i].s.seed ELSE 0] \in Picks
    <2>1. top[i].s.acts \in Seq(Int) /\ top[i].s.seed \in Int
      BY <1>1, <1>8 DEF Scenarios
    <2>2. << >> \in Seq(Int)
      BY EmptySeq
    <2> QED
      BY <2>1, <2>2 DEF Picks
  <1>10. Finalists(rows) = [i \in DOMAIN top |->
                              [acts |-> IF top[i].given THEN top[i].s.acts ELSE <<>>,
                               seed |-> IF top[i].given THEN top[i].s.seed ELSE 0]]
    BY DEF Finalists, top
  <1>11. Finalists(rows) \in [1..Len(top) -> Picks]
    BY <1>8, <1>9, <1>10
  <1> QED
    BY <1>8, <1>11, FunctionIsSeq

LEMMA PromotedAre ==
    ASSUME finalists \in Seq(Picks), NEW fidelity \in {"cheap", "mid", "high"}
    PROVE  /\ Promoted(fidelity) \in Seq(Scenarios)
           /\ Len(Promoted(fidelity)) = Len(finalists) * Replicates
  <1> DEFINE one(f) == [r \in 1..Replicates |-> Scenario(f.acts, f.seed + r, fidelity, "none")]
             all == [i \in DOMAIN finalists |-> one(finalists[i])]
  <1>1. Replicates \in Nat
    BY LoopAssumption
  <1>2. ASSUME NEW f \in Picks
        PROVE  one(f) \in Seq(Scenarios) /\ Len(one(f)) = Replicates
    <2>1. f.acts \in Seq(Int) /\ f.seed \in Int
      BY DEF Picks
    <2>2. \A r \in 1..Replicates : Scenario(f.acts, f.seed + r, fidelity, "none") \in Scenarios
      BY <1>1, <2>1 DEF Scenario, Scenarios
    <2>3. one(f) \in [1..Replicates -> Scenarios]
      BY <2>2
    <2> QED
      BY <1>1, <2>3, FunctionIsSeq
  <1>3. Len(finalists) \in Nat /\ DOMAIN finalists = 1..Len(finalists)
        /\ \A i \in DOMAIN finalists : finalists[i] \in Picks
    BY LenProperties, ElementOfSeq
  <1>4. all \in [1..Len(finalists) -> Seq(Scenarios)]
    <2> HIDE DEF one
    <2> QED
      BY <1>2, <1>3
  <1>5. all \in Seq(Seq(Scenarios)) /\ Len(all) = Len(finalists)
    <2> HIDE DEF all
    <2> QED
      BY <1>3, <1>4, FunctionIsSeq
  <1>6. Promoted(fidelity) = FlattenSeq(all)
    BY DEF Promoted
  <1>7. \A i \in 1..Len(all) : Len(all[i]) = Replicates
    <2> HIDE DEF one
    <2> QED
      BY <1>2, <1>3, <1>5
  <1> HIDE DEF all
  <1> QED
    BY <1>1, <1>5, <1>6, <1>7, FlattenIs, FlattenLength

LEMMA ModesAre ==
    /\ DOMAIN Modes = 1..3 /\ \A k \in 1..3 : Modes[k] \in ToSet(Modes)
    /\ ToSet(Modes) = {"sensitivity", "stress", "worst_case"}
  <1>1. DOMAIN Modes = 1..3
    BY DEF Modes
  <1>2. ToSet(Modes) = {Modes[1], Modes[2], Modes[3]}
    BY <1>1 DEF ToSet
  <1>3. Modes[1] = "sensitivity" /\ Modes[2] = "stress" /\ Modes[3] = "worst_case"
    BY DEF Modes
  <1> QED
    BY <1>1, <1>2, <1>3

LEMMA PerturbedAre ==
    ASSUME finalists \in Seq(Picks), NEW salt \in Salts
    PROVE  /\ Perturbed(salt) \in Seq(Scenarios)
           /\ Len(Perturbed(salt)) = Len(finalists) * Len(Modes)
  <1> DEFINE Adjust(mode, v) == IF mode = "worst_case" THEN MaxLever ELSE Min({MaxLever, v + 1})
             one(f) == [k \in DOMAIN Modes |->
                           Scenario([i \in DOMAIN f.acts |-> Adjust(Modes[k], f.acts[i])],
                                    f.seed + salt[Modes[k]], "mid", Modes[k])]
             all == [i \in DOMAIN finalists |-> one(finalists[i])]
  <1>1. MaxLever \in Int /\ salt \in [ToSet(Modes) -> Int]
    BY WorldAssumption
  <1>2. ASSUME NEW mode, NEW v \in Int
        PROVE  Adjust(mode, v) \in Int
    <2>1. \E x \in {MaxLever, v + 1} : \A y \in {MaxLever, v + 1} : x <= y
      BY <1>1
    <2>2. Min({MaxLever, v + 1}) \in {MaxLever, v + 1}
      BY <2>1 DEF Min
    <2> QED
      BY <1>1, <2>2
  <1>3. ASSUME NEW f \in Picks
        PROVE  one(f) \in Seq(Scenarios) /\ Len(one(f)) = 3
    <2>1. f.acts \in Seq(Int) /\ f.seed \in Int
      BY DEF Picks
    <2>2. /\ Len(f.acts) \in Nat /\ DOMAIN f.acts = 1..Len(f.acts)
          /\ \A i \in DOMAIN f.acts : f.acts[i] \in Int
      BY <2>1, LenProperties, ElementOfSeq
    <2>3. ASSUME NEW k \in 1..3
          PROVE  one(f)[k] \in Scenarios
      <3> DEFINE acts == [i \in DOMAIN f.acts |-> Adjust(Modes[k], f.acts[i])]
      <3>1. acts \in [1..Len(f.acts) -> Int]
        <4> HIDE DEF Adjust
        <4> QED
          BY <1>2, <2>2
      <3>2. acts \in Seq(Int)
        <4> HIDE DEF acts
        <4> QED
          BY <2>2, <3>1, FunctionIsSeq
      <3>3. f.seed + salt[Modes[k]] \in Int /\ Modes[k] \in ToSet(Modes)
        BY <1>1, <2>1, ModesAre
      <3>4. one(f)[k] = Scenario(acts, f.seed + salt[Modes[k]], "mid", Modes[k])
        BY ModesAre
      <3> HIDE DEF acts, one
      <3> QED
        BY <3>2, <3>3, <3>4 DEF Scenario, Scenarios
    <2>4. one(f) \in [1..3 -> Scenarios]
      BY <2>3, ModesAre
    <2> HIDE DEF one
    <2> QED
      BY <2>4, FunctionIsSeq
  <1>4. Len(finalists) \in Nat /\ DOMAIN finalists = 1..Len(finalists)
        /\ \A i \in DOMAIN finalists : finalists[i] \in Picks
    BY LenProperties, ElementOfSeq
  <1>5. all \in [1..Len(finalists) -> Seq(Scenarios)]
    <2> HIDE DEF one
    <2> QED
      BY <1>3, <1>4
  <1>6. all \in Seq(Seq(Scenarios)) /\ Len(all) = Len(finalists)
    <2> HIDE DEF all
    <2> QED
      BY <1>4, <1>5, FunctionIsSeq
  <1>7. Perturbed(salt) = FlattenSeq(all)
    BY DEF Perturbed
  <1>8. \A i \in 1..Len(all) : Len(all[i]) = 3
    <2> HIDE DEF one
    <2> QED
      BY <1>3, <1>4, <1>6
  <1>9. Len(Modes) = 3
    BY DEF Modes
  <1> HIDE DEF all
  <1> QED
    BY <1>6, <1>7, <1>8, <1>9, FlattenIs, FlattenLength

(* Rows that are inserted lengthen a table and say what was said before.    *)
LEMMA InsertedRows ==
    ASSUME NEW table, NEW new, NEW V,
           \A s \in DOMAIN table : table[s] \in Seq({V[s]}) /\ table[s] # << >>,
           \A s \in DOMAIN new : new[s] = <<V[s]>>
    PROVE  /\ DOMAIN Inserted(table, new) = DOMAIN table \cup DOMAIN new
           /\ \A s \in DOMAIN Inserted(table, new) :
                 Inserted(table, new)[s] \in Seq({V[s]}) /\ Inserted(table, new)[s] # << >>
  <1>1. DOMAIN Inserted(table, new) = DOMAIN table \cup DOMAIN new
    BY DEF Inserted
  <1>2. ASSUME NEW s \in DOMAIN table \cup DOMAIN new
        PROVE  Inserted(table, new)[s] \in Seq({V[s]}) /\ Inserted(table, new)[s] # << >>
    <2> DEFINE a == Rows(table, s)
               b == Rows(new, s)
    <2>1. Inserted(table, new)[s] = a \o b
      BY DEF Inserted
    <2>2. <<V[s]>> \in Seq({V[s]}) /\ Len(<<V[s]>>) = 1
      OBVIOUS
    <2>3. a \in Seq({V[s]}) /\ b \in Seq({V[s]})
      BY <2>2, EmptySeq DEF Rows
    <2>4. Len(a) # 0 \/ Len(b) # 0
      BY <2>2, EmptySeq DEF Rows
    <2> HIDE DEF a, b
    <2>5. a \o b \in Seq({V[s]}) /\ Len(a \o b) = Len(a) + Len(b) /\ Len(a) \in Nat /\ Len(b) \in Nat
      BY <2>3, ConcatProperties, LenProperties
    <2>6. Len(a \o b) # 0
      BY <2>4, <2>5
    <2> QED
      BY <2>1, <2>5, <2>6, EmptySeq
  <1> QED
    BY <1>1, <1>2

LEMMA MetricsGoIn ==
    ASSUME TInv, NEW outcome \in TrueOutcomes, DOMAIN outcome.metrics # {}, NEW found,
           ledger' = WithMetrics(ledger, outcome, found), pack' = pack
    PROVE  /\ TrueLedger'
           /\ ledger'.scenarios = ledger.scenarios /\ ledger'.scores = ledger.scores
           /\ DOMAIN ledger'.metrics = DOMAIN ledger.metrics \cup ({outcome.s} \ found)
  <1> DEFINE V == [s \in Scenarios |-> Run(s).metrics["m"]]
             new == [s \in {outcome.s} \ found |-> <<outcome.metrics["m"]>>]
             table == Inserted(ledger.metrics, new)
  <1>1. /\ DOMAIN ledger' = {"scenarios", "metrics", "scores", "steps"}
        /\ ledger'.metrics = table
        /\ ledger'.scenarios = ledger.scenarios /\ ledger'.scores = ledger.scores
    BY DEF TInv, TrueLedger, WithMetrics
  <1>2. /\ outcome.s \in Scenarios /\ outcome.metrics = Run(outcome.s).metrics
        /\ DOMAIN Run(outcome.s).metrics = {"m"}
    BY MetricsAre DEF TrueOutcomes
  <1>3. \A s \in DOMAIN new : new[s] = <<V[s]>> /\ s = outcome.s
    BY <1>2
  <1>4. \A s \in DOMAIN ledger.metrics :
            /\ s \in Scenarios /\ DOMAIN Run(s).metrics = {"m"} /\ V[s] = Run(s).metrics["m"]
            /\ ledger.metrics[s] \in Seq({V[s]}) /\ ledger.metrics[s] # << >>
    BY DEF TInv, TrueLedger
  <1>5. DOMAIN new = {outcome.s} \ found
    OBVIOUS
  <1>6. \A s \in Scenarios : V[s] = Run(s).metrics["m"]
    OBVIOUS
  <1> HIDE DEF new, V
  <1>7. /\ DOMAIN table = DOMAIN ledger.metrics \cup DOMAIN new
        /\ \A s \in DOMAIN table : table[s] \in Seq({V[s]}) /\ table[s] # << >>
    <2>1. \A s \in DOMAIN ledger.metrics :
              ledger.metrics[s] \in Seq({V[s]}) /\ ledger.metrics[s] # << >>
      BY <1>4
    <2>2. \A s \in DOMAIN new : new[s] = <<V[s]>>
      BY <1>3
    <2> QED
      BY ONLY <2>1, <2>2, InsertedRows
  <1> HIDE DEF table
  <1>8. \A s \in DOMAIN table : s \in Scenarios /\ DOMAIN Run(s).metrics = {"m"}
                                /\ V[s] = Run(s).metrics["m"]
    BY <1>2, <1>3, <1>4, <1>6, <1>7
  <1>9. \A s : (Run(s))' = Run(s) /\ (Verdict(s))' = Verdict(s)
    BY DEF Run, Verdict
  <1>10. TrueLedger'
    BY <1>1, <1>7, <1>8, <1>9 DEF TInv, TrueLedger
  <1> QED
    BY <1>1, <1>5, <1>7, <1>10

LEMMA ScoresGoIn ==
    ASSUME TInv, NEW rows \in Seq(TrueRows), NEW found,
           ledger' = WithScores(ledger, rows, found), pack' = pack
    PROVE  /\ TrueLedger'
           /\ ledger'.scenarios = ledger.scenarios /\ ledger'.metrics = ledger.metrics
           /\ DOMAIN ledger'.scores =
                 DOMAIN ledger.scores \cup ({rows[i].s : i \in DOMAIN rows} \ found)
  <1> DEFINE V == [s \in Scenarios |-> Verdict(s)]
             first(s) == Min({i \in DOMAIN rows : rows[i].s = s})
             new == [s \in {rows[i].s : i \in DOMAIN rows} \ found |-> <<rows[first(s)].score>>]
             table == Inserted(ledger.scores, new)
  <1>1. /\ DOMAIN ledger' = {"scenarios", "metrics", "scores", "steps"}
        /\ ledger'.scores = table
        /\ ledger'.scenarios = ledger.scenarios /\ ledger'.metrics = ledger.metrics
    BY DEF TInv, TrueLedger, WithScores
  <1>2. DOMAIN rows \subseteq Nat /\ \A i \in DOMAIN rows : rows[i] \in TrueRows
    BY LenProperties, ElementOfSeq
  <1>3. \A r \in TrueRows : r.s \in Scenarios /\ r.score = Verdict(r.s)
    BY DEF TrueRows
  <1>4. ASSUME NEW s \in DOMAIN new
        PROVE  new[s] = <<Verdict(s)>> /\ s \in Scenarios
    <2> DEFINE T == {i \in DOMAIN rows : rows[i].s = s}
    <2>1. T \in SUBSET Nat /\ T # {}
      BY <1>2
    <2>2. Min(T) \in T
      <3> HIDE DEF T
      <3> QED
        BY <2>1, MinIs
    <2>3. rows[Min(T)].s = s /\ rows[Min(T)].score = Verdict(s) /\ s \in Scenarios
      BY <1>2, <1>3, <2>2
    <2>4. new[s] = <<rows[Min(T)].score>>
      OBVIOUS
    <2> QED
      BY <2>3, <2>4
  <1>5. \A s \in Scenarios : V[s] = Verdict(s)
    OBVIOUS
  <1>6. DOMAIN new = {rows[i].s : i \in DOMAIN rows} \ found
    OBVIOUS
  <1> HIDE DEF new, V
  <1>7. /\ DOMAIN table = DOMAIN ledger.scores \cup DOMAIN new
        /\ \A s \in DOMAIN table : table[s] \in Seq({V[s]}) /\ table[s] # << >>
    <2>1. \A s \in DOMAIN ledger.scores :
              ledger.scores[s] \in Seq({V[s]}) /\ ledger.scores[s] # << >>
      BY <1>5 DEF TInv, TrueLedger
    <2>2. \A s \in DOMAIN new : new[s] = <<V[s]>>
      BY <1>4, <1>5
    <2> QED
      BY ONLY <2>1, <2>2, InsertedRows
  <1> HIDE DEF table
  <1>8. \A s \in DOMAIN table : s \in Scenarios /\ table[s] \in Seq({Verdict(s)}) /\ table[s] # << >>
    <2>1. \A s \in DOMAIN table : s \in Scenarios
      BY <1>4, <1>7 DEF TInv, TrueLedger
    <2> QED
      BY <1>5, <1>7, <2>1
  <1>9. \A s : (Run(s))' = Run(s) /\ (Verdict(s))' = Verdict(s)
    BY DEF Run, Verdict
  <1>10. TrueLedger'
    BY <1>1, <1>8, <1>9 DEF TInv, TrueLedger
  <1> QED
    BY <1>1, <1>6, <1>7, <1>10

LEMMA ScenariosGoIn ==
    ASSUME TInv, ledger' = WithScenarios(ledger, batch) \/ ledger' = [ledger EXCEPT !.steps = @ \cup {iteration}],
           pack' = pack
    PROVE  /\ TrueLedger'
           /\ ledger.scenarios \subseteq ledger'.scenarios
           /\ ledger'.metrics = ledger.metrics /\ ledger'.scores = ledger.scores
           /\ ledger' = WithScenarios(ledger, batch) => ToSet(batch) \subseteq ledger'.scenarios
  <1>1. /\ DOMAIN ledger' = {"scenarios", "metrics", "scores", "steps"}
        /\ ledger'.metrics = ledger.metrics /\ ledger'.scores = ledger.scores
        /\ ledger.scenarios \subseteq ledger'.scenarios
        /\ ledger' = WithScenarios(ledger, batch) => ToSet(batch) \subseteq ledger'.scenarios
    BY DEF TInv, TrueLedger, WithScenarios
  <1>2. \A s : (Run(s))' = Run(s) /\ (Verdict(s))' = Verdict(s)
    BY DEF Run, Verdict
  <1>3. TrueLedger'
    BY <1>1, <1>2 DEF TInv, TrueLedger
  <1> QED
    BY <1>1, <1>3

(* The data of a step are true if each of them is. *)
LEMMA TrueStep ==
    ASSUME TInv, pack' = pack, TrueLedger', TrueLate',
           batch' \in Seq(Scenarios), finalists' \in Seq(Picks), outcomes' \in Seq(TrueOutcomes),
           next' \in Nat \ {0}, scored' \in Seq(TrueRows), allScored' \in Seq(TrueRows)
    PROVE  TInv'
  BY SameWorld DEF TInv

LEMMA TrueTables ==
    ASSUME TInv, UNCHANGED <<pack, batch, finalists, outcomes, next, scored, allScored>>,
           TrueLedger', TrueLate'
    PROVE  TInv'
  BY TrueStep DEF TInv

LEMMA TrueData ==
    ASSUME TInv, UNCHANGED <<pack, ledger, late>>,
           batch' \in Seq(Scenarios), finalists' \in Seq(Picks), outcomes' \in Seq(TrueOutcomes),
           next' \in Nat \ {0}, scored' \in Seq(TrueRows), allScored' \in Seq(TrueRows)
    PROVE  TInv'
  BY TrueStep, SameLedger, SameLate DEF TInv

LEMMA ProposedAre ==
    ASSUME NEW proposal \in Batches
    PROVE  LET proposed == [i \in DOMAIN proposal |->
                               Scenario(proposal[i].acts, proposal[i].seed, "cheap", "none")]
           IN  proposed \in Seq(Scenarios) /\ Len(proposed) = BatchSize
  <1> DEFINE proposed == [i \in DOMAIN proposal |->
                             Scenario(proposal[i].acts, proposal[i].seed, "cheap", "none")]
  <1>1. /\ Len(proposal) \in Nat /\ Len(proposal) = BatchSize /\ DOMAIN proposal = 1..Len(proposal)
        /\ \A i \in DOMAIN proposal : proposal[i] \in [acts : Seq(Int), seed : Int]
    <2>1. proposal \in Seq([acts : Seq(Int), seed : Int]) /\ Len(proposal) = BatchSize
      BY WorldAssumption
    <2> QED
      BY <2>1, LenProperties, ElementOfSeq
  <1>2. proposed \in [1..Len(proposal) -> Scenarios]
    <2>1. ASSUME NEW i \in DOMAIN proposal
          PROVE  Scenario(proposal[i].acts, proposal[i].seed, "cheap", "none") \in Scenarios
      <3>1. proposal[i].acts \in Seq(Int) /\ proposal[i].seed \in Int
        BY <1>1
      <3> QED
        BY <3>1 DEF Scenario, Scenarios
    <2> QED
      BY <1>1, <2>1
  <1> HIDE DEF proposed
  <1>3. proposed \in Seq(Scenarios) /\ Len(proposed) = BatchSize
    BY <1>1, <1>2, FunctionIsSeq
  <1> QED
    BY <1>3 DEF proposed

(* The outcome that is next, if there is one. *)
LEMMA NextOutcome ==
    ASSUME TInv, next <= Len(outcomes)
    PROVE  next \in DOMAIN outcomes /\ outcomes[next] \in TrueOutcomes
  BY LenProperties, ElementOfSeq DEF TInv

LEMMA Begun ==
    ASSUME TInv, TimesOut
    PROVE  TrueLate'
  <1> DEFINE l == [step |-> step, at |-> call.at, found |-> call.found,
                   outcomes |-> IF step = "metrics" THEN <<outcomes[next]>> ELSE <<>>,
                   rows |-> IF step = "scores" THEN scored ELSE <<>>]
  <1>1. late' = late \cup {l} /\ pack' = pack /\ (Storing \/ step = "scores")
    BY DEF TimesOut
  <1>2. /\ l.step = step /\ l.rows \in Seq(TrueRows)
        /\ step = "metrics" => l.outcomes[1] = outcomes[next]
    BY EmptySeq DEF TInv
  <1>3. step = "metrics" => outcomes[next] \in TrueOutcomes /\ DOMAIN outcomes[next].metrics # {}
    BY <1>1, NextOutcome DEF Storing
  <1>4. step \in {"metrics", "scores"}
    BY <1>1 DEF Storing
  <1> HIDE DEF l
  <1>5. TrueLate /\ TrueOutcomes' = TrueOutcomes /\ TrueRows' = TrueRows
    BY <1>1, SameWorld DEF TInv
  <1> QED
    BY <1>1, <1>2, <1>3, <1>4, <1>5 DEF TrueLate

LEMMA RunningOn ==
    ASSUME TInv, NEW l \in late, LateRead(l)
    PROVE  TrueLate'
  <1>1. pack' = pack
    BY DEF LateRead
  <1>2. TrueLate /\ TrueOutcomes' = TrueOutcomes /\ TrueRows' = TrueRows
    BY <1>1, SameWorld DEF TInv
  <1>3. CASE late' = late \ {l}
    BY <1>2, <1>3 DEF TrueLate
  <1>4. CASE late' # late \ {l}
    <2> DEFINE found == IF l.step = "metrics" THEN FoundMetrics(l.outcomes[1]) ELSE FoundScores(l.rows)
               k == [l EXCEPT !.at = "read", !.found = found]
    <2>1. late' = (late \ {l}) \cup {k}
      BY <1>4 DEF LateRead
    <2>2. k.step = l.step /\ k.rows = l.rows /\ k.outcomes = l.outcomes
      OBVIOUS
    <2> HIDE DEF k
    <2> QED
      BY <1>2, <2>1, <2>2 DEF TrueLate
  <1> QED
    BY <1>3, <1>4

LEMMA LateIsTrue ==
    ASSUME TInv, NEW l \in late, LateCommit(l)
    PROVE  TrueLedger' /\ TrueLate'
  <1>1. pack' = pack /\ late' \subseteq late
    BY DEF LateCommit
  <1>2. TrueLate'
    BY <1>1, SameLate DEF TInv
  <1>3. CASE l.step = "metrics"
    <2>1. l.outcomes[1] \in TrueOutcomes /\ DOMAIN l.outcomes[1].metrics # {}
      BY <1>3 DEF TInv, TrueLate
    <2>2. ledger' = WithMetrics(ledger, l.outcomes[1], l.found)
      BY <1>3 DEF LateCommit
    <2> QED
      BY <1>1, <1>2, <2>1, <2>2, MetricsGoIn
  <1>4. CASE l.step # "metrics"
    <2>1. l.rows \in Seq(TrueRows)
      BY DEF TInv, TrueLate
    <2>2. ledger' = WithScores(ledger, l.rows, l.found)
      BY <1>4 DEF LateCommit
    <2> QED
      BY <1>1, <1>2, <2>1, <2>2, ScoresGoIn
  <1> QED
    BY <1>3, <1>4

LEMMA TruthInductive == TInv /\ [Next]_vars => TInv'
  <1> SUFFICES ASSUME TInv, [Next]_vars PROVE TInv'
    OBVIOUS
  <1> USE DEF env, loop, data
  <1>1. CASE PersistReply \/ Iterate \/ ScoresReply \/ Update \/ RecordReply \/ Converge \/ Progress
    BY <1>1, TrueData DEF TInv, PersistReply, Iterate, ScoresReply, Update, RecordReply, Converge, Progress
  <1>2. CASE MetricsRead \/ ScoresRead \/ ScoresRaise \/ AttemptFails
    BY <1>2, TrueData DEF TInv, MetricsRead, ScoresRead, ScoresRaise, AttemptFails
  <1>3. CASE SkipMetrics \/ MetricsReply
    <2>1. next' \in Nat \ {0}
      BY <1>3 DEF SkipMetrics, MetricsReply, Count, TInv
    <2> QED
      BY <1>3, <2>1, TrueData DEF TInv, SkipMetrics, MetricsReply, Count
  <1>4. CASE Generate
    BY <1>4, WorldAssumption, TrueData DEF TInv, Generate
  <1>5. CASE Propose
    <2>1. batch' \in Seq(Scenarios)
      BY <1>5, ProposedAre DEF Propose
    <2> QED
      BY <1>5, <2>1, TrueData DEF TInv, Propose
  <1>6. CASE Fetch
    BY <1>6, FetchedIsTrue, TrueData DEF TInv, Fetch
  <1>7. CASE Simulate
    <2>1. outcomes' \in Seq(TrueOutcomes)
      BY <1>7, SimulatedIsTrue, ConcatProperties DEF Simulate, TInv
    <2> QED
      BY <1>7, <2>1, TrueData DEF TInv, Simulate
  <1>8. CASE Judge
    <2>1. scored' \in Seq(TrueRows) /\ allScored' \in Seq(TrueRows)
      BY <1>8, JudgeIsTrue, ConcatProperties DEF Judge, TInv
    <2> QED
      BY <1>8, <2>1, TrueData DEF TInv, Judge
  <1>9. CASE Leave
    <2>1. Scored(allScored) \in Seq({r \in TrueRows : r.status = "scored"})
      BY ScoredIs DEF TInv
    <2>2. Scored(allScored) \in Seq(TrueRows)
      BY <2>1
    <2>3. finalists' \in Seq(Picks)
      BY <1>9, <2>2, FinalistsAre DEF Leave
    <2> QED
      BY <1>9, <2>3, TrueData DEF TInv, Leave
  <1>10. CASE Promote
    <2>1. batch' \in Seq(Scenarios)
      BY <1>10, PromotedAre, ConcatProperties DEF Promote, TInv
    <2> QED
      BY <1>10, <2>1, TrueData DEF TInv, Promote
  <1>11. CASE Perturb
    <2>1. batch' \in Seq(Scenarios)
      BY <1>11, PerturbedAre DEF Perturb, TInv
    <2> QED
      BY <1>11, <2>1, TrueData DEF TInv, Perturb
  <1>12. CASE PersistCommit \/ RecordCommit
    <2>1. TrueLedger'
      BY <1>12, ScenariosGoIn DEF PersistCommit, RecordCommit
    <2>2. TrueLate'
      BY <1>12, SameLate DEF TInv, PersistCommit, RecordCommit
    <2> QED
      BY <1>12, <2>1, <2>2, TrueTables DEF PersistCommit, RecordCommit
  <1>13. CASE MetricsCommit
    <2>1. outcomes[next] \in TrueOutcomes /\ DOMAIN outcomes[next].metrics # {}
      BY <1>13, NextOutcome DEF MetricsCommit, Storing
    <2>2. TrueLedger'
      BY <1>13, <2>1, MetricsGoIn DEF MetricsCommit
    <2>3. TrueLate'
      BY <1>13, SameLate DEF TInv, MetricsCommit
    <2> QED
      BY <1>13, <2>2, <2>3, TrueTables DEF MetricsCommit
  <1>14. CASE ScoresCommit
    <2>1. TrueLedger'
      BY <1>14, ScoresGoIn DEF ScoresCommit, TInv
    <2>2. TrueLate'
      BY <1>14, SameLate DEF TInv, ScoresCommit
    <2> QED
      BY <1>14, <2>1, <2>2, TrueTables DEF ScoresCommit
  <1>15. CASE TimesOut
    <2>1. TrueLedger'
      BY <1>15, SameLedger DEF TInv, TimesOut
    <2> QED
      BY <1>15, <2>1, Begun, TrueTables DEF TimesOut
  <1>16. ASSUME NEW l \in late, LateRead(l)
         PROVE  TInv'
    <2>1. TrueLedger'
      BY <1>16, SameLedger DEF TInv, LateRead
    <2> QED
      BY <1>16, <2>1, RunningOn, TrueTables DEF LateRead
  <1>17. ASSUME NEW l \in late, LateCommit(l)
         PROVE  TInv'
    BY <1>17, LateIsTrue, TrueTables DEF LateCommit
  <1>18. CASE UNCHANGED vars
    BY <1>18, TrueData DEF TInv, vars
  <1> QED
    BY <1>1, <1>2, <1>3, <1>4, <1>5, <1>6, <1>7, <1>8, <1>9, <1>10, <1>11, <1>12, <1>13,
       <1>14, <1>15, <1>16, <1>17, <1>18
       DEF Next, Work

-----------------------------------------------------------------------------
(* What is in the ledger already, by the place of the workflow.  Rows are   *)
(* only added, by whomever.                                                 *)
Known(s) == DOMAIN Run(s).metrics # {} => s \in DOMAIN ledger.metrics

FoundIsThere ==
    /\ call.at = "read" =>
          call.found \subseteq IF step = "metrics" THEN DOMAIN ledger.metrics ELSE DOMAIN ledger.scores
    /\ step = "metrics" /\ call.at = "committed" => Storing

BatchIsThere ==
    (step = "persist" /\ call.at = "committed") \/ step \in {"fetch", "simulate"} =>
        ToSet(batch) \subseteq ledger.scenarios

OutcomesAreThere ==
    /\ step = "simulate" => next = 1
    /\ step \in {"simulate", "metrics"} =>
          \A i \in DOMAIN outcomes : outcomes[i].s \in ledger.scenarios
    /\ step = "metrics" =>
          \A i \in DOMAIN outcomes :
              i < next \/ (i = next /\ call.at = "committed") => Known(outcomes[i].s)

(* Scored, and not yet in the ledger. *)
Underway(s) ==
    \/ step = "scores" /\ call.at # "committed" /\ s \in {scored[j].s : j \in DOMAIN scored}
    \/ step = "failed"

RowsAreThere ==
    \A i \in DOMAIN allScored :
        /\ allScored[i].s \in ledger.scenarios /\ Known(allScored[i].s)
        /\ allScored[i].s \in DOMAIN ledger.scores \/ Underway(allScored[i].s)

PInv == FoundIsThere /\ BatchIsThere /\ OutcomesAreThere /\ RowsAreThere

Grows ==
    /\ pack' = pack
    /\ ledger.scenarios \subseteq ledger'.scenarios
    /\ DOMAIN ledger.metrics \subseteq DOMAIN ledger'.metrics
    /\ DOMAIN ledger.scores \subseteq DOMAIN ledger'.scores

LEMMA StillKnown ==
    ASSUME Grows, NEW s, Known(s)
    PROVE  Known(s)'
  BY DEF Grows, Known, Run

(* Rows that are there stay there, and those underway are there at the end. *)
LEMMA StillThere ==
    ASSUME RowsAreThere, Grows, allScored' = allScored,
           \A s : Underway(s) => s \in DOMAIN ledger'.scores \/ Underway(s)'
    PROVE  RowsAreThere'
  <1> SUFFICES ASSUME NEW i \in DOMAIN allScored
               PROVE  /\ allScored[i].s \in ledger'.scenarios /\ Known(allScored[i].s)'
                      /\ allScored[i].s \in DOMAIN ledger'.scores \/ Underway(allScored[i].s)'
    BY DEF RowsAreThere
  <1>1. /\ allScored[i].s \in ledger.scenarios /\ Known(allScored[i].s)
        /\ allScored[i].s \in DOMAIN ledger.scores \/ Underway(allScored[i].s)
    BY DEF RowsAreThere
  <1> QED
    BY <1>1, StillKnown DEF Grows

(* A step that waits, by what stays as it was: the place, the data, and     *)
(* what the attempt has found.                                              *)
LEMMA StillWaiting ==
    ASSUME PInv, Grows, UNCHANGED <<step, call, batch, outcomes, next, scored, allScored>>
    PROVE  PInv'
  <1>1. FoundIsThere' /\ BatchIsThere'
    BY DEF PInv, FoundIsThere, BatchIsThere, Grows, Storing
  <1>2. OutcomesAreThere'
    <2>1. \A i \in DOMAIN outcomes : Known(outcomes[i].s) => Known(outcomes[i].s)'
      BY StillKnown
    <2> QED
      BY <2>1 DEF PInv, OutcomesAreThere, Grows
  <1>3. \A s : Underway(s) => Underway(s)'
    BY DEF Underway
  <1>4. RowsAreThere'
    BY <1>3, StillThere DEF PInv
  <1> QED
    BY <1>1, <1>2, <1>4 DEF PInv

(* A step to another activity. *)
LEMMA GoingOn ==
    ASSUME PInv, Grows, allScored' = allScored, call'.at = "begun",
           step # "scores" \/ call.at = "committed" \/ step' = "failed" \/
               (step' = "scores" /\ scored' = scored),
           step = "failed" => step' = "failed",
           BatchIsThere', OutcomesAreThere'
    PROVE  PInv'
  <1>1. FoundIsThere'
    BY DEF FoundIsThere
  <1>2. \A s : Underway(s) => Underway(s)'
    BY DEF Underway
  <1>3. RowsAreThere'
    BY <1>2, StillThere DEF PInv
  <1> QED
    BY <1>1, <1>3 DEF PInv

LEMMA Same ==
    ASSUME pack' = pack, ledger' = ledger
    PROVE  Grows
  BY DEF Grows

(* The writers. *)
LEMMA PresenceOfScenarios ==
    ASSUME LInv, TInv, PInv, PersistCommit \/ RecordCommit
    PROVE  PInv'
  <1>1. /\ pack' = pack /\ call'.at = "committed" /\ step' = step
        /\ UNCHANGED <<batch, outcomes, next, scored, allScored>>
        /\ step \in {"persist", "record"}
    BY DEF PersistCommit, RecordCommit, Advance, Awaits, data, env, LInv
  <1>2. /\ ledger.scenarios \subseteq ledger'.scenarios
        /\ ledger'.metrics = ledger.metrics /\ ledger'.scores = ledger.scores
        /\ step = "persist" => ToSet(batch) \subseteq ledger'.scenarios
    BY <1>1, ScenariosGoIn DEF PersistCommit, RecordCommit, Awaits
  <1>3. Grows
    BY <1>1, <1>2 DEF Grows
  <1>4. FoundIsThere' /\ BatchIsThere' /\ OutcomesAreThere'
    BY <1>1, <1>2 DEF FoundIsThere, BatchIsThere, OutcomesAreThere
  <1>5. RowsAreThere'
    BY <1>1, <1>3, StillThere DEF PInv, Underway
  <1> QED
    BY <1>4, <1>5 DEF PInv

LEMMA PresenceOfMetrics ==
    ASSUME LInv, TInv, PInv, MetricsCommit
    PROVE  PInv'
  <1>1. /\ pack' = pack /\ call.at = "read" /\ call'.at = "committed"
        /\ step = "metrics" /\ step' = "metrics" /\ next <= Len(outcomes)
        /\ DOMAIN outcomes[next].metrics # {}
        /\ UNCHANGED <<batch, outcomes, next, scored, allScored>>
    BY DEF MetricsCommit, Storing, Advance, data, env, LInv
  <1>2. outcomes[next] \in TrueOutcomes
    BY <1>1, NextOutcome
  <1>3. /\ ledger'.scenarios = ledger.scenarios /\ ledger'.scores = ledger.scores
        /\ DOMAIN ledger'.metrics = DOMAIN ledger.metrics \cup ({outcomes[next].s} \ call.found)
    BY <1>1, <1>2, MetricsGoIn DEF MetricsCommit
  <1>4. Grows
    BY <1>1, <1>3 DEF Grows
  <1>5. outcomes[next].s \in DOMAIN ledger'.metrics
    BY <1>1, <1>3 DEF PInv, FoundIsThere
  <1>6. FoundIsThere' /\ BatchIsThere'
    BY <1>1 DEF FoundIsThere, BatchIsThere, Storing
  <1>7. OutcomesAreThere'
    <2>1. \A i \in DOMAIN outcomes : Known(outcomes[i].s) => Known(outcomes[i].s)'
      BY <1>1, <1>4, StillKnown
    <2>2. Known(outcomes[next].s)'
      BY <1>1, <1>5 DEF Known
    <2> QED
      BY <1>1, <1>3, <2>1, <2>2 DEF PInv, OutcomesAreThere
  <1>8. RowsAreThere'
    BY <1>1, <1>4, StillThere DEF PInv, Underway
  <1> QED
    BY <1>6, <1>7, <1>8 DEF PInv

LEMMA PresenceOfScores ==
    ASSUME LInv, TInv, PInv, ScoresCommit
    PROVE  PInv'
  <1>1. /\ pack' = pack /\ call.at = "read" /\ call'.at = "committed"
        /\ step = "scores" /\ step' = "scores"
        /\ UNCHANGED <<batch, outcomes, next, scored, allScored>>
    BY DEF ScoresCommit, Advance, data, env, LInv
  <1> DEFINE new == {scored[i].s : i \in DOMAIN scored}
  <1>2. /\ ledger'.scenarios = ledger.scenarios /\ ledger'.metrics = ledger.metrics
        /\ DOMAIN ledger'.scores = DOMAIN ledger.scores \cup (new \ call.found)
    BY <1>1, ScoresGoIn DEF ScoresCommit, TInv
  <1>3. Grows
    BY <1>1, <1>2 DEF Grows
  <1>4. new \subseteq DOMAIN ledger'.scores
    <2> HIDE DEF new
    <2> QED
      BY <1>1, <1>2 DEF PInv, FoundIsThere
  <1>5. FoundIsThere' /\ BatchIsThere' /\ OutcomesAreThere'
    BY <1>1 DEF FoundIsThere, BatchIsThere, OutcomesAreThere
  <1>6. \A s : Underway(s) => s \in DOMAIN ledger'.scores
    BY <1>1, <1>4 DEF Underway
  <1>7. RowsAreThere'
    BY <1>1, <1>3, <1>6, StillThere DEF PInv
  <1> QED
    BY <1>5, <1>7 DEF PInv

LEMMA PresenceOfLate ==
    ASSUME TInv, PInv, NEW l \in late, LateRead(l) \/ LateCommit(l)
    PROVE  PInv'
  <1>1. pack' = pack /\ UNCHANGED <<step, call, batch, outcomes, next, scored, allScored>>
    BY DEF LateRead, LateCommit, control, data
  <1>2. Grows
    <2>1. CASE LateRead(l)
      BY <2>1, Same DEF LateRead
    <2>2. CASE LateCommit(l) /\ l.step = "metrics"
      <3>1. l.outcomes[1] \in TrueOutcomes /\ DOMAIN l.outcomes[1].metrics # {}
        BY <2>2 DEF TInv, TrueLate
      <3>2. ledger' = WithMetrics(ledger, l.outcomes[1], l.found)
        BY <2>2 DEF LateCommit
      <3> QED
        BY <1>1, <3>1, <3>2, MetricsGoIn DEF Grows
    <2>3. CASE LateCommit(l) /\ l.step # "metrics"
      <3>1. l.rows \in Seq(TrueRows)
        BY DEF TInv, TrueLate
      <3>2. ledger' = WithScores(ledger, l.rows, l.found)
        BY <2>3 DEF LateCommit
      <3> QED
        BY <1>1, <3>1, <3>2, ScoresGoIn DEF Grows
    <2> QED
      BY <2>1, <2>2, <2>3
  <1> QED
    BY <1>1, <1>2, StillWaiting

(* The outcomes that the next activity works with are of scenarios that are *)
(* in the ledger.                                                           *)
LEMMA PresenceOfFetched ==
    ASSUME TInv, PInv, Fetch
    PROVE  PInv'
  <1>1. /\ pack' = pack /\ ledger' = ledger /\ allScored' = allScored
        /\ step = "fetch" /\ step' \in {"simulate", "metrics"} /\ call'.at = "begun"
        /\ outcomes' = Cached(batch) /\ batch' = Pending(batch) /\ next' = 1
    BY DEF Fetch, Awaits, GoTo, FirstAttempt, env
  <1>2. ToSet(batch) \subseteq ledger.scenarios
    BY <1>1 DEF PInv, BatchIsThere
  <1>3. BatchIsThere'
    BY <1>1, <1>2, FetchedIsTrue DEF BatchIsThere
  <1>4. OutcomesAreThere'
    <2>1. \A i \in DOMAIN outcomes' : outcomes'[i].s \in ledger'.scenarios
      BY <1>1, <1>2, FetchedIsTrue
    <2>2. \A i \in DOMAIN outcomes' : i \in Nat \ {0}
      BY <1>1, FetchedIsTrue, LenProperties
    <2>3. \A i \in DOMAIN outcomes' : ~(i < next') /\ call'.at # "committed"
      BY <1>1, <2>2
    <2> QED
      BY <1>1, <2>1, <2>3 DEF OutcomesAreThere
  <1> QED
    BY <1>1, <1>3, <1>4, Same, GoingOn

LEMMA PresenceOfSimulated ==
    ASSUME TInv, PInv, Simulate
    PROVE  PInv'
  <1> DEFINE simulated == [i \in DOMAIN batch |-> Run(batch[i])]
  <1>1. /\ pack' = pack /\ ledger' = ledger /\ allScored' = allScored
        /\ step = "simulate" /\ step' = "metrics" /\ call'.at = "begun"
        /\ outcomes' = outcomes \o simulated /\ next' = 1
    <2>1. next = 1
      BY DEF PInv, OutcomesAreThere, Simulate, Awaits
    <2> QED
      BY <2>1 DEF Simulate, Awaits, GoTo, FirstAttempt, env
  <1>2. /\ ToSet(batch) \subseteq ledger.scenarios
        /\ \A i \in DOMAIN outcomes : outcomes[i].s \in ledger.scenarios
    BY <1>1 DEF PInv, BatchIsThere, OutcomesAreThere
  <1>3. /\ simulated \in Seq(TrueOutcomes) /\ outcomes \in Seq(TrueOutcomes)
        /\ Len(simulated) = Len(batch)
    BY SimulatedIsTrue DEF TInv
  <1>4. \A i \in DOMAIN simulated : simulated[i].s \in ledger.scenarios
    <2>1. \A i \in DOMAIN batch : batch[i] \in ToSet(batch)
      BY DEF ToSet
    <2> QED
      BY <1>2, <2>1 DEF Run
  <1> HIDE DEF simulated
  <1>5. /\ DOMAIN outcomes' = 1..Len(outcomes) + Len(simulated)
        /\ \A i \in 1..Len(outcomes) + Len(simulated) :
              outcomes'[i] = IF i <= Len(outcomes) THEN outcomes[i] ELSE simulated[i - Len(outcomes)]
    <2>1. /\ outcomes' \in Seq(TrueOutcomes)
          /\ Len(outcomes') = Len(outcomes) + Len(simulated)
      BY <1>1, <1>3, ConcatProperties
    <2>2. DOMAIN outcomes' = 1..Len(outcomes')
      BY <2>1, LenProperties
    <2> QED
      BY <1>1, <1>3, <2>1, <2>2, ConcatProperties
  <1>6. ASSUME NEW i \in DOMAIN outcomes'
        PROVE  outcomes'[i].s \in ledger'.scenarios
    <2>1. /\ Len(outcomes) \in Nat /\ Len(simulated) \in Nat
          /\ DOMAIN outcomes = 1..Len(outcomes) /\ DOMAIN simulated = 1..Len(simulated)
      BY <1>3, LenProperties
    <2>2. i \in 1..Len(outcomes) + Len(simulated)
      BY <1>5
    <2>3. CASE i <= Len(outcomes)
      <3>1. outcomes'[i] = outcomes[i] /\ i \in DOMAIN outcomes
        BY <1>5, <2>1, <2>2, <2>3
      <3> QED
        BY <1>1, <1>2, <3>1
    <2>4. CASE ~(i <= Len(outcomes))
      <3>1. outcomes'[i] = simulated[i - Len(outcomes)] /\ i - Len(outcomes) \in DOMAIN simulated
        BY <1>5, <2>1, <2>2, <2>4
      <3> QED
        BY <1>1, <1>4, <3>1
    <2> QED
      BY <2>3, <2>4
  <1>7. \A i \in DOMAIN outcomes' : ~(i < next') /\ call'.at # "committed"
    <2>1. Len(outcomes) \in Nat /\ Len(simulated) \in Nat
      BY <1>3, LenProperties
    <2> QED
      BY <1>1, <1>5, <2>1
  <1>8. OutcomesAreThere' /\ BatchIsThere'
    BY <1>1, <1>6, <1>7 DEF OutcomesAreThere, BatchIsThere
  <1> QED
    BY <1>1, <1>8, Same, GoingOn

(* The rows of the last batch come behind those of the earlier ones.        *)
LEMMA Appended ==
    ASSUME NEW T, NEW a \in Seq(T), NEW b \in Seq(T), NEW i \in DOMAIN (a \o b)
    PROVE  \/ i \in DOMAIN a /\ (a \o b)[i] = a[i]
           \/ i - Len(a) \in DOMAIN b /\ (a \o b)[i] = b[i - Len(a)]
  <1>1. /\ Len(a) \in Nat /\ Len(b) \in Nat
        /\ DOMAIN a = 1..Len(a) /\ DOMAIN b = 1..Len(b)
    BY LenProperties
  <1>2. a \o b \in Seq(T) /\ Len(a \o b) = Len(a) + Len(b)
    BY ConcatProperties
  <1>3. i \in 1..Len(a) + Len(b)
    BY <1>2, LenProperties
  <1>4. (a \o b)[i] = IF i <= Len(a) THEN a[i] ELSE b[i - Len(a)]
    BY <1>3, ConcatProperties
  <1> QED
    BY <1>1, <1>3, <1>4

LEMMA PresenceOfJudged ==
    ASSUME TInv, PInv, Judge
    PROVE  PInv'
  <1>1. /\ pack' = pack /\ ledger' = ledger /\ outcomes' = outcomes
        /\ step = "metrics" /\ step' = "scores" /\ call'.at = "begun" /\ next > Len(outcomes)
        /\ scored' = JudgeScoreOutcomes(Mute, Objectives, outcomes)
        /\ allScored' = allScored \o scored'
    BY DEF Judge, GoTo, FirstAttempt, env
  <1>2. /\ scored' \in Seq(TrueRows) /\ allScored \in Seq(TrueRows)
        /\ DOMAIN scored' = DOMAIN outcomes
        /\ \A i \in DOMAIN outcomes : scored'[i].s = outcomes[i].s
    BY <1>1, JudgeIsTrue DEF TInv
  <1>3. FoundIsThere' /\ BatchIsThere' /\ OutcomesAreThere'
    BY <1>1 DEF FoundIsThere, BatchIsThere, OutcomesAreThere
  <1>4. ASSUME NEW i \in DOMAIN allScored'
        PROVE  /\ allScored'[i].s \in ledger'.scenarios /\ Known(allScored[i].s)'
               /\ allScored'[i].s \in DOMAIN ledger'.scores \/ Underway(allScored[i].s)'
    <2>1. CASE i \in DOMAIN allScored /\ allScored'[i] = allScored[i]
      <3>1. /\ allScored[i].s \in ledger.scenarios /\ Known(allScored[i].s)
            /\ allScored[i].s \in DOMAIN ledger.scores \/ Underway(allScored[i].s)
        BY <2>1 DEF PInv, RowsAreThere
      <3>2. allScored[i].s \in DOMAIN ledger.scores
        BY <1>1, <3>1 DEF Underway
      <3>3. Known(allScored[i].s)'
        BY <1>1, <2>1, <3>1 DEF Known, Run
      <3> QED
        BY <1>1, <2>1, <3>1, <3>2, <3>3
    <2>2. ASSUME NEW j, j = i - Len(allScored), j \in DOMAIN scored', allScored'[i] = scored'[j]
          PROVE  /\ allScored'[i].s \in ledger'.scenarios /\ Known(allScored[i].s)'
                 /\ Underway(allScored[i].s)'
      <3>1. j \in DOMAIN outcomes /\ allScored'[i].s = outcomes[j].s
        BY <1>2, <2>2
      <3>2. j \in 1..Len(outcomes) /\ Len(outcomes) \in Nat /\ next \in Nat
        BY <3>1, LenProperties DEF TInv
      <3>3. j < next
        BY <1>1, <3>2
      <3>4. outcomes[j].s \in ledger.scenarios /\ Known(outcomes[j].s)
        BY <1>1, <3>1, <3>3 DEF PInv, OutcomesAreThere
      <3>5. Known(allScored[i].s)'
        BY <1>1, <3>1, <3>4 DEF Known, Run
      <3>6. Underway(allScored[i].s)'
        BY <1>1, <2>2 DEF Underway
      <3> QED
        BY <1>1, <3>1, <3>4, <3>5, <3>6
    <2> QED
      BY <1>1, <1>2, <2>1, <2>2, Appended
  <1>5. RowsAreThere'
    BY <1>4 DEF RowsAreThere
  <1> QED
    BY <1>3, <1>5 DEF PInv

(* An outcome that is passed over has no metrics, or they are stored.       *)
LEMMA PresenceOfCounted ==
    ASSUME LInv, TInv, PInv, SkipMetrics \/ MetricsReply
    PROVE  PInv'
  <1>1. /\ pack' = pack /\ ledger' = ledger /\ next' = next + 1 /\ next \in Nat
        /\ UNCHANGED <<outcomes, allScored, batch>>
        /\ step = "metrics" /\ step' = "metrics"
    BY DEF SkipMetrics, MetricsReply, Replied, Count, GoTo, control, env, TInv
  <1>2. next \in DOMAIN outcomes => Known(outcomes[next].s)
    <2>1. SUFFICES ASSUME next \in DOMAIN outcomes PROVE Known(outcomes[next].s)
      OBVIOUS
    <2>2. CASE MetricsReply
      BY <1>1, <2>1, <2>2 DEF PInv, OutcomesAreThere, MetricsReply, Replied
    <2>3. CASE SkipMetrics
      <3>1. next <= Len(outcomes) /\ DOMAIN outcomes[next].metrics = {}
        BY <2>3 DEF SkipMetrics, Storing
      <3>2. outcomes[next].metrics = Run(outcomes[next].s).metrics
        BY <3>1, NextOutcome DEF TrueOutcomes
      <3> QED
        BY <3>1, <3>2 DEF Known
    <2> QED
      BY <2>2, <2>3
  <1>3. call'.at # "committed" /\ (call' = call \/ call'.at = "begun")
    BY DEF SkipMetrics, MetricsReply, GoTo, FirstAttempt, PInv, FoundIsThere, Storing, control
  <1>4. FoundIsThere' /\ BatchIsThere'
    BY <1>1, <1>3 DEF PInv, FoundIsThere, BatchIsThere
  <1>5. OutcomesAreThere'
    <2>1. ASSUME NEW i \in DOMAIN outcomes, i < next + 1
          PROVE  Known(outcomes[i].s)'
      <3>1. i \in Nat
        BY LenProperties DEF TInv
      <3>2. i < next \/ i = next
        BY <1>1, <2>1, <3>1
      <3>3. Known(outcomes[i].s)
        BY <1>1, <1>2, <3>2 DEF PInv, OutcomesAreThere
      <3> QED
        BY <1>1, <3>3 DEF Known, Run
    <2> QED
      BY <1>1, <1>3, <2>1 DEF PInv, OutcomesAreThere
  <1>6. RowsAreThere'
    BY <1>1, Same, StillThere DEF PInv, Underway
  <1> QED
    BY <1>4, <1>5, <1>6 DEF PInv

(* An attempt that begins anew, or the end of the attempts. *)
LEMMA PresenceOfRetried ==
    ASSUME LInv, PInv, ledger' = ledger, pack' = pack, UNCHANGED data, Retry, Awaiting
    PROVE  PInv'
  <1>1. UNCHANGED <<batch, outcomes, next, scored, allScored>> /\ step # "failed"
    BY DEF data, Awaiting
  <1>2. call'.at = "begun" /\ (step' = step \/ step' = "failed")
    BY Beginning DEF Retry, GoTo, FirstAttempt
  <1>3. BatchIsThere'
    BY <1>1, <1>2 DEF PInv, BatchIsThere
  <1>4. OutcomesAreThere'
    BY <1>1, <1>2 DEF PInv, OutcomesAreThere, Known, Run
  <1> QED
    BY <1>1, <1>2, <1>3, <1>4, Same, GoingOn

(* What an attempt finds is there. *)
LEMMA PresenceOfRead ==
    ASSUME LInv, PInv, MetricsRead \/ ScoresRead
    PROVE  PInv'
  <1>1. /\ pack' = pack /\ ledger' = ledger /\ step' = step
        /\ UNCHANGED <<batch, outcomes, next, scored, allScored>>
        /\ step \in {"metrics", "scores"}
        /\ call.at = "begun" /\ call'.at = "read"
        /\ call'.found = IF step = "metrics" THEN FoundMetrics(outcomes[next]) ELSE FoundScores(scored)
    BY DEF MetricsRead, ScoresRead, Storing, Awaits, data, env, LInv
  <1>2. FoundIsThere'
    BY <1>1 DEF FoundIsThere, FoundMetrics, FoundScores
  <1>3. BatchIsThere' /\ OutcomesAreThere'
    BY <1>1 DEF PInv, BatchIsThere, OutcomesAreThere, Known, Run
  <1>4. \A s : Underway(s) => Underway(s)'
    BY <1>1 DEF Underway
  <1>5. RowsAreThere'
    BY <1>1, <1>4, Same, StillThere DEF PInv
  <1> QED
    BY <1>2, <1>3, <1>5 DEF PInv

(* The activities that neither read nor write the ledger. *)
LEMMA PresenceElsewhere ==
    ASSUME PInv,
           \/ Generate \/ PersistReply \/ Iterate \/ Leave \/ Propose \/ ScoresReply
           \/ Update \/ RecordReply \/ Converge \/ Promote \/ Perturb \/ Progress
    PROVE  PInv'
  <1>1. pack' = pack /\ ledger' = ledger /\ allScored' = allScored
    <2>1. CASE Generate \/ Iterate \/ Leave \/ Propose \/ Promote \/ Perturb
      BY <2>1 DEF Generate, Iterate, Leave, Propose, Promote, Perturb, data, env
    <2>2. CASE PersistReply \/ ScoresReply \/ Update \/ RecordReply \/ Converge \/ Progress
      BY <2>2 DEF PersistReply, ScoresReply, Update, RecordReply, Converge, Progress, data, env
    <2> QED
      BY <2>1, <2>2
  <1>2. call'.at = "begun"
    <2>1. call' = FirstAttempt
      <3>1. CASE Generate \/ Iterate \/ Leave \/ Propose \/ Promote \/ Perturb
        BY <3>1 DEF Generate, Iterate, Leave, Propose, Promote, Perturb, GoTo
      <3>2. CASE PersistReply \/ ScoresReply \/ Update \/ RecordReply \/ Converge \/ Progress
        BY <3>2 DEF PersistReply, ScoresReply, Update, RecordReply, Converge, Progress, GoTo
      <3> QED
        BY <3>1, <3>2
    <2> QED
      BY <2>1 DEF FirstAttempt
  <1>3. step \notin {"scores", "failed"} \/ (step = "scores" /\ call.at = "committed")
    BY DEF Generate, PersistReply, Iterate, Leave, Propose, ScoresReply, Update, RecordReply,
           Converge, Promote, Perturb, Progress, Awaits, Replied
  <1>4. BatchIsThere'
    <2>1. CASE PersistReply
      BY <1>1, <2>1 DEF PInv, BatchIsThere, PersistReply, Replied, GoTo, data
    <2>2. CASE ~PersistReply
      <3>1. step' \notin {"fetch", "simulate"}
        BY <2>2 DEF Generate, Iterate, Leave, Propose, ScoresReply, Update, RecordReply,
           Converge, Promote, Perturb, Progress, GoTo
      <3> QED
        BY <1>2, <3>1 DEF BatchIsThere
    <2> QED
      BY <2>1, <2>2
  <1>5. OutcomesAreThere'
    <2>1. step' \notin {"simulate", "metrics"}
      BY DEF Generate, PersistReply, Iterate, Leave, Propose, ScoresReply, Update, RecordReply,
           Converge, Promote, Perturb, Progress, GoTo
    <2> QED
      BY <2>1 DEF OutcomesAreThere
  <1> QED
    BY <1>1, <1>2, <1>3, <1>4, <1>5, Same, GoingOn

LEMMA PresenceInductive == LInv /\ TInv /\ PInv /\ [Next]_vars => PInv'
  <1> SUFFICES ASSUME LInv, TInv, PInv, [Next]_vars PROVE PInv'
    OBVIOUS
  <1>1. CASE PersistCommit \/ RecordCommit
    BY <1>1, PresenceOfScenarios
  <1>2. CASE MetricsCommit
    BY <1>2, PresenceOfMetrics
  <1>3. CASE ScoresCommit
    BY <1>3, PresenceOfScores
  <1>4. CASE Fetch
    BY <1>4, PresenceOfFetched
  <1>5. CASE Simulate
    BY <1>5, PresenceOfSimulated
  <1>6. CASE Judge
    BY <1>6, PresenceOfJudged
  <1>7. CASE SkipMetrics \/ MetricsReply
    BY <1>7, PresenceOfCounted
  <1>8. CASE MetricsRead \/ ScoresRead
    BY <1>8, PresenceOfRead
  <1>9. CASE ScoresRaise \/ AttemptFails \/ TimesOut
    <2>1. ledger' = ledger /\ pack' = pack /\ UNCHANGED data /\ Retry
      BY <1>9 DEF ScoresRaise, AttemptFails, TimesOut, env
    <2>2. Awaiting
      BY <1>9 DEF ScoresRaise, AttemptFails, TimesOut, Awaits, Awaiting, Storing
    <2> QED
      BY <2>1, <2>2, PresenceOfRetried
  <1>10. CASE \E l \in late : LateRead(l) \/ LateCommit(l)
    BY <1>10, PresenceOfLate
  <1>11. CASE \/ Generate \/ PersistReply \/ Iterate \/ Leave \/ Propose \/ ScoresReply
              \/ Update \/ RecordReply \/ Converge \/ Promote \/ Perturb \/ Progress
    BY <1>11, PresenceElsewhere
  <1>12. CASE UNCHANGED vars
    <2>1. pack' = pack /\ ledger' = ledger
          /\ UNCHANGED <<step, call, batch, outcomes, next, scored, allScored>>
      BY <1>12 DEF vars, control, data
    <2> QED
      BY <2>1, Same, StillWaiting
  <1> QED
    BY <1>1, <1>2, <1>3, <1>4, <1>5, <1>6, <1>7, <1>8, <1>9, <1>10, <1>11, <1>12
       DEF Next, Work

(* The rows of one value hold that value. *)
LEMMA OneValue ==
    ASSUME NEW v, NEW rows \in Seq({v}), rows # << >>
    PROVE  ToSet(rows) = {v}
  <1>1. Len(rows) \in Nat /\ Len(rows) # 0 /\ DOMAIN rows = 1..Len(rows)
    BY LenProperties, EmptySeq
  <1>2. \A i \in DOMAIN rows : rows[i] = v
    BY ElementOfSeq, <1>1
  <1>3. 1 \in DOMAIN rows
    BY <1>1
  <1> QED
    BY <1>2, <1>3 DEF ToSet

LEMMA RankedAsStoredHolds == TInv /\ PInv => RankedAsStored
  <1> SUFFICES ASSUME TInv, PInv, step \notin {"scores", "failed"}, NEW i \in DOMAIN allScored
               PROVE  Stored(allScored[i])
    BY DEF RankedAsStored
  <1> DEFINE row == allScored[i]
  <1>1. row \in TrueRows
    BY LenProperties, ElementOfSeq DEF TInv
  <1>2. row.s \in ledger.scenarios /\ Known(row.s) /\ row.s \in DOMAIN ledger.scores
    BY DEF PInv, RowsAreThere, Underway
  <1>3. row.metrics = Run(row.s).metrics /\ row.score = Verdict(row.s)
    BY <1>1 DEF TrueRows
  <1> HIDE DEF row
  <1>4. /\ ledger.scores[row.s] \in Seq({Verdict(row.s)}) /\ ledger.scores[row.s] # << >>
        /\ Rows(ledger.scores, row.s) = ledger.scores[row.s]
    BY <1>2 DEF TInv, TrueLedger, Rows
  <1>5. ToSet(ledger.scores[row.s]) = {row.score}
    BY <1>3, <1>4, OneValue
  <1>6. ToSet(Rows(ledger.metrics, row.s)) = {row.metrics[n] : n \in DOMAIN row.metrics}
    <2>1. CASE row.s \in DOMAIN ledger.metrics
      <3>1. /\ DOMAIN row.metrics = {"m"}
            /\ ledger.metrics[row.s] \in Seq({row.metrics["m"]}) /\ ledger.metrics[row.s] # << >>
            /\ Rows(ledger.metrics, row.s) = ledger.metrics[row.s]
        BY <1>3, <2>1 DEF TInv, TrueLedger, Rows
      <3>2. ToSet(ledger.metrics[row.s]) = {row.metrics["m"]}
        BY <3>1, OneValue
      <3> QED
        BY <3>1, <3>2
    <2>2. CASE row.s \notin DOMAIN ledger.metrics
      <3>1. DOMAIN row.metrics = {} /\ Rows(ledger.metrics, row.s) = << >>
        BY <1>2, <1>3, <2>2 DEF Known, Rows
      <3>2. ToSet(<< >>) = {}
        BY DEF ToSet
      <3> QED
        BY <3>1, <3>2
    <2> QED
      BY <2>1, <2>2
  <1> QED
    BY <1>2, <1>4, <1>5, <1>6 DEF Stored, row

LEMMA TrueAtFirst == Init => TInv /\ PInv
  <1> SUFFICES ASSUME Init PROVE TInv /\ PInv
    OBVIOUS
  <1>1. \A T : << >> \in Seq(T)
    BY EmptySeq
  <1>2. /\ DOMAIN batch = {} /\ DOMAIN outcomes = {} /\ DOMAIN allScored = {}
        /\ DOMAIN ledger.metrics = {} /\ DOMAIN ledger.scores = {}
        /\ DOMAIN ledger = {"scenarios", "metrics", "scores", "steps"}
    BY DEF Init, NewLedger
  <1>3. TInv
    BY <1>1, <1>2 DEF Init, TInv, TrueLedger, TrueLate
  <1>4. PInv
    BY <1>2 DEF Init, FirstAttempt, PInv, FoundIsThere, BatchIsThere, OutcomesAreThere, RowsAreThere
  <1> QED
    BY <1>3, <1>4

\* A run ranks every outcome by the score that the ledger has for it, and the
\* metrics there are those of its simulation (none of a failed one): although
\* persist_metric_results and persist_judge_scores fail after their commit and
\* are tried again, although a timed-out attempt goes on beside the next one,
\* and although a scenario comes up again, simulated or cached.
THEOREM RankedAsLedger == Spec => []RankedAsStored
  <1>1. Init => LInv /\ TInv /\ PInv
    BY TrueAtFirst, LedgerAtFirst
  <1>2. LInv /\ TInv /\ PInv /\ [Next]_vars => (LInv /\ TInv /\ PInv)'
    BY LedgerInductive, TruthInductive, PresenceInductive
  <1> QED
    BY <1>1, <1>2, RankedAsStoredHolds, PTL DEF Spec

-----------------------------------------------------------------------------
(* The best score.  The optimizer's best is the score of a row of the loop, *)
(* and nothing follows the step that shows the results.                     *)
LEMMA FewRows ==
    ASSUME NEW T, NEW rows \in Seq(T)
    PROVE  IsFiniteSet(ToSet(rows))
  <1>1. Len(rows) \in Nat /\ DOMAIN rows = 1..Len(rows)
    BY LenProperties
  <1>2. rows \in [1..Len(rows) -> ToSet(rows)] /\ \A x \in ToSet(rows) : \E i \in 1..Len(rows) : rows[i] = x
    BY <1>1, LenProperties DEF ToSet
  <1>3. ExistsSurjection(1..Len(rows), ToSet(rows))
    BY <1>2 DEF ExistsSurjection, Surjection
  <1> QED
    BY <1>1, <1>3, FS_NatSurjection

LEMMA Together ==
    ASSUME NEW T, NEW a \in Seq(T), NEW b \in Seq(T)
    PROVE  ToSet(a \o b) = ToSet(a) \cup ToSet(b)
  <1>1. Range(a \o b) = Range(a) \cup Range(b)
    BY RangeConcatenation
  <1> QED
    BY <1>1 DEF ToSet, Range

AmongRows(b) == \E r \in ToSet(allScored) : r.status = "scored" /\ r.score = b

BInv ==
    /\ IsFiniteSet(optimizer.best) /\ \A b \in optimizer.best : AmongRows(b)
    /\ step \in {"scores", "update"} => ToSet(scored) \subseteq ToSet(allScored)
    /\ shown # {} => step = "ended"
    /\ shown \subseteq {[summary |-> Summary(allScored, Scored(allScored)),
                         candidates |-> Candidates(Scored(allScored))]}

LEMMA BestStays ==
    ASSUME BInv, UNCHANGED <<allScored, optimizer, shown>>,
           step' # step => step # "ended",
           step' \in {"scores", "update"} => step \in {"scores", "update"} /\ scored' = scored
    PROVE  BInv'
  BY DEF BInv, AmongRows

LEMMA BestTold ==
    ASSUME TInv, BInv, Update
    PROVE  BInv'
  <1> DEFINE done == Scored(scored)
             told == [i \in DOMAIN done |-> done[i].score]
             all  == optimizer.best \cup ToSet(told)
  <1>1. /\ step = "update" /\ step' = "record" /\ scored' = scored
        /\ UNCHANGED <<allScored, shown>>
        /\ optimizer'.best = Optional(all, Max(all))
    BY DEF Update, Awaits, GoTo, Tell
  <1>2. /\ done \in Seq({r \in TrueRows : r.status = "scored"})
        /\ ToSet(done) = {r \in ToSet(scored) : r.status = "scored"}
    BY ScoredIs DEF TInv
  <1>3. \A r \in ToSet(allScored) : r.score \in Int
    <2>1. \A i \in DOMAIN allScored : allScored[i] \in TrueRows
      BY LenProperties, ElementOfSeq DEF TInv
    <2> QED
      BY <2>1 DEF ToSet, TrueRows
  <1>4. told \in Seq(Int) /\ \A b \in ToSet(told) : AmongRows(b)
    <2>1. /\ Len(done) \in Nat /\ DOMAIN done = 1..Len(done)
          /\ \A i \in DOMAIN done : done[i] \in ToSet(done)
      BY <1>2, LenProperties DEF ToSet
    <2>2. \A i \in DOMAIN done : done[i] \in ToSet(allScored) /\ done[i].status = "scored"
      BY <1>1, <1>2, <2>1 DEF BInv
    <2> HIDE DEF done
    <2>3. \A i \in 1..Len(done) : told[i] \in Int
      BY <1>3, <2>1, <2>2
    <2>4. told \in Seq(Int)
      BY <2>1, <2>3, IsASeq
    <2>5. \A b \in ToSet(told) : AmongRows(b)
      BY <2>2 DEF ToSet, AmongRows
    <2> QED
      BY <2>4, <2>5
  <1> HIDE DEF told
  <1>5. IsFiniteSet(all) /\ all \subseteq Int /\ \A b \in all : AmongRows(b)
    <2>1. IsFiniteSet(all)
      BY <1>4, FewRows, FS_Union DEF BInv
    <2>2. \A b \in all : AmongRows(b)
      BY <1>4 DEF BInv
    <2> QED
      BY <1>3, <2>1, <2>2 DEF AmongRows
  <1> HIDE DEF all
  <1>6. IsFiniteSet(optimizer'.best) /\ optimizer'.best \subseteq all
    <2>1. CASE all = {}
      BY <1>1, <2>1, FS_EmptySet DEF Optional
    <2>2. CASE all # {}
      <3>1. Max(all) \in all
        BY <1>5, <2>2, MaxIs
      <3>2. optimizer'.best = {Max(all)}
        BY <1>1, <2>2 DEF Optional
      <3> QED
        BY <3>1, <3>2, FS_Singleton
    <2> QED
      BY <2>1, <2>2
  <1> QED
    BY <1>1, <1>5, <1>6 DEF BInv, AmongRows

LEMMA BestJudged ==
    ASSUME TInv, BInv, Judge
    PROVE  BInv'
  <1>1. /\ step = "metrics" /\ step' = "scores" /\ UNCHANGED <<optimizer, shown>>
        /\ scored' \in Seq(TrueRows) /\ allScored' = allScored \o scored'
        /\ allScored \in Seq(TrueRows)
    BY JudgeIsTrue DEF Judge, GoTo, TInv
  <1>2. ToSet(allScored') = ToSet(allScored) \cup ToSet(scored')
    BY <1>1, Together
  <1> QED
    BY <1>1, <1>2 DEF BInv, AmongRows

LEMMA BestInductive == TInv /\ BInv /\ [Next]_vars => BInv'
  <1> SUFFICES ASSUME TInv, BInv, [Next]_vars PROVE BInv'
    OBVIOUS
  <1>1. CASE Update
    BY <1>1, BestTold
  <1>2. CASE Judge
    BY <1>2, BestJudged
  <1>3. CASE Progress
    BY <1>3 DEF Progress, Awaits, GoTo, BInv, AmongRows
  <1>4. CASE \/ Generate \/ PersistCommit \/ PersistReply \/ Iterate \/ Propose \/ Promote \/ Perturb
    BY <1>4, BestStays DEF Generate, PersistCommit, PersistReply, Iterate, Propose, Promote, Perturb,
       Awaits, Replied, Advance, GoTo, data
  <1>5. CASE \/ Fetch \/ Simulate \/ SkipMetrics \/ MetricsRead \/ MetricsCommit \/ MetricsReply
    BY <1>5, BestStays DEF Fetch, Simulate, SkipMetrics, MetricsRead, MetricsCommit, MetricsReply,
       Storing, Count, Awaits, Replied, Advance, GoTo, control, data
  <1>6. CASE \/ ScoresRead \/ ScoresCommit \/ ScoresReply \/ RecordCommit \/ RecordReply \/ Converge
    BY <1>6, BestStays DEF ScoresRead, ScoresCommit, ScoresReply, RecordCommit, RecordReply, Converge,
       Awaits, Replied, Advance, GoTo, data
  <1>7. CASE Leave
    BY <1>7, BestStays DEF Leave, GoTo, data
  <1>8. CASE ScoresRaise \/ AttemptFails \/ TimesOut
    <2>1. UNCHANGED data /\ Retry /\ step # "ended"
      BY <1>8 DEF ScoresRaise, AttemptFails, TimesOut, Awaits, Awaiting, Storing
    <2> QED
      BY <2>1, BestStays DEF Retry, GoTo, data
  <1>9. CASE \E l \in late : LateRead(l) \/ LateCommit(l)
    BY <1>9, BestStays DEF LateRead, LateCommit, control, data
  <1>10. CASE UNCHANGED vars
    BY <1>10, BestStays DEF vars, control, data
  <1> QED
    BY <1>1, <1>2, <1>3, <1>4, <1>5, <1>6, <1>7, <1>8, <1>9, <1>10 DEF Next, Work

LEMMA BestIsShownThen == TInv /\ BInv => BestIsShown
  <1> DEFINE rows == Scored(allScored)
  <1> SUFFICES ASSUME TInv, BInv, NEW run \in shown
               PROVE
        /\ run.summary.best = {run.candidates[i].score : i \in DOMAIN run.candidates \cap {1}}
        /\ run.summary.bestScenario = {run.candidates[i].s : i \in DOMAIN run.candidates \cap {1}}
        /\ \A b \in optimizer.best : \E m \in run.summary.best : m >= b
    BY DEF BestIsShown
  <1>1. run.summary = Summary(allScored, rows) /\ run.candidates = Candidates(rows)
    BY DEF BInv
  <1>2. /\ rows \in Seq({r \in TrueRows : r.status = "scored"})
        /\ ToSet(rows) = {r \in ToSet(allScored) : r.status = "scored"}
    BY ScoredIs DEF TInv
  <1> HIDE DEF rows
  <1>3. OneScore(rows)
    <2>1. \A i \in DOMAIN rows : rows[i] \in TrueRows
      BY <1>2, LenProperties, ElementOfSeq
    <2>2. rows \in Seq({rows[i] : i \in DOMAIN rows})
      <3>1. Len(rows) \in Nat /\ DOMAIN rows = 1..Len(rows) /\ rows = [i \in 1..Len(rows) |-> rows[i]]
        BY <1>2, LenProperties
      <3> DEFINE R == {rows[i] : i \in DOMAIN rows}
      <3>2. \A i \in 1..Len(rows) : rows[i] \in R
        BY <3>1
      <3> HIDE DEF R
      <3>3. rows \in Seq(R)
        BY <3>1, <3>2, IsASeq
      <3> QED
        BY <3>3 DEF R
    <2> QED
      BY <2>1, <2>2 DEF OneScore, TrueRows
  <1>4. ASSUME NEW b \in optimizer.best
        PROVE  \E m \in run.summary.best : m >= b
    <2>1. PICK r \in ToSet(rows) : r.score = b
      BY <1>2 DEF BInv, AmongRows
    <2>2. PICK k \in DOMAIN rows : rows[k].score = b
      BY <2>1 DEF ToSet
    <2>3. Len(rows) # 0
      BY <1>3, <2>2, Positions
    <2>4. PICK g \in DOMAIN rows : /\ BestScore(rows) = {rows[g].score}
                                   /\ \A j \in DOMAIN rows : rows[j].score <= rows[g].score
      BY <1>3, <2>3, BestScoreIs
    <2>5. run.summary.best = BestScore(rows)
      BY <1>1 DEF Summary
    <2>6. rows[k].score \in Int /\ rows[g].score \in Int
      BY <1>3 DEF OneScore
    <2> QED
      BY <2>2, <2>4, <2>5, <2>6
  <1>5. /\ run.summary.best = {run.candidates[i].score : i \in DOMAIN run.candidates \cap {1}}
        /\ run.summary.bestScenario = {run.candidates[i].s : i \in DOMAIN run.candidates \cap {1}}
    BY <1>1, <1>3, FirstCandidate
  <1> QED
    BY <1>4, <1>5

\* The best scenario of the summary (aggregate_results) is the first candidate
\* that persist_run_progress writes, with the same score, and no score that the
\* optimizer holds for its best is above it.
THEOREM BestIsFirst == Spec => []BestIsShown
  <1>1. Init => TInv /\ BInv
    <2>1. Init => BInv
      BY FS_EmptySet DEF Init, BInv
    <2> QED
      BY <2>1, TrueAtFirst
  <1>2. TInv /\ BInv /\ [Next]_vars => (TInv /\ BInv)'
    BY TruthInductive, BestInductive
  <1> QED
    BY <1>1, <1>2, BestIsShownThen, PTL DEF Spec

-----------------------------------------------------------------------------
(* The finalists.  Who has metrics in the ledger was simulated, and the row *)
(* of that stands before any that came from the ledger; so the first of the *)
(* best rows is one that knows its levers.                                   *)
Given(s) == \E j \in DOMAIN allScored : allScored[j].s = s /\ allScored[j].given

Made(s) ==
    \/ Given(s)
    \/ step = "metrics" /\ \E j \in DOMAIN outcomes :
                              outcomes[j].s = s /\ outcomes[j].status = "completed"

Origins ==
    /\ \A s \in DOMAIN ledger.metrics : Made(s)
    /\ \A l \in late : l.step = "metrics" => Made(l.outcomes[1].s)
    /\ step \in {"simulate", "metrics"} =>
          \A j \in DOMAIN outcomes : outcomes[j].status = "cached" => Given(outcomes[j].s)
    /\ \A i \in DOMAIN allScored : allScored[i].status = "scored" =>
          \E j \in 1..i : allScored[j].s = allScored[i].s /\ allScored[j].given

(* The optimizer has the best of the rows that it was told of. *)
Topped ==
    /\ \A a, b \in optimizer.best : a = b
    /\ \A r \in ToSet(allScored) : r.status = "scored" =>
          \/ \E b \in optimizer.best : b >= r.score
          \/ step \in {"scores", "update"} /\ r \in ToSet(scored)

InLoop == phase \in {"initial", "loop"}

DInv == IF InLoop THEN finalists = <<>> /\ Origins /\ Topped ELSE BestIsPromoted

(* A row of the past keeps its place. *)
LEMMA Prefixed ==
    ASSUME NEW T, NEW a \in Seq(T), NEW b \in Seq(T), NEW i \in DOMAIN a
    PROVE  i \in DOMAIN (a \o b) /\ (a \o b)[i] = a[i]
  <1>1. /\ Len(a) \in Nat /\ Len(b) \in Nat /\ DOMAIN a = 1..Len(a)
    BY LenProperties
  <1>2. a \o b \in Seq(T) /\ Len(a \o b) = Len(a) + Len(b)
    BY ConcatProperties
  <1>3. DOMAIN (a \o b) = 1..Len(a) + Len(b)
    BY <1>2, LenProperties
  <1>4. i \in 1..Len(a) + Len(b) /\ i <= Len(a)
    BY <1>1
  <1> QED
    BY <1>3, <1>4, ConcatProperties

(* Who is cached has metrics in the ledger. *)
LEMMA CachedAreKnown ==
    ASSUME TInv, NEW i \in DOMAIN Cached(batch)
    PROVE  Cached(batch)[i].s \in DOMAIN ledger.metrics
  <1> DEFINE P == {j \in DOMAIN batch : batch[j] \in DOMAIN ledger.metrics}
             known == Picked(batch, P)
  <1>1. Len(batch) \in Nat /\ DOMAIN batch = 1..Len(batch)
    BY LenProperties DEF TInv
  <1>2. P \subseteq Int /\ P \in SUBSET (1..Len(batch)) /\ IsFiniteSet(1..Len(batch))
    BY <1>1, FS_Interval
  <1>3. IsFiniteSet(P)
    BY <1>2, FS_Subset
  <1>4. \A j \in P : batch[j] \in DOMAIN ledger.metrics
    OBVIOUS
  <1>5. Cached(batch) = [j \in DOMAIN known |-> [s |-> known[j], status |-> "cached",
                                 metrics |-> [m \in {"m"} |-> Last(ledger.metrics[known[j]])]]]
    BY DEF Cached
  <1> HIDE DEF P
  <1>6. known \in Seq(DOMAIN ledger.metrics)
    BY <1>2, <1>3, <1>4, PickedIs
  <1> HIDE DEF known
  <1>7. i \in DOMAIN known /\ Cached(batch)[i].s = known[i]
    BY <1>5
  <1> QED
    BY <1>6, <1>7, LenProperties, ElementOfSeq

(* The first of a ranking is the first of the best. *)
LEMMA FirstRanked ==
    ASSUME NEW S, NEW rows \in Seq(S), \A r \in S : r.score \in Int, Len(rows) # 0
    PROVE  \E g \in DOMAIN rows :
              /\ Ranked(rows)[1] = rows[g]
              /\ \A j \in DOMAIN rows : /\ rows[j].score <= rows[g].score
                                        /\ rows[j].score = rows[g].score => g <= j
  <1> DEFINE ahead == [i \in DOMAIN rows |-> {j \in DOMAIN rows : Before(rows, j, i)}]
             order == Ordered(ahead)
             g == order[1]
  <1>1. Len(rows) \in Nat /\ DOMAIN rows = 1..Len(rows) /\ \A i \in DOMAIN rows : rows[i] \in S
    BY LenProperties, ElementOfSeq
  <1>2. IsFiniteSet(DOMAIN rows) /\ Cardinality(DOMAIN rows) = Len(rows)
    <2>1. /\ IsFiniteSet(1..Len(rows))
          /\ Cardinality(1..Len(rows)) = IF 1 > Len(rows) THEN 0 ELSE Len(rows) - 1 + 1
      BY <1>1, FS_Interval
    <2> QED
      BY <1>1, <2>1
  <1>3. \A i \in DOMAIN rows : rows[i].score \in Int /\ i \in Int
    BY <1>1
  <1>4. Enumerable(ahead)
    BY <1>2, <1>3 DEF Enumerable, Before
  <1>5. DOMAIN ahead = DOMAIN rows
        /\ \A i \in DOMAIN rows : ahead[i] = {j \in DOMAIN rows : Before(rows, j, i)}
    OBVIOUS
  <1>6. Ranked(rows) = [k \in DOMAIN order |-> rows[order[k]]]
    BY DEF Ranked
  <1> HIDE DEF ahead
  <1>7. DOMAIN order = 1..Len(rows)
        /\ \A k \in DOMAIN order : order[k] \in DOMAIN rows /\ Cardinality(ahead[order[k]]) = k - 1
    BY <1>2, <1>4, <1>5, OrderedEnumerates
  <1> HIDE DEF order
  <1>8. 1 \in DOMAIN order
    BY <1>1, <1>7
  <1>9. g \in DOMAIN rows /\ Cardinality(ahead[g]) = 0 /\ Ranked(rows)[1] = rows[g]
    BY <1>6, <1>7, <1>8
  <1> HIDE DEF g
  <1>10. ahead[g] = {}
    <2>1. ahead[g] \in SUBSET DOMAIN rows
      BY <1>5, <1>9
    <2>2. IsFiniteSet(ahead[g])
      BY <1>2, <2>1, FS_Subset
    <2> QED
      BY <1>9, <2>2, FS_EmptySet
  <1>11. \A j \in DOMAIN rows : ~Before(rows, j, g)
    BY <1>5, <1>9, <1>10
  <1> QED
    BY <1>3, <1>9, <1>11 DEF Before

(* The best row of the loop that comes first knows its levers and its seed. *)
LEMMA BestKnows ==
    ASSUME TInv, Origins, Len(Scored(allScored)) # 0
    PROVE  \E i \in DOMAIN allScored :
              /\ Ranked(Scored(allScored))[1] = allScored[i]
              /\ allScored[i].given /\ allScored[i].status = "scored"
              /\ \A r \in ToSet(allScored) : r.status = "scored" => r.score <= allScored[i].score
  <1> DEFINE F == {r \in TrueRows : r.status = "scored"}
             m == Len(allScored)
             P == {i \in DOMAIN allScored : allScored[i].status = "scored"}
             rows == Scored(allScored)
  <1>1. /\ m \in Nat /\ DOMAIN allScored = 1..m
        /\ \A i \in 1..m : allScored[i] \in TrueRows
    BY LenProperties, ElementOfSeq DEF TInv
  <1>2. rows \in Seq(F) /\ ToSet(rows) = {r \in ToSet(allScored) : r.status = "scored"}
    BY ScoredIs DEF TInv
  <1>3. P = Within(allScored, m, F)
    BY <1>1 DEF Within
  <1>4. rows = Picked(allScored, Within(allScored, m, F))
    BY <1>3 DEF Scored
  <1>5. \A r \in F : r.score \in Int
    BY DEF TrueRows
  <1> HIDE DEF P, m
  <1>6. PICK o : Takes(Picked(allScored, Within(allScored, m, F)), allScored, m, F, o)
    <2> HIDE DEF F, rows
    <2> QED
      BY <1>1, PickedTake
  <1>7. /\ Len(rows) \in Nat /\ DOMAIN rows = 1..Len(rows)
        /\ \A k \in DOMAIN rows : o[k] \in 1..m /\ rows[k] = allScored[o[k]] /\ rows[k] \in F
        /\ \A k, l \in DOMAIN rows : k < l => o[k] < o[l]
        /\ \A i \in 1..m : allScored[i] \in F => \E k \in DOMAIN rows : o[k] = i
    <2> HIDE DEF F, rows
    <2> QED
      BY <1>4, <1>6 DEF Takes
  <1>8. PICK g \in DOMAIN rows :
              /\ Ranked(rows)[1] = rows[g]
              /\ \A j \in DOMAIN rows : /\ rows[j].score <= rows[g].score
                                        /\ rows[j].score = rows[g].score => g <= j
    <2> HIDE DEF F
    <2>1. Len(rows) # 0
      OBVIOUS
    <2> HIDE DEF rows
    <2> QED
      BY <1>2, <1>5, <2>1, FirstRanked
  <1> DEFINE i == o[g]
  <1>9. i \in 1..m /\ rows[g] = allScored[i] /\ allScored[i] \in F
    BY <1>7, <1>8
  <1>10. PICK j \in 1..i : allScored[j].s = allScored[i].s /\ allScored[j].given
    BY <1>1, <1>9 DEF Origins
  <1>11. j \in 1..m /\ j <= i
    BY <1>1, <1>9, <1>10
  <1>12. allScored[j].score = allScored[i].score /\ allScored[j] \in F
    BY <1>1, <1>9, <1>10, <1>11 DEF TrueRows
  <1>13. PICK k \in DOMAIN rows : o[k] = j
    BY <1>7, <1>11, <1>12
  <1> HIDE DEF F, rows
  <1>14. g <= k
    BY <1>7, <1>8, <1>9, <1>12, <1>13
  <1>15. j = i
    <2>1. g \in Int /\ k \in Int /\ (g = k \/ g < k)
      BY <1>7, <1>14
    <2>2. g < k => i < j
      BY <1>7, <1>13
    <2> QED
      BY <1>9, <1>11, <1>13, <2>1, <2>2
  <1>16. allScored[i].given /\ allScored[i].status = "scored"
    BY <1>9, <1>10, <1>15 DEF F
  <1>17. \A r \in ToSet(rows) : r.score <= allScored[i].score
    BY <1>8, <1>9 DEF ToSet
  <1> QED
    BY <1>1, <1>2, <1>8, <1>9, <1>16, <1>17 DEF rows

(* It is the first finalist. *)
LEMMA BestLeaves ==
    ASSUME TInv, SInv, BInv, DInv, Leave
    PROVE  DInv'
  <1>1. /\ step = "head" /\ phase = "loop" /\ UNCHANGED <<allScored, optimizer>>
        /\ finalists' = Finalists(Scored(allScored))
        /\ finalists' # <<>> => phase' = "promote"
        /\ phase' \in {"promote", "final"}
    BY DEF Leave, SInv, Control, Common, data, GoTo
  <1>2. Origins /\ Topped
    BY <1>1 DEF DInv, InLoop
  <1> DEFINE rows == Scored(allScored)
             ranked == Ranked(rows)
             n == Min({FinalistCount, Len(ranked)})
             top == Top(ranked, FinalistCount)
  <1>3. SUFFICES ASSUME finalists' # <<>>
                 PROVE  \E i \in DOMAIN allScored :
                            /\ finalists'[1] = [acts |-> allScored[i].s.acts,
                                                seed |-> allScored[i].s.seed]
                            /\ optimizer.best = {allScored[i].score}
    BY <1>1 DEF DInv, InLoop, BestIsPromoted
  <1>4. \A r \in TrueRows : r.score \in Int
    BY DEF TrueRows
  <1>5. rows \in Seq(TrueRows)
    <2>1. rows \in Seq({r \in TrueRows : r.status = "scored"})
      BY ScoredIs DEF TInv
    <2> QED
      BY <2>1
  <1>6. ranked \in Seq(TrueRows) /\ Len(ranked) = Len(rows) /\ Len(rows) \in Nat
    <2> HIDE DEF rows
    <2> QED
      BY <1>4, <1>5, RankedIs, LenProperties
  <1>7. top = SubSeq(ranked, 1, n)
    BY DEF Top
  <1>8. finalists' = [i \in DOMAIN top |->
                        [acts |-> IF top[i].given THEN top[i].s.acts ELSE <<>>,
                         seed |-> IF top[i].given THEN top[i].s.seed ELSE 0]]
    BY <1>1 DEF Finalists
  <1> HIDE DEF rows, ranked, top
  <1>9. FinalistCount \in Nat
    BY LoopAssumption
  <1>10. n \in Nat /\ n <= Len(ranked)
    <2>1. {FinalistCount, Len(ranked)} \in SUBSET Nat /\ {FinalistCount, Len(ranked)} # {}
      BY <1>6, <1>9
    <2> QED
      BY <1>6, <1>9, <2>1, MinIs
  <1> HIDE DEF n
  <1>11. /\ top \in Seq(TrueRows) /\ Len(top) = n
         /\ \A i \in 1..n : top[i] = ranked[i]
    <2>1. \A i \in 1..n : ranked[i] \in TrueRows
      BY <1>6, <1>10, ElementOfSeq
    <2>2. /\ SubSeq(ranked, 1, n) \in Seq(TrueRows)
          /\ Len(SubSeq(ranked, 1, n)) = IF 1 <= n THEN n - 1 + 1 ELSE 0
          /\ \A i \in 1..n - 1 + 1 : SubSeq(ranked, 1, n)[i] = ranked[1 + i - 1]
      BY <1>10, <2>1, SubSeqProperties
    <2> QED
      BY <1>7, <1>10, <2>2
  <1>12. 1 \in DOMAIN top /\ top[1] = ranked[1] /\ Len(rows) # 0
    <2>1. DOMAIN top = 1..n
      BY <1>11, LenProperties
    <2>2. n # 0
      <3>1. CASE n = 0
        <4>1. DOMAIN top = {}
          BY <2>1, <3>1
        <4>2. finalists' \in [1..0 -> TrueRows]
          BY <1>8, <4>1
        <4>3. Len(finalists') = 0 /\ finalists' \in Seq(TrueRows)
          BY <4>2, FunctionIsSeq
        <4> QED
          BY <1>3, <4>3, EmptySeq
      <3> QED
        BY <3>1
    <2> QED
      BY <1>6, <1>10, <1>11, <2>1, <2>2
  <1>13. PICK i \in DOMAIN allScored :
              /\ ranked[1] = allScored[i]
              /\ allScored[i].given /\ allScored[i].status = "scored"
              /\ \A r \in ToSet(allScored) : r.status = "scored" => r.score <= allScored[i].score
    BY <1>2, <1>12, BestKnows DEF rows, ranked
  <1>14. finalists'[1] = [acts |-> allScored[i].s.acts, seed |-> allScored[i].s.seed]
    BY <1>8, <1>12, <1>13
  <1>15. \A r \in ToSet(allScored) : r.score \in Int
    BY LenProperties, ElementOfSeq DEF TInv, ToSet, TrueRows
  <1>16. allScored[i] \in ToSet(allScored)
    BY DEF ToSet
  <1>17. PICK b \in optimizer.best : b >= allScored[i].score
    BY <1>1, <1>2, <1>13, <1>16 DEF Topped
  <1>18. b = allScored[i].score
    <2>1. PICK r \in ToSet(allScored) : r.status = "scored" /\ r.score = b
      BY <1>17 DEF BInv, AmongRows
    <2> QED
      BY <1>13, <1>15, <1>16, <1>17, <2>1
  <1>19. optimizer.best = {allScored[i].score}
    BY <1>2, <1>17, <1>18 DEF Topped
  <1> QED
    BY <1>14, <1>19

(* What a step keeps.  From a row that is there, on. *)
LEMMA StillGiven ==
    ASSUME TInv, NEW more, more \in Seq(TrueRows), allScored' = allScored \o more,
           NEW s, Given(s)
    PROVE  Given(s)'
  <1>1. PICK j \in DOMAIN allScored : allScored[j].s = s /\ allScored[j].given
    BY DEF Given
  <1>2. allScored \in Seq(TrueRows)
    BY DEF TInv
  <1>3. j \in DOMAIN allScored' /\ allScored'[j] = allScored[j]
    BY <1>2, Prefixed
  <1> QED
    BY <1>1, <1>3 DEF Given

LEMMA PromotedStays ==
    ASSUME TInv, BestIsPromoted, NEW more, more \in Seq(TrueRows), allScored' = allScored \o more,
           UNCHANGED <<finalists, optimizer>>
    PROVE  BestIsPromoted'
  <1>1. \A i \in DOMAIN allScored : i \in DOMAIN allScored' /\ allScored'[i] = allScored[i]
    BY Prefixed DEF TInv
  <1> QED
    BY <1>1 DEF BestIsPromoted

LEMMA BestWaits ==
    ASSUME DInv, UNCHANGED <<phase, step, finalists, allScored, optimizer, outcomes, scored>>,
           InLoop => /\ \A s \in DOMAIN ledger'.metrics : Made(s)
                     /\ \A l \in late' : l.step = "metrics" => Made(l.outcomes[1].s)
    PROVE  DInv'
  <1>1. InLoop' = InLoop /\ \A s : Given(s)' = Given(s) /\ Made(s)' = Made(s)
    BY DEF InLoop, Given, Made
  <1>2. CASE InLoop
    <2>1. finalists = <<>> /\ Origins /\ Topped
      BY <1>2 DEF DInv
    <2>2. Origins'
      BY <1>1, <1>2, <2>1 DEF Origins
    <2>3. Topped'
      BY <2>1 DEF Topped
    <2> QED
      BY <1>1, <1>2, <2>1, <2>2, <2>3 DEF DInv
  <1>3. CASE ~InLoop
    BY <1>1, <1>3 DEF DInv, BestIsPromoted
  <1> QED
    BY <1>2, <1>3

(* To another activity of the loop, or of what comes after it. *)
LEMMA BestGoesOn ==
    ASSUME DInv, UNCHANGED <<finalists, allScored, optimizer, late, ledger>>,
           InLoop' = InLoop,
           InLoop => /\ step # "metrics" /\ step' \notin {"simulate", "metrics"}
                     /\ step \in {"scores", "update"} => step' = "update" /\ scored' = scored
    PROVE  DInv'
  <1>1. CASE InLoop
    <2>1. finalists = <<>> /\ Origins /\ Topped
      BY <1>1 DEF DInv
    <2>2. \A s : Given(s)' = Given(s) /\ (Made(s) => Made(s)')
      BY <1>1 DEF Given, Made
    <2>3. Origins'
      BY <1>1, <2>1, <2>2 DEF Origins
    <2>4. Topped'
      BY <1>1, <2>1 DEF Topped
    <2> QED
      BY <1>1, <2>1, <2>3, <2>4 DEF DInv
  <1>2. CASE ~InLoop
    BY <1>2 DEF DInv, BestIsPromoted
  <1> QED
    BY <1>1, <1>2

LEMMA NextIsMade ==
    ASSUME TInv, Origins, Storing
    PROVE  Made(outcomes[next].s)
  <1>1. step = "metrics" /\ next \in DOMAIN outcomes /\ outcomes[next] \in TrueOutcomes
        /\ DOMAIN outcomes[next].metrics # {}
    BY NextOutcome DEF Storing
  <1>2. outcomes[next].status \in {"completed", "cached"}
    <2>1. outcomes[next].s \in Scenarios /\ outcomes[next].metrics = Run(outcomes[next].s).metrics
          /\ (Judged(outcomes[next]) <=> Run(outcomes[next].s).status = "completed")
      BY <1>1 DEF TrueOutcomes
    <2>2. Run(outcomes[next].s).status = "completed"
      BY <1>1, <2>1, Answers DEF TInv
    <2> QED
      BY <2>1, <2>2 DEF Judged
  <1> QED
    BY <1>1, <1>2 DEF Origins, Made

LEMMA BestStored ==
    ASSUME TInv, PInv, DInv, MetricsCommit
    PROVE  DInv'
  <1>1. /\ UNCHANGED <<phase, step, finalists, allScored, optimizer, outcomes, scored, late, pack>>
        /\ Storing /\ step = "metrics" /\ next <= Len(outcomes)
        /\ DOMAIN outcomes[next].metrics # {}
    BY DEF MetricsCommit, Storing, Advance, data, env, loop
  <1>2. outcomes[next] \in TrueOutcomes
    BY <1>1, NextOutcome
  <1>3. DOMAIN ledger'.metrics = DOMAIN ledger.metrics \cup ({outcomes[next].s} \ call.found)
    BY <1>1, <1>2, MetricsGoIn DEF MetricsCommit
  <1>4. ASSUME InLoop
        PROVE  /\ \A s \in DOMAIN ledger'.metrics : Made(s)
               /\ \A l \in late' : l.step = "metrics" => Made(l.outcomes[1].s)
    <2>1. Origins
      BY <1>4 DEF DInv
    <2>2. Made(outcomes[next].s)
      BY <1>1, <2>1, NextIsMade
    <2> QED
      BY <1>1, <1>3, <2>1, <2>2 DEF Origins
  <1> QED
    BY <1>1, <1>4, BestWaits

LEMMA BestLate ==
    ASSUME TInv, DInv, NEW l \in late, LateRead(l) \/ LateCommit(l)
    PROVE  DInv'
  <1>1. /\ UNCHANGED <<phase, step, finalists, allScored, optimizer, outcomes, scored, pack>>
    BY DEF LateRead, LateCommit, control, loop, data
  <1>2. ASSUME NEW k \in late', k.step = "metrics"
        PROVE  \E j \in late : j.step = "metrics" /\ k.outcomes[1].s = j.outcomes[1].s
    <2>1. CASE k \in late
      BY <1>2, <2>1
    <2>2. CASE k \notin late
      <3>1. LateRead(l) /\ k = [l EXCEPT !.at = "read",
                           !.found = IF l.step = "metrics" THEN FoundMetrics(l.outcomes[1])
                                                           ELSE FoundScores(l.rows)]
        BY <2>2 DEF LateRead, LateCommit
      <3>2. k.step = l.step /\ k.outcomes = l.outcomes
        BY <3>1
      <3> QED
        BY <1>2, <3>2
    <2> QED
      BY <2>1, <2>2
  <1>3. \A s \in DOMAIN ledger'.metrics :
           s \in DOMAIN ledger.metrics \/ (l.step = "metrics" /\ s = l.outcomes[1].s)
    <2>1. CASE LateRead(l)
      BY <2>1 DEF LateRead
    <2>2. CASE LateCommit(l) /\ l.step = "metrics"
      <3>1. l.outcomes[1] \in TrueOutcomes /\ DOMAIN l.outcomes[1].metrics # {}
        BY <2>2 DEF TInv, TrueLate
      <3>2. DOMAIN ledger'.metrics = DOMAIN ledger.metrics \cup ({l.outcomes[1].s} \ l.found)
        BY <1>1, <2>2, <3>1, MetricsGoIn DEF LateCommit
      <3> QED
        BY <2>2, <3>2
    <2>3. CASE LateCommit(l) /\ l.step # "metrics"
      <3>1. l.rows \in Seq(TrueRows)
        BY DEF TInv, TrueLate
      <3>2. ledger'.metrics = ledger.metrics
        BY <1>1, <2>3, <3>1, ScoresGoIn DEF LateCommit
      <3> QED
        BY <3>2
    <2> QED
      BY <2>1, <2>2, <2>3
  <1>4. ASSUME InLoop
        PROVE  /\ \A s \in DOMAIN ledger'.metrics : Made(s)
               /\ \A k \in late' : k.step = "metrics" => Made(k.outcomes[1].s)
    <2>1. /\ \A s \in DOMAIN ledger.metrics : Made(s)
          /\ \A k \in late : k.step = "metrics" => Made(k.outcomes[1].s)
      BY <1>4 DEF DInv, Origins
    <2> QED
      BY <1>2, <1>3, <2>1
  <1> QED
    BY <1>1, <1>4, BestWaits

(* Another attempt, or none: then the run has failed, and has no finalists. *)
LEMMA BestRetried ==
    ASSUME TInv, SInv, DInv, Retry, Awaiting, UNCHANGED <<loop, data, ledger>>,
           \A l \in late' : l \in late \/ (Storing /\ l.outcomes = <<outcomes[next]>>)
                                       \/ l.step # "metrics"
    PROVE  DInv'
  <1>1. UNCHANGED <<finalists, allScored, optimizer, outcomes, scored>>
    BY DEF loop, data
  <1>2. CASE UNCHANGED <<phase, step>>
    <2>1. ASSUME InLoop
          PROVE  /\ \A s \in DOMAIN ledger'.metrics : Made(s)
                 /\ \A l \in late' : l.step = "metrics" => Made(l.outcomes[1].s)
      <3>1. Origins
        BY <2>1 DEF DInv
      <3>2. Storing => Made(outcomes[next].s)
        BY <3>1, NextIsMade
      <3>3. \A l \in late' : l.step = "metrics" =>
                l \in late \/ (Storing /\ l.outcomes[1] = outcomes[next])
        OBVIOUS
      <3> QED
        BY <3>1, <3>2, <3>3 DEF Origins
    <2> QED
      BY <1>1, <1>2, <2>1, BestWaits
  <1>3. CASE ~UNCHANGED <<phase, step>>
    <2>1. phase' = "final"
      BY <1>3 DEF Retry, GoTo
    <2>2. BestIsPromoted'
      BY <1>1 DEF DInv, BestIsPromoted
    <2> QED
      BY <2>1, <2>2 DEF DInv, InLoop
  <1> QED
    BY <1>2, <1>3

LEMMA BestFetched ==
    ASSUME TInv, SInv, DInv, Fetch
    PROVE  DInv'
  <1>1. /\ step = "fetch" /\ phase' = phase /\ step' \in {"simulate", "metrics"}
        /\ outcomes' = Cached(batch)
        /\ UNCHANGED <<finalists, allScored, optimizer, scored, late, ledger>>
    BY DEF Fetch, Awaits, GoTo, loop, env
  <1>2. CASE InLoop
    <2>1. finalists = <<>> /\ Origins /\ Topped
      BY <1>2 DEF DInv
    <2>2. \A s : /\ Given(s)' = Given(s)
                 /\ Made(s) => Given(s) /\ Made(s)'
      BY <1>1 DEF Given, Made
    <2>3. \A j \in DOMAIN Cached(batch) : Cached(batch)[j].s \in DOMAIN ledger.metrics
      BY CachedAreKnown
    <2>4. Origins'
      BY <1>1, <2>1, <2>2, <2>3 DEF Origins
    <2>5. Topped'
      BY <1>1, <2>1 DEF Topped
    <2> QED
      BY <1>1, <1>2, <2>1, <2>4, <2>5 DEF DInv, InLoop
  <1>3. CASE ~InLoop
    BY <1>1, <1>3 DEF DInv, InLoop, BestIsPromoted
  <1> QED
    BY <1>2, <1>3

LEMMA BestSimulated ==
    ASSUME TInv, SInv, DInv, Simulate
    PROVE  DInv'
  <1> DEFINE ran == [i \in DOMAIN batch |-> Run(batch[i])]
  <1>1. /\ step = "simulate" /\ phase' = phase /\ step' = "metrics"
        /\ outcomes' = outcomes \o ran
        /\ UNCHANGED <<finalists, allScored, optimizer, scored, late, ledger>>
    BY DEF Simulate, Awaits, GoTo, loop, env
  <1>2. CASE InLoop
    <2>1. finalists = <<>> /\ Origins /\ Topped
      BY <1>2 DEF DInv
    <2>2. \A s : /\ Given(s)' = Given(s)
                 /\ Made(s) => Made(s)'
      BY <1>1 DEF Given, Made
    <2>3. ran \in Seq(TrueOutcomes) /\ outcomes \in Seq(TrueOutcomes)
      BY SimulatedIsTrue DEF TInv
    <2>4. \A j \in DOMAIN ran : ran[j].status # "cached"
      <3>1. \A j \in DOMAIN batch : batch[j] \in Scenarios
        BY LenProperties, ElementOfSeq DEF TInv
      <3>2. \A j \in DOMAIN batch : Run(batch[j]).status \in {"completed", "failed"}
        BY <3>1, Answers DEF TInv
      <3> QED
        BY <3>2
    <2> HIDE DEF ran
    <2>5. ASSUME NEW j \in DOMAIN outcomes', outcomes'[j].status = "cached"
          PROVE  Given(outcomes'[j].s)
      <3>1. \/ j \in DOMAIN outcomes /\ outcomes'[j] = outcomes[j]
            \/ j - Len(outcomes) \in DOMAIN ran /\ outcomes'[j] = ran[j - Len(outcomes)]
        BY <1>1, <2>3, Appended
      <3> QED
        BY <1>1, <2>1, <2>4, <2>5, <3>1 DEF Origins
    <2>6. Origins'
      BY <1>1, <2>1, <2>2, <2>5 DEF Origins
    <2>7. Topped'
      BY <1>1, <2>1 DEF Topped
    <2> QED
      BY <1>1, <1>2, <2>1, <2>6, <2>7 DEF DInv, InLoop
  <1>3. CASE ~InLoop
    BY <1>1, <1>3 DEF DInv, InLoop, BestIsPromoted
  <1> QED
    BY <1>2, <1>3

(* A row is judged as given if and only if its outcome has been simulated. *)
LEMMA JudgedGiven ==
    ASSUME TInv, NEW i \in DOMAIN outcomes
    PROVE  LET row == JudgeScoreOutcomes(Mute, Objectives, outcomes)[i]
           IN  /\ outcomes[i].status = "completed" => row.given
               /\ row.status = "scored" => outcomes[i].status \in {"completed", "cached"}
  <1> DEFINE row == JudgeScoreOutcomes(Mute, Objectives, outcomes)[i]
             w == Weights(Mute, Objectives, outcomes)
             o == outcomes[i]
  <1>1. row = IF Judged(o)
                THEN [s |-> o.s, status |-> "scored", score |-> Score(w, o.metrics),
                      metrics |-> o.metrics, given |-> o.status = "completed"]
                ELSE [s |-> o.s, status |-> "failed", score |-> 0,
                      metrics |-> Mute, given |-> FALSE]
    BY DEF JudgeScoreOutcomes
  <1>2. ASSUME o.status = "completed"
        PROVE  row.given
    <2> DEFINE judged == [s |-> o.s, status |-> "scored", score |-> Score(w, o.metrics),
                          metrics |-> o.metrics, given |-> o.status = "completed"]
    <2>1. row = judged
      BY <1>1, <1>2 DEF Judged
    <2>2. judged.given = (o.status = "completed")
      OBVIOUS
    <2> HIDE DEF judged
    <2> QED
      BY <1>2, <2>1, <2>2
  <1>3. row.status = "scored" => o.status \in {"completed", "cached"}
    BY <1>1 DEF Judged
  <1> QED
    BY <1>2, <1>3

LEMMA BestIsJudged ==
    ASSUME TInv, SInv, DInv, Judge
    PROVE  DInv'
  <1> DEFINE rows == JudgeScoreOutcomes(Mute, Objectives, outcomes)
             n == Len(allScored)
  <1>1. /\ step = "metrics" /\ phase' = phase /\ step' = "scores"
        /\ scored' = rows /\ allScored' = allScored \o rows
        /\ UNCHANGED <<finalists, optimizer, outcomes, late, ledger>>
    BY DEF Judge, GoTo, loop, env
  <1>2. /\ rows \in Seq(TrueRows) /\ DOMAIN rows = DOMAIN outcomes
        /\ \A i \in DOMAIN outcomes : rows[i].s = outcomes[i].s
        /\ allScored \in Seq(TrueRows)
    BY JudgeIsTrue DEF TInv
  <1>3. \A i \in DOMAIN outcomes : /\ outcomes[i].status = "completed" => rows[i].given
                                   /\ rows[i].status = "scored" =>
                                         outcomes[i].status \in {"completed", "cached"}
    BY JudgedGiven
  <1> HIDE DEF rows
  <1>4. /\ n \in Nat /\ DOMAIN allScored = 1..n
        /\ DOMAIN rows = 1..Len(rows) /\ Len(rows) \in Nat
        /\ DOMAIN allScored' = 1..n + Len(rows)
        /\ \A i \in DOMAIN allScored : i \in DOMAIN allScored' /\ allScored'[i] = allScored[i]
        /\ \A i \in DOMAIN rows : n + i \in DOMAIN allScored' /\ allScored'[n + i] = rows[i]
    <2>1. /\ allScored \o rows \in Seq(TrueRows) /\ Len(allScored \o rows) = n + Len(rows)
          /\ \A i \in 1..n + Len(rows) :
                (allScored \o rows)[i] = IF i <= n THEN allScored[i] ELSE rows[i - n]
      BY <1>2, ConcatProperties
    <2>2. /\ n \in Nat /\ DOMAIN allScored = 1..n
          /\ DOMAIN rows = 1..Len(rows) /\ Len(rows) \in Nat
          /\ DOMAIN (allScored \o rows) = 1..n + Len(rows)
      BY <1>2, <2>1, LenProperties
    <2> HIDE DEF n
    <2>3. \A i \in 1..Len(rows) : n + i \in 1..n + Len(rows) /\ ~(n + i <= n) /\ n + i - n = i
      BY <2>2
    <2>4. \A i \in 1..n : i \in 1..n + Len(rows) /\ i <= n
      BY <2>2
    <2> QED
      BY <1>1, <2>1, <2>2, <2>3, <2>4
  <1> HIDE DEF n
  <1>5. CASE InLoop
    <2>1. finalists = <<>> /\ Origins /\ Topped
      BY <1>5 DEF DInv
    <2>2. \A s : Given(s) => Given(s)'
      BY <1>1, <1>2, StillGiven
    <2>3. ASSUME NEW s, Made(s)
          PROVE  Made(s)'
      <3>1. CASE Given(s)
        BY <2>2, <3>1 DEF Made
      <3>2. CASE ~Given(s)
        <4>1. PICK j \in DOMAIN outcomes : outcomes[j].s = s /\ outcomes[j].status = "completed"
          BY <2>3, <3>2 DEF Made
        <4>2. rows[j].s = s /\ rows[j].given /\ j \in DOMAIN rows
          BY <1>2, <1>3, <4>1
        <4>3. Given(s)'
          BY <1>4, <4>2 DEF Given
        <4> QED
          BY <4>3 DEF Made
      <3> QED
        BY <3>1, <3>2
    <2>4. ASSUME NEW i \in DOMAIN allScored', allScored'[i].status = "scored"
          PROVE  \E j \in 1..i : allScored'[j].s = allScored'[i].s /\ allScored'[j].given
      <3>1. CASE i \in DOMAIN allScored
        <4>1. allScored'[i] = allScored[i]
          BY <1>4, <3>1
        <4>2. PICK j \in 1..i : allScored[j].s = allScored[i].s /\ allScored[j].given
          BY <2>1, <2>4, <3>1, <4>1 DEF Origins
        <4>3. j \in DOMAIN allScored
          BY <1>4, <3>1
        <4> QED
          BY <1>4, <4>1, <4>2, <4>3
      <3>2. CASE i \notin DOMAIN allScored
        <4> DEFINE k == i - n
        <4>1. k \in DOMAIN rows /\ i = n + k /\ i \in Int /\ i > n /\ i >= 1
          BY <1>4, <3>2
        <4> HIDE DEF k
        <4>2. allScored'[i] = rows[k] /\ rows[k].s = outcomes[k].s /\ k \in DOMAIN outcomes
          BY <1>2, <1>4, <4>1
        <4>3. outcomes[k].status \in {"completed", "cached"}
          BY <1>3, <2>4, <4>2
        <4>4. CASE outcomes[k].status = "completed"
          <5>1. rows[k].given /\ i \in 1..i
            BY <1>3, <4>1, <4>2, <4>4
          <5> QED
            BY <4>2, <5>1
        <4>5. CASE outcomes[k].status = "cached"
          <5>1. PICK j \in DOMAIN allScored : allScored[j].s = outcomes[k].s /\ allScored[j].given
            BY <1>1, <2>1, <4>2, <4>5 DEF Origins, Given
          <5>2. j \in 1..i /\ allScored'[j] = allScored[j]
            BY <1>4, <4>1, <5>1
          <5> QED
            BY <4>2, <5>1, <5>2
        <4> QED
          BY <4>3, <4>4, <4>5
      <3> QED
        BY <3>1, <3>2
    <2>5. Origins'
      BY <1>1, <2>1, <2>3, <2>4 DEF Origins
    <2>6. Topped'
      <3>1. ToSet(allScored') = ToSet(allScored) \cup ToSet(scored')
        BY <1>1, <1>2, Together
      <3> QED
        BY <1>1, <2>1, <3>1 DEF Topped
    <2> QED
      BY <1>1, <1>5, <2>1, <2>5, <2>6 DEF DInv, InLoop
  <1>6. CASE ~InLoop
    <2>1. BestIsPromoted'
      BY <1>1, <1>2, <1>6, PromotedStays DEF DInv
    <2> QED
      BY <1>1, <1>6, <2>1 DEF DInv, InLoop
  <1> QED
    BY <1>5, <1>6

LEMMA BestUpdated ==
    ASSUME TInv, SInv, BInv, DInv, Update
    PROVE  DInv'
  <1> DEFINE done == Scored(scored)
             told == [i \in DOMAIN done |-> done[i].score]
             all  == optimizer.best \cup ToSet(told)
  <1>1. /\ step = "update" /\ phase = "loop" /\ phase' = "loop" /\ step' = "record"
        /\ UNCHANGED <<finalists, allScored, outcomes, scored, late, ledger>>
        /\ optimizer'.best = Optional(all, Max(all))
    BY DEF Update, Awaits, GoTo, Tell, SInv, Control, Common, loop, env
  <1>2. finalists = <<>> /\ Origins /\ Topped
    BY <1>1 DEF DInv, InLoop
  <1>3. \A s : Given(s)' = Given(s) /\ (Made(s) => Made(s)')
    BY <1>1 DEF Given, Made
  <1>4. Origins'
    BY <1>1, <1>2, <1>3 DEF Origins
  <1>5. /\ done \in Seq({r \in TrueRows : r.status = "scored"})
        /\ ToSet(done) = {r \in ToSet(scored) : r.status = "scored"}
    BY ScoredIs DEF TInv
  <1>6. \A r \in ToSet(allScored) : r.score \in Int
    BY LenProperties, ElementOfSeq DEF TInv, ToSet, TrueRows
  <1>7. DOMAIN told = DOMAIN done /\ \A i \in DOMAIN done : told[i] = done[i].score
    OBVIOUS
  <1> HIDE DEF done
  <1>8. ToSet(told) = {r.score : r \in ToSet(done)}
    BY <1>7 DEF ToSet
  <1>9. Len(done) \in Nat /\ DOMAIN done = 1..Len(done)
    BY <1>5, LenProperties
  <1>10. IsFiniteSet(ToSet(told))
    <2>1. \A i \in 1..Len(done) : told[i] \in ToSet(told)
      BY <1>7, <1>9 DEF ToSet
    <2>2. told \in [1..Len(done) -> ToSet(told)]
      BY <1>9, <2>1
    <2> HIDE DEF told
    <2>3. told \in Seq(ToSet(told))
      BY <1>9, <2>2, FunctionIsSeq
    <2> QED
      BY <2>3, FewRows
  <1> HIDE DEF told
  <1>11. ToSet(done) \subseteq ToSet(allScored)
    BY <1>1, <1>5 DEF BInv
  <1>12. IsFiniteSet(all) /\ all \subseteq Int
    <2>1. IsFiniteSet(all)
      BY <1>10, FS_Union DEF BInv
    <2> QED
      BY <1>6, <1>8, <1>11, <2>1 DEF BInv, AmongRows
  <1>13. ASSUME NEW r \in ToSet(allScored), r.status = "scored"
         PROVE  \E x \in all : x >= r.score
    <2>1. CASE r \in ToSet(scored)
      <3>1. r.score \in all /\ r.score \in Int
        BY <1>5, <1>6, <1>8, <1>13, <2>1
      <3> QED
        BY <3>1
    <2>2. CASE r \notin ToSet(scored)
      BY <1>2, <1>13, <2>2 DEF Topped
    <2> QED
      BY <2>1, <2>2
  <1> HIDE DEF all
  <1>14. /\ \A a, b \in optimizer'.best : a = b
         /\ \A x \in all : \E b \in optimizer'.best : b >= x
         /\ optimizer'.best \subseteq Int
    <2>1. CASE all = {}
      BY <1>1, <2>1 DEF Optional
    <2>2. CASE all # {}
      <3>1. Max(all) \in all /\ \A x \in all : Max(all) >= x
        BY <1>12, <2>2, MaxIs
      <3>2. optimizer'.best = {Max(all)}
        BY <1>1, <2>2 DEF Optional
      <3> QED
        BY <1>12, <3>1, <3>2
    <2> QED
      BY <2>1, <2>2
  <1>15. \A r \in ToSet(allScored) : r.status = "scored" => \E b \in optimizer'.best : b >= r.score
    <2> SUFFICES ASSUME NEW r \in ToSet(allScored), r.status = "scored"
                 PROVE  \E b \in optimizer'.best : b >= r.score
      OBVIOUS
    <2>1. PICK x \in all : x >= r.score
      BY <1>13
    <2>2. PICK b \in optimizer'.best : b >= x
      BY <1>14
    <2>3. x \in Int /\ b \in Int /\ r.score \in Int
      BY <1>6, <1>12, <1>14
    <2> QED
      BY <2>1, <2>2, <2>3
  <1>16. Topped'
    BY <1>1, <1>14, <1>15 DEF Topped
  <1> QED
    BY <1>1, <1>2, <1>4, <1>16 DEF DInv, InLoop

LEMMA PromotionInductive == TInv /\ PInv /\ SInv /\ BInv /\ DInv /\ [Next]_vars => DInv'
  <1> SUFFICES ASSUME TInv, PInv, SInv, BInv, DInv, [Next]_vars PROVE DInv'
    OBVIOUS
  <1>1. CASE \/ PersistCommit \/ MetricsRead \/ SkipMetrics \/ MetricsReply \/ ScoresRead
             \/ ScoresCommit \/ RecordCommit
    <2>1. /\ UNCHANGED <<phase, step, finalists, allScored, optimizer, outcomes, scored, late>>
          /\ ledger'.metrics = ledger.metrics
      <3>1. CASE PersistCommit \/ RecordCommit
        BY <3>1, ScenariosGoIn DEF PersistCommit, RecordCommit, Advance, loop, data, env
      <3>2. CASE ScoresCommit
        <4>1. ledger'.metrics = ledger.metrics
          BY <3>2, ScoresGoIn DEF ScoresCommit, TInv, env
        <4> QED
          BY <3>2, <4>1 DEF ScoresCommit, Advance, loop, data, env
      <3>3. CASE MetricsRead \/ SkipMetrics \/ MetricsReply \/ ScoresRead
        BY <3>3 DEF MetricsRead, SkipMetrics, MetricsReply, ScoresRead, Count, Replied, GoTo,
                    control, loop, data, env
      <3> QED
        BY <1>1, <3>1, <3>2, <3>3
    <2> QED
      BY <2>1, BestWaits DEF DInv, Origins
  <1>2. CASE \/ Generate \/ PersistReply \/ Iterate \/ Propose \/ RecordReply \/ Converge
             \/ ScoresReply \/ Promote \/ Perturb \/ Progress
    <2>1. /\ UNCHANGED <<finalists, allScored, optimizer, late, ledger>>
          /\ InLoop' = InLoop
          /\ InLoop => /\ step # "metrics" /\ step' \notin {"simulate", "metrics"}
                       /\ step \in {"scores", "update"} => step' = "update" /\ scored' = scored
      <3>1. UNCHANGED <<finalists, allScored, optimizer, late, ledger>>
        BY <1>2 DEF Generate, PersistReply, Iterate, Propose, RecordReply, Converge, ScoresReply,
                    Promote, Perturb, Progress, loop, data, env
      <3>2. CASE Generate \/ PersistReply \/ ScoresReply
        BY <3>1, <3>2 DEF Generate, PersistReply, ScoresReply, Awaits, Replied, GoTo, SInv, Control,
                          Common, InLoop, data
      <3>3. CASE Iterate \/ Propose \/ RecordReply \/ Converge
        BY <3>1, <3>3 DEF Iterate, Propose, RecordReply, Converge, Awaits, Replied, GoTo, SInv,
                          Control, Common, InLoop
      <3>4. CASE Promote \/ Perturb \/ Progress
        BY <3>1, <3>4 DEF Promote, Perturb, Progress, Awaits, GoTo, SInv, Control, Common, InLoop
      <3> QED
        BY <1>2, <3>2, <3>3, <3>4
    <2> QED
      BY <2>1, BestGoesOn
  <1>3. CASE Leave
    BY <1>3, BestLeaves
  <1>4. CASE Fetch
    BY <1>4, BestFetched
  <1>5. CASE Simulate
    BY <1>5, BestSimulated
  <1>6. CASE MetricsCommit
    BY <1>6, BestStored
  <1>7. CASE Judge
    BY <1>7, BestIsJudged
  <1>8. CASE Update
    BY <1>8, BestUpdated
  <1>9. CASE ScoresRaise \/ AttemptFails \/ TimesOut
    <2>1. /\ Retry /\ Awaiting /\ UNCHANGED <<loop, data, ledger>>
      BY <1>9 DEF ScoresRaise, AttemptFails, TimesOut, Awaits, Awaiting, Storing
    <2>2. \A l \in late' : l \in late \/ (Storing /\ l.outcomes = <<outcomes[next]>>)
                                      \/ l.step # "metrics"
      BY <1>9 DEF ScoresRaise, AttemptFails, TimesOut, Storing, env
    <2> QED
      BY <2>1, <2>2, BestRetried
  <1>10. CASE \E l \in late : LateRead(l) \/ LateCommit(l)
    BY <1>10, BestLate
  <1>11. CASE UNCHANGED vars
    BY <1>11, BestWaits DEF vars, control, loop, data, DInv, Origins
  <1> QED
    BY <1>1, <1>2, <1>3, <1>4, <1>5, <1>6, <1>7, <1>8, <1>9, <1>10, <1>11 DEF Next, Work

\* The first finalist, which is promoted and tested, is the best of the loop
\* with its levers and its seed, although outcomes from the ledger have lost
\* both: whatever is proposed again, and however attempts fail or run late.
THEOREM BestGoesForward == Spec => []BestIsPromoted
  <1>1. Init => LInv /\ TInv /\ PInv /\ SInv /\ BInv /\ DInv
    <2>1. Init => BInv
      BY FS_EmptySet DEF Init, BInv
    <2>2. Init => DInv
      <3> SUFFICES ASSUME Init PROVE DInv
        OBVIOUS
      <3>1. /\ phase = "initial" /\ step = "generate" /\ finalists = <<>> /\ late = {}
            /\ DOMAIN ledger.metrics = {} /\ DOMAIN allScored = {} /\ optimizer.best = {}
        BY EmptySeq DEF Init, NewLedger
      <3>2. Origins
        BY <3>1 DEF Origins
      <3>3. Topped
        BY <3>1 DEF Topped, ToSet
      <3> QED
        BY <3>1, <3>2, <3>3 DEF DInv, InLoop
    <2> QED
      BY <2>1, <2>2, LedgerAtFirst, TrueAtFirst, StopAtFirst
  <1>2. /\ LInv /\ TInv /\ PInv /\ SInv /\ BInv /\ DInv /\ [Next]_vars
        => (LInv /\ TInv /\ PInv /\ SInv /\ BInv /\ DInv)'
    BY LedgerInductive, TruthInductive, PresenceInductive, StopInductive, BestInductive,
       PromotionInductive
  <1>3. DInv => BestIsPromoted
    BY DEF DInv, BestIsPromoted
  <1> QED
    BY <1>1, <1>2, <1>3, PTL DEF Spec

\* Summary, candidates, optimizer and promotion mean the same best scenario
\* (aggregate_results, persist_run_progress, _select_top_scenarios).
THEOREM BestIsAgreed == Spec => []BestAgrees
  <1>1. BestIsShown /\ BestIsPromoted => BestAgrees
    BY DEF BestAgrees
  <1> QED
    BY <1>1, BestIsFirst, BestGoesForward, PTL

-----------------------------------------------------------------------------
(* The budgets.  A batch begins within them; what it spends goes with the   *)
(* outcomes that have been gone through, of which a batch has BatchSize at  *)
(* most; and a pass of the loop adds a batch of scenarios.                  *)
Paid == IF phase = "loop" /\ step # "head" THEN (iteration - 1) * BatchSize
                                           ELSE iteration * BatchSize

Spent ==
    /\ completed \in Nat /\ compute \in Nat /\ storage \in Nat
    /\ compute <= MaxCompute + BatchSize
    /\ storage <= MaxStorage + 2 * BatchSize
    /\ completed <= Paid

Spending ==
    /\ step \in {"propose", "persist", "fetch", "simulate"} =>
          compute <= MaxCompute /\ storage <= MaxStorage
    /\ step \in {"persist", "fetch"} => Len(batch) <= BatchSize
    /\ step = "simulate" => Len(outcomes) + Len(batch) <= BatchSize /\ next = 1
    /\ step = "metrics" => /\ Len(outcomes) <= BatchSize
                           /\ next <= Len(outcomes) + 1
                           /\ compute <= MaxCompute + (next - 1)
                           /\ storage <= MaxStorage + 2 * (next - 1)
    /\ step \in {"scores", "update", "record", "converge"} => Len(scored) <= BatchSize

OInv == Spent /\ (phase = "loop" => Spending)

LEMMA Budgets ==
    /\ BatchSize \in Nat \ {0} /\ MaxCompute \in Nat /\ MaxStorage \in Nat /\ MaxScenarios \in Nat
    /\ \A n \in Nat : /\ n * BatchSize \in Nat /\ (n - 1) * BatchSize \in Int
                      /\ (n - 1) * BatchSize + BatchSize = n * BatchSize
                      /\ ((n + 1) - 1) * BatchSize = n * BatchSize
  <1>1. BatchSize \in Nat \ {0} /\ MaxCompute \in Nat /\ MaxStorage \in Nat /\ MaxScenarios \in Nat
    BY LoopAssumption
  <1>2. \A n, b \in Nat : /\ n * b \in Nat /\ (n - 1) * b \in Int
                          /\ (n - 1) * b + b = n * b /\ ((n + 1) - 1) * b = n * b
    OBVIOUS
  <1> QED
    BY <1>1, <1>2

(* All passes together make at most the scenarios of the budget, or one     *)
(* batch if a batch is more than that.                                      *)
LEMMA AllBatches ==
    ASSUME NEW n \in 0..MaxIterations
    PROVE  n * BatchSize <= Max({MaxScenarios, BatchSize})
  <1>1. BatchSize \in Nat \ {0} /\ MaxScenarios \in Nat
    BY Budgets
  <1>2. /\ MaxScenarios \div BatchSize \in Nat
        /\ (MaxScenarios \div BatchSize) * BatchSize <= MaxScenarios
    BY <1>1
  <1>3. MaxIterations = IF 1 >= MaxScenarios \div BatchSize THEN 1 ELSE MaxScenarios \div BatchSize
    BY <1>2, MaxOfTwo DEF MaxIterations
  <1>4. Max({MaxScenarios, BatchSize}) = IF MaxScenarios >= BatchSize THEN MaxScenarios ELSE BatchSize
    BY <1>1, MaxOfTwo
  <1>5. MaxIterations \in Nat /\ MaxIterations * BatchSize <= Max({MaxScenarios, BatchSize})
    <2>1. CASE 1 >= MaxScenarios \div BatchSize
      BY <1>1, <1>3, <1>4, <2>1
    <2>2. CASE ~(1 >= MaxScenarios \div BatchSize)
      <3>1. MaxIterations = MaxScenarios \div BatchSize
        BY <1>3, <2>2
      <3>2. MaxIterations \in Nat /\ MaxIterations * BatchSize <= MaxScenarios
        BY <1>2, <3>1
      <3> QED
        BY <1>1, <1>4, <3>2
    <2> QED
      BY <2>1, <2>2
  <1>6. n * BatchSize <= MaxIterations * BatchSize
    <2>1. \A a, b, c \in Nat : a <= b => a * c <= b * c
      OBVIOUS
    <2> QED
      BY <1>1, <1>5, <2>1
  <1>7. n * BatchSize \in Int /\ MaxIterations * BatchSize \in Int /\ Max({MaxScenarios, BatchSize}) \in Int
    BY <1>1, <1>4, <1>5
  <1> QED
    BY <1>5, <1>6, <1>7

(* Behind the loop nothing is spent. *)
LEMMA SpendingEnds ==
    ASSUME SInv, OInv, phase' # "loop", UNCHANGED <<totals, iteration>>
    PROVE  OInv'
  <1>1. iteration \in Nat
    BY Iterations DEF SInv, Counted
  <1>2. (iteration - 1) * BatchSize + BatchSize = iteration * BatchSize
        /\ iteration * BatchSize \in Nat /\ (iteration - 1) * BatchSize \in Int /\ BatchSize \in Nat
    BY <1>1, Budgets
  <1>3. completed <= iteration * BatchSize
    BY <1>2 DEF OInv, Spent, Paid
  <1> QED
    BY <1>3 DEF OInv, Spent, Paid, totals

LEMMA SpendingWaits ==
    ASSUME OInv, UNCHANGED <<phase, step, totals, iteration, batch, outcomes, scored, next>>
    PROVE  OInv'
  BY DEF OInv, Spent, Paid, Spending, totals

LEMMA SpendingRetried ==
    ASSUME SInv, OInv, UNCHANGED <<loop, totals, data>>, Retry
    PROVE  OInv'
  <1>1. CASE UNCHANGED <<phase, step>>
    BY <1>1, SpendingWaits DEF loop, data
  <1>2. CASE phase' = "final"
    BY <1>2, SpendingEnds DEF loop
  <1> QED
    BY <1>1, <1>2 DEF Retry, GoTo

(* Within a pass. *)
LEMMA SpendingGoesOn ==
    ASSUME OInv, phase = "loop", step # "head", phase' = "loop", step' # "head",
           UNCHANGED <<totals, iteration>>, Spending'
    PROVE  OInv'
  BY DEF OInv, Spent, Paid, totals

LEMMA SpendingCounted ==
    ASSUME TInv, SInv, OInv, step = "metrics", next <= Len(outcomes), Count,
           phase' = phase, step' = step, iteration' = iteration
    PROVE  OInv'
  <1>1. CASE phase # "loop"
    BY <1>1, SpendingEnds DEF Count
  <1>2. CASE phase = "loop"
    <2>1. next \in Nat /\ Len(outcomes) \in Nat /\ outcomes' = outcomes /\ next' = next + 1
      BY LenProperties DEF TInv, Count
    <2>2. /\ completed \in Nat /\ compute \in Nat /\ storage \in Nat
          /\ Len(outcomes) <= BatchSize
          /\ compute <= MaxCompute + (next - 1) /\ storage <= MaxStorage + 2 * (next - 1)
      BY <1>2 DEF OInv, Spent, Spending
    <2>3. /\ completed' = completed /\ compute' \in {compute, compute + 1}
          /\ storage' \in {storage + 1, storage + 2}
      BY <1>2, <2>2 DEF Count
    <2>4. /\ compute' \in Nat /\ storage' \in Nat
          /\ compute' <= MaxCompute + next /\ storage' <= MaxStorage + 2 * next
      BY <2>1, <2>2, <2>3, Budgets
    <2>5. Spent'
      BY <2>1, <2>2, <2>3, <2>4, Budgets DEF OInv, Spent, Paid
    <2>6. Spending'
      BY <2>1, <2>2, <2>4, Budgets DEF Spending
    <2> QED
      BY <2>5, <2>6 DEF OInv
  <1> QED
    BY <1>1, <1>2

LEMMA SpendingBegins ==
    ASSUME SInv, OInv, Iterate
    PROVE  OInv'
  <1>1. iteration \in Nat
    BY Iterations DEF SInv, Counted
  <1>2. /\ phase = "loop" /\ step = "head" /\ phase' = "loop" /\ step' = "propose"
        /\ iteration' = iteration + 1 /\ Exceeded(FALSE) = {}
        /\ completed' = completed /\ compute' = compute /\ storage' = storage
    BY DEF Iterate, SInv, Control, Common, GoTo, totals
  <1>3. ~(compute > MaxCompute) /\ ~(storage > MaxStorage)
    BY <1>2 DEF Exceeded
  <1>4. completed <= iteration * BatchSize /\ (iteration' - 1) * BatchSize = iteration * BatchSize
    BY <1>1, <1>2, Budgets DEF OInv, Spent, Paid
  <1>5. Spent'
    BY <1>2, <1>4 DEF OInv, Spent, Paid
  <1>6. Spending'
    BY <1>2, <1>3, Budgets DEF OInv, Spent, Spending
  <1> QED
    BY <1>5, <1>6 DEF OInv

LEMMA SpendingConverges ==
    ASSUME TInv, SInv, OInv, Converge
    PROVE  OInv'
  <1> DEFINE done == {i \in DOMAIN scored : scored[i].status = "scored" /\ DOMAIN scored[i].metrics # {}}
  <1>1. /\ phase = "loop" /\ step = "converge" /\ phase' = "loop" /\ step' = "head"
        /\ completed' = completed + Cardinality(done) /\ UNCHANGED <<iteration, compute, storage>>
    BY DEF Converge, Awaits, SInv, Control, Common, GoTo
  <1>2. Cardinality(done) \in Nat /\ Cardinality(done) <= Len(scored) /\ Len(scored) \in Nat
    <2>1. DOMAIN scored = 1..Len(scored) /\ Len(scored) \in Nat
      BY LenProperties DEF TInv
    <2>2. IsFiniteSet(DOMAIN scored) /\ Cardinality(DOMAIN scored) = Len(scored)
      <3>1. \A n \in Nat : IsFiniteSet(1..n) /\ Cardinality(1..n) = n
        BY FS_Interval
      <3> QED
        BY <2>1, <3>1
    <2>3. done \subseteq DOMAIN scored
      OBVIOUS
    <2> QED
      BY <2>1, <2>2, <2>3, FS_Subset, FS_CardinalityType
  <1> HIDE DEF done
  <1>3. Len(scored) <= BatchSize /\ completed \in Nat /\ completed <= (iteration - 1) * BatchSize
    BY <1>1 DEF OInv, Spent, Paid, Spending
  <1>4. iteration \in Nat
    BY Iterations DEF SInv, Counted
  <1>5. /\ (iteration - 1) * BatchSize + BatchSize = iteration * BatchSize
        /\ (iteration - 1) * BatchSize \in Int /\ BatchSize \in Nat
    BY <1>4, Budgets
  <1>6. completed' \in Nat /\ completed' <= iteration * BatchSize
    BY <1>1, <1>2, <1>3, <1>5
  <1>7. Spent'
    BY <1>1, <1>6 DEF OInv, Spent, Paid
  <1>8. Spending'
    BY <1>1 DEF Spending
  <1> QED
    BY <1>7, <1>8 DEF OInv

LEMMA SpendingInductive == TInv /\ PInv /\ SInv /\ OInv /\ [Next]_vars => OInv'
  <1> SUFFICES ASSUME TInv, PInv, SInv, OInv, [Next]_vars PROVE OInv'
    OBVIOUS
  <1>1. CASE Generate \/ Promote \/ Perturb \/ Leave \/ Progress
    <2>1. phase' # "loop" /\ UNCHANGED <<totals, iteration>>
      BY <1>1 DEF Generate, Promote, Perturb, Leave, Progress, GoTo, loop
    <2> QED
      BY <2>1, SpendingEnds
  <1>2. CASE \/ PersistCommit \/ MetricsRead \/ MetricsCommit \/ ScoresRead \/ ScoresCommit \/ RecordCommit
    <2>1. UNCHANGED <<phase, step, loop, totals, data>>
      BY <1>2 DEF PersistCommit, MetricsRead, MetricsCommit, ScoresRead, ScoresCommit, RecordCommit, Advance
    <2> QED
      BY <2>1, SpendingWaits DEF loop, data
  <1>3. CASE PersistReply
    <2>1. CASE phase = "initial"
      <3>1. phase' = "loop" /\ step' = "head" /\ UNCHANGED <<totals, iteration>>
        BY <1>3, <2>1 DEF PersistReply, GoTo, loop
      <3> QED
        BY <2>1, <3>1 DEF OInv, Spent, Paid, Spending, totals
    <2>2. CASE phase = "loop"
      <3>1. step = "persist" /\ phase' = phase /\ step' = "fetch" /\ UNCHANGED <<totals, iteration, batch>>
        BY <1>3, <2>2 DEF PersistReply, Replied, GoTo, loop, data
      <3>2. Spending'
        BY <2>2, <3>1 DEF OInv, Spending, totals
      <3> QED
        BY <2>2, <3>1, <3>2, SpendingGoesOn
    <2>3. CASE phase \notin {"initial", "loop"}
      <3>1. phase' # "loop" /\ UNCHANGED <<totals, iteration>>
        BY <1>3, <2>3 DEF PersistReply, GoTo, loop
      <3> QED
        BY <3>1, SpendingEnds
    <2> QED
      BY <2>1, <2>2, <2>3
  <1>4. CASE Iterate
    BY <1>4, SpendingBegins
  <1>5. CASE Propose
    <2>1. /\ phase = "loop" /\ step = "propose" /\ phase' = "loop" /\ step' = "persist"
          /\ UNCHANGED <<totals, iteration>>
      BY <1>5 DEF Propose, Awaits, GoTo, SInv, Control, Common, loop
    <2>2. Len(batch') <= BatchSize
      BY <1>5, ProposedAre, Budgets DEF Propose
    <2>3. Spending'
      BY <2>1, <2>2 DEF OInv, Spending, totals
    <2> QED
      BY <2>1, <2>3, SpendingGoesOn
  <1>6. CASE Fetch
    <2>1. /\ step = "fetch" /\ phase' = phase /\ step' \in {"simulate", "metrics"}
          /\ next' = 1 /\ outcomes' = Cached(batch) /\ batch' = Pending(batch)
          /\ UNCHANGED <<totals, iteration>>
      BY <1>6 DEF Fetch, Awaits, GoTo, loop
    <2>2. /\ Len(outcomes') + Len(batch') = Len(batch)
          /\ Len(outcomes') \in Nat /\ Len(batch') \in Nat
      BY <2>1, FetchedIsTrue, LenProperties
    <2>3. CASE phase = "loop"
      <3>1. Len(batch) <= BatchSize /\ compute <= MaxCompute /\ storage <= MaxStorage
        BY <2>1, <2>3 DEF OInv, Spending
      <3>2. compute' = compute /\ storage' = storage /\ compute \in Nat /\ storage \in Nat
        BY <2>1 DEF totals, OInv, Spent
      <3>3. Len(outcomes') <= BatchSize /\ next' <= Len(outcomes') + 1
        BY <2>1, <2>2, <3>1, Budgets
      <3>4. Spending'
        BY <2>1, <2>2, <3>1, <3>2, <3>3, Budgets DEF Spending
      <3> QED
        BY <2>1, <2>3, <3>4, SpendingGoesOn
    <2>4. CASE phase # "loop"
      BY <2>1, <2>4, SpendingEnds
    <2> QED
      BY <2>3, <2>4
  <1>7. CASE Simulate
    <2> DEFINE simulated == [i \in DOMAIN batch |-> Run(batch[i])]
    <2>1. /\ step = "simulate" /\ phase' = phase /\ step' = "metrics"
          /\ next' = next /\ outcomes' = outcomes \o simulated
          /\ UNCHANGED <<totals, iteration>>
      BY <1>7 DEF Simulate, Awaits, GoTo, loop
    <2>2. simulated \in Seq(TrueOutcomes) /\ Len(simulated) = Len(batch) /\ outcomes \in Seq(TrueOutcomes)
      BY SimulatedIsTrue DEF TInv
    <2> HIDE DEF simulated
    <2>3. Len(outcomes') = Len(outcomes) + Len(batch) /\ Len(outcomes') \in Nat
      <3>1. /\ outcomes \o simulated \in Seq(TrueOutcomes)
            /\ Len(outcomes \o simulated) = Len(outcomes) + Len(simulated)
        BY <2>2, ConcatProperties
      <3>2. Len(outcomes \o simulated) \in Nat
        BY <3>1, LenProperties
      <3> QED
        BY <2>1, <2>2, <3>1, <3>2
    <2>4. CASE phase = "loop"
      <3>1. Len(outcomes') <= BatchSize /\ compute <= MaxCompute /\ storage <= MaxStorage /\ next = 1
        BY <2>1, <2>3, <2>4 DEF OInv, Spending
      <3>2. compute' = compute /\ storage' = storage /\ compute \in Nat /\ storage \in Nat
        BY <2>1 DEF totals, OInv, Spent
      <3>3. Spending'
        BY <2>1, <2>3, <3>1, <3>2, Budgets DEF Spending
      <3> QED
        BY <2>1, <2>4, <3>3, SpendingGoesOn
    <2>5. CASE phase # "loop"
      BY <2>1, <2>5, SpendingEnds
    <2> QED
      BY <2>4, <2>5
  <1>8. CASE SkipMetrics
    BY <1>8, SpendingCounted DEF SkipMetrics, control, loop
  <1>9. CASE MetricsReply
    <2>1. Storing
      BY <1>9 DEF PInv, FoundIsThere, MetricsReply, Replied
    <2> QED
      BY <1>9, <2>1, SpendingCounted DEF MetricsReply, Replied, GoTo, Storing, loop
  <1>10. CASE Judge
    <2>1. /\ step = "metrics" /\ phase' = phase /\ step' = "scores"
          /\ UNCHANGED <<totals, iteration>> /\ Len(scored') = Len(outcomes)
      BY <1>10, JudgeIsTrue DEF Judge, GoTo, loop
    <2>2. CASE phase = "loop"
      <3>1. Spending'
        BY <2>1, <2>2 DEF OInv, Spending
      <3> QED
        BY <2>1, <2>2, <3>1, SpendingGoesOn
    <2>3. CASE phase # "loop"
      BY <2>1, <2>3, SpendingEnds
    <2> QED
      BY <2>2, <2>3
  <1>11. CASE ScoresReply \/ Update \/ RecordReply
    <2>1. /\ step \in {"scores", "update", "record"} /\ UNCHANGED <<totals, iteration, scored>>
          /\ phase' # "loop" \/ (phase = "loop" /\ phase' = "loop" /\ step' \in {"update", "record", "converge"})
      BY <1>11 DEF ScoresReply, Update, RecordReply, Awaits, Replied, GoTo, SInv, Control, Common, loop, data
    <2>2. CASE phase' # "loop"
      BY <2>1, <2>2, SpendingEnds
    <2>3. CASE phase' = "loop"
      <3>1. Spending'
        BY <2>1, <2>3 DEF OInv, Spending
      <3> QED
        BY <2>1, <2>3, <3>1, SpendingGoesOn
    <2> QED
      BY <2>2, <2>3
  <1>12. CASE Converge
    BY <1>12, SpendingConverges
  <1>13. CASE ScoresRaise \/ AttemptFails \/ TimesOut
    BY <1>13, SpendingRetried DEF ScoresRaise, AttemptFails, TimesOut
  <1>14. CASE \E l \in late : LateRead(l) \/ LateCommit(l)
    BY <1>14, SpendingWaits DEF LateRead, LateCommit, control, data, loop
  <1>15. CASE UNCHANGED vars
    BY <1>15, SpendingWaits DEF vars, control, data, loop
  <1> QED
    BY <1>1, <1>2, <1>3, <1>4, <1>5, <1>6, <1>7, <1>8, <1>9, <1>10, <1>11, <1>12, <1>13, <1>14, <1>15
       DEF Next, Work

-----------------------------------------------------------------------------
(* How far the rows of the run go beyond its budgets.  In the loop the      *)
(* counters are never behind the rows and the outcomes that have been gone  *)
(* through (LoopRows).  Behind the loop nothing is counted: there is what   *)
(* the finalists make, and each batch has its share of it (LaterRows).      *)
Ran   == [s : Scenarios, status : {"completed"}, metrics : Metrics]
Sized == [s : Scenarios, status : {"completed", "cached", "failed"}, metrics : [{"m"} -> Int]]

RanRows ==
    [s : Scenarios, status : {"scored", "failed"}, score : Int, metrics : Metrics, given : {TRUE}]
SizedRows ==
    [s : Scenarios, status : {"scored", "failed"}, score : Int, metrics : [{"m"} -> Int],
     given : BOOLEAN]

Gone == IF phase = "loop" /\ step = "metrics" THEN next - 1 ELSE 0

Held == IF phase = "loop" /\ step \in {"propose", "persist", "fetch", "simulate", "metrics"}
          THEN (iteration - 1) * BatchSize
          ELSE iteration * BatchSize

LoopRows ==
    /\ finalists = <<>>
    /\ Len(allScored) <= Held
    /\ Cardinality(Simulations) + Cardinality(Within(outcomes, Gone, Ran)) <= compute
    /\ Len(allScored) + Cardinality(Measurements)
          + Gone + Cardinality(Within(outcomes, Gone, Sized)) <= storage

RowsBy(x) ==
    /\ Len(allScored) <= Max({MaxScenarios, BatchSize}) + x
    /\ Cardinality(Simulations) <= MaxCompute + BatchSize + x
    /\ Len(allScored) + Cardinality(Measurements) <= MaxStorage + 2 * BatchSize + 2 * x

Promotion  == Len(finalists) * (2 * Replicates)
Robustness == Len(finalists) * Len(Modes)

Extra == IF phase = "promote" /\ step # "scores" THEN 0
         ELSE IF phase = "promote" \/ (phase = "robust" /\ step # "scores") THEN Promotion
         ELSE AfterLoop

Share == IF phase = "promote" THEN Promotion ELSE Robustness

Load ==
    /\ step \in {"persist", "fetch"} => Len(batch) <= Share
    /\ step = "simulate" => Len(outcomes) + Len(batch) <= Share
    /\ step = "metrics" => Len(outcomes) <= Share

LaterRows == RowsBy(Extra) /\ (phase # "final" => Load)

RInv == IF phase \in {"initial", "loop"} THEN LoopRows ELSE LaterRows

LEMMA Extras ==
    /\ Replicates \in Nat /\ Len(Modes) = 3
    /\ \A n \in Nat : /\ n * (2 * Replicates) \in Nat /\ n * Len(Modes) \in Nat
                      /\ n * (2 * Replicates + Len(Modes)) = n * (2 * Replicates) + n * Len(Modes)
                      /\ n * Replicates \in Nat
                      /\ n * Replicates + n * Replicates = n * (2 * Replicates)
  <1>1. Replicates \in Nat /\ Len(Modes) = 3
    BY LoopAssumption DEF Modes
  <1>2. \A n, r \in Nat : /\ n * (2 * r) \in Nat /\ n * 3 \in Nat
                          /\ n * (2 * r + 3) = n * (2 * r) + n * 3
                          /\ n * r \in Nat /\ n * r + n * r = n * (2 * r)
    OBVIOUS
  <1> QED
    BY <1>1, <1>2

LEMMA Shares ==
    ASSUME TInv
    PROVE  /\ Promotion \in Nat /\ Robustness \in Nat
           /\ AfterLoop = Promotion + Robustness
           /\ Extra \in Nat /\ Extra <= AfterLoop
  <1>1. Len(finalists) \in Nat
    BY LenProperties DEF TInv
  <1>2. Promotion \in Nat /\ Robustness \in Nat /\ AfterLoop = Promotion + Robustness
    BY <1>1, Extras DEF Promotion, Robustness, AfterLoop
  <1> QED
    BY <1>2 DEF Extra

LEMMA RowsAre ==
    ASSUME TInv
    PROVE  /\ Simulations = Hits(allScored, RanRows)
           /\ Measurements = Hits(allScored, SizedRows)
           /\ Cardinality(Simulations) \in Nat /\ Cardinality(Measurements) \in Nat
           /\ Len(allScored) \in Nat
  <1>1. allScored \in Seq(TrueRows)
    BY DEF TInv
  <1>2. /\ DOMAIN allScored = 1..Len(allScored) /\ Len(allScored) \in Nat
        /\ \A i \in DOMAIN allScored : allScored[i] \in TrueRows
    BY <1>1, LenProperties, ElementOfSeq
  <1>3. \A r \in TrueRows : r.given <=> r \in RanRows
    BY DEF TrueRows, RanRows
  <1>4. ASSUME NEW r \in TrueRows
        PROVE  DOMAIN r.metrics # {} <=> r \in SizedRows
    <2>1. r \in [s : Scenarios, status : {"scored", "failed"}, score : Int, metrics : Metrics,
                 given : BOOLEAN]
      BY DEF TrueRows
    <2>2. r.metrics \in Metrics
      BY <2>1
    <2>3. DOMAIN r.metrics # {} <=> r.metrics \in [{"m"} -> Int]
      BY <2>2 DEF Metrics
    <2> QED
      BY <2>1, <2>3 DEF SizedRows
  <1>5. Simulations = Hits(allScored, RanRows) /\ Measurements = Hits(allScored, SizedRows)
    BY <1>2, <1>3, <1>4 DEF Simulations, Measurements, Hits
  <1> QED
    BY <1>1, <1>2, <1>5, HitsAre

LEMMA OutcomesAre ==
    ASSUME NEW o \in TrueOutcomes
    PROVE  /\ o.status = "completed" <=> o \in Ran
           /\ DOMAIN o.metrics # {} <=> o \in Sized
  <1>1. o \in [s : Scenarios, status : {"completed", "cached", "failed"}, metrics : Metrics]
    BY DEF TrueOutcomes
  <1>2. o.metrics \in Metrics
    BY <1>1
  <1>3. DOMAIN o.metrics # {} <=> o.metrics \in [{"m"} -> Int]
    BY <1>2 DEF Metrics
  <1> QED
    BY <1>1, <1>3 DEF Ran, Sized

LEMMA WithinAre ==
    ASSUME TInv
    PROVE  /\ Gone \in Nat
           /\ Cardinality(Within(outcomes, Gone, Ran)) \in Nat
           /\ Cardinality(Within(outcomes, Gone, Sized)) \in Nat
           /\ Gone = 0 => /\ Cardinality(Within(outcomes, Gone, Ran)) = 0
                          /\ Cardinality(Within(outcomes, Gone, Sized)) = 0
  <1>1. Gone \in Nat
    BY DEF TInv, Gone
  <1> HIDE DEF Gone
  <1> QED
    BY <1>1, WithinGrows, WithinNothing

LEMMA RowsMore ==
    ASSUME TInv, NEW x \in Nat, NEW y \in Nat, x <= y, RowsBy(x)
    PROVE  RowsBy(y)
  <1>1. Max({MaxScenarios, BatchSize}) \in Int
    BY Budgets, MaxOfTwo
  <1> QED
    BY <1>1, RowsAre, Budgets DEF RowsBy

(* What the counters of the loop say of its rows. *)
LEMMA LoopBounded ==
    ASSUME TInv, SInv, OInv, RInv, phase \in {"initial", "loop"}
    PROVE  RowsBy(0) /\ finalists = <<>>
  <1>1. LoopRows
    BY DEF RInv
  <1>2. iteration \in 0..MaxIterations /\ iteration \in Nat
    BY Iterations DEF SInv, Counted
  <1>3. Held <= iteration * BatchSize /\ Held \in Int /\ iteration * BatchSize \in Int
    BY <1>2, Budgets DEF Held
  <1>4. iteration * BatchSize <= Max({MaxScenarios, BatchSize})
    BY <1>2, AllBatches
  <1>5. Max({MaxScenarios, BatchSize}) \in Int
    BY Budgets, MaxOfTwo
  <1>6. Len(allScored) <= Max({MaxScenarios, BatchSize}) + 0
    BY <1>1, <1>3, <1>4, <1>5, RowsAre DEF LoopRows
  <1>7. /\ compute \in Nat /\ compute <= MaxCompute + BatchSize
        /\ storage \in Nat /\ storage <= MaxStorage + 2 * BatchSize
    BY DEF OInv, Spent
  <1>8. /\ Cardinality(Simulations) <= compute
        /\ Len(allScored) + Cardinality(Measurements) <= storage
    BY <1>1, <1>7, WithinAre, RowsAre DEF LoopRows
  <1>9. /\ Cardinality(Simulations) <= MaxCompute + BatchSize + 0
        /\ Len(allScored) + Cardinality(Measurements) <= MaxStorage + 2 * BatchSize + 2 * 0
    BY <1>7, <1>8, RowsAre, Budgets
  <1> QED
    BY <1>1, <1>6, <1>9 DEF RowsBy, LoopRows

LEMMA SameRows ==
    ASSUME UNCHANGED <<finalists, allScored>>
    PROVE  /\ Simulations' = Simulations /\ Measurements' = Measurements
           /\ Promotion' = Promotion /\ Robustness' = Robustness /\ AfterLoop' = AfterLoop
           /\ \A x : RowsBy(x) <=> RowsBy(x)'
  <1>1. Simulations' = Simulations /\ Measurements' = Measurements
    BY DEF Simulations, Measurements
  <1> QED
    BY <1>1 DEF Promotion, Robustness, AfterLoop, RowsBy

(* A step that leaves the loop, for whatever reason, finds its rows within. *)
LEMMA RowsEnd ==
    ASSUME TInv, SInv, OInv, RInv, UNCHANGED <<finalists, allScored>>, phase' = "final"
    PROVE  RInv'
  <1>1. AfterLoop' = AfterLoop /\ (RowsBy(AfterLoop) <=> RowsBy(AfterLoop)')
    BY SameRows
  <1>2. RowsBy(AfterLoop)
    <2>1. CASE phase \in {"initial", "loop"}
      <3>1. RowsBy(0)
        BY <2>1, LoopBounded
      <3> QED
        BY <3>1, Shares, RowsMore
    <2>2. CASE phase \notin {"initial", "loop"}
      <3>1. RowsBy(Extra)
        BY <2>2 DEF RInv, LaterRows
      <3> QED
        BY <3>1, Shares, RowsMore
    <2> QED
      BY <2>1, <2>2
  <1>3. Extra' = AfterLoop'
    BY DEF Extra
  <1>4. RowsBy(Extra)'
    BY <1>1, <1>2, <1>3 DEF RowsBy
  <1> QED
    BY <1>4 DEF RInv, LaterRows

LEMMA RowsWait ==
    ASSUME RInv, UNCHANGED <<phase, step, iteration, finalists, compute, storage,
                             batch, outcomes, allScored, next>>
    PROVE  RInv'
  <1>1. Simulations' = Simulations /\ Measurements' = Measurements
        /\ Promotion' = Promotion /\ Robustness' = Robustness /\ AfterLoop' = AfterLoop
    BY SameRows
  <1>2. Held' = Held /\ Gone' = Gone /\ Extra' = Extra /\ Share' = Share
    BY <1>1 DEF Held, Gone, Extra, Share
  <1>3. LoopRows => LoopRows'
    BY <1>1, <1>2 DEF LoopRows
  <1>4. LaterRows => LaterRows'
    <2>1. RowsBy(Extra) => RowsBy(Extra)'
      BY <1>1, <1>2 DEF RowsBy
    <2>2. Load => Load'
      BY <1>2 DEF Load
    <2> QED
      BY <2>1, <2>2 DEF LaterRows
  <1> QED
    BY <1>3, <1>4 DEF RInv

(* From one activity of the loop to the next, and from one batch to the     *)
(* next.                                                                    *)
LEMMA LoopMoves ==
    ASSUME TInv, OInv, RInv, phase \in {"initial", "loop"}, phase' \in {"initial", "loop"},
           UNCHANGED <<finalists, allScored, compute, storage>>,
           Gone' = 0, Held' = Held
    PROVE  RInv'
  <1>1. LoopRows
    BY DEF RInv
  <1>2. Simulations' = Simulations /\ Measurements' = Measurements
    BY SameRows
  <1>3. /\ Cardinality(Within(outcomes', Gone', Ran)) = 0
        /\ Cardinality(Within(outcomes', Gone', Sized)) = 0
    BY WithinNothing
  <1>4. /\ Cardinality(Simulations) + 0 <= compute
        /\ Len(allScored) + Cardinality(Measurements) + 0 + 0 <= storage
    BY <1>1, WithinAre, RowsAre DEF LoopRows, OInv, Spent
  <1>5. /\ finalists' = <<>> /\ Len(allScored') <= Held'
        /\ Cardinality(Simulations') + 0 <= compute'
        /\ Len(allScored') + Cardinality(Measurements') + Gone' + 0 <= storage'
    BY <1>1, <1>2, <1>4 DEF LoopRows
  <1>6. LoopRows'
    BY <1>3, <1>5 DEF LoopRows
  <1> QED
    BY <1>6 DEF RInv

LEMMA LaterMoves ==
    ASSUME RInv, phase \in {"promote", "robust"}, phase' \in {"promote", "robust", "final"},
           UNCHANGED <<finalists, allScored>>, Extra' = Extra, phase' # "final" => Load'
    PROVE  RInv'
  <1>1. RowsBy(Extra)
    BY DEF RInv, LaterRows
  <1>2. RowsBy(Extra)'
    <2>1. Simulations' = Simulations /\ Measurements' = Measurements
      BY SameRows
    <2> QED
      BY <1>1, <2>1 DEF RowsBy
  <1> QED
    BY <1>2 DEF RInv, LaterRows

LEMMA RowsRetried ==
    ASSUME TInv, SInv, OInv, RInv, UNCHANGED <<loop, totals, data>>, Retry
    PROVE  RInv'
  <1>1. CASE UNCHANGED <<phase, step>>
    BY <1>1, RowsWait DEF loop, totals, data
  <1>2. CASE phase' = "final"
    BY <1>2, RowsEnd DEF loop, data
  <1> QED
    BY <1>1, <1>2 DEF Retry, GoTo

LEMMA RowsCounted ==
    ASSUME TInv, SInv, OInv, RInv, step = "metrics", next <= Len(outcomes), Count,
           phase' = phase, step' = step, UNCHANGED <<iteration, finalists>>
    PROVE  RInv'
  <1>1. UNCHANGED <<finalists, allScored, batch, outcomes>> /\ next' = next + 1
    BY DEF Count
  <1>2. Simulations' = Simulations /\ Measurements' = Measurements
        /\ Promotion' = Promotion /\ Robustness' = Robustness /\ AfterLoop' = AfterLoop
    BY <1>1, SameRows
  <1>3. CASE phase = "loop"
    <2>1. /\ next \in Nat /\ next - 1 \in Nat /\ (next - 1) + 1 = next
          /\ Gone = next - 1 /\ Gone' = next /\ Held' = Held
      BY <1>1, <1>3 DEF TInv, Gone, Held
    <2>2. /\ outcomes[next].status = "completed" <=> outcomes[next] \in Ran
          /\ DOMAIN outcomes[next].metrics # {} <=> outcomes[next] \in Sized
      BY NextOutcome, OutcomesAre
    <2>3. LoopRows
      BY <1>3 DEF RInv
    <2>4. /\ compute' = compute + (IF outcomes[next] \in Ran THEN 1 ELSE 0)
          /\ storage' = storage + (IF outcomes[next] \in Sized THEN 2 ELSE 1)
      BY <1>3, <2>2 DEF Count
    <2> DEFINE ran(m) == Cardinality(Within(outcomes, m, Ran))
               sized(m) == Cardinality(Within(outcomes, m, Sized))
    <2>5. /\ ran(next - 1) \in Nat /\ sized(next - 1) \in Nat
          /\ ran(next) = ran(next - 1) + (IF outcomes[next] \in Ran THEN 1 ELSE 0)
          /\ sized(next) = sized(next - 1) + (IF outcomes[next] \in Sized THEN 1 ELSE 0)
      BY <2>1, WithinGrows
    <2>6. /\ Cardinality(Within(outcomes', Gone', Ran)) = ran(next)
          /\ Cardinality(Within(outcomes', Gone', Sized)) = sized(next)
      BY <1>1, <2>1
    <2>7. /\ finalists = <<>> /\ Len(allScored) <= Held
          /\ Cardinality(Simulations) + ran(next - 1) <= compute
          /\ Len(allScored) + Cardinality(Measurements) + (next - 1) + sized(next - 1) <= storage
      BY <2>1, <2>3 DEF LoopRows
    <2> HIDE DEF ran, sized
    <2>8. /\ Cardinality(Simulations) \in Nat /\ Cardinality(Measurements) \in Nat
          /\ Len(allScored) \in Nat /\ compute \in Nat /\ storage \in Nat
      BY RowsAre DEF OInv, Spent
    <2>9. Cardinality(Simulations) + ran(next) <= compute'
      <3>1. CASE outcomes[next] \in Ran
        <4>1. compute' = compute + 1 /\ ran(next) = ran(next - 1) + 1
          BY <2>4, <2>5, <3>1
        <4> QED
          BY <2>5, <2>7, <2>8, <4>1
      <3>2. CASE outcomes[next] \notin Ran
        <4>1. compute' = compute + 0 /\ ran(next) = ran(next - 1) + 0
          BY <2>4, <2>5, <3>2
        <4> QED
          BY <2>5, <2>7, <2>8, <4>1
      <3> QED
        BY <3>1, <3>2
    <2>11. Len(allScored) + Cardinality(Measurements) + next + sized(next) <= storage'
      <3> DEFINE held == Len(allScored) + Cardinality(Measurements)
      <3>0. /\ held \in Nat /\ next - 1 \in Nat /\ sized(next - 1) \in Nat /\ storage \in Nat
            /\ held + (next - 1) + sized(next - 1) <= storage
        BY <2>1, <2>5, <2>7, <2>8
      <3> HIDE DEF held
      <3> SUFFICES held + next + sized(next) <= storage'
        BY DEF held
      <3>1. CASE outcomes[next] \in Sized
        <4>1. storage' = storage + 2 /\ sized(next) = sized(next - 1) + 1
          BY <2>4, <2>5, <3>1
        <4> QED
          BY <2>1, <3>0, <4>1
      <3>2. CASE outcomes[next] \notin Sized
        <4>1. storage' = storage + 1 /\ sized(next) = sized(next - 1) + 0
          BY <2>4, <2>5, <3>2
        <4> QED
          BY <2>1, <3>0, <4>1
      <3> QED
        BY <3>1, <3>2
    <2>10. LoopRows'
      BY <1>1, <1>2, <2>1, <2>6, <2>7, <2>9, <2>11 DEF LoopRows
    <2> QED
      BY <1>3, <2>10 DEF RInv
  <1>4. CASE phase # "loop"
    <2>1. phase \in {"promote", "robust"}
      BY <1>4 DEF SInv, Control
    <2>2. Extra' = Extra /\ Share' = Share
      BY <1>2 DEF Extra, Share
    <2>3. Load'
      BY <1>1, <2>1, <2>2 DEF RInv, LaterRows, Load
    <2> QED
      BY <1>1, <2>1, <2>2, <2>3, LaterMoves
  <1> QED
    BY <1>3, <1>4

(* The rows that the judge adds are those of the outcomes.                  *)
LEMMA JudgeAdds ==
    ASSUME TInv, Judge
    PROVE  LET n == Len(outcomes)
               ran == Cardinality(Within(outcomes, n, Ran))
               sized == Cardinality(Within(outcomes, n, Sized))
           IN  /\ n \in Nat /\ ran \in Nat /\ ran <= n /\ sized \in Nat /\ sized <= n
               /\ Len(allScored') = Len(allScored) + n
               /\ Cardinality(Simulations') = Cardinality(Simulations) + ran
               /\ Cardinality(Measurements') = Cardinality(Measurements) + sized
  <1> DEFINE n == Len(outcomes)
             rows == JudgeScoreOutcomes(Mute, Objectives, outcomes)
  <1>1. /\ rows \in Seq(TrueRows) /\ DOMAIN rows = DOMAIN outcomes /\ Len(rows) = n
        /\ \A i \in DOMAIN outcomes : rows[i].s = outcomes[i].s
    BY JudgeIsTrue
  <1>2. /\ outcomes \in Seq(TrueOutcomes) /\ allScored \in Seq(TrueRows)
        /\ allScored' = allScored \o rows
    BY DEF TInv, Judge
  <1>3. /\ n \in Nat /\ DOMAIN outcomes = 1..n /\ \A i \in 1..n : outcomes[i] \in TrueOutcomes
    BY <1>2, LenProperties, ElementOfSeq
  <1>4. \A i \in 1..n : rows[i].given <=> outcomes[i].status = "completed"
    BY <1>3 DEF JudgeScoreOutcomes, Judged
  <1> HIDE DEF rows
  <1>5. \A i \in 1..n : rows[i] \in TrueRows
    BY <1>1, <1>3, ElementOfSeq
  <1>6. ASSUME NEW i \in 1..n
        PROVE  /\ rows[i] \in RanRows <=> outcomes[i] \in Ran
               /\ rows[i] \in SizedRows <=> outcomes[i] \in Sized
    <2>1. rows[i].metrics = outcomes[i].metrics
      BY <1>1, <1>3, <1>5 DEF TrueRows, TrueOutcomes
    <2>2. rows[i] \in [s : Scenarios, status : {"scored", "failed"}, score : Int,
                       metrics : Metrics, given : BOOLEAN]
      BY <1>5 DEF TrueRows
    <2>3. DOMAIN rows[i].metrics # {} <=> rows[i] \in SizedRows
      <3>1. rows[i].metrics \in Metrics
        BY <2>2
      <3>2. DOMAIN rows[i].metrics # {} <=> rows[i].metrics \in [{"m"} -> Int]
        BY <3>1 DEF Metrics
      <3> QED
        BY <2>2, <3>2 DEF SizedRows
    <2>4. rows[i].given <=> rows[i] \in RanRows
      BY <2>2 DEF RanRows
    <2>5. /\ outcomes[i].status = "completed" <=> outcomes[i] \in Ran
          /\ DOMAIN outcomes[i].metrics # {} <=> outcomes[i] \in Sized
      BY <1>3, OutcomesAre
    <2> QED
      BY <1>4, <2>1, <2>3, <2>4, <2>5
  <1>7. /\ Hits(rows, RanRows) = Within(outcomes, n, Ran)
        /\ Hits(rows, SizedRows) = Within(outcomes, n, Sized)
    BY <1>1, <1>3, <1>6 DEF Hits, Within
  <1>8. /\ Cardinality(Hits(rows, RanRows)) \in Nat /\ Cardinality(Hits(rows, RanRows)) <= n
        /\ Cardinality(Hits(rows, SizedRows)) \in Nat /\ Cardinality(Hits(rows, SizedRows)) <= n
    BY <1>1, HitsAre
  <1>9. /\ allScored' \in Seq(TrueRows) /\ Len(allScored') = Len(allScored) + n
        /\ Cardinality(Hits(allScored', RanRows))
              = Cardinality(Hits(allScored, RanRows)) + Cardinality(Hits(rows, RanRows))
        /\ Cardinality(Hits(allScored', SizedRows))
              = Cardinality(Hits(allScored, SizedRows)) + Cardinality(Hits(rows, SizedRows))
    <2>1. /\ allScored \o rows \in Seq(TrueRows)
          /\ Len(allScored \o rows) = Len(allScored) + Len(rows)
      BY <1>1, <1>2, ConcatProperties
    <2>2. \A F : Cardinality(Hits(allScored \o rows, F))
                    = Cardinality(Hits(allScored, F)) + Cardinality(Hits(rows, F))
      BY <1>1, <1>2, HitsJoined
    <2> QED
      BY <1>1, <1>2, <2>1, <2>2
  <1>10. /\ Simulations = Hits(allScored, RanRows) /\ Measurements = Hits(allScored, SizedRows)
    BY RowsAre
  <1>11. Simulations' = Hits(allScored', RanRows) /\ Measurements' = Hits(allScored', SizedRows)
    <2>1. /\ DOMAIN allScored' = 1..Len(allScored')
          /\ \A i \in DOMAIN allScored' : allScored'[i] \in TrueRows
      BY <1>9, LenProperties, ElementOfSeq
    <2>2. \A r \in TrueRows : r.given <=> r \in RanRows
      BY DEF TrueRows, RanRows
    <2>3. ASSUME NEW r \in TrueRows
          PROVE  DOMAIN r.metrics # {} <=> r \in SizedRows
      <3>1. /\ r \in [s : Scenarios, status : {"scored", "failed"}, score : Int,
                      metrics : Metrics, given : BOOLEAN]
            /\ r.metrics \in Metrics
        BY DEF TrueRows
      <3>2. DOMAIN r.metrics # {} <=> r.metrics \in [{"m"} -> Int]
        BY <3>1 DEF Metrics
      <3> QED
        BY <3>1, <3>2 DEF SizedRows
    <2> QED
      BY <2>1, <2>2, <2>3 DEF Simulations, Measurements, Hits
  <1> QED
    BY <1>3, <1>7, <1>8, <1>9, <1>10, <1>11

LEMMA RowsJudged ==
    ASSUME TInv, SInv, OInv, RInv, Judge
    PROVE  RInv'
  <1> DEFINE n == Len(outcomes)
             ran == Cardinality(Within(outcomes, n, Ran))
             sized == Cardinality(Within(outcomes, n, Sized))
  <1>1. /\ n \in Nat /\ ran \in Nat /\ ran <= n /\ sized \in Nat /\ sized <= n
        /\ Len(allScored') = Len(allScored) + n
        /\ Cardinality(Simulations') = Cardinality(Simulations) + ran
        /\ Cardinality(Measurements') = Cardinality(Measurements) + sized
    BY JudgeAdds
  <1>2. /\ step = "metrics" /\ next > n /\ phase' = phase /\ step' = "scores"
        /\ UNCHANGED <<iteration, finalists, compute, storage>>
    BY DEF Judge, GoTo, loop, totals
  <1>3. /\ Cardinality(Simulations) \in Nat /\ Cardinality(Measurements) \in Nat
        /\ Len(allScored) \in Nat /\ compute \in Nat /\ storage \in Nat
    BY RowsAre DEF OInv, Spent
  <1>4. CASE phase = "loop"
    <2>1. LoopRows
      BY <1>4 DEF RInv
    <2>2. n <= BatchSize /\ Gone = n
      BY <1>1, <1>2, <1>4 DEF OInv, Spending, Gone, TInv
    <2>3. /\ finalists = <<>> /\ Len(allScored) <= Held
          /\ Cardinality(Simulations) + ran <= compute
          /\ Len(allScored) + Cardinality(Measurements) + n + sized <= storage
      BY <2>1, <2>2 DEF LoopRows
    <2>4. Gone' = 0 /\ Held = (iteration - 1) * BatchSize /\ Held' = iteration * BatchSize
      BY <1>2, <1>4 DEF Gone, Held
    <2>5. iteration \in Nat
      BY Iterations DEF SInv, Counted
    <2>6. Held \in Int /\ Held + BatchSize = Held' /\ BatchSize \in Int
      BY <2>4, <2>5, Budgets
    <2> HIDE DEF n, ran, sized
    <2>7. /\ Len(allScored') <= Held'
          /\ Cardinality(Simulations') + 0 <= compute'
          /\ Len(allScored') + Cardinality(Measurements') + 0 + 0 <= storage'
      <3>1. Len(allScored) + n <= Held + BatchSize
        BY <1>1, <1>3, <2>2, <2>3, <2>6
      <3>2. (Cardinality(Simulations) + ran) + 0 <= compute
        BY <1>1, <1>3, <2>3
      <3>3. (Len(allScored) + n) + (Cardinality(Measurements) + sized) + 0 + 0 <= storage
        BY <1>1, <1>3, <2>3
      <3> QED
        BY <1>1, <1>2, <2>6, <3>1, <3>2, <3>3
    <2>8. /\ Cardinality(Within(outcomes', 0, Ran)) = 0
          /\ Cardinality(Within(outcomes', 0, Sized)) = 0
      BY WithinNothing
    <2>9. LoopRows'
      BY <1>2, <2>3, <2>4, <2>7, <2>8 DEF LoopRows
    <2> QED
      BY <1>2, <1>4, <2>9 DEF RInv
  <1>5. CASE phase # "loop"
    <2>1. phase \in {"promote", "robust"}
      BY <1>2, <1>5 DEF SInv, Control
    <2>2. RowsBy(Extra) /\ n <= Share
      BY <1>2, <2>1 DEF RInv, LaterRows, Load
    <2>3. Extra \in Nat /\ Share \in Nat /\ Extra' = Extra + Share
      <3>1. Promotion' = Promotion /\ Robustness' = Robustness /\ AfterLoop' = AfterLoop
        BY <1>2 DEF Promotion, Robustness, AfterLoop
      <3> QED
        BY <1>2, <2>1, <3>1, Shares DEF Extra, Share
    <2>4. Max({MaxScenarios, BatchSize}) \in Int
      BY Budgets, MaxOfTwo
    <2>5. /\ Len(allScored) <= Max({MaxScenarios, BatchSize}) + Extra
          /\ Cardinality(Simulations) <= MaxCompute + BatchSize + Extra
          /\ Len(allScored) + Cardinality(Measurements) <= MaxStorage + 2 * BatchSize + 2 * Extra
      BY <2>2 DEF RowsBy
    <2> HIDE DEF n, ran, sized
    <2>6. /\ Len(allScored) + n <= Max({MaxScenarios, BatchSize}) + (Extra + Share)
          /\ Cardinality(Simulations) + ran <= MaxCompute + BatchSize + (Extra + Share)
          /\ (Len(allScored) + n) + (Cardinality(Measurements) + sized)
                <= MaxStorage + 2 * BatchSize + 2 * (Extra + Share)
      <3>1. Len(allScored) + n <= Max({MaxScenarios, BatchSize}) + (Extra + Share)
        BY <1>1, <1>3, <2>2, <2>3, <2>4, <2>5
      <3>2. Cardinality(Simulations) + ran <= MaxCompute + BatchSize + (Extra + Share)
        <4>1. MaxCompute \in Int /\ BatchSize \in Int /\ ran <= Share
          BY <1>1, <2>2, <2>3, Budgets
        <4> QED
          BY <1>1, <1>3, <2>3, <2>5, <4>1
      <3>3. (Len(allScored) + n) + (Cardinality(Measurements) + sized)
                <= MaxStorage + 2 * BatchSize + 2 * (Extra + Share)
        <4>1. MaxStorage \in Int /\ BatchSize \in Int /\ n + sized <= 2 * Share
          BY <1>1, <2>2, <2>3, Budgets
        <4> QED
          BY <1>1, <1>3, <2>3, <2>5, <4>1
      <3> QED
        BY <3>1, <3>2, <3>3
    <2>7. RowsBy(Extra)'
      BY <1>1, <2>3, <2>6 DEF RowsBy
    <2>8. Load'
      BY <1>2 DEF Load
    <2> QED
      BY <1>2, <2>1, <2>7, <2>8 DEF RInv, LaterRows
  <1> QED
    BY <1>4, <1>5

LEMMA RowsLeave ==
    ASSUME TInv, SInv, OInv, RInv, Leave
    PROVE  RInv'
  <1>1. step = "head" /\ phase = "loop" /\ allScored' = allScored
    BY DEF Leave, SInv, Control, Common, data
  <1>2. RowsBy(0)
    BY <1>1, LoopBounded
  <1>3. finalists' \in Seq(Picks)
    <2>1. PICK rows \in {Scored(allScored)} : finalists' = Finalists(rows)
      BY DEF Leave
    <2>2. rows = Scored(allScored) /\ allScored \in Seq(TrueRows)
      BY <2>1 DEF TInv
    <2>3. Scored(allScored) \in Seq({r \in TrueRows : r.status = "scored"})
      BY <2>2, ScoredIs
    <2>4. Scored(allScored) \in Seq(TrueRows)
      BY <2>3
    <2> QED
      BY <2>1, <2>2, <2>4, FinalistsAre
  <1>4. \/ phase' = "promote" /\ step' = "promote"
        \/ phase' = "final" /\ finalists' = <<>>
    BY DEF Leave, GoTo
  <1>5. Simulations' = Simulations /\ Measurements' = Measurements
    BY <1>1 DEF Simulations, Measurements
  <1>6. Extra' = 0
    <2>1. CASE phase' = "promote" /\ step' = "promote"
      BY <2>1 DEF Extra
    <2>2. CASE phase' = "final" /\ finalists' = <<>>
      <3>1. Len(finalists') = 0
        BY <2>2, EmptySeq
      <3>2. Extra' = AfterLoop' /\ AfterLoop' = 0 * (2 * Replicates + Len(Modes))
        BY <2>2, <3>1 DEF Extra, AfterLoop
      <3> QED
        BY <3>2, Extras
    <2> QED
      BY <1>4, <2>1, <2>2
  <1>7. RowsBy(Extra)'
    BY <1>1, <1>2, <1>5, <1>6 DEF RowsBy
  <1>8. phase' # "final" => Load'
    BY <1>4 DEF Load
  <1> QED
    BY <1>4, <1>7, <1>8 DEF RInv, LaterRows

LEMMA RowsFetched ==
    ASSUME TInv, SInv, OInv, RInv, Fetch
    PROVE  RInv'
  <1>1. /\ step = "fetch" /\ phase' = phase /\ step' \in {"simulate", "metrics"}
        /\ next' = 1 /\ outcomes' = Cached(batch) /\ batch' = Pending(batch)
        /\ UNCHANGED <<iteration, finalists, allScored, compute, storage>>
    BY DEF Fetch, Awaits, GoTo, loop, totals
  <1>2. CASE phase = "loop"
    <2>1. Gone' = 0 /\ Held' = Held
      BY <1>1, <1>2 DEF Gone, Held
    <2> QED
      BY <1>1, <1>2, <2>1, LoopMoves
  <1>3. CASE phase # "loop"
    <2>1. phase \in {"promote", "robust"}
      BY <1>1, <1>3 DEF SInv, Control
    <2>2. Len(batch) <= Share
      BY <1>1, <2>1 DEF RInv, LaterRows, Load
    <2>3. /\ Len(outcomes') + Len(batch') = Len(batch)
          /\ Len(outcomes') \in Nat /\ Len(batch') \in Nat
      BY <1>1, FetchedIsTrue, LenProperties
    <2>4. Share' = Share /\ Extra' = Extra /\ Share \in Nat
      BY <1>1, <2>1, Shares DEF Share, Extra, Promotion, Robustness, AfterLoop
    <2>5. Len(outcomes') <= Share'
      BY <2>2, <2>3, <2>4
    <2>6. Load'
      BY <1>1, <2>2, <2>3, <2>4, <2>5 DEF Load
    <2> QED
      BY <1>1, <2>1, <2>4, <2>6, LaterMoves
  <1> QED
    BY <1>2, <1>3

LEMMA RowsSimulated ==
    ASSUME TInv, SInv, OInv, RInv, Simulate
    PROVE  RInv'
  <1> DEFINE simulated == [i \in DOMAIN batch |-> Run(batch[i])]
  <1>1. /\ step = "simulate" /\ phase' = phase /\ step' = "metrics"
        /\ next' = next /\ outcomes' = outcomes \o simulated
        /\ UNCHANGED <<iteration, finalists, allScored, compute, storage>>
    BY DEF Simulate, Awaits, GoTo, loop, totals
  <1>2. simulated \in Seq(TrueOutcomes) /\ Len(simulated) = Len(batch) /\ outcomes \in Seq(TrueOutcomes)
    BY SimulatedIsTrue DEF TInv
  <1> HIDE DEF simulated
  <1>3. CASE phase = "loop"
    <2>1. next = 1
      BY <1>1, <1>3 DEF OInv, Spending
    <2>2. Gone' = 0 /\ Held' = Held
      BY <1>1, <1>3, <2>1 DEF Gone, Held
    <2> QED
      BY <1>1, <1>3, <2>2, LoopMoves
  <1>4. CASE phase # "loop"
    <2>1. phase \in {"promote", "robust"}
      BY <1>1, <1>4 DEF SInv, Control
    <2>2. Len(outcomes) + Len(batch) <= Share
      BY <1>1, <2>1 DEF RInv, LaterRows, Load
    <2>3. Len(outcomes') = Len(outcomes) + Len(batch)
      <3>1. Len(outcomes \o simulated) = Len(outcomes) + Len(simulated)
        BY <1>2, ConcatProperties
      <3> QED
        BY <1>1, <1>2, <3>1
    <2>4. Share' = Share /\ Extra' = Extra
      BY <1>1, <2>1 DEF Share, Extra, Promotion, Robustness, AfterLoop
    <2>5. Load'
      BY <1>1, <2>2, <2>3, <2>4 DEF Load
    <2> QED
      BY <1>1, <2>1, <2>4, <2>5, LaterMoves
  <1> QED
    BY <1>3, <1>4

LEMMA RowsProposed ==
    ASSUME TInv, SInv, RInv, Promote \/ Perturb
    PROVE  RInv'
  <1>1. UNCHANGED <<finalists, allScored>> /\ step' = "persist"
    BY DEF Promote, Perturb, GoTo, loop
  <1>2. Promotion' = Promotion /\ Robustness' = Robustness /\ AfterLoop' = AfterLoop
    BY <1>1, SameRows
  <1>3. finalists \in Seq(Picks) /\ Len(finalists) \in Nat
    BY LenProperties DEF TInv
  <1>4. CASE Promote
    <2>1. /\ phase = "promote" /\ step = "promote" /\ phase' = "promote"
          /\ batch' = Promoted("mid") \o Promoted("high")
      BY <1>4 DEF Promote, Awaits, GoTo, SInv, Control, Common
    <2>2. /\ Promoted("mid") \in Seq(Scenarios) /\ Len(Promoted("mid")) = Len(finalists) * Replicates
          /\ Promoted("high") \in Seq(Scenarios) /\ Len(Promoted("high")) = Len(finalists) * Replicates
      BY <1>3, PromotedAre
    <2>3. Len(batch') = Len(finalists) * Replicates + Len(finalists) * Replicates
      BY <2>1, <2>2, ConcatProperties
    <2>4. Promotion = Len(finalists) * Replicates + Len(finalists) * Replicates /\ Promotion \in Nat
      BY <1>3, Extras DEF Promotion
    <2>5. Len(batch') <= Share'
      BY <1>2, <2>1, <2>3, <2>4 DEF Share
    <2>6. Load' /\ Extra' = Extra
      BY <1>1, <2>1, <2>5 DEF Load, Extra
    <2> QED
      BY <1>1, <2>1, <2>6, LaterMoves
  <1>5. CASE Perturb
    <2>1. phase = "robust" /\ step = "perturb" /\ phase' = "robust"
      BY <1>5 DEF Perturb, Awaits, GoTo, SInv, Control, Common
    <2>2. PICK salt \in Salts : batch' = Perturbed(salt)
      BY <1>5 DEF Perturb
    <2>3. Len(batch') = Robustness /\ Robustness \in Nat
      BY <1>3, <2>2, PerturbedAre, Extras DEF Robustness
    <2>4. Len(batch') <= Share'
      BY <1>2, <2>1, <2>3 DEF Share
    <2>5. Load' /\ Extra' = Extra
      BY <1>1, <1>2, <2>1, <2>4 DEF Load, Extra
    <2> QED
      BY <1>1, <2>1, <2>5, LaterMoves
  <1> QED
    BY <1>4, <1>5

LEMMA RowsInductive == TInv /\ PInv /\ SInv /\ OInv /\ RInv /\ [Next]_vars => RInv'
  <1> SUFFICES ASSUME TInv, PInv, SInv, OInv, RInv, [Next]_vars PROVE RInv'
    OBVIOUS
  <1>1. CASE \/ PersistCommit \/ MetricsRead \/ MetricsCommit \/ ScoresRead \/ ScoresCommit
             \/ RecordCommit
    <2>1. UNCHANGED <<phase, step, loop, totals, data>>
      BY <1>1 DEF PersistCommit, MetricsRead, MetricsCommit, ScoresRead, ScoresCommit, RecordCommit,
                  Advance
    <2> QED
      BY <2>1, RowsWait DEF loop, totals, data
  <1>2. CASE \/ Generate \/ Iterate \/ Propose \/ Update \/ RecordReply \/ Converge
             \/ (PersistReply /\ phase \in {"initial", "loop"}) \/ (ScoresReply /\ phase = "loop")
    <2>1. /\ phase \in {"initial", "loop"} /\ phase' \in {"initial", "loop"}
          /\ step' # "metrics" /\ UNCHANGED <<finalists, allScored, compute, storage>>
      BY <1>2 DEF Generate, Iterate, Propose, Update, RecordReply, Converge, PersistReply, ScoresReply,
                  Awaits, Replied, GoTo, SInv, Control, Common, loop, totals, data
    <2>2. Gone' = 0
      BY <2>1 DEF Gone
    <2>3. Held' = Held
      <3>1. CASE Iterate
        <4>1. /\ phase = "loop" /\ step = "head" /\ phase' = "loop" /\ step' = "propose"
              /\ iteration' = iteration + 1
          BY <3>1 DEF Iterate, SInv, Control, Common, GoTo
        <4>2. iteration \in Nat
          BY Iterations DEF SInv, Counted
        <4> QED
          BY <4>1, <4>2, Budgets DEF Held
      <3>2. CASE ~Iterate
        <4>1. /\ iteration' = iteration
              /\ (phase = "loop" /\ step \in {"propose", "persist", "fetch", "simulate", "metrics"})
                    <=> (phase' = "loop"
                           /\ step' \in {"propose", "persist", "fetch", "simulate", "metrics"})
          BY <1>2, <2>1, <3>2
             DEF Generate, Propose, Update, RecordReply, Converge, PersistReply, ScoresReply,
                 Awaits, Replied, GoTo, SInv, Control, Common, loop
        <4> QED
          BY <4>1 DEF Held
      <3> QED
        BY <3>1, <3>2
    <2> QED
      BY <2>1, <2>2, <2>3, LoopMoves
  <1>3. CASE \/ (PersistReply /\ phase \notin {"initial", "loop"})
             \/ (ScoresReply /\ phase # "loop")
    <2>1. /\ phase \in {"promote", "robust"} /\ UNCHANGED <<finalists, allScored, batch>>
          /\ \/ step = "persist" /\ step' = "fetch" /\ phase' = phase
             \/ phase = "promote" /\ step = "scores" /\ phase' = "robust" /\ step' = "perturb"
             \/ phase = "robust" /\ step = "scores" /\ phase' = "final"
      BY <1>3 DEF PersistReply, ScoresReply, Replied, GoTo, SInv, Control, Common, loop, data
    <2>2. Promotion' = Promotion /\ Robustness' = Robustness /\ AfterLoop' = AfterLoop
      BY <2>1, SameRows
    <2>3. Extra' = Extra
      BY <2>1, <2>2 DEF Extra
    <2>4. Load
      BY <2>1 DEF RInv, LaterRows
    <2>5. phase' # "final" => Load'
      BY <2>1, <2>2, <2>4 DEF Load, Share
    <2> QED
      BY <2>1, <2>3, <2>5, LaterMoves
  <1>4. CASE Leave
    BY <1>4, RowsLeave
  <1>5. CASE Fetch
    BY <1>5, RowsFetched
  <1>6. CASE Simulate
    BY <1>6, RowsSimulated
  <1>7. CASE SkipMetrics
    BY <1>7, RowsCounted DEF SkipMetrics, control, loop
  <1>8. CASE MetricsReply
    <2>1. Storing
      BY <1>8 DEF PInv, FoundIsThere, MetricsReply, Replied
    <2> QED
      BY <1>8, <2>1, RowsCounted DEF MetricsReply, Replied, GoTo, Storing, loop
  <1>9. CASE Judge
    BY <1>9, RowsJudged
  <1>10. CASE Promote \/ Perturb
    BY <1>10, RowsProposed
  <1>11. CASE Progress
    BY <1>11, RowsEnd DEF Progress, GoTo, loop
  <1>12. CASE ScoresRaise \/ AttemptFails \/ TimesOut
    BY <1>12, RowsRetried DEF ScoresRaise, AttemptFails, TimesOut
  <1>13. CASE \E l \in late : LateRead(l) \/ LateCommit(l)
    BY <1>13, RowsWait DEF LateRead, LateCommit, control, data, loop, totals
  <1>14. CASE UNCHANGED vars
    BY <1>14, RowsWait DEF vars, control, data, loop, totals
  <1> QED
    BY <1>1, <1>2, <1>3, <1>4, <1>5, <1>6, <1>7, <1>8, <1>9, <1>10, <1>11, <1>12, <1>13, <1>14
       DEF Next, Work

LEMMA RowsAtFirst == Init => RInv
  <1> SUFFICES ASSUME Init PROVE RInv
    OBVIOUS
  <1>1. /\ phase = "initial" /\ finalists = <<>> /\ allScored = <<>>
        /\ iteration = 0 /\ compute = 0 /\ storage = 0
    BY DEF Init
  <1>2. Len(allScored) = 0 /\ DOMAIN allScored = {}
    BY <1>1, EmptySeq
  <1>3. Simulations = {} /\ Measurements = {}
    BY <1>2 DEF Simulations, Measurements
  <1>4. Gone = 0 /\ Held = 0
    BY <1>1, Budgets DEF Gone, Held
  <1>5. /\ Cardinality(Simulations) = 0 /\ Cardinality(Measurements) = 0
        /\ Cardinality(Within(outcomes, 0, Ran)) = 0
        /\ Cardinality(Within(outcomes, 0, Sized)) = 0
    BY <1>3, FS_EmptySet, WithinNothing
  <1>6. LoopRows
    BY <1>1, <1>2, <1>4, <1>5 DEF LoopRows
  <1> QED
    BY <1>1, <1>6 DEF RInv

LEMMA RowsWithin == TInv /\ SInv /\ OInv /\ RInv => OverrunIsBounded
  <1> SUFFICES ASSUME TInv, SInv, OInv, RInv PROVE OverrunIsBounded
    OBVIOUS
  <1>1. RowsBy(AfterLoop)
    <2>1. CASE phase \in {"initial", "loop"}
      <3>1. RowsBy(0)
        BY <2>1, LoopBounded
      <3> QED
        BY <3>1, Shares, RowsMore
    <2>2. CASE phase \notin {"initial", "loop"}
      <3>1. RowsBy(Extra)
        BY <2>2 DEF RInv, LaterRows
      <3> QED
        BY <3>1, Shares, RowsMore
    <2> QED
      BY <2>1, <2>2
  <1> QED
    BY <1>1 DEF RowsBy, OverrunIsBounded

\* However many budgets a run may exceed, whatever its activities do again and
\* whatever came from the ledger: its rows go beyond a budget by one batch of
\* the loop, and by what its finalists make in promotion and robustness tests,
\* and by no more.
THEOREM OverrunBounded == Spec => []OverrunIsBounded
  <1>1. Init => LInv /\ TInv /\ PInv /\ SInv /\ OInv /\ RInv
    <2>1. Init => OInv
      BY Budgets, Iterations DEF Init, OInv, Spent, Paid
    <2> QED
      BY <2>1, LedgerAtFirst, TrueAtFirst, StopAtFirst, RowsAtFirst
  <1>2. /\ LInv /\ TInv /\ PInv /\ SInv /\ OInv /\ RInv /\ [Next]_vars
        => (LInv /\ TInv /\ PInv /\ SInv /\ OInv /\ RInv)'
    BY LedgerInductive, TruthInductive, PresenceInductive, StopInductive, SpendingInductive,
       RowsInductive
  <1> QED
    BY <1>1, <1>2, RowsWithin, PTL DEF Spec
=============================================================================
