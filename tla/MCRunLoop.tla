----------------------------- MODULE MCRunLoop -----------------------------
(* Model checking of RunLoop: one lever, three seeds, packs that fail for   *)
(* some seeds.                                                              *)
EXTENDS RunLoop, TLC

Proposal(v, seed) == [acts |-> <<v>>, seed |-> seed]

MCBatches == {<<Proposal(0, 0), Proposal(1, 1)>>, <<Proposal(1, 1), Proposal(0, 2)>>,
              <<Proposal(0, 3), Proposal(1, 4)>>}
MCInitial == <<Scenario(<<0>>, 5, "cheap", "none")>>

Good(v) == [status |-> "completed", metrics |-> [m \in {"m"} |-> v]]
Bad     == [status |-> "failed", metrics |-> Mute]
Idle    == [status |-> "completed", metrics |-> Mute]

PackOf(out) == [seed \in 0..2 |-> out[seed + 1]]

MCPacks == {PackOf(out) : out \in {<<Bad, Bad, Bad>>, <<Good(2), Good(2), Bad>>,
                                    <<Good(1), Idle, Good(4)>>}}
MCSalts == {[sensitivity |-> 1, stress |-> 2, worst_case |-> 0]}

MCObjectives == [m \in {"m"} |-> [direction |-> "minimize", weight |-> 2]]

(* The order and the selection of RunScoring are those of sorted and of a   *)
(* filtering list comprehension, here SortSeq and SelectSeq.                *)
SmallRows == UNION {[1..n -> [status : {"scored", "failed"}, score : 0..2]] : n \in 0..3}

ASSUME OrderAgrees ==
    \A rows \in SmallRows :
        LET order == SortSeq([i \in DOMAIN rows |-> i], LAMBDA i, j : Before(rows, i, j))
        IN  /\ Ranked(rows) = [k \in DOMAIN order |-> rows[order[k]]]
            /\ Scored(rows) = SelectSeq(rows, LAMBDA row : row.status = "scored")
=============================================================================
