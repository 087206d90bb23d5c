-------------------------------- MODULE Orders --------------------------------
(***************************************************************************)
(* Sorting, filtering and adding up, as Python's sorted, its list          *)
(* comprehensions and its sum do.  Stated with functions and sets only, so *)
(* that what they return can be proved.                                    *)
(***************************************************************************)
EXTENDS Integers, Sequences, FiniteSets, FiniteSetsExt, SequencesExt

(* The members of a set in their order: ahead maps each of them to those    *)
(* before it, and the k-th has k - 1 ahead of it.                           *)
Ordered(ahead) ==
    [k \in 1..Cardinality(DOMAIN ahead) |->
        CHOOSE i \in DOMAIN ahead : Cardinality(ahead[i]) = k - 1]

(* The members from the best down, equals in the order of their places:     *)
(* above maps each of them to those that rank above it.                     *)
RankedBy(above) ==
    Ordered([i \in DOMAIN above |->
                above[i] \cup {j \in DOMAIN above : j < i /\ i \notin above[j]}])

(* The rows at some positions, in their old order. *)
Picked(rows, positions) ==
    LET order == Ordered([i \in positions |-> {j \in positions : j < i}])
    IN  [k \in DOMAIN order |-> rows[order[k]]]

SumOf(f) == MapThenSumSet(LAMBDA x : f[x], DOMAIN f)
=============================================================================
