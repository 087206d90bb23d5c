---------------------------- MODULE MCCommittee ----------------------------
(* Model checking of Committee: three providers, two drivers.              *)
EXTENDS Committee

Asked(origin, stage, stakes, llm, results) ==
    [origin |-> origin, stage |-> stage, stakes |-> stakes, llm |-> llm,
     results |-> results, k |-> 5]
Result(id, score) == [id |-> id, score |-> score]
Close == <<Result("s1", 60), Result("s2", 65)>>

MCTasks ==
    {Asked("activity", "cause_modeling", s, llm, <<>>) : s \in {50, 80}, llm \in BOOLEAN}
      \cup {Asked("endpoint", stage, s, TRUE, r) : stage \in DOMAIN Expert,
                                                  s \in {50, 95}, r \in {<<>>, Close}}

(* Contracts that propose scenarios, as in tests/test_moe.py. *)
Proposes(e, confidence, assumptions, ideas) ==
    [expert |-> e, confidence |-> confidence, assumptions |-> assumptions,
     benchmarks |-> <<"cost">>, ideas |-> ideas, drivers |-> {}, flagged |-> FALSE]
Idea(id, priority) == [id |-> id, priority |-> priority]

Wide   == Proposes("e1", 90, <<"A", "B">>,
                   <<Idea("s1", 50), Idea("s2", 50), Idea("s3", 90), Idea("s4", 20)>>)
Second == Proposes("e2", 70, <<"A">>, <<Idea("s4", 100), Idea("s2", 40), Idea("s4", 60)>>)
Unsure == Proposes("e3", 0, <<"C">>, <<Idea("s5", 100), Idea("s1", 10)>>)

Panels == {<<Wide>>, <<Second>>, <<Wide, Second>>, <<Second, Wide, Unsure>>}
Simulated ==
    {[i \in 1..n |-> Result(<<"s1", "s2", "s3", "s4">>[i], score[i])] :
        n \in 0..3, score \in [1..3 -> {0, 30, 60}]}
      \cup {<<Result("s1", a), Result("s2", b), Result("s3", 30), Result("s1", c), Result("s4", 60)>> :
                a, b, c \in {0, 30, 60}}

MCCalls == {[outputs |-> panel, stakes |-> 85, results |-> r, k |-> k] :
                panel \in Panels, r \in Simulated, k \in 0..3}
=============================================================================
