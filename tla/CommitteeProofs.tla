--------------------------- MODULE CommitteeProofs ---------------------------
(***************************************************************************)
(* Proofs about the committee for any providers, tasks, drivers and number *)
(* of attempts.  The inductive invariant: what has been heard are replies  *)
(* to calls of the task's experts, a failed attempt keeps the bad reply it *)
(* failed of, and the report of a task is the one that its experts' last   *)
(* replies amount to.  What the report escalates is then a matter of who   *)
(* was on the panel, and what it selects of how sums and scores are ranked.*)
(***************************************************************************)
EXTENDS Committee, NumberProofs

HeardOk ==
    /\ heard = [e \in DOMAIN heard |-> heard[e]]
    /\ \A e \in DOMAIN heard :
         /\ heard[e] = [leg \in DOMAIN heard[e] |-> heard[e][leg]]
         /\ DOMAIN heard[e] \subseteq Legs(task, e)
         /\ \A leg \in DOMAIN heard[e] : heard[e][leg] \in Replies
    /\ pc = "running" => DOMAIN heard = ToSet(Routed(task))

ReportOk ==
    pc = "reported" /\ task \in Tasks =>
        /\ DOMAIN heard = ToSet(Routed(task))
        /\ report = Report(Outputs(task), task)

IInv ==
    /\ pc \in {"asked", "running", "failed", "overdue", "reported"}
    /\ attempt \in 0..MaxAttempts
    /\ pc = "asked" => attempt < MaxAttempts
    /\ pc \notin {"asked", "reported"} => task \in Tasks
    /\ HeardOk
    /\ ReportOk
    /\ FailsOnlyOnBadReply

-----------------------------------------------------------------------------
(* An expert raises only over a reply that nobody absorbs. *)
LEMMA RaisedBadly ==
    ASSUME NEW t, NEW e, Raises(t, e)
    PROVE  Is(t, e, "bent") \/ (~Ensemble(t, e) /\ Is(t, e, "broken"))
  BY DEF Raises

(* The contracts are those of the same replies. *)
LEMMA SameOutputs ==
    ASSUME task' = task, heard' = heard
    PROVE  Outputs(task)' = Outputs(task)
  <1>1. CauseModel(task)' = CauseModel(task)
    BY DEF CauseModel, Candidates, Contract, Is, Ensemble, HighStakes
  <1>2. Critic(task)' = Critic(task) /\ RedTeam(task)' = RedTeam(task)
    BY DEF Critic, RedTeam, Contract, Is
  <1>3. Routed(task)' = Routed(task)
    BY DEF Routed, HighStakes, Expert
  <1>4. ASSUME NEW e PROVE Output(task, e)' = Output(task, e)
    BY <1>1, <1>2 DEF Output, Planner, EvidenceCurator, ScenarioGenerator, StatsExpert,
                      JudgeExplainer, ReportWriter, Contract
  <1> QED
    BY <1>3, <1>4 DEF Outputs

(* What is assumed of attempts and tasks. *)
LEMMA TasksAre ==
    /\ MaxAttempts \in Nat \ {0}
    /\ Tasks \cap Calls = {}
    /\ \A t \in Tasks : t.stage \in DOMAIN Expert
  BY CommitteeAssumption, Zenon

(* The initial states. *)
LEMMA Initially == Init => IInv
  <1> SUFFICES ASSUME Init PROVE IInv
    OBVIOUS
  <1>1. DOMAIN heard = {} /\ heard = [e \in DOMAIN heard |-> heard[e]]
    BY DEF Init
  <1>2. /\ pc = "asked" /\ attempt = 0 /\ MaxAttempts \in Nat \ {0}
    BY TasksAre DEF Init
  <1>3. HeardOk
    BY <1>1, <1>2 DEF HeardOk
  <1>4. ReportOk /\ FailsOnlyOnBadReply
    BY <1>2 DEF ReportOk, FailsOnlyOnBadReply
  <1> QED
    BY <1>2, <1>3, <1>4 DEF IInv

(* Every step keeps the invariant. *)
LEMMA Inductive == IInv /\ [Next]_vars => IInv'
  <1> SUFFICES ASSUME IInv, [Next]_vars PROVE IInv'
    OBVIOUS
  <1> USE DEF IInv
  <1>1. CASE Run
    <2>1. heard' = [e \in ToSet(Routed(task)) |-> [leg \in {} |-> {}]] /\ task' = task
      BY <1>1 DEF Run, Silence
    <2>2. /\ DOMAIN heard' = ToSet(Routed(task))
          /\ heard' = [e \in DOMAIN heard' |-> heard'[e]]
          /\ \A e \in DOMAIN heard' : heard'[e] = [leg \in {} |-> {}]
      BY <2>1
    <2>3. \A e \in DOMAIN heard' : /\ DOMAIN heard'[e] = {}
                                   /\ heard'[e] = [leg \in DOMAIN heard'[e] |-> heard'[e][leg]]
      BY <2>2
    <2>4. HeardOk'
      BY <2>1, <2>2, <2>3 DEF HeardOk
    <2>5. /\ task' = task /\ task \in Tasks /\ pc' = "running"
          /\ attempt' = attempt + 1 /\ attempt < MaxAttempts
          /\ attempt \in Nat /\ MaxAttempts \in Nat
      BY <1>1, TasksAre DEF Run
    <2>6. attempt' \in 0..MaxAttempts
      BY <2>5
    <2>7. ReportOk' /\ FailsOnlyOnBadReply'
      BY <2>5 DEF ReportOk, FailsOnlyOnBadReply
    <2> QED
      BY <2>4, <2>5, <2>6, <2>7
  <1>2. CASE AnswerSome
    <2>1. PICK e \in DOMAIN heard, leg \in Providers \cup {"chain"} : Answer(e, leg)
      BY <1>2 DEF AnswerSome
    <2>2. PICK r \in Replies : heard' = [heard EXCEPT ![e] = With(@, leg, r)]
      BY <2>1 DEF Answer
    <2> DEFINE h == With(heard[e], leg, r)
    <2>3. /\ DOMAIN h = DOMAIN heard[e] \cup {leg}
          /\ h = [l \in DOMAIN h |-> h[l]]
          /\ \A l \in DOMAIN h : h[l] \in Replies
      BY DEF HeardOk, With
    <2>4. /\ DOMAIN heard' = DOMAIN heard
          /\ heard' = [d \in DOMAIN heard' |-> heard'[d]]
          /\ heard'[e] = h
          /\ \A d \in DOMAIN heard \ {e} : heard'[d] = heard[d]
      BY <2>2 DEF HeardOk
    <2>5. task' = task /\ pc = "running" /\ pc' = pc /\ leg \in Legs(task, e)
      BY <2>1 DEF Answer
    <2> HIDE DEF h
    <2>6. HeardOk'
      BY <2>3, <2>4, <2>5 DEF HeardOk, Legs, Ensemble, HighStakes
    <2> QED
      BY <2>1, <2>5, <2>6 DEF Answer, ReportOk, FailsOnlyOnBadReply
  <1>3. CASE Raise
    <2>1. PICK e \in ToSet(Routed(task)) : Raises(task, e)
      BY <1>3 DEF Raise
    <2>2. /\ pc = "running" /\ task' = task /\ heard' = heard /\ attempt' = attempt
          /\ pc' = IF task.origin = "activity" /\ attempt < MaxAttempts THEN "asked" ELSE "failed"
      BY <1>3 DEF Raise, Abandon
    <2>3. FailsOnlyOnBadReply'
      BY <2>1, <2>2, RaisedBadly DEF FailsOnlyOnBadReply, HeardOk, Is, Ensemble, HighStakes
    <2>4. HeardOk'
      BY <2>2 DEF HeardOk, Legs, Ensemble, HighStakes
    <2> QED
      BY <2>2, <2>3, <2>4 DEF ReportOk
  <1>4. CASE Overrun
    <2>1. /\ pc = "running" /\ task' = task /\ heard' = heard /\ attempt' = attempt
          /\ pc' = IF task.origin = "activity" /\ attempt < MaxAttempts THEN "asked" ELSE "overdue"
      BY <1>4 DEF Overrun, Abandon
    <2>2. HeardOk'
      BY <2>1 DEF HeardOk, Legs, Ensemble, HighStakes
    <2> QED
      BY <2>1, <2>2 DEF ReportOk, FailsOnlyOnBadReply
  <1>5. CASE Conclude
    <2>1. /\ pc = "running" /\ pc' = "reported"
          /\ task' = task /\ heard' = heard /\ attempt' = attempt
          /\ report' = Report(Outputs(task), task)
      BY <1>5 DEF Conclude, AllIn
    <2>2. HeardOk'
      BY <2>1 DEF HeardOk, Legs, Ensemble, HighStakes
    <2>3. Outputs(task)' = Outputs(task)
      BY <2>1, SameOutputs
    <2> QED
      BY <2>1, <2>2, <2>3 DEF ReportOk, HeardOk, FailsOnlyOnBadReply
  <1>6. CASE Arbitrate
    <2>1. /\ pc = "asked" /\ pc' = "reported" /\ task \in Calls
          /\ task' = task /\ heard' = heard /\ attempt' = attempt
      BY <1>6 DEF Arbitrate, Given
    <2>2. HeardOk'
      BY <2>1 DEF HeardOk, Legs, Ensemble, HighStakes
    <2> QED
      BY <2>1, <2>2, TasksAre DEF ReportOk, FailsOnlyOnBadReply
  <1>7. CASE UNCHANGED vars
    <2>1. /\ task' = task /\ pc' = pc /\ attempt' = attempt
          /\ heard' = heard /\ report' = report
      BY <1>7 DEF vars
    <2>2. Outputs(task)' = Outputs(task)
      BY <2>1, SameOutputs
    <2>3. HeardOk'
      BY <2>1 DEF HeardOk, Legs, Ensemble, HighStakes
    <2>4. ReportOk'
      BY <2>1, <2>2 DEF ReportOk
    <2>5. FailsOnlyOnBadReply'
      BY <2>1 DEF FailsOnlyOnBadReply, Is, Ensemble, HighStakes
    <2> QED
      BY <2>1, <2>3, <2>4, <2>5
  <1> QED
    BY <1>1, <1>2, <1>3, <1>4, <1>5, <1>6, <1>7 DEF Next
-----------------------------------------------------------------------------
(* Every reachable state satisfies the inductive invariant. *)
THEOREM CommitteeInvariant == Spec => []IInv
  <1>1. Init => IInv
    BY Initially
  <1>2. IInv /\ [Next]_vars => IInv'
    BY Inductive
  <1> QED
    BY <1>1, <1>2, PTL DEF Spec

(* The committee is well-formed: an attempt hears replies to the calls of   *)
(* its experts only, and the activity is attempted MaxAttempts times at     *)
(* most.                                                                    *)
THEOREM CommitteeTypeCorrect == Spec => []CommitteeTypeOK
  <1>1. IInv => CommitteeTypeOK
    BY DEF IInv, HeardOk, CommitteeTypeOK
  <1> QED
    BY <1>1, CommitteeInvariant, PTL

(* The committee fails only over bad JSON, or over an exception of the      *)
(* client outside an ensemble, whatever providers there are.                *)
THEOREM FailureIsBadReply == Spec => []FailsOnlyOnBadReply
  <1>1. IInv => FailsOnlyOnBadReply
    BY DEF IInv
  <1> QED
    BY <1>1, CommitteeInvariant, PTL

-----------------------------------------------------------------------------
(* What a routed expert hands in: the experts without a model name no       *)
(* drivers, and the causal modeler flags a model without drivers.           *)
Known == {"planner", "evidence_curator", "cause_modeler", "scenario_generator",
          "stats_expert", "critic", "red_team", "judge_explainer", "report_writer"}

LEMMA StageIsKnown == \A t \in Tasks : Expert[t.stage] \in Known
  <1>1. \A stage \in DOMAIN Expert : Expert[stage] \in Known
    BY DEF Expert, Known
  <1> QED
    BY <1>1, TasksAre

LEMMA OutputIsHonest ==
    ASSUME NEW e \in Known
    PROVE  LET o == Output(task, e)
           IN  /\ o.expert = e
               /\ o.drivers \subseteq UNION {heard[e][leg].drivers : leg \in DOMAIN heard[e]}
               /\ e = "cause_modeler" /\ o.drivers = {} => o.flagged
  <1>1. CASE e = "cause_modeler"
    <2>1. Output(task, e) = CauseModel(task)
      BY <1>1 DEF Output
    <2> DEFINE heeded == Candidates(task, e)
    <2>2. CASE heeded # {}
      <3>1. /\ CauseModel(task).expert = e
            /\ CauseModel(task).drivers = UNION {heard[e][leg].drivers : leg \in heeded}
        BY <1>1, <2>2 DEF CauseModel, Contract
      <3>2. \A leg \in heeded : leg \in DOMAIN heard[e] /\ heard[e][leg].drivers # {}
        BY DEF Candidates
      <3>3. UNION {heard[e][leg].drivers : leg \in heeded} # {}
        <4>1. PICK leg \in heeded : TRUE
          BY <2>2
        <4>2. PICK d \in heard[e][leg].drivers : TRUE
          BY <3>2, <4>1
        <4> QED
          BY <4>1, <4>2
      <3> QED
        BY <2>1, <3>1, <3>2, <3>3
    <2>3. CASE heeded = {}
      <3>1. CauseModel(task).expert = e /\ CauseModel(task).drivers = {} /\ CauseModel(task).flagged
        BY <1>1, <2>3 DEF CauseModel, Contract
      <3> QED
        BY <2>1, <3>1
    <2> QED
      BY <2>2, <2>3
  <1>2. CASE e # "cause_modeler"
    <2>1. Output(task, e).expert = e /\ Output(task, e).drivers = {}
      BY <1>2 DEF Known, Output, Planner, EvidenceCurator, ScenarioGenerator, StatsExpert,
                  JudgeExplainer, ReportWriter, Critic, RedTeam, Contract
    <2> QED
      BY <1>2, <2>1
  <1> QED
    BY <1>1, <1>2

(* A driver in the report of a task was named by a model of the same        *)
(* attempt, and a report without a causal model asks for a human, whatever  *)
(* the providers answer and however many there are.                         *)
THEOREM DriversAreNamed == Spec => []NothingFabricated
  <1>1. ASSUME IInv PROVE NothingFabricated
    <2> SUFFICES ASSUME pc = "reported", task \in Tasks
                 PROVE  NothingFabricated
      BY DEF NothingFabricated
    <2> DEFINE routed == Routed(task)
    <2>1. report = Report(Outputs(task), task)
      BY <1>1 DEF IInv, ReportOk
    <2>2. Expert[task.stage] \in Known
      BY StageIsKnown
    <2>3. \A i \in DOMAIN routed : routed[i] \in Known
      BY <2>2 DEF Routed, Known
    <2>4. /\ report.outputs = Outputs(task)
          /\ report.actions = Actions(Outputs(task), task.stakes, task.results)
      BY <2>1 DEF Report
    <2>5. /\ DOMAIN report.outputs = DOMAIN routed
          /\ \A i \in DOMAIN routed : report.outputs[i] = Output(task, routed[i])
      BY <2>4 DEF Outputs
    <2>6. ASSUME NEW i \in DOMAIN report.outputs
          PROVE  LET o == report.outputs[i]
                 IN  o.drivers \subseteq
                       UNION {heard[o.expert][leg].drivers : leg \in DOMAIN heard[o.expert]}
      BY <2>3, <2>5, OutputIsHonest
    <2>7. ASSUME NEW i \in DOMAIN report.outputs,
                 report.outputs[i].expert = "cause_modeler", report.outputs[i].drivers = {}
          PROVE  "human_review" \in report.actions
      <3>1. report.outputs[i].flagged
        BY <2>3, <2>5, <2>7, OutputIsHonest
      <3>2. \E j \in DOMAIN Outputs(task) : Outputs(task)[j].flagged
        BY <2>4, <3>1
      <3>3. When(\E j \in DOMAIN Outputs(task) : Outputs(task)[j].flagged, "human_review")
              = {"human_review"}
        BY <3>2 DEF When
      <3> QED
        BY <2>4, <3>3 DEF Actions
    <2> QED
      BY <2>6, <2>7 DEF NothingFabricated
  <1> QED
    BY <1>1, CommitteeInvariant, PTL

-----------------------------------------------------------------------------
(* What the experts of the program assume. *)
Sayings == {"metrics are well-defined", "causal model synthesized",
            "causal model not inferred", "space is expressive"}

(* What contracts state, when all but the first state nothing. *)
LEMMA FirstSays ==
    ASSUME NEW parts, NEW n \in Nat \ {0}, parts \in [1..n -> Seq(Sayings)],
           \A i \in 1..n : i # 1 => parts[i] = << >>
    PROVE  FlattenSeq(parts) = parts[1]
  <1>1. parts \in Seq(Seq(Sayings)) /\ DOMAIN parts = 1..n /\ 1 \in 1..n
    BY FunctionIsSeq
  <1>2. parts # << >>
    BY <1>1
  <1> QED
    BY <1>1, <1>2, FlattenFirst

(* An expert assumes one thing at most and names no benchmarks; the critic  *)
(* and the red team assume nothing.                                         *)
Brief(o) ==
    /\ o.assumptions \in Seq(Sayings)
    /\ o.assumptions = << >> \/ \E x \in Sayings : o.assumptions = <<x>>
    /\ o.benchmarks = << >>

LEMMA OutputIsBrief ==
    ASSUME NEW t, NEW e \in Known
    PROVE  /\ Brief(Output(t, e))
           /\ e \in {"critic", "red_team"} => Output(t, e).assumptions = << >>
  <1> DEFINE o == Output(t, e)
  <1>1. CASE e = "cause_modeler"
    <2>1. o = CauseModel(t)
      BY <1>1 DEF Output
    <2>2. /\ \/ CauseModel(t).assumptions = <<"causal model synthesized">>
             \/ CauseModel(t).assumptions = <<"causal model not inferred">>
          /\ CauseModel(t).benchmarks = << >>
      BY DEF CauseModel, Contract
    <2> HIDE DEF o
    <2>3. \E x \in Sayings : o.assumptions = <<x>>
      <3>1. "causal model synthesized" \in Sayings /\ "causal model not inferred" \in Sayings
        BY DEF Sayings
      <3> QED
        BY <2>1, <2>2, <3>1, Zenon
    <2>4. o.assumptions \in Seq(Sayings)
      BY <2>3
    <2>5. Brief(o)
      BY <2>1, <2>2, <2>3, <2>4 DEF Brief
    <2> QED
      BY <1>1, <2>5 DEF o
  <1>2. CASE e \in {"planner", "scenario_generator"}
    <2>1. /\ \/ o.assumptions = <<"metrics are well-defined">>
             \/ o.assumptions = <<"space is expressive">>
          /\ o.benchmarks = << >>
      BY <1>2 DEF Output, Planner, ScenarioGenerator, Contract
    <2> HIDE DEF o
    <2>2. \E x \in Sayings : o.assumptions = <<x>>
      <3>1. "metrics are well-defined" \in Sayings /\ "space is expressive" \in Sayings
        BY DEF Sayings
      <3> QED
        BY <2>1, <3>1, Zenon
    <2>3. o.assumptions \in Seq(Sayings)
      BY <2>2
    <2>4. Brief(o)
      BY <2>1, <2>2, <2>3 DEF Brief
    <2> QED
      BY <1>2, <2>4 DEF o
  <1>3. CASE e \in {"evidence_curator", "stats_expert", "critic", "red_team",
                    "judge_explainer", "report_writer"}
    <2>1. o.assumptions = << >> /\ o.benchmarks = << >>
      BY <1>3 DEF Output, EvidenceCurator, StatsExpert, JudgeExplainer, ReportWriter,
                  Critic, RedTeam, Contract
    <2> HIDE DEF o
    <2>2. << >> \in Seq(Sayings)
      BY EmptySeq
    <2>3. Brief(o)
      BY <2>1, <2>2 DEF Brief
    <2> QED
      BY <2>1, <2>3 DEF o
  <1> QED
    BY <1>1, <1>2, <1>3 DEF Known

(* The panel of a task: one expert at low stakes; at high stakes also the   *)
(* critic and the red team.                                                 *)
LEMMA PanelIs ==
    ASSUME NEW t \in Tasks
    PROVE  \E n \in {1, 2, 3} :
             /\ DOMAIN Routed(t) = 1..n
             /\ \A i \in 1..n : Routed(t)[i] \in Known
             /\ ~HighStakes(t) <=> n = 1
             /\ \A i \in 1..n : i # 1 => Routed(t)[i] \in {"critic", "red_team"}
             /\ n = 2 => Routed(t)[1] \in {"critic", "red_team"}
  <1>1. Expert[t.stage] \in Known
    BY StageIsKnown
  <1>2. CASE ~HighStakes(t)
    <2>1. Routed(t) = <<Expert[t.stage]>>
      BY <1>2 DEF Routed
    <2> QED
      BY <1>1, <1>2, <2>1
  <1>3. CASE HighStakes(t) /\ Expert[t.stage] = "critic"
    <2>1. Routed(t) = <<"critic", "red_team">>
      BY <1>3 DEF Routed
    <2> QED
      BY <1>3, <2>1 DEF Known
  <1>4. CASE HighStakes(t) /\ Expert[t.stage] = "red_team"
    <2>1. Routed(t) = <<"red_team", "critic">>
      BY <1>4 DEF Routed
    <2> QED
      BY <1>4, <2>1 DEF Known
  <1>5. CASE HighStakes(t) /\ Expert[t.stage] \notin {"critic", "red_team"}
    <2>1. Routed(t) = <<Expert[t.stage], "critic", "red_team">>
      BY <1>5 DEF Routed
    <2> QED
      BY <1>1, <1>5, <2>1 DEF Known
  <1> QED
    BY <1>2, <1>3, <1>4, <1>5

(* How many of a panel must agree. *)
LEMMA RequiredIs ==
    ASSUME NEW outputs, NEW n \in {1, 2, 3}, Len(outputs) = n
    PROVE  Required(outputs) = IF n = 3 THEN 2 ELSE 1
  <1>1. (6 * Len(outputs) + 5) \div 10 = IF n = 3 THEN 2 ELSE 1
    OBVIOUS
  <1>2. Max({1, 1}) = 1 /\ Max({1, 2}) = 2
    <2> DEFINE one == {1}
               both == {1, 2}
    <2>1. one \subseteq Int /\ both \subseteq Int /\ one # {} /\ both # {}
      OBVIOUS
    <2>2. IsFiniteSet(one) /\ IsFiniteSet(both)
      <3>1. IsFiniteSet(one)
        BY FS_Singleton
      <3>2. both = one \cup {2}
        OBVIOUS
      <3> HIDE DEF one, both
      <3> QED
        BY <3>1, <3>2, FS_AddElement
    <2>3. {1, 1} = one /\ {1, 2} = both
      OBVIOUS
    <2> HIDE DEF one, both
    <2>4. /\ Max(one) \in one
          /\ Max(both) \in both /\ \A x \in both : Max(both) >= x
      BY <2>1, <2>2, MaxIs
    <2>5. Max(one) = 1 /\ Max(both) = 2
      BY <2>4 DEF one, both
    <2> QED
      BY <2>3, <2>5
  <1> QED
    BY <1>1, <1>2 DEF Required

(* Something said once is counted once. *)
LEMMA SaidOnce ==
    ASSUME NEW said, NEW x, said = <<x>>
    PROVE  /\ ToSet(said) = {x}
           /\ Count(x, said) = 1
           /\ Cardinality(ToSet(said)) = 1
  <1>1. ToSet(said) = {x}
    BY DEF ToSet
  <1>2. {i \in DOMAIN said : said[i] = x} = {1}
    OBVIOUS
  <1> QED
    BY <1>1, <1>2, FS_Singleton DEF Count

LEMMA SaidNothing ==
    ASSUME NEW outputs, NEW said, said = << >>
    PROVE  /\ ToSet(said) = {} /\ Cardinality(ToSet(said)) = 0
           /\ Consensus(outputs, said) = {} /\ Cardinality(Conflicts(outputs, said)) = 0
  <1>1. ToSet(said) = {}
    BY DEF ToSet
  <1>2. Consensus(outputs, said) = {} /\ Conflicts(outputs, said) = {}
    BY <1>1 DEF Consensus, Conflicts
  <1> QED
    BY <1>1, <1>2, FS_EmptySet

(* The stronger model is asked for exactly when a panel of high stakes      *)
(* heard an assumption, and nothing that it heard is agreed on: whatever    *)
(* the stage, the providers and their replies.                              *)
THEOREM StakesDisagree == Spec => []DisagreementIsStakes
  <1>1. ASSUME IInv PROVE DisagreementIsStakes
    <2> SUFFICES ASSUME pc = "reported", task \in Tasks
                 PROVE  /\ "upgrade_llm_tier" \in report.actions
                              <=> HighStakes(task) /\ Assumed(report.outputs) # << >>
                        /\ HighStakes(task) => report.assumed = {}
      BY DEF DisagreementIsStakes
    <2> DEFINE outputs == Outputs(task)
               assumed == Assumed(outputs)
    <2>1. /\ report.outputs = outputs
          /\ report.assumed = Consensus(outputs, assumed)
          /\ report.actions = Actions(outputs, task.stakes, task.results)
      BY <1>1 DEF IInv, ReportOk, Report
    <2>2. PICK n \in {1, 2, 3} :
             /\ DOMAIN Routed(task) = 1..n
             /\ \A i \in 1..n : Routed(task)[i] \in Known
             /\ ~HighStakes(task) <=> n = 1
             /\ \A i \in 1..n : i # 1 => Routed(task)[i] \in {"critic", "red_team"}
             /\ n = 2 => Routed(task)[1] \in {"critic", "red_team"}
      BY PanelIs
    <2>3. /\ outputs = [i \in 1..n |-> Output(task, Routed(task)[i])]
          /\ DOMAIN outputs = 1..n
          /\ \A i \in 1..n : outputs[i] = Output(task, Routed(task)[i])
      BY <2>2 DEF Outputs
    <2>4. /\ \A i \in 1..n : Brief(outputs[i])
          /\ \A i \in 1..n : i # 1 => outputs[i].assumptions = << >>
          /\ n = 2 => outputs[1].assumptions = << >>
      <3>1. ASSUME NEW i \in 1..n PROVE Brief(outputs[i]) /\ (i # 1 => outputs[i].assumptions = << >>)
        BY <2>2, <2>3, OutputIsBrief
      <3>2. 1 \in 1..n
        OBVIOUS
      <3>3. n = 2 => outputs[1].assumptions = << >>
        BY <2>2, <2>3, <3>2, OutputIsBrief
      <3> QED
        BY <3>1, <3>3
    <2>5. Len(outputs) = n
      <3>1. n \in Nat
        OBVIOUS
      <3>2. \E S : outputs \in [1..n -> S]
        <4>1. outputs \in [1..n -> {outputs[i] : i \in 1..n}]
          BY <2>3
        <4> QED
          BY <4>1
      <3> HIDE DEF outputs
      <3> QED
        BY <3>1, <3>2, FunctionIsSeq
    <2> HIDE DEF outputs
    <2>6. assumed = outputs[1].assumptions
      <3> DEFINE parts == [i \in DOMAIN outputs |-> outputs[i].assumptions]
      <3>1. /\ parts \in [1..n -> Seq(Sayings)] /\ parts[1] = outputs[1].assumptions
            /\ \A i \in 1..n : i # 1 => parts[i] = << >>
        BY <2>3, <2>4 DEF Brief
      <3>2. assumed = FlattenSeq(parts)
        BY DEF Assumed, Stated
      <3> HIDE DEF parts
      <3> QED
        BY <3>1, <3>2, FirstSays
    <2>7. Benchmarks(outputs) = << >>
      <3> DEFINE parts == [i \in DOMAIN outputs |-> outputs[i].benchmarks]
      <3>1. /\ parts \in [1..n -> Seq(Sayings)] /\ \A i \in 1..n : parts[i] = << >>
        <4>1. << >> \in Seq(Sayings)
          BY EmptySeq
        <4>2. \A i \in 1..n : outputs[i].benchmarks = << >>
          BY <2>4 DEF Brief
        <4> QED
          BY <2>3, <4>1, <4>2
      <3>2. Benchmarks(outputs) = FlattenSeq(parts)
        BY DEF Benchmarks, Stated
      <3> HIDE DEF parts
      <3> QED
        BY <3>1, <3>2, FirstSays
    <2>8. /\ Items(outputs) = Cardinality(ToSet(assumed))
          /\ Disputed(outputs) = Cardinality(Conflicts(outputs, assumed))
      <3>1. /\ Cardinality(ToSet(Benchmarks(outputs))) = 0
            /\ Cardinality(Conflicts(outputs, Benchmarks(outputs))) = 0
        BY <2>7, SaidNothing
      <3>2. assumed = << >> \/ \E x : assumed = <<x>>
        BY <2>4, <2>6 DEF Brief
      <3> HIDE DEF assumed
      <3>3. ToSet(assumed) = {} \/ \E x : ToSet(assumed) = {x}
        BY <3>2, SaidNothing, SaidOnce
      <3>4. Conflicts(outputs, assumed) \subseteq ToSet(assumed)
        BY DEF Conflicts
      <3>5. /\ Cardinality(ToSet(assumed)) \in Nat
            /\ Cardinality(Conflicts(outputs, assumed)) \in Nat
        <4>1. IsFiniteSet(ToSet(assumed))
          <5>1. CASE ToSet(assumed) = {}
            BY <5>1, FS_EmptySet
          <5>2. CASE \E x : ToSet(assumed) = {x}
            BY <5>2, FS_Singleton
          <5> QED
            BY <3>3, <5>1, <5>2
        <4> QED
          BY <3>4, <4>1, FS_Subset, FS_CardinalityType
      <3> QED
        BY <3>1, <3>5 DEF Items, Disputed, assumed
    <2>9. Required(outputs) = IF n = 3 THEN 2 ELSE 1
      BY <2>5, RequiredIs
    <2>10. "upgrade_llm_tier" \in report.actions
             <=> Items(outputs) > 0 /\ 100 * Disputed(outputs) >= 35 * Items(outputs)
      BY <2>1 DEF Actions, When
    <2>11. CASE assumed = << >>
      <3>1. Items(outputs) = 0 /\ Consensus(outputs, assumed) = {}
        BY <2>8, <2>11, SaidNothing
      <3> QED
        BY <2>1, <2>10, <2>11, <3>1
    <2>12. CASE assumed # << >>
      <3>1. Brief(outputs[1]) /\ n # 2
        BY <2>4, <2>6, <2>12
      <3>2. PICK x \in Sayings : assumed = <<x>>
        BY <2>6, <2>12, <3>1 DEF Brief
      <3> HIDE DEF assumed
      <3>3. ToSet(assumed) = {x} /\ Count(x, assumed) = 1 /\ Items(outputs) = 1
        BY <2>8, <3>2, SaidOnce
      <3>4. CASE n = 1
        <4>1. Conflicts(outputs, assumed) = {}
          BY <2>9, <3>3, <3>4 DEF Conflicts, Consensus
        <4>2. Disputed(outputs) = 0
          BY <2>8, <4>1, FS_EmptySet
        <4> QED
          BY <2>2, <2>10, <3>3, <3>4, <4>2
      <3>5. CASE n = 3
        <4>1. Consensus(outputs, assumed) = {} /\ Conflicts(outputs, assumed) = {x}
          BY <2>9, <3>3, <3>5 DEF Conflicts, Consensus
        <4>2. Disputed(outputs) = 1
          BY <2>8, <4>1, FS_Singleton
        <4>3. HighStakes(task)
          BY <2>2, <3>5
        <4> QED
          BY <2>1, <2>10, <2>12, <3>3, <4>1, <4>2, <4>3 DEF assumed
      <3> QED
        BY <3>1, <3>4, <3>5
    <2> QED
      BY <2>11, <2>12
  <1> QED
    BY <1>1, CommitteeInvariant, PTL

-----------------------------------------------------------------------------
(* What a report selects.  A ranking of ids goes through all of them, the    *)
(* best first, if what it goes by is a weak order.                          *)
LEMMA RankingIs ==
    ASSUME NEW rows, NEW n \in Nat, DOMAIN rows = 1..n,
           NEW above, DOMAIN above = Ids(rows), WeakOrder(above)
    PROVE  /\ Ranking(rows, above) \in [1..Cardinality(Ids(rows)) -> Ids(rows)]
           /\ IsRanking(Ranking(rows, above), above)
  <1> DEFINE places == FirstPlaces(rows)
             lifted == [i \in places |-> {j \in places : rows[j].id \in above[rows[i].id]}]
             order  == RankedBy(lifted)
             ids    == [i \in places |-> rows[i].id]
             made   == Ranking(rows, above)
  <1>1. places \subseteq 1..n /\ IsFiniteSet(places)
    <2>1. places \in SUBSET (1..n) /\ IsFiniteSet(1..n)
      BY FS_Interval DEF FirstPlaces
    <2> QED
      BY <2>1, FS_Subset
  <1>2. \A i, j \in places : rows[i].id = rows[j].id => i = j
    <2>1. \A i, j \in places : rows[i].id = rows[j].id => ~(i < j) /\ ~(j < i)
      BY DEF FirstPlaces
    <2> QED
      BY <1>1, <2>1
  <1>3. ASSUME NEW x \in Ids(rows)
        PROVE  \E i \in places : rows[i].id = x
    <2> DEFINE T == {i \in 1..n : rows[i].id = x}
    <2>1. T \in SUBSET Nat /\ T # {}
      BY DEF Ids
    <2>2. PICK i \in T : \A j \in T : i <= j
      <3> HIDE DEF T
      <3> QED
        BY <2>1, Least
    <2>3. i \in 1..n /\ rows[i].id = x
      OBVIOUS
    <2>4. ASSUME NEW j \in 1..n, j < i
          PROVE  rows[j].id # rows[i].id
      BY <2>2, <2>3, <2>4
    <2> QED
      BY <2>3, <2>4 DEF FirstPlaces
  <1>4. \A i \in places : rows[i].id \in Ids(rows)
    BY <1>1 DEF Ids
  <1>5. /\ DOMAIN lifted = places
        /\ \A i \in places : lifted[i] = {j \in places : rows[j].id \in above[rows[i].id]}
    OBVIOUS
  <1> HIDE DEF places, lifted
  <1>6. WeakOrder(lifted)
    <2>1. \A i, j \in places : i \in lifted[j] <=> rows[i].id \in above[rows[j].id]
      BY <1>5
    <2>2. /\ \A a, b \in Ids(rows) : a \in above[b] => b \notin above[a]
          /\ \A a, b, c \in Ids(rows) : a \in above[c] => a \in above[b] \/ b \in above[c]
      BY DEF WeakOrder
    <2>3. \A i, j \in places : i \in lifted[j] => j \notin lifted[i]
      BY <1>4, <2>1, <2>2
    <2>4. \A i, j, k \in places : i \in lifted[k] => i \in lifted[j] \/ j \in lifted[k]
      BY <1>4, <2>1, <2>2
    <2>5. \A i \in places : lifted[i] \subseteq places
      BY <1>5
    <2> QED
      BY <1>5, <2>3, <2>4, <2>5 DEF WeakOrder
  <1>7. IsRanking(order, lifted)
    <2>1. DOMAIN lifted \subseteq Int
      BY <1>1, <1>5
    <2> QED
      BY <1>1, <1>5, <1>6, <2>1, RankedByIs
  <1>8. IsFiniteSet(Ids(rows)) /\ Cardinality(Ids(rows)) = Cardinality(places)
    <2>1. ids \in Injection(places, Ids(rows))
      BY <1>2, <1>4 DEF Injection, IsInjective
    <2>2. ids \in Surjection(places, Ids(rows))
      BY <1>3, <1>4 DEF Surjection
    <2> HIDE DEF ids
    <2>3. ExistsBijection(places, Ids(rows))
      BY <2>1, <2>2 DEF Bijection, ExistsBijection
    <2> QED
      BY <1>1, <2>3, FS_Bijection
  <1>9. made = [p \in DOMAIN order |-> rows[order[p]].id]
    BY DEF Ranking, places, lifted
  <1> HIDE DEF order
  <1>10. /\ DOMAIN made = DOMAIN order /\ \A p \in DOMAIN order : made[p] = rows[order[p]].id
         /\ made = [p \in DOMAIN made |-> made[p]]
    BY <1>9
  <1> HIDE DEF made
  <1>11. /\ Cardinality(places) \in Nat /\ DOMAIN order = 1..Cardinality(places)
         /\ \A i \in DOMAIN order : order[i] \in places
         /\ \A x \in places : \E i \in DOMAIN order : order[i] = x
         /\ \A i, j \in DOMAIN order : order[i] = order[j] => i = j
         /\ \A i, j \in DOMAIN order : i < j => order[j] \notin lifted[order[i]]
    BY <1>5, <1>7 DEF IsRanking
  <1>12. \A p \in DOMAIN made : made[p] \in Ids(rows)
    BY <1>4, <1>10, <1>11
  <1>13. \A x \in Ids(rows) : \E p \in DOMAIN made : made[p] = x
    BY <1>3, <1>10, <1>11
  <1>14. \A i, j \in DOMAIN made : made[i] = made[j] => i = j
    BY <1>2, <1>10, <1>11
  <1>15. ASSUME NEW i \in DOMAIN made, NEW j \in DOMAIN made, i < j
         PROVE  made[j] \notin above[made[i]]
    <2>1. order[i] \in places /\ order[j] \in places /\ order[j] \notin lifted[order[i]]
      BY <1>10, <1>11, <1>15
    <2> QED
      BY <1>5, <1>10, <1>15, <2>1
  <1>16. IsRanking(made, above)
    BY <1>8, <1>10, <1>11, <1>12, <1>13, <1>14, <1>15 DEF IsRanking
  <1>17. made \in [1..Cardinality(Ids(rows)) -> Ids(rows)]
    BY <1>8, <1>10, <1>11, <1>12
  <1> QED
    BY <1>16, <1>17 DEF made

(* By score: the last score of an id is an integer. *)
LEMMA ScoreIs ==
    ASSUME NEW results, NEW n \in Nat, DOMAIN results = 1..n,
           \A i \in 1..n : results[i].score \in Int, NEW x \in Ids(results)
    PROVE  ScoreOf(results, x) \in Int
  <1> DEFINE T == {i \in DOMAIN results : results[i].id = x}
  <1>1. T \in SUBSET (1..n) /\ IsFiniteSet(1..n) /\ T # {} /\ T \subseteq Int
    BY FS_Interval DEF Ids
  <1>2. IsFiniteSet(T)
    BY <1>1, FS_Subset
  <1>3. ScoreOf(results, x) = results[Max(T)].score
    BY DEF ScoreOf
  <1> HIDE DEF T
  <1>4. Max(T) \in T
    BY <1>1, <1>2, MaxIs
  <1> QED
    BY <1>1, <1>3, <1>4

LEMMA ScoresAreWeak ==
    ASSUME NEW results, NEW n \in Nat, DOMAIN results = 1..n,
           \A i \in 1..n : results[i].score \in Int
    PROVE  /\ DOMAIN ScoredAbove(results) = Ids(results)
           /\ WeakOrder(ScoredAbove(results))
           /\ \A a, b \in Ids(results) :
                 b \in ScoredAbove(results)[a] <=> ScoreOf(results, b) > ScoreOf(results, a)
  <1> DEFINE above == ScoredAbove(results)
  <1>1. /\ DOMAIN above = Ids(results)
        /\ \A a \in Ids(results) :
              above[a] = {b \in Ids(results) : ScoreOf(results, b) > ScoreOf(results, a)}
    BY DEF ScoredAbove
  <1> HIDE DEF above
  <1>2. \A a, b \in Ids(results) : b \in above[a] <=> ScoreOf(results, b) > ScoreOf(results, a)
    BY <1>1
  <1>3. \A a \in Ids(results) : ScoreOf(results, a) \in Int /\ above[a] \subseteq Ids(results)
    BY <1>1, ScoreIs
  <1>4. ASSUME NEW a \in Ids(results), NEW b \in Ids(results), NEW c \in Ids(results)
        PROVE  /\ a \in above[b] => b \notin above[a]
               /\ a \in above[c] => a \in above[b] \/ b \in above[c]
    BY <1>2, <1>3
  <1>5. WeakOrder(above)
    BY <1>1, <1>3, <1>4 DEF WeakOrder
  <1> QED
    BY <1>1, <1>2, <1>5 DEF above

(* By priority: an id's votes weigh at most a hundredth of what they total,  *)
(* and two ids are compared by the quotients, with 1 for a weight of 0.     *)
Voted(votes) ==
    \E n \in Nat : /\ DOMAIN votes = 1..n
                   /\ \A i \in 1..n : votes[i].by \in 0..100 /\ votes[i].priority \in 0..100

LEMMA VotesWeigh ==
    ASSUME NEW votes, Voted(votes), NEW x
    PROVE  /\ Weight(votes, x) \in Nat /\ Total(votes, x) \in Nat
           /\ Total(votes, x) <= 100 * Weight(votes, x)
  <1> DEFINE S == DOMAIN votes
             w == [i \in S |-> IF votes[i].id = x THEN votes[i].by ELSE 0]
             t == [i \in S |-> IF votes[i].id = x THEN votes[i].priority * votes[i].by ELSE 0]
  <1>0. PICK n \in Nat : /\ S = 1..n
                         /\ \A i \in 1..n : votes[i].by \in 0..100 /\ votes[i].priority \in 0..100
    BY DEF Voted
  <1>1. IsFiniteSet(S)
    BY <1>0, FS_Interval
  <1>2. ASSUME NEW i \in S
        PROVE  votes[i].by \in Nat /\ votes[i].priority \in Nat /\ votes[i].priority <= 100
    <2>1. votes[i].by \in 0..100 /\ votes[i].priority \in 0..100
      BY <1>0
    <2> QED
      BY <2>1
  <1>3. ASSUME NEW p \in Nat, NEW b \in Nat, p <= 100
        PROVE  p * b \in Nat /\ p * b <= 100 * b
    <2>1. p * b \in Nat /\ (100 - p) * b \in Nat
      BY <1>3
    <2>2. (100 - p) * b = 100 * b - p * b
      BY <1>3
    <2> QED
      BY <2>1, <2>2
  <1>4. ASSUME NEW i \in S
        PROVE  w[i] \in Nat /\ t[i] \in Nat /\ t[i] <= 100 * w[i]
    <2>1. votes[i].by \in Nat /\ votes[i].priority \in Nat /\ votes[i].priority <= 100
      BY <1>2
    <2>2. /\ votes[i].priority * votes[i].by \in Nat
          /\ votes[i].priority * votes[i].by <= 100 * votes[i].by
      BY <1>3, <2>1
    <2>3. CASE votes[i].id = x
      BY <2>1, <2>2, <2>3
    <2>4. CASE votes[i].id # x
      BY <2>4
    <2> QED
      BY <2>3, <2>4
  <1>5. DOMAIN w = S /\ DOMAIN t = S /\ Weight(votes, x) = SumOf(w) /\ Total(votes, x) = SumOf(t)
    BY DEF Weight, Total
  <1> HIDE DEF S, w, t
  <1>6. \A i \in S : w[i] \in Int /\ t[i] \in Int
    BY <1>4
  <1>7. SumOf(w) \in Nat /\ SumOf(t) \in Nat
    BY <1>1, <1>4, <1>5, <1>6, SumIs
  <1>8. SumOf(t) <= 100 * SumOf(w)
    BY <1>1, <1>4, <1>5, <1>6, SumBounded
  <1> QED
    BY <1>5, <1>7, <1>8

Divisor(votes, x) == IF Weight(votes, x) = 0 THEN 1 ELSE Weight(votes, x)

LEMMA PreferredIs ==
    ASSUME NEW votes, Voted(votes), NEW a, NEW b
    PROVE  /\ Divisor(votes, a) \in Nat \ {0} /\ Total(votes, a) \in Nat
           /\ Divisor(votes, b) \in Nat \ {0} /\ Total(votes, b) \in Nat
           /\ Preferred(votes, a, b)
                <=> Total(votes, a) * Divisor(votes, b) > Total(votes, b) * Divisor(votes, a)
  <1> DEFINE wa == Weight(votes, a)
             wb == Weight(votes, b)
             ta == Total(votes, a)
             tb == Total(votes, b)
             da == Divisor(votes, a)
             db == Divisor(votes, b)
  <1>1. /\ wa \in Nat /\ ta \in Nat /\ ta <= 100 * wa
        /\ wb \in Nat /\ tb \in Nat /\ tb <= 100 * wb
    BY VotesWeigh
  <1>2. da = (IF wa = 0 THEN 1 ELSE wa) /\ db = (IF wb = 0 THEN 1 ELSE wb)
    BY DEF Divisor
  <1>3. Preferred(votes, a, b) <=> IF wb = 0 THEN ta > 0 ELSE ta * wb > tb * wa
    BY DEF Preferred
  <1> HIDE DEF wa, wb, ta, tb, da, db
  <1>4. da \in Nat \ {0} /\ db \in Nat \ {0}
    BY <1>1, <1>2
  <1>5. wa = 0 => ta = 0
    BY <1>1
  <1>6. wb = 0 => tb = 0
    BY <1>1
  <1>7. CASE wb = 0
    <2>1. ta * db = ta /\ tb * da = 0
      BY <1>1, <1>2, <1>4, <1>6, <1>7
    <2> QED
      BY <1>1, <1>3, <1>4, <1>7, <2>1 DEF ta, tb, da, db
  <1>8. CASE wb # 0 /\ wa # 0
    BY <1>1, <1>2, <1>3, <1>4, <1>8 DEF ta, tb, da, db
  <1>9. CASE wb # 0 /\ wa = 0
    <2>1. ta * wb = 0 /\ tb * wa = 0 /\ ta * db = 0
      BY <1>1, <1>2, <1>4, <1>5, <1>9
    <2>2. tb * da = tb
      BY <1>1, <1>2, <1>9
    <2> QED
      BY <1>1, <1>3, <1>4, <1>9, <2>1, <2>2 DEF ta, tb, da, db
  <1> QED
    BY <1>7, <1>8, <1>9

(* Quotients compare like numbers. *)
LEMMA QuotientsCompare ==
    ASSUME NEW p \in Nat, NEW q \in Nat, NEW r \in Nat,
           NEW d \in Nat \ {0}, NEW e \in Nat \ {0}, NEW f \in Nat \ {0},
           p * e <= q * d, q * f <= r * e
    PROVE  p * f <= r * d
  <1>1. (p * e) * f <= (q * d) * f
    <2>1. (q * d - p * e) * f \in Nat
      OBVIOUS
    <2>2. (q * d - p * e) * f = (q * d) * f - (p * e) * f
      OBVIOUS
    <2>3. (q * d) * f \in Int /\ (p * e) * f \in Int
      OBVIOUS
    <2> QED
      BY <2>1, <2>2, <2>3
  <1>2. (q * f) * d <= (r * e) * d
    <2>1. (r * e - q * f) * d \in Nat
      OBVIOUS
    <2>2. (r * e - q * f) * d = (r * e) * d - (q * f) * d
      OBVIOUS
    <2>3. (r * e) * d \in Int /\ (q * f) * d \in Int
      OBVIOUS
    <2> QED
      BY <2>1, <2>2, <2>3
  <1>3. /\ (q * d) * f = (q * f) * d
        /\ (p * e) * f = (p * f) * e
        /\ (r * e) * d = (r * d) * e
    OBVIOUS
  <1>4. (p * f) * e <= (r * d) * e
    BY <1>1, <1>2, <1>3
  <1> QED
    BY <1>4

LEMMA PreferencesAreWeak ==
    ASSUME NEW votes, Voted(votes)
    PROVE  /\ DOMAIN PreferredTo(votes) = Ids(votes)
           /\ WeakOrder(PreferredTo(votes))
           /\ \A a, b \in Ids(votes) :
                 b \in PreferredTo(votes)[a] <=> Preferred(votes, b, a)
  <1> DEFINE above == PreferredTo(votes)
  <1>1. /\ DOMAIN above = Ids(votes)
        /\ \A a \in Ids(votes) : above[a] = {b \in Ids(votes) : Preferred(votes, b, a)}
    BY DEF PreferredTo
  <1> HIDE DEF above
  <1>2. \A a, b \in Ids(votes) : b \in above[a] <=> Preferred(votes, b, a)
    BY <1>1
  <1>3. \A a \in Ids(votes) : above[a] \subseteq Ids(votes)
    BY <1>1
  <1>4. ASSUME NEW a \in Ids(votes), NEW b \in Ids(votes)
        PROVE  a \in above[b] => b \notin above[a]
    <2> DEFINE x == Total(votes, a) * Divisor(votes, b)
               y == Total(votes, b) * Divisor(votes, a)
    <2>1. /\ Preferred(votes, a, b) <=> x > y
          /\ Preferred(votes, b, a) <=> y > x
      BY PreferredIs
    <2>2. x \in Int /\ y \in Int
      BY PreferredIs
    <2> HIDE DEF x, y
    <2> QED
      BY <1>2, <2>1, <2>2
  <1>5. ASSUME NEW a \in Ids(votes), NEW b \in Ids(votes), NEW c \in Ids(votes),
               a \notin above[b], b \notin above[c]
        PROVE  a \notin above[c]
    <2> DEFINE p == Total(votes, a)
               q == Total(votes, b)
               r == Total(votes, c)
               d == Divisor(votes, a)
               e == Divisor(votes, b)
               f == Divisor(votes, c)
    <2>1. /\ p \in Nat /\ q \in Nat /\ r \in Nat
          /\ d \in Nat \ {0} /\ e \in Nat \ {0} /\ f \in Nat \ {0}
      BY PreferredIs
    <2>2. ~(p * e > q * d) /\ ~(q * f > r * e)
      BY <1>2, <1>5, PreferredIs
    <2>3. Preferred(votes, a, c) <=> p * f > r * d
      BY PreferredIs
    <2> HIDE DEF p, q, r, d, e, f
    <2>4. p * e <= q * d /\ q * f <= r * e
      <3>1. p * e \in Int /\ q * d \in Int /\ q * f \in Int /\ r * e \in Int
        BY <2>1
      <3> QED
        BY <2>2, <3>1
    <2>5. p * f <= r * d
      BY <2>1, <2>4, QuotientsCompare
    <2>6. p * f \in Int /\ r * d \in Int
      BY <2>1
    <2> QED
      BY <1>2, <2>3, <2>5, <2>6
  <1>6. WeakOrder(above)
    BY <1>1, <1>3, <1>4, <1>5 DEF WeakOrder
  <1> QED
    BY <1>1, <1>2, <1>6 DEF above

(* What is selected by priority: the first k of the ranking by the votes.   *)
LEMMA ByPriority ==
    ASSUME NEW outputs, NEW results, results = << >>, NEW k \in Nat, Voted(Votes(outputs))
    PROVE  \E m \in Nat : /\ m = Min({k, Cardinality(Ids(Votes(outputs)))})
                          /\ IsTop(Selected(outputs, results, k), PreferredTo(Votes(outputs)),
                                   m, Ids(Votes(outputs)))
  <1> DEFINE votes == Votes(outputs)
             above == PreferredTo(votes)
             order == Ranking(votes, above)
             F == Ids(votes)
             n == Cardinality(F)
             m == Min({k, n})
             chosen == Selected(outputs, results, k)
  <1>1. DOMAIN above = F /\ WeakOrder(above)
    BY PreferencesAreWeak
  <1>2. \E v \in Nat : DOMAIN votes = 1..v
    BY DEF Voted
  <1>3. order = Merged(outputs)
    BY DEF Merged
  <1>4. chosen = SubSeq(order, 1, Min({k, Len(order)}))
    BY <1>3 DEF Selected
  <1> HIDE DEF votes, above, order, F, chosen
  <1>5. order \in [1..n -> F] /\ IsRanking(order, above)
    BY <1>1, <1>2, RankingIs DEF order, F
  <1>6. n \in Nat
    BY <1>1, <1>5 DEF IsRanking
  <1>7. Len(order) = n /\ order \in Seq(Range(order)) /\ \A i \in 1..n : order[i] \in F
    <2> HIDE DEF n
    <2>1. order \in [1..n -> Range(order)]
      BY <1>5 DEF Range
    <2> QED
      BY <1>5, <1>6, <2>1, FunctionIsSeq
  <1>8. m \in 0..n
    <2>1. m = IF k <= n THEN k ELSE n
      BY <1>6, MinOfTwo
    <2> QED
      BY <1>6, <2>1
  <1>9. chosen = SubSeq(order, 1, m)
    BY <1>4, <1>7
  <1> HIDE DEF m, n
  <1>10. PICK o : Takes(chosen, order, m, F, o)
    BY <1>6, <1>7, <1>8, <1>9, FirstTake
  <1>11. IsTop(chosen, above, m, F)
    <2>1. m \in 0..Cardinality(DOMAIN above)
      BY <1>1, <1>8 DEF n
    <2> QED
      BY <1>5, <1>10, <2>1, TakenIsTop
  <1>12. m \in Nat
    BY <1>6, <1>8
  <1> QED
    BY <1>11, <1>12 DEF m, n, chosen, above, F, votes

(* What is selected by score: of the better half of the ranking by score, or*)
(* of its first k, those that some expert proposed.                         *)
LEMMA WinnersAre ==
    ASSUME NEW results, NEW r \in Nat, DOMAIN results = 1..r,
           \A i \in 1..r : results[i].score \in Int, NEW k \in Nat
    PROVE  \E m \in 0..Cardinality(Ids(results)) :
             /\ m = Min({k, (Cardinality(Ids(results)) + 1) \div 2})
             /\ DOMAIN Winners(results, k) = 1..m
             /\ \A i \in 1..m : Winners(results, k)[i] = Standing(results)[i]
             /\ IsRanking(Standing(results), ScoredAbove(results))
  <1> DEFINE above == ScoredAbove(results)
             order == Standing(results)
             n == Cardinality(Ids(results))
             m == Min({k, (n + 1) \div 2})
             rows == Winners(results, k)
  <1>1. /\ DOMAIN above = Ids(results) /\ WeakOrder(above)
        /\ \A a, b \in Ids(results) : b \in above[a] <=> ScoreOf(results, b) > ScoreOf(results, a)
    BY ScoresAreWeak
  <1>2. order = Ranking(results, above)
    BY DEF Standing
  <1> HIDE DEF above, order
  <1>3. order \in [1..n -> Ids(results)] /\ IsRanking(order, above)
    BY <1>1, <1>2, RankingIs
  <1>4. n \in Nat
    BY <1>1, <1>3 DEF IsRanking
  <1>5. Len(order) = n
    <2> HIDE DEF n
    <2> QED
      BY <1>3, <1>4, FunctionIsSeq
  <1>6. rows = [i \in 1..m |-> IF ScoreOf(results, order[i]) >= ScoreOf(results, order[n + 1 - i])
                                 THEN order[i] ELSE order[n + 1 - i]]
    BY <1>5 DEF Winners, order
  <1> HIDE DEF n
  <1>7. m \in Nat /\ m <= (n + 1) \div 2 /\ m <= n
    <2>1. (n + 1) \div 2 \in Nat /\ (n + 1) \div 2 <= n
      BY <1>4
    <2> DEFINE half == (n + 1) \div 2
    <2>2. half \in Int
      BY <2>1
    <2> HIDE DEF half
    <2>3. Min({k, half}) = IF k <= half THEN k ELSE half
      BY <2>2, MinOfTwo
    <2> QED
      BY <1>4, <2>1, <2>3 DEF half
  <1>8. DOMAIN rows = 1..m
    BY <1>6
  <1>9. ASSUME NEW i \in 1..m
        PROVE  rows[i] = order[i]
    <2>1. rows[i] = IF ScoreOf(results, order[i]) >= ScoreOf(results, order[n + 1 - i])
                      THEN order[i] ELSE order[n + 1 - i]
      BY <1>6
    <2> HIDE DEF m
    <2>2. i \in 1..n /\ n + 1 - i \in 1..n /\ i <= n + 1 - i
      <3>1. i \in Nat /\ i >= 1 /\ i <= (n + 1) \div 2
        BY <1>4, <1>7
      <3>2. 2 * ((n + 1) \div 2) <= n + 1
        BY <1>4
      <3>3. (n + 1) \div 2 \in Nat
        BY <1>4
      <3> QED
        BY <1>4, <3>1, <3>2, <3>3
    <2> DEFINE j == n + 1 - i
               a == order[i]
               b == order[j]
    <2>3. a \in Ids(results) /\ b \in Ids(results)
      BY <1>3, <2>2
    <2>4. ScoreOf(results, a) \in Int /\ ScoreOf(results, b) \in Int
      BY <2>3, ScoreIs
    <2>5. i = j \/ b \notin above[a]
      <3>1. DOMAIN order = 1..n /\ \A p, q \in DOMAIN order : p < q => order[q] \notin above[order[p]]
        BY <1>3 DEF IsRanking
      <3>2. i = j \/ i < j
        BY <2>2
      <3> QED
        BY <2>2, <3>1, <3>2
    <2>6. ScoreOf(results, a) >= ScoreOf(results, b)
      <3>1. CASE i = j
        BY <2>4, <3>1
      <3>2. CASE b \notin above[a]
        BY <1>1, <2>3, <2>4, <3>2
      <3> QED
        BY <2>5, <3>1, <3>2
    <2> QED
      BY <2>1, <2>6
  <1>10. m \in 0..n
    BY <1>4, <1>7
  <1> QED
    BY <1>3, <1>8, <1>9, <1>10 DEF n, order, above

LEMMA ByScore ==
    ASSUME NEW outputs, Voted(Votes(outputs)), NEW results, results # << >>,
           NEW r \in Nat, DOMAIN results = 1..r,
           \A i \in 1..r : results[i].score \in Int, NEW k \in Nat
    PROVE  \E m \in Nat : /\ m = Min({k, (Cardinality(Ids(results)) + 1) \div 2})
                          /\ IsTop(Selected(outputs, results, k), ScoredAbove(results),
                                   m, Ids(Votes(outputs)))
  <1> DEFINE votes == Votes(outputs)
             F == Ids(votes)
             above == ScoredAbove(results)
             order == Standing(results)
             rows == Winners(results, k)
             chosen == Selected(outputs, results, k)
  <1>1. ToSet(Merged(outputs)) = F
    <2> DEFINE better == PreferredTo(votes)
               merged == Ranking(votes, better)
    <2>1. DOMAIN better = F /\ WeakOrder(better)
      BY PreferencesAreWeak
    <2>2. \E v \in Nat : DOMAIN votes = 1..v
      BY DEF Voted
    <2> HIDE DEF votes, better
    <2>3. IsRanking(merged, better)
      BY <2>1, <2>2, RankingIs
    <2>4. merged = Merged(outputs)
      BY DEF Merged, votes, better
    <2> HIDE DEF merged
    <2>5. /\ \A i \in DOMAIN merged : merged[i] \in F
          /\ \A x \in F : \E i \in DOMAIN merged : merged[i] = x
      BY <2>1, <2>3 DEF IsRanking
    <2>6. ToSet(merged) = F
      BY <2>5 DEF ToSet
    <2> QED
      BY <2>4, <2>6
  <1>2. PICK m \in 0..Cardinality(Ids(results)) :
             /\ m = Min({k, (Cardinality(Ids(results)) + 1) \div 2})
             /\ DOMAIN rows = 1..m
             /\ \A i \in 1..m : rows[i] = order[i]
             /\ IsRanking(order, above)
    BY WinnersAre
  <1>3. chosen = Picked(rows, Within(rows, m, F))
    BY <1>1, <1>2 DEF Selected, Within
  <1>4. DOMAIN above = Ids(results)
    BY ScoresAreWeak
  <1> HIDE DEF votes, F, above, order, rows, chosen
  <1>5. m \in Nat
    BY <1>2, <1>4 DEF IsRanking
  <1>6. PICK o : Takes(chosen, order, m, F, o)
    BY <1>2, <1>3, <1>5, PickedTake
  <1>7. IsTop(chosen, above, m, F)
    BY <1>2, <1>4, <1>6, TakenIsTop
  <1> QED
    BY <1>2, <1>5, <1>7 DEF chosen, above, F, votes

(* The votes are those of the contracts, one contract after the other; the  *)
(* experts of a task bring no ideas of their own.                           *)
Proposing(o) ==
    \E m \in Nat : /\ DOMAIN o.ideas = 1..m
                   /\ \A j \in 1..m : o.confidence \in 0..100 /\ o.ideas[j].priority \in 0..100

LEMMA VotesAre ==
    ASSUME NEW outputs, NEW n \in Nat, DOMAIN outputs = 1..n,
           \A i \in 1..n : Proposing(outputs[i])
    PROVE  Voted(Votes(outputs))
  <1> DEFINE Part(o) == [j \in DOMAIN o.ideas |->
                            [id |-> o.ideas[j].id, priority |-> o.ideas[j].priority,
                             by |-> o.confidence]]
             parts == [i \in DOMAIN outputs |-> Part(outputs[i])]
             S == UNION {ToSet(parts[i]) : i \in 1..n}
             votes == Votes(outputs)
  <1>1. votes = FlattenSeq(parts)
    BY DEF Votes, Stated
  <1>2. DOMAIN parts = 1..n /\ \A i \in 1..n : parts[i] = Part(outputs[i])
    OBVIOUS
  <1> HIDE DEF votes, parts
  <1>3. ASSUME NEW i \in 1..n
        PROVE  \E m \in Nat : /\ parts[i] \in [1..m -> ToSet(parts[i])]
                              /\ \A j \in 1..m : parts[i][j].by \in 0..100
                                                 /\ parts[i][j].priority \in 0..100
    <2>1. PICK m \in Nat : /\ DOMAIN outputs[i].ideas = 1..m
                           /\ \A j \in 1..m : /\ outputs[i].confidence \in 0..100
                                              /\ outputs[i].ideas[j].priority \in 0..100
      BY DEF Proposing
    <2>2. parts[i] = [j \in 1..m |-> [id |-> outputs[i].ideas[j].id,
                                      priority |-> outputs[i].ideas[j].priority,
                                      by |-> outputs[i].confidence]]
      BY <1>2, <2>1
    <2>3. /\ parts[i] = [j \in 1..m |-> parts[i][j]] /\ DOMAIN parts[i] = 1..m
          /\ \A j \in 1..m : /\ parts[i][j].by = outputs[i].confidence
                             /\ parts[i][j].priority = outputs[i].ideas[j].priority
      BY <2>2
    <2>4. \A j \in 1..m : parts[i][j] \in ToSet(parts[i])
      BY <2>3 DEF ToSet
    <2>5. parts[i] \in [1..m -> ToSet(parts[i])]
      BY <2>3, <2>4
    <2> QED
      BY <2>1, <2>3, <2>5
  <1>4. ASSUME NEW i \in 1..n
        PROVE  parts[i] \in Seq(S)
    <2>1. PICK m \in Nat : parts[i] \in [1..m -> ToSet(parts[i])]
      BY <1>3
    <2>2. parts[i] \in [1..m -> S]
      BY <2>1
    <2> HIDE DEF S
    <2> QED
      BY <2>2, FunctionIsSeq
  <1>5. \A v \in S : v.by \in 0..100 /\ v.priority \in 0..100
    <2>1. ASSUME NEW i \in 1..n, NEW v \in ToSet(parts[i])
          PROVE  v.by \in 0..100 /\ v.priority \in 0..100
      <3>1. PICK m \in Nat : /\ parts[i] \in [1..m -> ToSet(parts[i])]
                             /\ \A j \in 1..m : parts[i][j].by \in 0..100
                                                /\ parts[i][j].priority \in 0..100
        BY <1>3
      <3>2. PICK j \in DOMAIN parts[i] : v = parts[i][j]
        BY DEF ToSet
      <3> QED
        BY <3>1, <3>2
    <2> QED
      BY <2>1
  <1> HIDE DEF S
  <1>6. parts \in Seq(Seq(S))
    <2>1. parts = [i \in 1..n |-> parts[i]]
      BY <1>2 DEF parts
    <2>2. parts \in [1..n -> Seq(S)]
      BY <1>4, <2>1
    <2> QED
      BY <2>2, FunctionIsSeq
  <1>7. votes \in Seq(S)
    BY <1>1, <1>6, FlattenIs
  <1>8. /\ Len(votes) \in Nat /\ DOMAIN votes = 1..Len(votes)
        /\ \A i \in 1..Len(votes) : votes[i] \in S
    BY <1>7, LenProperties, ElementOfSeq
  <1> QED
    BY <1>5, <1>8 DEF Voted, votes

LEMMA TaskVotes ==
    ASSUME NEW t \in Tasks
    PROVE  Voted(Votes(Outputs(t)))
  <1>1. PICK n \in {1, 2, 3} : /\ DOMAIN Routed(t) = 1..n
                               /\ \A i \in 1..n : Routed(t)[i] \in Known
    BY PanelIs
  <1>2. DOMAIN Outputs(t) = 1..n /\ \A i \in 1..n : Outputs(t)[i] = Output(t, Routed(t)[i])
    BY <1>1 DEF Outputs
  <1>3. ASSUME NEW e \in Known
        PROVE  Output(t, e).ideas = << >>
    BY DEF Known, Output, Planner, EvidenceCurator, CauseModel, ScenarioGenerator, StatsExpert,
           JudgeExplainer, ReportWriter, Critic, RedTeam, Contract
  <1>4. ASSUME NEW i \in 1..n
        PROVE  Proposing(Outputs(t)[i])
    <2>1. Outputs(t)[i].ideas = << >>
      BY <1>1, <1>2, <1>3
    <2>2. DOMAIN Outputs(t)[i].ideas = 1..0 /\ 1..0 = {}
      BY <2>1
    <2> QED
      BY <2>2 DEF Proposing
  <1> QED
    BY <1>1, <1>2, <1>4, VotesAre

LEMMA CallVotes ==
    ASSUME NEW c \in Calls
    PROVE  Voted(Votes(c.outputs))
  <1>1. /\ c.outputs \in Seq(Range(c.outputs))
        /\ \A i \in DOMAIN c.outputs :
              /\ c.outputs[i].confidence \in 0..100
              /\ c.outputs[i].ideas \in Seq(Range(c.outputs[i].ideas))
              /\ \A j \in DOMAIN c.outputs[i].ideas : c.outputs[i].ideas[j].priority \in 0..100
    BY CommitteeAssumption DEF IsList
  <1>2. Len(c.outputs) \in Nat /\ DOMAIN c.outputs = 1..Len(c.outputs)
    BY <1>1, LenProperties
  <1>3. ASSUME NEW i \in DOMAIN c.outputs
        PROVE  Proposing(c.outputs[i])
    <2>1. /\ Len(c.outputs[i].ideas) \in Nat
          /\ DOMAIN c.outputs[i].ideas = 1..Len(c.outputs[i].ideas)
      BY <1>1, LenProperties
    <2> QED
      BY <1>1, <2>1 DEF Proposing
  <1> QED
    BY <1>2, <1>3, VotesAre

(* A report is made of the contracts that it lists.                         *)
Asked ==
    /\ task \in Tasks \cup Calls
    /\ pc = "reported" /\ task \in Calls => report = Report(task.outputs, task)

LEMMA AskedIsKept ==
    /\ Init => Asked
    /\ IInv /\ Asked /\ [Next]_vars => Asked'
  <1>1. Init => Asked
    BY DEF Init, Asked
  <1>2. ASSUME IInv, Asked, [Next]_vars
        PROVE  Asked'
    <2>1. CASE Arbitrate
      BY <1>2, <2>1 DEF Asked, Arbitrate, Given
    <2>2. CASE Conclude
      <3>1. task' = task /\ pc = "running" /\ task \in Tasks /\ Tasks \cap Calls = {}
        BY <1>2, <2>2, TasksAre DEF IInv, Conclude, AllIn
      <3>2. task' \in Tasks \cup Calls /\ task' \notin Calls
        BY <3>1
      <3> QED
        BY <3>2 DEF Asked
    <2>3. CASE Run \/ AnswerSome \/ Raise \/ Overrun
      <3>1. task' = task /\ pc' # "reported"
        BY <2>3 DEF Run, AnswerSome, Answer, Raise, Overrun, Abandon
      <3> QED
        BY <1>2, <3>1 DEF Asked
    <2>4. CASE UNCHANGED vars
      BY <1>2, <2>4 DEF Asked, vars
    <2> QED
      BY <1>2, <2>1, <2>2, <2>3, <2>4 DEF Next
  <1> QED
    BY <1>1, <1>2

(* What a report selects is selected once, best first, and nothing better is *)
(* left out: whatever was proposed by whom, at what priority and with what   *)
(* confidence, and however the simulated scenarios scored.                   *)
THEOREM SelectionTops == Spec => []SelectionIsTop
  <1>1. ASSUME IInv, Asked PROVE SelectionIsTop
    <2> SUFFICES ASSUME pc = "reported"
                 PROVE  SelectionIsTop
      BY DEF SelectionIsTop
    <2> DEFINE votes   == Votes(report.outputs)
               results == task.results
               k       == task.k
               chosen  == report.selected
               proposed  == Ids(votes)
               simulated == Ids(results)
               n == Cardinality(simulated)
    <2>1. chosen = Selected(report.outputs, results, k) /\ Voted(votes)
      <3>1. CASE task \in Tasks
        BY <1>1, <3>1, TaskVotes DEF IInv, ReportOk, Report
      <3>2. CASE task \in Calls
        BY <1>1, <3>2, CallVotes DEF Asked, Report
      <3> QED
        BY <1>1, <3>1, <3>2 DEF Asked
    <2>2. /\ k \in Nat /\ results \in Seq(Range(results))
          /\ \A i \in DOMAIN results : results[i].score \in Int
      BY <1>1, CommitteeAssumption DEF Asked, IsList
    <2>3. Len(results) \in Nat /\ DOMAIN results = 1..Len(results)
      BY <2>2, LenProperties
    <2>4. simulated = {} <=> results = << >>
      <3>1. results = << >> <=> Len(results) = 0
        BY <2>2, EmptySeq
      <3>2. simulated = {} <=> DOMAIN results = {}
        BY DEF Ids
      <3> HIDE DEF results, simulated
      <3>3. DOMAIN results = {} <=> Len(results) = 0
        BY <2>3
      <3> QED
        BY <3>1, <3>2, <3>3
    <2>5. CASE results = << >>
      <3>1. PICK m \in Nat : /\ m = Min({k, Cardinality(proposed)})
                             /\ IsTop(chosen, PreferredTo(votes), m, proposed)
        BY <2>1, <2>2, <2>5, ByPriority
      <3>2. /\ DOMAIN PreferredTo(votes) = proposed
            /\ \A a, b \in proposed : b \in PreferredTo(votes)[a] <=> Preferred(votes, b, a)
        BY <2>1, PreferencesAreWeak
      <3>3. \A i \in DOMAIN chosen : chosen[i] \in ToSet(chosen)
        BY DEF ToSet
      <3> HIDE DEF votes, results, k, chosen, proposed, simulated, n
      <3>4. /\ Cardinality(ToSet(chosen)) = Len(chosen)
            /\ ToSet(chosen) \subseteq proposed
            /\ Len(chosen) = Min({k, Cardinality(proposed)})
        BY <3>1, <3>2 DEF IsTop
      <3>5. \A i, j \in DOMAIN chosen : i < j => ~Preferred(votes, chosen[j], chosen[i])
        BY <3>1, <3>2, <3>3, <3>4 DEF IsTop
      <3>6. \A a \in ToSet(chosen), b \in proposed \ ToSet(chosen) : ~Preferred(votes, b, a)
        BY <3>1, <3>2, <3>4 DEF IsTop
      <3> QED
        BY <2>4, <2>5, <3>4, <3>5, <3>6
           DEF SelectionIsTop, votes, results, k, chosen, proposed, simulated, n
    <2>6. CASE results # << >>
      <3>1. PICK m \in Nat : /\ m = Min({k, (n + 1) \div 2})
                             /\ IsTop(chosen, ScoredAbove(results), m, proposed)
        <4> HIDE DEF results, k
        <4>1. \E m \in Nat : /\ m = Min({k, (Cardinality(Ids(results)) + 1) \div 2})
                             /\ IsTop(Selected(report.outputs, results, k), ScoredAbove(results),
                                      m, Ids(Votes(report.outputs)))
          BY <2>1, <2>2, <2>3, <2>6, ByScore
        <4> QED
          BY <2>1, <4>1
      <3>2. /\ DOMAIN ScoredAbove(results) = simulated
            /\ \A a, b \in simulated :
                  b \in ScoredAbove(results)[a] <=> ScoreOf(results, b) > ScoreOf(results, a)
        BY <2>2, <2>3, ScoresAreWeak
      <3>3. \A i \in DOMAIN chosen : chosen[i] \in ToSet(chosen)
        BY DEF ToSet
      <3> HIDE DEF votes, results, k, chosen, proposed, simulated, n
      <3>4. /\ Cardinality(ToSet(chosen)) = Len(chosen)
            /\ ToSet(chosen) \subseteq proposed \cap simulated
            /\ Len(chosen) <= Min({k, (n + 1) \div 2})
            /\ simulated \subseteq proposed => Len(chosen) = Min({k, (n + 1) \div 2})
        BY <3>1, <3>2 DEF IsTop
      <3>5. \A i, j \in DOMAIN chosen :
               i < j => ~(ScoreOf(results, chosen[j]) > ScoreOf(results, chosen[i]))
        BY <3>1, <3>2, <3>3, <3>4 DEF IsTop
      <3>6. \A a \in ToSet(chosen), b \in (proposed \cap simulated) \ ToSet(chosen) :
               ~(ScoreOf(results, b) > ScoreOf(results, a))
        BY <3>1, <3>2, <3>4 DEF IsTop
      <3> QED
        BY <2>4, <2>6, <3>4, <3>5, <3>6
           DEF SelectionIsTop, votes, results, k, chosen, proposed, simulated, n
    <2> QED
      BY <2>5, <2>6
  <1>2. Spec => []IInv /\ [][Next]_vars /\ Init
    BY CommitteeInvariant, PTL DEF Spec
  <1> QED
    BY <1>1, <1>2, AskedIsKept, PTL
=============================================================================
