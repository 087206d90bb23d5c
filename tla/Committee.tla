------------------------------ MODULE Committee ------------------------------
(***************************************************************************)
(* The committee of experts: routing, experts that ask language models     *)
(* while they wait for each other, and the report over what they say.  The *)
(* activity model_causes asks the committee on behalf of a run and is      *)
(* retried; the debug endpoint asks it once.  The engine may also be given *)
(* contracts directly, as its tests do.  LLM calls are those of LLMBreaker *)
(* seen from outside: a reply, none, or an exception of the client's own.  *)
(***************************************************************************)
EXTENDS Arbitration

CONSTANTS Providers,      \* configured LLM providers
          Tasks,          \* what the committee may be asked
          Calls,          \* contracts the engine may be given directly
          Drivers,        \* the drivers a model may name
          MaxAttempts     \* attempts of the activity (maximum_attempts)

VARIABLES task, pc, attempt, heard, report
vars == <<task, pc, attempt, heard, report>>

Expert == [planning |-> "planner", evidence_retrieval |-> "evidence_curator",
           cause_modeling |-> "cause_modeler", scenario_generation |-> "scenario_generator",
           stats_analysis |-> "stats_expert", math_analysis |-> "stats_expert",
           critique |-> "critic", red_team |-> "red_team",
           explain_judgment |-> "judge_explainer", report_writing |-> "report_writer"]

(* Confidences and priorities are shares (Field(ge=0, le=1) in experts.py). *)
IsList(s) == s \in Seq(Range(s))

ASSUME CommitteeAssumption ==
    /\ Providers # {}
    /\ MaxAttempts \in Nat \ {0}
    /\ Tasks \cap Calls = {}
    /\ \A t \in Tasks : t.stage \in DOMAIN Expert
    /\ \A t \in Tasks \cup Calls :
         t.k \in Nat /\ IsList(t.results) /\ \A i \in DOMAIN t.results : t.results[i].score \in Int
    /\ \A c \in Calls :
         /\ IsList(c.outputs)
         /\ \A i \in DOMAIN c.outputs :
              /\ c.outputs[i].confidence \in 0..100 /\ IsList(c.outputs[i].ideas)
              /\ \A j \in DOMAIN c.outputs[i].ideas : c.outputs[i].ideas[j].priority \in 0..100

HighStakes(t) == t.stakes >= 80

(* RouterPolicy.route: one parallel group. *)
Routed(t) ==
    LET e == Expert[t.stage]
    IN  CASE ~HighStakes(t)   -> <<e>>
          [] HighStakes(t) /\ e = "critic"   -> <<"critic", "red_team">>
          [] HighStakes(t) /\ e = "red_team" -> <<"red_team", "critic">>
          [] OTHER            -> <<e, "critic", "red_team">>

(* The calls an expert makes: an ensemble asks every provider, a single     *)
(* call falls back along its chain.  None without a language model.         *)
Ensemble(t, e) == e = "cause_modeler" /\ HighStakes(t)
Legs(t, e) ==
    IF ~t.llm THEN {}
    ELSE IF Ensemble(t, e) THEN Providers
    ELSE IF e \in {"cause_modeler", "critic", "red_team"} THEN {"chain"}
    ELSE {}

(* silent: no answer, or none with JSON in it.  bent: JSON with null where  *)
(* a list belongs.  broken: the client raises something else than LLMError. *)
Replies == [kind : {"json"}, drivers : SUBSET Drivers]
             \cup [kind : {"silent", "bent", "broken"}, drivers : {{}}]

Is(t, e, kind) == \E leg \in DOMAIN heard[e] : heard[e][leg].kind = kind

(* The exception of one leg ends the ensemble at once, with no answers.     *)
AnsweredWell(t, e) == DOMAIN heard[e] = Legs(t, e) /\ ~Is(t, e, "silent")
Answered(t, e) ==
    \/ DOMAIN heard[e] = Legs(t, e)
    \/ Ensemble(t, e) /\ Is(t, e, "broken")

RaisesOnAny(t, e) == Answered(t, e) /\ (Is(t, e, "broken") \/ Is(t, e, "bent"))
Raises(t, e) ==
    /\ Answered(t, e)
    /\ IF Ensemble(t, e)
         THEN ~Is(t, e, "broken") /\ Is(t, e, "bent")
         ELSE Is(t, e, "broken") \/ Is(t, e, "bent")

-----------------------------------------------------------------------------
(* The contracts. *)
Contract(e, confidence, assumptions, drivers, flagged) ==
    [expert |-> e, confidence |-> confidence, assumptions |-> assumptions,
     benchmarks |-> <<>>, ideas |-> <<>>, drivers |-> drivers, flagged |-> flagged]

Candidates(t, e) ==
    {leg \in DOMAIN heard[e] : /\ heard[e][leg].drivers # {}
                               /\ ~(Ensemble(t, e) /\ Is(t, e, "broken"))}

CauseModelUnflagged(t) ==
    LET e == "cause_modeler"
        candidates == Candidates(t, e)
    IN  IF candidates # {}
          THEN Contract(e, Min({95, 70 + 8 * (Cardinality(candidates) - 1)}),
                        <<"causal model synthesized">>,
                        UNION {heard[e][leg].drivers : leg \in candidates}, FALSE)
          ELSE Contract(e, 40, <<"causal model not inferred">>, {}, FALSE)

CauseModel(t) ==
    LET e == "cause_modeler"
        candidates == Candidates(t, e)
    IN  IF candidates # {}
          THEN Contract(e, Min({95, 70 + 8 * (Cardinality(candidates) - 1)}),
                        <<"causal model synthesized">>,
                        UNION {heard[e][leg].drivers : leg \in candidates}, FALSE)
          ELSE Contract(e, 40, <<"causal model not inferred">>, {}, TRUE)

Planner           == Contract("planner", 85, <<"metrics are well-defined">>, {}, FALSE)
EvidenceCurator   == Contract("evidence_curator", 80, <<>>, {}, FALSE)
ScenarioGenerator == Contract("scenario_generator", 90, <<"space is expressive">>, {}, FALSE)
StatsExpert       == Contract("stats_expert", 95, <<>>, {}, FALSE)
JudgeExplainer    == Contract("judge_explainer", 90, <<>>, {}, FALSE)
ReportWriter      == Contract("report_writer", 85, <<>>, {}, FALSE)
Critic(t)  == Contract("critic", IF Is(t, "critic", "json") THEN 85 ELSE 60, <<>>, {}, FALSE)
RedTeam(t) == Contract("red_team", IF Is(t, "red_team", "json") THEN 80 ELSE 60, <<>>, {}, FALSE)

Output(t, e) ==
    CASE e = "planner"            -> Planner
      [] e = "evidence_curator"   -> EvidenceCurator
      [] e = "cause_modeler"      -> CauseModel(t)
      [] e = "scenario_generator" -> ScenarioGenerator
      [] e = "stats_expert"       -> StatsExpert
      [] e = "critic"             -> Critic(t)
      [] e = "red_team"           -> RedTeam(t)
      [] e = "judge_explainer"    -> JudgeExplainer
      [] e = "report_writer"      -> ReportWriter

Outputs(t) == LET routed == Routed(t) IN [i \in DOMAIN routed |-> Output(t, routed[i])]

Report(outputs, t) ==
    [outputs  |-> outputs,
     assumed  |-> Consensus(outputs, Assumed(outputs)),
     selected |-> Selected(outputs, t.results, t.k),
     actions  |-> Actions(outputs, t.stakes, t.results)]

-----------------------------------------------------------------------------
None == [outputs |-> <<>>, assumed |-> {}, selected |-> <<>>, actions |-> {}]
Silence(t) == [e \in ToSet(Routed(t)) |-> [leg \in {} |-> {}]]

Init ==
    /\ task \in Tasks \cup Calls
    /\ pc = "asked"
    /\ attempt = 0
    /\ heard = [e \in {} |-> {}]
    /\ report = None

(* model_causes or debug_moe calls committee.run: every expert runs up to   *)
(* its first await.                                                         *)
Run ==
    /\ pc = "asked" /\ task \in Tasks
    /\ pc' = "running"
    /\ attempt' = attempt + 1
    /\ heard' = Silence(task)
    /\ UNCHANGED <<task, report>>

With(replies, leg, r) ==
    [l \in DOMAIN replies \cup {leg} |-> IF l = leg THEN r ELSE replies[l]]

Answer(e, leg) ==
    /\ pc = "running"
    /\ ~Answered(task, e)
    /\ leg \in Legs(task, e) \ DOMAIN heard[e]
    /\ \E r \in Replies :
         /\ e # "cause_modeler" => r.drivers = {}
         /\ heard' = [heard EXCEPT ![e] = With(@, leg, r)]
    /\ UNCHANGED <<task, pc, attempt, report>>

(* The attempt is over without a report.  Temporal tries the activity again;*)
(* the endpoint answers 500.  What the other experts of the attempt still   *)
(* hear reaches nobody.                                                     *)
AbandonEndlessly(verdict) ==
    /\ pc' = IF task.origin = "activity" THEN "asked" ELSE verdict
    /\ UNCHANGED <<task, attempt, heard, report>>

Abandon(verdict) ==
    /\ pc' = IF task.origin = "activity" /\ attempt < MaxAttempts THEN "asked" ELSE verdict
    /\ UNCHANGED <<task, attempt, heard, report>>

Raise ==
    /\ pc = "running"
    /\ \E e \in ToSet(Routed(task)) : Raises(task, e)
    /\ Abandon("failed")

(* start_to_close_timeout *)
Overrun ==
    /\ pc = "running" /\ task.origin = "activity"
    /\ \E e \in ToSet(Routed(task)) : ~Answered(task, e)
    /\ Abandon("overdue")

AllIn ==
    /\ pc = "running"
    /\ \A e \in ToSet(Routed(task)) : Answered(task, e) /\ ~Raises(task, e)
    /\ pc' = "reported"
    /\ UNCHANGED <<task, attempt, heard>>

Conclude == AllIn /\ report' = Report(Outputs(task), task)

(* ArbitrationEngine.arbitrate on given contracts. *)
Given ==
    /\ pc = "asked" /\ task \in Calls
    /\ pc' = "reported"
    /\ UNCHANGED <<task, attempt, heard>>

Arbitrate == Given /\ report' = Report(task.outputs, task)

AnswerSome == \E e \in {"cause_modeler", "critic", "red_team"} \cap DOMAIN heard :
                 \E leg \in Providers \cup {"chain"} : Answer(e, leg)

Next == Run \/ AnswerSome \/ Raise \/ Overrun \/ Conclude \/ Arbitrate

(* Calls to a model end or time out, and the event loop schedules every     *)
(* coroutine that may go on; a report is then made (AllIn, Given).           *)
Fairness == WF_<<pc, heard>>(Run \/ AnswerSome \/ Raise \/ AllIn \/ Given)

Spec == Init /\ [][Next]_vars /\ Fairness
-----------------------------------------------------------------------------
(* Every reachable state is well-formed: what an attempt has heard are      *)
(* replies to calls its experts make, and the number of attempts is bounded.*)
CommitteeTypeOK ==
    /\ pc \in {"asked", "running", "failed", "overdue", "reported"}
    /\ attempt \in 0..MaxAttempts
    /\ \A e \in DOMAIN heard : /\ DOMAIN heard[e] \subseteq Legs(task, e)
                             /\ \A leg \in DOMAIN heard[e] : heard[e][leg] \in Replies
    /\ pc \notin {"asked", "reported"} => task \in Tasks

(* "Experts must never fabricate" (ExpertBase): whatever provider fails or  *)
(* answers what, a driver in the report was named by a model of the same    *)
(* attempt, and a run whose causal model is missing is put before a human.  *)
NothingFabricated ==
    pc = "reported" /\ task \in Tasks =>
        /\ \A i \in DOMAIN report.outputs :
             LET o == report.outputs[i]
             IN  o.drivers \subseteq UNION {heard[o.expert][leg].drivers : leg \in DOMAIN heard[o.expert]}
        /\ (\E i \in DOMAIN report.outputs : /\ report.outputs[i].expert = "cause_modeler"
                                             /\ report.outputs[i].drivers = {})
             => "human_review" \in report.actions

(* "Every helper returns None on any failure so callers fall back"          *)
(* (experts.py): a provider that fails, or answers without JSON, never      *)
(* fails the committee; JSON with a null list does, and an exception of the *)
(* client itself does if it is not the ensemble's.                          *)
FailsOnlyOnBadReply ==
    pc = "failed" =>
        \E e \in DOMAIN heard : Is(task, e, "bent") \/ (~Ensemble(task, e) /\ Is(task, e, "broken"))

(* The disagreement that _compute_disagreement measures is one between an   *)
(* expert that assumes something and two that assume nothing: high stakes   *)
(* bring in the critic and the red team, and with them every assumption     *)
(* loses its majority and the stronger model is asked for; low stakes never *)
(* ask for it, whatever the models answered.                                *)
DisagreementIsStakes ==
    pc = "reported" /\ task \in Tasks =>
        /\ "upgrade_llm_tier" \in report.actions
             <=> HighStakes(task) /\ Assumed(report.outputs) # <<>>
        /\ HighStakes(task) => report.assumed = {}

(* What a report selects is selected once, best first, and nothing better   *)
(* is left out: by the scores of the simulation (at most the better half,   *)
(* and all of it that k allows if every simulated scenario was proposed), or*)
(* by priority where nothing was simulated.                                 *)
SelectionIsTop ==
    pc = "reported" =>
        LET chosen    == report.selected
            votes     == Votes(report.outputs)
            proposed  == Ids(votes)
            simulated == Ids(task.results)
            n         == Cardinality(simulated)
            Better(a, b) == IF simulated = {} THEN Preferred(votes, a, b)
                            ELSE ScoreOf(task.results, a) > ScoreOf(task.results, b)
            field     == IF simulated = {} THEN proposed ELSE proposed \cap simulated
        IN  /\ Cardinality(ToSet(chosen)) = Len(chosen)
            /\ ToSet(chosen) \subseteq field
            /\ \A i, j \in DOMAIN chosen : i < j => ~Better(chosen[j], chosen[i])
            /\ \A a \in ToSet(chosen), b \in field \ ToSet(chosen) : ~Better(b, a)
            /\ IF simulated = {} THEN Len(chosen) = Min({task.k, Cardinality(proposed)})
               ELSE /\ Len(chosen) <= Min({task.k, (n + 1) \div 2})
                    /\ simulated \subseteq proposed => Len(chosen) = Min({task.k, (n + 1) \div 2})

(* Every task is answered, or fails after its last attempt. *)
CommitteeEnds == <>(pc \in {"failed", "overdue", "reported"})
=============================================================================
