------------------------------ MODULE RunLoop ------------------------------
(***************************************************************************)
(* The working part of SimulationRunWorkflow.run - first scenarios,        *)
(* optimization loop, promotion of finalists, robustness tests, summary -  *)
(* and the ledger its activities keep: scenarios, instances, metrics and   *)
(* judge scores.                                                           *)
(*                                                                         *)
(* Temporal retries a failed attempt at an activity, also one whose commit *)
(* went through, and retries one that has timed out although it still runs.*)
(* An attempt that only computes is one step; one that writes the ledger   *)
(* commits in a step of its own, and reads in another where what it read   *)
(* decides what it writes.                                                 *)
(***************************************************************************)
EXTENDS RunScoring

CONSTANTS
    Initial,       \* what generate_structured_scenarios returns
    Batches,       \* what propose_next_batch may return
    Packs,         \* packs: functions from seeds (modulo the domain) to outcomes
    Objectives,    \* as for RunScoring, over the metric "m"
    MaxLever,      \* upper end of the range of every lever
    BatchSize, MaxScenarios, MaxCompute, MaxStorage,    \* budgets of the run
    Window,        \* scores that check_convergence looks at, 20
    FinalistCount, Replicates,
    Salts,         \* hash(mode) % 997 by mode, as it differs between processes
    MaxAttempts,   \* maximum_attempts of the retry policies
    MaxFaults,     \* bound: attempts that fail or time out
    MaxLate        \* bound: timed-out attempts that run on

ASSUME LoopAssumption ==
    /\ BatchSize \in Nat \ {0}
    /\ {MaxScenarios, MaxCompute, MaxStorage, FinalistCount, Replicates} \subseteq Nat
    /\ Window \in Nat \ {0}
    /\ MaxAttempts \in Nat \ {0}
    /\ MaxFaults \in Nat
    /\ MaxLate \in Nat

(* A scenario is what its hash covers: levers (none, <<>>, for an empty     *)
(* dictionary), seed, fidelity and the kind of robustness test.             *)
Scenario(acts, seed, fidelity, mode) ==
    [acts |-> acts, seed |-> seed, fidelity |-> fidelity, mode |-> mode]

Modes == <<"sensitivity", "stress", "worst_case">>

Scenarios == [acts : Seq(Int), seed : Int, fidelity : {"cheap", "mid", "high"},
              mode : {"none"} \cup ToSet(Modes)]

(* propose_next_batch makes range(batch_size) proposals; a simulation that  *)
(* has failed has no metrics, and a completed one may have none.            *)
Metrics == [{} -> Int] \cup [{"m"} -> Int]

ASSUME WorldAssumption ==
    /\ Initial \in Seq(Scenarios)
    /\ \A proposal \in Batches : /\ proposal \in Seq([acts : Seq(Int), seed : Int])
                                 /\ Len(proposal) = BatchSize
    /\ \A p \in Packs :
          /\ IsFiniteSet(DOMAIN p) /\ DOMAIN p # {}
          /\ DOMAIN p = 0..(Cardinality(DOMAIN p) - 1)
          /\ \A n \in DOMAIN p : \/ p[n] \in [status : {"completed"}, metrics : Metrics]
                                 \/ p[n] = [status |-> "failed", metrics |-> Mute]
    /\ DOMAIN Objectives \subseteq {"m"}
    /\ \A n \in DOMAIN Objectives :
          Objectives[n] \in [direction : {"minimize", "maximize"}, weight : Int]
    /\ MaxLever \in Int
    /\ Salts \subseteq [ToSet(Modes) -> Int]

VARIABLES
    phase, step,   \* where the workflow is: the activity it awaits
    iteration, converged, stopReason, completed, compute, storage,
    optimizer,     \* optimizer_state: iteration, history, best score
    batch,         \* the scenarios at hand
    outcomes, scored, finalists,
    allScored,
    next,          \* the outcome whose metrics are next to be stored
    call,          \* the attempt: number, how far, what it found
    late, zombies, \* timed-out attempts that run on; how many there were
    ledger,        \* the tables
    shown,         \* summary and candidates in run_spec
    pack, faults

control == <<phase, step, call>>
loop    == <<iteration, converged, stopReason, finalists>>
totals  == <<completed, compute, storage>>
data    == <<batch, outcomes, scored, allScored, optimizer, next, shown>>
vars    == <<control, loop, totals, data, late, zombies, ledger, pack, faults>>
env     == <<late, zombies, pack, faults>>

-----------------------------------------------------------------------------
NewLedger == [scenarios |-> {}, metrics |-> << >>, scores |-> << >>, steps |-> {}]

Rows(table, s) == IF s \in DOMAIN table THEN table[s] ELSE <<>>

Inserted(table, new) ==
    [s \in DOMAIN table \cup DOMAIN new |-> Rows(table, s) \o Rows(new, s)]

(* scenarios and scenario_instances: a unique hash, on conflict do nothing. *)
WithScenarios(db, scenarios) ==
    [db EXCEPT !.scenarios = @ \cup ToSet(scenarios)]

(* persist_metric_results inserts the names it has not found.               *)
WithMetrics(db, outcome, found) ==
    [db EXCEPT !.metrics =
        Inserted(@, [s \in {outcome.s} \ found |-> <<outcome.metrics["m"]>>])]

(* Variant: a failed simulation gets no row. *)
WithScoresOfScored(db, rows, found) ==
    [db EXCEPT !.scores =
        Inserted(@, [s \in {rows[i].s : i \in {j \in DOMAIN rows : rows[j].status = "scored"}}
                            \ found |->
                        <<rows[Min({i \in DOMAIN rows : rows[i].s = s})].score>>])]

(* Variant: nothing is looked up before the insert. *)
WithScoresUnseen(db, rows, found) ==
    LET first(s) == Min({i \in DOMAIN rows : rows[i].s = s})
    IN  [db EXCEPT !.scores =
            Inserted(@, [s \in {rows[i].s : i \in DOMAIN rows} |-> <<rows[first(s)].score>>])]

(* persist_judge_scores inserts a score - 0 for a failed simulation - for   *)
(* each instance that it has found without one, and once for each.          *)
WithScores(db, rows, found) ==
    LET first(s) == Min({i \in DOMAIN rows : rows[i].s = s})
    IN  [db EXCEPT !.scores =
            Inserted(@, [s \in {rows[i].s : i \in DOMAIN rows} \ found |->
                            <<rows[first(s)].score>>])]

FoundMetrics(outcome) == {outcome.s} \cap DOMAIN ledger.metrics
FoundScores(rows) == {rows[i].s : i \in DOMAIN rows} \cap DOMAIN ledger.scores

(* scalar_one_or_none raises if an instance has more than one score.        *)
Ambiguous(rows) == \E s \in FoundScores(rows) : Len(ledger.scores[s]) > 1

-----------------------------------------------------------------------------
(* Activities that only compute.                                            *)

(* The simulation of a scenario, in this process or on the fabric.          *)
Run(s) ==
    LET outcome == pack[s.seed % Cardinality(DOMAIN pack)]
    IN  [s |-> s, status |-> outcome.status, metrics |-> outcome.metrics]

(* fetch_cached_outcomes: cached outcomes first; then what is pending.      *)
Cached(scenarios) ==
    LET known == Picked(scenarios, {i \in DOMAIN scenarios : scenarios[i] \in DOMAIN ledger.metrics})
    IN  [i \in DOMAIN known |-> [s |-> known[i], status |-> "cached",
                                 metrics |-> [m \in {"m"} |-> Last(ledger.metrics[known[i]])]]]

Pending(scenarios) ==
    Picked(scenarios, {i \in DOMAIN scenarios : scenarios[i] \notin DOMAIN ledger.metrics})

(* update_optimizer. *)
Tell(state, rows) ==
    LET done   == Scored(rows)
        scores == [i \in DOMAIN done |-> done[i].score]
    IN  [iteration |-> state.iteration + 1,
         history   |-> state.history \o scores,
         best      |-> LET all == state.best \cup ToSet(scores) IN Optional(all, Max(all))]

(* check_convergence: the reason for which it has converged, or none.  The  *)
(* scores are whole numbers here: a range below 0.001 is a range of 0, and  *)
(* an improvement of the mean below 1% is compared exactly.                 *)
Convergence(history) ==
    LET recent == SubSeq(history, Len(history) - Window + 1, Len(history))
        half   == Window \div 2
        sum(s) == FoldLeft(LAMBDA x, y : x + y, 0, s)
        older  == sum(SubSeq(recent, 1, half))
        newer  == sum(SubSeq(recent, half + 1, Window))
        abs(x) == IF x < 0 THEN -x ELSE x
    IN  IF Len(history) < Window THEN {}
        ELSE IF Cardinality(ToSet(recent)) = 1 THEN {"score_plateau"}
        ELSE IF older = 0 THEN {"no_improvement"}
        ELSE IF 100 * abs(newer - older) < abs(older) THEN {"no_improvement"}
        ELSE {}

(* Variant: sorted upwards and then reversed, ties with it. *)
FinalistsReversed(rows) ==
    LET top == Top(Ranked(Reverse(rows)), FinalistCount)
    IN  [i \in DOMAIN top |-> [acts |-> IF top[i].given THEN top[i].s.acts ELSE <<>>,
                               seed |-> IF top[i].given THEN top[i].s.seed ELSE 0]]

(* _select_top_scenarios: a cached outcome has neither levers nor seed.     *)
Finalists(rows) ==
    LET top == Top(Ranked(rows), FinalistCount)
    IN  [i \in DOMAIN top |-> [acts |-> IF top[i].given THEN top[i].s.acts ELSE <<>>,
                               seed |-> IF top[i].given THEN top[i].s.seed ELSE 0]]

(* promote_finalists. *)
Promoted(fidelity) ==
    LET one(f) == [r \in 1..Replicates |-> Scenario(f.acts, f.seed + r, fidelity, "none")]
    IN  FlattenSeq([i \in DOMAIN finalists |-> one(finalists[i])])

(* generate_robustness_scenarios.  A tenth of the range is one step of a    *)
(* lever here.                                                              *)
Perturbed(salt) ==
    LET Adjust(mode, v) == IF mode = "worst_case" THEN MaxLever ELSE Min({MaxLever, v + 1})
        one(f) == [k \in DOMAIN Modes |->
                      Scenario([i \in DOMAIN f.acts |-> Adjust(Modes[k], f.acts[i])],
                               f.seed + salt[Modes[k]], "mid", Modes[k])]
    IN  FlattenSeq([i \in DOMAIN finalists |-> one(finalists[i])])

-----------------------------------------------------------------------------
(* The workflow. *)
FirstAttempt == [number |-> 1, at |-> "begun", found |-> {}]

Init ==
    /\ phase = "initial" /\ step = "generate" /\ call = FirstAttempt
    /\ iteration = 0 /\ converged = {} /\ stopReason = {} /\ finalists = <<>>
    /\ completed = 0 /\ compute = 0 /\ storage = 0
    /\ batch = <<>> /\ outcomes = <<>> /\ scored = <<>> /\ allScored = <<>>
    /\ optimizer = [iteration |-> 0, history |-> <<>>, best |-> {}]
    /\ next = 1
    /\ shown = {}
    /\ late = {} /\ zombies = 0 /\ faults = 0
    /\ ledger = NewLedger
    /\ pack \in Packs

(* The workflow gets the reply of the activity that it awaits and goes on.  *)
GoTo(p, s) == phase' = p /\ step' = s /\ call' = FirstAttempt

Awaits(s) == step = s /\ call.at = "begun"
Replied(s) == step = s /\ call.at = "committed"
Advance(at) == call' = [call EXCEPT !.at = at] /\ UNCHANGED <<phase, step>>

Generate ==
    /\ Awaits("generate")
    /\ batch' = Initial
    /\ GoTo("initial", "persist")
    /\ UNCHANGED <<loop, totals, outcomes, scored, allScored, optimizer, next, shown, env, ledger>>

PersistCommit ==
    /\ Awaits("persist")
    /\ ledger' = WithScenarios(ledger, batch)
    /\ Advance("committed")
    /\ UNCHANGED <<loop, totals, data, env>>

(* The first scenarios are stored and never simulated: the loop proposes    *)
(* its own.                                                                 *)
PersistReply ==
    /\ Replied("persist")
    /\ IF phase = "initial" THEN GoTo("loop", "head") ELSE GoTo(phase, "fetch")
    /\ UNCHANGED <<loop, totals, data, env, ledger>>

MaxIterations == Max({1, MaxScenarios \div BatchSize})

(* Variant: only scenarios and wall time are looked at. *)
ExceededUntold(overtime) ==
    IF completed >= MaxScenarios THEN {"max_scenarios"}
    ELSE IF overtime THEN {"max_wall_time"}
    ELSE {}

(* What the head of the loop finds exceeded first; overtime: whether        *)
(* max_wall_time has passed.                                                *)
Exceeded(overtime) ==
    IF completed >= MaxScenarios THEN {"max_scenarios"}
    ELSE IF overtime THEN {"max_wall_time"}
    ELSE IF compute > MaxCompute THEN {"max_compute_time"}
    ELSE IF storage > MaxStorage THEN {"max_storage"}
    ELSE {}

Looping == iteration < MaxIterations /\ converged = {}

Iterate ==
    /\ step = "head" /\ Looping
    /\ Exceeded(FALSE) = {}
    /\ iteration' = iteration + 1
    /\ GoTo("loop", "propose")
    /\ UNCHANGED <<converged, stopReason, finalists, totals, data, env, ledger>>

(* Variant: convergence is forgotten. *)
StopReasonPlain(reason) ==
    IF reason # {} THEN reason
    ELSE IF iteration >= MaxIterations THEN {"max_iterations"}
    ELSE {}

(* Behind the loop: the reason of a break stands, convergence comes before  *)
(* the number of iterations.                                                *)
StopReason(reason) ==
    IF reason # {} THEN reason
    ELSE IF converged # {} THEN converged
    ELSE IF iteration >= MaxIterations THEN {"max_iterations"}
    ELSE {}

Leave ==
    /\ step = "head"
    /\ \E overtime \in BOOLEAN :
          LET reason == IF Looping THEN Exceeded(overtime) ELSE {}
          IN  /\ Looping => reason # {}
              /\ stopReason' = StopReason(reason)
    /\ \E rows \in {Scored(allScored)} : finalists' = Finalists(rows)
    /\ IF finalists' # <<>> THEN GoTo("promote", "promote") ELSE GoTo("final", "progress")
    /\ UNCHANGED <<iteration, converged, totals, data, env, ledger>>

(* propose_next_batch, _enforce_fidelity and _rehash_scenarios.             *)
Propose ==
    /\ Awaits("propose")
    /\ \E proposal \in Batches :
          batch' = [i \in DOMAIN proposal |->
                      Scenario(proposal[i].acts, proposal[i].seed, "cheap", "none")]
    /\ GoTo("loop", "persist")
    /\ UNCHANGED <<loop, totals, outcomes, scored, allScored, optimizer, next, shown, env, ledger>>

Fetch ==
    /\ Awaits("fetch")
    /\ outcomes' = Cached(batch)
    /\ batch' = Pending(batch)
    /\ next' = 1
    /\ GoTo(phase, IF batch' # <<>> THEN "simulate" ELSE "metrics")
    /\ UNCHANGED <<loop, totals, scored, allScored, optimizer, shown, env, ledger>>

Simulate ==
    /\ Awaits("simulate")
    /\ outcomes' = outcomes \o [i \in DOMAIN batch |-> Run(batch[i])]
    /\ GoTo(phase, "metrics")
    /\ UNCHANGED <<loop, totals, batch, scored, allScored, optimizer, next, shown, env, ledger>>

(* One outcome after the other: its metrics, if it has any, are stored, and *)
(* in the loop - not in promotion and robustness tests - its cost is added  *)
(* (a simulation takes one unit of time, of which a cached outcome says     *)
(* nothing; metrics make an outcome larger).                                *)
Storing == step = "metrics" /\ next <= Len(outcomes) /\ DOMAIN outcomes[next].metrics # {}

Count ==
    /\ next' = next + 1
    /\ UNCHANGED <<batch, outcomes, scored, allScored, optimizer, shown>>
    /\ IF phase = "loop"
         THEN /\ compute' = compute + (IF outcomes[next].status = "completed" THEN 1 ELSE 0)
              /\ storage' = storage + (IF DOMAIN outcomes[next].metrics # {} THEN 2 ELSE 1)
              /\ UNCHANGED completed
         ELSE UNCHANGED totals

SkipMetrics ==
    /\ step = "metrics" /\ next <= Len(outcomes) /\ ~Storing
    /\ Count
    /\ UNCHANGED <<control, loop, env, ledger>>

MetricsRead ==
    /\ Storing /\ call.at = "begun"
    /\ call' = [call EXCEPT !.at = "read", !.found = FoundMetrics(outcomes[next])]
    /\ UNCHANGED <<phase, step, loop, totals, data, env, ledger>>

MetricsCommit ==
    /\ Storing /\ call.at = "read"
    /\ ledger' = WithMetrics(ledger, outcomes[next], call.found)
    /\ Advance("committed")
    /\ UNCHANGED <<loop, totals, data, env>>

MetricsReply ==
    /\ Replied("metrics")
    /\ Count
    /\ GoTo(phase, "metrics")
    /\ UNCHANGED <<loop, env, ledger>>

Judge ==
    /\ step = "metrics" /\ next > Len(outcomes)
    /\ scored' = JudgeScoreOutcomes(Mute, Objectives, outcomes)
    /\ allScored' = allScored \o scored'
    /\ GoTo(phase, "scores")
    /\ UNCHANGED <<loop, totals, batch, outcomes, optimizer, next, shown, env, ledger>>

ScoresRead ==
    /\ Awaits("scores")
    /\ ~Ambiguous(scored)
    /\ call' = [call EXCEPT !.at = "read", !.found = FoundScores(scored)]
    /\ UNCHANGED <<phase, step, loop, totals, data, env, ledger>>

ScoresCommit ==
    /\ step = "scores" /\ call.at = "read"
    /\ ledger' = WithScores(ledger, scored, call.found)
    /\ Advance("committed")
    /\ UNCHANGED <<loop, totals, data, env>>

ScoresReply ==
    /\ Replied("scores")
    /\ \/ phase = "loop"    /\ GoTo("loop", "update")
       \/ phase = "promote" /\ GoTo("robust", "perturb")
       \/ phase = "robust"  /\ GoTo("final", "progress")
    /\ UNCHANGED <<loop, totals, data, env, ledger>>

Update ==
    /\ Awaits("update")
    /\ optimizer' = Tell(optimizer, scored)
    /\ GoTo("loop", "record")
    /\ UNCHANGED <<loop, totals, batch, outcomes, scored, allScored, next, shown, env, ledger>>

(* persist_optimizer_step: unique by run and iteration, on conflict nothing.*)
RecordCommit ==
    /\ Awaits("record")
    /\ ledger' = [ledger EXCEPT !.steps = @ \cup {iteration}]
    /\ Advance("committed")
    /\ UNCHANGED <<loop, totals, data, env>>

RecordReply ==
    /\ Replied("record")
    /\ GoTo("loop", "converge")
    /\ UNCHANGED <<loop, totals, data, env, ledger>>

(* The loop is also left if all simulations have failed so far, which the   *)
(* code asks of allScored: it is not empty behind a batch, of which none is *)
(* (WorldAssumption), for failed ones are in it.                            *)
Converge ==
    /\ Awaits("converge")
    /\ converged' = Convergence(optimizer.history)
    /\ completed' = completed + Cardinality({i \in DOMAIN scored :
                        scored[i].status = "scored" /\ DOMAIN scored[i].metrics # {}})
    /\ GoTo("loop", "head")
    /\ UNCHANGED <<iteration, stopReason, finalists, compute, storage, data, env, ledger>>

Promote ==
    /\ Awaits("promote")
    /\ batch' = Promoted("mid") \o Promoted("high")
    /\ GoTo("promote", "persist")
    /\ UNCHANGED <<loop, totals, outcomes, scored, allScored, optimizer, next, shown, env, ledger>>

Perturb ==
    /\ Awaits("perturb")
    /\ \E salt \in Salts : batch' = Perturbed(salt)
    /\ GoTo("robust", "persist")
    /\ UNCHANGED <<loop, totals, outcomes, scored, allScored, optimizer, next, shown, env, ledger>>

(* aggregate_results and persist_run_progress. *)
Progress ==
    /\ Awaits("progress")
    /\ \E rows \in {Scored(allScored)} :
          shown' = {[summary |-> Summary(allScored, rows), candidates |-> Candidates(rows)]}
    /\ GoTo("final", "ended")
    /\ UNCHANGED <<loop, totals, batch, outcomes, scored, allScored, optimizer, next, env, ledger>>

-----------------------------------------------------------------------------
(* Attempts that go wrong. *)
Awaiting == /\ step \notin {"head", "ended", "failed"}
            /\ step = "metrics" /\ next <= Len(outcomes) => Storing

(* Variant: no maximum_attempts. *)
RetryForever ==
    /\ call' = [FirstAttempt EXCEPT !.number = Min({MaxAttempts, call.number + 1})]
    /\ UNCHANGED <<phase, step>>

Retry ==
    IF call.number < MaxAttempts
      THEN /\ call' = [FirstAttempt EXCEPT !.number = call.number + 1]
           /\ UNCHANGED <<phase, step>>
      ELSE GoTo("final", "failed")

(* An exception, a dead worker or a lost reply. *)
AttemptFails ==
    /\ Awaiting
    /\ faults < MaxFaults /\ faults' = faults + 1
    /\ Retry
    /\ UNCHANGED <<loop, totals, data, late, zombies, pack, ledger>>

ScoresRaise ==
    /\ Awaits("scores") /\ Ambiguous(scored)
    /\ Retry
    /\ UNCHANGED <<loop, totals, data, env, ledger>>

(* start_to_close_timeout passes while the attempt still runs. *)
TimesOut ==
    /\ Storing \/ step = "scores"
    /\ call.at \in {"begun", "read"}
    /\ faults < MaxFaults /\ faults' = faults + 1
    /\ zombies < MaxLate /\ zombies' = zombies + 1
    /\ late' = late \cup {[step |-> step, at |-> call.at, found |-> call.found,
                           outcomes |-> IF step = "metrics" THEN <<outcomes[next]>> ELSE <<>>,
                           rows |-> IF step = "scores" THEN scored ELSE <<>>]}
    /\ Retry
    /\ UNCHANGED <<loop, totals, data, pack, ledger>>

LateRead(l) ==
    /\ l.at = "begun"
    /\ IF l.step = "scores" /\ Ambiguous(l.rows)
         THEN late' = late \ {l}
         ELSE late' = (late \ {l}) \cup
                {[l EXCEPT !.at = "read",
                           !.found = IF l.step = "metrics" THEN FoundMetrics(l.outcomes[1])
                                                           ELSE FoundScores(l.rows)]}
    /\ UNCHANGED <<control, loop, totals, data, zombies, pack, faults, ledger>>

LateCommit(l) ==
    /\ l.at = "read"
    /\ ledger' = IF l.step = "metrics" THEN WithMetrics(ledger, l.outcomes[1], l.found)
                                       ELSE WithScores(ledger, l.rows, l.found)
    /\ late' = late \ {l}
    /\ UNCHANGED <<control, loop, totals, data, zombies, pack, faults>>

-----------------------------------------------------------------------------
Work == \/ Generate \/ PersistCommit \/ PersistReply
        \/ Iterate \/ Leave \/ Propose \/ Fetch \/ Simulate
        \/ SkipMetrics \/ MetricsRead \/ MetricsCommit \/ MetricsReply
        \/ Judge \/ ScoresRead \/ ScoresCommit \/ ScoresReply \/ ScoresRaise
        \/ Update \/ RecordCommit \/ RecordReply \/ Converge
        \/ Promote \/ Perturb \/ Progress

Next == Work \/ AttemptFails \/ TimesOut \/ \E l \in late : LateRead(l) \/ LateCommit(l)

(* Temporal goes on delivering tasks; no failure and no late attempt has to *)
(* happen.                                                                  *)
Spec == Init /\ [][Next]_vars /\ WF_vars(Work)

-----------------------------------------------------------------------------
\* simulation_run.py:332-333: "the loop always stops with a stop_reason" - on
\* every way out of the loop, whatever combination of budgets and convergence
\* ends it; without one the finalists were once skipped.  The reason is also
\* true: what it says was reached has been reached.
StopReasonIsTrue ==
    phase \in {"promote", "robust"} \/ step \in {"progress", "ended"} =>
        /\ stopReason # {}
        /\ converged # {} => stopReason = converged
        /\ "max_iterations" \in stopReason => iteration = MaxIterations
        /\ "max_compute_time" \in stopReason => compute > MaxCompute
        /\ "max_storage" \in stopReason => storage > MaxStorage

\* How far a run goes beyond its budgets, told from its rows and not from the
\* counters of the loop.  In the loop the budgets are looked at between batches
\* only, so it goes beyond one by a batch at most, whatever came from the
\* ledger.  The promotion of finalists and their robustness tests come on top:
\* nothing counts them, so nothing ends them, but there are two batches of
\* Replicates scenarios and one test of each mode for a finalist, and no more.
\* (What a repeated attempt computes again leaves no row and is not here.)
AfterLoop == Len(finalists) * (2 * Replicates + Len(Modes))

Simulations == {i \in DOMAIN allScored : allScored[i].given}
Measurements == {i \in DOMAIN allScored : DOMAIN allScored[i].metrics # {}}

OverrunIsBounded ==
    /\ Len(allScored) <= Max({MaxScenarios, BatchSize}) + AfterLoop
    /\ Cardinality(Simulations) <= MaxCompute + BatchSize + AfterLoop
    /\ Len(allScored) + Cardinality(Measurements)
          <= MaxStorage + 2 * BatchSize + 2 * AfterLoop

\* The score that a run ranks an outcome by is the score in the ledger, and
\* the metrics it has are those there (a failed one has none), once
\* persist_judge_scores is through: although attempts fail after their commit,
\* run into each other, and although a scenario may come up again, simulated
\* or cached.  Every row of an instance says the same.
Stored(row) ==
    /\ row.s \in ledger.scenarios
    /\ Rows(ledger.scores, row.s) # <<>>
    /\ ToSet(ledger.scores[row.s]) = {row.score}
    /\ ToSet(Rows(ledger.metrics, row.s)) = {row.metrics[n] : n \in DOMAIN row.metrics}

RankedAsStored ==
    step \notin {"scores", "failed"} =>
        \A i \in DOMAIN allScored : Stored(allScored[i])

\* An instance has one row per metric and one judge score, whatever attempts
\* are repeated, unless two of them ran at the same time.
TwiceOnlyIfOverlapping ==
    zombies = 0 => \A s \in ledger.scenarios :
        Len(Rows(ledger.metrics, s)) <= 1 /\ Len(Rows(ledger.scores, s)) <= 1

\* What a run shows of its best scenario: the summary (aggregate_results), the
\* first candidate (persist_run_progress) and the optimizer's best of the loop
\* are worked out apart and agree.
BestIsShown ==
    \A run \in shown :
        /\ run.summary.best = {run.candidates[i].score : i \in DOMAIN run.candidates \cap {1}}
        /\ run.summary.bestScenario = {run.candidates[i].s : i \in DOMAIN run.candidates \cap {1}}
        /\ \A b \in optimizer.best : \E m \in run.summary.best : m >= b

\* The first finalist has the levers and the seed of a scenario that scored
\* best in the loop.  An outcome from the ledger has lost both, and would be
\* promoted and put to the robustness tests as no levers and seed 0; but its
\* scenario was simulated before and keeps its place ahead of it, among
\* equals, in every list up to the finalists.
BestIsPromoted ==
    finalists # <<>> =>
        \E i \in DOMAIN allScored : /\ finalists[1] = [acts |-> allScored[i].s.acts,
                                                      seed |-> allScored[i].s.seed]
                                   /\ optimizer.best = {allScored[i].score}

\* Whoever names or takes the best scenario of a run means the same: the
\* summary, the candidates, the optimizer and the promotion.
BestAgrees == BestIsShown /\ BestIsPromoted

\* The loop ends, and with it the run: with results, or because an activity
\* has used up its attempts.
LoopEnds == <>(step \in {"ended", "failed"})
=============================================================================
