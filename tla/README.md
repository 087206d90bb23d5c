# A verification project for the simulation platform

The platform takes a prompt, turns it into a decision problem, simulates
scenarios for it, judges them and reports the best. The program is a set of
Python services (FastAPI, a Temporal worker, a PostgreSQL database, Ray and
Redis for simulations, language models behind HTTP) and a Next.js web
application. This directory holds TLA+ models of the parts whose correctness
depends on the order of events, TLC configurations that check them on small
instances, and proofs that the TLA+ proof system checks for every value of the
constants.

    tlc -config <Run>.cfg <Module>.tla     # the runs are listed below
    tlapm <Module>Proofs.tla               # RunLifecycle, RunLoop, SimFabric,
                                           # LLMBreaker, Catalogue, Search,
                                           # Committee, Number

## 1. Inventory

Paths are relative to `src/`.

| Component | State it keeps | Operations | Talks to |
|---|---|---|---|
| **Run lifecycle** - `services/orchestrator/workflows/simulation_run.py`, `activities/persistence.py`, `services/api/routers/runs.py` | row of `runs` (status and the JSON document `run_spec`), `run_stages`, `artifacts` | start, set status, record stage, save spec, persist progress, persist report, rename, archive, mark failed | Temporal (retries), database, browsers |
| **Run stream** - `runs.py` `stream_run`, `apps/web/src/hooks/useSSE.ts`, `store/index.ts` | stages sent last; the browser's copy of the run | poll, end, break, adopt, reconnect | the `runs` row |
| **Scenario ledger** - `persistence.py`, `pipeline.py` | `scenarios`, `scenario_instances`, `metric_results`, `judge_scores` | persist batch, reuse a cached outcome, persist metrics and scores, promote finalists | simulation, judge |
| **Optimization loop** - `simulation_run.py` 163-334, `workflows/optimization_loop.py`, `activities/optimization.py` | iteration, completed simulations, budget flags, score history, stop reason | generate, simulate, score, tell, check convergence | scenario ledger, optimizer |
| **LLM client** - `services/common/llm.py` | per provider: failures in a row, cooldown | order a tier's providers by health, try each, mark the outcome, probe | providers over HTTP |
| **Optimizer service** - `services/optimizer/` | evaluations, bandit arms, best so far | ask, tell, stop, allocate fidelity | optimization loop |
| **Simulation fabric** - `services/sim_fabric/` | Ray workers, Redis cache | submit, execute, cache | domain packs |
| **Scenario generation** - `activities/pipeline.py`, `simulation.py` | none | sample, grid, promote, perturb | packs |
| **Judge** - `services/judge/` | none | score against a rubric | ledger |
| **Evidence service** - `services/evidence/` | claims, packs, vectors | add claim, verify, search | API |
| **Mixture of experts** - `services/api/moe/`, `activities/moe.py` | none between calls | route, run experts in parallel, merge, select, escalate | LLM client |
| **Pack creation, formalizer** - `activities/pack_creation.py`, `formalizer.py` | none | prompt to objectives, rubric, pack | LLM client |
| **Domain packs, registry** - `compute/domain_packs/` | registry of versions | register, look up, simulate | fabric |
| **API auth, admin, schema** - `services/api/auth.py`, `routers/admin.py`, `db/models.py`, `alembic/` | tables, audit events | who is calling, what may he do, generic create, update, delete; migrate | database |
| Ledger library, contract, report builder, worker start-up, web pages, scripts | - | hashing, data classes, PDF layout, rendering, seeding | - |

The parts meet in the database. The API inserts a run and starts a Temporal
workflow from a background task of its own process; the workflow runs
activities on a worker, and the activities write the same row that the API
shows, renames, archives and, when its await of the workflow raises, marks
failed. Browsers poll the row through a server-sent event stream.

What is hard here, and what makes each part correct:

* **Unlocked read-modify-write.** Every writer of `run_spec` loads the row,
  changes a copy of the document and commits the whole of it. Correct would be:
  nothing shown that never happened, nothing lost that was stored.
* **At-least-once activities.** A failed attempt is retried; an attempt past its
  `start_to_close_timeout` is retried while it still runs; a result may be lost
  after the commit. Correct: "completed" only with a report behind it; one
  verdict; a bounded number of artifacts.
* **Two ways to a verdict.** The workflow writes one; the API's background task
  writes "failed" when the await raises. Correct: a completed run stays so, a
  failed one is explained, every run gets a verdict.
* **A process that dies.** The background task is lost with the API process.
* **Polling and reconnecting.** The stream is a difference of what the row shows
  now and what was sent last, on connections that break. Correct: the browser
  shows only what has happened and learns the verdict.
* **Shared health of providers.** Concurrent LLM calls read and mark a shared
  circuit breaker. Correct: a call reaches a provider that is up; a provider
  that has recovered is used again.
* **A loop with several exits.** Budgets, limits, convergence. Correct: it ends,
  says why, and stays within its budgets.

* **Answers of experts, asked in parallel.** Any of them may be missing,
  malformed or late. Correct: nothing reported that nobody said; a provider that
  is down degrades the report and does not lose it.
* **A shared cache and a pool of workers.** Results are found by hash, workers
  die, services are away, and there are two ways to run a batch. Correct: a
  result is of the scenario it is given out for, with one verdict whichever way
  it came.
* **One schema written twice, one trail of edits.** Correct: the migration
  builds what the models declare; the audit trail tells what happened to the
  rows of the org it belongs to.

`PROJECT.json` lists each hazard at its line with the properties that cover it,
and says of the six without one why they have none.

## 2. The modules

| Module | Models | State | Actions |
|---|---|---|---|
| `RunRecord` | the `runs` row and what each writer does to `run_spec` | - (operators) | - |
| `RunLifecycle` | the workflow, its activities and their attempts, the API's background task, rename and archive | `row`, `stageLog`, `reports`; `wf`, `call`, `late`; `waiter`; `edits` | one per load, commit, retry, timeout, crash |
| `RunPromise` | what a run promises (abstract) | `verdict`, `published`, `explained` | publish, explain, complete, fail |
| `RunStream` | event generator and `useSSE`, on top of `RunLifecycle` | `conn`, `seen`, `ui` | poll, end, break, adopt, reconnect |
| `Orders` | sorting, filtering and adding up, as Python does, without recursion | - (operators) | - |
| `RunScoring` | scoring, ranking and summing up the outcomes of a run | - (operators) | - |
| `RunLoop` | the working part of the run's workflow and its ledger | where the workflow is, its counters, reasons and rows; the attempt and the late ones; `ledger` | one per activity that computes, three per activity that writes |
| `SimFabric` | batches on Ray actors with a shared cache and artifact store | per process its batch, per actor its work, `cache`, `store` | submit, look, simulate, store, save, gather, fall back, die, restart, expire |
| `Schema` | the tables, as `db/models.py` and as `0001_initial` have them | - (operators) | - |
| `Catalogue` | the migrations and the admin requests | `schema`, `rows`, `audit`, `request` | upgrade, downgrade, seed; begin and commit of create, update, delete |
| `Pareto`, `SearchConstraints` | Pareto order, selection, hypervolume; constraints | - (operators) | - |
| `Search` | the optimizer service, its back ends and drivers | `candidates`, `population`, `rules`, `purse`, `surrogate`, `history`, ... | propose, evaluate |
| `Arbitration` | merging and selecting experts' answers | - (operators) | - |
| `Committee` | routing, experts asking models, report, attempts | `task`, `attempt`, `heard`, `report` | run, answer, raise, overrun, conclude, arbitrate |
| `LLMRouting` | provider chain of a tier | - (operator) | - |
| `LLMBreaker` | the breaker and the calls that share it | `left`, `streak`, `up`, `calls` | begin, look, answer, mark, tick, flip |
| `RunLifecycleProofs` (with those of `RunPromise` and `RunStream`), `RunLoopProofs` (with what the operators of `RunScoring` return), `SimFabricProofs`, `LLMBreakerProofs`, `CatalogueProofs`, `CommitteeProofs`, `SearchProofs`; `NumberProofs` (induction, minima, sums, orders, flattening) below four of them | theorems | | |
| `MCRunLifecycle`, `MCRunStream`, `MCRunLoop`, `MCSimFabric`, `MCCatalogue`, `MCSearch`, `MCCommittee`, `MCLLMBreaker` | instances for TLC | | |

How they hang together: `RunStream` extends `RunLifecycle`, which implements
`RunPromise`. The optimization loop is one `Work` entry of `RunLifecycle` - it
succeeds or fails - and `RunLoop` is what is inside. The simulations of `RunLoop`
are any function from a scenario's seed to an outcome; `SimFabric` is how such
an outcome comes back. A model's answer in `Committee` is a reply, none, or an
exception: what a call of `LLMBreaker` may end with.

### Run lifecycle

The workflow's code is data: `Opening`, `Finals`, `Judging`, `GivingUp` and
`Reporting` are the activities that `SimulationRunWorkflow.run` awaits, in order,
and `Following` is its control flow. A stretch of activities that do not write
the row (formalizing, the whole optimization loop, promotion) is one `Work`
entry: it can fail like any other. Whether some simulation of the run gets a
score is chosen at the start (`scored`): finalists exist exactly if one did
(`_select_top_scenarios` keeps those with a score), and then `completed` of
`aggregate_results` is not zero.

An attempt at an activity goes through `begun`, `loaded` and `done`;
`record_run_stage`, `update_run_spec`, `persist_run_progress` and
`persist_report_artifact` load the row in one step and commit in a later one,
`update_run_status` is one UPDATE. `persist_report_artifact` inserts the
artifact after it: its PDF half may be abandoned at any point (`CallSkipPdf`,
the `except` of line 699), its insert is a commit of its own. `CallFail` covers
an exception, a dead worker and a lost result, before or after any of these
steps; `CallTimeout` leaves the attempt running (`late`) while the next one
starts. After `MaxAttempts` attempts the workflow raises.

`WithStage`, `MergeSpec`, `WithProgress`, `WithReport`, `WithTitle`,
`WithArchive` and `WithError` are what the writers do to the document they
LOADED; the commit stores the result whole. `FlushStatus` is the one thing the
ORM does for them: a column assigned the value it was loaded with is not in the
UPDATE, which decides whether a late `_mark_run_failed` or archive changes the
status.

### Run stream

`Poll` is one iteration of `event_generator` with its comparison against
`last_stage_status` (`seen`); `Updated` is `updateRunStage` of the store, which
drops a stage it does not have. `Break` delivers any part of the news. The hook
then asks for the run once (`Adopt` or `Reconnect`). `archived` does not end
the stream, as in the code.

### Run loop and ledger

`phase` and `step` say which activity `SimulationRunWorkflow.run` awaits: the
first scenarios, the loop (`main`: propose, fetch, simulate, metrics, judge,
scores, update, record, converge), promotion, robustness tests, summary. An
activity that only computes is one action (`Propose`, `Simulate`, `Judge`,
`Converge`, ...). One that writes the ledger begins, commits and replies, so that
an attempt can fail after its commit; `persist_metric_results` and
`persist_judge_scores` also read first and insert later (`MetricsRead`,
`MetricsCommit`, `ScoresRead`, `ScoresCommit`), as there is no unique constraint
behind them. `TimesOut` leaves an attempt running that reads and commits at any
later time (`LateRead`, `LateCommit`). Two rows where one is expected make
`scalar_one_or_none` raise (`Ambiguous`, `ScoresRaise`).

A pack is a function from seeds to outcomes, chosen at the start; a proposal is
one of a few batches with levers and seeds, so that scenarios recur and are
cached (`Cached`, `Pending`: an instance with a metric row is not simulated
again). `Exceeded` are the three budgets in the order the loop looks at them,
`StopReason` the lines that make up a reason afterwards. `RunScoring` is
`judge_score_outcomes` with its three sources of weights, the ranking, and
`aggregate_results`. `Perturbed` takes `hash(mode) % 997` from `Salts`.

### Simulation fabric

A client is a worker process with a batch; `Submit` deals its scenarios out to
its actors in turn, `Gather` is `ray.get` over all of them, `FallBack` the
`except` that runs the whole batch in the process. An actor looks into the cache
(`Look`), simulates in the isolation mode (`NoIsolation`, `Subprocess`, or one
that raises), stores the artifact and saves the result (`Simulate`, `Store`,
`Save`), each a step of its own, since the actors of two processes may have the
same scenario at hand. `Outage` is a client of Redis or MinIO that does not
answer: each of them has its own `except`. `Die`, `Restart` and
`Expire` are the faults and the age of entries.

### Schema and catalogue

`OrmTables` is read off the classes of `db/models.py`, `UpgradeSteps` and
`DowngradeSteps` off the migration, column by column as far as references,
nullability and unique constraints go. `Upgrade` and `Downgrade` run one step
each and need what PostgreSQL needs: the tables referred to exist, or nothing
refers to the table any more.

A request is two steps, for the handler loads its row before it writes:
`BeginUpdate` and `BeginDelete` resolve the caller (`Contexts`: demo user or
member), check the permission and load the row of the caller's org; `Create`,
`Update`, `Delete` flush it with the audit event, or roll back when a constraint
does not hold. `Flushed` is the ORM again: only changed columns are written.

### Optimizer service

`Orders` has what the modules of operators sort and filter with: a member's place
is the number of those ahead of it (`Ordered`), equals stay in their old order
(`RankedBy`), as with Python's `sorted`. `Search` has both drivers. `LoopProposes` is `UnifiedOptimizer.propose` (or that
of the Bayesian and evolutionary back ends): the bandit picks a fidelity the
purse may pay for, the hybrid splits the batch between surrogate and evolution,
hard constraints filter, and random points fill it up. `HarnessProposes` is the
benchmark harness with its fixed budget. `Evaluate` is the whole of `update`:
candidates, population, surrogate, bandit, stopping rules and, in the harness,
the measures. `Fronts` places a point behind its last dominator, `Parents` fills the
population front by front, `Hypervolume` is the sweep over the frontier of the
rows within the reference, and `Record` hands it the frontier of the archive, as
`harness.py` does. What a Gaussian process or a mutation draws is any point of the
box; what `evaluate` returns at a fidelity is part of the instance. `Check` is
`StoppingCriteria.check` in its order.

### Mixture of experts

`Run` starts an attempt: every expert on the route (`Routed`) makes its calls
(`Legs`: one, or one per provider for an ensemble). `Answer` is one reply, in
any order: JSON with drivers, JSON with a null for a list, text without JSON, no
answer, or an exception of the client. `Raise` is the reply that fails the
attempt (`Raises`), `Overrun` the activity's time limit, `Conclude` the report
over the experts' contracts (`Output`, one operator per expert), `Arbitrate` the
engine on contracts given directly. `Arbitration` holds the majority of
assumptions and benchmarks, the weighted merge of scenarios, the tournament and
the escalations.

### LLM client

`LookHealthy` and `LookCooling` are the two list comprehensions of
`_order_by_health`, one step per element, for the lock is released in between.
`Answer` is the request (`up` is whether the provider answers with text before
the client's timeout), the marks are steps of their own. Cooldowns are kept as
the time left, so `Tick` is the clock. A leg of `ensemble`, or a probe of
`preflight`, is a call with one provider and no look (`BeginLeg`).
`MarkOverflow` is `_mark_failure` when `2 ** (streak - 1)` no longer fits in a
float. `due[c]` is a history variable: it holds the providers of the chain that
have been up since call `c` began and whose cooldown has not ended while `c` was
looking.

## 3. Runs

| Run | Instance | Shows |
|---|---|---|
| `LifecycleRetries` | 3 attempts (the real limit), 9 faults | With nobody else writing, a run keeps all of `RunPromise` - safety and liveness - whatever attempt fails or is lost: everything shown at completion, a failed run explained, "completed" final, a verdict in the end |
| `LifecycleEdits` | 2 attempts, 2 faults, 1 rename or archive | No stage is shown that was not recorded, and "completed" stands (or is archived), wherever the edit's load and commit fall |
| `LifecycleLate` | 2 attempts, 1 fault, 1 late attempt, API crash, lost contact | A report behind every "completed", even with zombie writers and a premature "failed" |
| `StreamWatch` | 1 fault, 1 broken connection | The browser shows only what was recorded, its completed run is the final one, it learns the verdict |
| `LoopRuns` | batches of 2, budgets of 6 scenarios, 2 units of computing and 7 of storage; 3 attempts, 2 faults, 1 late attempt | The stop reason is true, budgets are overrun by a batch of the loop and by what promotion and robustness add, a run ranks by what the ledger says, second rows need an overlap, summary, candidates and optimizer agree on the best, the best is promoted with its levers and seed, the loop ends |
| `FabricBatches` | 2 processes with 2 actors each, 2 batches between them, 1 fault | A result is of its scenario, has the pack's verdict whichever way it came, a cache entry keeps its verdict, the batch comes back |
| `AdminRequests` | the repository's schema; 3 requests, 2 at a time, 2 users, 2 orgs | The migration builds the models' tables and can be undone, constraints hold, the audit trail replays to the rows, no trail tells of another org's rows |
| `SearchRuns` | 4 points, batches of 2, up to 5 iterations, 9 settings | A search stops for the reason it gives and as soon as it holds, its books agree, the surrogate ranks as its evaluations do, frontier and selection are Pareto's, hypervolume counts cells, every search ends |
| `CommitteeRuns` | 3 providers, 2 drivers, 3 attempts; every stage at low and high stakes; panels of up to 3 contracts | Nothing fabricated, failures only on bad replies, disagreement follows the stakes, the selection is the top, the committee ends |
| `BreakerCalls` | 2 calls at a time, 3 in all, 2 providers, cooldowns 1, 2, 2 (capped), limit 4 | Cooldowns stay bounded and accounted for; a call fails only if nobody it could count on was up |

Two runs show where the code does not do what its comments say; each is a
finding in `PROJECT.json`, with the line.

| Run | Statement | Violated because |
|---|---|---|
| `ResultsLost` | results are shown "for a completed run" | a rename that loaded before `persist_run_progress` commits the old document after it |
| `StuckRunning` | no run is left "running" for ever | the background task dies with the API process |

### Bounds, and why they are enough

* `MaxAttempts = 3` is the code's. With 9 faults three activities can use up
  their attempts, which is one more than a run needs to fail and to fail again
  while giving up.
* One late attempt, one edit: each is one unlocked read-modify-write against the
  run's own writes, which is already one more writer than the code expects. The
  theorems cover any number.
* `scored` and every activity's failure are free, so both endings are reached.
* In `LoopRuns` three proposals share one scenario between them, and their seeds
  repeat modulo the pack's domain, so that scenarios recur within and between
  batches; packs fail always, sometimes or never, and may complete without a
  metric; each of the three budgets, convergence (a window of 4 for the code's
  20) and the iterations can be what ends the loop. Two faults, one of them a
  timeout whose attempt runs on, are what a second row needs.
* `FabricBatches` has one scenario of each kind (good, infeasible, raising, not
  a number) and batches of one and two on pools of two, so that a batch is dealt
  to both actors; the two processes meet in the cache. One fault, at any place.
  The two batches may be of one process - the second is then dealt to a pool
  with a dead actor, or with tasks of a batch given up still in its queues - or
  of both at a time.
* `AdminRequests`: two requests at a time are the least that interfere, the
  third may use what they left. An org, a resource that belongs to it and one
  that refers to both are the shapes of reference there are. The downgrade is of
  an unseeded database.
* `SearchRuns`: each engine under each driver; limits so that each reason to
  stop is given in some setting; constraints that reject some points, and so
  many that batches must be filled; cheap simulations that are biased or measure
  one objective only. Prices are 1, 2 and 5 for the code's ratios.
* `CommitteeRuns`: stakes below and above the 0.8 where routing and escalation
  change; three providers are the least with a majority in an ensemble.
* In `BreakerCalls` streaks reach the limit and the cap; two providers are the
  least with a fallback, and two calls the least that interfere. Three calls in
  all, because without that bound only the same histories repeat. The limit of 4
  stands for 1025: what is below it behaves the same.
  One tier's order is enough: nothing in the code depends on
  a provider's name, and legs try the providers in any order; both tiers' orders
  together pass as well, in three times the states.
* Deadlock is not checked where a run, a search, a batch or the calls of a
  bounded instance simply end.

### Fairness

Weak fairness of the worker's steps, of the background task and of a request's
commit: Temporal keeps delivering tasks and the event loops run what they were
given. Faults, crashes, users and late attempts owe nothing. An answer of
a model, or its absence, comes because the client has a timeout.
The stream's poll runs every second, and a browser that lost its connection asks
again; that it loses it for ever is excluded by the bound on drops. `RunLoop` is
fair to the workflow (`Work`), `SimFabric` to each process with its actors
(`Goes`: an actor that lives works through its queue, and `ray.get` sees one
that has died), `Search` to the driver's loop, `Committee` to answers, their
absence included, and to the report once all are in, but not to the time limit.
The fairness of `Search` and `Committee` is about the variables that such a step
always changes (`pc`, and what was heard). `Catalogue` and
`LLMBreaker` claim no liveness.

## 4. Proofs

The proof modules hold for every value of the constants that satisfies the named
assumptions. `BoundsAssumption`, `ChainsAssumption`, `BreakerAssumption`,
`LoopAssumption`, `FabricAssumption`, `CatalogueAssumption`, `CommitteeAssumption`
and `SearchAssumption` give the ranges of the constants: `audit_events` is not
among the resources requests are about, a population is of two at least, a
contract's confidence and an idea's priority are percentages. What the others say of the world is:

* `HashAssumption` - scenarios of one hash have one id and behave alike;
* `WorldAssumption` - a proposal has at most `BatchSize` scenarios
  (`optimization.py:66` proposes `range(batch_size)`), and a pack's answer is
  completed with metrics or failed without (`simulation.py:198-222`);
* `SettingsAssumption` - outcomes are integers where they are given at all, a search
  has finitely many constraints, and the harness makes none;
* `AxesAssumption`, of `VolumeCounts` alone - there are two objectives. With more
  of them `metrics.py` samples, and that is not modelled;
* `SeedsAssumption` - the seeds are rows that satisfy the constraints;
* `DirectoryAssumption` - a membership has an org (`memberships.org_id` is not
  null).

Operators that count, sort and sum go over sequences of any length. The prover
has no induction, but the library says that strict inclusion among finite sets is
well-founded: from that a set of numbers has a least one (`Least`), and what holds
of 0 and goes on from each number to the next holds of all (`Climbing`). Folds and
`FlattenSeq` of the community modules are recursive functions; they are unfolded by
`Climbing` first (the function exists and satisfies its equation), then what they
keep is carried along it by `Climbing` again. The chains of `Fronts`, `Parents`,
`Survivors` and `Swept` are functions on `0..n` and are handled in the same way.

* `TypeCorrect` - the types, which carry the fact that nobody writes back a row
  it has not loaded.
* `ShownStages` - a shown stage was recorded, for any number of attempts, late
  attempts, edits and crashes. Not inductive by itself, since an old copy of the
  row may be written back: `AllShownStagesWereLogged` says the same of every
  loaded copy. It is kept because the history only grows.
* `ReportFirst` - a report behind every "completed", for the same processes. The
  strengthening `ReportIsEarned` ties an attempt's place in the code to the
  database: who is past the report's insert has a report row, who is past the
  last stage has its record. It holds of late attempts, too, for their place was
  once the workflow's.
* `CompletedIsFinal` - "completed" is followed by "archived" at most, assuming
  `MaxLate = 0` and no lost contact. With either, a premature "failed" may be
  followed by "completed", or a zombie may write an older status; the assumption
  is needed. `OneVerdict` says that the background task is busy with the row only
  when the workflow is not, and that a run completed while the workflow is still
  open is at its last activity.
* `FailsExplained`, `KeepsPromise` - assuming `MaxLate = 0`, `MaxEdits = 0` and no
  lost contact: a failed run has its error, and every step of the workflow and
  the background task is one of `RunPromise` or none. `Alone` says that whoever
  may write the row back holds the row there is (`HoldsTheRow`), and by the
  workflow's place which verdict and which error the row can have
  (`TellsThePlace`): "running" up to the three entries that give a verdict, the
  error from the first entry of giving up on. `LifecycleLate` and `ResultsLost`
  show what becomes of it without the assumptions.
* `ShowsResults` - under the same assumptions a completed run shows its
  objectives, results, report and stages. `Filling` numbers the 35 entries on the
  way to "completed" (`Position`) and says what the document holds before each;
  `End` is where a stage is recorded as completed.
* `ViewWasLogged` - the browser shows what was recorded, with edits, late attempts
  and any number of broken connections: a watched run is a run (`WatchedRun`), so
  that `ShownStages` holds of it, and what the browser has was shown once.
* `ViewIsFinal` - the run a browser stops with is the run that stays, when nobody
  else writes: a completed row is at rest (`CompletedRests`), the repeated last
  UPDATE included.
* `StopsForAReason` - a run that goes on to its finalists has a reason to stop,
  and the reason is true. `SInv` adds where the workflow can be (`Control`) and
  that the iteration count has not passed its limit and the loop goes on only
  below it (`Counted`): a loop that runs out without a reason is at
  `MaxIterations` exactly, which is the reason made up for it.
* `OverlapsAlone` - no metric row and no score twice without an overlap. `LInv`
  adds that what an attempt has found is what the ledger still holds, as long as
  nothing has run late (`Undisturbed`); inserting what was not found then keeps
  every instance at one row at most.
* `RankedAsLedger` - what a run ranks by is what the ledger says. `TInv` says that
  every outcome, row and score in the workflow, in the ledger and in the hands of
  a late attempt is the one that the run's pack and objectives give its scenario
  (`TrueOutcomes`, `TrueRows`, `TrueLedger`, `TrueLate`), so that it does not matter
  which attempt wrote it, how often, or in which order. `PInv` says that it is
  there: what an attempt found stays, since the ledger only grows, and what has
  been scored is stored or `Underway`. Both rest on lemmas about `RunScoring`: scores are
  numbers, and the mean over an outcome's metrics does not depend on where it
  stands.
* `BestIsAgreed`, from `BestIsFirst` and `BestGoesForward` - whoever names or takes
  the best means the same.
* `BestIsFirst` - summary, candidates and optimizer agree. `BInv` says that the
  optimizer's best is among the scores of rows, and what is shown is worked out
  from the rows; that the first of a ranking has the greatest score is a lemma
  about `Ranked`, which holds of every order that puts the better row ahead.
* `BestGoesForward` - the first finalist has the levers and seed of a
  best-scoring scenario of the loop. That the best is ranked first is not
  enough, for an outcome from the ledger has lost both. `DInv` says that whoever
  has metrics in the ledger was simulated, that a row of this simulation stands
  before every row that came from the ledger (`Origins`), and that the
  optimizer's best is not below any score (`Topped`). Ranking is stable, and
  equals of one scenario score alike (`TInv`), so that the first of the best
  rows knows its levers.
* `OverrunBounded` - how far a run goes beyond its budgets, told from its rows.
  `Count` adds in the loop only, as the code does; `budget_consumed`, which the
  code works out at the end, holds promotion and robustness too. `OInv` follows
  a batch through its pass of the loop: it begins within the budgets
  (`Spending`), and what has been spent since goes with the outcomes gone
  through, of which there are no more than `BatchSize`. `RInv` says that the
  rows are covered by those counters (`LoopRows`, by adding up the rows of one
  batch after the other, `HitsJoined`) and adds, once the loop is over
  (`RowsBy`), the two batches of replicates and the tests of each finalist,
  which no budget ends. Attempts that fail and are repeated leave both as they
  are.
* `OwnAnswers`, `OnePath`, `VerdictStays` - whose result is whose on the fabric.
  `Own` follows a result through all the places it can be at: in an actor's hands
  it is what the pack says of the actor's task (`ActorOk`), in the cache what the
  pack says of every scenario with that hash (`CacheOk`), in a batch an answer to
  the scenario at its index (`ClientOk`). That a task of a batch given up cannot
  answer a later one is `Handed`: its number is smaller than that of the batch at
  hand. A batch dealt out in turn gives every actor tasks of that batch
  (`Dealt`).
* `SimFabricProofs!TypeCorrect` - a task has one answer at most. `Typed` adds to
  `Own` that a future holds one value, settled by one of the ways in which a task
  ends (`Answered`), and that an actor has a task and a result exactly while it
  works (`Manned`).
* `BreakerTypeCorrect`, `CooldownFits` - cooldowns stay within the maximum and
  within what the streak accounts for. Needs that `Cooldown` grows with the
  streak; powers of two are handled as numbers of subsets, the only fact about
  them the provers know.
* `FailureIsEarned` - a call fails only if nobody it could count on was up. The
  invariant (`OnTheWay`) follows each due provider through the call: still
  cooling or in the order behind the first pass, in the order behind the second,
  ahead of the current attempt while trying. That a failure never ends a cooldown
  (`CooldownFits` again) is what keeps it across other calls' marks.
* `OwnTrail` - no org's trail tells of another's rows. `IInv` says that rows have
  the columns of their table (`RowsOk`), that a request about a scoped row is in
  the caller's org and loaded its row there (`RequestsOk`), and the same of the
  events written (`AuditOk`). A row never changes its org, since that column
  cannot be set, so that what was checked on loading is true on writing.
* `CatalogueProofs!TypeCorrect` - rows satisfy their constraints. `Constrained`
  says so of every row at all times: a commit checks its own row, and does not
  break another's, because what a row is held to (`RestFits`) does not depend on
  what is written, ids are not given twice, and a row that is referred to does
  not go.
* `TrailReplays` - the trail, replayed over the seeds, gives the rows. Besides the
  invariant of `OwnTrail` it needs that a row is a record of its columns and of
  nothing else (`Whole`), and so is one about to be created (`Prepared`); that
  events start with the seeds (`Fresh`: nobody is allowed anything before there is
  an org); and for an update, that replaying the columns that changed from the
  event's stale `before` gives what the flush, which compares with the same
  `before`, wrote.
* `CommitteeTypeCorrect`, `FailureIsBadReply`, `DriversAreNamed` - what was heard
  are replies to the calls of this attempt (`HeardOk`), a report is the one over
  what was heard (`ReportOk`), and of a contract the drivers are among those
  named (`OutputIsHonest`, one case per expert).
* `StakesDisagree` - the stronger model is asked for at high stakes, if anything
  was assumed, and then nothing is agreed on. It follows from `ReportOk`: a panel
  is one expert, or up to three of which the critic and the red team assume
  nothing (`PanelIs`, `OutputIsBrief`), so that an assumption is stated once
  (`FlattenFirst`) where one or two are required (`RequiredIs`).
* `SelectionTops` - what is selected is on top, none of it twice, and as much as
  there is room for. `Asked` says that a report is made of the contracts it
  lists, those of a task or those given; the rest is about the operators. The
  merge orders ids by the quotient of two sums and compares crosswise, so that
  transitivity of `Preferred` has to be shown with positive divisors (an id
  without weight is worth nothing, `PreferredIs`). The tournament sets the best
  against the worst, the second against the last but one and so on, so that its
  winners are the better half in order; of them those are picked that were
  proposed.
* `Stops` - a search stops for the reason it gives and in time. `Inv` adds to
  the types that a loop that goes on has not reached its limits or is below
  `min_iterations`, that each round adds a batch at most (`Going`), and that the
  harness does not propose more than its budget has left; `InTime` is the
  arithmetic of one more round. That no reason is passed over, plateau and
  convergence included, is what one call of `Check` after each round gives. The
  clock and the confidence, which are reasons too, are not modelled: nobody sets
  a time, and no caller passes a confidence.
* `SurrogateKeepsOrder` - what is nowhere worse is never valued less. `Trained`
  says that the surrogate was made from all evaluations by one draw of weights.
  Normalising divides by the spread of an objective, then values are weighted,
  the greatest is taken and all are added up: each keeps the order of two rows
  of which one is nowhere worse (`DivisionKeepsOrder` and the lemmas after it).
* `BooksBalance` - bandit, stopping rules, surrogate and candidates agree. The
  property itself is almost inductive: `Books` replaces "nothing is better than
  the best" by "the best is the extreme of all scores", and the extreme of more
  scores is that of the old extreme and the new ones (`ExtremeOfMore`).
* `SelectsPareto` - frontier and parents are Pareto's, for any number of
  objectives. `Chosen` ties the frontier to the population: it is worked out of
  the whole of it in every round. A point is in a front by as many steps as it has
  dominators at most (`AllPlaced`: otherwise one could go down for ever), so the
  fronts hold everybody, and a parent of front `k` has its dominators in earlier
  fronts, which were taken whole (`ParentsAre`). Crowding decides who is taken of
  the last front only (`LeastCrowdedIs`); nothing but its being a number is
  needed.
* `VolumeCounts` - the hypervolume is the number of dominated unit cells, for two
  objectives. Dropping dominated rows drops no cell, though rows are dropped one
  after the other against those still kept (`SurvivorsAre`: every row keeps one
  that is nowhere worse); the sweep has counted, after each row, the cells that
  the rows so far reach, and remembers the lowest of them on the other axis
  (`SweptIs`). `Recorded` carries it along the history.

Model-checked only:

* liveness (`Settles`, `UiLearnsVerdict`, `LoopEnds`, `BatchReturns`,
  `SearchEnds`, `CommitteeEnds`, and of `ImplementsPromise` its
  liveness), which the prover cannot do;
* `MigrationBuildsModels`: it uses `ENABLED`, and it is about the one schema that
  the repository has, of which TLC goes through every state.

## 5. Not modelled, and observations

Not modelled:

* **Judge service** (`services/judge/`): nothing of a run calls it (a run's
  scores are `judge_score_outcomes`'s); it is arithmetic over one request.
* **Scenario generation, packs, Gaussian processes, samplers**: numerics. What
  they return is any of a few values wherever it enters.
* **Evidence service, pack creation, formalizer, prompts**: text, parsing and
  embeddings.
* **`OptimizationLoopWorkflow`**: it is registered with the worker, and no code
  starts it.
* **Report layout, web pages, scripts, container configuration.**
* Of the modelled parts: the counters and candidates of the stream, which travel
  as stages do; `useRunSnapshot`; surrogate training and the ledger's events;
  reading, paging and value checks of the admin API, and `audit_events` as a
  resource of its own; traces and metrics of the fabric; Monte-Carlo hypervolume,
  confidence and explanations of the optimizer; the committee's cost tiers.

Seen while reading, with no run of its own.

Run:

* An archive made while a run works is undone by the workflow's next
  `update_run_status`, although `delete_run` says that the run "no longer appears
  in history".
* `_PROGRESS_KEYS` lacks `summary` and `narrative`: the failure path's
  `_save_spec` drops both, although `update_run_spec` "must not overwrite"
  progress. It also restores the title of `start_run`.
* Status "failed" is set before the judge stage is recorded, so that a stream
  that ends in between leaves the pipeline "out of sync".
* `seal_run` returns `sealed: True` and changes nothing; a completed run can
  still be renamed and archived.
* Transitions within one second are coalesced by the event generator, although
  its comment wants every one emitted. An archived run is polled until the cap
  of 7200 iterations.
* `cancel_run`, `pause_optimization` and `resume_optimization` set a status
  nobody looks at (`HOW_IT_WORKS.md:169` lists "Manual cancellation").

Loop and ledger:

* The scenarios generated first are persisted and never simulated.
* The break for a loop in which every simulation fails can not be reached, and
  "max_scenarios" is given as a reason only for a budget of zero or less. A
  budget below the batch size is overrun by the first batch; a batch size of
  zero is a `ZeroDivisionError`.
* `metric_results` and `judge_scores` have no unique constraint. Two overlapping
  attempts leave two rows, and `persist_judge_scores` then raises for good
  (`persistence.py:565-571`).
* A failed simulation is stored with a score of 0.0.
* A cached outcome comes without state, actions and seed: a finalist promoted
  from one has no levers and the seed 0. The best of a run is spared this by the
  order of the lists (`BestAgrees`). A candidate's fidelity is always
  "cheap". `budget_consumed` counts promotion and robustness runs.
* Promotion adds to a seed that may be 2^31 already, over the Integer column;
  `hash(mode)` differs from worker to worker, so a retried attempt makes other
  robustness scenarios.
* The weights of a rubric take no notice of an objective's direction.

Fabric:

* The in-process path does not ask for feasibility; an unknown fidelity fails on
  the fabric and means "mid" in process.
* A pack the actor lacks makes an unisolated actor raise, and with it the whole
  batch falls back. Ephemeral packs never load on the fabric.
* A dead actor keeps its place in the pool. Failures are cached for seven days.
  Results of subprocess isolation are not scored. Cached results carry the ids
  of whoever filled the cache. `ray.get` blocks the event loop of the worker.

Catalogue:

* The admin payload's `metadata` is lost without a word (the attribute is
  `metadata_`). A deletion that two requests make at the same time succeeds
  twice, with two events. The `before` of an event may be stale. An org with
  audit events can not be deleted. `_load_permissions` does not look at the
  membership's status.

LLM client:

* The 1025th failure in a row raises `OverflowError` out of the loop over
  providers, although `LLMError` is for when "every configured provider failed".
* `preflight` says that empty content "is not a failure" (`llm.py:616-618`), but
  `_call_sync` raises for it, and the provider is marked as failed.
* A provider can be skipped altogether by a call during whose ordering its
  cooldown ends: the exception in `FailsOnlyIfNoneCouldAnswer`.

Optimizer:

* It is used by `scripts/run_benchmark.py` and tests only. No limit is looked at
  before `min_iterations`; the purse may go negative and stops nothing; the
  bandit is told what was spent as what remains.
* A soft penalty is subtracted from every objective, which improves a minimised
  one (`constraints.py:15`). A hard constraint on a metric rejects nothing, or
  everything, when proposing, for there are no metrics yet, and nothing
  afterwards (`constraints.py:14`): `get_best` may return a violator.
* The frontier shows the first candidate with a point's parameters, perhaps one
  of an older and cheaper fidelity. The hybrid's surrogate draws the same random
  numbers on each proposal, and its initial population is never proposed.
* `EvolutionaryBackend` loops for ever with a population below 2, which
  `SearchAssumption` excludes.

Committee:

* Disagreement and uncertainty are one number. At high stakes the critic and the
  red team join, an assumption of one expert in three has no majority, and the
  disagreement is 1 though nobody disagreed: the stronger model and the finer
  simulation are asked for each time.
* JSON with null for a list raises `TypeError` and fails the committee. The
  client's `OverflowError` is absorbed in an ensemble, where it takes the other
  providers' answers with it, and not elsewhere.
* No expert proposes scenarios or benchmarks, so that nothing is ever selected
  outside tests.
* Stakes of 0 become 0.5 in `model_causes`.

Judge: weights that sum to zero divide by zero in `geometric_mean`; a metric of
exactly 0 escapes its relative penalty; rubrics are overwritten by id and lost on
restart.

## 6. Plan

Done: the lifecycle and the stream of a run, the ledger and the loop, the fabric,
the optimizer's rules and searches, the catalogue, the committee, the breaker, and
the theorems of Section 4, which state every safety property of the passing runs
but `MigrationBuildsModels`. What is worth adding when the code moves:

1. `OptimizationLoopWorkflow`, should something start it: it repeats the loop of
   `RunLoop` with pauses.
2. The judge's veto rules and the pack registry's choice of versions, as
   operators.
