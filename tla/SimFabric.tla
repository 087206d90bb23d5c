----------------------------- MODULE SimFabric -----------------------------
(***************************************************************************)
(* The simulation fabric: worker processes (clients) that hand batches of  *)
(* scenarios to Ray actors of their own, with a Redis cache of results and *)
(* a MinIO store of artifacts that they share.                             *)
(*                                                                         *)
(* A scenario is a record: its id, the hash it is cached under, and what a *)
(* pack makes of it - "good", "infeasible" (feasibility says no), "wild"   *)
(* (the pack raises) or "nan" (a metric that is not a number).             *)
(***************************************************************************)
EXTENDS Integers, Sequences, SequencesExt

CONSTANTS
    Clients,      \* processes that run execute_simulation_batch
    PoolSize,     \* actors of a process, 4 in the code
    Batches,      \* batches of scenarios
    Modes,        \* isolation modes of the actors: "none", "subprocess", "container"
    MaxBatches,   \* bound: batches of a process, and of any two together
    MaxFaults     \* bound: actors that cannot create the pack, actors and processes
                  \* that die, and times that Redis or MinIO does not answer

ASSUME FabricAssumption ==
    /\ PoolSize \in Nat \ {0}
    /\ {MaxBatches, MaxFaults} \subseteq Nat
    /\ Modes \subseteq {"none", "subprocess", "container"} /\ Modes # {}

Scenarios == UNION {ToSet(b) : b \in Batches}

(* A hash covers the run, the levers, the seed and the fidelity, which is   *)
(* all that a pack goes by, and persist_scenarios_and_instances gives one id *)
(* to a hash: scenarios.scenario_hash is unique.                            *)
ASSUME HashAssumption ==
    /\ \A b \in Batches : b \in Seq(Scenarios)
    /\ \A s, t \in Scenarios : s.hash = t.hash => s.id = t.id /\ s.kind = t.kind

VARIABLES
    setting,   \* the isolation mode, and whether the registry of a process knows the
               \* pack, as it does not know an ephemeral one
    client,    \* the batch at hand, what has come back of it, batches so far
    actor,     \* by process and place in the pool: whether it lives, its pack, its work
    cache,     \* Redis: results by hash
    store,     \* MinIO: the objects
    faults

vars == <<setting, client, actor, cache, store, faults>>

Actors == Clients \X (1..PoolSize)

Registered == setting.registered

-----------------------------------------------------------------------------
(* Results. *)
Result(s, status, scored) ==
    [id |-> s.id, status |-> status, scored |-> scored, cached |-> FALSE,
     report |-> {}, records |-> {}]

(* What SimulationWorker._run_simulation returns.  A result without metrics *)
(* does not occur here.                                                     *)
RunSimulation(s) ==
    {IF s.kind \in {"infeasible", "wild"} THEN Result(s, "failed", FALSE)
                                          ELSE Result(s, "completed", TRUE)}

(* Variant: without the question of feasibility. *)
NoIsolationUnasked(s) ==
    IF ~Registered \/ s.kind = "wild" THEN {} ELSE {Result(s, "completed", FALSE)}

(* NoIsolation.execute: raises (no result) without a pack and when the pack *)
(* does; and does not score.                                                *)
NoIsolation(s) ==
    IF ~Registered \/ s.kind = "wild" THEN {}
    ELSE IF s.kind = "infeasible" THEN {Result(s, "failed", FALSE)}
    ELSE {Result(s, "completed", FALSE)}

(* SubprocessIsolation.execute: a script that raises or takes too long has  *)
(* failed.                                                                  *)
Subprocess(s) ==
    {Result(s, "failed", FALSE)} \cup
    (IF Registered /\ s.kind \in {"good", "nan"} THEN {Result(s, "completed", FALSE)} ELSE {})

(* get_isolation_strategy.  There is no container image. *)
Isolated(s) ==
    CASE setting.mode = "none"       -> NoIsolation(s)
      [] setting.mode = "subprocess" -> Subprocess(s)
      [] setting.mode = "container"  -> {Result(s, "failed", FALSE)}

(* InvariantChecker.check_all: the checks that find a violation.  NaN is    *)
(* neither below nor above a bound; what is missing is a warning only.      *)
Violations(s, result) == IF s.kind = "nan" /\ result.scored THEN {"nan_check"} ELSE {}

(* _run_batch_inprocess, for one scenario: does not ask for feasibility.    *)
InProcess(s, found) ==
    IF ~found \/ s.kind = "wild" THEN Result(s, "failed", FALSE)
                                 ELSE Result(s, "completed", TRUE)

Object(s) == <<s.id, "outcome.json">>

-----------------------------------------------------------------------------
(* The actors. *)
Faults(n) == faults + n <= MaxFaults /\ faults' = faults + n

(* Redis or MinIO does not answer. *)
Outage(down) == Faults(IF down THEN 1 ELSE 0)

NoTask   == [batch |-> 0]
Unborn   == [at |-> "unborn", loaded |-> FALSE, queue |-> <<>>, task |-> NoTask, result |-> {}]
Born(loaded) == [Unborn EXCEPT !.at = "idle", !.loaded = loaded]

NoBatch == [at |-> "idle", batch |-> <<>>, futures |-> <<>>, count |-> 0, found |-> TRUE]

Init ==
    /\ setting \in [mode : Modes, registered : BOOLEAN]
    /\ client = [c \in Clients |-> NoBatch]
    /\ actor = [a \in Actors |-> Unborn]
    /\ cache = << >>
    /\ store = {}
    /\ faults = 0

(* A future gets its result, a set of one, or its error, none; a task of a  *)
(* batch that is over is not waited for.                                    *)
Settled(c, settled) ==
    [client EXCEPT ![c].futures =
        [i \in DOMAIN @ |->
            LET new == {f \in settled : /\ client[c].at = "gathering"
                                        /\ f.batch = client[c].count /\ f.i = i}
            IN  IF new = {} THEN @[i] ELSE {(CHOOSE f \in new : TRUE).value}]]

Future(task, value) == [batch |-> task.batch, i |-> task.i, value |-> value]

(* The place of scenario i in the pool, and what actor k is dealt.          *)
Place(i) == ((i - 1) % PoolSize) + 1

Tasks(batch, number, k) ==
    [j \in 1..((Len(batch) + PoolSize - k) \div PoolSize) |->
        LET i == k + (j - 1) * PoolSize
        IN  [batch |-> number, i |-> i, s |-> batch[i]]]

(* Bound: no two processes have more than MaxBatches batches between them. *)
MayHand(c) == /\ client[c].count < MaxBatches
              /\ \A d \in Clients \ {c} : client[c].count + client[d].count < MaxBatches

(* The future of a task that is handed to an actor: failed at once if the   *)
(* actor is dead.  Variant: it is waited for.                               *)
FutureWaiting(a) == {}
FutureOf(a) == IF actor[a].at = "dead" THEN {{}} ELSE {}

(* execute_simulation_batch with a pack that _resolve_pack has found, and   *)
(* run_batch: the pool is created once.                                     *)
Submit(c) ==
    /\ client[c].at = "idle" /\ MayHand(c)
    /\ \E b \in Batches, broken \in SUBSET {k \in 1..PoolSize : Registered /\ actor[<<c, k>>].at = "unborn"} :
          LET number == client[c].count + 1
              ready(k) == IF actor[<<c, k>>].at = "unborn" THEN Born(Registered /\ k \notin broken)
                                                           ELSE actor[<<c, k>>]
          IN  /\ Faults(Cardinality(broken))
              /\ client' = [client EXCEPT ![c] =
                    [at |-> "gathering", batch |-> b, count |-> number, found |-> TRUE,
                     futures |-> [i \in DOMAIN b |-> FutureOf(<<c, Place(i)>>)]]]
              /\ actor' = [a \in Actors |->
                    IF a[1] # c \/ actor[a].at = "dead" THEN actor[a]
                    ELSE [ready(a[2]) EXCEPT !.queue = @ \o Tasks(b, number, a[2])]]
    /\ UNCHANGED <<setting, cache, store>>

(* Without a pack the batch fails in this process. *)
NotFound(c) ==
    /\ ~Registered
    /\ client[c].at = "idle" /\ MayHand(c)
    /\ \E b \in Batches :
          client' = [client EXCEPT ![c] =
            [at |-> "done", batch |-> b, count |-> client[c].count + 1, found |-> FALSE,
             futures |-> [i \in DOMAIN b |-> {{InProcess(b[i], FALSE)}}]]]
    /\ UNCHANGED <<setting, actor, cache, store, faults>>

(* Variant: a hash that does not cover the run. *)
KeyOfContent(s) == s.kind

(* The hash the workflow has given the scenario: it covers the run. *)
Key(s) == s.hash

(* The actor is done with its task.  Variant: the result stays.            *)
FreedOnly(a) == [actor EXCEPT ![a].at = "idle", ![a].task = NoTask]
Freed(a) == [actor EXCEPT ![a].at = "idle", ![a].task = NoTask, ![a].result = {}]

Working(a) == actor[a].at \notin {"unborn", "idle", "dead"}

(* SimulationWorker.simulate, cache.get: a hit ends it. *)
Look(a) ==
    /\ actor[a].at = "idle" /\ actor[a].queue # <<>>
    /\ LET task == Head(actor[a].queue)
           h    == Key(task.s)
       IN  \E down \in BOOLEAN :
              /\ Outage(down)
              /\ IF ~down /\ h \in DOMAIN cache
                   THEN /\ client' = Settled(a[1], {Future(task, {[cache[h] EXCEPT !.cached = TRUE]})})
                        /\ actor' = [actor EXCEPT ![a].queue = Tail(@)]
                   ELSE /\ actor' = [actor EXCEPT ![a].queue = Tail(@), ![a].task = task,
                                                  ![a].at = "running"]
                        /\ UNCHANGED client
    /\ UNCHANGED <<setting, cache, store>>

(* ... the simulation, by the pack of the actor or isolated; what it raises *)
(* is the error of the task.                                                *)
Simulate(a) ==
    /\ actor[a].at = "running"
    /\ LET task == actor[a].task
           may  == IF actor[a].loaded THEN RunSimulation(task.s) ELSE Isolated(task.s)
       IN  \/ /\ may = {}
              /\ client' = Settled(a[1], {Future(task, {})})
              /\ actor' = Freed(a)
           \/ \E r \in may :
              /\ actor' = [actor EXCEPT
                    ![a].result = {[r EXCEPT !.report = Violations(task.s, r)]},
                    ![a].at = IF r.status = "completed" THEN "storing" ELSE "saving"]
              /\ UNCHANGED client
    /\ UNCHANGED <<setting, cache, store, faults>>

(* ... _store_artifacts: without records if it fails. *)
Recorded(s, down) == IF down THEN {} ELSE {Object(s)}

Store(a) ==
    /\ actor[a].at = "storing"
    /\ \E down \in BOOLEAN :
          /\ Outage(down)
          /\ store' = IF down THEN store ELSE store \cup {Object(actor[a].task.s)}
          /\ actor' = [actor EXCEPT ![a].at = "saving",
                ![a].result = {[r EXCEPT !.records = Recorded(actor[a].task.s, down)] : r \in @}]
    /\ UNCHANGED <<setting, client, cache>>

(* ... cache.set, failed results included, and the return. *)
Save(a) ==
    /\ actor[a].at = "saving"
    /\ LET task == actor[a].task
           r == CHOOSE x \in actor[a].result : TRUE
       IN  \E down \in BOOLEAN :
              /\ Outage(down)
              /\ cache' = IF down THEN cache
                          ELSE [h \in DOMAIN cache \cup {Key(task.s)} |->
                                   IF h = Key(task.s) THEN r ELSE cache[h]]
              /\ client' = Settled(a[1], {Future(task, {r})})
    /\ actor' = Freed(a)
    /\ UNCHANGED <<setting, store>>

(* The entry's time to live is over. *)
Expire ==
    /\ \E h \in DOMAIN cache : cache' = [g \in DOMAIN cache \ {h} |-> cache[g]]
    /\ UNCHANGED <<setting, client, actor, store, faults>>

(* Ray fails the tasks of an actor that dies. *)
Lost(a) == ToSet(actor[a].queue) \cup (IF Working(a) THEN {actor[a].task} ELSE {})

(* An actor dies, and is not restarted: it keeps its place in the pool.     *)
Die(a) ==
    /\ actor[a].at \notin {"unborn", "dead"}
    /\ Faults(1)
    /\ client' = Settled(a[1], {Future(t, {}) : t \in Lost(a)})
    /\ actor' = [actor EXCEPT ![a] = [Unborn EXCEPT !.at = "dead"]]
    /\ UNCHANGED <<setting, cache, store>>

(* A process dies and comes back, its actors and its batch with it.         *)
Restart(c) ==
    /\ client[c].at = "gathering"
    /\ Faults(1)
    /\ client' = [client EXCEPT ![c] = [NoBatch EXCEPT !.count = client[c].count]]
    /\ actor' = [a \in Actors |-> IF a[1] = c THEN Unborn ELSE actor[a]]
    /\ UNCHANGED <<setting, cache, store>>

(* ray.get: the results of all tasks, in the order of the scenarios ...     *)
Gather(c) ==
    /\ client[c].at = "gathering"
    /\ \A i \in DOMAIN client[c].futures : client[c].futures[i] \notin {{}, {{}}}
    /\ client' = [client EXCEPT ![c].at = "done"]
    /\ UNCHANGED <<setting, actor, cache, store, faults>>

(* Variant: the pack that was found is not handed on. *)
FallBackUnresolved(s) == InProcess(s, Registered)
FallBackResult(s) == InProcess(s, TRUE)

(* ... or the error of one, and then the whole batch is run in this         *)
(* process, while the tasks that are left go on.                            *)
FallBack(c) ==
    /\ client[c].at = "gathering"
    /\ \E i \in DOMAIN client[c].futures : client[c].futures[i] = {{}}
    /\ client' = [client EXCEPT ![c].at = "done",
            ![c].futures = [i \in DOMAIN @ |-> {{FallBackResult(client[c].batch[i])}}]]
    /\ UNCHANGED <<setting, actor, cache, store, faults>>

Return(c) ==
    /\ client[c].at = "done"
    /\ client' = [client EXCEPT ![c] = [NoBatch EXCEPT !.count = client[c].count]]
    /\ UNCHANGED <<setting, actor, cache, store, faults>>

Step(a) == Look(a) \/ Simulate(a) \/ Store(a) \/ Save(a)

Next == \/ \E c \in Clients : Submit(c) \/ NotFound(c) \/ Return(c) \/ Restart(c) \/ Gather(c) \/ FallBack(c)
        \/ \E a \in Actors : Step(a) \/ Die(a)
        \/ Expire

(* Something of what a process waits for goes on, and ray.get returns when  *)
(* it can: less than that every actor that lives works on.                  *)
Goes(c) == Gather(c) \/ FallBack(c) \/ \E k \in 1..PoolSize : Step(<<c, k>>)

Spec == Init /\ [][Next]_vars /\ \A c \in Clients : WF_vars(Goes(c))

-----------------------------------------------------------------------------
(* Properties. *)

Statuses == {"completed", "failed"}
Results == [id : {s.id : s \in Scenarios}, status : Statuses, scored : BOOLEAN,
            cached : BOOLEAN, report : SUBSET {"nan_check"},
            records : SUBSET {Object(s) : s \in Scenarios}]

(* The type invariant.  In particular there is at most one answer to a task,*)
(* and an actor has work only while it lives.                               *)
FabricTypeOK ==
    /\ setting \in [mode : Modes, registered : BOOLEAN]
    /\ \A c \in Clients :
          /\ client[c].at \in {"idle", "gathering", "done"}
          /\ client[c].batch \in Batches \cup {<< >>}
          /\ client[c].count \in 0..MaxBatches /\ client[c].found \in BOOLEAN
          /\ DOMAIN client[c].futures = DOMAIN client[c].batch
          /\ \A i \in DOMAIN client[c].futures :
                /\ Cardinality(client[c].futures[i]) <= 1
                /\ \A value \in client[c].futures[i] : Cardinality(value) <= 1 /\ value \subseteq Results
    /\ \A a \in Actors :
          /\ actor[a].at \in {"unborn", "idle", "running", "storing", "saving", "dead"}
          /\ actor[a].at \in {"unborn", "dead"} => actor[a] = [Unborn EXCEPT !.at = actor[a].at]
          /\ (actor[a].task = NoTask) = ~Working(a)
          /\ (actor[a].result # {}) = (actor[a].at \in {"storing", "saving"})
    /\ DOMAIN cache \subseteq {Key(s) : s \in Scenarios}
    /\ \A h \in DOMAIN cache : cache[h] \in Results /\ ~cache[h].cached
    /\ store \subseteq {Object(s) : s \in Scenarios}
    /\ faults \in 0..MaxFaults

Returned(c) == {i \in DOMAIN client[c].batch : client[c].at = "done"}
Answer(c, i) == CHOOSE r \in UNION client[c].futures[i] : TRUE

(* Whatever was cached, by whom, and in whatever order the actors of both   *)
(* processes answer, die or are late: the i-th result of a batch is of its  *)
(* i-th scenario, so that _attach_instance_ids, which goes by the id, finds *)
(* the instance the result belongs to.                                      *)
AnswersOwn ==
    \A c \in Clients : \A i \in Returned(c) : Answer(c, i).id = client[c].batch[i].id

(* A scenario that the pack finds feasible has one verdict, which way ever  *)
(* the batch goes: an actor with its pack, one without, the cache, or this  *)
(* process, after a part of the batch was run elsewhere.  (Of an infeasible *)
(* scenario this is false: _run_batch_inprocess does not ask.)              *)
PathsAgree ==
    setting.mode = "none" =>
        \A c \in Clients : \A i \in Returned(c) :
            LET s == client[c].batch[i]
            IN  client[c].found /\ s.kind # "infeasible" =>
                    (Answer(c, i).status = "completed") = (s.kind # "wild")

(* Two actors of two processes may work on one scenario and save one after  *)
(* the other, one of them with its pack and the other without: the entry    *)
(* keeps its verdict for as long as it lives.                               *)
CacheKeepsVerdict ==
    [][setting.mode = "none" =>
        \A h \in DOMAIN cache \cap DOMAIN cache' : cache'[h].status = cache[h].status]_vars

(* Each batch comes back: a process is not kept waiting by actors that die, *)
(* now or before the batch was handed to them, by the tasks of an earlier   *)
(* batch that it has given up, or by Redis and MinIO.                       *)
BatchReturns == \A c \in Clients : client[c].at = "gathering" ~> client[c].at # "gathering"
=============================================================================
