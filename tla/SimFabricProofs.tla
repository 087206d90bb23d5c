--------------------------- MODULE SimFabricProofs ---------------------------
(***************************************************************************)
(* Whose result is whose, for any number of processes, actors, batches and *)
(* faults.  A result goes from an actor into the cache, from there to an   *)
(* actor of another process, and from an actor into a batch that may be    *)
(* over: Own says at each of these places which scenario it is of.  Typed  *)
(* adds what each of them may hold at the same time.                       *)
(***************************************************************************)
EXTENDS SimFabric, FiniteSetTheorems, SequenceTheorems, TLAPS

Task == [batch : Nat, i : Nat, s : Scenarios]

ClientState ==
    [at : {"idle", "gathering", "done"}, batch : Batches \cup {<< >>},
     futures : Seq(SUBSET SUBSET Results), count : Nat, found : BOOLEAN]

ActorState ==
    [at : {"unborn", "idle", "running", "storing", "saving", "dead"}, loaded : BOOLEAN,
     queue : Seq(Task), task : Task \cup {NoTask}, result : SUBSET Results]

Shapes ==
    /\ setting \in [mode : Modes, registered : BOOLEAN]
    /\ client \in [Clients -> ClientState]
    /\ actor \in [Actors -> ActorState]
    /\ \A h \in DOMAIN cache : cache[h] \in Results

(* The verdict that a simulation of s gives, which is the pack's. *)
Earned(s, r) ==
    /\ r.id = s.id
    /\ setting.mode = "none" =>
        (r.status = "completed") = (s.kind \notin {"infeasible", "wild"})

(* What a batch may get for s. *)
Answers(s, r, found) ==
    /\ r.id = s.id
    /\ setting.mode = "none" /\ found /\ s.kind # "infeasible" =>
        (r.status = "completed") = (s.kind # "wild")

(* A task is of the batch that its process waits for, or of one before.     *)
Handed(c, t) ==
    /\ t.batch <= client[c].count
    /\ client[c].at = "gathering" /\ t.batch = client[c].count =>
        t.i \in DOMAIN client[c].batch /\ t.s = client[c].batch[t.i]

ClientOk(c) ==
    /\ DOMAIN client[c].futures = DOMAIN client[c].batch
    /\ \A i \in DOMAIN client[c].batch : \A value \in client[c].futures[i] :
        \A r \in value : Answers(client[c].batch[i], r, client[c].found)
    /\ client[c].at = "done" =>
        \A i \in DOMAIN client[c].batch : UNION client[c].futures[i] # {}

ActorOk(a) ==
    /\ \A j \in 1..Len(actor[a].queue) : Handed(a[1], actor[a].queue[j])
    /\ Working(a) => actor[a].task \in Task /\ Handed(a[1], actor[a].task)
    /\ actor[a].at \in {"storing", "saving"} =>
        /\ actor[a].result # {}
        /\ \A r \in actor[a].result : Earned(actor[a].task.s, r)

CacheOk == \A h \in DOMAIN cache, s \in Scenarios : Key(s) = h => Earned(s, cache[h])

Own ==
    /\ Shapes
    /\ \A c \in Clients : ClientOk(c)
    /\ \A a \in Actors : ActorOk(a)
    /\ CacheOk

-----------------------------------------------------------------------------
(* Batches are sequences of scenarios. *)
LEMMA BatchesAreSeqs ==
    ASSUME NEW b \in Batches \cup {<< >>}
    PROVE  /\ b \in Seq(Scenarios) /\ DOMAIN b = 1..Len(b) /\ Len(b) \in Nat
           /\ \A i \in DOMAIN b : b[i] \in Scenarios
<1>1. b \in Seq(Scenarios)
  BY HashAssumption, EmptySeq
<1> QED BY <1>1

(* A result without report and records. *)
LEMMA BareResult ==
    ASSUME NEW s \in Scenarios, NEW status \in Statuses, NEW scored \in BOOLEAN
    PROVE  /\ Result(s, status, scored) \in Results
           /\ Result(s, status, scored).id = s.id
           /\ Result(s, status, scored).status = status
BY DEF Result, Results

(* Both ways in which an actor simulates agree on the verdict. *)
LEMMA EarnedHere ==
    ASSUME setting.mode \in Modes, NEW s \in Scenarios,
           NEW r \in RunSimulation(s) \cup Isolated(s)
    PROVE  r \in Results /\ Earned(s, r)
<1>1. \E status \in Statuses, scored \in BOOLEAN :
        /\ r = Result(s, status, scored)
        /\ setting.mode = "none" => (status = "completed") = (s.kind \notin {"infeasible", "wild"})
  BY FabricAssumption DEF RunSimulation, Isolated, NoIsolation, Subprocess, Statuses
<1> QED BY <1>1, BareResult DEF Earned

(* What is dealt to an actor are tasks of the batch. *)
LEMMA Dealt ==
    ASSUME NEW b \in Batches, NEW n \in Nat, NEW k \in 1..PoolSize
    PROVE  /\ Tasks(b, n, k) \in Seq(Task)
           /\ \A j \in 1..Len(Tasks(b, n, k)) :
                /\ Tasks(b, n, k)[j].batch = n
                /\ Tasks(b, n, k)[j].i \in DOMAIN b
                /\ Tasks(b, n, k)[j].s = b[Tasks(b, n, k)[j].i]
<1> DEFINE P == PoolSize
           L == Len(b)
           dealt == (L + P - k) \div P
<1>1. P \in Nat \ {0} /\ L \in Nat /\ k \in 1..P
  BY FabricAssumption, BatchesAreSeqs
<1>2. dealt \in Nat /\ P * dealt <= L + P - k
  BY <1>1
<1>3. ASSUME NEW j \in 1..dealt PROVE k + (j - 1) * P \in 1..L
  <2>1. PICK q \in Nat : j <= q /\ P * q <= L + P - k
    BY <1>2
  <2>2. P * j <= P * q
    BY <1>1, <2>1
  <2>3. (j - 1) * P = P * j - P
    BY <1>1
  <2> QED BY <1>1, <2>1, <2>2, <2>3
<1> DEFINE task(j) == [batch |-> n, i |-> k + (j - 1) * P, s |-> b[k + (j - 1) * P]]
<1>4. Tasks(b, n, k) = [j \in 1..dealt |-> task(j)]
  BY DEF Tasks
<1> HIDE DEF dealt
<1>5. \A j \in 1..dealt : task(j) \in Task
  BY <1>1, <1>3, BatchesAreSeqs DEF Task
<1>6. Tasks(b, n, k) \in Seq(Task) /\ Len(Tasks(b, n, k)) = dealt
  BY <1>2, <1>4, <1>5, IsASeq
<1>7. DOMAIN b = 1..L
  BY BatchesAreSeqs
<1>8. ASSUME NEW j \in 1..dealt
      PROVE  /\ Tasks(b, n, k)[j] = task(j)
             /\ task(j).batch = n /\ task(j).i \in DOMAIN b /\ task(j).s = b[task(j).i]
  BY <1>3, <1>4, <1>7
<1> HIDE DEF task
<1> QED BY <1>6, <1>8

-----------------------------------------------------------------------------
LEMMA EarnedAnswers ==
    ASSUME NEW s, NEW r, NEW found, Earned(s, r) PROVE Answers(s, r, found)
BY DEF Earned, Answers

(* A process whose batch, number and place are as before is handed the same.*)
LEMMA HandedStill ==
    ASSUME NEW c \in Clients, NEW t,
           client'[c].at = client[c].at, client'[c].batch = client[c].batch,
           client'[c].count = client[c].count, Handed(c, t)
    PROVE  Handed(c, t)'
BY DEF Handed

(* What settles a future is the earned result of a task, or an error.       *)
Settles(c, f) ==
    \E t \in Task, value \in SUBSET Results :
        /\ f = Future(t, value) /\ Handed(c, t)
        /\ \A r \in value : Earned(t.s, r)

(* A task that is done or lost settles no future but its own.               *)
LEMMA Settling ==
    ASSUME Own, UNCHANGED setting, NEW c \in Clients, NEW settled,
           \A f \in settled : Settles(c, f),
           client' = Settled(c, settled)
    PROVE  /\ client' \in [Clients -> ClientState]
           /\ \A d \in Clients : ClientOk(d)'
           /\ \A d \in Clients : \A t : Handed(d, t) => Handed(d, t)'
<1> DEFINE news(i) == {f \in settled : /\ client[c].at = "gathering"
                                       /\ f.batch = client[c].count /\ f.i = i}
           got(i) == IF news(i) = {} THEN client[c].futures[i]
                                       ELSE {(CHOOSE f \in news(i) : TRUE).value}
           futures == [i \in DOMAIN client[c].futures |-> got(i)]
<1>1. /\ client \in [Clients -> ClientState] /\ client[c] \in ClientState /\ ClientOk(c)
      /\ client[c].batch \in Batches \cup {<< >>}
  BY DEF Own, Shapes, ClientState
<1>2. client' = [client EXCEPT ![c].futures = futures]
  BY DEF Settled
<1>3. ASSUME NEW i \in DOMAIN client[c].batch, news(i) # {}
      PROVE  \E v \in SUBSET Results :
                /\ got(i) = {v} /\ client[c].at = "gathering"
                /\ \A r \in v : Earned(client[c].batch[i], r)
  <2>1. PICK f \in news(i) : f = CHOOSE g \in news(i) : TRUE
    BY <1>3
  <2>2. PICK t \in Task, v \in SUBSET Results :
            /\ f = Future(t, v) /\ Handed(c, t) /\ \A r \in v : Earned(t.s, r)
    BY <2>1 DEF Settles
  <2>3. f.batch = t.batch /\ f.i = t.i /\ f.value = v
    BY <2>2 DEF Future
  <2>4. t.s = client[c].batch[i] /\ client[c].at = "gathering"
    BY <2>1, <2>2, <2>3 DEF Handed
  <2>5. got(i) = {v}
    BY <1>3, <2>1, <2>3
  <2> QED BY <2>2, <2>4, <2>5
<1>4. /\ DOMAIN client[c].futures = DOMAIN client[c].batch
      /\ client[c].futures \in Seq(SUBSET SUBSET Results)
  BY <1>1 DEF ClientOk, ClientState
<1>5. ASSUME NEW i \in DOMAIN client[c].batch PROVE got(i) \in SUBSET SUBSET Results
  <2>1. client[c].futures[i] \in SUBSET SUBSET Results
    BY <1>4
  <2>2. CASE news(i) = {}
    BY <2>1, <2>2
  <2>3. CASE news(i) # {}
    <3>1. PICK v \in SUBSET Results : got(i) = {v}
      BY <1>3, <2>3
    <3> HIDE DEF got
    <3> QED BY <3>1
  <2> QED BY <2>2, <2>3
<1>6. futures \in Seq(SUBSET SUBSET Results) /\ DOMAIN futures = DOMAIN client[c].batch
  <2>1. DOMAIN client[c].futures = 1..Len(client[c].futures) /\ Len(client[c].futures) \in Nat
    BY <1>4
  <2> HIDE DEF got
  <2> QED BY <1>4, <1>5, <2>1, IsASeq
<1> HIDE DEF futures
<1>7. client' \in [Clients -> ClientState]
  BY <1>1, <1>2, <1>6 DEF ClientState
<1>8. \A d \in Clients : /\ client'[d].at = client[d].at /\ client'[d].batch = client[d].batch
                         /\ client'[d].count = client[d].count
                         /\ client'[d].found = client[d].found
                         /\ d # c => client'[d].futures = client[d].futures
                         /\ d = c => client'[d].futures = futures
  BY <1>1, <1>2 DEF ClientState
<1>9. ASSUME NEW d \in Clients PROVE ClientOk(d)'
  <2>1. CASE d # c
    <3>1. ClientOk(d)
      BY DEF Own
    <3>2. client'[d] = client[d]
      BY <1>1, <1>2, <2>1
    <3> QED BY <3>1, <3>2 DEF ClientOk, Answers
  <2>2. CASE d = c
    <3>1. ASSUME NEW i \in DOMAIN client[c].batch
          PROVE  /\ futures[i] = got(i)
                 /\ \A v \in got(i) : \A r \in v :
                        Answers(client[c].batch[i], r, client[c].found)
                 /\ client[c].at = "done" => UNION got(i) # {}
      <4>0. futures[i] = got(i)
        BY <1>4 DEF futures
      <4>1. CASE news(i) = {}
        BY <1>1, <4>0, <4>1 DEF ClientOk
      <4>2. CASE news(i) # {}
        <5>1. PICK v \in SUBSET Results :
                    /\ got(i) = {v} /\ client[c].at = "gathering"
                    /\ \A r \in v : Earned(client[c].batch[i], r)
          BY <1>3, <4>2
        <5> HIDE DEF got
        <5> QED BY <4>0, <5>1, EarnedAnswers
      <4> QED BY <4>1, <4>2
    <3> HIDE DEF got
    <3>2. \A i \in DOMAIN client[c].batch : \A value \in futures[i] : \A r \in value :
             Answers(client[c].batch[i], r, client[c].found)
      BY <3>1
    <3>3. client[c].at = "done" => \A i \in DOMAIN client[c].batch : UNION futures[i] # {}
      BY <3>1
    <3>4. /\ client'[c].at = client[c].at /\ client'[c].batch = client[c].batch
          /\ client'[c].found = client[c].found /\ client'[c].futures = futures
      BY <1>8
    <3>5. ClientOk(c)'
      <4>1. (DOMAIN client[c].futures = DOMAIN client[c].batch)'
        BY <1>6, <3>4
      <4>2. (\A i \in DOMAIN client[c].batch : \A value \in client[c].futures[i] :
               \A r \in value : Answers(client[c].batch[i], r, client[c].found))'
        BY <3>2, <3>4 DEF Answers
      <4>3. (client[c].at = "done" =>
               \A i \in DOMAIN client[c].batch : UNION client[c].futures[i] # {})'
        BY <3>3, <3>4
      <4> QED BY <4>1, <4>2, <4>3 DEF ClientOk
    <3> QED BY <2>2, <3>5
  <2> QED BY <2>1, <2>2
<1> QED BY <1>7, <1>8, <1>9, HandedStill

LEMMA SettlingOne ==
    ASSUME Own, UNCHANGED setting, NEW c \in Clients, NEW t \in Task, Handed(c, t),
           NEW value \in SUBSET Results, \A r \in value : Earned(t.s, r),
           client' = Settled(c, {Future(t, value)})
    PROVE  /\ client' \in [Clients -> ClientState]
           /\ \A d \in Clients : ClientOk(d)'
           /\ \A d \in Clients : \A u : Handed(d, u) => Handed(d, u)'
<1> DEFINE settled == {Future(t, value)}
<1>1. \A f \in settled : Settles(c, f)
  BY DEF Settles
<1>2. client' = Settled(c, settled)
  OBVIOUS
<1> HIDE DEF settled
<1> QED BY <1>1, <1>2, Settling

(* A step that changes one actor, or one process.                           *)
LEMMA OneActor ==
    ASSUME Own, UNCHANGED setting, \A d \in Clients : \A t : Handed(d, t) => Handed(d, t)',
           NEW a \in Actors, NEW x \in ActorState, actor' = [actor EXCEPT ![a] = x],
           ActorOk(a)'
    PROVE  /\ actor' \in [Actors -> ActorState]
           /\ \A b \in Actors : ActorOk(b)'
<1>1. actor' \in [Actors -> ActorState]
  BY DEF Own, Shapes
<1>2. ASSUME NEW b \in Actors, b # a PROVE ActorOk(b)'
  <2>1. actor'[b] = actor[b] /\ ActorOk(b) /\ b[1] \in Clients
    BY <1>2 DEF Own, Shapes, Actors
  <2>2. \A t : Handed(b[1], t) => Handed(b[1], t)'
    BY <2>1
  <2>3. (\A j \in 1..Len(actor[b].queue) : Handed(b[1], actor[b].queue[j]))'
    <3>1. \A j \in 1..Len(actor[b].queue) : \A t : t = actor[b].queue[j] => Handed(b[1], t)'
      BY <2>1, <2>2 DEF ActorOk
    <3> QED
      BY <2>1, <3>1 DEF Handed
  <2>4. (Working(b) => actor[b].task \in Task /\ Handed(b[1], actor[b].task))'
    <3>1. Working(b) => /\ actor[b].task \in Task
                        /\ \A t : t = actor[b].task => Handed(b[1], t)'
      BY <2>1, <2>2 DEF ActorOk
    <3> QED
      BY <2>1, <3>1 DEF Working, Handed
  <2>5. (actor[b].at \in {"storing", "saving"} =>
           /\ actor[b].result # {}
           /\ \A r \in actor[b].result : Earned(actor[b].task.s, r))'
    BY <2>1 DEF ActorOk, Earned
  <2> QED BY <2>3, <2>4, <2>5 DEF ActorOk
<1> QED BY <1>1, <1>2

LEMMA OneClient ==
    ASSUME Own, UNCHANGED setting, NEW c \in Clients, NEW x \in ClientState,
           client' = [client EXCEPT ![c] = x], ClientOk(c)'
    PROVE  /\ client' \in [Clients -> ClientState]
           /\ \A d \in Clients : ClientOk(d)'
<1>1. client' \in [Clients -> ClientState]
  BY DEF Own, Shapes
<1>2. ASSUME NEW d \in Clients, d # c PROVE ClientOk(d)'
  <2>1. client'[d] = client[d] /\ ClientOk(d)
    BY <1>2 DEF Own, Shapes
  <2> QED BY <2>1 DEF ClientOk, Answers
<1> QED BY <1>1, <1>2

(* The batch at hand is over: a process waits for none of its tasks.        *)
LEMMA HandedOver ==
    ASSUME Own, NEW c \in Clients, NEW x \in ClientState,
           client' = [client EXCEPT ![c] = x], x.at # "gathering", x.count >= client[c].count
    PROVE  \A d \in Clients : \A t : t \in Task /\ Handed(d, t) => Handed(d, t)'
BY DEF Own, Shapes, ClientState, Handed, Task

-----------------------------------------------------------------------------
(* The steps of an actor. *)
LEMMA ActorFacts ==
    ASSUME Own, NEW a \in Actors
    PROVE  /\ a[1] \in Clients /\ actor[a] \in ActorState /\ ActorOk(a)
           /\ actor[a].queue \in Seq(Task) /\ actor[a].loaded \in BOOLEAN
           /\ actor[a].result \in SUBSET Results
           /\ setting.mode \in Modes
BY DEF Own, Shapes, Actors, ActorState

LEMMA LookKeeps == ASSUME Own, NEW a \in Actors, Look(a) PROVE Own'
<1> DEFINE task == Head(actor[a].queue)
           rest == Tail(actor[a].queue)
<1>1. /\ actor[a].at = "idle" /\ actor[a].queue # <<>>
      /\ UNCHANGED <<setting, cache, store>>
  BY DEF Look
<1>2. /\ task \in Task /\ rest \in Seq(Task) /\ Handed(a[1], task)
      /\ \A j \in 1..Len(rest) : Handed(a[1], rest[j])
  <2>1. /\ Len(actor[a].queue) \in Nat \ {0} /\ task = actor[a].queue[1] /\ task \in Task
        /\ rest \in Seq(Task) /\ Len(rest) = Len(actor[a].queue) - 1
        /\ \A j \in 1..Len(rest) : rest[j] = actor[a].queue[j + 1]
    BY <1>1, ActorFacts
  <2>2. \A j \in 1..Len(actor[a].queue) : Handed(a[1], actor[a].queue[j])
    BY ActorFacts DEF ActorOk
  <2> QED BY <2>1, <2>2
<1> HIDE DEF task, rest
<1>3. CacheOk' /\ \A h \in DOMAIN cache' : cache'[h] \in Results
  BY <1>1 DEF Own, Shapes, CacheOk, Earned
<1>4. CASE /\ Key(task.s) \in DOMAIN cache
           /\ client' = Settled(a[1], {Future(task, {[cache[Key(task.s)] EXCEPT !.cached = TRUE]})})
           /\ actor' = [actor EXCEPT ![a].queue = rest]
  <2> DEFINE hit == [cache[Key(task.s)] EXCEPT !.cached = TRUE]
  <2>1. hit \in Results /\ Earned(task.s, hit)
    <3>1. task.s \in Scenarios
      BY <1>2 DEF Task
    <3>2. cache[Key(task.s)] \in Results /\ Earned(task.s, cache[Key(task.s)])
      BY <1>4, <3>1 DEF Own, Shapes, CacheOk
    <3>3. hit \in Results /\ hit.id = cache[Key(task.s)].id
          /\ hit.status = cache[Key(task.s)].status
      BY <3>2 DEF Results
    <3> HIDE DEF hit
    <3> QED BY <3>2, <3>3 DEF Earned
  <2> HIDE DEF hit
  <2>2. /\ client' \in [Clients -> ClientState] /\ \A d \in Clients : ClientOk(d)'
        /\ \A d \in Clients : \A t : Handed(d, t) => Handed(d, t)'
    <3>1. client' = Settled(a[1], {Future(task, {hit})})
      BY <1>4 DEF hit
    <3>2. {hit} \in SUBSET Results /\ \A r \in {hit} : Earned(task.s, r)
      BY <2>1
    <3> QED BY <1>1, <1>2, <3>1, <3>2, ActorFacts, SettlingOne
  <2>3. /\ actor' = [actor EXCEPT ![a] = [actor[a] EXCEPT !.queue = rest]]
        /\ [actor[a] EXCEPT !.queue = rest] \in ActorState
    BY <1>2, <1>4, ActorFacts DEF ActorState, Own, Shapes
  <2>4. actor'[a].queue = rest /\ actor'[a].at = "idle"
    BY <1>1, <2>3, ActorFacts DEF ActorState, Own, Shapes
  <2>5. ActorOk(a)'
    BY <1>2, <2>2, <2>4, ActorFacts DEF ActorOk, Working, Handed
  <2> QED BY <1>1, <1>3, <2>2, <2>3, <2>5, OneActor DEF Own, Shapes
<1>5. CASE /\ actor' = [actor EXCEPT ![a].queue = rest, ![a].task = task, ![a].at = "running"]
           /\ UNCHANGED client
  <2>2. \A d \in Clients : \A t : Handed(d, t) => Handed(d, t)'
    BY <1>5 DEF Handed
  <2> DEFINE x == [actor[a] EXCEPT !.queue = rest, !.task = task, !.at = "running"]
  <2>3. actor' = [actor EXCEPT ![a] = x] /\ x \in ActorState
    BY <1>2, <1>5, ActorFacts DEF ActorState, Own, Shapes
  <2>4. /\ actor'[a].queue = rest /\ actor'[a].at = "running" /\ actor'[a].task = task
        /\ actor'[a].result = actor[a].result
    BY <2>3, ActorFacts DEF ActorState, Own, Shapes
  <2>5. ActorOk(a)'
    BY <1>2, <2>2, <2>4, ActorFacts DEF ActorOk, Working, Handed
  <2>6. \A d \in Clients : ClientOk(d)'
    BY <1>1, <1>5 DEF Own, ClientOk, Answers
  <2> HIDE DEF x
  <2> QED BY <1>1, <1>3, <1>5, <2>2, <2>3, <2>5, <2>6, OneActor DEF Own, Shapes
<1> QED BY <1>4, <1>5 DEF Look, task, rest

LEMMA Freeing ==
    ASSUME Own, UNCHANGED setting, \A d \in Clients : \A t : Handed(d, t) => Handed(d, t)',
           NEW a \in Actors, actor' = Freed(a)
    PROVE  /\ actor' \in [Actors -> ActorState]
           /\ \A b \in Actors : ActorOk(b)'
<1> DEFINE x == [actor[a] EXCEPT !.at = "idle", !.task = NoTask, !.result = {}]
<1>1. actor' = [actor EXCEPT ![a] = x] /\ x \in ActorState
  BY ActorFacts DEF Freed, ActorState, Own, Shapes
<1>2. actor'[a].queue = actor[a].queue /\ actor'[a].at = "idle"
  BY <1>1, ActorFacts DEF ActorState, Own, Shapes
<1>3. ActorOk(a)'
  <2>1. \A j \in 1..Len(actor'[a].queue) : Handed(a[1], actor'[a].queue[j])
    BY <1>2, ActorFacts DEF ActorOk
  <2>2. \A t : Handed(a[1], t) => Handed(a[1], t)'
    BY ActorFacts
  <2> QED BY <1>2, <2>1, <2>2 DEF ActorOk, Working, Handed
<1> HIDE DEF x
<1> QED BY <1>1, <1>3, OneActor

(* An actor at work gets a result and goes on.                              *)
LEMMA Going ==
    ASSUME Own, UNCHANGED <<setting, client>>, NEW a \in Actors, Working(a),
           NEW at \in {"storing", "saving"}, NEW result \in SUBSET Results, result # {},
           \A r \in result : Earned(actor[a].task.s, r),
           actor' = [actor EXCEPT ![a].result = result, ![a].at = at]
    PROVE  /\ actor' \in [Actors -> ActorState]
           /\ \A b \in Actors : ActorOk(b)'
           /\ \A d \in Clients : ClientOk(d)'
<1> DEFINE x == [actor[a] EXCEPT !.result = result, !.at = at]
<1>1. actor' = [actor EXCEPT ![a] = x] /\ x \in ActorState
  BY ActorFacts DEF ActorState, Own, Shapes
<1>2. /\ actor'[a].queue = actor[a].queue /\ actor'[a].at = at
      /\ actor'[a].task = actor[a].task /\ actor'[a].result = result
  BY <1>1, ActorFacts DEF ActorState, Own, Shapes
<1>3. ActorOk(a)'
  <2>1. /\ \A j \in 1..Len(actor'[a].queue) : Handed(a[1], actor'[a].queue[j])
        /\ actor'[a].task \in Task /\ Handed(a[1], actor'[a].task)
    BY <1>2, ActorFacts DEF ActorOk
  <2>2. \A t : Handed(a[1], t) => Handed(a[1], t)'
    BY DEF Handed
  <2>3. \A r \in actor'[a].result : Earned(actor'[a].task.s, r)
    BY <1>2
  <2>4. \A r, u : Earned(u, r) => Earned(u, r)'
    BY DEF Earned
  <2>5. actor'[a].result # {}
    BY <1>2
  <2> QED BY <2>1, <2>2, <2>3, <2>4, <2>5 DEF ActorOk, Handed, Earned
<1>4. \A d \in Clients : \A t : Handed(d, t) => Handed(d, t)'
  BY DEF Handed
<1>5. \A d \in Clients : ClientOk(d)'
  BY DEF Own, ClientOk, Answers
<1> HIDE DEF x
<1> QED BY <1>1, <1>3, <1>4, <1>5, OneActor

LEMMA CacheStays == ASSUME Own, UNCHANGED <<setting, cache>>
                    PROVE  CacheOk' /\ \A h \in DOMAIN cache' : cache'[h] \in Results
BY DEF Own, Shapes, CacheOk, Earned

LEMMA SimulateKeeps == ASSUME Own, NEW a \in Actors, Simulate(a) PROVE Own'
<1> DEFINE task == actor[a].task
           may  == IF actor[a].loaded THEN RunSimulation(task.s) ELSE Isolated(task.s)
<1>1. actor[a].at = "running" /\ Working(a) /\ UNCHANGED <<setting, cache, store>>
  BY DEF Simulate, Working
<1>2. task \in Task /\ Handed(a[1], task) /\ task.s \in Scenarios
  BY <1>1, ActorFacts DEF ActorOk, Task
<1>3. CASE client' = Settled(a[1], {Future(task, {})}) /\ actor' = Freed(a)
  <2>1. /\ client' \in [Clients -> ClientState] /\ \A d \in Clients : ClientOk(d)'
        /\ \A d \in Clients : \A t : Handed(d, t) => Handed(d, t)'
    <3>1. {} \in SUBSET Results /\ \A r \in {} : Earned(task.s, r)
      OBVIOUS
    <3> HIDE DEF task
    <3> QED BY <1>1, <1>2, <1>3, <3>1, ActorFacts, SettlingOne
  <2> QED BY <1>1, <1>3, <2>1, Freeing, CacheStays DEF Own, Shapes
<1>4. ASSUME NEW r \in may, UNCHANGED client,
             actor' = [actor EXCEPT
                    ![a].result = {[r EXCEPT !.report = Violations(task.s, r)]},
                    ![a].at = IF r.status = "completed" THEN "storing" ELSE "saving"]
      PROVE  Own'
  <2> DEFINE full == [r EXCEPT !.report = Violations(task.s, r)]
  <2>1. r \in Results /\ Earned(task.s, r)
    BY <1>2, EarnedHere, ActorFacts
  <2>2. full \in Results /\ full.id = r.id /\ full.status = r.status
    BY <2>1 DEF Results, Violations
  <2> HIDE DEF full
  <2>3. {full} \in SUBSET Results /\ {full} # {} /\ \A q \in {full} : Earned(task.s, q)
    BY <2>1, <2>2 DEF Earned
  <2>4. actor' = [actor EXCEPT ![a].result = {full},
                    ![a].at = IF r.status = "completed" THEN "storing" ELSE "saving"]
    BY <1>4 DEF full
  <2>5. /\ actor' \in [Actors -> ActorState] /\ \A b \in Actors : ActorOk(b)'
        /\ \A d \in Clients : ClientOk(d)'
    <3> DEFINE at == IF r.status = "completed" THEN "storing" ELSE "saving"
    <3>1. at \in {"storing", "saving"} /\ actor' = [actor EXCEPT ![a].result = {full}, ![a].at = at]
      BY <2>4
    <3>2. UNCHANGED <<setting, client>>
      BY <1>1, <1>4
    <3> DEFINE result == {full}
    <3>3. /\ result \in SUBSET Results /\ result # {}
          /\ \A q \in result : Earned(actor[a].task.s, q)
      BY <2>3
    <3>4. actor' = [actor EXCEPT ![a].result = result, ![a].at = at]
      BY <3>1
    <3> HIDE DEF at, result
    <3> QED BY <1>1, <3>1, <3>2, <3>3, <3>4, Going
  <2> QED BY <1>1, <1>4, <2>5, CacheStays DEF Own, Shapes
<1> HIDE DEF may
<1> QED BY <1>3, <1>4 DEF Simulate, may

LEMMA StoreKeeps == ASSUME Own, NEW a \in Actors, Store(a) PROVE Own'
<1>1. actor[a].at = "storing" /\ Working(a) /\ UNCHANGED <<setting, client, cache>>
  BY DEF Store, Working
<1>2. /\ actor[a].task \in Task /\ actor[a].task.s \in Scenarios
      /\ actor[a].result # {} /\ actor[a].result \in SUBSET Results
      /\ \A r \in actor[a].result : Earned(actor[a].task.s, r)
  BY <1>1, ActorFacts DEF ActorOk, Task
<1>3. PICK down \in BOOLEAN :
        actor' = [actor EXCEPT ![a].at = "saving",
            ![a].result = {[r EXCEPT !.records = Recorded(actor[a].task.s, down)] : r \in @}]
  BY DEF Store
<1> DEFINE kept == {[r EXCEPT !.records = Recorded(actor[a].task.s, down)] : r \in actor[a].result}
<1>4. \A r \in Results : LET q == [r EXCEPT !.records = Recorded(actor[a].task.s, down)]
                         IN  q \in Results /\ q.id = r.id /\ q.status = r.status
  BY <1>2 DEF Results, Recorded
<1>5. kept \in SUBSET Results /\ kept # {} /\ \A q \in kept : Earned(actor[a].task.s, q)
  <2>1. ASSUME NEW q \in kept PROVE q \in Results /\ Earned(actor[a].task.s, q)
    <3>1. PICK r \in actor[a].result : q = [r EXCEPT !.records = Recorded(actor[a].task.s, down)]
      OBVIOUS
    <3>2. q \in Results /\ q.id = r.id /\ q.status = r.status /\ Earned(actor[a].task.s, r)
      BY <1>2, <1>4, <3>1
    <3> QED BY <3>2 DEF Earned
  <2>2. kept # {}
    BY <1>2
  <2> HIDE DEF kept
  <2> QED BY <2>1, <2>2
<1>6. actor' = [actor EXCEPT ![a].result = kept, ![a].at = "saving"]
  BY <1>3, ActorFacts DEF Own, Shapes, ActorState
<1> HIDE DEF kept
<1>7. /\ actor' \in [Actors -> ActorState] /\ \A b \in Actors : ActorOk(b)'
      /\ \A d \in Clients : ClientOk(d)'
  BY <1>1, <1>5, <1>6, Going
<1> QED BY <1>1, <1>7, CacheStays DEF Own, Shapes

LEMMA SaveKeeps ==
    ASSUME Own, NEW a \in Actors, Save(a)
    PROVE  /\ Own'
           /\ setting.mode = "none" =>
                \A h \in DOMAIN cache \cap DOMAIN cache' : cache'[h].status = cache[h].status
<1> DEFINE task == actor[a].task
           r == CHOOSE x \in actor[a].result : TRUE
<1>1. actor[a].at = "saving" /\ Working(a) /\ UNCHANGED <<setting, store>> /\ actor' = Freed(a)
  BY DEF Save, Working
<1>2. /\ task \in Task /\ Handed(a[1], task) /\ task.s \in Scenarios
      /\ actor[a].result # {} /\ actor[a].result \in SUBSET Results
      /\ \A x \in actor[a].result : Earned(task.s, x)
  BY <1>1, ActorFacts DEF ActorOk, Task
<1>3. r \in Results /\ Earned(task.s, r)
  BY <1>2
<1>4. /\ client' = Settled(a[1], {Future(task, {r})})
      /\ \/ cache' = cache
         \/ cache' = [h \in DOMAIN cache \cup {Key(task.s)} |->
                                IF h = Key(task.s) THEN r ELSE cache[h]]
  BY DEF Save
<1> HIDE DEF r, task
<1>5. /\ client' \in [Clients -> ClientState] /\ \A d \in Clients : ClientOk(d)'
      /\ \A d \in Clients : \A t : Handed(d, t) => Handed(d, t)'
  <2>1. {r} \in SUBSET Results /\ \A x \in {r} : Earned(task.s, x)
    BY <1>3
  <2> QED BY <1>1, <1>2, <1>4, <2>1, ActorFacts, SettlingOne
<1>6. CacheOk' /\ \A h \in DOMAIN cache' : cache'[h] \in Results
  <2>1. CASE cache' = cache
    BY <1>1, <2>1, CacheStays
  <2>2. CASE cache' = [h \in DOMAIN cache \cup {Key(task.s)} |->
                                IF h = Key(task.s) THEN r ELSE cache[h]]
    <3>1. ASSUME NEW h \in DOMAIN cache', NEW s \in Scenarios, Key(s) = h
          PROVE  Earned(s, cache'[h])
      <4>1. CASE h = Key(task.s)
        <5>1. s.id = task.s.id /\ s.kind = task.s.kind
          BY <1>2, <3>1, <4>1, HashAssumption DEF Key
        <5> QED BY <1>3, <2>2, <4>1, <5>1 DEF Earned
      <4>2. CASE h # Key(task.s)
        BY <2>2, <3>1, <4>2 DEF Own, CacheOk
      <4> QED BY <4>1, <4>2
    <3>2. \A h \in DOMAIN cache' : cache'[h] \in Results
      BY <1>3, <2>2 DEF Own, Shapes
    <3>3. \A s, x : Earned(s, x) => Earned(s, x)'
      BY <1>1 DEF Earned
    <3> QED BY <3>1, <3>2, <3>3 DEF CacheOk, Earned, Key
  <2> QED BY <1>4, <2>1, <2>2
<1>7. ASSUME setting.mode = "none", NEW h \in DOMAIN cache \cap DOMAIN cache'
      PROVE  cache'[h].status = cache[h].status
  <2>1. CASE cache'[h] = cache[h]
    BY <2>1
  <2>2. CASE cache'[h] # cache[h]
    <3>1. cache'[h] = r /\ h = Key(task.s)
      BY <1>4, <1>7, <2>2
    <3>2. Earned(task.s, cache[h]) /\ Earned(task.s, r)
      BY <1>2, <1>3, <1>7, <3>1 DEF Own, CacheOk
    <3>3. cache[h].status \in Statuses /\ r.status \in Statuses
      BY <1>3, <1>7 DEF Own, Shapes, Results
    <3> QED BY <1>7, <3>1, <3>2, <3>3 DEF Earned, Statuses
  <2> QED BY <2>1, <2>2
<1> QED BY <1>1, <1>5, <1>6, <1>7, Freeing DEF Own, Shapes

LEMMA DieKeeps == ASSUME Own, NEW a \in Actors, Die(a) PROVE Own'
<1> DEFINE x == [Unborn EXCEPT !.at = "dead"]
           settled == {Future(t, {}) : t \in Lost(a)}
<1>1. /\ UNCHANGED <<setting, cache, store>> /\ client' = Settled(a[1], settled)
      /\ actor' = [actor EXCEPT ![a] = x]
  BY DEF Die
<1>2. x \in ActorState /\ x.queue = <<>> /\ x.at = "dead"
  BY EmptySeq DEF Unborn, NoTask, ActorState
<1>3. ASSUME NEW f \in settled PROVE Settles(a[1], f)
  <2>1. PICK t \in Lost(a) : f = Future(t, {})
    OBVIOUS
  <2>2. t \in Task /\ Handed(a[1], t)
    BY ActorFacts DEF Lost, ActorOk, ToSet
  <2> QED BY <2>1, <2>2 DEF Settles
<1> HIDE DEF x, settled
<1>4. /\ client' \in [Clients -> ClientState] /\ \A d \in Clients : ClientOk(d)'
      /\ \A d \in Clients : \A t : Handed(d, t) => Handed(d, t)'
  BY <1>1, <1>3, ActorFacts, Settling
<1>5. ActorOk(a)'
  <2>1. actor'[a] = x
    BY <1>1 DEF Own, Shapes
  <2> QED BY <1>2, <2>1 DEF ActorOk, Working
<1> QED BY <1>1, <1>2, <1>4, <1>5, OneActor, CacheStays DEF Own, Shapes

-----------------------------------------------------------------------------
(* The steps of a process.  Its actors keep their tasks, which are of a     *)
(* batch that it does not wait for any more.                                *)
LEMMA BatchOver ==
    ASSUME Own, UNCHANGED <<setting, actor, cache>>, NEW c \in Clients,
           NEW x \in ClientState, client' = [client EXCEPT ![c] = x],
           x.at # "gathering", x.count >= client[c].count, ClientOk(c)'
    PROVE  Own'
<1>1. ASSUME NEW a \in Actors PROVE ActorOk(a)'
  <2>1. \A t : t \in Task /\ Handed(a[1], t) => Handed(a[1], t)'
    BY ActorFacts, HandedOver
  <2>2. \A j \in 1..Len(actor[a].queue) : actor[a].queue[j] \in Task
    BY ActorFacts
  <2>3. \A s, r : Earned(s, r) => Earned(s, r)'
    BY DEF Earned
  <2> QED BY <2>1, <2>2, <2>3, ActorFacts DEF ActorOk, Working, Handed, Earned
<1>2. client' \in [Clients -> ClientState] /\ \A d \in Clients : ClientOk(d)'
  BY OneClient
<1> QED BY <1>1, <1>2, CacheStays DEF Own, Shapes

LEMMA ClientFacts ==
    ASSUME Own, NEW c \in Clients
    PROVE  /\ client \in [Clients -> ClientState]
           /\ client[c] \in ClientState /\ ClientOk(c) /\ client[c].count \in Nat
           /\ client[c].batch \in Batches \cup {<< >>}
           /\ client[c].futures \in Seq(SUBSET SUBSET Results)
BY DEF Own, Shapes, ClientState

LEMMA NoBatchOk ==
    ASSUME NEW n \in Nat
    PROVE  LET x == [NoBatch EXCEPT !.count = n]
           IN  /\ x \in ClientState /\ x.at = "idle" /\ x.count = n
               /\ x.batch = << >> /\ x.futures = << >>
BY EmptySeq DEF NoBatch, ClientState

LEMMA ReturnKeeps == ASSUME Own, NEW c \in Clients, Return(c) PROVE Own'
<1> DEFINE x == [NoBatch EXCEPT !.count = client[c].count]
<1>1. client' = [client EXCEPT ![c] = x] /\ UNCHANGED <<setting, actor, cache>>
  BY DEF Return
<1>2. /\ x \in ClientState /\ x.at = "idle" /\ x.count = client[c].count
      /\ x.batch = << >> /\ x.futures = << >>
  BY ClientFacts, NoBatchOk
<1> HIDE DEF x
<1>3. ClientOk(c)'
  BY <1>1, <1>2, ClientFacts DEF ClientOk
<1>4. x.count >= client[c].count /\ x.at # "gathering"
  BY <1>2, ClientFacts
<1> QED BY <1>1, <1>2, <1>3, <1>4, BatchOver

LEMMA GatherKeeps == ASSUME Own, NEW c \in Clients, Gather(c) PROVE Own'
<1> DEFINE x == [client[c] EXCEPT !.at = "done"]
<1>1. /\ client' = [client EXCEPT ![c] = x] /\ UNCHANGED <<setting, actor, cache>>
      /\ \A i \in DOMAIN client[c].futures : client[c].futures[i] \notin {{}, {{}}}
  BY ClientFacts DEF Gather
<1>2. /\ x \in ClientState /\ x.at = "done" /\ x.count = client[c].count
      /\ x.batch = client[c].batch /\ x.futures = client[c].futures
      /\ x.found = client[c].found
  BY ClientFacts DEF ClientState
<1> HIDE DEF x
<1>3. ASSUME NEW i \in DOMAIN client[c].batch PROVE UNION client[c].futures[i] # {}
  <2>1. client[c].futures[i] \notin {{}, {{}}}
    BY <1>1, ClientFacts DEF ClientOk
  <2>2. PICK value \in client[c].futures[i] : value # {}
    BY <2>1
  <2> QED BY <2>2
<1>4. ClientOk(c)'
  BY <1>1, <1>2, <1>3, ClientFacts DEF ClientOk, Answers
<1>5. x.count >= client[c].count /\ x.at # "gathering"
  BY <1>2, ClientFacts
<1> QED BY <1>1, <1>2, <1>4, <1>5, BatchOver

(* A batch that was run in the process. *)
LEMMA RunHere ==
    ASSUME Own, UNCHANGED <<setting, actor, cache>>, NEW c \in Clients,
           NEW b \in Batches \cup {<< >>}, NEW n \in Nat, n >= client[c].count,
           NEW here \in BOOLEAN, NEW found \in BOOLEAN, found => here,
           client' = [client EXCEPT ![c] =
                [at |-> "done", batch |-> b, count |-> n, found |-> found,
                 futures |-> [i \in DOMAIN b |-> {{InProcess(b[i], here)}}]]]
    PROVE  Own'
<1> DEFINE futures == [i \in DOMAIN b |-> {{InProcess(b[i], here)}}]
           x == [at |-> "done", batch |-> b, count |-> n, found |-> found,
                 futures |-> futures]
<1>1. ASSUME NEW i \in DOMAIN b
      PROVE  InProcess(b[i], here) \in Results /\ Answers(b[i], InProcess(b[i], here), found)
  <2>1. b[i] \in Scenarios
    BY BatchesAreSeqs
  <2>2. \E status \in Statuses, scored \in BOOLEAN :
            /\ InProcess(b[i], here) = Result(b[i], status, scored)
            /\ here => (status = "completed") = (b[i].kind # "wild")
    BY DEF InProcess, Statuses
  <2> QED BY <2>1, <2>2, BareResult DEF Answers
<1>2. futures \in Seq(SUBSET SUBSET Results) /\ DOMAIN futures = DOMAIN b
  <2>1. \A i \in DOMAIN b : {{InProcess(b[i], here)}} \in SUBSET SUBSET Results
    BY <1>1
  <2>2. DOMAIN b = 1..Len(b) /\ Len(b) \in Nat
    BY BatchesAreSeqs
  <2> QED BY <2>1, <2>2, IsASeq
<1>3. \A i \in DOMAIN b : futures[i] = {{InProcess(b[i], here)}}
  OBVIOUS
<1> HIDE DEF futures
<1>4. /\ x \in ClientState /\ x.at = "done" /\ x.count = n /\ x.batch = b
      /\ x.futures = futures /\ x.found = found
  BY <1>2 DEF ClientState
<1>5. client' = [client EXCEPT ![c] = x]
  BY DEF futures
<1> HIDE DEF x
<1>6. ASSUME NEW i \in DOMAIN b
      PROVE  /\ \A value \in futures[i] : \A r \in value : Answers(b[i], r, found)
             /\ UNION futures[i] # {}
  BY <1>1, <1>3
<1>7. ClientOk(c)'
  BY <1>2, <1>4, <1>5, <1>6, ClientFacts DEF ClientOk, Answers
<1> QED BY <1>4, <1>5, <1>7, ClientFacts, BatchOver

LEMMA FallBackKeeps == ASSUME Own, NEW c \in Clients, FallBack(c) PROVE Own'
<1> DEFINE b == client[c].batch
           futures == [i \in DOMAIN b |-> {{InProcess(b[i], TRUE)}}]
<1>1. UNCHANGED <<setting, actor, cache>>
  BY DEF FallBack
<1>2. client' = [client EXCEPT ![c].at = "done", ![c].futures = futures]
  BY ClientFacts DEF FallBack, FallBackResult, ClientOk
<1> HIDE DEF futures
<1>3. client' = [client EXCEPT ![c] =
            [at |-> "done", batch |-> b, count |-> client[c].count,
             found |-> client[c].found, futures |-> futures]]
  <2> DEFINE x == [client[c] EXCEPT !.at = "done", !.futures = futures]
  <2>1. client' = [client EXCEPT ![c] = x]
    BY <1>2, ClientFacts
  <2>2. x = [at |-> "done", batch |-> b, count |-> client[c].count,
             found |-> client[c].found, futures |-> futures]
    <3>1. x \in [at : {"done"}, batch : {b}, count : {client[c].count},
                 found : {client[c].found}, futures : {futures}]
      BY ClientFacts DEF ClientState
    <3> HIDE DEF x
    <3> QED BY <3>1, Zenon
  <2> QED BY <2>1, <2>2
<1>4. /\ b \in Batches \cup {<< >>} /\ client[c].count \in Nat
      /\ client[c].count >= client[c].count
      /\ client[c].found \in BOOLEAN /\ (client[c].found => TRUE)
  BY ClientFacts DEF ClientState
<1> QED BY <1>1, <1>3, <1>4, RunHere DEF futures

LEMMA NotFoundKeeps == ASSUME Own, NEW c \in Clients, NotFound(c) PROVE Own'
<1>1. UNCHANGED <<setting, actor, cache>>
  BY DEF NotFound
<1>2. PICK b \in Batches :
        client' = [client EXCEPT ![c] =
            [at |-> "done", batch |-> b, count |-> client[c].count + 1, found |-> FALSE,
             futures |-> [i \in DOMAIN b |-> {{InProcess(b[i], FALSE)}}]]]
  BY DEF NotFound
<1>3. client[c].count + 1 \in Nat /\ client[c].count + 1 >= client[c].count
  BY ClientFacts
<1>4. b \in Batches \cup {<< >>}
  OBVIOUS
<1> QED BY <1>1, <1>2, <1>3, <1>4, RunHere

(* A process that comes back has neither a batch nor actors.                *)
LEMMA RestartKeeps == ASSUME Own, NEW c \in Clients, Restart(c) PROVE Own'
<1> DEFINE x == [NoBatch EXCEPT !.count = client[c].count]
<1>1. /\ client' = [client EXCEPT ![c] = x] /\ UNCHANGED <<setting, cache>>
      /\ actor' = [a \in Actors |-> IF a[1] = c THEN Unborn ELSE actor[a]]
  BY DEF Restart
<1>2. /\ x \in ClientState /\ x.at = "idle" /\ x.count = client[c].count
      /\ x.batch = << >> /\ x.futures = << >>
  BY ClientFacts, NoBatchOk
<1> HIDE DEF x
<1>3. Unborn \in ActorState /\ Unborn.at = "unborn" /\ Unborn.queue = <<>>
  BY EmptySeq DEF Unborn, NoTask, ActorState
<1>4. actor' \in [Actors -> ActorState]
  BY <1>1, <1>3, ActorFacts
<1>5. ASSUME NEW a \in Actors PROVE ActorOk(a)'
  <2>1. CASE a[1] = c
    <3>1. actor'[a] = Unborn
      BY <1>1, <2>1
    <3> QED BY <1>3, <3>1 DEF ActorOk, Working
  <2>2. CASE a[1] # c
    <3>1. actor'[a] = actor[a] /\ client'[a[1]] = client[a[1]]
      BY <1>1, <2>2, ActorFacts, ClientFacts
    <3>2. \A s, r : Earned(s, r) => Earned(s, r)'
      BY <1>1 DEF Earned
    <3> QED BY <3>1, <3>2, ActorFacts DEF ActorOk, Working, Handed, Earned
  <2> QED BY <2>1, <2>2
<1>6. ClientOk(c)'
  BY <1>1, <1>2, ClientFacts DEF ClientOk
<1>7. client' \in [Clients -> ClientState] /\ \A d \in Clients : ClientOk(d)'
  BY <1>1, <1>2, <1>6, OneClient
<1> QED BY <1>1, <1>4, <1>5, <1>7, CacheStays DEF Own, Shapes

LEMMA BornOk ==
    ASSUME NEW loaded \in BOOLEAN
    PROVE  /\ Born(loaded) \in ActorState
           /\ Born(loaded).at = "idle" /\ Born(loaded).queue = << >>
BY EmptySeq DEF Born, Unborn, NoTask, ActorState

(* A new batch: what is dealt is of it, what was dealt before is of one     *)
(* with a smaller number.                                                   *)
LEMMA SubmitKeeps == ASSUME Own, NEW c \in Clients, Submit(c) PROVE Own'
<1> DEFINE number == client[c].count + 1
           dead(i) == actor[<<c, Place(i)>>].at = "dead"
<1>1. PICK b \in Batches, broken \in SUBSET (1..PoolSize) :
        /\ client' = [client EXCEPT ![c] =
              [at |-> "gathering", batch |-> b, count |-> number, found |-> TRUE,
               futures |-> [i \in DOMAIN b |-> IF dead(i) THEN {{}} ELSE {}]]]
        /\ actor' = [a \in Actors |->
              IF a[1] # c \/ actor[a].at = "dead" THEN actor[a]
              ELSE [IF actor[<<c, a[2]>>].at = "unborn"
                      THEN Born(Registered /\ a[2] \notin broken)
                      ELSE actor[<<c, a[2]>>]
                    EXCEPT !.queue = @ \o Tasks(b, number, a[2])]]
  BY DEF Submit, FutureOf
<1>2. UNCHANGED <<setting, cache>> /\ client[c].at = "idle" /\ number \in Nat
  BY ClientFacts DEF Submit
<1> DEFINE futures == [i \in DOMAIN b |-> IF dead(i) THEN {{}} ELSE {}]
           x == [at |-> "gathering", batch |-> b, count |-> number, found |-> TRUE,
                 futures |-> futures]
<1>3. DOMAIN b = 1..Len(b) /\ Len(b) \in Nat
  BY BatchesAreSeqs
<1>4. futures \in Seq(SUBSET SUBSET Results) /\ DOMAIN futures = DOMAIN b
  BY <1>3, IsASeq
<1>5. \A i \in DOMAIN b : futures[i] \in {{{}}, {}}
  OBVIOUS
<1>6. client' = [client EXCEPT ![c] = x]
  BY <1>1
<1> HIDE DEF futures, number
<1>7. /\ x \in ClientState /\ x.at = "gathering" /\ x.batch = b /\ x.count = number
      /\ x.futures = futures
  BY <1>2, <1>4 DEF ClientState
<1> HIDE DEF x
<1>8. client'[c] = x
  BY <1>6, ClientFacts
<1>9. ClientOk(c)'
  BY <1>4, <1>5, <1>7, <1>8 DEF ClientOk
<1>10. client' \in [Clients -> ClientState] /\ \A d \in Clients : ClientOk(d)'
  BY <1>2, <1>6, <1>7, <1>9, OneClient
<1> DEFINE After(t) == /\ t.batch <= client'[c].count
                       /\ client'[c].at = "gathering" /\ t.batch = client'[c].count =>
                            t.i \in DOMAIN client'[c].batch /\ t.s = client'[c].batch[t.i]
<1>11. ASSUME NEW t \in Task, Handed(c, t) PROVE After(t)
  BY <1>2, <1>7, <1>8, <1>11, ClientFacts DEF Handed, Task, number
<1> HIDE DEF After
<1>12. \A s, r : Earned(s, r) => Earned(s, r)'
  BY <1>2 DEF Earned
<1>13. ASSUME NEW a \in Actors PROVE actor'[a] \in ActorState /\ ActorOk(a)'
  <2>1. CASE a[1] # c
    <3>1. actor'[a] = actor[a] /\ client'[a[1]] = client[a[1]]
      BY <1>1, <1>6, <2>1, ActorFacts, ClientFacts
    <3> QED BY <1>12, <3>1, ActorFacts DEF ActorOk, Working, Handed, Earned
  <2>2. CASE a[1] = c /\ actor[a].at = "dead"
    <3>1. actor'[a] = actor[a]
      BY <1>1, <2>2
    <3>2. \A j \in 1..Len(actor[a].queue) : After(actor[a].queue[j])
      BY <1>11, <2>2, ActorFacts DEF ActorOk
    <3> QED BY <2>2, <3>1, <3>2, ActorFacts DEF ActorOk, Working, Handed, After
  <2>3. CASE a[1] = c /\ actor[a].at # "dead"
    <3>k. a[2] \in 1..PoolSize /\ a = <<c, a[2]>>
      BY <2>3 DEF Actors
    <3> DEFINE dealt == Tasks(b, number, a[2])
    <3>1. PICK y : /\ y = IF actor[a].at = "unborn"
                             THEN Born(Registered /\ a[2] \notin broken) ELSE actor[a]
                   /\ actor'[a] = [y EXCEPT !.queue = @ \o dealt]
      BY <1>1, <2>3, <3>k
    <3>2. /\ y \in ActorState
          /\ \A j \in 1..Len(y.queue) : Handed(c, y.queue[j])
          /\ y.at \notin {"unborn", "idle", "dead"} =>
                y.task \in Task /\ Handed(c, y.task)
          /\ y.at \in {"storing", "saving"} =>
                y.result # {} /\ \A r \in y.result : Earned(y.task.s, r)
      <4>1. CASE y = Born(Registered /\ a[2] \notin broken)
        <5>1. (Registered /\ a[2] \notin broken) \in BOOLEAN
          OBVIOUS
        <5>2. y \in ActorState /\ y.at = "idle" /\ y.queue = << >>
          BY <4>1, <5>1, BornOk
        <5> QED BY <5>2
      <4>2. CASE y = actor[a]
        BY <2>3, <4>2, ActorFacts DEF ActorOk, Working
      <4> QED BY <3>1, <4>1, <4>2
    <3>3. /\ dealt \in Seq(Task)
          /\ \A j \in 1..Len(dealt) : After(dealt[j])
      <4>1. /\ dealt \in Seq(Task)
            /\ \A j \in 1..Len(dealt) :
                 /\ dealt[j].batch = number
                 /\ dealt[j].i \in DOMAIN b /\ dealt[j].s = b[dealt[j].i]
        <5>1. \A n \in Nat, k \in 1..PoolSize :
                /\ Tasks(b, n, k) \in Seq(Task)
                /\ \A j \in 1..Len(Tasks(b, n, k)) :
                     /\ Tasks(b, n, k)[j].batch = n
                     /\ Tasks(b, n, k)[j].i \in DOMAIN b
                     /\ Tasks(b, n, k)[j].s = b[Tasks(b, n, k)[j].i]
          BY Dealt
        <5>2. number \in Nat /\ a[2] \in 1..PoolSize
          BY <1>2, <3>k
        <5> QED BY <5>1, <5>2
      <4>2. number <= number
        BY <1>2
      <4> HIDE DEF dealt
      <4> QED BY <1>7, <1>8, <4>1, <4>2 DEF After
    <3> HIDE DEF dealt
    <3>4. /\ y.queue \o dealt \in Seq(Task)
          /\ \A j \in 1..Len(y.queue \o dealt) : After((y.queue \o dealt)[j])
      <4>1. y.queue \in Seq(Task)
        BY <3>2 DEF ActorState
      <4>2. \A j \in 1..Len(y.queue) : After(y.queue[j])
        BY <1>11, <3>2, <4>1
      <4> QED BY <3>3, <4>1, <4>2
    <3>5. /\ actor'[a] \in ActorState /\ actor'[a].queue = y.queue \o dealt
          /\ actor'[a].at = y.at /\ actor'[a].task = y.task /\ actor'[a].result = y.result
      BY <3>1, <3>2, <3>4 DEF ActorState
    <3>6. y.at \notin {"unborn", "idle", "dead"} => After(y.task)
      BY <1>11, <3>2
    <3> QED BY <1>12, <2>3, <3>2, <3>4, <3>5, <3>6 DEF ActorOk, Working, Handed, After, Earned
  <2> QED BY <2>1, <2>2, <2>3
<1>14. actor' \in [Actors -> ActorState]
  BY <1>1, <1>13
<1> QED BY <1>2, <1>10, <1>13, <1>14, CacheStays DEF Own, Shapes

-----------------------------------------------------------------------------
LEMMA OwnFirst == Init => Own
<1> SUFFICES ASSUME Init PROVE Own
  OBVIOUS
<1>1. NoBatch \in ClientState /\ NoBatch.batch = << >> /\ NoBatch.futures = << >>
      /\ NoBatch.at = "idle"
  BY EmptySeq DEF NoBatch, ClientState
<1>2. Unborn \in ActorState /\ Unborn.at = "unborn" /\ Unborn.queue = << >>
  BY EmptySeq DEF Unborn, NoTask, ActorState
<1>3. DOMAIN cache = {}
  BY DEF Init
<1>4. Shapes /\ CacheOk
  BY <1>1, <1>2, <1>3 DEF Init, Shapes, CacheOk
<1>5. \A c \in Clients : ClientOk(c)
  BY <1>1 DEF Init, ClientOk
<1>6. \A a \in Actors : ActorOk(a)
  BY <1>2 DEF Init, ActorOk, Working
<1> QED BY <1>4, <1>5, <1>6 DEF Own

(* Every step keeps Own, and a cache entry its verdict. *)
LEMMA OwnStep ==
    ASSUME Own, [Next]_vars
    PROVE  /\ Own'
           /\ setting.mode = "none" =>
                \A h \in DOMAIN cache \cap DOMAIN cache' : cache'[h].status = cache[h].status
<1>0. ASSUME Own', UNCHANGED cache
      PROVE  /\ Own'
             /\ setting.mode = "none" =>
                  \A h \in DOMAIN cache \cap DOMAIN cache' : cache'[h].status = cache[h].status
  BY <1>0
<1>1. ASSUME NEW c \in Clients, Submit(c) PROVE Own' /\ UNCHANGED cache
  BY <1>1, SubmitKeeps DEF Submit
<1>2. ASSUME NEW c \in Clients, NotFound(c) PROVE Own' /\ UNCHANGED cache
  BY <1>2, NotFoundKeeps DEF NotFound
<1>3. ASSUME NEW c \in Clients, Return(c) PROVE Own' /\ UNCHANGED cache
  BY <1>3, ReturnKeeps DEF Return
<1>4. ASSUME NEW c \in Clients, Restart(c) PROVE Own' /\ UNCHANGED cache
  BY <1>4, RestartKeeps DEF Restart
<1>5. ASSUME NEW c \in Clients, Gather(c) PROVE Own' /\ UNCHANGED cache
  BY <1>5, GatherKeeps DEF Gather
<1>6. ASSUME NEW c \in Clients, FallBack(c) PROVE Own' /\ UNCHANGED cache
  BY <1>6, FallBackKeeps DEF FallBack
<1>7. ASSUME NEW a \in Actors, Look(a) PROVE Own' /\ UNCHANGED cache
  BY <1>7, LookKeeps DEF Look
<1>8. ASSUME NEW a \in Actors, Simulate(a) PROVE Own' /\ UNCHANGED cache
  BY <1>8, SimulateKeeps DEF Simulate
<1>9. ASSUME NEW a \in Actors, Store(a) PROVE Own' /\ UNCHANGED cache
  BY <1>9, StoreKeeps DEF Store
<1>10. ASSUME NEW a \in Actors, Die(a) PROVE Own' /\ UNCHANGED cache
  BY <1>10, DieKeeps DEF Die
<1>11. CASE Expire
  <2>1. /\ UNCHANGED <<setting, client, actor>> /\ DOMAIN cache' \subseteq DOMAIN cache
        /\ \A h \in DOMAIN cache' : cache'[h] = cache[h]
    BY <1>11 DEF Expire
  <2>2. Shapes' /\ CacheOk'
    BY <2>1 DEF Own, Shapes, CacheOk, Earned
  <2>3. \A c \in Clients : ClientOk(c)'
    BY <2>1 DEF Own, ClientOk, Answers
  <2>4. \A a \in Actors : ActorOk(a)'
    BY <2>1 DEF Own, ActorOk, Working, Handed, Earned
  <2> QED BY <2>1, <2>2, <2>3, <2>4 DEF Own
<1>12. CASE UNCHANGED vars
  <2>1. UNCHANGED <<setting, client, actor, cache>>
    BY <1>12 DEF vars
  <2>2. Shapes' /\ CacheOk'
    BY <2>1 DEF Own, Shapes, CacheOk, Earned
  <2>3. \A c \in Clients : ClientOk(c)'
    BY <2>1 DEF Own, ClientOk, Answers
  <2>4. \A a \in Actors : ActorOk(a)'
    BY <2>1 DEF Own, ActorOk, Working, Handed, Earned
  <2> QED BY <2>1, <2>2, <2>3, <2>4 DEF Own
<1>13. ASSUME NEW a \in Actors, Save(a)
       PROVE  /\ Own'
              /\ setting.mode = "none" =>
                    \A h \in DOMAIN cache \cap DOMAIN cache' : cache'[h].status = cache[h].status
  BY <1>13, SaveKeeps
<1> QED BY <1>0, <1>1, <1>2, <1>3, <1>4, <1>5, <1>6, <1>7, <1>8, <1>9, <1>10, <1>11,
           <1>12, <1>13
        DEF Next, Step

LEMMA AlwaysOwn == Spec => []Own
BY OwnFirst, OwnStep, PTL DEF Spec

(* An answer that is there is one of those that may be. *)
LEMMA AnswersThere ==
    ASSUME Own, NEW c \in Clients, NEW i \in Returned(c)
    PROVE  /\ i \in DOMAIN client[c].batch
           /\ Answers(client[c].batch[i], Answer(c, i), client[c].found)
           /\ Answer(c, i).status \in Statuses
<1>1. i \in DOMAIN client[c].batch /\ client[c].at = "done"
  BY DEF Returned
<1>2. Answer(c, i) \in UNION client[c].futures[i]
  BY <1>1, ClientFacts DEF ClientOk, Answer
<1>3. client[c].futures[i] \in SUBSET SUBSET Results
  BY <1>1, ClientFacts DEF ClientOk
<1> QED BY <1>1, <1>2, <1>3, ClientFacts DEF ClientOk, Results

(* The i-th result of a batch is of its i-th scenario, for any number of    *)
(* processes that share the cache, of actors that die, and of batches given *)
(* up while their tasks go on.                                              *)
THEOREM OwnAnswers == Spec => []AnswersOwn
<1>1. Own => AnswersOwn
  BY AnswersThere DEF AnswersOwn, Answers
<1> QED BY <1>1, AlwaysOwn, PTL

(* A feasible scenario has the verdict of its pack, which way ever its      *)
(* result came: that _run_batch_inprocess is another program than           *)
(* SimulationWorker.simulate makes no difference to it.                     *)
THEOREM OnePath == Spec => []PathsAgree
<1>1. Own => PathsAgree
  BY AnswersThere DEF PathsAgree, Answers, Returned
<1> QED BY <1>1, AlwaysOwn, PTL

(* Whoever saves a result again, a cache entry keeps its verdict. *)
THEOREM VerdictStays == Spec => CacheKeepsVerdict
<1>1. Own /\ [Next]_vars =>
        [setting.mode = "none" =>
            \A h \in DOMAIN cache \cap DOMAIN cache' : cache'[h].status = cache[h].status]_vars
  BY OwnStep
<1> QED BY <1>1, AlwaysOwn, PTL DEF Spec, CacheKeepsVerdict

-----------------------------------------------------------------------------
(* Type correctness.  There is at most one answer to a task, and of one     *)
(* result at most: a future is settled by one of the ways in which a task   *)
(* ends.  An actor has a task exactly while it works, a result exactly from *)
(* the simulation to the cache, and nothing before it lives and after.      *)
Single(S) == S = {} \/ \E x : S = {x}

Answered(c) ==
    /\ client[c].count \in 0..MaxBatches
    /\ \A i \in DOMAIN client[c].futures :
          /\ Single(client[c].futures[i])
          /\ \A value \in client[c].futures[i] : Single(value)

Manned(a) ==
    /\ actor[a].at \in {"unborn", "dead"} => actor[a] = [Unborn EXCEPT !.at = actor[a].at]
    /\ actor[a].at \in {"unborn", "idle", "dead"} => actor[a].task = NoTask
    /\ actor[a].at \notin {"storing", "saving"} => actor[a].result = {}
    /\ \A r \in actor[a].result : ~r.cached

Kept ==
    /\ DOMAIN cache \subseteq {Key(s) : s \in Scenarios}
    /\ \A h \in DOMAIN cache : ~cache[h].cached
    /\ store \subseteq {Object(s) : s \in Scenarios}
    /\ faults \in 0..MaxFaults

Typed ==
    /\ \A c \in Clients : Answered(c)
    /\ \A a \in Actors : Manned(a)
    /\ Kept

LEMMA Singles ==
    /\ Single({}) /\ \A x : Single({x})
    /\ \A S : Single(S) => Cardinality(S) <= 1
<1>1. Single({}) /\ \A x : Single({x})
  BY DEF Single
<1>2. ASSUME NEW S, Single(S) PROVE Cardinality(S) <= 1
  <2>1. CASE S = {}
    BY <2>1, FS_EmptySet
  <2>2. ASSUME NEW x, S = {x} PROVE Cardinality(S) <= 1
    BY <2>2, FS_Singleton
  <2> QED BY <1>2, <2>1, <2>2 DEF Single
<1> QED BY <1>1, <1>2

LEMMA Faulty ==
    ASSUME Typed, NEW n \in Nat, Faults(n)
    PROVE  faults' \in 0..MaxFaults
BY FabricAssumption DEF Faults, Typed, Kept

LEMMA Outages == ASSUME Typed, NEW down \in BOOLEAN, Outage(down)
                 PROVE  faults' \in 0..MaxFaults
<1>1. (IF down THEN 1 ELSE 0) \in Nat
  OBVIOUS
<1> QED BY <1>1, Faulty DEF Outage

(* Futures are settled by sets of at most one result. *)
LEMMA SettledOnce ==
    ASSUME Own, Typed, NEW c \in Clients, NEW settled,
           \A f \in settled : Single(f.value), client' = Settled(c, settled)
    PROVE  \A d \in Clients : Answered(d)'
<1> DEFINE news(i) == {f \in settled : /\ client[c].at = "gathering"
                                       /\ f.batch = client[c].count /\ f.i = i}
           got(i) == IF news(i) = {} THEN client[c].futures[i]
                                       ELSE {(CHOOSE f \in news(i) : TRUE).value}
           futures == [i \in DOMAIN client[c].futures |-> got(i)]
<1>1. client \in [Clients -> ClientState] /\ client[c] \in ClientState
  BY ClientFacts
<1>2. client' = [client EXCEPT ![c].futures = futures]
  BY DEF Settled
<1>3. ASSUME NEW i \in DOMAIN client[c].futures
      PROVE  Single(got(i)) /\ \A value \in got(i) : Single(value)
  <2>1. CASE news(i) = {}
    BY <2>1 DEF Typed, Answered
  <2>2. CASE news(i) # {}
    <3>1. PICK f \in settled : got(i) = {f.value}
      BY <2>2
    <3> HIDE DEF got
    <3> QED BY <3>1, Singles
  <2> QED BY <2>1, <2>2
<1>4. DOMAIN futures = DOMAIN client[c].futures /\ \A i \in DOMAIN futures : futures[i] = got(i)
  OBVIOUS
<1> HIDE DEF futures, got
<1>5. /\ client'[c].count = client[c].count /\ client'[c].futures = futures
      /\ \A d \in Clients : d # c => client'[d] = client[d]
  BY <1>1, <1>2 DEF ClientState
<1>6. Answered(c)'
  BY <1>3, <1>4, <1>5 DEF Typed, Answered
<1> QED BY <1>5, <1>6 DEF Typed, Answered

LEMMA SettledOne ==
    ASSUME Own, Typed, NEW c \in Clients, NEW t, NEW value, Single(value),
           client' = Settled(c, {Future(t, value)})
    PROVE  \A d \in Clients : Answered(d)'
<1> DEFINE settled == {Future(t, value)}
<1>1. \A f \in settled : Single(f.value)
  BY DEF Future
<1>2. client' = Settled(c, settled)
  OBVIOUS
<1> HIDE DEF settled
<1> QED BY <1>1, <1>2, SettledOnce

LEMMA OneManned ==
    ASSUME Own, Typed, NEW a \in Actors, NEW x, actor' = [actor EXCEPT ![a] = x],
           Manned(a)'
    PROVE  \A b \in Actors : Manned(b)'
<1>1. \A b \in Actors : b # a => actor'[b] = actor[b]
  BY DEF Own, Shapes
<1> QED BY <1>1 DEF Typed, Manned

LEMMA OneAnswered ==
    ASSUME Own, Typed, NEW c \in Clients, NEW x, client' = [client EXCEPT ![c] = x],
           x.count \in 0..MaxBatches,
           \A i \in DOMAIN x.futures :
              Single(x.futures[i]) /\ \A value \in x.futures[i] : Single(value)
    PROVE  \A d \in Clients : Answered(d)'
<1>1. client'[c] = x /\ \A d \in Clients : d # c => client'[d] = client[d]
  BY DEF Own, Shapes
<1>2. Answered(c)'
  BY <1>1 DEF Answered
<1> QED BY <1>1, <1>2 DEF Typed, Answered

(* What is not touched stays as it was. *)
LEMMA SameClients == ASSUME Typed, UNCHANGED client PROVE \A c \in Clients : Answered(c)'
BY DEF Typed, Answered

LEMMA SameActors == ASSUME Typed, UNCHANGED actor PROVE \A a \in Actors : Manned(a)'
BY DEF Typed, Manned

LEMMA SameStores ==
    ASSUME Typed, UNCHANGED <<cache, store>>, faults' \in 0..MaxFaults
    PROVE  Kept'
BY DEF Typed, Kept

(* The steps of an actor. *)
LEMMA LookTyped == ASSUME Own, Typed, NEW a \in Actors, Look(a) PROVE Typed'
<1> DEFINE task == Head(actor[a].queue)
           h == Key(task.s)
           hit == [cache[h] EXCEPT !.cached = TRUE]
<1>1. /\ actor[a].at = "idle" /\ UNCHANGED <<setting, cache, store>> /\ Manned(a)
  BY DEF Look, Typed
<1>2. faults' \in 0..MaxFaults
  BY Outages DEF Look
<1>3. Kept'
  BY <1>1, <1>2, SameStores
<1>4. CASE /\ client' = Settled(a[1], {Future(task, {hit})})
           /\ actor' = [actor EXCEPT ![a].queue = Tail(@)]
  <2>1. Single({hit}) /\ a[1] \in Clients
    BY Singles DEF Actors
  <2> DEFINE x == [actor[a] EXCEPT !.queue = Tail(@)]
  <2>2. actor' = [actor EXCEPT ![a] = x] /\ actor'[a] = x
    BY <1>4 DEF Own, Shapes
  <2>3. x.at = "idle" /\ x.task = actor[a].task /\ x.result = actor[a].result
    BY <1>1, ActorFacts DEF ActorState
  <2> HIDE DEF x, hit
  <2>4. Manned(a)'
    BY <1>1, <2>2, <2>3 DEF Manned
  <2> QED BY <1>3, <1>4, <2>1, <2>2, <2>4, SettledOne, OneManned DEF Typed
<1>5. CASE /\ UNCHANGED client
           /\ actor' = [actor EXCEPT ![a].queue = Tail(@), ![a].task = task, ![a].at = "running"]
  <2> DEFINE x == [actor[a] EXCEPT !.queue = Tail(@), !.task = task, !.at = "running"]
  <2>2. actor' = [actor EXCEPT ![a] = x] /\ actor'[a] = x
    BY <1>5 DEF Own, Shapes
  <2>3. x.at = "running" /\ x.result = actor[a].result
    BY ActorFacts DEF ActorState
  <2> HIDE DEF x
  <2>4. Manned(a)'
    BY <1>1, <2>2, <2>3 DEF Manned
  <2> QED BY <1>3, <1>5, <2>2, <2>4, SameClients, OneManned DEF Typed
<1> QED BY <1>4, <1>5 DEF Look

LEMMA FreedTyped ==
    ASSUME Own, Typed, NEW a \in Actors, actor' = Freed(a)
    PROVE  \A b \in Actors : Manned(b)'
<1> DEFINE x == [actor[a] EXCEPT !.at = "idle", !.task = NoTask, !.result = {}]
<1>1. actor' = [actor EXCEPT ![a] = x] /\ actor'[a] = x
  BY DEF Freed, Own, Shapes
<1>2. x.at = "idle" /\ x.task = NoTask /\ x.result = {}
  BY ActorFacts DEF ActorState
<1> HIDE DEF x
<1>3. Manned(a)'
  BY <1>1, <1>2 DEF Manned
<1> QED BY <1>1, <1>3, OneManned

(* An actor that has a result. *)
LEMMA HoldingTyped ==
    ASSUME Own, Typed, NEW a \in Actors, NEW at \in {"storing", "saving"}, NEW result,
           \A r \in result : ~r.cached,
           actor' = [actor EXCEPT ![a].result = result, ![a].at = at]
    PROVE  \A b \in Actors : Manned(b)'
<1> DEFINE x == [actor[a] EXCEPT !.result = result, !.at = at]
<1>1. actor' = [actor EXCEPT ![a] = x] /\ actor'[a] = x
  BY DEF Own, Shapes
<1>2. x.at = at /\ x.result = result
  BY ActorFacts DEF ActorState
<1> HIDE DEF x
<1>3. Manned(a)'
  BY <1>1, <1>2 DEF Manned
<1> QED BY <1>1, <1>3, OneManned

LEMMA Uncached ==
    ASSUME setting.mode \in Modes, NEW s \in Scenarios,
           NEW r \in RunSimulation(s) \cup Isolated(s)
    PROVE  r \in Results /\ ~r.cached
<1>1. \E status, scored : r = Result(s, status, scored)
  BY FabricAssumption DEF RunSimulation, Isolated, NoIsolation, Subprocess
<1>2. ~r.cached
  BY <1>1 DEF Result
<1> QED BY <1>2, EarnedHere

LEMMA SimulateTyped == ASSUME Own, Typed, NEW a \in Actors, Simulate(a) PROVE Typed'
<1> DEFINE task == actor[a].task
           may  == IF actor[a].loaded THEN RunSimulation(task.s) ELSE Isolated(task.s)
<1>1. /\ actor[a].at = "running" /\ Working(a) /\ a[1] \in Clients
      /\ UNCHANGED <<setting, cache, store, faults>>
  BY DEF Simulate, Working, Actors
<1>2. task.s \in Scenarios
  BY <1>1, ActorFacts DEF ActorOk, Task
<1>3. Kept'
  BY <1>1 DEF Typed, Kept
<1>4. CASE client' = Settled(a[1], {Future(task, {})}) /\ actor' = Freed(a)
  <2> HIDE DEF task
  <2> QED BY <1>1, <1>3, <1>4, Singles, SettledOne, FreedTyped DEF Typed
<1>5. ASSUME NEW r \in may, UNCHANGED client,
             actor' = [actor EXCEPT
                    ![a].result = {[r EXCEPT !.report = Violations(task.s, r)]},
                    ![a].at = IF r.status = "completed" THEN "storing" ELSE "saving"]
      PROVE  Typed'
  <2> DEFINE full == [r EXCEPT !.report = Violations(task.s, r)]
             result == {full}
             at == IF r.status = "completed" THEN "storing" ELSE "saving"
  <2>1. r \in Results /\ ~r.cached
    BY <1>2, Uncached, ActorFacts
  <2>2. ~full.cached
    BY <2>1 DEF Results
  <2> HIDE DEF full
  <2>3. at \in {"storing", "saving"} /\ \A q \in result : ~q.cached
    BY <2>2
  <2>4. actor' = [actor EXCEPT ![a].result = result, ![a].at = at]
    BY <1>5 DEF full
  <2> HIDE DEF result, at
  <2>5. \A b \in Actors : Manned(b)'
    BY <2>3, <2>4, HoldingTyped
  <2> QED BY <1>3, <1>5, <2>5, SameClients DEF Typed
<1> HIDE DEF may
<1> QED BY <1>4, <1>5 DEF Simulate, may

LEMMA StoreTyped == ASSUME Own, Typed, NEW a \in Actors, Store(a) PROVE Typed'
<1>1. actor[a].at = "storing" /\ Working(a) /\ UNCHANGED <<setting, client, cache>>
  BY DEF Store, Working
<1>2. PICK down \in BOOLEAN :
        /\ Outage(down)
        /\ store' = IF down THEN store ELSE store \cup {Object(actor[a].task.s)}
        /\ actor' = [actor EXCEPT ![a].at = "saving",
             ![a].result = {[r EXCEPT !.records = Recorded(actor[a].task.s, down)] : r \in @}]
  BY DEF Store
<1> DEFINE kept == {[r EXCEPT !.records = Recorded(actor[a].task.s, down)] : r \in actor[a].result}
<1>3. ASSUME NEW q \in kept PROVE ~q.cached
  <2>1. PICK r \in actor[a].result : q = [r EXCEPT !.records = Recorded(actor[a].task.s, down)]
    OBVIOUS
  <2>2. r \in Results /\ ~r.cached
    BY ActorFacts DEF Typed, Manned
  <2> QED BY <2>1, <2>2 DEF Results
<1>4. actor' = [actor EXCEPT ![a].result = kept, ![a].at = "saving"]
  BY <1>2, ActorFacts DEF Own, Shapes, ActorState
<1> HIDE DEF kept
<1>5. \A b \in Actors : Manned(b)'
  BY <1>3, <1>4, HoldingTyped
<1>6. actor[a].task.s \in Scenarios
  BY <1>1, ActorFacts DEF ActorOk, Task
<1>7. faults' \in 0..MaxFaults
  BY <1>2, Outages
<1>8. store' \subseteq {Object(s) : s \in Scenarios}
  BY <1>2, <1>6 DEF Typed, Kept
<1>9. Kept'
  BY <1>1, <1>7, <1>8 DEF Typed, Kept
<1> QED BY <1>1, <1>5, <1>9, SameClients DEF Typed

LEMMA SaveTyped == ASSUME Own, Typed, NEW a \in Actors, Save(a) PROVE Typed'
<1> DEFINE task == actor[a].task
           r == CHOOSE x \in actor[a].result : TRUE
<1>1. /\ actor[a].at = "saving" /\ Working(a) /\ actor' = Freed(a) /\ a[1] \in Clients
      /\ UNCHANGED <<setting, store>>
  BY DEF Save, Working, Actors
<1>2. task.s \in Scenarios /\ actor[a].result # {} /\ \A x \in actor[a].result : ~x.cached
  BY <1>1, ActorFacts DEF ActorOk, Task, Typed, Manned
<1>3. ~r.cached
  BY <1>2
<1>4. PICK down \in BOOLEAN :
        /\ Outage(down)
        /\ cache' = IF down THEN cache
                    ELSE [h \in DOMAIN cache \cup {Key(task.s)} |->
                             IF h = Key(task.s) THEN r ELSE cache[h]]
        /\ client' = Settled(a[1], {Future(task, {r})})
  BY DEF Save
<1> HIDE DEF r, task
<1>5. faults' \in 0..MaxFaults
  BY <1>4, Outages
<1>6. /\ DOMAIN cache' \subseteq {Key(s) : s \in Scenarios}
      /\ \A h \in DOMAIN cache' : ~cache'[h].cached
  BY <1>2, <1>3, <1>4 DEF Typed, Kept
<1>7. Kept'
  BY <1>1, <1>5, <1>6 DEF Typed, Kept
<1>8. Single({r})
  BY Singles
<1> QED BY <1>1, <1>4, <1>7, <1>8, SettledOne, FreedTyped DEF Typed

LEMMA DieTyped == ASSUME Own, Typed, NEW a \in Actors, Die(a) PROVE Typed'
<1> DEFINE x == [Unborn EXCEPT !.at = "dead"]
           settled == {Future(t, {}) : t \in Lost(a)}
<1>1. /\ UNCHANGED <<setting, cache, store>> /\ client' = Settled(a[1], settled)
      /\ actor' = [actor EXCEPT ![a] = x] /\ Faults(1) /\ a[1] \in Clients
  BY DEF Die, Actors
<1>2. \A f \in settled : Single(f.value)
  BY Singles DEF Future
<1>3. actor'[a] = x
  BY <1>1 DEF Own, Shapes
<1>4. x.at = "dead" /\ x.task = NoTask /\ x.result = {} /\ x = [Unborn EXCEPT !.at = x.at]
  BY DEF Unborn
<1> HIDE DEF x, settled
<1>5. Manned(a)'
  BY <1>3, <1>4 DEF Manned
<1>6. Kept'
  BY <1>1, Faulty, SameStores
<1> QED BY <1>1, <1>2, <1>5, <1>6, SettledOnce, OneManned DEF Typed

(* The steps of a process. *)
LEMMA SubmitTyped == ASSUME Own, Typed, NEW c \in Clients, Submit(c) PROVE Typed'
<1> DEFINE number == client[c].count + 1
           dead(i) == actor[<<c, Place(i)>>].at = "dead"
<1>1. PICK b \in Batches, broken \in SUBSET (1..PoolSize) :
        /\ Faults(Cardinality(broken))
        /\ client' = [client EXCEPT ![c] =
              [at |-> "gathering", batch |-> b, count |-> number, found |-> TRUE,
               futures |-> [i \in DOMAIN b |-> IF dead(i) THEN {{}} ELSE {}]]]
        /\ actor' = [a \in Actors |->
              IF a[1] # c \/ actor[a].at = "dead" THEN actor[a]
              ELSE [IF actor[<<c, a[2]>>].at = "unborn"
                      THEN Born(Registered /\ a[2] \notin broken)
                      ELSE actor[<<c, a[2]>>]
                    EXCEPT !.queue = @ \o Tasks(b, number, a[2])]]
  BY DEF Submit, FutureOf
<1>2. UNCHANGED <<setting, cache, store>> /\ client[c].count < MaxBatches
  BY DEF Submit, MayHand
<1>3. Kept'
  <2>1. 1..PoolSize \in SUBSET Int /\ IsFiniteSet(1..PoolSize)
    BY FabricAssumption, FS_Interval
  <2>2. IsFiniteSet(broken)
    BY <2>1, FS_Subset
  <2>3. Cardinality(broken) \in Nat
    BY <2>2, FS_CardinalityType
  <2>4. faults' \in 0..MaxFaults
    BY <1>1, <2>3, Faulty
  <2> QED BY <1>2, <2>4, SameStores
<1>4. \A d \in Clients : Answered(d)'
  <2> DEFINE futures == [i \in DOMAIN b |-> IF dead(i) THEN {{}} ELSE {}]
             x == [at |-> "gathering", batch |-> b, count |-> number, found |-> TRUE,
                   futures |-> futures]
  <2>1. \A i \in DOMAIN futures : futures[i] \in {{}, {{}}}
    OBVIOUS
  <2>2. \A i \in DOMAIN futures :
           Single(futures[i]) /\ \A value \in futures[i] : Single(value)
    <3> HIDE DEF futures
    <3> QED BY <2>1, Singles
  <2>3. number \in 0..MaxBatches
    BY <1>2, ClientFacts, FabricAssumption
  <2>4. x.count = number /\ x.futures = futures /\ client' = [client EXCEPT ![c] = x]
    BY <1>1
  <2> HIDE DEF x, futures, number
  <2> QED BY <2>2, <2>3, <2>4, OneAnswered
<1>5. ASSUME NEW a \in Actors PROVE Manned(a)'
  <2>1. CASE a[1] # c \/ actor[a].at = "dead"
    <3>1. actor'[a] = actor[a]
      BY <1>1, <2>1
    <3> QED BY <3>1 DEF Typed, Manned
  <2>2. CASE a[1] = c /\ actor[a].at # "dead"
    <3>1. a = <<c, a[2]>>
      BY <2>2 DEF Actors
    <3>2. PICK y : /\ y = IF actor[a].at = "unborn"
                             THEN Born(Registered /\ a[2] \notin broken) ELSE actor[a]
                   /\ actor'[a] = [y EXCEPT !.queue = @ \o Tasks(b, number, a[2])]
      BY <1>1, <2>2, <3>1
    <3>3. /\ y.at \notin {"unborn", "dead"}
          /\ y.at = "idle" => y.task = NoTask
          /\ y.at \notin {"storing", "saving"} => y.result = {}
          /\ \A r \in y.result : ~r.cached
          /\ {"at", "task", "result"} \subseteq DOMAIN y
      <4>1. CASE actor[a].at = "unborn"
        <5>1. y = Born(Registered /\ a[2] \notin broken)
          BY <3>2, <4>1
        <5> QED BY <5>1 DEF Born, Unborn
      <4>2. CASE actor[a].at # "unborn"
        <5>1. y = actor[a] /\ y \in ActorState
          BY <3>2, <4>2, ActorFacts
        <5>2. {"at", "task", "result"} \subseteq DOMAIN y
          BY <5>1 DEF ActorState
        <5> QED BY <2>2, <4>2, <5>1, <5>2 DEF Typed, Manned
      <4> QED BY <4>1, <4>2
    <3>4. /\ actor'[a].at = y.at /\ actor'[a].task = y.task /\ actor'[a].result = y.result
      BY <3>2, <3>3
    <3> QED BY <3>3, <3>4 DEF Manned
  <2> QED BY <2>1, <2>2
<1> QED BY <1>3, <1>4, <1>5 DEF Typed

LEMMA HereTyped ==
    ASSUME Own, Typed, NEW c \in Clients, NotFound(c) \/ FallBack(c) \/ Gather(c) \/ Return(c)
    PROVE  Typed'
<1>1. UNCHANGED <<setting, actor, cache, store, faults>>
  BY DEF NotFound, FallBack, Gather, Return
<1>2. client[c] \in ClientState /\ client \in [Clients -> ClientState] /\ Answered(c)
  BY ClientFacts DEF Typed
<1>3. \A d \in Clients : Answered(d)'
  <2>1. CASE NotFound(c)
    <3>1. PICK b \in Batches :
            client' = [client EXCEPT ![c] =
                [at |-> "done", batch |-> b, count |-> client[c].count + 1, found |-> FALSE,
                 futures |-> [i \in DOMAIN b |-> {{InProcess(b[i], FALSE)}}]]]
      BY <2>1 DEF NotFound
    <3> DEFINE futures == [i \in DOMAIN b |-> {{InProcess(b[i], FALSE)}}]
               x == [at |-> "done", batch |-> b, count |-> client[c].count + 1,
                     found |-> FALSE, futures |-> futures]
    <3>2. \A i \in DOMAIN futures :
             Single(futures[i]) /\ \A value \in futures[i] : Single(value)
      BY Singles
    <3>3. client[c].count + 1 \in 0..MaxBatches
      BY <2>1, <1>2, FabricAssumption DEF NotFound, MayHand, Answered
    <3>4. /\ x.count = client[c].count + 1 /\ x.futures = futures
          /\ client' = [client EXCEPT ![c] = x]
      BY <3>1
    <3> HIDE DEF x, futures
    <3> QED BY <3>2, <3>3, <3>4, OneAnswered
  <2>2. CASE FallBack(c)
    <3> DEFINE b == client[c].batch
               futures == [i \in DOMAIN client[c].futures |-> {{FallBackResult(b[i])}}]
               x == [client[c] EXCEPT !.at = "done", !.futures = futures]
    <3>1. \A i \in DOMAIN futures :
             Single(futures[i]) /\ \A value \in futures[i] : Single(value)
      BY Singles
    <3>2. client' = [client EXCEPT ![c] = x]
      BY <2>2, <1>2 DEF FallBack
    <3> HIDE DEF futures
    <3>3. x.count = client[c].count /\ x.futures = futures
      BY <1>2 DEF ClientState
    <3> HIDE DEF x
    <3> QED BY <1>2, <3>1, <3>2, <3>3, OneAnswered DEF Answered
  <2>3. CASE Gather(c)
    <3> DEFINE x == [client[c] EXCEPT !.at = "done"]
    <3>1. client' = [client EXCEPT ![c] = x]
      BY <2>3, <1>2 DEF Gather
    <3>2. x.count = client[c].count /\ x.futures = client[c].futures
      BY <1>2 DEF ClientState
    <3> HIDE DEF x
    <3> QED BY <1>2, <3>1, <3>2, OneAnswered DEF Answered
  <2>4. CASE Return(c)
    <3> DEFINE x == [NoBatch EXCEPT !.count = client[c].count]
    <3>1. client' = [client EXCEPT ![c] = x]
      BY <2>4 DEF Return
    <3>2. x.count = client[c].count /\ DOMAIN x.futures = {}
      BY DEF NoBatch
    <3> HIDE DEF x
    <3>3. \A i \in DOMAIN x.futures :
             Single(x.futures[i]) /\ \A value \in x.futures[i] : Single(value)
      BY <3>2
    <3>4. x.count \in 0..MaxBatches
      BY <1>2, <3>2 DEF Answered
    <3> QED BY <3>1, <3>3, <3>4, OneAnswered
  <2> QED BY <2>1, <2>2, <2>3, <2>4
<1>4. Kept'
  BY <1>1 DEF Typed, Kept
<1> QED BY <1>1, <1>3, <1>4, SameActors DEF Typed

LEMMA RestartTyped == ASSUME Own, Typed, NEW c \in Clients, Restart(c) PROVE Typed'
<1> DEFINE x == [NoBatch EXCEPT !.count = client[c].count]
<1>1. /\ client' = [client EXCEPT ![c] = x] /\ UNCHANGED <<setting, cache, store>> /\ Faults(1)
      /\ actor' = [a \in Actors |-> IF a[1] = c THEN Unborn ELSE actor[a]]
  BY DEF Restart
<1>2. x.count = client[c].count /\ DOMAIN x.futures = {} /\ Answered(c)
  BY DEF NoBatch, Typed
<1> HIDE DEF x
<1>3. \A d \in Clients : Answered(d)'
  <2>1. \A i \in DOMAIN x.futures :
           Single(x.futures[i]) /\ \A value \in x.futures[i] : Single(value)
    BY <1>2
  <2>2. x.count \in 0..MaxBatches
    BY <1>2 DEF Answered
  <2> QED BY <1>1, <2>1, <2>2, OneAnswered
<1>4. /\ Unborn.at = "unborn" /\ Unborn.task = NoTask /\ Unborn.result = {}
      /\ Unborn = [Unborn EXCEPT !.at = Unborn.at]
  BY DEF Unborn
<1>5. ASSUME NEW a \in Actors PROVE Manned(a)'
  <2>1. actor'[a] = Unborn \/ actor'[a] = actor[a]
    BY <1>1
  <2> QED BY <1>4, <2>1 DEF Typed, Manned
<1>6. Kept'
  BY <1>1, Faulty, SameStores
<1> QED BY <1>3, <1>5, <1>6 DEF Typed

LEMMA TypedFirst == Init => Typed
<1> SUFFICES ASSUME Init PROVE Typed
  OBVIOUS
<1>1. \A c \in Clients : Answered(c)
  BY FabricAssumption DEF Init, NoBatch, Answered
<1>2. /\ Unborn.at = "unborn" /\ Unborn.task = NoTask /\ Unborn.result = {}
      /\ Unborn = [Unborn EXCEPT !.at = Unborn.at]
  BY DEF Unborn
<1>3. \A a \in Actors : Manned(a)
  BY <1>2 DEF Init, Manned
<1>4. Kept
  BY FabricAssumption DEF Init, Kept
<1> QED BY <1>1, <1>3, <1>4 DEF Typed

LEMMA TypedStep == ASSUME Own, Typed, [Next]_vars PROVE Typed'
<1>1. ASSUME NEW c \in Clients,
             \/ Submit(c) \/ NotFound(c) \/ Return(c) \/ Restart(c) \/ Gather(c) \/ FallBack(c)
      PROVE  Typed'
  BY <1>1, SubmitTyped, HereTyped, RestartTyped
<1>2. ASSUME NEW a \in Actors, Step(a) \/ Die(a) PROVE Typed'
  BY <1>2, LookTyped, SimulateTyped, StoreTyped, SaveTyped, DieTyped DEF Step
<1>3. CASE Expire
  <2>1. /\ UNCHANGED <<setting, client, actor, store, faults>>
        /\ DOMAIN cache' \subseteq DOMAIN cache
        /\ \A h \in DOMAIN cache' : cache'[h] = cache[h]
    BY <1>3 DEF Expire
  <2>2. Kept'
    BY <2>1 DEF Typed, Kept
  <2> QED BY <2>1, <2>2, SameClients, SameActors DEF Typed
<1>4. CASE UNCHANGED vars
  <2>1. UNCHANGED <<client, actor, cache, store, faults>>
    BY <1>4 DEF vars
  <2>2. Kept'
    BY <2>1 DEF Typed, Kept
  <2> QED BY <2>1, <2>2, SameClients, SameActors DEF Typed
<1> QED BY <1>1, <1>2, <1>3, <1>4 DEF Next

(* Type correctness, for any number of processes, actors and faults: in     *)
(* particular a task has at most one answer, and an actor holds a task and  *)
(* a result only while it is at work on them (SimulationWorker.simulate).   *)
THEOREM TypeCorrect == Spec => []FabricTypeOK
<1>1. ASSUME Own, Typed PROVE FabricTypeOK
  <2>1. ASSUME NEW c \in Clients
        PROVE  /\ client[c].at \in {"idle", "gathering", "done"}
               /\ client[c].batch \in Batches \cup {<< >>}
               /\ client[c].count \in 0..MaxBatches /\ client[c].found \in BOOLEAN
               /\ DOMAIN client[c].futures = DOMAIN client[c].batch
               /\ \A i \in DOMAIN client[c].futures :
                     /\ Cardinality(client[c].futures[i]) <= 1
                     /\ \A value \in client[c].futures[i] :
                           Cardinality(value) <= 1 /\ value \subseteq Results
    <3>1. client[c] \in ClientState /\ ClientOk(c) /\ Answered(c)
      BY <1>1, ClientFacts DEF Typed
    <3>2. \A i \in DOMAIN client[c].futures : client[c].futures[i] \in SUBSET SUBSET Results
      BY <1>1, ClientFacts
    <3> QED BY <3>1, <3>2, Singles DEF ClientState, ClientOk, Answered
  <2>2. ASSUME NEW a \in Actors
        PROVE  /\ actor[a].at \in {"unborn", "idle", "running", "storing", "saving", "dead"}
               /\ actor[a].at \in {"unborn", "dead"} =>
                     actor[a] = [Unborn EXCEPT !.at = actor[a].at]
               /\ (actor[a].task = NoTask) = ~Working(a)
               /\ (actor[a].result # {}) = (actor[a].at \in {"storing", "saving"})
    <3>1. actor[a] \in ActorState /\ ActorOk(a) /\ Manned(a)
      BY <1>1, ActorFacts DEF Typed
    <3>2. \A t \in Task : t # NoTask
      <4>1. \A t \in Task : "s" \in DOMAIN t
        BY DEF Task
      <4>2. "s" \notin DOMAIN NoTask
        BY DEF NoTask
      <4> QED BY <4>1, <4>2
    <3>3. actor[a].at \in {"unborn", "idle", "running", "storing", "saving", "dead"}
      BY <3>1 DEF ActorState
    <3>4. Working(a) <=> actor[a].task # NoTask
      BY <3>1, <3>2, <3>3 DEF ActorOk, Manned, Working
    <3>5. actor[a].result # {} <=> actor[a].at \in {"storing", "saving"}
      BY <3>1 DEF ActorOk, Manned
    <3>6. actor[a].at \in {"unborn", "dead"} => actor[a] = [Unborn EXCEPT !.at = actor[a].at]
      BY <3>1 DEF Manned
    <3>7. (actor[a].task = NoTask) = ~Working(a)
      BY <3>4 DEF Working
    <3> QED BY <3>3, <3>5, <3>6, <3>7
  <2>3. /\ setting \in [mode : Modes, registered : BOOLEAN]
        /\ \A h \in DOMAIN cache : cache[h] \in Results
    BY <1>1 DEF Own, Shapes
  <2> QED BY <1>1, <2>1, <2>2, <2>3 DEF FabricTypeOK, Typed, Kept
<1> QED BY <1>1, TypedFirst, TypedStep, OwnFirst, OwnStep, PTL DEF Spec
=============================================================================
