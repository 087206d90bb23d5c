----------------------------- MODULE RunStream ------------------------------
(***************************************************************************)
(* A browser that watches a run: the event generator behind                *)
(* GET /runs/{run_id}/stream and the useSSE hook that consumes it, over    *)
(* the row as RunLifecycle lets it evolve.                                 *)
(*                                                                         *)
(* The generator polls the row and sends the stages whose status differs   *)
(* from the one it sent last; at a terminal status it sends the whole run  *)
(* and ends.  The connection may break (the network, or the cap of 7200    *)
(* polls); the hook then asks GET /runs/{run_id} and either adopts a       *)
(* terminal answer or connects again.                                      *)
(***************************************************************************)
EXTENDS RunLifecycle

CONSTANT MaxDrops   \* bound: connections that break

ASSUME DropsAssumption == MaxDrops \in Nat

VARIABLES
    conn,    \* the hook's connection
    seen,    \* last_stage_status of the generator
    ui,      \* currentRun of the store: status and stages
    drops    \* broken connections so far

client     == <<conn, seen, ui, drops>>
streamVars == <<vars, client>>

Unseen == "unseen"
Nothing == [s \in Stages |-> Unseen]

Snapshot(r) == [status |-> r.status, stages |-> r.spec.stages]

(* The store holds the response of start_run when the hook connects. *)
StreamInit ==
    /\ Init
    /\ conn = "open"
    /\ seen = Nothing
    /\ ui = Snapshot(InitialRow)
    /\ drops = 0

(* Variant: only success ends the stream. *)
EndedWell(status) == status = "completed"

(* The statuses at which the generator ends and the hook stops.  (The code  *)
(* also lists awaiting_input, which nothing sets.)                          *)
Ended(status) == status \in {"completed", "failed"}

(* Variant: any news of a stage counts as its completion. *)
UpdatedRashly(stages, news) ==
    [s \in Stages |-> IF s \in news /\ stages[s] # "absent"
                        THEN "completed" ELSE stages[s]]

(* updateRunStage replaces a stage the store has, and drops one it has not. *)
Updated(stages, news) ==
    [s \in Stages |-> IF s \in news /\ stages[s] # "absent"
                        THEN row.spec.stages[s] ELSE stages[s]]

News == {s \in Stages : /\ row.spec.stages[s] # "absent"
                        /\ row.spec.stages[s] # seen[s]}

(* One iteration of the generator that finds the run still going ... *)
Poll ==
    /\ conn = "open"
    /\ ~Ended(row.status)
    /\ News # {}
    /\ seen' = [s \in Stages |-> IF s \in News THEN row.spec.stages[s] ELSE seen[s]]
    /\ ui' = [ui EXCEPT !.stages = Updated(ui.stages, News)]
    /\ UNCHANGED <<vars, conn, drops>>

(* ... and the one that finds it ended: run_completed carries the whole run *)
(* and the hook closes the connection.                                      *)
PollEnd ==
    /\ conn = "open"
    /\ Ended(row.status)
    /\ ui' = Snapshot(row)
    /\ conn' = "closed"
    /\ seen' = Nothing
    /\ UNCHANGED <<vars, drops>>

(* The connection breaks, with any of the news on its way delivered.  (An    *)
(* "error" event the generator sends after a failed poll has the same       *)
(* effect: the hook gives up the connection.)                               *)
Break ==
    /\ conn = "open"
    /\ drops < MaxDrops
    /\ drops' = drops + 1
    /\ conn' = "broken"
    /\ seen' = Nothing
    /\ \E news \in SUBSET News : ui' = [ui EXCEPT !.stages = Updated(ui.stages, news)]
    /\ UNCHANGED vars

(* onerror asks GET /runs/{run_id}: the answer of a run that has ended is   *)
(* adopted ...                                                              *)
Adopt ==
    /\ conn = "broken"
    /\ Ended(row.status)
    /\ ui' = Snapshot(row)
    /\ conn' = "closed"
    /\ UNCHANGED <<vars, seen, drops>>

(* ... and otherwise, or if it does not come, the hook connects again: the  *)
(* new generator has sent nothing yet.                                      *)
Reconnect ==
    /\ conn = "broken"
    /\ conn' = "open"
    /\ UNCHANGED <<vars, seen, ui, drops>>

StreamNext == \/ Next /\ UNCHANGED client
              \/ Poll \/ PollEnd \/ Break \/ Adopt \/ Reconnect

StreamSpec == /\ StreamInit /\ [][StreamNext]_streamVars
              /\ WF_vars(WorkerStep) /\ WF_vars(WaiterStep) /\ WF_vars(EditStep)
              /\ WF_streamVars(Poll \/ PollEnd) /\ WF_streamVars(Adopt \/ Reconnect)

-----------------------------------------------------------------------------
\* Whatever breaks and reconnects, the browser shows no stage status the run
\* has not had, although what it shows is put together from events of several
\* connections and from snapshots.
UiStagesWereLogged ==
    \A s \in Stages : ui.stages[s] \in {"started", "completed", "failed"} =>
                          <<s, ui.stages[s]>> \in stageLog

\* Nothing follows "completed": the run the hook holds when it stops listening
\* to a completed run is the run as it stays.
CompletedViewIsFinal ==
    conn = "closed" /\ ui.status = "completed" => ui = Snapshot(row)

\* The browser learns the verdict, and stops listening, although the event that
\* carries it may be lost with the connection.
UiLearnsVerdict == <>[](conn = "closed" /\ ui.status = row.status)

-----------------------------------------------------------------------------
=============================================================================
