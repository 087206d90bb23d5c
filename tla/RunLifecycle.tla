---------------------------- MODULE RunLifecycle ----------------------------
(***************************************************************************)
(* One run, from the row start_run inserts to its last write.              *)
(*                                                                         *)
(* Four kinds of process write the row, none of them under a lock:         *)
(*   - the activities of SimulationRunWorkflow, executed at least once:    *)
(*     an attempt that raises, or whose result is lost, is retried up to   *)
(*     MaxAttempts times, and an attempt that overruns its                 *)
(*     start_to_close_timeout is retried while it is still running;        *)
(*   - the background task of the API that starts the workflow, awaits its *)
(*     result and marks the run failed when the await raises;              *)
(*   - the rename and archive requests of users;                           *)
(* and each of them loads the row in one step and commits in a later one.  *)
(***************************************************************************)
EXTENDS RunRecord, Naturals, Sequences, FiniteSets

CONSTANTS
    MaxAttempts,  \* maximum_attempts of the workflow's RetryPolicy (3)
    MaxFaults,    \* bound: attempts that fail, time out or lose their result
    MaxLate,      \* bound: attempts that overrun their timeout and go on
    MaxEdits,     \* bound: rename and archive requests
    ApiCrashes,   \* whether the API process may die
    LostContact   \* whether the API's calls to Temporal may raise although
                  \* the workflow has started and is still running

ASSUME BoundsAssumption ==
    /\ MaxAttempts \in Nat \ {0}
    /\ MaxFaults \in Nat
    /\ MaxLate \in Nat
    /\ MaxEdits \in Nat
    /\ ApiCrashes \in BOOLEAN
    /\ LostContact \in BOOLEAN

-----------------------------------------------------------------------------
(* The activities SimulationRunWorkflow.run awaits, in order.  A run of     *)
(* consecutive activities that do not write the row (formalize_objectives,  *)
(* the whole optimization loop, ...) is one "work" entry.                   *)
Op(kind, stage, status) == [kind |-> kind, stage |-> stage, status |-> status]

SetStatus(status)    == Op("status", "", status)
Stage(stage, status) == Op("stage", stage, status)
SaveSpec             == Op("save", "", "")
SaveError            == Op("save", "", "error")
Work                 == Op("work", "", "")
Progress             == Op("progress", "", "")
Report               == Op("report", "", "")
Seal                 == Op("seal", "", "")

Opening ==
  << SetStatus("running"),
     Stage("formalize", "started"), Work, SaveSpec,
     Stage("formalize", "completed"),
     Stage("evidence", "started"), Work, SaveSpec,
     Stage("evidence", "completed"),
     Stage("cause_modeling", "started"), Work,
     Stage("cause_modeling", "completed"),
     Stage("scenarios", "started"), Work,
     Stage("scenarios", "completed"),
     Stage("simulation", "started"), Stage("optimize", "started"), Work,
     Stage("optimize", "completed"), Stage("simulation", "completed") >>

Finals ==
  << Stage("promote_finalists", "started"), Work,
     Stage("promote_finalists", "completed"),
     Stage("robustness", "started"), Work,
     Stage("robustness", "completed") >>

Judging == << Stage("judge", "started"), Work, Progress >>

(* Variant: the verdict goes out before the error that explains it. *)
GivingUpEarly ==
  << SetStatus("failed"), SaveError,
     Stage("simulation", "failed"), Stage("optimize", "failed"),
     Stage("report", "failed"), Stage("judge", "failed") >>

GivingUp ==
  << SaveError,
     Stage("simulation", "failed"), Stage("optimize", "failed"),
     Stage("report", "failed"), SetStatus("failed"),
     Stage("judge", "failed") >>

(* Variant: the verdict goes out before the report is there. *)
ReportingLate ==
  << Stage("judge", "completed"), Stage("report", "started"),
     SetStatus("completed"), Report, Stage("report", "completed"), Seal >>

Reporting ==
  << Stage("judge", "completed"), Stage("report", "started"), Report,
     Stage("report", "completed"), Seal, SetStatus("completed") >>

Segments == {"opening", "finals", "judging", "givingup", "reporting"}

Code(seg) ==
    CASE seg = "opening"   -> Opening
      [] seg = "finals"    -> Finals
      [] seg = "judging"   -> Judging
      [] seg = "givingup"  -> GivingUp
      [] seg = "reporting" -> Reporting

Kinds  == {"status", "stage", "save", "work", "progress", "report", "seal"}
Places == {p \in [seg : Segments, at : 1..20] : p.at <= Len(Code(p.seg))}

OpAt(p)  == Code(p.seg)[p.at]
IsLast(p) == p.at = Len(Code(p.seg))

(* The activities that load the row before they write it. *)
Loads(op) == op.kind \in {"stage", "save", "progress", "report"}

-----------------------------------------------------------------------------
NoRow  == [status |-> "none"]
Loaded == Row \cup {NoRow}

(* How far an attempt has come.  "drawn": persist_report_artifact is done   *)
(* with the PDF and has the artifact row still to insert.                   *)
Phases == {"begun", "loaded", "drawn", "done"}

Attempt ==
    {a \in [place : Places, n : 1..MaxAttempts, phase : Phases, loaded : Loaded] :
        a.phase = "loaded" => a.loaded \in Row}

Fresh(p, k) == [place |-> p, n |-> k, phase |-> "begun", loaded |-> NoRow]

VARIABLES
    row,       \* the row of table runs
    stageLog,  \* <<stage, status>> of the rows of table run_stages
    reports,   \* number of report rows in table artifacts
    scored,    \* whether some simulation of this run gets a score
    wf,        \* the workflow execution
    call,      \* the attempt at the activity the workflow awaits
    late,      \* attempts that were timed out and are still running
    faults,    \* faults so far
    waiter,    \* the API's background task
    edits,     \* rename and archive requests between load and commit
    edited     \* requests so far

db   == <<row, stageLog, reports>>
vars == <<row, stageLog, reports, scored, wf, call, late, faults,
          waiter, edits, edited>>

WfStates     == {"unstarted", "open", "returned", "raised"}
WaiterStates == {"starting", "waiting", "failing", "marking", "done", "lost"}
Waiting(s)   == [state |-> s, loaded |-> NoRow]

TypeOK ==
    /\ row \in Row
    /\ stageLog \subseteq Stages \X StageStatus
    /\ reports \in Nat
    /\ scored \in BOOLEAN
    /\ wf \in WfStates
    /\ call \in Attempt
    /\ late \subseteq Attempt
    /\ faults \in 0..MaxFaults
    /\ waiter \in [state : WaiterStates, loaded : Loaded]
    /\ waiter.state = "marking" => waiter.loaded \in Row
    /\ edits \subseteq [id : Nat, what : {"rename", "archive"}, loaded : Row]
    /\ edited \in 0..MaxEdits

Init ==
    /\ row = InitialRow
    /\ stageLog = {}
    /\ reports = 0
    /\ scored \in BOOLEAN
    /\ wf = "unstarted"
    /\ call = Fresh([seg |-> "opening", at |-> 1], 1)
    /\ late = {}
    /\ faults = 0
    /\ waiter = Waiting("starting")
    /\ edits = {}
    /\ edited = 0

-----------------------------------------------------------------------------
(* One attempt at an activity, wherever it runs: what it needs, what it     *)
(* becomes, what it does to the database.                                   *)
CanLoad(a) == Loads(OpAt(a.place)) /\ a.phase = "begun"

(* Variant: the attempt goes on without the row. *)
AfterLosingLoad(a) == [a EXCEPT !.phase = "loaded"]
AfterLoad(a) == [a EXCEPT !.phase = "loaded", !.loaded = row]

CanCommit(a)   == a.phase = IF Loads(OpAt(a.place)) THEN "loaded" ELSE "begun"
AfterCommit(a) ==
    [a EXCEPT !.phase  = IF OpAt(a.place).kind = "report" THEN "drawn"
                                                          ELSE "done",
              !.loaded = NoRow]

Written(op, loaded) ==
    CASE op.kind = "status"   -> [row EXCEPT !.status = op.status]
      [] op.kind = "stage"    -> [row EXCEPT !.spec =
                                    WithStage(loaded.spec, op.stage, op.status)]
      [] op.kind = "save"     -> [row EXCEPT !.spec =
                                    MergeSpec(loaded.spec,
                                              WorkflowCopy(op.status = "error"))]
      [] op.kind = "progress" -> [row EXCEPT !.spec = WithProgress(loaded.spec)]
      [] op.kind = "report"   -> [row EXCEPT !.spec = WithReport(loaded.spec)]
      [] OTHER                -> row

(* Variant: only a stage that starts is recorded. *)
LoggedOnStart(op) ==
    IF op.kind = "stage" /\ op.status = "started"
      THEN {<<op.stage, op.status>>} ELSE {}

(* record_run_stage adds its run_stages row in the commit that updates the  *)
(* run; the other activities leave that table alone.                        *)
Logged(op) ==
    IF op.kind = "stage" THEN {<<op.stage, op.status>>} ELSE {}

Commit(a) ==
    /\ CanCommit(a)
    /\ row' = Written(OpAt(a.place), a.loaded)
    /\ stageLog' = stageLog \cup Logged(OpAt(a.place))
    /\ UNCHANGED reports

(* persist_report_artifact swallows whatever the PDF raises ... *)
CanSkipPdf(a)   == /\ OpAt(a.place).kind = "report"
                   /\ a.phase \in {"begun", "loaded"}
AfterSkipPdf(a) == [a EXCEPT !.phase = "drawn", !.loaded = NoRow]

(* ... and then inserts the artifact row. *)
CanInsert(a) == a.phase = "drawn"
Insert(a)    == /\ CanInsert(a)
                /\ reports' = reports + 1
                /\ UNCHANGED <<row, stageLog>>

-----------------------------------------------------------------------------
(* The attempt the workflow awaits. *)
CallLoad ==
    /\ wf = "open"
    /\ CanLoad(call)
    /\ call' = AfterLoad(call)
    /\ UNCHANGED <<db, scored, wf, late, faults, waiter, edits, edited>>

CallCommit ==
    /\ wf = "open"
    /\ Commit(call)
    /\ call' = AfterCommit(call)
    /\ UNCHANGED <<scored, wf, late, faults, waiter, edits, edited>>

CallSkipPdf ==
    /\ wf = "open"
    /\ CanSkipPdf(call)
    /\ call' = AfterSkipPdf(call)
    /\ UNCHANGED <<db, scored, wf, late, faults, waiter, edits, edited>>

CallInsert ==
    /\ wf = "open"
    /\ Insert(call)
    /\ call' = [call EXCEPT !.phase = "done"]
    /\ UNCHANGED <<scored, wf, late, faults, waiter, edits, edited>>

(* The finalist stages run if some scenario was scored; completed_count is  *)
(* zero exactly when none was.                                              *)
Following(seg) ==
    CASE seg = "opening" -> IF scored THEN "finals" ELSE "judging"
      [] seg = "finals"  -> "judging"
      [] OTHER           -> IF scored THEN "reporting" ELSE "givingup"

NextPlace(p) ==
    IF IsLast(p) THEN [seg |-> Following(p.seg), at |-> 1]
                 ELSE [p EXCEPT !.at = @ + 1]

(* Variant: the workflow does not wait for the artifact row. *)
AdvanceEarly ==
    /\ wf = "open"
    /\ call.phase \in {"drawn", "done"}
    /\ IF IsLast(call.place) /\ call.place.seg \in {"givingup", "reporting"}
         THEN wf' = "returned" /\ UNCHANGED call
         ELSE call' = Fresh(NextPlace(call.place), 1) /\ UNCHANGED wf
    /\ UNCHANGED <<db, scored, late, faults, waiter, edits, edited>>

(* The result of the attempt reaches the workflow, which goes on. *)
Advance ==
    /\ wf = "open"
    /\ call.phase = "done"
    /\ IF IsLast(call.place) /\ call.place.seg \in {"givingup", "reporting"}
         THEN wf' = "returned" /\ UNCHANGED call
         ELSE call' = Fresh(NextPlace(call.place), 1) /\ UNCHANGED wf
    /\ UNCHANGED <<db, scored, late, faults, waiter, edits, edited>>

(* An attempt is over without a result: the next one, or ActivityError. *)
RetryOrRaise ==
    /\ wf = "open"
    /\ faults < MaxFaults
    /\ faults' = faults + 1
    /\ IF call.n = MaxAttempts
         THEN wf' = "raised" /\ UNCHANGED call
         ELSE call' = Fresh(call.place, call.n + 1) /\ UNCHANGED wf

(* The attempt raised or its worker died, before or after its commit. *)
CallFail ==
    /\ RetryOrRaise
    /\ UNCHANGED <<db, scored, late, waiter, edits, edited>>

(* start_to_close_timeout: the attempt is given up but keeps running.  (Of  *)
(* an attempt that writes nothing, nothing is left to follow.)              *)
CallTimeout ==
    /\ OpAt(call.place).kind \notin {"work", "seal"}
    /\ call.phase # "done"
    /\ Cardinality(late) < MaxLate
    /\ late' = late \cup {call}
    /\ RetryOrRaise
    /\ UNCHANGED <<db, scored, waiter, edits, edited>>

-----------------------------------------------------------------------------
(* Attempts nobody awaits any more. *)
Replace(a, b) == late' = (late \ {a}) \cup (IF b.phase = "done" THEN {} ELSE {b})

LateLoad(a) ==
    /\ CanLoad(a)
    /\ Replace(a, AfterLoad(a))
    /\ UNCHANGED <<db, scored, wf, call, faults, waiter, edits, edited>>

LateCommit(a) ==
    /\ Commit(a)
    /\ Replace(a, AfterCommit(a))
    /\ UNCHANGED <<scored, wf, call, faults, waiter, edits, edited>>

LateSkipPdf(a) ==
    /\ CanSkipPdf(a)
    /\ Replace(a, AfterSkipPdf(a))
    /\ UNCHANGED <<db, scored, wf, call, faults, waiter, edits, edited>>

LateInsert(a) ==
    /\ Insert(a)
    /\ Replace(a, [a EXCEPT !.phase = "done"])
    /\ UNCHANGED <<scored, wf, call, faults, waiter, edits, edited>>

-----------------------------------------------------------------------------
(* The background task start_temporal_workflow. *)
StartWorkflow ==
    /\ waiter.state = "starting"
    /\ wf' = "open"
    /\ waiter' = Waiting("waiting")
    /\ UNCHANGED <<db, scored, call, late, faults, edits, edited>>

(* start_workflow raises; with LostContact the workflow may have started. *)
StartFails ==
    /\ waiter.state = "starting"
    /\ faults < MaxFaults
    /\ faults' = faults + 1
    /\ wf' \in {"unstarted"} \cup (IF LostContact THEN {"open"} ELSE {})
    /\ waiter' = Waiting("failing")
    /\ UNCHANGED <<db, scored, call, late, edits, edited>>

AwaitReturns ==
    /\ waiter.state = "waiting"
    /\ wf = "returned"
    /\ waiter' = Waiting("done")
    /\ UNCHANGED <<db, scored, wf, call, late, faults, edits, edited>>

AwaitRaises ==
    /\ waiter.state = "waiting"
    /\ wf = "raised" \/ LostContact
    /\ waiter' = Waiting("failing")
    /\ UNCHANGED <<db, scored, wf, call, late, faults, edits, edited>>

(* _mark_run_failed: load and look at the status ... *)
MayMarkFailed(r) == r.status # "completed"

MarkLoad ==
    /\ waiter.state = "failing"
    /\ waiter' = IF MayMarkFailed(row) THEN [state |-> "marking", loaded |-> row]
                                       ELSE Waiting("done")
    /\ UNCHANGED <<db, scored, wf, call, late, faults, edits, edited>>

(* ... and commit. *)
MarkCommit ==
    /\ waiter.state = "marking"
    /\ row' = [status |-> FlushStatus(row.status, waiter.loaded.status, "failed"),
               spec   |-> WithError(waiter.loaded.spec)]
    /\ waiter' = Waiting("done")
    /\ UNCHANGED <<stageLog, reports, scored, wf, call, late, faults, edits, edited>>

(* The API process dies with its background task and open requests. *)
ApiCrash ==
    /\ ApiCrashes
    /\ waiter.state \notin {"done", "lost"}
    /\ waiter' = Waiting("lost")
    /\ edits' = {}
    /\ UNCHANGED <<db, scored, wf, call, late, faults, edited>>

-----------------------------------------------------------------------------
(* PATCH and DELETE /runs/{run_id}. *)
EditLoad(what) ==
    /\ edited < MaxEdits
    /\ edited' = edited + 1
    /\ edits' = edits \cup {[id |-> edited, what |-> what, loaded |-> row]}
    /\ UNCHANGED <<db, scored, wf, call, late, faults, waiter>>

(* Variant: a rename writes back the whole row it loaded. *)
RenameWholeRow(e) ==
    /\ e.what = "rename"
    /\ row' = [e.loaded EXCEPT !.spec = WithTitle(e.loaded.spec)]
    /\ edits' = edits \ {e}
    /\ UNCHANGED <<stageLog, reports, scored, wf, call, late, faults, waiter, edited>>

RenameCommit(e) ==
    /\ e.what = "rename"
    /\ row' = [row EXCEPT !.spec = WithTitle(e.loaded.spec)]
    /\ edits' = edits \ {e}
    /\ UNCHANGED <<stageLog, reports, scored, wf, call, late, faults, waiter, edited>>

ArchiveCommit(e) ==
    /\ e.what = "archive"
    /\ row' = [status |-> FlushStatus(row.status, e.loaded.status, "archived"),
               spec   |-> WithArchive(e.loaded.spec)]
    /\ edits' = edits \ {e}
    /\ UNCHANGED <<stageLog, reports, scored, wf, call, late, faults, waiter, edited>>

-----------------------------------------------------------------------------
WorkerStep == CallLoad \/ CallCommit \/ CallSkipPdf \/ CallInsert \/ Advance
LateStep   == \E a \in late :
                LateLoad(a) \/ LateCommit(a) \/ LateSkipPdf(a) \/ LateInsert(a)
WaiterStep == \/ StartWorkflow \/ AwaitReturns \/ AwaitRaises
              \/ MarkLoad \/ MarkCommit
EditStep   == \E e \in edits : RenameCommit(e) \/ ArchiveCommit(e)
Fault      == CallFail \/ CallTimeout \/ StartFails \/ ApiCrash

Next == \/ WorkerStep \/ LateStep \/ WaiterStep \/ EditStep \/ Fault
        \/ \E what \in {"rename", "archive"} : EditLoad(what)

(* The worker process and the API's event loop keep running what they have  *)
(* been given; users and faults owe nothing.                                *)
Spec == /\ Init /\ [][Next]_vars
        /\ WF_vars(WorkerStep)
        /\ WF_vars(WaiterStep)
        /\ WF_vars(EditStep)

-----------------------------------------------------------------------------
(* Safety. *)

\* The workflow reports a run completed only after its report: whatever is
\* retried, overruns its timeout, or is written back by somebody else, a row
\* that says "completed" has a report artifact behind it and a recorded end of
\* the report stage.
ReportBeforeCompleted ==
    row.status = "completed" =>
        reports > 0 /\ <<"report", "completed">> \in stageLog

\* record_run_stage writes the history row and the stage in run_spec in one
\* commit, and all others carry stages over from what they loaded: however the
\* unlocked read-modify-writes overlap, the row never shows a stage status that
\* the history does not hold.
ShownIn(r, log) ==
    \A s \in Stages : r.spec.stages[s] \in {"started", "completed", "failed"} =>
                          <<s, r.spec.stages[s]>> \in log

ShownStagesWereLogged == ShownIn(row, stageLog)

\* The strengthening that makes ShownStagesWereLogged inductive: a row that
\* somebody has loaded and may still write back can be old, but what it shows
\* was logged too, and the history only grows.
AllShownStagesWereLogged ==
    /\ ShownIn(row, stageLog)
    /\ \A a \in {call} \cup late :
          a.phase = "loaded" => ShownIn(a.loaded, stageLog)
    /\ \A e \in edits : ShownIn(e.loaded, stageLog)
    /\ waiter.state = "marking" => ShownIn(waiter.loaded, stageLog)

\* The strengthening of ReportBeforeCompleted: what an attempt's place in the
\* code says of the database, for the awaited attempt and for the late ones.
ReportPlace(i)  == [seg |-> "reporting", at |-> i]
PlaceIsEarned(p) ==
    /\ p \in {ReportPlace(i) : i \in 4..6} => reports > 0
    /\ p \in {ReportPlace(i) : i \in 5..6} => <<"report", "completed">> \in stageLog

ReportIsEarned ==
    /\ ReportBeforeCompleted
    /\ \A a \in {call} \cup late : PlaceIsEarned(a.place)
    /\ call.phase = "drawn" => OpAt(call.place).kind = "report"
    /\ call.phase = "done" /\ call.place = ReportPlace(3) => reports > 0
    /\ call.phase = "done" /\ call.place = ReportPlace(4) =>
           <<"report", "completed">> \in stageLog

\* With one writer at a time, a completed run shows everything the workflow
\* put into it, and every stage of its pipeline as completed.
CompletedShowsResults ==
    row.status = "completed" =>
        /\ row.spec.results /\ row.spec.summary /\ row.spec.narrative
        /\ row.spec.objectives
        /\ \A s \in Stages : row.spec.stages[s] = "completed"

\* A run that is shown as failed carries the error that explains it, on either
\* of the two ways to fail: the workflow's own verdict and _mark_run_failed.
FailureExplained == row.status = "failed" => row.spec.error

\* Once completed, a run is never shown in another state again, except as
\* archived: the late failure of an activity whose effect was committed is
\* caught by the check in _mark_run_failed.
CompletedStands ==
    [][row.status = "completed" => row'.status \in {"completed", "archived"}]_row

\* The strengthening of CompletedStands, without late attempts and as long as
\* the API hears the truth from Temporal: the background task turns to the row
\* only when the workflow has stopped writing, and a completed run's workflow
\* has nothing left to do but to report the same status again.
OneVerdict ==
    /\ late = {}
    /\ waiter.state = "starting" => wf = "unstarted"
    /\ waiter.state \in {"failing", "marking"} => wf \in {"unstarted", "raised"}
    /\ wf = "unstarted" \/ waiter.state = "marking" => row.status # "completed"
    /\ wf = "open" /\ row.status = "completed" => call.place = ReportPlace(6)

\* The workflow's last verdict reaches the row, and a failing activity
\* surfaces: no run is left "running" for ever.
Settles == <>[](row.status # "running")

\* The row, its artifacts and its error are a RunPromise.
Promise == INSTANCE RunPromise WITH verdict   <- row.status,
                                    published <- reports > 0,
                                    explained <- row.spec.error

ImplementsPromise == Promise!Spec

-----------------------------------------------------------------------------
(* What the documentation says of the code, and the code does not do. *)

\* simulation_run.py: progress is saved "so the API/UI actually show results
\* for a completed run".
CompletedRunShowsResults == row.status = "completed" => row.spec.results
=============================================================================
