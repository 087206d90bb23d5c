----------------------------- MODULE RunRecord -----------------------------
(***************************************************************************)
(* The row of table `runs` that the API, the workflow's activities and the *)
(* API's background task all write, and the pure part of what each writer  *)
(* does to it.  A writer loads the row, computes a new run_spec from what  *)
(* it loaded and flushes it in a later commit; nothing locks the row, so   *)
(* every operator below takes the spec the writer LOADED.                  *)
(*                                                                         *)
(* The JSON document run_spec is abstracted to the fields that the writers *)
(* treat differently.                                                      *)
(***************************************************************************)

\* The stages the workflow reports.  Eight of them are in the run_spec that
\* start_run creates for a domain-pack run; cause_modeling and
\* promote_finalists are appended when they are first reported.
PipelineStages == {"formalize", "evidence", "scenarios", "simulation",
                   "optimize", "robustness", "judge", "report"}
AppendedStages == {"cause_modeling", "promote_finalists"}
Stages         == PipelineStages \cup AppendedStages

StageStatus == {"absent", "pending", "started", "completed", "failed"}
RunStatus   == {"running", "completed", "failed", "archived"}
Titles      == {"prompt", "renamed"}

RunSpec == [title      : Titles,
            stages     : [Stages -> StageStatus],
            objectives : BOOLEAN,   \* the formalized objective is merged in
            results    : BOOLEAN,   \* counters, candidates, current_best
            summary    : BOOLEAN,
            narrative  : BOOLEAN,
            report     : BOOLEAN,   \* report_pdf
            error      : BOOLEAN,
            archivedAt : BOOLEAN]

Row == [status : RunStatus, spec : RunSpec]

-----------------------------------------------------------------------------
(* start_run: the row as it is inserted, before any workflow exists. *)
InitialSpec ==
    [title      |-> "prompt",
     stages     |-> [s \in Stages |-> IF s \in PipelineStages THEN "pending"
                                                              ELSE "absent"],
     objectives |-> FALSE,
     results    |-> FALSE,
     summary    |-> FALSE,
     narrative  |-> FALSE,
     report     |-> FALSE,
     error      |-> FALSE,
     archivedAt |-> FALSE]

InitialRow == [status |-> "running", spec |-> InitialSpec]

-----------------------------------------------------------------------------
(* record_run_stage: set the stage's status, appending the stage if new. *)
WithStage(spec, stage, status) == [spec EXCEPT !.stages[stage] = status]

(* Variant: update_run_spec without the progress keys. *)
MergeSpecBlindly(existing, copy) == copy

(* update_run_spec: the document becomes the workflow's own copy, except the *)
(* progress keys (stages and results here) that the row already holds.       *)
MergeSpec(existing, copy) ==
    [copy EXCEPT !.stages  = existing.stages,
                 !.results = existing.results \/ copy.results]

(* The copy the workflow keeps in memory: the document of start_run plus the *)
(* formalized objective; on the failure path spec_patch adds an error.       *)
WorkflowCopy(failed) ==
    [InitialSpec EXCEPT !.objectives = TRUE, !.error = failed]

(* persist_run_progress. *)
WithProgress(spec) ==
    [spec EXCEPT !.results = TRUE, !.summary = TRUE, !.narrative = TRUE]

(* persist_report_artifact: records the PDF; the payload's summary fills a *)
(* missing one.                                                            *)
WithReport(spec) == [spec EXCEPT !.report = TRUE, !.summary = TRUE]

(* update_run and delete_run of the API, and _mark_run_failed. *)
WithTitle(spec)   == [spec EXCEPT !.title = "renamed"]
WithArchive(spec) == [spec EXCEPT !.archivedAt = TRUE]
WithError(spec)   == [spec EXCEPT !.error = TRUE]

(* The ORM writes a column only if its value differs from the loaded one:   *)
(* assigning the status a row was loaded with leaves the stored one alone.  *)
FlushStatus(stored, loaded, assigned) ==
    IF assigned = loaded THEN stored ELSE assigned
=============================================================================
