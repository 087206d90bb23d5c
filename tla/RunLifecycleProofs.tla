------------------------- MODULE RunLifecycleProofs -------------------------
(***************************************************************************)
(* Proofs about RunLifecycle and RunStream, for every value of their       *)
(* constants.                                                              *)
(*                                                                         *)
(* First the shape of the workflow's code (which entry stands at which     *)
(* place), then type correctness, then the invariants: ShownStages from    *)
(* AllShownStagesWereLogged, ReportFirst from ReportIsEarned, and          *)
(* CompletedIsFinal from OneVerdict.  At the end, what a run that nobody   *)
(* else writes promises, that it implements the safety of RunPromise, and  *)
(* what the browser shows of it.                                           *)
(***************************************************************************)
EXTENDS RunStream, FiniteSetTheorems, TLAPS

(* What an entry of the workflow's code can be. *)
Ops == {o \in [kind : Kinds, stage : Stages \cup {""},
               status : StageStatus \cup RunStatus \cup {"", "error"}] :
           /\ o.kind = "stage"  => o.stage \in Stages /\ o.status \in StageStatus
           /\ o.kind = "status" => o.status \in RunStatus}

(* How many entries each segment has.                                        *)
LEMMA CodeLength ==
    /\ Len(Opening) = 20 /\ Len(Finals) = 6 /\ Len(Judging) = 3
    /\ Len(GivingUp) = 6 /\ Len(Reporting) = 6
BY DEF Opening, Finals, Judging, GivingUp, Reporting

(* The constructors of entries build entries.                                *)
LEMMA OpForms ==
    /\ \A s \in Stages, x \in StageStatus : Stage(s, x) \in Ops
    /\ \A x \in RunStatus : SetStatus(x) \in Ops
    /\ {SaveSpec, SaveError, Work, Progress, Report, Seal} \subseteq Ops
<1>1. \A s \in Stages, x \in StageStatus : Stage(s, x) \in Ops
  BY DEF Ops, Op, Stage, Kinds
<1>2. \A x \in RunStatus : SetStatus(x) \in Ops
  BY DEF Ops, Op, SetStatus, Kinds
<1>3. /\ SaveSpec \in Ops /\ SaveError \in Ops /\ Work \in Ops
      /\ Progress \in Ops /\ Report \in Ops /\ Seal \in Ops
  BY DEF Ops, Op, SaveSpec, SaveError, Work, Progress, Report, Seal, Kinds
<1> QED BY <1>1, <1>2, <1>3

(* Which sequence a segment's name stands for.                               *)
LEMMA CodeAt ==
    /\ Code("opening") = Opening /\ Code("finals") = Finals
    /\ Code("judging") = Judging /\ Code("givingup") = GivingUp
    /\ Code("reporting") = Reporting
BY DEF Code

(* A place is in one of the five segments, and within it. *)
LEMMA InCode ==
    ASSUME NEW p \in Places
    PROVE  \/ p.seg = "opening"   /\ p.at \in 1..20 /\ OpAt(p) = Opening[p.at]
           \/ p.seg = "finals"    /\ p.at \in 1..6  /\ OpAt(p) = Finals[p.at]
           \/ p.seg = "judging"   /\ p.at \in 1..3  /\ OpAt(p) = Judging[p.at]
           \/ p.seg = "givingup"  /\ p.at \in 1..6  /\ OpAt(p) = GivingUp[p.at]
           \/ p.seg = "reporting" /\ p.at \in 1..6  /\ OpAt(p) = Reporting[p.at]
<1>1. p.at \in 1..20 /\ p.at <= Len(Code(p.seg)) /\ p.seg \in Segments
  BY DEF Places
<1>2. CASE p.seg = "opening"
  <2>1. Code(p.seg) = Opening
    BY <1>2, CodeAt
  <2>2. p.at \in 1..20
    BY <1>1, <2>1, CodeLength
  <2> QED BY <1>2, <2>1, <2>2 DEF OpAt
<1>3. CASE p.seg = "finals"
  <2>1. Code(p.seg) = Finals
    BY <1>3, CodeAt
  <2>2. p.at \in 1..6
    BY <1>1, <2>1, CodeLength
  <2> QED BY <1>3, <2>1, <2>2 DEF OpAt
<1>4. CASE p.seg = "judging"
  <2>1. Code(p.seg) = Judging
    BY <1>4, CodeAt
  <2>2. p.at \in 1..3
    BY <1>1, <2>1, CodeLength
  <2> QED BY <1>4, <2>1, <2>2 DEF OpAt
<1>5. CASE p.seg = "givingup"
  <2>1. Code(p.seg) = GivingUp
    BY <1>5, CodeAt
  <2>2. p.at \in 1..6
    BY <1>1, <2>1, CodeLength
  <2> QED BY <1>5, <2>1, <2>2 DEF OpAt
<1>6. CASE p.seg = "reporting"
  <2>1. Code(p.seg) = Reporting
    BY <1>6, CodeAt
  <2>2. p.at \in 1..6
    BY <1>1, <2>1, CodeLength
  <2> QED BY <1>6, <2>1, <2>2 DEF OpAt
<1> QED BY <1>1, <1>2, <1>3, <1>4, <1>5, <1>6 DEF Segments

(* Every place of the code holds a well-formed entry.                        *)
LEMMA OpsInPlace == \A p \in Places : OpAt(p) \in Ops
<1>a. /\ Stages = {"formalize", "evidence", "scenarios", "simulation",
                   "optimize", "robustness", "judge", "report",
                   "cause_modeling", "promote_finalists"}
      /\ {"started", "completed", "failed"} \subseteq StageStatus
      /\ {"running", "completed", "failed"} \subseteq RunStatus
  BY DEF Stages, PipelineStages, AppendedStages, StageStatus, RunStatus
<1>1. \A i \in 1..20 : Opening[i] \in Ops
  BY <1>a, OpForms DEF Opening
<1>2. \A i \in 1..6 : Finals[i] \in Ops
  BY <1>a, OpForms DEF Finals
<1>3. \A i \in 1..3 : Judging[i] \in Ops
  BY <1>a, OpForms DEF Judging
<1>4. \A i \in 1..6 : GivingUp[i] \in Ops
  BY <1>a, OpForms DEF GivingUp
<1>5. \A i \in 1..6 : Reporting[i] \in Ops
  BY <1>a, OpForms DEF Reporting
<1> QED BY <1>1, <1>2, <1>3, <1>4, <1>5, InCode

-----------------------------------------------------------------------------
(* The row of start_run and the workflow's copy of run_spec are well-typed.  *)
LEMMA InitialTypes ==
    /\ InitialRow \in Row
    /\ \A f \in BOOLEAN : WorkflowCopy(f) \in RunSpec
BY DEF InitialRow, InitialSpec, WorkflowCopy, Row, RunSpec, RunStatus, Titles,
       Stages, StageStatus

(* What any of the writers makes of a well-typed run_spec is one, too.       *)
LEMMA SpecTypes ==
    ASSUME NEW r \in RunSpec
    PROVE  /\ \A s \in Stages, x \in StageStatus : WithStage(r, s, x) \in RunSpec
           /\ \A c \in RunSpec : MergeSpec(r, c) \in RunSpec
           /\ WithProgress(r) \in RunSpec /\ WithReport(r) \in RunSpec
           /\ WithTitle(r) \in RunSpec /\ WithArchive(r) \in RunSpec
           /\ WithError(r) \in RunSpec
<1>1. \A s \in Stages, x \in StageStatus : WithStage(r, s, x) \in RunSpec
  BY DEF WithStage, RunSpec
<1>2. \A c \in RunSpec : MergeSpec(r, c) \in RunSpec
  BY DEF MergeSpec, RunSpec
<1>3. WithProgress(r) \in RunSpec /\ WithReport(r) \in RunSpec
  BY DEF WithProgress, WithReport, RunSpec
<1>4. /\ WithTitle(r) \in RunSpec /\ WithArchive(r) \in RunSpec
      /\ WithError(r) \in RunSpec
  BY DEF WithTitle, WithArchive, WithError, RunSpec, Titles
<1> QED BY <1>1, <1>2, <1>3, <1>4

(* The row an attempt commits is well-typed if the one it loaded is.         *)
LEMMA WrittenType ==
    ASSUME row \in Row, NEW op \in Ops, NEW l, Loads(op) => l \in Row
    PROVE  Written(op, l) \in Row
<1>a. row = [status |-> row.status, spec |-> row.spec]
      /\ row.status \in RunStatus /\ row.spec \in RunSpec
  BY DEF Row
<1>b. l \in Row => l.spec \in RunSpec
  BY DEF Row
<1>c. \A x \in RunSpec : [row EXCEPT !.spec = x] \in Row
  BY <1>a DEF Row
<1>d. op.kind \in Kinds
  BY DEF Ops
<1>1. CASE op.kind = "status"
  <2>1. op.status \in RunStatus
    BY <1>1 DEF Ops
  <2> QED BY <1>1, <1>a, <2>1 DEF Written, Row
<1>2. CASE op.kind = "stage"
  <2>1. op.stage \in Stages /\ op.status \in StageStatus
    BY <1>2 DEF Ops
  <2>2. WithStage(l.spec, op.stage, op.status) \in RunSpec
    BY <1>2, <1>b, <2>1, SpecTypes DEF Loads
  <2> QED BY <1>2, <1>c, <2>2 DEF Written
<1>3. CASE op.kind = "save"
  <2>1. MergeSpec(l.spec, WorkflowCopy(op.status = "error")) \in RunSpec
    BY <1>3, <1>b, SpecTypes, InitialTypes DEF Loads
  <2> QED BY <1>3, <1>c, <2>1 DEF Written
<1>4. CASE op.kind = "progress"
  <2>1. WithProgress(l.spec) \in RunSpec
    BY <1>4, <1>b, SpecTypes DEF Loads
  <2> QED BY <1>4, <1>c, <2>1 DEF Written
<1>5. CASE op.kind = "report"
  <2>1. WithReport(l.spec) \in RunSpec
    BY <1>5, <1>b, SpecTypes DEF Loads
  <2> QED BY <1>5, <1>c, <2>1 DEF Written
<1>6. CASE op.kind \notin {"status", "stage", "save", "progress", "report"}
  BY <1>6 DEF Written
<1> QED BY <1>1, <1>2, <1>3, <1>4, <1>5, <1>6

(* What one attempt becomes and what it commits is well-typed. *)
LEMMA AttemptTypes ==
    ASSUME row \in Row, stageLog \subseteq Stages \X StageStatus, reports \in Nat,
           NEW a \in Attempt
    PROVE  /\ CanLoad(a) => AfterLoad(a) \in Attempt
           /\ CanSkipPdf(a) => AfterSkipPdf(a) \in Attempt
           /\ [a EXCEPT !.phase = "done"] \in Attempt
           /\ AfterCommit(a) \in Attempt
           /\ Commit(a) => /\ row' \in Row
                           /\ stageLog' \subseteq Stages \X StageStatus
                           /\ reports' \in Nat
           /\ Insert(a) => /\ row' \in Row
                           /\ stageLog' \subseteq Stages \X StageStatus
                           /\ reports' \in Nat
<1>a. /\ a.place \in Places /\ a.n \in 1..MaxAttempts /\ a.phase \in Phases
      /\ a.loaded \in Loaded /\ (a.phase = "loaded" => a.loaded \in Row)
      /\ a = [place |-> a.place, n |-> a.n, phase |-> a.phase, loaded |-> a.loaded]
  BY DEF Attempt
<1>b. NoRow \in Loaded /\ row \in Loaded
  BY DEF Loaded
<1>1. AfterLoad(a) \in Attempt
  BY <1>a, <1>b DEF AfterLoad, Attempt, Phases
<1>2. AfterSkipPdf(a) \in Attempt
  BY <1>a, <1>b DEF AfterSkipPdf, Attempt, Phases
<1>3. [a EXCEPT !.phase = "done"] \in Attempt
  BY <1>a, <1>b DEF Attempt, Phases
<1>4. AfterCommit(a) \in Attempt
  BY <1>a, <1>b DEF AfterCommit, Attempt, Phases
<1>5. ASSUME Commit(a)
      PROVE  /\ row' \in Row
             /\ stageLog' \subseteq Stages \X StageStatus
             /\ reports' \in Nat
  <2> DEFINE op == OpAt(a.place)
  <2>1. op \in Ops
    BY <1>a, OpsInPlace
  <2>2. Loads(op) => a.loaded \in Row
    BY <1>5, <1>a DEF Commit, CanCommit
  <2>3. Written(op, a.loaded) \in Row
    BY <2>1, <2>2, WrittenType
  <2>4. op.kind = "stage" => op.stage \in Stages /\ op.status \in StageStatus
    BY <2>1 DEF Ops
  <2>5. Logged(op) \subseteq Stages \X StageStatus
    BY <2>4 DEF Logged
  <2> QED BY <1>5, <2>3, <2>5 DEF Commit
<1>6. Insert(a) => /\ row' \in Row
                   /\ stageLog' \subseteq Stages \X StageStatus
                   /\ reports' \in Nat
  BY DEF Insert
<1> QED BY <1>1, <1>2, <1>3, <1>4, <1>5, <1>6

(* No segment has more than the 20 entries Places allows.                    *)
LEMMA SegmentLength == \A s \in Segments : Len(Code(s)) \in 1..20
<1> SUFFICES ASSUME NEW s \in Segments PROVE Len(Code(s)) \in 1..20
  OBVIOUS
<1>1. Code(s) \in {Opening, Finals, Judging, GivingUp, Reporting}
  BY CodeAt DEF Segments
<1> QED BY <1>1, CodeLength

(* Segments begin, and places are followed, inside the code.                 *)
LEMMA PlaceTypes ==
    /\ [seg |-> "opening", at |-> 1] \in Places
    /\ \A p \in Places :
          ~(IsLast(p) /\ p.seg \in {"givingup", "reporting"}) => NextPlace(p) \in Places
<1>1. \A s \in Segments : [seg |-> s, at |-> 1] \in Places
  <2> SUFFICES ASSUME NEW s \in Segments
               PROVE  [seg |-> s, at |-> 1] \in Places
    OBVIOUS
  <2>1. \A n \in 1..20 : 1 <= n
    OBVIOUS
  <2>2. 1 <= Len(Code(s))
    BY <2>1, SegmentLength
  <2> QED BY <2>2 DEF Places
<1>2. ASSUME NEW p \in Places, ~IsLast(p) PROVE [p EXCEPT !.at = @ + 1] \in Places
  <2>1. /\ p.seg \in Segments /\ p.at \in 1..20 /\ p.at <= Len(Code(p.seg))
        /\ p = [seg |-> p.seg, at |-> p.at]
    BY DEF Places
  <2>2. Len(Code(p.seg)) \in 1..20
    BY <2>1, SegmentLength
  <2>3. p.at # Len(Code(p.seg))
    BY <1>2 DEF IsLast
  <2>4. p.at + 1 <= Len(Code(p.seg)) /\ p.at + 1 \in 1..20
    <3>1. \A i, n \in 1..20 : i <= n /\ i # n => i + 1 <= n /\ i + 1 \in 1..20
      OBVIOUS
    <3> QED BY <2>1, <2>2, <2>3, <3>1
  <2> QED BY <2>1, <2>4 DEF Places
<1>3. \A s \in Segments : Following(s) \in Segments
  BY DEF Following, Segments
<1>4. \A p \in Places : p.seg \in Segments
  BY DEF Places
<1> QED BY <1>1, <1>2, <1>3, <1>4 DEF NextPlace, Segments

(* A new attempt is well-typed as long as attempts are left.                 *)
LEMMA FreshType ==
    \A p \in Places, k \in 1..MaxAttempts : Fresh(p, k) \in Attempt
BY DEF Fresh, Attempt, Phases, Loaded

(* Every value the model ever holds is of the type it is declared with; in  *)
(* particular no commit writes back a row that was never loaded.            *)
THEOREM TypeCorrect == Spec => []TypeOK
<1>1. Init => TypeOK
  <2> SUFFICES ASSUME Init PROVE TypeOK
    OBVIOUS
  <2>1. 1 \in 1..MaxAttempts
    BY BoundsAssumption
  <2>2. call \in Attempt
    BY <2>1, PlaceTypes, FreshType DEF Init
  <2>3. waiter \in [state : WaiterStates, loaded : Loaded] /\ waiter.state # "marking"
    BY DEF Init, Waiting, WaiterStates, Loaded
  <2> QED BY <2>2, <2>3, InitialTypes, BoundsAssumption DEF Init, TypeOK, WfStates
<1>2. TypeOK /\ [Next]_vars => TypeOK'
  <2> SUFFICES ASSUME TypeOK, [Next]_vars PROVE TypeOK'
    OBVIOUS
  <2> USE DEF TypeOK, db
  <2>w. \A s \in WaiterStates : Waiting(s) \in [state : WaiterStates, loaded : Loaded]
    BY DEF Waiting, Loaded
  <2>1. CASE CallLoad
    BY <2>1, AttemptTypes DEF CallLoad
  <2>2. CASE CallCommit
    BY <2>2, AttemptTypes DEF CallCommit
  <2>3. CASE CallSkipPdf
    BY <2>3, AttemptTypes DEF CallSkipPdf
  <2>4. CASE CallInsert
    BY <2>4, AttemptTypes DEF CallInsert
  <2>5. CASE Advance
    <3>1. call.place \in Places
      BY DEF Attempt
    <3>2. 1 \in 1..MaxAttempts
      BY BoundsAssumption
    <3>3. CASE IsLast(call.place) /\ call.place.seg \in {"givingup", "reporting"}
      BY <2>5, <3>3 DEF Advance, WfStates
    <3>4. CASE ~(IsLast(call.place) /\ call.place.seg \in {"givingup", "reporting"})
      <4>1. Fresh(NextPlace(call.place), 1) \in Attempt
        BY <3>1, <3>2, <3>4, PlaceTypes, FreshType
      <4> QED BY <2>5, <3>4, <4>1 DEF Advance
    <3> QED BY <3>3, <3>4
  <2>6. ASSUME RetryOrRaise
        PROVE  wf' \in WfStates /\ call' \in Attempt /\ faults' \in 0..MaxFaults
    <3>1. call.place \in Places /\ call.n \in 1..MaxAttempts
      BY DEF Attempt
    <3>2. call.n # MaxAttempts => Fresh(call.place, call.n + 1) \in Attempt
      <4>1. call.n # MaxAttempts => call.n + 1 \in 1..MaxAttempts
        BY <3>1, BoundsAssumption
      <4> QED BY <3>1, <4>1, FreshType
    <3>3. faults' \in 0..MaxFaults
      BY <2>6, BoundsAssumption DEF RetryOrRaise
    <3> QED BY <2>6, <3>2, <3>3 DEF RetryOrRaise, WfStates
  <2>7. CASE CallFail
    BY <2>6, <2>7 DEF CallFail
  <2>8. CASE CallTimeout
    <3>1. late' \subseteq Attempt
      BY <2>8 DEF CallTimeout
    <3> QED BY <2>6, <2>8, <3>1 DEF CallTimeout
  <2>9. ASSUME NEW a \in late,
               LateLoad(a) \/ LateCommit(a) \/ LateSkipPdf(a) \/ LateInsert(a)
        PROVE  TypeOK'
    <3>1. a \in Attempt
      OBVIOUS
    <3>2. \A b \in Attempt : Replace(a, b) => late' \subseteq Attempt
      BY DEF Replace
    <3>3. CASE LateLoad(a)
      BY <3>1, <3>2, <3>3, AttemptTypes DEF LateLoad
    <3>4. CASE LateCommit(a)
      BY <3>1, <3>2, <3>4, AttemptTypes DEF LateCommit
    <3>5. CASE LateSkipPdf(a)
      BY <3>1, <3>2, <3>5, AttemptTypes DEF LateSkipPdf
    <3>6. CASE LateInsert(a)
      BY <3>1, <3>2, <3>6, AttemptTypes DEF LateInsert
    <3> QED BY <2>9, <3>3, <3>4, <3>5, <3>6
  <2>10. CASE StartWorkflow
    BY <2>10, <2>w DEF StartWorkflow, WfStates, WaiterStates, Waiting
  <2>11. CASE StartFails
    <3>1. faults' \in 0..MaxFaults /\ wf' \in WfStates
      BY <2>11, BoundsAssumption DEF StartFails, WfStates
    <3> QED BY <2>11, <2>w, <3>1 DEF StartFails, WaiterStates, Waiting
  <2>12. CASE AwaitReturns \/ AwaitRaises
    BY <2>12, <2>w DEF AwaitReturns, AwaitRaises, WaiterStates, Waiting
  <2>13. CASE MarkLoad
    BY <2>13, <2>w DEF MarkLoad, WaiterStates, Waiting, Loaded
  <2>14. CASE MarkCommit
    <3>1. waiter.loaded \in Row
      BY <2>14 DEF MarkCommit
    <3>2. row' \in Row
      BY <2>14, <3>1, SpecTypes DEF MarkCommit, FlushStatus, Row, RunStatus
    <3> QED BY <2>14, <2>w, <3>2 DEF MarkCommit, WaiterStates, Waiting
  <2>15. CASE ApiCrash
    BY <2>15, <2>w DEF ApiCrash, WaiterStates, Waiting
  <2>16. ASSUME NEW what \in {"rename", "archive"}, EditLoad(what)
         PROVE  TypeOK'
    <3>1. edited' \in 0..MaxEdits
      BY <2>16, BoundsAssumption DEF EditLoad
    <3>2. edits' \subseteq [id : Nat, what : {"rename", "archive"}, loaded : Row]
      BY <2>16 DEF EditLoad
    <3> QED BY <2>16, <3>1, <3>2 DEF EditLoad
  <2>17. ASSUME NEW e \in edits, RenameCommit(e) \/ ArchiveCommit(e)
         PROVE  TypeOK'
    <3>1. e.loaded \in Row /\ e.loaded.spec \in RunSpec
      BY DEF Row
    <3>2. row' \in Row
      BY <2>17, <3>1, SpecTypes
         DEF RenameCommit, ArchiveCommit, FlushStatus, Row, RunStatus
    <3> QED BY <2>17, <3>2 DEF RenameCommit, ArchiveCommit
  <2>18. CASE UNCHANGED vars
    BY <2>18 DEF vars
  <2> QED BY <2>1, <2>2, <2>3, <2>4, <2>5, <2>7, <2>8, <2>9, <2>10, <2>11, <2>12,
             <2>13, <2>14, <2>15, <2>16, <2>17, <2>18
          DEF Next, WorkerStep, LateStep, WaiterStep, EditStep, Fault
<1> QED BY <1>1, <1>2, PTL DEF Spec

-----------------------------------------------------------------------------
(* What a row shows was logged: the operators that compute a new row.       *)
(* What was logged stays logged: the history only grows.                     *)
LEMMA ShownGrows ==
    ASSUME NEW r, NEW log, NEW more, ShownIn(r, log), log \subseteq more
    PROVE  ShownIn(r, more)
BY DEF ShownIn

(* A row that carries over another's stages shows no more than it does.      *)
LEMMA ShownCarried ==
    ASSUME NEW r, NEW q, NEW log, ShownIn(r, log), q.spec.stages = r.spec.stages
    PROVE  ShownIn(q, log)
BY DEF ShownIn

(* An attempt's new row shows what the row it loaded showed, and what it logs. *)
LEMMA WrittenShown ==
    ASSUME row \in Row, ShownIn(row, stageLog), NEW op \in Ops, NEW l,
           Loads(op) => l \in Row /\ ShownIn(l, stageLog)
    PROVE  ShownIn(Written(op, l), stageLog \cup Logged(op))
<1> DEFINE w == Written(op, l)
<1>1. CASE op.kind = "stage"
  <2>1. /\ l \in Row /\ l.spec \in RunSpec /\ ShownIn(l, stageLog)
        /\ op.stage \in Stages
    BY <1>1 DEF Loads, Row, Ops
  <2>2. w.spec = WithStage(l.spec, op.stage, op.status)
    BY <1>1 DEF Written, Row
  <2>3. \A s \in Stages : w.spec.stages[s] =
                            IF s = op.stage THEN op.status ELSE l.spec.stages[s]
    BY <2>1, <2>2 DEF WithStage, RunSpec
  <2>4. Logged(op) = {<<op.stage, op.status>>}
    BY <1>1 DEF Logged
  <2> QED BY <2>1, <2>3, <2>4 DEF ShownIn
<1>2. CASE op.kind \in {"save", "progress", "report"}
  <2>1. l \in Row /\ l.spec \in RunSpec /\ ShownIn(l, stageLog)
    BY <1>2 DEF Loads, Row
  <2>2. WorkflowCopy(op.status = "error") \in RunSpec
    BY InitialTypes
  <2>3. w.spec.stages = l.spec.stages
    <3>1. CASE op.kind = "save"
      BY <3>1, <2>1, <2>2 DEF Written, Row, RunSpec, MergeSpec
    <3>2. CASE op.kind = "progress"
      BY <3>2, <2>1 DEF Written, Row, RunSpec, WithProgress
    <3>3. CASE op.kind = "report"
      BY <3>3, <2>1 DEF Written, Row, RunSpec, WithReport
    <3> QED BY <1>2, <3>1, <3>2, <3>3
  <2> QED BY <2>1, <2>3, ShownCarried, ShownGrows
<1>3. CASE op.kind = "status"
  <2>1. w.spec = row.spec
    BY <1>3 DEF Written, Row
  <2> QED BY <2>1, ShownCarried, ShownGrows
<1>4. CASE op.kind \notin {"stage", "save", "progress", "report", "status"}
  <2>1. w = row
    BY <1>4 DEF Written
  <2> QED BY <2>1, ShownGrows
<1> QED BY <1>1, <1>2, <1>3, <1>4

(* The whole effect of one attempt's commit. *)
LEMMA CommitShown ==
    ASSUME TypeOK, ShownIn(row, stageLog), NEW a \in Attempt, Commit(a),
           a.phase = "loaded" => ShownIn(a.loaded, stageLog)
    PROVE  ShownIn(row', stageLog') /\ stageLog \subseteq stageLog'
<1>1. a.place \in Places /\ (a.phase = "loaded" => a.loaded \in Row)
  BY DEF Attempt
<1>2. OpAt(a.place) \in Ops
  BY <1>1, OpsInPlace
<1>3. Loads(OpAt(a.place)) => a.loaded \in Row /\ ShownIn(a.loaded, stageLog)
  BY <1>1 DEF Commit, CanCommit
<1>4. ShownIn(Written(OpAt(a.place), a.loaded), stageLog \cup Logged(OpAt(a.place)))
  BY <1>2, <1>3, WrittenShown DEF TypeOK
<1> QED BY <1>4 DEF Commit

(* Whatever interleaves, overruns or is lost, the row shows no stage status *)
(* that record_run_stage has not written to the history.                    *)
THEOREM ShownStages == Spec => []ShownStagesWereLogged
<1>1. Init => AllShownStagesWereLogged
  <2> SUFFICES ASSUME Init PROVE AllShownStagesWereLogged
    OBVIOUS
  <2>1. \A s \in Stages : row.spec.stages[s] \in {"pending", "absent"}
    BY DEF Init, InitialRow, InitialSpec
  <2> QED BY <2>1 DEF Init, AllShownStagesWereLogged, ShownIn, Fresh, Waiting
<1>2. TypeOK /\ AllShownStagesWereLogged /\ [Next]_vars => AllShownStagesWereLogged'
  <2> SUFFICES ASSUME TypeOK, AllShownStagesWereLogged, [Next]_vars
               PROVE  AllShownStagesWereLogged'
    OBVIOUS
  <2> USE DEF AllShownStagesWereLogged, db
  <2>t. call \in Attempt /\ late \subseteq Attempt /\ row \in Row
    BY DEF TypeOK
  <2>1. CASE CallLoad
    BY <2>1, <2>t DEF CallLoad, AfterLoad, Attempt
  <2>2. CASE CallCommit
    <3>1. ShownIn(row', stageLog') /\ stageLog \subseteq stageLog'
      BY <2>2, <2>t, CommitShown DEF CallCommit
    <3>2. call'.phase # "loaded"
      BY <2>2, <2>t DEF CallCommit, AfterCommit, Attempt
    <3> QED BY <2>2, <3>1, <3>2, ShownGrows DEF CallCommit
  <2>3. CASE CallSkipPdf
    BY <2>3, <2>t DEF CallSkipPdf, AfterSkipPdf, Attempt
  <2>4. CASE CallInsert
    BY <2>4, <2>t DEF CallInsert, Insert, Attempt
  <2>5. CASE Advance
    BY <2>5 DEF Advance, Fresh
  <2>6. CASE CallFail
    BY <2>6 DEF CallFail, RetryOrRaise, Fresh
  <2>7. CASE CallTimeout
    BY <2>7 DEF CallTimeout, RetryOrRaise, Fresh
  <2>8. ASSUME NEW a \in late,
               LateLoad(a) \/ LateCommit(a) \/ LateSkipPdf(a) \/ LateInsert(a)
        PROVE  AllShownStagesWereLogged'
    <3>1. a \in Attempt
      BY <2>t
    <3>2. CASE LateLoad(a)
      BY <3>1, <3>2, <2>t DEF LateLoad, Replace, AfterLoad, Attempt
    <3>3. CASE LateCommit(a)
      <4>1. ShownIn(row', stageLog') /\ stageLog \subseteq stageLog'
        BY <3>1, <3>3, CommitShown DEF LateCommit
      <4>2. AfterCommit(a).phase # "loaded"
        BY <3>1 DEF AfterCommit, Attempt
      <4> QED BY <3>3, <4>1, <4>2, ShownGrows DEF LateCommit, Replace
    <3>4. CASE LateSkipPdf(a)
      BY <3>1, <3>4, <2>t DEF LateSkipPdf, Replace, AfterSkipPdf, Attempt
    <3>5. CASE LateInsert(a)
      BY <3>1, <3>5, <2>t DEF LateInsert, Insert, Replace, Attempt
    <3> QED BY <2>8, <3>2, <3>3, <3>4, <3>5
  <2>9. CASE StartWorkflow \/ StartFails \/ AwaitReturns \/ AwaitRaises
    BY <2>9 DEF StartWorkflow, StartFails, AwaitReturns, AwaitRaises, Waiting
  <2>10. CASE MarkLoad
    BY <2>10 DEF MarkLoad, Waiting
  <2>11. CASE MarkCommit
    <3>1. waiter.loaded \in Row /\ ShownIn(waiter.loaded, stageLog)
      BY <2>11 DEF MarkCommit, TypeOK
    <3>2. row'.spec.stages = waiter.loaded.spec.stages
      BY <2>11, <3>1 DEF MarkCommit, WithError, Row, RunSpec
    <3>3. ShownIn(row', stageLog)
      BY <3>1, <3>2, ShownCarried
    <3> QED BY <2>11, <3>3 DEF MarkCommit, Waiting
  <2>12. CASE ApiCrash
    BY <2>12 DEF ApiCrash, Waiting
  <2>13. ASSUME NEW what \in {"rename", "archive"}, EditLoad(what)
         PROVE  AllShownStagesWereLogged'
    BY <2>13 DEF EditLoad
  <2>14. ASSUME NEW e \in edits, RenameCommit(e) \/ ArchiveCommit(e)
         PROVE  AllShownStagesWereLogged'
    <3>1. e.loaded \in Row /\ ShownIn(e.loaded, stageLog)
      BY DEF TypeOK
    <3>2. row'.spec.stages = e.loaded.spec.stages
      BY <2>14, <3>1, <2>t
         DEF RenameCommit, ArchiveCommit, WithTitle, WithArchive, Row, RunSpec
    <3>3. ShownIn(row', stageLog)
      BY <3>1, <3>2, ShownCarried
    <3> QED BY <2>14, <3>3 DEF RenameCommit, ArchiveCommit
  <2>15. CASE UNCHANGED vars
    BY <2>15 DEF vars
  <2> QED BY <2>1, <2>2, <2>3, <2>4, <2>5, <2>6, <2>7, <2>8, <2>9, <2>10, <2>11,
             <2>12, <2>13, <2>14, <2>15
          DEF Next, WorkerStep, LateStep, WaiterStep, EditStep, Fault
<1>3. AllShownStagesWereLogged => ShownStagesWereLogged
  BY DEF AllShownStagesWereLogged, ShownStagesWereLogged
<1> QED BY <1>1, <1>2, <1>3, TypeCorrect, PTL DEF Spec

-----------------------------------------------------------------------------
(* Where in the code the entries stand that the report depends on.           *)
LEMMA ReportOps ==
    ASSUME NEW p \in Places
    PROVE  /\ OpAt(p).kind = "status" /\ OpAt(p).status = "completed" =>
                 p = ReportPlace(6)
           /\ OpAt(ReportPlace(3)).kind = "report"
           /\ OpAt(ReportPlace(4)) = Stage("report", "completed")
           /\ OpAt(ReportPlace(6)) = SetStatus("completed")
<1> DEFINE Ends(o) == o.kind = "status" /\ o.status = "completed"
<1>a. /\ \A s, x : ~Ends(Stage(s, x))
      /\ ~Ends(SetStatus("running")) /\ ~Ends(SetStatus("failed"))
      /\ ~Ends(SaveSpec) /\ ~Ends(SaveError) /\ ~Ends(Work)
      /\ ~Ends(Progress) /\ ~Ends(Report) /\ ~Ends(Seal)
  BY DEF Op, SetStatus, Stage, SaveSpec, SaveError, Work, Progress, Report, Seal
<1> HIDE DEF Ends
<1>1. \A i \in 1..20 : ~Ends(Opening[i])
  BY <1>a DEF Opening
<1>2. \A i \in 1..6 : ~Ends(Finals[i])
  BY <1>a DEF Finals
<1>3. \A i \in 1..3 : ~Ends(Judging[i])
  BY <1>a DEF Judging
<1>4. \A i \in 1..6 : ~Ends(GivingUp[i])
  BY <1>a DEF GivingUp
<1>5. \A i \in 1..6 : i # 6 => ~Ends(Reporting[i])
  BY <1>a DEF Reporting
<1>6. /\ Reporting[3] = Report /\ Reporting[4] = Stage("report", "completed")
      /\ Reporting[6] = SetStatus("completed")
  BY DEF Reporting
<1>7. /\ OpAt(ReportPlace(3)).kind = "report"
      /\ OpAt(ReportPlace(4)) = Stage("report", "completed")
      /\ OpAt(ReportPlace(6)) = SetStatus("completed")
  <2>1. ReportPlace(3).seg = "reporting" /\ ReportPlace(3).at = 3
    BY DEF ReportPlace
  <2>2. ReportPlace(4).seg = "reporting" /\ ReportPlace(4).at = 4
    BY DEF ReportPlace
  <2>3. Report.kind = "report"
    BY DEF Report, Op
  <2>4. ReportPlace(6).seg = "reporting" /\ ReportPlace(6).at = 6
    BY DEF ReportPlace
  <2> QED BY <1>6, <2>1, <2>2, <2>3, <2>4, CodeAt DEF OpAt
<1>8. Ends(OpAt(p)) => p.seg = "reporting" /\ p.at = 6
  BY <1>1, <1>2, <1>3, <1>4, <1>5, InCode
<1>9. Ends(OpAt(p)) => p = ReportPlace(6)
  BY <1>8 DEF ReportPlace, Places
<1> QED BY <1>7, <1>9 DEF Ends

(* The workflow reaches the end of its code only past the report.           *)
LEMMA ReportWay ==
    ASSUME NEW p \in Places, ~(IsLast(p) /\ p.seg \in {"givingup", "reporting"}),
           NEW i \in 4..6, NextPlace(p) = ReportPlace(i)
    PROVE  p = ReportPlace(i - 1)
<1>a. /\ p.at \in 1..20 /\ p.seg \in Segments
      /\ p = [seg |-> p.seg, at |-> p.at]
  BY DEF Places
<1>1. ~IsLast(p)
  BY <1>a DEF NextPlace, ReportPlace
<1>2. NextPlace(p) = [seg |-> p.seg, at |-> p.at + 1]
  BY <1>a, <1>1 DEF NextPlace
<1>3. p.seg = "reporting" /\ p.at + 1 = i
  BY <1>2 DEF ReportPlace
<1> QED BY <1>a, <1>3 DEF ReportPlace

(* Places earned stay earned. *)
LEMMA EarnedStays ==
    ASSUME TypeOK, reports' >= reports, reports' \in Nat, stageLog \subseteq stageLog',
           NEW p, PlaceIsEarned(p)
    PROVE  PlaceIsEarned(p)'
BY DEF PlaceIsEarned, TypeOK

(* A commit keeps the report and the history that places depend on, and it   *)
(* puts "completed" into the row only at the place that has earned it.       *)
LEMMA CommitEarned ==
    ASSUME TypeOK, ReportBeforeCompleted, NEW a \in Attempt, Commit(a),
           PlaceIsEarned(a.place)
    PROVE  /\ ReportBeforeCompleted'
           /\ reports' = reports /\ stageLog \subseteq stageLog'
           /\ a.place = ReportPlace(4) => <<"report", "completed">> \in stageLog'
           /\ a.place = ReportPlace(3) => AfterCommit(a).phase # "done"
<1> DEFINE op == OpAt(a.place)
<1>1. a.place \in Places /\ row \in Row
  BY DEF Attempt, TypeOK
<1>2. reports' = reports /\ stageLog \subseteq stageLog' /\ row' = Written(op, a.loaded)
  BY DEF Commit
<1>3. row'.status = "completed" => row.status = "completed" \/ a.place = ReportPlace(6)
  <2>1. op.kind = "status" => row'.status = op.status
    BY <1>1, <1>2 DEF Written, Row
  <2>2. op.kind # "status" => row'.status = row.status
    BY <1>1, <1>2 DEF Written, Row
  <2> QED BY <1>1, <2>1, <2>2, ReportOps
<1>4. a.place = ReportPlace(6) => reports > 0 /\ <<"report", "completed">> \in stageLog
  BY DEF PlaceIsEarned
<1>5. ReportBeforeCompleted'
  BY <1>2, <1>3, <1>4 DEF ReportBeforeCompleted
<1>6. a.place = ReportPlace(4) => <<"report", "completed">> \in stageLog'
  BY <1>1, ReportOps DEF Commit, Logged, Stage, Op
<1>7. a.place = ReportPlace(3) => AfterCommit(a).phase # "done"
  BY <1>1, ReportOps DEF AfterCommit, Attempt
<1> QED BY <1>2, <1>5, <1>6, <1>7

(* Nobody gets past the report in the workflow's code without a report row   *)
(* and the record of its stage; ReportIsEarned is inductive.                *)
LEMMA EarnsReport == Spec => []ReportIsEarned
<1>1. Init => ReportIsEarned
  <2> SUFFICES ASSUME Init PROVE ReportIsEarned
    OBVIOUS
  <2>1. row.status = "running" /\ call.place.seg = "opening" /\ late = {}
        /\ call.phase = "begun"
    BY DEF Init, InitialRow, Fresh
  <2> QED BY <2>1 DEF ReportIsEarned, ReportBeforeCompleted, PlaceIsEarned, ReportPlace
<1>2. TypeOK /\ ReportIsEarned /\ [Next]_vars => ReportIsEarned'
  <2> SUFFICES ASSUME TypeOK, ReportIsEarned, [Next]_vars
               PROVE  ReportIsEarned'
    OBVIOUS
  <2>t. /\ call \in Attempt /\ late \subseteq Attempt /\ reports \in Nat
        /\ call.place \in Places
    BY DEF TypeOK, Attempt
  <2>i. /\ ReportBeforeCompleted
        /\ \A a \in {call} \cup late : PlaceIsEarned(a.place)
        /\ call.phase = "drawn" => OpAt(call.place).kind = "report"
        /\ call.phase = "done" /\ call.place = ReportPlace(3) => reports > 0
        /\ call.phase = "done" /\ call.place = ReportPlace(4) =>
              <<"report", "completed">> \in stageLog
    BY DEF ReportIsEarned
  <2>u. ASSUME UNCHANGED db
        PROVE  ReportBeforeCompleted' /\ \A p : PlaceIsEarned(p) => PlaceIsEarned(p)'
    BY <2>i, <2>u DEF db, ReportBeforeCompleted, PlaceIsEarned
  <2>1. CASE CallLoad
    <3>1. call'.place = call.place /\ call'.phase = "loaded"
      BY <2>1, <2>t DEF CallLoad, AfterLoad, Attempt
    <3> QED BY <2>1, <2>i, <2>u, <3>1 DEF CallLoad, ReportIsEarned
  <2>2. CASE CallCommit
    <3>1. call'.place = call.place /\ call' = AfterCommit(call)
      BY <2>2, <2>t DEF CallCommit, AfterCommit, Attempt
    <3>2. /\ ReportBeforeCompleted'
          /\ reports' = reports /\ stageLog \subseteq stageLog'
          /\ call.place = ReportPlace(4) => <<"report", "completed">> \in stageLog'
          /\ call.place = ReportPlace(3) => AfterCommit(call).phase # "done"
      BY <2>2, <2>t, <2>i, CommitEarned DEF CallCommit
    <3>3. \A p : PlaceIsEarned(p) => PlaceIsEarned(p)'
      BY <2>t, <3>2, EarnedStays
    <3>4. late' = late
      BY <2>2 DEF CallCommit
    <3>5. call'.phase = "drawn" => OpAt(call'.place).kind = "report"
      BY <3>1, <2>t DEF AfterCommit, Attempt
    <3> QED BY <2>i, <3>1, <3>2, <3>3, <3>4, <3>5 DEF ReportIsEarned
  <2>3. CASE CallSkipPdf
    <3>1. call'.place = call.place /\ call'.phase = "drawn"
          /\ OpAt(call.place).kind = "report"
      BY <2>3, <2>t DEF CallSkipPdf, CanSkipPdf, AfterSkipPdf, Attempt
    <3> QED BY <2>3, <2>i, <2>u, <3>1 DEF CallSkipPdf, ReportIsEarned
  <2>4. CASE CallInsert
    <3>1. reports' > 0 /\ reports' \in Nat /\ reports' >= reports
          /\ UNCHANGED <<row, stageLog, late>> /\ call'.place = call.place
      BY <2>4, <2>t DEF CallInsert, Insert, Attempt
    <3>2. \A p : PlaceIsEarned(p) => PlaceIsEarned(p)'
      BY <3>1, EarnedStays
    <3>3. call.place # ReportPlace(4)
      BY <2>4, <2>i, <2>t, ReportOps DEF CallInsert, Insert, CanInsert, Stage, Op
    <3>4. ReportBeforeCompleted'
      BY <2>i, <3>1 DEF ReportBeforeCompleted
    <3>5. call'.phase = "done"
      BY <2>4, <2>t DEF CallInsert, Attempt
    <3> QED BY <2>i, <3>1, <3>2, <3>3, <3>4, <3>5 DEF ReportIsEarned
  <2>5. CASE Advance
    <3>u. ReportBeforeCompleted' /\ \A p : PlaceIsEarned(p) => PlaceIsEarned(p)'
      BY <2>5, <2>u DEF Advance
    <3>1. CASE IsLast(call.place) /\ call.place.seg \in {"givingup", "reporting"}
      BY <2>5, <2>i, <3>u, <3>1 DEF Advance, db, ReportIsEarned
    <3>2. CASE ~(IsLast(call.place) /\ call.place.seg \in {"givingup", "reporting"})
      <4>1. /\ call' = Fresh(NextPlace(call.place), 1) /\ late' = late
            /\ call.phase = "done" /\ UNCHANGED db
        BY <2>5, <3>2 DEF Advance
      <4>2. call'.place = NextPlace(call.place) /\ call'.phase = "begun"
        BY <4>1 DEF Fresh
      <4>3. \A i \in 4..6 : call'.place = ReportPlace(i) =>
                               call.place = ReportPlace(i - 1)
        BY <4>2, <3>2, <2>t, ReportWay
      <4>4. PlaceIsEarned(call'.place)
        <5>1. ASSUME NEW i \in 4..6, call'.place = ReportPlace(i)
              PROVE  /\ reports > 0
                     /\ i \in 5..6 => <<"report", "completed">> \in stageLog
          <6>1. call.place = ReportPlace(i - 1) /\ PlaceIsEarned(call.place)
            BY <5>1, <4>3, <2>i
          <6>2. CASE i = 4
            BY <6>1, <6>2, <4>1, <2>i
          <6>3. CASE i = 5
            BY <6>1, <6>3, <4>1, <2>i DEF PlaceIsEarned
          <6>4. CASE i = 6
            BY <6>1, <6>4 DEF PlaceIsEarned
          <6> QED BY <6>2, <6>3, <6>4
        <5> QED BY <5>1 DEF PlaceIsEarned, ReportPlace
      <4>5. PlaceIsEarned(call.place)'
        BY <4>4, <4>1 DEF PlaceIsEarned, db
      <4> QED BY <2>i, <3>u, <4>1, <4>2, <4>5 DEF ReportIsEarned
    <3> QED BY <3>1, <3>2
  <2>6. ASSUME RetryOrRaise, UNCHANGED db
        PROVE  /\ ReportBeforeCompleted'
               /\ PlaceIsEarned(call.place)'
               /\ call' = call \/ call'.phase = "begun"
               /\ \A p : PlaceIsEarned(p) => PlaceIsEarned(p)'
    <3>1. call'.place = call.place /\ (call' = call \/ call'.phase = "begun")
      BY <2>6 DEF RetryOrRaise, Fresh
    <3> QED BY <2>6, <2>i, <2>u, <3>1
  <2>7. CASE CallFail
    <3>1. UNCHANGED <<db, late>> /\ RetryOrRaise
      BY <2>7 DEF CallFail
    <3> QED BY <2>6, <2>i, <3>1 DEF ReportIsEarned, db
  <2>8. CASE CallTimeout
    <3>1. UNCHANGED db /\ RetryOrRaise /\ late' = late \cup {call}
      BY <2>8 DEF CallTimeout
    <3> QED BY <2>6, <2>i, <3>1 DEF ReportIsEarned, db
  <2>9. ASSUME NEW a \in late,
               LateLoad(a) \/ LateCommit(a) \/ LateSkipPdf(a) \/ LateInsert(a)
        PROVE  ReportIsEarned'
    <3>1. a \in Attempt /\ PlaceIsEarned(a.place)
      BY <2>t, <2>i
    <3>2. ASSUME NEW b, Replace(a, b), b.place = a.place, call' = call,
                 reports' \in Nat, reports' >= reports, stageLog \subseteq stageLog',
                 ReportBeforeCompleted'
          PROVE  ReportIsEarned'
      <4>1. \A p : PlaceIsEarned(p) => PlaceIsEarned(p)'
        BY <3>2, EarnedStays
      <4>2. \A c \in late' : \E d \in late : c.place = d.place
        BY <3>2 DEF Replace
      <4>3. \A c \in late' : PlaceIsEarned(c.place)'
        BY <4>1, <4>2, <2>i
      <4> QED BY <2>i, <2>t, <3>2, <4>1, <4>3 DEF ReportIsEarned
    <3>3. CASE LateLoad(a)
      <4>1. AfterLoad(a).place = a.place
        BY <3>1 DEF AfterLoad, Attempt
      <4> QED BY <3>3, <3>2, <2>t, <2>u, <4>1 DEF LateLoad, db
    <3>4. CASE LateCommit(a)
      <4>1. AfterCommit(a).place = a.place
        BY <3>1 DEF AfterCommit, Attempt
      <4>2. /\ ReportBeforeCompleted'
            /\ reports' = reports /\ stageLog \subseteq stageLog'
        BY <3>1, <3>4, <2>i, CommitEarned DEF LateCommit
      <4> QED BY <3>4, <3>2, <2>t, <4>1, <4>2 DEF LateCommit
    <3>5. CASE LateSkipPdf(a)
      <4>1. AfterSkipPdf(a).place = a.place
        BY <3>1 DEF AfterSkipPdf, Attempt
      <4> QED BY <3>5, <3>2, <2>t, <2>u, <4>1 DEF LateSkipPdf, db
    <3>6. CASE LateInsert(a)
      <4>1. [a EXCEPT !.phase = "done"].place = a.place
        BY <3>1 DEF Attempt
      <4>2. reports' > 0 /\ reports' \in Nat /\ reports' >= reports
            /\ UNCHANGED <<row, stageLog>>
        BY <3>6, <2>t DEF LateInsert, Insert
      <4>3. ReportBeforeCompleted'
        BY <2>i, <4>2 DEF ReportBeforeCompleted
      <4> QED BY <3>6, <3>2, <4>1, <4>2, <4>3 DEF LateInsert
    <3> QED BY <2>9, <3>3, <3>4, <3>5, <3>6
  <2>10. ASSUME UNCHANGED <<stageLog, reports, call, late>>,
                row'.status = "completed" => row.status = "completed"
         PROVE  ReportIsEarned'
    BY <2>10, <2>i DEF ReportIsEarned, ReportBeforeCompleted, PlaceIsEarned
  <2>11. CASE StartWorkflow \/ StartFails \/ AwaitReturns \/ AwaitRaises \/ MarkLoad
              \/ ApiCrash
    BY <2>10, <2>11 DEF StartWorkflow, StartFails, AwaitReturns, AwaitRaises,
                        MarkLoad, ApiCrash, db
  <2>12. CASE MarkCommit
    BY <2>10, <2>12 DEF MarkCommit, FlushStatus
  <2>13. ASSUME NEW what \in {"rename", "archive"}, EditLoad(what)
         PROVE  ReportIsEarned'
    BY <2>10, <2>13 DEF EditLoad, db
  <2>14. ASSUME NEW e \in edits, RenameCommit(e) \/ ArchiveCommit(e)
         PROVE  ReportIsEarned'
    <3>1. row \in Row
      BY DEF TypeOK
    <3> QED BY <2>10, <2>14, <3>1 DEF RenameCommit, ArchiveCommit, FlushStatus, Row
  <2>15. CASE UNCHANGED vars
    BY <2>10, <2>15 DEF vars
  <2> QED BY <2>1, <2>2, <2>3, <2>4, <2>5, <2>7, <2>8, <2>9, <2>11, <2>12, <2>13,
             <2>14, <2>15
          DEF Next, WorkerStep, LateStep, WaiterStep, EditStep, Fault
<1> QED BY <1>1, <1>2, TypeCorrect, PTL DEF Spec

(* A run is never shown as completed before its report exists: not by a     *)
(* retried, a timed-out or a late activity, and not by the API, whose       *)
(* writers put no "completed" into the row.                                 *)
THEOREM ReportFirst == Spec => []ReportBeforeCompleted
<1>1. ReportIsEarned => ReportBeforeCompleted
  BY DEF ReportIsEarned
<1> QED BY <1>1, EarnsReport, PTL

-----------------------------------------------------------------------------
(* One step with one verdict at a time: OneVerdict is inductive, if no       *)
(* attempt outlives its timeout and the API is not cut off.                 *)
LEMMA OneVerdictStep ==
    ASSUME MaxLate = 0, LostContact = FALSE, TypeOK, OneVerdict, [Next]_vars
    PROVE  /\ OneVerdict'
           /\ row.status = "completed" => row'.status \in {"completed", "archived"}
<1>t. /\ call \in Attempt /\ call.place \in Places /\ row \in Row
    BY DEF TypeOK, Attempt
<1>i. /\ late = {}
      /\ waiter.state = "starting" => wf = "unstarted"
      /\ waiter.state \in {"failing", "marking"} => wf \in {"unstarted", "raised"}
      /\ wf = "unstarted" \/ waiter.state = "marking" => row.status # "completed"
      /\ wf = "open" /\ row.status = "completed" => call.place = ReportPlace(6)
  BY DEF OneVerdict
<1>1. CASE CallLoad \/ CallSkipPdf \/ CallInsert
  <2>1. call'.place = call.place /\ UNCHANGED <<row, wf, waiter, late>>
    BY <1>1, <1>t DEF CallLoad, CallSkipPdf, CallInsert, Insert, AfterLoad,
                      AfterSkipPdf, Attempt, db
  <2> QED BY <1>i, <2>1 DEF OneVerdict
<1>2. CASE CallCommit
  <2>1. /\ wf = "open" /\ call'.place = call.place /\ UNCHANGED <<wf, waiter, late>>
        /\ row' = Written(OpAt(call.place), call.loaded)
    BY <1>2, <1>t DEF CallCommit, Commit, AfterCommit, Attempt
  <2>2. row'.status = IF OpAt(call.place).kind = "status"
                        THEN OpAt(call.place).status ELSE row.status
    BY <2>1, <1>t DEF Written, Row
  <2>3. row.status = "completed" => row'.status = "completed"
    <3>1. /\ OpAt(ReportPlace(6)).kind = "status"
          /\ OpAt(ReportPlace(6)).status = "completed"
      <4>1. OpAt(ReportPlace(6)) = SetStatus("completed")
        BY <1>t, ReportOps
      <4>2. /\ SetStatus("completed").kind = "status"
            /\ SetStatus("completed").status = "completed"
        BY DEF SetStatus, Op
      <4> QED BY <4>1, <4>2
    <3> QED BY <2>1, <2>2, <3>1, <1>i
  <2>4. row'.status = "completed" => call.place = ReportPlace(6)
    BY <2>1, <2>2, <1>i, <1>t, ReportOps
  <2> QED BY <1>i, <2>1, <2>3, <2>4 DEF OneVerdict
<1>3. CASE Advance
  <2>1. wf = "open" /\ UNCHANGED <<row, waiter, late>>
    BY <1>3 DEF Advance, db
  <2>2. call.place = ReportPlace(6) => IsLast(call.place)
    BY CodeAt, CodeLength DEF IsLast, ReportPlace
  <2>3. \/ wf' = "returned" /\ call' = call
        \/ wf' = wf /\ row.status # "completed"
    BY <1>3, <1>i, <2>1, <2>2 DEF Advance, ReportPlace
  <2> QED BY <1>i, <2>1, <2>3 DEF OneVerdict
<1>4. CASE CallFail
  <2>1. /\ wf = "open" /\ wf' \in {"open", "raised"} /\ call'.place = call.place
        /\ UNCHANGED <<row, waiter, late>>
    BY <1>4 DEF CallFail, RetryOrRaise, Fresh, db
  <2> QED BY <1>i, <2>1 DEF OneVerdict
<1>5. CASE CallTimeout
  <2>1. Cardinality(late) = 0
    BY <1>i, FS_EmptySet
  <2> QED BY <1>5, <2>1 DEF CallTimeout
<1>6. CASE LateStep
  BY <1>6, <1>i DEF LateStep
<1>7. CASE StartWorkflow
  BY <1>7, <1>i DEF StartWorkflow, OneVerdict, Waiting, db
<1>8. CASE StartFails
  BY <1>8, <1>i DEF StartFails, OneVerdict, Waiting, db
<1>9. CASE AwaitReturns \/ AwaitRaises \/ ApiCrash
  BY <1>9, <1>i DEF AwaitReturns, AwaitRaises, ApiCrash, OneVerdict, Waiting, db
<1>10. CASE MarkLoad
  BY <1>10, <1>i DEF MarkLoad, MayMarkFailed, OneVerdict, Waiting, db
<1>11. CASE MarkCommit
  <2>1. row.status # "completed" /\ row'.status # "completed"
    BY <1>11, <1>i DEF MarkCommit, FlushStatus
  <2> QED BY <1>11, <1>i, <2>1 DEF MarkCommit, OneVerdict, Waiting
<1>12. ASSUME NEW what \in {"rename", "archive"}, EditLoad(what)
       PROVE  /\ OneVerdict'
              /\ row.status = "completed" => row'.status \in {"completed", "archived"}
  BY <1>12, <1>i DEF EditLoad, OneVerdict, db
<1>13. ASSUME NEW e \in edits, RenameCommit(e) \/ ArchiveCommit(e)
       PROVE  /\ OneVerdict'
              /\ row.status = "completed" => row'.status \in {"completed", "archived"}
  <2>1. row'.status \in {row.status, "archived"}
        /\ UNCHANGED <<wf, call, waiter, late>>
    BY <1>13, <1>t DEF RenameCommit, ArchiveCommit, FlushStatus, Row
  <2> QED BY <1>i, <2>1 DEF OneVerdict
<1>14. CASE UNCHANGED vars
  BY <1>14, <1>i DEF vars, OneVerdict
<1> QED BY <1>1, <1>2, <1>3, <1>4, <1>5, <1>6, <1>7, <1>8, <1>9, <1>10, <1>11,
           <1>12, <1>13, <1>14
        DEF Next, WorkerStep, WaiterStep, EditStep, Fault

(* If no attempt outlives its timeout and the API is not cut off from a     *)
(* workflow that is still running, a run has one verdict ...                *)
LEMMA HasOneVerdict ==
    ASSUME MaxLate = 0, LostContact = FALSE
    PROVE  Spec => []OneVerdict
<1>1. Init => OneVerdict
  BY DEF Init, OneVerdict, InitialRow, Waiting
<1>2. TypeOK /\ OneVerdict /\ [Next]_vars => OneVerdict'
  BY OneVerdictStep
<1> QED BY <1>1, <1>2, TypeCorrect, PTL DEF Spec

(* ... and a completed run stays completed until it is archived, whatever   *)
(* is retried, crashes or is edited at the same time.                       *)
THEOREM CompletedIsFinal ==
    ASSUME MaxLate = 0, LostContact = FALSE
    PROVE  Spec => CompletedStands
<1>1. TypeOK /\ OneVerdict /\ [Next]_vars =>
         [row.status = "completed" => row'.status \in {"completed", "archived"}]_row
  BY OneVerdictStep
<1> QED BY <1>1, HasOneVerdict, TypeCorrect, PTL DEF Spec, CompletedStands
-----------------------------------------------------------------------------
(* A run that nobody else writes: one without late attempts, without edits  *)
(* and without an API that is cut off from Temporal.  The API may still     *)
(* crash.                                                                   *)
(*                                                                          *)
(* Alone is inductive; it says who may write the row, and by the place of   *)
(* the workflow which verdict and which error the row can hold.  Filling,   *)
(* on top of it, says by the place what the document holds already.         *)
GivingPlace(i) == [seg |-> "givingup", at |-> i]

(* Until one of these places no verdict has been given.                     *)
Verdicts == {GivingPlace(5), GivingPlace(6), ReportPlace(6)}

(* Whoever may still write back a row holds the row there is. *)
HoldsTheRow ==
    /\ edits = {}
    /\ wf = "unstarted" => call.phase = "begun"
    /\ wf = "open" /\ call.phase = "loaded" => call.loaded = row
    /\ waiter.state = "marking" => waiter.loaded = row

(* What the row says of the run, by the place of its workflow. *)
TellsThePlace ==
    /\ row.status \in {"running", "completed", "failed"}
    /\ wf = "unstarted" => call.place = [seg |-> "opening", at |-> 1]
    /\ waiter.state = "starting" => row.status = "running" /\ ~row.spec.error
    /\ wf = "open" =>
         /\ call.place \notin Verdicts => row.status = "running"
         /\ call.place = ReportPlace(6) => row.status # "failed"
         /\ call.place.seg # "givingup" => ~row.spec.error
         /\ call.place.seg = "givingup" /\ (call.place.at > 1 \/ call.phase = "done")
              => row.spec.error

Alone == HoldsTheRow /\ TellsThePlace /\ FailureExplained

-----------------------------------------------------------------------------
(* Where the entries stand that change the status or the error.             *)
LEMMA VerdictOps ==
    ASSUME NEW p \in Places
    PROVE  /\ OpAt(p).kind = "status" =>
                \/ p = [seg |-> "opening", at |-> 1] /\ OpAt(p).status = "running"
                \/ p = GivingPlace(5) /\ OpAt(p).status = "failed"
                \/ p = ReportPlace(6) /\ OpAt(p).status = "completed"
           /\ OpAt(p).kind = "save" =>
                \/ p.seg = "opening" /\ OpAt(p).status # "error"
                \/ p = GivingPlace(1) /\ OpAt(p).status = "error"
           /\ p = GivingPlace(1) => OpAt(p) = SaveError
           /\ OpAt(p).kind = "report" => p = ReportPlace(3)
<1> DEFINE Rest(o) == o.kind \notin {"status", "save", "report"}
<1>a. /\ \A s, x : Rest(Stage(s, x))
      /\ Rest(Work) /\ Rest(Progress) /\ Rest(Seal)
  BY DEF Op, Stage, Work, Progress, Seal
<1>b. /\ \A x : SetStatus(x).kind = "status" /\ SetStatus(x).status = x
      /\ SaveSpec.kind = "save" /\ SaveSpec.status # "error"
      /\ SaveError.kind = "save" /\ SaveError.status = "error"
      /\ Report.kind = "report"
  BY DEF Op, SetStatus, SaveSpec, SaveError, Report
<1> HIDE DEF Rest
<1>1. \A i \in 1..20 : \/ i = 1 /\ Opening[i] = SetStatus("running")
                       \/ Opening[i] = SaveSpec
                       \/ Rest(Opening[i])
  BY <1>a DEF Opening
<1>2. \A i \in 1..6 : Rest(Finals[i])
  BY <1>a DEF Finals
<1>3. \A i \in 1..3 : Rest(Judging[i])
  BY <1>a DEF Judging
<1>4. /\ GivingUp[1] = SaveError /\ GivingUp[5] = SetStatus("failed")
      /\ \A i \in 1..6 : i \notin {1, 5} => Rest(GivingUp[i])
  BY <1>a DEF GivingUp
<1>5. /\ Reporting[3] = Report /\ Reporting[6] = SetStatus("completed")
      /\ \A i \in 1..6 : i \notin {3, 6} => Rest(Reporting[i])
  BY <1>a DEF Reporting
<1>p. p = [seg |-> p.seg, at |-> p.at]
  BY DEF Places
<1>6. CASE p.seg = "opening"
  BY <1>6, <1>p, <1>b, <1>1, InCode DEF Rest, GivingPlace
<1>7. CASE p.seg = "finals"
  BY <1>7, <1>2, InCode DEF Rest, GivingPlace
<1>8. CASE p.seg = "judging"
  BY <1>8, <1>3, InCode DEF Rest, GivingPlace
<1>9. CASE p.seg = "givingup"
  BY <1>9, <1>p, <1>b, <1>4, InCode DEF Rest, GivingPlace
<1>10. CASE p.seg = "reporting"
  BY <1>10, <1>p, <1>b, <1>5, InCode DEF Rest, GivingPlace, ReportPlace
<1> QED BY <1>6, <1>7, <1>8, <1>9, <1>10, InCode

(* The ways into giving up and to the verdicts. *)
LEMMA VerdictWay ==
    ASSUME NEW p \in Places, ~(IsLast(p) /\ p.seg \in {"givingup", "reporting"})
    PROVE  /\ NextPlace(p) = ReportPlace(6) => p \notin Verdicts /\ p.seg = "reporting"
           /\ NextPlace(p).seg = "givingup" =>
                \/ NextPlace(p) = GivingPlace(1)
                \/ p.seg = "givingup" /\ NextPlace(p).at > 1
           /\ p.seg = "givingup" => NextPlace(p).seg = "givingup"
           /\ NextPlace(p) \notin Verdicts => p \notin Verdicts
<1>a. /\ p.at \in 1..20 /\ p.seg \in Segments
      /\ p = [seg |-> p.seg, at |-> p.at]
  BY DEF Places
<1>1. CASE IsLast(p)
  <2>1. p.seg \in {"opening", "finals", "judging"}
    BY <1>a, <1>1 DEF Segments
  <2>2. NextPlace(p) = [seg |-> Following(p.seg), at |-> 1]
    BY <1>1 DEF NextPlace
  <2> QED BY <2>1, <2>2 DEF Verdicts, GivingPlace, ReportPlace
<1>2. CASE ~IsLast(p)
  <2>1. NextPlace(p) = [seg |-> p.seg, at |-> p.at + 1]
    BY <1>a, <1>2 DEF NextPlace
  <2>2. p.seg \in {"givingup", "reporting"} => p.at # 6
    BY <1>2, CodeAt, CodeLength DEF IsLast
  <2>3. p.at + 1 > 1
    BY <1>a
  <2> QED BY <1>a, <2>1, <2>2, <2>3 DEF Verdicts, GivingPlace, ReportPlace
<1> QED BY <1>1, <1>2

-----------------------------------------------------------------------------
(* What a commit of the workflow does to the verdict and the error: it sets *)
(* the status at three places, and the error with the document it saves.    *)
LEMMA CommitTells ==
    ASSUME TypeOK, HoldsTheRow, CallCommit
    PROVE  /\ row'.status = IF OpAt(call.place).kind = "status"
                              THEN OpAt(call.place).status ELSE row.status
           /\ row'.spec.error = IF OpAt(call.place).kind = "save"
                                  THEN OpAt(call.place).status = "error" ELSE row.spec.error
           /\ call'.place = call.place /\ call'.phase # "loaded"
           /\ call.place \in Places /\ wf = "open" /\ wf' = wf
           /\ UNCHANGED <<reports, waiter, edits>>
<1> DEFINE op == OpAt(call.place)
<1>1. /\ row \in Row /\ row.spec \in RunSpec /\ call \in Attempt /\ call.place \in Places
      /\ op \in Ops
  BY OpsInPlace DEF TypeOK, Row, Attempt
<1>2. /\ row' = Written(op, call.loaded) /\ CanCommit(call) /\ call' = AfterCommit(call)
      /\ wf = "open" /\ wf' = wf /\ UNCHANGED <<reports, waiter, edits>>
  BY DEF CallCommit, Commit
<1>3. Loads(op) => call.loaded = row
  BY <1>2 DEF CanCommit, HoldsTheRow
<1>4. row'.status = IF op.kind = "status" THEN op.status ELSE row.status
  BY <1>1, <1>2 DEF Written, Row
<1>5. row'.spec.error = IF op.kind = "save" THEN op.status = "error" ELSE row.spec.error
  <2>1. CASE op.kind = "save"
    <3>1. row'.spec = MergeSpec(row.spec, WorkflowCopy(op.status = "error"))
      BY <1>1, <1>2, <1>3, <2>1 DEF Written, Row, Loads
    <3> QED BY <2>1, <3>1 DEF MergeSpec, WorkflowCopy, InitialSpec
  <2>2. CASE op.kind = "stage"
    <3>1. row'.spec = WithStage(row.spec, op.stage, op.status)
      BY <1>1, <1>2, <1>3, <2>2 DEF Written, Row, Loads
    <3> QED BY <1>1, <2>2, <3>1 DEF WithStage, RunSpec
  <2>3. CASE op.kind = "progress"
    <3>1. row'.spec = WithProgress(row.spec)
      BY <1>1, <1>2, <1>3, <2>3 DEF Written, Row, Loads
    <3> QED BY <1>1, <2>3, <3>1 DEF WithProgress, RunSpec
  <2>4. CASE op.kind = "report"
    <3>1. row'.spec = WithReport(row.spec)
      BY <1>1, <1>2, <1>3, <2>4 DEF Written, Row, Loads
    <3> QED BY <1>1, <2>4, <3>1 DEF WithReport, RunSpec
  <2>5. CASE op.kind \in {"status", "work", "seal"}
    BY <1>1, <1>2, <2>5 DEF Written, Row
  <2> QED BY <1>1, <2>1, <2>2, <2>3, <2>4, <2>5 DEF Ops, Kinds
<1>6. call'.place = call.place /\ call'.phase # "loaded"
  BY <1>1, <1>2 DEF AfterCommit, Attempt
<1> QED BY <1>1, <1>2, <1>4, <1>5, <1>6

(* A step of the promise, told by what it does to the three variables.      *)
LEMMA PromiseSteps ==
    ASSUME row.status \in {"running", "completed", "failed"},
           reports \in Nat, reports' \in Nat,
           row.spec.error \in BOOLEAN, row'.spec.error \in BOOLEAN,
           \/ /\ row'.status = row.status /\ row'.spec.error = row.spec.error
              /\ (reports' > 0) = (reports > 0) \/ (row.status = "running" /\ reports' > 0)
           \/ /\ row.status = "running" /\ row'.status = "running"
              /\ row'.spec.error /\ reports' = reports
           \/ /\ row.status = "running" /\ row'.status = "completed" /\ reports > 0
              /\ ~row.spec.error /\ ~row'.spec.error /\ reports' = reports
           \/ /\ row.status = "running" /\ row'.status = "failed"
              /\ row'.spec.error /\ reports' = reports
    PROVE  [Promise!Next]_(Promise!vars)
BY DEF Promise!Next, Promise!vars, Promise!Publish, Promise!Explain, Promise!Complete,
       Promise!Fail

(* The heart of the matter: a step keeps Alone and is a step of RunPromise. *)
LEMMA AloneStep ==
    ASSUME MaxLate = 0, MaxEdits = 0, LostContact = FALSE,
           TypeOK, TypeOK', OneVerdict, ReportIsEarned, Alone, [Next]_vars
    PROVE  Alone' /\ [Promise!Next]_(Promise!vars)
<1>t. /\ call \in Attempt /\ call.place \in Places /\ row \in Row
      /\ row.spec.error \in BOOLEAN /\ row'.spec.error \in BOOLEAN
      /\ reports \in Nat /\ reports' \in Nat
  BY DEF TypeOK, Attempt, Row, RunSpec
<1>v. /\ late = {}
      /\ waiter.state = "starting" => wf = "unstarted"
      /\ waiter.state \in {"failing", "marking"} => wf \in {"unstarted", "raised"}
      /\ wf = "unstarted" \/ waiter.state = "marking" => row.status # "completed"
      /\ wf = "open" /\ row.status = "completed" => call.place = ReportPlace(6)
  BY DEF OneVerdict
<1>a. HoldsTheRow /\ TellsThePlace /\ FailureExplained
  BY DEF Alone
<1>s. row.status \in {"running", "completed", "failed"}
  BY <1>a DEF TellsThePlace
<1>u. ASSUME UNCHANGED db PROVE [Promise!Next]_(Promise!vars) /\ FailureExplained'
  BY <1>u, <1>a DEF db, Promise!vars, FailureExplained
<1>1. CASE CallLoad \/ CallSkipPdf
  <2>1. /\ call'.place = call.place /\ wf = "open" /\ UNCHANGED <<db, wf, waiter, edits>>
        /\ call'.phase # "done"
        /\ call'.phase = "loaded" => call'.loaded = row
    BY <1>1, <1>t DEF CallLoad, CallSkipPdf, AfterLoad, AfterSkipPdf, Attempt
  <2>2. HoldsTheRow' /\ TellsThePlace'
    BY <1>a, <2>1 DEF HoldsTheRow, TellsThePlace, db
  <2> QED BY <1>u, <2>1, <2>2 DEF Alone
<1>2. CASE CallCommit
  <2> DEFINE op == OpAt(call.place)
  <2>1. /\ row'.status = IF op.kind = "status" THEN op.status ELSE row.status
        /\ row'.spec.error = IF op.kind = "save" THEN op.status = "error" ELSE row.spec.error
        /\ call'.place = call.place /\ call'.phase # "loaded"
        /\ wf = "open" /\ wf' = wf /\ UNCHANGED <<reports, waiter, edits>>
    BY <1>2, <1>a, CommitTells
  <2>w. waiter.state \notin {"starting", "marking"}
    BY <1>v, <2>1
  <2>2. HoldsTheRow'
    BY <1>a, <2>1, <2>w DEF HoldsTheRow
  <2>3. CASE op.kind = "status"
    <3>1. /\ row'.spec.error = row.spec.error /\ row'.status = op.status
      BY <2>1, <2>3
    <3>2. CASE call.place = [seg |-> "opening", at |-> 1] /\ op.status = "running"
      <4>a. call.place.seg = "opening"
        BY <3>2
      <4>b. call.place \notin Verdicts
        BY <4>a DEF Verdicts, GivingPlace, ReportPlace
      <4>1. row.status = "running" /\ row'.status = "running" /\ ~row.spec.error
        BY <1>a, <2>1, <3>1, <3>2, <4>a, <4>b DEF TellsThePlace
      <4>2. TellsThePlace' /\ FailureExplained'
        BY <1>a, <2>1, <2>w, <3>1, <3>2, <4>1
           DEF TellsThePlace, FailureExplained, ReportPlace
      <4> QED BY <1>t, <2>1, <2>2, <3>1, <4>1, <4>2, PromiseSteps DEF Alone
    <3>3. CASE call.place = GivingPlace(5) /\ op.status = "failed"
      <4>1. /\ call.place.seg = "givingup" /\ call.place.at > 1
            /\ call.place \in Verdicts /\ call.place # ReportPlace(6)
        BY <3>3 DEF GivingPlace, ReportPlace, Verdicts
      <4>2. row.spec.error /\ row.status \in {"running", "failed"}
        BY <1>a, <1>v, <2>1, <4>1 DEF TellsThePlace
      <4>3. TellsThePlace' /\ FailureExplained'
        BY <1>a, <2>1, <2>w, <3>1, <3>3, <4>1, <4>2 DEF TellsThePlace, FailureExplained
      <4> QED BY <1>t, <2>1, <2>2, <3>1, <3>3, <4>2, <4>3, PromiseSteps DEF Alone
    <3>4. CASE call.place = ReportPlace(6) /\ op.status = "completed"
      <4>1. call.place.seg = "reporting" /\ call.place \in Verdicts
        BY <3>4 DEF ReportPlace, Verdicts
      <4>2. ~row.spec.error /\ row.status \in {"running", "completed"}
        BY <1>a, <2>1, <3>4, <4>1 DEF TellsThePlace
      <4>3. reports > 0
        BY <3>4 DEF ReportIsEarned, PlaceIsEarned
      <4>4. TellsThePlace' /\ FailureExplained'
        BY <1>a, <2>1, <2>w, <3>1, <3>4, <4>1, <4>2 DEF TellsThePlace, FailureExplained
      <4> QED BY <1>t, <2>1, <2>2, <3>1, <3>4, <4>2, <4>3, <4>4, PromiseSteps DEF Alone
    <3> QED BY <1>t, <2>3, <3>2, <3>3, <3>4, VerdictOps
  <2>4. CASE op.kind = "save"
    <3>1. row'.status = row.status /\ row'.spec.error = (op.status = "error")
      BY <2>1, <2>4
    <3>2. CASE call.place.seg = "opening" /\ op.status # "error"
      <4>a. call.place \notin Verdicts
        BY <3>2 DEF Verdicts, GivingPlace, ReportPlace
      <4>1. ~row.spec.error /\ ~row'.spec.error /\ row.status = "running"
        BY <1>a, <1>t, <2>1, <3>1, <3>2, <4>a DEF TellsThePlace
      <4>2. TellsThePlace' /\ FailureExplained'
        BY <1>a, <2>1, <2>w, <3>1, <3>2, <4>1
           DEF TellsThePlace, FailureExplained, ReportPlace
      <4> QED BY <1>t, <2>1, <2>2, <3>1, <4>1, <4>2, PromiseSteps DEF Alone
    <3>3. CASE call.place = GivingPlace(1) /\ op.status = "error"
      <4>1. call.place.seg = "givingup" /\ call.place \notin Verdicts
        BY <3>3 DEF GivingPlace, ReportPlace, Verdicts
      <4>2. row.status = "running"
        BY <1>a, <2>1, <4>1 DEF TellsThePlace
      <4>3. TellsThePlace' /\ FailureExplained'
        BY <1>a, <2>1, <2>w, <3>1, <3>3, <4>1, <4>2
           DEF TellsThePlace, FailureExplained, Verdicts
      <4> QED BY <1>t, <2>1, <2>2, <3>1, <3>3, <4>2, <4>3, PromiseSteps DEF Alone
    <3> QED BY <1>t, <2>4, <3>2, <3>3, VerdictOps
  <2>5. CASE op.kind \notin {"status", "save"}
    <3>1. row'.status = row.status /\ row'.spec.error = row.spec.error
      BY <2>1, <2>5
    <3>2. call.place # GivingPlace(1)
      <4>1. SaveError.kind = "save"
        BY DEF SaveError, Op
      <4> QED BY <1>t, <2>5, <4>1, VerdictOps
    <3>3. call.place.seg = "givingup" => call.place.at > 1
      BY <1>t, <3>2 DEF GivingPlace, Places
    <3>4. TellsThePlace' /\ FailureExplained'
      BY <1>a, <2>1, <2>w, <3>1, <3>3 DEF TellsThePlace, FailureExplained
    <3> QED BY <1>t, <1>s, <2>1, <2>2, <3>1, <3>4, PromiseSteps DEF Alone
  <2> QED BY <2>3, <2>4, <2>5
<1>3. CASE CallInsert
  <2>1. /\ wf = "open" /\ call.phase = "drawn" /\ OpAt(call.place).kind = "report"
        /\ call'.place = call.place /\ call'.phase = "done"
        /\ reports' = reports + 1 /\ UNCHANGED <<row, wf, waiter, edits>>
    BY <1>3, <1>t DEF CallInsert, Insert, CanInsert, Attempt, ReportIsEarned
  <2>2. OpAt(call.place).kind = "report" => call.place = ReportPlace(3)
    BY <1>t, VerdictOps
  <2>3. call.place = ReportPlace(3) /\ call.place \notin Verdicts
        /\ call.place.seg = "reporting"
    BY <2>1, <2>2 DEF ReportPlace, GivingPlace, Verdicts
  <2>4. row.status = "running"
    BY <1>a, <2>1, <2>3 DEF TellsThePlace
  <2>5. HoldsTheRow' /\ TellsThePlace' /\ FailureExplained'
    BY <1>a, <2>1, <2>3 DEF HoldsTheRow, TellsThePlace, FailureExplained
  <2>6. reports' > 0
    BY <1>t, <2>1
  <2> QED BY <1>t, <2>1, <2>4, <2>5, <2>6, PromiseSteps DEF Alone
<1>4. CASE Advance
  <2>1. wf = "open" /\ call.phase = "done" /\ UNCHANGED <<db, waiter, edits>>
    BY <1>4 DEF Advance
  <2>2. CASE IsLast(call.place) /\ call.place.seg \in {"givingup", "reporting"}
    <3>1. wf' = "returned" /\ call' = call
      BY <1>4, <2>2 DEF Advance
    <3>2. HoldsTheRow' /\ TellsThePlace'
      BY <1>a, <1>v, <2>1, <3>1 DEF HoldsTheRow, TellsThePlace, db
    <3> QED BY <1>u, <2>1, <3>2 DEF Alone
  <2>3. CASE ~(IsLast(call.place) /\ call.place.seg \in {"givingup", "reporting"})
    <3>1. /\ wf' = wf /\ call'.place = NextPlace(call.place) /\ call'.phase = "begun"
      BY <1>4, <2>3 DEF Advance, Fresh
    <3>2. HoldsTheRow'
      BY <1>a, <2>1, <3>1 DEF HoldsTheRow, db
    <3>3. /\ call'.place = ReportPlace(6) =>
                call.place \notin Verdicts /\ call.place.seg = "reporting"
          /\ call'.place.seg = "givingup" =>
                \/ call'.place = GivingPlace(1)
                \/ call.place.seg = "givingup" /\ call'.place.at > 1
          /\ call.place.seg = "givingup" => call'.place.seg = "givingup"
          /\ call'.place \notin Verdicts => call.place \notin Verdicts
      BY <1>t, <2>3, <3>1, VerdictWay
    <3>4. GivingPlace(1).at = 1
      BY DEF GivingPlace
    <3>5. TellsThePlace'
      BY <1>a, <1>v, <2>1, <3>1, <3>3, <3>4 DEF TellsThePlace, db
    <3> QED BY <1>u, <2>1, <3>2, <3>5 DEF Alone
  <2> QED BY <2>2, <2>3
<1>5. CASE CallFail
  <2>1. /\ wf = "open" /\ wf' \in {"open", "raised"} /\ call'.place = call.place
        /\ call' = call \/ call'.phase = "begun"
        /\ UNCHANGED <<db, waiter, edits>>
    BY <1>5 DEF CallFail, RetryOrRaise, Fresh
  <2>2. HoldsTheRow' /\ TellsThePlace'
    BY <1>a, <1>v, <2>1 DEF HoldsTheRow, TellsThePlace, db
  <2> QED BY <1>u, <2>1, <2>2 DEF Alone
<1>6. CASE CallTimeout
  <2>1. Cardinality(late) = 0
    BY <1>v, FS_EmptySet
  <2> QED BY <1>6, <2>1 DEF CallTimeout
<1>7. CASE LateStep
  BY <1>7, <1>v DEF LateStep
<1>8. CASE StartWorkflow
  <2>1. /\ waiter.state = "starting" /\ wf' = "open" /\ waiter'.state = "waiting"
        /\ UNCHANGED <<db, call, edits>> /\ wf = "unstarted"
    BY <1>8, <1>v DEF StartWorkflow, Waiting
  <2>2. HoldsTheRow' /\ TellsThePlace'
    BY <1>a, <2>1 DEF HoldsTheRow, TellsThePlace, db, ReportPlace
  <2> QED BY <1>u, <2>1, <2>2 DEF Alone
<1>9. CASE StartFails \/ AwaitReturns \/ AwaitRaises \/ ApiCrash
  <2>1. /\ wf' = wf /\ waiter'.state \notin {"starting", "marking"}
        /\ UNCHANGED <<db, call>> /\ edits' = {}
    BY <1>9, <1>a, <1>v DEF StartFails, AwaitReturns, AwaitRaises, ApiCrash, Waiting,
                            HoldsTheRow
  <2>2. HoldsTheRow' /\ TellsThePlace'
    BY <1>a, <2>1 DEF HoldsTheRow, TellsThePlace, db
  <2> QED BY <1>u, <2>1, <2>2 DEF Alone
<1>10. CASE MarkLoad
  <2>1. /\ wf' = wf /\ waiter'.state # "starting" /\ UNCHANGED <<db, call, edits>>
        /\ waiter'.state = "marking" => waiter'.loaded = row
    BY <1>10 DEF MarkLoad, Waiting
  <2>2. HoldsTheRow' /\ TellsThePlace'
    BY <1>a, <2>1 DEF HoldsTheRow, TellsThePlace, db
  <2> QED BY <1>u, <2>1, <2>2 DEF Alone
<1>11. CASE MarkCommit
  <2>1. /\ wf \in {"unstarted", "raised"} /\ row.status # "completed" /\ waiter.loaded = row
        /\ waiter'.state = "done" /\ UNCHANGED <<reports, wf, call, edits>>
    BY <1>11, <1>a, <1>v DEF MarkCommit, Waiting, HoldsTheRow
  <2>2. row'.status = "failed" /\ row'.spec.error
    BY <1>11, <1>t, <2>1 DEF MarkCommit, FlushStatus, WithError, Row, RunSpec
  <2>3. row.status = "running" \/ (row.status = "failed" /\ row.spec.error)
    BY <1>a, <1>s, <2>1 DEF FailureExplained
  <2>4. HoldsTheRow' /\ TellsThePlace' /\ FailureExplained'
    BY <1>a, <2>1, <2>2 DEF HoldsTheRow, TellsThePlace, FailureExplained
  <2> QED BY <1>t, <2>1, <2>2, <2>3, <2>4, PromiseSteps DEF Alone
<1>12. CASE EditStep
  BY <1>12, <1>a DEF EditStep, HoldsTheRow
<1>13. ASSUME NEW what \in {"rename", "archive"}, EditLoad(what)
       PROVE  FALSE
  BY <1>13 DEF EditLoad, TypeOK
<1>14. CASE UNCHANGED vars
  <2>1. HoldsTheRow' /\ TellsThePlace'
    BY <1>a, <1>14 DEF HoldsTheRow, TellsThePlace, vars
  <2> QED BY <1>u, <1>14, <2>1 DEF Alone, vars, db
<1> QED BY <1>1, <1>2, <1>3, <1>4, <1>5, <1>6, <1>7, <1>8, <1>9, <1>10, <1>11, <1>12,
           <1>13, <1>14
        DEF Next, WorkerStep, WaiterStep, Fault

LEMMA RunsAlone ==
    ASSUME MaxLate = 0, MaxEdits = 0, LostContact = FALSE
    PROVE  Spec => []Alone
<1>1. Init => Alone
  BY DEF Init, Alone, HoldsTheRow, TellsThePlace, FailureExplained, InitialRow,
         InitialSpec, Fresh, Waiting
<1>2. TypeOK /\ TypeOK' /\ OneVerdict /\ ReportIsEarned /\ Alone /\ [Next]_vars => Alone'
  BY AloneStep
<1> QED BY <1>1, <1>2, TypeCorrect, HasOneVerdict, EarnsReport, PTL DEF Spec

(* A run is never shown as failed without the error that explains it, for   *)
(* any number of attempts and faults, also when it is the API that gives    *)
(* the verdict - or dies before it can.                                     *)
THEOREM FailsExplained ==
    ASSUME MaxLate = 0, MaxEdits = 0, LostContact = FALSE
    PROVE  Spec => []FailureExplained
<1>1. Alone => FailureExplained
  BY DEF Alone
<1> QED BY <1>1, RunsAlone, PTL

(* The workflow, its retried activities and the API's background task       *)
(* together do nothing that RunPromise does not allow: one verdict, behind  *)
(* it a report or an error.                                                 *)
THEOREM KeepsPromise ==
    ASSUME MaxLate = 0, MaxEdits = 0, LostContact = FALSE
    PROVE  Spec => Promise!Safety
<1>1. Init => Promise!Init
  BY DEF Init, Promise!Init, InitialRow, InitialSpec
<1>2. TypeOK /\ TypeOK' /\ OneVerdict /\ ReportIsEarned /\ Alone /\ [Next]_vars
        => [Promise!Next]_(Promise!vars)
  BY AloneStep
<1> QED BY <1>1, <1>2, TypeCorrect, HasOneVerdict, EarnsReport, RunsAlone, PTL
        DEF Spec, Promise!Safety
-----------------------------------------------------------------------------
(* The code of a run with a score is one line of 35 entries: no giving up.  *)
Position(p) ==
    CASE p.seg = "opening"   -> p.at
      [] p.seg = "finals"    -> 20 + p.at
      [] p.seg = "judging"   -> 26 + p.at
      [] p.seg = "reporting" -> 29 + p.at
      [] OTHER               -> 0

(* Where on it each stage is recorded as completed. *)
End == [formalize |-> 5, evidence |-> 9, cause_modeling |-> 12, scenarios |-> 15,
        optimize |-> 19, simulation |-> 20, promote_finalists |-> 23, robustness |-> 26,
        judge |-> 30, report |-> 33]

(* What the n-th entry finds in the document. *)
Filled(n, spec) ==
    /\ \A s \in Stages : n > End[s] => spec.stages[s] = "completed"
    /\ n > 4 => spec.objectives
    /\ n > 29 => spec.results /\ spec.summary /\ spec.narrative

(* The workflow finds what it has put into the document so far.             *)
Filling ==
    /\ call.place.seg \in {"finals", "reporting"} => scored
    /\ call.place.seg = "givingup" => ~scored
    /\ scored /\ wf = "open" =>
         /\ Filled(Position(call.place), row.spec)
         /\ call.phase = "done" => Filled(Position(call.place) + 1, row.spec)
    /\ CompletedShowsResults

(* The n-th entry is one that keeps what was filled and fills what is due.  *)
Fits(n, o) ==
    /\ o.kind = "stage" => IF o.status = "completed" THEN End[o.stage] = n ELSE n < End[o.stage]
    /\ \A s \in Stages : End[s] = n => o = Stage(s, "completed")
    /\ n = 4 => o.kind = "save"
    /\ n = 29 => o.kind = "progress"
    /\ o.kind = "save" => n < 29

LEMMA LineOfCode ==
    ASSUME NEW p \in Places, p.seg # "givingup"
    PROVE  Position(p) \in 1..35 /\ Fits(Position(p), OpAt(p))
<1>a. Stages = {"formalize", "evidence", "scenarios", "simulation",
                "optimize", "robustness", "judge", "report",
                "cause_modeling", "promote_finalists"}
  BY DEF Stages, PipelineStages, AppendedStages
<1>e. /\ End["formalize"] = 5 /\ End["evidence"] = 9 /\ End["cause_modeling"] = 12
      /\ End["scenarios"] = 15 /\ End["optimize"] = 19 /\ End["simulation"] = 20
      /\ End["promote_finalists"] = 23 /\ End["robustness"] = 26
      /\ End["judge"] = 30 /\ End["report"] = 33
  BY DEF End
<1> DEFINE Ends == {5, 9, 12, 15, 19, 20, 23, 26, 30, 33}
<1>b. \A s \in Stages : End[s] \in Ends
  BY <1>a, <1>e
<1>c. \A s, t \in Stages : End[s] = End[t] => s = t
  BY <1>a, <1>e
<1>f. \A s \in Stages : Fits(End[s], Stage(s, "completed"))
  BY <1>b, <1>c DEF Fits, Op, Stage
<1>g. \A n \in 1..35, s \in Stages, x \in {"started", "failed"} :
         n \notin Ends \cup {4, 29} /\ n < End[s] => Fits(n, Stage(s, x))
  BY <1>b DEF Fits, Op, Stage
<1>h. \A n \in 1..35 : n \notin Ends \cup {4, 29} =>
         /\ Fits(n, Work) /\ Fits(n, Report) /\ Fits(n, Seal)
         /\ \A x : Fits(n, SetStatus(x))
  BY <1>b DEF Fits, Op, Work, Report, Seal, SetStatus
<1>k. SaveSpec.kind = "save" /\ Progress.kind = "progress"
  BY DEF Op, SaveSpec, Progress
<1>i. \A n \in 1..28 : n \notin Ends => Fits(n, SaveSpec)
  BY <1>b, <1>k DEF Fits
<1>j. Fits(29, Progress)
  BY <1>b, <1>k DEF Fits
<1> HIDE DEF Fits
<1>1. \A i \in 1..20 : Fits(i, Opening[i])
  BY <1>a, <1>e, <1>f, <1>g, <1>h, <1>i DEF Opening
<1>2. \A i \in 1..6 : Fits(20 + i, Finals[i])
  BY <1>a, <1>e, <1>f, <1>g, <1>h DEF Finals
<1>3. \A i \in 1..3 : Fits(26 + i, Judging[i])
  BY <1>a, <1>e, <1>g, <1>h, <1>j DEF Judging
<1>4. \A i \in 1..6 : Fits(29 + i, Reporting[i])
  BY <1>a, <1>e, <1>f, <1>g, <1>h DEF Reporting
<1> QED BY <1>1, <1>2, <1>3, <1>4, InCode DEF Position

(* A run with a score goes down the line, one without never gets to its end. *)
LEMMA DownTheLine ==
    ASSUME NEW p \in Places, ~(IsLast(p) /\ p.seg \in {"givingup", "reporting"})
    PROVE  /\ scored /\ p.seg # "givingup" =>
                NextPlace(p).seg # "givingup" /\ Position(NextPlace(p)) = Position(p) + 1
           /\ ~scored /\ p.seg \notin {"finals", "reporting"} =>
                NextPlace(p).seg \notin {"finals", "reporting"}
<1>a. /\ p.at \in 1..20 /\ p.seg \in Segments
      /\ p = [seg |-> p.seg, at |-> p.at]
  BY DEF Places
<1>1. CASE IsLast(p)
  <2>1. NextPlace(p) = [seg |-> Following(p.seg), at |-> 1]
    BY <1>1 DEF NextPlace
  <2>2. /\ p.seg = "opening" => p.at = 20
        /\ p.seg = "finals" => p.at = 6
        /\ p.seg = "judging" => p.at = 3
    BY <1>1, CodeAt, CodeLength DEF IsLast
  <2>3. p.seg \in {"opening", "finals", "judging"}
    BY <1>a, <1>1 DEF Segments
  <2> QED BY <2>1, <2>2, <2>3 DEF Following, Position
<1>2. CASE ~IsLast(p)
  <2>1. NextPlace(p) = [seg |-> p.seg, at |-> p.at + 1]
    BY <1>a, <1>2 DEF NextPlace
  <2> QED BY <1>a, <2>1 DEF Position, Segments
<1> QED BY <1>1, <1>2

(* An entry spoils nothing that was filled before it, also when it is       *)
(* repeated, and fills what is found by the next.                           *)
LEMMA CommitFills ==
    ASSUME TypeOK, HoldsTheRow, CallCommit, call.place.seg # "givingup",
           NEW n, n = Position(call.place), Filled(n, row.spec)
    PROVE  Filled(n, row'.spec) /\ Filled(n + 1, row'.spec)
<1> DEFINE op == OpAt(call.place)
<1>1. /\ row \in Row /\ row.spec \in RunSpec /\ call \in Attempt /\ call.place \in Places
      /\ op \in Ops
  BY OpsInPlace DEF TypeOK, Row, Attempt
<1>2. row' = Written(op, call.loaded) /\ CanCommit(call)
  BY DEF CallCommit, Commit
<1>3. Loads(op) => call.loaded = row
  BY <1>2 DEF CanCommit, CallCommit, HoldsTheRow
<1>4. n \in 1..35 /\ Fits(n, op)
  BY <1>1, LineOfCode
<1>s. \A s : Stage(s, "completed").kind = "stage" /\ Stage(s, "completed").stage = s
  BY DEF Stage, Op
<1>e. \A s \in Stages : End[s] \in 1..35
  BY DEF End, Stages, PipelineStages, AppendedStages
<1> SUFFICES /\ \A s \in Stages : n >= End[s] => row'.spec.stages[s] = "completed"
             /\ n >= 4 => row'.spec.objectives
             /\ n >= 29 => row'.spec.results /\ row'.spec.summary /\ row'.spec.narrative
  BY <1>4, <1>e DEF Filled
<1>5. ASSUME op.kind # "stage", row'.spec.stages = row.spec.stages
      PROVE  \A s \in Stages : n >= End[s] => row'.spec.stages[s] = "completed"
  <2>1. \A s \in Stages : n # End[s]
    BY <1>5, <1>4, <1>s DEF Fits
  <2> QED BY <1>4, <1>5, <1>e, <2>1 DEF Filled
<1>6. CASE op.kind = "stage"
  <2>1. row'.spec = WithStage(row.spec, op.stage, op.status)
    BY <1>1, <1>2, <1>3, <1>6 DEF Written, Row, Loads
  <2>2. op.stage \in Stages /\ n # 4 /\ n # 29
    BY <1>1, <1>4, <1>6 DEF Ops, Fits
  <2>3. /\ row'.spec.stages = [row.spec.stages EXCEPT ![op.stage] = op.status]
        /\ row'.spec.objectives = row.spec.objectives
        /\ row'.spec.results = row.spec.results /\ row'.spec.summary = row.spec.summary
        /\ row'.spec.narrative = row.spec.narrative
    BY <1>1, <2>1 DEF WithStage, RunSpec
  <2>4. row.spec.stages \in [Stages -> StageStatus]
    BY <1>1 DEF RunSpec
  <2>5. ASSUME NEW s \in Stages, n >= End[s] PROVE row'.spec.stages[s] = "completed"
    <3>1. CASE s = op.stage
      <4>1. op.status = "completed"
        BY <1>4, <1>6, <1>e, <2>5, <3>1 DEF Fits
      <4> QED BY <2>3, <2>4, <3>1, <4>1
    <3>2. CASE s # op.stage
      <4>1. n # End[s]
        BY <1>4, <1>s, <3>2 DEF Fits
      <4>2. row.spec.stages[s] = "completed"
        BY <1>4, <1>e, <2>5, <4>1 DEF Filled
      <4> QED BY <2>2, <2>3, <2>4, <3>2, <4>2
    <3> QED BY <3>1, <3>2
  <2> QED BY <1>4, <2>2, <2>3, <2>5 DEF Filled
<1>7. CASE op.kind = "save"
  <2>1. row'.spec = MergeSpec(row.spec, WorkflowCopy(op.status = "error"))
    BY <1>1, <1>2, <1>3, <1>7 DEF Written, Row, Loads
  <2>2. row'.spec.stages = row.spec.stages /\ row'.spec.objectives
    BY <2>1 DEF MergeSpec, WorkflowCopy, InitialSpec
  <2>3. n < 29
    BY <1>4, <1>7 DEF Fits
  <2> QED BY <1>4, <1>5, <1>7, <2>2, <2>3
<1>8. CASE op.kind = "progress"
  <2>1. row'.spec = WithProgress(row.spec)
    BY <1>1, <1>2, <1>3, <1>8 DEF Written, Row, Loads
  <2>2. /\ row'.spec.stages = row.spec.stages /\ row'.spec.objectives = row.spec.objectives
        /\ row'.spec.results /\ row'.spec.summary /\ row'.spec.narrative
    BY <1>1, <2>1 DEF WithProgress, RunSpec
  <2>3. n # 4
    BY <1>4, <1>8 DEF Fits
  <2> QED BY <1>4, <1>5, <1>8, <2>2, <2>3 DEF Filled
<1>9. CASE op.kind \in {"report", "status", "work", "seal"}
  <2>1. op.kind = "report" => row'.spec = WithReport(row.spec)
    BY <1>1, <1>2, <1>3 DEF Written, Row, Loads
  <2>2. op.kind # "report" => row'.spec = row.spec
    BY <1>1, <1>2, <1>9 DEF Written, Row
  <2>3. /\ row'.spec.stages = row.spec.stages /\ row'.spec.objectives = row.spec.objectives
        /\ row.spec.summary => row'.spec.summary
        /\ row'.spec.results = row.spec.results /\ row'.spec.narrative = row.spec.narrative
    BY <1>1, <2>1, <2>2 DEF WithReport, RunSpec
  <2>4. n # 4 /\ n # 29
    BY <1>4, <1>9 DEF Fits
  <2> QED BY <1>4, <1>5, <1>9, <2>3, <2>4 DEF Filled
<1> QED BY <1>1, <1>6, <1>7, <1>8, <1>9 DEF Ops, Kinds

(* At the end of the line everything is there. *)
LEMMA FilledShows ==
    ASSUME NEW spec, Filled(Position(ReportPlace(6)), spec)
    PROVE  /\ spec.results /\ spec.summary /\ spec.narrative /\ spec.objectives
           /\ \A s \in Stages : spec.stages[s] = "completed"
<1>1. Position(ReportPlace(6)) = 35
  BY DEF Position, ReportPlace
<1>2. \A s \in Stages : 35 > End[s]
  BY DEF End, Stages, PipelineStages, AppendedStages
<1> QED BY <1>1, <1>2 DEF Filled

LEMMA FillingStep ==
    ASSUME MaxLate = 0, MaxEdits = 0, LostContact = FALSE,
           TypeOK, OneVerdict, ReportIsEarned, Alone, Filling, [Next]_vars
    PROVE  Filling'
<1> DEFINE n == Position(call.place)
<1>t. call \in Attempt /\ call.place \in Places
  BY DEF TypeOK, Attempt
<1>v. /\ late = {}
      /\ waiter.state = "starting" => wf = "unstarted"
      /\ waiter.state \in {"failing", "marking"} => wf \in {"unstarted", "raised"}
      /\ wf = "open" /\ row.status = "completed" => call.place = ReportPlace(6)
  BY DEF OneVerdict
<1>a. HoldsTheRow /\ TellsThePlace
  BY DEF Alone
<1>f. /\ call.place.seg \in {"finals", "reporting"} => scored
      /\ call.place.seg = "givingup" => ~scored
      /\ scored /\ wf = "open" =>
           /\ Filled(n, row.spec)
           /\ call.phase = "done" => Filled(n + 1, row.spec)
      /\ CompletedShowsResults
  BY DEF Filling
<1>u. ASSUME UNCHANGED row PROVE CompletedShowsResults'
  BY <1>f, <1>u DEF CompletedShowsResults
<1>1. ASSUME call'.place = call.place, UNCHANGED <<row, scored>>,
             wf' = "open" => wf = "open" /\ (call'.phase = "done" => call.phase = "done")
      PROVE  Filling'
  BY <1>1, <1>f, <1>u DEF Filling
<1>2. CASE CallLoad \/ CallSkipPdf
  <2>1. call'.place = call.place /\ call'.phase # "done" /\ wf = "open"
        /\ UNCHANGED <<row, scored, wf>>
    BY <1>2, <1>t DEF CallLoad, CallSkipPdf, AfterLoad, AfterSkipPdf, Attempt, db
  <2> QED BY <1>1, <2>1
<1>3. CASE CallCommit
  <2>1. /\ call'.place = call.place /\ wf = "open" /\ wf' = wf
        /\ row'.status = IF OpAt(call.place).kind = "status"
                           THEN OpAt(call.place).status ELSE row.status
    BY <1>3, <1>a, CommitTells
  <2>2. UNCHANGED scored
    BY <1>3 DEF CallCommit
  <2>3. scored => Filled(n, row'.spec) /\ Filled(n + 1, row'.spec)
    BY <1>3, <1>a, <1>f, <2>1, CommitFills
  <2>4. row'.status = "completed" => call.place = ReportPlace(6)
    BY <1>t, <1>v, <2>1, VerdictOps
  <2>5. CompletedShowsResults'
    <3>1. call.place = ReportPlace(6) => scored
      BY <1>f DEF ReportPlace
    <3>2. call.place = ReportPlace(6) => Filled(Position(ReportPlace(6)), row'.spec)
      BY <2>3, <3>1
    <3> QED BY <2>4, <3>2, FilledShows DEF CompletedShowsResults
  <2> QED BY <1>f, <2>1, <2>2, <2>3, <2>5 DEF Filling
<1>4. CASE CallInsert
  <2>1. /\ OpAt(call.place).kind = "report" /\ wf = "open"
        /\ call'.place = call.place /\ UNCHANGED <<row, scored, wf>>
    BY <1>4, <1>t DEF CallInsert, Insert, CanInsert, Attempt, ReportIsEarned
  <2>2. call.place = ReportPlace(3)
    BY <1>t, <2>1, VerdictOps
  <2>3. n = 32
    BY <2>2 DEF ReportPlace, Position
  <2>4. \A s \in Stages : 33 > End[s] => 32 > End[s]
    BY DEF End, Stages, PipelineStages, AppendedStages
  <2>5. scored => Filled(n + 1, row.spec)
    BY <1>f, <2>1, <2>3, <2>4 DEF Filled
  <2> QED BY <1>f, <1>u, <2>1, <2>5 DEF Filling
<1>5. CASE Advance
  <2>1. wf = "open" /\ call.phase = "done" /\ UNCHANGED <<row, scored>>
    BY <1>5 DEF Advance, db
  <2>2. CASE IsLast(call.place) /\ call.place.seg \in {"givingup", "reporting"}
    BY <1>1, <1>5, <2>1, <2>2 DEF Advance
  <2>3. CASE ~(IsLast(call.place) /\ call.place.seg \in {"givingup", "reporting"})
    <3>1. wf' = wf /\ call'.place = NextPlace(call.place) /\ call'.phase = "begun"
      BY <1>5, <2>3 DEF Advance, Fresh
    <3>2. /\ scored /\ call.place.seg # "givingup" =>
                call'.place.seg # "givingup" /\ Position(call'.place) = n + 1
          /\ ~scored /\ call.place.seg \notin {"finals", "reporting"} =>
                call'.place.seg \notin {"finals", "reporting"}
      BY <1>t, <2>3, <3>1, DownTheLine
    <3> QED BY <1>f, <1>u, <2>1, <3>1, <3>2 DEF Filling
  <2> QED BY <2>2, <2>3
<1>6. CASE CallFail
  <2>1. /\ wf = "open" /\ call'.place = call.place
        /\ call' = call \/ call'.phase = "begun"
        /\ UNCHANGED <<row, scored>>
    BY <1>6 DEF CallFail, RetryOrRaise, Fresh, db
  <2> QED BY <1>1, <2>1
<1>7. CASE CallTimeout
  <2>1. Cardinality(late) = 0
    BY <1>v, FS_EmptySet
  <2> QED BY <1>7, <2>1 DEF CallTimeout
<1>8. CASE LateStep
  BY <1>8, <1>v DEF LateStep
<1>9. CASE StartWorkflow
  <2>1. wf = "unstarted" /\ UNCHANGED <<row, scored, call>>
    BY <1>9, <1>v DEF StartWorkflow, db
  <2>2. /\ call.place = [seg |-> "opening", at |-> 1] /\ call.phase = "begun"
    BY <1>a, <2>1 DEF HoldsTheRow, TellsThePlace
  <2>3. n = 1
    BY <2>2 DEF Position
  <2>4. \A s \in Stages : ~(1 > End[s])
    BY DEF End, Stages, PipelineStages, AppendedStages
  <2>5. Filled(n, row.spec)
    BY <2>3, <2>4 DEF Filled
  <2> QED BY <1>f, <1>u, <2>1, <2>2, <2>5 DEF Filling
<1>10. CASE StartFails \/ AwaitReturns \/ AwaitRaises \/ MarkLoad \/ ApiCrash
  <2>1. UNCHANGED <<row, scored, call>> /\ (wf' = wf \/ wf' = "unstarted")
    BY <1>10 DEF StartFails, AwaitReturns, AwaitRaises, MarkLoad, ApiCrash, db
  <2> QED BY <1>1, <2>1
<1>11. CASE MarkCommit
  <2>1. /\ wf \in {"unstarted", "raised"} /\ row.status # "completed" /\ waiter.loaded = row
        /\ UNCHANGED <<wf, call, scored>>
    BY <1>11, <1>a, <1>v DEF MarkCommit, HoldsTheRow, OneVerdict
  <2>2. row'.status # "completed"
    BY <1>11, <2>1 DEF MarkCommit, FlushStatus
  <2> QED BY <1>f, <2>1, <2>2 DEF Filling, CompletedShowsResults
<1>12. CASE EditStep
  BY <1>12, <1>a DEF EditStep, HoldsTheRow
<1>13. ASSUME NEW what \in {"rename", "archive"}, EditLoad(what)
       PROVE  FALSE
  BY <1>13 DEF EditLoad, TypeOK
<1>14. CASE UNCHANGED vars
  BY <1>1, <1>14 DEF vars
<1> QED BY <1>2, <1>3, <1>4, <1>5, <1>6, <1>7, <1>8, <1>9, <1>10, <1>11, <1>12,
           <1>13, <1>14
        DEF Next, WorkerStep, WaiterStep, Fault

(* A completed run shows its objectives, results, summary and narrative and *)
(* every stage as completed, although each writer of the row stores the     *)
(* whole of the document that it loaded: for any number of attempts and     *)
(* faults, repeated commits among them.                                     *)
THEOREM ShowsResults ==
    ASSUME MaxLate = 0, MaxEdits = 0, LostContact = FALSE
    PROVE  Spec => []CompletedShowsResults
<1>1. Init => Filling
  BY DEF Init, Filling, CompletedShowsResults, InitialRow, Fresh
<1>2. /\ TypeOK /\ OneVerdict /\ ReportIsEarned /\ Alone /\ Filling /\ [Next]_vars
        => Filling'
  BY FillingStep
<1>3. Filling => CompletedShowsResults
  BY DEF Filling
<1> QED BY <1>1, <1>2, <1>3, TypeCorrect, HasOneVerdict, EarnsReport, RunsAlone, PTL
        DEF Spec

-----------------------------------------------------------------------------
(* What the browser shows of a run, for any number of broken connections.   *)
(* The stream only reads the row, so that a run that is watched is a run,   *)
(* and everything proved of runs holds while it is watched.                 *)

(* Every step of a watched run is one of the run, or leaves it alone.       *)
LEMMA WatchedRun == StreamSpec => Spec
<1>1. StreamInit => Init
  BY DEF StreamInit
<1>2. [StreamNext]_streamVars => [Next]_vars
  BY DEF StreamNext, streamVars, Poll, PollEnd, Break, Adopt, Reconnect
<1> QED BY <1>1, <1>2, PTL DEF StreamSpec, Spec

(* The record of stages only grows. *)
LEMMA LogGrows == ASSUME [Next]_vars PROVE stageLog \subseteq stageLog'
<1>1. ASSUME NEW a, Commit(a) PROVE stageLog \subseteq stageLog'
  BY <1>1 DEF Commit
<1>2. CASE WorkerStep
  BY <1>1, <1>2 DEF WorkerStep, CallLoad, CallCommit, CallSkipPdf, CallInsert, Insert,
                    Advance, db
<1>3. CASE LateStep
  BY <1>1, <1>3 DEF LateStep, LateLoad, LateCommit, LateSkipPdf, LateInsert, Insert, db
<1>4. CASE WaiterStep
  BY <1>4 DEF WaiterStep, StartWorkflow, AwaitReturns, AwaitRaises, MarkLoad, MarkCommit, db
<1>5. CASE EditStep \/ Fault \/ \E what \in {"rename", "archive"} : EditLoad(what)
  BY <1>5 DEF EditStep, RenameCommit, ArchiveCommit, Fault, CallFail, CallTimeout,
              StartFails, ApiCrash, EditLoad, db
<1>6. CASE UNCHANGED vars
  BY <1>6 DEF vars
<1> QED BY <1>2, <1>3, <1>4, <1>5, <1>6 DEF Next

(* The browser's copy is well-formed; its stages have been recorded.        *)
ViewOk ==
    /\ ui \in [status : RunStatus, stages : [Stages -> StageStatus]]
    /\ UiStagesWereLogged

(* A stage that the browser shows has been recorded, although events are    *)
(* lost with the connection, in part, and what is shown is put together of  *)
(* several connections: for any run, edited or not, and any attempts.       *)
THEOREM ViewWasLogged == StreamSpec => []UiStagesWereLogged
<1>1. StreamInit => ViewOk
  <2>1. ASSUME StreamInit PROVE ViewOk
    <3>1. ui = [status |-> InitialRow.status, stages |-> InitialRow.spec.stages]
      BY <2>1 DEF StreamInit, Snapshot
    <3>2. InitialRow.status \in RunStatus /\ InitialRow.spec.stages \in [Stages -> StageStatus]
      BY InitialTypes DEF Row, RunSpec
    <3>3. \A s \in Stages : InitialRow.spec.stages[s] \in {"pending", "absent"}
      BY DEF InitialRow, InitialSpec
    <3> QED BY <3>1, <3>2, <3>3 DEF ViewOk, UiStagesWereLogged
  <2> QED BY <2>1
<1>2. TypeOK /\ ShownStagesWereLogged /\ ViewOk /\ [StreamNext]_streamVars => ViewOk'
  <2> SUFFICES ASSUME TypeOK, ShownStagesWereLogged, ViewOk, [StreamNext]_streamVars
               PROVE  ViewOk'
    OBVIOUS
  <2>t. row.status \in RunStatus /\ row.spec.stages \in [Stages -> StageStatus]
    BY DEF TypeOK, Row, RunSpec
  <2>v. /\ ui \in [status : RunStatus, stages : [Stages -> StageStatus]]
        /\ UiStagesWereLogged
    BY DEF ViewOk
  <2>1. CASE UNCHANGED ui /\ [Next]_vars
    <3>1. stageLog \subseteq stageLog'
      BY <2>1, LogGrows
    <3> QED BY <2>1, <2>v, <3>1 DEF ViewOk, UiStagesWereLogged
  <2>2. ASSUME NEW news, ui' = [ui EXCEPT !.stages = Updated(ui.stages, news)],
               UNCHANGED vars
        PROVE  ViewOk'
    <3>1. /\ ui'.stages = Updated(ui.stages, news)
          /\ ui' \in [status : RunStatus, stages : [Stages -> StageStatus]]
      BY <2>2, <2>t, <2>v DEF Updated
    <3>2. \A s \in Stages : ui'.stages[s] \in {row.spec.stages[s], ui.stages[s]}
      BY <3>1 DEF Updated
    <3>3. UNCHANGED stageLog
      BY <2>2 DEF vars
    <3> QED BY <2>v, <3>1, <3>2, <3>3
            DEF ViewOk, UiStagesWereLogged, ShownStagesWereLogged, ShownIn
  <2>3. CASE ui' = Snapshot(row) /\ UNCHANGED vars
    <3>1. /\ ui'.stages = row.spec.stages /\ UNCHANGED stageLog
          /\ ui' \in [status : RunStatus, stages : [Stages -> StageStatus]]
      BY <2>3, <2>t DEF Snapshot, vars
    <3> QED BY <3>1 DEF ViewOk, UiStagesWereLogged, ShownStagesWereLogged, ShownIn
  <2>4. CASE Poll
    BY <2>2, <2>4 DEF Poll
  <2>5. CASE Break
    BY <2>2, <2>5 DEF Break
  <2>6. CASE PollEnd \/ Adopt
    BY <2>3, <2>6 DEF PollEnd, Adopt
  <2>7. CASE Reconnect \/ UNCHANGED streamVars \/ (Next /\ UNCHANGED client)
    BY <2>1, <2>7 DEF Reconnect, streamVars, client
  <2> QED BY <2>4, <2>5, <2>6, <2>7 DEF StreamNext
<1>3. ViewOk => UiStagesWereLogged
  BY DEF ViewOk
<1> QED BY <1>1, <1>2, <1>3, WatchedRun, TypeCorrect, ShownStages, PTL DEF StreamSpec

-----------------------------------------------------------------------------
(* Nothing is written to a completed run that nobody edits. *)
LEMMA CompletedRests ==
    ASSUME MaxLate = 0, MaxEdits = 0, LostContact = FALSE,
           TypeOK, OneVerdict, Alone, [Next]_vars, row.status = "completed"
    PROVE  row' = row
<1>v. /\ late = {} /\ waiter.state # "marking" /\ edits = {}
      /\ wf = "open" => call.place = ReportPlace(6)
  BY DEF OneVerdict, Alone, HoldsTheRow
<1>1. CASE CallCommit
  <2>1. /\ row' = Written(OpAt(call.place), call.loaded) /\ call.place = ReportPlace(6)
        /\ call.place \in Places /\ row \in Row
    BY <1>1, <1>v DEF CallCommit, Commit, TypeOK, Attempt
  <2>2. /\ OpAt(call.place) = SetStatus("completed")
        /\ SetStatus("completed").kind = "status"
        /\ SetStatus("completed").status = "completed"
    BY <2>1, ReportOps DEF SetStatus, Op
  <2>3. row' = [row EXCEPT !.status = "completed"]
    BY <2>1, <2>2 DEF Written
  <2> QED BY <2>1, <2>3 DEF Row
<1>2. CASE CallLoad \/ CallSkipPdf \/ CallInsert \/ Advance
  BY <1>2 DEF CallLoad, CallSkipPdf, CallInsert, Insert, Advance, db
<1>3. CASE LateStep \/ EditStep \/ MarkCommit
  BY <1>3, <1>v DEF LateStep, EditStep, MarkCommit
<1>4. CASE StartWorkflow \/ AwaitReturns \/ AwaitRaises \/ MarkLoad
  BY <1>4 DEF StartWorkflow, AwaitReturns, AwaitRaises, MarkLoad, db
<1>5. CASE Fault \/ \E what \in {"rename", "archive"} : EditLoad(what)
  BY <1>5 DEF Fault, CallFail, CallTimeout, StartFails, ApiCrash, EditLoad, db
<1>6. CASE UNCHANGED vars
  BY <1>6 DEF vars
<1> QED BY <1>1, <1>2, <1>3, <1>4, <1>5, <1>6 DEF Next, WorkerStep, WaiterStep

(* The run that the browser holds when it stops listening to a completed    *)
(* run is the run as it stays - status and stages - whether the last event  *)
(* brought it or the answer to a request after a lost connection.           *)
THEOREM ViewIsFinal ==
    ASSUME MaxLate = 0, MaxEdits = 0, LostContact = FALSE
    PROVE  StreamSpec => []CompletedViewIsFinal
<1>1. StreamInit => CompletedViewIsFinal
  BY DEF StreamInit, CompletedViewIsFinal
<1>2. /\ TypeOK /\ OneVerdict /\ Alone /\ CompletedViewIsFinal /\ [StreamNext]_streamVars
        => CompletedViewIsFinal'
  <2> SUFFICES ASSUME TypeOK, OneVerdict, Alone, CompletedViewIsFinal,
                      [StreamNext]_streamVars
               PROVE  CompletedViewIsFinal'
    OBVIOUS
  <2>1. CASE UNCHANGED <<ui, conn>> /\ [Next]_vars
    <3> SUFFICES ASSUME conn = "closed", ui.status = "completed" PROVE ui = Snapshot(row)'
      BY <2>1 DEF CompletedViewIsFinal
    <3>1. ui = Snapshot(row)
      BY DEF CompletedViewIsFinal
    <3>2. row.status = "completed"
      BY <3>1 DEF Snapshot
    <3>3. row' = row
      BY <2>1, <3>2, CompletedRests
    <3> QED BY <3>1, <3>3 DEF Snapshot
  <2>2. CASE PollEnd \/ Adopt
    BY <2>2 DEF PollEnd, Adopt, CompletedViewIsFinal, Snapshot, vars
  <2>3. CASE Poll \/ Break \/ Reconnect
    BY <2>3 DEF Poll, Break, Reconnect, CompletedViewIsFinal
  <2>4. CASE UNCHANGED streamVars \/ (Next /\ UNCHANGED client)
    BY <2>1, <2>4 DEF streamVars, client
  <2> QED BY <2>2, <2>3, <2>4 DEF StreamNext
<1> QED BY <1>1, <1>2, WatchedRun, TypeCorrect, HasOneVerdict, RunsAlone, PTL
        DEF StreamSpec
=============================================================================
