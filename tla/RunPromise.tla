----------------------------- MODULE RunPromise -----------------------------
(***************************************************************************)
(* What a run promises whoever started it: a verdict is reached, it is     *)
(* final, "completed" means that there is a report, and "failed" comes     *)
(* with an explanation.  RunLifecycle implements it when nobody but the    *)
(* run itself writes the row (no edits, no late attempts).                 *)
(***************************************************************************)
VARIABLES verdict, published, explained

vars == <<verdict, published, explained>>

TypeOK ==
    /\ verdict \in {"running", "completed", "failed"}
    /\ published \in BOOLEAN
    /\ explained \in BOOLEAN

Init ==
    /\ verdict = "running"
    /\ published = FALSE
    /\ explained = FALSE

Publish ==
    /\ verdict = "running"
    /\ published' = TRUE
    /\ UNCHANGED <<verdict, explained>>

Explain ==
    /\ verdict = "running"
    /\ explained' = TRUE
    /\ UNCHANGED <<verdict, published>>

Complete ==
    /\ verdict = "running"
    /\ published
    /\ ~explained
    /\ verdict' = "completed"
    /\ UNCHANGED <<published, explained>>

(* An explanation may come with the verdict or before it. *)
Fail ==
    /\ verdict = "running"
    /\ verdict' = "failed"
    /\ explained' = TRUE
    /\ UNCHANGED published

Next == Publish \/ Explain \/ Complete \/ Fail

Safety == Init /\ [][Next]_vars

Spec == Safety /\ WF_vars(Complete \/ Fail)
=============================================================================
