-------------------------------- MODULE RefVisit --------------------------------
(***************************************************************************)
(* What a sync promises for one ref: a visit to it may leave anything      *)
(* behind, fail or be cut short, but the ref is reported as done only as   *)
(* the visit leaves it in its place, and while the report stands only      *)
(* pruning takes it away.  RefSync, OpenVoxSync and StandardSync implement *)
(* it, each with its own idea of a visit.                                  *)
(***************************************************************************)
CONSTANT Prunable   \* may the ref be pruned for its age

VARIABLES
    content,   \* of the ref's place: its directory, or the local ref
    inside,    \* a visit is going on
    report     \* what the current sync, or the last one, says of the ref

vars == <<content, inside, report>>

Contents == {"absent", "ref", "other"}

TypeOK ==
    /\ content \in Contents
    /\ inside \in BOOLEAN
    /\ report \in {"none", "done", "failed"}

Init == content = "absent" /\ ~ inside /\ report = "none"

\* The visit has the place for itself.
Enter ==
    /\ ~ inside /\ inside'
    /\ report = "none"
    /\ UNCHANGED <<content, report>>

Touch == inside /\ content' \in Contents /\ UNCHANGED <<inside, report>>

Succeed ==
    /\ inside /\ ~ inside'
    /\ report' = "done" /\ content' = "ref"

\* It fails, or says nothing: it was cancelled, or the process was killed.
GiveUp ==
    /\ inside /\ ~ inside'
    /\ report' \in {"failed", "none"} /\ content' \in Contents

\* No visit is possible.
Refuse ==
    /\ ~ inside /\ report = "none" /\ report' = "failed"
    /\ UNCHANGED <<content, inside>>

\* The next sync, or a new process.
Forget ==
    /\ ~ inside /\ report' = "none"
    /\ UNCHANGED <<content, inside>>

\* What is known of the place is void: somebody edits it, or it is another
\* ref's in some other sync.
Disturb ==
    /\ ~ inside /\ report' = "none"
    /\ content' \in {"absent", "other"}
    /\ UNCHANGED inside

Prune ==
    /\ ~ inside
    /\ report = "done" => Prunable
    /\ content' = "absent"
    /\ UNCHANGED <<inside, report>>

Next == Enter \/ Touch \/ Succeed \/ GiveUp \/ Refuse \/ Forget \/ Disturb \/ Prune

Spec == Init /\ [][Next]_vars
-----------------------------------------------------------------------------
\* A ref that is reported as done is in its place, or it was pruned.
DoneIsThere == report = "done" => content = "ref" \/ (Prunable /\ content = "absent")
=============================================================================
