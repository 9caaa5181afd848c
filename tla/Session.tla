------------------------------- MODULE Session --------------------------------
(***************************************************************************)
(* What a live session promises its user, who knows of no threads, wakes   *)
(* or streams: reconciliations run one after another; every change is read *)
(* by one of them; a request ends the session between two of them, with at *)
(* most one more that had been about to begin (docs/design.md, "Monitoring *)
(* and reconciliation" and "Diagnostics and shutdown").                    *)
(***************************************************************************)
EXTENDS Integers

VARIABLES
    phase,      \* whether a reconciliation runs or the session is over
    unread,     \* the workspace has changed since a reconciliation read it
    requested,  \* the session has been asked to stop
    late,       \* the reconciliations begun since then
    exit        \* how the session ends

vars == <<phase, unread, requested, late, exit>>

Init ==
    /\ phase = "idle"
    /\ unread = TRUE /\ requested = FALSE
    /\ late = 0
    /\ exit = "running"

Change ==
    /\ unread' = TRUE
    /\ UNCHANGED <<phase, requested, late, exit>>

Request ==
    /\ requested' = TRUE
    /\ UNCHANGED <<phase, unread, late, exit>>

Begin ==
    /\ phase = "idle"
    /\ requested => late = 0
    /\ phase' = "running"
    /\ late' = IF requested THEN 1 ELSE late
    /\ UNCHANGED <<unread, requested, exit>>

Read ==
    /\ phase = "running"
    /\ unread' = FALSE
    /\ UNCHANGED <<phase, requested, late, exit>>

End ==
    /\ phase = "running"
    /\ phase' = "idle"
    /\ UNCHANGED <<unread, requested, late, exit>>

Stop ==
    /\ phase = "idle" /\ requested
    /\ phase' = "over"
    /\ UNCHANGED <<unread, requested, late, exit>>

Succeed ==
    /\ phase = "over" /\ requested
    /\ exit = "running"
    /\ exit' = "success"
    /\ UNCHANGED <<phase, unread, requested, late>>

\* Not while a reconciliation runs, but perhaps while the session cleans up.
Fail ==
    /\ phase # "running"
    /\ exit # "failure"
    /\ phase' = "over"
    /\ exit' = "failure"
    /\ UNCHANGED <<unread, requested, late>>

Next ==
    \/ Change \/ Request \/ Begin \/ Read \/ End
    \/ Stop \/ Succeed \/ Fail

Safety == Init /\ [][Next]_vars

\* A change brings a run, runs read what there is and end, and a request brings
\* the end.
Spec ==
    /\ Safety
    /\ WF_vars(unread /\ ~requested /\ Begin)
    /\ SF_vars(Read) /\ WF_vars(End)
    /\ WF_vars(Stop) /\ WF_vars(Succeed)
=============================================================================
