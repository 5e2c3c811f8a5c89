------------------------------ MODULE Analysis ------------------------------
(***************************************************************************)
(* The stages of an event as the pipeline goroutine sees them: Collect,    *)
(* Diagnose and OpenPR.  A cancelled context never makes one of the first  *)
(* two hang or succeed: a stage that has its answer when the context is    *)
(* cancelled has moved on, any other can only fail.  Triage implements     *)
(* this specification; Remediator is built on it.                          *)
(***************************************************************************)
VARIABLES
    ctxDone,    \* the context is cancelled
    stage       \* "receive", "collect", "diagnose" or "open"

vars == <<ctxDone, stage>>

Init == ctxDone = FALSE /\ stage = "receive"

Move(from, to) ==
    /\ stage = from
    /\ stage' = to
    /\ UNCHANGED ctxDone

Begin == Move("receive", "collect")

\* The pod has been read.
Collected == ~ctxDone /\ Move("collect", "diagnose")

CollectFails == Move("collect", "receive")

DiagnoseFails == Move("diagnose", "receive")

\* The model has answered.
Escalate == ~ctxDone /\ Move("diagnose", "receive")

Remediate == ~ctxDone /\ Move("diagnose", "open")

\* OpenPR has returned.
Finish == Move("open", "receive")

Cancel == ~ctxDone /\ ctxDone' = TRUE /\ UNCHANGED stage

Next ==
    \/ Begin
    \/ Collected
    \/ CollectFails
    \/ DiagnoseFails
    \/ Escalate
    \/ Remediate
    \/ Finish
    \/ Cancel

Spec == Init /\ [][Next]_vars
=============================================================================
