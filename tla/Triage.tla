------------------------------- MODULE Triage -------------------------------
(***************************************************************************)
(* The pipeline goroutine between an event and OpenPR (main.go:145-171):   *)
(* Collector and Diagnostician, one event after the other, while           *)
(* Deployments are rolled out and until the context is cancelled.  It      *)
(* implements Analysis.                                                    *)
(***************************************************************************)
EXTENDS Integers, Sequences

CONSTANTS
    Templates, Standing, Working, MaxRollouts, None, Names, Parts,  \* Collector
    FailureTypes, Answers                                   \* Diagnostician

VARIABLES
    ctxDone,
    revision, rolledOut, rollouts, ran,                         \* Rollout
    pc, owner, container, hint, unread, holes, outcome,         \* Collector
    logDisabled, step, answer, log, lost, verdict,          \* Diagnostician
    turn    \* of the goroutine: "receive", "collect", "diagnose", "open"

cluster == <<revision, rolledOut, rollouts, ran>>
collector == <<pc, owner, container, hint, unread, holes, outcome>>
diagnostician == <<logDisabled, step, answer, log, lost, verdict>>
vars == <<ctxDone, cluster, collector, diagnostician, turn>>

Col == INSTANCE Collector
Diag == INSTANCE Diagnostician

ASSUME TriageAssumption ==
    /\ Col!Cluster!RolloutAssumption
    /\ Col!CollectorAssumption
    /\ Diag!DiagnosticianAssumption

Init ==
    /\ Col!Init
    /\ Diag!Init
    /\ turn = "receive"

\* The next event; of the last one nothing is left.
Receive(t, c) ==
    /\ turn = "receive"
    /\ Col!Collect(t, c)
    /\ turn' = "collect"
    /\ step' = "idle" /\ answer' = Diag!Unanswered
    /\ log' = <<>> /\ lost' = FALSE /\ verdict' = "none"
    /\ UNCHANGED logDisabled

Collecting ==
    /\ turn = "collect"
    /\ Col!Step
    /\ UNCHANGED <<diagnostician, turn>>

\* Mutant: the error of the collector is only looked at for a pod that is gone.
CollectedUnlessGone ==
    /\ turn = "collect"
    /\ pc = "idle"
    /\ outcome \in {"bundle", "failed"}
    /\ Diag!Diagnose
    /\ turn' = "diagnose"
    /\ owner' = None /\ container' = None /\ hint' = None
    /\ unread' = <<>> /\ holes' = {} /\ outcome' = "none"
    /\ UNCHANGED <<cluster, pc>>

\* Mutant: an escalation goes on to OpenPR.
DiagnosedOrEscalated ==
    /\ turn = "diagnose"
    /\ step = "idle"
    /\ turn' = IF verdict # "failed" THEN "open" ELSE "receive"
    /\ UNCHANGED <<ctxDone, cluster, collector, diagnostician>>

\* The pod is gone, or the collector fails.
Skip ==
    /\ turn = "collect"
    /\ pc = "idle"
    /\ outcome \in {"gone", "failed"}
    /\ turn' = "receive"
    /\ UNCHANGED <<ctxDone, cluster, collector, diagnostician>>

\* Of the collector's call the bundle is left, which the model is asked about.
Collected ==
    /\ turn = "collect"
    /\ pc = "idle"
    /\ outcome = "bundle"
    /\ Diag!Diagnose
    /\ turn' = "diagnose"
    /\ owner' = None /\ container' = None /\ hint' = None
    /\ unread' = <<>> /\ holes' = {} /\ outcome' = "none"
    /\ UNCHANGED <<cluster, pc>>

Diagnosing ==
    /\ turn = "diagnose"
    /\ Diag!Step
    /\ UNCHANGED <<cluster, collector, turn>>

\* An error, an escalation, or a diagnosis for OpenPR.
Diagnosed ==
    /\ turn = "diagnose"
    /\ step = "idle"
    /\ turn' = IF verdict \in FailureTypes THEN "open" ELSE "receive"
    /\ UNCHANGED <<ctxDone, cluster, collector, diagnostician>>

\* OpenPR returns.
Opened ==
    /\ turn = "open"
    /\ turn' = "receive"
    /\ UNCHANGED <<ctxDone, cluster, collector, diagnostician>>

Cancel ==
    /\ ~ctxDone
    /\ ctxDone' = TRUE
    /\ UNCHANGED <<cluster, collector, diagnostician, turn>>

ClusterMoves ==
    /\ Col!Cluster!Next
    /\ UNCHANGED <<ctxDone, collector, diagnostician, turn>>

Next ==
    \/ \E t \in Templates, c \in Names \cup {None} : Receive(t, c)
    \/ Collecting
    \/ Skip
    \/ Collected
    \/ Diagnosing
    \/ Diagnosed
    \/ Opened
    \/ Cancel
    \/ ClusterMoves

\* The goroutine goes on, writes to a local file return, and the client of the
\* model's API has a timeout.  The Kubernetes client has none: its calls return
\* once the context is cancelled.
Fairness ==
    /\ WF_vars(Skip \/ Collected \/ Diagnosed)
    /\ WF_vars(ctxDone /\ Collecting)
    /\ WF_vars(Diagnosing /\ step # "request")
    /\ WF_vars(Diag!RequestFails /\ UNCHANGED <<cluster, collector, turn>>)

Spec == Init /\ [][Next]_vars

FairSpec == Spec /\ Fairness
-----------------------------------------------------------------------------
\* Only one component works at a time, and each keeps its own invariant while
\* the others work; OpenPR is called with a verdict that asks for it.
IInv ==
    /\ turn \in {"receive", "collect", "diagnose", "open"}
    /\ turn # "collect" => pc = "idle"
    /\ turn # "diagnose" => step = "idle"
    /\ turn = "collect" /\ pc = "idle" => outcome # "none"
    /\ turn = "open" => verdict \in FailureTypes
    /\ Col!IInv
    /\ Diag!IInv

\* (see Collector and Diagnostician)
HintIsAnotherTag == Col!HintIsAnotherTag
AnswerIsOnRecord == Diag!AnswerIsOnRecord
VerdictIsTheAnswers == Diag!VerdictIsTheAnswers
HintIsLastRolledOut == Col!HintIsLastRolledOut
HintHasRun == Col!HintHasRun

\* What is to become of the event is settled by reading the pod and by the
\* model's answer, not when the call returns.
StageReached ==
    CASE turn \in {"receive", "open"} -> turn
      [] turn = "collect" ->
         IF pc = "pod" THEN "collect"
         ELSE IF outcome \in {"gone", "failed"} THEN "receive"
         ELSE "diagnose"
      [] turn = "diagnose" ->
         IF step \in {"prompt", "request"} THEN "diagnose"
         ELSE IF (IF step = "idle" THEN verdict
                  ELSE Diag!Verdict(answer.content)) \in FailureTypes
         THEN "open" ELSE "receive"

Stages == INSTANCE Analysis WITH stage <- StageReached

\* Collector and diagnostician are what the pipeline takes them for: no event
\* gets to a diagnosis without its pod having been read, nor to OpenPR without
\* an answer that says so, and neither happens after the signal.
ImplementsAnalysis == Stages!Spec

\* Once the pod has been read, the call ends in a bundle, though every other
\* read should fail (collector.go:159-162, 178-181, 202-205).
PodReadMeansBundle ==
    ctxDone /\ pc \notin {"idle", "pod"} ~> outcome = "bundle"

\* The model is waited for for 120 s, not for ever (diagnostician.go:83).
DiagnoseReturns == turn = "diagnose" ~> turn # "diagnose"
=============================================================================
