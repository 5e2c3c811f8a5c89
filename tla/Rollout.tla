------------------------------ MODULE Rollout ------------------------------
(***************************************************************************)
(* What the collector reads of a namespace's Deployments while their       *)
(* controller works: ReplicaSets, one per pod template, that a rollout     *)
(* creates or, when the template has been used before, takes up again.     *)
(* Outside the repository; modelled from collector.go and docs/bugs.md,    *)
(* which rely on all of it.                                                *)
(***************************************************************************)
EXTENDS Integers

CONSTANTS
    Templates,      \* records [deployment, containers]; a ReplicaSet is named
                    \* after its template
    Standing,       \* the templates rolled out before the behaviour begins
    Working,        \* the templates whose pods can become ready
    MaxRollouts,    \* bound: the rollouts of a behaviour, with the first
    None            \* the deployment of a ReplicaSet that has none

\* What is assumed of the constants; Triage assumes it.
RolloutAssumption ==
    /\ Standing \subseteq Templates
    /\ MaxRollouts \in Nat

VARIABLES
    revision,       \* per template: the revision annotation of its ReplicaSet,
                    \* 0 when there is no ReplicaSet
    rolledOut,      \* history: when each template was last rolled out, or 0
    rollouts,       \* history: how many rollouts there have been
    ran             \* history: the templates that have run successfully

vars == <<revision, rolledOut, rollouts, ran>>

Init ==
    /\ revision = [t \in Templates |-> IF t \in Standing THEN 1 ELSE 0]
    /\ rolledOut = revision
    /\ rollouts = 1
    /\ ran = {}

ReplicaSets == {t \in Templates : revision[t] > 0}

SameDeployment(t, u) == t.deployment = u.deployment

\* The ReplicaSet that its Deployment rolls out, or rolled out last.
IsNewest(t) ==
    /\ t \in ReplicaSets
    /\ \A u \in ReplicaSets : SameDeployment(t, u) => revision[u] <= revision[t]

\* kubectl apply, set image or rollout undo: the controller creates the
\* ReplicaSet of the template, or reuses it, with the next revision.
RollOut(t) ==
    /\ rollouts < MaxRollouts
    /\ \E u \in Templates \ {t} :
        /\ SameDeployment(t, u)
        /\ IsNewest(u)
        /\ revision' = [revision EXCEPT ![t] = revision[u] + 1]
    /\ rollouts' = rollouts + 1
    /\ rolledOut' = [rolledOut EXCEPT ![t] = rollouts + 1]
    /\ UNCHANGED ran

\* A pod of the ReplicaSet becomes ready.
RunsSuccessfully(t) ==
    /\ t \in ReplicaSets \cap Working
    /\ ran' = ran \cup {t}
    /\ UNCHANGED <<revision, rolledOut, rollouts>>

\* revisionHistoryLimit: an old ReplicaSet is deleted.
CleanUp(t) ==
    /\ t \in ReplicaSets
    /\ ~IsNewest(t)
    /\ revision' = [revision EXCEPT ![t] = 0]
    /\ UNCHANGED <<rolledOut, rollouts, ran>>

Next == \E t \in Templates : RollOut(t) \/ RunsSuccessfully(t) \/ CleanUp(t)

Spec == Init /\ [][Next]_vars
=============================================================================
