------------------------------ MODULE Collector ------------------------------
(***************************************************************************)
(* K8sCollector.Collect (internal/collector/collector.go): it reads the    *)
(* pod, walks from the pod to the image that ran before (previousImage),   *)
(* and reads the pod's Events and logs.  Each read is a call of its own to *)
(* the Kubernetes API; the cluster goes on between them, each can fail,    *)
(* and once the context is cancelled each does.                            *)
(*                                                                         *)
(* An image is the sequence of its parts between colons.  The text of the  *)
(* bundle is reduced to the hint and to the sections that hold a           *)
(* placeholder.                                                            *)
(***************************************************************************)
EXTENDS Integers, Sequences

CONSTANTS Templates, Standing, Working, MaxRollouts, None   \* see Rollout

CONSTANTS
    Names,      \* of containers
    Parts       \* of the names of images

\* What is assumed of the constants; Triage assumes it.
CollectorAssumption ==
    /\ None \notin Templates \cup Names
    /\ Templates \subseteq
            [deployment : {t.deployment : t \in Templates},
             containers : Seq([name : Names, image : Seq(Parts) \ {<<>>}])]
    /\ None \notin Parts

VARIABLES
    revision, rolledOut, rollouts, ran,     \* Rollout
    ctxDone,    \* the context is cancelled
    pc,         \* the next read, or "idle"
    owner,      \* the template of the event's pod
    container,  \* event.ContainerName, None when the event names none
    hint,       \* the tag in the section PREVIOUS IMAGE; None: no section
    unread,     \* the containers whose logs are still to be read
    holes,      \* the sections that hold a placeholder
    outcome     \* what the last call returned

cluster == <<revision, rolledOut, rollouts, ran>>
request == <<owner, container>>
vars == <<cluster, ctxDone, pc, request, hint, unread, holes, outcome>>

Cluster == INSTANCE Rollout

Init ==
    /\ Cluster!Init
    /\ ctxDone = FALSE
    /\ pc = "idle" /\ owner = None /\ container = None
    /\ hint = None /\ unread = <<>> /\ holes = {} /\ outcome = "none"
-----------------------------------------------------------------------------
(* Images. *)

\* The containers of t that an event about c is about: the one of that name,
\* or the first of all.
About(t, c) == SelectSeq(t.containers, LAMBDA x : c = None \/ x.name = c)

\* What follows the last colon of the container's image, all of it if there is
\* none; None if t has no such container (rsImageTag).
ImageTag(t, c) ==
    LET found == About(t, c)
    IN  IF found = <<>> THEN None
        ELSE found[1].image[Len(found[1].image)]

\* The tag that the pod failed with; None if its image has no tag.
FailingTag(t, c) ==
    LET found == About(t, c)
    IN  IF found = <<>> \/ Len(found[1].image) = 1 THEN None
        ELSE ImageTag(t, c)

\* The other ReplicaSets of the pod's Deployment.
Siblings == {t \in Cluster!ReplicaSets \ {owner} :
                Cluster!SameDeployment(t, owner)}

\* Mutant: siblings with the failing tag are not passed over.
CandidatesOfAnyTag == Siblings

\* Those of another tag than the failing one; of any tag, if that is not known.
Candidates ==
    LET failing == FailingTag(owner, container)
    IN  {t \in Siblings : failing = None \/ ImageTag(t, container) # failing}

\* Mutant: the candidates are in the order of the answer.
FirstListed(t) == t \in Candidates

\* The first candidate in descending order of revision.
FirstByRevision(t) ==
    /\ t \in Candidates
    /\ \A u \in Candidates : revision[u] <= revision[t]
-----------------------------------------------------------------------------
(* The steps of a call. *)

\* A pod of template t has failed.
Collect(t, c) ==
    /\ pc = "idle"
    /\ t \in Cluster!ReplicaSets
    /\ pc' = "pod" /\ owner' = t /\ container' = c
    /\ hint' = None /\ unread' = <<>> /\ holes' = {} /\ outcome' = "none"
    /\ UNCHANGED <<cluster, ctxDone>>

Goto(read) ==
    /\ pc' = read
    /\ UNCHANGED <<cluster, ctxDone, request, outcome>>

Return(o) ==
    /\ pc' = "idle"
    /\ outcome' = o
    /\ UNCHANGED <<cluster, ctxDone, request, hint, unread, holes>>

\* A pod outside the Deployments may have no ReplicaSet to start from.
PodRead ==
    /\ pc = "pod"
    /\ ~ctxDone
    /\ \/ Goto("replicaset")
       \/ owner.deployment = None /\ Goto("events")
    /\ UNCHANGED <<hint, unread, holes>>

\* The pod is gone, or the call fails: the only errors of Collect.
PodUnread ==
    /\ pc = "pod"
    /\ \E o \in {"gone", "failed"} : Return(o)

\* The pod's ReplicaSet, and from it the Deployment.
ReplicaSetRead ==
    /\ pc = "replicaset"
    /\ ~ctxDone
    /\ owner \in Cluster!ReplicaSets
    /\ Goto(IF owner.deployment = None THEN "events" ELSE "list")
    /\ UNCHANGED <<hint, unread, holes>>

\* All ReplicaSets as they are now; the rest of previousImage is local.
ReplicaSetsListed ==
    /\ pc = "list"
    /\ ~ctxDone
    /\ \/ Candidates = {} /\ UNCHANGED hint
       \/ \E t \in Candidates :
            FirstByRevision(t) /\ hint' = ImageTag(t, container)
    /\ Goto("events")
    /\ UNCHANGED <<unread, holes>>

\* An error of previousImage leaves the section out.
NoHint ==
    /\ pc \in {"replicaset", "list"}
    /\ Goto("events")
    /\ UNCHANGED <<hint, unread, holes>>

\* collectContainerNames: the container of the event, or those of the pod.
LogsWanted ==
    IF container # None THEN <<container>>
    ELSE [i \in DOMAIN owner.containers |-> owner.containers[i].name]

\* Mutant: Events that cannot be listed fail the call.
EventsReadOrFailed ==
    /\ pc = "events"
    /\ \/ /\ Goto("logs")
          /\ unread' = LogsWanted
          /\ ~ctxDone
          /\ UNCHANGED <<hint, holes>>
       \/ Return("failed")

\* A section that cannot be read gets a placeholder.
EventsRead ==
    /\ pc = "events"
    /\ Goto("logs")
    /\ unread' = LogsWanted
    /\ \/ ~ctxDone /\ UNCHANGED holes
       \/ holes' = holes \cup {"events"}
    /\ UNCHANGED hint

LogsRead ==
    /\ pc = "logs"
    /\ unread # <<>>
    /\ Goto("logs")
    /\ unread' = Tail(unread)
    /\ \/ ~ctxDone /\ UNCHANGED holes
       \/ holes' = holes \cup {Head(unread)}
    /\ UNCHANGED hint

Bundled ==
    /\ pc = "logs"
    /\ unread = <<>>
    /\ Return("bundle")

Step ==
    \/ PodRead
    \/ PodUnread
    \/ ReplicaSetRead
    \/ ReplicaSetsListed
    \/ NoHint
    \/ EventsRead
    \/ LogsRead
    \/ Bundled

Next ==
    \/ Cluster!Next /\ UNCHANGED <<ctxDone, pc, request, hint, unread, holes,
                                   outcome>>
    \/ \E t \in Templates, c \in Names \cup {None} : Collect(t, c)
    \/ Step
    \/ /\ ctxDone' = TRUE
       /\ UNCHANGED <<cluster, pc, request, hint, unread, holes, outcome>>

Spec == Init /\ [][Next]_vars
-----------------------------------------------------------------------------
Reads == {"idle", "pod", "replicaset", "list", "events", "logs"}

Tags == {ImageTag(t, c) : t \in Templates, c \in Names \cup {None}}

TypeOK ==
    /\ revision \in [Templates -> Nat]
    /\ rolledOut \in [Templates -> Nat]
    /\ rollouts \in Nat
    /\ ran \subseteq Templates
    /\ ctxDone \in BOOLEAN
    /\ pc \in Reads
    /\ owner \in Templates \cup {None}
    /\ pc # "idle" => owner # None
    /\ container \in Names \cup {None}
    /\ hint \in Tags \cup {None}
    /\ unread \in Seq(Names)
    /\ holes \subseteq Names \cup {"events"}
    /\ outcome \in {"none", "bundle", "gone", "failed"}

\* The revisions of a Deployment's ReplicaSets are in the order in which their
\* templates were last rolled out, however often they were taken up again.
RevisionsInOrder ==
    \A t, u \in Cluster!ReplicaSets :
        Cluster!SameDeployment(t, u) =>
            (revision[t] <= revision[u] <=> rolledOut[t] <= rolledOut[u])

RolledOutSoFar == \A t \in Templates : rolledOut[t] <= rollouts

\* The hint is never the tag that the pod is failing with (docs/bugs.md:103).
HintIsAnotherTag == hint # None => hint # FailingTag(owner, container)

\* A call that fails has failed at the pod itself, and has nothing to show.
FailedAtThePod ==
    /\ pc # "idle" => outcome = "none"
    /\ \/ outcome \in {"gone", "failed"}
       \/ pc \in {"pod", "replicaset", "list"}
       => hint = None /\ holes = {}

IInv ==
    /\ TypeOK
    /\ RevisionsInOrder
    /\ RolledOutSoFar
    /\ HintIsAnotherTag
    /\ FailedAtThePod

\* The hint is what the Deployment ran last, by the rollouts there have been up
\* to the listing, among what does not have the failing tag: a rollback counts
\* as a rollout of what it goes back to (collector.go:303-307, docs/bugs.md:10).
HintIsLastRolledOut ==
    [][pc = "list" /\ hint' # None =>
        \E t \in Siblings :
            /\ hint' = ImageTag(t, container)
            /\ \A u \in Siblings :
                rolledOut[u] > rolledOut[t] =>
                    ImageTag(u, container) = FailingTag(owner, container)]_vars

\* collector.go:141: "This was the last successfully running image tag before
\* the current failure"; at least it is one, if there is one to be found.
HintHasRun ==
    hint # None /\ outcome = "bundle" =>
        LET worked == {t \in ran : t # owner
                                   /\ Cluster!SameDeployment(t, owner)}
        IN  worked \cap Cluster!ReplicaSets = {}
            \/ hint \in {ImageTag(t, container) : t \in worked}
=============================================================================
