----------------------------- MODULE Remediator -----------------------------
(***************************************************************************)
(* The process of cmd/remediator/main.go: it checks its configuration and  *)
(* its connections, the watcher (EventSource) fills the channel, one       *)
(* pipeline goroutine takes each event through Collect and Diagnose        *)
(* (Analysis) and OpenPR (GitOps) and counts what becomes of it, and main  *)
(* shuts down on a signal, or when Run fails: Run returns, the channel is  *)
(* closed, the pipeline is waited for, the process exits.  It may be       *)
(* killed at any time, and it is started again: only what is on GitHub     *)
(* survives.                                                               *)
(***************************************************************************)
EXTENDS Integers, Sequences

CONSTANTS
    Handlers,       \* the informers' handler goroutines
    Pods,
    FailureTypes,
    Seconds,        \* Timestamp.Unix() of the events
    Events,         \* the FailureEvents: records [pod, type, second]
    Capacity,       \* of the channel (main.go:64)
    MaxEvents,      \* bound on the events a process puts on its channel
    None

ASSUME RemediatorAssumption ==
    /\ Capacity \in Nat \ {0}
    /\ MaxEvents \in Nat
    /\ Events \subseteq [pod : Pods, type : FailureTypes, second : Seconds]
    /\ None \notin Pods
    /\ None \notin FailureTypes \X Pods \X Seconds

Branches == FailureTypes \X Pods \X Seconds

VARIABLES
    working, channel, closed, panicked, ctxDone, started, returned,
                \* EventSource
    heads, unmerged, prs, asked, busy, wrote, result,
                \* GitOps
    startup,    \* main: "config", "openrouter", "github", "over"
    queued,     \* history: the events this process has put on its channel
    repeated,   \* history: those it has put there more than once
    stage,      \* pipeline: "receive", "collect", "diagnose", "open", "done"
    event,      \* the event it is working on
    metrics,    \* the Prometheus counters of internal/metrics
    logged,     \* history: events that ended in a log line only
    served,     \* history: events for which this process has created a PR
    exited      \* main has returned

source == <<working, channel, closed, panicked, ctxDone, started, returned>>
gitops == <<heads, unmerged, prs, asked, busy, wrote, result>>
history == <<queued, repeated>>
pipeline == <<stage, event, metrics, logged>>
main == <<startup, exited>>
vars == <<source, gitops, history, pipeline, served, main>>

Source == INSTANCE EventSource
Stages == INSTANCE Analysis
Git == INSTANCE GitOps

NoEvent == [pod |-> None, type |-> None, second |-> None]

NoCounts == [detected |-> 0, latency |-> 0, errors |-> 0, escalations |-> 0,
             opened |-> 0]

Init ==
    /\ Source!Init
    /\ Git!Init
    /\ startup = "config" /\ exited = FALSE
    /\ queued = {} /\ repeated = {} /\ served = {}
    /\ stage = "receive" /\ event = NoEvent
    /\ metrics = NoCounts /\ logged = [collect |-> 0, open |-> 0]
-----------------------------------------------------------------------------
(* The watcher. *)

\* The deduplicator lets no pod and failure type through twice in ten minutes,
\* but an Event is as old as its LastTimestamp says (filter.go:99-103): one that
\* is delivered that late may be equal to one that has been queued.
Watch ==
    /\ startup = "over"
    /\ \E h \in Handlers :
        \/ (Source!Begin(h) \/ Source!End(h)) /\ UNCHANGED history
        \/ \E e \in Events, more \in BOOLEAN :
            /\ Source!Offer(h, e, more)
            /\ metrics.detected + Len(channel') <= MaxEvents
            /\ \/ UNCHANGED <<channel, history>>
               \/ /\ channel' # channel
                  /\ queued' = queued \cup {e}
                  /\ repeated' = repeated \cup ({e} \cap queued)
    /\ UNCHANGED <<gitops, pipeline, served, main>>
-----------------------------------------------------------------------------
(* The pipeline goroutine (main.go:131-191).  Once the context is cancelled, *)
(* a call that has not been answered yet fails.                             *)

Receive ==
    /\ Stages!Begin
    /\ Source!Receive
    /\ event' = Head(channel)
    /\ metrics' = [metrics EXCEPT !.detected = @ + 1]
    /\ UNCHANGED <<gitops, history, logged, served, main>>

\* The range over the closed channel ends when it is empty.
PipelineDone ==
    /\ stage = "receive"
    /\ closed
    /\ channel = <<>>
    /\ stage' = "done"
    /\ UNCHANGED <<source, gitops, history, event, metrics, logged, served,
                   main>>

\* The event stays in hand until the next is to be received.
Continue ==
    /\ event' = IF stage' = "receive" THEN NoEvent ELSE event
    /\ UNCHANGED <<source, history, served, main>>

Collected ==
    /\ Stages!Collected
    /\ Continue
    /\ UNCHANGED <<gitops, metrics, logged>>

\* The pod is gone, or the collector fails: a log line.
CollectFails ==
    /\ Stages!CollectFails
    /\ Continue
    /\ logged' = [logged EXCEPT !.collect = @ + 1]
    /\ UNCHANGED <<gitops, metrics>>

DiagnoseFails ==
    /\ Stages!DiagnoseFails
    /\ Continue
    /\ metrics' = [metrics EXCEPT !.latency = @ + 1, !.errors = @ + 1]
    /\ UNCHANGED <<gitops, logged>>

\* The label that escalationReason picks is left out.
Escalate ==
    /\ Stages!Escalate
    /\ Continue
    /\ metrics' = [metrics EXCEPT !.latency = @ + 1,
                                  !.escalations = @ + 1]
    /\ UNCHANGED <<gitops, logged>>

\* The failure type in the branch name is the model's, not the event's.
Remediate(type) ==
    /\ Stages!Remediate
    /\ Git!Call(<<type, event.pod, event.second>>)
    /\ Continue
    /\ metrics' = [metrics EXCEPT !.latency = @ + 1]
    /\ UNCHANGED logged

OpenPRWorks ==
    /\ stage = "open"
    /\ \/ Git!Push /\ UNCHANGED served
       \/ Git!Create /\ served' = served \cup {event}
    /\ UNCHANGED <<source, history, pipeline, main>>

\* Mutant: the case of ErrNothingToCommit lacks its continue.
OpenPRReturnsUncontinued(r) ==
    /\ Stages!Finish
    /\ Git!Return(r)
    /\ Continue
    /\ IF r \in {"opened", "nothing"}
       THEN metrics' = [metrics EXCEPT !.opened = @ + 1] /\ UNCHANGED logged
       ELSE logged' = [logged EXCEPT !.open = @ + 1] /\ UNCHANGED metrics

\* Mutant: after an error the event is diagnosed again.
OpenPRReturnsRetrying(r) ==
    /\ stage = "open"
    /\ stage' = IF r = "failed" THEN "diagnose" ELSE "receive"
    /\ Git!Return(r)
    /\ Continue
    /\ IF r = "opened"
       THEN metrics' = [metrics EXCEPT !.opened = @ + 1] /\ UNCHANGED logged
       ELSE logged' = [logged EXCEPT !.open = @ + 1] /\ UNCHANGED metrics

\* A PR is counted; a branch that exists, nothing to commit and any other error
\* are logged.
OpenPRReturns(r) ==
    /\ Stages!Finish
    /\ Git!Return(r)
    /\ Continue
    /\ IF r = "opened"
       THEN metrics' = [metrics EXCEPT !.opened = @ + 1] /\ UNCHANGED logged
       ELSE logged' = [logged EXCEPT !.open = @ + 1] /\ UNCHANGED metrics
-----------------------------------------------------------------------------
(* main. *)

\* A variable that is required and not set ends the process.
LoadConfig ==
    /\ startup = "config"
    /\ \/ startup' = "openrouter" /\ UNCHANGED exited
       \/ exited' = TRUE /\ UNCHANGED startup
    /\ UNCHANGED <<source, gitops, history, pipeline, served>>

\* A ping returns when it is answered, or after its timeout, or when the context
\* is cancelled; main goes on in any case.
PingReturns(from, to) ==
    /\ startup = from
    /\ startup' = to
    /\ UNCHANGED <<source, gitops, history, pipeline, served, exited>>

PingOpenRouter == PingReturns("openrouter", "github")

PingGitHub == PingReturns("github", "over")

\* The signal, once main listens for it.
Cancel ==
    /\ startup # "config"
    /\ Source!Cancel
    /\ UNCHANGED <<gitops, history, pipeline, served, main>>

StartWatcher ==
    /\ startup = "over"
    /\ Source!Start
    /\ UNCHANGED <<gitops, history, pipeline, served, main>>

RunFails ==
    /\ startup = "over"
    /\ Source!RunFails
    /\ UNCHANGED <<gitops, history, pipeline, served, main>>

RunReturns ==
    /\ startup = "over"
    /\ Source!RunReturns
    /\ UNCHANGED <<gitops, history, pipeline, served, main>>

\* Mutant: the pipeline is waited for before the channel is closed.
CloseAfterPipeline ==
    /\ stage = "done"
    /\ Source!Close
    /\ UNCHANGED <<gitops, history, pipeline, served, main>>

Close ==
    /\ Source!Close
    /\ UNCHANGED <<gitops, history, pipeline, served, main>>

\* Mutant: main does not wait for the pipeline.
ExitAtOnce ==
    /\ closed
    /\ exited' = TRUE
    /\ UNCHANGED <<source, gitops, history, pipeline, served, startup>>

\* pipelineWg.Wait(), then main returns, or exits with 1 if Run has failed.
Exit ==
    /\ closed
    /\ stage = "done"
    /\ exited' = TRUE
    /\ UNCHANGED <<source, gitops, history, pipeline, served, startup>>

\* What others do on GitHub to PRs and remediation branches.
OthersOnGitHub ==
    /\ Git!Environment
    /\ UNCHANGED <<source, history, pipeline, served, main>>

\* The process is killed, or is over, and another one is started.  A call of
\* OpenPR is cut off; what it has done on GitHub remains.
Restart ==
    /\ Source!Restart
    /\ IF busy THEN Git!Crash ELSE UNCHANGED gitops
    /\ startup' = "config" /\ exited' = FALSE
    /\ queued' = {} /\ repeated' = {} /\ served' = {}
    /\ stage' = "receive" /\ event' = NoEvent
    /\ metrics' = NoCounts /\ logged' = [collect |-> 0, open |-> 0]

Pipeline ==
    \/ Receive
    \/ PipelineDone
    \/ Collected
    \/ CollectFails
    \/ DiagnoseFails
    \/ Escalate
    \/ \E type \in FailureTypes : Remediate(type)
    \/ OpenPRWorks
    \/ \E r \in Git!Results : OpenPRReturns(r)

Running == ~panicked /\ ~exited

\* The process is over, by its own exit or by a panic.
Terminated == ~Running /\ UNCHANGED vars

Next ==
    \/ /\ Running
       /\ \/ LoadConfig
          \/ PingOpenRouter
          \/ PingGitHub
          \/ Watch
          \/ Pipeline
          \/ Cancel
          \/ StartWatcher
          \/ RunFails
          \/ RunReturns
          \/ Close
          \/ Exit
          \/ OthersOnGitHub
    \/ Restart
    \/ Terminated

\* What each goroutine does unaided it does, and a ping has a timeout.  Collect
\* and Diagnose have no deadline of their own, but a cancelled context makes
\* them return.  Of OpenPR nothing is assumed: a cancelled git command is waited
\* for as long as a child of it holds its output (git.go:34-41).
Fairness ==
    /\ WF_vars(Running /\ (PingOpenRouter \/ PingGitHub))
    /\ WF_vars(Running /\ (Receive \/ PipelineDone))
    /\ WF_vars(Running /\ ctxDone /\ stage # "open" /\ Pipeline)
    /\ WF_vars(Running /\ (StartWatcher \/ RunFails))
    /\ WF_vars(Running /\ RunReturns)
    /\ WF_vars(Running /\ Close)
    /\ WF_vars(Running /\ Exit)

Spec == Init /\ [][Next]_vars

FairSpec == Spec /\ Fairness
-----------------------------------------------------------------------------
Counters == [detected : Nat, latency : Nat, errors : Nat,
             escalations : Nat, opened : Nat]

TypeOK ==
    /\ working \subseteq Handlers
    /\ channel \in Seq(Events)
    /\ {closed, panicked, ctxDone, started, returned, busy, exited}
            \subseteq BOOLEAN
    /\ heads \subseteq Branches
    /\ unmerged \subseteq Branches
    /\ prs \subseteq Branches
    /\ asked \in Branches \cup {None}
    /\ wrote \in {{}, {"branch"}, {"branch", "pr"}}
    /\ result \in Git!Results \cup {"none", "crashed"}
    /\ startup \in {"config", "openrouter", "github", "over"}
    /\ queued \subseteq Events
    /\ repeated \subseteq queued
    /\ served \subseteq queued
    /\ stage \in {"receive", "collect", "diagnose", "open", "done"}
    /\ event \in Events \cup {NoEvent}
    /\ metrics \in Counters
    /\ logged \in [collect : Nat, open : Nat]

\* A call of OpenPR is in progress exactly while the pipeline waits for it, and
\* works on the event in hand.
OneCallPerEvent ==
    /\ stage = "open" <=> busy
    /\ stage = "open" =>
        \E type \in FailureTypes : asked = <<type, event.pod, event.second>>
    /\ stage \in {"collect", "diagnose", "open"} => event \in Events

\* A call that has created a PR has created it for its own branch.
WrittenPRExists == wrote = {"branch", "pr"} => asked \in prs

InStage(stages) == IF stage \in stages THEN 1 ELSE 0

\* Every event received is counted exactly once: in a log line, in the errors,
\* in the escalations or in the PRs, or it is still in hand; and every attempt
\* at a diagnosis is timed once (the eight ways through main.go:143-188).
Accounting ==
    /\ metrics.detected = logged.collect + metrics.latency
                          + InStage({"collect", "diagnose"})
    /\ metrics.latency = metrics.errors + metrics.escalations + metrics.opened
                         + logged.open + InStage({"open"})

\* An event queued once is at one place at most, queued or in hand, and is not
\* served before its own call creates a PR.
NoEventTwice ==
    /\ \A i \in DOMAIN channel :
        /\ channel[i] \in queued
        /\ channel[i] \notin repeated =>
            /\ channel[i] \notin served \cup {event}
            /\ \A j \in DOMAIN channel : channel[i] = channel[j] => i = j
    /\ event # NoEvent => event \in queued
    /\ event \in served \ repeated => stage = "open" /\ "pr" \in wrote

\* main leaves only after the pipeline has worked off the channel, with no
\* operation in progress (main.go:206-210, tasks/lessons.md:94), unless it
\* never got to work.
CleanExit ==
    /\ stage = "done" => closed /\ channel = <<>>
    /\ exited => (stage = "done" \/ startup = "config") /\ ~busy
    /\ startup # "over" => ~started /\ ~returned
    /\ ~started =>
        working = {} /\ channel = <<>> /\ stage \in {"receive", "done"}

\* The channel is closed only after Run has returned: on cancellation, or
\* before it has started anything.
ShutdownInOrder ==
    /\ closed => returned
    /\ returned => ctxDone \/ ~started
    /\ panicked => closed

ChannelBounded == Len(channel) <= Capacity

IInv ==
    /\ TypeOK
    /\ OneCallPerEvent
    /\ WrittenPRExists
    /\ Accounting
    /\ NoEventTwice
    /\ CleanExit
    /\ ShutdownInOrder
    /\ ChannelBounded

\* remediator_prs_opened never counts an event for which no PR was opened
\* (main.go:171-187).
CountsOnlyRealPRs ==
    [][metrics'.opened > metrics.opened =>
        /\ asked \in prs
        /\ wrote = {"branch", "pr"}
        /\ asked[2] = event.pod /\ asked[3] = event.second]_vars

\* A process creates at most one PR for an event it has queued once.  The model
\* may answer differently when asked again, and the branch would have another
\* name: what rules a second PR out is that the event is taken up once, and not
\* again after a failure that may have left a PR behind (main.go:134-188).
OnePRPerEvent ==
    [][wrote' # wrote /\ "pr" \in wrote' => event \notin served \ repeated]_vars

\* If every call of OpenPR returns, a signal ends the process, whether it is
\* starting or working, whatever the pipeline is doing and however much is
\* queued, and so does a failure of Run: nobody waits for anybody in a circle
\* (main.go:206-222).
ShutdownCompletes ==
    []<>(stage # "open") =>
        (ctxDone \/ returned ~> exited \/ panicked \/ ~(ctxDone \/ returned))

\* tasks/lessons.md:94: the process no longer "could exit before in-flight
\* collect/diagnose/PR operations completed".
InFlightCompletes == exited \/ panicked => stage \in {"receive", "done"}
=============================================================================
