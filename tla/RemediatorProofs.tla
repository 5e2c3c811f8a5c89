-------------------------- MODULE RemediatorProofs --------------------------
(***************************************************************************)
(* Proofs about the whole process, for any number of handlers, events and  *)
(* pods and any capacity of the channel.                                   *)
(***************************************************************************)
EXTENDS Remediator, TLAPS

LEMMA NoEventIsNoEvent == NoEvent \notin Events
BY RemediatorAssumption DEF NoEvent

LEMMA InitIInv == Init => IInv
<1> SUFFICES ASSUME Init PROVE IInv
  OBVIOUS
<1>1. TypeOK
  <2>1. channel \in Seq(Events)
    BY DEF Init, Source!Init
  <2>2. metrics \in Counters /\ logged \in [collect : Nat, open : Nat]
    BY DEF Init, NoCounts, Counters
  <2>3. working \subseteq Handlers /\ queued \subseteq Events
    BY DEF Init, Source!Init
  <2>4. stage \in {"receive", "collect", "diagnose", "open", "done"}
        /\ event \in Events \cup {NoEvent}
    BY DEF Init
  <2>5. {closed, panicked, ctxDone, started, returned, busy, exited}
            \subseteq BOOLEAN
    BY DEF Init, Source!Init, Git!Init
  <2>6. /\ heads \subseteq Branches /\ prs \subseteq Branches
        /\ unmerged \subseteq Branches
        /\ asked \in Branches \cup {None}
        /\ wrote \in {{}, {"branch"}, {"branch", "pr"}}
        /\ result \in Git!Results \cup {"none", "crashed"}
    BY DEF Init, Git!Init
  <2>7. startup \in {"config", "openrouter", "github", "over"}
        /\ served \subseteq queued /\ repeated \subseteq queued
    BY DEF Init
  <2> QED BY <2>1, <2>2, <2>3, <2>4, <2>5, <2>6, <2>7 DEF TypeOK
<1>2. OneCallPerEvent /\ CleanExit /\ ShutdownInOrder
  BY DEF Init, Source!Init, Git!Init, OneCallPerEvent, CleanExit,
         ShutdownInOrder
<1>3. WrittenPRExists
  <2>1. wrote = {} /\ "pr" \in {"branch", "pr"}
    BY DEF Init, Git!Init
  <2> QED BY <2>1 DEF WrittenPRExists
<1>4. Accounting
  BY DEF Init, NoCounts, Accounting, InStage
<1>5. ChannelBounded
  BY RemediatorAssumption DEF Init, Source!Init, ChannelBounded
<1>6. NoEventTwice
  BY DEF Init, Source!Init, NoEventTwice
<1> QED BY <1>1, <1>2, <1>3, <1>4, <1>5, <1>6 DEF IInv

(***************************************************************************)
(* What the rest of the process sees of a step of the watcher: it may      *)
(* queue an event, which the histories record, if there is room and the    *)
(* channel is open, and otherwise leaves the channel alone.                *)
(***************************************************************************)
Queues(e) ==
    /\ ~closed
    /\ Len(channel) < Capacity
    /\ channel' = Append(channel, e)
    /\ queued' = queued \cup {e}
    /\ repeated' = repeated \cup ({e} \cap queued)

WatchEffect ==
    /\ startup = "over"
    /\ started
    /\ working' \subseteq Handlers
    /\ panicked' \in BOOLEAN
    /\ panicked' => closed \/ panicked
    /\ UNCHANGED <<channel, history>> \/ \E e \in Events : Queues(e)
    /\ UNCHANGED <<closed, ctxDone, started, returned>>

LEMMA WatchHasEffect ==
    ASSUME IInv, Watch PROVE WatchEffect
<1>1. CASE \E h \in Handlers :
            (Source!Begin(h) \/ Source!End(h)) /\ UNCHANGED history
  BY <1>1 DEF Watch, Source!Begin, Source!End, Source!run, IInv, TypeOK,
              CleanExit, WatchEffect
<1>2. ASSUME NEW h \in Handlers, NEW e \in Events,
             NEW more \in BOOLEAN,
             Source!Offer(h, e, more),
             \/ UNCHANGED <<channel, history>>
             \/ /\ channel' # channel
                /\ queued' = queued \cup {e}
                /\ repeated' = repeated \cup ({e} \cap queued)
      PROVE  WatchEffect
  <2>1. /\ working' \subseteq Handlers
        /\ closed \in BOOLEAN
        /\ started
    BY <1>2 DEF Source!Offer, IInv, TypeOK, CleanExit
  <2>2. UNCHANGED <<channel, history>> \/ Queues(e)
    BY <1>2 DEF Source!Offer, Source!HasRoom, Queues
  <2> QED BY <1>2, <2>1, <2>2 DEF Watch, Source!Offer, Source!run, WatchEffect
<1> QED BY <1>1, <1>2 DEF Watch

\* The channel after a step of the watcher.
LEMMA QueueGrows ==
    ASSUME IInv, WatchEffect
    PROVE  /\ channel' \in Seq(Events)
           /\ Len(channel') <= Capacity
           /\ closed => channel' = channel
           /\ queued' \subseteq Events
           /\ queued \subseteq queued'
           /\ repeated' \subseteq queued'
<1>1. CASE UNCHANGED <<channel, history>>
  BY <1>1 DEF IInv, TypeOK, ChannelBounded, history
<1>2. ASSUME NEW e \in Events, Queues(e)
      PROVE  /\ channel' \in Seq(Events)
             /\ Len(channel') <= Capacity
             /\ closed => channel' = channel
             /\ queued' \subseteq Events
             /\ queued \subseteq queued'
             /\ repeated' \subseteq queued'
  BY <1>2, RemediatorAssumption DEF Queues, IInv, TypeOK, ChannelBounded
<1> QED BY <1>1, <1>2 DEF WatchEffect

\* An event that is queued for the first time is not in hand, nor served.
LEMMA WatchKeepsEventsApart ==
    ASSUME IInv, WatchEffect, UNCHANGED <<stage, event, wrote, served>>
    PROVE  NoEventTwice'
<1>1. CASE UNCHANGED <<channel, history>>
  BY <1>1 DEF IInv, NoEventTwice, history
<1>2. ASSUME NEW e \in Events, Queues(e)
      PROVE  NoEventTwice'
  <2>1. /\ channel \in Seq(Events)
        /\ channel' = Append(channel, e)
        /\ queued' = queued \cup {e}
        /\ repeated \subseteq repeated'
        /\ served \subseteq queued
    BY <1>2 DEF Queues, IInv, TypeOK
  <2>2. /\ DOMAIN channel' = 1 .. Len(channel) + 1
        /\ DOMAIN channel = 1 .. Len(channel)
        /\ \A k \in DOMAIN channel : channel'[k] = channel[k]
        /\ channel'[Len(channel) + 1] = e
    BY <2>1
  <2>3. \A k \in DOMAIN channel' : k \in DOMAIN channel \/ k = Len(channel) + 1
    BY <2>1, <2>2
  <2>4. e # NoEvent
    BY NoEventIsNoEvent
  \* Unless it is repeated, what is queued now has not been queued before.
  <2>5. e \in repeated' \/ e \notin queued
    BY <1>2 DEF Queues
  <2>6. e \notin queued => e # event /\ e \notin served
    BY <2>1, <2>4 DEF IInv, NoEventTwice
  <2>7. \A k \in DOMAIN channel : channel[k] \in queued
    BY DEF IInv, NoEventTwice
  <2>8. ASSUME NEW i \in DOMAIN channel'
        PROVE  /\ channel'[i] \in queued'
               /\ channel'[i] \notin repeated' =>
                    /\ channel'[i] \notin served' \cup {event'}
                    /\ \A j \in DOMAIN channel' :
                            channel'[i] = channel'[j] => i = j
    <3>1. channel'[i] \in queued'
      BY <2>1, <2>2, <2>3, <2>7
    <3>2. ASSUME channel'[i] \notin repeated'
          PROVE  channel'[i] \notin served' \cup {event'}
      <4>1. CASE i \in DOMAIN channel
        BY <2>1, <2>2, <3>2, <4>1 DEF IInv, NoEventTwice
      <4>2. CASE i = Len(channel) + 1
        BY <2>2, <2>5, <2>6, <3>2, <4>2
      <4> QED BY <2>3, <4>1, <4>2
    <3>3. ASSUME channel'[i] \notin repeated', NEW j \in DOMAIN channel',
                 channel'[i] = channel'[j]
          PROVE  i = j
      <4>1. CASE i \in DOMAIN channel /\ j \in DOMAIN channel
        BY <2>1, <2>2, <3>3, <4>1 DEF IInv, NoEventTwice
      <4>2. CASE i = Len(channel) + 1 /\ j = Len(channel) + 1
        BY <4>2
      <4>3. CASE i \in DOMAIN channel /\ j = Len(channel) + 1
        BY <2>2, <2>5, <2>7, <3>3, <4>3
      <4>4. CASE i = Len(channel) + 1 /\ j \in DOMAIN channel
        BY <2>2, <2>5, <2>7, <3>3, <4>4
      <4> QED BY <2>3, <4>1, <4>2, <4>3, <4>4
    <3> QED BY <3>1, <3>2, <3>3
  <2>9. (event # NoEvent => event \in queued)'
        /\ (event \in served \ repeated => stage = "open" /\ "pr" \in wrote)'
    BY <2>1 DEF IInv, NoEventTwice
  <2> QED BY <2>8, <2>9 DEF NoEventTwice
<1> QED BY <1>1, <1>2 DEF WatchEffect

LEMMA WatchIInv ==
    ASSUME IInv, Watch PROVE IInv'
<1>1. WatchEffect /\ UNCHANGED <<gitops, pipeline, served, main>>
  BY WatchHasEffect DEF Watch
<1>2. /\ channel' \in Seq(Events)
      /\ Len(channel') <= Capacity
      /\ closed => channel' = channel
      /\ queued' \subseteq Events
      /\ queued \subseteq queued'
      /\ repeated' \subseteq queued'
  BY <1>1, QueueGrows
<1>3. TypeOK'
  BY <1>1, <1>2 DEF WatchEffect, IInv, TypeOK, gitops, pipeline, main
<1>4. (OneCallPerEvent /\ WrittenPRExists /\ Accounting)'
  BY <1>1 DEF IInv, OneCallPerEvent, WrittenPRExists, Accounting, InStage,
              gitops, pipeline
<1>5. (CleanExit /\ ShutdownInOrder /\ ChannelBounded)'
  BY <1>1, <1>2 DEF WatchEffect, IInv, CleanExit, ShutdownInOrder,
                    ChannelBounded, gitops, pipeline, main
<1>6. NoEventTwice'
  BY <1>1, WatchKeepsEventsApart DEF gitops, pipeline
<1> QED BY <1>3, <1>4, <1>5, <1>6 DEF IInv

(***************************************************************************)
(* The pipeline's steps, one lemma per action.                             *)
(***************************************************************************)
\* An event that is put down is nowhere any more.
LEMMA ContinueKeepsEventsApart ==
    ASSUME IInv, Continue, stage # "receive",
           event \in served \ repeated => stage' = "receive"
    PROVE  NoEventTwice'
<1>1. UNCHANGED <<channel, queued, repeated, served>>
  BY DEF Continue, source, history
<1>2. event' = event \/ event' = NoEvent
  BY DEF Continue
<1>3. \A i \in DOMAIN channel : channel[i] \in Events
  BY DEF IInv, TypeOK
<1>4. \A i \in DOMAIN channel : channel[i] # NoEvent
  BY <1>3, NoEventIsNoEvent
<1>5. event' \notin served \ repeated
  BY NoEventIsNoEvent DEF Continue, IInv, TypeOK
<1> QED BY <1>1, <1>2, <1>4, <1>5 DEF IInv, NoEventTwice

LEMMA ReceiveIInv ==
    ASSUME IInv, Receive PROVE IInv'
<1> USE DEF Stages!Begin, Stages!Move, Source!Receive
<1>1. /\ channel \in Seq(Events) /\ channel # <<>>
      /\ Head(channel) \in Events /\ Head(channel) = channel[1]
      /\ Tail(channel) \in Seq(Events)
      /\ Len(Tail(channel)) = Len(channel) - 1
  BY DEF Receive, IInv, TypeOK
<1>2. TypeOK'
  BY <1>1 DEF Receive, Source!run, IInv, TypeOK, Counters, gitops, history,
              main
<1>3. (OneCallPerEvent /\ WrittenPRExists)'
  BY <1>1 DEF Receive, IInv, OneCallPerEvent, WrittenPRExists, gitops
<1>4. Accounting'
  BY DEF Receive, IInv, TypeOK, Counters, Accounting, InStage
<1>5. (CleanExit /\ ShutdownInOrder)'
  BY <1>1 DEF Receive, Source!run, IInv, CleanExit, ShutdownInOrder, gitops,
              main
<1>6. ChannelBounded'
  BY <1>1, RemediatorAssumption DEF Receive, IInv, ChannelBounded
<1>7. NoEventTwice'
  <2>1. /\ event' = channel[1] /\ channel' = Tail(channel)
        /\ UNCHANGED <<queued, repeated, served>>
    BY <1>1 DEF Receive, history
  <2>2. \A i \in DOMAIN channel' : /\ i + 1 \in DOMAIN channel
                                   /\ channel'[i] = channel[i + 1]
    BY <1>1, <2>1
  <2>3. /\ 1 \in DOMAIN channel
        /\ \A i \in DOMAIN channel' : i + 1 # 1 /\ i \in Nat
    BY <1>1, <2>1
  <2>4. \A i \in DOMAIN channel :
            /\ channel[i] \in queued
            /\ channel[i] \notin repeated =>
                /\ channel[i] \notin served
                /\ \A j \in DOMAIN channel : channel[i] = channel[j] => i = j
    BY DEF IInv, NoEventTwice
  <2>5. ASSUME NEW i \in DOMAIN channel'
        PROVE  /\ channel'[i] \in queued'
               /\ channel'[i] \notin repeated' =>
                    /\ channel'[i] \notin served' \cup {event'}
                    /\ \A j \in DOMAIN channel' :
                            channel'[i] = channel'[j] => i = j
    <3>1. channel'[i] = channel[i + 1] /\ i + 1 \in DOMAIN channel /\ i + 1 # 1
      BY <2>2, <2>3
    <3>2. /\ channel'[i] \in queued
          /\ channel'[i] \notin repeated => channel'[i] \notin served
      BY <2>4, <3>1
    <3>3. channel'[i] \notin repeated => channel'[i] # channel[1]
      BY <2>3, <2>4, <3>1
    <3>4. ASSUME channel'[i] \notin repeated, NEW j \in DOMAIN channel',
                 channel'[i] = channel'[j]
          PROVE  i = j
      <4>1. i + 1 = j + 1
        BY <2>2, <2>4, <3>1, <3>4
      <4> QED BY <2>3, <4>1
    <3> QED BY <2>1, <3>2, <3>3, <3>4
  <2>6. event' \in queued' /\ event' \notin served' \ repeated'
    BY <2>1, <2>3, <2>4
  <2> QED BY <2>5, <2>6 DEF NoEventTwice
<1> QED BY <1>2, <1>3, <1>4, <1>5, <1>6, <1>7 DEF IInv

LEMMA PipelineDoneIInv ==
    ASSUME IInv, PipelineDone PROVE IInv'
<1>1. TypeOK'
  BY DEF PipelineDone, IInv, TypeOK, source, gitops, history, main
<1>2. (OneCallPerEvent /\ WrittenPRExists)'
  BY DEF PipelineDone, IInv, OneCallPerEvent, WrittenPRExists, gitops
<1>3. Accounting'
  BY DEF PipelineDone, IInv, Accounting, InStage
<1>4. (CleanExit /\ ShutdownInOrder /\ ChannelBounded)'
  BY DEF PipelineDone, IInv, CleanExit, ShutdownInOrder, ChannelBounded,
         source, gitops, main
<1>5. NoEventTwice'
  BY DEF PipelineDone, IInv, NoEventTwice, source, gitops, history
<1> QED BY <1>1, <1>2, <1>3, <1>4, <1>5 DEF IInv

(***************************************************************************)
(* A step to the next stage, or to the next event, that leaves GitHub      *)
(* alone keeps everything but the accounts.                                *)
(***************************************************************************)
LEMMA ContinueKeeps ==
    ASSUME IInv, stage \in {"collect", "diagnose"},
           stage' \in {"receive", "diagnose"}, Continue, UNCHANGED gitops,
           metrics' \in Counters, logged' \in [collect : Nat, open : Nat],
           Accounting'
    PROVE  IInv'
<1>1. TypeOK'
  BY DEF Continue, IInv, TypeOK, source, gitops, history, main
<1>2. (OneCallPerEvent /\ WrittenPRExists)'
  BY DEF Continue, IInv, OneCallPerEvent, WrittenPRExists, gitops
<1>3. (CleanExit /\ ShutdownInOrder /\ ChannelBounded)'
  BY DEF Continue, IInv, CleanExit, ShutdownInOrder, ChannelBounded, source,
         gitops, main
<1>4. NoEventTwice'
  BY ContinueKeepsEventsApart DEF IInv, NoEventTwice, gitops
<1> QED BY <1>1, <1>2, <1>3, <1>4 DEF IInv

LEMMA CollectedIInv ==
    ASSUME IInv, Collected PROVE IInv'
<1> USE DEF Stages!Collected, Stages!Move
<1>1. Accounting'
  BY DEF Collected, IInv, Accounting, InStage
<1>2. metrics' \in Counters /\ logged' \in [collect : Nat, open : Nat]
  BY DEF Collected, IInv, TypeOK
<1> QED BY <1>1, <1>2, ContinueKeeps DEF Collected

LEMMA CollectFailsIInv ==
    ASSUME IInv, CollectFails PROVE IInv'
<1> USE DEF Stages!CollectFails, Stages!Move
<1>1. metrics' \in Counters /\ logged' \in [collect : Nat, open : Nat]
  BY DEF CollectFails, IInv, TypeOK
<1>2. Accounting'
  BY DEF CollectFails, IInv, TypeOK, Counters, Accounting, InStage
<1> QED BY <1>1, <1>2, ContinueKeeps DEF CollectFails

LEMMA DiagnoseFailsIInv ==
    ASSUME IInv, DiagnoseFails PROVE IInv'
<1> USE DEF Stages!DiagnoseFails, Stages!Move
<1>1. metrics' \in Counters /\ logged' \in [collect : Nat, open : Nat]
  <2>1. /\ metrics.latency + 1 \in Nat
        /\ metrics.errors + 1 \in Nat
    BY DEF IInv, TypeOK, Counters
  <2>2. metrics \in Counters /\ logged' = logged
    BY DEF DiagnoseFails, IInv, TypeOK
  <2>3. metrics' = [metrics EXCEPT !.latency = metrics.latency + 1,
                                   !.errors = metrics.errors + 1]
    BY DEF DiagnoseFails
  <2>4. metrics' \in Counters
    BY <2>1, <2>2, <2>3 DEF Counters
  <2> QED BY <2>2, <2>4 DEF IInv, TypeOK
<1>2. Accounting'
  BY DEF DiagnoseFails, IInv, TypeOK, Counters, Accounting, InStage
<1> QED BY <1>1, <1>2, ContinueKeeps DEF DiagnoseFails

LEMMA EscalateIInv ==
    ASSUME IInv, Escalate PROVE IInv'
<1> USE DEF Stages!Escalate, Stages!Move
<1>1. metrics' \in Counters /\ logged' \in [collect : Nat, open : Nat]
  <2>1. /\ metrics.latency + 1 \in Nat
        /\ metrics.escalations + 1 \in Nat
    BY DEF IInv, TypeOK, Counters
  <2>2. metrics \in Counters /\ logged' = logged
    BY DEF Escalate, IInv, TypeOK
  <2>3. metrics' = [metrics EXCEPT !.latency = metrics.latency + 1,
                                   !.escalations = metrics.escalations + 1]
    BY DEF Escalate
  <2>4. metrics' \in Counters
    BY <2>1, <2>2, <2>3 DEF Counters
  <2> QED BY <2>2, <2>4 DEF IInv, TypeOK
<1>2. Accounting'
  BY DEF Escalate, IInv, TypeOK, Counters, Accounting, InStage
<1> QED BY <1>1, <1>2, ContinueKeeps DEF Escalate

LEMMA RemediateIInv ==
    ASSUME IInv, NEW type \in FailureTypes, Remediate(type) PROVE IInv'
<1> USE DEF Stages!Remediate, Stages!Move
<1>1. event \in Events /\ stage = "diagnose" /\ UNCHANGED event
  BY DEF Remediate, Continue, IInv, OneCallPerEvent
<1>2. <<type, event.pod, event.second>> \in Branches
  BY <1>1, RemediatorAssumption DEF Branches
<1>3. TypeOK'
  <2>1. metrics' \in Counters
    BY DEF Remediate, IInv, TypeOK, Counters
  <2> QED BY <1>1, <1>2, <2>1 DEF Remediate, Git!Call, Continue, IInv, TypeOK,
                                  source, history, main
<1>4. OneCallPerEvent'
  BY <1>1 DEF Remediate, Git!Call, Continue, IInv, OneCallPerEvent
<1>5. WrittenPRExists'
  <2>1. wrote' = {} /\ "pr" \in {"branch", "pr"}
    BY DEF Remediate, Git!Call
  <2> QED BY <2>1 DEF WrittenPRExists
<1>6. Accounting'
  BY <1>1 DEF Remediate, Continue, IInv, TypeOK, Counters, Accounting, InStage
<1>7. (CleanExit /\ ShutdownInOrder /\ ChannelBounded)'
  BY <1>1 DEF Remediate, Continue, IInv, CleanExit, ShutdownInOrder,
              ChannelBounded, source, main
<1>8. NoEventTwice'
  BY <1>1, ContinueKeepsEventsApart DEF Remediate, IInv, NoEventTwice
<1> QED BY <1>3, <1>4, <1>5, <1>6, <1>7, <1>8 DEF IInv

LEMMA OpenPRWorksIInv ==
    ASSUME IInv, OpenPRWorks PROVE IInv'
<1>1. /\ UNCHANGED <<source, pipeline, main, history, asked, busy, result>>
      /\ stage = "open" /\ event \in Events
      /\ asked \in Branches
  <2>1. asked \in FailureTypes \X Pods \X Seconds
    <3>1. PICK type \in FailureTypes : asked = <<type, event.pod, event.second>>
      BY DEF OpenPRWorks, IInv, OneCallPerEvent
    <3>2. event \in Events
      BY DEF OpenPRWorks, IInv, OneCallPerEvent
    <3> QED BY <3>1, <3>2, RemediatorAssumption
  <2>2. stage = "open" /\ event \in Events
    BY DEF OpenPRWorks, IInv, OneCallPerEvent
  <2> QED BY <2>1, <2>2 DEF OpenPRWorks, Git!Push, Git!Create, Branches
<1>2. /\ heads' \subseteq Branches /\ prs' \subseteq Branches
      /\ unmerged' \subseteq Branches
      /\ wrote' \in {{}, {"branch"}, {"branch", "pr"}}
  BY <1>1 DEF OpenPRWorks, Git!Push, Git!Create, IInv, TypeOK
<1>3. TypeOK'
  <2>1. served' \subseteq queued'
    BY <1>1, NoEventIsNoEvent
       DEF OpenPRWorks, IInv, TypeOK, NoEventTwice, history
  <2> QED BY <1>1, <1>2, <2>1 DEF IInv, TypeOK, source, pipeline, history, main
<1>4. WrittenPRExists'
  <2>1. CASE Git!Push
    <3>1. wrote' = {"branch"} /\ {"branch"} # {"branch", "pr"}
      BY <2>1 DEF Git!Push
    <3> QED BY <3>1 DEF WrittenPRExists
  <2>2. CASE Git!Create
    BY <2>2 DEF Git!Create, WrittenPRExists
  <2> QED BY <2>1, <2>2 DEF OpenPRWorks
<1>5. (OneCallPerEvent /\ Accounting)'
  BY <1>1 DEF IInv, OneCallPerEvent, Accounting, InStage, pipeline
<1>6. (CleanExit /\ ShutdownInOrder /\ ChannelBounded)'
  BY <1>1 DEF IInv, CleanExit, ShutdownInOrder, ChannelBounded, source,
              pipeline, main
<1>7. NoEventTwice'
  BY <1>1 DEF OpenPRWorks, Git!Push, Git!Create, IInv, NoEventTwice, source,
              pipeline, history
<1> QED BY <1>3, <1>4, <1>5, <1>6, <1>7 DEF IInv

LEMMA OpenPRReturnsIInv ==
    ASSUME IInv, NEW r \in Git!Results, OpenPRReturns(r) PROVE IInv'
<1> USE DEF Stages!Finish, Stages!Move
<1>1. metrics' \in Counters /\ logged' \in [collect : Nat, open : Nat]
  BY DEF OpenPRReturns, IInv, TypeOK, Counters
<1>2. TypeOK'
  BY <1>1 DEF OpenPRReturns, Git!Return, Continue, IInv, TypeOK, source,
              history, main
<1>3. (OneCallPerEvent /\ WrittenPRExists)'
  BY DEF OpenPRReturns, Git!Return, Continue, IInv, OneCallPerEvent,
         WrittenPRExists
<1>4. Accounting'
  <2>1. CASE r = "opened"
    <3>1. /\ metrics' = [metrics EXCEPT !.opened = metrics.opened + 1]
          /\ logged' = logged
          /\ stage = "open" /\ stage' = "receive"
      BY <2>1 DEF OpenPRReturns, Continue
    <3>2. metrics \in Counters /\ logged \in [collect : Nat, open : Nat]
      BY DEF IInv, TypeOK
    <3>3. /\ metrics'.detected = metrics.detected
          /\ metrics'.latency = metrics.latency
          /\ metrics'.errors = metrics.errors
          /\ metrics'.escalations = metrics.escalations
          /\ metrics'.opened = metrics.opened + 1
      BY <3>1, <3>2 DEF Counters
    <3>4. /\ metrics.detected = logged.collect + metrics.latency
          /\ metrics.latency = metrics.errors + metrics.escalations
                               + metrics.opened + logged.open + 1
      BY <3>1, <3>2 DEF IInv, Accounting, InStage, Counters
    <3> QED BY <3>1, <3>2, <3>3, <3>4 DEF Accounting, InStage, Counters
  <2>2. CASE r # "opened"
    <3>1. /\ metrics' = metrics
          /\ logged' = [logged EXCEPT !.open = logged.open + 1]
          /\ stage = "open" /\ stage' = "receive"
      BY <2>2 DEF OpenPRReturns, Continue
    <3>2. metrics \in Counters /\ logged \in [collect : Nat, open : Nat]
      BY DEF IInv, TypeOK
    <3>3. /\ logged'.collect = logged.collect
          /\ logged'.open = logged.open + 1
      BY <3>1, <3>2
    <3>4. /\ metrics.detected = logged.collect + metrics.latency
          /\ metrics.latency = metrics.errors + metrics.escalations
                               + metrics.opened + logged.open + 1
      BY <3>1, <3>2 DEF IInv, Accounting, InStage, Counters
    <3> QED BY <3>1, <3>2, <3>3, <3>4 DEF Accounting, InStage, Counters
  <2> QED BY <2>1, <2>2
<1>5. (CleanExit /\ ShutdownInOrder /\ ChannelBounded)'
  BY DEF OpenPRReturns, Continue, IInv, CleanExit, ShutdownInOrder,
         ChannelBounded, source, main
<1>6. NoEventTwice'
  BY ContinueKeepsEventsApart DEF OpenPRReturns
<1> QED BY <1>2, <1>3, <1>4, <1>5, <1>6 DEF IInv

LEMMA PipelineIInv ==
    ASSUME IInv, Pipeline PROVE IInv'
BY ReceiveIInv, PipelineDoneIInv, CollectedIInv, CollectFailsIInv,
   DiagnoseFailsIInv, EscalateIInv, RemediateIInv, OpenPRWorksIInv,
   OpenPRReturnsIInv DEF Pipeline

(***************************************************************************)
(* The steps of main and of GitHub touch neither the pipeline nor its      *)
(* accounts.                                                               *)
(***************************************************************************)
MainStep ==
    \/ LoadConfig \/ PingOpenRouter \/ PingGitHub
    \/ Cancel
    \/ StartWatcher \/ RunFails \/ RunReturns
    \/ Close \/ Exit

LEMMA MainIInv ==
    ASSUME IInv, ~exited, MainStep PROVE IInv'
<1> USE DEF MainStep, LoadConfig, PingOpenRouter, PingGitHub, PingReturns,
            Cancel, StartWatcher, RunFails, RunReturns, Close, Exit,
            Source!Cancel, Source!Start, Source!RunFails, Source!RunReturns,
            Source!Close, Source!run
<1>1. UNCHANGED <<gitops, history, pipeline, served, working, channel,
                  panicked>>
  BY DEF source
<1>2. TypeOK'
  <2>1. CASE LoadConfig \/ PingOpenRouter \/ PingGitHub
    BY <1>1, <2>1 DEF IInv, TypeOK, source, gitops, history, pipeline
  <2>2. CASE Cancel \/ StartWatcher \/ RunFails \/ RunReturns \/ Close
    <3>1. /\ ctxDone' = ctxDone \/ ctxDone' = TRUE
          /\ started' = started \/ started' = TRUE
          /\ returned' = returned \/ returned' = TRUE
          /\ closed' = closed \/ closed' = TRUE
      BY <2>2
    <3>2. UNCHANGED <<startup, exited, working, channel, panicked>>
      BY <1>1, <2>2 DEF main
    <3> HIDE DEF MainStep, Cancel, StartWatcher, RunFails, RunReturns, Close,
                 Source!Cancel, Source!Start, Source!RunFails,
                 Source!RunReturns, Source!Close
    <3>3. /\ ctxDone' \in BOOLEAN /\ started' \in BOOLEAN
          /\ returned' \in BOOLEAN /\ closed' \in BOOLEAN
      <4>1. /\ ctxDone \in BOOLEAN /\ started \in BOOLEAN
            /\ returned \in BOOLEAN /\ closed \in BOOLEAN
        BY DEF IInv, TypeOK
      <4> QED BY <3>1, <4>1
    <3> QED BY <1>1, <3>2, <3>3 DEF IInv, TypeOK, gitops, history, pipeline
  <2>3. CASE Exit
    BY <1>1, <2>3 DEF IInv, TypeOK, source, gitops, history, pipeline
  <2> QED BY <2>1, <2>2, <2>3 DEF MainStep
<1>3. (OneCallPerEvent /\ WrittenPRExists /\ Accounting /\ ChannelBounded)'
  BY <1>1 DEF IInv, OneCallPerEvent, WrittenPRExists, Accounting, InStage,
              ChannelBounded, gitops, pipeline
<1>4. (CleanExit /\ ShutdownInOrder)'
  <2>1. CASE LoadConfig \/ PingOpenRouter \/ PingGitHub
    BY <1>1, <2>1 DEF IInv, CleanExit, ShutdownInOrder, OneCallPerEvent, source,
                      gitops, pipeline
  <2>2. CASE \/ Cancel \/ StartWatcher \/ RunFails \/ RunReturns
             \/ Close \/ Exit
    BY <1>1, <2>2 DEF IInv, CleanExit, ShutdownInOrder, OneCallPerEvent, source,
                      gitops, pipeline, main
  <2> QED BY <2>1, <2>2
<1>5. NoEventTwice'
  BY <1>1 DEF IInv, NoEventTwice, gitops, history, pipeline
<1> QED BY <1>2, <1>3, <1>4, <1>5 DEF IInv

LEMMA OthersIInv ==
    ASSUME IInv, OthersOnGitHub PROVE IInv'
<1>1. /\ UNCHANGED <<source, history, pipeline, served, main>>
      /\ UNCHANGED <<prs, asked, busy, wrote, result>>
      /\ heads' \subseteq Branches /\ unmerged' \subseteq Branches
  BY DEF OthersOnGitHub, Git!Environment, Git!Merge, Git!CommitToBranch,
         Git!DeleteBranch, IInv, TypeOK
<1> QED BY <1>1 DEF IInv, TypeOK, OneCallPerEvent, WrittenPRExists, Accounting,
            InStage, NoEventTwice, CleanExit, ShutdownInOrder, ChannelBounded,
            source, history, pipeline, main

(***************************************************************************)
(* A new process starts from nothing, beside what the old one has left on  *)
(* GitHub.                                                                 *)
(***************************************************************************)
LEMMA RestartIInv ==
    ASSUME IInv, Restart PROVE IInv'
<1>1. /\ UNCHANGED <<heads, unmerged, prs, asked, wrote>>
      /\ busy' = FALSE
      /\ result' \in Git!Results \cup {"none", "crashed"}
  BY DEF Restart, Git!Crash, IInv, TypeOK, gitops
<1>2. /\ working' = {} /\ channel' = <<>> /\ closed' = FALSE
      /\ panicked' = FALSE /\ ctxDone' = FALSE
      /\ started' = FALSE /\ returned' = FALSE
  BY DEF Restart, Source!Restart
<1>3. TypeOK'
  <2>1. channel' \in Seq(Events)
    BY <1>2
  <2>2. metrics' \in Counters /\ logged' \in [collect : Nat, open : Nat]
    BY DEF Restart, NoCounts, Counters
  <2> QED BY <1>1, <1>2, <2>1, <2>2 DEF Restart, IInv, TypeOK
<1>4. (OneCallPerEvent /\ WrittenPRExists)'
  BY <1>1 DEF Restart, IInv, OneCallPerEvent, WrittenPRExists
<1>5. Accounting'
  BY DEF Restart, NoCounts, Accounting, InStage
<1>6. NoEventTwice'
  BY <1>2 DEF Restart, NoEventTwice
<1>7. (CleanExit /\ ShutdownInOrder /\ ChannelBounded)'
  BY <1>2, RemediatorAssumption DEF Restart, CleanExit, ShutdownInOrder,
                                    ChannelBounded
<1> QED BY <1>3, <1>4, <1>5, <1>6, <1>7 DEF IInv

LEMMA StutterIInv ==
    ASSUME IInv, UNCHANGED vars PROVE IInv'
BY DEF IInv, TypeOK, OneCallPerEvent, WrittenPRExists, Accounting, InStage,
       NoEventTwice, CleanExit, ShutdownInOrder, ChannelBounded, vars, source,
       gitops, history, pipeline, main

(***************************************************************************)
(* The process's invariant: every event received is accounted for exactly  *)
(* once and is at one place only, main leaves only when the pipeline has   *)
(* worked off the channel, the channel stays within its capacity           *)
(* (main.go:129-223).                                                      *)
(***************************************************************************)
THEOREM Invariance == Spec => []IInv
<1>1. IInv /\ [Next]_vars => IInv'
  BY WatchIInv, PipelineIInv, MainIInv, OthersIInv, RestartIInv,
     StutterIInv DEF Next, MainStep, Running, Terminated
<1> QED BY InitIInv, <1>1, PTL DEF Spec

(***************************************************************************)
(* remediator_prs_opened counts only events for which the call of OpenPR   *)
(* has opened a PR (main.go:171-187).                                      *)
(***************************************************************************)
THEOREM OnlyRealPRsCounted == Spec => CountsOnlyRealPRs
<1> DEFINE Counted == metrics'.opened > metrics.opened =>
                        /\ asked \in prs
                        /\ wrote = {"branch", "pr"}
                        /\ asked[2] = event.pod /\ asked[3] = event.second
<1>1. ASSUME IInv, NEW r \in Git!Results, OpenPRReturns(r),
             metrics'.opened > metrics.opened
      PROVE  Counted
  <2>1. r = "opened" /\ stage = "open"
    <3>1. metrics'.opened # metrics.opened
      BY <1>1 DEF IInv, TypeOK, Counters
    <3> QED BY <1>1, <3>1 DEF OpenPRReturns, Stages!Finish, Stages!Move
  <2>2. wrote = {"branch", "pr"}
    BY <1>1, <2>1 DEF OpenPRReturns, Git!Return, Git!Allowed
  <2>3. asked \in prs
    BY <1>1, <2>2 DEF IInv, WrittenPRExists
  <2>4. PICK type \in FailureTypes : asked = <<type, event.pod, event.second>>
    BY <1>1, <2>1 DEF IInv, OneCallPerEvent
  <2> QED BY <2>2, <2>3, <2>4
<1>2. ASSUME IInv, Pipeline, ~ \E r \in Git!Results : OpenPRReturns(r)
      PROVE  ~(metrics'.opened > metrics.opened)
  <2>1. metrics'.opened = metrics.opened /\ metrics.opened \in Nat
    BY <1>2 DEF Pipeline, Receive, PipelineDone, Collected, CollectFails,
                DiagnoseFails, Escalate, Remediate, OpenPRWorks, pipeline, IInv,
                TypeOK, Counters
  <2> QED BY <2>1
<1>3. ASSUME IInv, [Next]_vars, ~Pipeline
      PROVE  ~(metrics'.opened > metrics.opened)
  <2>1. metrics.opened \in Nat
    BY <1>3 DEF IInv, TypeOK, Counters
  <2>2. CASE Restart
    BY <2>1, <2>2 DEF Restart, NoCounts
  <2>3. CASE metrics' = metrics
    BY <2>1, <2>3
  <2> QED BY <1>3, <2>2, <2>3
          DEF Next, Terminated, Watch, LoadConfig, PingOpenRouter, PingGitHub,
              PingReturns, Cancel, StartWatcher, RunFails, RunReturns, Close,
              Exit, OthersOnGitHub, vars, pipeline
<1>4. IInv /\ [Next]_vars => [Counted]_vars
  BY <1>1, <1>2, <1>3
<1> QED BY Invariance, <1>4, PTL DEF Spec, CountsOnlyRealPRs

(***************************************************************************)
(* A process creates at most one PR for an event it has queued once,       *)
(* whatever fails and however often it is asked (main.go:134-188): the     *)
(* event in hand is not served as long as its call has created nothing.    *)
(***************************************************************************)
THEOREM AtMostOnePR == Spec => OnePRPerEvent
<1> DEFINE Once == wrote' # wrote /\ "pr" \in wrote'
                    => event \notin served \ repeated
<1>1. ASSUME IInv, [Next]_vars, wrote' # wrote, "pr" \in wrote'
      PROVE  event \notin served \ repeated
  <2>1. OpenPRWorks /\ Git!Create
    <3>1. CASE Pipeline
      <4>1. CASE OpenPRWorks
        BY <1>1, <4>1 DEF OpenPRWorks, Git!Push
      <4>2. CASE \E type \in FailureTypes : Remediate(type)
        BY <1>1, <4>2 DEF Remediate, Git!Call
      <4>3. CASE \E r \in Git!Results : OpenPRReturns(r)
        BY <1>1, <4>3 DEF OpenPRReturns, Git!Return
      <4>4. CASE Receive \/ PipelineDone \/ Collected \/ CollectFails
                 \/ DiagnoseFails \/ Escalate
        BY <1>1, <4>4 DEF Receive, PipelineDone, Collected, CollectFails,
                          DiagnoseFails, Escalate, gitops
      <4> QED BY <3>1, <4>1, <4>2, <4>3, <4>4 DEF Pipeline
    <3>2. CASE Restart
      BY <1>1, <3>2 DEF Restart, Git!Crash, gitops
    <3>3. CASE [Next]_vars /\ ~Pipeline /\ ~Restart
      BY <1>1, <3>3 DEF Next, Terminated, Watch, LoadConfig, PingOpenRouter,
                        PingGitHub, PingReturns, Cancel, StartWatcher,
                        RunFails, RunReturns, Close, Exit, OthersOnGitHub,
                        Git!Environment, Git!Merge, Git!CommitToBranch,
                        Git!DeleteBranch, vars, gitops
    <3> QED BY <1>1, <3>1, <3>2, <3>3
  <2>2. wrote = {"branch"}
    BY <2>1 DEF Git!Create
  <2> QED BY <1>1, <2>2 DEF IInv, NoEventTwice
<1>2. IInv /\ [Next]_vars => [Once]_vars
  BY <1>1
<1> QED BY Invariance, <1>2, PTL DEF Spec, OnePRPerEvent
=============================================================================
