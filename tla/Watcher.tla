------------------------------ MODULE Watcher ------------------------------
(***************************************************************************)
(* K8sWatcher of internal/watcher: two informers deliver pods and          *)
(* Kubernetes Events to two handler goroutines, which classify them, ask   *)
(* the shared deduplicator and offer what is left to a bounded channel     *)
(* without ever blocking.  Run starts the informers or fails, waits for    *)
(* the caches, opens the gate that ignores the initial list, and returns   *)
(* when the context is cancelled; main then closes the channel.            *)
(*                                                                         *)
(* isDuplicate is one action here, on the abstract SuppressionWindow that  *)
(* Dedup implements.  The cluster, client-go's informers and the consumer  *)
(* of the channel are the environment.                                     *)
(***************************************************************************)
EXTENDS Integers, Sequences, FiniteSets

CONSTANTS
    Pods,           \* the pods of the watched namespace
    Statuses,       \* container states a pod can show, init containers first
    RawEvents,      \* Kubernetes Events: records [warning, reason, about]
    Capacity,       \* of the channel (main.go:64)
    MaxPending,     \* bound on the notifications an informer has pending
    Never           \* no key granted

ASSUME WatcherAssumption ==
    /\ Capacity \in Nat \ {0}
    /\ MaxPending \in Nat \ {0}
    /\ IsFiniteSet(Pods)
    /\ \A st \in Statuses : DOMAIN st \subseteq Nat

Handlers == {"pods", "events"}
FailureTypes == {"OOMKilled", "CrashLoopBackOff", "ImagePullBackOff"}
Keys == Pods \X FailureTypes
Absent == <<>>

ASSUME NeverIsNoKey == Never \notin Keys

VARIABLES
    status,     \* cluster: pod -> its containers' states, Absent if none
    changed,    \* history: the pods that changed after the initial list
    listed,     \* the pod informer has delivered its initial list
    podQ,       \* notifications pending for the pod handler
    eventQ,     \* notifications pending for the Event handler
    stopped,    \* the informers have stopped
    phase,      \* Run: "registering", "syncing", "serving", or its outcome
    synced,     \* w.synced
    ctxDone,    \* ctx is cancelled
    todo,       \* per handler: the FailureEvents its loop has still to do
    open, held, \* the deduplicator: see SuppressionWindow
    queued,     \* history: the keys put on the channel in their open window
    channel,    \* w.events
    closed,     \* main has closed the channel
    panicked    \* a goroutine has panicked: the process is gone

cluster == <<status, changed, listed>>
informers == <<podQ, eventQ, stopped>>
run == <<phase, synced, ctxDone>>
handlers == <<todo, open, held, queued>>
output == <<channel, closed, panicked>>
vars == <<cluster, informers, run, handlers, output>>

Dedup == INSTANCE SuppressionWindow

Key(e) == <<e.pod, e.type>>

Returned == phase \in {"returned", "failed"}

\* The informers, with their handlers, have been started.
Started == phase \in {"syncing", "serving", "returned"}

Init ==
    /\ status \in [Pods -> Statuses \cup {Absent}]
    /\ changed = {}
    /\ listed = FALSE
    /\ podQ = <<>> /\ eventQ = <<>> /\ stopped = FALSE
    /\ phase = "registering" /\ synced = FALSE /\ ctxDone = FALSE
    /\ todo = [h \in Handlers |-> {}]
    /\ Dedup!Init
    /\ queued = {}
    /\ channel = <<>> /\ closed = FALSE /\ panicked = FALSE
-----------------------------------------------------------------------------
(* Classification (filter.go). *)

ContainerFailure(s) ==
    CASE s \in {"ImagePullBackOff", "ErrImagePull"} -> "ImagePullBackOff"
      [] s \in FailureTypes \ {"ImagePullBackOff"} -> s
      [] OTHER -> "none"

\* One FailureEvent per failing container.
ClassifyPod(p, st) ==
    { [pod |-> p, type |-> ContainerFailure(st[i]), container |-> i] :
        i \in {j \in DOMAIN st : ContainerFailure(st[j]) # "none"} }

EventFailure(reason, about) ==
    CASE reason = "OOMKilling" -> "OOMKilled"
      [] reason = "BackOff" /\ about = "pulling image" -> "ImagePullBackOff"
      [] reason = "BackOff" /\ about = "restarting failed container" ->
            "CrashLoopBackOff"
      [] reason = "Failed" /\ about \in {"pull", "pulling image"} ->
            "ImagePullBackOff"
      [] OTHER -> "none"

\* At most one FailureEvent, for a Warning, which names no container (0).
ClassifyEvent(p, raw) ==
    LET type == EventFailure(raw.reason, raw.about)
    IN  IF ~raw.warning \/ type = "none" THEN {}
        ELSE { [pod |-> p, type |-> type, container |-> 0] }
-----------------------------------------------------------------------------
(* The environment: cluster and informers. *)

PodNote(kind, p, st) == [kind |-> kind, pod |-> p, status |-> st]

Existing == {p \in Pods : status[p] # Absent}

\* A pod is created, changes or is deleted (there is no DeleteFunc).  Once the
\* list is taken, the informer notifies a creation as an add.
PodChanges(p, st) ==
    /\ ~stopped
    /\ st # status[p]
    /\ status' = [status EXCEPT ![p] = st]
    /\ IF listed
       THEN /\ changed' = changed \cup {p}
            /\ IF st = Absent THEN UNCHANGED podQ
               ELSE /\ Len(podQ) < MaxPending
                    /\ LET kind == IF status[p] = Absent
                                   THEN "add" ELSE "update"
                       IN  podQ' = Append(podQ, PodNote(kind, p, st))
       ELSE UNCHANGED <<changed, podQ>>
    /\ UNCHANGED <<listed, eventQ, stopped, run, handlers, output>>

\* Every order in which the existing pods may be listed.
Listings == {s \in [1..Cardinality(Existing) -> Existing] :
                \A i, j \in DOMAIN s : i # j => s[i] # s[j]}

Notify(kind) ==
    \E s \in Listings :
        podQ' = podQ \o [i \in DOMAIN s |-> PodNote(kind, s[i], status[s[i]])]

\* The initial list: an add for every pod that exists.
ListPods ==
    /\ Started
    /\ ~stopped
    /\ ~listed
    /\ listed' = TRUE
    /\ Notify("add")
    /\ UNCHANGED <<status, changed, eventQ, stopped, run, handlers, output>>

\* Every 30 s the informer notifies an update of every pod it knows, changed
\* or not.
Resync ==
    /\ ~stopped
    /\ listed
    /\ Existing # {}
    /\ Len(podQ) + Cardinality(Existing) <= MaxPending
    /\ Notify("update")
    /\ UNCHANGED <<cluster, eventQ, stopped, run, handlers, output>>

\* stale: LastTimestamp is set and lies before w.startTime.  It is in whole
\* seconds, so an Event of the second in which the watcher started is stale too.
EventArrives(p, raw, stale) ==
    /\ Started
    /\ ~stopped
    /\ Len(eventQ) < MaxPending
    /\ eventQ' = Append(eventQ, [pod |-> p, raw |-> raw, stale |-> stale])
    /\ UNCHANGED <<cluster, podQ, stopped, run, handlers, output>>

\* The signal that ends the process.
Cancel ==
    /\ ~ctxDone
    /\ ctxDone' = TRUE
    /\ UNCHANGED <<cluster, informers, phase, synced, handlers, output>>

\* Some time after the cancellation the informers stop and drop what is
\* pending; a handler that is running is not interrupted, nor waited for.
InformersStop ==
    /\ Started
    /\ ctxDone
    /\ ~stopped
    /\ stopped' = TRUE
    /\ podQ' = <<>> /\ eventQ' = <<>>
    /\ UNCHANGED <<cluster, run, handlers, output>>

\* The window of a key ends.  It is ten minutes long: no handler is held up
\* between isDuplicate and its send for the whole of it.
WindowEnds(k) ==
    /\ k \in open
    /\ \A h \in Handlers : held[h] # k
    /\ Dedup!Expire({k})
    /\ queued' = queued \ {k}
    /\ UNCHANGED <<cluster, informers, run, todo, output>>

\* The consumer of the channel (main.go:134).
Receive ==
    /\ channel # <<>>
    /\ channel' = Tail(channel)
    /\ UNCHANGED <<cluster, informers, run, handlers, closed, panicked>>

\* main, after Run has returned, with or without an error (main.go:206-209).
Close ==
    /\ Returned
    /\ ~closed
    /\ closed' = TRUE
    /\ UNCHANGED <<cluster, informers, run, handlers, channel, panicked>>

\* The process is killed, panics or leaves, and is started again: the cluster
\* has not changed, and all that the process knew is gone.
Restart ==
    /\ changed' = {} /\ listed' = FALSE
    /\ podQ' = <<>> /\ eventQ' = <<>> /\ stopped' = FALSE
    /\ phase' = "registering" /\ synced' = FALSE /\ ctxDone' = FALSE
    /\ todo' = [h \in Handlers |-> {}]
    /\ open' = {} /\ held' = [h \in Handlers |-> Never] /\ queued' = {}
    /\ channel' = <<>> /\ closed' = FALSE /\ panicked' = FALSE
    /\ UNCHANGED status
-----------------------------------------------------------------------------
(* Run. *)

\* Both handlers are registered and the informers started.
Register ==
    /\ phase = "registering"
    /\ phase' = "syncing"
    /\ UNCHANGED <<cluster, informers, synced, ctxDone, handlers, output>>

\* A handler cannot be registered: Run returns the error, nothing is started.
RunFails ==
    /\ phase = "registering"
    /\ phase' = "failed"
    /\ UNCHANGED <<cluster, informers, synced, ctxDone, handlers, output>>

\* WaitForCacheSync returns, and gives up when the context is cancelled; the
\* gate is opened in both cases.
CachesSynced ==
    /\ phase = "syncing"
    /\ listed \/ ctxDone
    /\ phase' = "serving"
    /\ synced' = TRUE
    /\ UNCHANGED <<cluster, informers, ctxDone, handlers, output>>

\* Mutant: Run does not wait for the context.
RunReturnsOnceSynced ==
    /\ phase = "serving"
    /\ phase' = "returned"
    /\ UNCHANGED <<cluster, informers, synced, ctxDone, handlers, output>>

RunReturns ==
    /\ phase = "serving"
    /\ ctxDone
    /\ phase' = "returned"
    /\ UNCHANGED <<cluster, informers, synced, ctxDone, handlers, output>>
-----------------------------------------------------------------------------
(* The handlers. *)

Idle(h) == todo[h] = {} /\ held[h] = Never

\* The event of h's loop whose turn it is: init containers come first.
Current(h) ==
    CHOOSE e \in todo[h] : \A f \in todo[h] : e.container <= f.container

\* Mutant: an update that reports no change is ignored as well.
HandlePodUpdateSkippingResyncs ==
    /\ podQ # <<>>
    /\ Idle("pods")
    /\ LET n == Head(podQ)
       IN  todo' = [todo EXCEPT !["pods"] =
                IF (n.kind = "add" /\ ~synced) \/ n.pod \notin changed
                THEN {} ELSE ClassifyPod(n.pod, n.status)]
    /\ podQ' = Tail(podQ)
    /\ UNCHANGED <<cluster, eventQ, stopped, run, open, held, queued, output>>

\* Up to the loop: an add is ignored until the gate is open.
HandlePodUpdate ==
    /\ podQ # <<>>
    /\ Idle("pods")
    /\ LET n == Head(podQ)
       IN  todo' = [todo EXCEPT !["pods"] =
                IF n.kind = "add" /\ ~synced THEN {}
                ELSE ClassifyPod(n.pod, n.status)]
    /\ podQ' = Tail(podQ)
    /\ UNCHANGED <<cluster, eventQ, stopped, run, open, held, queued, output>>

\* Up to isDuplicate: an Event that predates the watcher's start is ignored.
HandleEventAdd ==
    /\ eventQ # <<>>
    /\ Idle("events")
    /\ LET n == Head(eventQ)
       IN  todo' = [todo EXCEPT !["events"] =
                IF n.stale THEN {} ELSE ClassifyEvent(n.pod, n.raw)]
    /\ eventQ' = Tail(eventQ)
    /\ UNCHANGED <<cluster, podQ, stopped, run, open, held, queued, output>>

\* Mutant: the Event handler does not ask the deduplicator.
IsDuplicateForPodsOnly(h) ==
    /\ todo[h] # {}
    /\ held[h] = Never
    /\ LET k == Key(Current(h))
       IN  \/ /\ k \in open
              /\ h = "pods"
              /\ todo' = [todo EXCEPT ![h] = @ \ {Current(h)}]
              /\ UNCHANGED <<open, held>>
           \/ /\ k \notin open \/ h = "events"
              /\ open' = open \cup {k}
              /\ held' = [held EXCEPT ![h] = k]
              /\ UNCHANGED todo
    /\ UNCHANGED <<cluster, informers, run, queued, output>>

\* isDuplicate: a duplicate is skipped; otherwise h may send.
IsDuplicate(h) ==
    /\ todo[h] # {}
    /\ held[h] = Never
    /\ LET k == Key(Current(h))
       IN  \/ /\ k \in open
              /\ todo' = [todo EXCEPT ![h] = @ \ {Current(h)}]
              /\ UNCHANGED <<open, held>>
           \/ /\ Dedup!Grant(h, k)
              /\ UNCHANGED todo
    /\ UNCHANGED <<cluster, informers, run, queued, output>>

\* Mutant: the send waits for room.
SendBlocking(h) ==
    /\ Len(channel) < Capacity \/ closed
    /\ Dedup!Release(h)
    /\ todo' = [todo EXCEPT ![h] = @ \ {Current(h)}]
    /\ IF closed
       THEN panicked' = TRUE /\ UNCHANGED <<channel, queued>>
       ELSE /\ channel' = Append(channel, Current(h))
            /\ queued' = queued \cup {held[h]}
            /\ UNCHANGED panicked
    /\ UNCHANGED <<cluster, informers, run, closed>>

HasRoom == ~closed /\ Len(channel) < Capacity

\* The select with a default: a closed channel makes the send panic, a full
\* one drops the event, whose key stays suppressed.
Send(h) ==
    /\ Dedup!Release(h)
    /\ todo' = [todo EXCEPT ![h] = @ \ {Current(h)}]
    /\ \/ /\ HasRoom
          /\ channel' = Append(channel, Current(h))
          /\ queued' = queued \cup {held[h]}
          /\ UNCHANGED panicked
       \/ /\ ~HasRoom
          /\ panicked' = closed
          /\ UNCHANGED <<channel, queued>>
    /\ UNCHANGED <<cluster, informers, run, closed>>

Handle ==
    \/ HandlePodUpdate
    \/ HandleEventAdd
    \/ \E h \in Handlers : IsDuplicate(h) \/ Send(h)

Environment ==
    \/ \E p \in Pods :
        \/ \E st \in Statuses \cup {Absent} : PodChanges(p, st)
        \/ \E raw \in RawEvents, stale \in BOOLEAN : EventArrives(p, raw, stale)
    \/ ListPods
    \/ Resync
    \/ Cancel
    \/ InformersStop
    \/ \E k \in Keys : WindowEnds(k)

Next ==
    \/ /\ ~panicked
       /\ \/ Environment
          \/ Receive
          \/ Close
          \/ Register
          \/ RunFails
          \/ CachesSynced
          \/ RunReturns
          \/ Handle
    \/ Restart

\* Goroutines that can run do run, windows end, and the informers list and
\* resync; nothing is assumed of the cluster, of the signal, of the consumer or
\* of restarts.
\* Resync needs strong fairness only because of the bound MaxPending.
Fairness ==
    /\ WF_vars(ListPods)
    /\ SF_vars(~panicked /\ Resync)
    /\ \A k \in Keys : WF_vars(~panicked /\ WindowEnds(k))
    /\ WF_vars(Register \/ RunFails)
    /\ WF_vars(CachesSynced)
    /\ WF_vars(~panicked /\ HandlePodUpdate)
    /\ WF_vars(~panicked /\ HandleEventAdd)
    /\ \A h \in Handlers : WF_vars(~panicked /\ (IsDuplicate(h) \/ Send(h)))

Spec == Init /\ [][Next]_vars

FairSpec == Spec /\ Fairness
-----------------------------------------------------------------------------
FailureEvents ==
    [pod : Pods, type : FailureTypes,
     container : {0} \cup UNION {DOMAIN st : st \in Statuses}]

TypeOK ==
    /\ status \in [Pods -> Statuses \cup {Absent}]
    /\ changed \subseteq Pods
    /\ {listed, stopped, synced, ctxDone, closed, panicked} \subseteq BOOLEAN
    /\ podQ \in Seq([kind : {"add", "update"}, pod : Pods, status : Statuses])
    /\ eventQ \in Seq([pod : Pods, raw : RawEvents, stale : BOOLEAN])
    /\ phase \in {"registering", "syncing", "serving", "returned", "failed"}
    /\ todo \in [Handlers -> SUBSET FailureEvents]
    /\ open \subseteq Keys
    /\ held \in [Handlers -> Keys \cup {Never}]
    /\ queued \subseteq Keys
    /\ channel \in Seq(FailureEvents)

\* A key granted by isDuplicate is the key of the event its handler is about
\* to send, belongs to that handler alone and has not been queued yet
\* (watcher.go:140-152, 173-184).
GrantsAreExclusive ==
    \A h \in Handlers : held[h] # Never =>
        /\ todo[h] # {}
        /\ held[h] = Key(Current(h))
        /\ held[h] \in open \ queued
        /\ \A g \in Handlers : held[g] = held[h] => g = h

\* What is queued in a window keeps the window open.
QueuedIsSuppressed == queued \subseteq open

ChannelBounded == Len(channel) <= Capacity

NothingBeforeStart == ~Started => ~listed /\ podQ = <<>> /\ eventQ = <<>>

IInv ==
    /\ TypeOK
    /\ GrantsAreExclusive
    /\ QueuedIsSuppressed
    /\ ChannelBounded
    /\ NothingBeforeStart

\* The two informers together put a failure of a pod on the channel at most
\* once per window, however their handlers interleave (docs/bugs.md:55).
OncePerWindow ==
    [][\A h \in Handlers : Send(h) /\ HasRoom => held[h] \notin queued]_vars

Source == INSTANCE EventSource WITH
    Events   <- FailureEvents,
    working  <- {h \in Handlers : ~Idle(h)},
    started  <- Started,
    returned <- Returned

\* Seen from the pipeline the watcher is a source of events that starts or
\* fails, queues or drops what it has, and panics if the channel is closed under
\* it (watcher.go:83-124, 139-152, 176-184).
ImplementsSource == Source!Spec

\* A handler finishes every notification it has begun even if nobody ever
\* receives from the channel (NewK8sWatcher's demand, watcher.go:68-69).
HandlersNeverBlock ==
    \A h \in Handlers : todo[h] # {} ~> (todo[h] = {} \/ panicked)

Failing(k) ==
    \E i \in DOMAIN status[k[1]] : ContainerFailure(status[k[1]][i]) = k[2]

Offering(k) == \E h \in Handlers : held[h] = k

\* A failure that persists is offered to the channel again and again by a
\* process that has started and stays up: neither the gate at startup, nor a
\* dropped event, nor what was lost with an earlier process hides it for good,
\* because every resync repeats it, every window ends and a new process has no
\* windows.
PersistentFailureIsReoffered ==
    \A k \in Keys :
        <>[]Failing(k) =>
            \/ []<>Offering(k)
            \/ <>[](ctxDone \/ panicked \/ phase = "failed")
            \/ []<><<Restart>>_vars

\* docs/bugs.md:68 and watcher.go:127-128: pods present at startup are not
\* replayed; what the pod informer reports is a genuine change.
NoStartupReplay ==
    \A i \in DOMAIN channel :
        channel[i].container # 0 => channel[i].pod \in changed
=============================================================================
