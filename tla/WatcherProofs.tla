--------------------------- MODULE WatcherProofs ---------------------------
(***************************************************************************)
(* Proofs about the watcher, for any number of pods, any statuses and      *)
(* Events and any capacity of the channel: its invariant, that a failure   *)
(* is queued once per window, and that it is an EventSource.               *)
(***************************************************************************)
EXTENDS Watcher, TLAPS, FiniteSetTheorems, SequenceTheorems,
        WellFoundedInduction

(***************************************************************************)
(* A set of natural numbers that is not empty has a smallest member: the   *)
(* intervals that end in its members are ordered by inclusion.             *)
(***************************************************************************)
LEMMA SmallestMember ==
    ASSUME NEW C \in SUBSET Nat, C # {}
    PROVE  \E m \in C : \A n \in C : m <= n
<1> DEFINE Below == {0..n : n \in C}
<1>1. Below \subseteq FiniteSubsetsOf(Nat) /\ Below # {}
  <2>1. ASSUME NEW n \in C PROVE 0..n \in FiniteSubsetsOf(Nat)
    <3>1. IsFiniteSet(0..n)
      BY FS_Interval
    <3>2. 0..n \in SUBSET Nat
      OBVIOUS
    <3> QED BY <3>1, <3>2 DEF FiniteSubsetsOf
  <2> QED BY <2>1
<1> HIDE DEF Below
<1>2. PICK B \in Below :
        \A A \in Below : ~ (<<A, B>> \in StrictSubsetOrdering(Nat))
  BY <1>1, FS_StrictSubsetOrderingWellFounded, WFMin
<1>3. PICK m \in C : B = 0..m
  BY <1>2 DEF Below
<1>4. ASSUME NEW n \in C, n < m PROVE FALSE
  <2>1. 0..n \in Below
    BY DEF Below
  <2>2. 0..n \subseteq 0..m /\ m \in 0..m /\ m \notin 0..n
    BY <1>4
  <2>3. <<0..n, 0..m>> \in StrictSubsetOrdering(Nat)
    BY <2>2 DEF StrictSubsetOrdering
  <2> QED BY <1>2, <1>3, <2>1, <2>3
<1> QED BY <1>4

\* A loop that is not done has a current event.
LEMMA CurrentIsToDo ==
    ASSUME TypeOK, NEW h \in Handlers, todo[h] # {}
    PROVE  /\ Current(h) \in todo[h]
           /\ Current(h) \in FailureEvents
           /\ Key(Current(h)) \in Keys
<1>1. /\ todo[h] \subseteq FailureEvents
      /\ \A e \in FailureEvents : e.container \in Nat
  BY WatcherAssumption DEF TypeOK, FailureEvents
<1> DEFINE Containers == {e.container : e \in todo[h]}
<1>2. Containers \subseteq Nat /\ Containers # {}
  BY <1>1
<1>3. \E m \in Containers : \A n \in Containers : m <= n
  <2> HIDE DEF Containers
  <2> QED BY <1>2, SmallestMember
<1>4. \E e \in todo[h] : \A f \in todo[h] : e.container <= f.container
  BY <1>3
<1>5. Current(h) \in todo[h]
  BY <1>4 DEF Current
<1> QED BY <1>1, <1>5 DEF Key, Keys, FailureEvents

LEMMA CurrentKept ==
    ASSUME NEW h, todo'[h] = todo[h] PROVE Current(h)' = Current(h)
BY DEF Current

-----------------------------------------------------------------------------
\* The notifications of the pod informer.
Notes == [kind : {"add", "update"}, pod : Pods, status : Statuses]

LEMMA InitIInv == Init => IInv
<1> SUFFICES ASSUME Init PROVE IInv
  OBVIOUS
<1>1. TypeOK
  <2>1. /\ podQ \in Seq(Notes)
        /\ eventQ \in Seq([pod : Pods, raw : RawEvents, stale : BOOLEAN])
        /\ channel \in Seq(FailureEvents)
    BY DEF Init
  <2>2. /\ {listed, stopped, synced, ctxDone, closed, panicked}
                \subseteq BOOLEAN
        /\ changed \subseteq Pods
        /\ open \subseteq Keys /\ queued \subseteq Keys
        /\ phase = "registering"
    BY DEF Init, Dedup!Init
  <2>3. /\ todo \in [Handlers -> SUBSET FailureEvents]
        /\ held \in [Handlers -> Keys \cup {Never}]
        /\ status \in [Pods -> Statuses \cup {Absent}]
    BY DEF Init, Dedup!Init
  <2> QED BY <2>1, <2>2, <2>3 DEF TypeOK, Notes
<1>2. GrantsAreExclusive /\ QueuedIsSuppressed
  BY DEF Init, Dedup!Init, GrantsAreExclusive, QueuedIsSuppressed
<1>3. ChannelBounded
  BY WatcherAssumption DEF Init, ChannelBounded
<1>4. NothingBeforeStart
  BY DEF Init, NothingBeforeStart
<1> QED BY <1>1, <1>2, <1>3, <1>4 DEF IInv

(***************************************************************************)
(* Steps that leave the handlers alone keep all of the invariant but the   *)
(* types of what they change and what is queued before the start.          *)
(***************************************************************************)
LEMMA HandlersKept ==
    ASSUME IInv, UNCHANGED handlers, Len(channel') <= Capacity, TypeOK',
           NothingBeforeStart'
    PROVE  IInv'
<1>1. GrantsAreExclusive'
  BY CurrentKept DEF IInv, GrantsAreExclusive, handlers
<1> QED BY <1>1 DEF IInv, QueuedIsSuppressed, ChannelBounded, handlers

LEMMA NotifyTyped ==
    ASSUME TypeOK, NEW kind \in {"add", "update"}, Notify(kind)
    PROVE  podQ' \in Seq(Notes)
<1>1. PICK s \in Listings :
        podQ' = podQ \o [i \in DOMAIN s |-> PodNote(kind, s[i], status[s[i]])]
  BY DEF Notify
<1>2. Cardinality(Existing) \in Nat
  BY WatcherAssumption, FS_Subset, FS_CardinalityType DEF Existing
<1>3. \A p \in Existing : PodNote(kind, p, status[p]) \in Notes
  BY DEF Existing, PodNote, Notes, TypeOK
<1>4. s \in [1..Cardinality(Existing) -> Existing]
  BY DEF Listings
<1> DEFINE added == [i \in DOMAIN s |-> PodNote(kind, s[i], status[s[i]])]
<1>5. added \in [1..Cardinality(Existing) -> Notes]
  BY <1>3, <1>4
<1>6. added \in Seq(Notes)
  BY <1>2, <1>5, SeqDef
<1> HIDE DEF added
<1>7. podQ \in Seq(Notes)
  BY DEF TypeOK, Notes
<1> QED BY <1>1, <1>6, <1>7, ConcatProperties DEF added

LEMMA PodChangesIInv ==
    ASSUME IInv, NEW p \in Pods, NEW st \in Statuses \cup {Absent},
           PodChanges(p, st)
    PROVE  IInv'
<1>1. podQ' \in Seq(Notes)
  <2>1. podQ \in Seq(Notes)
    BY DEF IInv, TypeOK, Notes
  <2>2. CASE podQ' = podQ
    BY <2>1, <2>2
  <2>3. ASSUME NEW kind \in {"add", "update"}, st # Absent,
               podQ' = Append(podQ, PodNote(kind, p, st))
        PROVE  podQ' \in Seq(Notes)
    <3>1. PodNote(kind, p, st) \in Notes
      BY <2>3 DEF PodNote, Notes
    <3> HIDE DEF Notes
    <3> QED BY <2>1, <2>3, <3>1, AppendProperties
  <2> QED BY <2>2, <2>3 DEF PodChanges
<1>2. TypeOK'
  BY <1>1 DEF PodChanges, IInv, TypeOK, Notes, run, handlers, output
<1>3. NothingBeforeStart'
  BY DEF PodChanges, IInv, NothingBeforeStart, Started, run
<1> QED BY <1>2, <1>3, HandlersKept
        DEF PodChanges, output, IInv, ChannelBounded

LEMMA InformersIInv ==
    ASSUME IInv, ListPods \/ Resync PROVE IInv'
<1>1. podQ' \in Seq(Notes)
  BY NotifyTyped DEF ListPods, Resync, IInv
<1>2. TypeOK'
  BY <1>1 DEF ListPods, Resync, IInv, TypeOK, Notes, cluster, run, handlers,
              output
<1>3. NothingBeforeStart'
  BY DEF ListPods, Resync, IInv, NothingBeforeStart, Started, run
<1> QED BY <1>2, <1>3, HandlersKept
        DEF ListPods, Resync, output, IInv, ChannelBounded

LEMMA EventArrivesIInv ==
    ASSUME IInv, NEW p \in Pods, NEW raw \in RawEvents, NEW stale \in BOOLEAN,
           EventArrives(p, raw, stale)
    PROVE  IInv'
<1> DEFINE EventNotes == [pod : Pods, raw : RawEvents, stale : BOOLEAN]
           note == [pod |-> p, raw |-> raw, stale |-> stale]
<1>1. eventQ' \in Seq(EventNotes)
  <2>1. eventQ \in Seq(EventNotes) /\ note \in EventNotes
    BY DEF IInv, TypeOK
  <2>2. eventQ' = Append(eventQ, note)
    BY DEF EventArrives
  <2> HIDE DEF EventNotes, note
  <2> QED BY <2>1, <2>2, AppendProperties
<1>2. TypeOK'
  BY <1>1 DEF EventArrives, IInv, TypeOK, cluster, run, handlers, output
<1>3. NothingBeforeStart'
  BY DEF EventArrives, NothingBeforeStart, Started, run
<1> QED BY <1>2, <1>3, HandlersKept
        DEF EventArrives, output, IInv, ChannelBounded

LEMMA RunIInv ==
    ASSUME IInv,
           \/ Cancel \/ InformersStop \/ Close
           \/ Register \/ RunFails \/ CachesSynced \/ RunReturns
    PROVE  IInv'
<1>1. UNCHANGED <<handlers, channel>>
  BY DEF Cancel, InformersStop, Close, Register, RunFails, CachesSynced,
         RunReturns, handlers, output
<1>2. TypeOK'
  <2>1. CASE InformersStop
    BY <2>1 DEF InformersStop, IInv, TypeOK, cluster, run, handlers, output
  <2>2. CASE Cancel \/ Register \/ RunFails \/ CachesSynced \/ RunReturns
    BY <2>2 DEF Cancel, Register, RunFails, CachesSynced, RunReturns, IInv,
                TypeOK, cluster, informers, handlers, output
  <2>3. CASE Close
    BY <2>3 DEF Close, IInv, TypeOK, cluster, informers, run, handlers
  <2> QED BY <2>1, <2>2, <2>3
<1>3. NothingBeforeStart'
  BY DEF Cancel, InformersStop, Close, Register, RunFails, CachesSynced,
         RunReturns, IInv, NothingBeforeStart, Started, cluster, informers, run
<1> QED BY <1>1, <1>2, <1>3, HandlersKept DEF IInv, ChannelBounded

LEMMA ReceiveIInv ==
    ASSUME IInv, Receive PROVE IInv'
<1>1. channel' \in Seq(FailureEvents) /\ Len(channel') <= Capacity
  <2>1. channel \in Seq(FailureEvents) /\ Len(channel) <= Capacity
    BY DEF IInv, TypeOK, ChannelBounded
  <2>2. channel # <<>> /\ channel' = Tail(channel)
    BY DEF Receive
  <2> HIDE DEF FailureEvents
  <2> QED BY <2>1, <2>2, WatcherAssumption
<1>2. TypeOK'
  BY <1>1 DEF Receive, IInv, TypeOK, cluster, informers, run, handlers
<1>3. NothingBeforeStart'
  BY DEF Receive, IInv, NothingBeforeStart, Started, cluster, informers, run
<1> QED BY <1>1, <1>2, <1>3, HandlersKept DEF Receive

(***************************************************************************)
(* The steps that change windows and loops.                                *)
(***************************************************************************)
LEMMA WindowEndsIInv ==
    ASSUME IInv, NEW k \in Keys, WindowEnds(k) PROVE IInv'
<1>1. TypeOK'
  BY DEF WindowEnds, Dedup!Expire, IInv, TypeOK, cluster, informers, run,
         output
<1>2. GrantsAreExclusive'
  BY CurrentKept DEF WindowEnds, Dedup!Expire, IInv, GrantsAreExclusive
<1>3. QueuedIsSuppressed' /\ ChannelBounded'
  BY DEF WindowEnds, Dedup!Expire, IInv, QueuedIsSuppressed, ChannelBounded,
         output
<1>4. NothingBeforeStart'
  BY DEF WindowEnds, IInv, NothingBeforeStart, Started, cluster, informers, run
<1> QED BY <1>1, <1>2, <1>3, <1>4 DEF IInv

LEMMA ClassifyTyped ==
    /\ \A p \in Pods, st \in Statuses :
            ClassifyPod(p, st) \subseteq FailureEvents
    /\ \A p \in Pods, raw \in RawEvents :
            ClassifyEvent(p, raw) \subseteq FailureEvents
<1>1. ASSUME NEW p \in Pods, NEW st \in Statuses
      PROVE  ClassifyPod(p, st) \subseteq FailureEvents
  <2>1. ASSUME NEW i \in DOMAIN st, ContainerFailure(st[i]) # "none"
        PROVE  [pod |-> p, type |-> ContainerFailure(st[i]),
                container |-> i] \in FailureEvents
    <3>1. ContainerFailure(st[i]) \in FailureTypes
      BY <2>1 DEF ContainerFailure, FailureTypes
    <3> QED BY <3>1 DEF FailureEvents
  <2> QED BY <2>1 DEF ClassifyPod
<1>2. ASSUME NEW p \in Pods, NEW raw \in RawEvents
      PROVE  ClassifyEvent(p, raw) \subseteq FailureEvents
  <2>1. EventFailure(raw.reason, raw.about) \in FailureTypes \cup {"none"}
    BY DEF EventFailure, FailureTypes
  <2> QED BY <2>1 DEF ClassifyEvent, FailureEvents
<1> QED BY <1>1, <1>2

\* A handler begins its loop on one notification.
LEMMA BeginIInv ==
    ASSUME IInv, NEW h \in Handlers, Idle(h),
           NEW S \in SUBSET FailureEvents, todo' = [todo EXCEPT ![h] = S],
           podQ' \in Seq(Notes),
           eventQ' \in Seq([pod : Pods, raw : RawEvents, stale : BOOLEAN]),
           NothingBeforeStart',
           UNCHANGED <<cluster, stopped, run, open, held, queued, output>>
    PROVE  IInv'
<1>1. TypeOK'
  BY DEF IInv, TypeOK, Notes, cluster, run, output
<1>2. GrantsAreExclusive'
  <2> SUFFICES ASSUME NEW g \in Handlers, held'[g] # Never
               PROVE  /\ todo'[g] # {}
                      /\ held'[g] = Key(Current(g)')
                      /\ held'[g] \in open' \ queued'
                      /\ \A i \in Handlers : held'[i] = held'[g] => i = g
    BY DEF GrantsAreExclusive, Key
  <2>1. g # h /\ held[g] # Never
    BY DEF Idle
  <2>2. todo'[g] = todo[g]
    BY <2>1 DEF IInv, TypeOK
  <2> QED BY <2>1, <2>2, CurrentKept DEF IInv, GrantsAreExclusive
<1>3. QueuedIsSuppressed' /\ ChannelBounded'
  BY DEF IInv, QueuedIsSuppressed, ChannelBounded, output
<1> QED BY <1>1, <1>2, <1>3 DEF IInv

LEMMA HandlePodUpdateIInv ==
    ASSUME IInv, HandlePodUpdate PROVE IInv'
<1>1. podQ \in Seq(Notes) /\ podQ # <<>>
  BY DEF HandlePodUpdate, IInv, TypeOK, Notes
<1>2. Head(podQ) \in Notes /\ Tail(podQ) \in Seq(Notes)
  <2> HIDE DEF Notes
  <2> QED BY <1>1
<1> DEFINE n == Head(podQ)
           S == IF n.kind = "add" /\ ~synced THEN {}
                ELSE ClassifyPod(n.pod, n.status)
<1>3. S \in SUBSET FailureEvents
  BY <1>2, ClassifyTyped DEF Notes
<1>4. todo' = [todo EXCEPT !["pods"] = S]
  BY DEF HandlePodUpdate
<1> HIDE DEF S
<1>5. NothingBeforeStart'
  BY <1>1 DEF HandlePodUpdate, IInv, NothingBeforeStart, Started, run
<1> QED BY <1>2, <1>3, <1>4, <1>5, BeginIInv
        DEF HandlePodUpdate, Handlers, IInv, TypeOK

LEMMA HandleEventAddIInv ==
    ASSUME IInv, HandleEventAdd PROVE IInv'
<1> DEFINE EventNotes == [pod : Pods, raw : RawEvents, stale : BOOLEAN]
<1>1. eventQ \in Seq(EventNotes) /\ eventQ # <<>>
  BY DEF HandleEventAdd, IInv, TypeOK
<1>2. Head(eventQ) \in EventNotes /\ Tail(eventQ) \in Seq(EventNotes)
  <2> HIDE DEF EventNotes
  <2> QED BY <1>1
<1> DEFINE n == Head(eventQ)
           S == IF n.stale THEN {} ELSE ClassifyEvent(n.pod, n.raw)
<1>3. S \in SUBSET FailureEvents
  BY <1>2, ClassifyTyped
<1>4. todo' = [todo EXCEPT !["events"] = S]
  BY DEF HandleEventAdd
<1> HIDE DEF S
<1>5. NothingBeforeStart'
  BY <1>1 DEF HandleEventAdd, IInv, NothingBeforeStart, Started, run
<1> QED BY <1>2, <1>3, <1>4, <1>5, BeginIInv
        DEF HandleEventAdd, Handlers, IInv, TypeOK, Notes

LEMMA IsDuplicateIInv ==
    ASSUME IInv, NEW h \in Handlers, IsDuplicate(h) PROVE IInv'
<1> DEFINE k == Key(Current(h))
<1>0. NothingBeforeStart'
  BY DEF IsDuplicate, IInv, NothingBeforeStart, Started, cluster, informers, run
<1>1. todo[h] # {} /\ held[h] = Never /\ k \in Keys
  BY CurrentIsToDo DEF IsDuplicate, IInv
<1>2. CASE k \in open /\ todo' = [todo EXCEPT ![h] = @ \ {Current(h)}]
           /\ UNCHANGED <<open, held>>
  <2>1. TypeOK'
    BY <1>2 DEF IsDuplicate, IInv, TypeOK, cluster, informers, run, output
  <2>2. ASSUME NEW g \in Handlers, held[g] # Never
        PROVE  todo'[g] = todo[g] /\ Current(g)' = Current(g)
    BY <1>1, <1>2, <2>2, CurrentKept DEF IInv, TypeOK
  <2>3. GrantsAreExclusive'
    BY <1>2, <2>2 DEF IsDuplicate, IInv, GrantsAreExclusive, Key
  <2> QED BY <1>0, <1>2, <2>1, <2>3
          DEF IsDuplicate, IInv, QueuedIsSuppressed, ChannelBounded, output
<1>3. CASE Dedup!Grant(h, k) /\ UNCHANGED todo
  <2>1. /\ k \notin open /\ open' = open \cup {k}
        /\ held' = [held EXCEPT ![h] = k]
    BY <1>3 DEF Dedup!Grant
  <2>2. TypeOK'
    BY <1>1, <1>3, <2>1
       DEF IsDuplicate, IInv, TypeOK, cluster, informers, run, output
  <2>3. /\ held'[h] = k
        /\ \A g \in Handlers \ {h} : held'[g] = held[g]
    BY <2>1 DEF IInv, TypeOK
  <2>4. \A g \in Handlers : Current(g)' = Current(g)
    BY <1>3, CurrentKept
  <2>5. k \notin queued /\ \A g \in Handlers : held[g] # k
    BY <1>1, <2>1, NeverIsNoKey
       DEF IInv, QueuedIsSuppressed, GrantsAreExclusive
  <2> HIDE DEF k
  <2>6. GrantsAreExclusive'
    <3> SUFFICES ASSUME NEW g \in Handlers, held'[g] # Never
                 PROVE  /\ todo'[g] # {}
                        /\ held'[g] = Key(Current(g)')
                        /\ held'[g] \in open' \ queued'
                        /\ \A i \in Handlers : held'[i] = held'[g] => i = g
      BY DEF GrantsAreExclusive, Key
    <3>1. CASE g = h
      BY <1>1, <1>3, <2>1, <2>3, <2>4, <2>5, <3>1 DEF IsDuplicate, k
    <3>2. CASE g # h
      BY <1>3, <2>1, <2>3, <2>4, <2>5, <3>2
         DEF IsDuplicate, IInv, GrantsAreExclusive
    <3> QED BY <3>1, <3>2
  <2> QED BY <1>0, <2>1, <2>2, <2>6
          DEF IsDuplicate, IInv, QueuedIsSuppressed, ChannelBounded, output
<1> QED BY <1>2, <1>3 DEF IsDuplicate

LEMMA SendIInv ==
    ASSUME IInv, NEW h \in Handlers, Send(h) PROVE IInv'
<1>1. /\ held[h] # Never /\ todo[h] # {}
      /\ held[h] \in open \ queued
      /\ Current(h) \in FailureEvents
  BY CurrentIsToDo DEF Send, Dedup!Release, IInv, GrantsAreExclusive
<1>2. /\ held' = [held EXCEPT ![h] = Never]
      /\ UNCHANGED <<open, cluster, informers, run, closed>>
      /\ todo' = [todo EXCEPT ![h] = @ \ {Current(h)}]
      /\ queued' \subseteq queued \cup {held[h]}
  BY DEF Send, Dedup!Release
<1>3. channel' \in Seq(FailureEvents) /\ Len(channel') <= Capacity
  <2>1. channel \in Seq(FailureEvents) /\ Len(channel) <= Capacity
    BY DEF IInv, TypeOK, ChannelBounded
  <2>2. CASE HasRoom /\ channel' = Append(channel, Current(h))
    <3> HIDE DEF FailureEvents
    <3> QED BY <1>1, <2>1, <2>2, AppendProperties, WatcherAssumption
            DEF HasRoom
  <2>3. CASE channel' = channel
    BY <2>1, <2>3
  <2> QED BY <2>2, <2>3 DEF Send
<1>4. TypeOK'
  <2>1. panicked' \in BOOLEAN
    BY DEF Send, IInv, TypeOK
  <2>2. /\ held' \in [Handlers -> Keys \cup {Never}]
        /\ todo' \in [Handlers -> SUBSET FailureEvents]
        /\ queued' \subseteq Keys
    BY <1>1, <1>2 DEF IInv, TypeOK
  <2> QED BY <1>2, <1>3, <2>1, <2>2
          DEF IInv, TypeOK, cluster, informers, run
<1>5. GrantsAreExclusive'
  <2> SUFFICES ASSUME NEW g \in Handlers, held'[g] # Never
               PROVE  /\ todo'[g] # {}
                      /\ held'[g] = Key(Current(g)')
                      /\ held'[g] \in open' \ queued'
                      /\ \A i \in Handlers : held'[i] = held'[g] => i = g
    BY DEF GrantsAreExclusive, Key
  <2>1. g # h /\ held'[g] = held[g] /\ todo'[g] = todo[g]
    BY <1>2 DEF IInv, TypeOK
  <2>2. \A i \in Handlers : held'[i] = held'[g] => held[i] = held[g]
    BY <1>2, <2>1 DEF IInv, TypeOK
  <2> QED BY <1>2, <2>1, <2>2, CurrentKept DEF IInv, GrantsAreExclusive
<1>6. QueuedIsSuppressed'
  BY <1>1, <1>2 DEF IInv, QueuedIsSuppressed
<1>7. NothingBeforeStart'
  BY <1>2 DEF IInv, NothingBeforeStart, Started, cluster, informers, run
<1> QED BY <1>3, <1>4, <1>5, <1>6, <1>7 DEF IInv, ChannelBounded

\* A new process begins as the first one did.
LEMMA RestartIInv ==
    ASSUME IInv, Restart PROVE IInv'
<1>1. TypeOK'
  <2>1. /\ podQ' \in Seq(Notes)
        /\ eventQ' \in Seq([pod : Pods, raw : RawEvents, stale : BOOLEAN])
        /\ channel' \in Seq(FailureEvents)
    BY DEF Restart
  <2>2. /\ todo' \in [Handlers -> SUBSET FailureEvents]
        /\ held' \in [Handlers -> Keys \cup {Never}]
    BY DEF Restart
  <2> QED BY <2>1, <2>2 DEF Restart, IInv, TypeOK, Notes
<1>2. GrantsAreExclusive' /\ QueuedIsSuppressed'
  BY DEF Restart, GrantsAreExclusive, QueuedIsSuppressed
<1>3. ChannelBounded'
  BY WatcherAssumption DEF Restart, ChannelBounded
<1>4. NothingBeforeStart'
  BY DEF Restart, NothingBeforeStart
<1> QED BY <1>1, <1>2, <1>3, <1>4 DEF IInv

(***************************************************************************)
(* At most one handler holds a key and has not queued it yet, what has     *)
(* been queued stays suppressed until its window ends, and the channel     *)
(* stays within its capacity (watcher.go:126-185).                         *)
(***************************************************************************)
THEOREM Invariance == Spec => []IInv
<1>1. IInv /\ UNCHANGED vars => IInv'
  <2> SUFFICES ASSUME IInv, UNCHANGED vars PROVE IInv'
    OBVIOUS
  <2>1. TypeOK'
    BY DEF IInv, TypeOK, vars, cluster, informers, run, handlers, output
  <2>2. NothingBeforeStart'
    BY DEF IInv, NothingBeforeStart, Started, vars, cluster, informers, run
  <2> QED BY <2>1, <2>2, HandlersKept DEF vars, output, IInv, ChannelBounded
<1>2. IInv /\ [Next]_vars => IInv'
  BY <1>1, PodChangesIInv, EventArrivesIInv, InformersIInv, RunIInv,
     ReceiveIInv, WindowEndsIInv, HandlePodUpdateIInv, HandleEventAddIInv,
     IsDuplicateIInv, SendIInv, RestartIInv DEF Next, Environment, Handle
<1> QED BY InitIInv, <1>2, PTL DEF Spec

(***************************************************************************)
(* However the two informers' handlers interleave, a failure of a pod is   *)
(* put on the channel at most once per window (watcher.go:141-147,         *)
(* 173-177).                                                               *)
(***************************************************************************)
THEOREM QueuedOncePerWindow == Spec => OncePerWindow
<1>1. IInv => [\A h \in Handlers : Send(h) /\ HasRoom
                                    => held[h] \notin queued]_vars
  BY DEF IInv, GrantsAreExclusive, Send, Dedup!Release
<1> QED BY Invariance, <1>1, PTL DEF OncePerWindow
-----------------------------------------------------------------------------
(***************************************************************************)
(* The refinement of EventSource: a handler works while it has events to   *)
(* do or holds a key, which it can only after the start.                   *)
(***************************************************************************)
Working == {h \in Handlers : ~Idle(h)}

LEMMA EnvironmentStep ==
    ASSUME IInv, Environment \/ CachesSynced, ~panicked
    PROVE  Source!Cancel \/ UNCHANGED Source!vars
<1>1. UNCHANGED <<todo, held, output>>
  BY DEF Environment, PodChanges, EventArrives, ListPods, Resync, Cancel,
         InformersStop, WindowEnds, Dedup!Expire, CachesSynced, handlers
<1>2. Working' = Working
  BY <1>1 DEF Working, Idle
<1>3. CASE Cancel
  BY <1>1, <1>2, <1>3
     DEF Cancel, Source!Cancel, output, Working, Started, Returned
<1>4. CASE CachesSynced
  BY <1>1, <1>2, <1>4
     DEF CachesSynced, Source!vars, Source!run, output, Working, Started,
         Returned
<1>5. CASE Environment /\ ~Cancel
  <2>1. UNCHANGED run
    BY <1>5 DEF Environment, PodChanges, EventArrives, ListPods, Resync,
                InformersStop, WindowEnds
  <2> QED BY <1>1, <1>2, <2>1
          DEF Source!vars, Source!run, run, output, Working, Started, Returned
<1> QED BY <1>3, <1>4, <1>5

LEMMA RunStep ==
    ASSUME IInv, Receive \/ Close \/ Register \/ RunFails \/ RunReturns
    PROVE  \/ Source!Receive \/ Source!Close
           \/ Source!Start \/ Source!RunFails \/ Source!RunReturns
<1>1. Working' = Working
  BY DEF Receive, Close, Register, RunFails, RunReturns, handlers, Working,
         Idle
<1>2. CASE Receive
  BY <1>1, <1>2 DEF Receive, run, Source!Receive, Source!run, Working, Started,
                    Returned
<1>3. CASE Close
  BY <1>1, <1>3 DEF Close, run, Source!Close, Source!run, Working, Started,
                    Returned
<1>4. CASE Register
  BY <1>1, <1>4 DEF Register, output, Source!Start, Working, Started, Returned
<1>5. CASE RunFails
  BY <1>1, <1>5 DEF RunFails, output, Source!RunFails, Working, Started,
                    Returned
<1>6. CASE RunReturns
  BY <1>1, <1>6 DEF RunReturns, output, Source!RunReturns, Working, Started,
                    Returned
<1> QED BY <1>2, <1>3, <1>4, <1>5, <1>6

\* Only h's loop moves, and the rest of the source stays as it is.
LEMMA LoopStep ==
    ASSUME IInv, NEW h \in Handlers,
           \A g \in Handlers \ {h} : todo'[g] = todo[g] /\ held'[g] = held[g],
           Started \/ h \in Working,
           UNCHANGED <<run, output>>
    PROVE  Source!Begin(h) \/ Source!End(h) \/ UNCHANGED Source!vars
<1>1. \A g \in Handlers \ {h} : Idle(g)' <=> Idle(g)
  BY DEF Idle
<1>2. \/ Working' = Working
      \/ h \notin Working /\ Working' = Working \cup {h}
      \/ h \in Working /\ Working' = Working \ {h}
  BY <1>1 DEF Working
<1>3. UNCHANGED <<Started, Returned>>
  BY DEF run, Started, Returned
<1> QED BY <1>2, <1>3 DEF Source!Begin, Source!End, Source!vars, Source!run,
                          run, output, Working

LEMMA SendStep ==
    ASSUME IInv, NEW h \in Handlers, Send(h), ~panicked
    PROVE  \E e \in FailureEvents, more \in BOOLEAN : Source!Offer(h, e, more)
<1> DEFINE more == todo'[h] # {}
<1>1. /\ held[h] # Never
      /\ Current(h) \in FailureEvents
  BY CurrentIsToDo DEF Send, Dedup!Release, IInv, GrantsAreExclusive
<1>2. /\ held' = [held EXCEPT ![h] = Never]
      /\ todo' = [todo EXCEPT ![h] = @ \ {Current(h)}]
  BY DEF Send, Dedup!Release
<1>3. /\ \A g \in Handlers \ {h} : Idle(g)' <=> Idle(g)
      /\ Idle(h)' <=> ~more
      /\ ~Idle(h)
  BY <1>1, <1>2 DEF Idle, IInv, TypeOK
<1>4. h \in Working /\ Working' = IF more THEN Working ELSE Working \ {h}
  BY <1>3 DEF Working
<1>5. panicked' = closed
  BY DEF Send, HasRoom, IInv, TypeOK
<1>6. channel' = IF Len(channel) < Capacity /\ ~closed
                 THEN Append(channel, Current(h)) ELSE channel
  BY DEF Send, HasRoom
<1>7. UNCHANGED <<run, closed>>
  BY DEF Send
<1>8. Source!Offer(h, Current(h), more)
  BY <1>4, <1>5, <1>6, <1>7
     DEF Source!Offer, Source!HasRoom, Source!run, run, Working, Started,
         Returned
<1> HIDE DEF more
<1>9. more \in BOOLEAN
  BY DEF more
<1> QED BY <1>1, <1>8, <1>9

(***************************************************************************)
(* Seen from the pipeline the watcher is an event source: it starts or     *)
(* fails, queues or drops what it has, never blocks on the channel's       *)
(* state, and panics if the channel is closed under a handler              *)
(* (watcher.go:83-124, 139-152).                                           *)
(***************************************************************************)
THEOREM IsEventSource == Spec => ImplementsSource
<1>1. Init => Source!Init
  BY DEF Init, Dedup!Init, Source!Init, Idle, Started, Returned
<1>2. IInv /\ [Next]_vars => [Source!Next]_(Source!vars)
  <2> SUFFICES ASSUME IInv, [Next]_vars
               PROVE  Source!Next \/ UNCHANGED Source!vars
    OBVIOUS
  <2>1. CASE UNCHANGED vars
    <3>1. Working' = Working
      BY <2>1 DEF vars, handlers, Working, Idle
    <3> QED BY <2>1, <3>1 DEF vars, run, output, Source!vars, Source!run,
                              Working, Started, Returned
  <2>2. ASSUME Environment \/ CachesSynced, ~panicked
        PROVE  Source!Next \/ UNCHANGED Source!vars
    BY <2>2, EnvironmentStep DEF Source!Next
  <2>3. ASSUME Receive \/ Close \/ Register \/ RunFails \/ RunReturns,
               ~panicked
        PROVE  Source!Next
    BY <2>3, RunStep DEF Source!Next
  <2>4. ASSUME HandlePodUpdate \/ HandleEventAdd, ~panicked
        PROVE  Source!Next \/ UNCHANGED Source!vars
    <3>1. PICK h \in Handlers :
            /\ \A g \in Handlers \ {h} :
                    todo'[g] = todo[g] /\ held'[g] = held[g]
            /\ UNCHANGED <<run, output>>
            /\ podQ # <<>> \/ eventQ # <<>>
      BY <2>4 DEF HandlePodUpdate, HandleEventAdd, Handlers, IInv, TypeOK
    <3>2. Started
      BY <3>1 DEF IInv, NothingBeforeStart
    <3> QED BY <2>4, <3>1, <3>2, LoopStep DEF Source!Next
  <2>5. ASSUME NEW h \in Handlers, IsDuplicate(h), ~panicked
        PROVE  Source!Next \/ UNCHANGED Source!vars
    <3>1. /\ \A g \in Handlers \ {h} :
                    todo'[g] = todo[g] /\ held'[g] = held[g]
          /\ UNCHANGED <<run, output>>
      BY <2>5 DEF IsDuplicate, Dedup!Grant, IInv, TypeOK
    <3>2. h \in Working
      BY <2>5 DEF IsDuplicate, Working, Idle
    <3> QED BY <2>5, <3>1, <3>2, LoopStep DEF Source!Next
  <2>6. ASSUME NEW h \in Handlers, Send(h), ~panicked
        PROVE  Source!Next
    BY <2>6, SendStep DEF Source!Next
  <2>7. CASE Restart
    BY <2>7 DEF Restart, Source!Restart, Source!Next, Idle, Started, Returned
  <2> QED BY <2>1, <2>2, <2>3, <2>4, <2>5, <2>6, <2>7 DEF Next, Handle
<1> QED BY Invariance, <1>1, <1>2, PTL
        DEF Spec, ImplementsSource, Source!Spec
=============================================================================
