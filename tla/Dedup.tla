------------------------------- MODULE Dedup -------------------------------
(***************************************************************************)
(* The deduplicator of internal/watcher/dedup.go, called concurrently by   *)
(* the goroutines that run the informers' handlers.  isDuplicate reads the *)
(* clock, waits for the mutex and, holding it, purges the map (reading the *)
(* clock a second time), answers, and records the FIRST clock reading when *)
(* the key is not a duplicate.  The critical section touches nothing but   *)
(* the map and the clock, so it is one action; the wait for the mutex lies *)
(* between Enter and that action, and any other caller may run in between. *)
(***************************************************************************)
EXTENDS Integers

CONSTANTS
    Handlers,   \* the calling goroutines
    Keys,       \* namespace/pod/failure type; one namespace is watched
    Window,     \* dedupWindow, in clock ticks
    MaxLag,     \* a caller waits for the mutex for at most MaxLag ticks
    MaxClock,   \* bound on the clock
    Never       \* the key is absent from the map

ASSUME DedupAssumption ==
    /\ Window \in Nat \ {0}
    /\ MaxLag \in 0..(Window - 1)
    /\ MaxClock \in Nat
    /\ Never \notin Int
    /\ Never \notin Keys

VARIABLES
    clock,      \* time.Now(), in ticks
    seen,       \* d.seen: key -> recorded time, Never when absent
    pc,         \* per caller: "idle", "locking" (clock read, mutex not yet
                \* held), "fresh" (isDuplicate has returned false)
    arg,        \* per caller: the key of the event in hand, or Never
    now,        \* per caller: the local variable now of that call, or Never
    grantedAt   \* history: the clock when isDuplicate last answered false

vars == <<clock, seen, pc, arg, now, grantedAt>>

Init ==
    /\ clock = 0
    /\ seen = [k \in Keys |-> Never]
    /\ pc = [h \in Handlers |-> "idle"]
    /\ arg = [h \in Handlers |-> Never]
    /\ now = [h \in Handlers |-> Never]
    /\ grantedAt = [k \in Keys |-> Never]

\* Time passes, but no caller is kept waiting for the mutex beyond MaxLag.
Tick ==
    /\ clock < MaxClock
    /\ \A h \in Handlers : pc[h] = "locking" => clock - now[h] < MaxLag
    /\ clock' = clock + 1
    /\ UNCHANGED <<seen, pc, arg, now, grantedAt>>

\* isDuplicate up to d.mu.Lock().
Enter(h, k) ==
    /\ pc[h] = "idle"
    /\ pc' = [pc EXCEPT ![h] = "locking"]
    /\ arg' = [arg EXCEPT ![h] = k]
    /\ now' = [now EXCEPT ![h] = clock]
    /\ UNCHANGED <<clock, seen, grantedAt>>

\* Mutant: the purge is one tick too eager.
ExpiredEarly(k) == seen[k] # Never /\ clock - seen[k] >= Window - 1

Expired(k) == seen[k] # Never /\ clock - seen[k] >= Window

Purged == [k \in Keys |-> IF Expired(k) THEN Never ELSE seen[k]]

Duplicate(map, k, t) == map[k] # Never /\ t - map[k] < Window

\* Mutant: every duplicate restarts the window.
SuppressSliding(h) ==
    /\ pc[h] = "locking"
    /\ Duplicate(Purged, arg[h], now[h])
    /\ seen' = [Purged EXCEPT ![arg[h]] = now[h]]
    /\ pc' = [pc EXCEPT ![h] = "idle"]
    /\ arg' = [arg EXCEPT ![h] = Never]
    /\ now' = [now EXCEPT ![h] = Never]
    /\ UNCHANGED <<clock, grantedAt>>

\* isDuplicate returns true: nothing is recorded.
Suppress(h) ==
    /\ pc[h] = "locking"
    /\ Duplicate(Purged, arg[h], now[h])
    /\ seen' = Purged
    /\ pc' = [pc EXCEPT ![h] = "idle"]
    /\ arg' = [arg EXCEPT ![h] = Never]
    /\ now' = [now EXCEPT ![h] = Never]
    /\ UNCHANGED <<clock, grantedAt>>

\* Mutant: a key that is already in the map (a late caller's) is not refreshed.
AcceptUnrecorded(h) ==
    /\ pc[h] = "locking"
    /\ ~Duplicate(Purged, arg[h], now[h])
    /\ seen' = IF seen[arg[h]] = Never
                THEN [Purged EXCEPT ![arg[h]] = now[h]] ELSE Purged
    /\ grantedAt' = [grantedAt EXCEPT ![arg[h]] = clock]
    /\ pc' = [pc EXCEPT ![h] = "fresh"]
    /\ now' = [now EXCEPT ![h] = Never]
    /\ UNCHANGED <<clock, arg>>

\* isDuplicate returns false, having recorded now.
Accept(h) ==
    /\ pc[h] = "locking"
    /\ ~Duplicate(Purged, arg[h], now[h])
    /\ seen' = [Purged EXCEPT ![arg[h]] = now[h]]
    /\ grantedAt' = [grantedAt EXCEPT ![arg[h]] = clock]
    /\ pc' = [pc EXCEPT ![h] = "fresh"]
    /\ now' = [now EXCEPT ![h] = Never]
    /\ UNCHANGED <<clock, arg>>

\* The caller has used the answer and goes on.
Leave(h) ==
    /\ pc[h] = "fresh"
    /\ pc' = [pc EXCEPT ![h] = "idle"]
    /\ arg' = [arg EXCEPT ![h] = Never]
    /\ UNCHANGED <<clock, seen, now, grantedAt>>

Next ==
    \/ Tick
    \/ \E h \in Handlers :
        \/ \E k \in Keys : Enter(h, k)
        \/ Suppress(h)
        \/ Accept(h)
        \/ Leave(h)

Spec == Init /\ [][Next]_vars
-----------------------------------------------------------------------------
TypeOK ==
    /\ clock \in 0..MaxClock
    /\ seen \in [Keys -> Nat \cup {Never}]
    /\ pc \in [Handlers -> {"idle", "locking", "fresh"}]
    /\ arg \in [Handlers -> Keys \cup {Never}]
    /\ now \in [Handlers -> Nat \cup {Never}]
    /\ grantedAt \in [Keys -> Nat \cup {Never}]

\* A caller that is not idle has an event in hand.
CallersHaveKeys == \A h \in Handlers : pc[h] # "idle" => arg[h] \in Keys

\* A caller that waits for the mutex holds a clock reading at most MaxLag old.
WaitersAreRecent ==
    \A h \in Handlers : pc[h] = "locking" =>
        /\ now[h] \in Nat
        /\ now[h] <= clock
        /\ clock - now[h] <= MaxLag

\* The recorded time of a key lags its last grant by at most MaxLag, and never
\* runs ahead of it.
RecordMatchesGrant ==
    \A k \in Keys : seen[k] # Never =>
        /\ grantedAt[k] \in Nat
        /\ seen[k] <= grantedAt[k]
        /\ grantedAt[k] - seen[k] <= MaxLag
        /\ grantedAt[k] <= clock

\* Forgetting is safe: a key that is not in the map was never granted, or its
\* window is over.  This is what lets purge (dedup.go:29-38) bound the map
\* without letting a repeated failure through.
ForgottenIsDue ==
    \A k \in Keys : seen[k] = Never =>
        \/ grantedAt[k] = Never
        \/ clock - grantedAt[k] >= Window - MaxLag

IInv ==
    /\ TypeOK
    /\ CallersHaveKeys
    /\ WaitersAreRecent
    /\ RecordMatchesGrant
    /\ ForgottenIsDue

\* isDuplicate (dedup.go:40-57) never suppresses a failure whose last grant
\* lies a full window back, however the callers interleave: the window is not
\* extended by the duplicates that arrive during it.
SuppressedOnlyWithinWindow ==
    [][\A h \in Handlers : Suppress(h) =>
        /\ grantedAt[arg[h]] # Never
        /\ clock - grantedAt[arg[h]] < Window]_vars

Limiter == INSTANCE RateLimit

\* Callers of isDuplicate, taken together, are rate limited: the same pod and
\* failure type is let through at most once per window, short of the window by
\* no more than the wait for the mutex (docs/project-plan.md:126).
RateLimited == Limiter!Spec

OpenKeys == {k \in Keys : seen[k] # Never /\ clock - seen[k] < Window}

Held == [h \in Handlers |-> IF pc[h] = "fresh" THEN arg[h] ELSE Never]

Windows == INSTANCE SuppressionWindow WITH open <- OpenKeys, held <- Held

\* What the informers' handlers rely on: a key is granted only while no window
\* is open for it, whatever the map still holds (dedup.go:40-57).
WindowsRespected == Windows!Spec
=============================================================================
