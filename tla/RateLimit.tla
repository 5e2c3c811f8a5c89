----------------------------- MODULE RateLimit -----------------------------
(***************************************************************************)
(* What the watcher's deduplicator promises, without the map it keeps: any *)
(* number of callers may report the same key at the same time, and a key   *)
(* is granted to one of them at most once per Window.  A caller reads the  *)
(* clock before it waits for the mutex, so the spacing that can be promised *)
(* is shorter than Window by the longest wait, MaxLag.                     *)
(***************************************************************************)
EXTENDS Integers

CONSTANTS
    Keys,       \* what is rate limited: <<pod, failure type>>
    Window,     \* dedupWindow, in clock ticks
    MaxLag,     \* longest wait for the mutex, in clock ticks
    MaxClock,   \* bound on the clock
    Never       \* "no grant yet"

VARIABLES
    clock,      \* the wall clock, in ticks
    grantedAt   \* for each key, the clock when it was last granted

vars == <<clock, grantedAt>>

Due(k) ==
    \/ grantedAt[k] = Never
    \/ clock - grantedAt[k] >= Window - MaxLag

Init ==
    /\ clock = 0
    /\ grantedAt = [k \in Keys |-> Never]

Tick ==
    /\ clock < MaxClock
    /\ clock' = clock + 1
    /\ UNCHANGED grantedAt

Grant(k) ==
    /\ Due(k)
    /\ grantedAt' = [grantedAt EXCEPT ![k] = clock]
    /\ UNCHANGED clock

Next == Tick \/ \E k \in Keys : Grant(k)

Spec == Init /\ [][Next]_vars
=============================================================================
