------------------------- MODULE SuppressionWindow -------------------------
(***************************************************************************)
(* What the callers of the deduplicator see of it once time is abstracted  *)
(* away: a key is granted to a caller only while no window is open for it, *)
(* which opens one, and windows end.  Dedup implements this specification  *)
(* and Watcher is built on it.                                             *)
(***************************************************************************)
CONSTANTS
    Handlers,   \* the calling goroutines
    Keys,       \* what is suppressed: <<pod, failure type>>
    Never       \* no key

VARIABLES
    open,       \* the keys whose window is open
    held        \* per caller: the key it was granted and has not used yet

vars == <<open, held>>

Init ==
    /\ open = {}
    /\ held = [h \in Handlers |-> Never]

Grant(h, k) ==
    /\ held[h] = Never
    /\ k \notin open
    /\ open' = open \cup {k}
    /\ held' = [held EXCEPT ![h] = k]

Release(h) ==
    /\ held[h] # Never
    /\ held' = [held EXCEPT ![h] = Never]
    /\ UNCHANGED open

Expire(S) ==
    /\ S \subseteq open
    /\ open' = open \ S
    /\ UNCHANGED held

Next ==
    \/ \E h \in Handlers : Release(h) \/ \E k \in Keys : Grant(h, k)
    \/ \E S \in SUBSET Keys : Expire(S)

Spec == Init /\ [][Next]_vars
=============================================================================
