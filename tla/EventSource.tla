---------------------------- MODULE EventSource ----------------------------
(***************************************************************************)
(* The watcher as the rest of the process sees it: Run, which starts       *)
(* handler goroutines or fails, and once it has started them returns when  *)
(* the context is cancelled, without waiting for them; and the handlers,   *)
(* which offer events to a bounded channel without blocking.               *)
(* Watcher implements this specification; Remediator is built on it.       *)
(***************************************************************************)
EXTENDS Integers, Sequences

CONSTANTS
    Handlers,   \* the goroutines that run informer callbacks
    Events,     \* what a handler can offer
    Capacity    \* of the channel

VARIABLES
    working,    \* the handlers that are in the middle of a callback
    channel,    \* the events queued
    closed,     \* the channel is closed
    panicked,   \* the process has died of a panic
    ctxDone,    \* the context is cancelled
    started,    \* Run has started the handlers
    returned    \* Run has returned

run == <<ctxDone, started, returned>>
vars == <<working, channel, closed, panicked, run>>

Init ==
    /\ working = {}
    /\ channel = <<>> /\ closed = FALSE /\ panicked = FALSE
    /\ ctxDone = FALSE /\ started = FALSE /\ returned = FALSE

Start ==
    /\ ~started
    /\ ~returned
    /\ started' = TRUE
    /\ UNCHANGED <<working, channel, closed, panicked, ctxDone, returned>>

\* Run returns an error before it has started anything.
RunFails ==
    /\ ~started
    /\ ~returned
    /\ returned' = TRUE
    /\ UNCHANGED <<working, channel, closed, panicked, ctxDone, started>>

Begin(h) ==
    /\ started
    /\ h \notin working
    /\ working' = working \cup {h}
    /\ UNCHANGED <<channel, closed, panicked, run>>

End(h) ==
    /\ h \in working
    /\ working' = working \ {h}
    /\ UNCHANGED <<channel, closed, panicked, run>>

HasRoom == Len(channel) < Capacity

\* The event is queued, or dropped when there is no room.  Sending on a closed
\* channel panics.
Offer(h, e, more) ==
    /\ h \in working
    /\ working' = IF more THEN working ELSE working \ {h}
    /\ panicked' = closed
    /\ channel' = IF HasRoom /\ ~closed THEN Append(channel, e) ELSE channel
    /\ UNCHANGED <<closed, run>>

Receive ==
    /\ channel # <<>>
    /\ channel' = Tail(channel)
    /\ UNCHANGED <<working, closed, panicked, run>>

Cancel ==
    /\ ~ctxDone
    /\ ctxDone' = TRUE
    /\ UNCHANGED <<working, channel, closed, panicked, started, returned>>

RunReturns ==
    /\ started
    /\ ctxDone
    /\ ~returned
    /\ returned' = TRUE
    /\ UNCHANGED <<working, channel, closed, panicked, ctxDone, started>>

Close ==
    /\ returned
    /\ ~closed
    /\ closed' = TRUE
    /\ UNCHANGED <<working, channel, panicked, run>>

\* The process ends, whatever it is doing, and another one starts.
Restart ==
    /\ working' = {}
    /\ channel' = <<>> /\ closed' = FALSE /\ panicked' = FALSE
    /\ ctxDone' = FALSE /\ started' = FALSE /\ returned' = FALSE

Next ==
    \/ /\ ~panicked
       /\ \/ \E h \in Handlers :
                \/ Begin(h)
                \/ End(h)
                \/ \E e \in Events, more \in BOOLEAN : Offer(h, e, more)
          \/ Receive
          \/ Cancel
          \/ Start
          \/ RunFails
          \/ RunReturns
          \/ Close
    \/ Restart

Spec == Init /\ [][Next]_vars
=============================================================================
