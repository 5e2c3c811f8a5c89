------------------------------- MODULE GitOps -------------------------------
(***************************************************************************)
(* What the interface GitOps (internal/gitops/gitops.go) promises of a     *)
(* call of OpenPR, in terms of what the call has done to the GitHub        *)
(* repository by the time it answers.  OpenPR implements this              *)
(* specification; Remediator is built on it.                               *)
(***************************************************************************)
CONSTANTS
    Branches,   \* names of remediation branches
    None        \* no branch

VARIABLES
    heads,      \* the remediation branches on GitHub
    unmerged,   \* those with commits that are not in main
    prs,        \* the branches for which a PR has been opened
    asked,      \* the branch of the call in progress or last made
    busy,       \* a call is in progress
    wrote,      \* what the call has done: {}, {"branch"} or {"branch", "pr"}
    result      \* what the last call answered

vars == <<heads, unmerged, prs, asked, busy, wrote, result>>

Results == {"opened", "exists", "nothing", "failed"}

Init ==
    /\ heads = {} /\ unmerged = {} /\ prs = {}
    /\ asked = None
    /\ busy = FALSE /\ wrote = {} /\ result = "none"

Call(b) ==
    /\ ~busy
    /\ busy' = TRUE /\ asked' = b
    /\ wrote' = {} /\ result' = "none"
    /\ UNCHANGED <<heads, unmerged, prs>>

\* A call pushes once, and never over commits that are not in main.
Push ==
    /\ busy
    /\ wrote = {}
    /\ asked \notin unmerged
    /\ heads' = heads \cup {asked}
    /\ unmerged' = unmerged \cup {asked}
    /\ wrote' = {"branch"}
    /\ UNCHANGED <<prs, asked, busy, result>>

Create ==
    /\ busy
    /\ wrote = {"branch"}
    /\ asked \in heads
    /\ prs' = prs \cup {asked}
    /\ wrote' = {"branch", "pr"}
    /\ UNCHANGED <<heads, unmerged, asked, busy, result>>

\* "opened" is the truth; a skip has left the repository alone; a failure may
\* have left a branch, or even a PR, behind.
Allowed(r) ==
    CASE r = "opened" -> wrote = {"branch", "pr"}
      [] r = "exists" -> wrote = {} /\ asked \in heads
      [] r = "nothing" -> wrote = {}
      [] r = "failed" -> TRUE

Return(r) ==
    /\ busy
    /\ Allowed(r)
    /\ busy' = FALSE
    /\ result' = r
    /\ UNCHANGED <<heads, unmerged, prs, asked, wrote>>

\* The process ends in the middle of a call.
Crash ==
    /\ busy
    /\ busy' = FALSE
    /\ result' = "crashed"
    /\ UNCHANGED <<heads, unmerged, prs, asked, wrote>>

\* Somebody merges a PR, commits to its branch, or deletes it.
Merge(b) ==
    /\ b \in prs
    /\ unmerged' = unmerged \ {b}
    /\ UNCHANGED <<heads, prs, asked, busy, wrote, result>>

CommitToBranch(b) ==
    /\ b \in heads
    /\ unmerged' = unmerged \cup {b}
    /\ UNCHANGED <<heads, prs, asked, busy, wrote, result>>

DeleteBranch(b) ==
    /\ b \in heads
    /\ heads' = heads \ {b}
    /\ unmerged' = unmerged \ {b}
    /\ UNCHANGED <<prs, asked, busy, wrote, result>>

Environment ==
    \E b \in Branches : Merge(b) \/ CommitToBranch(b) \/ DeleteBranch(b)

Next ==
    \/ \E b \in Branches : Call(b)
    \/ Push
    \/ Create
    \/ \E r \in Results : Return(r)
    \/ Crash
    \/ Environment

Spec == Init /\ [][Next]_vars
=============================================================================
