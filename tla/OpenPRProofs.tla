---------------------------- MODULE OpenPRProofs ----------------------------
(***************************************************************************)
(* Proofs about OpenPR, for any set of branches and of patched values:     *)
(* its invariant, that it cleans up after itself, and that it keeps the    *)
(* promise of the interface GitOps.                                        *)
(***************************************************************************)
EXTENDS OpenPR, TLAPS

(***************************************************************************)
(* The steps of a call that prepare the push: they touch neither GitHub    *)
(* nor the answer.                                                         *)
(***************************************************************************)
Prepare ==
    \/ WriteCredentials
    \/ CredentialsUnwritten
    \/ MakeTempDir
    \/ Clone
    \/ Commit /\ pc' = "push"
    \/ CheckBranch /\ pc' = "creds"

\* The steps of the others.
Others ==
    \/ \E b \in Branches : Merge(b) \/ ClosePR(b) \/ DeleteBranch(b)
    \/ \E b \in Branches, v \in Values : CommitToBranch(b, v)
    \/ \E v \in Values : ChangeMain(v)

\* The ways out of a call, with the answer r.
Leaves(r) ==
    /\ pc # "idle"
    /\ Return(r)
    /\ UNCHANGED github
    /\ \/ r = "failed"
       \/ r = "exists" /\ pc = "check" /\ heads[branch] # None
       \/ r = "nothing" /\ pc = "commit"
       \/ r = "opened" /\ pc = "created"

Answers == {"opened", "exists", "nothing", "failed"}

LEMMA StepsSorted ==
    ASSUME Next
    PROVE  \/ \E b \in Branches, v \in Values : Call(b, v)
           \/ Prepare
           \/ Push
           \/ CreatePR
           \/ Crash
           \/ \E r \in Answers : Leaves(r)
           \/ Others
<1>1. CASE Fail
  <2>1. Leaves("failed")
    BY <1>1 DEF Fail, Leaves
  <2> QED BY <2>1 DEF Answers
<1>2. CASE CheckBranch
  <2>0. BranchExists("yes") <=> heads[branch] # None
    BY DEF BranchExists
  <2>1. ASSUME heads[branch] # None, Return("exists") PROVE Leaves("exists")
    BY <1>2, <2>0, <2>1 DEF CheckBranch, Leaves
  <2>2. ASSUME Goto("creds") PROVE Prepare
    BY <1>2, <2>2 DEF Goto, Prepare
  <2> QED BY <1>2, <2>0, <2>1, <2>2 DEF CheckBranch, Answers
<1>3. CASE Commit
  <2>1. ASSUME Return("nothing") PROVE Leaves("nothing")
    BY <1>3, <2>1 DEF Commit, Leaves
  <2>2. ASSUME Goto("push") PROVE Prepare
    BY <1>3, <2>2 DEF Goto, Prepare
  <2> QED BY <1>3, <2>1, <2>2 DEF Commit, Answers
<1>4. CASE CreateReturns
  <2>1. PICK r \in {"opened", "failed"} : Return(r)
    BY <1>4 DEF CreateReturns
  <2>2. Leaves(r)
    BY <1>4, <2>1 DEF CreateReturns, Leaves
  <2> QED BY <2>2 DEF Answers
<1> QED BY <1>1, <1>2, <1>3, <1>4 DEF Next, Prepare, Others

-----------------------------------------------------------------------------
(***************************************************************************)
(* The invariant.                                                          *)
(***************************************************************************)
LEMMA InitIInv == Init => IInv
<1> SUFFICES ASSUME Init PROVE IInv
  OBVIOUS
<1>1. TypeOK
  BY DEF Init, TypeOK, Steps
<1>2. EffectsInOrder /\ OpenPRHasBranch /\ CallHasRequest /\ ClonedIsMerged
  BY DEF Init, EffectsInOrder, OpenPRHasBranch, CallHasRequest, ClonedIsMerged,
         Steps
<1> QED BY <1>1, <1>2 DEF IInv

LEMMA CallIInv ==
    ASSUME IInv, NEW b \in Branches, NEW v \in Values, Call(b, v) PROVE IInv'
<1>1. TypeOK'
  BY DEF Call, IInv, TypeOK, Steps, github
<1>2. (EffectsInOrder /\ CallHasRequest /\ ClonedIsMerged)'
  BY DEF Call, EffectsInOrder, CallHasRequest, ClonedIsMerged, Steps
<1>3. OpenPRHasBranch'
  BY DEF Call, IInv, OpenPRHasBranch, github
<1> QED BY <1>1, <1>2, <1>3 DEF IInv

LEMMA PrepareIInv ==
    ASSUME IInv, Prepare PROVE IInv'
<1>1. /\ pc' \in Steps \ {"idle", "pr", "created"}
      /\ pc \in Steps \ {"idle", "pr", "created"}
      /\ UNCHANGED <<github, branch, value, wrote, result>>
  BY DEF Prepare, WriteCredentials, CredentialsUnwritten, MakeTempDir, Clone,
         Commit, CheckBranch, Goto, Return, Steps
<1>2. base' \in Values \cup {None} /\ files' \subseteq {"creds", "clone"}
      /\ deferred' \subseteq {"creds", "clone"}
  BY DEF Prepare, WriteCredentials, CredentialsUnwritten, MakeTempDir, Clone,
         Commit, CheckBranch, Goto, Return, disk, IInv, TypeOK
<1>3. cloned' = cloned \/ cloned' = merged
  BY DEF Prepare, WriteCredentials, CredentialsUnwritten, MakeTempDir, Clone,
         Commit, CheckBranch, Goto, Return
<1>4. TypeOK'
  BY <1>1, <1>2, <1>3 DEF IInv, TypeOK, github
<1>5. (EffectsInOrder /\ OpenPRHasBranch /\ CallHasRequest)'
  BY <1>1 DEF IInv, EffectsInOrder, OpenPRHasBranch, CallHasRequest, github
<1>6. ClonedIsMerged'
  BY <1>1, <1>3 DEF IInv, ClonedIsMerged, github
<1> QED BY <1>4, <1>5, <1>6 DEF IInv

LEMMA PushIInv ==
    ASSUME IInv, Push PROVE IInv'
<1>1. wrote = {} /\ branch \in Branches /\ value \in Values
  BY DEF Push, IInv, EffectsInOrder, CallHasRequest, Steps
<1>2. /\ heads' \in [Branches -> Values \cup {None}]
      /\ merged' \subseteq Branches
      /\ cloned' \subseteq Branches
      /\ wrote' = {"branch"}
  BY <1>1 DEF Push, Pushed, IInv, TypeOK
<1>3. TypeOK'
  BY <1>1, <1>2 DEF Push, Pushed, Goto, disk, IInv, TypeOK, Steps
<1>4. (EffectsInOrder /\ CallHasRequest)'
  BY <1>1, <1>2 DEF Push, Pushed, Goto, EffectsInOrder, CallHasRequest, Steps
<1>5. OpenPRHasBranch'
  BY <1>1, OpenPRAssumption DEF Push, Pushed, IInv, TypeOK, OpenPRHasBranch
<1>6. ClonedIsMerged'
  BY DEF Push, Pushed, IInv, ClonedIsMerged
<1> QED BY <1>3, <1>4, <1>5, <1>6 DEF IInv

LEMMA CreatePRIInv ==
    ASSUME IInv, CreatePR PROVE IInv'
<1>1. wrote = {"branch"} /\ branch \in Branches /\ value \in Values
  BY DEF CreatePR, IInv, EffectsInOrder, CallHasRequest
<1>2. wrote' = {"branch", "pr"}
  BY <1>1 DEF CreatePR
<1>3. TypeOK'
  BY <1>1, <1>2 DEF CreatePR, Goto, disk, IInv, TypeOK, Steps
<1>4. (EffectsInOrder /\ CallHasRequest /\ ClonedIsMerged)'
  BY <1>1, <1>2 DEF CreatePR, Goto, IInv, EffectsInOrder, CallHasRequest,
                    ClonedIsMerged, Steps
<1>5. OpenPRHasBranch'
  BY <1>1 DEF CreatePR, IInv, TypeOK, OpenPRHasBranch
<1> QED BY <1>3, <1>4, <1>5 DEF IInv

LEMMA LeavesIInv ==
    ASSUME IInv, NEW r \in Answers, Leaves(r) PROVE IInv'
<1>1. TypeOK'
  BY DEF Leaves, Return, Answers, IInv, TypeOK, Steps, github
<1>2. EffectsInOrder'
  BY DEF Leaves, Return, IInv, EffectsInOrder, Steps
<1>3. (OpenPRHasBranch /\ CallHasRequest /\ ClonedIsMerged)'
  BY DEF Leaves, Return, IInv, OpenPRHasBranch, CallHasRequest, ClonedIsMerged,
         github
<1> QED BY <1>1, <1>2, <1>3 DEF IInv

LEMMA CrashIInv ==
    ASSUME IInv, Crash PROVE IInv'
BY DEF Crash, IInv, TypeOK, EffectsInOrder, OpenPRHasBranch, CallHasRequest,
       ClonedIsMerged, Steps, github

LEMMA OthersIInv ==
    ASSUME IInv, Others PROVE IInv'
<1> DEFINE GitHubOK ==
        /\ main' \in Values
        /\ heads' \in [Branches -> Values \cup {None}]
        /\ prs' \in [Branches -> {"none", "open", "merged", "closed"}]
        /\ merged' \subseteq Branches
        /\ cloned' \subseteq Branches
        /\ OpenPRHasBranch'
        /\ ClonedIsMerged'
<1>1. UNCHANGED <<call, disk, wrote, result>>
  BY DEF Others, Merge, ClosePR, DeleteBranch, CommitToBranch, ChangeMain
<1>2. GitHubOK
  <2>1. ASSUME NEW b \in Branches, Merge(b) PROVE GitHubOK
    BY <1>1, <2>1 DEF Merge, IInv, TypeOK, OpenPRHasBranch, ClonedIsMerged, call
  <2>2. ASSUME NEW b \in Branches, ClosePR(b) PROVE GitHubOK
    BY <1>1, <2>2
       DEF ClosePR, IInv, TypeOK, OpenPRHasBranch, ClonedIsMerged, call
  <2>3. ASSUME NEW b \in Branches, DeleteBranch(b) PROVE GitHubOK
    <3>1. GitHubOK!1 /\ GitHubOK!2 /\ GitHubOK!3 /\ OpenPRHasBranch'
      BY <2>3 DEF DeleteBranch, IInv, TypeOK, OpenPRHasBranch
    <3>2. /\ merged' \subseteq Branches
          /\ cloned' \subseteq Branches
          /\ ClonedIsMerged'
      BY <1>1, <2>3
         DEF DeleteBranch, BranchMoves, IInv, TypeOK, ClonedIsMerged, call
    <3> QED BY <3>1, <3>2
  <2>4. ASSUME NEW b \in Branches, NEW v \in Values, CommitToBranch(b, v)
        PROVE  GitHubOK
    <3>1. GitHubOK!1 /\ GitHubOK!2 /\ GitHubOK!3 /\ OpenPRHasBranch'
      BY <2>4, OpenPRAssumption
         DEF CommitToBranch, IInv, TypeOK, OpenPRHasBranch
    <3>2. /\ merged' \subseteq Branches
          /\ cloned' \subseteq Branches
          /\ ClonedIsMerged'
      BY <1>1, <2>4
         DEF CommitToBranch, BranchMoves, IInv, TypeOK, ClonedIsMerged, call
    <3> QED BY <3>1, <3>2
  <2>5. ASSUME NEW v \in Values, ChangeMain(v) PROVE GitHubOK
    BY <1>1, <2>5
       DEF ChangeMain, IInv, TypeOK, OpenPRHasBranch, ClonedIsMerged, call
  <2> QED BY <2>1, <2>2, <2>3, <2>4, <2>5 DEF Others
<1>3. TypeOK'
  BY <1>1, <1>2 DEF IInv, TypeOK, call, disk
<1>4. (EffectsInOrder /\ CallHasRequest)'
  BY <1>1 DEF IInv, EffectsInOrder, CallHasRequest, call
<1> QED BY <1>2, <1>3, <1>4 DEF IInv

(***************************************************************************)
(* What a call has done to GitHub agrees at every step with how far it has *)
(* come, and an open PR has its branch (github_gitops.go:138-149).         *)
(***************************************************************************)
THEOREM Invariance == Spec => []IInv
<1>1. IInv /\ UNCHANGED vars => IInv'
  BY DEF IInv, TypeOK, EffectsInOrder, OpenPRHasBranch, CallHasRequest,
         ClonedIsMerged, vars, github, call, disk
<1>2. IInv /\ [Next]_vars => IInv'
  BY <1>1, StepsSorted, CallIInv, PrepareIInv, PushIInv, CreatePRIInv,
     LeavesIInv, CrashIInv, OthersIInv
<1> QED BY InitIInv, <1>2, PTL DEF Spec

(***************************************************************************)
(* Whatever a call has put on disk it has deferred the removal of, from    *)
(* the moment it is there.                                                 *)
(***************************************************************************)
FilesDeferred == pc # "idle" => files \subseteq deferred

(***************************************************************************)
(* Whatever step fails, a call that returns leaves neither the credential  *)
(* file nor the clone behind: each removal is deferred before the next     *)
(* step can fail (github_gitops.go:71-79 and :88-92).                      *)
(***************************************************************************)
THEOREM AlwaysReturnsClean == Spec => []ReturnsClean
<1> DEFINE Clean == FilesDeferred /\ ReturnsClean
<1>1. Init => Clean
  BY DEF Init, FilesDeferred, ReturnsClean
<1>2. Clean /\ [Next]_vars => Clean'
  <2> SUFFICES ASSUME Clean, [Next]_vars PROVE Clean'
    OBVIOUS
  <2>1. ASSUME NEW b \in Branches, NEW v \in Values, Call(b, v) PROVE Clean'
    BY <2>1 DEF Call, FilesDeferred, ReturnsClean
  <2>2. ASSUME Prepare PROVE Clean'
    <3>1. pc' # "idle" /\ pc # "idle"
      BY <2>2 DEF Prepare, WriteCredentials, CredentialsUnwritten,
                  MakeTempDir, Clone, Commit, CheckBranch, Goto, Return
    <3>2. \/ UNCHANGED disk
          \/ \E f \in {"creds", "clone"} :
                files' = files \cup {f} /\ deferred' = deferred \cup {f}
      BY <2>2, <3>1
         DEF Prepare, WriteCredentials, CredentialsUnwritten, MakeTempDir,
             Clone, Commit, CheckBranch, Return
    <3> QED BY <3>1, <3>2 DEF FilesDeferred, ReturnsClean, disk
  <2>3. ASSUME Push \/ CreatePR PROVE Clean'
    BY <2>3 DEF Push, Pushed, CreatePR, Goto, FilesDeferred, ReturnsClean, disk
  <2>4. ASSUME Crash PROVE Clean'
    BY <2>4 DEF Crash, FilesDeferred, ReturnsClean
  <2>5. ASSUME NEW r \in Answers, Leaves(r) PROVE Clean'
    <3>1. files \subseteq deferred /\ files' = files \ deferred /\ pc' = "idle"
      BY <2>5 DEF Leaves, Return, FilesDeferred
    <3> QED BY <3>1 DEF FilesDeferred, ReturnsClean
  <2>6. ASSUME Others \/ UNCHANGED vars PROVE Clean'
    <3>1. UNCHANGED <<call, disk, result>>
      BY <2>6 DEF Others, Merge, ClosePR, DeleteBranch, CommitToBranch,
                  ChangeMain, vars
    <3> QED BY <3>1 DEF call, disk, FilesDeferred, ReturnsClean
  <2> QED BY <2>1, <2>2, <2>3, <2>4, <2>5, <2>6, StepsSorted
<1> QED BY <1>1, <1>2, PTL DEF Spec
-----------------------------------------------------------------------------
(***************************************************************************)
(* The refinement.  The abstract heads, unmerged and prs are sets of       *)
(* branches.                                                               *)
(***************************************************************************)
Heads == {b \in Branches : heads[b] # None}
Unmerged == {b \in Branches : heads[b] # None /\ b \notin merged}
PRs == {b \in Branches : prs[b] # "none"}

LEMMA OthersStep ==
    ASSUME IInv, Others PROVE [Promise!Next]_(Promise!vars)
<1>1. UNCHANGED <<call, disk, wrote, result>>
  BY DEF Others, Merge, ClosePR, DeleteBranch, CommitToBranch, ChangeMain
<1>2. ASSUME NEW b \in Branches, Merge(b)
      PROVE  [Promise!Merge(b)]_(Promise!vars)
  <2>1. Heads' = Heads /\ PRs' = PRs /\ b \in PRs
    BY <1>2 DEF Merge, IInv, TypeOK, Heads, PRs
  <2>2. Unmerged' = Unmerged \/ Unmerged' = Unmerged \ {b}
    BY <1>2 DEF Merge, Unmerged
  <2> QED BY <1>1, <2>1, <2>2
          DEF call, Heads, Unmerged, PRs, Promise!Merge, Promise!vars
<1>3. ASSUME NEW b \in Branches, ClosePR(b)
      PROVE  UNCHANGED Promise!vars
  <2>1. Heads' = Heads /\ Unmerged' = Unmerged /\ PRs' = PRs
    BY <1>3 DEF ClosePR, IInv, TypeOK, Heads, Unmerged, PRs
  <2> QED BY <1>1, <2>1 DEF call, Heads, Unmerged, PRs, Promise!vars
<1>4. ASSUME NEW v \in Values, ChangeMain(v)
      PROVE  UNCHANGED Promise!vars
  BY <1>1, <1>4 DEF ChangeMain, call, Promise!vars
<1>5. ASSUME NEW b \in Branches, DeleteBranch(b)
      PROVE  Promise!DeleteBranch(b)
  <2>1. Heads' = Heads \ {b} /\ PRs' = PRs /\ b \in Heads
    BY <1>5 DEF DeleteBranch, IInv, TypeOK, Heads, PRs
  <2>2. Unmerged' = Unmerged \ {b}
    BY <1>5 DEF DeleteBranch, BranchMoves, IInv, TypeOK, Unmerged
  <2> QED BY <1>1, <2>1, <2>2
          DEF call, Heads, Unmerged, PRs, Promise!DeleteBranch
<1>6. ASSUME NEW b \in Branches, NEW v \in Values, CommitToBranch(b, v)
      PROVE  Promise!CommitToBranch(b)
  <2>1. Heads' = Heads /\ PRs' = PRs /\ b \in Heads
    BY <1>6, OpenPRAssumption DEF CommitToBranch, IInv, TypeOK, Heads, PRs
  <2>2. Unmerged' = Unmerged \cup {b}
    BY <1>6, OpenPRAssumption
       DEF CommitToBranch, BranchMoves, IInv, TypeOK, Unmerged
  <2> QED BY <1>1, <2>1, <2>2
          DEF call, Heads, Unmerged, PRs, Promise!CommitToBranch
<1> QED BY <1>2, <1>3, <1>4, <1>5, <1>6
        DEF Others, Promise!Next, Promise!Environment

LEMMA CallStep ==
    ASSUME IInv, NEW b \in Branches, NEW v \in Values, Call(b, v)
    PROVE  Promise!Call(b)
BY DEF Call, github, Promise!Call

LEMMA PrepareStep ==
    ASSUME IInv, Prepare PROVE UNCHANGED Promise!vars
<1>1. /\ pc # "idle" /\ pc' # "idle"
      /\ UNCHANGED <<github, branch, wrote, result>>
  BY DEF Prepare, WriteCredentials, CredentialsUnwritten, MakeTempDir, Clone,
         Commit, CheckBranch, Goto, Return
<1> QED BY <1>1 DEF github, Promise!vars

LEMMA PushStep ==
    ASSUME IInv, Push PROVE Promise!Push
<1>1. wrote = {} /\ branch \in Branches /\ value \in Values
  BY DEF Push, IInv, EffectsInOrder, CallHasRequest, Steps
<1>2. Heads' = Heads \cup {branch} /\ PRs' = PRs
  BY <1>1, OpenPRAssumption DEF Push, Pushed, IInv, TypeOK, Heads, PRs
<1>3. Unmerged' = Unmerged \cup {branch}
  BY <1>1, OpenPRAssumption DEF Push, Pushed, IInv, TypeOK, Unmerged
<1>4. branch \notin Unmerged
  BY DEF Push, IInv, ClonedIsMerged, Unmerged
<1>5. pc = "push" /\ pc' = "pr" /\ wrote' = {"branch"}
      /\ UNCHANGED <<branch, result>>
  BY <1>1 DEF Push, Pushed, Goto
<1> QED BY <1>1, <1>2, <1>3, <1>4, <1>5
        DEF Heads, Unmerged, PRs, Promise!Push

LEMMA CreateStep ==
    ASSUME IInv, CreatePR PROVE Promise!Create
<1>1. wrote = {"branch"} /\ branch \in Branches
  BY DEF CreatePR, IInv, EffectsInOrder, CallHasRequest
<1>2. Heads' = Heads /\ branch \in Heads /\ Unmerged' = Unmerged
      /\ PRs' = PRs \cup {branch}
  BY <1>1 DEF CreatePR, IInv, TypeOK, Heads, Unmerged, PRs
<1>3. pc = "pr" /\ pc' = "created" /\ wrote' = {"branch", "pr"}
      /\ UNCHANGED <<branch, result>>
  BY <1>1 DEF CreatePR, Goto
<1> QED BY <1>1, <1>2, <1>3 DEF Heads, Unmerged, PRs, Promise!Create

LEMMA LeavesStep ==
    ASSUME IInv, NEW r \in Answers, Leaves(r) PROVE Promise!Return(r)
<1>1. /\ pc # "idle" /\ pc' = "idle" /\ result' = r
      /\ UNCHANGED <<heads, merged, prs, branch, wrote>>
  BY DEF Leaves, Return, github
<1>2. branch \in Branches
  BY DEF Leaves, IInv, CallHasRequest
<1>3. Promise!Allowed(r)
  <2>1. CASE r = "failed"
    BY <2>1 DEF Promise!Allowed
  <2>2. CASE r = "opened"
    BY <2>2 DEF Leaves, IInv, EffectsInOrder, Promise!Allowed
  <2>3. CASE r = "exists"
    <3>1. wrote = {} /\ branch \in Heads
      BY <1>2, <2>3 DEF Leaves, IInv, EffectsInOrder, Steps, Heads
    <3> QED BY <2>3, <3>1 DEF Heads, Promise!Allowed
  <2>4. CASE r = "nothing"
    BY <2>4 DEF Leaves, IInv, EffectsInOrder, Steps, Promise!Allowed
  <2> QED BY <2>1, <2>2, <2>3, <2>4 DEF Answers
<1> QED BY <1>1, <1>3 DEF Promise!Return

LEMMA CrashStep ==
    ASSUME IInv, Crash PROVE Promise!Crash
BY DEF Crash, github, Promise!Crash

(***************************************************************************)
(* OpenPR keeps the promise of gitops.go:11-30: its answer agrees with     *)
(* what it did to GitHub, and no push of it drops commits that are not in  *)
(* main, even if the check of the branch failed (github_gitops.go:55-58).  *)
(***************************************************************************)
THEOREM PromiseKept == Spec => KeepsPromise
<1>1. Init => Promise!Init
  <2> SUFFICES ASSUME Init PROVE Promise!Init
    OBVIOUS
  <2>1. Heads = {} /\ Unmerged = {} /\ PRs = {}
    BY DEF Init, Heads, Unmerged, PRs
  <2> QED BY <2>1 DEF Init, Heads, Unmerged, PRs, Promise!Init
<1>2. IInv /\ [Next]_vars => [Promise!Next]_(Promise!vars)
  <2> SUFFICES ASSUME IInv, [Next]_vars
               PROVE  [Promise!Next]_(Promise!vars)
    OBVIOUS
  <2>1. CASE UNCHANGED vars
    BY <2>1 DEF vars, github, call, Promise!vars
  <2>2. CASE Next
    <3>1. ASSUME NEW r \in Answers, Leaves(r) PROVE Promise!Next
      BY <3>1, LeavesStep DEF Answers, Promise!Results, Promise!Next
    <3>2. ASSUME Crash \/ Push \/ CreatePR PROVE Promise!Next
      BY <3>2, CrashStep, PushStep, CreateStep DEF Promise!Next
    <3>3. ASSUME NEW b \in Branches, NEW v \in Values, Call(b, v)
          PROVE  Promise!Next
      BY <3>3, CallStep DEF Promise!Next
    <3> QED BY <2>2, StepsSorted, <3>1, <3>2, <3>3, PrepareStep, OthersStep
  <2> QED BY <2>1, <2>2
<1> QED BY Invariance, <1>1, <1>2, PTL
        DEF Spec, KeepsPromise, Promise!Spec
=============================================================================
