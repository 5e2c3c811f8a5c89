------------------------------- MODULE OpenPR -------------------------------
(***************************************************************************)
(* GitHubGitOps.OpenPR (internal/gitops/github_gitops.go): check whether   *)
(* the branch exists, clone, patch, commit, push, open the PR.  Every step *)
(* can fail, some after they have taken effect, and the process can end    *)
(* between any two.  A cancelled context is one more reason to fail.  The  *)
(* repository and its reviewers are the environment; a repository is       *)
(* abstracted to the value that the patch sets.                            *)
(***************************************************************************)
EXTENDS FiniteSets

CONSTANTS
    Branches,   \* <<diagnosed type, pod, second>> (github_gitops.go:46-50)
    Values,     \* values of the patched setting
    None        \* no branch, no value

ASSUME OpenPRAssumption == None \notin Branches \cup Values

VARIABLES
    main,       \* GitHub: the setting on the main branch
    heads,      \* GitHub: the setting on each remediation branch, or None
    prs,        \* GitHub: state of the PR of each branch
    merged,     \* GitHub: branches whose commits are all in main's history
    pc,         \* the next step of OpenPR, or "idle"
    branch,     \* branchName
    value,      \* req.Diag.PatchValue
    base,       \* the setting in the clone
    cloned,     \* branches all whose commits are in the clone
    files,      \* temporary files of the call on disk: "creds", "clone"
    deferred,   \* those of them whose removal is deferred
    wrote,      \* history: what this call has done on GitHub
    result      \* what the last call returned

github == <<main, heads, prs, merged>>
call == <<pc, branch, value, base>>
disk == <<files, deferred>>
vars == <<github, call, cloned, disk, wrote, result>>

Init ==
    /\ main \in Values
    /\ heads = [b \in Branches |-> None]
    /\ prs = [b \in Branches |-> "none"]
    /\ merged = {}
    /\ pc = "idle" /\ branch = None /\ value = None /\ base = None
    /\ cloned = {}
    /\ files = {} /\ deferred = {}
    /\ wrote = {} /\ result = "none"

\* What an earlier, killed call has left on disk no later call looks for: from
\* here on files is about this call.
Call(b, v) ==
    /\ pc = "idle"
    /\ pc' = "check" /\ branch' = b /\ value' = v /\ base' = None
    /\ cloned' = {}
    /\ files' = {} /\ deferred' = {}
    /\ wrote' = {} /\ result' = "none"
    /\ UNCHANGED github

Goto(step) ==
    /\ pc' = step
    /\ UNCHANGED <<branch, value, result>>

\* A return runs the deferred removals, which are assumed to succeed.
Return(r) ==
    /\ pc' = "idle"
    /\ result' = r
    /\ files' = files \ deferred
    /\ deferred' = {}
    /\ UNCHANGED <<branch, value, base, cloned, wrote>>

\* Mutant: the error of createPR is ignored.
FailUnnoticed ==
    /\ pc \notin {"idle", "check", "created"}
    /\ Return(IF pc = "pr" THEN "opened" ELSE "failed")
    /\ UNCHANGED github

\* Any step but the check may fail without having had an effect.
Fail ==
    /\ pc \notin {"idle", "check", "created"}
    /\ Return("failed")
    /\ UNCHANGED github

\* 200, 404, or any other status or a transport error.
BranchExists(answer) ==
    CASE answer = "yes" -> heads[branch] # None
      [] answer = "no" -> heads[branch] = None
      [] answer = "error" -> TRUE

\* An existing branch is a duplicate; a check that fails stops nothing.
CheckBranch ==
    /\ pc = "check"
    /\ \/ /\ BranchExists("yes")
          /\ Return("exists")
       \/ /\ BranchExists("no") \/ BranchExists("error")
          /\ Goto("creds")
          /\ UNCHANGED <<base, cloned, disk, wrote>>
    /\ UNCHANGED github

WriteCredentials ==
    /\ pc = "creds"
    /\ Goto("tmpdir")
    /\ files' = files \cup {"creds"}
    /\ deferred' = deferred \cup {"creds"}
    /\ UNCHANGED <<github, base, cloned, wrote>>

\* Mutant: the removal is deferred after the write's error has been looked at.
CredentialsUnwrittenUndeferred ==
    /\ pc = "creds"
    /\ Goto("unwritten")
    /\ files' = files \cup {"creds"}
    /\ UNCHANGED <<github, base, cloned, deferred, wrote>>

\* The file is created but the token cannot be written to it.
CredentialsUnwritten ==
    /\ pc = "creds"
    /\ Goto("unwritten")
    /\ files' = files \cup {"creds"}
    /\ deferred' = deferred \cup {"creds"}
    /\ UNCHANGED <<github, base, cloned, wrote>>

MakeTempDir ==
    /\ pc = "tmpdir"
    /\ Goto("clone")
    /\ files' = files \cup {"clone"}
    /\ deferred' = deferred \cup {"clone"}
    /\ UNCHANGED <<github, base, cloned, wrote>>

Clone ==
    /\ pc = "clone"
    /\ Goto("commit")
    /\ base' = main
    /\ cloned' = merged
    /\ UNCHANGED <<github, disk, wrote>>

\* checkout -b, Apply, add, diff --cached, commit.
Commit ==
    /\ pc = "commit"
    /\ \/ /\ base = value
          /\ Return("nothing")
       \/ /\ base # value
          /\ Goto("push")
          /\ UNCHANGED <<base, cloned, disk, wrote>>
    /\ UNCHANGED github

\* The branch is the clone's main and one commit, which main does not have.
Pushed ==
    /\ heads' = [heads EXCEPT ![branch] = value]
    /\ merged' = merged \ {branch}
    /\ cloned' = cloned \ {branch}
    /\ Goto("pr")
    /\ wrote' = wrote \cup {"branch"}
    /\ UNCHANGED <<main, prs, base, disk>>

\* Mutant: push --force.
PushForced ==
    /\ pc = "push"
    /\ Pushed

\* GitHub takes a push that creates the branch or fast-forwards it, and rejects
\* any other.  When a check that failed has let an existing branch pass, the
\* push is a fast-forward if the main that was cloned had all its commits.  If
\* the answer is lost, the call fails at its next step instead of here.
Push ==
    /\ pc = "push"
    /\ heads[branch] = None \/ branch \in cloned
    /\ Pushed

\* createPR: GitHub wants the branch to be there, without an open PR.
CreatePR ==
    /\ pc = "pr"
    /\ heads[branch] # None
    /\ prs[branch] # "open"
    /\ prs' = [prs EXCEPT ![branch] = "open"]
    /\ Goto("created")
    /\ wrote' = wrote \cup {"pr"}
    /\ UNCHANGED <<main, heads, merged, base, cloned, disk>>

\* The answer of GitHub is read, or is lost.
CreateReturns ==
    /\ pc = "created"
    /\ \E r \in {"opened", "failed"} : Return(r)
    /\ UNCHANGED github

\* The process is killed: its temporary files stay on disk.
Crash ==
    /\ pc # "idle"
    /\ pc' = "idle"
    /\ result' = "crashed"
    /\ deferred' = {}
    /\ UNCHANGED <<github, branch, value, base, cloned, files, wrote>>

\* What reviewers and others do meanwhile.  A merge adds the commits of the
\* branch to main's history, or squashes them into a commit of its own.
Merge(b) ==
    /\ prs[b] = "open"
    /\ main' = heads[b]
    /\ prs' = [prs EXCEPT ![b] = "merged"]
    /\ merged' \in {merged, merged \cup {b}}
    /\ UNCHANGED <<heads, call, cloned, disk, wrote, result>>

ClosePR(b) ==
    /\ prs[b] = "open"
    /\ prs' = [prs EXCEPT ![b] = "closed"]
    /\ UNCHANGED <<main, heads, merged, call, cloned, disk, wrote, result>>

\* What happens to a branch from now on is neither in main nor in the clone.
BranchMoves(b) ==
    /\ merged' = merged \ {b}
    /\ cloned' = cloned \ {b}

CommitToBranch(b, v) ==
    /\ heads[b] # None
    /\ heads' = [heads EXCEPT ![b] = v]
    /\ BranchMoves(b)
    /\ UNCHANGED <<main, prs, call, disk, wrote, result>>

DeleteBranch(b) ==
    /\ heads[b] # None
    /\ heads' = [heads EXCEPT ![b] = None]
    /\ prs' = [prs EXCEPT ![b] = IF @ = "open" THEN "closed" ELSE @]
    /\ BranchMoves(b)
    /\ UNCHANGED <<main, call, disk, wrote, result>>

ChangeMain(v) ==
    /\ v # main
    /\ main' = v
    /\ UNCHANGED <<heads, prs, merged, call, cloned, disk, wrote, result>>

Next ==
    \/ \E b \in Branches, v \in Values : Call(b, v)
    \/ Fail
    \/ CheckBranch
    \/ WriteCredentials
    \/ CredentialsUnwritten
    \/ MakeTempDir
    \/ Clone
    \/ Commit
    \/ Push
    \/ CreatePR
    \/ CreateReturns
    \/ Crash
    \/ \E b \in Branches : Merge(b) \/ ClosePR(b) \/ DeleteBranch(b)
    \/ \E b \in Branches, v \in Values : CommitToBranch(b, v)
    \/ \E v \in Values : ChangeMain(v)

Spec == Init /\ [][Next]_vars
-----------------------------------------------------------------------------
Steps == {"idle", "check", "creds", "unwritten", "tmpdir", "clone", "commit",
          "push", "pr", "created"}

TypeOK ==
    /\ main \in Values
    /\ heads \in [Branches -> Values \cup {None}]
    /\ prs \in [Branches -> {"none", "open", "merged", "closed"}]
    /\ pc \in Steps
    /\ branch \in Branches \cup {None}
    /\ value \in Values \cup {None}
    /\ base \in Values \cup {None}
    /\ merged \subseteq Branches
    /\ cloned \subseteq Branches
    /\ files \subseteq {"creds", "clone"}
    /\ deferred \subseteq {"creds", "clone"}
    /\ wrote \subseteq {"branch", "pr"}
    /\ result \in {"none", "opened", "exists", "nothing", "failed", "crashed"}

\* A call has pushed before it asks for a PR, and has asked for one before it
\* can answer that it is open (github_gitops.go:138-149).
EffectsInOrder ==
    /\ pc \in Steps \ {"idle", "pr", "created"} => wrote = {}
    /\ pc = "pr" => wrote = {"branch"}
    /\ pc = "created" => wrote = {"branch", "pr"}
    /\ pc = "idle" /\ result = "opened" => wrote = {"branch", "pr"}
    /\ pc = "idle" /\ result \in {"exists", "nothing"} => wrote = {}

\* An open PR has its branch.
OpenPRHasBranch == \A b \in Branches : prs[b] = "open" => heads[b] # None

CallHasRequest == pc # "idle" => branch \in Branches /\ value \in Values

\* A push that GitHub takes drops no commit that main does not have.
ClonedIsMerged == cloned \subseteq merged

IInv ==
    /\ TypeOK
    /\ EffectsInOrder
    /\ OpenPRHasBranch
    /\ CallHasRequest
    /\ ClonedIsMerged

\* Every way out of OpenPR, errors included, removes the credential file and the
\* clone that it has made; only a kill leaves them (the defers at
\* github_gitops.go:75 and :92, after the step that makes the file).
ReturnsClean == pc = "idle" /\ result # "crashed" => files = {}

\* OpenPR's answers agree with what it did to GitHub, and no push drops commits
\* that are not in main: over an existing branch it is rejected or
\* fast-forwarded, whatever the check said (gitops.go:11-30,
\* github_gitops.go:52-61 and :139).
Promise == INSTANCE GitOps WITH
    heads    <- {b \in Branches : heads[b] # None},
    unmerged <- {b \in Branches : heads[b] # None /\ b \notin merged},
    prs      <- {b \in Branches : prs[b] # "none"},
    asked    <- branch,
    busy     <- pc # "idle"

\* (see above)
KeepsPromise == Promise!Spec

\* github_gitops.go:52-53: "A 200 means another pipeline run already handled
\* this event".
SkippedMeansHandled == result = "exists" => prs[branch] # "none"
=============================================================================
