# gitops-remediator in TLA+

gitops-remediator watches the pods of one Kubernetes namespace, asks a language
model what is wrong with a failing one and opens a pull request with the fix in
the GitOps repository. This directory holds TLA+ modules for the parts of the
program that keep state, run concurrently or can fail half-way, the TLC
configurations that check them on small instances, and proofs, checked by TLAPS,
of what must hold on every instance.

Paths below are relative to the root of the repository.

## 1. The system

```
 cluster --> pod informer ---> handler \
                                        isDuplicate --> events channel (bounded)
 cluster --> Event informer -> handler /                      |
                                                              v
      main: signal -> cancel -> Run returns -> close    pipeline goroutine
                                              channel         |
                                                Collect -> Diagnose -> OpenPR
                                                                         |
                                          clone, Apply (patcher), commit, push, PR
```

| Component | State | Operations | Talks to |
|---|---|---|---|
| Deduplicator (`internal/watcher/dedup.go`) | map key -> time, mutex | `isDuplicate` (purges, answers, records) | called by both handlers |
| Watcher (`internal/watcher/watcher.go`, `filter.go`) | `synced` flag, start time, informer caches, channel | `Run`, `handlePodUpdate`, `handleEventAdd`, classification | informers (callbacks), deduplicator, channel |
| Pipeline and main (`cmd/remediator/main.go`) | event in hand, counters, wait group | configuration and pings; receive, collect, diagnose, open, count; signal, close, wait, exit | channel, collector, diagnostician, GitOps |
| Collector (`internal/collector`) | the bundle it is building | `Collect`: pod, previous image (ReplicaSet, list), Events, logs | Kubernetes API |
| Diagnostician (`internal/diagnostician`) | diagnosis log, `LogDisabled` | `Diagnose`: log the prompt, ask once, log the answer and the thinking, parse | model API, local file |
| GitOps (`internal/gitops`) | none of its own; temporary credential file and clone; branches and PRs on GitHub | `OpenPR` | git, GitHub API, patcher |
| Patcher (`internal/patcher`) | files of the clone | `Apply` | called by `OpenPR` |
| Config (`config`), connectivity checks (`ping.go`) | none after the start | `Load`, two pings | main |
| Sanitizer (`sanitize.go`) | none | copies a pod without its environment values | collector |

What is hard in it:

* Two informer goroutines classify, ask the deduplicator and send at the same
  time. Each reads the clock *before* it waits for the mutex.
* The send never blocks: a full channel drops the event, and the deduplicator
  has already recorded it.
* The gate that hides the initial list is a flag set by another goroutine, which
  does not know whether the handlers have seen the list; resyncs go around it.
* `Run` may fail before it starts anything; when it returns it does not wait for
  the handlers, main closes the channel, the pipeline may be in the middle of an
  event.
* `OpenPR` has side effects on GitHub which survive a failure, a lost answer or
  the end of the process, and a later call meets them.
* The collector walks from a pod to its ReplicaSet, its Deployment and the other
  ReplicaSets in calls of their own, while the Deployment is rolled out, back and
  cleaned up; each read may fail, and all but one of them may without failing the
  call.
* The model's answer is free text, its log a file that may fail, and neither may
  hold up the pipeline or be acted on before it is on record.
* The process can be killed at any point and is started again: the deduplicator's
  map is gone, the branches and PRs are not.
* Manifests are edited as lines of text, by indentation, without a YAML tree.

What makes each part correct:

* *Deduplicator.* A failure is let through at most once per window; a failure is
  never suppressed when its window is over; purging forgets nothing too early.
* *Watcher.* Once per window over both informers; handlers never block; a failure
  that persists is offered again and again.
* *Pipeline.* Every event is accounted for exactly once; the PR counter counts
  PRs; an event gets one PR at most; shutdown goes in order, and completes if the
  call in progress returns.
* *Collector.* The hint names what the Deployment ran last, never what it is
  failing with; once the pod is read there is a bundle, whatever else fails.
* *Diagnostician.* The verdict is that of the one object in the answer, or none; an
  answer is on record before it is acted on; the call returns.
* *GitOps.* "Opened" is the truth; a skip has touched nothing; no push drops
  commits that main does not have; no temporary file survives a return.
* *Patcher.* A patch sets the setting asked for, in the container asked for, and
  nothing else; or it refuses.

## 2. The modules

| Module | What it is |
|---|---|
| `RateLimit` | abstract: a key is granted at most once per window, less the wait for the mutex |
| `SuppressionWindow` | abstract, untimed: a key is granted while no window is open for it |
| `Dedup` | `isDuplicate` under concurrent callers; implements both |
| `EventSource` | abstract: `Run`, which starts or fails, and handlers that offer events to a bounded channel and panic when it is closed |
| `Watcher` | both handlers, the gate, `Run`, the channel, on `SuppressionWindow`; implements `EventSource` |
| `GitOps` | abstract: the promise of the interface `GitOps` |
| `OpenPR` | `GitHubGitOps.OpenPR` step by step; implements `GitOps` |
| `Rollout` | the environment: the ReplicaSets of Deployments, as their controller numbers them |
| `Collector` | `K8sCollector.Collect` read by read, on `Rollout` |
| `Diagnostician` | `Diagnose`: the log, the request, the reading of the answer |
| `Analysis` | abstract: the stages of an event before and after `Collect`, `Diagnose` and `OpenPR` |
| `Triage` | the pipeline's goroutine with `Collector` and `Diagnostician` in place; implements `Analysis` |
| `Remediator` | the process: its start, `EventSource`, `Analysis`, `GitOps`, main |
| `Manifest` | YAML manifests as lines, and what they mean: the reference for the patcher |
| `Patcher` | `ManifestPatcher.Apply` |
| `DedupProofs`, `WatcherProofs`, `OpenPRProofs`, `TriageProofs`, `RemediatorProofs`, `PatcherProofs` | theorems |
| `PatcherSearchProofs`, `PatcherLimitProofs` | theorems: what the patcher's searches find, and what its edits set |
| `MC...` | instances for TLC |

The composition is by refinement: `Watcher` uses the deduplicator through
`SuppressionWindow`, which `Dedup` implements; `Remediator` uses the watcher, the
two analysing stages and `OpenPR` through `EventSource`, `Analysis` and `GitOps`,
which `Watcher`, `Triage` and `OpenPR` implement. Each of these refinements, and
that of `RateLimit`, is both checked and proved. The restart of the process is a
step of `Watcher`, of `EventSource` and of `Remediator`, and the crash one of
`OpenPR` and `GitOps`: the refinements hold across it.

### How state and actions correspond to the code

**Dedup.** `seen` is `d.seen`; `now`, `arg` are the locals of a call. `Enter` is
`isDuplicate` up to `d.mu.Lock()`. The critical section reads and writes the map
only, so it is one action: `Suppress` (returns true) or `Accept` (returns false
and records). Both contain the purge, which reads the clock again. `Leave` is the
caller going on. `grantedAt` is a history variable. `Tick` does not let a caller
wait for the mutex more than `MaxLag` ticks; without that bound a caller could
hold an arbitrarily old reading.

**Watcher.** `podQ` and `eventQ` are what the informers have yet to deliver; a
callback is `HandlePodUpdate` or `HandleEventAdd` (gate, staleness and
classification), then for every failing container `IsDuplicate` and `Send`.
`todo` holds what the loop has left, init containers first; `held` is the key a
handler got between the two. `phase` is where `Run` is: `Register` starts the
informers, `RunFails` is its two error returns, `CachesSynced` opens the gate,
`RunReturns` is the end; `Close` and `Receive` are main's and the pipeline's side. A message of an Event is
abstracted to what `strings.Contains` finds in it (`about`), a timestamp to
whether it lies before `startTime` (`stale`). `Restart` ends the process, by a
panic or from outside, and starts another one at any time: flags, channel,
informer queues and the deduplicator's map are those of a new process, the
cluster is as it was.

**OpenPR.** `pc` names the next step. Every step but the check can `Fail`;
`CreateReturns` may lose the answer after the PR exists; `Push` may take effect
with the call failing at the next step; `Crash` ends the process anywhere. The
check goes on after any error, as the code does. A repository is the one value
that the patch sets.

A call that goes on so can meet its branch at the push. Git then asks for the
history: it rejects the push unless all commits of the branch are in the clone.
`merged` are the branches whose commits main has (a reviewer may also squash them,
then it has not), `cloned` those of which that was so when main was cloned and is
still so; a commit on a branch, its deletion and a new push end it. So `Push` is
enabled when the branch is not there, or can be fast-forwarded.

`files` are the temporary files of the call on disk, `deferred` those for which the
`defer` has been executed; a return removes what is deferred and nothing else, and
a removal is assumed to succeed. A crash leaves the files; no later call looks for
them, so a call begins with none of its own.

**Collector.** `pc` names the next read of the API; each is an action, the
cluster's steps go on between them. `PodRead` and `PodUnread` are the `Get` of the
pod, whose failure is the only error of the call (`outcome` is "gone" for
`ErrPodNotFound`). `ReplicaSetRead`, `ReplicaSetsListed` and `NoHint` are
`previousImage`: the walk to the Deployment, the list, and every way in which the
section is left out. What follows the list is local, so it is part of that step:
`Candidates` are the other ReplicaSets of the Deployment that are not of the
failing tag, `FirstByRevision` is the sort. `EventsRead` and `LogsRead` leave a
placeholder (`holes`) where the code writes one. An image is the sequence of its
parts between colons, so `ImageTag` is `rsImageTag`, which returns the whole of an
image without a tag. `rolledOut` and `ran` are history, which the code has no
access to: the first is what the revision annotation stands for, the second what
the prompt claims.

**Diagnostician.** `step` is where `Diagnose` is. `DiagLog` is one entry: whole, cut
short, or not there (`lost` remembers that); `logDisabled` is the constructor's
decision. `Answered` is a response with a choice, `RequestFails` every other end of
the request. Content is a sequence of tokens - whole objects, single braces,
`null`, other text - because the code cuts it from the first brace to the last and
hands what is left to `json.Unmarshal`; `Stripped` is the cut, `Reading` the
unmarshalling and the test of `Remediable`. A `misfit` is an object with a field of
another type than `Diagnosis` has, which `json.Unmarshal` refuses.

**Triage.** `turn` says which call the goroutine is in. `Receive`, `Collected` and
`Skip`, `Diagnosed` and `Opened` are what `main.go:145-171` does between the calls;
`Collecting` and `Diagnosing` are the steps of the components. What a call leaves
behind is dropped when the next one begins. The refinement mapping
(`StageReached`) moves an event on when its fate is settled - the pod is read, the
model has answered - and not when the call returns: that is what makes "a
cancelled context lets nothing succeed" true of `Analysis`.

**Remediator.** `startup` is how far main has come: the configuration (which may end
the process), the two pings (whose result does not matter), and then the watcher.
`stage` is where the pipeline goroutine is. The eight ways through
`main.go:143-188` are `CollectFails` (for two errors), `DiagnoseFails`, `Escalate`,
and `Remediate` followed by the four results of `OpenPRReturns`. Cancelling the
context only adds failures: a call without an answer fails. `StartWatcher`, `RunFails` and
`RunReturns` are `Run` as main sees it. An event is (pod, type, second). The
watcher's once-per-window property makes it unlikely that one process queues two
that are equal, and does not exclude it: the second of a Kubernetes Event is that
of its `LastTimestamp` (`filter.go:99-103`), which may be older than the window. So
the handlers may offer anything at any time; `queued` remembers what the process
has put on its channel and `repeated` what it has put there more than once, for
which `NoEventTwice` and `OnePRPerEvent` claim nothing. `MaxEvents` bounds how many
events a process puts there. `OthersOnGitHub` is what reviewers do. `Restart` kills
the process and starts another one; what is on GitHub stays. `served` remembers for
which events this process has created a PR.

**Patcher.** A line is `[indent, dash, key, value, tag]`: its indentation, whether
it starts a list entry, its key, its value ("" for a block), and what follows the
last colon of an image. Blank and comment lines, quoting and inline mappings
other than `{}` are left out (section 6). `Region` is the search for a container's lines,
`WithLimits`, `WithResources` and `NewResources` are the cases of
`applyMemoryLimit`; the other edits have the names of their functions. `Patch` and
`Refuse` are `Apply`: find the file, edit, validate, write. `Unmarshals` models
`yaml.Unmarshal`, which reads one document; a separator in the first line does
not end it, and the document after it is taken to be a mapping at the left margin. `Manifest` gives the reference: when
lines are well formed, which lines are the block of a key, the entry of a
container, its limit, its image, a variable's value. It knows nothing of how the
patcher searches. Each call works on a fresh clone, so a behaviour is one call.
I/O errors are not repeated here: in `OpenPR`, `Apply` may fail at any time.

## 3. What is checked

| Run | Module | States | Shows |
|---|---|---|---|
| `dedup` | `MCDedup` | 36,600 | `IInv`; `SuppressedOnlyWithinWindow`: duplicates do not extend a window; `RateLimited`, `WindowsRespected`: both refinements |
| `watcher` | `MCWatcher` | 128,661 | `IInv`; `OncePerWindow` over both informers; `ImplementsSource`; `HandlersNeverBlock` though nobody may receive; `PersistentFailureIsReoffered` |
| `openpr` | `MCOpenPR` | 35,962 | `IInv`, `ReturnsClean`, `KeepsPromise` |
| `triage` | `MCTriage` | 236,872 | `IInv`; `HintIsAnotherTag` and `HintIsLastRolledOut` against concurrent rollouts; `AnswerIsOnRecord`; `VerdictIsTheAnswers`; `ImplementsAnalysis`; `PodReadMeansBundle`; `DiagnoseReturns` |
| `remediator` | `MCRemediator` | 1,021,544 | `IInv` with the accounting of events and `NoEventTwice`; `CountsOnlyRealPRs`; `OnePRPerEvent`; `ShutdownCompletes` |
| `patcher` | `MCPatcher` | 17,679 | `EditsOnePlace`; `StaysWellFormed`, `MemoryLimitSet`, `ImageTagSet`, `OverlayTagSet`, `EnvVarSet` |
| `watcher_replay`, `openpr_skip`, `remediator_shutdown`, `previous_image`, `patcher_update`, `patcher_scope` | | | counterexamples, section 5 |

### Bounds, and why they are enough

* `dedup`: two callers (there are two informers, and client-go runs the callbacks
  of each one at a time), two keys, a window of 3 ticks with a lag of 1, a clock
  of 7: two whole windows pass, with a caller late at both ends.
* `watcher`: one pod that runs or fails with three failing containers - two of
  them with one key by different reasons, one with another - and an Event of the
  first key, so that a key comes from two containers and from two informers;
  `Capacity = 1`, so full and empty channels alternate; `MaxPending = 1` bounds
  what an informer has pending, a bound on the environment only. More pods only
  add keys, which the deduplicator treats independently. Restarts are unlimited.
* `openpr`: two branches and two values, calls without end, so that calls meet
  the remains of their own and of other branches, merged, squashed, committed to,
  closed or deleted, also behind a check that has failed.
* `triage`: a Deployment with three templates, of which two share the tag of the
  first container and one has an image without a tag in the second; a Deployment
  beside it, which must not be taken for a sibling; and a pod that belongs to
  none. `MaxRollouts = 4`: the first, two others and a rollback fit, so revisions
  and ages of templates come apart. Cleanups may come at any time. Ten answers:
  the diagnosis (both ways) alone, in a fence, twice, in braces of its own, with
  thinking; an object that does not fit, in a fence and beside one that does;
  `null`; and braces the wrong way round.
* `remediator`: two handlers, a channel of one place, two failures of one pod in
  one second. Their branches can be the same, since a branch carries the model's
  failure type, not the event's; so a second event meets the branch of the first,
  its own from before a restart, and one that others have merged, committed to or
  deleted. An event in another second differs only in never meeting the others'
  branches. `MaxEvents = 2`: a process puts two events on its channel, equal or
  different, so that one is queued while the other is in hand; further ones
  come after a restart, of which there may be any number.
* `patcher`: 814 clones and 11 requests. The clones combine the seven forms of a
  container's resources that the code tells apart with an environment before or
  after them, an image before or after it, both styles of list indentation, a
  second container before or after (also one that begins with its image), volumes,
  a namesake, claim templates, a second document, a second file, a separator at the
  beginning, and overlays with and without `newTag`. Every branch of every edit is taken. TLC evaluates that
  every clone parses and is a `StandardClone` (`MCClonesParse`,
  `MCClonesAreStandard`). `EditsOnePlace` is about all of them; the other properties
  also have the conditions of section 6, which leave out some: the clones with a
  namesake, with claim templates or with entries that do not begin with their name
  are there for `EditsOnePlace`, `StaysWellFormed` and the two counterexamples.

### Deadlock

It is checked for `openpr`, `triage` and `remediator` (where `Terminated` is the end
of the process). It is off for `dedup`, whose clock is bounded; for the watcher,
whose process may panic or run out of pending work after the cancellation; and
for the patcher, where a behaviour is one call.

### Fairness

* Goroutines that can take a step take it (`WF` on the handlers' steps, the start
  of `Run`, which succeeds or fails, `CachesSynced`, main's steps, `Receive`): the Go
  scheduler starves nobody, and none of these steps waits for a lock that is held
  for long.
* The informers list (`WF` on `ListPods`) and resync every 30 s. `Resync` has
  strong fairness for one reason: `MaxPending` disables it while something is
  pending, which real informers do not do.
* Windows end because time passes (`WF` on `WindowEnds`).
* A ping has a timeout of 15 s or 10 s (`main.go:106`, `main.go:120`), so it
  returns. The model's client has one of 120 s, so the request fails at the latest
  then (`WF` on `RequestFails`). Writes to the local log return.
* The Kubernetes client is built without a timeout, so nothing is assumed of
  `Collect` before the context is cancelled; its requests carry the context, so
  after it they return: `WF` on `ctxDone /\ Collecting` and, in `Remediator`, on
  `ctxDone /\ stage # "open" /\ Pipeline`. `PodReadMeansBundle` is therefore about a
  cancelled context, the case in which all further reads fail.
* Of a call of `OpenPR` nothing is assumed, cancelled or not. git runs as a
  subprocess without a deadline, and `CombinedOutput` without a `WaitDelay`
  (`git.go:34-41`) waits after the cancellation for as long as a child of git keeps
  the output pipe open. `ShutdownCompletes` therefore has a premise: *if* every call
  of `OpenPR` returns (`[]<>(stage # "open")`), the process ends. A call that never
  returns holds the process in `pipelineWg.Wait()` until it is killed.
* Nothing is assumed of the cluster, of the signal, of restarts, of GitHub, or, in
  `watcher`, of the consumer of the channel. `PersistentFailureIsReoffered` and
  `ShutdownCompletes` excuse a process that is restarted or, for the first, one
  that has panicked, is told to stop or could not start.

### Assumptions about time

* A caller waits for the mutex less than the window (`MaxLag < Window`; ten
  minutes in the code).
* No handler is held up between `isDuplicate` and its send for the whole of the
  window (the guard of `WindowEnds`). Without it two handlers could queue one key.

## 4. What is proved

All theorems hold for every value of the constants under the modules' named
assumptions (`DedupAssumption`, `WatcherAssumption`, `NeverIsNoKey`,
`OpenPRAssumption`, `TriageAssumption`, `RemediatorAssumption`,
`PatcherAssumption`): capacities and windows are positive, the pods are a finite
set, a template's containers have known names and images that are not empty, the
special values are distinct from real ones, clones and requests are of their types
and the keys the patcher writes are texts. Nothing else is assumed, no induction
over data and no recursive operator occurs.

**Dedup.** `IInv` (theorem `Consistent`) is inductive. Beyond types it says that a
waiting caller's reading is at most `MaxLag` old, that the recorded time of a key
lags its last grant by at most `MaxLag`, and that a key *absent* from the map was
never granted or is due. The last part is what the purge has to preserve and what
the rate limit rests on: an `Accept` finds the key absent (then it is due) or
recorded long enough ago (then its grant is, too). From it follow
`SuppressionEnds` and both refinements, `ImplementsRateLimit` and
`ImplementsWindows`.

**Watcher.** `OncePerWindow` is not inductive: it needs `GrantsAreExclusive` (the
key granted to a handler is that of its current event, in an open window, not
queued, and nobody else's) and `QueuedIsSuppressed`. `IInv` collects them with
the types and the bound of the channel (theorem `Invariance`); `QueuedOncePerWindow`
follows from it, and so does the refinement `IsEventSource`, whose hard part is
that a `Send` is an `Offer` by a handler at work; that no callback begins before
`Run` has started the informers is `NothingBeforeStart`.

**OpenPR.** `IInv` ties `wrote`, what the call has done on GitHub, to `pc`
(`EffectsInOrder`), an open PR to its branch, and what the clone has to what main
has (`ClonedIsMerged`): nothing takes commits out of main, and whatever adds one to
a branch takes the branch out of both sets. With it every step is a step of `GitOps`
or a stutter (`PromiseKept`): a push over an existing branch is of one in `cloned`,
hence in `merged`, so it is not among `GitOps`' `unmerged`; the answer "opened" is
only possible in `created`. `AlwaysReturnsClean` rests on an invariant of its own,
`FilesDeferred`: in the middle of a call every file on disk has its removal
deferred. It would fail if one step made a file and a later one deferred its
removal, with a return in between.

**Triage.** `IInv` has three independent parts. *The cluster:* the revisions of a
Deployment's ReplicaSets are in the order of their last rollouts
(`RevisionsInOrder`); it needs `RolledOutSoFar`, and holds because a rollout takes
a revision above all others, also for a template used before. *The collector:*
`HintIsAnotherTag`, and `FailedAtThePod`, which says that there is no hint before
the list is read. *The diagnostician:* `AnswerIsOnRecord` at every step, and
`Progress`, from which `VerdictIsTheAnswers` follows by lemmas about the cut: an
object with no brace beside it is what is left of the content, and what is cut to
one object had no other. Theorem `TriageInvariant` puts them together; each has a
theorem of its own (`NeverTheFailingTag`, `RecordedBeforeUse`,
`VerdictIsFaithful`). `LastRolledOutIsTheHint` follows from the first part: a
sibling rolled out after the one chosen has a higher revision, so it was no
candidate, so it has the failing tag. `TriageImplementsAnalysis` is the
refinement that `Remediator` rests on.

**Remediator.** `Accounting` equates the received events with the sum of the
counters, the log lines and the event in hand. It is inductive with
`OneCallPerEvent` and `WrittenPRExists`, which tie the pipeline's stage to the
state of the GitOps call; `NoEventTwice` says that an event which has not been
`repeated` is queued, in hand, or served, and never two of these; `ShutdownInOrder`
and `CleanExit` complete `IInv` (theorem `Invariance`), across restarts.
`OnlyRealPRsCounted` and `AtMostOnePR` follow.

**Patcher, whatever the layout** (`PatcherProofs`). The invariant is small (while no
answer is given the clone is one of the given ones); the work is in the edits.
`Edited` says what each of them leaves: at most three lines inserted after a line
`i`, and `i` with another value or tag perhaps, all of them settings. Here the
searches are not trusted to find the right line, only shown to end on a line of the
file (`RegionInFile`, `ImagesInFile`); that the first and the last of a set of line
numbers exist comes from the well-foundedness of `<`. `PatchEditsOnePlace` collects
the edits, for files of any length and layout. `ValidationSuffices` builds on it:
what is inserted or changed is no separator, so a file of one document is still one
document (`DocumentsOfOne`, or `DocumentsAfterOne` when it begins with a separator),
and the one that `yaml.Unmarshal` reads is all of the file (`OneDocumentParses`).

**Patcher, in the layout it is written for** (`PatcherSearchProofs`,
`PatcherLimitProofs`). The searches go by the text of single lines, `Manifest` by
blocks and indentation; the lemmas show that they agree on files of any length, and
section 6 has the layouts under which they do.

* *The file* (`RightFile`). `ContainsDeployment` holds of a file exactly if `Declares`
  does (`FoundIsDeclared`, `DeclaredIsFound`), and the search of an overlay finds a
  name exactly if its images list has an entry of that name (`OverlayFound`).
* *The line.* In a plain file an entry is the lines from its name to the next line
  that is indented no further (`PlainEntry`), so the first image after the name is
  the container's (`ImageSearch`, `ImageChanged`), and the line after a variable's
  name is its value (`EnvSearch`, `EnvChanged`). The block of `images:` is the list
  (`ImagesBlockIsBlock`, `SimpleItems`).
* *What it does to the rest.* A change of a value or a tag moves no line between
  blocks and keeps the file parsing (`ChangeParses`). An added `newTag` belongs to
  the entry it is written for (`TagAdded`); for an entry that does not begin with its
  name it may not, and then the validation refuses it (`TagMisplaced`).
* *The memory limit* has the five cases of `applyMemoryLimit`. `RegionIs` and the
  lemmas `LimitsCase`, `ResourcesCase` and `NewCase` say which of them it is and
  that the line it works on is that of the container's own limit, limits or
  resources. `Gains` says that after an insertion a block consists of the lines it
  had and the new ones, which is shown of blocks, entries and hence the limit
  (`BlockGrows`, `ItemGrows`, `EntryGrows`, `LimitGrows`), and
  `GrowthUnmarshals` that the lines around an insertion keep their place, so the
  result parses. The cases are `LimitUpdated`, `LimitFilled`, `LimitOpened` and
  `LimitAdded`. In the fifth, the new resources may come to stand before a list that
  belongs to the container; then that document parses no more (`LimitCut`), and no
  other layout leads there.

Hence `ImageTagIsSet`, `EnvVarIsSet`, `OverlayTagIsSet` and `MemoryLimitIsSet`: the
value asked for is set where it belongs and nothing else changes, it is set under
conditions the theorems name, and a name that does not occur is refused.

Two statements that TLC had found to hold on the instance turned out to be false
of other files when they were to be proved, and are now stated with the condition
they need. That a variable without a value is refused (`EnvVarSet`) is not so if its
entry is the name alone: the line after it may be the value of an entry around it.
And the memory limit (`MemoryLimitSet`, `OwnResources`) may go astray in a file that
gives a key twice, indents resources by four, lists something in them, or has the
container's name for something else only.

**Only model-checked.** The liveness properties (`HandlersNeverBlock`,
`PersistentFailureIsReoffered`, `PodReadMeansBundle`, `DiagnoseReturns`,
`ShutdownCompletes`), since temporal reasoning with fairness and `ENABLED` is out
of the prover's reach. Every invariant and every other property of the passing runs
is a theorem.

## 5. Where code and documents disagree

1. `remediator_shutdown` - `InFlightCompletes`. main closes the channel when `Run`
   returns, but a handler that is past `isDuplicate` may still send: the send
   panics and ends the process during a collect, diagnose or PR operation, which
   `tasks/lessons.md:94` says was fixed.
2. `watcher_replay` - `NoStartupReplay`. `WaitForCacheSync` (`watcher.go:114`) waits for
   the informers' stores, not for their handlers: an add of the initial list that
   is still pending when `synced` is set passes the gate in `AddFunc`, and a pod that
   was failing before the start is reported (`watcher.go:127-128`,
   `docs/bugs.md:68`). That is what the run shows. Reading the code there is a
   second way: the resync after 30 s delivers every known pod, changed or not, to
   `UpdateFunc`, where there is no gate. `PersistentFailureIsReoffered` rests on it.
3. `openpr_skip` - `SkippedMeansHandled`. A branch left by a call that pushed and
   then failed makes every later call skip; no PR is ever opened
   (`github_gitops.go:52`).
4. `previous_image` - `HintHasRun`. The hint is the highest revision of another
   tag (`collector.go:328`), whether or not a pod of it ever became ready; the
   model is told that it is "the last successfully running image tag"
   (`collector.go:141`, `prompt.go:21`, `docs/testing.md:109`). After two bad
   rollouts in a row it is the first of them.
5. `patcher_update` - `ExistingLimitIsUpdated`. A container whose `env`, `ports` or
   `volumeMounts` has named entries before `resources` cannot be patched: the
   search stops at the first entry, the block is inserted in the wrong place and
   the validation refuses the result (`patch.go:13`). `k8s/deployment.yaml` of
   this repository is such a manifest. `StaysWellFormed` shows that this never
   goes further than a refusal in a file of one document.
6. `patcher_scope` - `ScopedToContainer`. A list entry of another kind with the
   container's name is edited in its place; the result is valid YAML and is
   proposed (`patch.go:18-19`). The same happens to the resources of a following
   container that begins with its image, or of claim templates.

Two more were met while reading and have no run. The branch is looked up after the
diagnosis, whose type is part of its name, so a duplicate costs a model call before
it is recognised, where the documents say "no LLM call" (`docs/bugs.md:56`,
`docs/testing.md:105`). And `rsImageTag` is commented to return an empty string for an image
without a tag (`collector.go:388-390`) but returns the whole image
(`collector.go:398`), as `ImageTag` does.

## 6. What the patcher properties claim, and what not

`EditsOnePlace` holds of every file. The four about the value that is set are
stated for files in these layouts; item 6 of section 5 is what happens outside.

* `StandardClone`, for finding the file: the kind of a document comes once and before
  its metadata, and in a workload only metadata has a name at indentation two; an
  overlay is one document, after a separator perhaps, with one `images` list of flat
  entries, no key twice in one of them and no name in two (`Standard`, `Simple`).
* `Plain`, for finding the container or the variable: every list entry begins with
  its name and gives it once, and one entry at most has the name asked for.
* `OwnResources`, for a memory limit: the container gives `resources` once, indented
  by two, without lists, with one `limits` at most and one `memory` in it; whatever
  else has `resources` or `limits` comes after the next list entry.
* `ResourcesFirst`, for the promise that a memory limit *is* written: no list with
  named entries comes before the container's resources. Without it the limit is
  written or a document no longer parses. Only the first document is validated, so
  the property asks that all documents of the result parse.

`StaysWellFormed` is claimed for files of one document, with a separator before it
or not: `yaml.Unmarshal` reads no further, so an edit that breaks a later document is
written. An environment variable carried by two containers is changed in the
first, since the request's container is not looked at. No property covers these two.
The text of image references (registry ports, digests) is not modelled.

The files have no blank and no comment lines, so nothing is claimed of files that
do. The tests for empty lines (`patch.go:63`, `76`, `181`) have no counterpart; and a
comment that is indented no further than `limits:` ends, in the code, the search for
its memory line (`patch.go:76`), which a YAML reader would pass over.

## 7. Not modelled

* Sanitizer, the text of prompt, bundle and PR, token redaction, unified diff: pure
  text, without state. Of the bundle the hint and the placeholders are modelled.
* The values of the configuration, the heartbeat, the metrics server (of the
  metrics, the counters are part of `Remediator`; the label that `escalationReason`
  picks is not) and the mode without a Kubernetes client: they change no state
  that the rest reads.
* `deploymentName`: names are model values; that it drops a part of the name of a
  StatefulSet pod is documented at `find.go:14-17`.
* The text of image references, beyond their parts between colons; the content of
  container logs (which are those of the current container, `collector.go:227`).
* I/O errors inside `Apply`: in `OpenPR` it may fail at any time.
* Failing removals of `OpenPR`'s temporary files (the code ignores their errors), and
  what a killed process leaves in the temporary directory.

## 8. What could come next

1. *Image references.* Registry ports and digests in `Manifest` and `Collector`, and
   what `newImageTag` makes of them (`patch.go:277`).
2. *Composition of proofs.* `EventSource`, `Analysis` and `GitOps` as assumptions of
   `Remediator`'s theorems, discharged by `IsEventSource`,
   `TriageImplementsAnalysis` and `PromiseKept`.
