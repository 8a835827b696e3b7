# Verification of the control path of HAPTIC

HAPTIC renders HAProxy configurations from Kubernetes resources and brings them
to a fleet of HAProxy pods. This directory holds a TLA+ model of what is hardest
to test in it: how inputs are accepted, how a render is judged, and how it gets
from the leader to a configuration that runs on every pod. It has one module per
component, the TLC runs that check them on small instances, and TLAPS proofs
about four of them.

## The system

A controller replica runs in iterations; in each, its components talk over an
in-process event bus. One replica is the leader and renders on every change.

| Part | State | Operations | Talks to |
|---|---|---|---|
| Event bus and leadership (`pkg/events`, `pkg/controller/leaderelection`, `leader.go`) | started flag, pre-start buffer, subscriber channels; the callbacks of a term | publish, pause, replay, subscribe; start and stop of the leader-only components | every component |
| Input isolation (`pkg/controller/inputisolation`) | accepted and rejected revisions of the watched objects | check all changes, bisect them, retry, show admission the accepted view | renderer, admission |
| Coordinator, HTTP store, auxiliary baseline (`pkg/controller/reconciler`, `pkg/httpstore`, `currentfiles.go`) | mailbox; accepted, pending and unconfirmed pages; accepted and confirmed files | reconcile, accept on trial, refresh, validate, confirm, revoke | input isolation, render gate |
| `RenderGate` (`pkg/controller/rendergate`) | unjudged renders, remembered verdicts, latch | run `haproxy -c`, retry a check that could not run | scheduler, deployer, coordinator |
| `DeploymentScheduler` (`pkg/controller/deployer`) | newest, deployable, accepted, deployed render; one pending slot; one deployment in flight; retry timer; latch; drain | render, verdict, discovery, fallback, completion, timeout, retry, drain, retained checkpoint | render gate, deployer, discovery |
| `Deployer` (`pkg/controller/deployer`) | active deployment, pending cancellation, draining; last fleet; plans that passed | deploy to every pod in parallel, cancel, drain, revert the pods that carry a refused plan | agents over HTTP |
| Agent (`pkg/dataplane/agent/server`) | plans applied, running and held by the worker, last known good plan, scheduled reload, leader token, state file | apply, revert, paced reload, read-back, crash recovery | file store, HAProxy sockets |
| File store (`pkg/dataplane/agent/files`) | file tree, backups, journal | transaction, restore, promotion | the disk |

Around these are the watchers and stores, the renderer, discovery, the publisher,
the appliers, the webhook and the tools. `PROJECT.json` lists every part with what
is modelled of it, or why it is not.

What makes it hard:

- the pods have no transaction across files, sockets and the agent's own state
  file, and the agent or HAProxy may die between any two of them;
- a controller works from a state it read earlier, and a deposed leader may
  still be sending;
- reloads are paced, so a plan can be on disk, in the worker or only scheduled,
  each at a different moment;
- the gate judges a render while it is already being deployed, and its verdicts
  arrive late, for superseded renders, or after a check that could not run;
- content is accepted on trial, before HAProxy has judged it, and replaced
  before the verdict is in;
- the callbacks of a leadership term run beside the election loop, which may end
  the term at any of their steps, on a bus that drops what finds no room;
- three goroutines of the scheduler (event loop, deploy loop, timer callbacks)
  and a drain share state under two locks that each of them releases in the
  middle of its work.

## Modules

### AgentFiles: the tree, the backups and the journal

`disk` is the file tree, `bak` the files linked aside, `journal` the list the
agent holds in memory and `saved` the one in its state file; `lkg` is a history
variable, the last known good tree. A transaction backs each path up, saves the
journal, installs and deletes the files and ends; after it the set is kept,
promoted (`ClearJournal`, then `SaveCleared`) or restored entry by entry. `Fail`,
`UnlinksFailed` and `RestoreFailed` stop at any step, `Crash` between any two, and
every save of the state file may fail (`Save`): the agent logs that and goes on,
except before a transaction, where reserving its proofs must succeed. `unsaved` is
history as well: the save before the first write failed, or the journal was cleared,
and none has succeeded since. Contents are values, path and link names are small
sets.

### Agent: the apply state machine of one pod

`st` is the state in memory, `file` the state file, `disk` and `backup` the tree
and its backups as whole plans, `hap` the HAProxy worker (incarnation and plan
it runs), `run` the apply or reload that holds the apply lock with its program
counter, `window` the pacing window. Controllers, one per leader epoch, read the
state and send what they compose from it, however late. A plan is a number; a
plan partly applied is `Partial(p)`; proofs are the generations that the code
formats into its proof strings. HAProxy is external: it loads any plan outside
`Bad`, and its answers fail where the constant `Faults` grants a fault. `Faults` is
a set of mixes, each with a budget for every kind of fault, so that a run says which
faults it allows together. A save of the state file may fail: most are only logged
(`Save`), a start, a recovery and the admission of an apply need theirs (`MustSave`,
`Unsaved`).

### DeployScheduler: one leadership term of the scheduler

Renders are numbered occurrences; `hist` gives the content of each, so that two
renders can have the same output. `-1` is the checkpoint retained from the term
before. The work revision and the retry generation of the code are numbers that
are only compared for being the current ones, so every holder carries the flags
`rev` and `gen` and the operations that count up clear them. The event loop runs
a handler up to the point where it releases the lock (`Schedule`, `Revise`,
`installPending`), the deploy loop is `TakePending`, `dispatchPending`,
`Release`, and up to two timer callbacks are interleaved with both through
`runRetry`, `LookAtSlot`, `rescheduleLastValidated`, `InstallRetry` and
`settleFollowUp`. The deployer is what it does to the pods (`got`) and the
completion it reports. A verdict is good, refused, or a check that did not run.

### Deployer: deployments, cancellations, drains and reverts over several terms

`term` is the leadership term with its epoch, `mail` the event loop's mailbox,
`asks` the cancellation requests on their own subscription, `ctl` what `cancelMu`
guards, `drain` the call to `Drain`, `job` the handler the event loop is in with
one leg per pod, `net` the requests on their way. A leg reads the pod's state,
sends one fenced request and takes the answer; it fails, is cancelled, or meets a
pod of a newer leader. A request whose sender has given up may still be
performed. The pods keep what the fence and the revert look at: the plan applied,
the one the worker was started from, the one its runtime state carries (`ops`) and
the last known good one, each with the proof of its occurrence, whether a reload
waits, the epoch, and a generation that moves with every apply. An apply runs ops,
reloads, leaves the plan to a reload that waits, or is refused (`Outcomes`).

### RenderGate, and RenderVerdicts which it implements

`RenderVerdicts` is what the gate promises its subscribers: each render gets at
most one verdict, the one its content deserves, and the latch moves only with
verdicts on the latest content. `RenderGate` is the code: `newest` and
`superseded` are the retained renders, `appliedByPod` what the pods report,
`verdicts` and `verdictOrder` the remembered verdicts in their order of use,
`worker` and `job` the check under way, `wake` the token channel. An action is
one hold of the gate's mutex. `KeepsPromise` is the refinement, with `latest <-
newest` and `latch <- pessimistic`; it is checked and proved. `Coordinator` takes the gate by that promise.

### Coordinator: inputs and pages on trial

It composes the coordinator's loop (`loop`, `mailbox`), the goroutine of the
acceptance attempt (`attempt`), the store's entry for one page (`source`, `trial`)
with its refresh timer, callback and proposals, the baseline of auxiliary files
(`files`, `refused`), the accepted input and the gate (`newest`, `unjudged`). A
render's content is the pair of input and page; `Bad` is what the check made by
the render itself refuses, `Refused` what the gate refuses. The watched resources
change as one group, which a selection tries up to four times (`AfterTrial`). `proven`
is a history variable: the pages and the version a render passed with.

### InputIsolation: the selection of valid inputs

A view gives every watched object its revision; `valid` may be any set of views.
`Execute` pins the observed view and tries it whole; if it fails, the changes are
split into slices (`work`) that are tried on `branches`, `rejected` collects the
single changes that failed, and `retry` and `selectComplement` give them further
rounds as long as something passed. `bootstrap` is the case without a valid base.
Halves are any two halves, so that the result does not depend on the order of
names.

### EventBus: publish, pause and replay under a changing leader

`bus` is what `startMu` guards, `replay` a `StartContext` that holds it, `pubs`
where each publishing thread is (`fan` after it read `started`, `report` after a
drop), `chan` the channels, `start` and `stop` the callbacks of the terms, `comp`
the run of the leader-only components. The Reconciler, the Coordinator and a
lossy observer stand for the three kinds of subscribers. `log`, `got` and `mark`
are history. A critical drop cancels the iteration, and the model stops there.

The modules do not share variables; each takes its neighbours by what they
promise. `Agent` uses the file store by what `AgentFiles` shows of it, `Deployer`
reduces the agent to its fence and the scheduler to one outstanding deployment,
`Coordinator` the gate to `RenderVerdicts`.

## Runs

| Run | What it checks |
|---|---|
| `files` | Transactions on three paths with up to two failures, failed saves or crashes, between any two steps: a rollback is exact, the saved journal restores, the configuration is written after the files it names. |
| `agent_truth` | Two epochs and two plans, one of them bad, with a crash of the agent, a restart of HAProxy and a failed or half-executed command, or with a crash and saves of the state file that fail: what the agent says the worker holds, and what it says it can restore, is so; operations meet their baseline; proofs name one plan. |
| `agent_faults` | A crash and one fault of every kind but a restart of HAProxy (file error, socket error, lost command, unanswered `show info`, failed repair, torn journal): no leader of an older epoch takes over. |
| `agent_live` | With a crash of the agent and no other fault: a scheduled reload keeps its plan and happens. |
| `deploy_gate` | A cold term with a checkpoint, late verdicts, refusals, a check that could not run, a failed apply: what a refusal rolls back to passed the gate, the checkpoint never displaces a render, skips are sound. |
| `deploy_live` | With a pod change, a failure, a paced reload and a timeout: one deployment at a time, the deployable render goes out to the current pods, and every pod ends on it. With a drain instead of the timeout, on a fleet that does not change: the drain ends. |
| `gate` | Renders, pod reports, a check that cannot run and the end of a term against the worker: the gate implements `RenderVerdicts`, its latch follows the newest render, it keeps what pods still run, and it judges both. |
| `deployer` | Cancellation, drain, a second term, a newer leader, lost answers and refusals over two pods: a cancellation hits the deployment it names and no other, no deployment of a drained or an earlier term is sent, a rollback goes to a plan that passed, a refusal reverts the pods that carry the plan on disk or in their worker, every deployment is answered. |
| `coordinator` | Two inputs and two pages with a refresh and one fault: files the gate refuses are a render's baseline only until that verdict is in, a revocation restores a proven page and never takes one back; once the world rests, the fleet has the watched resources as they are and the page the source serves, unless HAProxy refuses them. |
| `isolation` | Every set of valid views of three objects that may change once in between: what is accepted is valid, no rejected change could still join it, the selection ends. |
| `bus` | Two producers, a handler that publishes, and up to two terms that end at any step: no critical event is lost in silence, publications keep their order, the leader's components miss nothing of their term, the term is seeded. |

One run expects a violation of a statement that the code does not keep:
`coordinator_unproven`. A refreshed page is validated against the accepted inputs
of the moment and promoted after other inputs were accepted. If the two do not go
together every render fails its own check, so none reaches the gate, and the
revocation that a refusal of the gate would start never comes. `Recovers`
excludes that state (`Refuted` with a page on trial). The finding in `PROJECT.json` quotes the
document.

A passing run says nothing beyond the faults it grants. `agent_truth` grants no
file error, lost command, unanswered `show info`, failed repair or torn journal, and
saves fail in it only next to a crash; in `agent_faults` and `agent_live` no save
fails; `agent_live` grants only a crash; `deploy_live` no refusals, and no pod change together
with a drain.

### Known deviations

TLC gave a counterexample to each of these in the modules as they are here, for a
property or a bound that is not among the runs now. The first four contradict a
comment or a document of the repository.

- A rollback leaves a scheduled reload in place (`transaction.go:394`), and when
  it fires, the plan whose files are gone is recorded as running and last known
  good. `RollbackTruth` fails with a file error.
- A late read-back overwrites a scheduled reload with an empty plan
  (`reload.go:216`), which the pacer never performs. `ScheduledReloadKept` fails
  with a socket error. `reload.go:28` says "A scheduled reload is never
  cancelled".
- A refusal does not reach a render in the hand of the deploy loop or of a retry
  callback, and it is dispatched after the rollback
  (`scheduler_handlers.go:191`). `DispatchesTheDeployable` fails with a refusal.
- After a check that could not run, or a late refusal of the render before, the
  pass of the render held is ignored until another render comes
  (`scheduler_handlers.go:118`); `rendergate.go:409-411` expects that "the latch
  reopens promptly".
- `ClearJournal` unlinks the backups before the state file is saved (`write.go:355`,
  `reload.go:260`): a crash in between leaves a saved journal
  that names missing backups. The save itself may fail, and the window then lasts
  until one succeeds. `CrashRecoverable` excludes it.
- A failed save of the journal before the first write is only logged
  (`server/transaction.go:121`): a crash after the write finds a state file
  that knows nothing of it. `CrashRecoverable` excludes that window too.
- The same of the outcome of an apply (`server/transaction.go:435`): the agent that
  starts after a crash has the epoch of the apply before, and an older leader may
  come back. `EpochNeverFallsBack` fails with a failed save.
- `runOps` keeps the worker's old baseline when `show info` fails after the
  batch (`transaction.go:254`); `OpsMeetTheirBaseline` then fails.
- A reload command that was lost on a live master is cached as a refusal
  (`reload.go:89`).
- `selfReload` only logs a repair that failed (`reload.go:258`).
- The fence compares epochs with the last *applied* token, so a failed apply of
  a newer leader does not fence the older one (`apply.go:243`).
- A render dropped from the slot by a check that could not run counts as
  dispatched when the check passes (`scheduler_handlers.go:129`).
- The scheduler's `Drain` does not stop a newer plan the deploy loop already holds
  (`scheduler_logic.go:143`), is not woken when pods leave
  (`scheduler_handlers.go:425`; `DrainReturns` then fails), and may return early when a superseded callback
  settles (`scheduler_handlers.go:797`).

Five more were met while writing the properties, which exclude them:

- A deployer's request whose sender stopped waiting may reach the pod after a
  revert has read the pod's state, or after the drain. `RefusedIsReverted` speaks
  of pods that did not change since that read, `TermIsFinal` of requests sent.
- A revert that fails on a pod is not tried again.
- A refused render revokes the only accepted page while a refreshed one waits for
  its validation. Reconciling the refresh timers then stops the timer
  (`httpstore/component.go:572`) whose callback would abandon a validation that
  was lost, and the page stays pending (`Stranded`).
- A term that ends between `Pause` and `StartContext`, or during the replay,
  leaves the bus buffering on a standby until the next term, or until the buffer
  overflows and ends the iteration (`leaderelection/component.go:107`). The
  `LostLeadershipEvent` of that term is buffered as well.
- The callback of an earlier term that still runs may pause the bus of a later
  one; `LeaderIsSeeded` speaks of terms whose predecessors' callbacks returned.

### Bounds

Every bound is a constant of the cfg or a field of the MC module's bounds record.

- `files`: three paths and two contents; journal entries are independent except
  for the order of the configuration file, which is one of the three.
- `agent_*`: two plans distinguish a good from a bad one and an old from a new
  one; two epochs a leader from its successor; three deployments let one arrive
  late after another.
- `deploy_*`: one to three renders, at most two pods and at most one of each
  fault (two verdicts); two callback slots, because a superseded callback may
  still run when the next one fires.
- `gate`: three renders of three contents, one refused; a cap of one retained
  render, so that two pods exceed it, and of two remembered verdicts, so that
  three contents do.
- `deployer`: two pods, a plan that passes and one that does not; two requests
  per pod and deployment, where the code makes three. The scenarios of
  `MCDeployer` each combine two or three of the faults. Two applies that a pod does
  not reload for let the refused plan stay in a worker while another is on disk.
- `coordinator`: two inputs and two pages; of the four combinations the gate
  accepts one, and the render's own check refuses one, so that content that passed
  the check is refused later. One refused output is remembered. One refresh finds a
  new page: `Recovers` asks that the timer of the next one runs, not what it finds.
  Six names each for pending revisions and output roots are more than are ever in use.
- `isolation`: three objects, the smallest number with a slice that halves
  unevenly and a pair that straddles the halves; all 256 sets of valid views.
- `bus`: three places in the buffer, one or two in a channel, so that each
  overflows; two terms, so that one overtakes the other.

Deadlock is not checked where the bounds stop the environment.

### Fairness

Goroutines that can go on do so; the environment is free and bounded.

- `Agent`: the apply in progress, start and recovery; the pacer gets the apply
  lock infinitely often if it keeps asking (strong fairness; a Go mutex in
  starvation mode hands the lock to its oldest waiter); the pacing window ends.
- `DeployScheduler`: the event loop, the deploy loop, the deployer, timers and
  their callbacks, the drain, and the gate's pass of a render.
- `RenderGate`: the check worker.
- `Deployer`: the event loop, the drain, and each pod's leg (HTTP requests have a
  timeout, so a leg ends even if the pod does not answer).
- `Coordinator`: the loop, the attempt, refresh and its callback, the validations
  and the handler of their results, the gate's newest verdict (`NewestIsJudged` of
  `RenderGate`), and the drift timer, which asks for a render from time to time.
- `InputIsolation`: the selection under way.
- `EventBus`: each publisher in its call, the handlers, the callbacks of a term,
  the replay and the subscriptions. Nothing obliges a term to end.

## Proofs

`AgentFilesProofs` proves, for every set of paths and contents and without the
bounds of the run:

- `JournalDiscipline`: `JournalInv`, the inductive invariant;
- `RollbackIsExact`: restoring the journal gives back exactly the last known good
  tree, at any moment;
- `CrashIsRecoverable`: the same for the journal of the state file after a crash,
  unless the save before the first write, or the one after `ClearJournal`, had not
  succeeded by then;
- `RestoreRestores`: a restore that completes has put back every path.

The properties are not inductive: that a rollback is exact says nothing about
which paths may differ from the good tree, so a step that installs a file could
not be shown to keep it. `JournalInv` says that a path without an entry is as in
the good tree, that an entry with a backup names a file with the good content
that nothing else names, that an entry without one stands for a path that did
not exist, that the paths still to be written have their entries, and how the
saved journal lags behind, which after failed saves may be by several steps; the types of the variables are its first conjunct. It
is also an invariant of the run `files`. `RestoreRestores` is about `RestoreIsExact`,
an action property that no run repeats.

`InputIsolationProofs` proves, for every finite set of objects, any revisions and
any dependence of validity on them:

- `AccountedAlways` and `JustifiedAlways`: where every change is during a
  selection, and why the rejected ones are rejected;
- `OnlyValidIsAccepted`: what is accepted passed validation as a whole and comes
  with its own output;
- `NoChangeIsLeftBehind`: no rejected change would pass on top of what is accepted;
- `AdmissionAgrees`: admission sees exactly the accepted view;
- `TypeCorrect`.

The inductive invariant is `Inductive`: the ranges of the variables together with
`Accounted`, which says that the branches passed and that a change not applied is
rejected or in a slice that waits. From it follow `AccountedAlways`,
`OnlyValidIsAccepted` and `AdmissionAgrees`. `NoChangeIsLeftBehind` needs more: that after a round in which nothing
passed every rejected change failed on the branches *as they are*. This is
`Justified`, preserved relative to `Inductive`, and it needs in turn that no group
is in two slices. The lemmas about slices carry these over `Head`, `Tail` and the
split in two halves. `TypeCorrect` adds what `bootstrap` withholds. The run checks
the properties of `OnlyValidIsAccepted` and `NoChangeIsLeftBehind`; the others are
only proved.

`RenderGateProofs` proves, for any contents, fleet, number of renders and terms, and
any caps:

- `GateKeepsPromise`: the gate implements `RenderVerdicts`, so a verdict on a
  render is given at most once and is the one its content deserves, and the latch
  moves with verdicts on the latest content only;
- `RunningIsRetained`: trimming never drops a superseded render that a pod runs.

A step of the abstract specification judges a render that has no verdict yet, with
the verdict it deserves. The state of the gate alone does not give that, because
the worker takes its render and perhaps a remembered answer in one hold of the
mutex and publishes in another. `Remembers` is the invariant that bridges them: a
remembered answer is HAProxy's, so is the one the worker took along, and the
render it checks has no verdict. `LatchFollowsNewest` rests on how many contents
the memory can hold and is only model-checked.

`DeploySchedulerProofs` proves, for any contents, fleets and retry budget and
any bounds on the environment:

- `NeverTwoDeployments`: the slot is free only when no deployment is with the
  deployer, timeouts, cancellations and the drain included;
- `RollsBackToGood`: the render a refusal rolls back to is one HAProxy accepted.

The first is not inductive without the completion signal: the loop goes on when
`done` is set, so `SlotOwned` adds that `done` is set only once the deployer has
nothing, and never while the loop is not waiting. The second needs that the
remembered occurrences are renders of this term, that appending a render keeps
the contents before it, and that the recovery render is owed only after a first
one (`Remembered`).

`CoordinatorProofs` proves, for any inputs and pages, any disagreement between the
check and the gate and any number of renders, refreshes, validations and terms:

- `RestoresOnlyProven`: a revocation restores a page a render has passed with, or none;
- `ProvenNotRevoked`: no refusal takes back the version a render passed with;
- `RefusedBaselineLeft`: a file baseline HAProxy refuses has its verdict coming.

`IInv` is the inductive invariant. A verdict names the revision its render observed,
and comes long after; so `Current` says that whatever was read at a revision, by a
selection under way, a render without a verdict or a verdict in the mailbox, is the
source's page while the source is at that revision, and that a candidate may be
committed only where there is no page. `OnTrial` says that a trial is that of the
accepted version, that without one the accepted page has passed, and that no trial
is left of the version that passed last. `Baseline` says that the confirmed output
is one HAProxy takes, that a refused baseline is the newest render, and that the
verdicts that wait are HAProxy's. Each conjunct has a lemma for its steps
(`CurrentStep`, `OnTrialStep`, `BaselineStep`), over one lemma per handler that says
what the handler may do to the store, the mailbox and the baseline.

The proofs use the named assumptions on the constants and nothing else. What
concerns `Agent`, `Deployer` and `EventBus`, the other properties of
`DeployScheduler` and `RenderGate`, and all liveness is only model-checked: TLAPS
as used here has no support for fairness arguments.

## Not modelled

Bytes and encodings (patches, hashes, multipart bodies, the runtime API's text),
the template engine and the diff of plans, Kubernetes clients, metrics and logs:
they are most of the repository and have little state a model checker could
explore. Parts left out of the modelled components:

- `Agent`: deferred deletes and the plan blob cache.
- `DeployScheduler`: the reset at the start of the next leadership term; events
  are all delivered, in the order of their publication by one publisher, so that
  a verdict does not overtake its render.
- `RenderGate`: the preparation of the files a check reads.
- `Deployer`: the choice between a difference and the full state with the caches
  it rests on (a request has any mode), in-place operations that fail and leave the
  pod without a baseline, the guard of retained configuration, reclaiming the epoch and the
  stand-down that ends the term, merging in the mailbox, renders that cannot be
  deployed.
- `Coordinator`: waiting for applied resources, the hold of a critical outage,
  failed fetches, gate checks that cannot run, eviction, several pages and their
  batches, the warming on followers; triggers may always be merged.
- `InputIsolation`: trials that end without a verdict (a context that ends, a snapshot
  that changed under the trial).
- `EventBus`: one fan-out is a single step; the announcement of another leader
  and the scatter-gather request are left out.
