--------------------------- MODULE DeployScheduler ---------------------------
(***************************************************************************)
(* The deployment scheduler of the HAPTIC controller during one leadership *)
(* term (pkg/controller/deployer/scheduler*.go, retained.go), with the     *)
(* deployer it drives and the pods' answers.                               *)
(*                                                                         *)
(* Four kinds of goroutines share its state under two mutexes: the event   *)
(* loop runs the handlers, the deploy loop dispatches the one pending      *)
(* deployment, timer callbacks re-send the deployable render, and Drain    *)
(* ends the term.  A step is what a goroutine does under one hold of a     *)
(* lock, or several holds nothing else can tell apart.                     *)
(*                                                                         *)
(* Renders are numbered by occurrence.  A render whose content is that of  *)
(* the render before it shares its output root, any other has a new one.   *)
(* The work revision and the retry generation only ever tell whether what  *)
(* was captured is still current, so each holder keeps that fact instead   *)
(* of a counter.                                                           *)
(***************************************************************************)
EXTENDS Integers, Sequences, FiniteSets

CONSTANTS
    Contents,     \* what a render may contain
    Bad,          \* the contents HAProxy refuses
    Fleets,       \* the pod sets discovery may report, {} among them or not
    Retained,     \* whether recovery of a retained configuration is wired
    MaxRetries,   \* maxDeployFailureRetries
    Bounds        \* bounds on what the environment does, a set of records:
                  \*   render    renders of changed or unchanged input
                  \*   pods      discoveries
                  \*   fail      applies to a pod that fail
                  \*   reload    applies that leave a pod waiting for its reload
                  \*   timeout   deployments that time out
                  \*   verdict   verdicts of the render gate
                  \*   gate      render checks that cannot run
                  \*   invalid   failed validations
                  \*   broken    failed reconciliations
                  \*   drain     drains

ASSUME ContentsAssumption == Bad \subseteq Contents /\ 0 \notin Contents
ASSUME FleetsAssumption == \A f \in Fleets : IsFiniteSet(f)
ASSUME RetainedAssumption == Retained \in BOOLEAN
ASSUME RetriesAssumption == MaxRetries \in Nat
ASSUME BoundsAssumption ==
    Bounds \subseteq [{"render", "pods", "fail", "reload", "timeout", "verdict", "gate",
                       "invalid", "broken", "drain"} -> Nat]

Pods == UNION Fleets
None == <<>>
NoRender == 0
Checkpoint == -1      \* the occurrence made of the retained configuration
Slots == 1..2         \* bound: timer callbacks running at the same time

VARIABLES
    hist,        \* the content of every render so far
    rendered,    \* lastRenderedOccurrence
    validated,   \* lastValidatedOccurrence: the deployable render
    accepted,    \* acceptedRender
    pinned,      \* gatePinned
    eps,         \* currentEndpoints
    deployed,    \* lastDeployedOccurrence with its pod set
    dispatched,  \* lastDispatchedOccurrence
    ev,          \* the event loop inside scheduleOrQueueOccurrence
    pend,        \* state.pending
    loop,        \* the deploy loop
    taken,       \* the deployment the deploy loop took from the slot
    active,      \* state.activeOccurrence and deploymentTimedOut
    done,        \* a token in the completed channel
    scheduled,   \* state.lastScheduled
    podSet,      \* lastPodSetHash
    timer,       \* retryTimer
    cbs,         \* callbacks of fired timers
    retries,     \* deployFailureRetries and lastFailedRetry
    followUp,    \* followUpArmed
    drain,       \* draining, drainOccurrence and the goroutine in Drain
    progress,    \* a token in the drainProgress channel
    ret,         \* retained recovery
    dply,        \* the deployer's deployment
    got,         \* per pod, the render it was last given
    judged,      \* the last render the gate gave a verdict on
    owed,        \* the reconciliation a timeout triggered
    left         \* what is left of the bounds

renders == <<hist, rendered, validated, accepted, pinned>>
caches == <<deployed, dispatched>>
slot == <<pend, taken, loop, active, done, scheduled, podSet>>
retry == <<timer, cbs, retries, followUp>>
drains == <<drain, progress>>
world == <<dply, got, judged, owed>>
vars == <<renders, eps, caches, ev, slot, retry, drains, ret, world, left>>

-----------------------------------------------------------------------------
(* Identity *)

Content(o) == IF o = Checkpoint THEN 0 ELSE hist[o]

samePlan(a, b) == a # NoRender /\ b # NoRender /\ Content(a) = Content(b)

\* In history h: the renderer compares a render with the one before it only.
sameOccurrenceOutput(h, a, b) ==
    /\ a # NoRender /\ b # NoRender
    /\ \/ a = b
       \/ /\ a # Checkpoint /\ b # Checkpoint
          /\ \A k \in 1..Len(h) : (a <= k /\ k <= b) \/ (b <= k /\ k <= a) => h[k] = h[a]

\* One unit of a bound is used up.
Use(b) == left[b] > 0 /\ left' = [left EXCEPT ![b] = @ - 1]

-----------------------------------------------------------------------------
(* Scheduling *)

\* workRevision++: what was captured before is no longer current.
Outdate(x) == IF x = None THEN None ELSE [x EXCEPT !.rev = FALSE]
NewRevision(p) ==
    /\ pend' = p
    /\ taken' = Outdate(taken) /\ timer' = Outdate(timer)
    /\ cbs' = [i \in Slots |-> Outdate(cbs[i])]

\* stopRetryTimerLocked, then a new timer or none.
stopRetryTimer(t) ==
    /\ timer' = t
    /\ cbs' = [i \in Slots |-> IF cbs[i] = None THEN None ELSE [cbs[i] EXCEPT !.gen = FALSE]]

\* A timer for a failed deployment or for a follow-up of a paced reload is armed.
Arm(follow) ==
    /\ stopRetryTimer([rev |-> TRUE, fired |-> FALSE, follow |-> follow])
    /\ followUp' = follow

pendingRevisionCurrent(d) == d.rev /\ (d.retry => d.gen)

drainAdmits(o) == drain.on => samePlan(o, drain.occ)

\* The event loop enters scheduleOrQueueOccurrence.
Schedule(o, e) == ev' = [pc |-> "revise", occ |-> o, eps |-> e]

Revise ==
    /\ ev # None /\ ev.pc = "revise"
    /\ IF drainAdmits(ev.occ)
       THEN NewRevision(Outdate(pend)) /\ ev' = [ev EXCEPT !.pc = "install"]
       ELSE ev' = None /\ UNCHANGED <<pend, taken, timer, cbs>>
    /\ UNCHANGED <<renders, eps, caches, loop, active, done, scheduled, podSet,
                   retries, followUp, drains, ret, world, left>>

installPending ==
    /\ ev # None /\ ev.pc = "install"
    /\ pend' = IF drainAdmits(ev.occ)
               THEN [occ |-> ev.occ, eps |-> ev.eps, rev |-> TRUE, retry |-> FALSE,
                     gen |-> TRUE]
               ELSE pend
    /\ ev' = None
    /\ UNCHANGED <<renders, eps, caches, taken, loop, active, done, scheduled, podSet,
                   retry, drains, ret, world, left>>

-----------------------------------------------------------------------------
(* Renders and verdicts *)

\* Mutant of renderAlreadyDeployed: contents are compared instead of outputs.
renderAlreadyDeployed_ByContent(h, o) ==
    /\ deployed.occ > 0 /\ h[o] = h[deployed.occ]
    /\ sameOccurrenceOutput(h, dispatched, deployed.occ)
    /\ eps = deployed.eps

renderAlreadyDeployed(h, o) ==
    /\ sameOccurrenceOutput(h, o, deployed.occ)
    /\ sameOccurrenceOutput(h, dispatched, deployed.occ)
    /\ eps = deployed.eps

\* dispatchRender, after promoteRendered made o the deployable render.
dispatchRender(h, o, drift) ==
    IF eps = {} \/ (~drift /\ renderAlreadyDeployed(h, o)) THEN UNCHANGED ev
    ELSE Schedule(o, eps)

awaitingFirstAcceptedRender == Retained /\ accepted = NoRender

\* handleTemplateRendered, for a changed input, an unchanged one or a drift pass.
Rendered(c, drift) ==
    LET h == Append(hist, c) IN
    /\ ev = None
    /\ hist' = h /\ rendered' = Len(h)
    /\ ret' = [ret EXCEPT !.err = FALSE, !.rec = IF @ = "valid" THEN "stale" ELSE @]
    /\ IF pinned \/ awaitingFirstAcceptedRender THEN UNCHANGED <<validated, ev>>
       ELSE validated' = Len(h) /\ dispatchRender(h, Len(h), drift)
    /\ UNCHANGED <<accepted, pinned, eps, caches, slot, retry, drains, dply, got, judged>>

handleTemplateRendered ==
    /\ Use("render")
    /\ \E c \in Contents, drift \in BOOLEAN : Rendered(c, drift)
    /\ UNCHANGED owed

\* The reconciliation checkDeploymentTimeout triggered renders the same input.
RecoveryRender ==
    /\ owed
    /\ owed' = FALSE
    /\ Rendered(hist[Len(hist)], FALSE)
    /\ UNCHANGED left

\* The gate's verdicts on the renders that were its newest arrive in order, a
\* render it could not check again and again; newer renders may come first.
Judge(n, settled) ==
    /\ ev = None
    /\ n > judged
    /\ judged' = IF settled THEN n ELSE judged

\* dropPendingRender
dropPendingRender(n) ==
    IF pend # None /\ samePlan(pend.occ, n)
    THEN NewRevision(None) ELSE UNCHANGED <<pend, taken, timer, cbs>>

\* handleRenderGateCompleted with a failure, and holdAfterRefusal.  Only
\* HAProxy's own refusal moves the deployable render back.
GateFailed(n, refused) ==
    /\ Judge(n, refused)
    /\ IF refused THEN hist[n] \in Bad /\ Use("verdict") ELSE Use("gate")
    /\ IF samePlan(rendered, n) \/ samePlan(validated, n)
       THEN /\ pinned' = TRUE
            /\ validated' = IF /\ refused /\ accepted # NoRender
                               /\ samePlan(validated, n) /\ ~samePlan(accepted, n)
                            THEN accepted ELSE validated
            /\ dropPendingRender(n)
            /\ ret' = [ret EXCEPT !.err = TRUE]
       ELSE UNCHANGED <<pinned, validated, pend, taken, timer, cbs, ret>>
    /\ UNCHANGED <<hist, rendered, accepted, eps, caches, ev, loop, active, done, scheduled,
                   podSet, retries, followUp, drains, dply, got, owed>>

\* Mutant of GatePassed: any pass snapshots the deployable render.
GatePassed_AcceptsAny(n) ==
    LET held == pinned \/ awaitingFirstAcceptedRender
        namesHeldRender == samePlan(rendered, n)
        alreadyDispatched == samePlan(validated, n)
    IN
    /\ Judge(n, TRUE)
    /\ hist[n] \notin Bad /\ Use("verdict")
    /\ IF ~alreadyDispatched /\ (~namesHeldRender \/ ret.err)
       THEN accepted' = validated /\ UNCHANGED <<pinned, validated, ev>>
       ELSE /\ pinned' = (pinned /\ held /\ ~namesHeldRender)
            /\ IF held /\ namesHeldRender /\ ~alreadyDispatched
               THEN /\ validated' = rendered /\ accepted' = rendered
                    /\ dispatchRender(hist, rendered, FALSE)
               ELSE /\ accepted' = validated
                    /\ UNCHANGED <<validated, ev>>
    /\ UNCHANGED <<hist, rendered, eps, caches, slot, retry, drains, ret, dply, got, owed>>

\* handleRenderGateCompleted with a pass: the latch opens, and a render it held
\* is dispatched and becomes what a later refusal rolls back to.
GatePassed(n) ==
    LET held == pinned \/ awaitingFirstAcceptedRender
        namesHeldRender == samePlan(rendered, n)
        alreadyDispatched == samePlan(validated, n)
    IN
    /\ Judge(n, TRUE)
    /\ hist[n] \notin Bad /\ Use("verdict")
    /\ IF ~alreadyDispatched /\ (~namesHeldRender \/ ret.err)
       THEN UNCHANGED <<pinned, validated, accepted, ev>>
       ELSE /\ pinned' = (pinned /\ held /\ ~namesHeldRender)
            /\ IF held /\ namesHeldRender /\ ~alreadyDispatched
               THEN /\ validated' = rendered /\ accepted' = rendered
                    /\ dispatchRender(hist, rendered, FALSE)
               ELSE /\ accepted' = IF alreadyDispatched THEN validated ELSE accepted
                    /\ UNCHANGED <<validated, ev>>
    /\ UNCHANGED <<hist, rendered, eps, caches, slot, retry, drains, ret, dply, got, owed>>

-----------------------------------------------------------------------------
(* Discovery, failed validations and failed reconciliations *)

\* performPodsDiscovered
performPodsDiscovered(e) ==
    /\ ev = None
    /\ Use("pods")
    /\ eps' = e
    /\ IF podSet # None /\ podSet # <<e>>
       THEN /\ NewRevision(None)
            /\ dply' = IF dply = None THEN None ELSE [dply EXCEPT !.cancelled = TRUE]
       ELSE UNCHANGED <<pend, taken, timer, cbs, dply>>
    /\ IF validated = NoRender \/ e = {} THEN UNCHANGED ev
       ELSE Schedule(validated, e)
    /\ UNCHANGED <<renders, caches, loop, active, done, scheduled, podSet, retries, followUp,
                   drains, ret, got, judged, owed>>

\* handleValidationFailed re-sends the deployable render.
handleValidationFailed ==
    /\ ev = None
    /\ Use("invalid")
    /\ validated # NoRender /\ eps # {}
    /\ Schedule(validated, eps)
    /\ UNCHANGED <<renders, eps, caches, slot, retry, drains, ret, world>>

\* renderFailedForRetention
ReconciliationFailed ==
    /\ ev = None
    /\ Use("broken")
    /\ ret' = [ret EXCEPT !.err = TRUE]
    /\ UNCHANGED <<renders, eps, caches, ev, slot, retry, drains, world>>

\* maybeRecoverRetained, from a handler or from the ticker.
maybeRecoverRetained ==
    /\ Retained
    /\ ev = None
    /\ ret.err /\ ret.rec = "no" /\ validated = NoRender /\ eps # {}
    /\ ret' = [ret EXCEPT !.rec = "valid", !.eps = eps]
    /\ UNCHANGED <<renders, eps, caches, ev, slot, retry, drains, world, left>>

\* Mutant of handleRetainedResult: the result of a cancelled recovery is used.
handleRetainedResult_Stale(found) ==
    /\ ev = None
    /\ ret.rec # "no"
    /\ ret' = [ret EXCEPT !.rec = "no", !.eps = {}]
    /\ found => /\ \E p \in ret.eps : got[p] = NoRender
                /\ \A p \in ret.eps : got[p] \in {NoRender, Checkpoint}
    /\ IF found /\ eps = ret.eps
       THEN Schedule(Checkpoint, eps)
       ELSE UNCHANGED ev
    /\ UNCHANGED <<renders, eps, caches, slot, retry, drains, world, left>>

\* handleRetainedResult: the fleet has a pod without a configuration and its
\* other pods run the retained one, or there is nothing to recover.
handleRetainedResult(found) ==
    /\ ev = None
    /\ ret.rec # "no"
    /\ ret' = [ret EXCEPT !.rec = "no", !.eps = {}]
    /\ found => /\ \E p \in ret.eps : got[p] = NoRender
                /\ \A p \in ret.eps : got[p] \in {NoRender, Checkpoint}
    /\ IF found /\ ret.rec = "valid" /\ ret.err /\ validated = NoRender /\ eps = ret.eps
       THEN Schedule(Checkpoint, eps)
       ELSE UNCHANGED ev
    /\ UNCHANGED <<renders, eps, caches, slot, retry, drains, world, left>>

-----------------------------------------------------------------------------
(* The deploy loop *)

\* runDeployLoop takes the pending deployment: dispatching is TRUE from here.
TakePending ==
    /\ loop = "idle" /\ pend # None
    /\ taken' = pend /\ pend' = None /\ loop' = "taken"
    /\ UNCHANGED <<renders, eps, caches, ev, active, done, scheduled, podSet, retry, drains,
                   ret, world, left>>

\* The deployer starts on a published deployment.
Published(d) ==
    dply' = [occ |-> d.occ, eps |-> d.eps, left |-> d.eps, cancelled |-> FALSE,
             failed |-> FALSE, waiting |-> FALSE]

\* Mutant of dispatchPending: the revision is not checked again.
dispatchPending_Unchecked ==
    /\ loop = "taken"
    /\ taken' = None
    /\ IF taken # None
       THEN /\ active' = [occ |-> taken.occ, eps |-> taken.eps, late |-> FALSE]
            /\ scheduled' = taken.occ
            /\ podSet' = <<taken.eps>>
            /\ loop' = "await"
            /\ Published(taken)
       ELSE loop' = "skip" /\ UNCHANGED <<active, scheduled, podSet, dply>>
    /\ UNCHANGED <<renders, eps, caches, ev, pend, done, retry, drains, ret, got, judged,
                   owed, left>>

dispatchPending ==
    /\ loop = "taken"
    /\ taken' = None
    /\ IF pendingRevisionCurrent(taken)
       THEN /\ active' = [occ |-> taken.occ, eps |-> taken.eps, late |-> FALSE]
            /\ scheduled' = taken.occ
            /\ podSet' = <<taken.eps>>
            /\ loop' = "await"
            /\ Published(taken)
       ELSE loop' = "skip" /\ UNCHANGED <<active, scheduled, podSet, dply>>
    /\ UNCHANGED <<renders, eps, caches, ev, pend, done, retry, drains, ret, got, judged,
                   owed, left>>

\* Mutant of Release: a drain is not told.
Release_Silent ==
    /\ loop = "skip" \/ (loop = "await" /\ done)
    /\ done' = (done /\ loop = "skip")
    /\ loop' = "idle" /\ UNCHANGED progress
    /\ UNCHANGED <<renders, eps, caches, ev, pend, taken, active, scheduled, podSet, retry,
                   drain, ret, world, left>>

\* awaitCompletion returned, or nothing was dispatched: dispatching is FALSE.
Release ==
    /\ loop = "skip" \/ (loop = "await" /\ done)
    /\ done' = (done /\ loop = "skip")
    /\ loop' = "idle" /\ progress' = TRUE
    /\ UNCHANGED <<renders, eps, caches, ev, pend, taken, active, scheduled, podSet, retry,
                   drain, ret, world, left>>

\* Mutant of checkDeploymentTimeout: the timeout frees the slot.
checkDeploymentTimeout_Frees ==
    /\ ev = None
    /\ active # None /\ ~active.late
    /\ Use("timeout")
    /\ active' = None /\ done' = TRUE
    /\ dply' = [dply EXCEPT !.cancelled = TRUE]
    /\ owed' = (hist # <<>>)
    /\ UNCHANGED <<renders, eps, caches, ev, pend, taken, loop, scheduled, podSet,
                   retry, drains, ret, got, judged>>

\* checkDeploymentTimeout: the slot stays owned until the completion arrives.
checkDeploymentTimeout ==
    /\ ev = None
    /\ active # None /\ ~active.late
    /\ Use("timeout")
    /\ active' = [active EXCEPT !.late = TRUE]
    /\ dply' = [dply EXCEPT !.cancelled = TRUE]
    /\ owed' = (hist # <<>>)
    /\ UNCHANGED <<renders, eps, caches, ev, pend, taken, loop, done, scheduled, podSet,
                   retry, drains, ret, got, judged>>

-----------------------------------------------------------------------------
(* The deployer: deployToEndpoints, one pod at a time *)

\* The apply to a pod succeeds; a retained configuration goes to pods without one.
DeployPod(p, waits) ==
    /\ dply # None /\ p \in dply.left
    /\ IF waits THEN Use("reload") ELSE UNCHANGED left
    /\ got' = IF dply.occ = Checkpoint /\ got[p] # NoRender THEN got
              ELSE [got EXCEPT ![p] = dply.occ]
    /\ dply' = [dply EXCEPT !.left = @ \ {p}, !.waiting = @ \/ waits]
    /\ UNCHANGED <<renders, eps, caches, ev, slot, retry, drains, ret, judged, owed>>

\* It fails, before or after the pod took it, or a cancellation stops it.
FailPod(p, took) ==
    /\ dply # None /\ p \in dply.left
    /\ IF dply.cancelled THEN UNCHANGED left ELSE Use("fail")
    /\ took /\ dply.occ = Checkpoint => got[p] = NoRender
    /\ got' = IF took THEN [got EXCEPT ![p] = dply.occ] ELSE got
    /\ dply' = [dply EXCEPT !.left = @ \ {p}, !.failed = TRUE]
    /\ UNCHANGED <<renders, eps, caches, ev, slot, retry, drains, ret, judged, owed>>

\* Mutant of scheduleFailureRetry: the last attempt of the budget is lost.
scheduleFailureRetry_Never(o) ==
    retries' = [occ |-> o, n |-> MaxRetries] /\ UNCHANGED <<timer, cbs, followUp>>

\* scheduleFailureRetry
scheduleFailureRetry(o) ==
    LET n == IF retries.occ = o THEN retries.n ELSE 0 IN
    IF n >= MaxRetries
    THEN retries' = [occ |-> o, n |-> n] /\ UNCHANGED <<timer, cbs, followUp>>
    ELSE retries' = [occ |-> o, n |-> n + 1] /\ Arm(FALSE)

\* schedulePendingReloadFollowUp
schedulePendingReloadFollowUp == Arm(TRUE) /\ UNCHANGED retries

\* cancelFailureRetry
cancelFailureRetry ==
    /\ stopRetryTimer(None)
    /\ followUp' = FALSE
    /\ retries' = [occ |-> NoRender, n |-> 0]

\* handleDeploymentCompleted, with retireActiveDeployment and
\* cacheDeploymentCompletion: a completion after the timeout only frees the slot.
handleDeploymentCompleted ==
    /\ ev = None
    /\ dply # None /\ dply.left = {}
    /\ dply' = None /\ active' = None /\ done' = TRUE
    /\ IF active.late THEN UNCHANGED <<caches, pend, retry>>
       ELSE /\ dispatched' = dply.occ
            /\ deployed' = IF dply.failed \/ dply.waiting THEN deployed
                           ELSE [occ |-> dply.occ, eps |-> dply.eps]
            /\ \/ dply.failed /\ scheduleFailureRetry(dply.occ) /\ UNCHANGED pend
               \/ ~dply.failed /\ dply.waiting /\ schedulePendingReloadFollowUp /\ UNCHANGED pend
               \/ /\ ~dply.failed /\ ~dply.waiting
                  /\ cancelFailureRetry
                  /\ pend' = IF pend # None /\ pend.retry THEN None ELSE pend
    /\ UNCHANGED <<renders, eps, ev, taken, loop, scheduled, podSet, drains, ret, got, judged,
                   owed, left>>

-----------------------------------------------------------------------------
(* Timer callbacks *)

Move(i, pc) == cbs' = [cbs EXCEPT ![i].pc = pc]

\* The armed timer fires.
Fire(i) ==
    /\ timer # None /\ ~timer.fired
    /\ cbs[i] = None /\ \A j \in Slots : j < i => cbs[j] # None
    /\ timer' = [timer EXCEPT !.fired = TRUE]
    /\ cbs' = [cbs EXCEPT ![i] = [pc |-> "check", gen |-> TRUE, rev |-> timer.rev,
                                  follow |-> timer.follow, draining |-> FALSE, occ |-> NoRender, eps |-> {}]]
    /\ UNCHANGED <<renders, eps, caches, ev, slot, retries, followUp, drains, ret, world, left>>

\* runRetry
runRetry(i) ==
    /\ cbs[i] # None /\ cbs[i].pc = "check"
    /\ timer' = IF cbs[i].gen THEN None ELSE timer
    /\ Move(i, IF cbs[i].gen /\ cbs[i].rev THEN "look" ELSE "settle")
    /\ UNCHANGED <<renders, eps, caches, ev, slot, retries, followUp, drains, ret, world, left>>

\* rescheduleLastValidated, its hold of schedulerMutex
LookAtSlot(i) ==
    /\ cbs[i] # None /\ cbs[i].pc = "look"
    /\ IF pend # None /\ ~pend.retry THEN Move(i, "settle")
       ELSE cbs' = [cbs EXCEPT ![i].pc = "read", ![i].draining = drain.on,
                               ![i].occ = drain.occ]
    /\ UNCHANGED <<renders, eps, caches, ev, slot, timer, retries, followUp, drains, ret,
                   world, left>>

\* rescheduleLastValidated, its hold of mu
rescheduleLastValidated(i) ==
    LET o == IF cbs[i].draining THEN cbs[i].occ ELSE validated IN
    /\ cbs[i] # None /\ cbs[i].pc = "read"
    /\ IF eps = {} \/ o = NoRender THEN Move(i, "settle")
       ELSE cbs' = [cbs EXCEPT ![i].pc = "install", ![i].occ = o, ![i].eps = eps]
    /\ UNCHANGED <<renders, eps, caches, ev, slot, timer, retries, followUp, drains, ret,
                   world, left>>

\* installPending, from a callback
InstallRetry(i) ==
    LET d == [occ |-> cbs[i].occ, eps |-> cbs[i].eps, rev |-> cbs[i].rev,
              retry |-> TRUE, gen |-> cbs[i].gen]
    IN
    /\ cbs[i] # None /\ cbs[i].pc = "install"
    /\ pend' = IF pendingRevisionCurrent(d) /\ drainAdmits(d.occ) THEN d ELSE pend
    /\ Move(i, "settle")
    /\ UNCHANGED <<renders, eps, caches, ev, taken, loop, active, done, scheduled, podSet,
                   timer, retries, followUp, drains, ret, world, left>>

settleFollowUp(i) ==
    /\ cbs[i] # None /\ cbs[i].pc = "settle"
    /\ followUp' = (followUp /\ timer # None)
    /\ progress' = TRUE
    /\ cbs' = [cbs EXCEPT ![i] = None]
    /\ UNCHANGED <<renders, eps, caches, ev, slot, timer, retries, drain, ret, world, left>>

-----------------------------------------------------------------------------
(* Drain *)

Drain ==
    /\ Use("drain")
    /\ ~drain.on
    /\ drain' = [on |-> TRUE, occ |-> scheduled, pc |-> "look"]
    /\ pend' = IF pend # None /\ ~samePlan(pend.occ, scheduled) THEN None ELSE pend
    /\ UNCHANGED <<renders, eps, caches, ev, taken, loop, active, done, scheduled, podSet,
                   retry, progress, ret, world>>

DrainSettled ==
    /\ drain.pc = "look"
    /\ drain' = [drain EXCEPT !.pc = IF loop = "idle" /\ pend = None /\ ~followUp
                                     THEN "returned" ELSE "wait"]
    /\ UNCHANGED <<renders, eps, caches, ev, slot, retry, progress, ret, world, left>>

DrainWoken ==
    /\ drain.pc = "wait" /\ progress
    /\ progress' = FALSE
    /\ drain' = [drain EXCEPT !.pc = "look"]
    /\ UNCHANGED <<renders, eps, caches, ev, slot, retry, ret, world, left>>

-----------------------------------------------------------------------------
Init ==
    /\ hist = <<>> /\ rendered = NoRender /\ validated = NoRender /\ accepted = NoRender
    /\ pinned = FALSE /\ eps = {}
    /\ deployed = [occ |-> NoRender, eps |-> {}] /\ dispatched = NoRender
    /\ ev = None /\ pend = None /\ loop = "idle" /\ taken = None
    /\ active = None /\ done = FALSE /\ scheduled = NoRender /\ podSet = None
    /\ timer = None /\ cbs = [i \in Slots |-> None]
    /\ retries = [occ |-> NoRender, n |-> 0] /\ followUp = FALSE
    /\ drain = [on |-> FALSE, occ |-> NoRender, pc |-> "no"] /\ progress = FALSE
    /\ ret = [err |-> FALSE, rec |-> "no", eps |-> {}]
    /\ dply = None /\ got = [p \in Pods |-> NoRender]
    /\ judged = 0 /\ owed = FALSE /\ left \in Bounds

Gate == \E n \in 1..Len(hist) : GatePassed(n) \/ \E refused \in BOOLEAN : GateFailed(n, refused)

Retention == ReconciliationFailed \/ maybeRecoverRetained
             \/ \E found \in BOOLEAN : handleRetainedResult(found)

EventLoop == Revise \/ installPending
DeployLoop == TakePending \/ dispatchPending \/ Release
Deployer == \E p \in Pods, b \in BOOLEAN : DeployPod(p, b) \/ FailPod(p, b)
Callback == \E i \in Slots :
    Fire(i) \/ runRetry(i) \/ LookAtSlot(i) \/ rescheduleLastValidated(i)
            \/ InstallRetry(i) \/ settleFollowUp(i)
Drainer == Drain \/ DrainSettled \/ DrainWoken

Next ==
    \/ handleTemplateRendered \/ RecoveryRender \/ Gate
    \/ \E e \in Fleets : performPodsDiscovered(e)
    \/ handleValidationFailed \/ Retention
    \/ EventLoop \/ DeployLoop \/ checkDeploymentTimeout
    \/ Deployer \/ handleDeploymentCompleted
    \/ Callback \/ Drainer

Spec == Init /\ [][Next]_vars

-----------------------------------------------------------------------------
(* Properties *)

\* The slot is owned from the dispatch of a deployment until its completion is
\* handled, a timeout included: the deploy loop never publishes a deployment
\* while the deployer still works on another one.
OneDeploymentAtATime == loop \in {"idle", "taken", "skip"} => dply = None /\ active = None

\* What a refusal rolls the scheduler back to is a render HAProxy accepted, in
\* whatever order verdicts, renders and releases of the latch arrive.
AcceptedIsGood == accepted # NoRender => hist[accepted] \notin Bad

\* A render dispatchRender skips as already deployed is what every pod of the
\* current set was last given, whatever timed out, failed or was cancelled since.
SkipIsSound ==
    [][ (validated' # validated /\ validated' = rendered' /\ eps # {} /\ ev' = None)
        => (\A p \in eps : sameOccurrenceOutput(hist, got[p], validated))' ]_vars

\* Latest wins: outside a drain the deploy loop dispatches the deployable render
\* to the current pods, never an older one; only while the event loop is about to
\* replace it may the one before go out.
DispatchesTheDeployable ==
    [][ (loop = "taken" /\ loop' = "await" /\ ~drain.on /\ ev = None /\ scheduled' # Checkpoint)
        => sameOccurrenceOutput(hist, scheduled', validated) /\ podSet' = <<eps>> ]_vars

\* The retained configuration never replaces a render: it is not dispatched once
\* a render is deployable, and never reaches a pod that was given one.
RetainedYields ==
    [][ /\ (loop = "taken" /\ loop' = "await" /\ scheduled' = Checkpoint /\ ev = None /\ eps # {})
           => validated = NoRender
        /\ \A p \in Pods : got[p] > 0 => got'[p] # Checkpoint ]_vars

Fairness ==
    /\ WF_vars(EventLoop) /\ WF_vars(DeployLoop) /\ WF_vars(handleDeploymentCompleted)
    /\ WF_vars(\E p \in Pods : DeployPod(p, FALSE) \/ FailPod(p, FALSE))
    /\ WF_vars(Callback) /\ WF_vars(RecoveryRender)
    /\ WF_vars(\E n \in 1..Len(hist) : GatePassed(n))
    /\ WF_vars(DrainSettled \/ DrainWoken)

FairSpec == Spec /\ Fairness

Converged == \A p \in eps : sameOccurrenceOutput(hist, got[p], validated)

\* Once inputs and pods stop changing, every pod is given the deployable render,
\* though applies fail within the retry budget, deployments time out or are
\* cancelled, and reloads are paced; a drain, which ends the term, excepted.
Converges == <>[](drain.on \/ (validated # NoRender => Converged))

\* Drain returns (scheduler_drain.go:24).
DrainReturns == [](drain.pc = "look" => <>(drain.pc = "returned"))

=============================================================================
