------------------------------ MODULE Deployer ------------------------------
(***************************************************************************)
(* The deployer of one replica, across its leadership terms.  One event    *)
(* loop executes the scheduled deployments and the render gate's verdicts, *)
(* a second goroutine the cancellation requests, and Drain is called from  *)
(* the goroutine that ends the term.  A deployment and a revert fan out    *)
(* over the pods: read the pod's state, send one fenced request, take the  *)
(* answer.  A request whose sender stopped waiting can still reach the     *)
(* agent.                                                                  *)
(*                                                                         *)
(* The agent is reduced to its fence and to the plans it reports: applied, *)
(* loaded, carried by the worker, last known good (module Agent has the    *)
(* rest); the scheduler to one outstanding deployment (DeployScheduler),   *)
(* the gate to its verdict.  A rival leader may take the pods over.        *)
(***************************************************************************)
EXTENDS Integers, Sequences

CONSTANTS
    Pods,              \* the pods
    Fleets,            \* the sets of pods a deployment may name
    Plans,             \* the plans the controller renders
    Bad,               \* the plans the render gate refuses
    Boot,              \* the plan the pods hold before the first deployment
    MaxApplyAttempts,  \* requests one deployment sends one pod
    Bounds             \* how often each thing may happen, one record per scenario

ASSUME DeployerAssumption ==
    /\ Bad \subseteq Plans /\ Boot \in Plans \ Bad
    /\ MaxApplyAttempts \in Nat \ {0}
    /\ Fleets \subseteq (SUBSET Pods) \ {{}}
    /\ Bounds \subseteq [{"deploy", "cancel", "verdict", "drain", "term", "end", "rival",
                          "fail", "pace", "reload", "refuse"} -> Nat]

VARIABLES
    term,   \* the leadership term: number, epoch, event loop, context
    mail,   \* the event loop's mailbox
    asks,   \* the cancellation requests not yet read
    ctl,    \* under cancelMu: active deployment, pending cancellation, draining
    drain,  \* the call to Drain: of which term, where, the deployment it awaits
    job,    \* the handler the event loop is in
    fleet,  \* the pods of the last deployment
    passed, \* validatedPlans: what the gate passed
    pod,    \* what every pod holds
    net,    \* requests on their way to an agent
    open,   \* the deployment the scheduler waits for, or 0
    lease,  \* the highest leader epoch handed out
    seen,   \* history: events, the term's first, the last begun's pods, cancellations
    left    \* what may still happen

vars == <<term, mail, asks, ctl, drain, job, fleet, passed, pod, net, open, lease, seen,
          left>>

-----------------------------------------------------------------------------
(* State *)

Idle == [kind |-> "none"]

\* A plan as an agent names it: its id, and the proof of the occurrence.
NoRef == [id |-> "none", pf |-> 0]

\* A pod's part before its state is read: the version of the state, and the
\* reference the request will name.
Unread(round) == [at |-> "todo", round |-> round, gen |-> 0, ref |-> NoRef]

\* The handler of event e over the pods eps.  Every pod's part starts with
\* reading its state.
Handler(kind, e, eps, stopped) ==
    [kind |-> kind, id |-> e.id, plan |-> e.plan, stopped |-> stopped, outranked |-> FALSE,
     leg |-> [p \in eps |-> Unread(1)]]

Fanned == job.kind \in {"deploy", "revert"}
Settled == \A p \in DOMAIN job.leg : job.leg[p].at \in {"ok", "failed", "skipped"}

\* The pod holds plan x, on disk or in its worker's runtime state, and no
\* reload has read it.
Unproven(p, x) == x \in {pod[p].plan.id, pod[p].ops.id} /\ pod[p].running.id # x

Init ==
    /\ term = [no |-> 0, epoch |-> 0, loop |-> FALSE, ctx |-> FALSE]
    /\ mail = <<>> /\ asks = <<>>
    /\ ctl = [active |-> 0, pending |-> 0, draining |-> FALSE]
    /\ drain = [by |-> 0, at |-> "idle", done |-> 0]
    /\ job = Idle /\ fleet = {} /\ passed = {}
    /\ LET boot == [id |-> Boot, pf |-> 1] IN
       pod = [p \in Pods |-> [plan |-> boot, running |-> boot, ops |-> boot, lkg |-> boot,
                              pend |-> FALSE, gen |-> 1, loaded |-> {Boot}, epoch |-> 0]]
    /\ net = {} /\ open = 0 /\ lease = 0
    /\ seen = [events |-> 0, first |-> 1, eps |-> {}, plan |-> Boot, cancelled |-> {}]
    /\ left \in Bounds

Spend(f) == left[f] > 0 /\ left' = [left EXCEPT ![f] = @ - 1]

-----------------------------------------------------------------------------
(* Leadership terms *)

\* Start: a term begins under a new epoch, with what the previous one left
\* flushed.  The scheduler starts with it and waits for nothing.
Start ==
    /\ ~term.loop /\ job = Idle /\ Spend("term")
    /\ lease' = lease + 1
    /\ term' = [no |-> term.no + 1, epoch |-> lease + 1, loop |-> TRUE, ctx |-> TRUE]
    /\ mail' = <<>> /\ asks' = <<>>
    /\ ctl' = [active |-> 0, pending |-> 0, draining |-> FALSE]
    /\ open' = 0 /\ seen' = [seen EXCEPT !.first = seen.events + 1]
    /\ UNCHANGED <<drain, job, fleet, passed, pod, net>>

\* The term's context is cancelled, and with it the handler's.
TermEnds ==
    /\ term.ctx /\ Spend("end")
    /\ term' = [term EXCEPT !.ctx = FALSE]
    /\ job' = IF Fanned THEN [job EXCEPT !.stopped = TRUE] ELSE job
    /\ UNCHANGED <<mail, asks, ctl, drain, fleet, passed, pod, net, open, lease, seen>>

\* Base.Start returns between two handlers, and Start after it: events are no
\* longer accepted, what the mailbox still holds stays there.
LoopReturns ==
    /\ term.loop /\ ~term.ctx /\ job = Idle
    /\ term' = [term EXCEPT !.loop = FALSE]
    /\ UNCHANGED <<mail, asks, ctl, drain, job, fleet, passed, pod, net, open, lease, seen,
                   left>>

-----------------------------------------------------------------------------
(* Events *)

\* dispatchPending: the scheduler has one deployment outstanding, and once it
\* has drained it dispatches nothing but the plan it dispatched last.
Schedule(x, eps) ==
    /\ term.ctx /\ open = 0 /\ Spend("deploy")
    /\ ctl.draining => x = seen.plan
    /\ LET id == seen.events + 1 IN
       /\ mail' = Append(mail, [type |-> "deploy", id |-> id, plan |-> x, eps |-> eps])
       /\ open' = id /\ seen' = [seen EXCEPT !.events = id, !.plan = x]
    /\ UNCHANGED <<term, asks, ctl, drain, job, fleet, passed, pod, net, lease>>

\* checkDeploymentTimeout and a changed pod set: the outstanding deployment
\* shall be cancelled, started or not.
RequestCancel ==
    /\ term.ctx /\ open # 0 /\ Spend("cancel")
    /\ asks' = Append(asks, open)
    /\ UNCHANGED <<term, mail, ctl, drain, job, fleet, passed, pod, net, open, lease, seen>>

\* The render gate's verdict on plan x; it may also have been unable to judge.
Verdict(x, result) ==
    /\ term.ctx /\ Spend("verdict")
    /\ result = "ok" => x \notin Bad
    /\ result = "refused" => x \in Bad
    /\ seen' = [seen EXCEPT !.events = @ + 1]
    /\ mail' = Append(mail, [type |-> result, id |-> seen.events + 1, plan |-> x])
    /\ UNCHANGED <<term, asks, ctl, drain, job, fleet, passed, pod, net, open, lease>>

-----------------------------------------------------------------------------
(* The control loop and Drain *)

\* Mutant: only a deployment that runs can be cancelled.
handleDeploymentCancelRequest_Active ==
    /\ term.ctx /\ asks # <<>>
    /\ asks' = Tail(asks) /\ seen' = [seen EXCEPT !.cancelled = @ \cup {Head(asks)}]
    /\ job' = IF ctl.active = Head(asks) /\ Fanned THEN [job EXCEPT !.stopped = TRUE] ELSE job
    /\ UNCHANGED <<term, mail, ctl, drain, fleet, passed, pod, net, open, lease, left>>

\* handleDeploymentCancelRequest: cancels the active deployment if it is the
\* one named, and otherwise the one named when it begins.
handleDeploymentCancelRequest ==
    /\ term.ctx /\ asks # <<>>
    /\ asks' = Tail(asks) /\ seen' = [seen EXCEPT !.cancelled = @ \cup {Head(asks)}]
    /\ IF ctl.active = Head(asks)
       THEN /\ job' = IF Fanned THEN [job EXCEPT !.stopped = TRUE] ELSE job
            /\ UNCHANGED ctl
       ELSE ctl' = [ctl EXCEPT !.pending = Head(asks)] /\ UNCHANGED job
    /\ UNCHANGED <<term, mail, drain, fleet, passed, pod, net, open, lease, left>>

\* The replica decides to end the term gracefully; the call to Drain, made
\* under the term's context, may still be delayed.
DrainCall ==
    /\ term.ctx /\ drain.at = "idle" /\ Spend("drain")
    /\ drain' = [by |-> term.no, at |-> "called", done |-> 0]
    /\ UNCHANGED <<term, mail, asks, ctl, job, fleet, passed, pod, net, open, lease, seen>>

\* Mutant: Drain does not look at its context under the lock.
Drain_AnyTerm ==
    /\ drain.at = "called"
    /\ drain' = [drain EXCEPT !.at = "waits", !.done = ctl.active]
    /\ ctl' = [ctl EXCEPT !.draining = TRUE]
    /\ UNCHANGED <<term, mail, asks, job, fleet, passed, pod, net, open, lease, seen, left>>

\* Drain: no deployment begins any more, and the one in flight is waited for.
Drain ==
    /\ drain.at = "called"
    /\ IF drain.by = term.no /\ term.ctx
       THEN /\ drain' = [drain EXCEPT !.at = "waits", !.done = ctl.active]
            /\ ctl' = [ctl EXCEPT !.draining = TRUE]
       ELSE drain' = [drain EXCEPT !.at = "failed"] /\ UNCHANGED ctl
    /\ UNCHANGED <<term, mail, asks, job, fleet, passed, pod, net, open, lease, seen, left>>

\* Drain returns: the deployment it waits for is done.
DrainReturns ==
    /\ drain.at = "waits" /\ (drain.done = 0 \/ drain.done # ctl.active)
    /\ drain' = [drain EXCEPT !.at = "drained"]
    /\ UNCHANGED <<term, mail, asks, ctl, job, fleet, passed, pod, net, open, lease, seen, left>>

\* Drain gives up: the term ends first.
DrainFails ==
    /\ drain.at = "waits" /\ ~(drain.by = term.no /\ term.ctx)
    /\ drain' = [drain EXCEPT !.at = "failed"]
    /\ UNCHANGED <<term, mail, asks, ctl, job, fleet, passed, pod, net, open, lease, seen, left>>

-----------------------------------------------------------------------------
(* The event loop *)

\* The loop takes the next event, unless its context ended.
Takes(types) ==
    /\ term.loop /\ term.ctx /\ job = Idle
    /\ mail # <<>> /\ Head(mail).type \in types
    /\ mail' = Tail(mail)

\* Mutant: whatever cancellation is pending hits the next deployment.
beginDeployment_AnyPending(e) ==
    IF ctl.draining THEN UNCHANGED <<ctl, job>>
    ELSE /\ ctl' = [ctl EXCEPT !.active = e.id, !.pending = 0]
         /\ job' = Handler("deploy", e, e.eps, ctl.pending # 0)

\* Mutant: a drained term still begins deployments.
beginDeployment_Drained(e) ==
    /\ ctl' = [ctl EXCEPT !.active = e.id, !.pending = 0]
    /\ job' = Handler("deploy", e, e.eps, ctl.pending = e.id)

\* beginDeployment: refused once Drain ended the term's deployments; begun
\* already cancelled if the pending cancellation names it.
beginDeployment(e) ==
    IF ctl.draining THEN UNCHANGED <<ctl, job>>
    ELSE /\ ctl' = [ctl EXCEPT !.active = e.id, !.pending = 0]
         /\ job' = Handler("deploy", e, e.eps, ctl.pending = e.id)

\* recordFleet: where a plan refused later can be, remembered before any pod
\* is written to.
recordFleet(eps) == fleet' = eps

performDeployment ==
    /\ Takes({"deploy"})
    /\ beginDeployment(Head(mail))
    /\ IF job' = Idle THEN UNCHANGED <<fleet, seen>>
       ELSE recordFleet(Head(mail).eps) /\ seen' = [seen EXCEPT !.eps = Head(mail).eps]
    /\ UNCHANGED <<term, asks, drain, passed, pod, net, open, lease, left>>

\* Mutant: everything but a refusal counts as a pass.
handleRenderGateCompleted_UnableIsPass ==
    /\ Takes({"ok", "unable", "refused"})
    /\ LET e == Head(mail) IN
       /\ passed' = IF e.type # "refused" THEN passed \cup {e.plan} ELSE passed
       /\ job' = IF e.type = "refused" /\ fleet # {} THEN Handler("revert", e, fleet, FALSE)
                 ELSE Idle
    /\ UNCHANGED <<term, asks, ctl, drain, fleet, pod, net, open, lease, seen, left>>

\* handleRenderGateCompleted: a pass names a plan the pods may promote, a
\* refusal reverts the fleet of the last deployment, anything else says nothing.
handleRenderGateCompleted ==
    /\ Takes({"ok", "unable", "refused"})
    /\ LET e == Head(mail) IN
       /\ passed' = IF e.type = "ok" THEN passed \cup {e.plan} ELSE passed
       /\ job' = IF e.type = "refused" /\ fleet # {} THEN Handler("revert", e, fleet, FALSE)
                 ELSE Idle
    /\ UNCHANGED <<term, asks, ctl, drain, fleet, pod, net, open, lease, seen, left>>

\* deployToEndpoints, once every pod has answered: the completion is published.
publishCompleted ==
    /\ job.kind = "deploy" /\ Settled
    /\ open' = IF open = job.id THEN 0 ELSE open
    /\ job' = [job EXCEPT !.kind = "completed"]
    /\ UNCHANGED <<term, mail, asks, ctl, drain, fleet, passed, pod, net, lease, seen, left>>

\* performDeployment's deferred function: only now does the control loop see
\* the deployment gone, and Drain see it done.
release ==
    /\ job.kind = "completed"
    /\ job' = Idle /\ ctl' = [ctl EXCEPT !.active = 0]
    /\ UNCHANGED <<term, mail, asks, drain, fleet, passed, pod, net, open, lease, seen, left>>

\* revertExact, once every pod has answered.
revertEnds ==
    /\ job.kind = "revert" /\ Settled
    /\ job' = Idle
    /\ UNCHANGED <<term, mail, asks, ctl, drain, fleet, passed, pod, net, open, lease, seen,
                   left>>

-----------------------------------------------------------------------------
(* One pod's part of a deployment or a revert *)

Await(p) == Fanned /\ p \in DOMAIN job.leg

\* Mutant: only the plan on disk is looked at.
refusedRenderReference_OnDisk(p) ==
    IF pod[p].running.id # job.plan /\ pod[p].plan.id = job.plan THEN pod[p].plan ELSE NoRef

\* refusedRenderReference: the refused plan as the pod holds it, on disk or in
\* its worker's runtime state, unless the worker was started from it.
refusedRenderReference(p) ==
    CASE pod[p].running.id = job.plan -> NoRef
      [] pod[p].plan.id = job.plan -> pod[p].plan
      [] pod[p].ops.id = job.plan -> pod[p].ops
      [] OTHER -> NoRef

\* State: what the request will be composed against, the worker's plan of a
\* deployment or the target of a revert; a pod that does not carry the refused
\* plan is not reverted.
readState(p) ==
    /\ Await(p) /\ job.leg[p].at = "todo" /\ ~job.stopped
    /\ LET ref == IF job.kind = "revert" THEN refusedRenderReference(p) ELSE pod[p].ops
           at == IF job.kind = "revert" /\ ref = NoRef THEN "skipped" ELSE "read"
       IN job' = [job EXCEPT !.leg[p] = [@ EXCEPT !.at = at, !.gen = pod[p].gen, !.ref = ref]]
    /\ UNCHANGED <<term, mail, asks, ctl, drain, fleet, passed, pod, net, open, lease, seen,
                   left>>

\* validatedPlanFor: the plan the pod applied, when the gate passed it.
validatedPlanFor(p) == pod[p].plan.id \in passed

\* Apply: the request leaves under the term's epoch.
send(p) ==
    /\ Await(p) /\ job.leg[p].at = "read" /\ ~job.stopped
    /\ net' = net \cup {[kind |-> job.kind, id |-> job.id, pod |-> p, plan |-> job.plan,
                         gen |-> job.leg[p].gen, ref |-> job.leg[p].ref,
                         epoch |-> term.epoch, round |-> job.leg[p].round,
                         promotes |-> job.kind = "deploy" /\ validatedPlanFor(p)]}
    /\ job' = [job EXCEPT !.leg[p].at = "sent"]
    /\ UNCHANGED <<term, mail, asks, ctl, drain, fleet, passed, pod, open, lease, seen, left>>

\* The pod's part ends without an answer: the context was cancelled, or the
\* agent did not answer in time.  A request that left is still under way.
abandon(p) ==
    /\ Await(p) /\ job.leg[p].at \in {"todo", "read", "sent"}
    /\ IF job.stopped THEN UNCHANGED left ELSE Spend("fail")
    /\ job' = [job EXCEPT !.leg[p].at = "failed"]
    /\ UNCHANGED <<term, mail, asks, ctl, drain, fleet, passed, pod, net, open, lease, seen>>

\* A newer leader owns the pod: that ends the pass for every pod.
standDown(p) == [job EXCEPT !.leg[p].at = "failed", !.outranked = TRUE, !.stopped = TRUE]

\* applyToPod and deployToPod on the answer: a conflict reads the state again.
applyAnswered(p, ans) ==
    CASE ans = "stale" -> standDown(p)
      [] ans = "conflict" /\ job.leg[p].round < MaxApplyAttempts ->
            [job EXCEPT !.leg[p] = Unread(job.leg[p].round + 1)]
      [] ans = "ok" -> [job EXCEPT !.leg[p].at = "ok"]
      [] OTHER -> [job EXCEPT !.leg[p].at = "failed"]

\* revertPodRender on the answer: a conflict means the pod moved on.
revertAnswered(p, ans) ==
    CASE ans = "stale" -> standDown(p)
      [] ans = "conflict" -> [job EXCEPT !.leg[p].at = "skipped"]
      [] ans = "ok" -> [job EXCEPT !.leg[p].at = "ok"]
      [] OTHER -> [job EXCEPT !.leg[p].at = "failed"]

\* The sender of request r still waits for its answer.
Waits(r) ==
    /\ Await(r.pod) /\ job.id = r.id
    /\ job.leg[r.pod].at = "sent" /\ job.leg[r.pod].round = r.round

-----------------------------------------------------------------------------
(* The agents *)

\* carriesRefusedPlanLocked: the pod applied this occurrence of the plan or its
\* worker carries it, and no reload has read it.
carriesRefusedPlan(s, ref) == ref # s.running /\ ref \in {s.plan, s.ops}

\* fence: the request is of the newest leader, and composed against what the
\* pod holds; one that runs ops, against what its worker holds too.
fence(r, mode) ==
    LET s == pod[r.pod]
        current == IF r.kind = "revert" THEN carriesRefusedPlan(s, r.ref)
                   ELSE r.gen = s.gen /\ (mode # "reload" => r.ref = s.ops /\ s.plan # NoRef)
    IN IF r.epoch < s.epoch THEN "stale" ELSE IF current THEN "ok" ELSE "conflict"

\* recordReload: the worker was started from ref, which is proven by that.
recordReload(s, ref) ==
    [s EXCEPT !.running = ref, !.ops = ref, !.lkg = ref, !.pend = FALSE,
              !.loaded = @ \cup {ref.id}]

\* commitLocked: with no reload pending, the worker holds what was applied.
commit(s, ref, epoch) ==
    [s EXCEPT !.plan = ref, !.gen = @ + 1, !.epoch = epoch, !.ops = IF s.pend THEN @ ELSE ref]

\* A refused reload leaves the last known good files and no plan applied.
aborted(s) == [s EXCEPT !.plan = NoRef, !.gen = @ + 1, !.pend = FALSE]

\* What an admitted request may leave.  A revert loads the last known good plan.
\* A deployment has the plan run as ops, loaded, or left for a reload that
\* waits, with in-place ops or without; HAProxy may refuse to load it, and is
\* then reloaded when ops had already run.
Outcomes(r, mode) ==
    LET s == [pod[r.pod] EXCEPT !.lkg = IF r.promotes THEN pod[r.pod].plan ELSE @]
        ref == [id |-> r.plan, pf |-> s.gen + 1]
        Ok(t, x) == [ans |-> "ok", pod |-> commit(t, x, r.epoch)]
        Rejected(t) == [ans |-> "rejected", pod |-> aborted(t)]
        waiting == [s EXCEPT !.pend = TRUE,
                             !.ops = IF mode = "inplace" THEN [ref EXCEPT !.id = "part"] ELSE @]
    IN CASE r.kind = "revert" -> {Ok(recordReload(s, s.lkg), s.lkg)}
         [] r.kind = "deploy" /\ s.pend -> {Ok(waiting, ref)}
         [] OTHER -> {Ok(recordReload(s, ref), ref)}
                     \cup (IF mode = "auto" THEN {Ok(s, ref)} ELSE {Ok(waiting, ref)})
                     \cup (IF r.plan \notin Bad THEN {}
                           ELSE {Rejected(IF mode = "auto" THEN t ELSE s) :
                                     t \in {s, recordReload(s, s.lkg)}})

\* handleApply answers request r, if its sender still waits.  The plans' diff,
\* which this model leaves out, decides the mode of a deployment.
handleApply(r) ==
    /\ \E mode \in IF r.kind = "revert" THEN {"revert"} ELSE {"auto", "reload", "inplace"} :
       \E o \in IF fence(r, mode) = "ok" THEN Outcomes(r, mode)
               ELSE {[ans |-> fence(r, mode), pod |-> pod[r.pod]]} :
         /\ pod' = [pod EXCEPT ![r.pod] = o.pod]
         /\ job' = IF ~Waits(r) THEN job
                   ELSE IF r.kind = "revert" THEN revertAnswered(r.pod, o.ans)
                   ELSE applyAnswered(r.pod, o.ans)
         /\ CASE o.ans = "rejected" -> Spend("refuse")
              [] o.ans = "ok" /\ o.pod.running # o.pod.plan /\ ~pod[r.pod].pend -> Spend("pace")
              [] OTHER -> UNCHANGED left
    /\ net' = net \ {r}
    /\ UNCHANGED <<term, mail, asks, ctl, drain, fleet, passed, open, lease, seen>>

\* firePendingReload: HAProxy loads what was applied or refuses it, and keeps
\* its worker then.
reload(p) ==
    /\ pod[p].pend /\ Spend("reload")
    /\ \/ pod' = [pod EXCEPT ![p] = recordReload(@, @.plan)]
       \/ pod[p].plan.id \in Bad /\ pod' = [pod EXCEPT ![p] = aborted(@)]
    /\ UNCHANGED <<term, mail, asks, ctl, drain, job, fleet, passed, net, open, lease, seen>>

\* Another replica holds a newer epoch and writes to the pod.
Rival(p, x) ==
    /\ Spend("rival") /\ term.no > 0
    /\ lease' = lease + 1
    /\ pod' = [pod EXCEPT ![p] = commit(@, [id |-> x, pf |-> @.gen + 1], lease + 1)]
    /\ UNCHANGED <<term, mail, asks, ctl, drain, job, fleet, passed, net, open, seen>>

-----------------------------------------------------------------------------

Loop == performDeployment \/ handleRenderGateCompleted \/ publishCompleted \/ release \/ revertEnds

Next ==
    \/ Start \/ TermEnds \/ LoopReturns
    \/ \E x \in Plans, eps \in Fleets : Schedule(x, eps)
    \/ RequestCancel
    \/ \E x \in Plans, result \in {"ok", "unable", "refused"} : Verdict(x, result)
    \/ handleDeploymentCancelRequest
    \/ DrainCall \/ Drain \/ DrainReturns \/ DrainFails
    \/ Loop
    \/ \E p \in Pods : readState(p) \/ send(p) \/ abandon(p) \/ reload(p)
    \/ \E r \in net : handleApply(r)
    \/ \E p \in Pods, x \in Plans \ Bad : Rival(p, x)

\* The event loop and the goroutines it starts run, an agent that holds a
\* request answers it or the request's timeout does, and Drain's goroutine runs.
Progress(p) ==
    readState(p) \/ send(p) \/ abandon(p) \/ \E r \in net : r.pod = p /\ Waits(r) /\ handleApply(r)

Fairness ==
    /\ WF_vars(Loop) /\ WF_vars(DrainReturns)
    /\ \A p \in Pods : WF_vars(Progress(p))

Spec == Init /\ [][Next]_vars /\ Fairness

-----------------------------------------------------------------------------
(* Properties *)

\* The requests that leave in this step.
Leaves(kind) == {r \in net' \ net : r.kind = kind}

\* A deployment whose cancellation the control loop has handled sends no pod
\* anything any more, whether the request came before it began, while it ran,
\* or while the deployment before it was being signed off
\* (handleDeploymentCancelRequest, beginDeployment).
CancelIsHonoured ==
    [][\A r \in Leaves("deploy") : r.id \notin seen.cancelled]_vars

\* A deployment's context is cancelled only by a request that names it, by the
\* end of the term, or by a pod of a newer leader: a cancellation that comes
\* too late never hits the deployment after it (beginDeployment).
CancelHitsItsTarget ==
    job.kind = "deploy" /\ job.stopped =>
        job.id \in seen.cancelled \/ ~term.ctx \/ job.outranked

\* Once Drain has returned in a term, or the next term has begun, no deployment of
\* that term sends a pod anything, though some were queued at the time: the next
\* leader finds a settled fleet, and this replica's next term starts from its own
\* renders (Drain, beginDeployment, Start).
TermIsFinal ==
    [][\A r \in Leaves("deploy") :
           r.id >= seen.first /\ ~(drain.at = "drained" /\ drain.by = term.no)]_vars

\* When a revert ends and every pod answered, no pod of the last deployment
\* holds the refused plan unloaded, on disk or in its worker's runtime state,
\* unless the pod changed after the revert read its state (revertExact,
\* refusedRenderReference, recordFleet): a pod that took the plan and whose
\* answer was lost is reverted too, and so is one that took another plan since
\* and waits for the reload that would drop the refused one.
RefusedIsReverted ==
    [][job.kind = "revert" /\ job' = Idle /\ (\A p \in DOMAIN job.leg : job.leg[p].at # "failed")
        => \A p \in seen.eps : Unproven(p, job.plan) =>
               p \in DOMAIN job.leg /\ pod[p].gen # job.leg[p].gen]_vars

\* A pod's rollback target is a plan its HAProxy loaded or one the gate passed
\* (handleRenderGateCompleted, validatedPlanFor).
RollbackTargetIsGood ==
    \A p \in Pods : pod[p].lkg.id \in pod[p].loaded \cup (Plans \ Bad)

\* Every deployment the scheduler waits for is completed, unless its own term is
\* drained or ends first (publishCompleted): the scheduler's slot is never lost,
\* and the drain of an ended term does not stop the next one (Drain).  The slot
\* is free between two deployments (Schedule), so this is of each of them.
DeploymentsAreAnswered == open # 0 ~> (open = 0 \/ drain.by = term.no \/ ~term.ctx)

=============================================================================
