------------------------ MODULE DeploySchedulerProofs ------------------------
(***************************************************************************)
(* Deployments never overlap, and what a refusal rolls back to has passed  *)
(* the gate: for any contents, fleets and retry budget, and however often  *)
(* renders, verdicts, failures and timeouts come.                          *)
(***************************************************************************)
EXTENDS DeployScheduler, TLAPS

-----------------------------------------------------------------------------
(* One deployment at a time *)

\* runDeployLoop, awaitCompletion: between dispatches nothing is with the deployer and no
\* completion is on its way; a completion means that the deployer is done.
SlotOwned ==
    /\ loop \in {"idle", "taken", "skip", "await"}
    /\ loop # "await" => dply = None /\ active = None /\ ~done
    /\ done => dply = None /\ active = None

\* A new scheduler has an idle loop and a free slot.
LEMMA SlotOwnedInit == Init => SlotOwned
BY DEF Init, SlotOwned

\* dispatchPending, Release: the deploy loop passes the slot on only when it is free.
LEMMA DeployLoopKeepsSlot == SlotOwned /\ DeployLoop => SlotOwned'
<1> SUFFICES ASSUME SlotOwned, DeployLoop PROVE SlotOwned'
  OBVIOUS
<1>1. CASE TakePending
  BY <1>1 DEF TakePending, SlotOwned, world
<1>2. CASE dispatchPending
  BY <1>2 DEF dispatchPending, SlotOwned
<1>3. CASE Release
  BY <1>3 DEF Release, SlotOwned, world
<1> QED BY <1>1, <1>2, <1>3 DEF DeployLoop

\* handleDeploymentCompleted, checkDeploymentTimeout: only the completion frees the slot.
LEMMA DeployerKeepsSlot ==
    ASSUME SlotOwned, checkDeploymentTimeout \/ Deployer \/ handleDeploymentCompleted
    PROVE  SlotOwned'
<1>1. CASE checkDeploymentTimeout
  BY <1>1 DEF checkDeploymentTimeout, SlotOwned
<1>2. CASE Deployer
  <2>1. PICK p \in Pods, b \in BOOLEAN : DeployPod(p, b) \/ FailPod(p, b)
    BY <1>2 DEF Deployer
  <2>2. dply # None /\ UNCHANGED <<loop, active, done>>
    BY <2>1 DEF DeployPod, FailPod, slot
  <2> QED BY <2>2 DEF SlotOwned
<1>3. CASE handleDeploymentCompleted
  BY <1>3 DEF handleDeploymentCompleted, SlotOwned
<1> QED BY <1>1, <1>2, <1>3

\* performPodsDiscovered cancels a deployment and leaves the slot to it.
LEMMA DiscoveryKeepsSlot ==
    ASSUME SlotOwned, NEW e, performPodsDiscovered(e) PROVE SlotOwned'
BY DEF performPodsDiscovered, SlotOwned

\* No other step touches the slot or the deployer.
LEMMA OthersKeepSlot ==
    ASSUME \/ handleTemplateRendered \/ RecoveryRender \/ Gate
           \/ handleValidationFailed \/ Retention \/ EventLoop \/ Callback \/ Drainer
    PROVE  UNCHANGED <<loop, dply, active, done>>
<1>1. CASE handleTemplateRendered \/ RecoveryRender
  BY <1>1 DEF handleTemplateRendered, RecoveryRender, Rendered, slot
<1>2. CASE Gate
  BY <1>2 DEF Gate, GatePassed, GateFailed, slot
<1>3. CASE handleValidationFailed \/ Retention
  BY <1>3 DEF handleValidationFailed, Retention, ReconciliationFailed, maybeRecoverRetained,
     handleRetainedResult, slot, world
<1>4. CASE EventLoop \/ Drainer
  BY <1>4 DEF EventLoop, Revise, installPending, Drainer, Drain, DrainSettled, DrainWoken, slot, world
<1>5. CASE Callback
  BY <1>5 DEF Callback, Fire, runRetry, LookAtSlot, rescheduleLastValidated, InstallRetry,
     settleFollowUp, slot, world
<1> QED BY <1>1, <1>2, <1>3, <1>4, <1>5

\* The scheduler never has two deployments with the deployer, a timeout, a cancellation
\* and a drain included: the slot is free only when the completion has been handled.
THEOREM NeverTwoDeployments == Spec => []OneDeploymentAtATime
<1>1. SlotOwned /\ [Next]_vars => SlotOwned'
  <2> SUFFICES ASSUME SlotOwned, [Next]_vars PROVE SlotOwned'
    OBVIOUS
  <2>1. ASSUME UNCHANGED <<loop, dply, active, done>> PROVE SlotOwned'
    BY <2>1 DEF SlotOwned
  <2>2. CASE UNCHANGED vars
    BY <2>1, <2>2 DEF vars, slot, world
  <2> QED
    BY <2>1, <2>2, DeployLoopKeepsSlot, DeployerKeepsSlot, DiscoveryKeepsSlot, OthersKeepSlot DEF Next
<1>2. SlotOwned => OneDeploymentAtATime
  BY DEF SlotOwned, OneDeploymentAtATime
<1> QED
  BY <1>1, <1>2, SlotOwnedInit, PTL DEF Spec

-----------------------------------------------------------------------------
(* What a refusal rolls back to *)

\* handleTemplateRendered, handleRenderGateCompleted: the renders the scheduler remembers
\* are of this term, and the accepted one is good.
Remembered ==
    /\ hist \in Seq(Contents)
    /\ rendered \in 0 .. Len(hist) /\ validated \in 0 .. Len(hist) /\ accepted \in 0 .. Len(hist)
    /\ owed => hist # <<>>
    /\ AcceptedIsGood

\* At the start of the term no render is remembered.
LEMMA RememberedInit == Init => Remembered
BY DEF Init, Remembered, AcceptedIsGood, NoRender

\* handleTemplateRendered: a new render is appended, so the accepted one keeps its content.
LEMMA RenderedRemembers ==
    ASSUME Remembered, NEW c \in Contents, NEW drift, Rendered(c, drift), owed' \in {owed, FALSE}
    PROVE  Remembered'
<1>1. /\ hist' = Append(hist, c) /\ rendered' = Len(hist') /\ accepted' = accepted
      /\ validated' \in {validated, Len(hist')}
  BY DEF Rendered
<1>2. hist' \in Seq(Contents) /\ Len(hist') = Len(hist) + 1 /\ Len(hist) \in Nat
  BY <1>1 DEF Remembered
<1>3. \A n \in 1 .. Len(hist) : hist'[n] = hist[n]
  BY <1>1 DEF Remembered
<1>4. AcceptedIsGood'
  BY <1>1, <1>2, <1>3 DEF Remembered, AcceptedIsGood, NoRender
<1> QED
  BY <1>1, <1>2, <1>4 DEF Remembered

\* handleRenderGateCompleted: a pass makes a render accepted only if it has the content
\* that passed.
LEMMA PassRemembers ==
    ASSUME Remembered, NEW n \in 1 .. Len(hist), GatePassed(n) PROVE Remembered'
<1>1. /\ hist[n] \notin Bad /\ UNCHANGED <<hist, rendered, owed>>
      /\ accepted' \in {accepted} \cup {o \in {rendered, validated} : samePlan(o, n)}
      /\ validated' \in {validated, rendered}
  BY DEF GatePassed
<1>2. \A o \in {rendered, validated} : samePlan(o, n) => hist[o] = hist[n]
  BY DEF samePlan, Content, Remembered, Checkpoint, NoRender
<1> QED
  BY <1>1, <1>2 DEF Remembered, AcceptedIsGood

\* handleRenderGateCompleted: a refusal falls back to the accepted render and accepts none.
LEMMA FailureRemembers ==
    ASSUME Remembered, NEW n, NEW refused, GateFailed(n, refused) PROVE Remembered'
<1>1. UNCHANGED <<hist, rendered, accepted, owed>> /\ validated' \in {validated, accepted}
  BY DEF GateFailed
<1> QED BY <1>1 DEF Remembered, AcceptedIsGood

\* No other step moves the renders.
LEMMA OthersKeepRenders ==
    ASSUME \/ \E e \in Fleets : performPodsDiscovered(e)
           \/ handleValidationFailed \/ Retention \/ EventLoop \/ DeployLoop
           \/ checkDeploymentTimeout \/ Deployer \/ handleDeploymentCompleted \/ Callback \/ Drainer
    PROVE  UNCHANGED renders /\ owed' \in {owed, hist # <<>>}
<1>1. CASE \E e \in Fleets : performPodsDiscovered(e)
  BY <1>1 DEF performPodsDiscovered
<1>2. CASE handleValidationFailed \/ Retention
  BY <1>2 DEF handleValidationFailed, Retention, ReconciliationFailed, maybeRecoverRetained,
     handleRetainedResult, world
<1>3. CASE EventLoop \/ DeployLoop
  BY <1>3 DEF EventLoop, Revise, installPending, DeployLoop, TakePending, dispatchPending, Release, world
<1>4. CASE checkDeploymentTimeout \/ Deployer \/ handleDeploymentCompleted
  BY <1>4 DEF checkDeploymentTimeout, Deployer, DeployPod, FailPod, handleDeploymentCompleted
<1>5. CASE Callback
  BY <1>5 DEF Callback, Fire, runRetry, LookAtSlot, rescheduleLastValidated, InstallRetry,
     settleFollowUp, world
<1>6. CASE Drainer
  BY <1>6 DEF Drainer, Drain, DrainSettled, DrainWoken, world
<1> QED BY <1>1, <1>2, <1>3, <1>4, <1>5, <1>6

\* Whatever the order of renders, verdicts and releases of the latch, the render a
\* refusal rolls back to is one HAProxy accepted.
THEOREM RollsBackToGood == Spec => []AcceptedIsGood
<1>1. Remembered /\ [Next]_vars => Remembered'
  <2> SUFFICES ASSUME Remembered, [Next]_vars PROVE Remembered'
    OBVIOUS
  <2>1. CASE handleTemplateRendered
    BY <2>1, RenderedRemembers DEF handleTemplateRendered
  <2>2. CASE RecoveryRender
    <3>1. hist[Len(hist)] \in Contents
      BY <2>2 DEF RecoveryRender, Remembered
    <3> QED BY <2>2, <3>1, RenderedRemembers DEF RecoveryRender
  <2>3. CASE Gate
    BY <2>3, PassRemembers, FailureRemembers DEF Gate
  <2>4. ASSUME UNCHANGED renders, owed' \in {owed, hist # <<>>} PROVE Remembered'
    BY <2>4 DEF renders, Remembered, AcceptedIsGood
  <2>5. CASE UNCHANGED vars
    BY <2>4, <2>5 DEF vars, world
  <2> QED
    BY <2>1, <2>2, <2>3, <2>4, <2>5, OthersKeepRenders DEF Next
<1>2. Remembered => AcceptedIsGood
  BY DEF Remembered
<1> QED
  BY <1>1, <1>2, RememberedInit, PTL DEF Spec

=============================================================================
