-------------------------------- MODULE Agent --------------------------------
(***************************************************************************)
(* The apply state machine of the HAPTIC agent (pkg/dataplane/agent/server)*)
(* in one HAProxy pod, with the controllers that write to it, the HAProxy   *)
(* worker it steers and the crashes of both containers.                    *)
(*                                                                         *)
(* A controller reads the pod's state, diffs a plan against it, and sends  *)
(* an apply that names the baseline it was composed against.  The agent    *)
(* fences it, writes the files, and activates them with runtime ops or a   *)
(* reload, which the pacing window may defer.  A restored leader, a late   *)
(* request or a second leader may send from a state that is long gone.     *)
(*                                                                         *)
(* Data: a file tree, and what a worker runs, are the plan they come from. *)
(* The file store is the atomic store AgentFiles shows it to be: a backup  *)
(* of the last known good tree, restored exactly or not at all.            *)
(***************************************************************************)
EXTENDS Integers, FiniteSets

CONSTANTS
    NumPlans,    \* plans are 1..NumPlans
    Bad,         \* the plans HAProxy refuses to load
    Epochs,      \* leader epochs that may be active, also at the same time
    MaxDeploy,   \* bound: deployments the controllers start
    Faults       \* bounds on the faults of one behaviour, a set of records:
                 \*   crash    the agent dies
                 \*   torn     it dies after ClearJournal removed the backups and
                 \*            before the state file says so
                 \*   restart  the HAProxy container restarts
                 \*   file     a file system error
                 \*   sock     an error on HAProxy's sockets
                 \*   info     no answer to a check of the worker's identity
                 \*   repair   the reload of a read-back fails
                 \*   lost     HAProxy acknowledges an op it did not carry out
                 \*   save     not a count: 0 where no save of the state file fails

ASSUME PlansAssumption == NumPlans \in Nat \ {0}
ASSUME BadAssumption == Bad \subseteq 1..NumPlans
ASSUME EpochsAssumption == Epochs \subseteq Nat \ {0}
ASSUME FaultsAssumption ==
    Faults \subseteq [{"crash", "torn", "restart", "file", "sock", "info", "repair", "lost",
                       "save"} -> Nat]

None == 0
Plans == 1..NumPlans
Partial(p) == NumPlans + p    \* the worker plan after the in-place subset of p
Mixed == -1                   \* a tree between two plans
Junk == -2                    \* a worker no plan explains
Gone == -3                    \* the backups after ClearJournal removed them

\* A plan id with the role proof that names one occurrence of it on this pod.
Ref(id, pf) == [id |-> id, pf |-> pf]
NoRef == Ref(None, 0)
samePlanRef(l, r) == l.pf # 0 /\ r.pf # 0 /\ l = r

VARIABLES
    st,      \* s.state: the persistent state in memory
    file,    \* the state file
    disk,    \* the tree on the volumes
    backup,  \* the tree the journal's backups hold
    hap,     \* the HAProxy worker: incarnation and what it runs
    window,  \* the pacing window: a reload now would come too early
    run,     \* the apply, or the reload outside one, in progress
    rb,      \* a read-back of a finished runtime apply is waiting
    job,     \* per epoch, the deployment its leader is carrying out
    snap,    \* per epoch, the pod state its leader last read
    seq,     \* deployments started so far
    left     \* what is left of the fault bounds

vars == <<st, file, disk, backup, hap, window, run, rb, job, snap, seq, left>>
ctl == <<job, snap, seq>>

-----------------------------------------------------------------------------
(* State *)

InitState ==
    [app |-> NoRef, tok |-> <<0, 0>>, running |-> NoRef, ops |-> NoRef, lkg |-> NoRef,
     phase |-> "idle", pend |-> FALSE, pendRef |-> NoRef, gen |-> 0,
     exp |-> 0, dig |-> None, jr |-> FALSE, nack |-> <<>>]

NoRun ==
    [pc |-> "idle", kind |-> "none", m |-> <<>>, ap |-> 0, wp |-> 0, rec |-> NoRef,
     cont |-> "run", inv |-> FALSE, opsRan |-> FALSE, det |-> FALSE, ok |-> TRUE,
     res |-> "none"]

\* invalidateBaseline
Invalidated(s) == [s EXCEPT !.app = NoRef, !.ops = NoRef]

\* clearPendingReload
NoPending(s) == [s EXCEPT !.pend = FALSE, !.pendRef = NoRef]

\* recordReload: an unnamed set is not promoted.
Recorded(s, ref) ==
    IF ref.id = None \/ ref.pf = 0
    THEN [s EXCEPT !.running = ref, !.ops = ref]
    ELSE [s EXCEPT !.running = ref, !.ops = ref, !.lkg = ref, !.jr = FALSE]

\* What restoreJournal leaves on the volumes.
RestoredTree == IF st.jr THEN backup ELSE disk

\* ClearJournal: the backups go with the journal s no longer has.
DropBackups(s) == backup' = IF st.jr /\ ~s.jr THEN Gone ELSE backup

\* The fields of /v1/state a controller composes against.
Report(s) == [app |-> s.app, tok |-> s.tok, ops |-> s.ops, running |-> s.running,
              pend |-> s.pend]

\* stateStore.save, where the agent logs that it failed and goes on.
Save(s) == st' = s /\ (file' = s \/ (left.save > 0 /\ UNCHANGED file))

\* The same where a failure ends the start of the agent.
MustSave(s) == st' = s /\ file' = s
Remember(s) == st' = s /\ UNCHANGED file

\* One fault of kind f happens; the bounds keep the state space finite.
Fault(f) == left[f] > 0 /\ left' = [left EXCEPT ![f] = @ - 1]

\* HAProxy loads the bootstrap tree and every plan it does not refuse; a mix of
\* two plans it may load or not.
Loadable(t) == t \notin Bad
Refusable(t) == t \in Bad \cup {Mixed}
Worker(t) == [inc |-> hap.inc + 1, runs |-> IF t = Mixed THEN Junk ELSE t]

-----------------------------------------------------------------------------
(* The controllers *)

\* A leader starts bringing the pod to plan p, under a fresh fencing token.
Deploy(e, p) ==
    /\ seq < MaxDeploy
    /\ seq' = seq + 1
    /\ job' = [job EXCEPT ![e] = [plan |-> p, tok |-> <<e, seq + 1>>]]
    /\ snap' = [snap EXCEPT ![e] = <<>>]
    /\ UNCHANGED <<st, file, disk, backup, hap, window, run, rb, left>>

\* GET /v1/state, also while an apply runs.
ReadState(e) ==
    /\ job[e] # <<>> /\ run.kind # "recovery" /\ run.pc # "down"
    /\ snap[e] # Report(st)
    /\ snap' = [snap EXCEPT ![e] = Report(st)]
    /\ UNCHANGED <<st, file, disk, backup, hap, window, run, rb, job, seq, left>>

\* checkWorker: a worker the agent did not start leaves the baseline unknown.
\* GET /v1/state?verify=1 runs it between applies (reobserve), and the drift
\* pass reads the answer.
Verify(e) ==
    /\ job[e] # <<>> /\ run.pc = "idle" /\ st.exp # hap.inc
    /\ LET s == [Invalidated(st) EXCEPT !.exp = hap.inc] IN
       /\ Remember(s)
       /\ snap' = [snap EXCEPT ![e] = Report(s)]
    /\ UNCHANGED <<disk, backup, hap, window, run, rb, job, seq, left>>

\* What decisionFor and manifest may compose for plan p from the state v, after
\* readManifest's rule that an automatic apply without a worker baseline reloads.
Composed(e, v) ==
    LET p == job[e].plan
        known == v.app.pf # 0
        Apply(mode, ops, inPlace, val) ==
            [mode |-> mode, plan |-> p, tok |-> job[e].tok, prev |-> v.app,
             prevTok |-> v.tok, exp |-> v.ops, ops |-> ops, inPlace |-> inPlace,
             val |-> val]
        validated == {NoRef} \cup {r \in {v.app} : r.pf # 0 /\ r.id \notin Bad}
    IN {Apply("reload", FALSE, inPlace, val) :
            inPlace \in {b \in BOOLEAN : b => v.ops.pf # 0}, val \in validated}
       \cup {Apply("auto", ops, inPlace, val) :
            ops \in {b \in BOOLEAN : known /\ v.ops.pf # 0 /\ (b => p # v.app.id)},
            inPlace \in {b \in BOOLEAN : b => v.pend}, val \in validated}

\* revertPodRender: the gate refused plan p, and the pod holds it unloaded.
Reverts(e, v) ==
    {[mode |-> "revert_lkg", plan |-> r.id, tok |-> job[e].tok, prev |-> r,
      prevTok |-> v.tok, exp |-> NoRef, ops |-> FALSE, inPlace |-> FALSE, val |-> NoRef] :
        r \in {x \in {v.app, v.ops} : x.pf # 0 /\ x.id \in Bad /\ x.id # v.running.id}}

-----------------------------------------------------------------------------
(* Admission *)

carriesRefusedPlan(r) ==
    /\ r.pf # 0 /\ ~samePlanRef(r, st.running)
    /\ samePlanRef(r, st.app) \/ samePlanRef(r, st.ops)

inPlaceWillRun(m) == m.inPlace /\ (st.pend \/ (m.mode = "reload" /\ window))

\* Mutant: no look at the epoch.
fence_AnyEpoch(m) ==
    IF m.mode = "revert_lkg" THEN carriesRefusedPlan(m.prev)
    ELSE /\ m.prev.id = st.app.id /\ m.prevTok = st.tok
         /\ IF m.mode = "reload" THEN st.app.pf = 0 \/ m.prev.pf = st.app.pf
                                 ELSE m.prev.pf # 0 /\ m.prev.pf = st.app.pf
         /\ (m.mode = "auto" \/ inPlaceWillRun(m)) => samePlanRef(m.exp, st.ops)

\* fence: the apply was composed against this very pod state.
fence(m) ==
    /\ m.tok[1] >= st.tok[1]
    /\ IF m.mode = "revert_lkg" THEN carriesRefusedPlan(m.prev)
       ELSE /\ m.prev.id = st.app.id /\ m.prevTok = st.tok
            /\ IF m.mode = "reload" THEN st.app.pf = 0 \/ m.prev.pf = st.app.pf
                                    ELSE m.prev.pf # 0 /\ m.prev.pf = st.app.pf
            /\ (m.mode = "auto" \/ inPlaceWillRun(m)) => samePlanRef(m.exp, st.ops)

\* workIdentity: what a refusal is remembered by.
workIdentity(m) ==
    [plan |-> m.plan, proof |-> IF m.mode = "revert_lkg" THEN m.prev.pf ELSE 0,
     mode |-> m.mode, ops |-> m.ops, inPlace |-> m.inPlace, exp |-> m.exp]

\* promoteLKG: the gate passed the plan this pod already applied.
promoteLKG(m, s) ==
    IF samePlanRef(m.val, s.app) /\ ~samePlanRef(s.lkg, s.app)
    THEN [s EXCEPT !.lkg = s.app, !.jr = FALSE] ELSE s

\* Mutant: the in-place batch's proof is not reserved.
reserveRoleProofs_One(m, s) ==
    IF m.mode = "revert_lkg" THEN s ELSE [s EXCEPT !.gen = @ + 1]

\* reserveRoleProofs: one proof for the applied plan and one for the worker
\* plan of an in-place batch, saved before they are used.
reserveRoleProofs(m, s) ==
    IF m.mode = "revert_lkg" THEN s
    ELSE [s EXCEPT !.gen = @ + (IF m.inPlace THEN 2 ELSE 1)]

\* handleApply up to the first write.  The leader waits for the answer, and is
\* done with the deployment when it comes.  The proofs are saved, or the apply
\* is refused; the phase that follows may stay unsaved.
Admit(e, m) ==
    /\ run.pc = "idle"
    /\ fence(m)
    /\ st.nack # <<workIdentity(m)>>
    /\ LET s == reserveRoleProofs(m, promoteLKG(m, st))
           t == [s EXCEPT !.phase = IF m.mode = "revert_lkg" THEN "backed_up" ELSE "verified"]
       IN
       /\ DropBackups(s)
       /\ st' = t
       /\ file' = t \/ (left.save > 0 /\ file' = IF s = st THEN file ELSE s)
       /\ run' = [NoRun EXCEPT
                    !.pc = IF m.mode = "revert_lkg" THEN "revert" ELSE "backup",
                    !.kind = "apply", !.m = m,
                    !.ap = IF m.mode = "revert_lkg" THEN 0 ELSE st.gen + 1,
                    !.wp = IF m.inPlace THEN st.gen + 2 ELSE 0]
    /\ job' = [job EXCEPT ![e] = <<>>]
    /\ snap' = [snap EXCEPT ![e] = <<>>]
    /\ UNCHANGED <<disk, hap, window, rb, seq, left>>

\* handleApply refuses an apply whose promotion, or whose proofs, it could not
\* save; the memory keeps both.
Unsaved(e, m) ==
    /\ left.save > 0 /\ run.pc = "idle"
    /\ fence(m)
    /\ st.nack # <<workIdentity(m)>>
    /\ LET t == promoteLKG(m, st)
           s == reserveRoleProofs(m, t)
       IN \/ t # st /\ Remember(t) /\ DropBackups(t)
          \/ s # t /\ st' = s /\ DropBackups(s) /\ file' = IF t = st THEN file ELSE t
    /\ job' = [job EXCEPT ![e] = <<>>]
    /\ snap' = [snap EXCEPT ![e] = <<>>]
    /\ UNCHANGED <<disk, hap, window, run, rb, seq, left>>

-----------------------------------------------------------------------------
(* Files *)

Goto(pc) == run' = [run EXCEPT !.pc = pc]

\* abort: the apply failed at this point.
Abort(r) == [r EXCEPT !.pc = "abort", !.ok = FALSE]

\* Mutant: a path already in the journal is backed up again.
Backup_Again ==
    /\ run.pc = "backup"
    /\ \E changes \in BOOLEAN :
          /\ disk # run.m.plan => changes
          /\ backup' = IF changes THEN disk ELSE backup
          /\ Save([st EXCEPT !.phase = "backed_up", !.jr = @ \/ changes])
    /\ Goto("write")
    /\ UNCHANGED <<disk, hap, window, rb, left>> /\ UNCHANGED ctl

\* Transaction.Backup.  A tree that already is the plan's is journalled only if
\* the controller resends its parts.
Backup ==
    /\ run.pc = "backup"
    /\ \E changes \in BOOLEAN :
          /\ disk # run.m.plan => changes
          /\ backup' = IF changes /\ ~st.jr THEN disk ELSE backup
          /\ Save([st EXCEPT !.phase = "backed_up", !.jr = @ \/ changes])
    /\ Goto("write")
    /\ UNCHANGED <<disk, hap, window, rb, left>> /\ UNCHANGED ctl

\* The first file of Transaction.Write lands.
WriteSome ==
    /\ run.pc = "write" /\ disk # run.m.plan
    /\ disk' = Mixed
    /\ Goto("writing")
    /\ UNCHANGED <<st, file, backup, hap, window, rb, left>> /\ UNCHANGED ctl

\* The last one does.
WriteRest ==
    /\ run.pc = "writing" \/ (run.pc = "write" /\ disk = run.m.plan)
    /\ disk' = run.m.plan
    /\ Save([st EXCEPT !.phase = "written"])
    /\ Goto("activate")
    /\ UNCHANGED <<backup, hap, window, rb, left>> /\ UNCHANGED ctl

FileError ==
    /\ run.pc \in {"backup", "write", "writing"}
    /\ Fault("file")
    /\ run' = Abort(run)
    /\ UNCHANGED <<st, file, disk, backup, hap, window, rb>> /\ UNCHANGED ctl

-----------------------------------------------------------------------------
(* Activation *)

\* reload: now, or when the pacing window closes.  The in-place batch runs on
\* the worker that keeps serving, but only for a reload the controller asked for.
StartReload(r, s, asked) ==
    LET ref == Ref(run.m.plan, run.ap) IN
    IF window
    THEN /\ Save([s EXCEPT !.pend = TRUE, !.pendRef = ref, !.phase = "scheduled"])
         /\ run' = [r EXCEPT !.res = "scheduled",
                             !.pc = IF asked /\ run.m.inPlace THEN "inplace" ELSE "finish"]
    ELSE /\ Remember(s)
         /\ run' = [r EXCEPT !.pc = "reload", !.rec = ref]

baselineUnknown == st.app.id = None \/ st.app.pf = 0

\* Mutant: the scheduled reload is left no plan to load.
coalesceIntoPendingReload_Drops(s, ref) == [s EXCEPT !.pendRef = NoRef]

coalesceIntoPendingReload(s, ref) == [s EXCEPT !.pendRef = ref]

\* Mutant: ops run although the worker still waits for a reload.
Activate_IgnoresPending ==
    /\ run.pc = "activate"
    /\ IF run.m.mode = "reload" \/ baselineUnknown THEN StartReload(run, st, FALSE)
       ELSE IF run.m.ops THEN Goto("check") /\ UNCHANGED <<st, file>>
       ELSE Remember(st) /\ run' = [run EXCEPT !.pc = "finish", !.res = "noop"]
    /\ UNCHANGED <<disk, backup, hap, window, rb, left>> /\ UNCHANGED ctl

\* activate
Activate ==
    /\ run.pc = "activate"
    /\ IF st.pend
       THEN /\ Remember(coalesceIntoPendingReload(st, Ref(run.m.plan, run.ap)))
            /\ run' = [run EXCEPT !.res = "scheduled",
                                  !.pc = IF run.m.inPlace THEN "inplace" ELSE "finish"]
            /\ UNCHANGED hap
       ELSE IF run.m.mode = "reload" \/ baselineUnknown
       THEN StartReload(run, st, run.m.mode = "reload") /\ UNCHANGED hap
       ELSE IF run.m.ops
       THEN Goto("check") /\ UNCHANGED <<st, file, hap>>
       ELSE \* settle: no op tells the two plans apart
            /\ hap' = IF hap.runs = run.m.prev.id THEN [hap EXCEPT !.runs = run.m.plan]
                      ELSE hap
            /\ Save([st EXCEPT !.phase = "applied"])
            /\ run' = [run EXCEPT !.pc = "finish", !.res = "noop"]
    /\ UNCHANGED <<disk, backup, window, rb, left>> /\ UNCHANGED ctl

\* A batch the agent cannot compile, or whose deferred deletes do not fit.
NotExecutable ==
    /\ run.pc = "activate" /\ ~st.pend /\ run.m.mode = "auto" /\ ~baselineUnknown
    /\ run.m.ops
    /\ StartReload(run, st, FALSE)
    /\ UNCHANGED <<disk, backup, hap, window, rb, left>> /\ UNCHANGED ctl

\* checkWorker found a foreign worker.
Foreign == st.exp # hap.inc
Adopted == [Invalidated(st) EXCEPT !.exp = hap.inc]

\* runOps' first worker check.
CheckBefore ==
    /\ run.pc = "check"
    /\ IF Foreign THEN StartReload([run EXCEPT !.inv = TRUE], Adopted, FALSE)
       ELSE Goto("exec") /\ UNCHANGED <<st, file>>
    /\ UNCHANGED <<disk, backup, hap, window, rb, left>> /\ UNCHANGED ctl

\* What a worker holds after ops that lead from plan a to plan b.
After(a, b) == IF hap.runs = a THEN b ELSE Junk

\* executeBatches: HAProxy carries the ops out, or acknowledges one it lost.
Execute ==
    /\ run.pc = "exec"
    /\ \/ hap' = [hap EXCEPT !.runs = After(run.m.prev.id, run.m.plan)] /\ UNCHANGED left
       \/ hap' = [hap EXCEPT !.runs = Junk] /\ Fault("lost")
    /\ run' = [run EXCEPT !.pc = "checked", !.opsRan = TRUE]
    /\ UNCHANGED <<st, file, disk, backup, window, rb>> /\ UNCHANGED ctl

\* An op was rejected, or the socket failed: some ops may have run.
ExecuteError ==
    /\ run.pc = "exec"
    /\ Fault("sock")
    /\ hap' \in {hap, [hap EXCEPT !.runs = Junk]}
    /\ StartReload([run EXCEPT !.opsRan = TRUE], [st EXCEPT !.ops = NoRef], FALSE)
    /\ UNCHANGED <<disk, backup, window, rb>> /\ UNCHANGED ctl

\* The worker does not answer a check of its identity.
CheckError ==
    /\ run.pc \in {"check", "checked"}
    /\ Fault("info")
    /\ StartReload(run, st, FALSE)
    /\ UNCHANGED <<disk, backup, hap, window, rb>> /\ UNCHANGED ctl

\* runOps' second worker check.
CheckAfter ==
    /\ run.pc = "checked"
    /\ IF Foreign THEN StartReload([run EXCEPT !.inv = TRUE], Adopted, FALSE)
       ELSE /\ Save([st EXCEPT !.phase = "applied"])
            /\ run' = [run EXCEPT !.pc = "finish", !.res = "runtime"]
    /\ UNCHANGED <<disk, backup, hap, window, rb, left>> /\ UNCHANGED ctl

\* runInPlace.  Its ops lead from the expected worker plan to the partial plan.
\* A failure invalidates the baseline; the apply itself still succeeds.
InPlace ==
    /\ run.pc = "inplace"
    /\ IF ~samePlanRef(run.m.exp, st.ops)
       THEN /\ Remember(Invalidated(st))
            /\ run' = [run EXCEPT !.pc = "finish", !.inv = TRUE]
            /\ UNCHANGED <<hap, left>>
       ELSE IF Foreign
       THEN /\ Remember(Adopted)
            /\ run' = [run EXCEPT !.pc = "finish", !.inv = TRUE]
            /\ UNCHANGED <<hap, left>>
       ELSE \/ /\ hap' = [hap EXCEPT !.runs = After(run.m.exp.id, Partial(run.m.plan))]
               /\ run' = [run EXCEPT !.pc = "inplaced", !.opsRan = TRUE]
               /\ UNCHANGED <<st, file, left>>
            \/ /\ Fault("sock")
               /\ hap' \in {hap, [hap EXCEPT !.runs = Junk]}
               /\ Remember(Invalidated(st))
               /\ run' = [run EXCEPT !.pc = "finish", !.inv = TRUE, !.opsRan = TRUE]
    /\ UNCHANGED <<disk, backup, window, rb>> /\ UNCHANGED ctl

\* runInPlace's second worker check, then recordWorkerOps.
InPlaceDone ==
    /\ run.pc = "inplaced"
    /\ IF Foreign
       THEN /\ Remember(Adopted)
            /\ run' = [run EXCEPT !.pc = "finish", !.inv = TRUE]
       ELSE /\ Remember([st EXCEPT !.ops = Ref(Partial(run.m.plan), run.wp)])
            /\ Goto("finish")
    /\ UNCHANGED <<disk, backup, hap, window, rb, left>> /\ UNCHANGED ctl

-----------------------------------------------------------------------------
(* Reloads *)

\* What a failed performReload leads to.
ReloadFailed(r) ==
    IF r.cont = "abort" THEN [r EXCEPT !.pc = "aborted"]
    ELSE IF r.kind \in {"apply", "pacer"} THEN Abort(r)
    ELSE [r EXCEPT !.pc = "finish", !.ok = FALSE]

\* A read-back's reload has a bound of its own: no rollback answers its failure.
SockFault == Fault(IF run.kind = "self" THEN "repair" ELSE "sock")

\* performReload up to the master's answer: HAProxy starts a worker from the
\* tree, or refuses the tree and keeps the worker it has.
Reload ==
    /\ run.pc = "reload"
    /\ Remember(NoPending(st))
    /\ \/ /\ Loadable(disk)
          /\ hap' = Worker(disk)
          /\ Goto("settle")
          /\ UNCHANGED left
       \/ /\ Refusable(disk)
          /\ run' = ReloadFailed([run EXCEPT !.det = TRUE])
          /\ IF run.kind = "self" THEN Fault("repair") ELSE UNCHANGED left
          /\ UNCHANGED hap
       \/ \* no answer: the reload may have happened, and the master may be there
          /\ SockFault
          /\ hap' \in {hap} \cup {Worker(t) : t \in {x \in {disk} : Loadable(x)}}
          /\ \E answers \in BOOLEAN : run' = ReloadFailed([run EXCEPT !.det = answers])
    /\ UNCHANGED <<disk, backup, window, rb>> /\ UNCHANGED ctl

\* awaitNewWorker and recordReload.
Settle ==
    /\ run.pc = "settle"
    /\ LET s == Recorded([st EXCEPT !.exp = hap.inc], run.rec) IN
       Remember(s) /\ DropBackups(s)
    /\ window' = TRUE
    /\ Goto(IF run.cont = "abort" THEN "aborted"
            ELSE IF run.kind = "apply" /\ run.m.mode # "revert_lkg" THEN "reloaded"
            ELSE "finish")
    /\ UNCHANGED <<disk, hap, rb, left>> /\ UNCHANGED ctl

\* The new worker does not answer within the reload timeout.
SettleTimeout ==
    /\ run.pc = "settle"
    /\ SockFault
    /\ run' = ReloadFailed(run)
    /\ UNCHANGED <<st, file, disk, backup, hap, window, rb>> /\ UNCHANGED ctl

\* reload's last phase.
Reloaded ==
    /\ run.pc = "reloaded"
    /\ Save([st EXCEPT !.phase = "reloaded"])
    /\ run' = [run EXCEPT !.pc = "finish", !.res = "reload"]
    /\ UNCHANGED <<disk, backup, hap, window, rb, left>> /\ UNCHANGED ctl

\* restoreJournal succeeds: the last known good tree is back, the journal empty.
Restore ==
    /\ run.pc \in {"abort", "revert"}
    /\ RestoredTree # Gone
    /\ disk' = RestoredTree
    /\ LET s == [st EXCEPT !.dig = RestoredTree, !.jr = FALSE] IN
       Remember(s) /\ DropBackups(s)
    /\ run' = IF run.pc = "revert" THEN [run EXCEPT !.pc = "reload", !.rec = st.lkg]
              ELSE IF run.opsRan
              THEN [run EXCEPT !.pc = "reload", !.rec = st.lkg, !.cont = "abort"]
              ELSE [run EXCEPT !.pc = "aborted"]
    /\ UNCHANGED <<hap, window, rb, left>> /\ UNCHANGED ctl

\* It fails, on a file error or on backups that are gone: the journal stays.
RestoreError ==
    /\ run.pc \in {"abort", "revert"}
    /\ IF RestoredTree = Gone THEN UNCHANGED left ELSE Fault("file")
    /\ disk' \in IF st.jr THEN {disk, Mixed} ELSE {disk}
    /\ run' = IF run.pc = "revert" THEN Abort(run) ELSE [run EXCEPT !.pc = "finish"]
    /\ UNCHANGED <<st, file, backup, hap, window, rb>> /\ UNCHANGED ctl

\* The end of abort: HAProxy's own verdict on this work is remembered.
Aborted ==
    /\ run.pc = "aborted"
    /\ Remember(IF run.det /\ run.kind = "apply"
                THEN [st EXCEPT !.nack = <<workIdentity(run.m)>>] ELSE st)
    /\ Goto("finish")
    /\ UNCHANGED <<disk, backup, hap, window, rb, left>> /\ UNCHANGED ctl

-----------------------------------------------------------------------------
(* Ends *)

\* Mutant: the worker is taken to run the plan although its reload is pending.
Committed_WhilePending(s) ==
    LET applied == IF run.m.mode = "revert_lkg" THEN s.lkg ELSE Ref(run.m.plan, run.ap)
        t == IF run.m.mode = "revert_lkg" THEN s ELSE [s EXCEPT !.dig = run.m.plan]
    IN IF run.inv THEN [t EXCEPT !.app = NoRef]
       ELSE [t EXCEPT !.app = applied, !.tok = run.m.tok, !.ops = applied]

\* commitLocked
Committed(s) ==
    LET revert == run.m.mode = "revert_lkg"
        applied == IF revert THEN s.lkg ELSE Ref(run.m.plan, run.ap)
        t == IF revert THEN s ELSE [s EXCEPT !.dig = run.m.plan]
    IN IF run.inv THEN [t EXCEPT !.app = NoRef]
       ELSE [t EXCEPT !.app = applied, !.tok = run.m.tok,
                      !.ops = IF s.pend THEN @ ELSE applied]

\* finish; the read-back of a runtime apply starts.
Finish ==
    /\ run.pc = "finish" /\ run.kind = "apply"
    /\ Save([(IF run.ok THEN Committed(st) ELSE [st EXCEPT !.app = NoRef])
                EXCEPT !.phase = "idle"])
    /\ rb' = (rb \/ (run.ok /\ run.res = "runtime"))
    /\ run' = NoRun
    /\ UNCHANGED <<disk, backup, hap, window, left>> /\ UNCHANGED ctl

\* The end of firePendingReload and selfReload.
FinishOwn ==
    /\ run.pc = "finish" /\ run.kind \in {"pacer", "self"}
    /\ Save(IF run.kind = "pacer" /\ ~run.ok THEN [st EXCEPT !.app = NoRef] ELSE st)
    /\ run' = NoRun
    /\ UNCHANGED <<disk, backup, hap, window, rb, left>> /\ UNCHANGED ctl

\* The end of recoverFromCrash.
Recovered ==
    /\ run.pc = "finish" /\ run.kind = "recovery"
    /\ MustSave([st EXCEPT !.phase = "idle", !.running = IF run.ok THEN @ ELSE NoRef])
    /\ run' = NoRun
    /\ UNCHANGED <<disk, backup, hap, window, rb, left>> /\ UNCHANGED ctl

-----------------------------------------------------------------------------
(* Pacer, read-back, time and crashes *)

\* firePendingReload once the window has passed.
FirePending ==
    /\ run.pc = "idle" /\ ~window
    /\ st.pendRef.id # None /\ st.pendRef.pf # 0
    /\ run' = [NoRun EXCEPT !.pc = "reload", !.kind = "pacer", !.rec = st.pendRef]
    /\ UNCHANGED <<st, file, disk, backup, hap, window, rb, left>> /\ UNCHANGED ctl

\* readBack of a runtime apply, possibly several applies later.  The worker and
\* the files can disagree whenever the worker does not run what is on disk.
ReadBack ==
    /\ run.pc = "idle" /\ rb
    /\ rb' = FALSE
    /\ \/ UNCHANGED <<st, file, run>>
       \/ /\ hap.runs # disk
          /\ IF window
             THEN /\ Save([st EXCEPT !.pend = TRUE, !.pendRef = st.app])
                  /\ UNCHANGED run
             ELSE /\ disk \in Bad => left.repair > 0
                  /\ run' = [NoRun EXCEPT !.pc = "reload", !.kind = "self", !.rec = st.app]
                  /\ UNCHANGED <<st, file>>
    /\ UNCHANGED <<disk, backup, hap, window, left>> /\ UNCHANGED ctl

WindowCloses ==
    /\ window /\ window' = FALSE
    /\ UNCHANGED <<st, file, disk, backup, hap, run, rb, left>> /\ UNCHANGED ctl

\* cachedNACK after the cooldown.
NackExpires ==
    /\ run.pc = "idle" /\ st.nack # <<>>
    /\ Remember([st EXCEPT !.nack = <<>>])
    /\ UNCHANGED <<disk, backup, hap, window, run, rb, left>> /\ UNCHANGED ctl

\* The agent dies and loses everything but the state file and the volumes.
Crash ==
    /\ run.pc # "down"
    /\ Fault(IF file.jr /\ backup = Gone THEN "torn" ELSE "crash")
    /\ st' = file
    /\ window' = FALSE /\ rb' = FALSE
    /\ run' = [NoRun EXCEPT !.pc = "down"]
    /\ UNCHANGED <<file, disk, backup, hap>> /\ UNCHANGED ctl

\* Mutant: the scheduled reload survives the restart that voids its proof.
Start_KeepsPending ==
    /\ run.pc = "down"
    /\ MustSave([st EXCEPT !.app.pf = 0, !.running.pf = 0, !.ops.pf = 0, !.lkg.pf = 0,
                           !.pendRef.pf = 0, !.nack = <<>>, !.dig = disk, !.exp = hap.inc])
    /\ run' = [NoRun EXCEPT !.pc = "recover", !.kind = "recovery"]
    /\ UNCHANGED <<disk, backup, hap, window, rb, left>> /\ UNCHANGED ctl

\* adoptDisk.  The digest covers the paths the manifest owned: a tree whose
\* write was interrupted differs there or only in files it created.
Start ==
    /\ run.pc = "down"
    /\ \E same \in BOOLEAN :
        /\ disk = st.dig => same
        /\ disk \in Plans \cup {None} /\ disk # st.dig => ~same
        /\ LET Kept(r) == Ref(IF same THEN r.id ELSE None, 0) IN
           MustSave([NoPending(st) EXCEPT
                       !.app = Kept(@), !.running = Kept(@), !.ops = Kept(@), !.lkg.pf = 0,
                       !.nack = <<>>, !.dig = disk, !.exp = hap.inc])
    /\ run' = [NoRun EXCEPT !.pc = "recover", !.kind = "recovery"]
    /\ UNCHANGED <<disk, backup, hap, window, rb, left>> /\ UNCHANGED ctl

\* recoverFromCrash: an interrupted apply is answered with a reload of a tree
\* nobody can name.
Recover ==
    /\ run.pc = "recover"
    /\ IF st.phase = "idle"
       THEN run' = NoRun /\ UNCHANGED <<st, file>>
       ELSE Goto("reload") /\ Remember(Invalidated(st))
    /\ UNCHANGED <<disk, backup, hap, window, rb, left>> /\ UNCHANGED ctl

\* The HAProxy container restarts on a tree it loads.
Restart ==
    /\ disk \in (Plans \cup {None}) \ Bad
    /\ Fault("restart")
    /\ hap' = Worker(disk)
    /\ UNCHANGED <<st, file, disk, backup, window, run, rb>> /\ UNCHANGED ctl

-----------------------------------------------------------------------------
(* Specification *)

Init ==
    /\ st = InitState /\ file = InitState
    /\ disk = None /\ backup = Gone
    /\ hap = [inc |-> 0, runs |-> None]
    /\ window = FALSE /\ rb = FALSE /\ run = NoRun
    /\ job = [e \in Epochs |-> <<>>]
    /\ snap = [e \in Epochs |-> <<>>]
    /\ seq = 0 /\ left \in Faults

Controllers ==
    \E e \in Epochs :
        \/ \E p \in Plans : Deploy(e, p)
        \/ ReadState(e)
        \/ Verify(e)
        \/ /\ snap[e] # <<>>
           /\ \E m \in Composed(e, snap[e]) \cup Reverts(e, snap[e]) :
                  Admit(e, m) \/ Unsaved(e, m)

Applying ==
    \/ Backup \/ WriteSome \/ WriteRest \/ FileError
    \/ Activate \/ NotExecutable
    \/ CheckBefore \/ Execute \/ ExecuteError \/ CheckError \/ CheckAfter
    \/ InPlace \/ InPlaceDone
    \/ Reload \/ Settle \/ SettleTimeout \/ Reloaded
    \/ Restore \/ RestoreError \/ Aborted
    \/ Finish \/ FinishOwn \/ Recovered

Background ==
    FirePending \/ ReadBack \/ WindowCloses \/ NackExpires \/ Start \/ Recover

Environment == Crash \/ Restart

Next == Controllers \/ Applying \/ Background \/ Environment

Spec == Init /\ [][Next]_vars

-----------------------------------------------------------------------------
(* Properties *)

\* Between applies, a worker plan the agent vouches for with a proof is what
\* the worker it knows really runs.  Controllers diff their ops against it.
WorkerTruth ==
    run.pc = "idle" /\ st.ops.pf # 0 /\ st.exp = hap.inc => hap.runs = st.ops.id

\* At every moment, also half way through an apply, the tree a rollback would
\* put back is the one of the last known good plan, and HAProxy loads it.
RollbackTruth ==
    run.pc # "down" /\ st.lkg.pf # 0 => RestoredTree = st.lkg.id /\ st.lkg.id \notin Bad

\* Runtime ops reach a worker the agent knows only while it runs the plan they
\* were composed from, however late the request arrived.
OpsMeetTheirBaseline ==
    st.exp = hap.inc =>
        /\ run.pc = "exec" => hap.runs = run.m.prev.id
        /\ run.pc = "inplace" /\ samePlanRef(run.m.exp, st.ops) => hap.runs = run.m.exp.id

Claims(s) == {s.app, s.running, s.ops, s.lkg}
Held == Claims(st) \cup Claims(file)
            \cup UNION {{snap[e].app, snap[e].ops, snap[e].running} :
                            e \in {x \in Epochs : snap[x] # <<>>}}

\* A proof names one occurrence of one plan, for the agent, its state file and
\* every controller that still holds it, across crashes and failed saves; and
\* none of them can be issued again.
ProofsNameOnePlan ==
    /\ \A r, t \in Held : r.pf # 0 /\ r.pf = t.pf => r.id = t.id
    /\ \A r \in Held : r.pf <= file.gen

\* A leader of an older epoch never takes over a pod a newer one has applied to.
EpochNeverFallsBack == [][st'.tok[1] >= st.tok[1]]_vars

\* A reload that waits is never cancelled: it keeps a plan to load until a
\* reload is asked of HAProxy or the agent restarts.
ScheduledReloadKept ==
    [][st.pendRef.pf # 0 /\ run.pc # "reload" /\ run'.pc # "down" /\ run.pc # "down"
            => st'.pendRef.pf # 0]_vars

\* The agent's goroutines run, the pacer gets the apply lock in the end (a Go
\* mutex starves no waiter) and time passes.  Controllers and faults are free.
Fairness ==
    /\ WF_vars(Applying) /\ WF_vars(Start) /\ WF_vars(Recover)
    /\ SF_vars(FirePending) /\ WF_vars(WindowCloses)

FairSpec == Spec /\ Fairness

\* A scheduled reload happens: the pacer performs it once the window closes, an
\* apply's own reload consumes it, or a restart answers for it.
PendingReloadHappens == st.pend ~> ~st.pend

=============================================================================
