----------------------------- MODULE RenderGate -----------------------------
(***************************************************************************)
(* The render gate (pkg/controller/rendergate): it runs `haproxy -c` over  *)
(* the renders that are already on their way to the pods and publishes the *)
(* verdicts.  The event loop records renders and what the pods report; a   *)
(* worker checks one render at a time, the newest first, then older ones   *)
(* some pod still runs.  Both hold one mutex; an action is one hold of it. *)
(*                                                                         *)
(* Renders are numbered by occurrence, so the number stands for the render *)
(* proof and its order for the order of arrival; the content stands for    *)
(* the verdict key, the plan and the checksum of all HAProxy reads.        *)
(***************************************************************************)
EXTENDS Integers, Sequences, FiniteSets

CONSTANTS
    Contents,               \* what a render may contain
    Bad,                    \* the contents HAProxy refuses
    Pods,                   \* the pods that may report
    maxRetainedRenders,     \* superseded renders kept beyond those pods run
    maxRememberedVerdicts,  \* verdicts kept
    MaxRenders,             \* bound: renders
    MaxBroken,              \* bound: checks that cannot run
    MaxTerms                \* bound: ends of a leadership term

ASSUME BadAssumption == Bad \subseteq Contents
ASSUME CapsAssumption == maxRetainedRenders \in Nat /\ maxRememberedVerdicts \in Nat
ASSUME GateBoundsAssumption == MaxRenders \in Nat /\ MaxBroken \in Nat /\ MaxTerms \in Nat

NoRender == 0
Unknown == "unknown"    \* no verdict remembered
Failed == "failed"      \* the check could not run

VARIABLES
    hist,           \* the content of every render so far
    newest,         \* the last render seen
    superseded,     \* renders some pod may still be running, oldest = lowest first
    said,           \* the verdict published on each, which sets its checked flag
    appliedByPod,   \* each pod's last reported render
    pessimistic,    \* the latch
    verdicts,       \* the remembered answer per content
    verdictOrder,   \* the remembered contents, least recently used first
    wake,           \* a token in the wake channel
    worker,         \* "idle", "take", "check", "backoff"
    job,            \* the render the worker checks, and the remembered answer
    up,             \* between Start and the end of its context
    left            \* what is left of the bounds on the environment

latchVars == <<newest, superseded, appliedByPod, pessimistic, verdicts, verdictOrder>>
workVars == <<wake, worker, job>>
gateVars == <<hist, latchVars, said, workVars, up, left>>

Renders == 1..Len(hist)
checked == {n \in Renders : said[n] # Unknown}
NoJob == [render |-> NoRender, answer |-> Unknown]

-----------------------------------------------------------------------------
(* The event loop *)

Running == {appliedByPod[p] : p \in Pods}

\* Mutant: the oldest renders go, running or not.
trimSuperseded_Oldest(s) ==
    {n \in s : Cardinality({k \in s : k < n}) >= Cardinality(s) - maxRetainedRenders}

\* trimSupersededLocked: above the cap, the oldest renders no pod reports go.
trimSuperseded(s) ==
    LET idle == s \ Running
    IN  {n \in s : n \in idle =>
            Cardinality({k \in idle : k < n}) >= Cardinality(s) - maxRetainedRenders}

handleTemplateRendered(c) ==
    /\ up /\ Len(hist) < MaxRenders
    /\ hist' = Append(hist, c) /\ said' = Append(said, Unknown) /\ newest' = Len(hist) + 1
    /\ superseded' = IF newest # NoRender /\ newest \notin checked
                     THEN trimSuperseded(superseded \cup {newest}) ELSE superseded
    /\ wake' = TRUE
    /\ UNCHANGED <<appliedByPod, pessimistic, verdicts, verdictOrder, worker, job, up, left>>

\* Mutant: what a pod reports does not wake the worker.
handleConfigAppliedToPod_Silent(p, n) ==
    /\ up
    /\ appliedByPod' = [appliedByPod EXCEPT ![p] = IF n = NoRender THEN @ ELSE n]
    /\ UNCHANGED <<hist, newest, superseded, said, pessimistic, verdicts, verdictOrder,
                   workVars, up, left>>

\* A report without a proof of the render applied only wakes the worker.
handleConfigAppliedToPod(p, n) ==
    /\ up
    /\ appliedByPod' = [appliedByPod EXCEPT ![p] = IF n = NoRender THEN @ ELSE n]
    /\ wake' = TRUE
    /\ UNCHANGED <<hist, newest, superseded, said, pessimistic, verdicts, verdictOrder,
                   worker, job, up, left>>

retainPods(live) ==
    /\ up
    /\ appliedByPod' = [p \in Pods |-> IF p \in live THEN appliedByPod[p] ELSE NoRender]
    /\ UNCHANGED <<hist, newest, superseded, said, pessimistic, verdicts, verdictOrder,
                   workVars, up, left>>

forgetPod(p) == retainPods(Pods \ {p})

reset ==
    /\ newest' = NoRender /\ superseded' = {} /\ pessimistic' = FALSE
    /\ appliedByPod' = [p \in Pods |-> NoRender]
    /\ verdicts' = [c \in Contents |-> Unknown] /\ verdictOrder' = <<>>

\* LostLeadershipEvent: the loop and the worker go on until the context ends.
handleLostLeadership ==
    /\ up /\ left.terms > 0 /\ left' = [left EXCEPT !.terms = @ - 1]
    /\ reset
    /\ UNCHANGED <<hist, said, workVars, up>>

-----------------------------------------------------------------------------
(* The worker *)

Woken ==
    /\ up /\ worker = "idle" /\ wake
    /\ wake' = FALSE /\ worker' = "take"
    /\ UNCHANGED <<hist, latchVars, said, job, up, left>>

touchVerdict(c) == Append(SelectSeq(verdictOrder, LAMBDA k : k # c), c)

\* The straggler to check: the oldest unchecked render some pod reports.
Stragglers == {n \in superseded \ checked : n \in Running}

jobs ==
    IF newest # NoRender /\ newest \notin checked THEN {newest}
    ELSE {n \in Stragglers : \A k \in Stragglers : n <= k}

\* takeJob, and the look at the remembered verdicts that check begins with.
takeJob ==
    /\ worker = "take"
    /\ \/ /\ jobs = {}
          /\ worker' = "idle" /\ job' = NoJob /\ UNCHANGED verdictOrder
       \/ \E n \in jobs :
            /\ worker' = "check" /\ job' = [render |-> n, answer |-> verdicts[hist[n]]]
            /\ verdictOrder' = IF verdicts[hist[n]] # Unknown THEN touchVerdict(hist[n])
                               ELSE verdictOrder
    /\ UNCHANGED <<hist, newest, superseded, said, appliedByPod, pessimistic, verdicts,
                   wake, up, left>>

\* `haproxy -c` (external): HAProxy's answer on a content.
checkRendered(c) == IF c \in Bad THEN "refused" ELSE "ok"

\* rememberVerdictLocked: the least recently used content goes above the cap.
rememberVerdict(c, a) ==
    LET order == touchVerdict(c)
        excess == Len(order) > maxRememberedVerdicts
    IN  /\ verdictOrder' = IF excess THEN Tail(order) ELSE order
        /\ verdicts' = [k \in Contents |-> IF excess /\ k = Head(order) THEN Unknown
                                           ELSE IF k = c THEN a ELSE verdicts[k]]

speaksForNewest(n) == newest # NoRender /\ (newest = n \/ hist[newest] = hist[n])

\* Mutant: a verdict on any render moves the latch.
settle_Any(ok, isNewest) == pessimistic' = ~ok

settle(ok, isNewest) == pessimistic' = IF isNewest THEN ~ok ELSE pessimistic

\* Mutant: the worker reads the newest render again when it runs the check.
check_ByNewest(a) ==
    /\ worker = "check" /\ newest # NoRender
    /\ a = IF job.answer # Unknown THEN job.answer ELSE checkRendered(hist[newest])
    /\ said' = [said EXCEPT ![job.render] = a]
    /\ rememberVerdict(hist[job.render], a)
    /\ settle(a = "ok", speaksForNewest(job.render))
    /\ worker' = "take" /\ job' = NoJob
    /\ UNCHANGED <<hist, newest, superseded, appliedByPod, wake, up, left>>

check(a) ==
    /\ worker = "check"
    /\ \/ job.answer = a /\ a # Unknown /\ UNCHANGED left
       \/ job.answer = Unknown /\ a = checkRendered(hist[job.render]) /\ UNCHANGED left
       \/ /\ job.answer = Unknown /\ a = Failed
          /\ left.broken > 0 /\ left' = [left EXCEPT !.broken = @ - 1]
    /\ said' = IF a # Failed THEN [said EXCEPT ![job.render] = a] ELSE said
    /\ IF a # Failed /\ job.answer = Unknown THEN rememberVerdict(hist[job.render], a)
       ELSE UNCHANGED <<verdicts, verdictOrder>>
    /\ settle(a = "ok", speaksForNewest(job.render))
    /\ worker' = IF a # Failed THEN "take" ELSE "backoff"
    /\ job' = NoJob
    /\ UNCHANGED <<hist, newest, superseded, appliedByPod, wake, up>>

\* Mutant: a check that could not run is not tried again.
sleepUntil_Idle ==
    /\ worker = "backoff" /\ worker' = "idle"
    /\ UNCHANGED <<hist, latchVars, said, wake, job, up, left>>

\* The delay before a check that could not run is tried again has passed.
sleepUntil ==
    /\ worker = "backoff" /\ worker' = "take"
    /\ UNCHANGED <<hist, latchVars, said, wake, job, up, left>>

-----------------------------------------------------------------------------
(* Terms *)

\* The context ends: a check under way gives no verdict.
Stop ==
    /\ up /\ left.terms > 0 /\ left' = [left EXCEPT !.terms = @ - 1]
    /\ up' = FALSE /\ worker' = "idle" /\ job' = NoJob
    /\ UNCHANGED <<hist, latchVars, said, wake>>

Start ==
    /\ ~up /\ up' = TRUE /\ reset
    /\ UNCHANGED <<hist, said, workVars, left>>

-----------------------------------------------------------------------------
GateInit ==
    /\ hist = <<>> /\ newest = NoRender /\ superseded = {} /\ said = <<>>
    /\ appliedByPod = [p \in Pods |-> NoRender] /\ pessimistic = FALSE
    /\ verdicts = [c \in Contents |-> Unknown] /\ verdictOrder = <<>>
    /\ wake = FALSE /\ worker = "idle" /\ job = NoJob /\ up = TRUE
    /\ left = [broken |-> MaxBroken, terms |-> MaxTerms]

\* The worker's steps, which only need the processor and `haproxy -c`.
Work == Woken \/ takeJob \/ sleepUntil \/ \E a \in {"ok", "refused", Failed} : check(a)

Loop ==
    \/ \E c \in Contents : handleTemplateRendered(c)
    \/ \E p \in Pods, n \in Renders \cup {NoRender} : handleConfigAppliedToPod(p, n)
    \/ \E p \in Pods : forgetPod(p)
    \/ \E live \in SUBSET Pods : retainPods(live)
    \/ handleLostLeadership

GateNext == Loop \/ Work \/ Stop \/ Start

GateSpec == GateInit /\ [][GateNext]_gateVars

\* runChecks never stops while its context lives, and a check ends or times out.
GateFairSpec == GateSpec /\ WF_gateVars(Work)

-----------------------------------------------------------------------------
(* Properties *)

\* No more renders can be retained than verdicts remembered.
MemorySuffices ==
    maxRetainedRenders <= maxRememberedVerdicts /\ Cardinality(Pods) <= maxRememberedVerdicts

\* Once the newest render is judged the latch says what HAProxy said of it: no
\* late verdict on a render before it, no failed check of older content and no
\* verdict taken from memory moves the latch away (settleLocked, check).  With a
\* fleet larger than the memory of verdicts a check that cannot run on an old
\* render of the newest content would close it.
LatchFollowsNewest ==
    MemorySuffices /\ newest \in checked => pessimistic = (hist[newest] \in Bad)

\* A superseded render some pod runs is not dropped before its verdict, whatever
\* arrives, until the term ends (trimSupersededLocked, rememberRender).
StragglersAreKept ==
    [][newest' # NoRender => Stragglers \subseteq superseded']_gateVars

\* What the gate publishes is what RenderVerdicts promises: each render at most
\* one verdict, the one its content deserves, though taken from memory; and the
\* latch moves with verdicts on the latest content only.
Promise == INSTANCE RenderVerdicts WITH latest <- newest, latch <- pessimistic

KeepsPromise == Promise!Spec

\* The newest render always gets its verdict, unless newer ones keep coming or the
\* term ends: no wake-up is lost between the event loop and the worker, and a
\* check that could not run is tried again (runChecks).
NewestIsJudged ==
    []<>(newest \in checked \cup {NoRender} \/ ~up)

\* Superseded renders that pods run are all judged in the end, though the worker
\* slept when a pod reported one and the reports keep changing (takeJob, handleConfigAppliedToPod).
StragglersAreJudged ==
    []<>(Stragglers = {} \/ ~up)

=============================================================================
