-------------------------- MODULE RenderGateProofs --------------------------
(***************************************************************************)
(* The render gate keeps its promise, for any contents, any fleet and any  *)
(* caps on what it retains and remembers.                                  *)
(***************************************************************************)
EXTENDS RenderGate, TLAPS

Answers == {Unknown, "ok", "refused"}

\* What the gate remembers of a content is what HAProxy says of it, and so is the answer
\* the worker took along; the render it checks has no verdict yet.
Remembers ==
    /\ hist \in Seq(Contents) /\ said \in Seq(Answers) /\ Len(said) = Len(hist)
    /\ newest \in 0 .. Len(hist) /\ superseded \subseteq Renders
    /\ \A c \in Contents : verdicts[c] \in {Unknown, checkRendered(c)}
    /\ worker = "check" =>
          /\ job.render \in Renders /\ said[job.render] = Unknown
          /\ job.answer \in {Unknown, checkRendered(hist[job.render])}

\* The gate starts with no render and no memory.
LEMMA InitRemembers == GateInit => Remembers
BY DEF GateInit, Remembers, Renders, NoRender, Answers

\* trimSupersededLocked drops renders and adds none, and what a pod runs stays.
LEMMA TrimKeepsRunning ==
    ASSUME NEW s
    PROVE  trimSuperseded(s) \subseteq s /\ s \cap Running \subseteq trimSuperseded(s)
BY DEF trimSuperseded

\* handleTemplateRendered: the renders so far keep their place, their content and their
\* verdict.
LEMMA AppendKeeps ==
    ASSUME NEW S, NEW q \in Seq(S), NEW e \in S
    PROVE  /\ Append(q, e) \in Seq(S) /\ Len(Append(q, e)) = Len(q) + 1
           /\ \A n \in 1 .. Len(q) : Append(q, e)[n] = q[n]
OBVIOUS

\* rememberRender: a new render has no verdict, and what is remembered stays true.
LEMMA RenderedRemembers ==
    ASSUME Remembers, NEW c \in Contents, handleTemplateRendered(c) PROVE Remembers'
<1>1. /\ hist' = Append(hist, c) /\ said' = Append(said, Unknown) /\ newest' = Len(hist) + 1
      /\ UNCHANGED <<verdicts, worker, job>>
  BY DEF handleTemplateRendered
<1>2. Unknown \in Answers /\ hist \in Seq(Contents) /\ said \in Seq(Answers) /\ Len(said) = Len(hist)
  BY DEF Remembers, Answers
<1>3. /\ hist' \in Seq(Contents) /\ Len(hist') = Len(hist) + 1
      /\ \A n \in Renders : hist'[n] = hist[n]
  BY <1>1, <1>2, AppendKeeps DEF Renders
<1>4. /\ said' \in Seq(Answers) /\ Len(said') = Len(hist')
      /\ \A n \in Renders : said'[n] = said[n]
  BY <1>1, <1>2, <1>3, AppendKeeps DEF Renders
<1>5. Renders \subseteq Renders' /\ newest' \in 0 .. Len(hist')
  BY <1>1, <1>2, <1>3 DEF Renders
<1>6. superseded' \subseteq Renders'
  <2>1. superseded' \subseteq superseded \cup (IF newest # NoRender THEN {newest} ELSE {})
    BY TrimKeepsRunning DEF handleTemplateRendered
  <2> QED BY <2>1, <1>2, <1>5 DEF Remembers, Renders, NoRender
<1> QED
  BY <1>1, <1>2, <1>3, <1>4, <1>5, <1>6 DEF Remembers, checkRendered

\* rememberVerdictLocked: the verdict remembered is HAProxy's, whatever is forgotten for it.
LEMMA VerdictRemembered ==
    ASSUME Remembers, NEW c \in Contents, rememberVerdict(c, checkRendered(c))
    PROVE  \A k \in Contents : verdicts'[k] \in {Unknown, checkRendered(k)}
BY DEF rememberVerdict, Remembers

\* check: a verdict is the one the render's content deserves, from memory or not.
LEMMA CheckIsTrue ==
    ASSUME Remembers, NEW a \in {"ok", "refused", Failed}, check(a)
    PROVE  /\ job.render \in Renders /\ said[job.render] = Unknown
           /\ hist[job.render] \in Contents
           /\ a # Failed => a = checkRendered(hist[job.render])
<1>1. job.render \in Renders /\ said[job.render] = Unknown
  BY DEF check, Remembers
<1>2. hist[job.render] \in Contents
  BY <1>1 DEF Remembers, Renders
<1> QED
  BY <1>1, <1>2 DEF check, Remembers, Failed, Unknown

\* check: the verdict it remembers is HAProxy's, and the render is no longer under check.
LEMMA CheckRemembers ==
    ASSUME Remembers, NEW a \in {"ok", "refused", Failed}, check(a) PROVE Remembers'
<1>1. /\ UNCHANGED <<hist, newest, superseded>> /\ worker' # "check"
      /\ said' = IF a # Failed THEN [said EXCEPT ![job.render] = a] ELSE said
  BY DEF check
<1>2. said' \in Seq(Answers) /\ Len(said') = Len(hist')
  BY <1>1, CheckIsTrue DEF Remembers, Renders, Answers, Failed
<1>3. \A k \in Contents : verdicts'[k] \in {Unknown, checkRendered(k)}
  <2>1. CASE a # Failed /\ job.answer = Unknown
    BY <2>1, CheckIsTrue, VerdictRemembered DEF check
  <2>2. CASE ~(a # Failed /\ job.answer = Unknown)
    BY <2>2 DEF check, Remembers
  <2> QED BY <2>1, <2>2
<1> QED
  BY <1>1, <1>2, <1>3 DEF Remembers, Renders

\* takeJob: the render taken has no verdict, and the answer taken along is from memory.
LEMMA TakeJobRemembers == ASSUME Remembers, takeJob PROVE Remembers'
<1>1. UNCHANGED <<hist, said, newest, superseded, verdicts>>
  BY DEF takeJob
<1>2. ASSUME worker' = "check" PROVE \E n \in jobs : job' = [render |-> n, answer |-> verdicts[hist[n]]]
  BY <1>2 DEF takeJob
<1>3. \A n \in jobs : n \in Renders /\ n \notin checked
  <2>1. newest # NoRender => newest \in Renders
    <3>1. Len(hist) \in Nat /\ newest \in 0 .. Len(hist)
      BY DEF Remembers
    <3> QED BY <3>1 DEF Renders, NoRender
  <2>2. Stragglers \subseteq Renders \ checked
    BY DEF Stragglers, Remembers
  <2> QED BY <2>1, <2>2 DEF jobs
<1>4. \A n \in Renders : n \notin checked => said[n] = Unknown
  BY DEF checked
<1>5. \A n \in Renders : hist[n] \in Contents
  BY DEF Remembers, Renders
<1>6. ASSUME worker' = "check"
      PROVE  /\ job'.render \in Renders /\ said[job'.render] = Unknown
             /\ job'.answer \in {Unknown, checkRendered(hist[job'.render])}
  <2>1. PICK n \in jobs : job' = [render |-> n, answer |-> verdicts[hist[n]]]
    BY <1>2, <1>6
  <2> QED BY <2>1, <1>3, <1>4, <1>5 DEF Remembers
<1> QED
  BY <1>1, <1>6 DEF Remembers, Renders, checkRendered

\* reset: an empty memory is a true one.
LEMMA ResetRemembers ==
    ASSUME Remembers, reset, UNCHANGED <<hist, said, worker, job>> PROVE Remembers'
BY DEF Remembers, reset, Renders, NoRender, checkRendered

\* Every step of the gate keeps what it remembers true.
LEMMA NextRemembers == Remembers /\ [GateNext]_gateVars => Remembers'
<1> SUFFICES ASSUME Remembers, [GateNext]_gateVars PROVE Remembers'
  OBVIOUS
<1>1. ASSUME UNCHANGED <<hist, said, newest, superseded, verdicts>>,
             worker' # "check" \/ UNCHANGED <<worker, job>>
      PROVE  Remembers'
  BY <1>1 DEF Remembers, Renders, checkRendered
<1>2. CASE Loop
  <2>1. CASE \E c \in Contents : handleTemplateRendered(c)
    BY <2>1, RenderedRemembers
  <2>2. CASE \E p \in Pods, n \in Renders \cup {NoRender} : handleConfigAppliedToPod(p, n)
    BY <1>1, <2>2 DEF handleConfigAppliedToPod
  <2>3. CASE \E live \in SUBSET Pods : retainPods(live)
    BY <1>1, <2>3 DEF retainPods, workVars
  <2>4. CASE \E p \in Pods : forgetPod(p)
    BY <1>1, <2>4 DEF forgetPod, retainPods, workVars
  <2>5. CASE handleLostLeadership
    BY <2>5, ResetRemembers DEF handleLostLeadership, workVars
  <2> QED BY <1>2, <2>1, <2>2, <2>3, <2>4, <2>5 DEF Loop
<1>3. CASE Work
  <2>1. CASE Woken \/ sleepUntil
    BY <1>1, <2>1 DEF Woken, sleepUntil, latchVars
  <2>2. CASE takeJob
    BY <2>2, TakeJobRemembers
  <2>3. CASE \E a \in {"ok", "refused", Failed} : check(a)
    BY <2>3, CheckRemembers
  <2> QED BY <1>3, <2>1, <2>2, <2>3 DEF Work
<1>4. CASE Stop
  BY <1>1, <1>4 DEF Stop, latchVars
<1>5. CASE Start
  BY <1>5, ResetRemembers DEF Start, workVars
<1>6. CASE UNCHANGED gateVars
  BY <1>1, <1>6 DEF gateVars, latchVars, workVars
<1> QED
  BY <1>2, <1>3, <1>4, <1>5, <1>6 DEF GateNext

\* What the gate remembers is HAProxy's answer, always.
LEMMA AlwaysRemembers == GateSpec => []Remembers
BY InitRemembers, NextRemembers, PTL DEF GateSpec

-----------------------------------------------------------------------------

\* check, settleLocked: a verdict is a Judge step of the promise, a check that could not
\* run a CannotJudge step.
LEMMA CheckKeepsPromise ==
    ASSUME Remembers, NEW a \in {"ok", "refused", Failed}, check(a)
    PROVE  \E n \in 1 .. Len(hist) : Promise!Judge(n) \/ Promise!CannotJudge(n)
<1> DEFINE n == job.render
<1>1. /\ n \in 1 .. Len(hist) /\ said[n] = Unknown
      /\ a # Failed => a = checkRendered(hist[n])
  BY CheckIsTrue DEF Renders
<1>2. /\ UNCHANGED <<hist, newest>>
      /\ said' = IF a # Failed THEN [said EXCEPT ![n] = a] ELSE said
      /\ pessimistic' = IF speaksForNewest(n) THEN ~(a = "ok") ELSE pessimistic
  BY DEF check, settle
<1>3. speaksForNewest(n) <=> Promise!SpeaksForLatest(n)
  BY DEF speaksForNewest, Promise!SpeaksForLatest, NoRender
<1>4. CASE a # Failed
  <2>1. a = (IF hist[n] \in Bad THEN "refused" ELSE "ok")
    BY <1>1, <1>4 DEF checkRendered
  <2>2. ~(a = "ok") <=> hist[n] \in Bad
    BY <2>1
  <2>3. pessimistic' = IF Promise!SpeaksForLatest(n) THEN hist[n] \in Bad ELSE pessimistic
    BY <1>2, <1>3, <2>2
  <2>4. Promise!Judge(n)
    BY <1>1, <1>2, <1>4, <2>1, <2>3 DEF Promise!Judge, Promise!Unsaid, Unknown
  <2> QED BY <1>1, <2>4
<1>5. CASE a = Failed
  <2>1. ~(a = "ok")
    BY <1>5 DEF Failed
  <2>2. pessimistic' = IF Promise!SpeaksForLatest(n) THEN TRUE ELSE pessimistic
    BY <1>2, <1>3, <2>1
  <2>3. Promise!CannotJudge(n)
    BY <1>1, <1>2, <1>5, <2>2 DEF Promise!CannotJudge, Promise!Unsaid, Unknown
  <2> QED BY <1>1, <2>3
<1> QED BY <1>4, <1>5

\* rendergate.go: the gate implements RenderVerdicts.  Each render gets at most one
\* verdict, the one its content deserves though the gate answers from a memory that
\* forgets, and the latch moves with verdicts on the latest content only; for any number
\* of contents, pods, renders and terms.
THEOREM GateKeepsPromise == GateSpec => KeepsPromise
<1>1. GateInit => Promise!Init
  BY DEF GateInit, Promise!Init, NoRender
<1>2. ASSUME Remembers, [GateNext]_gateVars PROVE [Promise!Next]_(Promise!vars)
  <2>1. ASSUME UNCHANGED <<hist, newest, said, pessimistic>> PROVE UNCHANGED Promise!vars
    BY <2>1 DEF Promise!vars
  <2>2. ASSUME reset, UNCHANGED <<hist, said>> PROVE Promise!Next
    BY <2>2 DEF reset, Promise!Next, Promise!EndTerm, NoRender
  <2>3. CASE Loop
    <3>1. ASSUME NEW c \in Contents, handleTemplateRendered(c) PROVE Promise!Next
      BY <3>1 DEF handleTemplateRendered, Promise!Next, Promise!Submit, Promise!Unsaid, Unknown
    <3>2. ASSUME NEW live, retainPods(live) PROVE UNCHANGED Promise!vars
      BY <2>1, <3>2 DEF retainPods
    <3>3. ASSUME NEW p, NEW n, handleConfigAppliedToPod(p, n) PROVE UNCHANGED Promise!vars
      BY <2>1, <3>3 DEF handleConfigAppliedToPod
    <3>4. CASE handleLostLeadership
      BY <2>2, <3>4 DEF handleLostLeadership
    <3> QED BY <2>3, <3>1, <3>2, <3>3, <3>4 DEF Loop, forgetPod
  <2>4. CASE Work
    <3>1. CASE \E a \in {"ok", "refused", Failed} : check(a)
      BY <1>2, <3>1, CheckKeepsPromise DEF Promise!Next
    <3>2. CASE Woken \/ takeJob \/ sleepUntil
      BY <2>1, <3>2 DEF Woken, takeJob, sleepUntil, latchVars
    <3> QED BY <2>4, <3>1, <3>2 DEF Work
  <2>5. CASE Stop
    BY <2>1, <2>5 DEF Stop, latchVars
  <2>6. CASE Start
    BY <2>2, <2>6 DEF Start
  <2>7. CASE UNCHANGED gateVars
    BY <2>1, <2>7 DEF gateVars, latchVars
  <2> QED BY <1>2, <2>3, <2>4, <2>5, <2>6, <2>7 DEF GateNext
<1> QED
  BY <1>1, <1>2, AlwaysRemembers, PTL DEF GateSpec, KeepsPromise, Promise!Spec

\* trimSupersededLocked, rememberRender: while the term lasts no superseded render that
\* some pod runs is dropped before its verdict, whatever the cap and the fleet.
THEOREM RunningIsRetained == GateSpec => StragglersAreKept
<1> DEFINE A == newest' # NoRender => Stragglers \subseteq superseded'
<1>1. ASSUME [GateNext]_gateVars PROVE [A]_gateVars
  <2>1. ASSUME NEW c \in Contents, handleTemplateRendered(c) PROVE A
    <3>1. Stragglers \subseteq superseded \cap Running
      BY DEF Stragglers
    <3>2. superseded \cap Running \subseteq trimSuperseded(superseded \cup {newest})
      BY TrimKeepsRunning
    <3> QED BY <2>1, <3>1, <3>2 DEF handleTemplateRendered
  <2>2. ASSUME superseded' = superseded PROVE A
    BY <2>2 DEF Stragglers
  <2>3. ASSUME reset PROVE A
    BY <2>3 DEF reset
  <2> QED
    BY <1>1, <2>1, <2>2, <2>3 DEF GateNext, Loop, Work, Stop, Start, handleConfigAppliedToPod,
       retainPods, forgetPod, handleLostLeadership, Woken, takeJob, check, sleepUntil, latchVars, gateVars
<1> QED
  BY <1>1, PTL DEF GateSpec, StragglersAreKept

=============================================================================
