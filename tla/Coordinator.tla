----------------------------- MODULE Coordinator -----------------------------
(***************************************************************************)
(* The reconciliation coordinator of the HAPTIC controller                 *)
(* (pkg/controller/reconciler), composed with the content of one http.Fetch*)
(* source (pkg/httpstore, pkg/controller/httpstore), the auxiliary-file    *)
(* baseline of the term (pkg/controller/currentfiles.go), the selector of  *)
(* watched inputs its renders go through (pkg/controller/inputisolation)   *)
(* and the render gate, of which it knows what RenderVerdicts promises:    *)
(* each render gets the verdict its content deserves, at most once and in  *)
(* any order.                                                              *)
(*                                                                         *)
(* Content of the source is accepted on trial (ADR-0030): the acceptance   *)
(* attempt or the validation of a refresh lets it in, a render that read   *)
(* it and passes confirms it, a refused render takes it back.  The loop of *)
(* the coordinator, the goroutine of the acceptance attempt, the gate, the *)
(* refresh timer and the handler of validation results all run at once;    *)
(* the selector's permit lets one of the first two render at a time.       *)
(*                                                                         *)
(* What a render contains is the watched input and the page it was given.  *)
(* The watched resources change as one group: how the selector divides     *)
(* several is InputIsolation.                                              *)
(* A render that repeats the content of the one before it shares its       *)
(* output root, any other has a new one.                                   *)
(* Publishing an event puts it in the mailbox at once: an event that waits *)
(* in a channel is one the coordinator has not come to yet.                *)
(***************************************************************************)
EXTENDS Integers, Sequences, Functions

CONSTANTS
    Inputs,             \* the states of the watched resources
    Pages,              \* what the source may serve
    Bad,                \* the contents the synchronous check refuses
    Refused,            \* the contents the gate refuses; nothing in the code says that
                        \* the gate agrees with a check made earlier
    First,              \* what the world may be at first: input, page, and whether
                        \* no render may do without the source
    maxRefusedOutputs,
    renderInputConflictAttempts,
    PendingRevisions,   \* what tells pending pages apart
    Roots,              \* what tells output roots apart
    Bounds              \* bounds on what the environment does, a record:
                        \*   input    changes of the watched resources
                        \*   page     changes of what the source serves
                        \*   refresh  refreshes that find a new page
                        \*   fault    all together: validations abandoned while still
                        \*            running, validation verdicts that never arrive,
                        \*            renders that read nothing anew, further terms

NoPage == "no page"
NoInput == "no input"
Contents == (Inputs \cup {NoInput}) \X (Pages \cup {NoPage})

ASSUME ContentsAssumption ==
    NoPage \notin Pages /\ NoInput \notin Inputs /\ Refused \subseteq Contents /\ Bad \subseteq Refused
ASSUME FirstAssumption == First \subseteq Inputs \X Pages \X BOOLEAN
ASSUME LimitsAssumption == maxRefusedOutputs \in Nat \ {0} /\ renderInputConflictAttempts \in Nat \ {0}
ASSUME NamesAssumption == PendingRevisions \subseteq Nat \ {0}
ASSUME BoundsAssumption == Bounds \in [{"input", "page", "refresh", "fault"} -> Nat]

VARIABLES
    inputs,     \* the watched resources
    accepted,   \* what the selector has accepted of them, NoInput at first
    origin,     \* what the source serves
    source,     \* the store's entry: accepted page and revision, pending page and its
                \* revision, and whether no render may do without it
    revision,   \* semanticRevision
    trial,      \* the unconfirmed acceptance, if any
    sequence,   \* acceptanceSequence
    timer,      \* the refresh timer is armed
    callback,   \* a refresh callback that has stored a pending page
    batch,      \* the pending revision whose validation is awaited, 0 for none
    proposals,  \* validations under way or answered
    mailbox,
    loop,       \* the coordinator's goroutine
    failed,     \* the last reconciliation ended without a render
    files,      \* currentFiles: accepted and confirmed output, if any
    refused,    \* refusedOrder
    attempt,    \* the goroutine of the acceptance attempt
    requested,  \* the ledger's requested channel holds a token
    newest,     \* the last render of the term, if any
    unjudged,   \* the renders the gate may still judge, in the order of their publication
    proven,     \* pages renders passed with, and the version last shown to (no code reads it)
    spent       \* how much of the bounds is used up

gate == <<newest, unjudged>>
store == <<source, revision, trial, sequence>>
refresh == <<timer, callback, batch, proposals>>
coordinator == <<mailbox, loop, failed, files, refused>>
worker == <<attempt, requested>>
vars == <<inputs, accepted, origin, store, refresh, coordinator, worker, gate, proven, spent>>

None == <<>>
Idle == [at |-> "idle"]
NoFiles == [accepted |-> None, confirmed |-> None]
Trigger == [type |-> "trigger"]
AcceptanceRequested == [type |-> "request"]
Verdict(render) == [type |-> "verdict", render |-> render, ok |-> render.content \notin Refused,
                    newest |-> newest # None /\ render.content = newest.content]

Spend(what) == spent[what] < Bounds[what] /\ spent' = [spent EXCEPT ![what] = @ + 1]

----------------------------------------------------------------------------
(* The mailbox: triggers in a row become one. *)

enqueue(queue, event) ==
    IF event = Trigger /\ queue # <<>> /\ queue[Len(queue)] = Trigger THEN queue ELSE Append(queue, event)

enqueueIf(condition, queue, event) == IF condition THEN enqueue(queue, event) ELSE queue

----------------------------------------------------------------------------
(* The store: pages accepted on trial. *)

recordAcceptance_Chain(page, rev) ==
    /\ sequence' = sequence + 1
    /\ trial' = [sequence |-> sequence + 1, page |-> page, revision |-> rev, previous |-> source.page]

\* A page replaced before it was confirmed leaves its predecessor to its successor.
recordAcceptance(page, rev) ==
    IF source.page = page /\ (trial = None \/ trial.revision = rev)
    THEN UNCHANGED <<trial, sequence>>
    ELSE /\ sequence' = sequence + 1
         /\ trial' = [sequence |-> sequence + 1, page |-> page, revision |-> rev,
                      previous |-> IF trial = None THEN source.page ELSE trial.previous]

\* The exact version a passing render read is no longer on trial.
ConfirmAcceptances(observed) ==
    /\ trial' = IF trial # None /\ trial.revision = observed THEN None ELSE trial
    /\ UNCHANGED <<source, revision, sequence>>

Revocable(reached) == trial # None /\ trial.sequence <= reached
Restores == trial.page = source.page /\ trial.revision = source.revision

RevokeAcceptances(reached) ==
    /\ trial' = IF Revocable(reached) THEN None ELSE trial
    /\ IF Revocable(reached) /\ Restores
       THEN /\ revision' = revision + 1
            /\ source' = [source EXCEPT !.page = trial.previous,
                              !.revision = IF trial.previous = NoPage THEN 0 ELSE revision + 1]
       ELSE UNCHANGED <<source, revision>>
    /\ UNCHANGED sequence

WithoutPending == [source EXCEPT !.pending = NoPage, !.id = 0]

\* finalizePending with a verdict that passes.
promotePending ==
    LET page == source.pending
        rev == IF source.page = page THEN source.revision ELSE revision + 1
    IN  /\ source' = [WithoutPending EXCEPT !.page = page, !.revision = rev]
        /\ revision' = IF source.page = page THEN revision ELSE revision + 1
        /\ recordAcceptance(page, rev)

rejectPending == source' = WithoutPending /\ UNCHANGED <<revision, trial, sequence>>

\* reconcileURLLocked: the timer runs while there is an accepted page.
reconcileURL(page) ==
    /\ timer' = (page # NoPage)
    /\ callback' = IF page = NoPage /\ callback # None THEN [callback EXCEPT !.live = FALSE] ELSE callback

----------------------------------------------------------------------------
(* The refresh of the accepted page. *)

InUse == {source.id, batch} \cup {p.id : p \in proposals}
nextPendingRevision == CHOOSE k \in PendingRevisions : k \notin InUse

\* The timer fires and finds a new page, which waits for its validation.
refreshURL ==
    /\ timer /\ callback = None
    /\ source.id = 0 /\ origin # source.page
    /\ PendingRevisions \ InUse # {}  \* bound
    /\ Spend("refresh")
    /\ source' = [source EXCEPT !.pending = origin, !.id = nextPendingRevision]
    /\ callback' = [id |-> nextPendingRevision, live |-> TRUE]
    /\ UNCHANGED <<revision, trial, sequence, timer, batch, proposals>>
    /\ UNCHANGED <<inputs, accepted, origin, coordinator, worker, gate, proven>>

\* The timer fires and finds the validation without an answer for too long.
abandonStuckValidation ==
    /\ timer /\ callback = None
    /\ source.id # 0
    /\ IF \E p \in proposals : p.id = source.id THEN Spend("fault") ELSE UNCHANGED spent
    /\ rejectPending
    /\ UNCHANGED <<inputs, accepted, origin, refresh, coordinator, worker, gate, proven>>

\* beginValidationLocked, when no validation is awaited.
beginValidation(id, page) ==
    /\ batch' = id
    /\ proposals' = IF id = 0 THEN proposals
                    ELSE proposals \cup {[id |-> id, page |-> page, answer |-> "none"]}

\* The callback goes on.  A callback whose timer was stopped meanwhile discards the
\* page it stored; another asks for its validation, in place of one for an older page.
triggerProposalValidation ==
    /\ callback # None
    /\ callback' = None
    /\ IF ~callback.live
       THEN /\ source' = IF source.id = callback.id THEN WithoutPending ELSE source
            /\ UNCHANGED <<batch, proposals, mailbox>>
       ELSE /\ IF source.id \in {0, batch} THEN UNCHANGED <<batch, proposals>>
               ELSE beginValidation(source.id, source.pending)
            /\ mailbox' = enqueueIf(source.id # 0, mailbox, Trigger)
            /\ UNCHANGED source
    /\ UNCHANGED <<revision, trial, sequence, timer>>
    /\ UNCHANGED <<inputs, accepted, origin, loop, failed, files, refused, worker, gate, spent, proven>>

\* The proposal validator renders the pending page with the accepted input, once
\* there is one.
validate(p) ==
    /\ p.answer = "none"
    /\ proposals' = (proposals \ {p}) \cup
           {[p EXCEPT !.answer = IF <<IF accepted = NoInput THEN inputs ELSE accepted, p.page>> \in Bad
                              THEN "invalid" ELSE "valid"]}
    /\ UNCHANGED <<inputs, accepted, origin, store, timer, callback, batch, coordinator, worker, gate, spent, proven>>

loseVerdict(p) ==
    /\ Spend("fault")
    /\ proposals' = proposals \ {p}
    /\ UNCHANGED <<inputs, accepted, origin, store, timer, callback, batch, coordinator, worker, gate, proven>>

\* Only the answer that is awaited counts, and only for the exact pending page.
handleProposalValidationCompleted(p) ==
    /\ p.answer # "none"
    /\ LET rest == proposals \ {p}
           exact == source.id = p.id
       IN  IF p.id # batch
           THEN proposals' = rest /\ UNCHANGED <<source, revision, trial, sequence, timer, callback, batch, mailbox>>
           ELSE /\ CASE exact /\ p.answer = "valid" -> promotePending /\ reconcileURL(source.pending)
                     [] exact /\ p.answer = "invalid" -> rejectPending /\ UNCHANGED <<timer, callback>>
                     [] OTHER -> UNCHANGED <<source, revision, trial, sequence, timer, callback>>
                /\ mailbox' = enqueueIf(exact /\ p.answer = "valid", mailbox, Trigger)
                /\ batch' = source'.id
                /\ proposals' = IF source'.id = 0 THEN rest
                                ELSE rest \cup {[id |-> source'.id, page |-> source'.pending, answer |-> "none"]}
    /\ UNCHANGED <<inputs, accepted, origin, loop, failed, files, refused, worker, gate, spent, proven>>

----------------------------------------------------------------------------
(* The loop of the coordinator. *)

output(render) == [content |-> render.content, root |-> render.root]

RootsInUse ==
    {f.root : f \in {files.accepted, files.confirmed, newest} \ {None}}
    \cup {unjudged[k].root : k \in DOMAIN unjudged}
    \cup {mailbox[k].render.root : k \in {j \in DOMAIN mailbox : mailbox[j].type = "verdict"}}
newRoot(content) ==
    IF newest # None /\ newest.content = content THEN newest.root
    ELSE CHOOSE k \in Roots : k \notin RootsInUse

\* A source that waits for a validation and has no accepted page fails every render;
\* one that has neither is left out, and its acceptance asked for.
Unreadable == source.page = NoPage /\ source.id # 0
Withheld == source.page = NoPage /\ source.id = 0

\* A trigger is taken; the render then waits for the selector's permit.
handleReconciliationTriggered ==
    /\ loop = Idle /\ mailbox # <<>> /\ Head(mailbox) = Trigger
    /\ loop' = [at |-> "start"]
    /\ mailbox' = Tail(mailbox)
    /\ UNCHANGED <<inputs, accepted, origin, store, refresh, failed, files, refused, worker, gate, spent, proven>>

\* The trials of one selection: what is observed; what is accepted, and once more if
\* the changes are to blame for that; then the change, and once more if it is rejected.
Trials == {"observed", "base", "bootstrap", "groups", "rejected"}

\* Of the loop and the attempt, the one that holds the permit.
Selecting(goroutine) == goroutine.at \in Trials \cup {"check", "commit"}

\* The inputs of the trial a selection has come to.
Trial(goroutine) == IF goroutine.at \in {"base", "bootstrap"} THEN accepted ELSE goroutine.inputs

\* Where a selection may go after a trial of it was validated and found valid, or not:
\* the next trial, the result, or nothing.
AfterTrial(goroutine, passes, result) ==
    LET Go(at) == [goroutine EXCEPT !.at = at]
        Select(chosen, out) == [at |-> "selected", inputs |-> chosen, result |-> out]
        changed == goroutine.inputs # accepted
    IN  CASE goroutine.at \in {"base", "bootstrap"} /\ passes ->
                {IF changed THEN [Go("groups") EXCEPT !.result = result] ELSE Select(accepted, result)}
          [] goroutine.at \notin {"base", "bootstrap"} /\ passes -> {Select(goroutine.inputs, result)}
          [] goroutine.at = "observed" /\ ~passes -> {Go("base")}
          [] goroutine.at = "base" /\ ~passes -> {Idle} \cup {g \in {Go("bootstrap")} : changed}
          [] goroutine.at = "groups" /\ ~passes -> {Go("rejected")}
          [] goroutine.at = "rejected" /\ ~passes -> {Select(accepted, goroutine.result)}
          [] OTHER -> {Idle}

captureChanges ==
    /\ loop.at = "start" /\ ~Selecting(attempt)
    /\ loop' = [at |-> "observed", inputs |-> inputs, result |-> None]
    /\ UNCHANGED <<inputs, accepted, origin, store, refresh, mailbox, failed, files, refused, worker, gate, spent, proven>>

\* One trial of the deploying render.  It reads the accepted page; a critical source
\* that has none ends the selection.
Execute ==
    /\ loop.at \in Trials
    /\ LET content == <<Trial(loop), source.page>>
           passes == ~Unreadable /\ content \notin Bad
       IN  \E next \in IF Withheld /\ source.critical THEN {Idle}
                      ELSE AfterTrial(loop, passes, [content |-> content, revision |-> source.revision]) :
             /\ loop' = IF next.at = "selected" THEN [at |-> "render", result |-> next.result] ELSE next
             /\ accepted' = IF next.at = "selected" THEN next.inputs ELSE accepted
             /\ failed' = IF next.at = "selected" THEN FALSE ELSE IF next = Idle THEN TRUE ELSE failed
    /\ mailbox' = enqueueIf(Withheld, mailbox, AcceptanceRequested)
    /\ UNCHANGED <<inputs, origin, store, refresh, files, refused, worker, gate, spent, proven>>

\* The gate keeps some renders that a later one has superseded (bound: one).
retainSuperseded == IF unjudged = <<>> THEN <<>> ELSE <<unjudged[Len(unjudged)]>>

\* The render is done: it becomes the provisional baseline and is published.
\* An incremental render that read nothing anew observes no version.
handlePipelineSuccess ==
    /\ loop.at = "render"
    /\ Roots \ RootsInUse # {}  \* bound
    /\ \E observed \in {0, loop.result.revision} :
          LET render == [content |-> loop.result.content, root |-> newRoot(loop.result.content),
                         observed |-> observed, reached |-> sequence]
          IN  /\ IF observed = loop.result.revision THEN UNCHANGED spent ELSE Spend("fault")
              /\ newest' = output(render)
              /\ files' = [files EXCEPT !.accepted = output(render)]
              /\ unjudged' = Append(retainSuperseded, render)
    /\ timer' = (timer \/ (source.page # NoPage /\ source.revision = loop.result.revision))
    /\ loop' = Idle
    /\ UNCHANGED <<inputs, accepted, origin, store, callback, batch, proposals, mailbox, failed, refused, worker, proven>>

settleCurrentFiles_NeedsConfirmed(v) ==
    IF ~v.newest \/ files.accepted # output(v.render) THEN files
    ELSE IF v.ok THEN [files EXCEPT !.confirmed = files.accepted]
    ELSE IF files.confirmed # None THEN [files EXCEPT !.accepted = files.confirmed] ELSE files

\* ConfirmOutput and RollbackOutput, on a verdict that speaks for the newest render.
settleCurrentFiles(v) ==
    IF ~v.newest \/ files.accepted # output(v.render) THEN files
    ELSE IF v.ok THEN [files EXCEPT !.confirmed = files.accepted]
    ELSE [files EXCEPT !.accepted = files.confirmed]

markRefused(content) ==
    IF content \in Range(refused) THEN refused
    ELSE LET longer == Append(refused, content)
         IN  IF Len(longer) > maxRefusedOutputs THEN Tail(longer) ELSE longer

settleAcceptances_Newest(v) ==
    IF ~v.newest THEN UNCHANGED <<store, refused, timer, callback>>
    ELSE IF v.ok
    THEN ConfirmAcceptances(v.render.observed) /\ UNCHANGED <<refused, timer, callback>>
    ELSE /\ refused' = markRefused(v.render.content)
         /\ RevokeAcceptances(v.render.reached)
         /\ IF source' # source THEN reconcileURL(source'.page) ELSE UNCHANGED <<timer, callback>>

\* A pass confirms the version the render read; a refusal revokes what was on trial
\* when the render was published, and arms or stops the refresh timer accordingly.
settleAcceptances(v) ==
    IF v.ok
    THEN ConfirmAcceptances(v.render.observed) /\ UNCHANGED <<refused, timer, callback>>
    ELSE /\ refused' = markRefused(v.render.content)
         /\ RevokeAcceptances(v.render.reached)
         /\ IF source' # source THEN reconcileURL(source'.page) ELSE UNCHANGED <<timer, callback>>

revokedTrigger_Silent(queue) == queue

\* The trigger of the render that goes without what was revoked.
revokedTrigger(queue) == enqueueIf(source' # source, queue, Trigger)

\* A verdict of the gate.
handleRenderGateCompleted ==
    /\ loop = Idle /\ mailbox # <<>> /\ Head(mailbox).type = "verdict"
    /\ LET v == Head(mailbox)
       IN  files' = settleCurrentFiles(v) /\ settleAcceptances(v)
    /\ mailbox' = revokedTrigger(Tail(mailbox))
    /\ proven' = IF Head(mailbox).ok /\ Head(mailbox).render.observed # 0
                 THEN [pages |-> proven.pages \cup {Head(mailbox).render.content[2]},
                       revision |-> Head(mailbox).render.observed]
                 ELSE proven
    /\ UNCHANGED <<inputs, accepted, origin, batch, proposals, loop, failed, worker, gate, spent>>

\* A request for acceptance: one attempt runs at a time, and one more is kept.
requestAcceptanceAttempt ==
    /\ loop = Idle /\ mailbox # <<>> /\ Head(mailbox) = AcceptanceRequested
    /\ mailbox' = Tail(mailbox)
    /\ IF attempt = Idle THEN attempt' = [at |-> "start"] /\ UNCHANGED requested
       ELSE requested' = TRUE /\ UNCHANGED attempt
    /\ UNCHANGED <<inputs, accepted, origin, store, refresh, loop, failed, files, refused, gate, spent, proven>>

----------------------------------------------------------------------------
(* The acceptance attempt. *)

\* The attempt is over; a request that came meanwhile starts another.
anotherAttempt ==
    /\ attempt' = IF requested THEN [at |-> "start"] ELSE Idle
    /\ requested' = FALSE

\* The attempt gets the permit.
attemptAcceptance ==
    /\ attempt.at = "start" /\ ~Selecting(loop)
    /\ attempt' = [at |-> "observed", inputs |-> inputs, result |-> None, tries |-> 1, before |-> sequence]
    /\ UNCHANGED <<inputs, accepted, origin, store, refresh, coordinator, requested, gate, spent, proven>>

\* A trial of the attempt is over, and perhaps the attempt.  If any acceptance came
\* about meanwhile, a trigger deploys it.
endTrial(trialAt, passes) ==
    \E next \in AfterTrial(trialAt, passes, None) :
        /\ accepted' = IF next.at = "selected" THEN next.inputs ELSE accepted
        /\ mailbox' = enqueueIf(next.at = "selected" /\ sequence' # attempt.before, mailbox, Trigger)
        /\ IF next.at \in {"idle", "selected"} THEN anotherAttempt
           ELSE attempt' = [next EXCEPT !.tries = 1] /\ UNCHANGED requested

\* The trial renders with the accepted page or, if there is none, with what the source
\* serves: the candidate, to be accepted if all goes well.
renderCandidate ==
    /\ attempt.at \in Trials
    /\ UNCHANGED <<inputs, origin, store, refresh, loop, failed, files, refused, gate, spent, proven>>
    /\ IF Withheld
       THEN /\ attempt' = [at |-> "check", trial |-> attempt, before |-> attempt.before,
                            content |-> <<Trial(attempt), origin>>, seen |-> revision]
            /\ UNCHANGED <<accepted, mailbox, requested>>
       ELSE endTrial(attempt, ~Unreadable /\ <<Trial(attempt), source.page>> \notin Bad)

\* The synchronous check, and commitInputs' first: nothing the gate has refused is let in.
checkRefused ==
    /\ attempt.at = "check"
    /\ UNCHANGED <<inputs, origin, store, refresh, loop, failed, files, refused, gate, spent, proven>>
    /\ IF attempt.content \in Bad \cup Range(refused)
       THEN endTrial(attempt.trial, FALSE)
       ELSE attempt' = [attempt EXCEPT !.at = "commit"] /\ UNCHANGED <<accepted, mailbox, requested>>

\* If the source has not moved, the page is accepted on trial; a trial that lost that
\* race renders again.
commitInputs ==
    /\ attempt.at = "commit"
    /\ LET unmoved == revision = attempt.seen
           page == attempt.content[2]
       IN  /\ IF unmoved
              THEN /\ source' = [source EXCEPT !.page = page, !.revision = revision + 1]
                   /\ revision' = revision + 1
                   /\ recordAcceptance(page, revision + 1)
              ELSE UNCHANGED store
           /\ IF ~unmoved /\ attempt.trial.tries < renderInputConflictAttempts
              THEN /\ attempt' = [attempt.trial EXCEPT !.tries = @ + 1]
                   /\ UNCHANGED <<accepted, mailbox, requested>>
              ELSE endTrial(attempt.trial, unmoved)
    /\ UNCHANGED <<inputs, origin, refresh, loop, failed, files, refused, gate, spent, proven>>

----------------------------------------------------------------------------
(* The gate, and the world around. *)

publishVerdict(n) ==
    /\ mailbox' = enqueue(mailbox, Verdict(unjudged[n]))
    /\ unjudged' = SubSeq(unjudged, 1, n - 1) \o SubSeq(unjudged, n + 1, Len(unjudged))
    /\ UNCHANGED <<inputs, accepted, origin, store, refresh, loop, failed, files, refused, worker, newest, spent, proven>>

handleResourceChange ==
    /\ Spend("input")
    /\ inputs' \in Inputs \ {inputs}
    /\ mailbox' = enqueue(mailbox, Trigger)
    /\ UNCHANGED <<accepted, origin, store, refresh, loop, failed, files, refused, worker, gate, proven>>

changePage ==
    /\ Spend("page")
    /\ origin' \in Pages \ {origin}
    /\ UNCHANGED <<inputs, accepted, store, refresh, coordinator, worker, gate, proven>>

\* The periodic trigger of drift prevention.  It matters, and is modelled, when all is
\* quiet though a reconciliation failed or left the source out.
Quiet == mailbox = <<>> /\ loop = Idle /\ attempt = Idle /\ unjudged = <<>>

handleDriftPrevention ==
    /\ Quiet /\ (failed \/ Withheld)
    /\ mailbox' = enqueue(mailbox, Trigger)
    /\ UNCHANGED <<inputs, accepted, origin, store, refresh, loop, failed, files, refused, worker, gate, spent, proven>>

\* Leadership is lost, the attempt waited for, and leadership gained again: the
\* ledger, the baseline and the gate start afresh; the store does not.
newTerm ==
    /\ Spend("fault")
    /\ mailbox' = <<Trigger>> /\ loop' = Idle /\ failed' = FALSE
    /\ files' = NoFiles /\ refused' = <<>>
    /\ attempt' = Idle /\ requested' = FALSE
    /\ newest' = None /\ unjudged' = <<>>
    /\ UNCHANGED <<inputs, accepted, origin, store, refresh, proven>>

----------------------------------------------------------------------------

Init ==
    /\ \E f \in First :
           /\ inputs = f[1] /\ origin = f[2]
           /\ source = [page |-> NoPage, revision |-> 0, pending |-> NoPage, id |-> 0, critical |-> f[3]]
    /\ accepted = NoInput
    /\ revision = 0 /\ trial = None /\ sequence = 0
    /\ timer = FALSE /\ callback = None /\ batch = 0 /\ proposals = {}
    /\ mailbox = <<Trigger>> /\ loop = Idle /\ failed = FALSE
    /\ files = NoFiles /\ refused = <<>>
    /\ attempt = Idle /\ requested = FALSE
    /\ newest = None /\ unjudged = <<>>
    /\ proven = [pages |-> {}, revision |-> 0]
    /\ spent = [b \in DOMAIN Bounds |-> 0]

Loop ==
    \/ handleReconciliationTriggered
    \/ captureChanges
    \/ Execute
    \/ handlePipelineSuccess
    \/ handleRenderGateCompleted
    \/ requestAcceptanceAttempt

Attempt == attemptAcceptance \/ renderCandidate \/ checkRefused \/ commitInputs

Refresh ==
    \/ refreshURL
    \/ abandonStuckValidation
    \/ triggerProposalValidation
    \/ \E p \in proposals : validate(p) \/ loseVerdict(p) \/ handleProposalValidationCompleted(p)

World ==
    \/ \E n \in DOMAIN unjudged : publishVerdict(n)
    \/ handleResourceChange
    \/ changePage
    \/ handleDriftPrevention
    \/ newTerm

Next == Loop \/ Attempt \/ Refresh \/ World

Spec == Init /\ [][Next]_vars

\* The goroutines run on, the gate comes to judge the newest render, validations are
\* answered unless the answer is lost, and the timers fire.
Fairness ==
    /\ WF_vars(Loop) /\ WF_vars(Attempt)
    /\ WF_vars(triggerProposalValidation)
    /\ WF_vars(refreshURL) /\ WF_vars(abandonStuckValidation)
    /\ WF_vars(\E p \in proposals : validate(p))
    /\ WF_vars(\E p \in proposals : handleProposalValidationCompleted(p))
    /\ WF_vars(unjudged # <<>> /\ publishVerdict(Len(unjudged)))
    /\ WF_vars(handleDriftPrevention)

FairSpec == Spec /\ Fairness

----------------------------------------------------------------------------

Unsettled(out) ==
    \/ \E k \in DOMAIN unjudged : output(unjudged[k]) = out
    \/ \E k \in DOMAIN mailbox : mailbox[k].type = "verdict" /\ output(mailbox[k].render) = out

\* coordinator.go settleCurrentFiles: the next render reads back the files of a render
\* HAProxy refuses only while that verdict is still on its way.
RefusedBaselineIsLeft ==
    files.accepted # None /\ files.accepted.content \in Refused => Unsettled(files.accepted)

\* revocation.go recordAcceptanceLocked: what a revocation would restore is a page a
\* render has passed with, or none, through any chain of pages replaced on trial.
RestoresProven == trial # None => trial.previous \in proven.pages \cup {NoPage}

\* revocation.go ConfirmAcceptances: no refusal takes back the very version a render
\* was shown to pass with, however late the refusal comes.
ProvenStays ==
    [][handleRenderGateCompleted /\ proven.revision # 0 /\ source.revision = proven.revision
       => source'.page = source.page]_vars

\* What HAProxy takes neither from the synchronous check nor from the gate.
Unusable(content) == content \in Bad \cup Refused

\* The fleet is up to date with the watched resources: the last render shows the
\* accepted input and page, the accepted input is the present one unless the check
\* refuses that, and the gate refuses the render only if nothing in it is on trial.
UpToDate ==
    /\ newest # None /\ newest.content = <<accepted, source.page>>
    /\ accepted = inputs \/ <<inputs, source.page>> \in Bad
    /\ newest.content \in Refused => trial = None

\* The fleet is up to date with the source.  It goes without a page only if what the
\* source serves is unusable.  A page it has is the one the source serves, or
\* that is unusable, or the refreshes the bound allows are used up; the timer of the
\* next refresh runs, and no page waits for a validation for ever.
Fresh ==
    IF source.page = NoPage THEN Unusable(<<inputs, origin>>)
    ELSE /\ timer /\ source.id = 0
         /\ source.page = origin \/ Unusable(<<accepted, origin>>) \/ spent.refresh = Bounds.refresh

\* A source no render may do without has no page: nothing can be sent.
NothingToSend == source.critical /\ source.page = NoPage

\* The check refuses the accepted input with a page on trial: no render is published,
\* so no verdict of the gate takes the page back.  See UnprovenIsRevoked.
Refuted == <<accepted, source.page>> \in Bad

\* A page waits for a validation nobody will answer, with no accepted page in its place
\* and therefore no timer that would abandon it.
Stranded == Unreadable /\ ~timer /\ \A p \in proposals : p.id # source.id

\* docs/adr/0030, "then X is revoked and the fleet keeps progressing": once the world
\* rests, the fleet is sent the watched resources as they are, without an input the
\* check refuses, and with the page the source serves, unless HAProxy refuses that.
\* Pages are not accepted and revoked for ever, a page that is usable is not left out
\* for ever, and no trigger, timer or validation is lost on the way.
Recovers ==
    <>[](\/ (UpToDate \/ NothingToSend) /\ Fresh
         \/ Refuted /\ trial # None
         \/ Stranded)

\* docs/adr/0030, of an input that makes a page invalid before any render with the page
\* passed: "X is revoked and the fleet keeps progressing".  A page on trial that HAProxy
\* refuses with the accepted input does not stay.
UnprovenIsRevoked == []<>(trial = None \/ ~Refuted)

=============================================================================
