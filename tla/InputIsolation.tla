--------------------------- MODULE InputIsolation ---------------------------
(***************************************************************************)
(* The selector of watched inputs of the HAPTIC controller                 *)
(* (pkg/controller/inputisolation): a reconciliation checks all observed   *)
(* changes together; if HAProxy refuses them it bisects them against the   *)
(* accepted inputs, and what does not pass stays at its accepted revision. *)
(*                                                                         *)
(* A view gives each watched object its revision.  Which views are valid   *)
(* is any set whatever: objects may depend on each other and exclude each  *)
(* other.  It depends on HTTP content too and may change between           *)
(* selections (Coordinator has it change in the middle of one).  The       *)
(* changes to one object, under all its aliases, are one group.  The order *)
(* of the groups, that of their names, may be any: a slice of them is a    *)
(* set, and its halves are any two.                                        *)
(***************************************************************************)
EXTENDS Integers, Sequences, FiniteSets

CONSTANTS
    Objects,        \* the watched objects
    Revisions,      \* of an object
    Absent,         \* the revision of an object that does not exist
    Validities,     \* the sets of valid views to try
    MaxChanges      \* bound: changes of the world

ASSUME ObjectsAssumption == IsFiniteSet(Objects)
ASSUME RevisionsAssumption == Absent \in Revisions

Views == [Objects -> Revisions]
Nothing == [o \in Objects |-> Absent]

ASSUME ValiditiesAssumption == Validities \subseteq SUBSET Views

VARIABLES
    observed,   \* the watched objects as the stores show them
    valid,      \* the views that pass complete validation
    accepted,   \* Service.accepted: the branches and the rejections, if any
    phase,      \* where Execute is, "idle" without the permit
    base,       \* the branches Execute started from
    captured,   \* the observed view it pinned
    branches,   \* attempt.branches
    result,     \* the view attempt.result shows, if any
    work,       \* the slices selectGroups has still to try, the next one first
    pending,    \* the groups of this round of the retry loop
    rejected,   \* attempt.rejected
    withheld,   \* the groups bootstrap or selectComplement has withheld, one at a time
    changes     \* bound: changes so far

attempt == <<phase, base, captured, branches, result, work, pending, rejected, withheld>>
vars == <<observed, valid, accepted, attempt, changes>>

None == <<>>

----------------------------------------------------------------------------

baseBranches == IF accepted = None THEN Nothing ELSE accepted.view

\* captureChanges: the objects that differ from the base.
groups == {o \in Objects : base[o] # captured[o]}

applyGroups(view, gs) == [o \in Objects |-> IF o \in gs THEN captured[o] ELSE view[o]]

\* Execute returns: the attempt is dropped and the permit given back.
Release ==
    /\ phase' = "idle" /\ work' = <<>> /\ pending' = {} /\ rejected' = {} /\ withheld' = {}
    /\ base' = Nothing /\ captured' = Nothing /\ branches' = Nothing /\ result' = None

\* accept: the branches and the rejections replace the accepted ones together.
accept(view, rejections) ==
    /\ accepted' = [view |-> view, rejections |-> {[object |-> o, revision |-> captured[o]] : o \in rejections}]
    /\ Release

\* Execute gets the permit and pins what is observed.
Execute ==
    /\ phase = "idle"
    /\ phase' = "observed"
    /\ base' = baseBranches /\ captured' = observed /\ branches' = baseBranches
    /\ UNCHANGED <<observed, valid, accepted, result, work, pending, rejected, withheld, changes>>

\* All observed changes together.
validateObserved ==
    /\ phase = "observed"
    /\ IF captured \in valid
       THEN accept(captured, {})
       ELSE /\ phase' = "base"
            /\ UNCHANGED <<accepted, base, captured, branches, result, work, pending, rejected, withheld>>
    /\ UNCHANGED <<observed, valid, changes>>

selectAll == phase' = "select" /\ work' = <<groups>>

\* The base alone.  When it fails for the reasons the observed view failed for, the
\* selection ends; otherwise a baseline is searched for.
validateBase ==
    /\ phase = "base"
    /\ \/ /\ base \in valid
          /\ result' = base
          /\ selectAll
          /\ UNCHANGED <<base, captured, branches, pending, rejected, withheld>>
       \/ base \notin valid /\ Release
       \/ /\ base \notin valid
          /\ pending' = groups
          /\ phase' = "bootstrap"
          /\ UNCHANGED <<base, captured, branches, result, work, rejected, withheld>>
    /\ UNCHANGED <<observed, valid, accepted, changes>>

\* bootstrap: the observed view with one group withheld; those the error mentions come
\* first, so the order may be any.
bootstrap ==
    /\ phase = "bootstrap"
    /\ IF withheld = pending THEN Release
       ELSE \E o \in pending \ withheld :
            LET candidate == applyGroups(branches, pending \ {o})
            IN  IF candidate \in valid
                THEN /\ branches' = candidate /\ result' = candidate
                     /\ selectAll
                     /\ pending' = {} /\ withheld' = {}
                     /\ UNCHANGED <<base, captured, rejected>>
                ELSE /\ withheld' = withheld \cup {o}
                     /\ UNCHANGED <<phase, base, captured, branches, result, work, pending, rejected>>
    /\ UNCHANGED <<observed, valid, accepted, changes>>

\* Which groups come first is a matter of their names.
halves(slice) ==
    {<<left, slice \ left>> : left \in {l \in SUBSET slice : Cardinality(l) = Cardinality(slice) \div 2}}

selectGroups_Unchecked ==
    /\ phase \in {"select", "last"} /\ work # <<>>
    /\ LET slice == Head(work)
           candidate == applyGroups(branches, slice)
           passes == applyGroups(base, slice) \in valid
           single == Cardinality(slice) = 1
       IN  /\ branches' = IF passes THEN candidate ELSE branches
           /\ result' = IF passes THEN candidate ELSE result
           /\ rejected' = IF ~passes /\ single THEN rejected \cup slice ELSE rejected
           /\ IF passes \/ single THEN work' = Tail(work)
              ELSE \E two \in halves(slice) : work' = two \o Tail(work)
    /\ UNCHANGED <<observed, valid, accepted, phase, base, captured, pending, withheld, changes>>

\* One call of selectGroups: the slice passes as a whole, or is rejected, or divided.
selectGroups ==
    /\ phase \in {"select", "last"} /\ work # <<>>
    /\ LET slice == Head(work)
           candidate == applyGroups(branches, slice)
           passes == candidate \in valid
           single == Cardinality(slice) = 1
       IN  /\ branches' = IF passes THEN candidate ELSE branches
           /\ result' = IF passes THEN candidate ELSE result
           /\ rejected' = IF ~passes /\ single THEN rejected \cup slice ELSE rejected
           /\ IF passes \/ single THEN work' = Tail(work)
              ELSE \E two \in halves(slice) : work' = two \o Tail(work)
    /\ UNCHANGED <<observed, valid, accepted, phase, base, captured, pending, withheld, changes>>

retry_Once ==
    /\ phase = "select" /\ work = <<>>
    /\ accept(branches, rejected)
    /\ UNCHANGED <<observed, valid, changes>>

retry_Forever ==
    /\ phase = "select" /\ work = <<>>
    /\ IF rejected = {} THEN accept(branches, rejected)
       ELSE /\ pending' = rejected /\ rejected' = {} /\ work' = <<rejected>>
            /\ UNCHANGED <<accepted, phase, withheld, base, captured, branches, result>>
    /\ UNCHANGED <<observed, valid, changes>>

\* The retry loop: what was rejected is tried again until a round changes nothing.
retry ==
    /\ phase = "select" /\ work = <<>>
    /\ IF rejected = {} \/ (Cardinality(rejected) = Cardinality(pending) /\ Cardinality(pending) < 2)
       THEN accept(branches, rejected)
       ELSE /\ IF Cardinality(rejected) = Cardinality(pending)
               THEN phase' = "complement" /\ UNCHANGED <<work, pending, rejected, withheld>>
               ELSE /\ pending' = rejected /\ rejected' = {} /\ work' = <<rejected>>
                    /\ UNCHANGED <<phase, withheld>>
            /\ UNCHANGED <<accepted, base, captured, branches, result>>
    /\ UNCHANGED <<observed, valid, changes>>

\* All of the rejected groups but one, which is then tried on its own.
selectComplement ==
    /\ phase = "complement"
    /\ IF withheld = pending THEN accept(branches, rejected)
       ELSE \E o \in pending \ withheld :
            LET candidate == applyGroups(branches, pending \ {o})
            IN  /\ IF candidate \in valid
                   THEN /\ branches' = candidate /\ result' = candidate /\ rejected' = {}
                        /\ work' = <<{o}>> /\ phase' = "last"
                        /\ UNCHANGED withheld
                   ELSE withheld' = withheld \cup {o} /\ UNCHANGED <<phase, branches, result, work, rejected>>
                /\ UNCHANGED <<accepted, base, captured, pending>>
    /\ UNCHANGED <<observed, valid, changes>>

acceptLast ==
    /\ phase = "last" /\ work = <<>>
    /\ accept(branches, rejected)
    /\ UNCHANGED <<observed, valid, changes>>

\* Cancellation, or critical content that cannot be had, ends the selection at any trial.
stopInputTrial ==
    /\ phase # "idle"
    /\ Release
    /\ UNCHANGED <<observed, valid, accepted, changes>>

\* The watched objects change while a selection runs, too.
change ==
    /\ changes < MaxChanges /\ changes' = changes + 1
    /\ observed' \in Views \ {observed}
    /\ UNCHANGED <<valid, accepted, attempt>>

\* HTTP content changes, and with it what is valid.
changeValidity ==
    /\ phase = "idle"
    /\ changes < MaxChanges /\ changes' = changes + 1
    /\ valid' \in Validities \ {valid}
    /\ UNCHANGED <<observed, accepted, attempt>>

----------------------------------------------------------------------------

\* IsolatedInputs: what admission checks a proposal against, all that is observed but the
\* exact changes rejected.
IsolatedInputs ==
    LET isRejected(o) == [object |-> o, revision |-> observed[o]] \in accepted.rejections
    IN  [o \in Objects |-> IF observed[o] # accepted.view[o] /\ isRejected(o) THEN accepted.view[o] ELSE observed[o]]

Init ==
    /\ observed \in Views /\ valid \in Validities
    /\ accepted = None
    /\ phase = "idle" /\ work = <<>> /\ pending = {} /\ rejected = {} /\ withheld = {}
    /\ base = Nothing /\ captured = Nothing /\ branches = Nothing /\ result = None
    /\ changes = 0

Select ==
    \/ validateObserved
    \/ validateBase
    \/ bootstrap
    \/ selectGroups
    \/ retry
    \/ selectComplement
    \/ acceptLast

Next == Execute \/ Select \/ stopInputTrial \/ change \/ changeValidity

Spec == Init /\ [][Next]_vars

\* A selection that has begun goes on.
FairSpec == Spec /\ WF_vars(Select)

----------------------------------------------------------------------------

Phases == {"idle", "observed", "base", "bootstrap", "select", "complement", "last"}

\* service.go: every variable is in its range, and a change is not both accepted and
\* rejected.
TypeOK ==
    /\ observed \in Views /\ valid \in Validities /\ changes \in Nat
    /\ accepted = None \/ accepted \in [view : Views, rejections : SUBSET [object : Objects, revision : Revisions]]
    /\ accepted # None => \A r \in accepted.rejections : accepted.view[r.object] # r.revision
    /\ phase \in Phases
    /\ base \in Views /\ captured \in Views /\ branches \in Views /\ result \in Views \cup {None}
    /\ work \in Seq(SUBSET Objects)
    /\ pending \subseteq Objects /\ rejected \subseteq Objects /\ withheld \subseteq pending

Held == {o \in Objects : branches[o] # captured[o]}
Waiting == UNION {work[k] : k \in DOMAIN work}

\* service.go selectGroups, selectComplement: past its first trials a selection stands on
\* branches that passed, with the output rendered from them; a change not applied is
\* rejected or still waits for its trial, and so does every change of a round.
Accounted ==
    /\ phase \in {"observed", "base", "bootstrap"} => branches = base
    /\ phase \in {"select", "complement", "last"} => branches \in valid /\ result = branches
    /\ \A o \in Objects : branches[o] \in {base[o], captured[o]}
    /\ phase \in {"select", "last"} => Held \subseteq rejected \cup Waiting
    /\ phase = "select" /\ pending # {} => rejected \cup Waiting \subseteq pending
    /\ phase = "complement" => Held \subseteq rejected \cap pending

Apart(slices) == \A j, k \in DOMAIN slices : j # k => slices[j] \cap slices[k] = {}

\* service.go selectGroups, the retry loop, "A dependency pair can straddle a bisection":
\* no group is in two places, and after a round in which nothing passed every rejected
\* change has failed on the branches as they are.
Justified ==
    LET failed == \A o \in rejected : applyGroups(branches, {o}) \notin valid
    IN  /\ Apart(work) /\ rejected \cap Waiting = {}
        /\ phase = "select" /\ pending # {} => failed \/ ~(pending \subseteq rejected \cup Waiting)
        /\ phase = "complement" => failed
        /\ phase = "last" => failed /\ (work = <<>> \/ (rejected = {} /\ \E o \in Objects : work = <<{o}>>))

Accepts == accepted' # accepted

\* service.go accept, docs/adr/0032 "Every accepted combination still passes complete
\* validation": the inputs accepted are valid, and after a bisection the output returned
\* is the one rendered from them.
AcceptedIsValid ==
    [][Accepts => accepted'.view \in valid /\ (phase = "observed" \/ result = accepted'.view)]_vars

\* service.go Execute, "independently valid changes advance": no rejected change would
\* pass on top of what is accepted, in whatever way the changes depend on each other.
NoneIsLeftBehind ==
    [][Accepts => \A r \in accepted'.rejections :
           [accepted'.view EXCEPT ![r.object] = r.revision] \notin valid]_vars

\* admission.go IsolatedInputs: the rejections name exactly what was held back, so that
\* while nothing new is observed admission checks against the accepted inputs.
AdmissionSeesAccepted == [][Accepts /\ observed = captured => IsolatedInputs' = accepted'.view]_vars

\* service.go Execute: every selection ends and gives the permit back.
SelectionEnds == []<>(phase = "idle")

=============================================================================
