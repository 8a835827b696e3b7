------------------------ MODULE InputIsolationProofs ------------------------
(***************************************************************************)
(* Proofs about InputIsolation, for any number of objects, any order and   *)
(* any set of valid views.  The inductive invariant is Accounted with the  *)
(* ranges of the variables it speaks of.                                   *)
(***************************************************************************)
EXTENDS InputIsolation, SequenceTheorems, FiniteSetTheorems, TLAPS

Ranges ==
    /\ observed \in Views /\ base \in Views /\ captured \in Views /\ branches \in Views
    /\ accepted = None \/ accepted.view \in Views
    /\ work \in Seq(SUBSET Objects) /\ pending \subseteq Objects /\ rejected \subseteq Objects
    /\ phase \in {"idle", "observed", "base"} => pending = {}
    /\ phase \in {"idle", "observed", "base", "bootstrap"} => rejected = {}

Inductive == Ranges /\ Accounted

\* The groups of a sequence of slices.
In(w) == UNION {w[k] : k \in DOMAIN w}

----------------------------------------------------------------------------
(* Slices of groups. *)

\* selectGroups: the groups that wait are those of the next slice and those behind it.
LEMMA NextSlice ==
    ASSUME NEW w \in Seq(SUBSET Objects), w # <<>>
    PROVE  /\ Head(w) \in SUBSET Objects /\ Tail(w) \in Seq(SUBSET Objects)
           /\ In(w) = Head(w) \cup In(Tail(w))
<1>1. /\ Head(w) \in SUBSET Objects /\ Tail(w) \in Seq(SUBSET Objects)
      /\ Len(w) \in Nat \ {0} /\ Len(Tail(w)) = Len(w) - 1 /\ Head(w) = w[1]
      /\ \A i \in 1..Len(Tail(w)) : Tail(w)[i] = w[i + 1]
  BY HeadTailProperties
<1>2. DOMAIN w = 1..Len(w) /\ DOMAIN Tail(w) = 1..Len(Tail(w))
  BY <1>1
<1>3. ASSUME NEW o \in In(w) PROVE o \in Head(w) \cup In(Tail(w))
  <2>1. PICK k \in 1..Len(w) : o \in w[k]
    BY <1>2 DEF In
  <2>2. CASE k = 1
    BY <1>1, <2>1, <2>2
  <2>3. CASE k # 1
    <3>1. k - 1 \in 1..Len(Tail(w)) /\ Tail(w)[k - 1] = w[k]
      BY <1>1, <2>3
    <3> QED BY <1>2, <2>1, <3>1 DEF In
  <2> QED BY <2>2, <2>3
<1>4. ASSUME NEW o \in Head(w) \cup In(Tail(w)) PROVE o \in In(w)
  <2>1. CASE o \in Head(w)
    BY <1>1, <1>2, <2>1 DEF In
  <2>2. CASE o \in In(Tail(w))
    <3>1. PICK k \in 1..Len(Tail(w)) : o \in Tail(w)[k]
      BY <1>2, <2>2 DEF In
    <3>2. k + 1 \in 1..Len(w) /\ o \in w[k + 1]
      BY <1>1, <3>1
    <3> QED BY <1>2, <3>2 DEF In
  <2> QED BY <2>1, <2>2
<1> QED
  BY <1>1, <1>3, <1>4

\* The slices of a concatenation, one by one.
LEMMA Concatenated ==
    ASSUME NEW v \in Seq(SUBSET Objects), NEW w \in Seq(SUBSET Objects)
    PROVE  /\ v \o w \in Seq(SUBSET Objects) /\ Len(v) \in Nat /\ Len(w) \in Nat
           /\ Len(v \o w) = Len(v) + Len(w)
           /\ \A i \in 1..(Len(v) + Len(w)) : (v \o w)[i] = IF i <= Len(v) THEN v[i] ELSE w[i - Len(v)]
  BY ConcatProperties, LenProperties

\* Slices put in front of others add exactly their groups.
LEMMA SlicesInFront ==
    ASSUME NEW v \in Seq(SUBSET Objects), NEW w \in Seq(SUBSET Objects)
    PROVE  v \o w \in Seq(SUBSET Objects) /\ In(v \o w) = In(v) \cup In(w)
<1>1. /\ v \o w \in Seq(SUBSET Objects) /\ Len(v) \in Nat /\ Len(w) \in Nat
      /\ Len(v \o w) = Len(v) + Len(w)
      /\ \A i \in 1..(Len(v) + Len(w)) : (v \o w)[i] = IF i <= Len(v) THEN v[i] ELSE w[i - Len(v)]
  BY Concatenated
<1>2. DOMAIN v = 1..Len(v) /\ DOMAIN w = 1..Len(w) /\ DOMAIN (v \o w) = 1..Len(v \o w)
  BY <1>1
<1>3. ASSUME NEW o \in In(v \o w) PROVE o \in In(v) \cup In(w)
  <2>1. PICK k \in 1..(Len(v) + Len(w)) : o \in (v \o w)[k]
    BY <1>1, <1>2 DEF In
  <2>2. CASE k <= Len(v)
    BY <1>1, <1>2, <2>1, <2>2 DEF In
  <2>3. CASE k > Len(v)
    <3>1. k - Len(v) \in 1..Len(w) /\ o \in w[k - Len(v)]
      BY <1>1, <2>1, <2>3
    <3> QED BY <1>2, <3>1 DEF In
  <2> QED BY <1>1, <2>2, <2>3
<1>4. ASSUME NEW o \in In(v) PROVE o \in In(v \o w)
  <2>1. PICK k \in 1..Len(v) : o \in v[k]
    BY <1>2 DEF In
  <2>2. k \in 1..Len(v \o w) /\ o \in (v \o w)[k]
    BY <1>1, <2>1
  <2> QED BY <1>2, <2>2 DEF In
<1>5. ASSUME NEW o \in In(w) PROVE o \in In(v \o w)
  <2>1. PICK k \in 1..Len(w) : o \in w[k]
    BY <1>2 DEF In
  <2>2. Len(v) + k \in 1..Len(v \o w) /\ o \in (v \o w)[Len(v) + k]
    BY <1>1, <2>1
  <2> QED BY <1>2, <2>2 DEF In
<1> QED
  BY <1>1, <1>3, <1>4, <1>5

\* One slice, and none.
LEMMA FewSlices ==
    /\ In(<<>>) = {}
    /\ \A s \in SUBSET Objects : <<s>> \in Seq(SUBSET Objects) /\ In(<<s>>) = s
<1>1. In(<<>>) = {}
  BY DEF In
<1>2. ASSUME NEW s \in SUBSET Objects PROVE <<s>> \in Seq(SUBSET Objects) /\ In(<<s>>) = s
  <2>1. <<s>> \in Seq(SUBSET Objects) /\ DOMAIN <<s>> = {1} /\ <<s>>[1] = s
    OBVIOUS
  <2> QED BY <2>1 DEF In
<1> QED
  BY <1>1, <1>2

\* selectGroups: the halves of a slice hold its groups.
LEMMA HalvesKeepAll ==
    ASSUME NEW s \in SUBSET Objects, NEW two \in halves(s)
    PROVE  two \in Seq(SUBSET Objects) /\ In(two) = s
<1>1. PICK l \in SUBSET s : two = <<l, s \ l>>
  BY DEF halves
<1>2. two \in Seq(SUBSET Objects) /\ DOMAIN two = {1, 2} /\ two[1] = l /\ two[2] = s \ l
  BY <1>1
<1> QED
  BY <1>2 DEF In

----------------------------------------------------------------------------
(* The inductive invariant. *)

\* applyGroups gives a view, with each object at its old or its captured revision.
LEMMA AppliedViews ==
    ASSUME NEW view \in Views, NEW gs, captured \in Views
    PROVE  /\ applyGroups(view, gs) \in Views
           /\ \A o \in Objects : applyGroups(view, gs)[o] = IF o \in gs THEN captured[o] ELSE view[o]
  BY DEF applyGroups, Views

\* A selection that ended leaves nothing behind that the invariant speaks of.
LEMMA IdleIsAccounted ==
    ASSUME Release, observed' \in Views, accepted' = None \/ accepted'.view \in Views
    PROVE  Inductive'
<1>1. Nothing \in Views
  BY RevisionsAssumption DEF Nothing, Views
<1>2. work' \in Seq(SUBSET Objects)
  BY DEF Release
<1> QED
  BY <1>1, <1>2 DEF Release, Inductive, Ranges, Accounted

\* service.go New: the selector starts idle.
LEMMA InitIsInductive == Init => Inductive
<1> SUFFICES ASSUME Init PROVE Inductive
  OBVIOUS
<1>1. Nothing \in Views
  BY RevisionsAssumption DEF Nothing, Views
<1> QED
  BY <1>1 DEF Init, Inductive, Ranges, Accounted

\* selectGroups keeps the accounts: what the slice held is applied, rejected or waits in
\* its halves.
LEMMA SelectGroupsIsInductive == Inductive /\ selectGroups => Inductive'
<1> SUFFICES ASSUME Inductive, selectGroups PROVE Inductive'
  OBVIOUS
<1> DEFINE slice == Head(work)
           candidate == applyGroups(branches, slice)
           passes == candidate \in valid
           single == Cardinality(slice) = 1
<1>1. /\ slice \in SUBSET Objects /\ Tail(work) \in Seq(SUBSET Objects)
      /\ Waiting = slice \cup In(Tail(work))
  BY NextSlice DEF selectGroups, Inductive, Ranges, Waiting, In
<1>2. /\ candidate \in Views
      /\ \A o \in Objects : candidate[o] = IF o \in slice THEN captured[o] ELSE branches[o]
  BY AppliedViews DEF Inductive, Ranges
<1>3. /\ phase \in {"select", "last"} /\ branches \in valid /\ result = branches
      /\ \A o \in Objects : branches[o] \in {base[o], captured[o]}
      /\ Held \subseteq rejected \cup Waiting
      /\ (phase = "select" /\ pending # {} => rejected \cup Waiting \subseteq pending)
  BY DEF selectGroups, Inductive, Accounted
<1>4. UNCHANGED <<observed, valid, accepted, phase, base, captured, pending>>
  BY DEF selectGroups
<1>5. /\ branches' = IF passes THEN candidate ELSE branches
      /\ result' = IF passes THEN candidate ELSE result
      /\ rejected' = IF ~passes /\ single THEN rejected \cup slice ELSE rejected
  BY DEF selectGroups
<1>6. /\ work' \in Seq(SUBSET Objects)
      /\ Waiting' = IF passes \/ single THEN In(Tail(work)) ELSE Waiting
  <2>1. CASE passes \/ single
    BY <1>1, <2>1 DEF selectGroups, Waiting, In
  <2>2. CASE ~(passes \/ single)
    <3>1. PICK two \in halves(slice) : work' = two \o Tail(work)
      BY <2>2 DEF selectGroups
    <3>2. two \in Seq(SUBSET Objects) /\ In(two) = slice
      BY <1>1, HalvesKeepAll
    <3>3. work' \in Seq(SUBSET Objects) /\ In(work') = slice \cup In(Tail(work))
      BY <1>1, <3>1, <3>2, SlicesInFront
    <3> QED BY <1>1, <2>2, <3>3 DEF Waiting, In
  <2> QED BY <2>1, <2>2
<1>7. Ranges'
  BY <1>1, <1>2, <1>3, <1>4, <1>5, <1>6 DEF Inductive, Ranges
<1>8. branches' \in valid' /\ result' = branches'
  BY <1>3, <1>4, <1>5
<1>9. \A o \in Objects : branches'[o] \in {base'[o], captured'[o]}
  BY <1>2, <1>3, <1>4, <1>5
<1>10. Held' \subseteq rejected' \cup Waiting'
  <2>1. CASE passes
    <3>1. Held' \subseteq Held \ slice
      BY <1>2, <1>4, <1>5, <2>1 DEF Held
    <3> QED BY <1>1, <1>3, <1>5, <1>6, <2>1, <3>1
  <2>2. CASE ~passes
    <3>1. Held' = Held
      BY <1>4, <1>5, <2>2 DEF Held
    <3> QED BY <1>1, <1>3, <1>5, <1>6, <2>2, <3>1
  <2> QED BY <2>1, <2>2
<1>11. rejected' \cup Waiting' \subseteq rejected \cup Waiting
  BY <1>1, <1>5, <1>6
<1> HIDE DEF slice, candidate, passes, single
<1> QED
  BY <1>3, <1>4, <1>7, <1>8, <1>9, <1>10, <1>11 DEF Inductive, Accounted

\* A selection over all groups waits with every change.
LEMMA AllGroupsWait ==
    ASSUME Ranges, selectAll, \A o \in Objects : branches'[o] \in {base[o], captured[o]},
           UNCHANGED <<base, captured>>
    PROVE  work' \in Seq(SUBSET Objects) /\ Held' \subseteq Waiting'
<1>1. groups \in SUBSET Objects /\ work' = <<groups>>
  BY DEF groups, selectAll
<1>2. work' \in Seq(SUBSET Objects) /\ Waiting' = groups
  BY <1>1, FewSlices DEF Waiting, In
<1>3. Held' \subseteq groups
  BY DEF Held, groups
<1> QED
  BY <1>2, <1>3

\* validateBase: the base passes and all changes are tried, or the search begins or ends.
LEMMA ValidateBaseIsInductive == Inductive /\ validateBase => Inductive'
<1> SUFFICES ASSUME Inductive, validateBase PROVE Inductive'
  OBVIOUS
<1>1. Ranges /\ branches = base /\ phase = "base" /\ UNCHANGED <<observed, valid, accepted>>
  BY DEF Inductive, Accounted, validateBase
<1>2. CASE base \in valid /\ result' = base /\ selectAll /\ UNCHANGED <<base, captured, branches, pending, rejected>>
  <2>1. work' \in Seq(SUBSET Objects) /\ Held' \subseteq Waiting'
    BY <1>1, <1>2, AllGroupsWait
  <2>2. Ranges'
    BY <1>1, <1>2, <2>1 DEF Ranges, selectAll
  <2>3. pending' = {}
    BY <1>1, <1>2 DEF validateBase, Ranges
  <2> QED BY <1>1, <1>2, <2>1, <2>2, <2>3 DEF Inductive, Accounted, selectAll
<1>3. CASE Release
  BY <1>1, <1>3, IdleIsAccounted DEF Ranges
<1>4. CASE pending' = groups /\ phase' = "bootstrap" /\ UNCHANGED <<base, captured, branches, result, work, rejected>>
  BY <1>1, <1>4 DEF Inductive, Ranges, Accounted, groups
<1> QED
  BY <1>2, <1>3, <1>4 DEF validateBase

\* bootstrap: the first combination that passes becomes the baseline of the selection.
LEMMA BootstrapIsInductive == Inductive /\ bootstrap => Inductive'
<1> SUFFICES ASSUME Inductive, bootstrap PROVE Inductive'
  OBVIOUS
<1>1. Ranges /\ branches = base /\ phase = "bootstrap" /\ UNCHANGED <<observed, valid, accepted>>
  BY DEF Inductive, Accounted, bootstrap
<1>2. CASE Release
  BY <1>1, <1>2, IdleIsAccounted DEF Ranges
<1>3. CASE ~Release
  <2>1. PICK o \in pending :
            LET candidate == applyGroups(branches, pending \ {o})
            IN  \/ /\ candidate \in valid /\ branches' = candidate /\ result' = candidate
                   /\ selectAll /\ pending' = {} /\ UNCHANGED <<base, captured, rejected>>
                \/ UNCHANGED <<phase, base, captured, branches, result, work, pending, rejected>>
    BY <1>3 DEF bootstrap
  <2> DEFINE candidate == applyGroups(branches, pending \ {o})
  <2>2. candidate \in Views /\ \A p \in Objects : candidate[p] \in {base[p], captured[p]}
    BY <1>1, AppliedViews DEF Ranges
  <2>3. CASE /\ candidate \in valid /\ branches' = candidate /\ result' = candidate
             /\ selectAll /\ pending' = {} /\ UNCHANGED <<base, captured, rejected>>
    <3>1. work' \in Seq(SUBSET Objects) /\ Held' \subseteq Waiting'
      BY <1>1, <2>2, <2>3, AllGroupsWait
    <3>2. phase' = "select"
      BY <2>3 DEF selectAll
    <3>3. Ranges'
      BY <1>1, <2>2, <2>3, <3>1, <3>2 DEF Ranges
    <3> QED BY <1>1, <2>2, <2>3, <3>1, <3>2, <3>3 DEF Inductive, Accounted
  <2>4. CASE UNCHANGED <<phase, base, captured, branches, result, work, pending, rejected>>
    BY <1>1, <2>4 DEF Inductive, Ranges, Accounted
  <2> QED BY <2>1, <2>3, <2>4
<1> QED
  BY <1>2, <1>3

\* retry: the next round has the rejected groups, all of them.
LEMMA RetryIsInductive == Inductive /\ retry => Inductive'
<1> SUFFICES ASSUME Inductive, retry PROVE Inductive'
  OBVIOUS
<1>1. Ranges /\ phase = "select" /\ work = <<>> /\ UNCHANGED <<observed, valid>>
  BY DEF Inductive, retry
<1>2. Waiting = {}
  BY <1>1, FewSlices DEF Waiting, In
<1>3. Held \subseteq rejected /\ (pending # {} => rejected \subseteq pending)
  BY <1>1, <1>2 DEF Inductive, Accounted
<1>4. CASE accept(branches, rejected)
  <2>1. Release /\ accepted'.view \in Views
    BY <1>1, <1>4 DEF accept, Ranges
  <2> QED BY <1>1, <2>1, IdleIsAccounted DEF Ranges
<1>5. CASE /\ rejected # {} /\ Cardinality(rejected) = Cardinality(pending)
           /\ phase' = "complement"
           /\ UNCHANGED <<work, pending, rejected, accepted, base, captured, branches, result>>
  <2>1. pending # {}
    <3>1. IsFiniteSet(rejected)
      BY <1>1, ObjectsAssumption, FS_Subset DEF Ranges
    <3> QED BY <1>5, <3>1, FS_EmptySet
  <2>2. Held' = Held
    BY <1>5 DEF Held
  <2> QED BY <1>1, <1>3, <1>5, <2>1, <2>2 DEF Inductive, Ranges, Accounted
<1>6. CASE /\ pending' = rejected /\ rejected' = {} /\ work' = <<rejected>> /\ phase' = phase
           /\ UNCHANGED <<accepted, base, captured, branches, result>>
  <2>1. work' \in Seq(SUBSET Objects) /\ Waiting' = rejected
    BY <1>1, <1>6, FewSlices DEF Ranges, Waiting, In
  <2>2. Held' = Held
    BY <1>6 DEF Held
  <2> QED BY <1>1, <1>3, <1>6, <2>1, <2>2 DEF Inductive, Ranges, Accounted
<1> QED
  BY <1>4, <1>5, <1>6 DEF retry

\* selectComplement: with all but one group of the round applied, that one waits.
LEMMA SelectComplementIsInductive == Inductive /\ selectComplement => Inductive'
<1> SUFFICES ASSUME Inductive, selectComplement PROVE Inductive'
  OBVIOUS
<1>1. /\ Ranges /\ phase = "complement" /\ UNCHANGED <<observed, valid>>
      /\ Held \subseteq pending
  BY DEF Inductive, Accounted, selectComplement
<1>2. CASE accept(branches, rejected)
  <2>1. Release /\ accepted'.view \in Views
    BY <1>1, <1>2 DEF accept, Ranges
  <2> QED BY <1>1, <2>1, IdleIsAccounted DEF Ranges
<1>3. CASE ~accept(branches, rejected)
  <2>1. PICK o \in pending :
            LET candidate == applyGroups(branches, pending \ {o})
            IN  \/ /\ candidate \in valid /\ branches' = candidate /\ result' = candidate
                   /\ rejected' = {} /\ work' = <<{o}>> /\ phase' = "last"
                   /\ UNCHANGED <<accepted, base, captured, pending>>
                \/ UNCHANGED <<phase, branches, result, work, rejected, accepted, base, captured, pending>>
    BY <1>3 DEF selectComplement
  <2> DEFINE candidate == applyGroups(branches, pending \ {o})
  <2>2. /\ candidate \in Views
        /\ \A p \in Objects : candidate[p] = IF p \in pending \ {o} THEN captured[p] ELSE branches[p]
    BY <1>1, AppliedViews DEF Ranges
  <2>3. CASE /\ candidate \in valid /\ branches' = candidate /\ result' = candidate
             /\ rejected' = {} /\ work' = <<{o}>> /\ phase' = "last"
             /\ UNCHANGED <<accepted, base, captured, pending>>
    <3>1. work' \in Seq(SUBSET Objects) /\ Waiting' = {o}
      BY <1>1, <2>3, FewSlices DEF Ranges, Waiting, In
    <3>2. Held' \subseteq {o}
      BY <1>1, <2>2, <2>3 DEF Held
    <3>3. \A p \in Objects : branches'[p] \in {base'[p], captured'[p]}
      BY <2>2, <2>3 DEF Inductive, Accounted
    <3>4. Ranges'
      BY <1>1, <2>2, <2>3, <3>1 DEF Ranges
    <3> QED BY <1>1, <2>3, <3>1, <3>2, <3>3, <3>4 DEF Inductive, Accounted
  <2>4. CASE UNCHANGED <<phase, branches, result, work, rejected, accepted, base, captured, pending>>
    <3>1. Held' = Held
      BY <2>4 DEF Held
    <3> QED BY <1>1, <2>4, <3>1 DEF Inductive, Ranges, Accounted
  <2> QED BY <2>1, <2>3, <2>4
<1> QED
  BY <1>2, <1>3

\* No step of a selection, and no change of the world around it, disturbs the accounts.
LEMMA NextIsInductive == Inductive /\ [Next]_vars => Inductive'
<1> SUFFICES ASSUME Inductive, [Next]_vars PROVE Inductive'
  OBVIOUS
<1>1. CASE Execute
  <2>1. baseBranches \in Views
    BY RevisionsAssumption DEF Inductive, Ranges, baseBranches, Nothing, Views
  <2> QED BY <1>1, <2>1 DEF Execute, Inductive, Ranges, Accounted
<1>2. CASE validateObserved
  <2>1. CASE captured \in valid
    BY <1>2, <2>1, IdleIsAccounted DEF validateObserved, accept, Inductive, Ranges
  <2>2. CASE captured \notin valid
    BY <1>2, <2>2 DEF validateObserved, Inductive, Ranges, Accounted
  <2> QED BY <2>1, <2>2
<1>3. CASE acceptLast
  BY <1>3, IdleIsAccounted DEF acceptLast, accept, Inductive, Ranges
<1>4. CASE stopInputTrial
  BY <1>4, IdleIsAccounted DEF stopInputTrial, Inductive, Ranges
<1>5. CASE change
  <2>1. Held' = Held /\ Waiting' = Waiting
    BY <1>5 DEF change, attempt, Held, Waiting
  <2> QED BY <1>5, <2>1 DEF change, attempt, Inductive, Ranges, Accounted
<1>6. CASE changeValidity
  <2>1. Held' = Held /\ Waiting' = Waiting
    BY <1>6 DEF changeValidity, attempt, Held, Waiting
  <2> QED BY <1>6, <2>1 DEF changeValidity, attempt, Inductive, Ranges, Accounted
<1>7. CASE UNCHANGED vars
  <2>1. Held' = Held /\ Waiting' = Waiting
    BY <1>7 DEF vars, attempt, Held, Waiting
  <2> QED BY <1>7, <2>1 DEF vars, attempt, Inductive, Ranges, Accounted
<1> QED
  BY <1>1, <1>2, <1>3, <1>4, <1>5, <1>6, <1>7, ValidateBaseIsInductive, BootstrapIsInductive,
     SelectGroupsIsInductive, RetryIsInductive, SelectComplementIsInductive
  DEF Next, Select

----------------------------------------------------------------------------
(* What a selection promises. *)

\* Every step of the selector keeps the inductive invariant.
LEMMA AlwaysInductive == Spec => []Inductive
  BY InitIsInductive, NextIsInductive, PTL DEF Spec

\* service.go selectGroups, retry loop, selectComplement: in every state of a selection its
\* branches have passed and no change is lost from the accounts, for any objects, any
\* revisions and any dependencies between them.
THEOREM AccountedAlways == Spec => []Accounted
<1>1. Inductive => Accounted
  BY DEF Inductive
<1> QED
  BY <1>1, AlwaysInductive, PTL

\* service.go accept: whatever is accepted has passed complete validation, and comes with
\* its own output.
THEOREM OnlyValidIsAccepted == Spec => AcceptedIsValid
<1> DEFINE A == Accepts => accepted'.view \in valid /\ (phase = "observed" \/ result = accepted'.view)
<1>1. ASSUME Inductive, [Next]_vars PROVE [A]_vars
  <2>1. CASE validateObserved
    BY <2>1 DEF validateObserved, accept, Accepts
  <2>2. CASE retry \/ selectComplement \/ acceptLast
    <3>1. branches \in valid /\ result = branches
      BY <1>1, <2>2 DEF retry, selectComplement, acceptLast, Inductive, Accounted
    <3>2. Accepts => accept(branches, rejected)
      BY <2>2 DEF retry, selectComplement, acceptLast, Accepts
    <3> QED BY <3>1, <3>2 DEF accept
  <2>3. CASE accepted' = accepted
    BY <2>3 DEF Accepts
  <2> QED
    BY <1>1, <2>1, <2>2, <2>3 DEF Next, Select, Execute, validateBase, bootstrap, selectGroups,
       stopInputTrial, change, changeValidity, vars
<1> QED
  BY <1>1, AlwaysInductive, PTL DEF Spec, AcceptedIsValid

\* admission.go IsolatedInputs: while nothing new is observed, admission checks a proposal
\* against exactly the inputs that were accepted.
THEOREM AdmissionAgrees == Spec => AdmissionSeesAccepted
<1> DEFINE A == Accepts /\ observed = captured => IsolatedInputs' = accepted'.view
<1>1. ASSUME NEW view \in Views, NEW R, accept(view, R), observed' = captured, captured \in Views,
             {o \in Objects : view[o] # captured[o]} \subseteq R
      PROVE  IsolatedInputs' = accepted'.view
  <2>1. /\ accepted'.view = view
        /\ \A o \in R : [object |-> o, revision |-> captured[o]] \in accepted'.rejections
    BY <1>1 DEF accept
  <2>2. IsolatedInputs' = [o \in Objects |-> view[o]]
    BY <1>1, <2>1 DEF IsolatedInputs
  <2> QED BY <2>1, <2>2 DEF Views
<1>2. ASSUME Inductive, [Next]_vars PROVE [A]_vars
  <2>1. CASE validateObserved
    BY <1>1, <1>2, <2>1 DEF validateObserved, Accepts, Inductive, Ranges
  <2>2. CASE retry \/ acceptLast
    <3>1. work = <<>> /\ phase \in {"select", "last"} /\ observed' = observed
      BY <2>2 DEF retry, acceptLast
    <3>2. Held \subseteq rejected
      BY <1>2, <3>1, FewSlices DEF Inductive, Accounted, Waiting, In
    <3>3. Accepts => accept(branches, rejected)
      BY <2>2 DEF retry, acceptLast, Accepts
    <3> QED BY <1>1, <1>2, <3>1, <3>2, <3>3 DEF Held, Inductive, Ranges
  <2>3. CASE selectComplement
    <3>1. Held \subseteq rejected /\ observed' = observed
      BY <1>2, <2>3 DEF selectComplement, Inductive, Accounted
    <3>2. Accepts => accept(branches, rejected)
      BY <2>3 DEF selectComplement, Accepts
    <3> QED BY <1>1, <1>2, <3>1, <3>2 DEF Held, Inductive, Ranges
  <2>4. CASE accepted' = accepted
    BY <2>4 DEF Accepts
  <2> QED
    BY <1>2, <2>1, <2>2, <2>3, <2>4 DEF Next, Select, Execute, validateBase, bootstrap, selectGroups,
       stopInputTrial, change, changeValidity, vars
<1> QED
  BY <1>2, AlwaysInductive, PTL DEF Spec, AdmissionSeesAccepted

----------------------------------------------------------------------------
(* Every rejection is justified. *)

\* selectGroups: slices that are apart stay so when the next one is taken.
LEMMA ApartTail ==
    ASSUME NEW w \in Seq(SUBSET Objects), w # <<>>, Apart(w)
    PROVE  Apart(Tail(w)) /\ Head(w) \cap In(Tail(w)) = {}
<1>1. /\ Len(w) \in Nat \ {0} /\ Len(Tail(w)) = Len(w) - 1 /\ Head(w) = w[1]
      /\ Tail(w) \in Seq(SUBSET Objects)
      /\ \A i \in 1..Len(Tail(w)) : Tail(w)[i] = w[i + 1]
  BY HeadTailProperties
<1>2. DOMAIN w = 1..Len(w) /\ DOMAIN Tail(w) = 1..(Len(w) - 1)
  BY <1>1
<1>3. \A j, k \in 1..Len(w) : j # k => w[j] \cap w[k] = {}
  BY <1>2 DEF Apart
<1>4. \A k \in 1..(Len(w) - 1) : k + 1 \in 1..Len(w) /\ Tail(w)[k] = w[k + 1] /\ k + 1 # 1
  BY <1>1
<1>5. Head(w) \cap In(Tail(w)) = {}
  <2>1. \A k \in 1..(Len(w) - 1) : w[1] \cap Tail(w)[k] = {}
    BY <1>1, <1>3, <1>4
  <2> QED BY <1>1, <1>2, <2>1 DEF In
<1>6. ASSUME NEW j \in 1..(Len(w) - 1), NEW k \in 1..(Len(w) - 1), j # k
      PROVE  Tail(w)[j] \cap Tail(w)[k] = {}
  <2>1. j + 1 # k + 1
    BY <1>6, <1>1
  <2> QED BY <1>3, <1>4, <2>1
<1> QED
  BY <1>2, <1>5, <1>6 DEF Apart

\* The halves of a slice are apart, and from all that is apart from the slice.
LEMMA ApartHalves ==
    ASSUME NEW w \in Seq(SUBSET Objects), Apart(w),
           NEW s \in SUBSET Objects, s \cap In(w) = {}, NEW two \in halves(s)
    PROVE  Apart(two \o w)
<1>1. PICK l \in SUBSET s : two = <<l, s \ l>>
  BY DEF halves
<1>2. two \in Seq(SUBSET Objects) /\ Len(two) = 2 /\ two[1] = l /\ two[2] = s \ l
  BY <1>1
<1>3. /\ Len(w) \in Nat /\ Len(two \o w) = 2 + Len(w) /\ two \o w \in Seq(SUBSET Objects)
      /\ \A i \in 1..(2 + Len(w)) : (two \o w)[i] = IF i <= 2 THEN two[i] ELSE w[i - 2]
  <2>1. /\ two \o w \in Seq(SUBSET Objects) /\ Len(two \o w) = Len(two) + Len(w)
        /\ \A i \in 1..(Len(two) + Len(w)) :
               (two \o w)[i] = IF i <= Len(two) THEN two[i] ELSE w[i - Len(two)]
    BY <1>2, Concatenated
  <2>2. Len(w) \in Nat
    BY LenProperties
  <2> QED BY <1>2, <2>1, <2>2
<1>4. DOMAIN (two \o w) = 1..(2 + Len(w)) /\ DOMAIN w = 1..Len(w)
  BY <1>3
<1>5. \A k \in 1..Len(w) : s \cap w[k] = {}
  BY <1>4 DEF In
<1>6. ASSUME NEW j \in 1..(2 + Len(w)), NEW k \in 1..(2 + Len(w)), j < k
      PROVE  (two \o w)[j] \cap (two \o w)[k] = {}
  <2>1. CASE j = 1 /\ k = 2
    BY <1>2, <1>3, <2>1
  <2>2. CASE j \in {1, 2} /\ k > 2
    <3>1. (two \o w)[j] \subseteq s
      BY <1>2, <1>3, <2>2
    <3>2. k - 2 \in 1..Len(w) /\ (two \o w)[k] = w[k - 2]
      BY <1>3, <2>2
    <3> QED BY <1>5, <3>1, <3>2
  <2>3. CASE j > 2
    <3>1. /\ j - 2 \in 1..Len(w) /\ (two \o w)[j] = w[j - 2]
          /\ k - 2 \in 1..Len(w) /\ (two \o w)[k] = w[k - 2] /\ j - 2 # k - 2
      BY <1>3, <1>6, <2>3
    <3> QED BY <1>4, <3>1 DEF Apart
  <2> QED BY <1>3, <1>6, <2>1, <2>2, <2>3
<1>7. ASSUME NEW j \in 1..(2 + Len(w)), NEW k \in 1..(2 + Len(w)), j # k
      PROVE  (two \o w)[j] \cap (two \o w)[k] = {}
  <2>1. j < k \/ k < j
    BY <1>3, <1>7
  <2>2. CASE j < k
    BY <1>6, <2>2
  <2>3. CASE k < j
    BY <1>6, <2>3
  <2> QED BY <2>1, <2>2, <2>3
<1> QED
  BY <1>4, <1>7 DEF Apart

\* At most one slice is apart from any other.
LEMMA FewAreApart == Apart(<<>>) /\ \A s : Apart(<<s>>)
<1>1. Apart(<<>>)
  BY DEF Apart
<1>2. ASSUME NEW s PROVE Apart(<<s>>)
  <2>1. DOMAIN <<s>> = {1}
    OBVIOUS
  <2> QED BY <2>1 DEF Apart
<1> QED
  BY <1>1, <1>2

\* selectGroups keeps every rejection justified: a slice that passes leaves the round with
\* a group less, and one that fails alone has failed on these branches.
LEMMA SelectGroupsIsJustified == Inductive /\ Justified /\ selectGroups => Justified'
<1> SUFFICES ASSUME Inductive, Justified, selectGroups PROVE Justified'
  OBVIOUS
<1> DEFINE slice == Head(work)
           candidate == applyGroups(branches, slice)
           passes == candidate \in valid
           single == Cardinality(slice) = 1
           failed == \A o \in rejected : applyGroups(branches, {o}) \notin valid
<1>1. /\ slice \in SUBSET Objects /\ Tail(work) \in Seq(SUBSET Objects)
      /\ Waiting = slice \cup In(Tail(work))
  BY NextSlice DEF selectGroups, Inductive, Ranges, Waiting, In
<1>2. Apart(Tail(work)) /\ slice \cap In(Tail(work)) = {} /\ rejected \cap Waiting = {}
  BY ApartTail DEF selectGroups, Inductive, Ranges, Justified
<1>3. UNCHANGED <<valid, phase, captured, pending>> /\ phase \in {"select", "last"}
  BY DEF selectGroups
<1>4. /\ branches' = IF passes THEN candidate ELSE branches
      /\ rejected' = IF ~passes /\ single THEN rejected \cup slice ELSE rejected
  BY DEF selectGroups
<1>5. /\ Waiting' = IF passes \/ single THEN In(Tail(work)) ELSE Waiting
      /\ passes \/ single => work' = Tail(work)
      /\ Apart(work')
  <2>1. CASE passes \/ single
    <3>1. work' = Tail(work)
      BY <2>1 DEF selectGroups
    <3>2. Waiting' = In(Tail(work))
      BY <3>1 DEF Waiting, In
    <3> QED BY <1>2, <2>1, <3>1, <3>2
  <2>2. CASE ~(passes \/ single)
    <3>1. PICK two \in halves(slice) : work' = two \o Tail(work)
      BY <2>2 DEF selectGroups
    <3>2. two \in Seq(SUBSET Objects) /\ In(two) = slice
      BY <1>1, HalvesKeepAll
    <3>3. In(work') = slice \cup In(Tail(work))
      BY <1>1, <3>1, <3>2, SlicesInFront
    <3>4. Apart(work')
      BY <1>1, <1>2, <3>1, ApartHalves
    <3> QED BY <1>1, <2>2, <3>3, <3>4 DEF Waiting, In
  <2> QED BY <2>1, <2>2
<1>6. rejected' \cap Waiting' = {}
  BY <1>1, <1>2, <1>4, <1>5
<1>7. ASSUME ~passes, failed PROVE failed'
  <2>1. CASE single
    <3>1. PICK o : slice = {o}
      BY <1>1, <2>1, ObjectsAssumption, FS_Subset, FS_Singleton
    <3>2. rejected' = rejected \cup {o} /\ applyGroups(branches, {o}) \notin valid
      BY <1>4, <1>7, <2>1, <3>1
    <3> QED BY <1>3, <1>4, <1>7, <3>2 DEF applyGroups
  <2>2. CASE ~single
    BY <1>3, <1>4, <1>7, <2>2 DEF applyGroups
  <2> QED BY <2>1, <2>2
<1>8. ASSUME phase = "select", pending # {} PROVE failed' \/ ~(pending' \subseteq rejected' \cup Waiting')
  <2>1. (failed \/ ~(pending \subseteq rejected \cup Waiting)) /\ rejected \cup Waiting \subseteq pending
    BY <1>8 DEF Justified, Inductive, Accounted
  <2>2. rejected' \cup Waiting' \subseteq rejected \cup Waiting
    BY <1>1, <1>4, <1>5
  <2>3. CASE ~(pending \subseteq rejected \cup Waiting)
    BY <1>3, <2>2, <2>3
  <2>4. CASE ~passes
    BY <1>3, <1>7, <2>1, <2>2, <2>4
  <2>5. CASE passes /\ slice # {}
    BY <1>1, <1>2, <1>3, <1>4, <1>5, <2>1, <2>5
  <2>6. CASE passes /\ slice = {} /\ failed
    <3>1. candidate = branches
      BY <2>6 DEF applyGroups, Inductive, Ranges, Views
    <3> QED BY <1>3, <1>4, <2>6, <3>1 DEF applyGroups
  <2> QED BY <2>1, <2>3, <2>4, <2>5, <2>6
<1>9. ASSUME phase = "last" PROVE failed' /\ work' = <<>>
  <2>1. PICK o \in Objects : work = <<{o}>> /\ rejected = {}
    BY <1>9 DEF Justified, selectGroups
  <2>2. slice = {o} /\ Tail(work) = <<>>
    BY <2>1
  <2>3. single
    BY <2>2, FS_Singleton
  <2>4. CASE passes
    BY <1>4, <1>5, <2>1, <2>2, <2>4
  <2>5. CASE ~passes
    BY <1>5, <1>7, <2>1, <2>2, <2>3, <2>5
  <2> QED BY <2>4, <2>5
<1> HIDE DEF slice, candidate, passes, single
<1> QED
  BY <1>3, <1>5, <1>6, <1>8, <1>9 DEF Justified

\* A round that rejects as many groups as it has rejects all of them.
LEMMA AllOfTheRound ==
    ASSUME Inductive, phase = "select", work = <<>>, rejected # {},
           Cardinality(rejected) = Cardinality(pending)
    PROVE  pending # {} /\ rejected = pending
<1>1. IsFiniteSet(rejected) /\ IsFiniteSet(pending)
  BY ObjectsAssumption, FS_Subset DEF Inductive, Ranges
<1>2. pending # {}
  BY <1>1, FS_EmptySet
<1>3. rejected \subseteq pending
  BY <1>2 DEF Inductive, Accounted
<1> QED
  BY <1>1, <1>2, <1>3, FS_Subset

\* A selection accepts rejections that are justified.
LEMMA AcceptsJustified ==
    ASSUME Inductive, Justified, [Next]_vars, Accepts, ~validateObserved
    PROVE  /\ accept(branches, rejected)
           /\ \A o \in rejected : applyGroups(branches, {o}) \notin valid
<1>1. retry \/ selectComplement \/ acceptLast
  BY DEF Next, Select, Execute, validateBase, bootstrap, selectGroups, stopInputTrial, change,
         changeValidity, vars, Accepts
<1>2. CASE retry
  <2>1. /\ accept(branches, rejected) /\ phase = "select" /\ work = <<>>
        /\ rejected # {} => Cardinality(rejected) = Cardinality(pending)
    BY <1>2 DEF retry, Accepts
  <2>2. rejected # {} => pending # {} /\ rejected = pending
    BY <2>1, AllOfTheRound
  <2> QED BY <2>1, <2>2 DEF Justified
<1>3. CASE selectComplement
  BY <1>3 DEF selectComplement, Accepts, Justified
<1>4. CASE acceptLast
  BY <1>4 DEF acceptLast, Justified
<1> QED
  BY <1>1, <1>2, <1>3, <1>4

\* A selection that is not under way has nothing to justify.
LEMMA NothingToJustify ==
    ASSUME rejected' = {}, work' = <<>>
    PROVE  Apart(work') /\ rejected' \cap Waiting' = {}
  BY FewAreApart

\* No step leaves a rejection unjustified.
LEMMA NextIsJustified == Inductive /\ Justified /\ [Next]_vars => Justified'
<1> SUFFICES ASSUME Inductive, Justified, [Next]_vars PROVE Justified'
  OBVIOUS
<1>1. CASE Release
  BY <1>1, NothingToJustify DEF Release, Justified
<1>2. CASE UNCHANGED <<valid, captured, branches, work, rejected>> /\ phase' \notin {"select", "complement", "last"}
  BY <1>2 DEF Justified, Waiting
<1>3. CASE UNCHANGED <<valid, attempt>>
  BY <1>3 DEF Justified, Waiting, attempt, applyGroups
<1>4. CASE selectAll /\ pending' = {} /\ rejected' = {}
  BY <1>4, FewAreApart DEF selectAll, Justified
<1>5. CASE retry
  <2>1. CASE rejected # {} /\ Cardinality(rejected) = Cardinality(pending) /\ phase' = "complement"
             /\ UNCHANGED <<valid, captured, branches, work, pending, rejected>>
    <3>1. pending # {} /\ rejected = pending /\ phase = "select"
      BY <1>5, <2>1, AllOfTheRound DEF retry
    <3>2. \A o \in rejected : applyGroups(branches, {o}) \notin valid
      BY <3>1 DEF Justified
    <3> QED BY <2>1, <3>1, <3>2 DEF Justified, Waiting, applyGroups
  <2>2. CASE rejected' = {} /\ work' = <<rejected>> /\ phase' = "select"
    BY <2>2, FewAreApart DEF Justified
  <2> QED BY <1>1, <1>5, <2>1, <2>2 DEF retry, accept
<1>6. CASE selectComplement
  <2>1. CASE rejected' = {} /\ phase' = "last" /\ \E o \in pending : work' = <<{o}>>
    <3>1. \E o \in Objects : work' = <<{o}>>
      BY <2>1 DEF Inductive, Ranges
    <3> QED BY <2>1, <3>1, FewAreApart DEF Justified
  <2>2. CASE UNCHANGED <<phase, branches, work, rejected, captured, pending, valid>>
    BY <2>2 DEF Justified, Waiting, applyGroups
  <2> QED BY <1>1, <1>6, <2>1, <2>2 DEF selectComplement, accept
<1>7. CASE Execute \/ validateObserved
  BY <1>1, <1>2, <1>7 DEF Execute, validateObserved, accept, Justified, Waiting
<1>8. CASE validateBase
  <2>1. pending = {} /\ rejected = {}
    BY <1>8 DEF validateBase, Inductive, Ranges
  <2> QED BY <1>1, <1>2, <1>4, <1>8, <2>1 DEF validateBase
<1>9. CASE bootstrap
  <2>1. rejected = {}
    BY <1>9 DEF bootstrap, Inductive, Ranges
  <2> QED BY <1>1, <1>2, <1>4, <1>9, <2>1 DEF bootstrap
<1>10. CASE changeValidity
  BY <1>10 DEF changeValidity, attempt, Justified, Waiting
<1> QED
  BY <1>1, <1>3, <1>5, <1>6, <1>7, <1>8, <1>9, <1>10, SelectGroupsIsJustified
  DEF Next, Select, acceptLast, accept, stopInputTrial, change, vars

\* service.go selectGroups, the retry loop, selectComplement: in every state of a selection
\* no group is in two places, and what a fruitless round rejected fails on its branches.
THEOREM JustifiedAlways == Spec => []Justified
<1>1. Init => Justified
  BY FewAreApart DEF Init, Justified
<1> QED
  BY <1>1, AlwaysInductive, NextIsJustified, PTL DEF Spec

\* service.go Execute: no change is rejected that would pass on top of what is accepted,
\* for any objects and any dependencies and conflicts between them.
THEOREM NoChangeIsLeftBehind == Spec => NoneIsLeftBehind
<1> DEFINE A == Accepts => \A r \in accepted'.rejections :
                              [accepted'.view EXCEPT ![r.object] = r.revision] \notin valid
<1>1. ASSUME Inductive, Justified, [Next]_vars PROVE A
  <2>1. CASE validateObserved
    BY <2>1 DEF validateObserved, accept, Accepts
  <2>2. CASE ~validateObserved /\ Accepts
    <3>1. /\ accept(branches, rejected)
          /\ \A o \in rejected : applyGroups(branches, {o}) \notin valid
      BY <1>1, <2>2, AcceptsJustified
    <3>2. branches \in Views /\ rejected \subseteq Objects
      BY <1>1 DEF Inductive, Ranges
    <3>3. \A o \in rejected : [branches EXCEPT ![o] = captured[o]] = applyGroups(branches, {o})
      BY <3>2 DEF applyGroups, Views
    <3>4. ASSUME NEW r \in accepted'.rejections
          PROVE  [accepted'.view EXCEPT ![r.object] = r.revision] \notin valid
      <4>1. accepted'.view = branches
        BY <3>1 DEF accept
      <4>2. PICK o \in rejected : r = [object |-> o, revision |-> captured[o]]
        BY <3>1, <3>4 DEF accept
      <4>3. r.object = o /\ r.revision = captured[o]
        BY <4>2
      <4>4. [accepted'.view EXCEPT ![r.object] = r.revision] = applyGroups(branches, {o})
        BY <3>3, <4>1, <4>3
      <4> QED BY <3>1, <4>4
    <3> QED BY <3>4
  <2> QED BY <2>1, <2>2
<1> QED
  BY <1>1, AlwaysInductive, JustifiedAlways, PTL DEF Spec, NoneIsLeftBehind

\* service.go accept: what is accepted is well formed, and no change in it is rejected too.
LEMMA AcceptedIsTyped ==
    ASSUME Inductive, Justified, TypeOK, [Next]_vars, Accepts
    PROVE  /\ accepted' \in [view : Views, rejections : SUBSET [object : Objects, revision : Revisions]]
           /\ \A r \in accepted'.rejections : accepted'.view[r.object] # r.revision
<1>1. CASE validateObserved
  BY <1>1 DEF validateObserved, accept, Accepts, TypeOK
<1>2. CASE ~validateObserved
  <2>1. /\ accept(branches, rejected)
        /\ \A o \in rejected : applyGroups(branches, {o}) \notin valid
    BY <1>2, AcceptsJustified
  <2>2. retry \/ selectComplement \/ acceptLast
    BY <1>2 DEF Next, Select, Execute, validateBase, bootstrap, selectGroups, stopInputTrial, change,
           changeValidity, vars, Accepts
  <2>3. branches \in valid /\ branches \in Views /\ captured \in Views /\ rejected \subseteq Objects
    BY <2>2 DEF retry, selectComplement, acceptLast, Inductive, Ranges, Accounted
  <2>4. \A o \in rejected : branches[o] # captured[o]
    <3>1. ASSUME NEW o \in rejected, branches[o] = captured[o] PROVE applyGroups(branches, {o}) = branches
      BY <2>3, <3>1 DEF applyGroups, Views
    <3> QED BY <2>1, <2>3, <3>1
  <2>5. \A o \in rejected : captured[o] \in Revisions
    BY <2>3 DEF Views
  <2>6. /\ accepted' = [view |-> branches,
                        rejections |-> {[object |-> o, revision |-> captured[o]] : o \in rejected}]
    BY <2>1 DEF accept
  <2> QED BY <2>3, <2>4, <2>5, <2>6
<1> QED
  BY <1>1, <1>2

\* bootstrap, selectComplement: groups are withheld one at a time, out of those of the round.
Withheld ==
    /\ withheld \subseteq pending
    /\ phase \notin {"bootstrap", "complement", "last"} => withheld = {}

\* What is withheld is always among the groups of the round, whatever is tried.
LEMMA AlwaysWithheld == Spec => []Withheld
<1>1. Init => Withheld
  BY DEF Init, Withheld
<1>2. ASSUME Inductive, Withheld, [Next]_vars PROVE Withheld'
  <2>1. CASE Release
    BY <2>1 DEF Release, Withheld
  <2>2. CASE bootstrap
    <3>1. \/ Release
          \/ pending' = {} /\ withheld' = {}
          \/ \E o \in pending : withheld' = withheld \cup {o} /\ phase' = phase /\ pending' = pending
      BY <2>2 DEF bootstrap
    <3>2. phase = "bootstrap"
      BY <2>2 DEF bootstrap
    <3> QED BY <1>2, <2>1, <3>1, <3>2 DEF Withheld
  <2>3. CASE selectComplement
    BY <1>2, <2>1, <2>3 DEF Withheld, selectComplement, accept
  <2>4. CASE validateBase
    BY <1>2, <2>1, <2>4 DEF Withheld, validateBase, selectAll
  <2>5. CASE retry
    BY <1>2, <2>1, <2>5 DEF Withheld, retry, accept
  <2>6. CASE selectGroups
    BY <1>2, <2>6 DEF Withheld, selectGroups
  <2>7. CASE Execute \/ validateObserved \/ acceptLast \/ stopInputTrial
    BY <1>2, <2>1, <2>7 DEF Withheld, Execute, validateObserved, acceptLast, stopInputTrial, accept
  <2>8. CASE UNCHANGED attempt
    BY <1>2, <2>8 DEF Withheld, attempt
  <2> QED
    BY <1>2, <2>2, <2>3, <2>4, <2>5, <2>6, <2>7, <2>8 DEF Next, Select, change, changeValidity, vars
<1> QED
  BY <1>1, <1>2, AlwaysInductive, PTL DEF Spec

\* service.go: every variable stays in its range, and no change is both accepted and rejected.
THEOREM TypeCorrect == Spec => []TypeOK
<1>1. Init => TypeOK
  BY RevisionsAssumption DEF Init, TypeOK, Phases, Nothing, Views
<1>2. ASSUME Inductive, Inductive', Justified, Withheld', TypeOK, [Next]_vars PROVE TypeOK'
  <2>1. /\ observed' \in Views /\ valid' \in Validities /\ changes' \in Nat
    BY <1>2 DEF TypeOK, Next, Select, Execute, validateObserved, validateBase, bootstrap, selectGroups,
       retry, selectComplement, acceptLast, stopInputTrial, change, changeValidity, vars
  <2>2. /\ accepted' = None \/ accepted' \in [view : Views, rejections : SUBSET [object : Objects, revision : Revisions]]
        /\ accepted' # None => \A r \in accepted'.rejections : accepted'.view[r.object] # r.revision
    <3>1. CASE Accepts
      BY <1>2, <3>1, AcceptedIsTyped
    <3>2. CASE ~Accepts
      BY <1>2, <3>2 DEF Accepts, TypeOK
    <3> QED BY <3>1, <3>2
  <2>3. phase' \in Phases /\ result' \in Views \cup {None}
    <3>1. CASE selectGroups
      BY <1>2, <3>1, AppliedViews DEF TypeOK, selectGroups, Inductive, Accounted, Ranges
    <3>2. CASE bootstrap
      <4>1. \A o : applyGroups(branches, pending \ {o}) \in Views
        BY <1>2, AppliedViews DEF Inductive, Ranges
      <4> QED BY <1>2, <3>2, <4>1 DEF TypeOK, bootstrap, Release, selectAll, Phases
    <3>3. CASE selectComplement
      <4>1. \A o : applyGroups(branches, pending \ {o}) \in Views
        BY <1>2, AppliedViews DEF Inductive, Ranges
      <4> QED BY <1>2, <3>3, <4>1 DEF TypeOK, selectComplement, accept, Release, Phases
    <3>4. CASE Execute \/ validateObserved \/ validateBase \/ retry \/ acceptLast
      BY <1>2, <3>4 DEF TypeOK, Execute, validateObserved, validateBase, retry, acceptLast, accept,
         Release, selectAll, Phases
    <3>5. CASE stopInputTrial \/ change \/ changeValidity \/ UNCHANGED vars
      BY <1>2, <3>5 DEF TypeOK, stopInputTrial, change, changeValidity, vars, attempt, Release, Phases
    <3> QED BY <1>2, <3>1, <3>2, <3>3, <3>4, <3>5 DEF Next, Select
  <2>4. withheld' \subseteq pending'
    BY <1>2 DEF Withheld
  <2> QED BY <1>2, <2>1, <2>2, <2>3, <2>4 DEF TypeOK, Inductive, Ranges
<1> QED
  BY <1>1, <1>2, AlwaysInductive, JustifiedAlways, AlwaysWithheld, PTL DEF Spec

=============================================================================
