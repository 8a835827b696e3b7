------------------------- MODULE CoordinatorProofs -------------------------
(***************************************************************************)
(* What holds of the coordinator, the store's trial of a page and the      *)
(* auxiliary-file baseline for any inputs and pages, any disagreement      *)
(* between the check and the gate, any number of renders, refreshes,       *)
(* validations and terms.                                                  *)
(***************************************************************************)
EXTENDS Coordinator, TLAPS

-----------------------------------------------------------------------------
(* The inductive invariant *)

Versions == Pages \cup {NoPage}
Sources == [page : Versions, revision : Nat, pending : Versions, id : Nat, critical : BOOLEAN]
Acceptances == [sequence : Nat, page : Versions, revision : Nat, previous : Versions]
Results == [content : Contents, revision : Nat]
Renders == [content : Contents, root : Roots, observed : Nat, reached : Nat]
Outputs == [content : Contents, root : Roots]
Verdicts == [type : {"verdict"}, render : Renders, ok : BOOLEAN, newest : BOOLEAN]
Events == {Trigger, AcceptanceRequested} \cup Verdicts
\* The trials that have the result of the accepted inputs to fall back on.
AfterBase == {"groups", "rejected"}
Selections == [at : Trials \ AfterBase, inputs : Inputs, result : {None}]
              \cup [at : AfterBase, inputs : Inputs, result : Results]
Loops == {Idle} \cup [at : {"start"}] \cup Selections \cup [at : {"render"}, result : Results]
Tries == [at : Trials, inputs : Inputs, result : {None}, tries : Nat, before : Nat]
Candidates == [at : {"check", "commit"}, trial : Tries, before : Nat, content : Contents, seen : Nat]
Attempts == {Idle} \cup [at : {"start"}] \cup Tries \cup Candidates

TypeOK ==
    /\ inputs \in Inputs /\ accepted \in Inputs \cup {NoInput} /\ origin \in Pages
    /\ source \in Sources /\ revision \in Nat /\ sequence \in Nat
    /\ trial \in {None} \cup Acceptances
    /\ mailbox \in Seq(Events) /\ loop \in Loops /\ attempt \in Attempts
    /\ files \in [accepted : {None} \cup Outputs, confirmed : {None} \cup Outputs]
    /\ newest \in {None} \cup Outputs /\ unjudged \in Seq(Renders)
    /\ proven \in [pages : SUBSET Versions, revision : Nat]

\* What was read at a revision is what the source has while it is at that revision.
Read(content, rev) ==
    /\ rev <= revision
    /\ rev # 0 /\ rev = source.revision => content[2] = source.page

\* The renders that have not been settled are of versions the source had, and the
\* candidate of an attempt that may still be accepted finds no page in its place.
Current ==
    /\ source.revision <= revision
    /\ loop.at \in AfterBase \cup {"render"} => Read(loop.result.content, loop.result.revision)
    /\ \A r \in Range(unjudged) : Read(r.content, r.observed)
    /\ \A v \in Range(mailbox) : v.type = "verdict" => Read(v.render.content, v.render.observed)
    /\ attempt.at \in {"check", "commit"} =>
          /\ attempt.content[2] \in Pages
          /\ attempt.seen <= revision
          /\ attempt.seen = revision => source.page = NoPage

\* The trial is that of the accepted version, and no trial is left of a version shown
\* to pass; without a trial the accepted page is one a render has passed with.
OnTrial ==
    /\ trial # None => /\ trial.page = source.page /\ trial.revision = source.revision
                       /\ trial.revision # 0
    /\ trial = None => source.page \in proven.pages \cup {NoPage}
    /\ proven.revision <= revision
    /\ proven.revision # 0 /\ source.revision = proven.revision => trial = None

\* The confirmed output is one HAProxy takes, a baseline it refuses is the newest
\* render, and every verdict on that one says so.
Baseline ==
    /\ files.confirmed # None => files.confirmed.content \notin Refused
    /\ files.accepted # None /\ files.accepted.content \in Refused => files.accepted = newest
    /\ \A v \in Range(mailbox) : v.type = "verdict" =>
          /\ v.ok <=> v.render.content \notin Refused
          /\ output(v.render) = newest => v.newest

IInv == TypeOK /\ Current /\ OnTrial /\ RestoresProven /\ Baseline /\ RefusedBaselineIsLeft

-----------------------------------------------------------------------------
(* Sequences *)

\* enqueue loses no event and adds none but the given one.
LEMMA EnqueueFacts ==
    ASSUME NEW q \in Seq(Events), NEW e \in Events
    PROVE  /\ enqueue(q, e) \in Seq(Events)
           /\ Range(q) \subseteq Range(enqueue(q, e)) /\ Range(enqueue(q, e)) \subseteq Range(q) \cup {e}
           /\ e # Trigger => e \in Range(enqueue(q, e))
<1>1. CASE enqueue(q, e) = q /\ e = Trigger
  BY <1>1
<1>2. CASE enqueue(q, e) = Append(q, e)
  <2>1. /\ Append(q, e) \in Seq(Events) /\ DOMAIN q = 1 .. Len(q) /\ Len(q) \in Nat
        /\ DOMAIN Append(q, e) = 1 .. Len(q) + 1 /\ Append(q, e)[Len(q) + 1] = e
        /\ \A k \in 1 .. Len(q) : Append(q, e)[k] = q[k]
    OBVIOUS
  <2> QED BY <1>2, <2>1 DEF Range
<1> QED BY <1>1, <1>2 DEF enqueue

\* An event that is not a verdict, enqueued or not, leaves the verdicts that wait.
LEMMA EnqueueIfFacts ==
    ASSUME NEW q \in Seq(Events), NEW c, NEW e \in {Trigger, AcceptanceRequested}
    PROVE  /\ enqueueIf(c, q, e) \in Seq(Events)
           /\ \A v : v.type = "verdict" => (v \in Range(enqueueIf(c, q, e)) <=> v \in Range(q))
<1>1. e \in Events /\ e.type # "verdict"
  BY DEF Events, Trigger, AcceptanceRequested
<1> QED BY <1>1, EnqueueFacts DEF enqueueIf

\* Taking the head of the mailbox loses nothing else.
LEMMA TailFacts ==
    ASSUME NEW S, NEW q \in Seq(S), q # <<>>
    PROVE  /\ Tail(q) \in Seq(S) /\ Head(q) \in S /\ Head(q) \in Range(q)
           /\ Range(Tail(q)) \subseteq Range(q) /\ Range(q) \subseteq Range(Tail(q)) \cup {Head(q)}
<1>1. /\ Tail(q) \in Seq(S) /\ DOMAIN q = 1 .. Len(q) /\ Len(q) \in Nat \ {0} /\ Head(q) = q[1]
      /\ DOMAIN Tail(q) = 1 .. Len(q) - 1 /\ \A k \in 1 .. Len(q) - 1 : Tail(q)[k] = q[k + 1]
  OBVIOUS
<1>2. Head(q) \in S /\ Head(q) \in Range(q)
  BY <1>1 DEF Range
<1>3. Range(Tail(q)) \subseteq Range(q)
  BY <1>1 DEF Range
<1>4. ASSUME NEW k \in 1 .. Len(q) PROVE q[k] \in Range(Tail(q)) \cup {Head(q)}
  <2>1. CASE k = 1
    BY <1>1, <2>1
  <2>2. CASE k # 1
    <3>1. k - 1 \in 1 .. Len(q) - 1 /\ Tail(q)[k - 1] = q[k]
      BY <1>1, <2>2
    <3> QED BY <1>1, <3>1, Zenon DEF Range
  <2> QED BY <2>1, <2>2
<1> QED BY <1>1, <1>2, <1>3, <1>4 DEF Range

\* The sequence that is left when entry n goes.
Without(q, n) == SubSeq(q, 1, n - 1) \o SubSeq(q, n + 1, Len(q))

\* publishVerdict takes one render from those the gate holds, and no other.
LEMMA RemoveFacts ==
    ASSUME NEW S, NEW q \in Seq(S), NEW n \in DOMAIN q
    PROVE  /\ Without(q, n) \in Seq(S) /\ q[n] \in S /\ q[n] \in Range(q)
           /\ Range(Without(q, n)) \subseteq Range(q) /\ Range(q) \subseteq Range(Without(q, n)) \cup {q[n]}
<1> DEFINE a == SubSeq(q, 1, n - 1)  b == SubSeq(q, n + 1, Len(q))
<1>1. Len(q) \in Nat /\ n \in 1 .. Len(q) /\ DOMAIN q = 1 .. Len(q) /\ \A k \in 1 .. Len(q) : q[k] \in S
  OBVIOUS
<1>2. /\ a \in Seq(S) /\ Len(a) = n - 1 /\ \A k \in 1 .. n - 1 : a[k] = q[k]
      /\ b \in Seq(S) /\ Len(b) = Len(q) - n /\ \A k \in 1 .. Len(q) - n : b[k] = q[n + k]
  <2>1. a \in Seq(S) /\ Len(a) = n - 1 /\ \A k \in 1 .. n - 1 : a[k] = q[k]
    BY <1>1
  <2>2. b \in Seq(S)
    BY <1>1
  <2>3. Len(b) = Len(q) - n
    BY <1>1
  <2>4. \A k \in 1 .. Len(q) - n : b[k] = q[n + k]
    BY <1>1
  <2> QED BY <2>1, <2>2, <2>3, <2>4
<1> HIDE DEF a, b
<1>3. /\ a \o b \in Seq(S) /\ DOMAIN (a \o b) = 1 .. Len(q) - 1
      /\ \A k \in 1 .. n - 1 : (a \o b)[k] = q[k]
      /\ \A k \in n .. Len(q) - 1 : (a \o b)[k] = q[k + 1]
  <2>1. a \o b \in Seq(S) /\ Len(a \o b) = Len(a) + Len(b) /\ DOMAIN (a \o b) = 1 .. Len(a \o b)
    <3>1. a \in Seq(S) /\ b \in Seq(S)
      BY <1>2
    <3>2. a \o b \in Seq(S)
      BY <3>1
    <3>3. Len(a \o b) = Len(a) + Len(b)
      BY <3>1
    <3> QED BY <3>2, <3>3
  <2>2. ASSUME NEW k \in 1 .. n - 1 PROVE (a \o b)[k] = q[k]
    <3>1. k \in 1 .. Len(a) /\ (a \o b)[k] = a[k]
      BY <1>1, <1>2
    <3> QED BY <1>2, <3>1
  <2>3. ASSUME NEW k \in n .. Len(q) - 1 PROVE (a \o b)[k] = q[k + 1]
    <3>1. k - (n - 1) \in 1 .. Len(q) - n /\ n + (k - (n - 1)) = k + 1
      BY <1>1
    <3>2. (a \o b)[k] = b[k - (n - 1)]
      BY <1>1, <1>2
    <3> QED BY <1>2, <3>1, <3>2
  <2> QED BY <1>1, <1>2, <2>1, <2>2, <2>3
<1>4. Without(q, n) = a \o b
  BY DEF Without, a, b
<1> DEFINE c == a \o b
<1>5. /\ c \in Seq(S) /\ DOMAIN c = 1 .. Len(q) - 1
      /\ \A k \in 1 .. n - 1 : c[k] = q[k]
      /\ \A k \in n .. Len(q) - 1 : c[k] = q[k + 1]
  BY <1>3
<1> HIDE DEF c
<1>6. ASSUME NEW k \in DOMAIN c PROVE c[k] \in Range(q)
  <2>1. CASE k \in 1 .. n - 1
    BY <1>1, <1>5, <2>1 DEF Range
  <2>2. CASE k \in n .. Len(q) - 1
    <3>1. k + 1 \in DOMAIN q /\ c[k] = q[k + 1]
      BY <1>1, <1>5, <2>2
    <3> QED BY <3>1 DEF Range
  <2> QED BY <1>1, <1>5, <2>1, <2>2
<1>7. ASSUME NEW k \in 1 .. Len(q) PROVE q[k] \in Range(c) \cup {q[n]}
  <2>1. CASE k < n
    BY <1>1, <1>5, <2>1 DEF Range
  <2>2. CASE k > n
    <3>1. k - 1 \in n .. Len(q) - 1 /\ c[k - 1] = q[k] /\ k - 1 \in DOMAIN c
      BY <1>1, <1>5, <2>2
    <3> QED BY <3>1 DEF Range
  <2> QED BY <1>1, <2>1, <2>2
<1>8. Range(q) \subseteq Range(c) \cup {q[n]} /\ q[n] \in S /\ q[n] \in Range(q)
  BY <1>1, <1>7 DEF Range
<1>9. Range(c) \subseteq Range(q)
  BY <1>6 DEF Range
<1> QED BY <1>4, <1>5, <1>8, <1>9 DEF c

-----------------------------------------------------------------------------
(* The store *)

\* The store before and after a step: as it was, or with another page on trial.
Typed == source' \in Sources /\ revision' \in Nat /\ sequence' \in Nat /\ trial' \in {None} \cup Acceptances
Same == source'.page = source.page /\ source'.revision = source.revision /\ UNCHANGED <<revision, trial>>
Accepts ==
    /\ revision' = revision + 1 /\ source'.revision = revision + 1
    /\ trial' # None /\ trial'.page = source'.page /\ trial'.revision = revision + 1
    /\ trial'.previous = IF trial = None THEN source.page ELSE trial.previous

\* recordAcceptanceLocked, of a page that is not the accepted one.
LEMMA RecordFacts ==
    ASSUME TypeOK, NEW page \in Versions, page # source.page, NEW rev \in Nat, recordAcceptance(page, rev)
    PROVE  /\ sequence' \in Nat /\ trial' \in Acceptances /\ trial' # None
           /\ trial'.page = page /\ trial'.revision = rev
           /\ trial'.previous = IF trial = None THEN source.page ELSE trial.previous
<1> DEFINE n == sequence + 1  p == IF trial = None THEN source.page ELSE trial.previous
<1>1. n \in Nat /\ p \in Versions
  BY DEF TypeOK, Sources, Acceptances
<1>2. sequence' = n /\ trial' = [sequence |-> n, page |-> page, revision |-> rev, previous |-> p]
  BY DEF recordAcceptance
<1> HIDE DEF n, p
<1>3. trial' \in Acceptances /\ trial'.page = page /\ trial'.revision = rev /\ trial'.previous = p
  BY <1>1, <1>2 DEF Acceptances
<1>4. trial' # None
  BY <1>2 DEF None
<1> QED BY <1>1, <1>2, <1>3, <1>4 DEF p

\* finalizePending: the page that waited replaces the accepted one, or is the same.
LEMMA PromoteFacts ==
    ASSUME TypeOK, OnTrial, promotePending
    PROVE  Typed /\ (Same \/ Accepts)
<1> DEFINE page == source.pending  g == revision + 1
<1>1. source \in Sources /\ page \in Versions /\ revision \in Nat /\ source.revision \in Nat /\ g \in Nat
  BY DEF TypeOK, Sources
<1>2. WithoutPending \in Sources
  BY <1>1, Zenon DEF WithoutPending, Sources, Versions
<1>3. CASE source.page = page
  <2>1. /\ source' = [WithoutPending EXCEPT !.page = page, !.revision = source.revision]
        /\ revision' = revision /\ recordAcceptance(page, source.revision)
    BY <1>3 DEF promotePending
  <2>2. source' \in Sources /\ source'.page = page /\ source'.revision = source.revision
    BY <1>1, <1>2, <2>1, Zenon DEF Sources
  <2>3. UNCHANGED <<trial, sequence>>
    BY <1>3, <2>1 DEF recordAcceptance, OnTrial
  <2> QED BY <1>3, <2>1, <2>2, <2>3 DEF TypeOK, Typed, Same
<1>4. CASE source.page # page
  <2>1. /\ source' = [WithoutPending EXCEPT !.page = page, !.revision = g]
        /\ revision' = g /\ recordAcceptance(page, g)
    BY <1>4 DEF promotePending
  <2> HIDE DEF g
  <2>2. source' \in Sources /\ source'.page = page /\ source'.revision = g
    BY <1>1, <1>2, <2>1, Zenon DEF Sources
  <2>3. /\ sequence' \in Nat /\ trial' \in Acceptances /\ trial' # None
        /\ trial'.page = page /\ trial'.revision = g
        /\ trial'.previous = IF trial = None THEN source.page ELSE trial.previous
    BY <1>1, <1>4, <2>1, RecordFacts
  <2> QED BY <1>1, <2>1, <2>2, <2>3 DEF Typed, Accepts, g
<1> QED BY <1>3, <1>4

\* commitInputs: a candidate is accepted where there is no page, and nothing moves otherwise.
LEMMA CommitFacts ==
    ASSUME TypeOK, Current, commitInputs
    PROVE  Typed /\ (Same \/ Accepts)
<1> DEFINE page == attempt.content[2]  g == revision + 1
<1>1. source \in Sources /\ revision \in Nat /\ g \in Nat
  BY DEF TypeOK
<1>2. CASE revision # attempt.seen
  BY <1>2 DEF commitInputs, store, Typed, TypeOK, Same
<1>3. CASE revision = attempt.seen
  <2>1. source.page = NoPage /\ page \in Pages /\ page # NoPage
    BY <1>3, ContentsAssumption DEF commitInputs, Current
  <2>2. source' = [source EXCEPT !.page = page, !.revision = g] /\ revision' = g /\ recordAcceptance(page, g)
    BY <1>3 DEF commitInputs
  <2> HIDE DEF page, g
  <2>3. source' \in Sources /\ source'.page = page /\ source'.revision = g
    BY <1>1, <2>1, <2>2, Zenon DEF Sources, Versions
  <2>4. /\ sequence' \in Nat /\ trial' \in Acceptances /\ trial' # None
        /\ trial'.page = page /\ trial'.revision = g
        /\ trial'.previous = IF trial = None THEN source.page ELSE trial.previous
    BY <1>1, <2>1, <2>2, RecordFacts DEF Versions
  <2> QED BY <1>1, <2>2, <2>3, <2>4 DEF Typed, Accepts, g
<1> QED BY <1>2, <1>3

\* RevokeAcceptances: the page on trial gives way to its predecessor, or nothing moves.
Restored ==
    /\ trial # None /\ trial' = None /\ revision' = revision + 1
    /\ source'.page = trial.previous /\ source'.revision \in {0, revision + 1}

\* revocation.go RevokeAcceptances: the page before the trial comes back, or nothing
\* changes.
LEMMA RevokeFacts ==
    ASSUME TypeOK, OnTrial, NEW reached, RevokeAcceptances(reached)
    PROVE  /\ Typed /\ (Restored \/ (Same /\ source' = source))
<1> DEFINE g == revision + 1  h == IF trial.previous = NoPage THEN 0 ELSE g
<1>1. source \in Sources /\ revision \in Nat /\ g \in Nat /\ h \in Nat /\ h \in {0, g}
  BY DEF TypeOK
<1>2. CASE Revocable(reached)
  <2>1. Restores /\ trial # None /\ trial \in Acceptances /\ trial.previous \in Versions
    BY <1>2 DEF Restores, OnTrial, Revocable, TypeOK, Acceptances
  <2>2. /\ trial' = None /\ revision' = g /\ sequence' = sequence
        /\ source' = [source EXCEPT !.page = trial.previous, !.revision = h]
    BY <1>2, <2>1 DEF RevokeAcceptances
  <2> HIDE DEF g, h
  <2>3. source' \in Sources /\ source'.page = trial.previous /\ source'.revision = h
    BY <1>1, <2>1, <2>2, Zenon DEF Sources
  <2>4. Typed
    BY <1>1, <2>2, <2>3 DEF Typed, TypeOK
  <2> QED BY <1>1, <2>1, <2>2, <2>3, <2>4 DEF Restored, g
<1>3. CASE ~Revocable(reached)
  BY <1>3 DEF RevokeAcceptances, Typed, TypeOK, Same
<1> QED BY <1>2, <1>3

-----------------------------------------------------------------------------
(* The handlers *)

\* The verdicts that wait are the same after a step.
SameVerdicts == \A v : v.type = "verdict" => (v \in Range(mailbox') <=> v \in Range(mailbox))

\* Execute: a selection goes on, ends with what a trial read at the accepted version, or
\* with what an earlier trial of it read, or with nothing.
LEMMA ExecuteFacts ==
    ASSUME TypeOK, Execute
    PROVE  /\ loop' \in Loops /\ accepted' \in Inputs \cup {NoInput}
           /\ mailbox' \in Seq(Events) /\ SameVerdicts
           /\ loop'.at \in AfterBase \cup {"render"} =>
                \/ loop'.result.content[2] = source.page /\ loop'.result.revision = source.revision
                \/ loop.at \in AfterBase /\ loop'.result = loop.result
<1> DEFINE content == <<Trial(loop), source.page>>
           passes == ~Unreadable /\ content \notin Bad
           result == [content |-> content, revision |-> source.revision]
<1>1. loop \in Selections /\ loop.at \in Trials
  BY DEF TypeOK, Loops, Execute, Idle, Trials
<1>2. /\ loop.inputs \in Inputs /\ (loop.at \in AfterBase => loop.result \in Results)
  BY <1>1 DEF Selections
<1>3. content \in Contents /\ content[2] = source.page
  BY <1>2 DEF TypeOK, Contents, Trial, Sources, Versions
<1>a. PICK next \in IF Withheld /\ source.critical THEN {Idle} ELSE AfterTrial(loop, passes, result) :
         /\ loop' = IF next.at = "selected" THEN [at |-> "render", result |-> next.result] ELSE next
         /\ accepted' = IF next.at = "selected" THEN next.inputs ELSE accepted
         /\ mailbox' = enqueueIf(Withheld, mailbox, AcceptanceRequested)
  BY DEF Execute
<1> HIDE DEF content
<1>4. result \in Results /\ result.content[2] = source.page /\ result.revision = source.revision
  BY <1>3 DEF Results, TypeOK, Sources
<1> HIDE DEF result, passes
<1>b. next = Idle \/ next \in AfterTrial(loop, passes, result)
  BY <1>a
<1>5. \/ next = [[loop EXCEPT !.at = "groups"] EXCEPT !.result = result]
      \/ next = [at |-> "selected", inputs |-> loop.inputs, result |-> result]
      \/ next = [at |-> "selected", inputs |-> accepted, result |-> result]
      \/ next = [loop EXCEPT !.at = "base"] /\ loop.at = "observed"
      \/ next = [loop EXCEPT !.at = "bootstrap"] /\ loop.at = "base"
      \/ next = [loop EXCEPT !.at = "rejected"] /\ loop.at = "groups"
      \/ next = [at |-> "selected", inputs |-> accepted, result |-> loop.result] /\ loop.at = "rejected"
      \/ next = Idle
  BY <1>1, <1>b DEF AfterTrial, Trials
<1>6. \/ next \in Selections /\ (next.at \in AfterBase =>
                                   next.result = result \/ (loop.at \in AfterBase /\ next.result = loop.result))
      \/ /\ next.at = "selected" /\ next.inputs \in Inputs \cup {NoInput} /\ next.result \in Results
         /\ next.result = result \/ (loop.at \in AfterBase /\ next.result = loop.result)
      \/ next = Idle
  <2>1. CASE next = [[loop EXCEPT !.at = "groups"] EXCEPT !.result = result]
    <3>1. next = [at |-> "groups", inputs |-> loop.inputs, result |-> result]
      BY <1>1, <2>1 DEF Selections
    <3> QED BY <1>2, <1>4, <3>1 DEF Selections, AfterBase
  <2>2. CASE \/ next = [at |-> "selected", inputs |-> loop.inputs, result |-> result]
             \/ next = [at |-> "selected", inputs |-> accepted, result |-> result]
    BY <1>2, <1>4, <2>2 DEF TypeOK
  <2>3. CASE \/ next = [loop EXCEPT !.at = "base"] /\ loop.at = "observed"
             \/ next = [loop EXCEPT !.at = "bootstrap"] /\ loop.at = "base"
    BY <1>1, <2>3 DEF Selections, AfterBase, Trials
  <2>4. CASE next = [loop EXCEPT !.at = "rejected"] /\ loop.at = "groups"
    <3>1. next = [at |-> "rejected", inputs |-> loop.inputs, result |-> loop.result]
      BY <1>1, <2>4 DEF Selections
    <3> QED BY <1>2, <2>4, <3>1 DEF Selections, AfterBase
  <2>5. CASE next = [at |-> "selected", inputs |-> accepted, result |-> loop.result] /\ loop.at = "rejected"
    BY <1>2, <2>5 DEF TypeOK, AfterBase
  <2> QED BY <1>5, <2>1, <2>2, <2>3, <2>4, <2>5
<1>8. mailbox' \in Seq(Events) /\ SameVerdicts
  BY <1>a, EnqueueIfFacts DEF TypeOK, SameVerdicts
<1>9. CASE next \in Selections /\ (next.at \in AfterBase =>
                                   next.result = result \/ (loop.at \in AfterBase /\ next.result = loop.result))
  <2>1. next.at # "selected" /\ next.at # "render"
    BY <1>9 DEF Selections, AfterBase, Trials
  <2>2. loop' = next /\ accepted' = accepted
    BY <1>a, <2>1
  <2> QED BY <1>4, <1>8, <1>9, <2>1, <2>2 DEF Loops, TypeOK
<1>10. CASE /\ next.at = "selected" /\ next.inputs \in Inputs \cup {NoInput} /\ next.result \in Results
            /\ next.result = result \/ (loop.at \in AfterBase /\ next.result = loop.result)
  <2>1. loop' = [at |-> "render", result |-> next.result] /\ accepted' = next.inputs
    BY <1>a, <1>10
  <2>2. loop' \in Loops /\ loop'.result = next.result
    BY <1>10, <2>1 DEF Loops
  <2> QED BY <1>4, <1>8, <1>10, <2>1, <2>2
<1>11. CASE next = Idle
  <2>1. loop' = Idle /\ accepted' = accepted /\ loop'.at = "idle"
    BY <1>a, <1>11 DEF Idle
  <2> QED BY <1>8, <2>1 DEF Loops, TypeOK, AfterBase
<1> QED BY <1>6, <1>9, <1>10, <1>11

\* A trial of the attempt ends: the attempt goes on, starts again or is over.
LEMMA EndTrialFacts ==
    ASSUME TypeOK, NEW t \in Tries, NEW passes, endTrial(t, passes)
    PROVE  /\ attempt' \in Attempts /\ attempt'.at \notin {"check", "commit"}
           /\ accepted' \in Inputs \cup {NoInput}
           /\ mailbox' \in Seq(Events) /\ SameVerdicts
<1>3. PICK next \in AfterTrial(t, passes, None) :
         /\ accepted' = IF next.at = "selected" THEN next.inputs ELSE accepted
         /\ mailbox' = enqueueIf(next.at = "selected" /\ sequence' # attempt.before, mailbox, Trigger)
         /\ IF next.at \in {"idle", "selected"} THEN anotherAttempt ELSE attempt' = [next EXCEPT !.tries = 1]
  BY DEF endTrial
<1>1. \/ next = [[t EXCEPT !.at = "groups"] EXCEPT !.result = None]
      \/ \E at \in Trials : next = [t EXCEPT !.at = at]
      \/ next = [at |-> "selected", inputs |-> t.inputs, result |-> None]
      \/ next = [at |-> "selected", inputs |-> accepted, result |-> None]
      \/ next = [at |-> "selected", inputs |-> accepted, result |-> t.result]
      \/ next = Idle
  BY DEF AfterTrial, Tries, Trials
<1>2. \/ next \in Tries
      \/ next.at = "selected" /\ next.inputs \in Inputs \cup {NoInput}
      \/ next = Idle
  <2>1. [[t EXCEPT !.at = "groups"] EXCEPT !.result = None] \in Tries
    BY DEF Tries, Trials
  <2>2. \A at \in Trials : [t EXCEPT !.at = at] \in Tries
    BY DEF Tries
  <2>3. t.inputs \in Inputs /\ accepted \in Inputs \cup {NoInput}
    BY DEF Tries, TypeOK
  <2> QED BY <1>1, <2>1, <2>2, <2>3
<1>4. mailbox' \in Seq(Events) /\ SameVerdicts
  BY <1>3, EnqueueIfFacts DEF TypeOK, SameVerdicts
<1>5. accepted' \in Inputs \cup {NoInput}
  <2>1. next = Idle => next.at # "selected"
    BY DEF Idle
  <2>2. next \in Tries => next.at # "selected"
    BY DEF Tries, Trials
  <2> QED BY <1>2, <1>3, <2>1, <2>2 DEF TypeOK
<1>6. CASE next \in Tries
  <2>1. attempt' = [next EXCEPT !.tries = 1]
    BY <1>3, <1>6 DEF Tries, Trials
  <2>2. attempt' \in Tries
    BY <1>6, <2>1 DEF Tries
  <2> QED BY <1>4, <1>5, <2>2 DEF Attempts, Tries, Trials
<1>7. CASE next.at = "selected" \/ next = Idle
  <2>1. attempt' = [at |-> "start"] \/ attempt' = Idle
    BY <1>3, <1>7 DEF Idle, anotherAttempt
  <2> QED BY <1>4, <1>5, <2>1 DEF Attempts, Idle
<1> QED BY <1>2, <1>6, <1>7

\* The candidate of an attempt is a page the source serves, read where it had none.
Sound(seen) == seen <= revision /\ (seen = revision => source.page = NoPage)

\* attemptAcceptance and its trials, of which only commitInputs changes the store.
LEMMA AttemptFacts ==
    ASSUME TypeOK, Attempt
    PROVE  /\ attempt' \in Attempts /\ accepted' \in Inputs \cup {NoInput}
           /\ mailbox' \in Seq(Events) /\ SameVerdicts
           /\ attempt'.at \in {"check", "commit"} =>
                /\ UNCHANGED store
                /\ \/ attempt'.content[2] \in Pages /\ Sound(attempt'.seen)
                   \/ /\ attempt.at = "check"
                      /\ attempt'.content = attempt.content /\ attempt'.seen = attempt.seen
<1>1. CASE attemptAcceptance
  <2>1. /\ attempt' = [at |-> "observed", inputs |-> inputs, result |-> None, tries |-> 1, before |-> sequence]
        /\ UNCHANGED <<accepted, mailbox>>
    BY <1>1 DEF attemptAcceptance, coordinator
  <2>2. attempt' \in Tries
    BY <2>1 DEF Tries, TypeOK, Trials
  <2> QED BY <2>1, <2>2 DEF Attempts, Tries, TypeOK, SameVerdicts
<1>2. CASE renderCandidate
  <2>1. attempt \in Tries /\ attempt.at \in Trials /\ UNCHANGED store
    BY <1>2 DEF renderCandidate, TypeOK, Attempts, Candidates, Idle, Trials
  <2>2. CASE Withheld
    <3> DEFINE content == <<Trial(attempt), origin>>
    <3>1. /\ attempt' = [at |-> "check", trial |-> attempt, before |-> attempt.before,
                         content |-> content, seen |-> revision]
          /\ UNCHANGED <<accepted, mailbox>>
      BY <1>2, <2>2 DEF renderCandidate
    <3>2. content \in Contents /\ content[2] \in Pages /\ attempt.before \in Nat
      BY <2>1 DEF Contents, Trial, TypeOK, Tries
    <3> HIDE DEF content
    <3>3. attempt' \in Candidates /\ attempt'.content = content /\ attempt'.seen = revision
      BY <2>1, <3>1, <3>2 DEF Candidates, TypeOK
    <3>4. Sound(revision)
      BY <2>2 DEF Sound, Withheld, TypeOK
    <3> QED BY <2>1, <3>1, <3>2, <3>3, <3>4 DEF Attempts, TypeOK, SameVerdicts
  <2>3. CASE ~Withheld
    <3>1. endTrial(attempt, ~Unreadable /\ <<Trial(attempt), source.page>> \notin Bad)
      BY <1>2, <2>3 DEF renderCandidate
    <3> QED BY <2>1, <3>1, EndTrialFacts
  <2> QED BY <2>2, <2>3
<1>3. CASE checkRefused
  <2>1. attempt \in Candidates /\ attempt.at = "check" /\ attempt.trial \in Tries /\ UNCHANGED store
    BY <1>3 DEF checkRefused, TypeOK, Attempts, Candidates, Tries, Idle, Trials
  <2>2. CASE attempt.content \in Bad \cup Range(refused)
    <3>1. endTrial(attempt.trial, FALSE)
      BY <1>3, <2>2, Zenon DEF checkRefused
    <3> QED BY <2>1, <3>1, EndTrialFacts, Zenon
  <2>3. CASE attempt.content \notin Bad \cup Range(refused)
    <3>1. attempt' = [attempt EXCEPT !.at = "commit"] /\ UNCHANGED <<accepted, mailbox>>
      BY <1>3, <2>3 DEF checkRefused
    <3>2. attempt' \in Candidates /\ attempt'.content = attempt.content /\ attempt'.seen = attempt.seen
      BY <2>1, <3>1 DEF Candidates
    <3> QED BY <2>1, <3>1, <3>2 DEF Attempts, TypeOK, SameVerdicts
  <2> QED BY <2>2, <2>3
<1>4. CASE commitInputs
  <2>1. attempt \in Candidates /\ attempt.trial \in Tries
    BY <1>4 DEF commitInputs, TypeOK, Attempts, Candidates, Tries, Idle, Trials
  <2>2. CASE revision # attempt.seen /\ attempt.trial.tries < renderInputConflictAttempts
    <3> DEFINE n == attempt.trial.tries + 1
    <3>1. attempt' = [attempt.trial EXCEPT !.tries = n] /\ UNCHANGED <<accepted, mailbox>>
      BY <1>4, <2>2 DEF commitInputs
    <3>2. n \in Nat
      BY <2>1 DEF Tries
    <3> HIDE DEF n
    <3>3. attempt' \in Tries
      BY <2>1, <3>1, <3>2 DEF Tries
    <3> QED BY <3>1, <3>3 DEF Attempts, Tries, TypeOK, SameVerdicts, Trials
  <2>3. CASE ~(revision # attempt.seen /\ attempt.trial.tries < renderInputConflictAttempts)
    <3>1. endTrial(attempt.trial, revision = attempt.seen)
      BY <1>4, <2>3 DEF commitInputs
    <3> QED BY <2>1, <3>1, EndTrialFacts
  <2> QED BY <2>2, <2>3
<1> QED BY <1>1, <1>2, <1>3, <1>4 DEF Attempt

\* handlePipelineSuccess: the render is the newest and the baseline, the gate has it, and
\* its output root is that of the newest render or one nothing else has.
LEMMA PipelineFacts ==
    ASSUME TypeOK, handlePipelineSuccess
    PROVE  \E render \in Renders :
              /\ render.content = loop.result.content /\ render.observed \in {0, loop.result.revision}
              /\ loop.at = "render" /\ loop' = Idle
              /\ newest' = output(render) /\ output(render) \in Outputs
              /\ files' \in [accepted : {None} \cup Outputs, confirmed : {None} \cup Outputs]
              /\ files'.accepted = newest' /\ files'.confirmed = files.confirmed
              /\ unjudged' \in Seq(Renders) /\ render \in Range(unjudged')
              /\ Range(unjudged') \subseteq Range(unjudged) \cup {render}
              /\ output(render) = newest \/ render.root \notin RootsInUse
<1> DEFINE root == newRoot(loop.result.content)
<1>1. loop.at = "render" /\ loop.result \in Results
  BY DEF handlePipelineSuccess, TypeOK, Loops, Selections, Idle, Trials, AfterBase
<1>2. /\ root \in Roots
      /\ (newest # None /\ newest.content = loop.result.content /\ root = newest.root) \/ root \notin RootsInUse
  <2>1. CASE newest # None /\ newest.content = loop.result.content
    BY <2>1 DEF newRoot, TypeOK, Outputs
  <2>2. CASE ~(newest # None /\ newest.content = loop.result.content)
    <3>1. root = CHOOSE k \in Roots : k \notin RootsInUse
      BY <2>2 DEF newRoot
    <3>2. \E k \in Roots : k \notin RootsInUse
      BY DEF handlePipelineSuccess
    <3> HIDE DEF root
    <3> QED BY <3>1, <3>2
  <2> QED BY <2>1, <2>2
<1> HIDE DEF root
<1>3. PICK observed \in {0, loop.result.revision} :
         LET render == [content |-> loop.result.content, root |-> root, observed |-> observed, reached |-> sequence]
         IN  /\ newest' = output(render)
             /\ files' = [files EXCEPT !.accepted = output(render)]
             /\ unjudged' = Append(retainSuperseded, render)
  BY DEF handlePipelineSuccess, root
<1> DEFINE r == [content |-> loop.result.content, root |-> root, observed |-> observed, reached |-> sequence]
<1>4. /\ newest' = output(r) /\ files' = [files EXCEPT !.accepted = output(r)]
      /\ unjudged' = Append(retainSuperseded, r) /\ loop' = Idle
  BY <1>3 DEF handlePipelineSuccess
<1>5. r \in Renders /\ r.content = loop.result.content /\ r.observed = observed /\ r.root = root
  BY <1>1, <1>2 DEF Renders, Results, TypeOK
<1> HIDE DEF r
<1>6. output(r) \in Outputs /\ output(r).content = r.content /\ output(r).root = r.root
  BY <1>5 DEF Outputs, output, Renders
<1>7. /\ files' \in [accepted : {None} \cup Outputs, confirmed : {None} \cup Outputs]
      /\ files'.accepted = newest' /\ files'.confirmed = files.confirmed
  BY <1>4, <1>6 DEF TypeOK
<1>8. output(r) = newest \/ r.root \notin RootsInUse
  BY <1>2, <1>5, <1>6 DEF TypeOK, Outputs
<1>9. /\ unjudged' \in Seq(Renders) /\ r \in Range(unjudged')
      /\ Range(unjudged') \subseteq Range(unjudged) \cup {r}
  <2>1. CASE unjudged = <<>>
    <3>1. unjudged' = Append(<<>>, r)
      BY <1>4, <2>1 DEF retainSuperseded
    <3>2. unjudged' \in Seq(Renders) /\ DOMAIN unjudged' = 1 .. 1 /\ unjudged'[1] = r
      BY <1>5, <3>1
    <3> QED BY <3>2 DEF Range
  <2>2. CASE unjudged # <<>>
    <3> DEFINE l == unjudged[Len(unjudged)]
    <3>1. l \in Renders /\ Len(unjudged) \in DOMAIN unjudged
      BY <2>2 DEF TypeOK
    <3>2. unjudged' = Append(<<l>>, r)
      BY <1>4, <2>2 DEF retainSuperseded
    <3>3. l \in Range(unjudged)
      BY <3>1 DEF Range
    <3> HIDE DEF l
    <3>4. unjudged' \in Seq(Renders) /\ DOMAIN unjudged' = 1 .. 2 /\ unjudged'[1] = l /\ unjudged'[2] = r
      BY <1>5, <3>1, <3>2
    <3> QED BY <3>3, <3>4 DEF Range
  <2> QED BY <2>1, <2>2
<1> QED BY <1>1, <1>4, <1>5, <1>6, <1>7, <1>8, <1>9

\* handleRenderGateCompleted: what the verdict settles of the files.
LEMMA SettleFilesFacts ==
    ASSUME TypeOK, NEW v \in Verdicts, files' = settleCurrentFiles(v)
    PROVE  /\ files' \in [accepted : {None} \cup Outputs, confirmed : {None} \cup Outputs]
           /\ \/ files' = files /\ (~v.newest \/ files.accepted # output(v.render))
              \/ /\ v.ok /\ files'.accepted = files.accepted /\ files'.confirmed = files.accepted
                 /\ files.accepted = output(v.render)
              \/ ~v.ok /\ files'.accepted = files.confirmed /\ files'.confirmed = files.confirmed
<1>1. CASE ~v.newest \/ files.accepted # output(v.render)
  BY <1>1 DEF settleCurrentFiles, TypeOK
<1>2. CASE v.newest /\ files.accepted = output(v.render) /\ v.ok
  <2>1. files' = [files EXCEPT !.confirmed = files.accepted]
    BY <1>2 DEF settleCurrentFiles
  <2> QED BY <1>2, <2>1 DEF TypeOK
<1>3. CASE v.newest /\ files.accepted = output(v.render) /\ ~v.ok
  <2>1. files' = [files EXCEPT !.accepted = files.confirmed]
    BY <1>3 DEF settleCurrentFiles
  <2> QED BY <1>3, <2>1 DEF TypeOK
<1> QED BY <1>1, <1>2, <1>3

\* handleRenderGateCompleted: a pass confirms the version the render read and proves its
\* page; a refusal restores the predecessor of the page on trial, or changes nothing.
LEMMA GateFacts ==
    ASSUME TypeOK, OnTrial, handleRenderGateCompleted
    PROVE  \E v \in Verdicts :
              /\ v \in Range(mailbox) /\ files' = settleCurrentFiles(v)
              /\ mailbox' \in Seq(Events)
              /\ \A w : w.type = "verdict" /\ w \in Range(mailbox') => w \in Range(mailbox)
              /\ \A w : w.type = "verdict" /\ w \in Range(mailbox) => w = v \/ w \in Range(mailbox')
              /\ Typed
              /\ \/ /\ v.ok /\ source' = source /\ revision' = revision
                    /\ trial' = IF trial # None /\ trial.revision = v.render.observed THEN None ELSE trial
                 \/ ~v.ok /\ (Restored \/ (Same /\ source' = source))
              /\ proven' \in [pages : SUBSET Versions, revision : Nat]
              /\ \/ /\ v.ok /\ v.render.observed # 0 /\ proven'.revision = v.render.observed
                    /\ proven'.pages = proven.pages \cup {v.render.content[2]}
                 \/ proven' = proven /\ (~v.ok \/ v.render.observed = 0)
<1> DEFINE v == Head(mailbox)
<1>1. /\ mailbox # <<>> /\ v.type = "verdict" /\ mailbox \in Seq(Events)
      /\ mailbox' = revokedTrigger(Tail(mailbox)) /\ files' = settleCurrentFiles(v) /\ settleAcceptances(v)
      /\ proven' = IF v.ok /\ v.render.observed # 0
                   THEN [pages |-> proven.pages \cup {v.render.content[2]}, revision |-> v.render.observed]
                   ELSE proven
  BY DEF handleRenderGateCompleted, TypeOK
<1>2. /\ Tail(mailbox) \in Seq(Events) /\ v \in Events /\ v \in Range(mailbox)
      /\ Range(Tail(mailbox)) \subseteq Range(mailbox) /\ Range(mailbox) \subseteq Range(Tail(mailbox)) \cup {v}
  BY <1>1, TailFacts
<1> HIDE DEF v
<1>3. v \in Verdicts
  BY <1>1, <1>2 DEF Events, Trigger, AcceptanceRequested
<1>4. /\ mailbox' \in Seq(Events)
      /\ \A w : w.type = "verdict" => (w \in Range(mailbox') <=> w \in Range(Tail(mailbox)))
  BY <1>1, <1>2, EnqueueIfFacts, Zenon DEF revokedTrigger
<1>5. CASE v.ok
  <2>1. ConfirmAcceptances(v.render.observed)
    BY <1>1, <1>5 DEF settleAcceptances
  <2>2. /\ source' = source /\ revision' = revision /\ sequence' = sequence
        /\ trial' = IF trial # None /\ trial.revision = v.render.observed THEN None ELSE trial
    BY <2>1 DEF ConfirmAcceptances
  <2>3. Typed
    BY <2>2 DEF Typed, TypeOK
  <2>4. /\ proven' \in [pages : SUBSET Versions, revision : Nat]
        /\ \/ /\ v.ok /\ v.render.observed # 0 /\ proven'.revision = v.render.observed
              /\ proven'.pages = proven.pages \cup {v.render.content[2]}
           \/ proven' = proven /\ v.render.observed = 0
    <3>1. v.render \in Renders /\ v.render.content[2] \in Versions /\ v.render.observed \in Nat
      BY <1>3 DEF Verdicts, Renders, Contents, Versions
    <3> QED BY <1>1, <1>5, <3>1 DEF TypeOK
  <2> QED BY <1>1, <1>2, <1>3, <1>4, <1>5, <2>2, <2>3, <2>4
<1>6. CASE ~v.ok
  <2>1. RevokeAcceptances(v.render.reached)
    BY <1>1, <1>6 DEF settleAcceptances
  <2>2. Typed /\ (Restored \/ (Same /\ source' = source))
    BY <2>1, RevokeFacts
  <2>3. proven' = proven /\ proven \in [pages : SUBSET Versions, revision : Nat]
    BY <1>1, <1>6 DEF TypeOK
  <2> QED BY <1>1, <1>2, <1>3, <1>4, <1>6, <2>2, <2>3
<1> QED BY <1>5, <1>6

\* The refresh of the page and its validation: only a promotion moves the store.
LEMMA RefreshFacts ==
    ASSUME TypeOK, OnTrial, Refresh
    PROVE  /\ Typed /\ (Same \/ Accepts)
           /\ mailbox' \in Seq(Events) /\ SameVerdicts
           /\ UNCHANGED <<inputs, accepted, origin, loop, attempt, files, newest, unjudged, proven>>
<1>1. CASE refreshURL
  <2>1. \E k \in PendingRevisions : k \notin InUse
    BY <1>1 DEF refreshURL
  <2>2. nextPendingRevision \in Nat
    BY <2>1, NamesAssumption, Zenon DEF nextPendingRevision
  <2> DEFINE k == nextPendingRevision
  <2>3. /\ source' = [source EXCEPT !.pending = origin, !.id = k]
        /\ UNCHANGED <<revision, trial, sequence, inputs, accepted, origin, mailbox, loop, attempt, files,
                       newest, unjudged, proven>>
    BY <1>1 DEF refreshURL, coordinator, worker, gate
  <2> HIDE DEF k
  <2>4. source' \in Sources /\ source'.page = source.page /\ source'.revision = source.revision
    BY <2>2, <2>3, Zenon DEF TypeOK, Sources, Versions, k
  <2> QED BY <2>3, <2>4 DEF Typed, Same, TypeOK, SameVerdicts
<1>2. source \in Sources /\ WithoutPending \in Sources
      /\ WithoutPending.page = source.page /\ WithoutPending.revision = source.revision
  BY Zenon DEF TypeOK, WithoutPending, Sources, Versions
<1>3. CASE abandonStuckValidation
  <2>1. /\ source' = WithoutPending
        /\ UNCHANGED <<revision, trial, sequence, inputs, accepted, origin, mailbox, loop, attempt, files,
                       newest, unjudged, proven>>
    BY <1>3 DEF abandonStuckValidation, rejectPending, coordinator, worker, gate
  <2> QED BY <1>2, <2>1 DEF Typed, Same, TypeOK, SameVerdicts
<1>4. CASE triggerProposalValidation
  <2>1. /\ source' \in {source, WithoutPending}
        /\ mailbox' = mailbox \/ \E c : mailbox' = enqueueIf(c, mailbox, Trigger)
        /\ UNCHANGED <<revision, trial, sequence, inputs, accepted, origin, loop, attempt, files,
                       newest, unjudged, proven>>
    BY <1>4 DEF triggerProposalValidation, worker, gate
  <2>2. mailbox' \in Seq(Events) /\ SameVerdicts
    BY <2>1, EnqueueIfFacts DEF TypeOK, SameVerdicts
  <2> QED BY <1>2, <2>1, <2>2 DEF Typed, Same, TypeOK
<1>5. CASE \E p \in proposals : validate(p) \/ loseVerdict(p)
  <2>1. UNCHANGED <<source, revision, trial, sequence, inputs, accepted, origin, mailbox, loop, attempt, files,
                    newest, unjudged, proven>>
    BY <1>5 DEF validate, loseVerdict, store, coordinator, worker, gate
  <2> QED BY <2>1 DEF Typed, Same, TypeOK, SameVerdicts
<1>6. ASSUME NEW p \in proposals, handleProposalValidationCompleted(p)
      PROVE  /\ Typed /\ (Same \/ Accepts)
             /\ mailbox' \in Seq(Events) /\ SameVerdicts
             /\ UNCHANGED <<inputs, accepted, origin, loop, attempt, files, newest, unjudged, proven>>
  <2>1. /\ UNCHANGED <<inputs, accepted, origin, loop, attempt, files, newest, unjudged, proven>>
        /\ mailbox' = mailbox \/ \E c : mailbox' = enqueueIf(c, mailbox, Trigger)
        /\ promotePending \/ rejectPending \/ UNCHANGED <<source, revision, trial, sequence>>
    BY <1>6 DEF handleProposalValidationCompleted, worker, gate
  <2>2. mailbox' \in Seq(Events) /\ SameVerdicts
    BY <2>1, EnqueueIfFacts DEF TypeOK, SameVerdicts
  <2>3. CASE promotePending
    BY <2>1, <2>2, <2>3, PromoteFacts
  <2>4. CASE rejectPending \/ UNCHANGED <<source, revision, trial, sequence>>
    BY <1>2, <2>1, <2>2, <2>4 DEF rejectPending, Typed, Same, TypeOK
  <2> QED BY <2>1, <2>3, <2>4
<1> QED BY <1>1, <1>3, <1>4, <1>5, <1>6 DEF Refresh

\* publishVerdict: the verdict on a render takes the render's place.
LEMMA VerdictFacts ==
    ASSUME TypeOK, NEW n \in DOMAIN unjudged, publishVerdict(n)
    PROVE  \E r \in Renders :
              /\ r \in Range(unjudged) /\ Verdict(r) \in Verdicts
              /\ mailbox' \in Seq(Events) /\ unjudged' \in Seq(Renders)
              /\ Range(mailbox') \subseteq Range(mailbox) \cup {Verdict(r)}
              /\ Range(mailbox) \cup {Verdict(r)} \subseteq Range(mailbox')
              /\ Range(unjudged') \subseteq Range(unjudged) /\ Range(unjudged) \subseteq Range(unjudged') \cup {r}
<1> DEFINE r == unjudged[n]
<1>1. /\ unjudged' \in Seq(Renders) /\ r \in Renders /\ r \in Range(unjudged)
      /\ Range(unjudged') \subseteq Range(unjudged) /\ Range(unjudged) \subseteq Range(unjudged') \cup {r}
  <2>1. unjudged \in Seq(Renders) /\ unjudged' = Without(unjudged, n)
    BY DEF publishVerdict, Without, TypeOK
  <2> QED BY <2>1, RemoveFacts
<1>2. mailbox' = enqueue(mailbox, Verdict(r))
  BY DEF publishVerdict
<1> HIDE DEF r
<1> DEFINE ok == r.content \notin Refused  nw == newest # None /\ r.content = newest.content
<1>3. ok \in BOOLEAN /\ nw \in BOOLEAN /\ Verdict(r) = [type |-> "verdict", render |-> r, ok |-> ok, newest |-> nw]
  BY DEF Verdict
<1> HIDE DEF ok, nw
<1>4. Verdict(r) \in Verdicts
  BY <1>1, <1>3 DEF Verdicts
<1>5. Verdict(r) # Trigger
  BY <1>4 DEF Verdicts, Trigger
<1> DEFINE v == Verdict(r)
<1>6. v \in Events /\ v # Trigger /\ v \in Verdicts
  BY <1>4, <1>5 DEF Events
<1> HIDE DEF v
<1>7. /\ enqueue(mailbox, v) \in Seq(Events)
      /\ Range(mailbox) \subseteq Range(enqueue(mailbox, v)) /\ v \in Range(enqueue(mailbox, v))
      /\ Range(enqueue(mailbox, v)) \subseteq Range(mailbox) \cup {v}
  BY <1>6, EnqueueFacts DEF TypeOK
<1> QED BY <1>1, <1>2, <1>6, <1>7 DEF v

\* The world moves, or the loop takes an event, and the store stays as it is.
Outside ==
    \/ handleReconciliationTriggered \/ captureChanges \/ requestAcceptanceAttempt
    \/ handleResourceChange \/ changePage \/ handleDriftPrevention

\* What arrives from outside (events, ticks, edits) touches neither the store nor the
\* baseline, and adds no verdict.
LEMMA OutsideFacts ==
    ASSUME TypeOK, Outside
    PROVE  /\ UNCHANGED <<source, revision, trial, sequence, files, newest, unjudged, proven, accepted>>
           /\ inputs' \in Inputs /\ origin' \in Pages
           /\ loop' \in Loops /\ (loop' = loop \/ loop'.at \notin AfterBase \cup {"render"})
           /\ attempt' \in Attempts /\ (attempt' = attempt \/ attempt'.at \notin {"check", "commit"})
           /\ mailbox' \in Seq(Events) /\ SameVerdicts
<1>1. CASE handleReconciliationTriggered \/ requestAcceptanceAttempt
  <2>1. /\ mailbox # <<>> /\ mailbox' = Tail(mailbox) /\ Head(mailbox) \in {Trigger, AcceptanceRequested}
        /\ UNCHANGED <<source, revision, trial, sequence, files, newest, unjudged, proven, accepted, inputs, origin>>
        /\ loop' = loop \/ loop' = [at |-> "start"]
        /\ attempt' = attempt \/ attempt' = [at |-> "start"]
    BY <1>1 DEF handleReconciliationTriggered, requestAcceptanceAttempt, store, worker, gate
  <2>2. Head(mailbox).type # "verdict"
    BY <2>1 DEF Trigger, AcceptanceRequested
  <2>3. /\ mailbox' \in Seq(Events) /\ Range(mailbox') \subseteq Range(mailbox)
        /\ Range(mailbox) \subseteq Range(mailbox') \cup {Head(mailbox)}
    BY <2>1, TailFacts DEF TypeOK
  <2>4. SameVerdicts
    BY <2>2, <2>3 DEF SameVerdicts
  <2> QED BY <2>1, <2>3, <2>4 DEF TypeOK, Loops, Attempts, Trials, AfterBase
<1>2. CASE captureChanges
  <2>1. /\ loop' = [at |-> "observed", inputs |-> inputs, result |-> None]
        /\ UNCHANGED <<source, revision, trial, sequence, files, newest, unjudged, proven, accepted, inputs, origin,
                       mailbox, attempt>>
    BY <1>2 DEF captureChanges, store, worker, gate
  <2>2. loop' \in Loops /\ loop'.at = "observed"
    BY <2>1 DEF Loops, Selections, TypeOK, Trials, AfterBase
  <2> QED BY <2>1, <2>2 DEF TypeOK, SameVerdicts, Trials, AfterBase
<1>3. CASE handleResourceChange \/ handleDriftPrevention
  <2>1. /\ mailbox' = enqueueIf(TRUE, mailbox, Trigger) /\ inputs' \in Inputs
        /\ UNCHANGED <<source, revision, trial, sequence, files, newest, unjudged, proven, accepted, origin, loop, attempt>>
    BY <1>3 DEF handleResourceChange, handleDriftPrevention, enqueueIf, store, worker, gate, TypeOK
  <2>2. mailbox' \in Seq(Events) /\ SameVerdicts
    BY <2>1, EnqueueIfFacts, Zenon DEF TypeOK, SameVerdicts
  <2> QED BY <2>1, <2>2, Zenon DEF TypeOK
<1>4. CASE changePage
  <2>1. /\ origin' \in Pages
        /\ UNCHANGED <<source, revision, trial, sequence, files, newest, unjudged, proven, accepted, inputs, mailbox,
                       loop, attempt>>
    BY <1>4 DEF changePage, store, worker, gate, coordinator
  <2> QED BY <2>1 DEF TypeOK, SameVerdicts
<1> QED BY <1>1, <1>2, <1>3, <1>4 DEF Outside

\* The steps, as the proofs below tell them apart.
LEMMA Steps ==
    ASSUME Next
    PROVE  \/ Outside \/ Execute \/ handlePipelineSuccess \/ handleRenderGateCompleted \/ Attempt \/ Refresh
           \/ (\E n \in DOMAIN unjudged : publishVerdict(n)) \/ newTerm
  BY DEF Next, Loop, World, Outside

\* What a trial of the attempt, its acceptance and a render of the loop leave alone.
LEMMA AttemptKeeps ==
    ASSUME TypeOK, Current, Attempt
    PROVE  /\ Typed /\ (Same \/ Accepts)
           /\ UNCHANGED <<inputs, origin, loop, files, newest, unjudged, proven>>
<1>1. CASE attemptAcceptance \/ renderCandidate \/ checkRefused
  <2>1. UNCHANGED <<source, revision, trial, sequence, inputs, origin, loop, files, newest, unjudged, proven>>
    BY <1>1, Zenon DEF attemptAcceptance, renderCandidate, checkRefused, store, gate, coordinator
  <2> QED BY <2>1 DEF Typed, Same, TypeOK
<1>2. CASE commitInputs
  <2>1. UNCHANGED <<inputs, origin, loop, files, newest, unjudged, proven>>
    BY <1>2 DEF commitInputs, gate
  <2> QED BY <1>2, <2>1, CommitFacts
<1> QED BY <1>1, <1>2 DEF Attempt

\* coordinator.go execute: the store, the baseline and the gate are left alone.
LEMMA ExecuteKeeps ==
    ASSUME Execute
    PROVE  UNCHANGED <<source, revision, trial, sequence, inputs, origin, attempt, files, newest, unjudged, proven>>
  BY DEF Execute, store, worker, gate

\* coordinator.go handlePipelineSuccess: the store and the mailbox are left alone.
LEMMA PipelineKeeps ==
    ASSUME handlePipelineSuccess
    PROVE  UNCHANGED <<source, revision, trial, sequence, inputs, accepted, origin, mailbox, attempt, proven>>
  BY DEF handlePipelineSuccess, store, worker

\* coordinator.go handleRenderGateCompleted: the loop and the gate are left alone.
LEMMA GateKeeps ==
    ASSUME handleRenderGateCompleted
    PROVE  UNCHANGED <<inputs, accepted, origin, loop, attempt, newest, unjudged>>
  BY DEF handleRenderGateCompleted, worker, gate

\* The gate's verdict on a render touches nothing but the mailbox and the gate.
LEMMA VerdictKeeps ==
    ASSUME NEW n \in DOMAIN unjudged, publishVerdict(n)
    PROVE  UNCHANGED <<source, revision, trial, sequence, inputs, accepted, origin, loop, attempt, files, newest, proven>>
  BY DEF publishVerdict, store, worker

\* newTerm: the ledger, the baseline and the gate start afresh, the store does not.
LEMMA TermFacts ==
    ASSUME newTerm
    PROVE  /\ mailbox' = <<Trigger>> /\ loop' = Idle /\ attempt' = Idle /\ files' = NoFiles
           /\ newest' = None /\ unjudged' = <<>>
           /\ UNCHANGED <<source, revision, trial, sequence, inputs, accepted, origin, proven>>
           /\ \A v \in Range(mailbox') : v.type # "verdict"
           /\ Range(unjudged') = {}
<1>1. /\ mailbox' = <<Trigger>> /\ loop' = Idle /\ attempt' = Idle /\ files' = NoFiles
      /\ newest' = None /\ unjudged' = <<>>
      /\ UNCHANGED <<source, revision, trial, sequence, inputs, accepted, origin, proven>>
  BY DEF newTerm, store
<1>2. \A v \in Range(mailbox') : v.type # "verdict"
  BY <1>1 DEF Range, Trigger
<1>3. Range(unjudged') = {}
  BY <1>1 DEF Range
<1> QED BY <1>1, <1>2, <1>3

-----------------------------------------------------------------------------
(* The invariant is kept *)

\* Every step keeps the types.
LEMMA TypeStep ==
    ASSUME TypeOK, Current, OnTrial, Next
    PROVE  TypeOK'
<1>1. CASE Outside
  BY <1>1, OutsideFacts DEF TypeOK
<1>2. CASE Execute
  <2>1. loop' \in Loops /\ accepted' \in Inputs \cup {NoInput} /\ mailbox' \in Seq(Events)
    BY <1>2, ExecuteFacts
  <2> QED BY <1>2, <2>1, ExecuteKeeps DEF TypeOK
<1>3. CASE handlePipelineSuccess
  <2>1. /\ newest' \in {None} \cup Outputs /\ unjudged' \in Seq(Renders) /\ loop' = Idle
        /\ files' \in [accepted : {None} \cup Outputs, confirmed : {None} \cup Outputs]
    BY <1>3, PipelineFacts
  <2> QED BY <1>3, <2>1, PipelineKeeps DEF TypeOK, Loops
<1>4. CASE handleRenderGateCompleted
  <2>1. PICK v \in Verdicts :
           /\ files' = settleCurrentFiles(v) /\ mailbox' \in Seq(Events) /\ Typed
           /\ proven' \in [pages : SUBSET Versions, revision : Nat]
    BY <1>4, GateFacts, Zenon
  <2>2. files' \in [accepted : {None} \cup Outputs, confirmed : {None} \cup Outputs]
    BY <2>1, SettleFilesFacts
  <2> QED BY <1>4, <2>1, <2>2, GateKeeps DEF TypeOK, Typed
<1>5. CASE Attempt
  <2>1. attempt' \in Attempts /\ accepted' \in Inputs \cup {NoInput} /\ mailbox' \in Seq(Events)
    BY <1>5, AttemptFacts
  <2> QED BY <1>5, <2>1, AttemptKeeps DEF TypeOK, Typed
<1>6. CASE Refresh
  BY <1>6, RefreshFacts DEF TypeOK, Typed
<1>7. CASE \E n \in DOMAIN unjudged : publishVerdict(n)
  BY <1>7, VerdictFacts, VerdictKeeps DEF TypeOK
<1>8. CASE newTerm
  <2>1. <<Trigger>> \in Seq(Events) /\ <<>> \in Seq(Renders)
    BY DEF Events
  <2>2. NoFiles \in [accepted : {None} \cup Outputs, confirmed : {None} \cup Outputs]
    BY DEF NoFiles
  <2> QED BY <1>8, <2>1, <2>2, TermFacts, Zenon DEF TypeOK, Loops, Attempts
<1> QED BY <1>1, <1>2, <1>3, <1>4, <1>5, <1>6, <1>7, <1>8, Steps

\* What the renders in flight have read stays what the source had at that version.
LEMMA CurrentStep ==
    ASSUME TypeOK, TypeOK', Current, OnTrial, Next
    PROVE  Current'
<1> DEFINE Moves == \/ source'.page = source.page /\ source'.revision = source.revision /\ revision' = revision
                    \/ revision' = revision + 1 /\ source'.revision \in {0, revision + 1}
           Kept(content, rev) == /\ rev <= revision'
                                 /\ rev # 0 /\ rev = source'.revision => content[2] = source'.page
<1>1. /\ revision \in Nat /\ source.revision \in Nat
      /\ \A r \in Range(unjudged) : r.observed \in Nat
      /\ \A v \in Range(mailbox) : v.type = "verdict" => v.render.observed \in Nat
      /\ loop.at \in AfterBase \cup {"render"} => loop.result.revision \in Nat
      /\ attempt.at \in {"check", "commit"} => attempt.seen \in Nat
  <2>1. revision \in Nat /\ source.revision \in Nat
    BY DEF TypeOK, Sources
  <2>2. \A r \in Range(unjudged) : r \in Renders
    BY DEF TypeOK, Range
  <2>3. \A v \in Range(mailbox) : v \in Events
    BY DEF TypeOK, Range
  <2>4. \A v \in Range(mailbox) : v.type = "verdict" => v \in Verdicts
    BY <2>3 DEF Events, Trigger, AcceptanceRequested
  <2>5. loop.at \in AfterBase \cup {"render"} => loop.result.revision \in Nat
    BY DEF TypeOK, Loops, Selections, Results, Idle, Trials, AfterBase
  <2>6. attempt.at \in {"check", "commit"} => attempt.seen \in Nat
    BY DEF TypeOK, Attempts, Candidates, Tries, Idle, Trials
  <2> QED BY <2>1, <2>2, <2>4, <2>5, <2>6 DEF Renders, Verdicts
<1>2. ASSUME Moves
      PROVE  /\ source'.revision <= revision'
             /\ \A content : \A rev \in Nat : Read(content, rev) => Kept(content, rev)
             /\ \A seen \in Nat : Sound(seen) => seen <= revision' /\ (seen = revision' => source'.page = NoPage)
  BY <1>1, <1>2 DEF Read, Sound, Current
<1>3. ASSUME Moves,
             loop'.at \in AfterBase \cup {"render"} =>
                loop' = loop \/ Kept(loop'.result.content, loop'.result.revision),
             \A r \in Range(unjudged') : r \in Range(unjudged) \/ Kept(r.content, r.observed),
             \A v \in Range(mailbox') : v.type = "verdict" =>
                v \in Range(mailbox) \/ Kept(v.render.content, v.render.observed),
             attempt'.at \in {"check", "commit"} =>
                \/ attempt' = attempt
                \/ /\ attempt'.content[2] \in Pages /\ attempt'.seen <= revision'
                   /\ attempt'.seen = revision' => source'.page = NoPage
      PROVE  Current'
  <2>1. loop'.at \in AfterBase \cup {"render"} => Kept(loop'.result.content, loop'.result.revision)
    BY <1>1, <1>2, <1>3 DEF Current
  <2>2. \A r \in Range(unjudged') : Kept(r.content, r.observed)
    BY <1>1, <1>2, <1>3 DEF Current
  <2>3. \A v \in Range(mailbox') : v.type = "verdict" => Kept(v.render.content, v.render.observed)
    BY <1>1, <1>2, <1>3 DEF Current
  <2>4. attempt'.at \in {"check", "commit"} =>
           /\ attempt'.content[2] \in Pages /\ attempt'.seen <= revision'
           /\ attempt'.seen = revision' => source'.page = NoPage
    BY <1>1, <1>2, <1>3 DEF Current, Sound
  <2> QED BY <1>2, <1>3, <2>1, <2>2, <2>3, <2>4 DEF Current, Read
<1> HIDE DEF Kept
<1>4. Same \/ Accepts \/ Restored => Moves
  BY DEF Same, Accepts, Restored
<1>5. CASE Outside
  BY <1>3, <1>5, OutsideFacts DEF Same, SameVerdicts
<1>6. CASE Execute
  <2>1. Moves /\ SameVerdicts /\ UNCHANGED <<attempt, unjudged>>
    BY <1>6, ExecuteFacts, ExecuteKeeps DEF Same
  <2>2. ASSUME loop'.at \in AfterBase \cup {"render"} PROVE Kept(loop'.result.content, loop'.result.revision)
    <3>1. \/ loop'.result.content[2] = source.page /\ loop'.result.revision = source.revision
          \/ loop.at \in AfterBase /\ loop'.result = loop.result
      BY <1>6, <2>2, ExecuteFacts
    <3>2. UNCHANGED <<source, revision>>
      BY <1>6, ExecuteKeeps
    <3>3. source.revision <= revision /\ (loop.at \in AfterBase => Read(loop.result.content, loop.result.revision))
      BY DEF Current
    <3> QED BY <3>1, <3>2, <3>3 DEF Kept, Read
  <2> QED BY <1>3, <2>1, <2>2 DEF SameVerdicts
<1>7. CASE handlePipelineSuccess
  <2>1. Same /\ UNCHANGED <<source, revision, mailbox, attempt>>
    BY <1>7, PipelineKeeps DEF Same
  <2>2. PICK r \in Renders :
           /\ r.content = loop.result.content /\ r.observed \in {0, loop.result.revision} /\ loop.at = "render"
           /\ loop' = Idle /\ Range(unjudged') \subseteq Range(unjudged) \cup {r}
    BY <1>7, PipelineFacts, Zenon
  <2>3. Kept(r.content, r.observed)
    BY <1>1, <2>1, <2>2 DEF Kept, Current, Read
  <2>4. loop'.at \notin AfterBase \cup {"render"}
    BY <2>2 DEF Idle, AfterBase
  <2> QED BY <1>3, <2>1, <2>2, <2>3, <2>4
<1>8. CASE handleRenderGateCompleted
  <2>1. UNCHANGED <<loop, attempt, unjudged>>
    BY <1>8, GateKeeps
  <2>2. /\ \A w : w.type = "verdict" /\ w \in Range(mailbox') => w \in Range(mailbox)
        /\ (source' = source /\ revision' = revision) \/ Restored \/ Same
    BY <1>8, GateFacts
  <2>3. Moves
    BY <1>4, <2>2
  <2> QED BY <1>3, <2>1, <2>2, <2>3
<1>9. CASE Attempt
  <2>1. Moves /\ UNCHANGED <<loop, unjudged>>
    BY <1>4, <1>9, AttemptKeeps
  <2>2. SameVerdicts
    BY <1>9, AttemptFacts
  <2>3. ASSUME attempt'.at \in {"check", "commit"}
        PROVE  /\ attempt'.content[2] \in Pages /\ attempt'.seen <= revision'
               /\ attempt'.seen = revision' => source'.page = NoPage
    <3>1. /\ UNCHANGED store
          /\ \/ attempt'.content[2] \in Pages /\ Sound(attempt'.seen)
             \/ /\ attempt.at = "check"
                /\ attempt'.content = attempt.content /\ attempt'.seen = attempt.seen
      BY <1>9, <2>3, AttemptFacts
    <3>2. attempt.at = "check" => attempt.content[2] \in Pages /\ Sound(attempt.seen)
      BY DEF Current, Sound
    <3> QED BY <3>1, <3>2 DEF store, Sound
  <2> QED BY <1>3, <2>1, <2>2, <2>3 DEF SameVerdicts
<1>10. CASE Refresh
  BY <1>3, <1>4, <1>10, RefreshFacts DEF SameVerdicts
<1>11. CASE \E n \in DOMAIN unjudged : publishVerdict(n)
  <2>1. Same /\ UNCHANGED <<source, revision, loop, attempt>>
    BY <1>11, VerdictKeeps DEF Same
  <2>2. PICK r \in Renders :
           /\ r \in Range(unjudged) /\ Range(mailbox') \subseteq Range(mailbox) \cup {Verdict(r)}
           /\ Range(unjudged') \subseteq Range(unjudged)
    BY <1>11, VerdictFacts
  <2>3. Verdict(r).render = r /\ Kept(r.content, r.observed)
    BY <2>1, <2>2 DEF Verdict, Kept, Current, Read
  <2> QED BY <1>3, <2>1, <2>2, <2>3
<1>12. CASE newTerm
  <2>1. Same /\ loop'.at = "idle" /\ attempt'.at = "idle"
    BY <1>12, TermFacts DEF Same, Idle
  <2> QED BY <1>3, <1>12, <2>1, TermFacts DEF AfterBase
<1> QED BY <1>5, <1>6, <1>7, <1>8, <1>9, <1>10, <1>11, <1>12, Steps

\* A version is on trial until a render that read it passes, and what its trial would
\* restore is proven, through acceptances, promotions, confirmations and revocations.
LEMMA OnTrialStep ==
    ASSUME TypeOK, TypeOK', Current, OnTrial, RestoresProven, Next
    PROVE  OnTrial' /\ RestoresProven'
<1>1. revision \in Nat /\ source.revision \in Nat /\ proven.revision \in Nat
  BY DEF TypeOK, Sources
<1>2. ASSUME Same, proven' = proven
      PROVE  OnTrial' /\ RestoresProven'
  BY <1>2 DEF Same, OnTrial, RestoresProven
<1>3. ASSUME Accepts, proven' = proven
      PROVE  OnTrial' /\ RestoresProven'
  BY <1>1, <1>3 DEF Accepts, OnTrial, RestoresProven
<1>4. CASE Outside
  BY <1>2, <1>4, OutsideFacts DEF Same
<1>5. CASE Execute
  BY <1>2, <1>5, ExecuteKeeps DEF Same
<1>6. CASE handlePipelineSuccess
  BY <1>2, <1>6, PipelineKeeps DEF Same
<1>7. CASE handleRenderGateCompleted
  <2>1. PICK v \in Verdicts :
           /\ v \in Range(mailbox)
           /\ \/ /\ v.ok /\ source' = source /\ revision' = revision
                 /\ trial' = IF trial # None /\ trial.revision = v.render.observed THEN None ELSE trial
              \/ ~v.ok /\ (Restored \/ (Same /\ source' = source))
           /\ \/ /\ v.ok /\ v.render.observed # 0 /\ proven'.revision = v.render.observed
                 /\ proven'.pages = proven.pages \cup {v.render.content[2]}
              \/ proven' = proven /\ (~v.ok \/ v.render.observed = 0)
    BY <1>7, GateFacts, Zenon
  <2> DEFINE o == v.render.observed  page == v.render.content[2]
  <2>2. o <= revision /\ (o # 0 /\ o = source.revision => page = source.page)
    BY <2>1 DEF Current, Read, Verdicts
  <2> HIDE DEF o, page
  <2>3. CASE /\ source' = source /\ revision' = revision
             /\ trial' = IF trial # None /\ trial.revision = o THEN None ELSE trial
             /\ \/ o # 0 /\ proven'.revision = o /\ proven'.pages = proven.pages \cup {page}
                \/ proven' = proven /\ o = 0
    <3>1. CASE o # 0 /\ proven'.revision = o /\ proven'.pages = proven.pages \cup {page}
      BY <1>1, <2>2, <2>3, <3>1 DEF OnTrial, RestoresProven
    <3>2. CASE proven' = proven /\ o = 0
      BY <1>1, <2>3, <3>2 DEF OnTrial, RestoresProven
    <3> QED BY <2>3, <3>1, <3>2
  <2>4. CASE Restored /\ proven' = proven
    BY <1>1, <2>4 DEF Restored, OnTrial, RestoresProven
  <2>5. CASE Same /\ proven' = proven
    BY <1>2, <2>5
  <2> QED BY <2>1, <2>3, <2>4, <2>5 DEF o, page
<1>8. CASE Attempt
  BY <1>2, <1>3, <1>8, AttemptKeeps
<1>9. CASE Refresh
  BY <1>2, <1>3, <1>9, RefreshFacts
<1>10. CASE \E n \in DOMAIN unjudged : publishVerdict(n)
  BY <1>2, <1>10, VerdictKeeps DEF Same
<1>11. CASE newTerm
  BY <1>2, <1>11, TermFacts DEF Same
<1> QED BY <1>4, <1>5, <1>6, <1>7, <1>8, <1>9, <1>10, <1>11, Steps

\* The renders whose verdict is on its way are those the gate holds and those the
\* mailbox holds a verdict on.
LEMMA UnsettledFacts ==
    /\ \A out : Unsettled(out) <=>
          \/ \E r \in Range(unjudged) : output(r) = out
          \/ \E v \in Range(mailbox) : v.type = "verdict" /\ output(v.render) = out
    /\ \A out : Unsettled(out)' <=>
          \/ \E r \in Range(unjudged') : output(r) = out
          \/ \E v \in Range(mailbox') : v.type = "verdict" /\ output(v.render) = out
    /\ \A v \in Range(mailbox) : v.type = "verdict" => v.render.root \in RootsInUse
  BY DEF Unsettled, Range, RootsInUse

\* The baseline stays the output of a render that passed, or of the newest one with its
\* verdict on its way.
LEMMA BaselineStep ==
    ASSUME TypeOK, TypeOK', OnTrial, Current, Baseline, RefusedBaselineIsLeft, Next
    PROVE  Baseline' /\ RefusedBaselineIsLeft'
<1>1. ASSUME files' = files, newest' = newest, unjudged' = unjudged, SameVerdicts
      PROVE  Baseline' /\ RefusedBaselineIsLeft'
  <2>1. Baseline'
    BY <1>1 DEF Baseline, SameVerdicts, output
  <2>2. RefusedBaselineIsLeft'
    BY <1>1, UnsettledFacts DEF RefusedBaselineIsLeft, SameVerdicts
  <2> QED BY <2>1, <2>2
<1>2. CASE Outside
  BY <1>1, <1>2, OutsideFacts
<1>3. CASE Execute
  BY <1>1, <1>3, ExecuteFacts, ExecuteKeeps
<1>4. CASE handlePipelineSuccess
  <2>1. PICK r \in Renders :
           /\ newest' = output(r) /\ files'.accepted = newest' /\ files'.confirmed = files.confirmed
           /\ r \in Range(unjudged') /\ (output(r) = newest \/ r.root \notin RootsInUse)
    BY <1>4, PipelineFacts, Zenon
  <2>2. mailbox' = mailbox
    BY <1>4, PipelineKeeps
  <2>3. RefusedBaselineIsLeft'
    BY <2>1, UnsettledFacts DEF RefusedBaselineIsLeft
  <2>4. ASSUME NEW v \in Range(mailbox), v.type = "verdict", output(v.render) = output(r)
        PROVE  v.newest
    <3>1. v.render.root = r.root
      BY <2>4 DEF output
    <3>2. v.render.root \in RootsInUse
      BY <2>4, UnsettledFacts
    <3> QED BY <2>1, <2>4, <3>1, <3>2 DEF Baseline
  <2>5. Baseline'
    BY <2>1, <2>2, <2>4 DEF Baseline, output
  <2> QED BY <2>3, <2>5
<1>5. CASE handleRenderGateCompleted
  <2>1. PICK v \in Verdicts :
           /\ v \in Range(mailbox) /\ files' = settleCurrentFiles(v)
           /\ \A w : w.type = "verdict" /\ w \in Range(mailbox') => w \in Range(mailbox)
           /\ \A w : w.type = "verdict" /\ w \in Range(mailbox) => w = v \/ w \in Range(mailbox')
    BY <1>5, GateFacts, Zenon
  <2>2. /\ UNCHANGED <<newest, unjudged>>
        /\ v.ok <=> v.render.content \notin Refused
        /\ output(v.render) = newest => v.newest
        /\ output(v.render).content = v.render.content
    BY <1>5, <2>1, GateKeeps DEF Baseline, Verdicts, output
  <2>3. \/ files' = files /\ (~v.newest \/ files.accepted # output(v.render))
        \/ /\ v.ok /\ files'.accepted = files.accepted /\ files'.confirmed = files.accepted
           /\ files.accepted = output(v.render)
        \/ ~v.ok /\ files'.accepted = files.confirmed /\ files'.confirmed = files.confirmed
    BY <2>1, SettleFilesFacts
  <2>4. CASE files' = files /\ (~v.newest \/ files.accepted # output(v.render))
    <3>1. Baseline'
      BY <2>1, <2>2, <2>4 DEF Baseline, output
    <3>2. ASSUME files.accepted # None, files.accepted.content \in Refused
          PROVE  Unsettled(files.accepted)'
      <4>1. files.accepted = newest /\ Unsettled(files.accepted)
        BY <3>2 DEF Baseline, RefusedBaselineIsLeft
      <4>2. output(v.render) # files.accepted
        BY <2>2, <2>4, <4>1
      <4>3. \/ \E r \in Range(unjudged) : output(r) = files.accepted
            \/ \E w \in Range(mailbox) : w.type = "verdict" /\ output(w.render) = files.accepted
        BY <4>1, UnsettledFacts
      <4>4. \/ \E r \in Range(unjudged') : output(r) = files.accepted
            \/ \E w \in Range(mailbox') : w.type = "verdict" /\ output(w.render) = files.accepted
        BY <2>1, <2>2, <4>2, <4>3
      <4> QED BY <2>4, <4>4, UnsettledFacts
    <3> QED BY <2>4, <3>1, <3>2 DEF RefusedBaselineIsLeft
  <2>5. CASE /\ v.ok /\ files'.accepted = files.accepted /\ files'.confirmed = files.accepted
             /\ files.accepted = output(v.render)
    BY <2>1, <2>2, <2>5 DEF Baseline, RefusedBaselineIsLeft, output
  <2>6. CASE ~v.ok /\ files'.accepted = files.confirmed /\ files'.confirmed = files.confirmed
    BY <2>1, <2>2, <2>6 DEF Baseline, RefusedBaselineIsLeft, output
  <2> QED BY <2>3, <2>4, <2>5, <2>6
<1>6. CASE Attempt
  BY <1>1, <1>6, AttemptFacts, AttemptKeeps
<1>7. CASE Refresh
  BY <1>1, <1>7, RefreshFacts
<1>8. CASE \E n \in DOMAIN unjudged : publishVerdict(n)
  <2>1. UNCHANGED <<files, newest>>
    BY <1>8, VerdictKeeps
  <2>2. PICK r \in Renders :
           /\ Range(mailbox') \subseteq Range(mailbox) \cup {Verdict(r)}
           /\ Range(mailbox) \cup {Verdict(r)} \subseteq Range(mailbox')
           /\ Range(unjudged) \subseteq Range(unjudged') \cup {r}
    BY <1>8, VerdictFacts
  <2>3. /\ Verdict(r).type = "verdict" /\ Verdict(r).render = r
        /\ Verdict(r).ok <=> r.content \notin Refused
        /\ Verdict(r).newest <=> newest # None /\ r.content = newest.content
    BY Zenon DEF Verdict
  <2>4. output(r) = newest => Verdict(r).newest
    <3>1. output(r) # None /\ output(r).content = r.content
      BY DEF output, None
    <3> QED BY <2>3, <3>1
  <2>5. Baseline'
    BY <2>1, <2>2, <2>3, <2>4 DEF Baseline, output
  <2>6. ASSUME files.accepted # None, files.accepted.content \in Refused
        PROVE  Unsettled(files.accepted)'
    <3>1. \/ \E q \in Range(unjudged) : output(q) = files.accepted
          \/ \E w \in Range(mailbox) : w.type = "verdict" /\ output(w.render) = files.accepted
      BY <2>6, UnsettledFacts DEF RefusedBaselineIsLeft
    <3>2. \/ \E q \in Range(unjudged') : output(q) = files.accepted
          \/ \E w \in Range(mailbox') : w.type = "verdict" /\ output(w.render) = files.accepted
      BY <2>2, <2>3, <3>1
    <3> QED BY <2>1, <3>2, UnsettledFacts
  <2> QED BY <2>1, <2>5, <2>6 DEF RefusedBaselineIsLeft
<1>9. CASE newTerm
  <2>1. files' = NoFiles /\ \A v \in Range(mailbox') : v.type # "verdict"
    BY <1>9, TermFacts
  <2>2. files'.accepted = None /\ files'.confirmed = None
    BY <2>1 DEF NoFiles
  <2> QED BY <2>1, <2>2 DEF Baseline, RefusedBaselineIsLeft
<1> QED BY <1>2, <1>3, <1>4, <1>5, <1>6, <1>7, <1>8, <1>9, Steps

-----------------------------------------------------------------------------
(* The theorems *)

\* The coordinator starts in the inductive invariant.
LEMMA InvariantInit == Init => IInv
<1> SUFFICES ASSUME Init PROVE IInv
  OBVIOUS
<1>1. PICK f \in First :
         /\ inputs = f[1] /\ origin = f[2]
         /\ source = [page |-> NoPage, revision |-> 0, pending |-> NoPage, id |-> 0, critical |-> f[3]]
  BY DEF Init
<1>2. f[1] \in Inputs /\ f[2] \in Pages /\ f[3] \in BOOLEAN
  BY FirstAssumption
<1>3. source \in Sources /\ source.page = NoPage /\ source.revision = 0
  BY <1>1, <1>2 DEF Sources, Versions
<1>4. /\ mailbox \in Seq(Events) /\ \A v \in Range(mailbox) : v.type # "verdict"
      /\ unjudged \in Seq(Renders) /\ Range(unjudged) = {}
  <2>1. Trigger \in Events /\ Trigger.type # "verdict"
    BY DEF Events, Trigger
  <2>2. mailbox = <<Trigger>> /\ unjudged = << >>
    BY DEF Init
  <2>3. Range(mailbox) = {Trigger} /\ Range(unjudged) = {}
    BY <2>2 DEF Range
  <2> QED BY <2>1, <2>2, <2>3
<1>5. loop.at = "idle" /\ attempt.at = "idle" /\ files.accepted = None /\ files.confirmed = None
  BY DEF Init, Idle, NoFiles
<1>6. TypeOK
  <2>1. /\ inputs \in Inputs /\ origin \in Pages /\ accepted \in Inputs \cup {NoInput}
    BY <1>1, <1>2 DEF Init
  <2>2. revision \in Nat /\ sequence \in Nat /\ trial \in {None} \cup Acceptances /\ newest \in {None} \cup Outputs
    BY DEF Init
  <2>3. loop \in Loops /\ attempt \in Attempts
    BY DEF Init, Loops, Attempts
  <2>4. files \in [accepted : {None} \cup Outputs, confirmed : {None} \cup Outputs]
    BY DEF Init, NoFiles
  <2>5. proven \in [pages : SUBSET Versions, revision : Nat]
    BY DEF Init
  <2> QED BY <1>3, <1>4, <2>1, <2>2, <2>3, <2>4, <2>5 DEF TypeOK
<1>7. revision = 0 /\ trial = None /\ proven.revision = 0
  BY DEF Init
<1>8. Current
  BY <1>3, <1>4, <1>5, <1>7 DEF Current, AfterBase
<1>9. OnTrial /\ RestoresProven
  BY <1>3, <1>7 DEF OnTrial, RestoresProven
<1>10. Baseline /\ RefusedBaselineIsLeft
  BY <1>4, <1>5 DEF Baseline, RefusedBaselineIsLeft
<1> QED BY <1>6, <1>8, <1>9, <1>10 DEF IInv

\* Every step keeps the inductive invariant.
LEMMA InvariantStep == IInv /\ [Next]_vars => IInv'
<1> SUFFICES ASSUME IInv, [Next]_vars PROVE IInv'
  OBVIOUS
<1>1. CASE Next
  BY <1>1, TypeStep, CurrentStep, OnTrialStep, BaselineStep DEF IInv
<1>2. CASE UNCHANGED vars
  <2>1. UNCHANGED <<inputs, accepted, origin, source, revision, trial, sequence, mailbox, loop, files, attempt,
                    newest, unjudged, proven>>
    BY <1>2 DEF vars, store, coordinator, worker, gate
  <2>2. TypeOK'
    BY <2>1 DEF IInv, TypeOK
  <2>3. \A c, n : Read(c, n)' <=> Read(c, n)
    BY <2>1 DEF Read
  <2>4. Current'
    BY <2>1, <2>3 DEF IInv, Current
  <2>5. OnTrial' /\ RestoresProven'
    BY <2>1 DEF IInv, OnTrial, RestoresProven
  <2>6. Baseline'
    BY <2>1 DEF IInv, Baseline
  <2>7. RefusedBaselineIsLeft'
    BY <2>1 DEF IInv, RefusedBaselineIsLeft, Unsettled
  <2> QED BY <2>2, <2>4, <2>5, <2>6, <2>7 DEF IInv
<1> QED BY <1>1, <1>2

\* The inductive invariant holds of every reachable state.
THEOREM Invariance == Spec => []IInv
<1> QED BY InvariantInit, InvariantStep, PTL DEF Spec

\* revocation.go recordAcceptanceLocked: whatever chain of pages was accepted on trial,
\* replaced, confirmed and revoked, a revocation restores a page a render passed with.
THEOREM RestoresOnlyProven == Spec => []RestoresProven
<1>1. IInv => RestoresProven
  BY DEF IInv
<1> QED BY <1>1, Invariance, PTL

\* coordinator.go settleCurrentFiles: a baseline HAProxy refuses has its verdict coming.
THEOREM RefusedBaselineLeft == Spec => []RefusedBaselineIsLeft
<1>1. IInv => RefusedBaselineIsLeft
  BY DEF IInv
<1> QED BY <1>1, Invariance, PTL

\* revocation.go ConfirmAcceptances: a version shown to pass is never taken back.
THEOREM ProvenNotRevoked == Spec => ProvenStays
<1>1. IInv /\ [Next]_vars =>
        [handleRenderGateCompleted /\ proven.revision # 0 /\ source.revision = proven.revision
         => source'.page = source.page]_vars
  <2> SUFFICES ASSUME IInv, handleRenderGateCompleted, proven.revision # 0, source.revision = proven.revision
               PROVE  source'.page = source.page
    OBVIOUS
  <2>1. TypeOK /\ OnTrial /\ trial = None
    BY DEF IInv, OnTrial
  <2>2. source' = source \/ Restored
    BY <2>1, GateFacts
  <2> QED BY <2>1, <2>2 DEF Restored
<1> QED BY <1>1, Invariance, PTL DEF ProvenStays, Spec

=============================================================================
