--------------------------- MODULE RenderVerdicts ---------------------------
(***************************************************************************)
(* What the render gate promises its subscribers (the scheduler, the       *)
(* deployer and the coordinator), without its worker, its memory of        *)
(* verdicts and the renders it retains: a render gets HAProxy's verdict at *)
(* most once, the verdict is the one its content deserves, and the latch   *)
(* only follows verdicts that speak for the latest render.                 *)
(***************************************************************************)
EXTENDS Naturals, Sequences

CONSTANTS
    Contents,   \* what a render may contain
    Bad         \* the contents HAProxy refuses

VARIABLES
    hist,       \* the content of every render so far
    latest,     \* the last render of the term, 0 before the first
    said,       \* the verdict published on each, if any
    latch       \* renders are held for a verdict

vars == <<hist, latest, said, latch>>

Unsaid == "unknown"

Init == hist = <<>> /\ latest = 0 /\ said = <<>> /\ latch = FALSE

Submit(c) ==
    /\ hist' = Append(hist, c) /\ said' = Append(said, Unsaid) /\ latest' = Len(hist) + 1
    /\ UNCHANGED latch

SpeaksForLatest(n) == latest # 0 /\ hist[n] = hist[latest]

Judge(n) ==
    /\ said[n] = Unsaid
    /\ said' = [said EXCEPT ![n] = IF hist[n] \in Bad THEN "refused" ELSE "ok"]
    /\ latch' = IF SpeaksForLatest(n) THEN hist[n] \in Bad ELSE latch
    /\ UNCHANGED <<hist, latest>>

\* The check could not run: no verdict, but nothing unjudged passes either.
CannotJudge(n) ==
    /\ said[n] = Unsaid
    /\ latch' = IF SpeaksForLatest(n) THEN TRUE ELSE latch
    /\ UNCHANGED <<hist, latest, said>>

\* A leadership term ends or begins; a new term trusts its first render.
EndTerm == latest' = 0 /\ latch' = FALSE /\ UNCHANGED <<hist, said>>

Next ==
    \/ \E c \in Contents : Submit(c)
    \/ \E n \in 1..Len(hist) : Judge(n) \/ CannotJudge(n)
    \/ EndTerm

Spec == Init /\ [][Next]_vars

=============================================================================
