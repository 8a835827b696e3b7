---------------------------- MODULE MCCoordinator ----------------------------
(* Instances of Coordinator for TLC. *)
EXTENDS Coordinator

TwoInputs == {"s", "t"}
TwoPages == {"x", "y"}

\* HAProxy refuses all but page x with input t; the check already refuses page y with
\* input s, the gate the other two.
CheckRefuses == {<<"s", "y">>}
GateRefuses == {<<"s", "y">>, <<"t", "y">>, <<"s", "x">>}
Start == {<<"t", "x", TRUE>>, <<"s", "y", FALSE>>}

\* A page is accepted, replaced and, with a new input, refused; its validation is
\* abandoned or lost, a render observes nothing, or the term ends on the way.
AcceptBounds == [input |-> 1, page |-> 1, refresh |-> 1, fault |-> 1]

\* One refresh whose validation an input overtakes; the gate agrees with the check.
UnprovenBounds == [input |-> 1, page |-> 1, refresh |-> 1, fault |-> 0]

=============================================================================
