----------------------------- MODULE MCEventBus -----------------------------
(* Instances of EventBus for TLC.                                          *)
EXTENDS EventBus

Budget(index, page, ask, terms, reads) ==
    [index |-> index, page |-> page, ask |-> ask, terms |-> terms, reads |-> reads]

\* The Reconciler falls behind first.
Rooms == [reconciler |-> 1, coordinator |-> 2, observer |-> 1]

\* Two terms that overlap, one term with a producer of each kind, one with
\* events that merge, one with a burst of one producer, and an observer.
Scenarios ==
    {Budget(0, 0, 0, 2, 0), Budget(0, 1, 1, 1, 0), Budget(2, 0, 0, 1, 0),
     Budget(0, 2, 0, 1, 0), Budget(1, 1, 0, 0, 1)}
=============================================================================
