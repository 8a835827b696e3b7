------------------------------ MODULE MCAgent ------------------------------
(***************************************************************************)
(* Instances of Agent for TLC: each fault has a bound of its own.  Failing *)
(* saves meet crashes only; the other faults meet each other.              *)
(***************************************************************************)
EXTENDS Agent

CONSTANTS MaxCrash, MaxTorn, MaxRestart, MaxFile, MaxSock, MaxInfo, MaxRepair, MaxLost,
          SavesFail

NoFaults == [f \in {"crash", "torn", "restart", "file", "sock", "info", "repair", "lost",
                    "save"} |-> 0]

MCFaults ==
    { [crash |-> MaxCrash, torn |-> MaxTorn, restart |-> MaxRestart, file |-> MaxFile,
       sock |-> MaxSock, info |-> MaxInfo, repair |-> MaxRepair, lost |-> MaxLost,
       save |-> 0] }
    \cup IF SavesFail THEN {[NoFaults EXCEPT !.crash = MaxCrash, !.save = 1]} ELSE {}
=============================================================================
