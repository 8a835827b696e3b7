---------------------------- MODULE MCAgentFiles ----------------------------
(* AgentFiles on three paths: the config sorts between a file before it and  *)
(* one after it, and the digests of the two files collide.  Crashes and      *)
(* file system errors are bounded together by MaxFaults.                     *)
EXTENDS AgentFiles

CONSTANT MaxFaults

VARIABLE faults

MCPathDigest == [p \in Paths |-> IF p = ConfigFile THEN 0 ELSE 1]

\* An empty volume, and one that holds the config and a file.
MCFirstTrees ==
    { [p \in Paths |-> Absent],
      [p \in Paths |-> IF p = 3 THEN Absent ELSE "a"] }

\* A whole plan, a plan that changes two paths and drops one, and a plan that
\* changes one file and drops the other without touching the config.
MCRequests ==
    { [inst |-> [p \in {1, 2, 3} |-> "b"], dels |-> {}],
      [inst |-> [p \in {2, 3} |-> "a"], dels |-> {1}],
      [inst |-> [p \in {1} |-> "a"], dels |-> {3}] }

MCInit == Init /\ faults = 0

MCNext ==
    \/ Step /\ UNCHANGED faults
    \/ Fault /\ faults < MaxFaults /\ faults' = faults + 1

MCSpec == MCInit /\ [][MCNext]_<<fileVars, faults>>

=============================================================================
