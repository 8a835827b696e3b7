-------------------------- MODULE MCDeployScheduler --------------------------
(* Instances of DeployScheduler for TLC. *)
EXTENDS DeployScheduler

TwoFleets == {{"a"}, {"a", "b"}}
LeavingFleets == {{}, {"a"}}

Nothing == [b \in {"render", "pods", "fail", "reload", "timeout", "verdict", "gate",
                   "invalid", "broken", "drain"} |-> 0]

\* Three renders, so that an input returns to an earlier one; verdicts late and
\* out of step with them, a check that cannot run, a failed apply, a validation
\* fallback and a reconciliation that fails, in a cold term with retained
\* configuration.
GateBounds == {[Nothing EXCEPT !.render = 3, !.pods = 1, !.verdict = 2, !.gate = 1,
                               !.broken = 1, !.fail = 1, !.invalid = 1]}

\* One render and a pod change, with everything that may go wrong once before the
\* inputs settle; or a drain in the middle of deployments, retries and follow-ups.
LiveBounds ==
    {[Nothing EXCEPT !.render = 1, !.pods = 2, !.fail = 1, !.reload = 1, !.timeout = 1],
     [Nothing EXCEPT !.render = 2, !.pods = 1, !.reload = 1, !.drain = 1],
     [Nothing EXCEPT !.render = 2, !.pods = 1, !.fail = 1, !.drain = 1]}

=============================================================================
