----------------------------- MODULE MCDeployer -----------------------------
(* Two pods, a plan the gate passes and one it refuses, and the scenarios.  *)
EXTENDS Deployer

Nothing == [deploy |-> 0, cancel |-> 0, verdict |-> 0, drain |-> 0, term |-> 1, end |-> 0,
            rival |-> 0, fail |-> 0, pace |-> 0, reload |-> 0, refuse |-> 0]

\* A cancellation of every deployment while the term drains; two terms, the
\* first drained; a refusal with a lost answer; a refusal or a deployment that
\* meets a newer leader; a refusal around a reload of the pod, cancelled and
\* drained; two verdicts.
Scenarios ==
    {[Nothing EXCEPT !.deploy = 2, !.cancel = 2, !.drain = 1],
     [Nothing EXCEPT !.deploy = 2, !.drain = 1, !.term = 2, !.end = 1],
     [Nothing EXCEPT !.deploy = 2, !.verdict = 1, !.fail = 1, !.pace = 2],
     [Nothing EXCEPT !.deploy = 2, !.verdict = 1, !.rival = 1],
     [Nothing EXCEPT !.deploy = 1, !.cancel = 1, !.verdict = 1, !.drain = 1, !.pace = 2,
                     !.reload = 1, !.refuse = 1],
     [Nothing EXCEPT !.deploy = 2, !.verdict = 2, !.pace = 1]}

TwoFleets == {Pods, {CHOOSE p \in Pods : TRUE}}
=============================================================================
