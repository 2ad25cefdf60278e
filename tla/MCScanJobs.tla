----------------------------- MODULE MCScanJobs -----------------------------
(***************************************************************************)
(* Instances of ScanJobs for TLC: who scans what, and which faults and     *)
(* requests a behaviour may contain.                                       *)
(***************************************************************************)
EXTENDS ScanJobs, TLC

CONSTANTS j1, j2, j3, a1, tenant1, tenant2

OneAsset  == [j \in Jobs |-> a1]
OneTenant == [j \in Jobs |-> tenant1]

\* Two jobs of one asset, a third job of the same tenant, and one of another: every
\* limit is the one that binds for some pair of jobs.
SharedAsset == [j \in Jobs |-> IF j \in {j2, j3} THEN a1 ELSE NoAsset]
TwoTenants  == [j \in Jobs |-> IF j = j1 THEN tenant2 ELSE tenant1]

Times(e, n) == [f \in Event |-> IF f = e THEN n ELSE 0]

NoFault        == {[e \in Event |-> 0]}
OneDisturbance == {Times(e, 1) : e \in {"crash", "webcrash", "beatcrash", "cancel", "retry"}}
OneLoss        == {Times(e, 1) : e \in {"crash", "kill"}}
WorkerFaults   == {Times("crash", 1), Times("kill", 2), Times("transient", 1),
                   Times("beatcrash", 1)}
OneRetry       == {Times("retry", 1)}
OneCancel      == {Times("cancel", 1)}
TwoTransient   == {Times("transient", 2)}

Symmetry == Permutations(Workers)
=============================================================================
