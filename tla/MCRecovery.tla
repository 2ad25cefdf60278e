----------------------------- MODULE MCRecovery -----------------------------
(***************************************************************************)
(* Instances of ScanJobs for TLC in which jobs are lost and found again.   *)
(* Who takes part differs from behaviour to behaviour: two workers and a   *)
(* sweep, sweeps that overlap, or a person who retries; the others idle.   *)
(***************************************************************************)
EXTENDS MCScanJobs

CONSTANTS w1, w2, s1, s2, u1

VARIABLE team

Teams == {{w1, w2, s1}, {w1, s1, s2}, {w1, s1, u1}}

FaultsOrRetry == WorkerFaults \cup OneRetry

RecoveryInit ==
  /\ Init
  /\ team \in Teams
  /\ u1 \in team <=> budget \in OneRetry

RecoveryNext ==
  /\ Next /\ UNCHANGED team
  /\ \A a \in Actors \ team : pc'[a] = "idle" /\ (a \in Beats => todo'[a] = {})

\* Fairness, for those who take part.
RecoveryFairness ==
  /\ \A w \in Workers : WF_vars(w \in team /\ WorkerStep(w))
  /\ \A s \in Beats : WF_vars(s \in team /\ BeatStep(s))
  /\ \A u \in Analysts : WF_vars(u \in team /\ AnalystStep(u))
  /\ \A j \in Jobs : WF_vars(Age(j))

RecoverySpec == RecoveryInit /\ [][RecoveryNext]_<<vars, team>> /\ RecoveryFairness
=============================================================================
