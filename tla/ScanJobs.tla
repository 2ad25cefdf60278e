------------------------------ MODULE ScanJobs ------------------------------
(***************************************************************************)
(* Scan jobs under Celery: the scan_jobs table, the broker's scan queue,   *)
(* the scan workers (run_scan_task), the maintenance tasks that Celery     *)
(* Beat triggers (the sweep for stale jobs, and the scheduler's creation   *)
(* of jobs that are due) and the web routes that submit, cancel and retry  *)
(* a job.                                                                  *)
(*                                                                         *)
(* One action is one database transaction or one broker call.  A           *)
(* transaction that SELECTs a row and then UPDATEs it without locking it   *)
(* (mark_status, update_job) is two actions: the read and the write.  The  *)
(* heartbeat and started_at columns are one bit, "fresh"; what update_job  *)
(* writes into them only tells when two requests update one job at once,   *)
(* which the instances with one analyst do not have.                       *)
(***************************************************************************)
EXTENDS Naturals, FiniteSets

CONSTANTS
  Jobs,          \* scan jobs; job and scan are created together, one to one
  Workers,       \* Celery worker slots of the "scan" queue
  Analysts,      \* concurrent web requests
  Beats,         \* concurrent runs of the maintenance tasks that Celery Beat triggers
  Tasks,         \* Celery task ids, one per run_scan_task.delay()
  NoJob, NoTask, NoMessage, NoAsset,
  AssetOf,       \* the asset of a job, or NoAsset
  TenantOf,      \* the tenant of a job
  MaxPerAsset, MaxPerTenant, MaxGlobal,  \* MAX_CONCURRENT_SCANS_*
  MaxRetries,    \* SCAN_MAX_RETRIES, Celery's max_retries of the task
  MaxAttempts,   \* ScanJob.max_attempts
  Backend,       \* "postgres" or "sqlite"
  Budgets        \* scenarios: how often each kind of external event may happen

Actors == Workers \cup Analysts \cup Beats

Terminal  == {"completed", "cancelled", "failed", "timed_out"}
Claimable == {"queued", "retrying"}
ActiveStatus == Claimable \cup {"running"}
\* ScanJobStatus, without "partial", and a job that is not created yet.
Status    == {"absent"} \cup ActiveStatus \cup Terminal

ScanStatus == {"none", "pending", "running", "completed", "failed"}

\* A message of the scan queue: a task id and Celery's retry counter.
Message == Tasks \X (0 .. MaxRetries)

\* The external events whose number a configuration bounds; and the retries asked for so far.
Event == {"crash", "kill", "transient", "webcrash", "beatcrash", "cancel", "retry", "asked"}

ASSUME Kinds ==
  /\ Workers \cap Analysts = {} /\ Workers \cap Beats = {}
  /\ Analysts \cap Beats = {}
  /\ Tasks \subseteq Nat
  /\ NoJob \notin Jobs /\ NoTask \notin Tasks /\ NoMessage \notin Message
ASSUME FiniteJobs == IsFiniteSet(Jobs)
ASSUME Limits ==
  /\ MaxPerAsset \in Nat /\ MaxPerTenant \in Nat /\ MaxGlobal \in Nat
  /\ MaxRetries \in Nat /\ MaxAttempts \in Nat
  /\ Backend \in {"postgres", "sqlite"}
  /\ Budgets \subseteq [Event -> Nat]

WorkerPc  == {"idle", "read", "asset", "tenant", "global", "claim", "unclaimed",
              "preflight", "start", "scan", "save", "findings",
              "mark", "write", "marked", "republished"}
AnalystPc == {"idle", "send", "update", "overwrite", "rescan", "revoke",
              "mark", "write", "marked"}
BeatPc == {"idle", "send", "mark", "write", "marked"}

\* A worker holds the claim on its job from a won claim to the end of the task.
ExecutingPc == {"preflight", "start", "scan", "save", "findings",
                "mark", "write", "marked"}

VARIABLES
  status,   \* scan_jobs.status
  attempt,  \* scan_jobs.attempt
  fresh,    \* scan_jobs.heartbeat_at is younger than the stale threshold
  taskId,   \* scan_jobs.task_id
  scan,     \* scans.status of the job's scan
  broker,   \* how many copies of a message wait in the queue
  jobOf,    \* the argument of a task
  pc, cur,  \* where an actor is, and the job it works on
  seen,     \* the row an actor's open transaction has read
  goal,     \* the status to mark; for an update, what the route does next
  held,     \* the unacknowledged message of a worker
  copy,     \* the route's in-memory ScanJob
  todo,     \* what is left of find_stale_scan_jobs' result
  gen,      \* history: how often a job was put up for claiming
  won,      \* history: the value of gen a worker's claim was won at
  budget    \* what is left of the scenario's events, and how often a retry was asked for

jobVars   == <<status, attempt, fresh, taskId, scan>>
queueVars == <<broker, jobOf>>
ctlVars   == <<pc, cur, seen, goal>>
histVars  == <<gen, won, budget>>
vars == <<jobVars, queueVars, ctlVars, held, copy, todo, histVars>>

Row(j) == [status |-> status[j], attempt |-> attempt[j], task |-> taskId[j]]
NoRow  == [status |-> "absent", attempt |-> 0, task |-> NoTask]
NoCopy == [attempt |-> 0, task |-> NoTask]

Init ==
  /\ status  = [j \in Jobs |-> "absent"]
  /\ attempt = [j \in Jobs |-> 0]
  /\ fresh   = [j \in Jobs |-> FALSE]
  /\ taskId  = [j \in Jobs |-> NoTask]
  /\ scan    = [j \in Jobs |-> "none"]
  /\ broker  = [m \in Message |-> 0]
  /\ jobOf   = [t \in Tasks |-> NoJob]
  /\ pc      = [a \in Actors |-> "idle"]
  /\ cur     = [a \in Actors |-> NoJob]
  /\ seen    = [a \in Actors |-> NoRow]
  /\ goal    = [a \in Actors |-> "none"]
  /\ held    = [w \in Workers |-> NoMessage]
  /\ copy    = [u \in Analysts |-> NoCopy]
  /\ todo    = [s \in Beats |-> {}]
  /\ gen     = [j \in Jobs |-> 0]
  /\ won     = [w \in Workers |-> 0]
  /\ budget \in Budgets

-----------------------------------------------------------------------------
(* Steps shared by the actors. *)

Goto(a, from, to) == pc[a] = from /\ pc' = [pc EXCEPT ![a] = to]

Spend(e) == budget[e] > 0 /\ budget' = [budget EXCEPT ![e] = @ - 1]

\* The end of a request or of a sweep's turn on one job.
Rest(a) ==
  /\ pc'   = [pc EXCEPT ![a] = "idle"]
  /\ cur'  = [cur EXCEPT ![a] = NoJob]
  /\ seen' = [seen EXCEPT ![a] = NoRow]
  /\ goal' = [goal EXCEPT ![a] = "none"]

\* Every way into a claimable status opens the job for one more claim.
PutUp(j, s) ==
  /\ status' = [status EXCEPT ![j] = s]
  /\ gen' = IF s \in Claimable /\ status[j] \notin Claimable
            THEN [gen EXCEPT ![j] = @ + 1] ELSE gen

\* run_scan_task.delay(j): a fresh task id and its first message.  The ids are
\* numbered in the order they are drawn.
Publish(t, j) ==
  /\ jobOf[t] = NoJob /\ \A s \in Tasks : s < t => jobOf[s] # NoJob
  /\ jobOf'  = [jobOf EXCEPT ![t] = j]
  /\ broker' = [broker EXCEPT ![<<t, 0>>] = @ + 1]

\* What an UPDATE leaves in a column: the ORM's flush only writes a column that
\* differs from what the SELECT loaded, the SQL text of the other backend all.
Overwrite(loaded, new, current) ==
  IF Backend = "postgres" /\ new = loaded THEN current ELSE new

\* mark_scan_job_status, first statement.
MarkRead(a) ==
  /\ Goto(a, "mark", "write")
  /\ seen' = [seen EXCEPT ![a] = Row(cur[a])]
  /\ UNCHANGED <<jobVars, queueVars, cur, goal, held, copy, todo, histVars>>

\* Audit protection: a row that was read as terminal is not touched.
Unguarded(row) == TRUE
Markable(row) == row.status \notin Terminal

\* mark_scan_job_status, second statement.
MarkWrite(a) ==
  /\ Goto(a, "write", "marked")
  /\ IF Markable(seen[a])
     THEN PutUp(cur[a], Overwrite(seen[a].status, goal[a], status[cur[a]]))
     ELSE UNCHANGED <<status, gen>>
  /\ seen' = [seen EXCEPT ![a] = NoRow]
  /\ UNCHANGED <<attempt, fresh, taskId, scan, queueVars, cur, goal, held, copy, todo,
                 won, budget>>

SaveNothing(a) == pc[a] = "marked" /\ UNCHANGED scan

\* save_scan with FAILED after a mark: whatever the mark did and the scan was.
SaveScanFailed(a) ==
  /\ pc[a] = "marked"
  /\ scan' = [scan EXCEPT ![cur[a]] = "failed"]

-----------------------------------------------------------------------------
(* The worker: run_scan_task. *)

Ack(w) ==
  /\ Rest(w)
  /\ held' = [held EXCEPT ![w] = NoMessage]
  /\ won'  = [won EXCEPT ![w] = 0]

\* self.retry(): publish the next message of the task, then acknowledge this
\* one; when the retries are used up the task just fails.
Retry(w) ==
  LET t == held[w][1]
      r == held[w][2]
  IN IF r < MaxRetries
     THEN /\ broker' = [broker EXCEPT ![<<t, r + 1>>] = @ + 1]
          /\ pc'     = [pc EXCEPT ![w] = "republished"]
          /\ goal'   = [goal EXCEPT ![w] = "none"]
          /\ won'    = [won EXCEPT ![w] = 0]
          /\ UNCHANGED <<cur, seen, held>>
     ELSE Ack(w) /\ UNCHANGED broker

Receive(w) ==
  \E m \in Message :
    /\ broker[m] > 0
    /\ Goto(w, "idle", "read")
    /\ broker' = [broker EXCEPT ![m] = @ - 1]
    /\ held'   = [held EXCEPT ![w] = m]
    /\ cur'    = [cur EXCEPT ![w] = jobOf[m[1]]]
    /\ UNCHANGED <<jobVars, jobOf, seen, goal, copy, todo, histVars>>

\* get_scan_job: a duplicate delivery of a finished job is skipped.
ReadJob(w) ==
  /\ pc[w] = "read"
  /\ IF status[cur[w]] \in Terminal
     THEN Ack(w)
     ELSE /\ pc' = [pc EXCEPT ![w] = "asset"]
          /\ UNCHANGED <<cur, seen, goal, held, won>>
  /\ UNCHANGED <<jobVars, queueVars, copy, todo, gen, budget>>

\* count_active_scan_jobs_*: the active jobs among S, this one included.
Active(S) == Cardinality({j \in S : status[j] \in ActiveStatus})

CountsOthersOnly(S, limit) == Active(S) > limit + 1
OverLimit(S, limit) == Active(S) >= limit + 1

CheckLimit(w, scope, S, limit, next) ==
  /\ pc[w] = scope
  /\ IF OverLimit(S, limit)
     THEN Retry(w)
     ELSE /\ pc' = [pc EXCEPT ![w] = next]
          /\ UNCHANGED <<broker, cur, seen, goal, held, won>>
  /\ UNCHANGED <<jobVars, jobOf, copy, todo, gen, budget>>

\* A job without an asset has no per-asset limit.
AssetPeers(j) == IF AssetOf[j] = NoAsset THEN {} ELSE {k \in Jobs : AssetOf[k] = AssetOf[j]}
TenantPeers(j) == {k \in Jobs : TenantOf[k] = TenantOf[j]}

CheckLimits(w) ==
  LET j == cur[w]
  IN \/ CheckLimit(w, "asset", AssetPeers(j), MaxPerAsset, "tenant")
     \/ CheckLimit(w, "tenant", TenantPeers(j), MaxPerTenant, "global")
     \/ CheckLimit(w, "global", Jobs, MaxGlobal, "claim")

\* The WHERE clause of the claim.
ClaimUnlessOver(j) == status[j] \notin Terminal
CanClaim(j) == status[j] \in Claimable

\* try_claim_for_execution: one conditional UPDATE.
Claim(w) ==
  LET j == cur[w]
  IN /\ pc[w] = "claim"
     /\ IF CanClaim(j)
        THEN /\ status' = [status EXCEPT ![j] = "running"]
             /\ fresh'  = [fresh EXCEPT ![j] = TRUE]
             /\ pc'     = [pc EXCEPT ![w] = "preflight"]
             /\ won'    = [won EXCEPT ![w] = gen[j]]
        ELSE /\ pc' = [pc EXCEPT ![w] = "unclaimed"]
             /\ UNCHANGED <<status, fresh, won>>
     /\ UNCHANGED <<attempt, taskId, scan, queueVars, cur, seen, goal, held, copy, todo,
                    gen, budget>>

\* A lost claim: skip a job that runs or is over, else come back later.
Unclaimed(w) ==
  /\ pc[w] = "unclaimed"
  /\ IF status[cur[w]] \in Claimable
     THEN Retry(w)
     ELSE Ack(w) /\ UNCHANGED broker
  /\ UNCHANGED <<jobVars, jobOf, copy, todo, gen, budget>>

\* Tenant still active, authorization still valid: else the job fails closed.
Preflight(w) ==
  /\ \/ Goto(w, "preflight", "start") /\ UNCHANGED goal
     \/ Goto(w, "preflight", "mark") /\ goal' = [goal EXCEPT ![w] = "failed"]
  /\ UNCHANGED <<jobVars, queueVars, cur, seen, held, copy, todo, histVars>>

\* Scan RUNNING, with progress (a heartbeat) reported before and after it.  The
\* on_progress callback that would report more is not handed to the orchestrator.
StartScan(w) ==
  /\ Goto(w, "start", "scan")
  /\ fresh' = [fresh EXCEPT ![cur[w]] = TRUE]
  /\ scan'  = [scan EXCEPT ![cur[w]] = "running"]
  /\ UNCHANGED <<status, attempt, taskId, queueVars, cur, seen, goal, held, copy, todo,
                 histVars>>

ScanSucceeds(w) ==
  /\ Goto(w, "scan", "save")
  /\ UNCHANGED <<jobVars, queueVars, cur, seen, goal, held, copy, todo, histVars>>

SaveResult(w) ==
  /\ Goto(w, "save", "findings")
  /\ scan' = [scan EXCEPT ![cur[w]] = "completed"]
  /\ UNCHANGED <<status, attempt, fresh, taskId, queueVars, cur, seen, goal, held, copy,
                 todo, histVars>>

\* process_scan_findings and the differential, then COMPLETED.
SaveFindings(w) ==
  /\ Goto(w, "findings", "mark")
  /\ goal' = [goal EXCEPT ![w] = "completed"]
  /\ UNCHANGED <<jobVars, queueVars, cur, seen, held, copy, todo, histVars>>

\* What the task's last two handlers mark.
FailureWithPartial == {"timed_out", "failed", "partial"}
Failure == {"timed_out", "failed"}

\* The soft time limit, or any exception of the scan, of saving its results or of
\* marking the job completed: even a job that is COMPLETED gets here.
ScanFails(w) ==
  /\ pc[w] \in {"scan", "save", "findings"} \/ goal[w] = "completed"
  /\ pc' = [pc EXCEPT ![w] = "mark"]
  /\ seen' = [seen EXCEPT ![w] = NoRow]
  /\ \E s \in Failure : goal' = [goal EXCEPT ![w] = s]
  /\ UNCHANGED <<jobVars, queueVars, cur, held, copy, todo, histVars>>

\* A timeout or a lost connection is worth another attempt.
ScanRetryable(w) ==
  /\ Goto(w, "scan", "mark")
  /\ Spend("transient")
  /\ goal' = [goal EXCEPT ![w] = "retrying"]
  /\ UNCHANGED <<jobVars, queueVars, cur, seen, held, copy, todo, gen, won>>

\* update_scan_job_progress(100), then the task ends.
FinishCompleted(w) ==
  /\ pc[w] = "marked" /\ goal[w] = "completed"
  /\ fresh' = [fresh EXCEPT ![cur[w]] = TRUE]
  /\ Ack(w)
  /\ UNCHANGED <<status, attempt, taskId, scan, queueVars, copy, todo, gen, budget>>

FinishFailed(w) ==
  /\ goal[w] \in {"failed", "timed_out"}
  /\ SaveScanFailed(w)
  /\ Ack(w)
  /\ UNCHANGED <<status, attempt, fresh, taskId, queueVars, copy, todo, gen, budget>>

FinishRetrying(w) ==
  /\ pc[w] = "marked" /\ goal[w] = "retrying"
  /\ Retry(w)
  /\ UNCHANGED <<jobVars, jobOf, copy, todo, gen, budget>>

AckRetried(w) ==
  /\ pc[w] = "republished"
  /\ Ack(w)
  /\ UNCHANGED <<jobVars, queueVars, copy, todo, gen, budget>>

\* task_acks_late and task_reject_on_worker_lost: the message is redelivered.
AcknowledgedEarly(m) == UNCHANGED broker
Requeue(m) == broker' = [broker EXCEPT ![m] = @ + 1]

WorkerCrash(w) ==
  /\ pc[w] # "idle"
  /\ Spend("crash")
  /\ Requeue(held[w])
  /\ Rest(w)
  /\ held' = [held EXCEPT ![w] = NoMessage]
  /\ won'  = [won EXCEPT ![w] = 0]
  /\ UNCHANGED <<jobVars, jobOf, copy, todo, gen>>

\* task_time_limit: the child is killed and the message acknowledged.
HardTimeLimit(w) ==
  /\ pc[w] \in ExecutingPc
  /\ Spend("kill")
  /\ Ack(w)
  /\ UNCHANGED <<jobVars, queueVars, copy, todo, gen>>

WorkerStep(w) ==
  \/ Receive(w) \/ ReadJob(w) \/ CheckLimits(w) \/ Claim(w) \/ Unclaimed(w)
  \/ Preflight(w) \/ StartScan(w) \/ ScanSucceeds(w) \/ SaveResult(w)
  \/ SaveFindings(w) \/ ScanFails(w) \/ MarkRead(w) \/ MarkWrite(w)
  \/ FinishCompleted(w) \/ FinishFailed(w) \/ FinishRetrying(w) \/ AckRetried(w)

-----------------------------------------------------------------------------
(* The maintenance tasks: recover_stale_jobs_task sweeps the stale jobs every    *)
(* two minutes, dispatch_scheduled_scans_task creates the jobs that are due.     *)

StaleButExhausted(j) == status[j] = "running" /\ ~fresh[j] /\ attempt[j] < MaxAttempts
Stale(j) == status[j] = "running" /\ ~fresh[j]

OneTooMany(n) == n > MaxAttempts
Exhausted(n) == n >= MaxAttempts

\* The stale threshold passes without a heartbeat of the job.
Age(j) ==
  /\ status[j] = "running" /\ fresh[j]
  /\ fresh' = [fresh EXCEPT ![j] = FALSE]
  /\ UNCHANGED <<status, attempt, taskId, scan, queueVars, ctlVars, held, copy, todo, histVars>>

FindStale(s) ==
  /\ pc[s] = "idle" /\ todo[s] = {}
  /\ \E j \in Jobs : Stale(j)
  /\ todo' = [todo EXCEPT ![s] = {<<j, attempt[j]>> : j \in {k \in Jobs : Stale(k)}}]
  /\ UNCHANGED <<jobVars, queueVars, ctlVars, held, copy, histVars>>

\* try_reclaim_stale_for_retry: one conditional UPDATE.
Reclaim(s) ==
  \E e \in todo[s] :
    LET j == e[1]
    IN /\ pc[s] = "idle" /\ ~Exhausted(e[2])
       /\ todo' = [todo EXCEPT ![s] = @ \ {e}]
       /\ IF Stale(j)
          THEN /\ PutUp(j, "retrying")
               /\ attempt' = [attempt EXCEPT ![j] = @ + 1]
               /\ pc'  = [pc EXCEPT ![s] = "send"]
               /\ cur' = [cur EXCEPT ![s] = j]
          ELSE UNCHANGED <<status, gen, attempt, pc, cur>>
       /\ UNCHANGED <<fresh, taskId, scan, queueVars, seen, goal, held, copy, won, budget>>

\* dispatch_scheduled_scans_task, for a claimed slot: scan PENDING, job QUEUED.
Dispatch(s, j) ==
  /\ status[j] = "absent"
  /\ Goto(s, "idle", "send") /\ todo[s] = {}
  /\ PutUp(j, "queued")
  /\ attempt' = [attempt EXCEPT ![j] = 1]
  /\ scan'    = [scan EXCEPT ![j] = "pending"]
  /\ cur'     = [cur EXCEPT ![s] = j]
  /\ UNCHANGED <<fresh, taskId, queueVars, seen, goal, held, copy, todo, won, budget>>

\* run_scan_task.delay, after a reclaim or a dispatch: neither saves the task id.
SendMaintenance(s) ==
  /\ pc[s] = "send"
  /\ \E t \in Tasks : Publish(t, cur[s])
  /\ Rest(s)
  /\ UNCHANGED <<jobVars, held, copy, todo, histVars>>

\* Attempts used up: FAILED, on the strength of the row read by FindStale.
GiveUp(s) ==
  \E e \in todo[s] :
    /\ pc[s] = "idle" /\ Exhausted(e[2])
    /\ todo' = [todo EXCEPT ![s] = @ \ {e}]
    /\ pc'   = [pc EXCEPT ![s] = "mark"]
    /\ cur'  = [cur EXCEPT ![s] = e[1]]
    /\ goal' = [goal EXCEPT ![s] = "failed"]
    /\ UNCHANGED <<jobVars, queueVars, seen, held, copy, histVars>>

FinishGiveUp(s) ==
  /\ SaveScanFailed(s)
  /\ Rest(s)
  /\ UNCHANGED <<status, attempt, fresh, taskId, queueVars, held, copy, todo, histVars>>

BeatCrash(s) ==
  /\ pc[s] # "idle" \/ todo[s] # {}
  /\ Spend("beatcrash")
  /\ Rest(s)
  /\ todo' = [todo EXCEPT ![s] = {}]
  /\ UNCHANGED <<jobVars, queueVars, held, copy, gen, won>>

BeatStep(s) ==
  \/ FindStale(s) \/ Reclaim(s) \/ SendMaintenance(s)
  \/ GiveUp(s) \/ MarkRead(s) \/ MarkWrite(s) \/ FinishGiveUp(s)

-----------------------------------------------------------------------------
(* The web routes. *)

\* api_scan, scan/new: scan PENDING and job QUEUED.
Submit(u, j) ==
  /\ status[j] = "absent"
  /\ Goto(u, "idle", "send")
  /\ PutUp(j, "queued")
  /\ attempt' = [attempt EXCEPT ![j] = 1]
  /\ scan'    = [scan EXCEPT ![j] = "pending"]
  /\ cur'     = [cur EXCEPT ![u] = j]
  /\ copy'    = [copy EXCEPT ![u] = [attempt |-> 1, task |-> NoTask]]
  /\ UNCHANGED <<fresh, taskId, queueVars, seen, goal, held, todo, won, budget>>

\* run_scan_task.delay, then update_scan_job to record the task id.
SendTask(u) ==
  /\ Goto(u, "send", "update")
  /\ \E t \in Tasks :
       /\ Publish(t, cur[u])
       /\ copy' = [copy EXCEPT ![u].task = t]
  /\ goal' = [goal EXCEPT ![u] = "done"]
  /\ UNCHANGED <<jobVars, cur, seen, held, todo, histVars>>

\* update_scan_job with the route's in-memory job, whose status is QUEUED.
UpdateRead(u) ==
  /\ Goto(u, "update", "overwrite")
  /\ seen' = [seen EXCEPT ![u] = Row(cur[u])]
  /\ UNCHANGED <<jobVars, queueVars, cur, goal, held, copy, todo, histVars>>

\* update_job on postgres leaves a row it read as terminal alone;
\* update_scan_job on sqlite is one UPDATE of every column.
OverwriteRow(u) ==
  LET j == cur[u]
  IN IF Backend = "postgres" /\ ~Markable(seen[u])
     THEN UNCHANGED <<status, attempt, taskId, gen>>
     ELSE /\ PutUp(j, Overwrite(seen[u].status, "queued", status[j]))
          /\ attempt' = [attempt EXCEPT ![j] = Overwrite(seen[u].attempt, copy[u].attempt, @)]
          /\ taskId'  = [taskId EXCEPT ![j] = Overwrite(seen[u].task, copy[u].task, @)]

UpdateWrite(u) ==
  /\ pc[u] = "overwrite"
  /\ OverwriteRow(u)
  /\ IF goal[u] = "rescan"
     THEN /\ pc'   = [pc EXCEPT ![u] = "rescan"]
          /\ seen' = [seen EXCEPT ![u] = NoRow]
          /\ UNCHANGED <<cur, goal, copy>>
     ELSE Rest(u) /\ copy' = [copy EXCEPT ![u] = NoCopy]
  /\ UNCHANGED <<fresh, scan, queueVars, held, todo, won, budget>>

\* cancel_scan_job: read the row, then revoke its task.
CancelRequest(u, j) ==
  /\ status[j] # "absent"
  /\ Goto(u, "idle", "revoke")
  /\ Spend("cancel")
  /\ cur'  = [cur EXCEPT ![u] = j]
  /\ copy' = [copy EXCEPT ![u] = [attempt |-> attempt[j], task |-> taskId[j]]]
  /\ goal' = [goal EXCEPT ![u] = "cancelled"]
  /\ UNCHANGED <<jobVars, queueVars, seen, held, todo, gen, won>>

\* control.revoke(terminate=True) is a broadcast: it may reach no worker, or
\* terminate the task wherever it is; a terminated task is acknowledged.
Revoke(u) ==
  LET Hit == {w \in Workers : held[w] # NoMessage /\ held[w][1] = copy[u].task}
  IN /\ pc[u] = "revoke"
     /\ \/ /\ pc' = [pc EXCEPT ![u] = "mark"]
           /\ UNCHANGED <<broker, cur, seen, goal, held, won>>
        \/ /\ copy[u].task # NoTask
           /\ pc'   = [a \in Actors |-> IF a = u THEN "mark"
                                        ELSE IF a \in Hit THEN "idle" ELSE pc[a]]
           /\ cur'  = [a \in Actors |-> IF a \in Hit THEN NoJob ELSE cur[a]]
           /\ seen' = [a \in Actors |-> IF a \in Hit THEN NoRow ELSE seen[a]]
           /\ goal' = [a \in Actors |-> IF a \in Hit THEN "none" ELSE goal[a]]
           /\ held' = [w \in Workers |-> IF w \in Hit THEN NoMessage ELSE held[w]]
           /\ won'  = [w \in Workers |-> IF w \in Hit THEN 0 ELSE won[w]]
           /\ broker' = [m \in Message |-> IF m[1] = copy[u].task THEN 0 ELSE broker[m]]
     /\ UNCHANGED <<jobVars, jobOf, copy, todo, gen, budget>>

\* The scan is saved FAILED even if the mark found the job already over.
FinishCancel(u) ==
  /\ SaveScanFailed(u)
  /\ Rest(u)
  /\ copy' = [copy EXCEPT ![u] = NoCopy]
  /\ UNCHANGED <<status, attempt, fresh, taskId, queueVars, held, todo, histVars>>

\* retry_scan_job: attempt + 1 and QUEUED, in memory first; max_attempts is not asked for.
RetryRequest(u, j) ==
  /\ status[j] # "absent"
  /\ Goto(u, "idle", "update")
  /\ budget["retry"] > 0
  /\ budget' = [budget EXCEPT !["retry"] = @ - 1, !["asked"] = @ + 1]
  /\ cur'  = [cur EXCEPT ![u] = j]
  /\ copy' = [copy EXCEPT ![u] = [attempt |-> attempt[j] + 1, task |-> taskId[j]]]
  /\ goal' = [goal EXCEPT ![u] = "rescan"]
  /\ UNCHANGED <<jobVars, queueVars, seen, held, todo, gen, won>>

\* The scan is saved RUNNING whether or not the update reopened the job.
Rescan(u) ==
  /\ Goto(u, "rescan", "send")
  /\ scan' = [scan EXCEPT ![cur[u]] = "running"]
  /\ UNCHANGED <<status, attempt, fresh, taskId, queueVars, cur, seen, goal, held, copy,
                 todo, histVars>>

WebCrash(u) ==
  /\ pc[u] # "idle"
  /\ Spend("webcrash")
  /\ Rest(u)
  /\ copy' = [copy EXCEPT ![u] = NoCopy]
  /\ UNCHANGED <<jobVars, queueVars, held, todo, gen, won>>

AnalystStep(u) ==
  \/ SendTask(u) \/ UpdateRead(u) \/ UpdateWrite(u) \/ Rescan(u)
  \/ Revoke(u) \/ MarkRead(u) \/ MarkWrite(u) \/ FinishCancel(u)

Request(u) == \E j \in Jobs : Submit(u, j) \/ CancelRequest(u, j) \/ RetryRequest(u, j)

-----------------------------------------------------------------------------

Fault ==
  \/ \E w \in Workers : ScanRetryable(w) \/ WorkerCrash(w) \/ HardTimeLimit(w)
  \/ \E u \in Analysts : WebCrash(u)
  \/ \E s \in Beats : BeatCrash(s)

Next ==
  \/ \E w \in Workers : WorkerStep(w)
  \/ \E s \in Beats : BeatStep(s) \/ \E j \in Jobs : Dispatch(s, j)
  \/ \E u \in Analysts : AnalystStep(u) \/ Request(u)
  \/ \E j \in Jobs : Age(j)
  \/ Fault

Spec == Init /\ [][Next]_vars

\* Workers and sweeps keep running, a request that has begun goes on, and time
\* passes; nobody has to make a request, and no fault has to happen.
Fairness ==
  /\ \A w \in Workers : WF_vars(WorkerStep(w))
  /\ \A s \in Beats : WF_vars(BeatStep(s))
  /\ \A u \in Analysts : WF_vars(AnalystStep(u))
  /\ \A j \in Jobs : WF_vars(Age(j))

FairSpec == Spec /\ Fairness

-----------------------------------------------------------------------------
(* Properties. *)

Rows   == [status : Status, attempt : Nat, task : Tasks \cup {NoTask}]
Copies == [attempt : Nat, task : Tasks \cup {NoTask}]

\* The shape of the state.  A status written out of a worker's, a route's or a
\* sweep's memory is one that the claim, the sweep or the audit protection knows:
\* "partial", the member of ScanJobStatus that none of them knows, is never reached.
TypeOK ==
  /\ status  \in [Jobs -> Status]
  /\ attempt \in [Jobs -> Nat]
  /\ fresh   \in [Jobs -> BOOLEAN]
  /\ taskId  \in [Jobs -> Tasks \cup {NoTask}]
  /\ scan    \in [Jobs -> ScanStatus]
  /\ broker  \in [Message -> Nat]
  /\ jobOf   \in [Tasks -> Jobs \cup {NoJob}]
  /\ pc      \in [Actors -> WorkerPc \cup AnalystPc \cup BeatPc]
  /\ cur     \in [Actors -> Jobs \cup {NoJob}]
  /\ seen    \in [Actors -> Rows]
  /\ goal    \in [Actors -> ActiveStatus \cup Terminal \cup {"none", "done", "rescan"}]
  /\ held    \in [Workers -> Message \cup {NoMessage}]
  /\ copy    \in [Analysts -> Copies]
  /\ todo    \in [Beats -> SUBSET (Jobs \X Nat)]
  /\ gen     \in [Jobs -> Nat]
  /\ won     \in [Workers -> Nat]
  /\ budget  \in [Event -> Nat]

Executing(w, j) == cur[w] = j /\ pc[w] \in ExecutingPc

\* "Exactly one worker" per claim (try_claim_for_execution): two workers that
\* execute one job at once never won it from the same time it was put up, however
\* often its message was delivered.
UniqueClaim ==
  \A j \in Jobs : \A v, w \in Workers :
    Executing(v, j) /\ Executing(w, j) /\ won[v] = won[w] => v = w

Writing(a, j) == pc[a] \in {"write", "overwrite"} /\ cur[a] = j

\* On PostgreSQL a terminal status is left only by the second statement of a
\* transaction whose first had read the row before it was terminal: the audit
\* protection of mark_status and update_job covers everything else, the
\* redeliveries, the sweep and the claims included.
TerminalOnlyLostToRace ==
  [][\A j \in Jobs :
       status[j] \in Terminal /\ status'[j] # status[j] =>
         \E a \in Actors : Writing(a, j) /\ seen[a].status \notin Terminal]_vars

\* The phases of AbstractJob.
Phase(j) == CASE status[j] = "absent"   -> "none"
              [] status[j] \in Claimable -> "waiting"
              [] status[j] = "running"  -> "taken"
              [] status[j] \in Terminal  -> "over"

\* The claim a worker works on.
Licence(w) == IF pc[w] \in ExecutingPc THEN <<cur[w], won[w]>> ELSE NoJob

\* The jobs of which a transaction has read a row that was not over.
Drafts == {j \in Jobs : \E a \in Actors : Writing(a, j) /\ seen[a].status \notin Terminal}

Contract == INSTANCE AbstractJob
              WITH phase <- [j \in Jobs |-> Phase(j)], term <- gen,
                   licence <- [w \in Workers |-> Licence(w)], drafts <- Drafts,
                   Free <- NoJob, Protected <- Backend = "postgres"

\* Broker, workers, routes and sweeps together keep what AbstractJob promises: a message
\* that is delivered again, a task published twice or a revocation never runs a job on a
\* claim of the past, and what is over stays over but for transactions that began before.
JobKeepsContract == Contract!Spec

\* The system in which the audit protection covers every write ("duplicate job delivery
\* must never overwrite or regress terminal states"): what the limits are worth then.
SerialSpec ==
  Init /\ [][Next /\ \A j \in Jobs : status[j] \in Terminal => status'[j] = status[j]]_vars

Running(j) == status[j] = "running"

Within(S, limit) == Cardinality({k \in S : Running(k)}) <= limit

\* MAX_CONCURRENT_SCANS_PER_ASSET, _PER_TENANT and _GLOBAL bound the running jobs,
\* although the three counts and the claim are four transactions.
ConcurrencyLimits ==
  /\ \A j \in Jobs : Within(AssetPeers(j), MaxPerAsset)
  /\ \A j \in Jobs : Within(TenantPeers(j), MaxPerTenant)
  /\ Within(Jobs, MaxGlobal)

\* "Prevent duplicate execution under horizontal scale": one worker at a time.
SingleExecutor ==
  \A j \in Jobs : Cardinality({w \in Workers : Executing(w, j)}) <= 1

\* A job does not stay running when no worker executes it any more: crashed, killed
\* and lost workers are found by the sweep, also when no attempt is left.
AbandonedRecovered ==
  \A j \in Jobs :
    (Running(j) /\ \A w \in Workers : ~Executing(w, j)) ~> ~Running(j)

\* A job that exists reaches a terminal status, through redeliveries, postponements,
\* retries and reclaims.
EveryJobFinishes ==
  \A j \in Jobs : (status[j] # "absent") ~> (status[j] \in Terminal)

\* That is so but for a sweep that is lost before the delay() of a job it has reclaimed, and
\* for a request that writes QUEUED over a status it has not seen.
FinishesUnlessSweepLost ==
  budget["beatcrash"] = 0 /\ [](\A u \in Analysts : pc[u] = "idle") => EveryJobFinishes

\* "retrying --> failed: Attempts Exhausted": a retrying job is run again or over.
RetryingResolved ==
  \A j \in Jobs : (status[j] = "retrying") ~> (status[j] \in Terminal \cup {"running"})

\* max_attempts bounds the attempts that sweeps add, although each decides on a row it
\* listed earlier: of k sweeps that overlap, every one but the last may add one more.  The
\* retry route adds an attempt without asking for the limit, to the row as it read it; after
\* its write each sweep may add one again.
AttemptsBounded ==
  LET sweeps == Cardinality(Beats)
  IN  \A j \in Jobs :
        attempt[j] <= MaxAttempts + (sweeps - 1) + budget["asked"] * (sweeps + 1)
=============================================================================
