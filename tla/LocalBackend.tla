---------------------------- MODULE LocalBackend ----------------------------
(***************************************************************************)
(* Scans without Celery: a request, or the scheduler thread, stores a scan *)
(* and its job and submits a task to the thread pool of the web process;   *)
(* what is queued and running is known to that process alone.  Requests    *)
(* cancel, retry and delete scans by their rows and never reach the task.  *)
(* The database is SQLite, where every statement here is its own           *)
(* transaction.                                                            *)
(***************************************************************************)
EXTENDS Naturals, FiniteSets

CONSTANTS
  Scans,        \* ids
  Requests,
  Tasks,        \* bound: tasks the pool is given, over all
  PoolSize,     \* max_workers of _executor
  Plans,        \* choices of what each request does
  NoScan

Kinds == {"submit", "schedule", "cancel", "retry", "delete", "none"}

ASSUME PlansAssumption == Plans \subseteq [Requests -> Kinds]

ASSUME ActorsAssumption == Requests \cap Tasks = {}

ASSUME PoolAssumption == PoolSize \in Nat \ {0}

ASSUME NoScanAssumption == NoScan \notin Scans

VARIABLES
  scan,           \* status of the row in scans
  scan_job,       \* status of its row in scan_jobs
  memory,         \* _scan_progress
  plan,
  stage,          \* where a request is
  about,          \* the scan a request is about
  task,           \* where a task is
  task_scan,      \* the scan a task runs
  read,           \* status of the job as an actor read it
  interrupted,    \* history: scans whose task or request ended before its last statement
  cancelled,      \* history: scans that a request began to cancel
  deleted,        \* history: scans that were deleted
  overtaken       \* history: those of them that somebody was about to save

rows == <<scan, scan_job, memory>>
history == <<interrupted, cancelled, deleted, overtaken>>
localVars == <<rows, plan, stage, about, task, task_scan, read, history>>

Stages ==
  {"idle", "job", "enter", "ensure", "submit", "mark", "fail", "reopen", "again", "done"}

Places == {"free", "queued", "scan", "save", "findings", "end", "mark", "done"}

ScanStatus == {"absent", "pending", "running", "completed", "failed"}
LocalJobStatus == {"absent", "queued", "running", "completed", "cancelled"}
Terminal == {"completed", "cancelled"}

LocalInit ==
  /\ scan = [s \in Scans |-> "absent"]
  /\ scan_job = [s \in Scans |-> "absent"]
  /\ memory = [s \in Scans |-> "none"]
  /\ plan \in Plans
  /\ stage = [r \in Requests |-> "idle"]
  /\ about = [r \in Requests |-> NoScan]
  /\ task = [t \in Tasks |-> "free"]
  /\ task_scan = [t \in Tasks |-> NoScan]
  /\ read = [x \in Requests \cup Tasks |-> "absent"]
  /\ interrupted = {} /\ cancelled = {} /\ deleted = {} /\ overtaken = {}

Underway(r) == stage[r] \notin {"idle", "done"}
InPool(t) == task[t] \notin {"free", "done"}
Executing == {t \in Tasks : InPool(t) /\ task[t] # "queued"}

Proceeds(r, where) == stage' = [stage EXCEPT ![r] = where]
Moves(t, where) == task' = [task EXCEPT ![t] = where]

\* save_scan updates the row or inserts it.
Save(s, status) == scan' = [scan EXCEPT ![s] = status]

\* update_scan_job and the UPDATE of mark_scan_job_status: nothing where no row is.
Update(s, status) ==
  scan_job' = IF scan_job[s] = "absent" THEN scan_job ELSE [scan_job EXCEPT ![s] = status]

-----------------------------------------------------------------------------
(* Requests that store a new scan. *)

New(s) == scan[s] = "absent" /\ s \notin deleted /\ \A r \in Requests : about[r] # s

SaveNew(r) ==
  /\ plan[r] = "submit" /\ stage[r] = "idle"
  /\ \E s \in Scans : /\ New(s)
                      /\ about' = [about EXCEPT ![r] = s]
                      /\ Save(s, "pending")
  /\ Proceeds(r, "job")
  /\ UNCHANGED <<scan_job, memory, plan, task, task_scan, read, history>>

\* A job of a scan that is gone violates its foreign key: the request fails.
CreateQueued(r) ==
  /\ stage[r] = "job"
  /\ LET s == about[r]
     IN  IF scan[s] = "absent"
           THEN Proceeds(r, "done") /\ UNCHANGED scan_job
           ELSE Proceeds(r, "enter") /\ scan_job' = [scan_job EXCEPT ![s] = "queued"]
  /\ UNCHANGED <<scan, memory, plan, about, task, task_scan, read, history>>

\* The scheduler thread has no row: start_async_scan will insert one.
Schedule(r) ==
  /\ plan[r] = "schedule" /\ stage[r] = "idle"
  /\ \E s \in Scans : New(s) /\ about' = [about EXCEPT ![r] = s]
  /\ Proceeds(r, "enter")
  /\ UNCHANGED <<rows, plan, task, task_scan, read, history>>

-----------------------------------------------------------------------------
(* start_async_scan *)

\* The target is refused: what the request has stored stays as it is.
Refused(r) ==
  /\ stage[r] = "enter"
  /\ Proceeds(r, "done")
  /\ interrupted' = interrupted \cup {about[r]}
  /\ UNCHANGED <<rows, plan, about, task, task_scan, read, cancelled, deleted, overtaken>>

Enter(r) ==
  /\ stage[r] = "enter"
  /\ Save(about[r], "running")
  /\ Proceeds(r, "ensure")
  /\ UNCHANGED <<scan_job, memory, plan, about, task, task_scan, read, history>>

ReturnTracked(r) ==
  /\ stage[r] = "ensure"
  /\ LET s == about[r]
     IN  IF scan_job[s] # "absent" \/ scan[s] = "absent"
           THEN Proceeds(r, "done") /\ UNCHANGED scan_job
           ELSE Proceeds(r, "submit") /\ scan_job' = [scan_job EXCEPT ![s] = "running"]
  /\ UNCHANGED <<scan, memory, plan, about, task, task_scan, read, history>>

\* The scheduler's scans have no job yet; the others keep theirs, queued as it is.
EnsureJob(r) ==
  /\ stage[r] = "ensure"
  /\ LET s == about[r]
     IN  IF scan[s] = "absent"
           THEN Proceeds(r, "done") /\ UNCHANGED scan_job
           ELSE /\ Proceeds(r, "submit")
                /\ scan_job' = IF scan_job[s] # "absent" THEN scan_job
                               ELSE [scan_job EXCEPT ![s] = "running"]
  /\ UNCHANGED <<scan, memory, plan, about, task, task_scan, read, history>>

Submit(r) ==
  /\ stage[r] = "submit"
  /\ \E t \in Tasks :
       /\ task[t] = "free"
       /\ Moves(t, "queued")
       /\ task_scan' = [task_scan EXCEPT ![t] = about[r]]
  /\ memory' = [memory EXCEPT ![about[r]] = "running"]
  /\ Proceeds(r, "done")
  /\ UNCHANGED <<scan, scan_job, plan, about, read, history>>

-----------------------------------------------------------------------------
(* Requests about a scan. *)

Cancel(r) ==
  /\ plan[r] = "cancel" /\ stage[r] = "idle"
  /\ \E s \in Scans :
       /\ scan_job[s] # "absent"
       /\ about' = [about EXCEPT ![r] = s]
       /\ read' = [read EXCEPT ![r] = scan_job[s]]
       /\ cancelled' = cancelled \cup {s}
  /\ Proceeds(r, "mark")
  /\ UNCHANGED <<rows, plan, task, task_scan, interrupted, deleted, overtaken>>

\* mark_scan_job_status, which refuses a terminal job, and get_scan.
MarkCancelled(r) ==
  /\ stage[r] = "mark"
  /\ IF read[r] \in Terminal THEN UNCHANGED scan_job ELSE Update(about[r], "cancelled")
  /\ Proceeds(r, IF scan[about[r]] = "absent" THEN "done" ELSE "fail")
  /\ UNCHANGED <<scan, memory, plan, about, task, task_scan, read, history>>

SaveFailed(r) ==
  /\ stage[r] = "fail"
  /\ Save(about[r], "failed")
  /\ Proceeds(r, "done")
  /\ UNCHANGED <<scan_job, memory, plan, about, task, task_scan, read, history>>

Retry(r) ==
  /\ plan[r] = "retry" /\ stage[r] = "idle"
  /\ \E s \in Scans : /\ scan_job[s] # "absent" /\ scan[s] # "absent"
                      /\ about' = [about EXCEPT ![r] = s]
  /\ Proceeds(r, "reopen")
  /\ UNCHANGED <<rows, plan, task, task_scan, read, history>>

\* On SQLite nothing keeps a terminal job from being queued again.
Reopen(r) ==
  /\ stage[r] = "reopen"
  /\ Update(about[r], "queued")
  /\ Proceeds(r, "again")
  /\ UNCHANGED <<scan, memory, plan, about, task, task_scan, read, history>>

SaveAgain(r) ==
  /\ stage[r] = "again"
  /\ Save(about[r], "running")
  /\ Proceeds(r, "enter")
  /\ UNCHANGED <<scan_job, memory, plan, about, task, task_scan, read, history>>

\* Who has seen the row, or stored it, and saves it without another look.
AboutToSave(s) ==
  \/ \E r \in Requests : about[r] = s /\ stage[r] \in {"enter", "reopen", "again", "fail"}
  \/ \E t \in Tasks : task_scan[t] = s /\ task[t] = "save"

\* The job goes with its scan.
DeleteScan(r) ==
  /\ plan[r] = "delete" /\ stage[r] = "idle"
  /\ \E s \in Scans :
       /\ scan[s] # "absent"
       /\ about' = [about EXCEPT ![r] = s]
       /\ Save(s, "absent")
       /\ scan_job' = [scan_job EXCEPT ![s] = "absent"]
       /\ deleted' = deleted \cup {s}
       /\ overtaken' = IF AboutToSave(s) THEN overtaken \cup {s} ELSE overtaken
  /\ Proceeds(r, "done")
  /\ UNCHANGED <<memory, plan, task, task_scan, read, interrupted, cancelled>>

-----------------------------------------------------------------------------
(* _execute_async_scan *)

\* A thread of the pool is free.  An error of a scanner becomes a finding.
Execute(t) ==
  /\ task[t] = "queued"
  /\ Cardinality(Executing) < PoolSize
  /\ Moves(t, "scan")
  /\ memory' = [memory EXCEPT ![task_scan[t]] = "running"]
  /\ UNCHANGED <<scan, scan_job, plan, stage, about, task_scan, read, history>>

GoOnAnyway(t) ==
  /\ task[t] = "scan"
  /\ Moves(t, "save")
  /\ UNCHANGED <<rows, plan, stage, about, task_scan, read, history>>

\* get_scan: what follows is skipped where the scan is gone.
LookAgain(t) ==
  /\ task[t] = "scan"
  /\ Moves(t, IF scan[task_scan[t]] = "absent" THEN "end" ELSE "save")
  /\ UNCHANGED <<rows, plan, stage, about, task_scan, read, history>>

\* The row is saved whole: whatever became of its status meanwhile.
Complete(t) ==
  /\ task[t] = "save"
  /\ Save(task_scan[t], "completed")
  /\ Moves(t, "findings")
  /\ UNCHANGED <<scan_job, memory, plan, stage, about, task_scan, read, history>>

\* Scoring or a save raises, the findings for want of their scan: nobody sees it.
Raise(t) ==
  /\ task[t] \in {"save", "findings"}
  /\ Moves(t, "done")
  /\ interrupted' = interrupted \cup {task_scan[t]}
  /\ UNCHANGED <<rows, plan, stage, about, task_scan, read, cancelled, deleted, overtaken>>

SaveFindings(t) ==
  /\ task[t] = "findings" /\ scan[task_scan[t]] # "absent"
  /\ Moves(t, "end")
  /\ UNCHANGED <<rows, plan, stage, about, task_scan, read, history>>

\* _update_progress and the read of mark_scan_job_status.
Finish(t) ==
  /\ task[t] = "end"
  /\ memory' = [memory EXCEPT ![task_scan[t]] = "completed"]
  /\ read' = [read EXCEPT ![t] = scan_job[task_scan[t]]]
  /\ Moves(t, "mark")
  /\ UNCHANGED <<scan, scan_job, plan, stage, about, task_scan, history>>

MarkIfRunning(t) ==
  /\ task[t] = "mark"
  /\ IF read[t] # "running" THEN UNCHANGED scan_job ELSE Update(task_scan[t], "completed")
  /\ Moves(t, "done")
  /\ UNCHANGED <<scan, memory, plan, stage, about, task_scan, read, history>>

MarkCompleted(t) ==
  /\ task[t] = "mark"
  /\ IF read[t] \in Terminal THEN UNCHANGED scan_job ELSE Update(task_scan[t], "completed")
  /\ Moves(t, "done")
  /\ UNCHANGED <<scan, memory, plan, stage, about, task_scan, read, history>>

\* An error of the database is dropped, and the job stays as it is.
MarkFails(t) ==
  /\ task[t] = "mark"
  /\ interrupted' = interrupted \cup {task_scan[t]}
  /\ Moves(t, "done")
  /\ UNCHANGED <<rows, plan, stage, about, task_scan, read, cancelled, deleted, overtaken>>

\* The process is gone, and with it the pool, its queue and _scan_progress.  Nothing
\* looks for running scans when it starts again.
Restart ==
  /\ \E r \in Requests : Underway(r) \/ \E t \in Tasks : InPool(t)
  /\ interrupted' = interrupted \cup {about[r] : r \in {q \in Requests : Underway(q)}}
                                \cup {task_scan[t] : t \in {q \in Tasks : InPool(q)}}
  /\ stage' = [r \in Requests |-> IF Underway(r) THEN "done" ELSE stage[r]]
  /\ task' = [t \in Tasks |-> IF InPool(t) THEN "done" ELSE task[t]]
  /\ memory' = [s \in Scans |-> "none"]
  /\ UNCHANGED <<scan, scan_job, plan, about, task_scan, read, cancelled, deleted, overtaken>>

RequestStep(r) ==
  \/ SaveNew(r) \/ CreateQueued(r) \/ Schedule(r)
  \/ Refused(r) \/ Enter(r) \/ EnsureJob(r) \/ Submit(r)
  \/ Cancel(r) \/ MarkCancelled(r) \/ SaveFailed(r)
  \/ Retry(r) \/ Reopen(r) \/ SaveAgain(r)
  \/ DeleteScan(r)

TaskStep(t) ==
  \/ Execute(t) \/ LookAgain(t) \/ Complete(t) \/ Raise(t)
  \/ SaveFindings(t) \/ Finish(t) \/ MarkCompleted(t) \/ MarkFails(t)

LocalNext ==
  \/ \E r \in Requests : RequestStep(r)
  \/ \E t \in Tasks : TaskStep(t)
  \/ Restart

LocalSpec == LocalInit /\ [][LocalNext]_localVars

-----------------------------------------------------------------------------
(* Correctness. *)

LocalTypeOK ==
  /\ scan \in [Scans -> ScanStatus]
  /\ scan_job \in [Scans -> LocalJobStatus]
  /\ memory \in [Scans -> {"none", "running", "completed"}]
  /\ plan \in [Requests -> Kinds]
  /\ stage \in [Requests -> Stages]
  /\ about \in [Requests -> Scans \cup {NoScan}]
  /\ task \in [Tasks -> Places]
  /\ task_scan \in [Tasks -> Scans \cup {NoScan}]
  /\ read \in [Requests \cup Tasks -> LocalJobStatus]
  /\ interrupted \subseteq Scans /\ cancelled \subseteq Scans
  /\ overtaken \subseteq deleted /\ deleted \subseteq Scans

Starting(s) ==
  \E r \in Requests : about[r] = s /\ stage[r] \in {"job", "enter", "ensure", "submit", "again"}

Awaited(s) == \E t \in Tasks : task_scan[t] = s /\ InPool(t)

AtRest(s) ==
  /\ ~Awaited(s)
  /\ \A r \in Requests : about[r] = s => ~Underway(r)

\* A scan that is shown as pending or running has a task in the pool, or a request that
\* is about to submit one, unless the process, a task or a request of it was interrupted:
\* nothing else looks for scans whose task is gone.
NoScanForgotten ==
  \A s \in Scans : scan[s] \in {"pending", "running"} =>
    s \in interrupted \/ Starting(s) \/ Awaited(s)

\* Once nobody works on a scan any more, it is over in its row, in its job and in the
\* progress that is reported, and row and job agree that it is completed.  Not so of a scan
\* that a request began to cancel: the task saves the row completed and leaves the job
\* cancelled, a cancel that comes late fails the row and leaves the job completed; nor of
\* one that was deleted, whose job has gone.
Agreed ==
  \A s \in Scans \ interrupted : AtRest(s) /\ scan[s] # "absent" =>
    /\ scan[s] \in {"completed", "failed"} /\ memory[s] # "running"
    /\ s \in deleted \/ scan_job[s] \in Terminal
    /\ s \in deleted \cup cancelled \/ (scan[s] = "completed" /\ scan_job[s] = "completed")

\* A deleted scan comes back only if somebody was about to save it when it was deleted.
NotResurrected ==
  \A s \in deleted : scan[s] # "absent" => s \in overtaken
=============================================================================
