---------------------------- MODULE LocalProofs ----------------------------
(***************************************************************************)
(* Theorems about the two modules of the single-process installation:      *)
(* LocalBackend's, that no scan is forgotten, that it ends in its row, its *)
(* job and the progress and that deleted scans stay away, for any number   *)
(* of scans, requests and tasks, any pool and any plans; and those of      *)
(* SchedulerThread.                                                        *)
(***************************************************************************)
EXTENDS LocalBackend, SchedulerThread, TLAPS

Early == {"queued", "scan", "save"}
Late == {"findings", "end"}

\* Who works on a scan has one.
AtWork ==
  /\ \A r \in Requests : stage[r] # "idle" => about[r] \in Scans
  /\ \A t \in Tasks : task[t] # "free" => task_scan[t] \in Scans

\* A task that has saved the scan is no longer what a running scan waits for.
Expected ==
  \A s \in Scans : scan[s] \in {"pending", "running"} =>
    \/ s \in interrupted \/ Starting(s)
    \/ \E t \in Tasks : task_scan[t] = s /\ task[t] \in Early

\* Nobody is about to save a scan that was deleted before he could see it.
Gone == \A s \in deleted \ overtaken : scan[s] = "absent" /\ ~AboutToSave(s)

\* Without a deletion, whoever works on a scan finds its row, and later its job.
RowThere ==
  \A s \in Scans \ deleted : scan[s] = "absent" =>
    /\ \A r \in Requests : about[r] = s =>
         stage[r] \notin {"job", "ensure", "submit", "fail", "reopen", "again"}
    /\ \A t \in Tasks : task_scan[t] = s => ~InPool(t)

JobThere ==
  \A s \in Scans \ deleted : scan_job[s] = "absent" =>
    /\ \A r \in Requests : about[r] = s => stage[r] \notin {"submit", "reopen", "again"}
    /\ \A t \in Tasks : task_scan[t] = s => ~InPool(t)

\* Somebody will still end a job that is not over.
WillEnd(s) ==
  \/ Starting(s)
  \/ \E t \in Tasks : /\ task_scan[t] = s
                      /\ \/ task[t] \in Early \cup Late
                         \/ task[t] = "mark" /\ read[t] \notin Terminal

OpenJobs ==
  \A s \in Scans \ (deleted \cup interrupted) :
    scan[s] # "absent" /\ scan_job[s] \notin Terminal => WillEnd(s)

\* Only a cancelled scan fails.
ByRequest ==
  \A s \in Scans :
    \/ scan_job[s] = "cancelled" \/ scan[s] = "failed"
    \/ \E r \in Requests : about[r] = s /\ stage[r] \in {"mark", "fail"}
    => s \in cancelled

\* The progress says running as long as a task has not reported its end.
Reported ==
  \A s \in Scans \ interrupted : memory[s] = "running" =>
    \E t \in Tasks : task_scan[t] = s /\ task[t] \in Early \cup Late

Parts == AtWork /\ Expected /\ Gone /\ RowThere /\ JobThere /\ OpenJobs /\ ByRequest /\ Reported

LocalInv == LocalTypeOK /\ Parts

LEMMA LocalInitially == LocalInit => LocalInv
  BY PlansAssumption, NoScanAssumption
     DEF LocalInit, LocalInv, Parts, LocalTypeOK, AtWork, Expected, Gone, RowThere, JobThere,
         OpenJobs, ByRequest, Reported, ScanStatus, LocalJobStatus, Stages, Places, InPool,
         AboutToSave, WillEnd, Starting, Terminal

LEMMA LocalTypes == LocalInv /\ LocalNext => LocalTypeOK'
<1>. SUFFICES ASSUME LocalInv, LocalNext PROVE LocalTypeOK'
  OBVIOUS
<1>. USE NoScanAssumption, ActorsAssumption
     DEF LocalTypeOK, LocalInv, Parts, AtWork, ScanStatus, LocalJobStatus, Stages, Places,
         Save, Update, Proceeds, Moves, rows, history
<1>1. ASSUME NEW r \in Requests, RequestStep(r) PROVE LocalTypeOK'
  <2>1. CASE SaveNew(r)
    BY <2>1 DEF SaveNew, New
  <2>2. CASE CreateQueued(r)
    BY <2>2 DEF CreateQueued
  <2>3. CASE Schedule(r)
    BY <2>3 DEF Schedule, New
  <2>4. CASE Refused(r)
    BY <2>4 DEF Refused
  <2>5. CASE Enter(r)
    BY <2>5 DEF Enter
  <2>6. CASE EnsureJob(r)
    BY <2>6 DEF EnsureJob, LocalJobStatus
  <2>7. CASE Submit(r)
    BY <2>7 DEF Submit
  <2>8. CASE Cancel(r)
    BY <2>8 DEF Cancel
  <2>9. CASE MarkCancelled(r)
    BY <2>9 DEF MarkCancelled, Terminal
  <2>10. CASE SaveFailed(r)
    BY <2>10 DEF SaveFailed
  <2>11. CASE Retry(r)
    BY <2>11 DEF Retry
  <2>12. CASE Reopen(r)
    BY <2>12 DEF Reopen
  <2>13. CASE SaveAgain(r)
    BY <2>13 DEF SaveAgain
  <2>14. CASE DeleteScan(r)
    BY <2>14 DEF DeleteScan, AboutToSave
  <2>. QED
    BY <1>1, <2>1, <2>2, <2>3, <2>4, <2>5, <2>6, <2>7, <2>8, <2>9, <2>10, <2>11, <2>12, <2>13, <2>14
       DEF RequestStep
<1>2. ASSUME NEW t \in Tasks, TaskStep(t) PROVE LocalTypeOK'
  <2>1. CASE Execute(t)
    BY <2>1 DEF Execute
  <2>2. CASE LookAgain(t)
    BY <2>2 DEF LookAgain
  <2>3. CASE Complete(t)
    BY <2>3 DEF Complete
  <2>4. CASE Raise(t)
    BY <2>4 DEF Raise
  <2>5. CASE SaveFindings(t)
    BY <2>5 DEF SaveFindings
  <2>6. CASE Finish(t)
    BY <2>6 DEF Finish
  <2>7. CASE MarkCompleted(t)
    BY <2>7 DEF MarkCompleted, Terminal
  <2>8. CASE MarkFails(t)
    BY <2>8 DEF MarkFails
  <2>. QED
    BY <1>2, <2>1, <2>2, <2>3, <2>4, <2>5, <2>6, <2>7, <2>8
       DEF TaskStep
<1>3. CASE Restart
  BY <1>3 DEF Restart, Underway, InPool
<1>. QED BY <1>1, <1>2, <1>3 DEF LocalNext

LEMMA AtWorkStep == LocalInv /\ LocalNext => AtWork'
<1>. SUFFICES ASSUME LocalInv, LocalNext PROVE AtWork'
  OBVIOUS
<1>. USE NoScanAssumption, ActorsAssumption
     DEF AtWork, LocalInv, Parts, LocalTypeOK,
         Save, Update, Proceeds, Moves, rows, history
<1>1. ASSUME NEW r \in Requests, RequestStep(r) PROVE AtWork'
  <2>1. CASE SaveNew(r)
    BY <2>1 DEF SaveNew, New
  <2>2. CASE CreateQueued(r)
    BY <2>2 DEF CreateQueued
  <2>3. CASE Schedule(r)
    BY <2>3 DEF Schedule, New
  <2>4. CASE Refused(r)
    BY <2>4 DEF Refused
  <2>5. CASE Enter(r)
    BY <2>5 DEF Enter
  <2>6. CASE EnsureJob(r)
    BY <2>6 DEF EnsureJob, LocalJobStatus
  <2>7. CASE Submit(r)
    BY <2>7 DEF Submit
  <2>8. CASE Cancel(r)
    BY <2>8 DEF Cancel
  <2>9. CASE MarkCancelled(r)
    BY <2>9 DEF MarkCancelled, Terminal
  <2>10. CASE SaveFailed(r)
    BY <2>10 DEF SaveFailed
  <2>11. CASE Retry(r)
    BY <2>11 DEF Retry
  <2>12. CASE Reopen(r)
    BY <2>12 DEF Reopen
  <2>13. CASE SaveAgain(r)
    BY <2>13 DEF SaveAgain
  <2>14. CASE DeleteScan(r)
    BY <2>14 DEF DeleteScan, AboutToSave
  <2>. QED
    BY <1>1, <2>1, <2>2, <2>3, <2>4, <2>5, <2>6, <2>7, <2>8, <2>9, <2>10, <2>11, <2>12, <2>13, <2>14
       DEF RequestStep
<1>2. ASSUME NEW t \in Tasks, TaskStep(t) PROVE AtWork'
  <2>1. CASE Execute(t)
    BY <2>1 DEF Execute
  <2>2. CASE LookAgain(t)
    BY <2>2 DEF LookAgain
  <2>3. CASE Complete(t)
    BY <2>3 DEF Complete
  <2>4. CASE Raise(t)
    BY <2>4 DEF Raise
  <2>5. CASE SaveFindings(t)
    BY <2>5 DEF SaveFindings
  <2>6. CASE Finish(t)
    BY <2>6 DEF Finish
  <2>7. CASE MarkCompleted(t)
    BY <2>7 DEF MarkCompleted, Terminal
  <2>8. CASE MarkFails(t)
    BY <2>8 DEF MarkFails
  <2>. QED
    BY <1>2, <2>1, <2>2, <2>3, <2>4, <2>5, <2>6, <2>7, <2>8
       DEF TaskStep
<1>3. CASE Restart
  BY <1>3 DEF Restart, Underway, InPool
<1>. QED BY <1>1, <1>2, <1>3 DEF LocalNext

LEMMA ExpectedStep == LocalInv /\ LocalNext => Expected'
<1>. SUFFICES ASSUME LocalInv, LocalNext PROVE Expected'
  OBVIOUS
<1>. USE NoScanAssumption, ActorsAssumption
     DEF Expected, LocalInv, Parts, LocalTypeOK, AtWork, Starting, Early,
         Save, Update, Proceeds, Moves, rows, history
<1>1. ASSUME NEW r \in Requests, RequestStep(r) PROVE Expected'
  <2>1. CASE SaveNew(r)
    BY <2>1 DEF SaveNew, New
  <2>2. CASE CreateQueued(r)
    BY <2>2 DEF CreateQueued
  <2>3. CASE Schedule(r)
    BY <2>3 DEF Schedule, New
  <2>4. CASE Refused(r)
    BY <2>4 DEF Refused
  <2>5. CASE Enter(r)
    BY <2>5 DEF Enter
  <2>6. CASE EnsureJob(r)
    BY <2>6 DEF EnsureJob, LocalJobStatus
  <2>7. CASE Submit(r)
    BY <2>7 DEF Submit
  <2>8. CASE Cancel(r)
    BY <2>8 DEF Cancel
  <2>9. CASE MarkCancelled(r)
    BY <2>9 DEF MarkCancelled, Terminal
  <2>10. CASE SaveFailed(r)
    BY <2>10 DEF SaveFailed
  <2>11. CASE Retry(r)
    BY <2>11 DEF Retry
  <2>12. CASE Reopen(r)
    BY <2>12 DEF Reopen
  <2>13. CASE SaveAgain(r)
    BY <2>13 DEF SaveAgain
  <2>14. CASE DeleteScan(r)
    BY <2>14 DEF DeleteScan, AboutToSave
  <2>. QED
    BY <1>1, <2>1, <2>2, <2>3, <2>4, <2>5, <2>6, <2>7, <2>8, <2>9, <2>10, <2>11, <2>12, <2>13, <2>14
       DEF RequestStep
<1>2. ASSUME NEW t \in Tasks, TaskStep(t) PROVE Expected'
  <2>1. CASE Execute(t)
    BY <2>1 DEF Execute
  <2>2. CASE LookAgain(t)
    BY <2>2 DEF LookAgain
  <2>3. CASE Complete(t)
    BY <2>3 DEF Complete
  <2>4. CASE Raise(t)
    BY <2>4 DEF Raise
  <2>5. CASE SaveFindings(t)
    BY <2>5 DEF SaveFindings
  <2>6. CASE Finish(t)
    BY <2>6 DEF Finish
  <2>7. CASE MarkCompleted(t)
    BY <2>7 DEF MarkCompleted, Terminal
  <2>8. CASE MarkFails(t)
    BY <2>8 DEF MarkFails
  <2>. QED
    BY <1>2, <2>1, <2>2, <2>3, <2>4, <2>5, <2>6, <2>7, <2>8
       DEF TaskStep
<1>3. CASE Restart
  BY <1>3 DEF Restart, Underway, InPool
<1>. QED BY <1>1, <1>2, <1>3 DEF LocalNext

LEMMA GoneStep == LocalInv /\ LocalNext => Gone'
<1>. SUFFICES ASSUME LocalInv, LocalNext PROVE Gone'
  OBVIOUS
<1>. USE NoScanAssumption, ActorsAssumption
     DEF Gone, LocalInv, Parts, LocalTypeOK, AtWork, AboutToSave,
         Save, Update, Proceeds, Moves, rows, history
<1>1. ASSUME NEW r \in Requests, RequestStep(r) PROVE Gone'
  <2>1. CASE SaveNew(r)
    BY <2>1 DEF SaveNew, New
  <2>2. CASE CreateQueued(r)
    BY <2>2 DEF CreateQueued
  <2>3. CASE Schedule(r)
    BY <2>3 DEF Schedule, New
  <2>4. CASE Refused(r)
    BY <2>4 DEF Refused
  <2>5. CASE Enter(r)
    BY <2>5 DEF Enter
  <2>6. CASE EnsureJob(r)
    BY <2>6 DEF EnsureJob, LocalJobStatus
  <2>7. CASE Submit(r)
    BY <2>7 DEF Submit
  <2>8. CASE Cancel(r)
    BY <2>8 DEF Cancel
  <2>9. CASE MarkCancelled(r)
    BY <2>9 DEF MarkCancelled, Terminal
  <2>10. CASE SaveFailed(r)
    BY <2>10 DEF SaveFailed
  <2>11. CASE Retry(r)
    BY <2>11 DEF Retry
  <2>12. CASE Reopen(r)
    BY <2>12 DEF Reopen
  <2>13. CASE SaveAgain(r)
    BY <2>13 DEF SaveAgain
  <2>14. CASE DeleteScan(r)
    BY <2>14 DEF DeleteScan
  <2>. QED
    BY <1>1, <2>1, <2>2, <2>3, <2>4, <2>5, <2>6, <2>7, <2>8, <2>9, <2>10, <2>11, <2>12, <2>13, <2>14
       DEF RequestStep
<1>2. ASSUME NEW t \in Tasks, TaskStep(t) PROVE Gone'
  <2>1. CASE Execute(t)
    BY <2>1 DEF Execute
  <2>2. CASE LookAgain(t)
    BY <2>2 DEF LookAgain
  <2>3. CASE Complete(t)
    BY <2>3 DEF Complete
  <2>4. CASE Raise(t)
    BY <2>4 DEF Raise
  <2>5. CASE SaveFindings(t)
    BY <2>5 DEF SaveFindings
  <2>6. CASE Finish(t)
    BY <2>6 DEF Finish
  <2>7. CASE MarkCompleted(t)
    BY <2>7 DEF MarkCompleted, Terminal
  <2>8. CASE MarkFails(t)
    BY <2>8 DEF MarkFails
  <2>. QED
    BY <1>2, <2>1, <2>2, <2>3, <2>4, <2>5, <2>6, <2>7, <2>8
       DEF TaskStep
<1>3. CASE Restart
  BY <1>3 DEF Restart, Underway, InPool
<1>. QED BY <1>1, <1>2, <1>3 DEF LocalNext

LEMMA RowThereStep == LocalInv /\ LocalNext => RowThere'
<1>. SUFFICES ASSUME LocalInv, LocalNext PROVE RowThere'
  OBVIOUS
<1>. USE NoScanAssumption, ActorsAssumption
     DEF RowThere, LocalInv, Parts, LocalTypeOK, AtWork, InPool,
         Save, Update, Proceeds, Moves, rows, history
<1>1. ASSUME NEW r \in Requests, RequestStep(r) PROVE RowThere'
  <2>1. CASE SaveNew(r)
    BY <2>1 DEF SaveNew, New
  <2>2. CASE CreateQueued(r)
    BY <2>2 DEF CreateQueued
  <2>3. CASE Schedule(r)
    BY <2>3 DEF Schedule, New
  <2>4. CASE Refused(r)
    BY <2>4 DEF Refused
  <2>5. CASE Enter(r)
    BY <2>5 DEF Enter
  <2>6. CASE EnsureJob(r)
    BY <2>6 DEF EnsureJob, LocalJobStatus
  <2>7. CASE Submit(r)
    BY <2>7 DEF Submit
  <2>8. CASE Cancel(r)
    BY <2>8 DEF Cancel
  <2>9. CASE MarkCancelled(r)
    BY <2>9 DEF MarkCancelled, Terminal
  <2>10. CASE SaveFailed(r)
    BY <2>10 DEF SaveFailed
  <2>11. CASE Retry(r)
    BY <2>11 DEF Retry
  <2>12. CASE Reopen(r)
    BY <2>12 DEF Reopen
  <2>13. CASE SaveAgain(r)
    BY <2>13 DEF SaveAgain
  <2>14. CASE DeleteScan(r)
    BY <2>14 DEF DeleteScan, AboutToSave
  <2>. QED
    BY <1>1, <2>1, <2>2, <2>3, <2>4, <2>5, <2>6, <2>7, <2>8, <2>9, <2>10, <2>11, <2>12, <2>13, <2>14
       DEF RequestStep
<1>2. ASSUME NEW t \in Tasks, TaskStep(t) PROVE RowThere'
  <2>1. CASE Execute(t)
    BY <2>1 DEF Execute
  <2>2. CASE LookAgain(t)
    BY <2>2 DEF LookAgain
  <2>3. CASE Complete(t)
    BY <2>3 DEF Complete
  <2>4. CASE Raise(t)
    BY <2>4 DEF Raise
  <2>5. CASE SaveFindings(t)
    BY <2>5 DEF SaveFindings
  <2>6. CASE Finish(t)
    BY <2>6 DEF Finish
  <2>7. CASE MarkCompleted(t)
    BY <2>7 DEF MarkCompleted, Terminal
  <2>8. CASE MarkFails(t)
    BY <2>8 DEF MarkFails
  <2>. QED
    BY <1>2, <2>1, <2>2, <2>3, <2>4, <2>5, <2>6, <2>7, <2>8
       DEF TaskStep
<1>3. CASE Restart
  BY <1>3 DEF Restart, Underway, InPool
<1>. QED BY <1>1, <1>2, <1>3 DEF LocalNext

LEMMA JobThereStep == LocalInv /\ LocalNext => JobThere'
<1>. SUFFICES ASSUME LocalInv, LocalNext PROVE JobThere'
  OBVIOUS
<1>. USE NoScanAssumption, ActorsAssumption
     DEF JobThere, LocalInv, Parts, LocalTypeOK, AtWork, InPool,
         Save, Update, Proceeds, Moves, rows, history
<1>1. ASSUME NEW r \in Requests, RequestStep(r) PROVE JobThere'
  <2>1. CASE SaveNew(r)
    BY <2>1 DEF SaveNew, New
  <2>2. CASE CreateQueued(r)
    BY <2>2 DEF CreateQueued
  <2>3. CASE Schedule(r)
    BY <2>3 DEF Schedule, New
  <2>4. CASE Refused(r)
    BY <2>4 DEF Refused
  <2>5. CASE Enter(r)
    BY <2>5 DEF Enter
  <2>6. CASE EnsureJob(r)
    BY <2>6 DEF EnsureJob, LocalJobStatus
  <2>7. CASE Submit(r)
    BY <2>7 DEF Submit
  <2>8. CASE Cancel(r)
    BY <2>8 DEF Cancel
  <2>9. CASE MarkCancelled(r)
    BY <2>9 DEF MarkCancelled, Terminal
  <2>10. CASE SaveFailed(r)
    BY <2>10 DEF SaveFailed
  <2>11. CASE Retry(r)
    BY <2>11 DEF Retry
  <2>12. CASE Reopen(r)
    BY <2>12 DEF Reopen
  <2>13. CASE SaveAgain(r)
    BY <2>13 DEF SaveAgain
  <2>14. CASE DeleteScan(r)
    BY <2>14 DEF DeleteScan, AboutToSave
  <2>. QED
    BY <1>1, <2>1, <2>2, <2>3, <2>4, <2>5, <2>6, <2>7, <2>8, <2>9, <2>10, <2>11, <2>12, <2>13, <2>14
       DEF RequestStep
<1>2. ASSUME NEW t \in Tasks, TaskStep(t) PROVE JobThere'
  <2>1. CASE Execute(t)
    BY <2>1 DEF Execute
  <2>2. CASE LookAgain(t)
    BY <2>2 DEF LookAgain
  <2>3. CASE Complete(t)
    BY <2>3 DEF Complete
  <2>4. CASE Raise(t)
    BY <2>4 DEF Raise
  <2>5. CASE SaveFindings(t)
    BY <2>5 DEF SaveFindings
  <2>6. CASE Finish(t)
    BY <2>6 DEF Finish
  <2>7. CASE MarkCompleted(t)
    BY <2>7 DEF MarkCompleted, Terminal
  <2>8. CASE MarkFails(t)
    BY <2>8 DEF MarkFails
  <2>. QED
    BY <1>2, <2>1, <2>2, <2>3, <2>4, <2>5, <2>6, <2>7, <2>8
       DEF TaskStep
<1>3. CASE Restart
  BY <1>3 DEF Restart, Underway, InPool
<1>. QED BY <1>1, <1>2, <1>3 DEF LocalNext

LEMMA OpenJobsStep == LocalInv /\ LocalNext => OpenJobs'
<1>. SUFFICES ASSUME LocalInv, LocalNext PROVE OpenJobs'
  OBVIOUS
<1>. USE NoScanAssumption, ActorsAssumption
     DEF OpenJobs, LocalInv, Parts, LocalTypeOK, AtWork, WillEnd, Starting, Early, Late, Terminal, JobThere, RowThere, InPool,
         Save, Update, Proceeds, Moves, rows, history
<1>1. ASSUME NEW r \in Requests, RequestStep(r) PROVE OpenJobs'
  <2>1. CASE SaveNew(r)
    BY <2>1 DEF SaveNew, New
  <2>2. CASE CreateQueued(r)
    BY <2>2 DEF CreateQueued
  <2>3. CASE Schedule(r)
    BY <2>3 DEF Schedule, New
  <2>4. CASE Refused(r)
    BY <2>4 DEF Refused
  <2>5. CASE Enter(r)
    BY <2>5 DEF Enter
  <2>6. CASE EnsureJob(r)
    BY <2>6 DEF EnsureJob, LocalJobStatus
  <2>7. CASE Submit(r)
    BY <2>7 DEF Submit
  <2>8. CASE Cancel(r)
    BY <2>8 DEF Cancel
  <2>9. CASE MarkCancelled(r)
    BY <2>9 DEF MarkCancelled
  <2>10. CASE SaveFailed(r)
    BY <2>10 DEF SaveFailed, RowThere
  <2>11. CASE Retry(r)
    BY <2>11 DEF Retry
  <2>12. CASE Reopen(r)
    BY <2>12 DEF Reopen
  <2>13. CASE SaveAgain(r)
    BY <2>13 DEF SaveAgain
  <2>14. CASE DeleteScan(r)
    BY <2>14 DEF DeleteScan, AboutToSave
  <2>. QED
    BY <1>1, <2>1, <2>2, <2>3, <2>4, <2>5, <2>6, <2>7, <2>8, <2>9, <2>10, <2>11, <2>12, <2>13, <2>14
       DEF RequestStep
<1>2. ASSUME NEW t \in Tasks, TaskStep(t) PROVE OpenJobs'
  <2>1. CASE Execute(t)
    BY <2>1 DEF Execute
  <2>2. CASE LookAgain(t)
    BY <2>2 DEF LookAgain
  <2>3. CASE Complete(t)
    BY <2>3 DEF Complete
  <2>4. CASE Raise(t)
    BY <2>4 DEF Raise
  <2>5. CASE SaveFindings(t)
    BY <2>5 DEF SaveFindings
  <2>6. CASE Finish(t)
    BY <2>6 DEF Finish
  <2>7. CASE MarkCompleted(t)
    BY <2>7 DEF MarkCompleted
  <2>8. CASE MarkFails(t)
    BY <2>8 DEF MarkFails
  <2>. QED
    BY <1>2, <2>1, <2>2, <2>3, <2>4, <2>5, <2>6, <2>7, <2>8
       DEF TaskStep
<1>3. CASE Restart
  BY <1>3 DEF Restart, Underway, InPool
<1>. QED BY <1>1, <1>2, <1>3 DEF LocalNext

LEMMA ByRequestStep == LocalInv /\ LocalNext => ByRequest'
<1>. SUFFICES ASSUME LocalInv, LocalNext PROVE ByRequest'
  OBVIOUS
<1>. USE NoScanAssumption, ActorsAssumption
     DEF ByRequest, LocalInv, Parts, LocalTypeOK, AtWork,
         Save, Update, Proceeds, Moves, rows, history
<1>1. ASSUME NEW r \in Requests, RequestStep(r) PROVE ByRequest'
  <2>1. CASE SaveNew(r)
    BY <2>1 DEF SaveNew, New
  <2>2. CASE CreateQueued(r)
    BY <2>2 DEF CreateQueued
  <2>3. CASE Schedule(r)
    BY <2>3 DEF Schedule, New
  <2>4. CASE Refused(r)
    BY <2>4 DEF Refused
  <2>5. CASE Enter(r)
    BY <2>5 DEF Enter
  <2>6. CASE EnsureJob(r)
    BY <2>6 DEF EnsureJob, LocalJobStatus
  <2>7. CASE Submit(r)
    BY <2>7 DEF Submit
  <2>8. CASE Cancel(r)
    BY <2>8 DEF Cancel
  <2>9. CASE MarkCancelled(r)
    BY <2>9 DEF MarkCancelled, Terminal
  <2>10. CASE SaveFailed(r)
    BY <2>10 DEF SaveFailed
  <2>11. CASE Retry(r)
    BY <2>11 DEF Retry
  <2>12. CASE Reopen(r)
    BY <2>12 DEF Reopen
  <2>13. CASE SaveAgain(r)
    BY <2>13 DEF SaveAgain
  <2>14. CASE DeleteScan(r)
    BY <2>14 DEF DeleteScan, AboutToSave
  <2>. QED
    BY <1>1, <2>1, <2>2, <2>3, <2>4, <2>5, <2>6, <2>7, <2>8, <2>9, <2>10, <2>11, <2>12, <2>13, <2>14
       DEF RequestStep
<1>2. ASSUME NEW t \in Tasks, TaskStep(t) PROVE ByRequest'
  <2>1. CASE Execute(t)
    BY <2>1 DEF Execute
  <2>2. CASE LookAgain(t)
    BY <2>2 DEF LookAgain
  <2>3. CASE Complete(t)
    BY <2>3 DEF Complete
  <2>4. CASE Raise(t)
    BY <2>4 DEF Raise
  <2>5. CASE SaveFindings(t)
    BY <2>5 DEF SaveFindings
  <2>6. CASE Finish(t)
    BY <2>6 DEF Finish
  <2>7. CASE MarkCompleted(t)
    BY <2>7 DEF MarkCompleted, Terminal
  <2>8. CASE MarkFails(t)
    BY <2>8 DEF MarkFails
  <2>. QED
    BY <1>2, <2>1, <2>2, <2>3, <2>4, <2>5, <2>6, <2>7, <2>8
       DEF TaskStep
<1>3. CASE Restart
  BY <1>3 DEF Restart, Underway, InPool
<1>. QED BY <1>1, <1>2, <1>3 DEF LocalNext

LEMMA ReportedStep == LocalInv /\ LocalNext => Reported'
<1>. SUFFICES ASSUME LocalInv, LocalNext PROVE Reported'
  OBVIOUS
<1>. USE NoScanAssumption, ActorsAssumption
     DEF Reported, LocalInv, Parts, LocalTypeOK, AtWork, Early, Late,
         Save, Update, Proceeds, Moves, rows, history
<1>1. ASSUME NEW r \in Requests, RequestStep(r) PROVE Reported'
  <2>1. CASE SaveNew(r)
    BY <2>1 DEF SaveNew, New
  <2>2. CASE CreateQueued(r)
    BY <2>2 DEF CreateQueued
  <2>3. CASE Schedule(r)
    BY <2>3 DEF Schedule, New
  <2>4. CASE Refused(r)
    BY <2>4 DEF Refused
  <2>5. CASE Enter(r)
    BY <2>5 DEF Enter
  <2>6. CASE EnsureJob(r)
    BY <2>6 DEF EnsureJob, LocalJobStatus
  <2>7. CASE Submit(r)
    BY <2>7 DEF Submit
  <2>8. CASE Cancel(r)
    BY <2>8 DEF Cancel
  <2>9. CASE MarkCancelled(r)
    BY <2>9 DEF MarkCancelled, Terminal
  <2>10. CASE SaveFailed(r)
    BY <2>10 DEF SaveFailed
  <2>11. CASE Retry(r)
    BY <2>11 DEF Retry
  <2>12. CASE Reopen(r)
    BY <2>12 DEF Reopen
  <2>13. CASE SaveAgain(r)
    BY <2>13 DEF SaveAgain
  <2>14. CASE DeleteScan(r)
    BY <2>14 DEF DeleteScan, AboutToSave
  <2>. QED
    BY <1>1, <2>1, <2>2, <2>3, <2>4, <2>5, <2>6, <2>7, <2>8, <2>9, <2>10, <2>11, <2>12, <2>13, <2>14
       DEF RequestStep
<1>2. ASSUME NEW t \in Tasks, TaskStep(t) PROVE Reported'
  <2>1. CASE Execute(t)
    BY <2>1 DEF Execute
  <2>2. CASE LookAgain(t)
    BY <2>2 DEF LookAgain
  <2>3. CASE Complete(t)
    BY <2>3 DEF Complete
  <2>4. CASE Raise(t)
    BY <2>4 DEF Raise
  <2>5. CASE SaveFindings(t)
    BY <2>5 DEF SaveFindings
  <2>6. CASE Finish(t)
    BY <2>6 DEF Finish
  <2>7. CASE MarkCompleted(t)
    BY <2>7 DEF MarkCompleted, Terminal
  <2>8. CASE MarkFails(t)
    BY <2>8 DEF MarkFails
  <2>. QED
    BY <1>2, <2>1, <2>2, <2>3, <2>4, <2>5, <2>6, <2>7, <2>8
       DEF TaskStep
<1>3. CASE Restart
  BY <1>3 DEF Restart, Underway, InPool
<1>. QED BY <1>1, <1>2, <1>3 DEF LocalNext

LEMMA LocalStep == LocalInv /\ [LocalNext]_localVars => LocalInv'
<1>1. CASE LocalNext
  BY <1>1, LocalTypes, AtWorkStep, ExpectedStep, GoneStep, RowThereStep, JobThereStep,
     OpenJobsStep, ByRequestStep, ReportedStep DEF LocalInv, Parts
<1>2. CASE UNCHANGED localVars
  BY <1>2 DEF localVars, rows, history, LocalInv, Parts, LocalTypeOK, AtWork, Expected, Gone,
     RowThere, JobThere, OpenJobs, ByRequest, Reported, InPool, AboutToSave, WillEnd, Starting
<1>. QED BY <1>1, <1>2

\* The shape of the state, for any scans, requests, tasks and plans.
THEOREM LocalTypeCorrect == LocalSpec => []LocalTypeOK
<1>1. LocalInv => LocalTypeOK
  BY DEF LocalInv
<1>. QED BY LocalInitially, LocalStep, <1>1, PTL DEF LocalSpec

\* A scan shown as pending or running has a task or a request that will submit one, unless
\* its process, a task or a request of it was interrupted.
THEOREM NothingForgotten == LocalSpec => []NoScanForgotten
<1>1. LocalInv => NoScanForgotten
  BY DEF LocalInv, Parts, Expected, NoScanForgotten, Awaited, InPool, Early
<1>. QED BY LocalInitially, LocalStep, <1>1, PTL DEF LocalSpec

\* A deleted scan comes back only if somebody was about to save it when it was deleted.
THEOREM DeletedStayAway == LocalSpec => []NotResurrected
<1>1. LocalInv => NotResurrected
  BY DEF LocalInv, Parts, Gone, NotResurrected
<1>. QED BY LocalInitially, LocalStep, <1>1, PTL DEF LocalSpec

\* Once nobody works on a scan any more, it is over in its row, its job and the progress, and
\* row and job say that it is completed, unless it was cancelled or deleted meanwhile.
THEOREM AgreedHolds == LocalSpec => []Agreed
<1>1. LocalInv => Agreed
  <2>. SUFFICES ASSUME LocalInv, NEW s \in Scans \ interrupted, AtRest(s), scan[s] # "absent"
                PROVE  /\ scan[s] \in {"completed", "failed"} /\ memory[s] # "running"
                       /\ s \in deleted \/ scan_job[s] \in Terminal
                       /\ \/ s \in deleted \cup cancelled
                          \/ scan[s] = "completed" /\ scan_job[s] = "completed"
    BY DEF Agreed
  <2>1. ~Starting(s)
    BY DEF AtRest, Starting, Underway
  <2>2. \A t \in Tasks : task_scan[t] = s => task[t] \notin Early \cup Late \cup {"mark"}
    BY DEF AtRest, Awaited, InPool, Early, Late
  <2>3. scan[s] \in {"completed", "failed"}
    BY <2>1, <2>2 DEF LocalInv, Parts, LocalTypeOK, ScanStatus, Expected
  <2>4. memory[s] # "running"
    BY <2>2 DEF LocalInv, Parts, Reported
  <2>5. s \in deleted \/ scan_job[s] \in Terminal
    BY <2>1, <2>2 DEF LocalInv, Parts, OpenJobs, WillEnd
  <2>6. s \notin cancelled => scan[s] # "failed" /\ scan_job[s] # "cancelled"
    BY DEF LocalInv, Parts, ByRequest
  <2>. QED BY <2>3, <2>4, <2>5, <2>6 DEF Terminal
<1>. QED BY LocalInitially, LocalStep, <1>1, PTL DEF LocalSpec

-----------------------------------------------------------------------------
(* The legacy scheduler thread: one scan per interval, and none of a schedule *)
(* that is off, for any number of processes, threads and requests.           *)

\* A row that is about to be saved was there, and due if it is a run that is saved.
Kept(l) ==
  /\ turn[l] = "compare" => view[l].there
  /\ turn[l] = "save" =>
       /\ Scheduled(view[l]) /\ moment[l].at >= 1
       /\ view[l].last = 0 \/ moment[l].at >= view[l].last + Period

Viewed ==
  /\ \A e \in Editors : turn[e] = "edit" => view[e].there
  /\ \A l \in Threads : Kept(l)

\* Until the next revert the row that is left remembers the latest run.
Remembered(m) ==
  /\ m.at >= 1 /\ m.reverts <= reverts
  /\ m.reverts = reverts /\ entry.there => m.at <= entry.last

InRow ==
  /\ \A s \in starts : Remembered(s.run)
  /\ \A l \in Threads : turn[l] = "start" => Remembered(moment[l])

Apart(m, n) ==
  m.reverts = n.reverts => m.at + Period <= n.at \/ n.at + Period <= m.at

\* Runs that were saved are apart, whether their scans have been started or not.
Separate ==
  /\ \A s, t \in starts : s = t \/ Apart(s.run, t.run)
  /\ \A s \in starts : \A l \in Threads : turn[l] = "start" => Apart(s.run, moment[l])
  /\ \A k, l \in Threads :
       turn[k] = "start" /\ turn[l] = "start" => k = l \/ Apart(moment[k], moment[l])

\* A schedule goes off again with no fewer reverts.
Since(o, p) == o = p \/ (p.is /\ o.at <= p.at)

\* Whoever saved while it was off has reverted that; a thread whose scan was caught between
\* has no run that it stored before the same time.
OffUntilReverted ==
  /\ off.at <= reverts
  /\ off.is /\ Scheduled(entry) => reverts > off.at
  /\ \A l \in Threads :
       turn[l] = "start" /\ moment[l].off.is => moment[l].reverts > moment[l].off.at
  /\ \A l \in Threads :
       turn[l] = "start" => Since(moment[l].off, off) /\ moment[l].reverts <= reverts

StartedOff ==
  /\ \A s \in starts : Since(s.run.off, s.off) /\ Since(s.off, off)
  /\ \A s \in starts : s.off.is => s.reverts > s.off.at \/ CaughtBetween(s)
  /\ \A s \in starts :
       CaughtBetween(s) /\ s.off = off /\ turn[s.by] = "start" => moment[s.by].off = off
  /\ \A s, t \in starts :
       CaughtBetween(s) /\ CaughtBetween(t) /\ s.by = t.by /\ s.off = t.off => s = t

ThreadsInv == ThreadsTypeOK /\ Viewed /\ InRow /\ Separate /\ OffUntilReverted
              /\ StartedOff

LEMMA ThreadsInitially == ThreadsInit => ThreadsInv
  BY EditsAssumption, HoursAssumption, WhoeverAssumption
     DEF ThreadsInit, ThreadsInv, ThreadsTypeOK, Viewed, Kept, InRow, Separate, OffUntilReverted, StartedOff,
         Entry, NoEntry, Moment, NoMoment, Off, NotOff, Whoever

\* A thread that compares the times goes to sleep, or keeps a run that is due.
LEMMA Compares ==
  ASSUME ThreadsTypeOK, NEW l \in Threads, Compare(l)
  PROVE  /\ UNCHANGED <<hour, entry, running, edit, restarts, starts, reverts, off>>
         /\ ThreadsTypeOK'
         /\ \A x \in Whoever \ {l} : turn'[x] = turn[x] /\ view'[x] = view[x]
         /\ \A k \in Threads \ {l} : moment'[k] = moment[k]
         /\ \/ turn'[l] = "asleep"
            \/ turn'[l] = "save" /\ view'[l] = view[l] /\ Due(view[l]) /\ moment'[l].at = hour
<1>. USE HoursAssumption DEF ThreadsTypeOK, Whoever
<1>1. UNCHANGED <<hour, entry, running, edit, restarts, starts, reverts, off>>
  BY DEF Compare
<1>2. CASE Due(view[l])
  <2>1. /\ moment' = [moment EXCEPT ![l].at = hour]
        /\ turn' = [turn EXCEPT ![l] = "save"] /\ view' = view
    BY <1>2 DEF Compare, Turns
  <2>2. moment[l] \in Moment /\ hour \in 0..LastHour
    OBVIOUS
  <2>3. [moment[l] EXCEPT !.at = hour] \in Moment /\ [moment[l] EXCEPT !.at = hour].at = hour
    BY <2>2 DEF Moment
  <2>4. moment' = [moment EXCEPT ![l] = [moment[l] EXCEPT !.at = hour]]
    BY <2>1
  <2>5. moment' \in [Threads -> Moment] /\ moment'[l].at = hour
    BY <2>3, <2>4
  <2>. QED BY <1>1, <1>2, <2>1, <2>5
<1>3. CASE ~Due(view[l])
  <2>1. Sleeps(l)
    BY <1>3 DEF Compare
  <2>. QED
    BY <1>1, <2>1 DEF Sleeps, Turns, Entry, NoEntry, Moment, NoMoment, Off, NotOff
<1>. QED BY <1>2, <1>3

\* A run that is saved remembers whether the save reverted another.
LEMMA Saves ==
  ASSUME ThreadsTypeOK, NEW l \in Threads, SaveRun(l)
  PROVE  /\ UNCHANGED <<hour, running, view, edit, restarts, starts, off>>
         /\ ThreadsTypeOK'
         /\ turn' = [turn EXCEPT ![l] = "start"]
         /\ \A k \in Threads \ {l} : moment'[k] = moment[k]
         /\ moment'[l].at = moment[l].at
         /\ moment'[l].reverts = reverts' /\ moment'[l].off = off
         /\ entry'.there = view[l].there /\ entry'.enabled = view[l].enabled
         /\ entry'.last = moment[l].at
         /\ IF entry = view[l] THEN reverts' = reverts ELSE reverts' = reverts + 1
<1>. USE HoursAssumption DEF ThreadsTypeOK, Whoever
<1>1. /\ entry' = [view[l] EXCEPT !.last = moment[l].at]
      /\ reverts' = IF entry = view[l] THEN reverts ELSE reverts + 1
      /\ turn' = [turn EXCEPT ![l] = "start"]
      /\ UNCHANGED <<hour, running, view, edit, restarts, starts, off>>
  BY DEF SaveRun, Replace, Turns
<1>2. view[l] \in Entry /\ moment[l] \in Moment /\ reverts' \in Nat
  BY <1>1
<1>3. moment[l].at \in 0..LastHour
  BY <1>2 DEF Moment
<1>4. /\ entry' \in Entry /\ entry'.there = view[l].there
      /\ entry'.enabled = view[l].enabled /\ entry'.last = moment[l].at
  BY <1>1, <1>2, <1>3 DEF Entry
<1>. DEFINE m == [moment[l] EXCEPT !.reverts = reverts', !.off = off]
<1>5. m \in Moment /\ m.at = moment[l].at /\ m.reverts = reverts' /\ m.off = off
  BY <1>2 DEF Moment
<1>6. moment' = [moment EXCEPT ![l] = m]
  BY DEF SaveRun
<1>. HIDE DEF m
<1>7. /\ moment' \in [Threads -> Moment] /\ moment'[l] = m
      /\ \A k \in Threads \ {l} : moment'[k] = moment[k]
  BY <1>5, <1>6
<1>. QED BY <1>1, <1>2, <1>4, <1>5, <1>7

LEMMA ThreadsTypes == ThreadsInv /\ ThreadsNext => ThreadsTypeOK'
<1>. SUFFICES ASSUME ThreadsInv, ThreadsNext PROVE ThreadsTypeOK'
  OBVIOUS
<1>. USE HoursAssumption, ProcessesAssumption, WhoeverAssumption
     DEF ThreadsInv, ThreadsTypeOK, Entry, NoEntry, Moment, NoMoment, Off, NotOff, Whoever
<1>1. ASSUME NEW l \in Threads, ThreadStep(l) PROVE ThreadsTypeOK'
  <2>1. CASE FindNotRunning(l)
    BY <2>1 DEF FindNotRunning, Turns
  <2>2. CASE StartThread(l)
    BY <2>2 DEF StartThread, Turns
  <2>3. CASE ListScheduled(l)
    BY <2>3 DEF ListScheduled, Turns
  <2>4. CASE Compare(l)
    BY <2>4, Compares
  <2>5. CASE SaveRun(l)
    BY <2>5, Saves
  <2>6. CASE SaveFails(l)
    BY <2>6 DEF SaveFails, Sleeps, Turns
  <2>7. CASE StartScan(l)
    BY <2>7 DEF StartScan, Sleeps, Turns
  <2>8. CASE StartFails(l)
    BY <2>8 DEF StartFails, Sleeps, Turns
  <2>. QED
    BY <1>1, <2>1, <2>2, <2>3, <2>4, <2>5, <2>6, <2>7, <2>8 DEF ThreadStep
<1>2. ASSUME NEW e \in Editors, EditStep(e) PROVE ThreadsTypeOK'
  <2>1. CASE ReadRow(e)
    BY <2>1 DEF ReadRow, Turns
  <2>2. CASE PauseUntil(e)
    BY <2>2 DEF PauseUntil, Replace, Turns
  <2>3. CASE Disable(e)
    <3>1. view[e] \in Entry
      OBVIOUS
    <3>2. [view[e] EXCEPT !.enabled = FALSE] \in Entry
      BY <3>1
    <3>3. CASE view[e].enabled
      <4>1. entry' = [view[e] EXCEPT !.enabled = FALSE] /\ reverts' \in Nat
        BY <2>3, <3>3 DEF Disable, Replace
      <4>2. off' = [is |-> TRUE, at |-> reverts']
        BY <2>3, <3>3 DEF Disable
      <4>. QED BY <2>3, <3>2, <4>1, <4>2 DEF Disable, Turns
    <3>4. CASE ~view[e].enabled
      BY <2>3, <3>4 DEF Disable, Turns
    <3>. QED BY <3>3, <3>4
  <2>4. CASE DeleteRow(e)
    BY <2>4 DEF DeleteRow, Turns
  <2>. QED BY <1>2, <2>1, <2>2, <2>3, <2>4 DEF EditStep
<1>3. ASSUME NEW p \in WebProcesses, Replaced(p) PROVE ThreadsTypeOK'
  BY <1>3 DEF Replaced, Of
<1>4. CASE HourPasses
  BY <1>4 DEF HourPasses
<1>. QED BY <1>1, <1>2, <1>3, <1>4 DEF ThreadsNext

LEMMA ViewedStep == ThreadsInv /\ ThreadsNext => Viewed'
<1>. SUFFICES ASSUME ThreadsInv, ThreadsNext PROVE Viewed'
  OBVIOUS
<1>. USE HoursAssumption, ProcessesAssumption, WhoeverAssumption
     DEF ThreadsInv, ThreadsTypeOK, Viewed, Kept, Entry, NoEntry, Moment, NoMoment,
         Scheduled, Whoever
<1>1. ASSUME NEW l \in Threads, ThreadStep(l) PROVE Viewed'
  <2>1. CASE FindNotRunning(l)
    BY <2>1 DEF FindNotRunning, Turns
  <2>2. CASE StartThread(l)
    BY <2>2 DEF StartThread, Turns
  <2>3. CASE ListScheduled(l)
    BY <2>3 DEF ListScheduled, Turns
  <2>4. CASE Compare(l)
    <3>1. /\ turn[l] = "compare" /\ ThreadsTypeOK'
          /\ \A x \in Whoever \ {l} : turn'[x] = turn[x] /\ view'[x] = view[x]
          /\ \A k \in Threads \ {l} : moment'[k] = moment[k]
          /\ \/ turn'[l] = "asleep"
             \/ turn'[l] = "save" /\ view'[l] = view[l] /\ Due(view[l]) /\ moment'[l].at = hour
      BY <2>4, Compares DEF Compare
    <3>2. \A e \in Editors : turn'[e] = "edit" => view'[e].there
      BY <3>1
    <3>3. ASSUME NEW k \in Threads, k # l PROVE  Kept(k)'
      BY <3>1, <3>3
    <3>4. Kept(l)'
      BY <3>1 DEF Due, Elapsed
    <3>. QED BY <3>2, <3>3, <3>4
  <2>5. CASE SaveRun(l)
    BY <2>5 DEF SaveRun, Replace, Turns
  <2>6. CASE SaveFails(l)
    BY <2>6 DEF SaveFails, Sleeps, Turns
  <2>7. CASE StartScan(l)
    BY <2>7 DEF StartScan, Sleeps, Turns
  <2>8. CASE StartFails(l)
    BY <2>8 DEF StartFails, Sleeps, Turns
  <2>. QED
    BY <1>1, <2>1, <2>2, <2>3, <2>4, <2>5, <2>6, <2>7, <2>8 DEF ThreadStep
<1>2. ASSUME NEW e \in Editors, EditStep(e) PROVE Viewed'
  <2>1. CASE ReadRow(e)
    BY <2>1 DEF ReadRow, Turns
  <2>2. CASE PauseUntil(e)
    BY <2>2 DEF PauseUntil, Replace, Turns
  <2>3. CASE Disable(e)
    BY <2>3 DEF Disable, Replace, Turns
  <2>4. CASE DeleteRow(e)
    BY <2>4 DEF DeleteRow, Turns
  <2>. QED BY <1>2, <2>1, <2>2, <2>3, <2>4 DEF EditStep
<1>3. ASSUME NEW p \in WebProcesses, Replaced(p) PROVE Viewed'
  BY <1>3 DEF Replaced, Of
<1>4. CASE HourPasses
  BY <1>4 DEF HourPasses
<1>. QED BY <1>1, <1>2, <1>3, <1>4 DEF ThreadsNext

LEMMA InRowStep == ThreadsInv /\ ThreadsNext => InRow'
<1>. SUFFICES ASSUME ThreadsInv, ThreadsNext PROVE InRow'
  OBVIOUS
<1>. USE HoursAssumption, ProcessesAssumption, WhoeverAssumption
     DEF ThreadsInv, ThreadsTypeOK, InRow, Viewed, Kept, Scheduled, Remembered, Entry,
         NoEntry, Moment, NoMoment, Whoever
<1>1. ASSUME NEW l \in Threads, ThreadStep(l) PROVE InRow'
  <2>1. CASE FindNotRunning(l)
    BY <2>1 DEF FindNotRunning, Turns
  <2>2. CASE StartThread(l)
    BY <2>2 DEF StartThread, Turns
  <2>3. CASE ListScheduled(l)
    BY <2>3 DEF ListScheduled, Turns
  <2>4. CASE Compare(l)
    <3>1. /\ UNCHANGED <<hour, entry, running, edit, restarts, starts, reverts, off>>
          /\ \A k \in Threads : turn'[k] = "start" => turn[k] = "start" /\ moment'[k] = moment[k]
      BY <2>4, Compares
    <3>. QED BY <3>1
  <2>5. CASE SaveRun(l)
    BY <2>5 DEF SaveRun, Replace, Turns
  <2>6. CASE SaveFails(l)
    BY <2>6 DEF SaveFails, Sleeps, Turns
  <2>7. CASE StartScan(l)
    BY <2>7 DEF StartScan, Sleeps, Turns
  <2>8. CASE StartFails(l)
    BY <2>8 DEF StartFails, Sleeps, Turns
  <2>. QED
    BY <1>1, <2>1, <2>2, <2>3, <2>4, <2>5, <2>6, <2>7, <2>8 DEF ThreadStep
<1>2. ASSUME NEW e \in Editors, EditStep(e) PROVE InRow'
  <2>1. CASE ReadRow(e)
    BY <2>1 DEF ReadRow, Turns
  <2>2. CASE PauseUntil(e)
    BY <2>2 DEF PauseUntil, Replace, Turns
  <2>3. CASE Disable(e)
    BY <2>3 DEF Disable, Replace, Turns
  <2>4. CASE DeleteRow(e)
    BY <2>4 DEF DeleteRow, Turns
  <2>. QED BY <1>2, <2>1, <2>2, <2>3, <2>4 DEF EditStep
<1>3. ASSUME NEW p \in WebProcesses, Replaced(p) PROVE InRow'
  BY <1>3 DEF Replaced, Of
<1>4. CASE HourPasses
  BY <1>4 DEF HourPasses
<1>. QED BY <1>1, <1>2, <1>3, <1>4 DEF ThreadsNext

LEMMA SeparateStep == ThreadsInv /\ ThreadsNext => Separate'
<1>. SUFFICES ASSUME ThreadsInv, ThreadsNext PROVE Separate'
  OBVIOUS
<1>. USE HoursAssumption, ProcessesAssumption, WhoeverAssumption
     DEF ThreadsInv, ThreadsTypeOK, Separate, Viewed, Kept, InRow, Scheduled, Remembered,
         Apart, Entry, Moment, Whoever
<1>1. ASSUME NEW l \in Threads, ThreadStep(l) PROVE Separate'
  <2>1. CASE FindNotRunning(l)
    BY <2>1 DEF FindNotRunning, Turns
  <2>2. CASE StartThread(l)
    BY <2>2 DEF StartThread, Turns
  <2>3. CASE ListScheduled(l)
    BY <2>3 DEF ListScheduled, Turns
  <2>4. CASE Compare(l)
    <3>1. /\ UNCHANGED <<hour, entry, running, edit, restarts, starts, reverts, off>>
          /\ \A k \in Threads : turn'[k] = "start" => turn[k] = "start" /\ moment'[k] = moment[k]
      BY <2>4, Compares
    <3>. HIDE DEF Apart
    <3>. QED BY <3>1
  <2>5. CASE SaveRun(l)
    <3>1. /\ starts' = starts /\ moment'[l].at = moment[l].at
          /\ \A k \in Threads \ {l} : moment'[k] = moment[k] /\ turn'[k] = turn[k]
          /\ moment'[l].reverts = reverts'
      BY <2>5, Saves
    <3>2. ASSUME NEW m, m \in Moment, Remembered(m) PROVE Apart(m, moment'[l])
      <4>1. CASE m.reverts = reverts'
        <5>1. entry = view[l] /\ reverts' = reverts
          BY <2>5, <3>2, <4>1, Saves
        <5>2. m.at <= view[l].last /\ m.at >= 1 /\ view[l].last # 0
          BY <2>5, <3>2, <4>1, <5>1 DEF SaveRun
        <5>3. moment[l].at >= view[l].last + Period
          BY <2>5, <5>2 DEF SaveRun
        <5>. QED BY <3>1, <3>2, <5>2, <5>3
      <4>2. CASE m.reverts # reverts'
        BY <3>1, <4>2
      <4>. QED BY <4>1, <4>2
    <3>3. \A s \in starts : Apart(s.run, moment'[l])
      BY <3>2
    <3>4. \A k \in Threads \ {l} : turn[k] = "start" => Apart(moment[k], moment'[l])
      BY <3>2
    <3>5. \A k \in Threads \ {l} : turn[k] = "start" => Apart(moment'[l], moment[k])
      BY <3>4
    <3>. HIDE DEF Apart, Remembered, Moment
    <3>. QED BY <3>1, <3>3, <3>4, <3>5
  <2>6. CASE SaveFails(l)
    BY <2>6 DEF SaveFails, Sleeps, Turns
  <2>7. CASE StartScan(l)
    <3>. DEFINE new == [by |-> l, run |-> moment[l], reverts |-> reverts, off |-> off]
    <3>1. /\ turn[l] = "start" /\ starts' = starts \cup {new}
          /\ \A k \in Threads : turn'[k] = "start" =>
               k # l /\ turn[k] = "start" /\ moment'[k] = moment[k]
      BY <2>7 DEF StartScan, Sleeps, Turns
    <3>2. \A s \in starts : Apart(s.run, moment[l]) /\ Apart(moment[l], s.run)
      BY <3>1
    <3>. HIDE DEF Apart, Moment
    <3>3. \A s, t \in starts' : s = t \/ Apart(s.run, t.run)
      BY <3>1, <3>2
    <3>4. \A s \in starts' : \A k \in Threads : turn'[k] = "start" => Apart(s.run, moment'[k])
      BY <3>1
    <3>5. \A j, k \in Threads :
            turn'[j] = "start" /\ turn'[k] = "start" => j = k \/ Apart(moment'[j], moment'[k])
      BY <3>1
    <3>. QED BY <3>3, <3>4, <3>5
  <2>8. CASE StartFails(l)
    BY <2>8 DEF StartFails, Sleeps, Turns
  <2>. QED
    BY <1>1, <2>1, <2>2, <2>3, <2>4, <2>5, <2>6, <2>7, <2>8 DEF ThreadStep
<1>2. ASSUME NEW e \in Editors, EditStep(e) PROVE Separate'
  <2>1. CASE ReadRow(e)
    BY <2>1 DEF ReadRow, Turns
  <2>2. CASE PauseUntil(e)
    BY <2>2 DEF PauseUntil, Replace, Turns
  <2>3. CASE Disable(e)
    BY <2>3 DEF Disable, Replace, Turns
  <2>4. CASE DeleteRow(e)
    BY <2>4 DEF DeleteRow, Turns
  <2>. QED BY <1>2, <2>1, <2>2, <2>3, <2>4 DEF EditStep
<1>3. ASSUME NEW p \in WebProcesses, Replaced(p) PROVE Separate'
  BY <1>3 DEF Replaced, Of
<1>4. CASE HourPasses
  BY <1>4 DEF HourPasses
<1>. QED BY <1>1, <1>2, <1>3, <1>4 DEF ThreadsNext

LEMMA OffStep == ThreadsInv /\ ThreadsNext => OffUntilReverted'
<1>. SUFFICES ASSUME ThreadsInv, ThreadsNext PROVE OffUntilReverted'
  OBVIOUS
<1>. USE HoursAssumption, ProcessesAssumption, WhoeverAssumption
     DEF ThreadsInv, ThreadsTypeOK, OffUntilReverted, Since, Viewed, Kept, Scheduled, Entry,
         NoEntry, Moment, NoMoment, Off, Whoever
<1>1. ASSUME NEW l \in Threads, ThreadStep(l) PROVE OffUntilReverted'
  <2>1. CASE FindNotRunning(l)
    BY <2>1 DEF FindNotRunning, Turns
  <2>2. CASE StartThread(l)
    BY <2>2 DEF StartThread, Turns
  <2>3. CASE ListScheduled(l)
    BY <2>3 DEF ListScheduled, Turns
  <2>4. CASE Compare(l)
    <3>1. /\ UNCHANGED <<entry, reverts, off>>
          /\ \A k \in Threads : turn'[k] = "start" => turn[k] = "start" /\ moment'[k] = moment[k]
      BY <2>4, Compares
    <3>. QED BY <3>1
  <2>5. CASE SaveRun(l)
    BY <2>5 DEF SaveRun, Replace, Turns
  <2>6. CASE SaveFails(l)
    BY <2>6 DEF SaveFails, Sleeps, Turns
  <2>7. CASE StartScan(l)
    BY <2>7 DEF StartScan, Sleeps, Turns
  <2>8. CASE StartFails(l)
    BY <2>8 DEF StartFails, Sleeps, Turns
  <2>. QED
    BY <1>1, <2>1, <2>2, <2>3, <2>4, <2>5, <2>6, <2>7, <2>8 DEF ThreadStep
<1>2. ASSUME NEW e \in Editors, EditStep(e) PROVE OffUntilReverted'
  <2>1. CASE ReadRow(e)
    BY <2>1 DEF ReadRow, Turns
  <2>2. CASE PauseUntil(e)
    BY <2>2 DEF PauseUntil, Replace, Turns
  <2>3. CASE Disable(e)
    BY <2>3 DEF Disable, Replace, Turns
  <2>4. CASE DeleteRow(e)
    BY <2>4 DEF DeleteRow, Turns
  <2>. QED BY <1>2, <2>1, <2>2, <2>3, <2>4 DEF EditStep
<1>3. ASSUME NEW p \in WebProcesses, Replaced(p) PROVE OffUntilReverted'
  BY <1>3 DEF Replaced, Of
<1>4. CASE HourPasses
  BY <1>4 DEF HourPasses
<1>. QED BY <1>1, <1>2, <1>3, <1>4 DEF ThreadsNext

\* When a schedule goes off, that is no time at which it went off before.
LEMMA OffAgain ==
  ASSUME NEW o \in Off, NEW p \in Off, NEW q \in Off, Since(o, p),
         q = p \/ (q.is /\ p.at <= q.at)
  PROVE  Since(o, q) /\ (o = q /\ o.is => p = q)
<1>1. o.at \in Nat /\ p.at \in Nat /\ q.at \in Nat
  BY DEF Off
<1>2. Since(o, q)
  BY <1>1 DEF Since
<1>3. ASSUME o = q, o.is PROVE p = q
  <2>1. p.is /\ p.at = q.at
    BY <1>1, <1>3 DEF Since
  <2>2. p = [is |-> p.is, at |-> p.at] /\ q = [is |-> q.is, at |-> q.at]
    BY DEF Off
  <2>3. p.is \in BOOLEAN /\ q.is \in BOOLEAN
    BY DEF Off
  <2>4. p.is = q.is
    BY <1>3, <2>1, <2>3
  <2>. QED BY <2>1, <2>2, <2>4
<1>. QED BY <1>2, <1>3

\* A step that starts no scan, and after which whoever is about to start one either was so
\* before or has stored his run just now.
LEMMA NothingStarted ==
  ASSUME ThreadsInv, ThreadsTypeOK', starts' = starts,
         off' = off \/ (off'.is /\ off.at <= off'.at),
         \A l \in Threads : turn'[l] = "start" =>
           \/ turn[l] = "start" /\ moment'[l] = moment[l]
           \/ moment'[l].off = off'
  PROVE  StartedOff'
<1>1. /\ off \in Off /\ off' \in Off
      /\ \A s \in starts : s.off \in Off /\ s.run.off \in Off /\ s.by \in Threads
  BY DEF ThreadsInv, ThreadsTypeOK, Moment
<1>2. ASSUME NEW s \in starts PROVE Since(s.off, off') /\ (s.off = off' /\ s.off.is => off = off')
  BY <1>1, OffAgain DEF ThreadsInv, StartedOff
<1>3. ASSUME NEW s \in starts, CaughtBetween(s) PROVE s.off.is
  BY <1>3 DEF ThreadsInv, StartedOff, CaughtBetween, Since
<1>4. ASSUME NEW s \in starts, CaughtBetween(s), s.off = off', turn'[s.by] = "start"
      PROVE  moment'[s.by].off = off'
  BY <1>1, <1>2, <1>3, <1>4 DEF ThreadsInv, StartedOff
<1>. QED BY <1>2, <1>4 DEF ThreadsInv, StartedOff, CaughtBetween

LEMMA StartedStep == ThreadsInv /\ ThreadsNext => StartedOff'
<1>. SUFFICES ASSUME ThreadsInv, ThreadsNext PROVE StartedOff'
  OBVIOUS
<1>1. ThreadsTypeOK' /\ ThreadsTypeOK
  BY ThreadsTypes DEF ThreadsInv
<1>2. ASSUME NEW l \in Threads, StartScan(l) PROVE StartedOff'
  <2>. DEFINE new == [by |-> l, run |-> moment[l], reverts |-> reverts, off |-> off]
  <2>1. /\ turn[l] = "start" /\ off' = off /\ starts' = starts \cup {new}
        /\ turn' = [turn EXCEPT ![l] = "asleep"]
        /\ \A k \in Threads \ {l} : moment'[k] = moment[k]
    BY <1>1, <1>2 DEF StartScan, Sleeps, Turns, ThreadsTypeOK
  <2>2. /\ new.by = l /\ new.run = moment[l] /\ new.reverts = reverts /\ new.off = off
        /\ \A k \in Threads : turn'[k] = "start" => k # l /\ turn[k] = "start"
    BY <1>1, <2>1 DEF ThreadsTypeOK, Whoever
  <2>. HIDE DEF new
  <2>3. Since(new.run.off, new.off) /\ Since(new.off, off)
    BY <2>1, <2>2 DEF ThreadsInv, OffUntilReverted, Since
  <2>4. ASSUME new.off.is, ~CaughtBetween(new) PROVE new.reverts > new.off.at
    <3>1. moment[l].off = off /\ moment[l].reverts > off.at /\ moment[l].reverts <= reverts
      BY <2>1, <2>2, <2>4 DEF CaughtBetween, ThreadsInv, OffUntilReverted
    <3>2. moment[l].reverts \in Nat /\ off.at \in Nat /\ reverts \in Nat
      BY <1>1 DEF ThreadsTypeOK, Moment, Off
    <3>. QED BY <2>2, <3>1, <3>2
  <2>5. ASSUME NEW s \in starts, CaughtBetween(s), s.by = l, s.off = off
        PROVE  ~CaughtBetween(new)
    BY <2>1, <2>2, <2>5 DEF CaughtBetween, ThreadsInv, StartedOff
  <2>6. \A s \in starts : s.by \in Threads
    BY <1>1 DEF ThreadsTypeOK
  <2>7. /\ \A s \in starts' : Since(s.run.off, s.off) /\ Since(s.off, off')
        /\ \A s \in starts' : s.off.is => s.reverts > s.off.at \/ CaughtBetween(s)
    BY <2>1, <2>3, <2>4 DEF ThreadsInv, StartedOff
  <2>8. ASSUME NEW s \in starts', CaughtBetween(s), s.off = off', turn'[s.by] = "start"
        PROVE  moment'[s.by].off = off'
    <3>1. s \in starts /\ s.by # l /\ turn[s.by] = "start" /\ s.by \in Threads
      BY <2>1, <2>2, <2>6, <2>8
    <3>. QED BY <2>1, <2>8, <3>1 DEF ThreadsInv, StartedOff
  <2>9. ASSUME NEW s \in starts', NEW t \in starts', CaughtBetween(s), CaughtBetween(t),
               s.by = t.by, s.off = t.off
        PROVE  s = t
    BY <2>1, <2>2, <2>5, <2>9 DEF ThreadsInv, StartedOff
  <2>. QED BY <2>7, <2>8, <2>9 DEF StartedOff, CaughtBetween
<1>3. ASSUME NEW l \in Threads, SaveRun(l) PROVE StartedOff'
  BY <1>1, <1>3, Saves, NothingStarted DEF ThreadsTypeOK, Whoever
<1>4. ASSUME NEW l \in Threads, Compare(l) PROVE StartedOff'
  BY <1>1, <1>4, Compares, NothingStarted DEF Whoever
<1>5. ASSUME NEW l \in Threads,
             FindNotRunning(l) \/ StartThread(l) \/ ListScheduled(l) \/ SaveFails(l) \/ StartFails(l)
      PROVE  StartedOff'
  BY <1>1, <1>5, NothingStarted
     DEF FindNotRunning, StartThread, ListScheduled, SaveFails, StartFails, Sleeps, Turns,
         ThreadsTypeOK, Whoever
<1>6. ASSUME NEW e \in Editors, EditStep(e) PROVE StartedOff'
  <2>1. /\ starts' = starts /\ moment' = moment
        /\ \A l \in Threads : turn'[l] = turn[l]
    BY <1>1, <1>6, WhoeverAssumption
       DEF EditStep, ReadRow, PauseUntil, Disable, DeleteRow, Turns, ThreadsTypeOK, Whoever
  <2>2. off' = off \/ (off'.is /\ off.at <= off'.at)
    <3>1. off.at <= reverts /\ off.at \in Nat /\ reverts \in Nat
      BY <1>1 DEF ThreadsInv, OffUntilReverted, ThreadsTypeOK, Off
    <3>. QED BY <1>6, <3>1 DEF EditStep, ReadRow, PauseUntil, Disable, DeleteRow, Replace
  <2>. QED BY <1>1, <2>1, <2>2, NothingStarted
<1>7. ASSUME NEW p \in WebProcesses, Replaced(p) PROVE StartedOff'
  BY <1>1, <1>7, NothingStarted DEF Replaced, Whoever
<1>8. CASE HourPasses
  BY <1>1, <1>8, NothingStarted DEF HourPasses
<1>. QED
  BY <1>2, <1>3, <1>4, <1>5, <1>6, <1>7, <1>8 DEF ThreadsNext, ThreadStep

LEMMA ThreadsStep == ThreadsInv /\ [ThreadsNext]_threadVars => ThreadsInv'
<1>1. CASE ThreadsNext
  BY <1>1, ThreadsTypes, ViewedStep, InRowStep, SeparateStep, OffStep, StartedStep
     DEF ThreadsInv
<1>2. CASE UNCHANGED threadVars
  BY <1>2 DEF threadVars, ThreadsInv, ThreadsTypeOK, Viewed, Kept, InRow, Separate,
     OffUntilReverted, StartedOff, CaughtBetween, Remembered
<1>. QED BY <1>1, <1>2

\* The shape of the state, for any threads, requests, period and clock.
THEOREM ThreadsTypeCorrect == ThreadsSpec => []ThreadsTypeOK
<1>1. ThreadsInv => ThreadsTypeOK
  BY DEF ThreadsInv
<1>. QED BY ThreadsInitially, ThreadsStep, <1>1, PTL DEF ThreadsSpec

\* The runs of two scans of a schedule were stored an interval apart unless a row was
\* reverted in between, however many processes and threads there are.
THEOREM OnePerIntervalHolds == ThreadsSpec => []OnePerInterval
<1>1. ThreadsInv => OnePerInterval
  <2>. SUFFICES ASSUME ThreadsInv, NEW s \in starts, NEW t \in starts, s # t,
                       s.run.at <= t.run.at, t.run.at < s.run.at + Period,
                       s.run.reverts = t.run.reverts
                PROVE  FALSE
    BY DEF OnePerInterval
  <2>1. s.run \in Moment /\ t.run \in Moment
    BY DEF ThreadsInv, ThreadsTypeOK
  <2>2. s.run.at \in Nat /\ t.run.at \in Nat
    BY <2>1, HoursAssumption DEF Moment
  <2>3. Apart(s.run, t.run)
    BY DEF ThreadsInv, Separate
  <2>. QED BY <2>2, <2>3, HoursAssumption DEF Apart
<1>. QED BY ThreadsInitially, ThreadsStep, <1>1, PTL DEF ThreadsSpec

\* A schedule that is off stays off until somebody saves over it, and of each thread at most
\* the one scan is started whose run was stored before, for any threads and requests.
THEOREM StaysOffHolds == ThreadsSpec => []StaysOff
<1>1. ThreadsInv => StaysOff
  BY DEF ThreadsInv, OffUntilReverted, StartedOff, StaysOff
<1>. QED BY ThreadsInitially, ThreadsStep, <1>1, PTL DEF ThreadsSpec
=============================================================================
