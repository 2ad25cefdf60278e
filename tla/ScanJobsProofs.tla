--------------------------- MODULE ScanJobsProofs ---------------------------
(***************************************************************************)
(* What TLAPS proves of ScanJobs for every set of jobs, workers, requests  *)
(* and maintenance tasks, every limit and either backend.                  *)
(***************************************************************************)
EXTENDS ScanJobs, FiniteSetTheorems, TLAPS

-----------------------------------------------------------------------------
(* Type correctness.  A step may look up the row of the job it works on and  *)
(* the argument of the message it holds, so the types alone are not          *)
(* inductive: an actor at work has a job, a message has a task with a job.   *)

Marked == {"completed", "failed", "timed_out", "retrying", "cancelled"}

AtWork ==
  \A a \in Actors :
    /\ pc[a] # "idle" => cur[a] \in Jobs
    /\ pc[a] \in {"revoke", "mark", "write"} => goal[a] \in Marked
    /\ goal[a] = "completed" => pc[a] \in {"mark", "write", "marked"}

Delivered ==
  /\ \A w \in Workers :
       pc[w] # "idle" => held[w] \in Message /\ jobOf[held[w][1]] \in Jobs
  /\ \A m \in Message : broker[m] > 0 => jobOf[m[1]] \in Jobs

TypeInv == TypeOK /\ AtWork /\ Delivered

USE DEF Actors, Status, ActiveStatus, Claimable, Terminal, Message, jobVars, queueVars,
        ctlVars, histVars

LEMMA TypeInit == Init => TypeInv
  BY Kinds, Limits DEF Init, TypeInv, TypeOK, AtWork, Delivered, WorkerPc, AnalystPc,
     BeatPc, ScanStatus, NoRow, NoCopy, Rows, Copies

LEMMA RowTypes ==
  /\ NoRow \in Rows /\ NoCopy \in Copies
  /\ TypeOK => \A j \in Jobs : Row(j) \in Rows
  BY DEF NoRow, NoCopy, Row, Rows, Copies, TypeOK

USE DEF TypeInv, TypeOK, AtWork, Delivered, Goto, Rest, WorkerPc, AnalystPc, BeatPc

\* The variables that the end of a task changes.
TaskTypes ==
  /\ broker \in [Message -> Nat]
  /\ pc     \in [Actors -> WorkerPc \cup AnalystPc \cup BeatPc]
  /\ cur    \in [Actors -> Jobs \cup {NoJob}]
  /\ seen   \in [Actors -> Rows]
  /\ goal   \in [Actors -> ActiveStatus \cup Terminal \cup {"none", "done", "rescan"}]
  /\ held   \in [Workers -> Message \cup {NoMessage}]
  /\ won    \in [Workers -> Nat]

LEMMA AckTypes ==
  ASSUME TypeInv, NEW w \in Workers, Ack(w), broker' = broker PROVE TaskTypes'
  BY RowTypes DEF Ack, TaskTypes

LEMMA RetryTypes ==
  ASSUME TypeInv, NEW w \in Workers, Retry(w), pc[w] # "idle" PROVE TaskTypes'
<1>1. CASE held[w][2] < MaxRetries
  <2>. DEFINE next == <<held[w][1], held[w][2] + 1>>
  <2>1. next \in Message
    BY <1>1, Limits
  <2>2. broker' = [broker EXCEPT ![next] = @ + 1]
    BY <1>1 DEF Retry
  <2>3. broker' \in [Message -> Nat]
    BY <2>1, <2>2
  <2>4. /\ pc' = [pc EXCEPT ![w] = "republished"] /\ goal' = [goal EXCEPT ![w] = "none"]
        /\ won' = [won EXCEPT ![w] = 0] /\ UNCHANGED <<cur, seen, held>>
    BY <1>1 DEF Retry
  <2>. QED BY <2>3, <2>4 DEF TaskTypes
<1>2. CASE ~(held[w][2] < MaxRetries)
  BY <1>2, AckTypes DEF Retry
<1>. QED BY <1>1, <1>2

LEMMA RetryDelivers ==
  ASSUME TypeInv, NEW w \in Workers, Retry(w), pc[w] # "idle", jobOf' = jobOf
  PROVE  Delivered'
<1>1. CASE held[w][2] < MaxRetries
  <2>. DEFINE next == <<held[w][1], held[w][2] + 1>>
  <2>1. next \in Message /\ next[1] = held[w][1]
    BY <1>1, Limits
  <2>2. broker' = [broker EXCEPT ![next] = @ + 1] /\ pc' = [pc EXCEPT ![w] = "republished"]
    BY <1>1 DEF Retry
  <2>3. UNCHANGED held
    BY <1>1 DEF Retry
  <2>. HIDE DEF next
  <2>4. \A m \in Message : broker'[m] > 0 => m = next \/ broker[m] > 0
    BY <2>2
  <2>. QED BY <2>1, <2>2, <2>3, <2>4
<1>2. CASE ~(held[w][2] < MaxRetries)
  <2>1. Ack(w) /\ broker' = broker
    BY <1>2 DEF Retry
  <2>2. \A v \in Workers : pc'[v] # "idle" => pc[v] # "idle" /\ held'[v] = held[v]
    BY <2>1 DEF Ack
  <2>. QED BY <2>1, <2>2
<1>. QED BY <1>1, <1>2

LEMMA PutUpTypes ==
  ASSUME TypeInv, NEW j \in Jobs, NEW s \in Status, PutUp(j, s)
  PROVE  status' \in [Jobs -> Status] /\ gen' \in [Jobs -> Nat]
  BY DEF PutUp

LEMMA TypeReceive ==
  ASSUME TypeInv, NEW w \in Workers, Receive(w) PROVE TypeInv'
<1>1. TypeOK'
  BY Kinds, RowTypes DEF Receive
<1>2. AtWork'
  BY Kinds DEF Receive
<1>3. Delivered'
  BY Kinds DEF Receive
<1>. QED BY <1>1, <1>2, <1>3

LEMMA TypeReadJob ==
  ASSUME TypeInv, NEW w \in Workers, ReadJob(w) PROVE TypeInv'
<1>1. TypeOK'
  <2>1. CASE status[cur[w]] \in Terminal
    BY <2>1, AckTypes DEF ReadJob, TaskTypes
  <2>2. CASE status[cur[w]] \notin Terminal
    BY <2>2, Kinds DEF ReadJob
  <2>. QED BY <2>1, <2>2
<1>2. AtWork'
  BY Kinds DEF ReadJob, Ack
<1>3. /\ broker' = broker /\ jobOf' = jobOf
      /\ \A v \in Workers : pc'[v] # "idle" => pc[v] # "idle" /\ held'[v] = held[v]
  BY Kinds DEF ReadJob, Ack
<1>4. Delivered'
  BY <1>3
<1>. QED BY <1>1, <1>2, <1>4

LEMMA TypeCheckLimits ==
  ASSUME TypeInv, NEW w \in Workers, CheckLimits(w) PROVE TypeInv'
<1>1. TypeOK'
  <2>1. CASE Retry(w)
    BY <2>1, RetryTypes DEF CheckLimits, CheckLimit, TaskTypes
  <2>2. CASE ~Retry(w)
    <3>1. PICK next \in {"tenant", "global", "claim"} : pc' = [pc EXCEPT ![w] = next]
      BY <2>2 DEF CheckLimits, CheckLimit
    <3>2. pc' \in [Actors -> WorkerPc \cup AnalystPc \cup BeatPc]
      BY <3>1
    <3>. QED BY <2>2, <3>2 DEF CheckLimits, CheckLimit
  <2>. QED BY <2>1, <2>2
<1>2. AtWork'
  <2>1. CASE Retry(w)
    BY <2>1 DEF CheckLimits, CheckLimit, Retry, Ack
  <2>2. CASE ~Retry(w)
    BY <2>2 DEF CheckLimits, CheckLimit
  <2>. QED BY <2>1, <2>2
<1>3. Delivered'
  <2>1. CASE Retry(w)
    BY <2>1, RetryDelivers DEF CheckLimits, CheckLimit
  <2>2. CASE ~Retry(w)
    BY <2>2, Kinds DEF CheckLimits, CheckLimit
  <2>. QED BY <2>1, <2>2
<1>. QED BY <1>1, <1>2, <1>3

LEMMA TypeClaim ==
  ASSUME TypeInv, NEW w \in Workers, Claim(w) PROVE TypeInv'
<1>1. TypeOK'
  <2>1. CASE CanClaim(cur[w])
    <3>1. cur[w] \in Jobs /\ pc' \in [Actors -> WorkerPc \cup AnalystPc \cup BeatPc]
      BY <2>1 DEF Claim
    <3>2. /\ status' = [status EXCEPT ![cur[w]] = "running"]
          /\ fresh' = [fresh EXCEPT ![cur[w]] = TRUE]
          /\ won' = [won EXCEPT ![w] = gen[cur[w]]]
      BY <2>1 DEF Claim
    <3>3. won' \in [Workers -> Nat]
      BY <3>1, <3>2
    <3>4. status' \in [Jobs -> Status] /\ fresh' \in [Jobs -> BOOLEAN]
      BY <3>2
    <3>. QED BY <3>1, <3>3, <3>4 DEF Claim
  <2>2. CASE ~CanClaim(cur[w])
    BY <2>2, Kinds DEF Claim
  <2>. QED BY <2>1, <2>2
<1>2. AtWork'
  BY Kinds DEF Claim
<1>3. Delivered'
  BY Kinds DEF Claim
<1>. QED BY <1>1, <1>2, <1>3

LEMMA TypeUnclaimed ==
  ASSUME TypeInv, NEW w \in Workers, Unclaimed(w) PROVE TypeInv'
<1>1. TypeOK'
  <2>1. CASE Retry(w)
    BY <2>1, RetryTypes DEF Unclaimed, TaskTypes
  <2>2. CASE ~Retry(w)
    BY <2>2, AckTypes DEF Unclaimed, TaskTypes
  <2>. QED BY <2>1, <2>2
<1>2. AtWork'
  BY Kinds, Limits, RowTypes DEF Unclaimed, Retry, Ack
<1>3. Delivered'
  <2>1. CASE Retry(w)
    BY <2>1, RetryDelivers DEF Unclaimed
  <2>2. CASE ~Retry(w)
    BY <2>2, Kinds DEF Unclaimed, Ack
  <2>. QED BY <2>1, <2>2
<1>. QED BY <1>1, <1>2, <1>3

LEMMA TypePreflight ==
  ASSUME TypeInv, NEW w \in Workers, Preflight(w) PROVE TypeInv'
<1>1. TypeOK'
  <2>1. PICK to \in {"start", "mark"} : pc' = [pc EXCEPT ![w] = to]
    BY DEF Preflight
  <2>3. pc' \in [Actors -> WorkerPc \cup AnalystPc \cup BeatPc]
    BY <2>1
  <2>2. goal' \in [Actors -> ActiveStatus \cup Terminal \cup {"none", "done", "rescan"}]
    BY DEF Preflight
  <2>. QED BY <2>2, <2>3 DEF Preflight
<1>2. AtWork'
  BY Kinds, Limits, RowTypes DEF Preflight, Marked
<1>3. Delivered'
  BY Kinds DEF Preflight
<1>. QED BY <1>1, <1>2, <1>3

LEMMA TypeStartScan ==
  ASSUME TypeInv, NEW w \in Workers, StartScan(w) PROVE TypeInv'
<1>1. TypeOK'
  BY Kinds, RowTypes DEF StartScan, ScanStatus
<1>2. AtWork'
  BY Kinds DEF StartScan
<1>3. Delivered'
  BY Kinds DEF StartScan
<1>. QED BY <1>1, <1>2, <1>3

LEMMA TypeScanSucceeds ==
  ASSUME TypeInv, NEW w \in Workers, ScanSucceeds(w) PROVE TypeInv'
<1>1. TypeOK'
  BY Kinds, RowTypes DEF ScanSucceeds
<1>2. AtWork'
  BY Kinds DEF ScanSucceeds
<1>3. Delivered'
  BY Kinds DEF ScanSucceeds
<1>. QED BY <1>1, <1>2, <1>3

LEMMA TypeSaveResult ==
  ASSUME TypeInv, NEW w \in Workers, SaveResult(w) PROVE TypeInv'
<1>1. TypeOK'
  BY Kinds, RowTypes DEF SaveResult, ScanStatus
<1>2. AtWork'
  BY Kinds DEF SaveResult
<1>3. Delivered'
  BY Kinds DEF SaveResult
<1>. QED BY <1>1, <1>2, <1>3

LEMMA TypeSaveFindings ==
  ASSUME TypeInv, NEW w \in Workers, SaveFindings(w) PROVE TypeInv'
<1>1. TypeOK'
  BY Kinds, RowTypes DEF SaveFindings
<1>2. AtWork'
  BY Kinds DEF SaveFindings, Marked
<1>3. Delivered'
  BY Kinds DEF SaveFindings
<1>. QED BY <1>1, <1>2, <1>3

LEMMA TypeScanFails ==
  ASSUME TypeInv, NEW w \in Workers, ScanFails(w) PROVE TypeInv'
<1>1. TypeOK'
  BY Kinds, RowTypes DEF ScanFails, Failure
<1>2. AtWork'
  BY Kinds DEF ScanFails, Failure, Marked
<1>3. Delivered'
  BY Kinds DEF ScanFails, Failure
<1>. QED BY <1>1, <1>2, <1>3

LEMMA TypeMarkRead ==
  ASSUME TypeInv, NEW a \in Actors, MarkRead(a) PROVE TypeInv'
<1>1. TypeOK'
  BY Kinds, RowTypes DEF MarkRead
<1>2. AtWork'
  BY Kinds DEF MarkRead
<1>3. Delivered'
  BY Kinds DEF MarkRead
<1>. QED BY <1>1, <1>2, <1>3

LEMMA TypeMarkWrite ==
  ASSUME TypeInv, NEW a \in Actors, MarkWrite(a) PROVE TypeInv'
<1>1. TypeOK'
  <2>1. cur[a] \in Jobs /\ goal[a] \in Status /\ status[cur[a]] \in Status
    BY DEF MarkWrite, Marked
  <2>2. status' \in [Jobs -> Status] /\ gen' \in [Jobs -> Nat]
    BY <2>1, PutUpTypes DEF MarkWrite, Overwrite
  <2>3. /\ seen' = [seen EXCEPT ![a] = NoRow] /\ pc' = [pc EXCEPT ![a] = "marked"]
        /\ UNCHANGED <<attempt, fresh, taskId, scan, queueVars, cur, goal, held, copy, todo,
                      won, budget>>
    BY DEF MarkWrite
  <2>. QED BY <2>2, <2>3, RowTypes
<1>2. AtWork'
  BY Kinds DEF MarkWrite, PutUp, Overwrite, Markable, Marked
<1>3. Delivered'
  BY Kinds DEF MarkWrite
<1>. QED BY <1>1, <1>2, <1>3

LEMMA TypeFinishCompleted ==
  ASSUME TypeInv, NEW w \in Workers, FinishCompleted(w) PROVE TypeInv'
<1>1. TypeOK'
  BY Kinds, RowTypes DEF FinishCompleted, Ack
<1>2. AtWork'
  BY Kinds DEF FinishCompleted, Ack
<1>3. Delivered'
  BY Kinds DEF FinishCompleted, Ack
<1>. QED BY <1>1, <1>2, <1>3

LEMMA TypeFinishFailed ==
  ASSUME TypeInv, NEW w \in Workers, FinishFailed(w) PROVE TypeInv'
<1>1. TypeOK'
  BY Kinds, RowTypes DEF FinishFailed, SaveScanFailed, Ack, ScanStatus
<1>2. AtWork'
  BY Kinds DEF FinishFailed, SaveScanFailed, Ack
<1>3. Delivered'
  BY Kinds DEF FinishFailed, SaveScanFailed, Ack
<1>. QED BY <1>1, <1>2, <1>3

LEMMA TypeFinishRetrying ==
  ASSUME TypeInv, NEW w \in Workers, FinishRetrying(w) PROVE TypeInv'
<1>1. TypeOK'
  BY RetryTypes DEF FinishRetrying, TaskTypes
<1>2. AtWork'
  BY Kinds DEF FinishRetrying, Retry, Ack
<1>3. Delivered'
  BY RetryDelivers DEF FinishRetrying
<1>. QED BY <1>1, <1>2, <1>3

LEMMA TypeAckRetried ==
  ASSUME TypeInv, NEW w \in Workers, AckRetried(w) PROVE TypeInv'
<1>1. TypeOK'
  BY Kinds, RowTypes DEF AckRetried, Ack
<1>2. AtWork'
  BY Kinds DEF AckRetried, Ack
<1>3. Delivered'
  BY Kinds DEF AckRetried, Ack
<1>. QED BY <1>1, <1>2, <1>3

LEMMA TypeScanRetryable ==
  ASSUME TypeInv, NEW w \in Workers, ScanRetryable(w) PROVE TypeInv'
<1>1. TypeOK'
  BY Kinds, RowTypes DEF ScanRetryable, Spend, Event
<1>2. AtWork'
  BY Kinds DEF ScanRetryable, Marked
<1>3. Delivered'
  BY Kinds DEF ScanRetryable
<1>. QED BY <1>1, <1>2, <1>3

LEMMA TypeWorkerCrash ==
  ASSUME TypeInv, NEW w \in Workers, WorkerCrash(w) PROVE TypeInv'
<1>1. TypeOK'
  BY Kinds, RowTypes DEF WorkerCrash, Requeue, Spend, Event
<1>2. AtWork'
  BY Kinds DEF WorkerCrash, Requeue
<1>3. Delivered'
  BY Kinds DEF WorkerCrash, Requeue
<1>. QED BY <1>1, <1>2, <1>3

LEMMA TypeHardTimeLimit ==
  ASSUME TypeInv, NEW w \in Workers, HardTimeLimit(w) PROVE TypeInv'
<1>1. TypeOK'
  BY Kinds, RowTypes DEF HardTimeLimit, Spend, Ack, ExecutingPc, Event
<1>2. AtWork'
  BY Kinds DEF HardTimeLimit, Ack, ExecutingPc
<1>3. Delivered'
  BY Kinds DEF HardTimeLimit, Ack, ExecutingPc
<1>. QED BY <1>1, <1>2, <1>3

LEMMA TypeAge ==
  ASSUME TypeInv, NEW j \in Jobs, Age(j) PROVE TypeInv'
<1>1. TypeOK'
  BY Kinds, RowTypes DEF Age
<1>2. AtWork'
  BY Kinds DEF Age
<1>3. Delivered'
  BY Kinds DEF Age
<1>. QED BY <1>1, <1>2, <1>3

LEMMA TypeFindStale ==
  ASSUME TypeInv, NEW s \in Beats, FindStale(s) PROVE TypeInv'
<1>1. TypeOK'
  BY Kinds, RowTypes DEF FindStale
<1>2. AtWork'
  BY Kinds DEF FindStale
<1>3. Delivered'
  BY Kinds DEF FindStale
<1>. QED BY <1>1, <1>2, <1>3

LEMMA TypeReclaim ==
  ASSUME TypeInv, NEW s \in Beats, Reclaim(s) PROVE TypeInv'
<1>. PICK e \in todo[s] : Reclaim(s)!(e)
  BY DEF Reclaim
<1>. DEFINE j == e[1]
<1>0. j \in Jobs
  OBVIOUS
<1>1. TypeOK'
  <2>1. status' \in [Jobs -> Status] /\ gen' \in [Jobs -> Nat]
    <3>1. "retrying" \in Status
      OBVIOUS
    <3>. QED BY <1>0, <3>1, PutUpTypes
  <2>2. attempt' \in [Jobs -> Nat] /\ todo' \in [Beats -> SUBSET (Jobs \X Nat)]
    BY <1>0
  <2>3. pc' \in [Actors -> WorkerPc \cup AnalystPc \cup BeatPc] /\ cur' \in [Actors -> Jobs \cup {NoJob}]
    <3>1. \/ UNCHANGED <<pc, cur>>
          \/ pc' = [pc EXCEPT ![s] = "send"] /\ cur' = [cur EXCEPT ![s] = j]
      OBVIOUS
    <3>2. pc' \in [Actors -> WorkerPc \cup AnalystPc \cup BeatPc]
      BY <3>1
    <3>3. cur' \in [Actors -> Jobs \cup {NoJob}]
      BY <1>0, <3>1
    <3>. QED BY <3>2, <3>3
  <2>. QED BY <2>1, <2>2, <2>3
<1>2. AtWork'
  BY <1>0, Kinds
<1>3. Delivered'
  BY Kinds
<1>. QED BY <1>1, <1>2, <1>3

LEMMA TypeDispatch ==
  ASSUME TypeInv, NEW s \in Beats, NEW j \in Jobs, Dispatch(s, j) PROVE TypeInv'
<1>1. TypeOK'
  BY Kinds, RowTypes DEF Dispatch, PutUp, ScanStatus
<1>2. AtWork'
  BY Kinds DEF Dispatch, PutUp
<1>3. Delivered'
  BY Kinds DEF Dispatch
<1>. QED BY <1>1, <1>2, <1>3

LEMMA TypeSendMaintenance ==
  ASSUME TypeInv, NEW s \in Beats, SendMaintenance(s) PROVE TypeInv'
<1>1. TypeOK'
  BY Kinds, Limits, RowTypes DEF SendMaintenance, Publish
<1>2. AtWork'
  BY Kinds DEF SendMaintenance, Publish
<1>3. Delivered'
  BY Kinds DEF SendMaintenance, Publish
<1>. QED BY <1>1, <1>2, <1>3

LEMMA TypeGiveUp ==
  ASSUME TypeInv, NEW s \in Beats, GiveUp(s) PROVE TypeInv'
<1>1. TypeOK'
  BY Kinds, RowTypes DEF GiveUp
<1>2. AtWork'
  BY Kinds DEF GiveUp, Marked
<1>3. Delivered'
  BY Kinds DEF GiveUp
<1>. QED BY <1>1, <1>2, <1>3

LEMMA TypeFinishGiveUp ==
  ASSUME TypeInv, NEW s \in Beats, FinishGiveUp(s) PROVE TypeInv'
<1>1. TypeOK'
  BY Kinds, RowTypes DEF FinishGiveUp, SaveScanFailed, ScanStatus
<1>2. AtWork'
  BY Kinds DEF FinishGiveUp, SaveScanFailed
<1>3. Delivered'
  BY Kinds DEF FinishGiveUp, SaveScanFailed
<1>. QED BY <1>1, <1>2, <1>3

LEMMA TypeBeatCrash ==
  ASSUME TypeInv, NEW s \in Beats, BeatCrash(s) PROVE TypeInv'
<1>1. TypeOK'
  BY Kinds, RowTypes DEF BeatCrash, Spend, Event
<1>2. AtWork'
  BY Kinds DEF BeatCrash
<1>3. Delivered'
  BY Kinds DEF BeatCrash
<1>. QED BY <1>1, <1>2, <1>3

LEMMA TypeSubmit ==
  ASSUME TypeInv, NEW u \in Analysts, NEW j \in Jobs, Submit(u, j) PROVE TypeInv'
<1>1. TypeOK'
  BY Kinds, RowTypes DEF Submit, PutUp, ScanStatus, Copies
<1>2. AtWork'
  BY Kinds DEF Submit, PutUp
<1>3. Delivered'
  BY Kinds DEF Submit
<1>. QED BY <1>1, <1>2, <1>3

LEMMA TypeSendTask ==
  ASSUME TypeInv, NEW u \in Analysts, SendTask(u) PROVE TypeInv'
<1>1. TypeOK'
  <2>. PICK t \in Tasks : Publish(t, cur[u]) /\ copy' = [copy EXCEPT ![u].task = t]
    BY DEF SendTask
  <2>1. copy' \in [Analysts -> Copies]
    <3>1. copy[u] \in Copies
      OBVIOUS
    <3>2. [copy[u] EXCEPT !.task = t] \in Copies
      <4>. HIDE DEF TypeInv, TypeOK
      <4>. QED BY <3>1 DEF Copies
    <3>3. copy' = [copy EXCEPT ![u] = [copy[u] EXCEPT !.task = t]]
      OBVIOUS
    <3>. QED BY <3>2, <3>3
  <2>2. jobOf' \in [Tasks -> Jobs \cup {NoJob}] /\ broker' \in [Message -> Nat]
    BY Limits DEF Publish
  <2>. QED BY <2>1, <2>2 DEF SendTask
<1>2. AtWork'
  BY Kinds DEF SendTask, Publish
<1>3. Delivered'
  BY Kinds DEF SendTask, Publish
<1>. QED BY <1>1, <1>2, <1>3

LEMMA TypeUpdateRead ==
  ASSUME TypeInv, NEW u \in Analysts, UpdateRead(u) PROVE TypeInv'
<1>1. TypeOK'
  BY Kinds, RowTypes DEF UpdateRead
<1>2. AtWork'
  BY Kinds DEF UpdateRead
<1>3. Delivered'
  BY Kinds DEF UpdateRead
<1>. QED BY <1>1, <1>2, <1>3

LEMMA TypeUpdateWrite ==
  ASSUME TypeInv, NEW u \in Analysts, UpdateWrite(u) PROVE TypeInv'
<1>1. TypeOK'
  <2>0. cur[u] \in Jobs
    BY DEF UpdateWrite
  <2>1. status' \in [Jobs -> Status] /\ gen' \in [Jobs -> Nat]
    <3>1. status[cur[u]] \in Status /\ "queued" \in Status
      BY <2>0
    <3>. QED BY <2>0, <3>1, PutUpTypes DEF UpdateWrite, OverwriteRow, Overwrite
  <2>2. attempt' \in [Jobs -> Nat] /\ taskId' \in [Jobs -> Tasks \cup {NoTask}]
    <3>. DEFINE j == cur[u]
                number == Overwrite(seen[u].attempt, copy[u].attempt, attempt[j])
                task == Overwrite(seen[u].task, copy[u].task, taskId[j])
    <3>1. number \in Nat /\ task \in Tasks \cup {NoTask}
      BY <2>0 DEF Overwrite, Copies
    <3>2. \/ UNCHANGED <<attempt, taskId>>
          \/ attempt' = [attempt EXCEPT ![j] = number] /\ taskId' = [taskId EXCEPT ![j] = task]
      BY DEF UpdateWrite, OverwriteRow
    <3>. QED BY <3>1, <3>2
  <2>3. copy' \in [Analysts -> Copies] /\ seen' \in [Actors -> Rows]
    <3>1. copy' = copy \/ copy' = [copy EXCEPT ![u] = NoCopy]
      BY DEF UpdateWrite
    <3>2. seen' = [seen EXCEPT ![u] = NoRow]
      BY DEF UpdateWrite
    <3>. QED BY <3>1, <3>2, RowTypes
  <2>4. /\ pc' \in [Actors -> WorkerPc \cup AnalystPc \cup BeatPc]
        /\ cur' \in [Actors -> Jobs \cup {NoJob}]
        /\ goal' \in [Actors -> ActiveStatus \cup Terminal \cup {"none", "done", "rescan"}]
    <3>1. \/ pc' = [pc EXCEPT ![u] = "rescan"] /\ UNCHANGED <<cur, goal>>
          \/ /\ pc' = [pc EXCEPT ![u] = "idle"] /\ cur' = [cur EXCEPT ![u] = NoJob]
             /\ goal' = [goal EXCEPT ![u] = "none"]
      BY DEF UpdateWrite
    <3>2. CASE UNCHANGED <<cur, goal>>
      BY <3>1, <3>2
    <3>3. CASE cur' = [cur EXCEPT ![u] = NoJob] /\ goal' = [goal EXCEPT ![u] = "none"]
      <4>1. pc' = [pc EXCEPT ![u] = "rescan"] \/ pc' = [pc EXCEPT ![u] = "idle"]
        BY <3>1
      <4>. QED BY <3>3, <4>1
    <3>. QED BY <3>1, <3>2, <3>3
  <2>5. UNCHANGED <<fresh, scan, broker, jobOf, held, todo, won, budget>>
    BY DEF UpdateWrite
  <2>. QED BY <2>1, <2>2, <2>3, <2>4, <2>5
<1>2. AtWork'
  <2>1. CASE goal[u] = "rescan"
    BY <2>1 DEF UpdateWrite
  <2>2. CASE goal[u] # "rescan"
    BY <2>2 DEF UpdateWrite
  <2>. QED BY <2>1, <2>2
<1>3. Delivered'
  BY Kinds DEF UpdateWrite, OverwriteRow
<1>. QED BY <1>1, <1>2, <1>3

LEMMA TypeCancelRequest ==
  ASSUME TypeInv, NEW u \in Analysts, NEW j \in Jobs, CancelRequest(u, j) PROVE TypeInv'
<1>1. TypeOK'
  BY Kinds, RowTypes DEF CancelRequest, Spend, Copies, Event
<1>2. AtWork'
  BY Kinds DEF CancelRequest, Marked
<1>3. Delivered'
  BY Kinds DEF CancelRequest
<1>. QED BY <1>1, <1>2, <1>3

LEMMA TypeRevoke ==
  ASSUME TypeInv, NEW u \in Analysts, Revoke(u) PROVE TypeInv'
<1>. DEFINE Hit == {w \in Workers : held[w] # NoMessage /\ held[w][1] = copy[u].task}
<1>0. u \notin Hit /\ cur[u] \in Jobs
  BY Kinds DEF Revoke
<1>1. CASE pc' = [pc EXCEPT ![u] = "mark"] /\ UNCHANGED <<broker, cur, seen, goal, held, won>>
  <2>1. goal[u] \in Marked
    BY DEF Revoke
  <2>. QED BY <1>0, <1>1, <2>1, Kinds DEF Revoke
<1>2. CASE ~(pc' = [pc EXCEPT ![u] = "mark"] /\ UNCHANGED <<broker, cur, seen, goal, held, won>>)
  <2>1. /\ pc'   = [a \in Actors |-> IF a = u THEN "mark"
                                     ELSE IF a \in Hit THEN "idle" ELSE pc[a]]
        /\ cur'  = [a \in Actors |-> IF a \in Hit THEN NoJob ELSE cur[a]]
        /\ goal' = [a \in Actors |-> IF a \in Hit THEN "none" ELSE goal[a]]
    BY <1>2 DEF Revoke
  <2>2. /\ seen' = [a \in Actors |-> IF a \in Hit THEN NoRow ELSE seen[a]]
        /\ held' = [w \in Workers |-> IF w \in Hit THEN NoMessage ELSE held[w]]
        /\ won'  = [w \in Workers |-> IF w \in Hit THEN 0 ELSE won[w]]
        /\ broker' = [m \in Message |-> IF m[1] = copy[u].task THEN 0 ELSE broker[m]]
    BY <1>2 DEF Revoke
  <2>3. UNCHANGED <<status, attempt, fresh, taskId, scan, jobOf, copy, todo, gen, budget>>
    BY DEF Revoke
  <2>4. pc' \in [Actors -> WorkerPc \cup AnalystPc \cup BeatPc]
    BY <2>1
  <2>5. seen' \in [Actors -> Rows] /\ held' \in [Workers -> Message \cup {NoMessage}]
    BY <2>2, RowTypes
  <2>6. TypeOK'
    BY <2>1, <2>2, <2>3, <2>4, <2>5
  <2>7. goal[u] \in Marked
    BY DEF Revoke
  <2>8. AtWork'
    BY <1>0, <2>1, <2>7
  <2>9. Delivered'
    BY <2>1, <2>2, <2>3, Kinds
  <2>. QED BY <2>6, <2>8, <2>9
<1>. QED BY <1>1, <1>2

LEMMA TypeFinishCancel ==
  ASSUME TypeInv, NEW u \in Analysts, FinishCancel(u) PROVE TypeInv'
<1>1. TypeOK'
  BY Kinds, RowTypes DEF FinishCancel, SaveScanFailed, ScanStatus
<1>2. AtWork'
  BY Kinds DEF FinishCancel, SaveScanFailed
<1>3. Delivered'
  BY Kinds DEF FinishCancel, SaveScanFailed
<1>. QED BY <1>1, <1>2, <1>3

LEMMA TypeRetryRequest ==
  ASSUME TypeInv, NEW u \in Analysts, NEW j \in Jobs, RetryRequest(u, j) PROVE TypeInv'
<1>1. TypeOK'
  BY Kinds, RowTypes DEF RetryRequest, Spend, Copies, Event
<1>2. AtWork'
  BY Kinds DEF RetryRequest
<1>3. Delivered'
  BY Kinds DEF RetryRequest
<1>. QED BY <1>1, <1>2, <1>3

LEMMA TypeRescan ==
  ASSUME TypeInv, NEW u \in Analysts, Rescan(u) PROVE TypeInv'
<1>1. TypeOK'
  BY Kinds, RowTypes DEF Rescan, ScanStatus
<1>2. AtWork'
  BY Kinds DEF Rescan
<1>3. Delivered'
  BY Kinds DEF Rescan
<1>. QED BY <1>1, <1>2, <1>3

LEMMA TypeWebCrash ==
  ASSUME TypeInv, NEW u \in Analysts, WebCrash(u) PROVE TypeInv'
<1>1. TypeOK'
  BY Kinds, RowTypes DEF WebCrash, Spend, Event
<1>2. AtWork'
  BY Kinds DEF WebCrash
<1>3. Delivered'
  BY Kinds DEF WebCrash
<1>. QED BY <1>1, <1>2, <1>3

LEMMA TypeStutter == ASSUME TypeInv, UNCHANGED vars PROVE TypeInv'
<1>1. TypeOK'
  BY DEF vars
<1>2. AtWork' /\ Delivered'
  BY DEF vars
<1>. QED BY <1>1, <1>2

LEMMA TypeStep == ASSUME TypeInv, [Next]_vars PROVE TypeInv'
<1>1. ASSUME NEW w \in Workers, WorkerStep(w) PROVE TypeInv'
  BY <1>1, TypeReceive, TypeReadJob, TypeCheckLimits, TypeClaim, TypeUnclaimed, TypePreflight,
     TypeStartScan, TypeScanSucceeds, TypeSaveResult, TypeSaveFindings, TypeScanFails,
     TypeMarkRead, TypeMarkWrite, TypeFinishCompleted, TypeFinishFailed, TypeFinishRetrying,
     TypeAckRetried DEF WorkerStep
<1>2. ASSUME NEW s \in Beats, BeatStep(s) \/ \E j \in Jobs : Dispatch(s, j) PROVE TypeInv'
  BY <1>2, TypeFindStale, TypeReclaim, TypeSendMaintenance, TypeGiveUp, TypeMarkRead,
     TypeMarkWrite, TypeFinishGiveUp, TypeDispatch DEF BeatStep
<1>3. ASSUME NEW u \in Analysts, AnalystStep(u) \/ Request(u) PROVE TypeInv'
  BY <1>3, TypeSendTask, TypeUpdateRead, TypeUpdateWrite, TypeRescan, TypeRevoke, TypeMarkRead,
     TypeMarkWrite, TypeFinishCancel, TypeSubmit, TypeCancelRequest, TypeRetryRequest
     DEF AnalystStep, Request
<1>4. ASSUME Fault PROVE TypeInv'
  BY <1>4, TypeScanRetryable, TypeWorkerCrash, TypeHardTimeLimit, TypeWebCrash, TypeBeatCrash
     DEF Fault
<1>. QED BY <1>1, <1>2, <1>3, <1>4, TypeAge, TypeStutter DEF Next

\* No interleaving of workers, requests and sweeps leaves the shape of TypeOK: a
\* status is only ever one of ScanJobStatus, and an actor's job is one that exists.
THEOREM TypeCorrect == Spec => []TypeOK
<1>1. Spec => []TypeInv
  BY TypeInit, TypeStep, PTL DEF Spec
<1>. QED BY <1>1, PTL DEF TypeInv

-----------------------------------------------------------------------------
(* Claims.  UniqueClaim is inductive once it is said that a claim is never   *)
(* ahead of its job, and behind it as soon as the job is claimable again.    *)

HIDE DEF TypeInv, TypeOK, AtWork, Delivered, Goto, Rest, WorkerPc, AnalystPc, BeatPc

ClaimsBehind ==
  \A w \in Workers :
    pc[w] \in ExecutingPc =>
      /\ won[w] <= gen[cur[w]]
      /\ status[cur[w]] \in Claimable => won[w] < gen[cur[w]]

ClaimInv == TypeInv /\ ClaimsBehind /\ UniqueClaim

\* Nobody begins to execute, and who goes on does so on the same claim.
NoNewClaim ==
  \A w \in Workers :
    pc'[w] \in ExecutingPc =>
      pc[w] \in ExecutingPc /\ cur'[w] = cur[w] /\ won'[w] = won[w]

LEMMA ClaimFacts ==
  ASSUME TypeInv
  PROVE  /\ \A w \in Workers : pc[w] \in ExecutingPc => cur[w] \in Jobs
         /\ \A w \in Workers : won[w] \in Nat
         /\ gen \in [Jobs -> Nat] /\ status \in [Jobs -> Status]
  BY DEF TypeInv, TypeOK, AtWork, ExecutingPc

LEMMA ClaimsKept ==
  ASSUME ClaimInv, NoNewClaim, status' = status, gen' = gen
  PROVE  ClaimsBehind' /\ UniqueClaim'
  BY DEF ClaimInv, NoNewClaim, ClaimsBehind, UniqueClaim, Executing

LEMMA PutUpKeepsClaims ==
  ASSUME ClaimInv, NoNewClaim, NEW j \in Jobs, NEW s, PutUp(j, s)
  PROVE  ClaimsBehind' /\ UniqueClaim'
<1>1. UniqueClaim'
  BY DEF ClaimInv, NoNewClaim, UniqueClaim, Executing
<1>2. ASSUME NEW w \in Workers, pc'[w] \in ExecutingPc
      PROVE  /\ won'[w] <= gen'[cur'[w]]
             /\ status'[cur'[w]] \in Claimable => won'[w] < gen'[cur'[w]]
  <2>. DEFINE k == cur[w]
  <2>1. /\ pc[w] \in ExecutingPc /\ cur'[w] = k /\ won'[w] = won[w]
        /\ k \in Jobs /\ won[w] \in Nat
        /\ gen \in [Jobs -> Nat] /\ status \in [Jobs -> Status]
    BY <1>2, ClaimFacts DEF NoNewClaim, ClaimInv
  <2>2. won[w] <= gen[k] /\ (status[k] \in Claimable => won[w] < gen[k])
    BY <2>1 DEF ClaimInv, ClaimsBehind
  <2>. QED BY <2>1, <2>2 DEF PutUp
<1>. QED BY <1>1, <1>2 DEF ClaimsBehind

LEMMA ClaimKeepsClaims ==
  ASSUME ClaimInv, NEW v \in Workers, Claim(v)
  PROVE  ClaimsBehind' /\ UniqueClaim'
<1>. DEFINE j == cur[v]
<1>0. /\ j \in Jobs /\ gen' = gen /\ gen \in [Jobs -> Nat] /\ cur' = cur
      /\ pc[v] = "claim" /\ \A w \in Workers : won[w] \in Nat
  BY ClaimFacts DEF Claim, ClaimInv, TypeInv, AtWork
<1>1. CASE ~CanClaim(j)
  <2>1. status' = status /\ won' = won /\ pc' = [pc EXCEPT ![v] = "unclaimed"]
    BY <1>1 DEF Claim
  <2>. QED BY <1>0, <2>1, ClaimsKept DEF NoNewClaim, ExecutingPc, ClaimInv, TypeInv, TypeOK
<1>2. CASE CanClaim(j)
  <2>1. /\ status' = [status EXCEPT ![j] = "running"]
        /\ won' = [won EXCEPT ![v] = gen[j]] /\ pc' = [pc EXCEPT ![v] = "preflight"]
    BY <1>2 DEF Claim
  <2>2. /\ won'[v] = gen[j] /\ status'[j] = "running"
        /\ \A w \in Workers \ {v} : won'[w] = won[w] /\ pc'[w] = pc[w]
        /\ \A k \in Jobs : status'[k] \in Claimable => status[k] \in Claimable
    BY <1>0, <2>1 DEF ClaimInv, TypeInv, TypeOK
  <2>3. \A w \in Workers : pc[w] \in ExecutingPc /\ cur[w] = j => won[w] < gen[j]
    BY <1>2 DEF ClaimInv, ClaimsBehind, CanClaim
  <2>4. ClaimsBehind'
    BY <1>0, <2>2, ClaimFacts DEF ClaimInv, ClaimsBehind
  <2>5. UniqueClaim'
    BY <1>0, <2>2, <2>3 DEF ClaimInv, UniqueClaim, Executing
  <2>. QED BY <2>4, <2>5
<1>. QED BY <1>1, <1>2

USE DEF ClaimInv, TypeInv, TypeOK, NoNewClaim, Goto, Rest, ExecutingPc

LEMMA KeepReceive == ASSUME ClaimInv, NEW w \in Workers, Receive(w)
  PROVE  NoNewClaim /\ status' = status /\ gen' = gen
  BY Kinds DEF Receive

LEMMA KeepReadJob == ASSUME ClaimInv, NEW w \in Workers, ReadJob(w)
  PROVE  NoNewClaim /\ status' = status /\ gen' = gen
  BY Kinds DEF ReadJob, Ack

LEMMA KeepCheckLimits == ASSUME ClaimInv, NEW w \in Workers, CheckLimits(w)
  PROVE  NoNewClaim /\ status' = status /\ gen' = gen
  BY Kinds DEF CheckLimits, CheckLimit, Retry, Ack

LEMMA KeepUnclaimed == ASSUME ClaimInv, NEW w \in Workers, Unclaimed(w)
  PROVE  NoNewClaim /\ status' = status /\ gen' = gen
  BY Kinds DEF Unclaimed, Retry, Ack

LEMMA KeepPreflight == ASSUME ClaimInv, NEW w \in Workers, Preflight(w)
  PROVE  NoNewClaim /\ status' = status /\ gen' = gen
  BY Kinds DEF Preflight

LEMMA KeepStartScan == ASSUME ClaimInv, NEW w \in Workers, StartScan(w)
  PROVE  NoNewClaim /\ status' = status /\ gen' = gen
  BY Kinds DEF StartScan

LEMMA KeepScanSucceeds == ASSUME ClaimInv, NEW w \in Workers, ScanSucceeds(w)
  PROVE  NoNewClaim /\ status' = status /\ gen' = gen
  BY Kinds DEF ScanSucceeds

LEMMA KeepSaveResult == ASSUME ClaimInv, NEW w \in Workers, SaveResult(w)
  PROVE  NoNewClaim /\ status' = status /\ gen' = gen
  BY Kinds DEF SaveResult

LEMMA KeepSaveFindings == ASSUME ClaimInv, NEW w \in Workers, SaveFindings(w)
  PROVE  NoNewClaim /\ status' = status /\ gen' = gen
  BY Kinds DEF SaveFindings

LEMMA KeepScanFails == ASSUME ClaimInv, NEW w \in Workers, ScanFails(w)
  PROVE  NoNewClaim /\ status' = status /\ gen' = gen
  BY Kinds DEF ScanFails, AtWork

LEMMA KeepMarkRead == ASSUME ClaimInv, NEW a \in Actors, MarkRead(a)
  PROVE  NoNewClaim /\ status' = status /\ gen' = gen
  BY Kinds DEF MarkRead

LEMMA KeepFinishCompleted == ASSUME ClaimInv, NEW w \in Workers, FinishCompleted(w)
  PROVE  NoNewClaim /\ status' = status /\ gen' = gen
  BY Kinds DEF FinishCompleted, Ack

LEMMA KeepFinishFailed == ASSUME ClaimInv, NEW w \in Workers, FinishFailed(w)
  PROVE  NoNewClaim /\ status' = status /\ gen' = gen
  BY Kinds DEF FinishFailed, Ack

LEMMA KeepFinishRetrying == ASSUME ClaimInv, NEW w \in Workers, FinishRetrying(w)
  PROVE  NoNewClaim /\ status' = status /\ gen' = gen
  BY Kinds DEF FinishRetrying, Retry, Ack

LEMMA KeepAckRetried == ASSUME ClaimInv, NEW w \in Workers, AckRetried(w)
  PROVE  NoNewClaim /\ status' = status /\ gen' = gen
  BY Kinds DEF AckRetried, Ack

LEMMA KeepScanRetryable == ASSUME ClaimInv, NEW w \in Workers, ScanRetryable(w)
  PROVE  NoNewClaim /\ status' = status /\ gen' = gen
  BY Kinds DEF ScanRetryable

LEMMA KeepWorkerCrash == ASSUME ClaimInv, NEW w \in Workers, WorkerCrash(w)
  PROVE  NoNewClaim /\ status' = status /\ gen' = gen
  BY Kinds DEF WorkerCrash

LEMMA KeepHardTimeLimit == ASSUME ClaimInv, NEW w \in Workers, HardTimeLimit(w)
  PROVE  NoNewClaim /\ status' = status /\ gen' = gen
  BY Kinds DEF HardTimeLimit, Ack

LEMMA KeepAge == ASSUME ClaimInv, NEW j \in Jobs, Age(j)
  PROVE  NoNewClaim /\ status' = status /\ gen' = gen
  BY Kinds DEF Age

LEMMA KeepFindStale == ASSUME ClaimInv, NEW s \in Beats, FindStale(s)
  PROVE  NoNewClaim /\ status' = status /\ gen' = gen
  BY Kinds DEF FindStale

LEMMA KeepSendMaintenance == ASSUME ClaimInv, NEW s \in Beats, SendMaintenance(s)
  PROVE  NoNewClaim /\ status' = status /\ gen' = gen
  BY Kinds DEF SendMaintenance

LEMMA KeepGiveUp == ASSUME ClaimInv, NEW s \in Beats, GiveUp(s)
  PROVE  NoNewClaim /\ status' = status /\ gen' = gen
  BY Kinds DEF GiveUp

LEMMA KeepFinishGiveUp == ASSUME ClaimInv, NEW s \in Beats, FinishGiveUp(s)
  PROVE  NoNewClaim /\ status' = status /\ gen' = gen
  BY Kinds DEF FinishGiveUp

LEMMA KeepBeatCrash == ASSUME ClaimInv, NEW s \in Beats, BeatCrash(s)
  PROVE  NoNewClaim /\ status' = status /\ gen' = gen
  BY Kinds DEF BeatCrash

LEMMA KeepSendTask == ASSUME ClaimInv, NEW u \in Analysts, SendTask(u)
  PROVE  NoNewClaim /\ status' = status /\ gen' = gen
  BY Kinds DEF SendTask

LEMMA KeepUpdateRead == ASSUME ClaimInv, NEW u \in Analysts, UpdateRead(u)
  PROVE  NoNewClaim /\ status' = status /\ gen' = gen
  BY Kinds DEF UpdateRead

LEMMA KeepCancelRequest == ASSUME ClaimInv, NEW u \in Analysts, NEW j \in Jobs, CancelRequest(u, j)
  PROVE  NoNewClaim /\ status' = status /\ gen' = gen
  BY Kinds DEF CancelRequest

LEMMA KeepRevoke == ASSUME ClaimInv, NEW u \in Analysts, Revoke(u)
  PROVE  NoNewClaim /\ status' = status /\ gen' = gen
  BY Kinds DEF Revoke

LEMMA KeepFinishCancel == ASSUME ClaimInv, NEW u \in Analysts, FinishCancel(u)
  PROVE  NoNewClaim /\ status' = status /\ gen' = gen
  BY Kinds DEF FinishCancel

LEMMA KeepRetryRequest == ASSUME ClaimInv, NEW u \in Analysts, NEW j \in Jobs, RetryRequest(u, j)
  PROVE  NoNewClaim /\ status' = status /\ gen' = gen
  BY Kinds DEF RetryRequest

LEMMA KeepRescan == ASSUME ClaimInv, NEW u \in Analysts, Rescan(u)
  PROVE  NoNewClaim /\ status' = status /\ gen' = gen
  BY Kinds DEF Rescan

LEMMA KeepWebCrash == ASSUME ClaimInv, NEW u \in Analysts, WebCrash(u)
  PROVE  NoNewClaim /\ status' = status /\ gen' = gen
  BY Kinds DEF WebCrash

LEMMA KeepMarkWrite == ASSUME ClaimInv, NEW a \in Actors, MarkWrite(a)
  PROVE  ClaimsBehind' /\ UniqueClaim'
<1>1. cur[a] \in Jobs /\ NoNewClaim
  BY Kinds DEF MarkWrite, AtWork
<1>2. CASE Markable(seen[a])
  BY <1>1, <1>2, PutUpKeepsClaims DEF MarkWrite
<1>3. CASE ~Markable(seen[a])
  BY <1>1, <1>3, ClaimsKept DEF MarkWrite
<1>. QED BY <1>2, <1>3

LEMMA KeepReclaim == ASSUME ClaimInv, NEW s \in Beats, Reclaim(s)
  PROVE  ClaimsBehind' /\ UniqueClaim'
<1>1. PICK e \in todo[s] : Reclaim(s)!(e)
  BY DEF Reclaim
<1>2. e[1] \in Jobs /\ NoNewClaim
  BY <1>1, Kinds
<1>3. CASE Stale(e[1])
  BY <1>1, <1>2, <1>3, PutUpKeepsClaims
<1>4. CASE ~Stale(e[1])
  BY <1>1, <1>2, <1>4, ClaimsKept
<1>. QED BY <1>3, <1>4

LEMMA KeepDispatch == ASSUME ClaimInv, NEW s \in Beats, NEW j \in Jobs, Dispatch(s, j)
  PROVE  ClaimsBehind' /\ UniqueClaim'
<1>1. NoNewClaim
  BY Kinds DEF Dispatch
<1>. QED BY <1>1, PutUpKeepsClaims DEF Dispatch

LEMMA KeepSubmit == ASSUME ClaimInv, NEW u \in Analysts, NEW j \in Jobs, Submit(u, j)
  PROVE  ClaimsBehind' /\ UniqueClaim'
<1>1. NoNewClaim
  BY Kinds DEF Submit
<1>. QED BY <1>1, PutUpKeepsClaims DEF Submit

LEMMA KeepUpdateWrite == ASSUME ClaimInv, NEW u \in Analysts, UpdateWrite(u)
  PROVE  ClaimsBehind' /\ UniqueClaim'
<1>1. cur[u] \in Jobs /\ NoNewClaim
  BY Kinds DEF UpdateWrite, AtWork
<1>2. (\E s \in Status : PutUp(cur[u], s)) \/ (status' = status /\ gen' = gen)
  BY <1>1 DEF UpdateWrite, OverwriteRow, Overwrite
<1>. QED BY <1>1, <1>2, PutUpKeepsClaims, ClaimsKept

HIDE DEF ClaimInv, TypeInv, TypeOK, NoNewClaim, Goto, Rest, ExecutingPc

LEMMA ClaimStep == ASSUME ClaimInv, [Next]_vars PROVE ClaimInv'
<1>0. TypeInv'
  BY TypeStep DEF ClaimInv
<1>1. ASSUME NEW w \in Workers, WorkerStep(w) PROVE ClaimsBehind' /\ UniqueClaim'
  BY <1>1, ClaimsKept, ClaimKeepsClaims, KeepReceive, KeepReadJob, KeepCheckLimits,
     KeepUnclaimed, KeepPreflight, KeepStartScan, KeepScanSucceeds, KeepSaveResult,
     KeepSaveFindings, KeepScanFails, KeepMarkRead, KeepMarkWrite, KeepFinishCompleted,
     KeepFinishFailed, KeepFinishRetrying, KeepAckRetried DEF WorkerStep
<1>2. ASSUME NEW s \in Beats, BeatStep(s) \/ \E j \in Jobs : Dispatch(s, j)
      PROVE  ClaimsBehind' /\ UniqueClaim'
  BY <1>2, ClaimsKept, KeepFindStale, KeepReclaim, KeepSendMaintenance, KeepGiveUp,
     KeepMarkRead, KeepMarkWrite, KeepFinishGiveUp, KeepDispatch DEF BeatStep
<1>3. ASSUME NEW u \in Analysts, AnalystStep(u) \/ Request(u)
      PROVE  ClaimsBehind' /\ UniqueClaim'
  BY <1>3, ClaimsKept, KeepSendTask, KeepUpdateRead, KeepUpdateWrite, KeepRescan, KeepRevoke,
     KeepMarkRead, KeepMarkWrite, KeepFinishCancel, KeepSubmit, KeepCancelRequest,
     KeepRetryRequest DEF AnalystStep, Request
<1>4. ASSUME NEW j \in Jobs, Age(j) PROVE ClaimsBehind' /\ UniqueClaim'
  BY <1>4, ClaimsKept, KeepAge
<1>5. ASSUME Fault PROVE ClaimsBehind' /\ UniqueClaim'
  BY <1>5, ClaimsKept, KeepScanRetryable, KeepWorkerCrash, KeepHardTimeLimit, KeepWebCrash,
     KeepBeatCrash DEF Fault
<1>6. ASSUME UNCHANGED vars PROVE ClaimsBehind' /\ UniqueClaim'
  BY <1>6, ClaimsKept DEF vars, NoNewClaim
<1>. QED BY <1>0, <1>1, <1>2, <1>3, <1>4, <1>5, <1>6 DEF Next, ClaimInv

\* A job that was put up once is executed by one worker at most: whatever is
\* delivered twice, reclaimed, cancelled or retried, on either backend.
THEOREM UniqueClaimHolds == Spec => []UniqueClaim
<1>1. Init => ClaimInv
  BY TypeInit DEF Init, ClaimInv, ClaimsBehind, UniqueClaim, Executing, ExecutingPc
<1>2. Spec => []ClaimInv
  BY <1>1, ClaimStep, PTL DEF Spec
<1>. QED BY <1>2, PTL DEF ClaimInv

-----------------------------------------------------------------------------
(* Terminal statuses on PostgreSQL. *)

\* Only a write that trusts a row read earlier takes a job out of a terminal
\* status: every other step that writes a status tests it in the same statement.
THEOREM TerminalRaceOnly == ASSUME Backend = "postgres" PROVE Spec => TerminalOnlyLostToRace
<1>. DEFINE Lost == \A j \in Jobs :
       status[j] \in Terminal /\ status'[j] # status[j] =>
         \E a \in Actors : Writing(a, j) /\ seen[a].status \notin Terminal
<1>1. ASSUME TypeInv, [Next]_vars PROVE Lost
  <2>. SUFFICES ASSUME NEW j \in Jobs, status[j] \in Terminal, status'[j] # status[j]
                PROVE  \E a \in Actors : Writing(a, j) /\ seen[a].status \notin Terminal
    OBVIOUS
  <2>0. status \in [Jobs -> Status]
    BY <1>1 DEF TypeInv, TypeOK
  <2>1. ASSUME NEW a \in Actors, MarkWrite(a)
        PROVE  Writing(a, j) /\ seen[a].status \notin Terminal
    BY <2>0, <2>1 DEF MarkWrite, Markable, PutUp, Goto, Writing
  <2>2. ASSUME NEW u \in Analysts, UpdateWrite(u)
        PROVE  Writing(u, j) /\ seen[u].status \notin Terminal
    BY <2>0, <2>2 DEF UpdateWrite, OverwriteRow, Markable, PutUp, Writing
  <2>3. ASSUME NEW w \in Workers, WorkerStep(w) PROVE MarkWrite(w)
    BY <2>0, <2>3 DEF WorkerStep, Receive, ReadJob, CheckLimits, CheckLimit, Claim, CanClaim,
       Unclaimed, Preflight, StartScan, ScanSucceeds, SaveResult, SaveFindings, ScanFails,
       MarkRead, FinishCompleted, FinishFailed, FinishRetrying, AckRetried
  <2>4. ASSUME NEW s \in Beats, BeatStep(s) \/ \E k \in Jobs : Dispatch(s, k)
        PROVE  MarkWrite(s)
    BY <2>0, <2>4 DEF BeatStep, FindStale, Reclaim, Stale, SendMaintenance, GiveUp, MarkRead,
       FinishGiveUp, Dispatch, PutUp
  <2>5. ASSUME NEW u \in Analysts, AnalystStep(u) \/ Request(u)
        PROVE  MarkWrite(u) \/ UpdateWrite(u)
    BY <2>0, <2>5 DEF AnalystStep, Request, SendTask, UpdateRead, Rescan, Revoke, MarkRead,
       FinishCancel, Submit, CancelRequest, RetryRequest, PutUp
  <2>6. (\E k \in Jobs : Age(k)) \/ Fault \/ UNCHANGED vars => status' = status
    BY DEF Age, Fault, ScanRetryable, WorkerCrash, HardTimeLimit, WebCrash, BeatCrash, vars
  <2>. QED BY <1>1, <2>1, <2>2, <2>3, <2>4, <2>5, <2>6 DEF Next
<1>2. Spec => []TypeInv
  BY TypeInit, TypeStep, PTL DEF Spec
<1>. QED BY <1>1, <1>2, PTL DEF Spec, TerminalOnlyLostToRace

-----------------------------------------------------------------------------
(* Attempts. *)

HIDE DEF ClaimInv, TypeInv, TypeOK, NoNewClaim, Goto, Rest, ExecutingPc

Sweeps == Cardinality(Beats)

MostAttempts == MaxAttempts + (Sweeps - 1) + budget["asked"] * (Sweeps + 1)

\* The sweeps that have listed a job while it had attempts left.
Behind(j) == {s \in Beats : \E e \in todo[s] : e[1] = j /\ ~Exhausted(e[2])}

\* A request that will write its copy of the job.
Updates(u) == pc[u] \in {"send", "update", "overwrite", "rescan"}

\* Whoever is behind may add one attempt yet, and so may every sweep after a request's write.
AttemptInv ==
  /\ TypeInv
  /\ \A s \in Beats : \A e, f \in todo[s] : e[1] = f[1] => e = f
  /\ \A j \in Jobs : attempt[j] + Cardinality(Behind(j)) <= MostAttempts
  /\ \A u \in Analysts : Updates(u) => copy[u].attempt + Sweeps <= MostAttempts

\* Numbers.
LEMMA BehindCounts ==
  ASSUME IsFiniteSet(Beats), NEW j \in Jobs
  PROVE  /\ Sweeps \in Nat /\ IsFiniteSet(Behind(j))
         /\ Cardinality(Behind(j)) \in Nat /\ Cardinality(Behind(j)) <= Sweeps
<1>1. Behind(j) \subseteq Beats
  BY DEF Behind
<1>. QED BY <1>1, FS_Subset, FS_CardinalityType DEF Sweeps

LEMMA BehindLess ==
  ASSUME IsFiniteSet(Beats), NEW j \in Jobs, Behind(j)' \subseteq Behind(j)
  PROVE  Cardinality(Behind(j)') <= Cardinality(Behind(j)) /\ Cardinality(Behind(j)') \in Nat
<1>1. IsFiniteSet(Behind(j))
  BY BehindCounts
<1>2. IsFiniteSet(Behind(j)') /\ Cardinality(Behind(j)') <= Cardinality(Behind(j))
  BY <1>1, FS_Subset
<1>. QED BY <1>2, FS_CardinalityType

LEMMA MostIsInt ==
  ASSUME IsFiniteSet(Beats), TypeInv, MaxAttempts > 1
  PROVE  /\ MostAttempts \in Int /\ budget["asked"] \in Nat
         /\ 1 + Sweeps <= MostAttempts /\ MaxAttempts - 1 + Sweeps <= MostAttempts
<1>1. budget["asked"] \in Nat /\ MaxAttempts \in Nat
  BY Limits DEF TypeInv, TypeOK, Event
<1>2. Sweeps \in Nat
  BY FS_CardinalityType DEF Sweeps
<1>. DEFINE extra == budget["asked"] * (Sweeps + 1)
<1>3. extra \in Nat
  BY <1>1, <1>2
<1>. QED BY <1>1, <1>2, <1>3 DEF MostAttempts

LEMMA MostNumber == ASSUME IsFiniteSet(Beats), TypeInv PROVE MostAttempts \in Int
<1>1. budget["asked"] \in Nat /\ MaxAttempts \in Nat /\ Sweeps \in Nat
  BY Limits, FS_CardinalityType DEF TypeInv, TypeOK, Event, Sweeps
<1>. DEFINE extra == budget["asked"] * (Sweeps + 1)
<1>2. extra \in Nat
  BY <1>1
<1>. QED BY <1>1, <1>2 DEF MostAttempts

\* Steps that change neither attempts nor what a request will write, and list nothing.
LEMMA AttemptsKept ==
  ASSUME IsFiniteSet(Beats), AttemptInv, TypeInv', attempt' = attempt,
         budget'["asked"] = budget["asked"],
         \A s \in Beats : todo'[s] \subseteq todo[s],
         \A u \in Analysts : Updates(u)' => Updates(u) /\ copy'[u].attempt = copy[u].attempt
  PROVE  AttemptInv'
<1>1. MostAttempts' = MostAttempts
  BY DEF MostAttempts, Sweeps
<1>2. ASSUME NEW j \in Jobs PROVE attempt'[j] + Cardinality(Behind(j)') <= MostAttempts
  <2>1. Behind(j)' \subseteq Behind(j)
    BY DEF Behind, Exhausted
  <2>2. Cardinality(Behind(j)') <= Cardinality(Behind(j)) /\ Cardinality(Behind(j)') \in Nat
    BY <2>1, BehindLess
  <2>3. Cardinality(Behind(j)) \in Nat /\ attempt[j] \in Nat
    BY BehindCounts DEF AttemptInv, TypeInv, TypeOK
  <2>4. attempt[j] + Cardinality(Behind(j)) <= MostAttempts
    BY DEF AttemptInv
  <2>. QED BY <2>2, <2>3, <2>4, MostNumber DEF AttemptInv
<1>3. \A s \in Beats : \A e, f \in todo'[s] : e[1] = f[1] => e = f
  BY DEF AttemptInv
<1>4. \A u \in Analysts : Updates(u)' => copy'[u].attempt + Sweeps <= MostAttempts
  BY DEF AttemptInv
<1>. QED BY <1>1, <1>2, <1>3, <1>4 DEF AttemptInv, Sweeps

\* Steps that write the attempt of one job.
LEMMA AttemptWritten ==
  ASSUME IsFiniteSet(Beats), AttemptInv, TypeInv', NEW j \in Jobs, NEW n \in Nat,
         n + Sweeps <= MostAttempts, attempt' = [attempt EXCEPT ![j] = n], budget' = budget,
         todo' = todo,
         \A u \in Analysts : Updates(u)' =>
           \/ Updates(u) /\ copy'[u].attempt = copy[u].attempt
           \/ copy'[u].attempt + Sweeps <= MostAttempts
  PROVE  AttemptInv'
<1>1. MostAttempts' = MostAttempts /\ Sweeps' = Sweeps
  BY DEF MostAttempts, Sweeps
<1>2. ASSUME NEW k \in Jobs PROVE attempt'[k] + Cardinality(Behind(k)') <= MostAttempts
  <2>1. Behind(k)' = Behind(k)
    BY DEF Behind, Exhausted
  <2>2. Sweeps \in Nat /\ Cardinality(Behind(k)) \in Nat /\ Cardinality(Behind(k)) <= Sweeps
    BY BehindCounts
  <2>3. attempt[k] + Cardinality(Behind(k)) <= MostAttempts
    BY DEF AttemptInv
  <2>4. attempt'[k] = IF k = j THEN n ELSE attempt[k]
    BY DEF AttemptInv, TypeInv, TypeOK
  <2>. QED BY <2>1, <2>2, <2>3, <2>4, MostNumber DEF AttemptInv
<1>3. \A u \in Analysts : Updates(u)' => copy'[u].attempt + Sweeps <= MostAttempts
  BY DEF AttemptInv
<1>. QED BY <1>1, <1>2, <1>3 DEF AttemptInv

\* The sweep's list, made when the attempts are what it says.
LEMMA AttemptsListed ==
  ASSUME IsFiniteSet(Beats), MaxAttempts > 1, AttemptInv, TypeInv', NEW s \in Beats, FindStale(s)
  PROVE  AttemptInv'
<1>1. UNCHANGED <<attempt, pc, copy, budget>> /\ todo[s] = {}
      /\ todo' = [todo EXCEPT ![s] = {<<j, attempt[j]>> : j \in {k \in Jobs : Stale(k)}}]
  BY DEF FindStale, jobVars, ctlVars, histVars
<1>2. /\ \A t \in Beats \ {s} : todo'[t] = todo[t]
      /\ todo'[s] = {<<j, attempt[j]>> : j \in {k \in Jobs : Stale(k)}}
  BY <1>1 DEF AttemptInv, TypeInv, TypeOK
<1>3. \A e \in todo'[s] : e[2] = attempt[e[1]] /\ e = <<e[1], e[2]>>
  BY <1>2
<1>4. \A t \in Beats : \A e, f \in todo'[t] : e[1] = f[1] => e = f
  BY <1>2, <1>3 DEF AttemptInv
<1>5. MostAttempts' = MostAttempts /\ Sweeps' = Sweeps
  BY <1>1 DEF MostAttempts, Sweeps
<1>6. ASSUME NEW j \in Jobs PROVE attempt'[j] + Cardinality(Behind(j)') <= MostAttempts
  <2>1. attempt[j] \in Nat /\ attempt[j] + Cardinality(Behind(j)) <= MostAttempts
        /\ Cardinality(Behind(j)) \in Nat
    BY BehindCounts DEF AttemptInv, TypeInv, TypeOK
  <2>2. CASE Exhausted(attempt[j])
    <3>1. Behind(j)' \subseteq Behind(j)
      BY <1>2, <1>3, <2>2 DEF Behind, Exhausted
    <3>2. Cardinality(Behind(j)') <= Cardinality(Behind(j)) /\ Cardinality(Behind(j)') \in Nat
      BY <3>1, BehindLess
    <3>. QED BY <1>1, <2>1, <3>2, MostNumber DEF AttemptInv
  <2>3. CASE ~Exhausted(attempt[j])
    <3>1. Behind(j)' \subseteq Beats
      BY DEF Behind
    <3>2. Cardinality(Behind(j)') \in Nat /\ Cardinality(Behind(j)') <= Sweeps /\ Sweeps \in Nat
      BY <3>1, FS_Subset, FS_CardinalityType DEF Sweeps
    <3>3. attempt[j] < MaxAttempts
      BY <2>1, <2>3, Limits DEF Exhausted
    <3>4. MaxAttempts - 1 + Sweeps <= MostAttempts /\ MostAttempts \in Int
      BY MostIsInt DEF AttemptInv
    <3>. QED BY <1>1, <2>1, <3>2, <3>3, <3>4, Limits
  <2>. QED BY <2>2, <2>3
<1>7. \A u \in Analysts : Updates(u)' => copy'[u].attempt + Sweeps <= MostAttempts
  BY <1>1 DEF AttemptInv, Updates
<1>. QED BY <1>4, <1>5, <1>6, <1>7 DEF AttemptInv

\* A sweep that adds an attempt is not behind any more.
LEMMA AttemptAdded ==
  ASSUME IsFiniteSet(Beats), AttemptInv, TypeInv', NEW s \in Beats, Reclaim(s)
  PROVE  AttemptInv'
<1>. PICK e \in todo[s] : Reclaim(s)!(e)
  BY DEF Reclaim
<1>. DEFINE j == e[1]
<1>1. /\ ~Exhausted(e[2]) /\ todo' = [todo EXCEPT ![s] = todo[s] \ {e}]
      /\ copy' = copy /\ budget' = budget /\ j \in Jobs
      /\ attempt' = attempt \/ attempt' = [attempt EXCEPT ![j] = attempt[j] + 1]
      /\ \A u \in Analysts : pc'[u] = pc[u]
  BY Kinds DEF AttemptInv, TypeInv, TypeOK, Actors
<1>2. todo'[s] = todo[s] \ {e} /\ \A t \in Beats \ {s} : todo'[t] = todo[t]
  BY <1>1 DEF AttemptInv, TypeInv, TypeOK
<1>3. MostAttempts' = MostAttempts /\ Sweeps' = Sweeps
  BY <1>1 DEF MostAttempts, Sweeps
<1>4. \A t \in Beats : \A f, g \in todo'[t] : f[1] = g[1] => f = g
  BY <1>2 DEF AttemptInv
<1>5. s \in Behind(j) /\ Behind(j)' \subseteq Behind(j) \ {s}
  <2>1. \A f \in todo'[s] : f[1] # j
    BY <1>2 DEF AttemptInv
  <2>. QED BY <1>1, <1>2, <2>1 DEF Behind, Exhausted
<1>. HIDE DEF j
<1>6. ASSUME NEW k \in Jobs PROVE attempt'[k] + Cardinality(Behind(k)') <= MostAttempts
  <2>1. attempt[k] \in Nat /\ attempt[k] + Cardinality(Behind(k)) <= MostAttempts
        /\ Cardinality(Behind(k)) \in Nat /\ IsFiniteSet(Behind(k))
    BY BehindCounts DEF AttemptInv, TypeInv, TypeOK
  <2>2. Behind(k)' \subseteq Behind(k)
    BY <1>2 DEF Behind, Exhausted
  <2>3. Cardinality(Behind(k)') <= Cardinality(Behind(k)) /\ Cardinality(Behind(k)') \in Nat
    BY <2>2, BehindLess
  <2>4. CASE k # j
    <3>1. attempt'[k] = attempt[k]
      BY <1>1, <2>4 DEF AttemptInv, TypeInv, TypeOK
    <3>. QED BY <2>1, <2>3, <3>1, MostNumber DEF AttemptInv
  <2>5. CASE k = j
    <3>1. IsFiniteSet(Behind(k) \ {s}) /\ Cardinality(Behind(k) \ {s}) = Cardinality(Behind(k)) - 1
      BY <1>5, <2>1, <2>5, FS_RemoveElement
    <3>2. Cardinality(Behind(k)') <= Cardinality(Behind(k)) - 1
      BY <1>5, <2>5, <3>1, FS_Subset
    <3>3. attempt'[k] <= attempt[k] + 1 /\ attempt'[k] \in Nat
      BY <1>1, <2>1, <2>5 DEF AttemptInv, TypeInv, TypeOK
    <3>. QED BY <2>1, <2>3, <3>2, <3>3, MostNumber DEF AttemptInv
  <2>. QED BY <2>4, <2>5
<1>7. \A u \in Analysts : Updates(u)' => copy'[u].attempt + Sweeps <= MostAttempts
  BY <1>1 DEF AttemptInv, Updates
<1>. QED BY <1>3, <1>4, <1>6, <1>7 DEF AttemptInv

\* A request for a retry raises what may become of the attempts.
LEMMA AttemptAsked ==
  ASSUME IsFiniteSet(Beats), MaxAttempts > 1, AttemptInv, TypeInv', NEW u \in Analysts,
         NEW j \in Jobs, RetryRequest(u, j)
  PROVE  AttemptInv'
<1>1. /\ UNCHANGED <<attempt, todo>> /\ budget'["asked"] = budget["asked"] + 1
      /\ copy' = [copy EXCEPT ![u] = [attempt |-> attempt[j] + 1, task |-> taskId[j]]]
      /\ \A v \in Analysts \ {u} : pc'[v] = pc[v]
  BY Kinds DEF RetryRequest, Goto, jobVars, AttemptInv, TypeInv, TypeOK, Actors, Event
<1>2. /\ copy'[u].attempt = attempt[j] + 1
      /\ \A v \in Analysts \ {u} : copy'[v] = copy[v]
  BY <1>1 DEF AttemptInv, TypeInv, TypeOK
<1>3. MostAttempts \in Int /\ Sweeps \in Nat /\ budget["asked"] \in Nat
  BY MostIsInt, FS_CardinalityType DEF AttemptInv, Sweeps
<1>4. MostAttempts' = MostAttempts + Sweeps + 1 /\ Sweeps' = Sweeps
  <2>1. (budget["asked"] + 1) * (Sweeps + 1) = budget["asked"] * (Sweeps + 1) + Sweeps + 1
    BY <1>3
  <2>. DEFINE extra == budget["asked"] * (Sweeps + 1)
  <2>2. extra \in Nat /\ MaxAttempts \in Nat
    BY <1>3, Limits
  <2>3. MostAttempts' = MaxAttempts + (Sweeps - 1) + (extra + Sweeps + 1)
    BY <1>1, <2>1 DEF MostAttempts, Sweeps
  <2>4. MostAttempts = MaxAttempts + (Sweeps - 1) + extra
    BY DEF MostAttempts
  <2>. HIDE DEF extra
  <2>. QED BY <1>3, <2>2, <2>3, <2>4 DEF Sweeps
<1>5. ASSUME NEW k \in Jobs
      PROVE  /\ attempt[k] \in Nat /\ attempt[k] <= MostAttempts
             /\ attempt'[k] + Cardinality(Behind(k)') <= MostAttempts'
  <2>1. Behind(k)' = Behind(k)
    BY <1>1 DEF Behind, Exhausted
  <2>2. attempt[k] \in Nat /\ attempt[k] + Cardinality(Behind(k)) <= MostAttempts
        /\ Cardinality(Behind(k)) \in Nat
    BY BehindCounts DEF AttemptInv, TypeInv, TypeOK
  <2>. QED BY <1>1, <1>3, <1>4, <2>1, <2>2
<1>6. ASSUME NEW v \in Analysts, Updates(v)' PROVE copy'[v].attempt + Sweeps <= MostAttempts'
  <2>1. CASE v = u
    BY <1>2, <1>3, <1>4, <1>5, <2>1
  <2>2. CASE v # u
    <3>1. copy'[v] = copy[v] /\ copy[v].attempt + Sweeps <= MostAttempts /\ copy[v].attempt \in Nat
      BY <1>1, <1>2, <1>6, <2>2 DEF AttemptInv, Updates, TypeInv, TypeOK, Copies
    <3>. QED BY <1>3, <1>4, <3>1
  <2>. QED BY <2>1, <2>2
<1>7. \A s \in Beats : \A e, f \in todo'[s] : e[1] = f[1] => e = f
  BY <1>1 DEF AttemptInv
<1>. QED BY <1>4, <1>5, <1>6, <1>7 DEF AttemptInv

LEMMA AttemptStep ==
  ASSUME IsFiniteSet(Beats), MaxAttempts > 1, AttemptInv, [Next]_vars
  PROVE  AttemptInv'
<1>0. TypeInv' /\ 1 + Sweeps <= MostAttempts
  BY TypeStep, MostIsInt DEF AttemptInv
<1>. DEFINE Kept ==
       /\ attempt' = attempt /\ budget'["asked"] = budget["asked"]
       /\ \A s \in Beats : todo'[s] \subseteq todo[s]
       /\ \A u \in Analysts : Updates(u)' => Updates(u) /\ copy'[u].attempt = copy[u].attempt
<1>1. Kept => AttemptInv'
  BY <1>0, AttemptsKept
<1>. USE Kinds
<1>2. ASSUME NEW w \in Workers, WorkerStep(w) PROVE Kept
  <2>1. /\ attempt' = attempt /\ todo' = todo /\ budget' = budget /\ copy' = copy
        /\ \A u \in Analysts : pc'[u] = pc[u]
    BY <1>2 DEF WorkerStep, Receive, ReadJob, CheckLimits, CheckLimit, Claim, Unclaimed, Preflight,
       StartScan, ScanSucceeds, SaveResult, SaveFindings, ScanFails, MarkRead, MarkWrite,
       FinishCompleted, FinishFailed, FinishRetrying, AckRetried, Goto, Retry, Ack, Rest, PutUp,
       jobVars, queueVars, ctlVars, histVars, AttemptInv, TypeInv, TypeOK, Actors
  <2>. QED BY <2>1 DEF Updates
<1>3. ASSUME NEW s \in Beats, BeatStep(s) PROVE AttemptInv'
  <2>1. CASE SendMaintenance(s) \/ MarkRead(s) \/ MarkWrite(s) \/ FinishGiveUp(s)
    <3>1. /\ attempt' = attempt /\ todo' = todo /\ budget' = budget /\ copy' = copy
          /\ \A u \in Analysts : pc'[u] = pc[u]
      BY <1>3, <2>1 DEF SendMaintenance, MarkRead, MarkWrite, FinishGiveUp, SaveScanFailed, Goto,
         Rest, PutUp, jobVars, queueVars, ctlVars, histVars, AttemptInv, TypeInv, TypeOK, Actors
    <3>. QED BY <1>1, <3>1 DEF Updates
  <2>2. CASE GiveUp(s)
    <3>1. /\ attempt' = attempt /\ budget' = budget /\ copy' = copy
          /\ \A t \in Beats : todo'[t] \subseteq todo[t]
          /\ \A u \in Analysts : pc'[u] = pc[u]
      BY <2>2 DEF GiveUp, jobVars, histVars, AttemptInv, TypeInv, TypeOK, Actors
    <3>. QED BY <1>1, <3>1 DEF Updates
  <2>. QED BY <1>0, <1>3, <2>1, <2>2, AttemptsListed, AttemptAdded DEF BeatStep
<1>4. ASSUME NEW s \in Beats, NEW j \in Jobs, Dispatch(s, j) PROVE AttemptInv'
  <2>1. /\ attempt' = [attempt EXCEPT ![j] = 1] /\ todo' = todo /\ budget' = budget
        /\ copy' = copy /\ \A u \in Analysts : pc'[u] = pc[u]
    BY <1>4 DEF Dispatch, Goto, histVars, AttemptInv, TypeInv, TypeOK, Actors
  <2>. QED BY <1>0, <2>1, AttemptWritten DEF Updates
<1>5. ASSUME NEW u \in Analysts, NEW j \in Jobs, Submit(u, j) PROVE AttemptInv'
  <2>1. /\ attempt' = [attempt EXCEPT ![j] = 1] /\ todo' = todo /\ budget' = budget
        /\ copy'[u].attempt = 1
        /\ \A v \in Analysts \ {u} : copy'[v] = copy[v] /\ pc'[v] = pc[v]
    BY <1>5 DEF Submit, Goto, histVars, AttemptInv, TypeInv, TypeOK, Actors
  <2>. QED BY <1>0, <2>1, AttemptWritten DEF Updates
<1>6. ASSUME NEW u \in Analysts, UpdateWrite(u) PROVE AttemptInv'
  <2>0. pc[u] = "overwrite" /\ todo' = todo /\ budget' = budget /\ OverwriteRow(u)
    BY <1>6 DEF UpdateWrite
  <2>1. /\ cur[u] \in Jobs
        /\ \/ attempt' = attempt
           \/ attempt' = [attempt EXCEPT ![cur[u]] = copy[u].attempt]
           \/ attempt' = [attempt EXCEPT ![cur[u]] = attempt[cur[u]]]
    <3>1. cur[u] \in Jobs
      BY <2>0 DEF AttemptInv, TypeInv, AtWork, TypeOK, Actors
    <3>2. CASE Backend = "postgres" /\ ~Markable(seen[u])
      BY <2>0, <3>1, <3>2 DEF OverwriteRow
    <3>3. CASE ~(Backend = "postgres" /\ ~Markable(seen[u]))
      <4>1. attempt' = [attempt EXCEPT ![cur[u]] =
                          Overwrite(seen[u].attempt, copy[u].attempt, attempt[cur[u]])]
        BY <2>0, <3>3 DEF OverwriteRow
      <4>. QED BY <3>1, <4>1 DEF Overwrite
    <3>. QED BY <3>2, <3>3
  <2>2. \A v \in Analysts : Updates(v)' => Updates(v) /\ copy'[v].attempt = copy[v].attempt
    BY <1>6 DEF UpdateWrite, Rest, Updates, AttemptInv, TypeInv, TypeOK, Actors
  <2>3. CASE attempt' = attempt
    BY <1>1, <2>0, <2>2, <2>3
  <2>4. CASE attempt' = [attempt EXCEPT ![cur[u]] = copy[u].attempt]
    <3>1. copy[u].attempt \in Nat /\ copy[u].attempt + Sweeps <= MostAttempts
      BY <2>0 DEF AttemptInv, Updates, TypeInv, TypeOK, Copies
    <3>. QED BY <1>0, <2>0, <2>1, <2>2, <2>4, <3>1, AttemptWritten
  <2>5. CASE attempt' = [attempt EXCEPT ![cur[u]] = attempt[cur[u]]]
    <3>1. attempt' = attempt
      BY <2>5 DEF AttemptInv, TypeInv, TypeOK
    <3>. QED BY <2>3, <3>1
  <2>. QED BY <2>1, <2>3, <2>4, <2>5
<1>7. ASSUME NEW u \in Analysts,
             \/ SendTask(u) \/ UpdateRead(u) \/ Rescan(u) \/ Revoke(u) \/ MarkRead(u)
             \/ MarkWrite(u) \/ FinishCancel(u) \/ \E j \in Jobs : CancelRequest(u, j)
      PROVE  Kept
  <2>1. attempt' = attempt /\ todo' = todo /\ budget'["asked"] = budget["asked"]
    BY <1>7 DEF SendTask, UpdateRead, Rescan, Revoke, MarkRead, MarkWrite, FinishCancel,
       CancelRequest, SaveScanFailed, Spend, PutUp, jobVars, queueVars, histVars, AttemptInv,
       TypeInv, TypeOK, Event
  <2>2. \A v \in Analysts : Updates(v)' => Updates(v) /\ copy'[v].attempt = copy[v].attempt
    BY <1>7 DEF SendTask, UpdateRead, Rescan, Revoke, MarkRead, MarkWrite, FinishCancel,
       CancelRequest, SaveScanFailed, Goto, Rest, Updates, AttemptInv, TypeInv, TypeOK, Actors,
       Copies
  <2>. QED BY <2>1, <2>2
<1>8. ASSUME (\E j \in Jobs : Age(j)) \/ UNCHANGED vars PROVE Kept
  BY <1>8 DEF Age, vars, jobVars, queueVars, ctlVars, histVars, Updates
<1>9. ASSUME Fault PROVE Kept
  <2>1. ASSUME NEW w \in Workers, ScanRetryable(w) \/ WorkerCrash(w) \/ HardTimeLimit(w) PROVE Kept
    <3>1. /\ attempt' = attempt /\ todo' = todo /\ budget'["asked"] = budget["asked"]
          /\ copy' = copy /\ \A u \in Analysts : pc'[u] = pc[u]
      BY <2>1 DEF ScanRetryable, WorkerCrash, HardTimeLimit, Goto, Ack, Rest, Spend, jobVars,
         queueVars, AttemptInv, TypeInv, TypeOK, Actors, Event
    <3>. QED BY <3>1 DEF Updates
  <2>2. ASSUME NEW s \in Beats, BeatCrash(s) PROVE Kept
    <3>1. /\ attempt' = attempt /\ budget'["asked"] = budget["asked"]
          /\ \A t \in Beats : todo'[t] \subseteq todo[t]
          /\ copy' = copy /\ \A u \in Analysts : pc'[u] = pc[u]
      BY <2>2 DEF BeatCrash, Rest, Spend, jobVars, AttemptInv, TypeInv, TypeOK, Actors, Event
    <3>. QED BY <3>1 DEF Updates
  <2>3. ASSUME NEW u \in Analysts, WebCrash(u) PROVE Kept
    <3>1. /\ attempt' = attempt /\ todo' = todo /\ budget'["asked"] = budget["asked"]
      BY <2>3 DEF WebCrash, Rest, Spend, jobVars, AttemptInv, TypeInv, TypeOK, Actors, Event
    <3>2. pc'[u] = "idle" /\ \A v \in Analysts \ {u} : copy'[v] = copy[v] /\ pc'[v] = pc[v]
      BY <2>3 DEF WebCrash, Rest, AttemptInv, TypeInv, TypeOK, Actors
    <3>. QED BY <3>1, <3>2 DEF Updates
  <2>. QED BY <1>9, <2>1, <2>2, <2>3 DEF Fault
<1>. QED
  BY <1>0, <1>1, <1>2, <1>3, <1>4, <1>5, <1>6, <1>7, <1>8, <1>9, AttemptAsked
     DEF Next, AnalystStep, Request

\* However many sweeps overlap, whatever is lost, killed, answered late, submitted, cancelled
\* or retried: max_attempts is exceeded by at most one attempt for every sweep but one, and
\* for every retry that was asked for by one attempt and one for every sweep.
THEOREM AttemptsHold ==
  ASSUME IsFiniteSet(Beats), MaxAttempts > 1
  PROVE  Spec => []AttemptsBounded
<1>1. Init => AttemptInv
  <2>. SUFFICES ASSUME Init PROVE AttemptInv
    OBVIOUS
  <2>1. TypeInv
    BY TypeInit
  <2>2. \A j \in Jobs : Behind(j) = {} /\ attempt[j] = 0
    BY DEF Init, Behind
  <2>3. \A u \in Analysts : ~Updates(u)
    BY DEF Init, Updates, Actors
  <2>4. \A s \in Beats : todo[s] = {}
    BY DEF Init
  <2>5. Sweeps \in Nat /\ MostAttempts \in Int /\ 1 + Sweeps <= MostAttempts
    BY <2>1, MostIsInt, FS_CardinalityType DEF Sweeps
  <2>6. \A j \in Jobs : attempt[j] + Cardinality(Behind(j)) <= MostAttempts
    BY <2>2, <2>5, FS_EmptySet
  <2>. QED BY <2>1, <2>3, <2>4, <2>6 DEF AttemptInv
<1>2. AttemptInv /\ [Next]_vars => AttemptInv'
  BY AttemptStep
<1>3. AttemptInv => AttemptsBounded
  <2>. SUFFICES ASSUME AttemptInv, NEW j \in Jobs PROVE attempt[j] <= MostAttempts
    BY DEF AttemptsBounded, MostAttempts, Sweeps
  <2>1. attempt[j] \in Nat /\ Cardinality(Behind(j)) \in Nat
    BY BehindCounts DEF AttemptInv, TypeInv, TypeOK
  <2>. QED BY <2>1, MostNumber DEF AttemptInv
<1>. QED BY <1>1, <1>2, <1>3, PTL DEF Spec

-----------------------------------------------------------------------------
(* The concurrency limits of run_scan_task, for every number of jobs and     *)
(* workers: a job is counted from the check it passes, not from its claim.   *)

\* Past which check a worker is.
PastAsset  == {"tenant", "global", "claim"}
PastTenant == {"global", "claim"}
PastGlobal == {"claim"}

\* Whoever is running, or may claim without being counted again.
Entered(k, past) ==
  \/ Running(k)
  \/ status[k] \in ActiveStatus /\ \E w \in Workers : pc[w] \in past /\ cur[w] = k

Counted(S, past) == {k \in S : Entered(k, past)}

LimitsAhead ==
  /\ \A j \in Jobs : Cardinality(Counted(AssetPeers(j), PastAsset)) <= MaxPerAsset
  /\ \A j \in Jobs : Cardinality(Counted(TenantPeers(j), PastTenant)) <= MaxPerTenant
  /\ Cardinality(Counted(Jobs, PastGlobal)) <= MaxGlobal

\* A job is worked on, queued or found stale only after it was created.
Created ==
  /\ \A a \in Actors : pc[a] # "idle" => status[cur[a]] # "absent"
  /\ \A w \in Workers : pc[w] # "idle" => status[jobOf[held[w][1]]] # "absent"
  /\ \A m \in Message : broker[m] > 0 => status[jobOf[m[1]]] # "absent"
  /\ \A s \in Beats : \A e \in todo[s] : status[e[1]] # "absent"

LimitInv == TypeInv /\ Created /\ LimitsAhead

Serial == \A j \in Jobs : status[j] \in Terminal => status'[j] = status[j]

-----------------------------------------------------------------------------
(* Counting. *)

LEMMA PeersInJobs ==
  ASSUME NEW j \in Jobs PROVE AssetPeers(j) \subseteq Jobs /\ TenantPeers(j) \subseteq Jobs
  BY DEF AssetPeers, TenantPeers

LEMMA SmallerCount ==
  ASSUME NEW S \in SUBSET Jobs, NEW T \in SUBSET S, NEW n \in Nat, Cardinality(S) <= n
  PROVE  Cardinality(T) <= n
<1>1. IsFiniteSet(S)
  BY FiniteJobs, FS_Subset
<1>2. IsFiniteSet(T) /\ Cardinality(T) <= Cardinality(S)
  BY <1>1, FS_Subset
<1>3. Cardinality(T) \in Nat /\ Cardinality(S) \in Nat
  BY <1>1, <1>2, FS_CardinalityType
<1>. QED BY <1>2, <1>3

-----------------------------------------------------------------------------
(* Steps that let nobody in. *)

\* No worker gets past a check, and no job becomes running.
NobodyPasses ==
  \A w \in Workers : pc'[w] \in PastAsset => pc'[w] = pc[w] /\ cur'[w] = cur[w]
NobodyRuns == \A k \in Jobs : Running(k)' => Running(k)
NobodyVanishes == \A k \in Jobs : status[k] # "absent" => status'[k] # "absent"

LEMMA NobodyEnters ==
  ASSUME LimitInv, Serial, NobodyPasses, NobodyRuns, status' \in [Jobs -> Status],
         NEW k \in Jobs, NEW past \in {PastAsset, PastTenant, PastGlobal}, Entered(k, past)'
  PROVE  Entered(k, past)
<1>1. CASE Running(k)'
  BY <1>1 DEF NobodyRuns, Entered
<1>2. CASE status'[k] \in ActiveStatus /\ \E w \in Workers : pc'[w] \in past /\ cur'[w] = k
  <2>1. PICK w \in Workers : pc'[w] \in past /\ cur'[w] = k
    BY <1>2
  <2>0. past \subseteq PastAsset
    BY DEF PastAsset, PastTenant, PastGlobal
  <2>2. pc[w] \in past /\ cur[w] = k /\ pc[w] # "idle" /\ w \in Actors
    BY <2>0, <2>1 DEF NobodyPasses, PastAsset
  <2>3. status[k] # "absent" /\ status[k] \in Status
    BY <2>2 DEF LimitInv, Created, TypeInv, TypeOK
  <2>4. status[k] \notin Terminal
    BY <1>2 DEF Serial
  <2>. QED BY <2>2, <2>3, <2>4 DEF Entered
<1>. QED BY <1>1, <1>2 DEF Entered

LEMMA LimitsStay ==
  ASSUME LimitInv,
         \A k \in Jobs : \A past \in {PastAsset, PastTenant, PastGlobal} :
           Entered(k, past)' => Entered(k, past)
  PROVE  LimitsAhead'
<1>1. ASSUME NEW j \in Jobs
      PROVE  Cardinality(Counted(AssetPeers(j), PastAsset)') <= MaxPerAsset
  <2>1. /\ Counted(AssetPeers(j), PastAsset) \in SUBSET Jobs
        /\ Counted(AssetPeers(j), PastAsset)' \in SUBSET Counted(AssetPeers(j), PastAsset)
    BY PeersInJobs DEF Counted, AssetPeers
  <2>. QED BY <2>1, SmallerCount, Limits DEF LimitInv, LimitsAhead
<1>2. ASSUME NEW j \in Jobs
      PROVE  Cardinality(Counted(TenantPeers(j), PastTenant)') <= MaxPerTenant
  <2>1. /\ Counted(TenantPeers(j), PastTenant) \in SUBSET Jobs
        /\ Counted(TenantPeers(j), PastTenant)' \in SUBSET Counted(TenantPeers(j), PastTenant)
    BY PeersInJobs DEF Counted, TenantPeers
  <2>. QED BY <2>1, SmallerCount, Limits DEF LimitInv, LimitsAhead
<1>3. Cardinality(Counted(Jobs, PastGlobal)') <= MaxGlobal
  <2>1. /\ Counted(Jobs, PastGlobal) \in SUBSET Jobs
        /\ Counted(Jobs, PastGlobal)' \in SUBSET Counted(Jobs, PastGlobal)
    BY DEF Counted
  <2>. QED BY <2>1, SmallerCount, Limits DEF LimitInv, LimitsAhead
<1>. QED BY <1>1, <1>2, <1>3 DEF LimitsAhead, AssetPeers, TenantPeers

LEMMA PutUpTame ==
  ASSUME TypeInv, NEW j \in Jobs, NEW s \in Status, PutUp(j, s),
         s = status[j] \/ s \notin {"absent", "running"}
  PROVE  NobodyRuns /\ NobodyVanishes
  BY DEF PutUp, NobodyRuns, NobodyVanishes, Running, TypeInv, TypeOK

\* With nobody new, what was created stays created.
LEMMA StatusKept ==
  ASSUME status' = status PROVE NobodyRuns /\ NobodyVanishes
  BY DEF NobodyRuns, NobodyVanishes, Running

USE DEF TypeInv, TypeOK, Delivered, LimitInv, Goto, Rest, NobodyPasses, PastAsset, ExecutingPc

LEMMA AckCreated ==
  ASSUME LimitInv, NEW w \in Workers, Ack(w), UNCHANGED <<status, jobOf, broker, todo>>
  PROVE  Created'
<1>1. /\ pc' = [pc EXCEPT ![w] = "idle"] /\ cur' = [cur EXCEPT ![w] = NoJob]
      /\ held' = [held EXCEPT ![w] = NoMessage]
  BY DEF Ack
<1>2. \A a \in Actors : pc'[a] # "idle" => pc[a] # "idle" /\ cur'[a] = cur[a]
  BY <1>1
<1>3. \A v \in Workers : pc'[v] # "idle" => pc[v] # "idle" /\ held'[v] = held[v]
  BY <1>1
<1>. QED BY <1>2, <1>3 DEF Created

LEMMA RetryCreated ==
  ASSUME LimitInv, NEW w \in Workers, Retry(w), pc[w] # "idle", UNCHANGED <<status, jobOf, todo>>
  PROVE  Created'
<1>1. CASE held[w][2] < MaxRetries
  <2>. DEFINE next == <<held[w][1], held[w][2] + 1>>
  <2>1. next \in Message /\ next[1] = held[w][1]
    BY <1>1, Limits
  <2>2. /\ broker' = [broker EXCEPT ![next] = @ + 1] /\ pc' = [pc EXCEPT ![w] = "republished"]
        /\ UNCHANGED <<cur, held>>
    BY <1>1 DEF Retry
  <2>. HIDE DEF next
  <2>3. \A m \in Message : broker'[m] > 0 => m = next \/ broker[m] > 0
    BY <2>2
  <2>4. \A a \in Actors : pc'[a] # "idle" => pc[a] # "idle"
    BY <2>2
  <2>. QED BY <2>1, <2>2, <2>3, <2>4 DEF Created
<1>2. CASE ~(held[w][2] < MaxRetries)
  BY <1>2, AckCreated DEF Retry
<1>. QED BY <1>1, <1>2

LEMMA OutReceive == ASSUME LimitInv, NEW w \in Workers, Receive(w)
  PROVE  NobodyPasses /\ status' = status /\ Created'
<1>1. NobodyPasses /\ status' = status
  BY Kinds DEF Receive
<1>2. Created'
  BY <1>1, Kinds DEF Created, Receive
<1>. QED BY <1>1, <1>2

LEMMA OutReadJob == ASSUME LimitInv, NEW w \in Workers, ReadJob(w)
  PROVE  NobodyPasses /\ status' = status /\ Created'
<1>1. NobodyPasses /\ status' = status
  BY Kinds DEF ReadJob, Ack
<1>2. Created'
  <2>1. CASE status[cur[w]] \in Terminal
    BY <2>1, AckCreated DEF ReadJob
  <2>2. CASE status[cur[w]] \notin Terminal
    BY <1>1, <2>2 DEF Created, ReadJob
  <2>. QED BY <2>1, <2>2
<1>. QED BY <1>1, <1>2

LEMMA OutUnclaimed == ASSUME LimitInv, NEW w \in Workers, Unclaimed(w)
  PROVE  NobodyPasses /\ status' = status /\ Created'
<1>1. NobodyPasses /\ status' = status
  BY Kinds DEF Unclaimed, Retry, Ack
<1>2. Created'
  <2>1. CASE Retry(w)
    BY <2>1, RetryCreated DEF Unclaimed
  <2>2. CASE ~Retry(w)
    BY <2>2, AckCreated DEF Unclaimed
  <2>. QED BY <2>1, <2>2
<1>. QED BY <1>1, <1>2

LEMMA OutPreflight == ASSUME LimitInv, NEW w \in Workers, Preflight(w)
  PROVE  NobodyPasses /\ status' = status /\ Created'
<1>1. NobodyPasses /\ status' = status
  BY Kinds DEF Preflight
<1>2. Created'
  BY <1>1, Kinds DEF Created, Preflight
<1>. QED BY <1>1, <1>2

LEMMA OutStartScan == ASSUME LimitInv, NEW w \in Workers, StartScan(w)
  PROVE  NobodyPasses /\ status' = status /\ Created'
<1>1. NobodyPasses /\ status' = status
  BY Kinds DEF StartScan
<1>2. Created'
  BY <1>1, Kinds DEF Created, StartScan
<1>. QED BY <1>1, <1>2

LEMMA OutScanSucceeds == ASSUME LimitInv, NEW w \in Workers, ScanSucceeds(w)
  PROVE  NobodyPasses /\ status' = status /\ Created'
<1>1. NobodyPasses /\ status' = status
  BY Kinds DEF ScanSucceeds
<1>2. Created'
  BY <1>1, Kinds DEF Created, ScanSucceeds
<1>. QED BY <1>1, <1>2

LEMMA OutSaveResult == ASSUME LimitInv, NEW w \in Workers, SaveResult(w)
  PROVE  NobodyPasses /\ status' = status /\ Created'
<1>1. NobodyPasses /\ status' = status
  BY Kinds DEF SaveResult
<1>2. Created'
  BY <1>1, Kinds DEF Created, SaveResult
<1>. QED BY <1>1, <1>2

LEMMA OutSaveFindings == ASSUME LimitInv, NEW w \in Workers, SaveFindings(w)
  PROVE  NobodyPasses /\ status' = status /\ Created'
<1>1. NobodyPasses /\ status' = status
  BY Kinds DEF SaveFindings
<1>2. Created'
  BY <1>1, Kinds DEF Created, SaveFindings
<1>. QED BY <1>1, <1>2

LEMMA OutScanFails == ASSUME LimitInv, NEW w \in Workers, ScanFails(w)
  PROVE  NobodyPasses /\ status' = status /\ Created'
<1>1. NobodyPasses /\ status' = status
  BY Kinds DEF ScanFails, AtWork
<1>2. Created'
  BY <1>1, Kinds DEF Created, ScanFails, AtWork
<1>. QED BY <1>1, <1>2

LEMMA OutMarkRead == ASSUME LimitInv, NEW a \in Actors, MarkRead(a)
  PROVE  NobodyPasses /\ status' = status /\ Created'
<1>1. NobodyPasses /\ status' = status
  BY Kinds DEF MarkRead
<1>2. Created'
  BY <1>1, Kinds DEF Created, MarkRead
<1>. QED BY <1>1, <1>2

LEMMA OutFinishCompleted == ASSUME LimitInv, NEW w \in Workers, FinishCompleted(w)
  PROVE  NobodyPasses /\ status' = status /\ Created'
<1>1. NobodyPasses /\ status' = status
  BY Kinds DEF FinishCompleted, Ack
<1>2. Created'
  BY <1>1, Kinds DEF Created, FinishCompleted, Ack
<1>. QED BY <1>1, <1>2

LEMMA OutFinishFailed == ASSUME LimitInv, NEW w \in Workers, FinishFailed(w)
  PROVE  NobodyPasses /\ status' = status /\ Created'
<1>1. NobodyPasses /\ status' = status
  BY Kinds DEF FinishFailed, Ack
<1>2. Created'
  BY <1>1, Kinds DEF Created, FinishFailed, Ack
<1>. QED BY <1>1, <1>2

LEMMA OutFinishRetrying == ASSUME LimitInv, NEW w \in Workers, FinishRetrying(w)
  PROVE  NobodyPasses /\ status' = status /\ Created'
<1>1. NobodyPasses /\ status' = status
  BY Kinds DEF FinishRetrying, Retry, Ack
<1>2. Created'
  BY RetryCreated DEF FinishRetrying
<1>. QED BY <1>1, <1>2

LEMMA OutAckRetried == ASSUME LimitInv, NEW w \in Workers, AckRetried(w)
  PROVE  NobodyPasses /\ status' = status /\ Created'
<1>1. NobodyPasses /\ status' = status
  BY Kinds DEF AckRetried, Ack
<1>2. Created'
  BY <1>1, Kinds DEF Created, AckRetried, Ack
<1>. QED BY <1>1, <1>2

LEMMA OutScanRetryable == ASSUME LimitInv, NEW w \in Workers, ScanRetryable(w)
  PROVE  NobodyPasses /\ status' = status /\ Created'
<1>1. NobodyPasses /\ status' = status
  BY Kinds DEF ScanRetryable
<1>2. Created'
  BY <1>1, Kinds DEF Created, ScanRetryable
<1>. QED BY <1>1, <1>2

LEMMA OutWorkerCrash == ASSUME LimitInv, NEW w \in Workers, WorkerCrash(w)
  PROVE  NobodyPasses /\ status' = status /\ Created'
<1>1. NobodyPasses /\ status' = status
  BY Kinds DEF WorkerCrash, Requeue
<1>2. Created'
  BY <1>1, Kinds DEF Created, WorkerCrash, Requeue
<1>. QED BY <1>1, <1>2

LEMMA OutHardTimeLimit == ASSUME LimitInv, NEW w \in Workers, HardTimeLimit(w)
  PROVE  NobodyPasses /\ status' = status /\ Created'
<1>1. NobodyPasses /\ status' = status
  BY Kinds DEF HardTimeLimit, Ack
<1>2. Created'
  BY <1>1, Kinds DEF Created, HardTimeLimit, Ack
<1>. QED BY <1>1, <1>2

LEMMA OutAge == ASSUME LimitInv, NEW j \in Jobs, Age(j)
  PROVE  NobodyPasses /\ status' = status /\ Created'
<1>1. NobodyPasses /\ status' = status
  BY Kinds DEF Age
<1>2. Created'
  BY <1>1, Kinds DEF Created, Age
<1>. QED BY <1>1, <1>2

LEMMA OutFindStale == ASSUME LimitInv, NEW s \in Beats, FindStale(s)
  PROVE  NobodyPasses /\ status' = status /\ Created'
<1>1. NobodyPasses /\ status' = status
  BY Kinds DEF FindStale, Stale
<1>2. Created'
  BY <1>1, Kinds DEF Created, FindStale, Stale
<1>. QED BY <1>1, <1>2

LEMMA OutSendMaintenance == ASSUME LimitInv, NEW s \in Beats, SendMaintenance(s)
  PROVE  NobodyPasses /\ status' = status /\ Created'
<1>1. NobodyPasses /\ status' = status
  BY Kinds DEF SendMaintenance, Publish
<1>2. Created'
  BY <1>1, Kinds DEF Created, SendMaintenance, Publish
<1>. QED BY <1>1, <1>2

LEMMA OutGiveUp == ASSUME LimitInv, NEW s \in Beats, GiveUp(s)
  PROVE  NobodyPasses /\ status' = status /\ Created'
<1>1. NobodyPasses /\ status' = status
  BY Kinds DEF GiveUp
<1>2. Created'
  BY <1>1, Kinds DEF Created, GiveUp
<1>. QED BY <1>1, <1>2

LEMMA OutFinishGiveUp == ASSUME LimitInv, NEW s \in Beats, FinishGiveUp(s)
  PROVE  NobodyPasses /\ status' = status /\ Created'
<1>1. NobodyPasses /\ status' = status
  BY Kinds DEF FinishGiveUp, SaveScanFailed
<1>2. Created'
  BY <1>1, Kinds DEF Created, FinishGiveUp, SaveScanFailed
<1>. QED BY <1>1, <1>2

LEMMA OutBeatCrash == ASSUME LimitInv, NEW s \in Beats, BeatCrash(s)
  PROVE  NobodyPasses /\ status' = status /\ Created'
<1>1. NobodyPasses /\ status' = status
  BY Kinds DEF BeatCrash
<1>2. Created'
  BY <1>1, Kinds DEF Created, BeatCrash
<1>. QED BY <1>1, <1>2

LEMMA OutSendTask == ASSUME LimitInv, NEW u \in Analysts, SendTask(u)
  PROVE  NobodyPasses /\ status' = status /\ Created'
<1>1. NobodyPasses /\ status' = status
  BY Kinds DEF SendTask, Publish
<1>2. Created'
  BY <1>1, Kinds DEF Created, SendTask, Publish
<1>. QED BY <1>1, <1>2

LEMMA OutUpdateRead == ASSUME LimitInv, NEW u \in Analysts, UpdateRead(u)
  PROVE  NobodyPasses /\ status' = status /\ Created'
<1>1. NobodyPasses /\ status' = status
  BY Kinds DEF UpdateRead
<1>2. Created'
  BY <1>1, Kinds DEF Created, UpdateRead
<1>. QED BY <1>1, <1>2

LEMMA OutCancelRequest == ASSUME LimitInv, NEW u \in Analysts, NEW j \in Jobs, CancelRequest(u, j)
  PROVE  NobodyPasses /\ status' = status /\ Created'
<1>1. NobodyPasses /\ status' = status
  BY Kinds DEF CancelRequest
<1>2. Created'
  BY <1>1, Kinds DEF Created, CancelRequest
<1>. QED BY <1>1, <1>2

LEMMA OutRevoke == ASSUME LimitInv, NEW u \in Analysts, Revoke(u)
  PROVE  NobodyPasses /\ status' = status /\ Created'
<1>1. NobodyPasses /\ status' = status
  BY Kinds DEF Revoke
<1>2. Created'
  <2>. DEFINE Hit == {w \in Workers : held[w] # NoMessage /\ held[w][1] = copy[u].task}
  <2>1. CASE UNCHANGED <<broker, cur, held>> /\ pc' = [pc EXCEPT ![u] = "mark"]
    BY <1>1, <2>1, Kinds DEF Created, Revoke
  <2>2. CASE ~(UNCHANGED <<broker, cur, held>> /\ pc' = [pc EXCEPT ![u] = "mark"])
    <3>1. /\ pc'   = [a \in Actors |-> IF a = u THEN "mark"
                                       ELSE IF a \in Hit THEN "idle" ELSE pc[a]]
          /\ cur'  = [a \in Actors |-> IF a \in Hit THEN NoJob ELSE cur[a]]
          /\ held' = [w \in Workers |-> IF w \in Hit THEN NoMessage ELSE held[w]]
          /\ broker' = [m \in Message |-> IF m[1] = copy[u].task THEN 0 ELSE broker[m]]
      BY <2>2 DEF Revoke
    <3>2. UNCHANGED <<status, jobOf, todo>> /\ pc[u] = "revoke" /\ u \notin Hit
      BY Kinds DEF Revoke
    <3>. QED BY <3>1, <3>2, Kinds DEF Created
  <2>. QED BY <2>1, <2>2
<1>. QED BY <1>1, <1>2

LEMMA OutFinishCancel == ASSUME LimitInv, NEW u \in Analysts, FinishCancel(u)
  PROVE  NobodyPasses /\ status' = status /\ Created'
<1>1. NobodyPasses /\ status' = status
  BY Kinds DEF FinishCancel, SaveScanFailed
<1>2. Created'
  BY <1>1, Kinds DEF Created, FinishCancel, SaveScanFailed
<1>. QED BY <1>1, <1>2

LEMMA OutRetryRequest == ASSUME LimitInv, NEW u \in Analysts, NEW j \in Jobs, RetryRequest(u, j)
  PROVE  NobodyPasses /\ status' = status /\ Created'
<1>1. NobodyPasses /\ status' = status
  BY Kinds DEF RetryRequest
<1>2. Created'
  BY <1>1, Kinds DEF Created, RetryRequest
<1>. QED BY <1>1, <1>2

LEMMA OutRescan == ASSUME LimitInv, NEW u \in Analysts, Rescan(u)
  PROVE  NobodyPasses /\ status' = status /\ Created'
<1>1. NobodyPasses /\ status' = status
  BY Kinds DEF Rescan
<1>2. Created'
  BY <1>1, Kinds DEF Created, Rescan
<1>. QED BY <1>1, <1>2

LEMMA OutWebCrash == ASSUME LimitInv, NEW u \in Analysts, WebCrash(u)
  PROVE  NobodyPasses /\ status' = status /\ Created'
<1>1. NobodyPasses /\ status' = status
  BY Kinds DEF WebCrash
<1>2. Created'
  BY <1>1, Kinds DEF Created, WebCrash
<1>. QED BY <1>1, <1>2

LEMMA OutMarkWrite == ASSUME LimitInv, NEW a \in Actors, MarkWrite(a)
  PROVE  NobodyPasses /\ NobodyRuns /\ NobodyVanishes /\ Created'
<1>1. NobodyPasses /\ cur[a] \in Jobs /\ goal[a] \in Marked
  BY Kinds DEF MarkWrite, AtWork
<1>2. NobodyRuns /\ NobodyVanishes
  <2>1. CASE Markable(seen[a])
    BY <1>1, <2>1, PutUpTame DEF MarkWrite, Overwrite, Marked
  <2>2. CASE ~Markable(seen[a])
    BY <2>2, StatusKept DEF MarkWrite
  <2>. QED BY <2>1, <2>2
<1>3. Created'
  BY <1>1, <1>2, Kinds DEF Created, MarkWrite, NobodyVanishes, AtWork
<1>. QED BY <1>1, <1>2, <1>3

LEMMA OutReclaim == ASSUME LimitInv, NEW s \in Beats, Reclaim(s)
  PROVE  NobodyPasses /\ NobodyRuns /\ NobodyVanishes /\ Created'
<1>. PICK e \in todo[s] : Reclaim(s)!(e)
  BY DEF Reclaim
<1>. DEFINE j == e[1]
<1>1. NobodyPasses /\ j \in Jobs
  BY Kinds
<1>2. NobodyRuns /\ NobodyVanishes
  <2>1. CASE Stale(j)
    BY <1>1, <2>1, PutUpTame
  <2>2. CASE ~Stale(j)
    BY <2>2, StatusKept
  <2>. QED BY <2>1, <2>2
<1>3. status[j] # "absent"
  BY DEF Created
<1>4. \A k \in Jobs : status[k] # "absent" => status'[k] # "absent"
  BY <1>2 DEF NobodyVanishes
<1>5. \A a \in Actors : pc'[a] # "idle" => (a = s /\ cur'[a] = j) \/ (pc[a] # "idle" /\ cur'[a] = cur[a])
  BY <1>1
<1>6. UNCHANGED <<held, jobOf, broker>> /\ \A v \in Workers : pc'[v] = pc[v]
  BY Kinds
<1>7. \A b \in Beats : todo'[b] \subseteq todo[b]
  OBVIOUS
<1>. HIDE DEF j
<1>8. \A a \in Actors : pc'[a] # "idle" => status'[cur'[a]] # "absent"
  BY <1>1, <1>3, <1>4, <1>5 DEF Created, AtWork
<1>9. /\ \A w \in Workers : pc'[w] # "idle" => status'[jobOf'[held'[w][1]]] # "absent"
      /\ \A m \in Message : broker'[m] > 0 => status'[jobOf'[m[1]]] # "absent"
  BY <1>4, <1>6 DEF Created, Delivered
<1>10. \A b \in Beats : \A r \in todo'[b] : status'[r[1]] # "absent"
  <2>. SUFFICES ASSUME NEW b \in Beats, NEW r \in todo'[b] PROVE status'[r[1]] # "absent"
    OBVIOUS
  <2>1. r \in todo[b] /\ r[1] \in Jobs
    BY <1>7
  <2>. QED BY <1>4, <2>1 DEF Created
<1>. QED BY <1>1, <1>2, <1>8, <1>9, <1>10 DEF Created

LEMMA OutDispatch == ASSUME LimitInv, NEW s \in Beats, NEW j \in Jobs, Dispatch(s, j)
  PROVE  NobodyPasses /\ NobodyRuns /\ NobodyVanishes /\ Created'
<1>1. NobodyPasses
  BY Kinds DEF Dispatch
<1>2. NobodyRuns /\ NobodyVanishes
  BY PutUpTame DEF Dispatch
<1>3. Created'
  BY <1>1, <1>2, Kinds DEF Created, Dispatch, PutUp, NobodyVanishes, AtWork
<1>. QED BY <1>1, <1>2, <1>3

LEMMA OutSubmit == ASSUME LimitInv, NEW u \in Analysts, NEW j \in Jobs, Submit(u, j)
  PROVE  NobodyPasses /\ NobodyRuns /\ NobodyVanishes /\ Created'
<1>1. NobodyPasses
  BY Kinds DEF Submit
<1>2. NobodyRuns /\ NobodyVanishes
  BY PutUpTame DEF Submit
<1>3. Created'
  BY <1>1, <1>2, Kinds DEF Created, Submit, PutUp, NobodyVanishes, AtWork
<1>. QED BY <1>1, <1>2, <1>3

LEMMA OutUpdateWrite == ASSUME LimitInv, NEW u \in Analysts, UpdateWrite(u)
  PROVE  NobodyPasses /\ NobodyRuns /\ NobodyVanishes /\ Created'
<1>1. NobodyPasses /\ cur[u] \in Jobs
  BY Kinds DEF UpdateWrite, AtWork
<1>2. \/ status' = status
      \/ \E s \in Status : PutUp(cur[u], s) /\ (s = status[cur[u]] \/ s = "queued")
  BY <1>1 DEF UpdateWrite, OverwriteRow, Overwrite
<1>3. NobodyRuns /\ NobodyVanishes
  BY <1>1, <1>2, PutUpTame, StatusKept
<1>4. Created'
  <2>1. CASE goal[u] = "rescan"
    <3>1. /\ pc[u] = "overwrite" /\ pc' = [pc EXCEPT ![u] = "rescan"]
          /\ UNCHANGED <<cur, held, jobOf, broker, todo>>
      BY <2>1 DEF UpdateWrite
    <3>2. \A a \in Actors : pc'[a] # "idle" => pc[a] # "idle" /\ cur[a] \in Jobs
      BY <3>1 DEF AtWork
    <3>3. \A w \in Workers : pc'[w] = pc[w]
      BY <3>1, Kinds
    <3>. QED BY <1>3, <3>1, <3>2, <3>3 DEF Created, NobodyVanishes
  <2>2. CASE goal[u] # "rescan"
    <3>1. /\ pc' = [pc EXCEPT ![u] = "idle"] /\ cur' = [cur EXCEPT ![u] = NoJob]
          /\ UNCHANGED <<held, jobOf, broker, todo>>
      BY <2>2 DEF UpdateWrite
    <3>2. \A a \in Actors : pc'[a] # "idle" => pc[a] # "idle" /\ cur'[a] = cur[a] /\ cur[a] \in Jobs
      BY <3>1 DEF AtWork
    <3>3. \A w \in Workers : pc'[w] = pc[w]
      BY <3>1, Kinds
    <3>. QED BY <1>3, <3>1, <3>2, <3>3 DEF Created, NobodyVanishes
  <2>. QED BY <2>1, <2>2
<1>. QED BY <1>1, <1>3, <1>4

-----------------------------------------------------------------------------
(* The claim and the checks. *)

HIDE DEF TypeInv, TypeOK, Delivered, LimitInv, Goto, Rest, NobodyPasses, PastAsset, ExecutingPc

LEMMA OutSteps ==
  ASSUME LimitInv, Serial, TypeInv', NobodyPasses, NobodyRuns
  PROVE  LimitsAhead'
  BY NobodyEnters, LimitsStay DEF TypeInv, TypeOK

\* A claimant was counted when it passed the last check.
LEMMA InClaim == ASSUME LimitInv, NEW w \in Workers, Claim(w)
  PROVE  LimitsAhead' /\ Created'
<1>1. /\ cur[w] \in Jobs /\ w \in Actors /\ status[cur[w]] # "absent"
      /\ status \in [Jobs -> Status] /\ pc \in [Actors -> WorkerPc \cup AnalystPc \cup BeatPc]
      /\ cur' = cur /\ pc[w] = "claim"
  BY DEF LimitInv, TypeInv, TypeOK, AtWork, Created, Claim
<1>2. \E to \in {"preflight", "unclaimed"} : pc' = [pc EXCEPT ![w] = to]
  BY DEF Claim
<1>3. \/ status' = status
      \/ status[cur[w]] \in Claimable /\ status' = [status EXCEPT ![cur[w]] = "running"]
  BY DEF Claim, CanClaim
<1>4. ASSUME NEW k \in Jobs, NEW past \in {PastAsset, PastTenant, PastGlobal},
             Entered(k, past)'
      PROVE  Entered(k, past)
  <2>1. "claim" \in past /\ "preflight" \notin past /\ "unclaimed" \notin past
    BY DEF PastAsset, PastTenant, PastGlobal
  <2>2. CASE k = cur[w]
    BY <1>1, <1>3, <1>4, <2>1, <2>2 DEF Entered, Running
  <2>3. CASE k # cur[w]
    <3>1. status'[k] = status[k]
      BY <1>1, <1>3, <2>3
    <3>2. \A v \in Workers : pc'[v] \in past => pc[v] \in past
      BY <1>1, <1>2, <2>1
    <3>. QED BY <1>1, <1>4, <3>1, <3>2 DEF Entered, Running
  <2>. QED BY <2>2, <2>3
<1>5. NobodyVanishes
  BY <1>1, <1>3 DEF NobodyVanishes
<1>6. Created'
  <2>1. UNCHANGED <<cur, held, jobOf, broker, todo>> /\ \A a \in Actors : pc'[a] # "idle" => pc[a] # "idle"
    BY <1>1, <1>2 DEF Claim
  <2>. QED BY <1>5, <2>1 DEF Created, NobodyVanishes, LimitInv, TypeInv, TypeOK, AtWork, Delivered
<1>. QED BY <1>4, <1>6, LimitsStay

\* A check that passes has counted everybody it lets in, and everybody in before.
LEMMA Passing ==
  ASSUME TypeInv, NEW S \in SUBSET Jobs, NEW n \in Nat, ~OverLimit(S, n), status' = status, NEW past
  PROVE  Cardinality(Counted(S, past)') <= n
<1>. DEFINE T == {k \in S : status[k] \in ActiveStatus}
<1>1. T \in SUBSET Jobs /\ Counted(S, past)' \in SUBSET T
  BY DEF Counted, Entered, Running
<1>2. IsFiniteSet(T) /\ Cardinality(T) \in Nat
  BY <1>1, FiniteJobs, FS_Subset, FS_CardinalityType
<1>3. Cardinality(T) <= n
  BY <1>2 DEF OverLimit, Active
<1>. QED BY <1>1, <1>3, SmallerCount

\* Worker w passes a check and goes on to the next one.
Passes(w, to) ==
  /\ pc' = [pc EXCEPT ![w] = to]
  /\ UNCHANGED <<status, cur, held, jobOf, broker, todo>>

LEMMA PassingOthers ==
  ASSUME LimitInv, NEW w \in Workers, NEW to, Passes(w, to), NEW k \in Jobs, NEW past,
         Entered(k, past)', k # cur[w] \/ to \notin past \/ pc[w] \in past
  PROVE  Entered(k, past)
<1>1. pc \in [Actors -> WorkerPc \cup AnalystPc \cup BeatPc]
  BY DEF LimitInv, TypeInv, TypeOK
<1>2. \A v \in Workers : pc'[v] \in past /\ cur'[v] = k => pc[v] \in past /\ cur[v] = k
  BY <1>1 DEF Passes
<1>. QED BY <1>2 DEF Entered, Running, Passes

\* The scope whose check passes is within its limit, any other as it was.
LEMMA PassingScope ==
  ASSUME LimitInv, NEW w \in Workers, NEW to, Passes(w, to),
         NEW S \in SUBSET Jobs, NEW n \in Nat, NEW past, Cardinality(Counted(S, past)) <= n,
         \/ ~OverLimit(S, n)
         \/ cur[w] \notin S
         \/ to \notin past
         \/ pc[w] \in past
  PROVE  Cardinality(Counted(S, past)') <= n
<1>1. CASE ~OverLimit(S, n)
  BY <1>1, Passing DEF LimitInv, Passes
<1>2. CASE OverLimit(S, n)
  <2>1. \A k \in S : Entered(k, past)' => Entered(k, past)
    BY <1>2, PassingOthers
  <2>2. Counted(S, past) \in SUBSET Jobs /\ Counted(S, past)' \in SUBSET Counted(S, past)
    BY <2>1 DEF Counted
  <2>. QED BY <2>2, SmallerCount
<1>. QED BY <1>1, <1>2

LEMMA InCheck == ASSUME LimitInv, NEW w \in Workers, CheckLimits(w)
  PROVE  ((NobodyPasses /\ NobodyRuns) \/ LimitsAhead') /\ Created'
<1>0. w \in Actors /\ cur[w] \in Jobs /\ status[cur[w]] # "absent" /\ status' = status
  BY DEF LimitInv, TypeInv, AtWork, CheckLimits, CheckLimit, Created
<1>1. CASE Retry(w)
  <2>1. NobodyPasses
    BY <1>0, <1>1, Kinds DEF CheckLimits, CheckLimit, Retry, Ack, Rest, NobodyPasses, PastAsset,
       LimitInv, TypeInv, TypeOK
  <2>2. Created'
    BY <1>1, RetryCreated DEF CheckLimits, CheckLimit
  <2>. QED BY <1>0, <2>1, <2>2, StatusKept
<1>2. CASE ~Retry(w)
  <2>. DEFINE j == cur[w]
  <2>1. PICK to \in {"tenant", "global", "claim"} :
          /\ Passes(w, to)
          /\ to = "tenant" => pc[w] = "asset" /\ ~OverLimit(AssetPeers(j), MaxPerAsset)
          /\ to = "global" => pc[w] = "tenant" /\ ~OverLimit(TenantPeers(j), MaxPerTenant)
          /\ to = "claim"  => pc[w] = "global" /\ ~OverLimit(Jobs, MaxGlobal)
    BY <1>2 DEF CheckLimits, CheckLimit, Passes
  <2>2. ASSUME NEW k \in Jobs
        PROVE  Cardinality(Counted(AssetPeers(k), PastAsset)') <= MaxPerAsset
    <3>1. Cardinality(Counted(AssetPeers(k), PastAsset)) <= MaxPerAsset
      BY DEF LimitInv, LimitsAhead
    <3>2. j \in AssetPeers(k) => AssetPeers(k) = AssetPeers(j)
      BY DEF AssetPeers
    <3>3. to # "tenant" => pc[w] \in PastAsset
      BY <2>1 DEF PastAsset
    <3>. QED BY <2>1, <3>1, <3>2, <3>3, PassingScope, PeersInJobs, Limits
  <2>3. ASSUME NEW k \in Jobs
        PROVE  Cardinality(Counted(TenantPeers(k), PastTenant)') <= MaxPerTenant
    <3>1. Cardinality(Counted(TenantPeers(k), PastTenant)) <= MaxPerTenant
      BY DEF LimitInv, LimitsAhead
    <3>2. j \in TenantPeers(k) => TenantPeers(k) = TenantPeers(j)
      BY DEF TenantPeers
    <3>3. to = "global" \/ to \notin PastTenant \/ pc[w] \in PastTenant
      BY <2>1 DEF PastTenant
    <3>. QED BY <2>1, <3>1, <3>2, <3>3, PassingScope, PeersInJobs, Limits
  <2>4. Cardinality(Counted(Jobs, PastGlobal)') <= MaxGlobal
    <3>1. Cardinality(Counted(Jobs, PastGlobal)) <= MaxGlobal
      BY DEF LimitInv, LimitsAhead
    <3>2. to = "claim" \/ to \notin PastGlobal
      BY DEF PastGlobal
    <3>. QED BY <2>1, <3>1, <3>2, PassingScope, Limits
  <2>5. LimitsAhead'
    BY <2>2, <2>3, <2>4 DEF LimitsAhead, AssetPeers, TenantPeers
  <2>6. Created'
    BY <1>0, <2>1 DEF Passes, Created, LimitInv, TypeInv, TypeOK
  <2>. QED BY <2>5, <2>6
<1>. QED BY <1>1, <1>2

-----------------------------------------------------------------------------

LEMMA LimitInit == Init => LimitInv
<1>. SUFFICES ASSUME Init PROVE LimitInv
  OBVIOUS
<1>1. TypeInv /\ Created
  BY TypeInit DEF Init, Created
<1>2. \A S \in SUBSET Jobs : \A past : Counted(S, past) = {}
  BY DEF Init, Counted, Entered, Running
<1>3. Cardinality({}) = 0
  BY FS_EmptySet
<1>4. LimitsAhead
  <2>1. ASSUME NEW S \in SUBSET Jobs, NEW past, NEW n \in Nat
        PROVE  Cardinality(Counted(S, past)) <= n
    BY <1>2, <1>3
  <2>. QED BY <2>1, PeersInJobs, Limits DEF LimitsAhead
<1>. QED BY <1>1, <1>4 DEF LimitInv

LEMMA LimitStep == ASSUME LimitInv, [Next /\ Serial]_vars PROVE LimitInv'
<1>. DEFINE Good == ((NobodyPasses /\ NobodyRuns) \/ LimitsAhead') /\ Created'
<1>0. TypeInv'
  BY TypeStep DEF LimitInv
<1>1. ASSUME NEW w \in Workers, WorkerStep(w) PROVE Good
  BY <1>1, StatusKept, OutReceive, OutReadJob, InCheck, InClaim, OutUnclaimed, OutPreflight,
     OutStartScan, OutScanSucceeds, OutSaveResult, OutSaveFindings, OutScanFails, OutMarkRead,
     OutMarkWrite, OutFinishCompleted, OutFinishFailed, OutFinishRetrying, OutAckRetried
     DEF WorkerStep
<1>2. ASSUME NEW s \in Beats, BeatStep(s) \/ \E j \in Jobs : Dispatch(s, j) PROVE Good
  BY <1>2, StatusKept, OutFindStale, OutReclaim, OutSendMaintenance, OutGiveUp, OutMarkRead,
     OutMarkWrite, OutFinishGiveUp, OutDispatch DEF BeatStep
<1>3. ASSUME NEW u \in Analysts, AnalystStep(u) \/ Request(u) PROVE Good
  BY <1>3, StatusKept, OutSendTask, OutUpdateRead, OutUpdateWrite, OutRescan, OutRevoke,
     OutMarkRead, OutMarkWrite, OutFinishCancel, OutSubmit, OutCancelRequest, OutRetryRequest
     DEF AnalystStep, Request
<1>4. ASSUME NEW j \in Jobs, Age(j) PROVE Good
  BY <1>4, StatusKept, OutAge
<1>5. ASSUME Fault PROVE Good
  BY <1>5, StatusKept, OutScanRetryable, OutWorkerCrash, OutHardTimeLimit, OutWebCrash,
     OutBeatCrash DEF Fault
<1>6. CASE Next /\ Serial
  <2>1. Good
    BY <1>1, <1>2, <1>3, <1>4, <1>5, <1>6 DEF Next
  <2>. QED BY <1>0, <1>6, <2>1, OutSteps DEF LimitInv
<1>7. CASE UNCHANGED vars
  <2>1. NobodyPasses /\ Serial /\ status' = status /\ Created'
    BY <1>7 DEF vars, NobodyPasses, Serial, LimitInv, Created
  <2>. QED BY <1>0, <2>1, StatusKept, OutSteps DEF LimitInv
<1>. QED BY <1>6, <1>7

\* As long as no terminal status is overwritten, the number of running jobs of an
\* asset, of a tenant and in all stays within the three limits, however the checks
\* and claims of the workers interleave.
THEOREM LimitsHold == SerialSpec => []ConcurrencyLimits
<1>1. LimitInv => ConcurrencyLimits
  <2>. SUFFICES ASSUME LimitInv PROVE ConcurrencyLimits
    OBVIOUS
  <2>1. ASSUME NEW S \in SUBSET Jobs, NEW past, NEW n \in Nat, Cardinality(Counted(S, past)) <= n
        PROVE  Within(S, n)
    <3>1. {k \in S : Running(k)} \in SUBSET Counted(S, past) /\ Counted(S, past) \in SUBSET Jobs
      BY DEF Counted, Entered
    <3>. QED BY <2>1, <3>1, SmallerCount DEF Within
  <2>. QED BY <2>1, PeersInJobs, Limits DEF LimitInv, LimitsAhead, ConcurrencyLimits
<1>2. SerialSpec => []LimitInv
  BY LimitInit, LimitStep, PTL DEF SerialSpec, Serial
<1>. QED BY <1>1, <1>2, PTL
=============================================================================
