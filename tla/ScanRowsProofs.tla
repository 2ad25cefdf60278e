--------------------------- MODULE ScanRowsProofs ---------------------------
(***************************************************************************)
(* What TLAPS proves of ScanRows, on top of ScanJobs' type correctness:    *)
(* that ScanJobs implements AbstractJob, that a job and its scan agree in  *)
(* the end, and that no job is forgotten, for every set of jobs, workers,  *)
(* requests and maintenance tasks and on either backend.                   *)
(***************************************************************************)
EXTENDS ScanRows, ScanJobsProofs

USE DEF Actors, Status, ActiveStatus, Claimable, Terminal, Message, jobVars, queueVars,
        ctlVars, histVars

-----------------------------------------------------------------------------
(* Where each actor may be: what it marks, which job its message, its copy   *)
(* or its list is about, and that nobody works on a job that does not exist. *)

\* Whoever may mark a job or save its scan.
Holder(a, j) ==
  \/ a \in Workers /\ Executing(a, j)
  \/ a \in Analysts /\ cur[a] = j /\ goal[a] \in {"cancelled", "rescan"}
  \/ a \in Beats /\ (cur[a] = j \/ \E e \in todo[a] : e[1] = j)

\* Between the mark and what follows it.
Marking(a, j) == cur[a] = j /\ pc[a] = "marked"

\* What the scan of a job that is over says.
Matches(j) == scan[j] = IF status[j] = "completed" THEN "completed" ELSE "failed"

\* A worker's message is about its job, and it only knows what to mark when it marks.
WorkersAt ==
  \A w \in Workers :
    /\ pc[w] \in WorkerPc
    /\ goal[w] \in IF pc[w] \in {"mark", "write", "marked"}
                   THEN {"completed", "retrying"} \cup Failure ELSE {"none"}
    /\ pc[w] # "idle" => held[w] \in Message /\ jobOf[held[w][1]] = cur[w]
    /\ pc[w] = "idle" => held[w] = NoMessage

\* What a request is about can be told from where it is; its task is its job's.
AnalystsAt ==
  \A u \in Analysts :
    /\ pc[u] \in AnalystPc
    /\ pc[u] \in {"revoke", "mark", "write", "marked"} <=> goal[u] = "cancelled"
    /\ pc[u] \in {"update", "overwrite"} => goal[u] \in {"done", "rescan"}
    /\ pc[u] = "rescan" => goal[u] = "rescan"
    /\ pc[u] = "idle" => goal[u] = "none"
    /\ pc[u] = "send" => goal[u] \in {"none", "rescan"}
    /\ copy[u].task # NoTask => pc[u] # "idle" /\ jobOf[copy[u].task] = cur[u]

\* A sweep marks FAILED only, and has each job listed once and not under way as well.
BeatsAt ==
  \A s \in Beats :
    /\ pc[s] \in BeatPc
    /\ pc[s] \in {"mark", "write", "marked"} <=> goal[s] = "failed"
    /\ \A e \in todo[s] : e[1] # cur[s] /\ \A f \in todo[s] : e[1] = f[1] => e = f

\* A job that is not created is nobody's business, and a recorded task is its job's.
Known(j) ==
  /\ status[j] = "absent" =>
       /\ \A a \in Actors : cur[a] # j
       /\ \A t \in Tasks : jobOf[t] # j
       /\ \A s \in Beats : \A e \in todo[s] : e[1] # j
  /\ taskId[j] # NoTask => jobOf[taskId[j]] = j

ControlInv ==
  /\ \A a \in Actors : pc[a] = "idle" => cur[a] = NoJob
  /\ WorkersAt /\ AnalystsAt /\ BeatsAt
  /\ \A j \in Jobs : Known(j)

\* Nobody works on a job that is not created yet.
LEMMA AbsentJob ==
  ASSUME ControlInv, NEW j \in Jobs, status[j] = "absent"
  PROVE  /\ \A a \in Actors : cur[a] # j
         /\ \A t \in Tasks : jobOf[t] # j
         /\ \A s \in Beats : \A e \in todo[s] : e[1] # j
  BY DEF ControlInv, Known

USE DEF TypeInv, TypeOK, AtWork, Delivered, Goto, Rest, WorkerPc, AnalystPc, BeatPc

\* Every step keeps everybody where ControlInv says.
LEMMA AtReceive ==
  ASSUME TypeInv, TypeInv', ControlInv, NEW w \in Workers, Receive(w)
  PROVE  ControlInv'
<1>. USE Kinds DEF ControlInv, Receive
<1>1. \A b \in Actors : pc'[b] = "idle" => cur'[b] = NoJob
  OBVIOUS
<1>2. WorkersAt'
  BY DEF WorkersAt, Failure
<1>3. AnalystsAt'
  BY DEF AnalystsAt
<1>4. BeatsAt'
  BY DEF BeatsAt
<1>5. \A i \in Jobs : Known(i)'
  <2>1. PICK m \in Message : Receive(w)!(m)
    OBVIOUS
  <2>3. m[1] \in Tasks
    OBVIOUS
  <2>4. jobOf[m[1]] \in Jobs
    BY <2>1
  <2>2. /\ cur' = [cur EXCEPT ![w] = jobOf[m[1]]] /\ UNCHANGED <<status, taskId, jobOf, todo>>
    BY <2>1
  <2>5. ASSUME NEW j \in Jobs, status[j] = "absent" PROVE \A a \in Actors : cur'[a] # j
    <3>1. (\A t \in Tasks : jobOf[t] # j) /\ \A a \in Actors : cur[a] # j
      BY <2>5, AbsentJob
    <3>2. jobOf[m[1]] # j
      BY <2>3, <3>1
    <3>. QED BY <2>2, <3>1, <3>2
  <2>. QED BY <2>2, <2>5 DEF Known
<1>. QED BY <1>1, <1>2, <1>3, <1>4, <1>5

LEMMA AtReadJob ==
  ASSUME TypeInv, TypeInv', ControlInv, NEW w \in Workers, ReadJob(w)
  PROVE  ControlInv'
<1>. USE Kinds DEF ControlInv, ReadJob, Ack
<1>1. \A b \in Actors : pc'[b] = "idle" => cur'[b] = NoJob
  <2>1. CASE status[cur[w]] \in Terminal
    BY <2>1
  <2>2. CASE status[cur[w]] \notin Terminal
    BY <2>2
  <2>. QED BY <2>1, <2>2
<1>2. WorkersAt'
  BY DEF WorkersAt, Failure
<1>3. AnalystsAt'
  BY DEF AnalystsAt
<1>4. BeatsAt'
  BY DEF BeatsAt
<1>5. \A i \in Jobs : Known(i)'
  BY DEF Known, WorkersAt, AnalystsAt
<1>. QED BY <1>1, <1>2, <1>3, <1>4, <1>5

LEMMA AtCheckLimits ==
  ASSUME TypeInv, TypeInv', ControlInv, NEW w \in Workers, CheckLimits(w)
  PROVE  ControlInv'
<1>. USE Kinds DEF ControlInv, CheckLimits, CheckLimit, Retry, Ack
<1>1. \A b \in Actors : pc'[b] = "idle" => cur'[b] = NoJob
  OBVIOUS
<1>2. WorkersAt'
  BY DEF WorkersAt, Failure
<1>3. AnalystsAt'
  BY DEF AnalystsAt
<1>4. BeatsAt'
  BY DEF BeatsAt
<1>5. \A i \in Jobs : Known(i)'
  BY DEF Known, WorkersAt, AnalystsAt
<1>. QED BY <1>1, <1>2, <1>3, <1>4, <1>5

LEMMA AtClaim ==
  ASSUME TypeInv, TypeInv', ControlInv, NEW w \in Workers, Claim(w)
  PROVE  ControlInv'
<1>. USE Kinds DEF ControlInv, Claim, CanClaim
<1>1. \A b \in Actors : pc'[b] = "idle" => cur'[b] = NoJob
  OBVIOUS
<1>2. WorkersAt'
  BY DEF WorkersAt, Failure
<1>3. AnalystsAt'
  BY DEF AnalystsAt
<1>4. BeatsAt'
  BY DEF BeatsAt
<1>5. \A i \in Jobs : Known(i)'
  BY DEF Known, WorkersAt, AnalystsAt
<1>. QED BY <1>1, <1>2, <1>3, <1>4, <1>5

LEMMA AtUnclaimed ==
  ASSUME TypeInv, TypeInv', ControlInv, NEW w \in Workers, Unclaimed(w)
  PROVE  ControlInv'
<1>. USE Kinds DEF ControlInv, Unclaimed, Retry, Ack
<1>1. \A b \in Actors : pc'[b] = "idle" => cur'[b] = NoJob
  OBVIOUS
<1>2. WorkersAt'
  BY DEF WorkersAt, Failure
<1>3. AnalystsAt'
  BY DEF AnalystsAt
<1>4. BeatsAt'
  BY DEF BeatsAt
<1>5. \A i \in Jobs : Known(i)'
  BY DEF Known, WorkersAt, AnalystsAt
<1>. QED BY <1>1, <1>2, <1>3, <1>4, <1>5

LEMMA AtPreflight ==
  ASSUME TypeInv, TypeInv', ControlInv, NEW w \in Workers, Preflight(w)
  PROVE  ControlInv'
<1>. USE Kinds DEF ControlInv, Preflight
<1>1. \A b \in Actors : pc'[b] = "idle" => cur'[b] = NoJob
  OBVIOUS
<1>2. WorkersAt'
  BY DEF WorkersAt, Failure
<1>3. AnalystsAt'
  BY DEF AnalystsAt
<1>4. BeatsAt'
  BY DEF BeatsAt
<1>5. \A i \in Jobs : Known(i)'
  BY DEF Known, WorkersAt, AnalystsAt
<1>. QED BY <1>1, <1>2, <1>3, <1>4, <1>5

LEMMA AtStartScan ==
  ASSUME TypeInv, TypeInv', ControlInv, NEW w \in Workers, StartScan(w)
  PROVE  ControlInv'
<1>. USE Kinds DEF ControlInv, StartScan
<1>1. \A b \in Actors : pc'[b] = "idle" => cur'[b] = NoJob
  OBVIOUS
<1>2. WorkersAt'
  BY DEF WorkersAt, Failure
<1>3. AnalystsAt'
  BY DEF AnalystsAt
<1>4. BeatsAt'
  BY DEF BeatsAt
<1>5. \A i \in Jobs : Known(i)'
  BY DEF Known, WorkersAt, AnalystsAt
<1>. QED BY <1>1, <1>2, <1>3, <1>4, <1>5

LEMMA AtScanSucceeds ==
  ASSUME TypeInv, TypeInv', ControlInv, NEW w \in Workers, ScanSucceeds(w)
  PROVE  ControlInv'
<1>. USE Kinds DEF ControlInv, ScanSucceeds
<1>1. \A b \in Actors : pc'[b] = "idle" => cur'[b] = NoJob
  OBVIOUS
<1>2. WorkersAt'
  BY DEF WorkersAt, Failure
<1>3. AnalystsAt'
  BY DEF AnalystsAt
<1>4. BeatsAt'
  BY DEF BeatsAt
<1>5. \A i \in Jobs : Known(i)'
  BY DEF Known, WorkersAt, AnalystsAt
<1>. QED BY <1>1, <1>2, <1>3, <1>4, <1>5

LEMMA AtSaveResult ==
  ASSUME TypeInv, TypeInv', ControlInv, NEW w \in Workers, SaveResult(w)
  PROVE  ControlInv'
<1>. USE Kinds DEF ControlInv, SaveResult
<1>1. \A b \in Actors : pc'[b] = "idle" => cur'[b] = NoJob
  OBVIOUS
<1>2. WorkersAt'
  BY DEF WorkersAt, Failure
<1>3. AnalystsAt'
  BY DEF AnalystsAt
<1>4. BeatsAt'
  BY DEF BeatsAt
<1>5. \A i \in Jobs : Known(i)'
  BY DEF Known, WorkersAt, AnalystsAt
<1>. QED BY <1>1, <1>2, <1>3, <1>4, <1>5

LEMMA AtSaveFindings ==
  ASSUME TypeInv, TypeInv', ControlInv, NEW w \in Workers, SaveFindings(w)
  PROVE  ControlInv'
<1>. USE Kinds DEF ControlInv, SaveFindings
<1>1. \A b \in Actors : pc'[b] = "idle" => cur'[b] = NoJob
  OBVIOUS
<1>2. WorkersAt'
  BY DEF WorkersAt, Failure
<1>3. AnalystsAt'
  BY DEF AnalystsAt
<1>4. BeatsAt'
  BY DEF BeatsAt
<1>5. \A i \in Jobs : Known(i)'
  BY DEF Known, WorkersAt, AnalystsAt
<1>. QED BY <1>1, <1>2, <1>3, <1>4, <1>5

LEMMA AtScanFails ==
  ASSUME TypeInv, TypeInv', ControlInv, NEW w \in Workers, ScanFails(w)
  PROVE  ControlInv'
<1>. USE Kinds DEF ControlInv, ScanFails, Failure
<1>1. \A b \in Actors : pc'[b] = "idle" => cur'[b] = NoJob
  OBVIOUS
<1>2. WorkersAt'
  BY DEF WorkersAt, Failure
<1>3. AnalystsAt'
  BY DEF AnalystsAt
<1>4. BeatsAt'
  <2>1. ASSUME NEW s \in Beats
        PROVE  pc'[s] = pc[s] /\ cur'[s] = cur[s] /\ goal'[s] = goal[s] /\ todo'[s] = todo[s]
    OBVIOUS
  <2>2. BeatsAt
    OBVIOUS
  <2>. HIDE DEF TypeInv, ControlInv
  <2>. QED BY <2>1, <2>2 DEF BeatsAt
<1>5. \A i \in Jobs : Known(i)'
  BY DEF Known, WorkersAt, AnalystsAt
<1>. QED BY <1>1, <1>2, <1>3, <1>4, <1>5

LEMMA AtScanRetryable ==
  ASSUME TypeInv, TypeInv', ControlInv, NEW w \in Workers, ScanRetryable(w)
  PROVE  ControlInv'
<1>. USE Kinds DEF ControlInv, ScanRetryable
<1>1. \A b \in Actors : pc'[b] = "idle" => cur'[b] = NoJob
  OBVIOUS
<1>2. WorkersAt'
  BY DEF WorkersAt, Failure
<1>3. AnalystsAt'
  BY DEF AnalystsAt
<1>4. BeatsAt'
  BY DEF BeatsAt
<1>5. \A i \in Jobs : Known(i)'
  BY DEF Known, WorkersAt, AnalystsAt
<1>. QED BY <1>1, <1>2, <1>3, <1>4, <1>5

LEMMA AtFinishCompleted ==
  ASSUME TypeInv, TypeInv', ControlInv, NEW w \in Workers, FinishCompleted(w)
  PROVE  ControlInv'
<1>. USE Kinds DEF ControlInv, FinishCompleted, Ack
<1>1. \A b \in Actors : pc'[b] = "idle" => cur'[b] = NoJob
  OBVIOUS
<1>2. WorkersAt'
  BY DEF WorkersAt, Failure
<1>3. AnalystsAt'
  BY DEF AnalystsAt
<1>4. BeatsAt'
  BY DEF BeatsAt
<1>5. \A i \in Jobs : Known(i)'
  BY DEF Known, WorkersAt, AnalystsAt
<1>. QED BY <1>1, <1>2, <1>3, <1>4, <1>5

LEMMA AtFinishFailed ==
  ASSUME TypeInv, TypeInv', ControlInv, NEW w \in Workers, FinishFailed(w)
  PROVE  ControlInv'
<1>. USE Kinds DEF ControlInv, FinishFailed, SaveScanFailed, Ack
<1>1. \A b \in Actors : pc'[b] = "idle" => cur'[b] = NoJob
  OBVIOUS
<1>2. WorkersAt'
  BY DEF WorkersAt, Failure
<1>3. AnalystsAt'
  BY DEF AnalystsAt
<1>4. BeatsAt'
  BY DEF BeatsAt
<1>5. \A i \in Jobs : Known(i)'
  BY DEF Known, WorkersAt, AnalystsAt
<1>. QED BY <1>1, <1>2, <1>3, <1>4, <1>5

LEMMA AtFinishRetrying ==
  ASSUME TypeInv, TypeInv', ControlInv, NEW w \in Workers, FinishRetrying(w)
  PROVE  ControlInv'
<1>. USE Kinds DEF ControlInv, FinishRetrying, Retry, Ack
<1>1. \A b \in Actors : pc'[b] = "idle" => cur'[b] = NoJob
  OBVIOUS
<1>2. WorkersAt'
  BY DEF WorkersAt, Failure
<1>3. AnalystsAt'
  BY DEF AnalystsAt
<1>4. BeatsAt'
  <2>1. ASSUME NEW s \in Beats
        PROVE  pc'[s] = pc[s] /\ cur'[s] = cur[s] /\ goal'[s] = goal[s] /\ todo'[s] = todo[s]
    OBVIOUS
  <2>2. BeatsAt
    OBVIOUS
  <2>. HIDE DEF TypeInv, ControlInv
  <2>. QED BY <2>1, <2>2 DEF BeatsAt
<1>5. \A i \in Jobs : Known(i)'
  BY DEF Known, WorkersAt, AnalystsAt
<1>. QED BY <1>1, <1>2, <1>3, <1>4, <1>5

LEMMA AtAckRetried ==
  ASSUME TypeInv, TypeInv', ControlInv, NEW w \in Workers, AckRetried(w)
  PROVE  ControlInv'
<1>. USE Kinds DEF ControlInv, AckRetried, Ack
<1>1. \A b \in Actors : pc'[b] = "idle" => cur'[b] = NoJob
  OBVIOUS
<1>2. WorkersAt'
  BY DEF WorkersAt, Failure
<1>3. AnalystsAt'
  BY DEF AnalystsAt
<1>4. BeatsAt'
  BY DEF BeatsAt
<1>5. \A i \in Jobs : Known(i)'
  BY DEF Known, WorkersAt, AnalystsAt
<1>. QED BY <1>1, <1>2, <1>3, <1>4, <1>5

LEMMA AtWorkerCrash ==
  ASSUME TypeInv, TypeInv', ControlInv, NEW w \in Workers, WorkerCrash(w)
  PROVE  ControlInv'
<1>. USE Kinds DEF ControlInv, WorkerCrash
<1>1. \A b \in Actors : pc'[b] = "idle" => cur'[b] = NoJob
  OBVIOUS
<1>2. WorkersAt'
  BY DEF WorkersAt, Failure
<1>3. AnalystsAt'
  BY DEF AnalystsAt
<1>4. BeatsAt'
  BY DEF BeatsAt
<1>5. \A i \in Jobs : Known(i)'
  BY DEF Known, WorkersAt, AnalystsAt
<1>. QED BY <1>1, <1>2, <1>3, <1>4, <1>5

LEMMA AtHardTimeLimit ==
  ASSUME TypeInv, TypeInv', ControlInv, NEW w \in Workers, HardTimeLimit(w)
  PROVE  ControlInv'
<1>. USE Kinds DEF ControlInv, HardTimeLimit, Ack
<1>1. \A b \in Actors : pc'[b] = "idle" => cur'[b] = NoJob
  OBVIOUS
<1>2. WorkersAt'
  BY DEF WorkersAt, Failure
<1>3. AnalystsAt'
  BY DEF AnalystsAt
<1>4. BeatsAt'
  BY DEF BeatsAt
<1>5. \A i \in Jobs : Known(i)'
  BY DEF Known, WorkersAt, AnalystsAt
<1>. QED BY <1>1, <1>2, <1>3, <1>4, <1>5

LEMMA AtMarkRead ==
  ASSUME TypeInv, TypeInv', ControlInv, NEW a \in Actors, MarkRead(a)
  PROVE  ControlInv'
<1>. USE Kinds DEF ControlInv, MarkRead
<1>1. \A b \in Actors : pc'[b] = "idle" => cur'[b] = NoJob
  OBVIOUS
<1>2. WorkersAt'
  BY DEF WorkersAt, Failure
<1>3. AnalystsAt'
  BY DEF AnalystsAt
<1>4. BeatsAt'
  BY DEF BeatsAt
<1>5. \A i \in Jobs : Known(i)'
  BY DEF Known, WorkersAt, AnalystsAt
<1>. QED BY <1>1, <1>2, <1>3, <1>4, <1>5

LEMMA AtMarkWrite ==
  ASSUME TypeInv, TypeInv', ControlInv, NEW a \in Actors, MarkWrite(a)
  PROVE  ControlInv'
<1>. USE Kinds DEF ControlInv, MarkWrite, PutUp, Overwrite, Marked
<1>1. \A b \in Actors : pc'[b] = "idle" => cur'[b] = NoJob
  OBVIOUS
<1>2. WorkersAt'
  BY DEF WorkersAt, Failure
<1>3. AnalystsAt'
  BY DEF AnalystsAt
<1>4. BeatsAt'
  BY DEF BeatsAt
<1>5. \A i \in Jobs : Known(i)'
  <2>1. /\ UNCHANGED <<cur, jobOf, todo, taskId>>
        /\ cur[a] \in Jobs /\ goal[a] # "absent" /\ status[cur[a]] # "absent"
    BY DEF Known
  <2>2. \A i \in Jobs : status'[i] = "absent" => status[i] = "absent"
    BY <2>1
  <2>. QED BY <2>1, <2>2 DEF Known
<1>. QED BY <1>1, <1>2, <1>3, <1>4, <1>5

LEMMA AtFindStale ==
  ASSUME TypeInv, TypeInv', ControlInv, NEW s \in Beats, FindStale(s)
  PROVE  ControlInv'
<1>. USE Kinds DEF ControlInv, FindStale, Stale
<1>1. \A b \in Actors : pc'[b] = "idle" => cur'[b] = NoJob
  OBVIOUS
<1>2. WorkersAt'
  BY DEF WorkersAt, Failure
<1>3. AnalystsAt'
  BY DEF AnalystsAt
<1>4. BeatsAt'
  BY DEF BeatsAt
<1>5. \A i \in Jobs : Known(i)'
  BY DEF Known, WorkersAt, AnalystsAt
<1>. QED BY <1>1, <1>2, <1>3, <1>4, <1>5

LEMMA AtReclaim ==
  ASSUME TypeInv, TypeInv', ControlInv, NEW s \in Beats, Reclaim(s)
  PROVE  ControlInv'
<1>. USE Kinds DEF ControlInv, Reclaim, Stale, PutUp
<1>1. \A b \in Actors : pc'[b] = "idle" => cur'[b] = NoJob
  OBVIOUS
<1>2. WorkersAt'
  BY DEF WorkersAt, Failure
<1>3. AnalystsAt'
  BY DEF AnalystsAt
<1>4. BeatsAt'
  BY DEF BeatsAt
<1>5. \A i \in Jobs : Known(i)'
  BY DEF Known, WorkersAt, AnalystsAt
<1>. QED BY <1>1, <1>2, <1>3, <1>4, <1>5

LEMMA AtDispatch ==
  ASSUME TypeInv, TypeInv', ControlInv, NEW s \in Beats, NEW j \in Jobs, Dispatch(s, j)
  PROVE  ControlInv'
<1>. USE Kinds DEF ControlInv, Dispatch, PutUp
<1>1. \A b \in Actors : pc'[b] = "idle" => cur'[b] = NoJob
  OBVIOUS
<1>2. WorkersAt'
  BY DEF WorkersAt, Failure
<1>3. AnalystsAt'
  BY DEF AnalystsAt
<1>4. BeatsAt'
  BY DEF BeatsAt
<1>5. \A i \in Jobs : Known(i)'
  BY DEF Known, WorkersAt, AnalystsAt
<1>. QED BY <1>1, <1>2, <1>3, <1>4, <1>5

LEMMA AtSendMaintenance ==
  ASSUME TypeInv, TypeInv', ControlInv, NEW s \in Beats, SendMaintenance(s)
  PROVE  ControlInv'
<1>. USE Kinds DEF ControlInv, SendMaintenance, Publish
<1>1. \A b \in Actors : pc'[b] = "idle" => cur'[b] = NoJob
  OBVIOUS
<1>2. WorkersAt'
  BY DEF WorkersAt, Failure
<1>3. AnalystsAt'
  BY DEF AnalystsAt
<1>4. BeatsAt'
  BY DEF BeatsAt
<1>5. \A i \in Jobs : Known(i)'
  BY DEF Known, WorkersAt, AnalystsAt
<1>. QED BY <1>1, <1>2, <1>3, <1>4, <1>5

LEMMA AtGiveUp ==
  ASSUME TypeInv, TypeInv', ControlInv, NEW s \in Beats, GiveUp(s)
  PROVE  ControlInv'
<1>. USE Kinds DEF ControlInv, GiveUp
<1>1. \A b \in Actors : pc'[b] = "idle" => cur'[b] = NoJob
  OBVIOUS
<1>2. WorkersAt'
  BY DEF WorkersAt, Failure
<1>3. AnalystsAt'
  BY DEF AnalystsAt
<1>4. BeatsAt'
  BY DEF BeatsAt
<1>5. \A i \in Jobs : Known(i)'
  BY DEF Known, WorkersAt, AnalystsAt
<1>. QED BY <1>1, <1>2, <1>3, <1>4, <1>5

LEMMA AtFinishGiveUp ==
  ASSUME TypeInv, TypeInv', ControlInv, NEW s \in Beats, FinishGiveUp(s)
  PROVE  ControlInv'
<1>. USE Kinds DEF ControlInv, FinishGiveUp, SaveScanFailed
<1>1. \A b \in Actors : pc'[b] = "idle" => cur'[b] = NoJob
  OBVIOUS
<1>2. WorkersAt'
  BY DEF WorkersAt, Failure
<1>3. AnalystsAt'
  BY DEF AnalystsAt
<1>4. BeatsAt'
  BY DEF BeatsAt
<1>5. \A i \in Jobs : Known(i)'
  BY DEF Known, WorkersAt, AnalystsAt
<1>. QED BY <1>1, <1>2, <1>3, <1>4, <1>5

LEMMA AtBeatCrash ==
  ASSUME TypeInv, TypeInv', ControlInv, NEW s \in Beats, BeatCrash(s)
  PROVE  ControlInv'
<1>. USE Kinds DEF ControlInv, BeatCrash
<1>1. \A b \in Actors : pc'[b] = "idle" => cur'[b] = NoJob
  OBVIOUS
<1>2. WorkersAt'
  BY DEF WorkersAt, Failure
<1>3. AnalystsAt'
  BY DEF AnalystsAt
<1>4. BeatsAt'
  BY DEF BeatsAt
<1>5. \A i \in Jobs : Known(i)'
  BY DEF Known, WorkersAt, AnalystsAt
<1>. QED BY <1>1, <1>2, <1>3, <1>4, <1>5

LEMMA AtSubmit ==
  ASSUME TypeInv, TypeInv', ControlInv, NEW u \in Analysts, NEW j \in Jobs, Submit(u, j)
  PROVE  ControlInv'
<1>. USE Kinds DEF ControlInv, Submit, PutUp, NoCopy
<1>1. \A b \in Actors : pc'[b] = "idle" => cur'[b] = NoJob
  OBVIOUS
<1>2. WorkersAt'
  BY DEF WorkersAt, Failure
<1>3. AnalystsAt'
  BY DEF AnalystsAt
<1>4. BeatsAt'
  BY DEF BeatsAt
<1>5. \A i \in Jobs : Known(i)'
  BY DEF Known, WorkersAt, AnalystsAt
<1>. QED BY <1>1, <1>2, <1>3, <1>4, <1>5

LEMMA AtSendTask ==
  ASSUME TypeInv, TypeInv', ControlInv, NEW u \in Analysts, SendTask(u)
  PROVE  ControlInv'
<1>. USE Kinds DEF ControlInv, SendTask, Publish
<1>1. \A b \in Actors : pc'[b] = "idle" => cur'[b] = NoJob
  OBVIOUS
<1>2. WorkersAt'
  BY DEF WorkersAt, Failure
<1>3. AnalystsAt'
  BY DEF AnalystsAt
<1>4. BeatsAt'
  BY DEF BeatsAt
<1>5. \A i \in Jobs : Known(i)'
  BY DEF Known, WorkersAt, AnalystsAt
<1>. QED BY <1>1, <1>2, <1>3, <1>4, <1>5

LEMMA AtUpdateRead ==
  ASSUME TypeInv, TypeInv', ControlInv, NEW u \in Analysts, UpdateRead(u)
  PROVE  ControlInv'
<1>. USE Kinds DEF ControlInv, UpdateRead
<1>1. \A b \in Actors : pc'[b] = "idle" => cur'[b] = NoJob
  OBVIOUS
<1>2. WorkersAt'
  BY DEF WorkersAt, Failure
<1>3. AnalystsAt'
  BY DEF AnalystsAt
<1>4. BeatsAt'
  BY DEF BeatsAt
<1>5. \A i \in Jobs : Known(i)'
  BY DEF Known, WorkersAt, AnalystsAt
<1>. QED BY <1>1, <1>2, <1>3, <1>4, <1>5

LEMMA AtUpdateWrite ==
  ASSUME TypeInv, TypeInv', ControlInv, NEW u \in Analysts, UpdateWrite(u)
  PROVE  ControlInv'
<1>. USE Kinds DEF ControlInv, UpdateWrite, OverwriteRow, Overwrite, PutUp, NoCopy
<1>1. \A b \in Actors : pc'[b] = "idle" => cur'[b] = NoJob
  OBVIOUS
<1>2. WorkersAt'
  BY DEF WorkersAt, Failure
<1>3. AnalystsAt'
  BY DEF AnalystsAt
<1>4. BeatsAt'
  BY DEF BeatsAt
<1>5. \A i \in Jobs : Known(i)'
  BY DEF Known, AnalystsAt
<1>. QED BY <1>1, <1>2, <1>3, <1>4, <1>5

LEMMA AtCancelRequest ==
  ASSUME TypeInv, TypeInv', ControlInv, NEW u \in Analysts, NEW j \in Jobs, CancelRequest(u, j)
  PROVE  ControlInv'
<1>. USE Kinds DEF ControlInv, CancelRequest
<1>1. \A b \in Actors : pc'[b] = "idle" => cur'[b] = NoJob
  OBVIOUS
<1>2. WorkersAt'
  BY DEF WorkersAt, Failure
<1>3. AnalystsAt'
  BY DEF AnalystsAt, Known
<1>4. BeatsAt'
  BY DEF BeatsAt
<1>5. \A i \in Jobs : Known(i)'
  BY DEF Known
<1>. QED BY <1>1, <1>2, <1>3, <1>4, <1>5

LEMMA AtRevoke ==
  ASSUME TypeInv, TypeInv', ControlInv, NEW u \in Analysts, Revoke(u)
  PROVE  ControlInv'
<1>. USE Kinds DEF ControlInv, Revoke
<1>1. \A b \in Actors : pc'[b] = "idle" => cur'[b] = NoJob
  OBVIOUS
<1>2. WorkersAt'
  BY DEF WorkersAt, Failure
<1>3. AnalystsAt'
  BY DEF AnalystsAt
<1>4. BeatsAt'
  BY DEF BeatsAt
<1>5. \A i \in Jobs : Known(i)'
  BY DEF Known, WorkersAt, AnalystsAt
<1>. QED BY <1>1, <1>2, <1>3, <1>4, <1>5

LEMMA AtFinishCancel ==
  ASSUME TypeInv, TypeInv', ControlInv, NEW u \in Analysts, FinishCancel(u)
  PROVE  ControlInv'
<1>. USE Kinds DEF ControlInv, FinishCancel, SaveScanFailed, NoCopy
<1>1. \A b \in Actors : pc'[b] = "idle" => cur'[b] = NoJob
  OBVIOUS
<1>2. WorkersAt'
  BY DEF WorkersAt, Failure
<1>3. AnalystsAt'
  BY DEF AnalystsAt
<1>4. BeatsAt'
  BY DEF BeatsAt
<1>5. \A i \in Jobs : Known(i)'
  BY DEF Known, WorkersAt, AnalystsAt
<1>. QED BY <1>1, <1>2, <1>3, <1>4, <1>5

LEMMA AtRetryRequest ==
  ASSUME TypeInv, TypeInv', ControlInv, NEW u \in Analysts, NEW j \in Jobs, RetryRequest(u, j)
  PROVE  ControlInv'
<1>. USE Kinds DEF ControlInv, RetryRequest
<1>1. \A b \in Actors : pc'[b] = "idle" => cur'[b] = NoJob
  OBVIOUS
<1>2. WorkersAt'
  BY DEF WorkersAt, Failure
<1>3. AnalystsAt'
  BY DEF AnalystsAt, Known
<1>4. BeatsAt'
  BY DEF BeatsAt
<1>5. \A i \in Jobs : Known(i)'
  BY DEF Known, WorkersAt, AnalystsAt
<1>. QED BY <1>1, <1>2, <1>3, <1>4, <1>5

LEMMA AtRescan ==
  ASSUME TypeInv, TypeInv', ControlInv, NEW u \in Analysts, Rescan(u)
  PROVE  ControlInv'
<1>. USE Kinds DEF ControlInv, Rescan
<1>1. \A b \in Actors : pc'[b] = "idle" => cur'[b] = NoJob
  OBVIOUS
<1>2. WorkersAt'
  BY DEF WorkersAt, Failure
<1>3. AnalystsAt'
  BY DEF AnalystsAt
<1>4. BeatsAt'
  BY DEF BeatsAt
<1>5. \A i \in Jobs : Known(i)'
  BY DEF Known, WorkersAt, AnalystsAt
<1>. QED BY <1>1, <1>2, <1>3, <1>4, <1>5

LEMMA AtWebCrash ==
  ASSUME TypeInv, TypeInv', ControlInv, NEW u \in Analysts, WebCrash(u)
  PROVE  ControlInv'
<1>. USE Kinds DEF ControlInv, WebCrash, NoCopy
<1>1. \A b \in Actors : pc'[b] = "idle" => cur'[b] = NoJob
  OBVIOUS
<1>2. WorkersAt'
  BY DEF WorkersAt, Failure
<1>3. AnalystsAt'
  BY DEF AnalystsAt
<1>4. BeatsAt'
  BY DEF BeatsAt
<1>5. \A i \in Jobs : Known(i)'
  BY DEF Known, WorkersAt, AnalystsAt
<1>. QED BY <1>1, <1>2, <1>3, <1>4, <1>5

LEMMA AtAge ==
  ASSUME TypeInv, TypeInv', ControlInv, NEW j \in Jobs, Age(j)
  PROVE  ControlInv'
<1>. USE Kinds DEF ControlInv, Age
<1>1. \A b \in Actors : pc'[b] = "idle" => cur'[b] = NoJob
  OBVIOUS
<1>2. WorkersAt'
  BY DEF WorkersAt, Failure
<1>3. AnalystsAt'
  BY DEF AnalystsAt
<1>4. BeatsAt'
  BY DEF BeatsAt
<1>5. \A i \in Jobs : Known(i)'
  BY DEF Known
<1>. QED BY <1>1, <1>2, <1>3, <1>4, <1>5

HIDE DEF TypeInv, TypeOK, AtWork, Delivered, Goto, Rest, WorkerPc, AnalystPc, BeatPc

LEMMA ControlInit == Init => ControlInv
  BY Kinds DEF Init, ControlInv, WorkersAt, AnalystsAt, BeatsAt, Known, NoCopy, WorkerPc,
     AnalystPc, BeatPc

LEMMA ControlStutter == ASSUME ControlInv, UNCHANGED vars PROVE ControlInv'
  BY DEF vars, ControlInv, WorkersAt, AnalystsAt, BeatsAt, Known

LEMMA ControlStep ==
  ASSUME TypeInv, TypeInv', ControlInv, [Next]_vars PROVE ControlInv'
<1>1. ASSUME NEW w \in Workers, WorkerStep(w) PROVE ControlInv'
  BY <1>1, AtReceive, AtReadJob, AtCheckLimits, AtClaim, AtUnclaimed, AtPreflight,
     AtStartScan, AtScanSucceeds, AtSaveResult, AtSaveFindings, AtScanFails, AtMarkRead,
     AtMarkWrite, AtFinishCompleted, AtFinishFailed, AtFinishRetrying, AtAckRetried
     DEF WorkerStep
<1>2. ASSUME NEW s \in Beats, BeatStep(s) \/ \E j \in Jobs : Dispatch(s, j) PROVE ControlInv'
  BY <1>2, AtFindStale, AtReclaim, AtSendMaintenance, AtGiveUp, AtMarkRead, AtMarkWrite,
     AtFinishGiveUp, AtDispatch DEF BeatStep
<1>3. ASSUME NEW u \in Analysts, AnalystStep(u) \/ Request(u) PROVE ControlInv'
  BY <1>3, AtSendTask, AtUpdateRead, AtUpdateWrite, AtRescan, AtRevoke, AtMarkRead,
     AtMarkWrite, AtFinishCancel, AtSubmit, AtCancelRequest, AtRetryRequest
     DEF AnalystStep, Request
<1>4. ASSUME Fault PROVE ControlInv'
  BY <1>4, AtScanRetryable, AtWorkerCrash, AtHardTimeLimit, AtWebCrash, AtBeatCrash DEF Fault
<1>. QED BY <1>1, <1>2, <1>3, <1>4, AtAge, ControlStutter DEF Next

-----------------------------------------------------------------------------
(* The contract.  Every step of one of the actors is a step of AbstractJob:  *)
(* the claim wins, the three kinds of UPDATE of a status put up, close or    *)
(* reopen a job, and everything else at most loses licences and begins or    *)
(* ends a transaction.                                                       *)

\* Nobody has begun to write, and who goes on writing has read the same row.
NoNewDraft ==
  \A a \in Actors :
    pc'[a] \in {"write", "overwrite"} =>
      pc[a] \in {"write", "overwrite"} /\ cur'[a] = cur[a] /\ seen'[a] = seen[a]

\* Everybody who executes goes on, on the same claim.
SameClaims ==
  \A w \in Workers :
    /\ pc'[w] \in ExecutingPc <=> pc[w] \in ExecutingPc
    /\ cur'[w] = cur[w] /\ won'[w] = won[w]

\* What Contract!Drafting says of the scan jobs.
DraftsAllowed == Drafts' \subseteq Drafts \cup {j \in Jobs : status[j] \notin Terminal}

LEMMA PhaseOf ==
  ASSUME TypeInv, NEW j \in Jobs
  PROVE  /\ Phase(j) = "none" <=> status[j] = "absent"
         /\ Phase(j) = "waiting" <=> status[j] \in Claimable
         /\ Phase(j) = "taken" <=> status[j] = "running"
         /\ Phase(j) = "over" <=> status[j] \in Terminal
<1>. status[j] \in Status
  BY DEF TypeInv, TypeOK
<1>. QED BY DEF Phase

LEMMA DraftingAllowed ==
  ASSUME TypeInv, DraftsAllowed PROVE Contract!Drafting
<1>1. \A j \in Jobs : status[j] \notin Terminal <=> Phase(j) # "over"
  BY PhaseOf
<1>. QED BY <1>1 DEF DraftsAllowed, Contract!Drafting

LEMMA DraftsEnd ==
  ASSUME NoNewDraft PROVE DraftsAllowed
  BY DEF NoNewDraft, DraftsAllowed, Drafts, Writing

\* A step that leaves the rows alone.
LEMMA QuietRefines ==
  ASSUME TypeInv, NoNewClaim, DraftsAllowed, status' = status, gen' = gen
  PROVE  Contract!Next
<1>. DEFINE L == {w \in Workers : Licence(w)' # Licence(w)}
<1>1. \A w \in L : Licence(w)' = NoJob
  BY DEF NoNewClaim, Licence
<1>2. Contract!Lose(L)
  BY <1>1 DEF Contract!Lose
<1>3. \A j \in Jobs : Phase(j)' = Phase(j)
  BY DEF Phase
<1>4. [j \in Jobs |-> Phase(j)]' = [j \in Jobs |-> Phase(j)]
  BY <1>3
<1>. QED BY <1>2, <1>4, DraftingAllowed DEF Contract!Next

\* A step that writes the status of one job.
LEMMA TurnRefines ==
  ASSUME TypeInv, TypeInv', SameClaims, DraftsAllowed, NEW j \in Jobs,
         NEW s \in Claimable \cup Terminal, PutUp(j, s),
         status[j] = "absent" => s \in Claimable,
         Backend = "postgres" /\ status[j] \in Terminal => j \in Drafts
  PROVE  Contract!Next
<1>. DEFINE ph == [k \in Jobs |-> Phase(k)]
<1>0. status \in [Jobs -> Status] /\ gen \in [Jobs -> Nat]
  BY DEF TypeInv, TypeOK
<1>1. status' = [status EXCEPT ![j] = s] /\ status'[j] = s
  BY <1>0 DEF PutUp
<1>2. \A k \in Jobs \ {j} : Phase(k)' = Phase(k)
  BY <1>0, <1>1 DEF Phase
<1>3. /\ Phase(j)' = "waiting" <=> s \in Claimable
      /\ Phase(j)' = "over" <=> s \in Terminal
  BY <1>1 DEF Phase
<1>4. \A w \in Workers : Licence(w)' = Licence(w)
  BY DEF SameClaims, Licence
<1>5. Contract!Drafting /\ UNCHANGED [w \in Workers |-> Licence(w)]
  BY <1>4, DraftingAllowed
<1>6. ph' = [ph EXCEPT ![j] = Phase(j)'] /\ ph[j] = Phase(j)
  BY <1>2
<1>7. CASE s \in Claimable /\ status[j] \in {"absent", "running"}
  <2>1. gen' = [gen EXCEPT ![j] = @ + 1]
    BY <1>7 DEF PutUp
  <2>2. Contract!PutUp(j)
    BY <1>3, <1>6, <1>7, <2>1, PhaseOf DEF Contract!PutUp, Contract!Moves
  <2>. QED BY <1>5, <2>2 DEF Contract!Next
<1>8. CASE s \in Claimable /\ status[j] \in Terminal
  <2>1. gen' = [gen EXCEPT ![j] = @ + 1]
    BY <1>8 DEF PutUp
  <2>2. Contract!Reopen(j)
    BY <1>3, <1>6, <1>8, <2>1, PhaseOf DEF Contract!Reopen, Contract!Moves
  <2>. QED BY <1>5, <2>2 DEF Contract!Next
<1>9. CASE s \in Terminal /\ status[j] \in Claimable \cup {"running"}
  <2>1. gen' = gen
    BY <1>9 DEF PutUp
  <2>2. Contract!Close(j)
    BY <1>3, <1>6, <1>9, <2>1, PhaseOf DEF Contract!Close, Contract!Moves
  <2>. QED BY <1>5, <2>2 DEF Contract!Next
<1>10. CASE (s \in Claimable /\ status[j] \in Claimable) \/ (s \in Terminal /\ status[j] \in Terminal)
  <2>1. gen' = gen
    BY <1>10 DEF PutUp
  <2>2. Phase(j)' = Phase(j)
    BY <1>3, <1>10, PhaseOf
  <2>3. UNCHANGED <<ph, gen>>
    BY <2>1, <2>2, <1>2
  <2>4. Contract!Lose({})
    BY <1>4 DEF Contract!Lose
  <2>. QED BY <1>5, <2>3, <2>4 DEF Contract!Next
<1>. QED BY <1>0, <1>7, <1>8, <1>9, <1>10

USE DEF TypeInv, TypeOK, AtWork, Goto, Rest

LEMMA RefReceive == ASSUME TypeInv, NEW w \in Workers, Receive(w) PROVE NoNewDraft
  BY Kinds DEF Receive, NoNewDraft

LEMMA RefReadJob == ASSUME TypeInv, NEW w \in Workers, ReadJob(w) PROVE NoNewDraft
  BY Kinds DEF ReadJob, Ack, NoNewDraft

LEMMA RefCheckLimits == ASSUME TypeInv, NEW w \in Workers, CheckLimits(w) PROVE NoNewDraft
  BY Kinds DEF CheckLimits, CheckLimit, Retry, Ack, NoNewDraft

LEMMA RefUnclaimed == ASSUME TypeInv, NEW w \in Workers, Unclaimed(w) PROVE NoNewDraft
  BY Kinds DEF Unclaimed, Retry, Ack, NoNewDraft

LEMMA RefExecute ==
  ASSUME TypeInv, NEW w \in Workers,
         Preflight(w) \/ StartScan(w) \/ ScanSucceeds(w) \/ SaveResult(w) \/ SaveFindings(w)
           \/ ScanFails(w) \/ ScanRetryable(w)
  PROVE  NoNewDraft
  BY Kinds DEF Preflight, StartScan, ScanSucceeds, SaveResult, SaveFindings, ScanFails,
     ScanRetryable, NoNewDraft

LEMMA RefFinish ==
  ASSUME TypeInv, NEW w \in Workers,
         FinishCompleted(w) \/ FinishFailed(w) \/ FinishRetrying(w) \/ AckRetried(w)
           \/ WorkerCrash(w) \/ HardTimeLimit(w)
  PROVE  NoNewDraft
  BY Kinds DEF FinishCompleted, FinishFailed, FinishRetrying, AckRetried, WorkerCrash,
     HardTimeLimit, Retry, Ack, NoNewDraft

LEMMA RefBeats ==
  ASSUME TypeInv, NEW s \in Beats,
         FindStale(s) \/ SendMaintenance(s) \/ GiveUp(s) \/ FinishGiveUp(s) \/ BeatCrash(s)
  PROVE  NoNewDraft
  BY Kinds DEF FindStale, SendMaintenance, GiveUp, FinishGiveUp, BeatCrash, NoNewDraft

LEMMA RefRequests ==
  ASSUME TypeInv, NEW u \in Analysts,
         SendTask(u) \/ FinishCancel(u) \/ Rescan(u) \/ WebCrash(u)
           \/ \E j \in Jobs : CancelRequest(u, j) \/ RetryRequest(u, j)
  PROVE  NoNewDraft
  BY Kinds DEF SendTask, FinishCancel, Rescan, WebCrash, CancelRequest, RetryRequest, NoNewDraft

LEMMA RefRevoke == ASSUME TypeInv, NEW u \in Analysts, Revoke(u) PROVE NoNewDraft
  BY Kinds DEF Revoke, NoNewDraft

\* The first statement of a transaction: it reads a row that is over, or starts a draft.
LEMMA RefRead ==
  ASSUME TypeInv, NEW a \in Actors, MarkRead(a) \/ (a \in Analysts /\ UpdateRead(a))
  PROVE  DraftsAllowed
<1>1. PICK p \in {"write", "overwrite"} : pc' = [pc EXCEPT ![a] = p]
  BY DEF MarkRead, UpdateRead
<1>2. seen' = [seen EXCEPT ![a] = Row(cur[a])] /\ UNCHANGED <<cur, status>> /\ cur[a] \in Jobs
  BY DEF MarkRead, UpdateRead
<1>3. seen'[a].status = status[cur[a]]
  BY <1>2 DEF Row
<1>4. \A b \in Actors \ {a} : pc'[b] = pc[b] /\ seen'[b] = seen[b]
  BY <1>1, <1>2
<1>. QED BY <1>1, <1>2, <1>3, <1>4 DEF DraftsAllowed, Drafts, Writing

LEMMA RefClaim ==
  ASSUME TypeInv, NEW w \in Workers, Claim(w) PROVE Contract!Next
<1>. DEFINE j == cur[w]
            ph == [k \in Jobs |-> Phase(k)]
            lc == [v \in Workers |-> Licence(v)]
<1>0. j \in Jobs /\ pc[w] = "claim" /\ UNCHANGED <<cur, seen, gen>>
  BY DEF Claim
<1>1. NoNewDraft
  BY DEF Claim, NoNewDraft
<1>2. CASE CanClaim(j)
  <2>1. /\ status' = [status EXCEPT ![j] = "running"]
        /\ pc' = [pc EXCEPT ![w] = "preflight"] /\ won' = [won EXCEPT ![w] = gen[j]]
    BY <1>2 DEF Claim
  <2>2. /\ Phase(j) = "waiting" /\ Phase(j)' = "taken"
        /\ \A k \in Jobs \ {j} : Phase(k)' = Phase(k)
    BY <1>0, <1>2, <2>1 DEF CanClaim, Phase
  <2>3. ph[j] = "waiting" /\ ph' = [ph EXCEPT ![j] = "taken"]
    BY <1>0, <2>2
  <2>4. /\ Licence(w) = NoJob /\ Licence(w)' = <<j, gen[j]>>
        /\ \A v \in Workers \ {w} : Licence(v)' = Licence(v)
    BY <1>0, <2>1 DEF Licence, ExecutingPc
  <2>5. lc[w] = NoJob /\ lc' = [lc EXCEPT ![w] = <<j, gen[j]>>]
    BY <2>4
  <2>6. Drafts' = Drafts
    BY <1>0, <2>1 DEF Drafts, Writing
  <2>7. Contract!Win(w, j)
    BY <1>0, <2>3, <2>5, <2>6 DEF Contract!Win, Contract!Moves
  <2>. QED BY <1>0, <2>7 DEF Contract!Next
<1>3. CASE ~CanClaim(j)
  <2>1. status' = status /\ won' = won /\ pc' = [pc EXCEPT ![w] = "unclaimed"]
    BY <1>3 DEF Claim
  <2>2. NoNewClaim
    BY <1>0, <2>1 DEF NoNewClaim, ExecutingPc
  <2>. QED BY <1>0, <1>1, <2>1, <2>2, QuietRefines, DraftsEnd
<1>. QED BY <1>2, <1>3

\* The second statement of mark_scan_job_status.
LEMMA RefMarkWrite ==
  ASSUME TypeInv, TypeInv', ControlInv, NEW a \in Actors, MarkWrite(a) PROVE Contract!Next
<1>. DEFINE j == cur[a]
            s == Overwrite(seen[a].status, goal[a], status[j])
<1>0. /\ j \in Jobs /\ pc[a] = "write" /\ pc' = [pc EXCEPT ![a] = "marked"]
      /\ UNCHANGED <<cur, won>> /\ seen' = [seen EXCEPT ![a] = NoRow]
      /\ goal[a] \in Marked /\ status[j] \in Status
  BY DEF MarkWrite
<1>1. SameClaims /\ NoNewClaim /\ NoNewDraft
  BY <1>0 DEF SameClaims, NoNewClaim, NoNewDraft, ExecutingPc
<1>2. CASE Markable(seen[a]) /\ s # status[j]
  <2>1. PutUp(j, s) /\ s = goal[a]
    BY <1>2 DEF MarkWrite, Overwrite
  <2>2. status[j] # "absent"
    BY <1>0, AbsentJob
  <2>3. j \in Drafts
    BY <1>0, <1>2 DEF Drafts, Writing, Markable
  <2>4. s \in Claimable \cup Terminal
    BY <1>0, <2>1 DEF Marked
  <2>. QED BY <1>0, <1>1, <2>1, <2>2, <2>3, <2>4, TurnRefines, DraftsEnd
<1>3. CASE ~Markable(seen[a]) \/ s = status[j]
  <2>1. status' = status /\ gen' = gen
    BY <1>0, <1>3 DEF MarkWrite, PutUp
  <2>. QED BY <1>1, <2>1, QuietRefines, DraftsEnd
<1>. QED BY <1>2, <1>3

\* The second statement of update_job, or the only one of update_scan_job.
LEMMA RefUpdateWrite ==
  ASSUME TypeInv, TypeInv', NEW u \in Analysts, UpdateWrite(u) PROVE Contract!Next
<1>. DEFINE j == cur[u]
            s == Overwrite(seen[u].status, "queued", status[j])
<1>0. j \in Jobs /\ pc[u] = "overwrite" /\ status[j] \in Status /\ u \in Actors
  BY DEF UpdateWrite
<1>1. SameClaims /\ NoNewClaim /\ NoNewDraft
  BY <1>0, Kinds DEF UpdateWrite, SameClaims, NoNewClaim, NoNewDraft, ExecutingPc
<1>2. CASE PutUp(j, s) /\ s # status[j]
  <2>1. s = "queued"
    BY <1>2 DEF Overwrite
  <2>2. status' # status
    BY <1>0, <1>2 DEF PutUp
  <2>3. Backend = "postgres" => seen[u].status \notin Terminal
    BY <2>2 DEF UpdateWrite, OverwriteRow, Markable
  <2>4. Backend = "postgres" => j \in Drafts
    BY <1>0, <2>3 DEF Drafts, Writing
  <2>. QED BY <1>0, <1>1, <1>2, <2>1, <2>4, TurnRefines, DraftsEnd
<1>3. CASE ~(PutUp(j, s) /\ s # status[j])
  <2>1. status' = status /\ gen' = gen
    BY <1>0, <1>3 DEF UpdateWrite, OverwriteRow, PutUp
  <2>. QED BY <1>1, <2>1, QuietRefines, DraftsEnd
<1>. QED BY <1>2, <1>3

LEMMA RefReclaim ==
  ASSUME TypeInv, TypeInv', NEW s \in Beats, Reclaim(s) PROVE Contract!Next
<1>1. PICK e \in todo[s] : Reclaim(s)!(e)
  BY DEF Reclaim
<1>2. e[1] \in Jobs /\ SameClaims /\ NoNewClaim /\ NoNewDraft
  BY <1>1, Kinds DEF SameClaims, NoNewClaim, NoNewDraft, ExecutingPc
<1>3. CASE Stale(e[1])
  <2>1. PutUp(e[1], "retrying") /\ status[e[1]] = "running"
    BY <1>1, <1>3 DEF Stale
  <2>. QED BY <1>2, <2>1, TurnRefines, DraftsEnd
<1>4. CASE ~Stale(e[1])
  BY <1>1, <1>2, <1>4, QuietRefines, DraftsEnd
<1>. QED BY <1>3, <1>4

\* A new job, of the scheduler or of a request.
LEMMA RefCreate ==
  ASSUME TypeInv, TypeInv', NEW a \in Actors, NEW j \in Jobs,
         (a \in Beats /\ Dispatch(a, j)) \/ (a \in Analysts /\ Submit(a, j))
  PROVE  Contract!Next
<1>1. SameClaims /\ NoNewDraft
  BY Kinds DEF Dispatch, Submit, SameClaims, NoNewDraft, ExecutingPc
<1>2. PutUp(j, "queued") /\ status[j] = "absent"
  BY DEF Dispatch, Submit
<1>. QED BY <1>1, <1>2, TurnRefines, DraftsEnd

HIDE DEF TypeInv, TypeOK, AtWork, Goto, Rest

LEMMA ContractInit == Init => Contract!Init
<1>. SUFFICES ASSUME Init PROVE Contract!Init
  OBVIOUS
<1>1. /\ \A j \in Jobs : Phase(j) = "none"
      /\ \A w \in Workers : Licence(w) = NoJob
      /\ Drafts = {}
  BY DEF Init, Phase, Licence, ExecutingPc, Drafts, Writing
<1>. QED BY <1>1 DEF Init, Contract!Init

LEMMA ContractStutter == UNCHANGED vars => UNCHANGED Contract!vars
  BY DEF vars, Contract!vars, Phase, Licence, Drafts, Writing

LEMMA ContractStep ==
  ASSUME ClaimInv, TypeInv', ControlInv, Next PROVE Contract!Next
<1>0. TypeInv
  BY DEF ClaimInv
<1>1. ASSUME NoNewDraft, NoNewClaim, status' = status, gen' = gen PROVE Contract!Next
  BY <1>0, <1>1, QuietRefines, DraftsEnd
<1>2. ASSUME NEW a \in Actors, MarkRead(a) \/ MarkWrite(a) PROVE Contract!Next
  BY <1>0, <1>2, RefRead, RefMarkWrite, KeepMarkRead, QuietRefines
<1>3. ASSUME NEW w \in Workers, WorkerStep(w) \/ ScanRetryable(w) \/ WorkerCrash(w)
               \/ HardTimeLimit(w)
      PROVE  Contract!Next
  <2>1. CASE Receive(w)
    BY <1>0, <1>1, <2>1, RefReceive, KeepReceive
  <2>2. CASE ReadJob(w)
    BY <1>0, <1>1, <2>2, RefReadJob, KeepReadJob
  <2>3. CASE CheckLimits(w)
    BY <1>0, <1>1, <2>3, RefCheckLimits, KeepCheckLimits
  <2>4. CASE Unclaimed(w)
    BY <1>0, <1>1, <2>4, RefUnclaimed, KeepUnclaimed
  <2>5. CASE \/ Preflight(w) \/ StartScan(w) \/ ScanSucceeds(w) \/ SaveResult(w)
             \/ SaveFindings(w) \/ ScanFails(w) \/ ScanRetryable(w)
    BY <1>0, <1>1, <2>5, RefExecute, KeepPreflight, KeepStartScan, KeepScanSucceeds,
       KeepSaveResult, KeepSaveFindings, KeepScanFails, KeepScanRetryable
  <2>6. CASE \/ FinishCompleted(w) \/ FinishFailed(w) \/ FinishRetrying(w) \/ AckRetried(w)
             \/ WorkerCrash(w) \/ HardTimeLimit(w)
    BY <1>0, <1>1, <2>6, RefFinish, KeepFinishCompleted, KeepFinishFailed,
       KeepFinishRetrying, KeepAckRetried, KeepWorkerCrash, KeepHardTimeLimit
  <2>. QED BY <1>0, <1>2, <1>3, <2>1, <2>2, <2>3, <2>4, <2>5, <2>6, RefClaim DEF WorkerStep
<1>4. ASSUME NEW s \in Beats, BeatStep(s) \/ BeatCrash(s) \/ \E j \in Jobs : Dispatch(s, j)
      PROVE  Contract!Next
  <2>1. CASE FindStale(s) \/ SendMaintenance(s) \/ GiveUp(s) \/ FinishGiveUp(s) \/ BeatCrash(s)
    BY <1>0, <1>1, <2>1, RefBeats, KeepFindStale, KeepSendMaintenance, KeepGiveUp,
       KeepFinishGiveUp, KeepBeatCrash
  <2>. QED BY <1>0, <1>2, <1>4, <2>1, RefReclaim, RefCreate DEF BeatStep
<1>5. ASSUME NEW u \in Analysts, AnalystStep(u) \/ Request(u) \/ WebCrash(u)
      PROVE  Contract!Next
  <2>1. CASE \/ SendTask(u) \/ FinishCancel(u) \/ Rescan(u) \/ WebCrash(u)
             \/ \E j \in Jobs : CancelRequest(u, j) \/ RetryRequest(u, j)
    BY <1>0, <1>1, <2>1, RefRequests, KeepSendTask, KeepFinishCancel, KeepRescan,
       KeepWebCrash, KeepCancelRequest, KeepRetryRequest
  <2>2. CASE UpdateRead(u)
    BY <1>0, <2>2, RefRead, KeepUpdateRead, QuietRefines
  <2>3. CASE Revoke(u)
    BY <1>0, <1>1, <2>3, RefRevoke, KeepRevoke
  <2>. QED BY <1>0, <1>2, <1>5, <2>1, <2>2, <2>3, RefUpdateWrite, RefCreate
           DEF AnalystStep, Request
<1>6. ASSUME NEW j \in Jobs, Age(j) PROVE Contract!Next
  BY <1>1, <1>6, KeepAge DEF Age, NoNewDraft
<1>. QED BY <1>3, <1>4, <1>5, <1>6 DEF Next, Fault

\* The system implements AbstractJob, for every number of workers, requests and sweeps and
\* on either backend: whatever is delivered again, published twice, revoked, swept or
\* retried, a job is run on a licence won while it waited, one for each time it is put up,
\* and, on PostgreSQL, leaves what is over only by a transaction that began before.
THEOREM ContractKept == Spec => JobKeepsContract
<1>1. Init => ClaimInv /\ ControlInv /\ Contract!Init
  BY TypeInit, ControlInit, ContractInit
     DEF Init, ClaimInv, ClaimsBehind, UniqueClaim, Executing, ExecutingPc
<1>2. ASSUME ClaimInv, ControlInv, [Next]_vars
      PROVE  ClaimInv' /\ ControlInv' /\ [Contract!Next]_Contract!vars
  <2>1. ClaimInv' /\ TypeInv /\ TypeInv'
    BY <1>2, ClaimStep DEF ClaimInv
  <2>2. ControlInv'
    BY <1>2, <2>1, ControlStep
  <2>. QED BY <1>2, <2>1, <2>2, ContractStep, ContractStutter
<1>. QED BY <1>1, <1>2, PTL DEF Spec, JobKeepsContract, Contract!Spec

-----------------------------------------------------------------------------
(* ScanMatchesJob speaks of a job nobody works on; what leads there is that  *)
(* the one actor at work on an undisturbed job finds it open until its own   *)
(* mark, and saves the scan accordingly after it.  NeverForsaken names too   *)
(* many actors to be inductive: the ones that bring a job further are its    *)
(* Keepers.  A step is looked at through what its actor does to one job.     *)

\* The one at work finds the job open until its own mark; what it marked completed has its
\* results, and what it has just marked is what it will save.
InStep(a, j) ==
  Holder(a, j) =>
    /\ ~Marking(a, j) => status[j] \notin Terminal
    /\ cur[a] = j /\ pc[a] = "write" => seen[a].status \notin Terminal
    /\ cur[a] = j /\ (pc[a] = "findings" \/ goal[a] = "completed") => scan[j] = "completed"
    /\ Marking(a, j) /\ status[j] \in Terminal =>
         goal[a] # "retrying" /\ (goal[a] = "completed" <=> status[j] = "completed")

RowsAgree(j) ==
  /\ \A a, b \in Actors : Holder(a, j) /\ Holder(b, j) => a = b
  /\ \A a \in Actors : InStep(a, j)
  /\ status[j] \in Terminal /\ (\A a \in Actors : ~Marking(a, j)) => Matches(j)

\* A copy of a message is in the queue.
Queued(j) == \E m \in Message : broker[m] > 0 /\ jobOf[m[1]] = j

\* Who has the job's next message, will publish it, or is going to mark the job.
Keeper(a, j) ==
  /\ cur[a] = j
  /\ \/ a \in Workers /\ (pc[a] \in {"read", "asset", "tenant", "global", "claim", "unclaimed"}
                          \/ (pc[a] = "marked" /\ goal[a] = "retrying"))
     \/ a \in Analysts /\ (pc[a] \in {"send", "rescan", "mark"}
                           \/ (pc[a] = "write" /\ seen[a].status \notin Terminal))
     \/ a \in Beats /\ pc[a] = "send"

\* A waiting job has a message, or somebody who publishes one or ends the waiting.
Brought(j) == status[j] \in Claimable => Queued(j) \/ \E a \in Actors : Keeper(a, j)

\* What an actor that does not move has in front of it.
Still(b) ==
  /\ cur'[b] = cur[b] /\ pc'[b] = pc[b] /\ seen'[b] = seen[b] /\ goal'[b] = goal[b]
  /\ b \in Beats => todo'[b] = todo[b]

\* The job's rows are left alone.
SameRows(j) == status'[j] = status[j] /\ scan'[j] = scan[j]

\* The actor leaves its job and scan such that the two agree once it is done.
Agrees(a, j) ==
  /\ \/ Holder(a, j) \/ status[j] = "absent"
     \/ (scan'[j] = scan[j] /\ (status'[j] = status[j] \/ status'[j] \notin Terminal))
  /\ InStep(a, j)'
  /\ status'[j] \in Terminal /\ ~Marking(a, j)' => Matches(j)' \/ (~Marking(a, j) /\ SameRows(j))

\* The actor does not lose the message of a job, nor leave it waiting without one.
Brings(a, j) ==
  /\ Queued(j) => Queued(j)' \/ Keeper(a, j)'
  /\ status'[j] \in Claimable =>
       \/ Keeper(a, j)' \/ Queued(j)'
       \/ status[j] \in Claimable /\ ~Keeper(a, j)

\* Nothing that disturbs the job, or by which it is forsaken, happens in the step.
Calm(j) == ~(Contended(j)' \/ TooLate(j) \/ FailedLate(j)' \/ CutShort(j))

Tended(j) == ~(GivenUp(j) \/ Unsent(j) \/ HalfCancelled(j) \/ PutBack(j))

\* A step of one actor, seen from one job.
Moves(a, j) ==
  /\ \A b \in Actors \ {a} : Still(b)
  /\ RowsAgree(j) /\ Calm(j) => Agrees(a, j)
  /\ Tended(j) => Brings(a, j)

LEMMA Spent ==
  ASSUME TypeInv, NEW e \in Event, Spend(e) PROVE budget' # budget
  BY DEF Spend, TypeInv, TypeOK

LEMMA OneHolder ==
  ASSUME NEW j \in Jobs
  PROVE  (~Contended(j))' => (\A a, b \in Actors : Holder(a, j) /\ Holder(b, j) => a = b)'
<1>1. ASSUME NEW a \in Actors, Holder(a, j)' PROVE a \in Holders(j)'
  BY <1>1 DEF Holder, Holders
<1>. QED BY <1>1 DEF Contended

LEMMA MovesAgree ==
  ASSUME ControlInv, NEW j \in Jobs, NEW a \in Actors, Moves(a, j), RowsAgree(j), Calm(j)
  PROVE  RowsAgree(j)'
<1>1. (\A x, y \in Actors : Holder(x, j) /\ Holder(y, j) => x = y)'
  BY OneHolder DEF Calm
<1>2. Agrees(a, j)
  BY DEF Moves
<1>3. ASSUME NEW b \in Actors \ {a}
      PROVE  (Holder(b, j)' <=> Holder(b, j)) /\ (Marking(b, j)' <=> Marking(b, j))
  BY DEF Moves, Still, Holder, Marking, Executing, ExecutingPc
<1>4. ASSUME NEW b \in Actors \ {a} PROVE InStep(b, j)'
  <2>1. InStep(b, j) /\ (Holder(b, j) => ~Holder(a, j))
    BY DEF RowsAgree
  <2>3. status[j] = "absent" => ~Holder(b, j)
    BY AbsentJob DEF Holder, Executing
  <2>2. Still(b)
    BY DEF Moves
  <2>. QED BY <1>2, <1>3, <2>1, <2>2, <2>3 DEF InStep, Agrees, Still
<1>5. ASSUME status'[j] \in Terminal, \A b \in Actors : ~Marking(b, j)' PROVE Matches(j)'
  BY <1>2, <1>3, <1>5 DEF Agrees, SameRows, RowsAgree, Matches
<1>. QED BY <1>1, <1>2, <1>4, <1>5 DEF RowsAgree, Agrees

LEMMA MovesBring ==
  ASSUME NEW j \in Jobs, NEW a \in Actors, Moves(a, j), Brought(j), Tended(j)
  PROVE  Brought(j)'
<1>1. Brings(a, j)
  BY DEF Moves
<1>2. ASSUME NEW b \in Actors \ {a}, Keeper(b, j) PROVE Keeper(b, j)'
  BY <1>2 DEF Moves, Still, Keeper
<1>. QED BY <1>1, <1>2 DEF Brings, Brought

LEMMA QueueSame ==
  ASSUME NEW j \in Jobs, broker' = broker, jobOf' = jobOf
  PROVE  Queued(j)' <=> Queued(j)
  BY DEF Queued

LEMMA QueueAdd ==
  ASSUME TypeInv, NEW j \in Jobs, NEW m \in Message, broker' = [broker EXCEPT ![m] = @ + 1],
         jobOf' = jobOf
  PROVE  /\ Queued(j) => Queued(j)'
         /\ jobOf[m[1]] = j => Queued(j)'
<1>1. \A n \in Message : broker[n] > 0 => broker'[n] > 0
  BY DEF TypeInv, TypeOK
<1>2. broker'[m] > 0
  BY DEF TypeInv, TypeOK
<1>. QED BY <1>1, <1>2 DEF Queued

LEMMA QueuePublish ==
  ASSUME TypeInv, NEW j \in Jobs, NEW t \in Tasks, NEW k \in Jobs, Publish(t, k)
  PROVE  /\ Queued(j) => Queued(j)'
         /\ k = j => Queued(j)'
<1>. DEFINE m == <<t, 0>>
<1>1. m \in Message /\ m[1] = t
  BY Limits
<1>2. /\ jobOf' = [jobOf EXCEPT ![t] = k] /\ broker' = [broker EXCEPT ![m] = @ + 1]
      /\ jobOf[t] = NoJob
  BY DEF Publish
<1>. HIDE DEF m
<1>3. \A n \in Message : broker[n] > 0 => broker'[n] > 0 /\ jobOf[n[1]] \in Jobs
  BY <1>2 DEF TypeInv, TypeOK, Delivered
<1>4. broker'[m] > 0
  BY <1>1, <1>2 DEF TypeInv, TypeOK
<1>5. jobOf'[t] = k /\ \A n \in Message : n[1] \in Tasks
  BY <1>2 DEF TypeInv, TypeOK
<1>6. \A x \in Tasks : jobOf[x] \in Jobs => jobOf'[x] = jobOf[x]
  BY <1>2, Kinds DEF TypeInv, TypeOK
<1>7. Queued(j) => Queued(j)'
  BY <1>3, <1>5, <1>6 DEF Queued
<1>8. k = j => Queued(j)'
  BY <1>1, <1>4, <1>5 DEF Queued
<1>. QED BY <1>7, <1>8

\* A task that comes back later has published its next message, or is given up.
LEMMA RetryBrings ==
  ASSUME TypeInv, ControlInv, NEW w \in Workers, Retry(w), pc[w] # "idle", jobOf' = jobOf, NEW j
         \in Jobs
  PROVE  \/ Ack(w) /\ broker' = broker
         \/ /\ pc' = [pc EXCEPT ![w] = "republished"] /\ goal' = [goal EXCEPT ![w] = "none"]
            /\ UNCHANGED <<cur, seen, held>>
            /\ Queued(j) => Queued(j)'
            /\ cur[w] = j => Queued(j)'
<1>1. CASE held[w][2] < MaxRetries
  <2>. DEFINE next == <<held[w][1], held[w][2] + 1>>
  <2>0. held[w] \in Message /\ jobOf[held[w][1]] = cur[w]
    BY DEF ControlInv, WorkersAt
  <2>1. next \in Message /\ next[1] = held[w][1]
    BY <1>1, <2>0, Limits
  <2>2. broker' = [broker EXCEPT ![next] = @ + 1] /\ pc' = [pc EXCEPT ![w] = "republished"]
    BY <1>1 DEF Retry
  <2>3. goal' = [goal EXCEPT ![w] = "none"] /\ UNCHANGED <<cur, seen, held>>
    BY <1>1 DEF Retry
  <2>. HIDE DEF next
  <2>4. (Queued(j) => Queued(j)') /\ (jobOf[next[1]] = j => Queued(j)')
    BY <2>1, <2>2, QueueAdd
  <2>. QED BY <2>0, <2>1, <2>2, <2>3, <2>4
<1>2. CASE ~(held[w][2] < MaxRetries)
  BY <1>2 DEF Retry
<1>. QED BY <1>1, <1>2

USE DEF TypeInv, TypeOK, AtWork, Delivered, Goto, Rest, WorkerPc, AnalystPc, BeatPc

\* Every step but a revocation is a move of one actor.
LEMMA RowsReceive ==
  ASSUME TypeInv, ControlInv, TypeInv', ControlInv', NEW j \in Jobs, NEW w \in Workers, Receive(w)
  PROVE  Moves(w, j)
<1>. USE Kinds DEF Receive
<1>1. \A b \in Actors \ {w} : Still(b)
  BY DEF Still
<1>2. RowsAgree(j) /\ Calm(j) => Agrees(w, j)
  BY DEF RowsAgree, Agrees, InStep, Holder, Marking, Executing, ExecutingPc, SameRows, Matches,
     ControlInv, WorkersAt, AnalystsAt, BeatsAt
<1>3. Tended(j) => Brings(w, j)
  <2>1. PICK m \in Message : Receive(w)!(m)
    OBVIOUS
  <2>2. /\ cur'[w] = jobOf[m[1]] /\ pc'[w] = "read" /\ pc[w] = "idle"
        /\ \A n \in Message \ {m} : broker'[n] = broker[n]
        /\ UNCHANGED <<status, jobOf>>
    BY <2>1
  <2>3. Queued(j) => Queued(j)' \/ Keeper(w, j)'
    BY <2>2 DEF Queued, Keeper
  <2>4. ~Keeper(w, j)
    BY <2>2, Kinds DEF Keeper
  <2>. QED BY <2>2, <2>3, <2>4 DEF Brings
<1>. QED BY <1>1, <1>2, <1>3 DEF Moves

LEMMA RowsReadJob ==
  ASSUME TypeInv, ControlInv, TypeInv', ControlInv', NEW j \in Jobs, NEW w \in Workers, ReadJob(w)
  PROVE  Moves(w, j)
<1>. USE Kinds DEF ReadJob, Ack
<1>1. \A b \in Actors \ {w} : Still(b)
  BY DEF Still
<1>2. RowsAgree(j) /\ Calm(j) => Agrees(w, j)
  BY DEF RowsAgree, Agrees, InStep, Holder, Marking, Executing, ExecutingPc, SameRows, Matches,
     ControlInv, WorkersAt, AnalystsAt, BeatsAt
<1>3. Tended(j) => Brings(w, j)
  BY QueueSame DEF Brings, Keeper, ControlInv, WorkersAt, AnalystsAt, BeatsAt
<1>. QED BY <1>1, <1>2, <1>3 DEF Moves

LEMMA RowsCheckLimits ==
  ASSUME TypeInv, ControlInv, TypeInv', ControlInv', NEW j \in Jobs, NEW w \in Workers,
         CheckLimits(w)
  PROVE  Moves(w, j)
<1>. USE Kinds DEF CheckLimits, CheckLimit, Retry, Ack
<1>1. \A b \in Actors \ {w} : Still(b)
  BY DEF Still
<1>2. RowsAgree(j) /\ Calm(j) => Agrees(w, j)
  BY DEF RowsAgree, Agrees, InStep, Holder, Marking, Executing, ExecutingPc, SameRows, Matches,
     ControlInv, WorkersAt, AnalystsAt, BeatsAt
<1>3. Tended(j) => Brings(w, j)
  <2>1. CASE Retry(w)
    <3>1. UNCHANGED <<status, jobOf>> /\ pc[w] # "idle"
      OBVIOUS
    <3>2. CASE Ack(w) /\ broker' = broker
      <4>1. Tended(j) /\ Keeper(w, j) /\ status[j] \in Claimable => GivenUp(j)
        BY <3>2, Kinds DEF GivenUp, Keeper
      <4>. QED BY <3>1, <3>2, <4>1, QueueSame DEF Brings, Tended
    <3>3. CASE ~(Ack(w) /\ broker' = broker)
      <4>1. (Queued(j) => Queued(j)') /\ (cur[w] = j => Queued(j)')
        BY <2>1, <3>1, <3>3, RetryBrings
      <4>. QED BY <3>1, <4>1 DEF Brings, Keeper
    <3>. QED BY <3>2, <3>3
  <2>2. CASE ~Retry(w)
    <3>1. PICK next \in {"tenant", "global", "claim"} : pc' = [pc EXCEPT ![w] = next]
      BY <2>2
    <3>2. UNCHANGED <<status, cur, broker, jobOf>> /\ pc'[w] = next
      BY <2>2, <3>1
    <3>. QED BY <3>2, QueueSame DEF Brings, Keeper
  <2>. QED BY <2>1, <2>2
<1>. QED BY <1>1, <1>2, <1>3 DEF Moves

LEMMA RowsClaim ==
  ASSUME TypeInv, ControlInv, TypeInv', ControlInv', NEW j \in Jobs, NEW w \in Workers, Claim(w)
  PROVE  Moves(w, j)
<1>. USE Kinds DEF Claim, CanClaim
<1>1. \A b \in Actors \ {w} : Still(b)
  BY DEF Still
<1>2. RowsAgree(j) /\ Calm(j) => Agrees(w, j)
  BY DEF RowsAgree, Agrees, InStep, Holder, Marking, Executing, ExecutingPc, SameRows, Matches,
     ControlInv, WorkersAt, AnalystsAt, BeatsAt
<1>3. Tended(j) => Brings(w, j)
  BY QueueSame DEF Brings, Keeper, ControlInv, WorkersAt, AnalystsAt, BeatsAt
<1>. QED BY <1>1, <1>2, <1>3 DEF Moves

LEMMA RowsUnclaimed ==
  ASSUME TypeInv, ControlInv, TypeInv', ControlInv', NEW j \in Jobs, NEW w \in Workers,
         Unclaimed(w)
  PROVE  Moves(w, j)
<1>. USE Kinds DEF Unclaimed, Retry, Ack
<1>1. \A b \in Actors \ {w} : Still(b)
  BY DEF Still
<1>2. RowsAgree(j) /\ Calm(j) => Agrees(w, j)
  BY DEF RowsAgree, Agrees, InStep, Holder, Marking, Executing, ExecutingPc, SameRows, Matches,
     ControlInv, WorkersAt, AnalystsAt, BeatsAt
<1>3. Tended(j) => Brings(w, j)
  <2>1. CASE Retry(w)
    <3>1. UNCHANGED <<status, jobOf>> /\ pc[w] # "idle"
      OBVIOUS
    <3>2. CASE Ack(w) /\ broker' = broker
      <4>1. Tended(j) /\ Keeper(w, j) /\ status[j] \in Claimable => GivenUp(j)
        BY <3>2, Kinds DEF GivenUp, Keeper
      <4>. QED BY <3>1, <3>2, <4>1, QueueSame DEF Brings, Tended
    <3>3. CASE ~(Ack(w) /\ broker' = broker)
      <4>1. (Queued(j) => Queued(j)') /\ (cur[w] = j => Queued(j)')
        BY <2>1, <3>1, <3>3, RetryBrings
      <4>. QED BY <3>1, <4>1 DEF Brings, Keeper
    <3>. QED BY <3>2, <3>3
  <2>2. CASE status[cur[w]] \notin Claimable
    BY <2>2, QueueSame DEF Brings, Keeper
  <2>. QED BY <2>1, <2>2
<1>. QED BY <1>1, <1>2, <1>3 DEF Moves

LEMMA RowsPreflight ==
  ASSUME TypeInv, ControlInv, TypeInv', ControlInv', NEW j \in Jobs, NEW w \in Workers,
         Preflight(w)
  PROVE  Moves(w, j)
<1>. USE Kinds DEF Preflight
<1>1. \A b \in Actors \ {w} : Still(b)
  BY DEF Still
<1>2. RowsAgree(j) /\ Calm(j) => Agrees(w, j)
  BY DEF RowsAgree, Agrees, InStep, Holder, Marking, Executing, ExecutingPc, SameRows, Matches,
     ControlInv, WorkersAt, AnalystsAt, BeatsAt
<1>3. Tended(j) => Brings(w, j)
  BY QueueSame DEF Brings, Keeper, ControlInv, WorkersAt, AnalystsAt, BeatsAt
<1>. QED BY <1>1, <1>2, <1>3 DEF Moves

LEMMA RowsStartScan ==
  ASSUME TypeInv, ControlInv, TypeInv', ControlInv', NEW j \in Jobs, NEW w \in Workers,
         StartScan(w)
  PROVE  Moves(w, j)
<1>. USE Kinds DEF StartScan
<1>1. \A b \in Actors \ {w} : Still(b)
  BY DEF Still
<1>2. RowsAgree(j) /\ Calm(j) => Agrees(w, j)
  BY DEF RowsAgree, Agrees, InStep, Holder, Marking, Executing, ExecutingPc, SameRows, Matches,
     ControlInv, WorkersAt, AnalystsAt, BeatsAt
<1>3. Tended(j) => Brings(w, j)
  BY QueueSame DEF Brings, Keeper, ControlInv, WorkersAt, AnalystsAt, BeatsAt
<1>. QED BY <1>1, <1>2, <1>3 DEF Moves

LEMMA RowsScanSucceeds ==
  ASSUME TypeInv, ControlInv, TypeInv', ControlInv', NEW j \in Jobs, NEW w \in Workers,
         ScanSucceeds(w)
  PROVE  Moves(w, j)
<1>. USE Kinds DEF ScanSucceeds
<1>1. \A b \in Actors \ {w} : Still(b)
  BY DEF Still
<1>2. RowsAgree(j) /\ Calm(j) => Agrees(w, j)
  BY DEF RowsAgree, Agrees, InStep, Holder, Marking, Executing, ExecutingPc, SameRows, Matches,
     ControlInv, WorkersAt, AnalystsAt, BeatsAt
<1>3. Tended(j) => Brings(w, j)
  BY QueueSame DEF Brings, Keeper, ControlInv, WorkersAt, AnalystsAt, BeatsAt
<1>. QED BY <1>1, <1>2, <1>3 DEF Moves

LEMMA RowsSaveResult ==
  ASSUME TypeInv, ControlInv, TypeInv', ControlInv', NEW j \in Jobs, NEW w \in Workers,
         SaveResult(w)
  PROVE  Moves(w, j)
<1>. USE Kinds DEF SaveResult
<1>1. \A b \in Actors \ {w} : Still(b)
  BY DEF Still
<1>2. RowsAgree(j) /\ Calm(j) => Agrees(w, j)
  BY DEF RowsAgree, Agrees, InStep, Holder, Marking, Executing, ExecutingPc, SameRows, Matches,
     ControlInv, WorkersAt, AnalystsAt, BeatsAt
<1>3. Tended(j) => Brings(w, j)
  BY QueueSame DEF Brings, Keeper, ControlInv, WorkersAt, AnalystsAt, BeatsAt
<1>. QED BY <1>1, <1>2, <1>3 DEF Moves

LEMMA RowsSaveFindings ==
  ASSUME TypeInv, ControlInv, TypeInv', ControlInv', NEW j \in Jobs, NEW w \in Workers,
         SaveFindings(w)
  PROVE  Moves(w, j)
<1>. USE Kinds DEF SaveFindings
<1>1. \A b \in Actors \ {w} : Still(b)
  BY DEF Still
<1>2. RowsAgree(j) /\ Calm(j) => Agrees(w, j)
  BY DEF RowsAgree, Agrees, InStep, Holder, Marking, Executing, ExecutingPc, SameRows, Matches,
     ControlInv, WorkersAt, AnalystsAt, BeatsAt
<1>3. Tended(j) => Brings(w, j)
  BY QueueSame DEF Brings, Keeper, ControlInv, WorkersAt, AnalystsAt, BeatsAt
<1>. QED BY <1>1, <1>2, <1>3 DEF Moves

LEMMA RowsScanFails ==
  ASSUME TypeInv, ControlInv, TypeInv', ControlInv', NEW j \in Jobs, NEW w \in Workers,
         ScanFails(w)
  PROVE  Moves(w, j)
<1>. USE Kinds DEF ScanFails, Failure
<1>1. \A b \in Actors \ {w} : Still(b)
  BY DEF Still
<1>2. RowsAgree(j) /\ Calm(j) => Agrees(w, j)
  <2>1. goal'[w] \in Failure /\ pc'[w] = "mark" /\ UNCHANGED <<status, scan, cur>>
    OBVIOUS
  <2>2. Calm(j) /\ cur[w] = j => status[j] # "completed"
    BY <2>1 DEF Calm, FailedLate, Executing, ExecutingPc
  <2>3. pc[w] \in ExecutingPc
    BY DEF ControlInv, WorkersAt, ExecutingPc
  <2>. QED BY <2>1, <2>2, <2>3 DEF RowsAgree, Agrees, InStep, Holder, Marking, Executing,
         ExecutingPc, SameRows, Matches
<1>3. Tended(j) => Brings(w, j)
  BY QueueSame DEF Brings, Keeper, ControlInv, WorkersAt, AnalystsAt, BeatsAt
<1>. QED BY <1>1, <1>2, <1>3 DEF Moves

LEMMA RowsScanRetryable ==
  ASSUME TypeInv, ControlInv, TypeInv', ControlInv', NEW j \in Jobs, NEW w \in Workers,
         ScanRetryable(w)
  PROVE  Moves(w, j)
<1>. USE Kinds DEF ScanRetryable
<1>1. \A b \in Actors \ {w} : Still(b)
  BY DEF Still
<1>2. RowsAgree(j) /\ Calm(j) => Agrees(w, j)
  BY DEF RowsAgree, Agrees, InStep, Holder, Marking, Executing, ExecutingPc, SameRows, Matches,
     ControlInv, WorkersAt, AnalystsAt, BeatsAt
<1>3. Tended(j) => Brings(w, j)
  BY QueueSame DEF Brings, Keeper, ControlInv, WorkersAt, AnalystsAt, BeatsAt
<1>. QED BY <1>1, <1>2, <1>3 DEF Moves

LEMMA RowsFinishCompleted ==
  ASSUME TypeInv, ControlInv, TypeInv', ControlInv', NEW j \in Jobs, NEW w \in Workers,
         FinishCompleted(w)
  PROVE  Moves(w, j)
<1>. USE Kinds DEF FinishCompleted, Ack
<1>1. \A b \in Actors \ {w} : Still(b)
  BY DEF Still
<1>2. RowsAgree(j) /\ Calm(j) => Agrees(w, j)
  BY DEF RowsAgree, Agrees, InStep, Holder, Marking, Executing, ExecutingPc, SameRows, Matches,
     ControlInv, WorkersAt, AnalystsAt, BeatsAt
<1>3. Tended(j) => Brings(w, j)
  BY QueueSame DEF Brings, Keeper, ControlInv, WorkersAt, AnalystsAt, BeatsAt
<1>. QED BY <1>1, <1>2, <1>3 DEF Moves

LEMMA RowsFinishFailed ==
  ASSUME TypeInv, ControlInv, TypeInv', ControlInv', NEW j \in Jobs, NEW w \in Workers,
         FinishFailed(w)
  PROVE  Moves(w, j)
<1>. USE Kinds DEF FinishFailed, SaveScanFailed, Ack
<1>1. \A b \in Actors \ {w} : Still(b)
  BY DEF Still
<1>2. RowsAgree(j) /\ Calm(j) => Agrees(w, j)
  BY DEF RowsAgree, Agrees, InStep, Holder, Marking, Executing, ExecutingPc, SameRows, Matches,
     ControlInv, WorkersAt, AnalystsAt, BeatsAt
<1>3. Tended(j) => Brings(w, j)
  BY QueueSame DEF Brings, Keeper, ControlInv, WorkersAt, AnalystsAt, BeatsAt
<1>. QED BY <1>1, <1>2, <1>3 DEF Moves

LEMMA RowsFinishRetrying ==
  ASSUME TypeInv, ControlInv, TypeInv', ControlInv', NEW j \in Jobs, NEW w \in Workers,
         FinishRetrying(w)
  PROVE  Moves(w, j)
<1>. USE Kinds DEF FinishRetrying, Retry, Ack
<1>1. \A b \in Actors \ {w} : Still(b)
  BY DEF Still
<1>2. RowsAgree(j) /\ Calm(j) => Agrees(w, j)
  BY DEF RowsAgree, Agrees, InStep, Holder, Marking, Executing, ExecutingPc, SameRows, Matches,
     ControlInv, WorkersAt, AnalystsAt, BeatsAt
<1>3. Tended(j) => Brings(w, j)
  <2>1. CASE Retry(w)
    <3>1. UNCHANGED <<status, jobOf>> /\ pc[w] # "idle"
      OBVIOUS
    <3>2. CASE Ack(w) /\ broker' = broker
      <4>1. Tended(j) /\ Keeper(w, j) /\ status[j] \in Claimable => GivenUp(j)
        BY <3>2, Kinds DEF GivenUp, Keeper
      <4>. QED BY <3>1, <3>2, <4>1, QueueSame DEF Brings, Tended
    <3>3. CASE ~(Ack(w) /\ broker' = broker)
      <4>1. (Queued(j) => Queued(j)') /\ (cur[w] = j => Queued(j)')
        BY <2>1, <3>1, <3>3, RetryBrings
      <4>. QED BY <3>1, <4>1 DEF Brings, Keeper
    <3>. QED BY <3>2, <3>3
  <2>. QED BY <2>1
<1>. QED BY <1>1, <1>2, <1>3 DEF Moves

LEMMA RowsAckRetried ==
  ASSUME TypeInv, ControlInv, TypeInv', ControlInv', NEW j \in Jobs, NEW w \in Workers,
         AckRetried(w)
  PROVE  Moves(w, j)
<1>. USE Kinds DEF AckRetried, Ack
<1>1. \A b \in Actors \ {w} : Still(b)
  BY DEF Still
<1>2. RowsAgree(j) /\ Calm(j) => Agrees(w, j)
  BY DEF RowsAgree, Agrees, InStep, Holder, Marking, Executing, ExecutingPc, SameRows, Matches,
     ControlInv, WorkersAt, AnalystsAt, BeatsAt
<1>3. Tended(j) => Brings(w, j)
  BY QueueSame DEF Brings, Keeper, ControlInv, WorkersAt, AnalystsAt, BeatsAt
<1>. QED BY <1>1, <1>2, <1>3 DEF Moves

LEMMA RowsWorkerCrash ==
  ASSUME TypeInv, ControlInv, TypeInv', ControlInv', NEW j \in Jobs, NEW w \in Workers,
         WorkerCrash(w)
  PROVE  Moves(w, j)
<1>. USE Kinds DEF WorkerCrash
<1>1. \A b \in Actors \ {w} : Still(b)
  BY DEF Still
<1>2. RowsAgree(j) /\ Calm(j) => Agrees(w, j)
  <2>1. "crash" \in Event
    BY DEF Event
  <2>2. budget' # budget
    BY <2>1, Spent
  <2>3. Calm(j) /\ cur[w] = j /\ pc[w] = "marked" => goal[w] = "completed"
    BY <2>2 DEF Calm, CutShort
  <2>. QED BY <2>3 DEF RowsAgree, Agrees, InStep, Holder, Marking, Executing, ExecutingPc,
         SameRows, Matches, ControlInv, WorkersAt, AnalystsAt, BeatsAt
<1>3. Tended(j) => Brings(w, j)
  <2>1. held[w] \in Message /\ jobOf[held[w][1]] = cur[w]
    BY DEF ControlInv, WorkersAt
  <2>2. broker' = [broker EXCEPT ![held[w]] = @ + 1] /\ UNCHANGED <<status, jobOf>>
    BY DEF Requeue
  <2>. HIDE DEF TypeInv, WorkerCrash
  <2>3. (Queued(j) => Queued(j)') /\ (cur[w] = j => Queued(j)')
    BY <2>1, <2>2, QueueAdd
  <2>. QED BY <2>2, <2>3 DEF Brings, Keeper
<1>. QED BY <1>1, <1>2, <1>3 DEF Moves

LEMMA RowsHardTimeLimit ==
  ASSUME TypeInv, ControlInv, TypeInv', ControlInv', NEW j \in Jobs, NEW w \in Workers,
         HardTimeLimit(w)
  PROVE  Moves(w, j)
<1>. USE Kinds DEF HardTimeLimit, Ack
<1>1. \A b \in Actors \ {w} : Still(b)
  BY DEF Still
<1>2. RowsAgree(j) /\ Calm(j) => Agrees(w, j)
  <2>1. "kill" \in Event
    BY DEF Event
  <2>2. budget' # budget
    BY <2>1, Spent
  <2>3. Calm(j) /\ cur[w] = j /\ pc[w] = "marked" => goal[w] = "completed"
    BY <2>2 DEF Calm, CutShort
  <2>. QED BY <2>3 DEF RowsAgree, Agrees, InStep, Holder, Marking, Executing, ExecutingPc,
         SameRows, Matches, ControlInv, WorkersAt, AnalystsAt, BeatsAt
<1>3. Tended(j) => Brings(w, j)
  <2>1. Ack(w) /\ pc[w] \in ExecutingPc /\ UNCHANGED <<status, broker, jobOf>>
    OBVIOUS
  <2>2. Tended(j) /\ status[j] \in Claimable => ~Keeper(w, j)
    <3>1. Keeper(w, j) => cur[w] = j /\ goal[w] = "retrying"
      BY <2>1, Kinds DEF Keeper, ExecutingPc
    <3>2. Keeper(w, j) /\ status[j] \in Claimable => GivenUp(j)
      BY <2>1, <3>1 DEF GivenUp
    <3>. QED BY <3>2 DEF Tended
  <2>. QED BY <2>1, <2>2, QueueSame DEF Brings
<1>. QED BY <1>1, <1>2, <1>3 DEF Moves

LEMMA RowsMarkRead ==
  ASSUME TypeInv, ControlInv, TypeInv', ControlInv', NEW j \in Jobs, NEW a \in Actors, MarkRead(a)
  PROVE  Moves(a, j)
<1>. USE Kinds DEF MarkRead
<1>1. \A b \in Actors \ {a} : Still(b)
  BY DEF Still
<1>2. RowsAgree(j) /\ Calm(j) => Agrees(a, j)
  <2>1. cur[a] = j => Holder(a, j) /\ ~Marking(a, j)
    BY DEF ControlInv, AnalystsAt, Holder, Marking, Executing, ExecutingPc
  <2>2. /\ pc[a] = "mark" /\ pc'[a] = "write" /\ UNCHANGED <<cur, goal, status, scan, todo>>
        /\ cur[a] = j => seen'[a].status = status[j]
    BY DEF Row
  <2>. HIDE DEF MarkRead, TypeInv, ControlInv
  <2>3. Holder(a, j)' <=> Holder(a, j)
    <3>1. pc[a] \in ExecutingPc /\ pc'[a] \in ExecutingPc
      BY <2>2 DEF ExecutingPc
    <3>2. goal' = goal /\ cur' = cur /\ todo' = todo
      BY <2>2
    <3>3. Executing(a, j)' <=> Executing(a, j)
      BY <3>1, <3>2 DEF Executing
    <3>4. (\E e \in todo[a] : e[1] = j)' <=> (\E e \in todo[a] : e[1] = j)
      BY <3>2
    <3>. QED BY <3>2, <3>3, <3>4 DEF Holder
  <2>. QED BY <2>1, <2>2, <2>3 DEF RowsAgree, Agrees, InStep, Marking, SameRows
<1>3. Tended(j) => Brings(a, j)
  <2>1. UNCHANGED <<cur, goal, status, broker, jobOf>> /\ pc[a] = "mark" /\ pc'[a] = "write"
    OBVIOUS
  <2>2. cur[a] = j => seen'[a].status = status[j]
    BY DEF Row
  <2>3. status[j] \in Claimable /\ Keeper(a, j) => Keeper(a, j)'
    BY <2>1, <2>2 DEF Keeper
  <2>. QED BY <2>1, <2>3, QueueSame DEF Brings
<1>. QED BY <1>1, <1>2, <1>3 DEF Moves

LEMMA RowsMarkWrite ==
  ASSUME TypeInv, ControlInv, TypeInv', ControlInv', NEW j \in Jobs, NEW a \in Actors,
         MarkWrite(a)
  PROVE  Moves(a, j)
<1>. USE Kinds DEF MarkWrite, PutUp, Overwrite, Marked
<1>1. \A b \in Actors \ {a} : Still(b)
  BY DEF Still
<1>2. RowsAgree(j) /\ Calm(j) => Agrees(a, j)
  BY DEF RowsAgree, Agrees, InStep, Holder, Marking, Executing, ExecutingPc, SameRows, Matches,
     ControlInv, WorkersAt, AnalystsAt, BeatsAt
<1>3. Tended(j) => Brings(a, j)
  <2>1. /\ UNCHANGED <<cur, goal, broker, jobOf>> /\ pc[a] = "write" /\ pc'[a] = "marked"
        /\ cur[a] \in Jobs
    OBVIOUS
  <2>2. CASE cur[a] # j
    BY <2>1, <2>2, QueueSame DEF Brings, Keeper
  <2>3. CASE cur[a] = j /\ goal[a] = "retrying"
    <3>1. a \in Workers
      BY <2>1, <2>3 DEF ControlInv, AnalystsAt, BeatsAt
    <3>. QED BY <2>1, <2>3, <3>1, QueueSame DEF Brings, Keeper
  <2>4. CASE cur[a] = j /\ goal[a] # "retrying" /\ Markable(seen[a])
    <3>1. goal[a] \in Terminal /\ goal[a] # seen[a].status
      BY <2>1, <2>4 DEF Markable, Marked
    <3>2. status'[j] = goal[a]
      BY <2>4, <3>1
    <3>. QED BY <2>1, <3>1, <3>2, QueueSame DEF Brings
  <2>5. CASE cur[a] = j /\ ~Markable(seen[a])
    <3>1. status' = status /\ ~Keeper(a, j)
      BY <2>1, <2>5 DEF Keeper, Markable
    <3>. QED BY <2>1, <3>1, QueueSame DEF Brings
  <2>. QED BY <2>2, <2>3, <2>4, <2>5
<1>. QED BY <1>1, <1>2, <1>3 DEF Moves

LEMMA RowsFindStale ==
  ASSUME TypeInv, ControlInv, TypeInv', ControlInv', NEW j \in Jobs, NEW s \in Beats, FindStale(s)
  PROVE  Moves(s, j)
<1>. USE Kinds DEF FindStale, Stale
<1>1. \A b \in Actors \ {s} : Still(b)
  BY DEF Still
<1>2. RowsAgree(j) /\ Calm(j) => Agrees(s, j)
  BY DEF RowsAgree, Agrees, InStep, Holder, Marking, Executing, ExecutingPc, SameRows, Matches,
     ControlInv, WorkersAt, AnalystsAt, BeatsAt
<1>3. Tended(j) => Brings(s, j)
  BY QueueSame DEF Brings, Keeper, ControlInv, WorkersAt, AnalystsAt, BeatsAt
<1>. QED BY <1>1, <1>2, <1>3 DEF Moves

LEMMA RowsReclaim ==
  ASSUME TypeInv, ControlInv, TypeInv', ControlInv', NEW j \in Jobs, NEW s \in Beats, Reclaim(s)
  PROVE  Moves(s, j)
<1>. USE Kinds DEF Reclaim, Stale, PutUp
<1>1. \A b \in Actors \ {s} : Still(b)
  BY DEF Still
<1>2. RowsAgree(j) /\ Calm(j) => Agrees(s, j)
  BY DEF RowsAgree, Agrees, InStep, Holder, Marking, Executing, ExecutingPc, SameRows, Matches,
     ControlInv, WorkersAt, AnalystsAt, BeatsAt
<1>3. Tended(j) => Brings(s, j)
  BY QueueSame DEF Brings, Keeper, ControlInv, WorkersAt, AnalystsAt, BeatsAt
<1>. QED BY <1>1, <1>2, <1>3 DEF Moves

LEMMA RowsDispatch ==
  ASSUME TypeInv, ControlInv, TypeInv', ControlInv', NEW j \in Jobs, NEW s \in Beats, NEW k \in
         Jobs, Dispatch(s, k)
  PROVE  Moves(s, j)
<1>. USE Kinds DEF Dispatch, PutUp
<1>1. \A b \in Actors \ {s} : Still(b)
  BY DEF Still
<1>2. RowsAgree(j) /\ Calm(j) => Agrees(s, j)
  <2>1. k = j => status[j] = "absent"
    OBVIOUS
  <2>2. CASE k = j
    <3>1. status'[j] = "queued" /\ pc'[s] = "send" /\ cur'[s] = j
      BY <2>2
    <3>2. goal'[s] = goal[s] /\ goal[s] # "completed"
      BY DEF ControlInv, AnalystsAt, BeatsAt
    <3>. QED BY <2>1, <2>2, <3>1, <3>2 DEF Agrees, InStep, Marking
  <2>3. CASE k # j
    <3>1. UNCHANGED <<status[j], scan[j]>> /\ cur'[s] # j /\ pc[s] = "idle" /\ todo'[s] = {}
      BY <2>3
    <3>2. cur[s] # j
      BY <3>1 DEF ControlInv
    <3>. QED BY <3>1, <3>2 DEF RowsAgree, Agrees, InStep, Holder, Marking, SameRows
  <2>. QED BY <2>2, <2>3
<1>3. Tended(j) => Brings(s, j)
  BY QueueSame DEF Brings, Keeper, ControlInv, WorkersAt, AnalystsAt, BeatsAt
<1>. QED BY <1>1, <1>2, <1>3 DEF Moves

LEMMA RowsSendMaintenance ==
  ASSUME TypeInv, ControlInv, TypeInv', ControlInv', NEW j \in Jobs, NEW s \in Beats,
         SendMaintenance(s)
  PROVE  Moves(s, j)
<1>. USE Kinds DEF SendMaintenance, Publish
<1>1. \A b \in Actors \ {s} : Still(b)
  BY DEF Still
<1>2. RowsAgree(j) /\ Calm(j) => Agrees(s, j)
  BY DEF RowsAgree, Agrees, InStep, Holder, Marking, Executing, ExecutingPc, SameRows, Matches,
     ControlInv, WorkersAt, AnalystsAt, BeatsAt
<1>3. Tended(j) => Brings(s, j)
  <2>1. PICK t \in Tasks : Publish(t, cur[s])
    OBVIOUS
  <2>2. cur[s] \in Jobs /\ status' = status
    OBVIOUS
  <2>. HIDE DEF TypeInv, Publish, SendMaintenance
  <2>3. (Queued(j) => Queued(j)') /\ (cur[s] = j => Queued(j)')
    BY <2>1, <2>2, QueuePublish
  <2>. QED BY <2>2, <2>3 DEF Brings, Keeper
<1>. QED BY <1>1, <1>2, <1>3 DEF Moves

LEMMA RowsGiveUp ==
  ASSUME TypeInv, ControlInv, TypeInv', ControlInv', NEW j \in Jobs, NEW s \in Beats, GiveUp(s)
  PROVE  Moves(s, j)
<1>. USE Kinds DEF GiveUp
<1>1. \A b \in Actors \ {s} : Still(b)
  BY DEF Still
<1>2. RowsAgree(j) /\ Calm(j) => Agrees(s, j)
  BY DEF RowsAgree, Agrees, InStep, Holder, Marking, Executing, ExecutingPc, SameRows, Matches,
     ControlInv, WorkersAt, AnalystsAt, BeatsAt
<1>3. Tended(j) => Brings(s, j)
  BY QueueSame DEF Brings, Keeper, ControlInv, WorkersAt, AnalystsAt, BeatsAt
<1>. QED BY <1>1, <1>2, <1>3 DEF Moves

LEMMA RowsFinishGiveUp ==
  ASSUME TypeInv, ControlInv, TypeInv', ControlInv', NEW j \in Jobs, NEW s \in Beats,
         FinishGiveUp(s)
  PROVE  Moves(s, j)
<1>. USE Kinds DEF FinishGiveUp, SaveScanFailed
<1>1. \A b \in Actors \ {s} : Still(b)
  BY DEF Still
<1>2. RowsAgree(j) /\ Calm(j) => Agrees(s, j)
  BY DEF RowsAgree, Agrees, InStep, Holder, Marking, Executing, ExecutingPc, SameRows, Matches,
     ControlInv, WorkersAt, AnalystsAt, BeatsAt
<1>3. Tended(j) => Brings(s, j)
  BY QueueSame DEF Brings, Keeper, ControlInv, WorkersAt, AnalystsAt, BeatsAt
<1>. QED BY <1>1, <1>2, <1>3 DEF Moves

LEMMA RowsBeatCrash ==
  ASSUME TypeInv, ControlInv, TypeInv', ControlInv', NEW j \in Jobs, NEW s \in Beats, BeatCrash(s)
  PROVE  Moves(s, j)
<1>. USE Kinds DEF BeatCrash
<1>1. \A b \in Actors \ {s} : Still(b)
  BY DEF Still
<1>2. RowsAgree(j) /\ Calm(j) => Agrees(s, j)
  <2>1. "beatcrash" \in Event
    BY DEF Event
  <2>2. budget' # budget
    BY <2>1, Spent
  <2>3. Calm(j) /\ cur[s] = j /\ pc[s] = "marked" => goal[s] = "completed"
    BY <2>2 DEF Calm, CutShort
  <2>. QED BY <2>3 DEF RowsAgree, Agrees, InStep, Holder, Marking, Executing, ExecutingPc,
         SameRows, Matches, ControlInv, WorkersAt, AnalystsAt, BeatsAt
<1>3. Tended(j) => Brings(s, j)
  <2>1. "beatcrash" \in Event
    BY DEF Event
  <2>2. budget' # budget
    BY <2>1, Spent
  <2>3. pc'[s] = "idle" /\ UNCHANGED <<status, broker, jobOf>>
    OBVIOUS
  <2>4. Tended(j) /\ Keeper(s, j) => FALSE
    <3>1. Keeper(s, j) => cur[s] = j /\ pc[s] = "send"
      BY Kinds DEF Keeper
    <3>2. Keeper(s, j) => Unsent(j)
      BY <2>2, <2>3, <3>1 DEF Unsent
    <3>. QED BY <3>2 DEF Tended
  <2>. QED BY <2>3, <2>4, QueueSame DEF Brings
<1>. QED BY <1>1, <1>2, <1>3 DEF Moves

LEMMA RowsSubmit ==
  ASSUME TypeInv, ControlInv, TypeInv', ControlInv', NEW j \in Jobs, NEW u \in Analysts, NEW k
         \in Jobs, Submit(u, k)
  PROVE  Moves(u, j)
<1>. USE Kinds DEF Submit, PutUp, NoCopy
<1>1. \A b \in Actors \ {u} : Still(b)
  BY DEF Still
<1>2. RowsAgree(j) /\ Calm(j) => Agrees(u, j)
  <2>1. k = j => status[j] = "absent"
    OBVIOUS
  <2>2. CASE k = j
    <3>1. status'[j] = "queued" /\ pc'[u] = "send" /\ cur'[u] = j
      BY <2>2
    <3>2. goal'[u] = goal[u] /\ goal[u] # "completed"
      BY DEF ControlInv, AnalystsAt, BeatsAt
    <3>. QED BY <2>1, <2>2, <3>1, <3>2 DEF Agrees, InStep, Marking
  <2>3. CASE k # j
    <3>1. UNCHANGED <<status[j], scan[j]>> /\ cur'[u] # j /\ pc[u] = "idle"
      BY <2>3
    <3>2. cur[u] # j
      BY <3>1 DEF ControlInv
    <3>. QED BY <3>1, <3>2 DEF RowsAgree, Agrees, InStep, Holder, Marking, SameRows
  <2>. QED BY <2>2, <2>3
<1>3. Tended(j) => Brings(u, j)
  BY QueueSame DEF Brings, Keeper, ControlInv, WorkersAt, AnalystsAt, BeatsAt
<1>. QED BY <1>1, <1>2, <1>3 DEF Moves

LEMMA RowsSendTask ==
  ASSUME TypeInv, ControlInv, TypeInv', ControlInv', NEW j \in Jobs, NEW u \in Analysts,
         SendTask(u)
  PROVE  Moves(u, j)
<1>. USE Kinds DEF SendTask, Publish
<1>1. \A b \in Actors \ {u} : Still(b)
  BY DEF Still
<1>2. RowsAgree(j) /\ Calm(j) => Agrees(u, j)
  BY DEF RowsAgree, Agrees, InStep, Holder, Marking, Executing, ExecutingPc, SameRows, Matches,
     ControlInv, WorkersAt, AnalystsAt, BeatsAt
<1>3. Tended(j) => Brings(u, j)
  <2>1. PICK t \in Tasks : Publish(t, cur[u])
    OBVIOUS
  <2>2. cur[u] \in Jobs /\ status' = status
    OBVIOUS
  <2>. HIDE DEF TypeInv, Publish, SendTask
  <2>3. (Queued(j) => Queued(j)') /\ (cur[u] = j => Queued(j)')
    BY <2>1, <2>2, QueuePublish
  <2>. QED BY <2>2, <2>3 DEF Brings, Keeper
<1>. QED BY <1>1, <1>2, <1>3 DEF Moves

LEMMA RowsUpdateRead ==
  ASSUME TypeInv, ControlInv, TypeInv', ControlInv', NEW j \in Jobs, NEW u \in Analysts,
         UpdateRead(u)
  PROVE  Moves(u, j)
<1>. USE Kinds DEF UpdateRead
<1>1. \A b \in Actors \ {u} : Still(b)
  BY DEF Still
<1>2. RowsAgree(j) /\ Calm(j) => Agrees(u, j)
  BY DEF RowsAgree, Agrees, InStep, Holder, Marking, Executing, ExecutingPc, SameRows, Matches,
     ControlInv, WorkersAt, AnalystsAt, BeatsAt
<1>3. Tended(j) => Brings(u, j)
  BY QueueSame DEF Brings, Keeper, ControlInv, WorkersAt, AnalystsAt, BeatsAt
<1>. QED BY <1>1, <1>2, <1>3 DEF Moves

LEMMA RowsUpdateWrite ==
  ASSUME TypeInv, ControlInv, TypeInv', ControlInv', NEW j \in Jobs, NEW u \in Analysts,
         UpdateWrite(u)
  PROVE  Moves(u, j)
<1>. USE Kinds DEF UpdateWrite, OverwriteRow, Overwrite, PutUp, NoCopy
<1>1. \A b \in Actors \ {u} : Still(b)
  BY DEF Still
<1>2. RowsAgree(j) /\ Calm(j) => Agrees(u, j)
  BY DEF RowsAgree, Agrees, InStep, Holder, Marking, Executing, ExecutingPc, SameRows, Matches,
     ControlInv, WorkersAt, AnalystsAt, BeatsAt
<1>3. Tended(j) => Brings(u, j)
  <2>1. /\ pc[u] = "overwrite" /\ UNCHANGED <<broker, jobOf>> /\ cur[u] \in Jobs
        /\ goal[u] \in {"done", "rescan"}
        /\ \A i \in Jobs : i # cur[u] => status'[i] = status[i]
    BY DEF ControlInv, AnalystsAt
  <2>2. ~Keeper(u, j)
    BY <2>1 DEF Keeper
  <2>3. CASE goal[u] = "rescan" /\ cur[u] = j
    <3>1. cur'[u] = j /\ pc'[u] = "rescan"
      BY <2>3
    <3>. QED BY <2>1, <3>1, QueueSame DEF Brings, Keeper
  <2>4. CASE goal[u] = "done" /\ cur[u] = j
    <3>1. Tended(j) /\ status'[j] \in Claimable => status[j] \in Claimable
      BY <2>1, <2>4 DEF Tended, PutBack, Writing
    <3>. QED BY <2>1, <2>2, <3>1, QueueSame DEF Brings
  <2>5. CASE cur[u] # j
    BY <2>1, <2>2, <2>5, QueueSame DEF Brings
  <2>. QED BY <2>1, <2>3, <2>4, <2>5
<1>. QED BY <1>1, <1>2, <1>3 DEF Moves

LEMMA RowsCancelRequest ==
  ASSUME TypeInv, ControlInv, TypeInv', ControlInv', NEW j \in Jobs, NEW u \in Analysts, NEW k
         \in Jobs, CancelRequest(u, k)
  PROVE  Moves(u, j)
<1>. USE Kinds DEF CancelRequest
<1>1. \A b \in Actors \ {u} : Still(b)
  BY DEF Still
<1>2. RowsAgree(j) /\ Calm(j) => Agrees(u, j)
  <2>1. Calm(j) /\ k = j => status[j] \notin Terminal
    BY DEF Calm, TooLate
  <2>2. /\ cur'[u] = k /\ pc'[u] \in {"revoke", "update"} /\ pc[u] = "idle"
        /\ UNCHANGED <<status, scan>>
    OBVIOUS
  <2>3. pc[u] = "idle" => cur[u] # j
    BY DEF ControlInv
  <2>. QED BY <2>1, <2>2, <2>3 DEF RowsAgree, Agrees, InStep, Holder, Marking, Executing,
         ExecutingPc, SameRows, Matches
<1>3. Tended(j) => Brings(u, j)
  BY QueueSame DEF Brings, Keeper, ControlInv, WorkersAt, AnalystsAt, BeatsAt
<1>. QED BY <1>1, <1>2, <1>3 DEF Moves

LEMMA RowsFinishCancel ==
  ASSUME TypeInv, ControlInv, TypeInv', ControlInv', NEW j \in Jobs, NEW u \in Analysts,
         FinishCancel(u)
  PROVE  Moves(u, j)
<1>. USE Kinds DEF FinishCancel, SaveScanFailed, NoCopy
<1>1. \A b \in Actors \ {u} : Still(b)
  BY DEF Still
<1>2. RowsAgree(j) /\ Calm(j) => Agrees(u, j)
  BY DEF RowsAgree, Agrees, InStep, Holder, Marking, Executing, ExecutingPc, SameRows, Matches,
     ControlInv, WorkersAt, AnalystsAt, BeatsAt
<1>3. Tended(j) => Brings(u, j)
  BY QueueSame DEF Brings, Keeper, ControlInv, WorkersAt, AnalystsAt, BeatsAt
<1>. QED BY <1>1, <1>2, <1>3 DEF Moves

LEMMA RowsRetryRequest ==
  ASSUME TypeInv, ControlInv, TypeInv', ControlInv', NEW j \in Jobs, NEW u \in Analysts, NEW k
         \in Jobs, RetryRequest(u, k)
  PROVE  Moves(u, j)
<1>. USE Kinds DEF RetryRequest
<1>1. \A b \in Actors \ {u} : Still(b)
  BY DEF Still
<1>2. RowsAgree(j) /\ Calm(j) => Agrees(u, j)
  <2>1. Calm(j) /\ k = j => status[j] \notin Terminal
    BY DEF Calm, TooLate
  <2>2. /\ cur'[u] = k /\ pc'[u] \in {"revoke", "update"} /\ pc[u] = "idle"
        /\ UNCHANGED <<status, scan>>
    OBVIOUS
  <2>3. pc[u] = "idle" => cur[u] # j
    BY DEF ControlInv
  <2>. QED BY <2>1, <2>2, <2>3 DEF RowsAgree, Agrees, InStep, Holder, Marking, Executing,
         ExecutingPc, SameRows, Matches
<1>3. Tended(j) => Brings(u, j)
  BY QueueSame DEF Brings, Keeper, ControlInv, WorkersAt, AnalystsAt, BeatsAt
<1>. QED BY <1>1, <1>2, <1>3 DEF Moves

LEMMA RowsRescan ==
  ASSUME TypeInv, ControlInv, TypeInv', ControlInv', NEW j \in Jobs, NEW u \in Analysts, Rescan(u)
  PROVE  Moves(u, j)
<1>. USE Kinds DEF Rescan
<1>1. \A b \in Actors \ {u} : Still(b)
  BY DEF Still
<1>2. RowsAgree(j) /\ Calm(j) => Agrees(u, j)
  BY DEF RowsAgree, Agrees, InStep, Holder, Marking, Executing, ExecutingPc, SameRows, Matches,
     ControlInv, WorkersAt, AnalystsAt, BeatsAt
<1>3. Tended(j) => Brings(u, j)
  BY QueueSame DEF Brings, Keeper, ControlInv, WorkersAt, AnalystsAt, BeatsAt
<1>. QED BY <1>1, <1>2, <1>3 DEF Moves

LEMMA RowsWebCrash ==
  ASSUME TypeInv, ControlInv, TypeInv', ControlInv', NEW j \in Jobs, NEW u \in Analysts,
         WebCrash(u)
  PROVE  Moves(u, j)
<1>. USE Kinds DEF WebCrash, NoCopy
<1>1. \A b \in Actors \ {u} : Still(b)
  BY DEF Still
<1>2. RowsAgree(j) /\ Calm(j) => Agrees(u, j)
  <2>1. "webcrash" \in Event
    BY DEF Event
  <2>2. budget' # budget
    BY <2>1, Spent
  <2>3. Calm(j) /\ cur[u] = j /\ pc[u] = "marked" => goal[u] = "completed"
    BY <2>2 DEF Calm, CutShort
  <2>. QED BY <2>3 DEF RowsAgree, Agrees, InStep, Holder, Marking, Executing, ExecutingPc,
         SameRows, Matches, ControlInv, WorkersAt, AnalystsAt, BeatsAt
<1>3. Tended(j) => Brings(u, j)
  <2>1. "webcrash" \in Event
    BY DEF Event
  <2>2. budget' # budget
    BY <2>1, Spent
  <2>3. pc'[u] = "idle" /\ UNCHANGED <<status, broker, jobOf>>
    OBVIOUS
  <2>4. Tended(j) /\ Keeper(u, j) => FALSE
    <3>1. Keeper(u, j) => cur[u] = j /\ pc[u] \in {"send", "rescan", "mark", "write"}
      BY Kinds DEF Keeper
    <3>2. pc[u] \in {"mark", "write"} => goal[u] = "cancelled"
      BY DEF ControlInv, AnalystsAt
    <3>3. Keeper(u, j) /\ pc[u] \in {"send", "rescan"} => Unsent(j)
      BY <2>2, <2>3, <3>1 DEF Unsent
    <3>4. Keeper(u, j) /\ pc[u] \in {"mark", "write"} => HalfCancelled(j)
      BY <2>3, <3>1, <3>2 DEF HalfCancelled
    <3>. QED BY <3>1, <3>3, <3>4 DEF Tended
  <2>. QED BY <2>3, <2>4, QueueSame DEF Brings
<1>. QED BY <1>1, <1>2, <1>3 DEF Moves

HIDE DEF TypeInv, TypeOK, AtWork, Delivered, Goto, Rest, WorkerPc, AnalystPc, BeatPc

\* A revocation moves the workers that hold the task, too: all of them on the same job.
LEMMA RevokeMoves ==
  ASSUME TypeInv, ControlInv, NEW u \in Analysts, Revoke(u)
  PROVE  /\ cur[u] \in Jobs /\ goal[u] = "cancelled" /\ pc[u] = "revoke"
         /\ cur'[u] = cur[u] /\ goal'[u] = "cancelled" /\ pc'[u] = "mark"
         /\ UNCHANGED <<status, scan, jobOf, todo>>
         /\ \A a \in Actors \ {u} :
              Still(a) \/ (a \in Workers /\ cur[a] = cur[u] /\ cur'[a] = NoJob)
         /\ \A m \in Message : broker'[m] = broker[m] \/ jobOf[m[1]] = cur[u]
<1>. DEFINE Hit == {w \in Workers : held[w] # NoMessage /\ held[w][1] = copy[u].task}
<1>1. /\ pc[u] = "revoke" /\ goal[u] = "cancelled" /\ cur[u] \in Jobs
      /\ UNCHANGED <<status, scan, jobOf, todo>>
      /\ u \in Actors /\ u \notin Hit
  BY Kinds DEF Revoke, ControlInv, AnalystsAt, TypeInv, AtWork
<1>2. \A w \in Hit : cur[w] = cur[u] \/ copy[u].task = NoTask
  BY Kinds DEF ControlInv, WorkersAt, AnalystsAt
<1>3. CASE pc' = [pc EXCEPT ![u] = "mark"] /\ UNCHANGED <<broker, cur, seen, goal, held, won>>
  BY <1>1, <1>3 DEF Still, TypeInv, TypeOK
<1>4. CASE /\ copy[u].task # NoTask
           /\ pc'   = [a \in Actors |-> IF a = u THEN "mark"
                                        ELSE IF a \in Hit THEN "idle" ELSE pc[a]]
           /\ cur'  = [a \in Actors |-> IF a \in Hit THEN NoJob ELSE cur[a]]
           /\ seen' = [a \in Actors |-> IF a \in Hit THEN NoRow ELSE seen[a]]
           /\ goal' = [a \in Actors |-> IF a \in Hit THEN "none" ELSE goal[a]]
           /\ broker' = [m \in Message |-> IF m[1] = copy[u].task THEN 0 ELSE broker[m]]
  <2>1. \A a \in Actors \ {u} : a \notin Hit => Still(a)
    BY <1>1, <1>4 DEF Still
  <2>2. \A a \in Hit : cur[a] = cur[u] /\ cur'[a] = NoJob
    BY <1>2, <1>4
  <2>3. jobOf[copy[u].task] = cur[u]
    BY <1>4 DEF ControlInv, AnalystsAt
  <2>4. \A m \in Message : broker'[m] = broker[m] \/ jobOf[m[1]] = cur[u]
    BY <1>4, <2>3
  <2>5. cur'[u] = cur[u] /\ goal'[u] = "cancelled" /\ pc'[u] = "mark"
    BY <1>1, <1>4
  <2>. QED BY <1>1, <2>1, <2>2, <2>4, <2>5
<1>. QED BY <1>3, <1>4 DEF Revoke

LEMMA RevokeAgree ==
  ASSUME TypeInv, ControlInv, NEW u \in Analysts, Revoke(u), NEW j \in Jobs, RowsAgree(j),
         Calm(j)
  PROVE  RowsAgree(j)'
<1>1. (\A x, y \in Actors : Holder(x, j) /\ Holder(y, j) => x = y)'
  BY OneHolder DEF Calm
<1>2. ASSUME NEW b \in Actors \ {u}, ~Still(b) PROVE ~Holder(b, j)' /\ ~Marking(b, j)'
  BY <1>2, Kinds, RevokeMoves DEF Holder, Executing, Marking
<1>3. ASSUME NEW b \in Actors \ {u}, Still(b)
      PROVE  (Holder(b, j)' <=> Holder(b, j)) /\ (Marking(b, j)' <=> Marking(b, j))
  BY <1>3 DEF Still, Holder, Marking, Executing, ExecutingPc
<1>4. ASSUME NEW b \in Actors \ {u} PROVE InStep(b, j)'
  <2>1. CASE Still(b)
    <3>1. InStep(b, j) /\ status' = status /\ scan' = scan
      BY RevokeMoves DEF RowsAgree
    <3>. QED BY <1>3, <2>1, <3>1 DEF InStep, Still
  <2>2. CASE ~Still(b)
    BY <1>2, <2>2 DEF InStep
  <2>. QED BY <2>1, <2>2
<1>5. (Holder(u, j) <=> cur[u] = j) /\ (Holder(u, j)' <=> cur[u] = j) /\ ~Marking(u, j)
      /\ ~Marking(u, j)'
  BY Kinds, RevokeMoves DEF Holder, Marking, Executing
<1>6. InStep(u, j) /\ InStep(u, j)'
  BY <1>5, RevokeMoves DEF RowsAgree, InStep
<1>7. ASSUME status[j] \in Terminal, NEW b \in Actors, Marking(b, j)
      PROVE  Marking(b, j)'
  <2>1. Still(b)
    <3>1. CASE ~Still(b)
      <4>1. cur[u] = j /\ b # u
        BY <1>5, <1>7, <3>1, RevokeMoves DEF Marking
      <4>. QED BY <1>5, <1>6, <1>7, <4>1 DEF InStep
    <3>. QED BY <3>1
  <2>. QED BY <1>3, <1>5, <1>7, <2>1
<1>8. UNCHANGED <<status, scan>>
  BY RevokeMoves
<1>9. (status[j] \in Terminal /\ (\A a \in Actors : ~Marking(a, j)) => Matches(j))'
  BY <1>7, <1>8 DEF RowsAgree, Matches
<1>. QED BY <1>1, <1>4, <1>6, <1>9 DEF RowsAgree

LEMMA RevokeBrings ==
  ASSUME TypeInv, ControlInv, NEW u \in Analysts, Revoke(u), NEW j \in Jobs, Brought(j)
  PROVE  Brought(j)'
<1>1. CASE cur[u] = j
  BY <1>1, RevokeMoves DEF Brought, Keeper
<1>2. CASE cur[u] # j
  <2>1. Queued(j) => Queued(j)'
    BY <1>2, RevokeMoves DEF Queued
  <2>2. ASSUME NEW a \in Actors, Keeper(a, j) PROVE Keeper(a, j)'
    <3>1. a # u /\ cur[a] = j
      BY <1>2, <2>2 DEF Keeper
    <3>2. Still(a)
      BY <1>2, <3>1, RevokeMoves
    <3>. QED BY <2>2, <3>2 DEF Keeper, Still
  <2>. QED BY <2>1, <2>2, RevokeMoves DEF Brought
<1>. QED BY <1>1, <1>2

\* A step that changes neither the rows nor the actors nor the queue.
LEMMA RowsStay ==
  ASSUME UNCHANGED <<status, scan, broker, jobOf, pc, cur, seen, goal, todo>>, NEW j \in Jobs
  PROVE  (RowsAgree(j) => RowsAgree(j)') /\ (Brought(j) => Brought(j)')
<1>1. \A a \in Actors : (Holder(a, j)' <=> Holder(a, j)) /\ (Marking(a, j)' <=> Marking(a, j))
                        /\ (Keeper(a, j)' <=> Keeper(a, j))
  BY DEF Holder, Marking, Keeper, Executing
<1>2. \A a \in Actors : InStep(a, j) => InStep(a, j)'
  BY <1>1 DEF InStep
<1>. QED BY <1>1, <1>2 DEF RowsAgree, Matches, Brought, Queued

RowStays(j) ==
  (RowsAgree(j) /\ Calm(j) => RowsAgree(j)') /\ (Brought(j) /\ Tended(j) => Brought(j)')

LEMMA RowsStep ==
  ASSUME TypeInv, ControlInv, TypeInv', ControlInv', [Next]_vars, NEW j \in Jobs
  PROVE  RowStays(j)
<1>0. ASSUME NEW a \in Actors, Moves(a, j) PROVE RowStays(j)
  BY <1>0, MovesAgree, MovesBring DEF RowStays
<1>1. ASSUME NEW w \in Workers, WorkerStep(w) PROVE RowStays(j)
  BY <1>0, <1>1, RowsReceive, RowsReadJob, RowsCheckLimits, RowsClaim, RowsUnclaimed,
     RowsPreflight, RowsStartScan, RowsScanSucceeds, RowsSaveResult, RowsSaveFindings,
     RowsScanFails, RowsMarkRead, RowsMarkWrite, RowsFinishCompleted, RowsFinishFailed,
     RowsFinishRetrying, RowsAckRetried DEF WorkerStep
<1>2. ASSUME NEW s \in Beats, BeatStep(s) \/ \E k \in Jobs : Dispatch(s, k) PROVE RowStays(j)
  BY <1>0, <1>2, RowsFindStale, RowsReclaim, RowsSendMaintenance, RowsGiveUp, RowsMarkRead,
     RowsMarkWrite, RowsFinishGiveUp, RowsDispatch DEF BeatStep
<1>3. ASSUME NEW u \in Analysts, AnalystStep(u) \/ Request(u) PROVE RowStays(j)
  <2>1. CASE Revoke(u)
    BY <2>1, RevokeAgree, RevokeBrings DEF RowStays
  <2>2. CASE ~Revoke(u)
    BY <1>0, <1>3, <2>2, RowsSendTask, RowsUpdateRead, RowsUpdateWrite, RowsRescan,
       RowsMarkRead, RowsMarkWrite, RowsFinishCancel, RowsSubmit, RowsCancelRequest,
       RowsRetryRequest DEF AnalystStep, Request
  <2>. QED BY <2>1, <2>2
<1>4. ASSUME Fault PROVE RowStays(j)
  BY <1>0, <1>4, RowsScanRetryable, RowsWorkerCrash, RowsHardTimeLimit, RowsWebCrash,
     RowsBeatCrash DEF Fault
<1>5. CASE (\E k \in Jobs : Age(k)) \/ UNCHANGED vars
  <2>1. UNCHANGED <<status, scan, broker, jobOf, pc, cur, seen, goal, todo>>
    BY <1>5 DEF Age, vars
  <2>. QED BY <2>1, RowsStay DEF RowStays
<1>. QED BY <1>1, <1>2, <1>3, <1>4, <1>5 DEF Next

RowsInv ==
  /\ TypeInv /\ ControlInv
  /\ \A j \in Jobs \ disturbed : RowsAgree(j)
  /\ \A j \in Jobs \ forsaken : Brought(j)

LEMMA RowsInit == ScanRowsInit => RowsInv
<1>. SUFFICES ASSUME ScanRowsInit PROVE RowsInv
  OBVIOUS
<1>1. TypeInv /\ ControlInv
  BY TypeInit, ControlInit DEF ScanRowsInit
<1>2. ASSUME NEW j \in Jobs PROVE status[j] = "absent" /\ \A a \in Actors : ~Holder(a, j)
  BY Kinds DEF ScanRowsInit, Init, Holder, Executing
<1>. QED BY <1>1, <1>2 DEF RowsInv, RowsAgree, InStep, Brought

LEMMA RowsInvStep == ASSUME RowsInv, [ScanRowsNext]_rowsVars PROVE RowsInv'
<1>1. [Next]_vars
  BY DEF ScanRowsNext, rowsVars
<1>2. TypeInv' /\ ControlInv'
  BY <1>1, TypeStep, ControlStep DEF RowsInv
<1>3. \A j \in Jobs : RowStays(j)
  BY <1>1, <1>2, RowsStep DEF RowsInv
<1>4. CASE ScanRowsNext
  <2>1. \A j \in Jobs \ disturbed' : j \notin disturbed /\ Calm(j)
    BY <1>4 DEF ScanRowsNext, Calm
  <2>2. \A j \in Jobs \ forsaken' : j \notin forsaken /\ Tended(j)
    BY <1>4 DEF ScanRowsNext, Tended
  <2>. QED BY <1>2, <1>3, <2>1, <2>2 DEF RowsInv, RowStays
<1>5. CASE UNCHANGED rowsVars
  <2>1. UNCHANGED <<disturbed, forsaken, status, scan, broker, jobOf, pc, cur, seen, goal, todo>>
    BY <1>5 DEF rowsVars, vars
  <2>. QED BY <1>2, <2>1, RowsStay DEF RowsInv
<1>. QED BY <1>4, <1>5

LEMMA RowsAlways == ScanRowsSpec => []RowsInv
  BY RowsInit, RowsInvStep, PTL DEF ScanRowsSpec

\* Whatever crashes, is delivered again, cancelled, retried or swept, and on either
\* backend: when nobody works on a job that is over, its scan says the same, unless two
\* actors worked on it at once, it was cancelled or retried when it was over, an
\* exception followed its completion, or an actor was lost between its two writes.
THEOREM ScanFollowsJob == ScanRowsSpec => []ScanMatchesJob
<1>1. RowsInv => ScanMatchesJob
  BY DEF RowsInv, RowsAgree, Marking, Matches, ScanMatchesJob
<1>. QED BY <1>1, RowsAlways, PTL

\* For every number of workers, requests and sweeps: a job that waits has a message, or
\* somebody who is about to publish one or to mark it, unless its task ended with the
\* retries used up, a process died before the publication, or an update overwrote it.
THEOREM NoJobForsaken == ScanRowsSpec => []NeverForsaken
<1>1. \A j \in Jobs : \A a \in Actors : Keeper(a, j) => Attended(j)
  BY Kinds DEF Keeper, Attended
<1>2. RowsInv => NeverForsaken
  BY <1>1 DEF RowsInv, Brought, Queued, Attended, NeverForsaken
<1>. QED BY <1>2, RowsAlways, PTL
=============================================================================
