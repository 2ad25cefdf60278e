------------------------------- MODULE ScanRows -------------------------------
(***************************************************************************)
(* A scan has two rows: its job, which ScanJobs is about, and the scan,    *)
(* which the same actors save before or after they mark the job, in        *)
(* transactions of their own and whatever became of either meanwhile.      *)
(* What keeps the two in step is the order of the writes alone.            *)
(***************************************************************************)
EXTENDS ScanJobs

VARIABLES
  disturbed,  \* history: jobs on which two actors worked at once, or one did not finish
  forsaken    \* history: jobs whose last message was given up, or never sent

rowsVars == <<vars, disturbed, forsaken>>

\* Who may mark the job or save its scan: its workers, requests that cancel or retry it,
\* and sweeps that found it stale.
Holders(j) ==
  {w \in Workers : Executing(w, j)}
    \cup {u \in Analysts : cur[u] = j /\ goal[u] \in {"cancelled", "rescan"}}
    \cup {s \in Beats : cur[s] = j \/ \E e \in todo[s] : e[1] = j}

Contended(j) == \E a, b \in Holders(j) : a # b

\* A cancel or a retry of a job that is over begins.
TooLate(j) ==
  status[j] \in Terminal /\ \E u \in Analysts : pc[u] = "idle" /\ cur'[u] = j

\* An exception after the job was marked completed.
FailedLate(j) ==
  \E w \in Workers : Executing(w, j) /\ goal[w] \in Failure /\ status[j] = "completed"

\* An actor is lost between its mark and its save of the scan.
CutShort(j) ==
  \E a \in Actors :
    /\ cur[a] = j /\ pc[a] = "marked" /\ goal[a] # "completed"
    /\ pc'[a] = "idle" /\ budget' # budget

\* A task ends with its retries used up, or killed on the way to the next one.
GivenUp(j) ==
  \E w \in Workers :
    /\ cur[w] = j /\ status[j] \in Claimable
    /\ pc[w] \in {"asset", "tenant", "global", "unclaimed"} \/ goal[w] = "retrying"
    /\ Ack(w) /\ UNCHANGED broker

\* A request or a maintenance task is lost before the delay() it has put the job up for.
Unsent(j) ==
  \E a \in Analysts \cup Beats :
    /\ cur[a] = j /\ pc[a] \in {"send", "rescan"}
    /\ pc'[a] = "idle" /\ budget' # budget

\* A request lost after it revoked the task.
HalfCancelled(j) ==
  \E u \in Analysts :
    /\ cur[u] = j /\ goal[u] = "cancelled" /\ pc[u] \in {"mark", "write"}
    /\ pc'[u] = "idle"

\* The update that records the task id writes QUEUED over the status it has read.
PutBack(j) ==
  \E u \in Analysts :
    /\ Writing(u, j) /\ goal[u] = "done"
    /\ status[j] \notin Claimable /\ status'[j] \in Claimable

ScanRowsInit == Init /\ disturbed = {} /\ forsaken = {}

ScanRowsNext ==
  /\ Next
  /\ disturbed' = disturbed \cup
       {j \in Jobs : Contended(j)' \/ TooLate(j) \/ FailedLate(j)' \/ CutShort(j)}
  /\ forsaken' = forsaken \cup
       {j \in Jobs : GivenUp(j) \/ Unsent(j) \/ HalfCancelled(j) \/ PutBack(j)}

ScanRowsSpec == ScanRowsInit /\ [][ScanRowsNext]_rowsVars

-----------------------------------------------------------------------------
\* When nobody works on a job that is over, its scan says the same: completed with its
\* results or failed, and never pending or running, through crashes, redeliveries,
\* cancels, retries and sweeps.  What breaks it is two of the actors at work on one job
\* at once, a cancel or a retry of a job that is over, an exception after the job was
\* marked completed, and an actor lost between the two writes: each saves the scan
\* whatever its mark did.
ScanMatchesJob ==
  \A j \in Jobs \ disturbed :
    (status[j] \in Terminal /\ \A a \in Actors : cur[a] # j) =>
      scan[j] = IF status[j] = "completed" THEN "completed" ELSE "failed"

\* Who will bring a waiting job further: a copy of a message, a worker that holds one, or
\* a request or maintenance task that is about to publish one or to mark it cancelled.
Attended(j) ==
  \/ \E m \in Message : broker[m] > 0 /\ jobOf[m[1]] = j
  \/ \E a \in Actors : cur[a] = j /\ pc[a] \notin {"update", "overwrite"}

\* A queued or retrying job is never left without a message: nothing looks for such jobs,
\* the sweep lists running ones.  Redeliveries, duplicates that are skipped, reclaims,
\* revocations and retries keep to it; it is lost where a task ends with its retries used
\* up, where a process dies between the job's row and the publication, and where the
\* update that records the task id overwrites what a worker has made of the job.
NeverForsaken == \A j \in Jobs \ forsaken : status[j] \in Claimable => Attended(j)
=============================================================================
