----------------------------- MODULE Scheduler -----------------------------
(***************************************************************************)
(* The scheduled scans of one schedule: runs of                            *)
(* dispatch_scheduled_scans_task, each of which claims the slot that is    *)
(* due, advances next_run_at and creates a scan and a job; the             *)
(* reconciliation of runs whose dispatcher or job is gone; the routes that *)
(* pause, resume and delete the schedule.  Schedules share no row, so one  *)
(* stands for all.                                                         *)
(*                                                                         *)
(* One action is one database transaction or one broker call, except that  *)
(* on PostgreSQL a save and the link of a run, which SELECT a row and      *)
(* write the columns that differ at the flush, are two actions, and that   *)
(* the reconciliation takes one for each row it reads or writes.           *)
(***************************************************************************)
EXTENDS Naturals, FiniteSets, Sequences, SequencesExt

CONSTANTS
  Dispatchers,   \* concurrent runs of the dispatcher task
  Analysts,      \* concurrent web requests
  Claims,        \* ids of claims; the run, scan and job of a claim share its id
  None,
  Interval,      \* interval_hours, in steps of the clock
  PauseSteps,    \* how long a pause may be, in steps of the clock
  Horizon,       \* bound: where the clock stops
  Threshold,     \* stale_threshold_seconds, in steps of the clock
  Limit,         \* LIMIT of the reconciliation's query
  Backend,       \* "postgres" or "sqlite"
  Budgets        \* scenarios: how often each kind of event may happen

Actors == Dispatchers \cup Analysts
Event  == {"crash", "pause", "resume", "delete"}

ASSUME SchedulerKinds ==
  /\ Dispatchers \cap Analysts = {}
  /\ Claims \subseteq Nat /\ IsFiniteSet(Claims) /\ None \notin Nat
  /\ Interval \in Nat \ {0} /\ Horizon \in Nat /\ Threshold \in Nat /\ Limit \in Nat
  /\ PauseSteps \subseteq Nat \ {0}
  /\ Backend \in {"postgres", "sqlite"}
  /\ Budgets \subseteq [Event -> Nat]

Slot == 0 .. Horizon + Interval

\* paused_until; 0 stands for NULL, since every pause ends later than it began.
Pause == Nat

RunStatus == {"dispatched", "completed", "failed"}
JobStatus == {"none", "queued", "sent", "completed", "failed", "cancelled"}

VARIABLES
  now,      \* the clock
  row,      \* the scheduled_scans row: does it exist, next_run_at, paused_until
  runs,     \* scheduled_runs by planned_at, unique for a schedule
  scans,    \* the schedule's scans in the order of started_at
  job,      \* the scan job of a claim
  slotOf,   \* history: the slot a claim was made for
  pc,
  copy,     \* an actor's in-memory schedule, and when it began
  claim,    \* the claim a dispatcher has won
  seen,     \* the schedule row an actor's open save has read
  seenRun,  \* the status of the run that a dispatcher's open link has read
  todo,     \* rows the reconciliation has read and not yet dealt with
  hand,     \* the run it deals with, what it has found and what it makes of it
  updates,  \* runs that its transaction has updated and not committed: their rows are locked
  crossed,  \* history: claims that their dispatcher has linked while it guessed their job
  events,   \* history: which kinds of event have happened
  budget    \* what is left of the scenario's events

dbVars   == <<row, runs, scans, job, slotOf>>
ctlVars  == <<pc, copy, claim, seen, seenRun>>
sweepVars == <<todo, hand, updates>>
histVars == <<events, budget>>
vars == <<now, dbVars, ctlVars, sweepVars, crossed, histVars>>

NoRun  == [id |-> None, status |-> "failed", job |-> None, at |-> 0]
NoRow  == [exists |-> FALSE, next |-> 0, paused |-> 0]
NoCopy == [next |-> 0, paused |-> 0, start |-> 0]
Unread == [exists |-> FALSE, next |-> Horizon + Interval + 1, paused |-> 0]

Claimed(t) == runs[t] # NoRun

\* The schedule as the route creates it: due at once.
Init ==
  /\ now = 0
  /\ row = [exists |-> TRUE, next |-> 0, paused |-> 0]
  /\ runs    = [t \in Slot |-> NoRun]
  /\ scans   = <<>>
  /\ job     = [n \in Claims |-> "none"]
  /\ slotOf  = [n \in Claims |-> None]
  /\ pc      = [a \in Actors |-> "idle"]
  /\ copy    = [a \in Actors |-> NoCopy]
  /\ claim   = [d \in Dispatchers |-> None]
  /\ seen    = [a \in Actors |-> Unread]
  /\ seenRun = [d \in Dispatchers |-> "none"]
  /\ todo    = {} /\ hand = None /\ updates = {}
  /\ crossed = {}
  /\ events  = {}
  /\ budget \in Budgets

-----------------------------------------------------------------------------
(* Saving the schedule and ending a task or a request. *)

Happens(e) ==
  /\ budget[e] > 0
  /\ budget' = [budget EXCEPT ![e] = @ - 1]
  /\ events' = events \cup {e}

Rest(a) ==
  /\ pc'      = [pc EXCEPT ![a] = "idle"]
  /\ copy'    = [copy EXCEPT ![a] = NoCopy]
  /\ seen'    = [seen EXCEPT ![a] = Unread]
  /\ claim'   = [d \in Dispatchers |-> IF d = a THEN None ELSE claim[d]]
  /\ seenRun' = [d \in Dispatchers |-> IF d = a THEN "none" ELSE seenRun[d]]

Saving == {"unpause", "advance", "final", "store"}

\* What an UPDATE leaves in a column: the flush writes what differs from the SELECT.
Overwrite(loaded, new, current) == IF new = loaded THEN current ELSE new

SaveRead(a) ==
  /\ Backend = "postgres"
  /\ pc[a] \in Saving /\ seen[a] = Unread
  /\ seen' = [seen EXCEPT ![a] = row]
  /\ UNCHANGED <<now, dbVars, pc, copy, claim, seenRun, sweepVars, crossed, histVars>>

\* The copy as a row: all of its columns are written.
CopyRow(a) == [exists |-> TRUE, next |-> copy[a].next, paused |-> copy[a].paused]

\* Without the row the save creates it again; a row that came or went since the
\* SELECT fails the flush.
FlushFails(a) == seen[a].exists # row.exists

Flushed(a) ==
  IF row.exists
  THEN [exists |-> TRUE,
        next   |-> Overwrite(seen[a].next, copy[a].next, row.next),
        paused |-> Overwrite(seen[a].paused, copy[a].paused, row.paused)]
  ELSE CopyRow(a)

\* Where the task or request goes on after a save; "idle" ends it.
AfterSave(a) ==
  IF pc[a] = "advance" THEN "scan"
  ELSE IF pc[a] = "unpause" /\ copy[a].next <= copy[a].start THEN "claim"
  ELSE "idle"

GoOn(a) ==
  IF AfterSave(a) = "idle" THEN Rest(a)
  ELSE /\ pc'   = [pc EXCEPT ![a] = AfterSave(a)]
       /\ seen' = [seen EXCEPT ![a] = Unread]
       /\ UNCHANGED <<copy, claim, seenRun>>

SaveWrite(a) ==
  /\ pc[a] \in Saving
  /\ Backend = "postgres" => seen[a] # Unread
  /\ IF Backend = "postgres"
     THEN /\ UNCHANGED runs
          /\ IF FlushFails(a)
             THEN \* The task goes on after a pause it could not clear.
                  /\ UNCHANGED row
                  /\ IF pc[a] = "unpause" THEN GoOn(a) ELSE Rest(a)
             ELSE GoOn(a) /\ row' = Flushed(a)
     ELSE \* INSERT OR REPLACE deletes the old row, and its runs by the cascade.
          /\ runs' = [t \in Slot |-> NoRun]
          /\ row'  = CopyRow(a)
          /\ GoOn(a)
  /\ UNCHANGED <<now, scans, job, slotOf, sweepVars, crossed, histVars>>

-----------------------------------------------------------------------------
(* The dispatcher. *)

\* The list is read: a pause that is over is cleared first, a running one skips.
Start(d) ==
  /\ pc[d] = "idle" /\ row.exists /\ row.paused <= now
  /\ row.paused # 0 \/ row.next <= now
  /\ pc'   = [pc EXCEPT ![d] = IF row.paused # 0 THEN "unpause" ELSE "claim"]
  /\ copy' = [copy EXCEPT ![d] = [next |-> row.next, paused |-> 0, start |-> now]]
  /\ UNCHANGED <<now, dbVars, claim, seen, seenRun, sweepVars, crossed, histVars>>

\* UNIQUE (schedule_id, planned_at), and the foreign key to the schedule.
HasSchedule(t) == row.exists
MayInsert(t) == row.exists /\ ~Claimed(t)

\* The window is advanced from the time the task began, not from the slot.
SameSlot(d) == copy[d].next
NextRun(d) == copy[d].start + Interval

\* claim_scheduled_run; the winner's copy then gets the next time to run.
Claim(d) ==
  LET t == copy[d].next
  IN /\ pc[d] = "claim"
     /\ IF MayInsert(t)
        THEN \E n \in Claims :
               /\ slotOf[n] = None /\ \A m \in Claims : m < n => slotOf[m] # None
               /\ slotOf' = [slotOf EXCEPT ![n] = t]
               /\ runs'   = [runs EXCEPT ![t] = [id |-> n, status |-> "dispatched",
                                                 job |-> None, at |-> now]]
               /\ claim'  = [claim EXCEPT ![d] = n]
               /\ copy'   = [copy EXCEPT ![d].next = NextRun(d)]
               /\ pc'     = [pc EXCEPT ![d] = "advance"]
               /\ UNCHANGED <<seen, seenRun>>
        ELSE Rest(d) /\ UNCHANGED <<runs, slotOf>>
     /\ UNCHANGED <<now, row, scans, job, sweepVars, crossed, histVars>>

Goto(d, from, to) == pc[d] = from /\ pc' = [pc EXCEPT ![d] = to]

SaveScan(d) ==
  /\ Goto(d, "scan", "job")
  /\ scans' = Append(scans, claim[d])
  /\ UNCHANGED <<now, row, runs, job, slotOf, copy, claim, seen, seenRun, sweepVars,
                 crossed, histVars>>

CreateJob(d) ==
  /\ Goto(d, "job", "link")
  /\ job' = [job EXCEPT ![claim[d]] = "queued"]
  /\ UNCHANGED <<now, row, runs, scans, slotOf, copy, claim, seen, seenRun, sweepVars,
                 crossed, histVars>>

\* The run of a claim is still there.
Present(n) == runs[slotOf[n]].id = n

LinkRead(d) ==
  /\ Backend = "postgres"
  /\ pc[d] = "link" /\ seenRun[d] = "none"
  /\ seenRun' = [seenRun EXCEPT ![d] = IF Present(claim[d])
                                       THEN runs[slotOf[claim[d]]].status ELSE "gone"]
  /\ UNCHANGED <<now, dbVars, pc, copy, claim, seen, sweepVars, crossed, histVars>>

StatusOnly(run, status, n) == [run EXCEPT !.status = status]
Linked(run, status, n) == [run EXCEPT !.status = status, !.job = n]

\* The reconciliation is about to tie the run to the job of the latest scan it saw, which
\* is another claim's.
InHand(n) ==
  hand # None /\ hand.id = n /\ hand.verdict \in {"open", "link"} /\ hand.job # n

\* update_scheduled_run_status("dispatched", job): nothing if the run was gone, an
\* error if it went since the SELECT.  It waits for the lock of the run's row.
LinkWrite(d) ==
  LET n == claim[d]
      Link(status) ==
        runs' = [runs EXCEPT ![slotOf[n]] = Linked(runs[slotOf[n]], status, n)]
  IN /\ pc[d] = "link" /\ (Backend = "postgres" => seenRun[d] # "none")
     /\ \A u \in updates : u.id # n
     /\ crossed' = IF InHand(n) THEN crossed \cup {n} ELSE crossed
     /\ IF Backend = "postgres" /\ ~Present(n) /\ seenRun[d] # "gone"
        THEN Rest(d) /\ UNCHANGED runs
        ELSE /\ pc'      = [pc EXCEPT ![d] = "send"]
             /\ seenRun' = [seenRun EXCEPT ![d] = "none"]
             /\ IF ~Present(n) THEN UNCHANGED runs
                ELSE IF Backend = "sqlite" THEN Link("dispatched")
                ELSE Link(Overwrite(seenRun[d], "dispatched", runs[slotOf[n]].status))
             /\ UNCHANGED <<copy, claim, seen>>
     /\ UNCHANGED <<now, row, scans, job, slotOf, sweepVars, histVars>>

\* run_scan_task.delay; the task id is not saved.
Send(d) ==
  /\ Goto(d, "send", "final")
  /\ job' = [job EXCEPT ![claim[d]] = "sent"]
  /\ UNCHANGED <<now, row, runs, scans, slotOf, copy, claim, seen, seenRun, sweepVars,
                 crossed, histVars>>

-----------------------------------------------------------------------------
(* reconcile_orphaned_scheduled_runs, at the end of the sweep for stale jobs. *)

\* created_at <= cutoff.
Orphans ==
  {t \in Slot : Claimed(t) /\ runs[t].status = "dispatched" /\ runs[t].at + Threshold <= now}

\* The oldest Limit runs that are still dispatched.
ReconcileRead ==
  /\ todo = {} /\ hand = None /\ Orphans # {}
  /\ \E S \in SUBSET Orphans :
       /\ Cardinality(S) = Min({Limit, Cardinality(Orphans)})
       /\ \A t \in S, o \in Orphans \ S : runs[t].id < runs[o].id
       /\ todo' = {[slot |-> t, id |-> runs[t].id, job |-> runs[t].job] : t \in S}
  /\ UNCHANGED <<now, dbVars, ctlVars, hand, updates, crossed, histVars>>

\* What the status of a run's job makes of the run.
JobsOwn(s) == s
Settled(s) == IF s \in {"completed", "failed"} THEN s ELSE "as it is"

Found(e, n, verdict) == [slot |-> e.slot, id |-> e.id, job |-> n, verdict |-> verdict]

\* The next run, by its row in the list: of one with a job the job is read, of another
\* one the schedule's latest scan.
ReconcileLook(e) ==
  /\ hand = None /\ \A o \in todo : e.id <= o.id
  /\ todo' = todo \ {e}
  /\ hand' = IF e.job # None THEN Found(e, e.job, Settled(job[e.job]))
             ELSE IF scans = <<>> THEN Found(e, None, "failed")
             ELSE Found(e, Last(scans), "open")
  /\ UNCHANGED <<now, dbVars, ctlVars, updates, crossed, histVars>>

\* The job of that scan is read, in a session of its own.
ReconcileJob ==
  /\ hand # None /\ hand.verdict = "open"
  /\ hand' = [hand EXCEPT !.verdict = IF job[hand.job] # "none" THEN "link" ELSE "failed"]
  /\ UNCHANGED <<now, dbVars, ctlVars, todo, updates, crossed, histVars>>

\* The UPDATE by the run's id, whatever has become of the run.
Reconciled(run, u) ==
  IF u.verdict = "link" THEN [run EXCEPT !.job = u.job] ELSE [run EXCEPT !.status = u.verdict]

CommitAll(U) ==
  runs' = [t \in Slot |-> IF \E u \in U : u.slot = t /\ u.id = runs[t].id
                          THEN Reconciled(runs[t], CHOOSE u \in U : u.slot = t /\ u.id = runs[t].id)
                          ELSE runs[t]]

Updated == IF hand.verdict = "as it is" THEN updates ELSE updates \cup {hand}

\* SQLite commits after each run; on PostgreSQL one transaction holds them all.
ReconcileRun ==
  /\ hand # None /\ hand.verdict # "open"
  /\ hand' = None
  /\ IF Backend = "postgres" /\ todo # {}
     THEN updates' = Updated /\ UNCHANGED runs
     ELSE updates' = {} /\ CommitAll(Updated)
  /\ UNCHANGED <<now, row, scans, job, slotOf, ctlVars, todo, crossed, histVars>>

Reconcile ==
  ReconcileRead \/ (\E e \in todo : ReconcileLook(e)) \/ ReconcileJob \/ ReconcileRun

-----------------------------------------------------------------------------
(* The routes, the scan jobs and the clock. *)

\* The schedule is read, changed in memory and stored whole.
Edit(u, paused) ==
  /\ pc[u] = "idle" /\ row.exists
  /\ pc'   = [pc EXCEPT ![u] = "store"]
  /\ copy' = [copy EXCEPT ![u] = [next |-> row.next, paused |-> paused, start |-> now]]
  /\ UNCHANGED <<now, dbVars, claim, seen, seenRun, sweepVars, crossed>>

PauseRequest(u) == Happens("pause") /\ \E h \in PauseSteps : Edit(u, now + h)
ResumeRequest(u) == Happens("resume") /\ Edit(u, 0)

\* The runs go by the cascade, which waits for the locks of their rows.
DeleteRequest ==
  /\ row.exists /\ updates = {} /\ Happens("delete")
  /\ row'  = NoRow
  /\ runs' = [t \in Slot |-> NoRun]
  /\ UNCHANGED <<now, scans, job, slotOf, ctlVars, sweepVars, crossed>>

Crash(a) ==
  /\ pc[a] # "idle" /\ Happens("crash")
  /\ Rest(a)
  /\ UNCHANGED <<now, dbVars, sweepVars, crossed>>

\* The job ends, one way or another.
JobOver(n) ==
  /\ job[n] = "sent"
  /\ \E s \in {"completed", "failed", "cancelled"} : job' = [job EXCEPT ![n] = s]
  /\ UNCHANGED <<now, row, runs, scans, slotOf, ctlVars, sweepVars, crossed, histVars>>

\* A task is stopped by its time limit, a request by the server's, long before
\* another interval has passed; the reconciliation does not last a step of the clock.
Tick ==
  /\ now < Horizon /\ todo = {} /\ hand = None
  /\ \A a \in Actors : pc[a] # "idle" => now + 1 < copy[a].start + Interval
  /\ now' = now + 1
  /\ UNCHANGED <<dbVars, ctlVars, sweepVars, crossed, histVars>>

-----------------------------------------------------------------------------

SaveStep(a) == SaveRead(a) \/ SaveWrite(a)

DispatcherStep(d) ==
  \/ Start(d) \/ Claim(d) \/ SaveScan(d) \/ CreateJob(d)
  \/ LinkRead(d) \/ LinkWrite(d) \/ Send(d) \/ SaveStep(d)

Next ==
  \/ \E d \in Dispatchers : DispatcherStep(d)
  \/ \E u \in Analysts : SaveStep(u) \/ PauseRequest(u) \/ ResumeRequest(u)
  \/ DeleteRequest
  \/ \E a \in Actors : Crash(a)
  \/ Reconcile
  \/ \E n \in Claims : JobOver(n)
  \/ Tick

Spec == Init /\ [][Next]_vars

\* Beat keeps starting the dispatcher and the sweep, a request that has begun goes
\* on, and so does the clock.
Fairness ==
  /\ \A d \in Dispatchers : WF_vars(DispatcherStep(d))
  /\ \A u \in Analysts : WF_vars(SaveStep(u))
  /\ WF_vars(Reconcile) /\ WF_vars(Tick)

FairSpec == Spec /\ Fairness

-----------------------------------------------------------------------------
(* Properties. *)

Run  == [id : Claims \cup {None}, status : RunStatus, job : Claims \cup {None}, at : 0 .. Horizon]
Row  == [exists : BOOLEAN, next : Slot, paused : Pause]
Finding == [slot : Slot, id : Claims, job : Claims \cup {None},
            verdict : {"open", "link", "completed", "failed", "as it is"}]
RunUpdate == {u \in Finding : u.verdict \in {"link", "completed", "failed"}}
Copy == [next : Slot, paused : Pause, start : 0 .. Horizon]

\* The shape of the state; a run only ever has one of the three statuses that the
\* dispatcher and the reconciliation know, whatever happens to its job.
TypeOK ==
  /\ now    \in 0 .. Horizon
  /\ row    \in Row
  /\ runs   \in [Slot -> Run]
  /\ scans  \in Seq(Claims)
  /\ job    \in [Claims -> JobStatus]
  /\ slotOf \in [Claims -> Slot \cup {None}]
  /\ pc \in [Actors -> Saving \cup {"idle", "claim", "scan", "job", "link", "send"}]
  /\ copy   \in [Actors -> Copy]
  /\ claim  \in [Dispatchers -> Claims \cup {None}]
  /\ seen   \in [Actors -> Row \cup {Unread}]
  /\ seenRun \in [Dispatchers -> RunStatus \cup {"none", "gone"}]
  /\ todo   \subseteq [slot : Slot, id : Claims, job : Claims \cup {None}]
  /\ hand   \in Finding \cup {None}
  /\ updates \subseteq RunUpdate
  /\ crossed \subseteq Claims
  /\ events \subseteq Event
  /\ budget \in [Event -> Nat]

\* Two jobs were created for one slot.
Duplicated ==
  \E m, n \in Claims : m # n /\ job[m] # "none" /\ job[n] # "none" /\ slotOf[m] = slotOf[n]

\* "Guarantees 0 duplicate scheduled jobs using DB unique constraints": on PostgreSQL
\* concurrent dispatchers, crashes, pauses and resumes included, unless the schedule is
\* deleted under a dispatcher that then creates it again.
OneJobPerSlot == Duplicated => "delete" \in events

\* The same without exception.
NoDuplicates == ~Duplicated

\* The slot that is due was claimed before and nobody is about to advance from it: no
\* dispatcher ever gets past its claim again.
Wedged ==
  /\ row.exists /\ Claimed(row.next)
  /\ ~\E d \in Dispatchers : pc[d] = "advance" /\ claim[d] = runs[row.next].id

\* While nothing crashes and nobody edits the schedule, concurrent dispatchers with
\* their stale copies never wedge it.
NeverWedged == Wedged => events # {}

\* Nothing crashed and nothing was deleted: a run is tied to no other slot's job, unless
\* its dispatcher is still on the way to link its own, or has linked it after the
\* reconciliation had looked for the schedule's latest scan, which then updates the run
\* without another look.
OwnJob ==
  \A t \in Slot :
    \/ runs[t].job \in {None, runs[t].id}
    \/ {"crash", "delete"} \cap events # {}
    \/ \E d \in Dispatchers : claim[d] = runs[t].id /\ pc[d] \in {"advance", "scan", "job", "link"}
    \/ runs[t].id \in crossed

\* "Mark run as failed to unblock schedule tracking": then the schedule moves on.
FailedRunUnblocks ==
  \A t \in Slot :
    row.exists /\ row.next = t /\ Claimed(t) /\ runs[t].status = "failed"
      ~> ~row.exists \/ row.next # t
=============================================================================
