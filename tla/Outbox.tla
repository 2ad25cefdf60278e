------------------------------- MODULE Outbox -------------------------------
(***************************************************************************)
(* The intelligence reassessment queue in integration_outbox: the monitor  *)
(* that announces that an asset should be scanned again, runs of           *)
(* process_intel_reassessment_queue_task, which claim announcements and    *)
(* create a scan, a job and a task for each, and runs of                   *)
(* recover_stale_outbox_events_task, which look after the claims of lost   *)
(* workers.                                                                *)
(*                                                                         *)
(* One action is one statement (SQLite commits each) or one transaction    *)
(* (PostgreSQL).  The two backends take different paths through both       *)
(* tasks; a behaviour is of one of them.                                   *)
(***************************************************************************)
EXTENDS Naturals, FiniteSets, Sequences

CONSTANTS
  Monitors,     \* runs of check_intel_triggered_reassessment
  Processors,   \* runs of the queue task
  Reapers,      \* runs of the recovery task
  Events,       \* event keys of one tenant: an asset, a vulnerability, a component
  Prefixes,     \* what the first 24 characters of the keys may tell apart
  MaxAttempts,  \* the tasks' literal 3
  AttemptCap,   \* bound: the counter of PostgreSQL's recovery stops here
  Backends,     \* which of "sqlite" and "postgres" are looked at
  Budgets       \* scenarios: how often each kind of event may happen

Workers == Processors \cup Reapers
Actors  == Monitors \cup Workers
Happening == {"announce", "refuse", "error", "crash", "slow", "overlap",
              "scanfail"}

ASSUME OutboxKinds ==
  /\ Monitors \cap Workers = {} /\ Processors \cap Reapers = {}
  /\ IsFiniteSet(Events)
  /\ Prefixes \subseteq [Events -> Events]
  /\ MaxAttempts \in Nat \ {0} /\ AttemptCap \in Nat /\ AttemptCap >= MaxAttempts
  /\ Backends \subseteq {"sqlite", "postgres"}
  /\ Budgets \subseteq [Happening -> Nat]

Status   == {"none", "PENDING", "PROCESSING", "RETRYING",
             "DELIVERED", "FAILED", "SKIPPED", "DEAD_LETTER"}
Resolved == {"DELIVERED", "FAILED", "SKIPPED", "DEAD_LETTER"}

VARIABLES
  backend,
  prefix,  \* requested_by of an event's job: the key's first 24 characters
  row,     \* integration_outbox by event_key, which is unique
  claims,  \* how often an announcement was claimed (not counted on PostgreSQL, where claims
           \* are never compared); the number of a claim is its claimed_at
  jobs,    \* scan_jobs in the order of queued_at
  pc,
  todo,    \* rows a worker has read and not yet dealt with
  mine,    \* rows a processor has claimed
  cur,     \* the row a worker is dealing with
  goal,    \* what a reaper is about to make of cur
  events,  \* history: what has happened
  budget   \* what is left of the scenario

tableVars == <<row, claims, jobs>>
workVars  == <<pc, todo, mine, cur, goal>>
histVars  == <<events, budget>>
outboxVars == <<backend, prefix, tableVars, workVars, histVars>>

\* id 0: no row.  claim 0: claimed_at is NULL or no longer read (status not PROCESSING).
NoRow  == [id |-> 0, status |-> "none", attempt |-> 0, claim |-> 0, stale |-> FALSE]
Nobody == [event |-> "none", id |-> 0, attempt |-> 0, claim |-> 0]

OutboxInit ==
  /\ backend \in Backends
  /\ prefix \in Prefixes
  /\ row    = [k \in Events |-> NoRow]
  /\ claims = [k \in Events |-> 0]
  /\ jobs   = <<>>
  /\ pc     = [a \in Actors |-> "idle"]
  /\ todo   = [w \in Workers |-> {}]
  /\ mine   = [p \in Processors |-> {}]
  /\ cur    = [a \in Actors |-> Nobody]
  /\ goal   = [r \in Reapers |-> "none"]
  /\ events = {}
  /\ budget \in Budgets

-----------------------------------------------------------------------------
(* Rows. *)

Happens(e) ==
  /\ budget[e] > 0
  /\ budget' = [budget EXCEPT ![e] = @ - 1]
  /\ events' = events \cup {e}

Ref(k) == [event |-> k, id |-> row[k].id, attempt |-> row[k].attempt, claim |-> row[k].claim]

With(s) == {k \in Events : row[k].status = s}

PutKeepsClaim(e, status, attempt) ==
  row' = IF row[e.event].id = e.id
           THEN [row EXCEPT ![e.event] = [@ EXCEPT !.status = status, !.attempt = attempt]]
           ELSE row

\* UPDATE ... WHERE id = ?, whatever the row's status and claim have become.
Put(e, status, attempt) ==
  row' = IF row[e.event].id = e.id
           THEN [row EXCEPT ![e.event] = [@ EXCEPT !.status = status, !.attempt = attempt,
                                                   !.claim = 0, !.stale = FALSE]]
           ELSE row

\* What update_outbox_status does: the attempt is left as it is.
PutStatus(e, status) == Put(e, status, row[e.event].attempt)

Take(k) == [row[k] EXCEPT !.status = "PROCESSING", !.claim = claims[k] + 1, !.stale = FALSE]

-----------------------------------------------------------------------------
(* check_intel_triggered_reassessment *)

\* The duplicate check lists PENDING and RETRYING rows only.
Staged(k) == row[k].status \in {"PENDING", "RETRYING"}

CheckDuplicate(m) ==
  /\ pc[m] = "idle"
  /\ Happens("announce")
  /\ \E k \in Events :
       IF Staged(k)
         THEN UNCHANGED <<pc, cur>>
         ELSE /\ pc'  = [pc EXCEPT ![m] = "save"]
              /\ cur' = [cur EXCEPT ![m] = Ref(k)]
  /\ UNCHANGED <<backend, prefix, tableVars, todo, mine, goal>>

\* save_outbox_event: INSERT OR REPLACE gives a new row; PostgreSQL resets the old one.
NewId(k) == IF backend = "postgres" /\ row[k].id > 0 THEN row[k].id ELSE row[k].id + 1

SaveEvent(m) ==
  /\ pc[m] = "save"
  /\ LET k == cur[m].event
     IN  /\ row' = [row EXCEPT ![k] = [id |-> NewId(k), status |-> "PENDING", attempt |-> 1,
                                       claim |-> 0, stale |-> FALSE]]
         /\ claims' = [claims EXCEPT ![k] = 0]
  /\ pc'  = [pc EXCEPT ![m] = "idle"]
  /\ cur' = [cur EXCEPT ![m] = Nobody]
  /\ UNCHANGED <<backend, prefix, jobs, todo, mine, goal, histVars>>

-----------------------------------------------------------------------------
(* process_intel_reassessment_queue_task on SQLite. *)

ListPending(p) ==
  /\ backend = "sqlite"
  /\ pc[p] = "idle" /\ With("PENDING") # {}
  /\ pc'   = [pc EXCEPT ![p] = "claim"]
  /\ todo' = [todo EXCEPT ![p] = {Ref(k) : k \in With("PENDING")}]
  /\ UNCHANGED <<backend, prefix, tableVars, mine, cur, goal, histVars>>

SameRow(e) == row[e.event].id = e.id

\* UPDATE ... WHERE id = ? AND status = 'PENDING'
Claimable(e) == SameRow(e) /\ row[e.event].status = "PENDING"

ClaimEvent(p) ==
  /\ pc[p] = "claim"
  /\ \E e \in todo[p] :
       /\ todo' = [todo EXCEPT ![p] = @ \ {e}]
       /\ IF Claimable(e)
            THEN /\ row'    = [row EXCEPT ![e.event] = Take(e.event)]
                 /\ claims' = [claims EXCEPT ![e.event] = @ + 1]
                 /\ mine'   = [mine EXCEPT ![p] = @ \cup {e}]
            ELSE UNCHANGED <<row, claims, mine>>
  /\ UNCHANGED <<backend, prefix, jobs, pc, cur, goal, histVars>>

\* The rows are read again by id: one that was replaced is gone.
Loaded(p) == {Ref(k) : k \in {e.event : e \in {f \in mine[p] : SameRow(f)}}}

Load(p) ==
  /\ pc[p] = "claim" /\ todo[p] = {}
  /\ todo' = [todo EXCEPT ![p] = Loaded(p)]
  /\ mine' = [mine EXCEPT ![p] = {}]
  /\ pc'   = [pc EXCEPT ![p] = IF Loaded(p) = {} THEN "idle" ELSE "next"]
  /\ UNCHANGED <<backend, prefix, tableVars, cur, goal, histVars>>

NextEvent(p) ==
  /\ pc[p] = "next"
  /\ \E e \in todo[p] :
       /\ cur'  = [cur EXCEPT ![p] = e]
       /\ todo' = [todo EXCEPT ![p] = @ \ {e}]
  /\ pc' = [pc EXCEPT ![p] = "check"]
  /\ UNCHANGED <<backend, prefix, tableVars, mine, goal, histVars>>

\* The loop goes on, or the task ends.
Done(p) ==
  /\ pc'  = [pc EXCEPT ![p] = IF todo[p] = {} THEN "idle" ELSE "next"]
  /\ cur' = [cur EXCEPT ![p] = Nobody]
  /\ UNCHANGED <<todo, mine, goal>>

\* No asset: FAILED.  Monitoring is off or paused, or no authorization: SKIPPED.
Refuse(p) ==
  /\ pc[p] = "check"
  /\ Happens("refuse")
  /\ \E s \in {"FAILED", "SKIPPED"} : PutStatus(cur[p], s)
  /\ Done(p)
  /\ UNCHANGED <<backend, prefix, claims, jobs>>

\* The scan is saved as pending; nothing reads it before its job is there.
SaveScan(p) ==
  /\ pc[p] = "check"
  /\ pc' = [pc EXCEPT ![p] = "job"]
  /\ UNCHANGED <<backend, prefix, tableVars, todo, mine, cur, goal, histVars>>

CreateJob(p) ==
  /\ pc[p] = "job"
  /\ jobs' = Append(jobs, [event |-> cur[p].event, id |-> cur[p].id, by |-> p,
                           status |-> "live", sent |-> FALSE])
  /\ pc'   = [pc EXCEPT ![p] = "send"]
  /\ UNCHANGED <<backend, prefix, row, claims, todo, mine, cur, goal, histVars>>

\* The job that p created and has not yet published.
Unsent(p) == {n \in DOMAIN jobs : jobs[n].by = p /\ ~jobs[n].sent}

NewestOf(N) == CHOOSE n \in N : \A m \in N : m <= n

Send(p) ==
  /\ pc[p] = "send"
  /\ jobs' = [jobs EXCEPT ![NewestOf(Unsent(p))].sent = TRUE]
  /\ pc'   = [pc EXCEPT ![p] = "deliver"]
  /\ UNCHANGED <<backend, prefix, row, claims, todo, mine, cur, goal, histVars>>

Deliver(p) ==
  /\ pc[p] = "deliver"
  /\ PutStatus(cur[p], "DELIVERED")
  /\ pc' = [pc EXCEPT ![p] = "audit"]
  /\ UNCHANGED <<backend, prefix, claims, jobs, todo, mine, cur, goal, histVars>>

Audit(p) ==
  /\ pc[p] = "audit"
  /\ Done(p)
  /\ UNCHANGED <<backend, prefix, tableVars, histVars>>

\* Any call of the try block may raise, the audit record after DELIVERED included.
Raise(p) ==
  /\ pc[p] \in {"check", "job", "send", "deliver", "audit"}
  /\ Happens("error")
  /\ pc' = [pc EXCEPT ![p] = "failed"]
  /\ UNCHANGED <<backend, prefix, tableVars, todo, mine, cur, goal>>

\* Try again or give up, by the attempt that was loaded.
Again(e, last) ==
  IF e.attempt < last THEN Put(e, "PENDING", e.attempt + 1)
                      ELSE PutStatus(e, "DEAD_LETTER")

BackOff(p) ==
  /\ pc[p] = "failed"
  /\ Again(cur[p], MaxAttempts)
  /\ Done(p)
  /\ UNCHANGED <<backend, prefix, claims, jobs, histVars>>

\* The update of the handler raises, too: except Exception: pass.
BackOffFails(p) ==
  /\ pc[p] = "failed"
  /\ Happens("error")
  /\ Done(p)
  /\ UNCHANGED <<backend, prefix, tableVars>>

-----------------------------------------------------------------------------
(* recover_stale_outbox_events_task on SQLite. *)

StaleWithRetries == {k \in With("PROCESSING") : row[k].stale /\ row[k].attempt < MaxAttempts}

Stale == {k \in With("PROCESSING") : row[k].stale}

\* A run that starts while another one is not over is an event.
Starts(r) ==
  IF \A s \in Reapers \ {r} : pc[s] = "idle" THEN UNCHANGED histVars ELSE Happens("overlap")

ListStale(r) ==
  /\ backend = "sqlite"
  /\ pc[r] = "idle" /\ Stale # {}
  /\ Starts(r)
  /\ pc'   = [pc EXCEPT ![r] = "lease"]
  /\ todo' = [todo EXCEPT ![r] = {Ref(k) : k \in Stale}]
  /\ UNCHANGED <<backend, prefix, tableVars, mine, cur, goal>>

\* SET claimed_by = ? WHERE id = ? AND status = 'PROCESSING' AND claimed_at = ?: nothing
\* in the WHERE clause changes, so a second reaper takes the lease as well.
Leased(e) ==
  /\ SameRow(e) /\ row[e.event].status = "PROCESSING"
  /\ row[e.event].claim = e.claim

Lease(r) ==
  /\ pc[r] = "lease"
  /\ \E e \in todo[r] :
       /\ todo' = [todo EXCEPT ![r] = @ \ {e}]
       /\ IF Leased(e)
            THEN /\ pc'  = [pc EXCEPT ![r] = "verdict"]
                 /\ cur' = [cur EXCEPT ![r] = e]
            ELSE /\ pc'  = [pc EXCEPT ![r] = IF todo[r] = {e} THEN "idle" ELSE "lease"]
                 /\ UNCHANGED cur
  /\ UNCHANGED <<backend, prefix, tableVars, mine, goal, histVars>>

JobsOfTenant(k) == DOMAIN jobs

\* requested_by holds the key's prefix: this may be the job of another event.
JobsLike(k) == {n \in DOMAIN jobs : prefix[jobs[n].event] = prefix[k]}

Unchecked(k) == FALSE

\* The latest such job counts unless it is retrying, failed or cancelled; a scan without
\* a job is pending, which is not among the statuses that count.
AlreadyScanned(k) ==
  /\ JobsLike(k) # {}
  /\ jobs[NewestOf(JobsLike(k))].status = "live"

Verdict(r) ==
  /\ pc[r] = "verdict"
  /\ goal' = [goal EXCEPT ![r] = IF AlreadyScanned(cur[r].event) THEN "DELIVERED" ELSE "retry"]
  /\ pc'   = [pc EXCEPT ![r] = "write"]
  /\ UNCHANGED <<backend, prefix, tableVars, todo, mine, cur, histVars>>

Recover(r) ==
  /\ pc[r] = "write"
  /\ IF goal[r] = "DELIVERED" THEN PutStatus(cur[r], "DELIVERED")
                              ELSE Again(cur[r], MaxAttempts)
  /\ pc'   = [pc EXCEPT ![r] = IF todo[r] = {} THEN "idle" ELSE "lease"]
  /\ cur'  = [cur EXCEPT ![r] = Nobody]
  /\ goal' = [goal EXCEPT ![r] = "none"]
  /\ UNCHANGED <<backend, prefix, claims, jobs, todo, mine, histVars>>

-----------------------------------------------------------------------------
(* Both tasks on PostgreSQL. *)

\* claim_events with FOR UPDATE SKIP LOCKED; then _get_conn raises and the task ends.
ClaimPostgres(p) ==
  /\ backend = "postgres"
  /\ pc[p] = "idle"
  /\ LET due == With("PENDING") \cup With("RETRYING")
     IN  /\ due # {}
         /\ row' = [k \in Events |-> IF k \in due THEN Take(k) ELSE row[k]]
  /\ UNCHANGED <<backend, prefix, claims, jobs, workVars, histVars>>

\* recover_stale_events: the rows are read ...
ReadStale(r) ==
  /\ backend = "postgres"
  /\ pc[r] = "idle" /\ Stale # {}
  /\ Starts(r)
  /\ pc'   = [pc EXCEPT ![r] = "flush"]
  /\ todo' = [todo EXCEPT ![r] = {Ref(k) : k \in Stale}]
  /\ UNCHANGED <<backend, prefix, tableVars, mine, cur, goal>>

\* ... and written at the flush.
Counted(n) == IF n < AttemptCap THEN n + 1 ELSE AttemptCap

ResetStale(r) ==
  /\ pc[r] = "flush"
  /\ row' = [k \in Events |->
               IF \E e \in todo[r] : e.event = k
                 THEN [row[k] EXCEPT
                        !.status = "RETRYING", !.claim = 0, !.stale = FALSE,
                        !.attempt = Counted((CHOOSE e \in todo[r] : e.event = k).attempt)]
                 ELSE row[k]]
  /\ pc'   = [pc EXCEPT ![r] = "idle"]
  /\ todo' = [todo EXCEPT ![r] = {}]
  /\ UNCHANGED <<backend, prefix, claims, jobs, mine, cur, goal, histVars>>

-----------------------------------------------------------------------------
(* Time, lost processes and the scans. *)

\* A processor still works on the row.
Working(p) ==
  {cur[p]} \cup mine[p] \cup (IF pc[p] = "claim" THEN {} ELSE todo[p])

Held(k) ==
  \E p \in Processors : \E e \in Working(p) : e.event = k /\ e.id = row[k].id

\* claimed_at passes the threshold.  Under a live worker that is an event.
Age(k) ==
  /\ row[k].status = "PROCESSING" /\ ~row[k].stale
  /\ row' = [row EXCEPT ![k].stale = TRUE]
  /\ IF Held(k) THEN Happens("slow") ELSE UNCHANGED histVars
  /\ UNCHANGED <<backend, prefix, claims, jobs, workVars>>

Crash(w) ==
  /\ pc[w] # "idle"
  /\ Happens("crash")
  /\ pc'   = [pc EXCEPT ![w] = "idle"]
  /\ todo' = [todo EXCEPT ![w] = {}]
  /\ mine' = [p \in Processors |-> IF p = w THEN {} ELSE mine[p]]
  /\ cur'  = [cur EXCEPT ![w] = Nobody]
  /\ goal' = [r \in Reapers |-> IF r = w THEN "none" ELSE goal[r]]
  /\ UNCHANGED <<backend, prefix, tableVars>>

\* A published job fails, is cancelled or is put back to retrying.
ScanFails(n) ==
  /\ jobs[n].status = "live" /\ jobs[n].sent
  /\ Happens("scanfail")
  /\ jobs' = [jobs EXCEPT ![n].status = "failed"]
  /\ UNCHANGED <<backend, prefix, row, claims, workVars>>

-----------------------------------------------------------------------------
ProcessorStep(p) ==
  \/ ListPending(p)
  \/ ClaimEvent(p)
  \/ Load(p)
  \/ NextEvent(p)
  \/ Refuse(p)
  \/ SaveScan(p)
  \/ CreateJob(p)
  \/ Send(p)
  \/ Deliver(p)
  \/ Audit(p)
  \/ BackOff(p)
  \/ BackOffFails(p)
  \/ ClaimPostgres(p)

ReaperStep(r) ==
  \/ ListStale(r)
  \/ Lease(r)
  \/ Verdict(r)
  \/ Recover(r)
  \/ ReadStale(r)
  \/ ResetStale(r)

OutboxNext ==
  \/ \E m \in Monitors : CheckDuplicate(m) \/ SaveEvent(m)
  \/ \E p \in Processors : ProcessorStep(p)
  \/ \E p \in Processors : Raise(p)
  \/ \E r \in Reapers : ReaperStep(r)
  \/ \E k \in Events : Age(k)
  \/ \E w \in Workers : Crash(w)
  \/ \E n \in DOMAIN jobs : ScanFails(n)

\* Beat starts both tasks again and again, a started request goes on, and time passes.
OutboxFairness ==
  /\ \A m \in Monitors : WF_outboxVars(SaveEvent(m))
  /\ \A p \in Processors : WF_outboxVars(ProcessorStep(p))
  /\ \A r \in Reapers : WF_outboxVars(ReaperStep(r))
  /\ \A k \in Events : WF_outboxVars(Age(k))

OutboxSpec == OutboxInit /\ [][OutboxNext]_outboxVars /\ OutboxFairness

-----------------------------------------------------------------------------
(* Correctness. *)

Row == [id : Nat, status : Status, attempt : Nat, claim : Nat, stale : BOOLEAN]
Reference == [event : Events, id : Nat, attempt : Nat, claim : Nat]
Job == [event : Events, id : Nat, by : Processors, status : {"live", "failed"}, sent : BOOLEAN]
ProcessorPc == {"idle", "claim", "next", "check", "job", "send", "deliver", "audit", "failed"}
ReaperPc    == {"idle", "lease", "verdict", "write", "flush"}

\* A row that is being processed has a claim, only such a row can be stale; a reaper
\* knows what to write when it writes, and an actor that is at work has a row.
OutboxTypeOK ==
  /\ backend \in Backends /\ prefix \in Prefixes
  /\ row \in [Events -> Row]
  /\ \A k \in Events : row[k].status # "PROCESSING" => row[k].claim = 0 /\ ~row[k].stale
  /\ claims \in [Events -> Nat]
  /\ jobs \in Seq(Job)
  /\ \A m \in Monitors : pc[m] \in {"idle", "save"}
  /\ \A p \in Processors : pc[p] \in ProcessorPc
  /\ \A r \in Reapers : pc[r] \in ReaperPc
  /\ todo \in [Workers -> SUBSET Reference]
  /\ mine \in [Processors -> SUBSET Reference]
  /\ cur \in [Actors -> Reference \cup {Nobody}]
  /\ \A r \in Reapers : goal[r] \in (IF pc[r] = "write" THEN {"DELIVERED", "retry"} ELSE {"none"})
  /\ \A p \in Processors : pc[p] = "send" => Unsent(p) # {}
  /\ events \subseteq Happening
  /\ budget \in [Happening -> Nat]

\* On SQLite every claim of an announcement is paid for with an attempt, and there are
\* at most MaxAttempts, whatever crashes, errors and new announcements come between.
\* Only a worker slower than the stale threshold or two reapers at a time break it.
ClaimsPaidFor ==
  backend = "sqlite" /\ events \cap {"slow", "overlap"} = {}
    => \A k \in Events : claims[k] <= row[k].attempt /\ row[k].attempt <= MaxAttempts

SentFor(k, i) == {n \in DOMAIN jobs : jobs[n].event = k /\ jobs[n].id = i /\ jobs[n].sent}

\* An announcement is scanned once although its worker may be lost at any point: recovery
\* finds the job that was created before.  A scan that failed, an exception, a slow worker
\* or two reapers at a time may each lead to a second one.
SingleDispatch ==
  events \cap {"slow", "overlap", "error", "scanfail"} = {}
    => \A k \in Events : \A i \in 1 .. row[k].id : Cardinality(SentFor(k, i)) <= 1

\* A DELIVERED row has a published scan, or one whose worker is about to publish it, of its
\* own event or of one with the same 24 characters.  A worker lost, or an exception, between
\* creating the job and publishing it leaves a job that recovery takes for a published one.
DeliveredIsScanned ==
  \A k \in Events :
    row[k].status = "DELIVERED" =>
      \E n \in DOMAIN jobs :
        /\ prefix[jobs[n].event] = prefix[k]
        /\ \/ jobs[n].sent
           \/ pc[jobs[n].by] = "send"
           \/ events \cap {"crash", "error"} # {}

\* Every announcement ends: dispatched, refused or, its attempts used up, given up.
EventResolved ==
  \A k \in Events : row[k].status = "PENDING" ~> row[k].status \in Resolved

\* On SQLite that is so whatever happens in between; on PostgreSQL it is not.
ResolvedOnSqlite == backend = "sqlite" => EventResolved
=============================================================================
