--------------------------- MODULE SchedulerThread ---------------------------
(***************************************************************************)
(* The scheduler thread of the local backend.  The first request of each   *)
(* web process starts one; every minute it lists the schedules, stores the *)
(* time of the run in each that is due and then starts its scan.  Other    *)
(* requests pause, disable and delete schedules.  All of them read the row *)
(* of a schedule and save it whole, INSERT OR REPLACE, in two              *)
(* transactions.  One schedule; the thread does not look at paused_until,  *)
(* so a pause is a save of the row as it was read.                         *)
(***************************************************************************)
EXTENDS Naturals, FiniteSets

CONSTANTS
  Threads,     \* that requests may start
  WebProcesses,
  ProcessOf,   \* the process of a thread
  Editors,     \* requests about the schedule
  Edits,       \* choices of what each of them does
  Period,      \* interval_hours
  LastHour,    \* bound: the clock stops there
  Restarts     \* choices of how many processes are replaced (a bound)

EditKinds == {"pause", "disable", "delete", "none"}

ASSUME ProcessesAssumption == ProcessOf \in [Threads -> WebProcesses]

ASSUME EditsAssumption == Edits \subseteq [Editors -> EditKinds]

ASSUME WhoeverAssumption == Threads \cap Editors = {}

ASSUME HoursAssumption ==
  Period \in Nat \ {0} /\ LastHour \in Nat \ {0} /\ Restarts \subseteq Nat

VARIABLES
  hour,        \* the clock
  entry,       \* the row; last is last_run_at, 0 for none
  running,     \* _running of each process
  turn,        \* where a thread or an editor is
  view,        \* the row as it was read
  moment,      \* of the run a thread saves: its time, and reverts and off at the save
  edit,
  restarts,
  starts,      \* history: scans that were started, with reverts and off at the start
  reverts,     \* history: number of saves that replaced a row not read
  off          \* history: reverts when the schedule was disabled or deleted

threadVars ==
  <<hour, entry, running, turn, view, moment, edit, restarts, starts, reverts, off>>

Whoever == Threads \cup Editors

Entry == [there : BOOLEAN, enabled : BOOLEAN, last : 0..LastHour]
NoEntry == [there |-> FALSE, enabled |-> FALSE, last |-> 0]
Scheduled(row) == row.there /\ row.enabled

Off == [is : BOOLEAN, at : Nat]
NotOff == [is |-> FALSE, at |-> 0]

Moment == [at : 0..LastHour, reverts : Nat, off : Off]
NoMoment == [at |-> 0, reverts |-> 0, off |-> NotOff]

ThreadsInit ==
  /\ hour = 1
  /\ entry = [there |-> TRUE, enabled |-> TRUE, last |-> 0]
  /\ running = [p \in WebProcesses |-> FALSE]
  /\ turn = [x \in Whoever |-> IF x \in Threads THEN "unborn" ELSE "idle"]
  /\ view = [x \in Whoever |-> NoEntry]
  /\ moment = [l \in Threads |-> NoMoment]
  /\ edit \in Edits
  /\ restarts \in Restarts
  /\ starts = {} /\ reverts = 0 /\ off = NotOff

Turns(x, to) == turn' = [turn EXCEPT ![x] = to]

\* What was read does not outlast the round.
Sleeps(l) ==
  /\ Turns(l, "asleep")
  /\ view' = [view EXCEPT ![l] = NoEntry]
  /\ moment' = [moment EXCEPT ![l] = NoMoment]

\* Every save replaces the row, or creates it where it is gone.
Replace(x, row) ==
  /\ entry' = row
  /\ reverts' = IF entry = view[x] THEN reverts ELSE reverts + 1

-----------------------------------------------------------------------------
(* start_scheduler *)

\* Requests that look at once both find no thread running and both start one.
FindNotRunning(l) ==
  /\ turn[l] = "unborn" /\ ~running[ProcessOf[l]]
  /\ Turns(l, "starting")
  /\ UNCHANGED <<hour, entry, running, view, moment, edit, restarts, starts, reverts, off>>

StartThread(l) ==
  /\ turn[l] = "starting"
  /\ running' = [running EXCEPT ![ProcessOf[l]] = TRUE]
  /\ Turns(l, "asleep")
  /\ UNCHANGED <<hour, entry, view, moment, edit, restarts, starts, reverts, off>>

-----------------------------------------------------------------------------
(* _scheduler_loop *)

ListScheduled(l) ==
  /\ turn[l] = "asleep" /\ entry.there
  /\ view' = [view EXCEPT ![l] = entry]
  /\ Turns(l, "compare")
  /\ UNCHANGED <<hour, entry, running, moment, edit, restarts, starts, reverts, off>>

Elapsed(row) == row.last = 0 \/ hour >= row.last + Period

DueEarly(row) == row.enabled /\ (row.last = 0 \/ hour + 1 >= row.last + Period)

Due(row) == row.enabled /\ Elapsed(row)

Compare(l) ==
  /\ turn[l] = "compare"
  /\ IF Due(view[l])
       THEN /\ moment' = [moment EXCEPT ![l].at = hour]
            /\ Turns(l, "save") /\ UNCHANGED view
       ELSE Sleeps(l)
  /\ UNCHANGED <<hour, entry, running, edit, restarts, starts, reverts, off>>

SaveRun(l) ==
  /\ turn[l] = "save"
  /\ Replace(l, [view[l] EXCEPT !.last = moment[l].at])
  /\ moment' = [moment EXCEPT ![l].reverts = reverts', ![l].off = off]
  /\ Turns(l, "start")
  /\ UNCHANGED <<hour, running, view, edit, restarts, starts, off>>

\* An error ends the round.
SaveFails(l) ==
  /\ turn[l] = "save"
  /\ Sleeps(l)
  /\ UNCHANGED <<hour, entry, running, edit, restarts, starts, reverts, off>>

\* Whatever has become of the row since it was saved.
StartScan(l) ==
  /\ turn[l] = "start"
  /\ starts' = starts \cup {[by |-> l, run |-> moment[l], reverts |-> reverts, off |-> off]}
  /\ Sleeps(l)
  /\ UNCHANGED <<hour, entry, running, edit, restarts, reverts, off>>

\* start_async_scan refuses the target or raises: the run is lost until the next is due.
StartFails(l) ==
  /\ turn[l] = "start"
  /\ Sleeps(l)
  /\ UNCHANGED <<hour, entry, running, edit, restarts, starts, reverts, off>>

-----------------------------------------------------------------------------
(* Requests about the schedule, and the offboarding of its tenant. *)

ReadRow(e) ==
  /\ turn[e] = "idle" /\ edit[e] # "none" /\ entry.there
  /\ view' = [view EXCEPT ![e] = entry]
  /\ Turns(e, "edit")
  /\ UNCHANGED <<hour, entry, running, moment, edit, restarts, starts, reverts, off>>

PauseUntil(e) ==
  /\ turn[e] = "edit" /\ edit[e] = "pause"
  /\ Replace(e, view[e])
  /\ Turns(e, "done")
  /\ UNCHANGED <<hour, running, view, moment, edit, restarts, starts, off>>

\* soft_delete_tenant saves the schedules that it has listed as enabled.
Disable(e) ==
  /\ turn[e] = "edit" /\ edit[e] = "disable"
  /\ IF view[e].enabled
       THEN /\ Replace(e, [view[e] EXCEPT !.enabled = FALSE])
            /\ off' = [is |-> TRUE, at |-> reverts']
       ELSE UNCHANGED <<entry, reverts, off>>
  /\ Turns(e, "done")
  /\ UNCHANGED <<hour, running, view, moment, edit, restarts, starts>>

DeleteRow(e) ==
  /\ turn[e] = "edit" /\ edit[e] = "delete"
  /\ entry' = NoEntry
  /\ off' = [is |-> TRUE, at |-> reverts]
  /\ Turns(e, "done")
  /\ UNCHANGED <<hour, running, view, moment, edit, restarts, starts, reverts>>

-----------------------------------------------------------------------------
Of(p) == {l \in Threads : ProcessOf[l] = p}

\* The server replaces a process: the next request that comes starts a thread.
Replaced(p) ==
  /\ restarts > 0 /\ running[p]
  /\ restarts' = restarts - 1
  /\ running' = [running EXCEPT ![p] = FALSE]
  /\ turn' = [x \in Whoever |-> IF x \in Of(p) THEN "unborn" ELSE turn[x]]
  /\ view' = [x \in Whoever |-> IF x \in Of(p) THEN NoEntry ELSE view[x]]
  /\ moment' = [l \in Threads |-> IF l \in Of(p) THEN NoMoment ELSE moment[l]]
  /\ UNCHANGED <<hour, entry, edit, starts, reverts, off>>

HourPasses ==
  /\ hour < LastHour
  /\ hour' = hour + 1
  /\ UNCHANGED <<entry, running, turn, view, moment, edit, restarts, starts, reverts, off>>

ThreadStep(l) ==
  \/ FindNotRunning(l) \/ StartThread(l)
  \/ ListScheduled(l) \/ Compare(l) \/ SaveRun(l) \/ SaveFails(l) \/ StartScan(l) \/ StartFails(l)

EditStep(e) == ReadRow(e) \/ PauseUntil(e) \/ Disable(e) \/ DeleteRow(e)

ThreadsNext ==
  \/ \E l \in Threads : ThreadStep(l)
  \/ \E e \in Editors : EditStep(e)
  \/ \E p \in WebProcesses : Replaced(p)
  \/ HourPasses

ThreadsSpec == ThreadsInit /\ [][ThreadsNext]_threadVars

-----------------------------------------------------------------------------
(* Correctness. *)

\* The shape of the state; the row is that of scheduled_scans.
ThreadsTypeOK ==
  /\ hour \in 1..LastHour
  /\ entry \in Entry
  /\ running \in [WebProcesses -> BOOLEAN]
  /\ turn \in [Whoever -> {"unborn", "starting", "asleep", "compare", "save", "start",
                          "idle", "edit", "done"}]
  /\ view \in [Whoever -> Entry]
  /\ moment \in [Threads -> Moment]
  /\ edit \in [Editors -> EditKinds]
  /\ restarts \in Nat /\ reverts \in Nat
  /\ off \in Off
  /\ starts \subseteq [by : Threads, run : Moment, reverts : Nat, off : Off]

\* However many threads the web processes run, the runs of the scans that they start were
\* stored at least an interval apart, unless between the two, or with the later, somebody
\* saved a row that was no longer the one he had read: nothing but last_run_at, saved
\* before the scan is started, keeps the threads apart.  A scan may start later than its
\* run was stored, by as long as its thread was held up.
OnePerInterval ==
  \A s, t \in starts :
    s.run.at <= t.run.at /\ t.run.at < s.run.at + Period /\ s # t =>
      s.run.reverts # t.run.reverts

\* It went off after the run had been stored and before its scan was started.
CaughtBetween(s) == s.run.off # s.off

\* A schedule that was deleted, or disabled with its tenant, stays so and no scan of it is
\* started any more, unless somebody saved it since who had read it before, or the thread
\* had stored the run already: that is one scan of a thread at most each time it goes off.
StaysOff ==
  /\ off.is /\ Scheduled(entry) => reverts > off.at
  /\ \A s \in starts : s.off.is => s.reverts > s.off.at \/ CaughtBetween(s)
  /\ \A s, t \in starts :
       CaughtBetween(s) /\ CaughtBetween(t) /\ s.by = t.by /\ s.off = t.off => s = t
=============================================================================
