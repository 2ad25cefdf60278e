----------------------------- MODULE MCServices -----------------------------
(***************************************************************************)
(* Instances for TLC of what Beat and the local backend start: the         *)
(* dispatcher of Scheduler, the syncs of the vulnerability feeds, which    *)
(* SyncLock lets in and whose records are those of Enrichment, and the     *)
(* tasks of LocalBackend.  The parts share no state: in a behaviour one of *)
(* them moves.                                                             *)
(***************************************************************************)
EXTENDS MCScheduler, SyncLock, Enrichment, LocalBackend

CONSTANTS
  a, b, c, web, worker,    \* three syncs of two processes
  r1, r2, r3, t1, t2       \* three requests about local scans, and two tasks

VARIABLE part

AtMostOne == NoEvent \cup OneEvent

Homes == (a :> web) @@ (b :> web) @@ (c :> worker)

Mishap(e, o, l, d) == [expiry |-> e, outage |-> o, lost |-> l, crash |-> d]

FewMishaps ==
  {Mishap(0, 0, 0, 0), Mishap(2, 1, 1, 0), Mishap(1, 1, 0, 1), Mishap(1, 0, 1, 1),
   Mishap(2, 2, 0, 0)}

Beginning(f, s, p, k) ==
  [feed |-> f, allowance |-> [sync |-> s, publish |-> p, backfill |-> k]]

\* Nothing; a chain of three pages beside a sync; beside two of them; two syncs and a
\* changing feed.
FewBeginnings ==
  {Beginning(<<"absent", "absent", "absent">>, 0, 0, 0),
   Beginning(<<"none", "none", "none">>, 1, 0, 1),
   Beginning(<<"none", "none", "none">>, 2, 0, 1),
   Beginning(<<"none", "feed", "absent">>, 2, 1, 0),
   Beginning(<<"none", "none", "absent">>, 2, 1, 0),
   Beginning(<<"none", "none", "absent">>, 1, 1, 1),
   Beginning(<<"none", "absent", "absent">>, 2, 1, 1)}

Plan(x, y, z) == (r1 :> x) @@ (r2 :> y) @@ (r3 :> z)

\* What may happen to the scans of one or two requests that start one.
FewPlans ==
  {Plan("none", "none", "none"),
   Plan("submit", "retry", "cancel"), Plan("submit", "cancel", "delete"),
   Plan("schedule", "retry", "delete"), Plan("submit", "schedule", "cancel"),
   Plan("schedule", "retry", "cancel")}

Idle(p) ==
  CASE p = "schedule" -> \A e \in Event : budget[e] = 0
    [] p = "lock" -> ~required /\ up /\ \A e \in Trouble : trouble[e] = 0
    [] p = "records" -> \A e \in DOMAIN allowance : allowance[e] = 0
    [] p = "local" -> \A r \in Requests : plan[r] = "none"

Parts == {"schedule", "lock", "records", "local"}

ServicesInit ==
  /\ Init /\ LockInit /\ EnrichmentInit /\ LocalInit
  /\ part \in Parts /\ ~Idle(part)
  /\ \A p \in Parts \ {part} : Idle(p)

Dispatches ==
  /\ part = "schedule" /\ Next
  /\ UNCHANGED <<lockVars, enrichmentVars, localVars, part>>

Enters ==
  /\ part = "lock" /\ LockNext
  /\ UNCHANGED <<vars, enrichmentVars, localVars, part>>

Writes ==
  /\ part = "records" /\ EnrichmentNext
  /\ UNCHANGED <<vars, lockVars, localVars, part>>

Executes ==
  /\ part = "local" /\ LocalNext
  /\ UNCHANGED <<vars, lockVars, enrichmentVars, part>>

ServicesSpec ==
  ServicesInit
  /\ [][Dispatches \/ Enters \/ Writes \/ Executes]_<<vars, lockVars, enrichmentVars,
                                                     localVars, part>>
=============================================================================
