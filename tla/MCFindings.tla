----------------------------- MODULE MCFindings -----------------------------
(***************************************************************************)
(* Instances for TLC of two parts whose requests and tasks save rows whole *)
(* that they have read before: Findings, and the schedules of              *)
(* SchedulerThread.  They share no state: in a behaviour one of them moves.*)
(***************************************************************************)
EXTENDS Findings, SchedulerThread, TLC

CONSTANTS web, u1

VARIABLE mover

\* v requests of analysts, d decisions of admins, s scans, c crashes, t dates that pass.
Times(v, d, s, c, t) ==
  [view |-> v, decide |-> d, scan |-> s, crash |-> c, date |-> t, outrank |-> 0]

\* Analysts against an admin; an analyst against scans; against both tasks; three scans,
\* one of which dies; two decisions; a decision, both tasks and a crash; a request, the
\* checks and a page of other findings.
Few == {Times(2, 1, 0, 0, 0), Times(1, 0, 2, 0, 0), Times(2, 0, 0, 0, 1), Times(1, 0, 1, 0, 1),
        Times(1, 0, 0, 1, 2), Times(1, 0, 1, 1, 0), Times(0, 0, 3, 1, 0), Times(0, 2, 0, 0, 0),
        Times(0, 1, 0, 1, 2), [Times(1, 0, 0, 0, 2) EXCEPT !.outrank = 1]}

Untouched == Times(0, 0, 0, 0, 0)

WithUntouched == Few \cup {Untouched}

\* Both threads of one process, which two first requests have started at once.
SameProcess == [l \in Threads |-> web]

EveryEdit == [Editors -> EditKinds]

RowsInit ==
  /\ FindingsInit /\ ThreadsInit
  /\ mover \in {"findings", "threads"}
  /\ LET unedited == \A e \in Editors : edit[e] = "none"
     IN  IF mover = "findings"
           THEN unedited /\ restarts = 0
           ELSE /\ left = Untouched /\ db = "sqlite" /\ finding = NoFinding
                /\ restarts = 1 <=> unedited

FindingMoves == mover = "findings" /\ FindingsNext /\ UNCHANGED <<threadVars, mover>>

ThreadMoves == mover = "threads" /\ ThreadsNext /\ UNCHANGED <<findingsVars, mover>>

RowsSpec ==
  /\ RowsInit /\ [][FindingMoves \/ ThreadMoves]_<<findingsVars, threadVars, mover>>
  /\ FindingsFairness
=============================================================================
