----------------------------- MODULE MCScanRows -----------------------------
(***************************************************************************)
(* Instances for TLC of ScanRows, with the definitions of MCScanJobs, and  *)
(* of the limiter that the routes ask before they store a scan.  The two   *)
(* share no state: in a behaviour one of them moves.                       *)
(***************************************************************************)
EXTENDS MCScanJobs, ScanRows, RateLimiter

CONSTANTS web, other  \* two processes

VARIABLE limiting

Scene(most, m, cl, n, first, second) ==
  [max_requests |-> most, fail_mode |-> m, clients |-> cl, outages |-> n,
   server |-> [q \in Asks |-> IF q % 2 = 1 THEN first ELSE second]]

NoRedis == Scene(1, "fallback", {}, 0, web, web)

\* The list of one process; Redis for two, with a limit of one and of two; and an outage in
\* each mode.
FewScenes ==
  {NoRedis,
   Scene(1, "fallback", {web, other}, 0, web, other),
   Scene(2, "fallback", {web, other}, 0, web, other),
   Scene(1, "closed", {web}, 1, web, other), Scene(1, "open", {web}, 1, web, web),
   Scene(1, "fallback", {web}, 1, web, web)}

WithNoFault == OneDisturbance \cup NoFault

RoutesInit ==
  /\ ScanRowsInit /\ LimiterInit
  /\ limiting \in BOOLEAN
  /\ IF limiting THEN budget \in NoFault ELSE budget \notin NoFault /\ scene = NoRedis

ScanMoves == ~limiting /\ ScanRowsNext /\ UNCHANGED <<limiterVars, limiting>>

LimiterMoves == limiting /\ LimiterNext /\ UNCHANGED <<rowsVars, limiting>>

RoutesSpec == RoutesInit /\ [][ScanMoves \/ LimiterMoves]_<<rowsVars, limiterVars, limiting>>
=============================================================================
