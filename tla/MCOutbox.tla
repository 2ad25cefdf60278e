------------------------------ MODULE MCOutbox ------------------------------
(***************************************************************************)
(* Instances of Outbox for TLC, and beside it the circuit breaker through  *)
(* which the same processes export other rows of the table.  The two share *)
(* no state: in a behaviour one of them moves.                             *)
(***************************************************************************)
EXTENDS Outbox, CircuitBreaker, TLC

CONSTANT Exports  \* bound on the calls through the breaker

VARIABLE exports  \* the calls that are left

Times(n, d, l) == [e \in Happening |-> IF e = "announce" THEN n ELSE
                                     (IF e = d THEN 1 ELSE 0) + (IF e = l THEN 1 ELSE 0)]

Disturbance == Happening \ {"announce"}

Nothing == [e \in Happening |-> 0]

\* One announcement and any two disturbances; or two, one after the other or of two
\* events, and one disturbance; or none, where the breaker moves.
Scenarios == {Nothing}
               \cup {Times(1, d, l) : d \in Disturbance, l \in Disturbance}
               \cup {Times(2, d, "announce") : d \in Disturbance}

JustAnnounced == {[e \in Happening |-> IF e = "announce" THEN 1 ELSE 0]}

SameStart == [k \in Events |-> CHOOSE e \in Events : TRUE]
Distinct  == [k \in Events |-> k]
BothPrefixes == {SameStart, Distinct}

Quiet == \A e \in Happening : budget[e] = 0

Init ==
  /\ OutboxInit /\ BreakerInit
  /\ exports \in {0, Exports}
  /\ exports = 0 <=> ~Quiet

\* The calls that a step begins.
Begun == Cardinality(calls' \ calls)

Export ==
  /\ BreakerNext
  /\ Begun <= exports /\ exports' = exports - Begun
  /\ UNCHANGED outboxVars

Reassess == OutboxNext /\ UNCHANGED <<breakerVars, exports>>

Spec == Init /\ [][Reassess \/ Export]_<<outboxVars, breakerVars, exports>> /\ OutboxFairness
=============================================================================
