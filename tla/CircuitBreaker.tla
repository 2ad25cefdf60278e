--------------------------- MODULE CircuitBreaker ---------------------------
(***************************************************************************)
(* The circuit breaker of one integration in one process.  Threads call    *)
(* through it; the state is checked when a call begins and updated when it *)
(* ends, each under the lock, and the network call is made in between      *)
(* without it.  Time is one bit: whether recovery_timeout has passed since *)
(* last_failure_time.                                                      *)
(***************************************************************************)
EXTENDS Naturals

CONSTANTS
  Callers,                  \* threads that export events
  FailureThreshold,
  HalfOpenSuccessThreshold

ASSUME Thresholds ==
  FailureThreshold \in Nat \ {0} /\ HalfOpenSuccessThreshold \in Nat \ {0}

VARIABLES
  state,
  failure_count,
  success_count,
  cooled,         \* recovery_timeout has passed since the last failure
  calls           \* the callers between the two critical sections of call()

breakerVars == <<state, failure_count, success_count, cooled, calls>>

BreakerInit ==
  /\ state = "CLOSED"
  /\ failure_count = 0 /\ success_count = 0
  /\ cooled = TRUE
  /\ calls = {}

-----------------------------------------------------------------------------
Pass ==
  /\ state # "OPEN"
  /\ UNCHANGED <<state, failure_count, success_count>>

ProbeKeepsSuccesses ==
  /\ state = "OPEN" /\ cooled
  /\ state' = "HALF_OPEN"
  /\ UNCHANGED <<success_count, failure_count>>

ProbeFromZero ==
  /\ state = "OPEN" /\ cooled
  /\ state' = "HALF_OPEN"
  /\ success_count' = 0
  /\ failure_count' = 0

Probe ==
  /\ state = "OPEN" /\ cooled
  /\ state' = "HALF_OPEN"
  /\ success_count' = 0
  /\ UNCHANGED failure_count

\* A call that finds the breaker OPEN and not cooled raises and changes nothing.
Begin(c) ==
  /\ c \notin calls
  /\ Pass \/ Probe
  /\ calls' = calls \cup {c}
  /\ UNCHANGED cooled

\* _on_success
OnSuccess(c) ==
  /\ c \in calls
  /\ calls' = calls \ {c}
  /\ IF state = "HALF_OPEN" /\ success_count + 1 >= HalfOpenSuccessThreshold
       THEN state' = "CLOSED" /\ failure_count' = 0 /\ success_count' = 0
       ELSE /\ state' = state
            /\ success_count' = IF state = "HALF_OPEN" THEN success_count + 1 ELSE success_count
            /\ failure_count' = IF state = "CLOSED" THEN 0 ELSE failure_count
  /\ UNCHANGED cooled

\* _on_failure
OnFailure(c) ==
  /\ c \in calls
  /\ calls' = calls \ {c}
  /\ cooled' = FALSE
  /\ failure_count' = failure_count + 1
  /\ state' = IF failure_count + 1 >= FailureThreshold THEN "OPEN" ELSE state
  /\ UNCHANGED success_count

CoolDown ==
  /\ ~cooled
  /\ cooled' = TRUE
  /\ UNCHANGED <<state, failure_count, success_count, calls>>

BreakerNext ==
  \/ \E c \in Callers : Begin(c)
  \/ \E c \in Callers : OnSuccess(c)
  \/ \E c \in Callers : OnFailure(c)
  \/ CoolDown

BreakerSpec == BreakerInit /\ [][BreakerNext]_breakerVars

-----------------------------------------------------------------------------
(* Correctness. *)

BreakerTypeOK ==
  /\ state \in {"CLOSED", "OPEN", "HALF_OPEN"}
  /\ failure_count \in Nat
  /\ success_count \in 0 .. HalfOpenSuccessThreshold - 1
  /\ cooled \in BOOLEAN
  /\ calls \subseteq Callers

\* The counter has reached the threshold exactly when the breaker is not CLOSED.  This is
\* what sends a HALF_OPEN breaker back to OPEN at its first failure, although _on_failure
\* compares the counter in this state too: nothing on the way to HALF_OPEN may reset it.
TrippedByCount == state = "CLOSED" <=> failure_count < FailureThreshold

Abstract == INSTANCE AbstractBreaker
              WITH Probes <- HalfOpenSuccessThreshold,
                   succeeded <- IF state = "HALF_OPEN" THEN success_count ELSE 0

\* The breaker keeps what AbstractBreaker promises, calls that began before it opened and
\* report late included.
BreakerRefines == Abstract!Spec
=============================================================================
