--------------------------- MODULE AbstractBreaker ---------------------------
(***************************************************************************)
(* What a circuit breaker promises to the callers of an integration,       *)
(* without counting failures or measuring time: no call begins while it is *)
(* OPEN; only a failed call opens it, and any failed call does while it is *)
(* HALF_OPEN; it closes after Probes calls that succeeded since it was     *)
(* last OPEN.                                                              *)
(***************************************************************************)
EXTENDS Naturals

CONSTANTS Callers, Probes

VARIABLES
  state,
  succeeded,  \* calls that succeeded since the breaker became HALF_OPEN
  calls       \* the callers whose call is under way

vars == <<state, succeeded, calls>>

Init == state = "CLOSED" /\ succeeded = 0 /\ calls = {}

\* The cooldown is over: the next call is a probe.
Begin(c) ==
  /\ c \notin calls
  /\ calls' = calls \cup {c}
  /\ IF state = "OPEN"
       THEN state' = "HALF_OPEN" /\ succeeded' = 0
       ELSE UNCHANGED <<state, succeeded>>

Succeed(c) ==
  /\ c \in calls
  /\ calls' = calls \ {c}
  /\ IF state # "HALF_OPEN" THEN UNCHANGED <<state, succeeded>>
     ELSE IF succeeded + 1 < Probes THEN succeeded' = succeeded + 1 /\ UNCHANGED state
     ELSE state' = "CLOSED" /\ succeeded' = 0

Fail(c) ==
  /\ c \in calls
  /\ calls' = calls \ {c}
  /\ succeeded' = 0
  /\ \/ state' = "OPEN"
     \/ state = "CLOSED" /\ UNCHANGED state

Next == \E c \in Callers : Begin(c) \/ Succeed(c) \/ Fail(c)

Spec == Init /\ [][Next]_vars
=============================================================================
