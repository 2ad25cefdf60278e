---------------------------- MODULE MCScheduler ----------------------------
(***************************************************************************)
(* Instances of Scheduler for TLC.                                         *)
(***************************************************************************)
EXTENDS Scheduler, TLC

Times(e, n) == [f \in Event |-> IF f = e THEN n ELSE 0]

NoEvent  == {[e \in Event |-> 0]}
OneEvent == {Times(e, 1) : e \in Event}
OneCrash == {Times("crash", 1)}

Symmetry == Permutations(Dispatchers)
=============================================================================
