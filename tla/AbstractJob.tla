----------------------------- MODULE AbstractJob -----------------------------
(***************************************************************************)
(* What the scan job repository promises to whoever runs jobs, without     *)
(* broker, tasks, requests or sweeps.  A job waits for terms, one after    *)
(* the other.  A term is won by one worker, and only while the job waits   *)
(* for it; whoever has won a term keeps his licence until he is done or    *)
(* lost, be the job his own, put up once more or over.  A job that is over *)
(* comes back, where it is protected, only through a draft: a transaction  *)
(* that read it before it was over.                                        *)
(***************************************************************************)
EXTENDS Naturals

CONSTANTS Jobs, Workers, Free, Protected

VARIABLES
  phase,    \* "none", "waiting", "taken" or "over"
  term,     \* how often a job was put up
  licence,  \* the job and term a worker has won, or Free
  drafts    \* the jobs with a draft

vars == <<phase, term, licence, drafts>>

Init ==
  /\ phase = [j \in Jobs |-> "none"] /\ term = [j \in Jobs |-> 0]
  /\ licence = [w \in Workers |-> Free] /\ drafts = {}

Moves(j, from, to) == phase[j] \in from /\ phase' = [phase EXCEPT ![j] = to]

Win(w, j) ==
  /\ Moves(j, {"waiting"}, "taken")
  /\ licence[w] = Free /\ licence' = [licence EXCEPT ![w] = <<j, term[j]>>]
  /\ UNCHANGED <<term, drafts>>

\* The next term, over the head of whoever won the last one.
PutUp(j) == Moves(j, {"none", "taken"}, "waiting") /\ term' = [term EXCEPT ![j] = @ + 1]

Close(j) == Moves(j, {"waiting", "taken"}, "over") /\ UNCHANGED term

Reopen(j) ==
  /\ Protected => j \in drafts
  /\ Moves(j, {"over"}, "waiting") /\ term' = [term EXCEPT ![j] = @ + 1]

\* Workers are done, lost or killed, several at once by a revocation.
Lose(W) == licence' = [w \in Workers |-> IF w \in W THEN Free ELSE licence[w]]

\* Drafts are written or given up at any time, and begin with a job that is not over.
Drafting == drafts' \subseteq drafts \cup {j \in Jobs : phase[j] # "over"}

Next ==
  \/ \E w \in Workers, j \in Jobs : Win(w, j)
  \/ Drafting /\ UNCHANGED licence /\ \E j \in Jobs : PutUp(j) \/ Close(j) \/ Reopen(j)
  \/ Drafting /\ UNCHANGED <<phase, term>> /\ \E W \in SUBSET Workers : Lose(W)

Spec == Init /\ [][Next]_vars
=============================================================================
