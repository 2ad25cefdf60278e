-------------------------- MODULE SchedulerProofs --------------------------
(***************************************************************************)
(* Theorems about Scheduler: type correctness, and on PostgreSQL one job   *)
(* per slot, no wedged schedule and no run tied to another slot's job, for *)
(* any number of dispatchers, requests and slots.                          *)
(***************************************************************************)
EXTENDS Scheduler, TLAPS

\* A dispatcher past its claim holds an id that was drawn for a slot, as does every
\* job; a slot is free or taken by such an id.
Owned ==
  /\ \A d \in Dispatchers :
       /\ pc[d] \in {"advance", "scan", "job", "link", "send", "final"} => claim[d] # None
       /\ claim[d] # None => slotOf[claim[d]] # None
  /\ \A t \in Slot : Claimed(t) => runs[t].id # None
  /\ \A n \in Claims : job[n] # "none" => slotOf[n] # None

TypeInv == TypeOK /\ Owned

USE DEF Actors, dbVars, ctlVars, sweepVars, histVars

LEMMA RecordTypes ==
  /\ NoRun \in Run /\ NoRow \in Row /\ NoCopy \in Copy
  /\ None \notin Claims /\ None \notin Slot
<1>1. Slot \subseteq Nat /\ 0 \in Slot /\ 0 \in 0 .. Horizon
  BY SchedulerKinds DEF Slot
<1>2. None \notin Claims /\ None \notin Slot
  BY <1>1, SchedulerKinds
<1>3. NoRun \in Run /\ NoRow \in Row /\ NoCopy \in Copy
  BY <1>1 DEF NoRun, NoRow, NoCopy, Run, Row, Copy, RunStatus, Pause
<1>. QED BY <1>2, <1>3

LEMMA TypeInit == Init => TypeInv
  BY SchedulerKinds, RecordTypes DEF Init, TypeInv, TypeOK, Owned, Claimed, Run, Row, Slot,
     Pause, Copy, Event, NoRun, NoCopy, RunStatus, JobStatus, Saving

\* What the variables range over.
LEMMA Functions ==
  ASSUME TypeInv
  PROVE  /\ pc \in [Actors -> Saving \cup {"idle", "claim", "scan", "job", "link", "send"}]
         /\ copy \in [Actors -> Copy] /\ claim \in [Dispatchers -> Claims \cup {None}]
         /\ seen \in [Actors -> Row \cup {Unread}] /\ runs \in [Slot -> Run]
         /\ slotOf \in [Claims -> Slot \cup {None}] /\ row \in Row /\ scans \in Seq(Claims)
         /\ todo \subseteq [slot : Slot, id : Claims, job : Claims \cup {None}]
         /\ job \in [Claims -> JobStatus] /\ now \in 0 .. Horizon
         /\ events \subseteq Event /\ budget \in [Event -> Nat]
         /\ hand \in Finding \cup {None}
         /\ updates \subseteq RunUpdate
BY DEF TypeInv, TypeOK

\* The latest of the schedule's scans is a claim's.
LEMMA LatestScan ==
  ASSUME TypeInv, scans # <<>> PROVE Last(scans) \in Claims
BY Functions DEF Last

USE DEF TypeInv, TypeOK

\* The end of a task or request keeps the control state in shape.
CtlTypes ==
  /\ pc \in [Actors -> Saving \cup {"idle", "claim", "scan", "job", "link", "send"}]
  /\ copy   \in [Actors -> Copy]
  /\ claim  \in [Dispatchers -> Claims \cup {None}]
  /\ seen   \in [Actors -> Row \cup {Unread}]
  /\ seenRun \in [Dispatchers -> RunStatus \cup {"none", "gone"}]

LEMMA RestTypes ==
  ASSUME TypeInv, NEW a \in Actors, Rest(a)
  PROVE  /\ CtlTypes'
         /\ \A d \in Dispatchers : d # a => pc'[d] = pc[d] /\ claim'[d] = claim[d]
         /\ \A d \in Dispatchers : d = a => pc'[d] = "idle" /\ claim'[d] = None
  BY RecordTypes DEF Rest, CtlTypes, Saving

LEMMA GoOnTypes ==
  ASSUME TypeInv, NEW a \in Actors, GoOn(a), pc[a] \in Saving
  PROVE  /\ CtlTypes'
         /\ \A d \in Dispatchers : d # a => pc'[d] = pc[d] /\ claim'[d] = claim[d]
         /\ \A d \in Dispatchers : d = a =>
              \/ pc'[d] = "idle" /\ claim'[d] = None
              \/ pc'[d] = "claim" /\ claim'[d] = claim[d]
              \/ pc[d] = "advance" /\ pc'[d] = "scan" /\ claim'[d] = claim[d]
<1>1. CASE AfterSave(a) = "idle"
  BY <1>1, RestTypes DEF GoOn
<1>2. CASE AfterSave(a) # "idle"
  <2>1. /\ AfterSave(a) = "claim" \/ (AfterSave(a) = "scan" /\ pc[a] = "advance")
        /\ pc' = [pc EXCEPT ![a] = AfterSave(a)]
        /\ seen' = [seen EXCEPT ![a] = Unread]
        /\ UNCHANGED <<copy, claim, seenRun>>
    BY <1>2 DEF GoOn, AfterSave
  <2>. QED BY <2>1 DEF CtlTypes
<1>. QED BY <1>1, <1>2

\* Control moves that touch nothing in the database keep what is owned.
LEMMA OwnedKept ==
  ASSUME TypeInv, runs' = runs, slotOf' = slotOf, job' = job,
         \A d \in Dispatchers :
           \/ pc'[d] = pc[d] /\ claim'[d] = claim[d]
           \/ pc'[d] = "idle" /\ claim'[d] = None
           \/ pc'[d] = "claim" /\ claim'[d] = claim[d]
           \/ pc[d] = "advance" /\ pc'[d] = "scan" /\ claim'[d] = claim[d]
  PROVE  Owned'
  BY DEF Owned, Claimed

LEMMA TypeSaveRead ==
  ASSUME TypeInv, NEW a \in Actors, SaveRead(a) PROVE TypeInv'
<1>1. TypeOK'
  BY DEF SaveRead
<1>2. Owned'
  BY OwnedKept DEF SaveRead
<1>. QED BY <1>1, <1>2

LEMMA FlushedType ==
  ASSUME TypeInv, NEW a \in Actors, pc[a] \in Saving, seen[a] # Unread
  PROVE  CopyRow(a) \in Row /\ Flushed(a) \in Row
  BY DEF CopyRow, Flushed, Overwrite, Row, Copy, Slot

LEMMA CopyRowType ==
  ASSUME TypeInv, NEW a \in Actors PROVE CopyRow(a) \in Row
  BY DEF CopyRow, Row, Copy

LEMMA TypeSaveWrite ==
  ASSUME TypeInv, NEW a \in Actors, SaveWrite(a) PROVE TypeInv'
<1>1. CtlTypes' /\ \A d \in Dispatchers :
           \/ pc'[d] = pc[d] /\ claim'[d] = claim[d]
           \/ pc'[d] = "idle" /\ claim'[d] = None
           \/ pc'[d] = "claim" /\ claim'[d] = claim[d]
           \/ pc[d] = "advance" /\ pc'[d] = "scan" /\ claim'[d] = claim[d]
  <2>1. CASE Rest(a)
    BY <2>1, RestTypes
  <2>2. CASE GoOn(a)
    BY <2>2, GoOnTypes DEF SaveWrite
  <2>. QED BY <2>1, <2>2 DEF SaveWrite
<1>2. row' \in Row
  BY FlushedType, CopyRowType DEF SaveWrite
<1>3. runs' \in [Slot -> Run] /\ (runs' = runs \/ \A t \in Slot : ~Claimed(t)')
  <2>1. CASE Backend = "postgres"
    BY <2>1 DEF SaveWrite
  <2>2. CASE Backend # "postgres"
    BY <2>2, RecordTypes DEF SaveWrite, Claimed
  <2>. QED BY <2>1, <2>2
<1>4. UNCHANGED <<now, scans, job, slotOf, sweepVars, crossed, histVars>>
  BY DEF SaveWrite
<1>5. TypeOK'
  BY <1>1, <1>2, <1>3, <1>4 DEF CtlTypes
<1>6. Owned'
  BY <1>1, <1>3, <1>4 DEF Owned, Claimed
<1>. QED BY <1>5, <1>6

LEMMA TypeStart ==
  ASSUME TypeInv, NEW d \in Dispatchers, Start(d) PROVE TypeInv'
<1>1. TypeOK'
  BY DEF Start, Copy, Row, Saving, Pause
<1>2. Owned'
  BY DEF Start, Owned, Claimed
<1>. QED BY <1>1, <1>2

\* The time to run next is a slot.
LEMMA NextRunType ==
  ASSUME TypeInv, NEW d \in Dispatchers PROVE NextRun(d) \in Slot /\ copy[d].next \in Slot
<1>. HIDE DEF TypeInv, TypeOK
<1>. QED BY Functions, SchedulerKinds DEF NextRun, Slot, Copy

LEMMA TypeClaim ==
  ASSUME TypeInv, NEW d \in Dispatchers, Claim(d) PROVE TypeInv'
<1>. DEFINE t == copy[d].next
<1>1. CASE MayInsert(t)
  <2>1. PICK n \in Claims :
          /\ slotOf[n] = None
          /\ slotOf' = [slotOf EXCEPT ![n] = t]
          /\ runs'   = [runs EXCEPT ![t] = [id |-> n, status |-> "dispatched",
                                            job |-> None, at |-> now]]
          /\ claim'  = [claim EXCEPT ![d] = n]
          /\ copy'   = [copy EXCEPT ![d].next = NextRun(d)]
          /\ pc'     = [pc EXCEPT ![d] = "advance"]
          /\ UNCHANGED <<seen, seenRun>>
    BY <1>1 DEF Claim
  <2>2. UNCHANGED <<now, row, scans, job, sweepVars, crossed, histVars>>
    BY DEF Claim
  <2>3. t \in Slot /\ NextRun(d) \in Slot /\ n # None /\ t # None
    BY NextRunType, RecordTypes
  <2>4. runs' \in [Slot -> Run] /\ copy' \in [Actors -> Copy]
    <3>1. [id |-> n, status |-> "dispatched", job |-> None, at |-> now] \in Run
      BY DEF Run, RunStatus
    <3>2. [copy[d] EXCEPT !.next = NextRun(d)] \in Copy
      <4>1. copy[d] \in Copy
        OBVIOUS
      <4>. HIDE DEF TypeInv, TypeOK
      <4>. QED BY <2>3, <4>1 DEF Copy
    <3>3. copy' = [copy EXCEPT ![d] = [copy[d] EXCEPT !.next = NextRun(d)]]
      BY <2>1
    <3>. QED BY <2>1, <2>3, <3>1, <3>2, <3>3
  <2>5. TypeOK'
    <3>1. /\ slotOf' \in [Claims -> Slot \cup {None}]
          /\ claim' \in [Dispatchers -> Claims \cup {None}]
          /\ pc' \in [Actors -> Saving \cup {"idle", "claim", "scan", "job", "link", "send"}]
      BY <2>1, <2>3 DEF Saving
    <3>. QED BY <2>1, <2>2, <2>4, <3>1
  <2>6. /\ \A m \in Claims : slotOf[m] # None => slotOf'[m] # None
        /\ slotOf'[n] # None /\ job' = job
    BY <2>1, <2>2, <2>3
  <2>7. \A e \in Dispatchers : e # d => pc'[e] = pc[e] /\ claim'[e] = claim[e]
    BY <2>1
  <2>8. \A e \in Dispatchers :
          /\ pc'[e] \in {"advance", "scan", "job", "link", "send", "final"} => claim'[e] # None
          /\ claim'[e] # None => slotOf'[claim'[e]] # None
    BY <2>1, <2>3, <2>6, <2>7 DEF Owned
  <2>9. \A s \in Slot : Claimed(s)' => runs'[s].id # None
    BY <2>1, <2>3 DEF Owned, Claimed
  <2>. QED BY <2>5, <2>6, <2>8, <2>9 DEF Owned
<1>2. CASE ~MayInsert(t)
  <2>1. Rest(d) /\ UNCHANGED <<runs, slotOf>> /\ UNCHANGED <<now, row, scans, job, sweepVars, crossed, histVars>>
    BY <1>2 DEF Claim
  <2>2. TypeOK'
    BY <2>1, RestTypes DEF CtlTypes
  <2>. QED BY <2>1, <2>2, RestTypes, OwnedKept
<1>. QED BY <1>1, <1>2

LEMMA TypeSaveScan ==
  ASSUME TypeInv, NEW d \in Dispatchers, SaveScan(d) PROVE TypeInv'
<1>1. claim[d] \in Claims
  BY DEF SaveScan, Goto, Owned
<1>2. TypeOK'
  <2>1. scans' \in Seq(Claims)
    BY <1>1, Functions DEF SaveScan
  <2>2. pc' \in [Actors -> Saving \cup {"idle", "claim", "scan", "job", "link", "send"}]
    BY DEF SaveScan, Goto
  <2>. QED BY <2>1, <2>2 DEF SaveScan
<1>3. Owned'
  BY DEF SaveScan, Goto, Owned, Claimed
<1>. QED BY <1>2, <1>3

LEMMA TypeCreateJob ==
  ASSUME TypeInv, NEW d \in Dispatchers, CreateJob(d) PROVE TypeInv'
<1>1. claim[d] \in Claims /\ slotOf[claim[d]] # None
  BY DEF CreateJob, Goto, Owned
<1>2. TypeOK'
  BY <1>1 DEF CreateJob, Goto, JobStatus
<1>3. Owned'
  BY <1>1 DEF CreateJob, Goto, Owned, Claimed
<1>. QED BY <1>2, <1>3

LEMMA TypeLinkRead ==
  ASSUME TypeInv, NEW d \in Dispatchers, LinkRead(d) PROVE TypeInv'
<1>1. claim[d] \in Claims /\ slotOf[claim[d]] \in Slot
  BY DEF LinkRead, Owned
<1>2. TypeOK'
  BY <1>1 DEF LinkRead, Run
<1>3. Owned'
  BY DEF LinkRead, Owned, Claimed
<1>. QED BY <1>2, <1>3

\* A link writes into one run, and leaves it the run of its claim.
LEMMA LinkRuns ==
  ASSUME TypeInv, NEW d \in Dispatchers, LinkWrite(d)
  PROVE  /\ runs' \in [Slot -> Run]
         /\ \A t \in Slot : runs'[t].id = runs[t].id
         /\ \A t \in Slot : Claimed(t)' => runs[t].id # None
<1>1. claim[d] \in Claims /\ claim[d] # None /\ slotOf[claim[d]] \in Slot
  BY RecordTypes DEF LinkWrite, Owned
<1>2. CASE runs' = runs
  BY <1>2 DEF Owned, Claimed
<1>3. CASE runs' # runs
  <2>. DEFINE n == claim[d]
  <2>1. PICK status \in RunStatus :
          /\ runs' = [runs EXCEPT ![slotOf[n]] = Linked(runs[slotOf[n]], status, n)]
          /\ runs[slotOf[n]].id = n
    <3>1. Present(n)
      BY <1>3 DEF LinkWrite
    <3>2. CASE Backend = "sqlite"
      BY <1>3, <3>1, <3>2 DEF LinkWrite, Present, RunStatus
    <3>3. CASE Backend = "postgres"
      <4>. DEFINE s == Overwrite(seenRun[d], "dispatched", runs[slotOf[n]].status)
      <4>1. s \in RunStatus
        BY <1>1 DEF Overwrite, RunStatus, Run
      <4>2. runs' = [runs EXCEPT ![slotOf[n]] = Linked(runs[slotOf[n]], s, n)]
        BY <1>3, <3>1, <3>3 DEF LinkWrite
      <4>. QED BY <3>1, <4>1, <4>2 DEF Present
    <3>. QED BY <3>2, <3>3, SchedulerKinds
  <2>2. Linked(runs[slotOf[n]], status, n) \in Run
    <3>1. runs[slotOf[n]] \in Run /\ n \in Claims
      BY <1>1
    <3>. HIDE DEF TypeInv, TypeOK
    <3>. QED BY <3>1 DEF Linked, Run
  <2>3. runs' \in [Slot -> Run]
    BY <1>1, <2>1, <2>2
  <2>4. \A t \in Slot : runs'[t].id = runs[t].id
    BY <1>1, <2>1 DEF Linked, Run
  <2>5. \A t \in Slot : Claimed(t)' => runs[t].id # None
    BY <1>1, <2>1 DEF Owned, Claimed
  <2>. QED BY <2>3, <2>4, <2>5
<1>. QED BY <1>2, <1>3

LEMMA TypeLinkWrite ==
  ASSUME TypeInv, NEW d \in Dispatchers, LinkWrite(d) PROVE TypeInv'
<1>1. UNCHANGED <<now, row, scans, job, slotOf, sweepVars, histVars>> /\ crossed' \subseteq Claims
  <2>1. claim[d] \in Claims
    BY RecordTypes DEF LinkWrite, Owned
  <2>. QED BY <2>1 DEF LinkWrite
<1>2. CASE Rest(d)
  <2>1. TypeOK'
    BY <1>1, <1>2, LinkRuns, RestTypes DEF CtlTypes
  <2>2. Owned'
    BY <1>1, <1>2, LinkRuns, RestTypes DEF Owned, Claimed
  <2>. QED BY <2>1, <2>2
<1>3. CASE ~Rest(d)
  <2>1. /\ pc[d] = "link" /\ pc' = [pc EXCEPT ![d] = "send"]
        /\ seenRun' = [seenRun EXCEPT ![d] = "none"] /\ UNCHANGED <<copy, claim, seen>>
    BY <1>3 DEF LinkWrite
  <2>2. TypeOK'
    BY <1>1, <2>1, LinkRuns
  <2>3. Owned'
    BY <1>1, <2>1, LinkRuns DEF Owned, Claimed
  <2>. QED BY <2>2, <2>3
<1>. QED BY <1>2, <1>3

LEMMA TypeSend ==
  ASSUME TypeInv, NEW d \in Dispatchers, Send(d) PROVE TypeInv'
<1>1. claim[d] \in Claims /\ slotOf[claim[d]] # None
  BY DEF Send, Goto, Owned
<1>2. TypeOK'
  BY <1>1 DEF Send, Goto, JobStatus, Saving
<1>3. Owned'
  BY <1>1 DEF Send, Goto, Owned, Claimed
<1>. QED BY <1>2, <1>3

\* A run that is dispatched belongs to a claim.
LEMMA OrphanTypes ==
  ASSUME TypeInv, NEW t \in Orphans
  PROVE  t \in Slot /\ runs[t].id \in Claims /\ runs[t].job \in Claims \cup {None}
<1>1. t \in Slot /\ Claimed(t)
  BY DEF Orphans, Claimed, NoRun
<1>. QED BY <1>1, RecordTypes DEF Owned, Run

LEMMA TypeReconcileRead ==
  ASSUME TypeInv, ReconcileRead PROVE TypeInv'
<1>1. PICK S \in SUBSET Orphans :
        todo' = {[slot |-> t, id |-> runs[t].id, job |-> runs[t].job] : t \in S}
  BY DEF ReconcileRead
<1>2. todo' \subseteq [slot : Slot, id : Claims, job : Claims \cup {None}]
  <2>. HIDE DEF TypeInv, TypeOK
  <2>. QED BY <1>1, OrphanTypes
<1>3. TypeOK'
  BY <1>2 DEF ReconcileRead
<1>4. Owned'
  BY DEF ReconcileRead, Owned, Claimed
<1>. QED BY <1>3, <1>4

LEMMA TypeReconcileLook ==
  ASSUME TypeInv, NEW e \in todo, ReconcileLook(e) PROVE TypeInv'
<1>1. e.slot \in Slot /\ e.id \in Claims /\ e.job \in Claims \cup {None}
  OBVIOUS
<1>2. hand' \in Finding
  <2>1. CASE e.job # None
    BY <1>1, <2>1 DEF ReconcileLook, Found, Settled, Finding, RunUpdate
  <2>2. CASE e.job = None /\ scans = <<>>
    BY <1>1, <2>2 DEF ReconcileLook, Found, Finding, RunUpdate
  <2>3. CASE e.job = None /\ scans # <<>>
    <3>1. Last(scans) \in Claims
      BY <2>3, LatestScan
    <3>. QED BY <1>1, <2>3, <3>1 DEF ReconcileLook, Found, Finding, RunUpdate
  <2>. QED BY <2>1, <2>2, <2>3
<1>4. UNCHANGED <<now, dbVars, ctlVars, updates, crossed, histVars>> /\ todo' \subseteq todo
  BY DEF ReconcileLook
<1>5. TypeOK'
  BY <1>2, <1>4
<1>6. Owned'
  BY <1>4 DEF Owned, Claimed
<1>. QED BY <1>5, <1>6

LEMMA TypeReconcileJob ==
  ASSUME TypeInv, ReconcileJob PROVE TypeInv'
<1>1. UNCHANGED <<now, dbVars, ctlVars, todo, updates, crossed, histVars>>
  BY DEF ReconcileJob
<1>2. hand' \in Finding
  BY DEF ReconcileJob, Finding, RunUpdate
<1>3. TypeOK'
  BY <1>1, <1>2
<1>4. Owned'
  BY <1>1 DEF Owned, Claimed
<1>. QED BY <1>3, <1>4

LEMMA ReconciledType ==
  ASSUME TypeInv, NEW run \in Run, NEW u \in RunUpdate
  PROVE  /\ Reconciled(run, u) \in Run /\ Reconciled(run, u).id = run.id
         /\ Reconciled(run, u).job = IF u.verdict = "link" THEN u.job ELSE run.job
<1>. HIDE DEF TypeInv, TypeOK
<1>1. CASE u.verdict = "link"
  BY <1>1 DEF Reconciled, Run, Finding, RunUpdate
<1>2. CASE u.verdict # "link"
  BY <1>2 DEF Reconciled, Run, RunStatus, Finding, RunUpdate
<1>. QED BY <1>1, <1>2

\* What the transaction will have updated is what it made of the runs it has dealt with.
LEMMA UpdatedTypes ==
  ASSUME TypeInv, ReconcileRun
  PROVE  /\ Updated \subseteq RunUpdate
         /\ updates' \subseteq Updated /\ hand' = None
         /\ \A u \in Updated : u \in updates \/ (u = hand /\ hand # None)
         /\ runs' = runs \/ CommitAll(Updated)
<1>1. hand # None /\ hand.verdict # "open"
  BY DEF ReconcileRun
<1>2. hand.verdict # "as it is" => hand \in RunUpdate
  BY <1>1 DEF Finding, RunUpdate
<1>. QED BY <1>1, <1>2 DEF ReconcileRun, Updated

\* The reconciliation leaves every run the run of its claim.
LEMMA ReconcileRuns ==
  ASSUME TypeInv, ReconcileRun
  PROVE  /\ runs' \in [Slot -> Run]
         /\ \A t \in Slot :
              \/ runs'[t] = runs[t]
              \/ \E u \in Updated :
                   /\ u.slot = t /\ u.id = runs[t].id
                   /\ runs'[t].id = runs[t].id
                   /\ runs'[t].job = IF u.verdict = "link" THEN u.job ELSE runs[t].job
         /\ \A t \in Slot : runs'[t].id = runs[t].id
         /\ \A t \in Slot : Claimed(t)' => runs[t].id # None
<1>1. CASE runs' = runs
  BY <1>1 DEF Owned, Claimed
<1>2. CASE CommitAll(Updated)
  <2>. DEFINE Of(t) == {u \in Updated : u.slot = t /\ u.id = runs[t].id}
  <2>1. ASSUME NEW t \in Slot
        PROVE  /\ runs'[t] \in Run
               /\ \/ runs'[t] = runs[t]
                  \/ \E u \in Updated :
                       /\ u.slot = t /\ u.id = runs[t].id
                       /\ runs'[t].id = runs[t].id
                       /\ runs'[t].job = IF u.verdict = "link" THEN u.job ELSE runs[t].job
    <3>1. CASE Of(t) = {}
      BY <1>2, <3>1 DEF CommitAll
    <3>2. CASE Of(t) # {}
      <4>1. PICK u \in Updated : u.slot = t /\ u.id = runs[t].id /\ runs'[t] = Reconciled(runs[t], u)
        BY <1>2, <3>2 DEF CommitAll
      <4>2. runs[t] \in Run /\ u \in RunUpdate
        BY UpdatedTypes
      <4>. HIDE DEF TypeInv, TypeOK
      <4>. QED BY <4>1, <4>2, ReconciledType
    <3>. QED BY <3>1, <3>2
  <2>2. runs' \in [Slot -> Run]
    BY <1>2, <2>1 DEF CommitAll
  <2>3. \A t \in Slot : runs'[t].id = runs[t].id
    BY <2>1
  <2>4. \A t \in Slot : Claimed(t)' => runs[t].id # None
    <3>1. ASSUME NEW t \in Slot, Claimed(t)', runs[t].id = None PROVE FALSE
      <4>1. ~\E u \in Updated : u.id = runs[t].id
        BY <3>1, UpdatedTypes, RecordTypes DEF Finding, RunUpdate
      <4>2. runs'[t] = runs[t]
        BY <2>1, <4>1
      <4>. QED BY <3>1, <4>2 DEF Owned, Claimed, NoRun
    <3>. QED BY <3>1
  <2>. QED BY <2>1, <2>2, <2>3, <2>4
<1>. QED BY <1>1, <1>2, UpdatedTypes

LEMMA TypeReconcileRun ==
  ASSUME TypeInv, ReconcileRun PROVE TypeInv'
<1>1. UNCHANGED <<now, row, scans, job, slotOf, ctlVars, todo, crossed, histVars>>
  BY DEF ReconcileRun
<1>2. TypeOK'
  BY <1>1, ReconcileRuns, UpdatedTypes
<1>3. Owned'
  BY <1>1, ReconcileRuns DEF Owned
<1>. QED BY <1>2, <1>3

LEMMA HappensTypes ==
  ASSUME TypeInv, NEW e \in Event, Happens(e)
  PROVE  events' \subseteq Event /\ budget' \in [Event -> Nat]
<1>. HIDE DEF TypeInv, TypeOK
<1>1. budget[e] - 1 \in Nat
  BY Functions DEF Happens
<1>. QED BY <1>1, Functions DEF Happens

LEMMA TypeEdit ==
  ASSUME TypeInv, NEW u \in Actors, u \notin Dispatchers, NEW p \in Nat, Edit(u, p),
         NEW e \in Event, Happens(e)
  PROVE  TypeInv'
<1>1. [next |-> row.next, paused |-> p, start |-> now] \in Copy
  BY DEF Copy, Row, Pause
<1>2. TypeOK'
  BY <1>1, HappensTypes DEF Edit, Saving
<1>3. Owned'
  BY DEF Edit, Owned, Claimed
<1>. QED BY <1>2, <1>3

LEMMA TypeDeleteRequest ==
  ASSUME TypeInv, DeleteRequest PROVE TypeInv'
<1>1. events' \subseteq Event /\ budget' \in [Event -> Nat]
  BY HappensTypes DEF DeleteRequest, Event
<1>2. TypeOK'
  BY <1>1, RecordTypes DEF DeleteRequest
<1>3. Owned'
  BY DEF DeleteRequest, Owned, Claimed
<1>. QED BY <1>2, <1>3

LEMMA TypeCrash ==
  ASSUME TypeInv, NEW a \in Actors, Crash(a) PROVE TypeInv'
<1>1. events' \subseteq Event /\ budget' \in [Event -> Nat]
  BY HappensTypes DEF Crash, Event
<1>2. TypeOK'
  BY <1>1, RestTypes DEF Crash, CtlTypes
<1>3. Owned'
  BY OwnedKept, RestTypes DEF Crash
<1>. QED BY <1>2, <1>3

LEMMA TypeJobOver ==
  ASSUME TypeInv, NEW n \in Claims, JobOver(n) PROVE TypeInv'
<1>1. TypeOK'
  BY DEF JobOver, JobStatus
<1>2. Owned'
  BY DEF JobOver, Owned, Claimed
<1>. QED BY <1>1, <1>2

LEMMA TypeTick ==
  ASSUME TypeInv, Tick PROVE TypeInv'
<1>1. now' \in 0 .. Horizon
  BY SchedulerKinds DEF Tick
<1>2. TypeOK'
  BY <1>1 DEF Tick
<1>3. Owned'
  BY DEF Tick, Owned, Claimed
<1>. QED BY <1>2, <1>3

LEMMA TypeNext == ASSUME TypeInv, [Next]_vars PROVE TypeInv'
<1>1. ASSUME NEW d \in Dispatchers, DispatcherStep(d) PROVE TypeInv'
  <2>1. d \in Actors
    OBVIOUS
  <2>. QED
    BY <1>1, <2>1, TypeStart, TypeClaim, TypeSaveScan, TypeCreateJob, TypeLinkRead,
       TypeLinkWrite, TypeSend, TypeSaveRead, TypeSaveWrite
       DEF DispatcherStep, SaveStep
<1>2. ASSUME NEW u \in Analysts, SaveStep(u) \/ PauseRequest(u) \/ ResumeRequest(u)
      PROVE  TypeInv'
  <2>1. u \in Actors /\ u \notin Dispatchers
    BY SchedulerKinds
  <2>2. CASE SaveStep(u)
    BY <2>1, <2>2, TypeSaveRead, TypeSaveWrite DEF SaveStep
  <2>3. CASE PauseRequest(u)
    <3>1. PICK h \in PauseSteps : Edit(u, now + h)
      BY <2>3 DEF PauseRequest
    <3>2. now + h \in Nat /\ "pause" \in Event
      <4>. HIDE DEF TypeInv, TypeOK
      <4>. QED BY Functions, SchedulerKinds DEF Event
    <3>. QED BY <2>1, <2>3, <3>1, <3>2, TypeEdit DEF PauseRequest
  <2>4. CASE ResumeRequest(u)
    BY <2>1, <2>4, TypeEdit DEF ResumeRequest, Event
  <2>. QED BY <1>2, <2>2, <2>3, <2>4
<1>3. CASE DeleteRequest
  BY <1>3, TypeDeleteRequest
<1>4. CASE \E a \in Actors : Crash(a)
  BY <1>4, TypeCrash
<1>5. CASE Reconcile
  BY <1>5, TypeReconcileRead, TypeReconcileLook, TypeReconcileJob, TypeReconcileRun DEF Reconcile
<1>6. CASE \E n \in Claims : JobOver(n)
  BY <1>6, TypeJobOver
<1>7. CASE Tick
  BY <1>7, TypeTick
<1>8. CASE UNCHANGED vars
  BY <1>8 DEF vars, Owned, Claimed
<1>. HIDE DEF TypeInv
<1>. QED BY <1>1, <1>2, <1>3, <1>4, <1>5, <1>6, <1>7, <1>8 DEF Next

LEMMA TypeSafe == Spec => []TypeInv
<1>. HIDE DEF TypeInv
<1>. QED BY TypeInit, TypeNext, PTL DEF Spec

\* Type correctness, for every set of dispatchers, requests and claims, every interval
\* and either backend.
THEOREM SchedulerTypes == Spec => []TypeOK
<1>1. TypeInv => TypeOK
  OBVIOUS
<1>. QED BY <1>1, TypeSafe, PTL

-----------------------------------------------------------------------------
(* One job per slot.  A claim's run, once inserted, keeps its slot: while    *)
(* nothing deletes the schedule no step takes a run away, and the unique     *)
(* constraint lets nobody insert another.  So no two claims have one slot,   *)
(* and a job is only ever created for a claim.                               *)

Kept ==
  "delete" \in events \/ \A n \in Claims : slotOf[n] # None => runs[slotOf[n]].id = n

KeptInv == TypeInv /\ Kept

LEMMA KeptInit == Init => KeptInv
  BY TypeInit DEF Init, KeptInv, Kept

\* A step that changes no run's claim and draws no id keeps the runs.
LEMMA KeptStill ==
  ASSUME KeptInv, slotOf' = slotOf, events \subseteq events',
         \A t \in Slot : runs'[t].id = runs[t].id
  PROVE  Kept'
  BY DEF KeptInv, Kept

LEMMA KeptClaim ==
  ASSUME KeptInv, NEW d \in Dispatchers, Claim(d) PROVE Kept'
<1>. USE DEF KeptInv
<1>. DEFINE t == copy[d].next
<1>1. CASE MayInsert(t)
  <2>1. PICK n \in Claims :
          /\ slotOf' = [slotOf EXCEPT ![n] = t]
          /\ runs'   = [runs EXCEPT ![t] = [id |-> n, status |-> "dispatched",
                                            job |-> None, at |-> now]]
    BY <1>1 DEF Claim
  <2>2. t \in Slot /\ events' = events
    BY NextRunType DEF Claim
  <2>3. ASSUME "delete" \notin events, NEW m \in Claims, m # n, slotOf[m] # None
        PROVE  slotOf[m] # t
    <3>1. NoRun.id = None
      BY DEF NoRun
    <3>2. slotOf[m] \in Slot /\ runs[slotOf[m]].id = m /\ m # None
      BY <2>3, Functions, RecordTypes DEF Kept
    <3>. HIDE DEF TypeInv, TypeOK
    <3>. QED BY <1>1, <3>1, <3>2 DEF MayInsert, Claimed
  <2>. QED BY <2>1, <2>2, <2>3 DEF Kept
<1>2. CASE ~MayInsert(t)
  BY <1>2, KeptStill DEF Claim
<1>. QED BY <1>1, <1>2

LEMMA KeptNext ==
  ASSUME Backend = "postgres", KeptInv, [Next]_vars PROVE KeptInv'
<1>. SUFFICES Kept'
  BY TypeNext DEF KeptInv
<1>1. ASSUME NEW d \in Dispatchers, DispatcherStep(d) PROVE Kept'
  <2>1. CASE Claim(d)
    BY <2>1, KeptClaim
  <2>2. CASE LinkWrite(d)
    BY <2>2, LinkRuns, KeptStill DEF KeptInv, LinkWrite
  <2>3. CASE Start(d) \/ SaveScan(d) \/ CreateJob(d) \/ LinkRead(d) \/ Send(d)
    BY <2>3, KeptStill DEF Start, SaveScan, CreateJob, LinkRead, Send
  <2>4. CASE SaveStep(d)
    BY <2>4, KeptStill DEF SaveStep, SaveRead, SaveWrite
  <2>. QED BY <1>1, <2>1, <2>2, <2>3, <2>4 DEF DispatcherStep
<1>2. ASSUME NEW u \in Analysts, SaveStep(u) \/ PauseRequest(u) \/ ResumeRequest(u)
      PROVE  Kept'
  BY <1>2, KeptStill
     DEF SaveStep, SaveRead, SaveWrite, PauseRequest, ResumeRequest, Happens, Edit
<1>3. CASE DeleteRequest
  BY <1>3 DEF DeleteRequest, Happens, Kept
<1>4. CASE \E a \in Actors : Crash(a)
  BY <1>4, KeptStill DEF Crash, Happens
<1>5. CASE ReconcileRead \/ (\E e \in todo : ReconcileLook(e)) \/ ReconcileJob
  BY <1>5, KeptStill DEF ReconcileRead, ReconcileLook, ReconcileJob
<1>6. CASE Tick \/ \E n \in Claims : JobOver(n)
  BY <1>6, KeptStill DEF Tick, JobOver
<1>7. CASE ReconcileRun
  BY <1>7, ReconcileRuns, KeptStill DEF KeptInv, ReconcileRun
<1>8. CASE UNCHANGED vars
  BY <1>8, KeptStill DEF vars
<1>. HIDE DEF TypeInv, TypeOK
<1>. QED
  BY <1>1, <1>2, <1>3, <1>4, <1>5, <1>6, <1>7, <1>8 DEF Next, Reconcile

\* On PostgreSQL one slot never has two jobs, whatever the dispatchers, crashes, pauses
\* and resumes, unless the schedule was deleted under a dispatcher.
THEOREM SlotsOnce == ASSUME Backend = "postgres" PROVE Spec => []OneJobPerSlot
<1>1. ASSUME KeptInv, NEW m \in Claims, NEW n \in Claims, m # n, job[m] # "none",
             job[n] # "none", slotOf[m] = slotOf[n]
      PROVE  "delete" \in events
  <2>1. slotOf[m] # None /\ slotOf[n] # None
    BY <1>1 DEF KeptInv, Owned
  <2>. QED BY <1>1, <2>1 DEF KeptInv, Kept
<1>2. KeptInv => OneJobPerSlot
  BY <1>1 DEF OneJobPerSlot, Duplicated
<1>. HIDE DEF TypeInv
<1>3. KeptInv /\ [Next]_vars => KeptInv'
  BY KeptNext
<1>. QED BY <1>2, <1>3, KeptInit, PTL DEF Spec

-----------------------------------------------------------------------------
(* No wedge, and own jobs.  While nothing crashes and nothing is deleted,    *)
(* a claim makes one new time to run next, and whoever is past his claim is  *)
(* done before it.  So at most one of the times that anybody may still write *)
(* is free, nobody claims it while another is past his claim, and the latest *)
(* scan is that of the dispatcher who is about to link.                      *)

Undisturbed == {"crash", "delete"} \cap events = {}

Past == {"advance", "scan", "job", "link", "send", "final"}
OnTheWay == {"advance", "scan", "job", "link"}

\* The times to run next that the row has or somebody may write into it.
InUse ==
  {row.next} \cup {copy[a].next : a \in {b \in Actors : pc[b] # "idle"}}
             \cup {seen[a].next : a \in {b \in Actors : seen[b] # Unread}}

There == row.exists /\ \A a \in Actors : seen[a] # Unread => seen[a].exists

InTime ==
  \A a \in Actors : pc[a] # "idle" => copy[a].start <= now /\ now < copy[a].start + Interval

OneAhead ==
  /\ \A t \in Slot : Claimed(t) => t <= now
  /\ \A t, s \in InUse : ~Claimed(t) /\ ~Claimed(s) => t = s

Dispatching(d) ==
  /\ pc[d] # "store"
  /\ pc[d] = "claim" => copy[d].next <= copy[d].start
  /\ pc[d] \in Past => copy[d].next = copy[d].start + Interval
  /\ pc[d] \in {"job", "link", "send", "final"} => scans # <<>> /\ Last(scans) = claim[d]

Working ==
  /\ \A a \in Actors : pc[a] \notin Saving => seen[a] = Unread
  /\ \A u \in Analysts : pc[u] \in {"idle", "store"}
  /\ \A d \in Dispatchers : Dispatching(d)
  /\ \A d, e \in Dispatchers : pc[d] \in Past /\ pc[e] \in Past => d = e

Linking(n) == \E d \in Dispatchers : claim[d] = n /\ pc[d] \in OnTheWay

\* A run without a job has a dispatcher that will link one.
Linkable ==
  /\ \A t \in Slot : Claimed(t) => slotOf[runs[t].id] = t
  /\ \A t \in Slot : Claimed(t) /\ runs[t].job = None => Linking(runs[t].id)

\* What the reconciliation will guess by the latest scan is right or will be overwritten.
Guesses ==
  \A e \in todo :
    /\ slotOf[e.id] # None
    /\ e.job = None /\ runs[e.slot].id = e.id =>
         \/ Linking(e.id)
         \/ /\ scans # <<>> /\ Last(scans) = e.id
            /\ \A t \in InUse : Claimed(t) \/ now < t
            /\ \A d \in Dispatchers : pc[d] \notin {"advance", "scan"}

\* What it has found and not written yet.
InFlight ==
  {u \in updates \cup (IF hand = None THEN {} ELSE {hand}) : u.verdict \in {"open", "link"}}

\* The scan it has found is the claim's own, or the dispatcher will overwrite the guess once
\* it is written, or has linked the run in the meantime.
Pending ==
  \A u \in InFlight :
    /\ u.job \in Claims /\ slotOf[u.id] # None
    /\ runs[u.slot].id = u.id => u.job = u.id \/ Linking(u.id) \/ u.id \in crossed

Own ==
  \A t \in Slot :
    runs[t].job \in {None, runs[t].id} \/ Linking(runs[t].id) \/ runs[t].id \in crossed

\* The row is where the dispatcher that won the slot left it.
Holding(d) ==
  /\ pc[d] # "unpause"
  /\ pc[d] # "idle" => copy[d].paused = 0
  /\ pc[d] = "advance" => row.next = slotOf[claim[d]] /\ seen[d] \in {Unread, row}
  /\ pc[d] \in Past \ {"advance"} => row.next = copy[d].next

Still ==
  events = {} =>
    /\ row.paused = 0
    /\ \A u \in Analysts : pc[u] = "idle"
    /\ \A d \in Dispatchers : Holding(d)
    /\ ~Wedged

Orderly == There /\ InTime /\ OneAhead /\ Working /\ Linkable /\ Guesses /\ Pending /\ Own
           /\ Still

OrderlyInv == KeptInv /\ (Undisturbed => Orderly)

HIDE DEF TypeInv, TypeOK

\* A slot is taken by the id of its run.
LEMMA ClaimedById ==
  ASSUME TypeInv
  PROVE  \A t \in Slot : /\ Claimed(t) <=> runs[t].id # None
                         /\ Claimed(t) => runs[t].id \in Claims
                         /\ ~Claimed(t) => runs[t].job = None
<1>1. NoRun.id = None /\ NoRun.job = None
  BY DEF NoRun
<1>2. runs \in [Slot -> Run] /\ \A t \in Slot : Claimed(t) => runs[t].id # None
  BY DEF TypeInv, TypeOK, Owned
<1>. QED BY <1>1, <1>2 DEF Claimed, Run

\* The times are slots, and slots are numbers.
LEMMA Times ==
  ASSUME TypeInv
  PROVE  /\ InUse \subseteq Slot /\ Slot \subseteq Nat /\ now \in Nat /\ Interval \in Nat \ {0}
         /\ \A a \in Actors : copy[a].next \in Slot /\ copy[a].start \in Nat
         /\ row.next \in InUse
         /\ \A a \in Actors : pc[a] # "idle" => copy[a].next \in InUse
         /\ \A a \in Actors : seen[a] # Unread => seen[a].next \in InUse
<1>1. Slot \subseteq Nat /\ 0 .. Horizon \subseteq Nat /\ Interval \in Nat \ {0}
  BY SchedulerKinds DEF Slot
<1>2. /\ now \in 0 .. Horizon /\ row \in Row /\ copy \in [Actors -> Copy]
      /\ seen \in [Actors -> Row \cup {Unread}]
  BY DEF TypeInv, TypeOK
<1>3. \A a \in Actors : copy[a].next \in Slot /\ copy[a].start \in Nat
  BY <1>1, <1>2 DEF Copy
<1>4. row.next \in Slot /\ \A a \in Actors : seen[a] # Unread => seen[a].next \in Slot
  BY <1>2 DEF Row
<1>. QED BY <1>1, <1>2, <1>3, <1>4 DEF InUse

\* Who moves in a step.
Alone(a) ==
  /\ \A b \in Actors \ {a} : pc'[b] = pc[b] /\ copy'[b] = copy[b] /\ seen'[b] = seen[b]
  /\ \A d \in Dispatchers \ {a} : claim'[d] = claim[d]

\* The times in use only come from the row and the actors.
LEMMA Used ==
  ASSUME NEW a \in Actors, Alone(a), row'.next \in InUse,
         pc'[a] # "idle" => copy'[a].next \in InUse,
         seen'[a] # Unread => seen'[a].next \in InUse
  PROVE  InUse' \subseteq InUse
<1>1. Unread' = Unread
  BY DEF Unread
<1>. SUFFICES ASSUME NEW t \in InUse' PROVE t \in InUse
  OBVIOUS
<1>2. CASE t = row'.next
  BY <1>2
<1>3. ASSUME NEW b \in Actors, pc'[b] # "idle", t = copy'[b].next PROVE t \in InUse
  BY <1>3 DEF Alone, InUse
<1>4. ASSUME NEW b \in Actors, seen'[b] # Unread, t = seen'[b].next PROVE t \in InUse
  BY <1>4 DEF Alone, InUse
<1>. QED BY <1>1, <1>2, <1>3, <1>4 DEF InUse

\* Whoever is past his claim has the one free time, and it is still to come.
LEMMA PastAhead ==
  ASSUME TypeInv, InTime, OneAhead, Working, NEW d \in Dispatchers, pc[d] \in Past
  PROVE  /\ now < copy[d].next /\ ~Claimed(copy[d].next)
         /\ \A t \in InUse : Claimed(t) \/ t = copy[d].next
<1>1. pc[d] # "idle" /\ copy[d].next = copy[d].start + Interval
  BY DEF Working, Dispatching, Past
<1>2. now < copy[d].next /\ copy[d].next \in InUse
  BY <1>1, Times DEF InTime
<1>3. ~Claimed(copy[d].next)
  BY <1>2, Times DEF OneAhead
<1>. QED BY <1>2, <1>3 DEF OneAhead

\* A step that claims no slot and brings in no new time leaves one free time at most.
LEMMA AheadKept ==
  ASSUME TypeInv, TypeInv', OneAhead, now' = now \/ now' = now + 1, InUse' \subseteq InUse,
         \A t \in Slot : runs'[t].id = runs[t].id
  PROVE  OneAhead' /\ \A t \in Slot : Claimed(t)' <=> Claimed(t)
<1>1. \A t \in Slot : Claimed(t)' <=> runs'[t].id # None
  <2>1. NoRun.id = None
    BY DEF NoRun
  <2>2. \A t \in Slot : Claimed(t)' => runs'[t].id # None
    BY DEF TypeInv, Owned
  <2>. QED BY <2>1, <2>2 DEF Claimed
<1>2. \A t \in Slot : Claimed(t)' <=> Claimed(t)
  BY <1>1, ClaimedById
<1>3. \A t \in Slot : Claimed(t)' => t <= now'
  BY <1>2, Times DEF OneAhead
<1>4. \A t, s \in InUse' : ~Claimed(t)' /\ ~Claimed(s)' => t = s
  BY <1>2, Times DEF OneAhead
<1>. QED BY <1>2, <1>3, <1>4 DEF OneAhead

\* A step that draws no id and leaves runs, scans and the list alone.
LEMMA CalmStep ==
  ASSUME TypeInv, TypeInv', OneAhead, Linkable, Guesses, Pending, Own,
         UNCHANGED <<now, runs, scans, slotOf, sweepVars, crossed>>, InUse' \subseteq InUse,
         \A d \in Dispatchers : pc[d] \in OnTheWay => pc'[d] \in OnTheWay /\ claim'[d] = claim[d],
         \A d \in Dispatchers : pc'[d] \in {"advance", "scan"} => pc[d] \in {"advance", "scan"}
  PROVE  OneAhead' /\ Linkable' /\ Guesses' /\ Pending' /\ Own'
<1>1. OneAhead' /\ \A t \in Slot : Claimed(t)' <=> Claimed(t)
  BY AheadKept
<1>2. \A n : Linking(n) => Linking(n)'
  BY DEF Linking
<1>3. Linkable' /\ Own'
  BY <1>1, <1>2 DEF Linkable, Own
<1>4. Guesses'
  <2>. SUFFICES ASSUME NEW e \in todo
       PROVE  /\ slotOf[e.id] # None
              /\ e.job = None /\ runs[e.slot].id = e.id =>
                   \/ Linking(e.id)'
                   \/ /\ scans # <<>> /\ Last(scans) = e.id
                      /\ \A t \in InUse' : Claimed(t)' \/ now < t
                      /\ \A d \in Dispatchers : pc'[d] \notin {"advance", "scan"}
    BY DEF Guesses
  <2>1. \A t \in InUse' : t \in InUse /\ t \in Slot
    BY Times
  <2>. QED BY <1>1, <1>2, <2>1 DEF Guesses
<1>5. Pending'
  BY <1>2 DEF Pending, InFlight
<1>. QED BY <1>1, <1>3, <1>4, <1>5

Before == Backend = "postgres" /\ TypeInv /\ Kept /\ Undisturbed /\ Orderly

\* Who rests or goes on moves alone.
LEMMA RestMoves ==
  ASSUME TypeInv, NEW a \in Actors, Rest(a)
  PROVE  Alone(a) /\ pc'[a] = "idle" /\ seen'[a] = Unread
BY Functions DEF Rest, Alone

LEMMA GoOnMoves ==
  ASSUME TypeInv, NEW a \in Actors, GoOn(a)
  PROVE  /\ Alone(a) /\ pc'[a] = AfterSave(a) /\ seen'[a] = Unread
         /\ AfterSave(a) # "idle" => copy' = copy /\ claim' = claim
<1>1. CASE AfterSave(a) = "idle"
  BY <1>1, RestMoves DEF GoOn
<1>2. CASE AfterSave(a) # "idle"
  BY <1>2, Functions DEF GoOn, Alone
<1>. QED BY <1>1, <1>2

\* The same, and the row stays.
LEMMA StillKept ==
  ASSUME TypeInv, TypeInv', Still, NEW d \in Dispatchers, Alone(d),
         UNCHANGED <<row, slotOf, events>>,
         \A t \in Slot : Claimed(t)' <=> Claimed(t),
         \A t \in Slot : runs'[t].id = runs[t].id,
         pc[d] = "advance" => pc'[d] = "advance" /\ claim'[d] = claim[d],
         events = {} => Holding(d)'
  PROVE  Still'
<1>. SUFFICES ASSUME events = {} PROVE Still'
  BY DEF Still
<1>1. \A u \in Analysts : pc'[u] = "idle"
  BY SchedulerKinds DEF Still, Alone
<1>2. ASSUME NEW e \in Dispatchers, e # d PROVE Holding(e)'
  <2>1. /\ pc'[e] = pc[e] /\ copy'[e] = copy[e] /\ claim'[e] = claim[e] /\ seen'[e] = seen[e]
        /\ Holding(e)
    BY <1>2 DEF Alone, Still
  <2>. QED BY <2>1 DEF Holding, Past, Unread
<1>3. ~Wedged'
  <2>. SUFFICES ASSUME row.exists, Claimed(row.next)
       PROVE  \E e \in Dispatchers : pc'[e] = "advance" /\ claim'[e] = runs'[row.next].id
    BY Functions DEF Wedged, Row
  <2>1. PICK e \in Dispatchers : pc[e] = "advance" /\ claim[e] = runs[row.next].id
    BY DEF Still, Wedged
  <2>2. pc'[e] = "advance" /\ claim'[e] = claim[e]
    BY <2>1 DEF Alone
  <2>. QED BY <2>1, <2>2, Functions DEF Row
<1>. QED BY <1>1, <1>2, <1>3 DEF Still

\* A dispatcher moves, and does not get past his claim.
LEMMA WorkingKept ==
  ASSUME Working, NEW d \in Dispatchers, Alone(d), scans' = scans, Dispatching(d)',
         pc'[d] \in Past => pc[d] \in Past, pc'[d] \notin Saving => seen'[d] = Unread
  PROVE  Working'
<1>1. Unread' = Unread /\ Saving' = Saving
  BY DEF Unread, Saving
<1>2. \A a \in Actors : pc'[a] \notin Saving => seen'[a] = Unread
  BY DEF Working, Alone
<1>3. \A u \in Analysts : pc'[u] \in {"idle", "store"}
  BY SchedulerKinds DEF Working, Alone
<1>4. \A e \in Dispatchers : pc'[e] \in Past => pc[e] \in Past
  BY DEF Alone
<1>5. ASSUME NEW e \in Dispatchers, e # d PROVE Dispatching(e)'
  <2>1. pc'[e] = pc[e] /\ copy'[e] = copy[e] /\ claim'[e] = claim[e] /\ Dispatching(e)
    BY <1>5 DEF Alone, Working
  <2>. QED BY <2>1 DEF Dispatching, Past
<1>. QED BY <1>1, <1>2, <1>3, <1>4, <1>5 DEF Working, Past

\* What a save reads is the row.
LEMMA OrderlySaveRead ==
  ASSUME Before, TypeInv', NEW a \in Actors, SaveRead(a) PROVE Orderly'
<1>. USE DEF Before, Orderly
<1>1. /\ UNCHANGED <<now, row, runs, scans, job, slotOf, sweepVars, crossed, pc, copy, claim, events>>
      /\ seen' = [seen EXCEPT ![a] = row] /\ pc[a] \in Saving /\ seen[a] = Unread
  BY DEF SaveRead
<1>2. Alone(a) /\ seen'[a] = row
  BY <1>1, Functions DEF Alone
<1>3. InUse' \subseteq InUse
  BY <1>1, <1>2, Used, Times
<1>4. OneAhead' /\ Linkable' /\ Guesses' /\ Pending' /\ Own'
  BY <1>1, <1>3, CalmStep
<1>5. There'
  BY <1>1, <1>2 DEF There, Alone, Unread
<1>6. InTime'
  BY <1>1 DEF InTime
<1>7. Working'
  <2>1. \A b \in Actors : pc'[b] \notin Saving => seen'[b] = Unread
    BY <1>1, <1>2 DEF Working, Alone
  <2>2. \A d \in Dispatchers : Dispatching(d)'
    BY <1>1 DEF Working, Dispatching, Past
  <2>. QED BY <1>1, <2>1, <2>2 DEF Working, Unread, Past
<1>8. Still'
  <2>1. Wedged' = Wedged
    BY <1>1 DEF Wedged, Claimed, NoRun
  <2>2. ASSUME NEW d \in Dispatchers, Holding(d) PROVE Holding(d)'
    BY <1>1, <1>2, <2>2 DEF Holding, Alone, Unread, Past
  <2>. QED BY <1>1, <2>1, <2>2 DEF Still
<1>. QED BY <1>4, <1>5, <1>6, <1>7, <1>8

\* What a flush leaves in the row.
LEMMA FlushedIs ==
  ASSUME TypeInv, There, NEW a \in Actors, seen[a] # Unread
  PROVE  /\ ~FlushFails(a) /\ Flushed(a).exists
         /\ Flushed(a).next = Overwrite(seen[a].next, copy[a].next, row.next)
         /\ Flushed(a).paused = Overwrite(seen[a].paused, copy[a].paused, row.paused)
BY DEF There, FlushFails, Flushed

\* A save writes what the row has or what its writer has; a dispatcher's is the free time.
LEMMA OrderlySaveWrite ==
  ASSUME Before, TypeInv', NEW a \in Actors, SaveWrite(a) PROVE Orderly'
<1>. USE DEF Before, Orderly
<1>1. pc[a] \in Saving /\ seen[a] # Unread /\ pc[a] # "idle"
  BY DEF SaveWrite, Saving
<1>2. ~FlushFails(a) /\ Flushed(a).exists
  BY <1>1, FlushedIs
<1>3. /\ UNCHANGED <<now, runs, scans, job, slotOf, sweepVars, crossed, events>>
      /\ row' = Flushed(a) /\ GoOn(a)
  BY <1>1, <1>2 DEF SaveWrite
<1>4. row'.next \in {copy[a].next, row.next} /\ row'.exists
  BY <1>1, <1>2, <1>3, FlushedIs DEF Overwrite
<1>5. /\ Alone(a) /\ pc'[a] = AfterSave(a) /\ seen'[a] = Unread
      /\ AfterSave(a) # "idle" => copy' = copy /\ claim' = claim
  BY <1>3, GoOnMoves
<1>6. /\ pc[a] = "advance" <=> AfterSave(a) = "scan"
      /\ AfterSave(a) = "claim" => copy[a].next <= copy[a].start
      /\ AfterSave(a) \in {"scan", "claim", "idle"}
      /\ AfterSave(a) # "idle" => pc[a] \in {"advance", "unpause"}
  BY DEF AfterSave
<1>7. InUse' \subseteq InUse
  BY <1>1, <1>4, <1>5, Used, Times
<1>8. a \in Dispatchers \/ (a \in Analysts /\ pc[a] = "store" /\ pc'[a] = "idle")
  BY <1>1, <1>5, <1>6 DEF Working, Saving
<1>9. /\ \A d \in Dispatchers : pc[d] \in OnTheWay => pc'[d] \in OnTheWay /\ claim'[d] = claim[d]
      /\ \A d \in Dispatchers : pc'[d] \in {"advance", "scan"} => pc[d] \in {"advance", "scan"}
  BY <1>1, <1>5, <1>6 DEF Alone, OnTheWay, Saving
<1>10. OneAhead' /\ Linkable' /\ Guesses' /\ Pending' /\ Own'
  BY <1>3, <1>7, <1>9, CalmStep
<1>11. There'
  BY <1>4, <1>5 DEF There, Alone, Unread
<1>12. InTime'
  BY <1>3, <1>5, <1>1 DEF InTime, Alone
<1>13. Working'
  <2>1. CASE a \in Dispatchers
    <3>1. Dispatching(a)
      BY <2>1 DEF Working
    <3>2. Dispatching(a)' /\ (pc'[a] \in Past => pc[a] \in Past)
      BY <1>1, <1>5, <1>6, <3>1 DEF Dispatching, Past
    <3>. QED BY <1>3, <1>5, <2>1, <3>2, WorkingKept
  <2>2. CASE a \in Analysts
    <3>1. a \notin Dispatchers /\ pc'[a] = "idle"
      BY <1>8, <2>2, SchedulerKinds
    <3>2. \A d \in Dispatchers : pc'[d] = pc[d] /\ copy'[d] = copy[d] /\ claim'[d] = claim[d]
      BY <1>5, <3>1 DEF Alone
    <3>3. \A d \in Dispatchers : Dispatching(d)'
      BY <1>3, <3>2 DEF Working, Dispatching, Past
    <3>4. \A b \in Actors : pc'[b] \notin Saving => seen'[b] = Unread
      BY <1>5 DEF Working, Alone, Saving
    <3>5. \A u \in Analysts : pc'[u] \in {"idle", "store"}
      BY <1>5, <3>1 DEF Working, Alone
    <3>. QED BY <3>2, <3>3, <3>4, <3>5 DEF Working, Unread, Saving, Past
  <2>. QED BY <2>1, <2>2
<1>14. Still'
  <2>. SUFFICES ASSUME events = {}
       PROVE  /\ row'.paused = 0
              /\ \A u \in Analysts : pc'[u] = "idle"
              /\ \A d \in Dispatchers : Holding(d)'
              /\ ~Wedged'
    BY <1>3 DEF Still
  <2>1. a \in Dispatchers /\ pc[a] \in {"advance", "final"} /\ copy[a].paused = 0 /\ row.paused = 0
    BY <1>1, <1>8 DEF Still, Holding, Working, Dispatching, Saving
  <2>2. pc[a] \in Past /\ \A d \in Dispatchers \ {a} : pc[d] \notin Past
    BY <2>1 DEF Past, Working
  <2>3. row'.next = copy[a].next
    <3>1. CASE pc[a] = "advance"
      BY <1>1, <1>3, <2>1, <3>1, FlushedIs DEF Still, Holding, Past, Overwrite
    <3>2. CASE pc[a] = "final"
      BY <1>1, <1>3, <2>1, <2>2, <3>2, FlushedIs DEF Still, Holding, Past, Overwrite
    <3>. QED BY <2>1, <3>1, <3>2
  <2>4. row'.paused = 0
    BY <1>1, <1>3, <2>1, FlushedIs DEF Overwrite
  <2>5. ~Wedged'
    <3>1. ~Claimed(copy[a].next)
      BY <2>1, <2>2, PastAhead
    <3>2. runs'[row'.next] = NoRun'
      BY <1>3, <2>3, <3>1 DEF Claimed, NoRun
    <3>. QED BY <3>2 DEF Wedged, Claimed
  <2>6. \A u \in Analysts : pc'[u] = "idle"
    BY <1>5, <2>1, SchedulerKinds DEF Still, Alone
  <2>7. ASSUME NEW d \in Dispatchers PROVE Holding(d)'
    <3>1. CASE d # a
      <4>1. pc'[d] = pc[d] /\ copy'[d] = copy[d] /\ pc[d] \notin Past /\ Holding(d)
        BY <3>1, <1>5, <2>2 DEF Still, Alone
      <4>. QED BY <4>1 DEF Holding, Past
    <3>2. CASE d = a
      <4>1. pc'[d] \in {"scan", "idle"} /\ (pc'[d] = "scan" => copy' = copy)
        BY <3>2, <1>5, <1>6, <2>1
      <4>. QED BY <3>2, <4>1, <2>1, <2>3 DEF Holding, Past
    <3>. QED BY <3>1, <3>2
  <2>. QED BY <2>4, <2>5, <2>6, <2>7
<1>. QED BY <1>10, <1>11, <1>12, <1>13, <1>14

\* A dispatcher takes its times from the row and the clock.
LEMMA OrderlyStart ==
  ASSUME Before, TypeInv', NEW d \in Dispatchers, Start(d) PROVE Orderly'
<1>. USE DEF Before, Orderly
<1>1. /\ UNCHANGED <<now, row, runs, scans, job, slotOf, sweepVars, crossed, claim, seen, events>>
      /\ pc[d] = "idle" /\ row.exists /\ (row.paused # 0 \/ row.next <= now)
  BY DEF Start
<1>2. /\ Alone(d) /\ pc'[d] = IF row.paused # 0 THEN "unpause" ELSE "claim"
      /\ copy'[d] = [next |-> row.next, paused |-> 0, start |-> now]
  BY <1>1, Functions DEF Start, Alone
<1>3. InUse' \subseteq InUse
  BY <1>1, <1>2, Used, Times
<1>4. OneAhead' /\ Linkable' /\ Guesses' /\ Pending' /\ Own'
  BY <1>1, <1>2, <1>3, CalmStep DEF Alone, OnTheWay
<1>5. There'
  BY <1>1 DEF There, Unread
<1>6. InTime'
  <2>1. copy'[d].start <= now /\ now < copy'[d].start + Interval
    BY <1>2, Times
  <2>. QED BY <1>1, <1>2, <2>1 DEF InTime, Alone
<1>7. Working'
  <2>1. seen'[d] = Unread
    BY <1>1 DEF Working, Saving
  <2>2. Dispatching(d)' /\ pc'[d] \notin Past
    BY <1>1, <1>2 DEF Dispatching, Past
  <2>. QED BY <1>1, <1>2, <2>1, <2>2, WorkingKept
<1>8. Still'
  <2>1. events = {} => Holding(d)'
    BY <1>1, <1>2 DEF Still, Holding, Past
  <2>2. \A t \in Slot : Claimed(t)' <=> Claimed(t)
    BY <1>1 DEF Claimed, NoRun
  <2>. QED BY <1>1, <1>2, <2>1, <2>2, StillKept
<1>. QED BY <1>4, <1>5, <1>6, <1>7, <1>8

\* A dispatcher works on what it has claimed.
LEMMA MiddleKept ==
  ASSUME Before, TypeInv', NEW d \in Dispatchers, Alone(d),
         UNCHANGED <<now, row, slotOf, events>>,
         copy'[d] = copy[d], seen'[d] = seen[d], claim'[d] = claim[d],
         \A t \in Slot : runs'[t].id = runs[t].id,
         pc[d] \in {"scan", "job", "link", "send"}, pc'[d] \in {"job", "link", "send", "final"}
  PROVE  /\ There' /\ InTime' /\ OneAhead' /\ Still'
         /\ InUse' \subseteq InUse /\ \A t \in Slot : Claimed(t)' <=> Claimed(t)
<1>. USE DEF Before, Orderly
<1>1. There'
  BY DEF There, Alone, Unread
<1>2. InTime'
  <2>1. pc[d] # "idle"
    OBVIOUS
  <2>. QED BY <2>1 DEF InTime, Alone
<1>3. InUse' \subseteq InUse
  <2>1. pc[d] # "idle"
    OBVIOUS
  <2>. QED BY <2>1, Used, Times
<1>4. OneAhead' /\ \A t \in Slot : Claimed(t)' <=> Claimed(t)
  BY <1>3, AheadKept
<1>5. Still'
  <2>1. events = {} => Holding(d)'
    BY DEF Still, Holding, Past
  <2>. QED BY <1>4, <2>1, StillKept
<1>. QED BY <1>1, <1>2, <1>3, <1>4, <1>5

\* The dispatcher past its claim is alone, so its scan is the latest.
LEMMA OrderlySaveScan ==
  ASSUME Before, TypeInv', NEW d \in Dispatchers, SaveScan(d) PROVE Orderly'
<1>. USE DEF Before, Orderly
<1>1. /\ UNCHANGED <<now, row, runs, job, slotOf, copy, claim, seen, sweepVars, crossed, events>>
      /\ pc[d] = "scan" /\ scans' = Append(scans, claim[d])
  BY DEF SaveScan, Goto
<1>2. Alone(d) /\ pc'[d] = "job"
  BY <1>1, Functions DEF SaveScan, Goto, Alone
<1>3. claim[d] \in Claims
  BY <1>1, Functions DEF TypeInv, Owned
<1>4. /\ There' /\ InTime' /\ OneAhead' /\ Still'
      /\ \A t \in Slot : Claimed(t)' <=> Claimed(t)
  BY <1>1, <1>2, MiddleKept
<1>5. \A n : Linking(n) => Linking(n)'
  BY <1>1, <1>2 DEF Linking, OnTheWay, Alone
<1>6. Linkable' /\ Own'
  BY <1>1, <1>4, <1>5 DEF Linkable, Own
<1>7. Guesses'
  <2>. SUFFICES ASSUME NEW e \in todo
       PROVE  slotOf[e.id] # None /\ (e.job = None /\ runs[e.slot].id = e.id => Linking(e.id)')
    BY <1>1 DEF Guesses
  <2>. QED BY <1>1, <1>5 DEF Guesses
<1>9. Pending'
  BY <1>1, <1>5 DEF Pending, InFlight
<1>8. Working'
  <2>1. \A a \in Actors : pc'[a] \notin Saving => seen'[a] = Unread
    BY <1>1, <1>2 DEF Working, Alone, Saving
  <2>2. \A u \in Analysts : pc'[u] \in {"idle", "store"}
    BY <1>2, SchedulerKinds DEF Working, Alone
  <2>3. \A e \in Dispatchers \ {d} : pc'[e] = pc[e] /\ pc[e] \notin Past /\ Dispatching(e)
    BY <1>1, <1>2 DEF Working, Past, Alone
  <2>4. \A e \in Dispatchers \ {d} : Dispatching(e)'
    BY <1>1, <2>3 DEF Dispatching, Past
  <2>5. scans' # <<>> /\ Last(scans') = claim[d]
    <3>1. Len(scans') = Len(scans) + 1 /\ scans'[Len(scans) + 1] = claim[d]
      BY <1>1, <1>3, Functions
    <3>. QED BY <1>1, <3>1, Functions DEF Last
  <2>6. Dispatching(d)'
    BY <1>1, <1>2, <2>5 DEF Working, Dispatching, Past
  <2>. QED BY <2>1, <2>2, <2>3, <2>4, <2>6 DEF Working, Unread, Saving, Past
<1>. QED BY <1>4, <1>6, <1>7, <1>8, <1>9

\* A step in the middle that touches no run.
LEMMA MiddleCalm ==
  ASSUME Before, TypeInv', NEW d \in Dispatchers, Alone(d),
         UNCHANGED <<now, row, runs, scans, slotOf, sweepVars, crossed, events>>,
         copy'[d] = copy[d], seen'[d] = seen[d], claim'[d] = claim[d],
         \/ pc[d] = "job" /\ pc'[d] = "link"
         \/ pc[d] = "link" /\ pc'[d] = "link"
         \/ pc[d] = "send" /\ pc'[d] = "final"
  PROVE  Orderly'
<1>. USE DEF Before, Orderly
<1>1. There' /\ InTime' /\ OneAhead' /\ Still' /\ InUse' \subseteq InUse
  BY MiddleKept
<1>2. /\ \A e \in Dispatchers : pc[e] \in OnTheWay => pc'[e] \in OnTheWay /\ claim'[e] = claim[e]
      /\ \A e \in Dispatchers : pc'[e] \in {"advance", "scan"} => pc[e] \in {"advance", "scan"}
  BY DEF OnTheWay, Alone
<1>3. Linkable' /\ Guesses' /\ Pending' /\ Own'
  BY <1>1, <1>2, CalmStep
<1>4. Working'
  <2>1. pc[d] \in Past /\ pc[d] \notin Saving
    BY DEF Past, Saving
  <2>2. Dispatching(d) /\ seen[d] = Unread
    BY <2>1 DEF Working
  <2>3. Dispatching(d)'
    BY <2>2 DEF Dispatching, Past
  <2>4. seen'[d] = Unread
    BY <2>2
  <2>. QED BY <2>1, <2>3, <2>4, WorkingKept
<1>. QED BY <1>1, <1>3, <1>4

\* The job, the link's read and the broker call touch no run.
LEMMA OrderlyMiddle ==
  ASSUME Before, TypeInv', NEW d \in Dispatchers, CreateJob(d) \/ LinkRead(d) \/ Send(d)
  PROVE  Orderly'
<1>1. TypeInv
  BY DEF Before
<1>2. /\ UNCHANGED <<now, row, runs, scans, slotOf, copy, claim, seen, sweepVars, crossed, events>>
      /\ \/ pc[d] = "job" /\ pc' = [pc EXCEPT ![d] = "link"]
         \/ pc[d] = "link" /\ pc' = pc
         \/ pc[d] = "send" /\ pc' = [pc EXCEPT ![d] = "final"]
  BY DEF CreateJob, LinkRead, Send, Goto
<1>3. Alone(d)
  BY <1>1, <1>2, Functions DEF Alone
<1>4. \/ pc[d] = "job" /\ pc'[d] = "link"
      \/ pc[d] = "link" /\ pc'[d] = "link"
      \/ pc[d] = "send" /\ pc'[d] = "final"
  BY <1>1, <1>2, Functions
<1>. QED BY <1>2, <1>3, <1>4, MiddleCalm

\* While nothing is deleted a link finds the run of its claim, and ties it to its job.
LEMMA LinkIs ==
  ASSUME Before, NEW d \in Dispatchers, LinkWrite(d)
  PROVE  /\ claim[d] \in Claims /\ slotOf[claim[d]] \in Slot
         /\ runs[slotOf[claim[d]]].id = claim[d] /\ runs'[slotOf[claim[d]]].job = claim[d]
         /\ \A t \in Slot : t # slotOf[claim[d]] => runs'[t] = runs[t]
         /\ pc[d] = "link" /\ pc' = [pc EXCEPT ![d] = "send"]
         /\ UNCHANGED <<copy, claim, seen>>
<1>. USE DEF Before
<1>. DEFINE n == claim[d]
            t == slotOf[n]
<1>1. pc[d] = "link"
  BY DEF LinkWrite
<1>2. n \in Claims /\ t \in Slot
  BY <1>1, Functions, RecordTypes DEF TypeInv, Owned
<1>3. runs[t].id = n
  BY <1>2, RecordTypes DEF Kept, Undisturbed
<1>4. Present(n)
  BY <1>3 DEF Present
<1>5. /\ pc' = [pc EXCEPT ![d] = "send"] /\ UNCHANGED <<copy, claim, seen>>
      /\ \E status : runs' = [runs EXCEPT ![t] = Linked(runs[t], status, n)]
  BY <1>4, SchedulerKinds DEF LinkWrite
<1>6. PICK status : runs' = [runs EXCEPT ![t] = Linked(runs[t], status, n)]
  BY <1>5
<1>7. runs[t] \in Run
  BY <1>2, Functions
<1>8. Linked(runs[t], status, n).job = n
  BY <1>7 DEF Linked, Run
<1>9. runs'[t].job = n /\ \A s \in Slot : s # t => runs'[s] = runs[s]
  BY <1>2, <1>6, <1>8, Functions
<1>. QED BY <1>1, <1>2, <1>3, <1>5, <1>9

\* The link makes good what was guessed before and what will be guessed by the latest scan.
LEMMA OrderlyLinkWrite ==
  ASSUME Before, TypeInv', NEW d \in Dispatchers, LinkWrite(d) PROVE Orderly'
<1>. USE DEF Before, Orderly
<1>. DEFINE n == claim[d]
<1>1. /\ UNCHANGED <<now, row, scans, job, slotOf, sweepVars, events, copy, claim, seen>>
      /\ \A u \in updates : u.id # n
      /\ crossed \subseteq crossed' /\ (InHand(n) => n \in crossed')
  BY LinkIs DEF LinkWrite
<1>2. Alone(d) /\ pc[d] = "link" /\ pc'[d] = "send"
  BY <1>1, LinkIs, Functions DEF Alone
<1>3. \A t \in Slot : runs'[t].id = runs[t].id
  BY LinkRuns
<1>4. /\ There' /\ InTime' /\ OneAhead' /\ Still' /\ InUse' \subseteq InUse
      /\ \A t \in Slot : Claimed(t)' <=> Claimed(t)
  BY <1>1, <1>2, <1>3, MiddleKept
<1>5. \A m : m # n /\ Linking(m) => Linking(m)'
  BY <1>1, <1>2 DEF Linking, Alone
<1>6. ASSUME NEW t \in Slot
      PROVE  /\ Claimed(t)' => slotOf[runs'[t].id] = t
             /\ Claimed(t)' /\ runs'[t].job = None => Linking(runs[t].id)'
             /\ runs'[t].job \in {None, runs'[t].id} \/ Linking(runs[t].id)'
                \/ runs[t].id \in crossed'
  <2>1. CASE t = slotOf[n]
    BY <1>3, <1>4, <2>1, LinkIs, RecordTypes DEF Linkable
  <2>2. CASE t # slotOf[n]
    <3>1. runs'[t] = runs[t] /\ (Claimed(t) => slotOf[runs[t].id] = t)
      BY <2>2, LinkIs DEF Linkable
    <3>2. Claimed(t) => runs[t].id # n
      BY <3>1, <2>2
    <3>3. ~Claimed(t) => runs[t].job = None
      BY ClaimedById
    <3>. QED BY <1>1, <1>4, <1>5, <3>1, <3>2, <3>3 DEF Linkable, Own
  <2>. QED BY <2>1, <2>2
<1>7. Linkable' /\ Own'
  BY <1>1, <1>3, <1>6 DEF Linkable, Own
<1>13. Pending'
  <2>. SUFFICES ASSUME NEW u \in InFlight
       PROVE  /\ u.job \in Claims /\ slotOf[u.id] # None
              /\ runs'[u.slot].id = u.id =>
                   u.job = u.id \/ Linking(u.id)' \/ u.id \in crossed'
    BY <1>1 DEF Pending, InFlight
  <2>1. /\ u.job \in Claims /\ slotOf[u.id] # None /\ u.slot \in Slot
        /\ runs[u.slot].id = u.id => u.job = u.id \/ Linking(u.id) \/ u.id \in crossed
    BY Functions DEF Pending, InFlight, Finding, RunUpdate
  <2>2. runs'[u.slot].id = runs[u.slot].id
    BY <1>3, <2>1
  <2>3. CASE u.id # n
    BY <1>1, <1>5, <2>1, <2>2, <2>3
  <2>4. CASE u.id = n
    <3>1. u = hand /\ hand # None /\ hand.verdict \in {"open", "link"}
      BY <1>1, <2>4 DEF InFlight
    <3>. QED BY <1>1, <2>1, <2>4, <3>1 DEF InHand
  <2>. QED BY <2>3, <2>4
<1>8. d \in Dispatchers /\ pc[d] \in Past /\ Dispatching(d) /\ seen[d] = Unread
  BY <1>2 DEF Past, Working, Saving
<1>9. \A e \in Dispatchers : pc'[e] \notin {"advance", "scan"}
  BY <1>2, <1>8 DEF Working, Past, Alone
<1>10. \A t \in InUse' : Claimed(t)' \/ now < t
  BY <1>4, <1>8, PastAhead, Times
<1>11. Guesses'
  <2>. SUFFICES ASSUME NEW e \in todo, e.job = None, runs'[e.slot].id = e.id
       PROVE  \/ Linking(e.id)'
              \/ /\ scans # <<>> /\ Last(scans) = e.id
                 /\ \A t \in InUse' : Claimed(t)' \/ now < t
                 /\ \A f \in Dispatchers : pc'[f] \notin {"advance", "scan"}
    BY <1>1 DEF Guesses
  <2>1. runs[e.slot].id = e.id
    BY <1>3, Functions
  <2>2. scans # <<>> /\ Last(scans) = n
    BY <1>2, <1>8 DEF Dispatching
  <2>3. Linking(e.id) \/ Last(scans) = e.id
    BY <2>1 DEF Guesses
  <2>4. CASE e.id # n /\ Linking(e.id)
    BY <1>5, <2>4
  <2>5. CASE Last(scans) = e.id
    BY <1>9, <1>10, <2>2, <2>5
  <2>. QED BY <2>2, <2>3, <2>4, <2>5
<1>12. Working'
  <2>1. Dispatching(d)'
    BY <1>1, <1>2, <1>8 DEF Dispatching, Past
  <2>. QED BY <1>1, <1>2, <1>8, <2>1, WorkingKept
<1>. QED BY <1>4, <1>7, <1>11, <1>12, <1>13

\* Nobody moves but the reconciliation, a job or the clock.
LEMMA NobodyMoves ==
  ASSUME Before, TypeInv', UNCHANGED <<row, scans, slotOf, pc, copy, claim, seen, crossed, events>>,
         now' = now \/ now' = now + 1, \A t \in Slot : runs'[t].id = runs[t].id
  PROVE  /\ There' /\ OneAhead' /\ Working' /\ Still'
         /\ now' = now => InTime'
         /\ (\A t \in Slot : runs'[t].job = runs[t].job) => Linkable' /\ Own'
         /\ todo' \subseteq todo /\ now' = now => Guesses'
         /\ InFlight' \subseteq InFlight => Pending'
<1>. USE DEF Before, Orderly
<1>1. InUse' = InUse /\ Unread' = Unread
  BY DEF InUse, Unread
<1>2. OneAhead' /\ \A t \in Slot : Claimed(t)' <=> Claimed(t)
  BY <1>1, AheadKept
<1>3. There' /\ (now' = now => InTime')
  BY <1>1 DEF There, InTime
<1>4. Working'
  BY <1>1 DEF Working, Dispatching, Past, Saving
<1>5. Still'
  <2>1. Wedged' <=> Wedged
    BY <1>2, Functions DEF Wedged, Row
  <2>. QED BY <1>1, <2>1 DEF Still, Holding, Past
<1>6. \A n : Linking(n)' <=> Linking(n)
  BY DEF Linking, OnTheWay
<1>7. (\A t \in Slot : runs'[t].job = runs[t].job) => Linkable' /\ Own'
  BY <1>2, <1>6 DEF Linkable, Own
<1>8. ASSUME todo' \subseteq todo, now' = now PROVE Guesses'
  <2>. SUFFICES ASSUME NEW e \in todo
       PROVE  /\ slotOf[e.id] # None
              /\ e.job = None /\ runs'[e.slot].id = e.id =>
                   \/ Linking(e.id)'
                   \/ /\ scans # <<>> /\ Last(scans) = e.id
                      /\ \A t \in InUse' : Claimed(t)' \/ now < t
                      /\ \A d \in Dispatchers : pc'[d] \notin {"advance", "scan"}
    BY <1>8 DEF Guesses
  <2>1. runs'[e.slot].id = runs[e.slot].id
    BY Functions
  <2>. QED BY <1>1, <1>2, <1>6, <2>1, Times DEF Guesses
<1>9. ASSUME InFlight' \subseteq InFlight PROVE Pending'
  <2>. SUFFICES ASSUME NEW u \in InFlight
       PROVE  /\ u.job \in Claims /\ slotOf[u.id] # None
              /\ runs'[u.slot].id = u.id =>
                   u.job = u.id \/ Linking(u.id)' \/ u.id \in crossed
    BY <1>9 DEF Pending
  <2>1. u.slot \in Slot
    BY Functions DEF InFlight, Finding, RunUpdate
  <2>. QED BY <1>6, <2>1 DEF Pending
<1>. QED BY <1>2, <1>3, <1>4, <1>5, <1>7, <1>8, <1>9

\* The end of a job ties no run to another.
LEMMA OrderlyJobOver ==
  ASSUME Before, TypeInv', NEW n \in Claims, JobOver(n) PROVE Orderly'
<1>1. UNCHANGED <<now, row, runs, scans, slotOf, pc, copy, claim, seen, sweepVars, crossed, events>>
  BY DEF JobOver
<1>2. InFlight' = InFlight
  BY <1>1 DEF InFlight
<1>. QED BY <1>1, <1>2, NobodyMoves DEF Orderly

\* The clock waits for the tasks and for the reconciliation.
LEMMA OrderlyTick ==
  ASSUME Before, TypeInv', Tick PROVE Orderly'
<1>1. /\ UNCHANGED <<row, runs, scans, slotOf, pc, copy, claim, seen, sweepVars, crossed, events>>
      /\ now' = now + 1 /\ todo = {}
  BY DEF Tick
<1>2. InTime'
  BY <1>1, Times DEF Tick, InTime, Before, Orderly
<1>3. Guesses'
  BY <1>1 DEF Guesses
<1>4. InFlight' = InFlight
  BY <1>1 DEF InFlight
<1>. QED BY <1>1, <1>2, <1>3, <1>4, NobodyMoves DEF Orderly

\* What is read without a job has a dispatcher that will link one.
LEMMA OrderlyReconcileRead ==
  ASSUME Before, TypeInv', ReconcileRead PROVE Orderly'
<1>. USE DEF Before, Orderly
<1>1. /\ UNCHANGED <<now, row, runs, scans, slotOf, pc, copy, claim, seen, crossed, events>>
      /\ InFlight' = InFlight
  BY DEF ReconcileRead, InFlight
<1>2. PICK S \in SUBSET Orphans :
        todo' = {[slot |-> t, id |-> runs[t].id, job |-> runs[t].job] : t \in S}
  BY DEF ReconcileRead
<1>3. \A n : Linking(n)' <=> Linking(n)
  BY <1>1 DEF Linking, OnTheWay
<1>4. ASSUME NEW t \in Orphans
      PROVE  slotOf[runs[t].id] # None /\ (runs[t].job = None => Linking(runs[t].id))
  <2>1. t \in Slot /\ Claimed(t)
    BY DEF Orphans, Claimed, NoRun
  <2>. QED BY <2>1, RecordTypes DEF Linkable
<1>5. Guesses'
  <2>. SUFFICES ASSUME NEW e \in todo'
       PROVE  /\ slotOf[e.id] # None
              /\ e.job = None => Linking(e.id)'
    BY <1>1 DEF Guesses
  <2>1. PICK t \in S : e = [slot |-> t, id |-> runs[t].id, job |-> runs[t].job]
    BY <1>2
  <2>2. t \in Orphans /\ e.id = runs[t].id /\ e.job = runs[t].job
    BY <2>1
  <2>3. slotOf[e.id] # None /\ (e.job = None => Linking(e.id))
    BY <1>4, <2>2
  <2>. QED BY <1>3, <2>3
<1>. QED BY <1>1, <1>5, NobodyMoves

\* The latest scan is the claim's own, or its dispatcher is on the way.
LEMMA OrderlyReconcileLook ==
  ASSUME Before, TypeInv', NEW e \in todo, ReconcileLook(e) PROVE Orderly'
<1>. USE DEF Before, Orderly
<1>1. /\ UNCHANGED <<now, row, runs, scans, slotOf, pc, copy, claim, seen, updates, crossed, events>>
      /\ hand = None /\ todo' \subseteq todo
  BY DEF ReconcileLook
<1>2. \A n : Linking(n)' <=> Linking(n)
  BY <1>1 DEF Linking, OnTheWay
<1>3. hand'.verdict \in {"open", "link"} =>
        e.job = None /\ scans # <<>> /\ hand' = Found(e, Last(scans), "open")
  BY DEF ReconcileLook, Found, Settled
<1>4. ASSUME hand'.verdict \in {"open", "link"}
      PROVE  /\ hand'.job \in Claims /\ slotOf[hand'.id] # None
             /\ runs[hand'.slot].id = hand'.id => hand'.job = hand'.id \/ Linking(hand'.id)
  <2>1. /\ hand'.job = Last(scans) /\ hand'.id = e.id /\ hand'.slot = e.slot
        /\ e.job = None /\ scans # <<>>
    BY <1>3, <1>4 DEF Found
  <2>2. Last(scans) \in Claims
    BY <2>1, LatestScan
  <2>. QED BY <2>1, <2>2 DEF Guesses
<1>5. Pending'
  <2>. SUFFICES ASSUME NEW u \in InFlight'
       PROVE  /\ u.job \in Claims /\ slotOf[u.id] # None
              /\ runs[u.slot].id = u.id => u.job = u.id \/ Linking(u.id)' \/ u.id \in crossed
    BY <1>1 DEF Pending
  <2>1. CASE u = hand'
    BY <1>2, <1>4, <2>1 DEF InFlight
  <2>2. CASE u # hand'
    <3>1. u \in InFlight
      BY <1>1, <2>2 DEF InFlight
    <3>. QED BY <1>2, <3>1 DEF Pending
  <2>. QED BY <2>1, <2>2
<1>. QED BY <1>1, <1>5, NobodyMoves

\* Reading the scan's job changes nothing of that.
LEMMA OrderlyReconcileJob ==
  ASSUME Before, TypeInv', ReconcileJob PROVE Orderly'
<1>. USE DEF Before, Orderly
<1>1. /\ UNCHANGED <<now, row, runs, scans, slotOf, pc, copy, claim, seen, todo, updates, crossed, events>>
      /\ hand # None /\ hand.verdict = "open"
  BY DEF ReconcileJob
<1>2. hand'.slot = hand.slot /\ hand'.id = hand.id /\ hand'.job = hand.job
  BY <1>1, Functions DEF ReconcileJob, Finding, RunUpdate
<1>3. \A n : Linking(n)' <=> Linking(n)
  BY <1>1 DEF Linking, OnTheWay
<1>4. Pending'
  <2>. SUFFICES ASSUME NEW u \in InFlight'
       PROVE  /\ u.job \in Claims /\ slotOf[u.id] # None
              /\ runs[u.slot].id = u.id => u.job = u.id \/ Linking(u.id)' \/ u.id \in crossed
    BY <1>1 DEF Pending
  <2>1. CASE u = hand'
    <3>1. hand \in InFlight
      BY <1>1 DEF InFlight
    <3>. QED BY <1>2, <1>3, <2>1, <3>1 DEF Pending
  <2>2. CASE u # hand'
    <3>1. u \in InFlight
      BY <1>1, <2>2 DEF InFlight
    <3>. QED BY <1>3, <3>1 DEF Pending
  <2>. QED BY <2>1, <2>2
<1>. QED BY <1>1, <1>4, NobodyMoves

\* A guess is right, or the dispatcher on its way overwrites it, or has linked before.
LEMMA OrderlyReconcileRun ==
  ASSUME Before, TypeInv', ReconcileRun PROVE Orderly'
<1>. USE DEF Before, Orderly
<1>1. UNCHANGED <<now, row, scans, job, slotOf, pc, copy, claim, seen, todo, crossed, events>>
  BY DEF ReconcileRun
<1>2. \A t \in Slot : runs'[t].id = runs[t].id
  BY ReconcileRuns
<1>3. InFlight' \subseteq InFlight /\ \A u \in Updated : u.verdict = "link" => u \in InFlight
  <2>1. hand' = None /\ updates' \subseteq Updated
    BY UpdatedTypes
  <2>2. \A u \in Updated : u.verdict = "link" => u \in InFlight
    BY UpdatedTypes DEF InFlight
  <2>3. \A u \in Updated : u.verdict \in {"link", "completed", "failed"}
    BY UpdatedTypes DEF Finding, RunUpdate
  <2>. QED BY <2>1, <2>2, <2>3 DEF InFlight
<1>4. ASSUME NEW t \in Slot
      PROVE  \/ runs'[t].job = runs[t].job
             \/ /\ runs'[t].job # None
                /\ \/ runs'[t].job = runs[t].id \/ Linking(runs[t].id)
                   \/ runs[t].id \in crossed
  <2>1. CASE runs'[t] = runs[t]
    BY <2>1
  <2>2. CASE runs'[t] # runs[t]
    <3>1. PICK u \in Updated :
            /\ u.slot = t /\ u.id = runs[t].id
            /\ runs'[t].job = IF u.verdict = "link" THEN u.job ELSE runs[t].job
      BY <2>2, ReconcileRuns
    <3>2. CASE u.verdict = "link"
      BY <1>3, <3>1, <3>2, RecordTypes DEF Pending
    <3>. QED BY <3>1, <3>2
  <2>. QED BY <2>1, <2>2
<1>5. \A n : Linking(n)' <=> Linking(n)
  BY <1>1 DEF Linking, OnTheWay
<1>6. /\ There' /\ OneAhead' /\ Working' /\ Still' /\ InTime' /\ Guesses' /\ Pending'
  BY <1>1, <1>2, <1>3, NobodyMoves
<1>7. InUse' = InUse
  BY <1>1 DEF InUse, Unread
<1>8. \A t \in Slot : Claimed(t)' <=> Claimed(t)
  BY <1>1, <1>2, <1>7, AheadKept
<1>9. Linkable' /\ Own'
  BY <1>1, <1>2, <1>4, <1>5, <1>8 DEF Linkable, Own
<1>. QED BY <1>6, <1>9

\* A request takes its time to run next from the row.
LEMMA OrderlyEdit ==
  ASSUME Before, TypeInv', NEW u \in Analysts, NEW p, Edit(u, p),
         NEW e \in Event, Happens(e)
  PROVE  Orderly'
<1>. USE DEF Before, Orderly
<1>1. /\ UNCHANGED <<now, row, runs, scans, job, slotOf, sweepVars, crossed, claim, seen>>
      /\ pc[u] = "idle" /\ events' # {} /\ u \in Actors /\ u \notin Dispatchers
  BY SchedulerKinds DEF Edit, Happens
<1>2. /\ Alone(u) /\ pc'[u] = "store"
      /\ copy'[u] = [next |-> row.next, paused |-> p, start |-> now]
  BY <1>1, Functions DEF Edit, Alone
<1>3. \A d \in Dispatchers : pc'[d] = pc[d] /\ copy'[d] = copy[d] /\ claim'[d] = claim[d]
  BY <1>1, <1>2 DEF Alone
<1>4. InUse' \subseteq InUse
  BY <1>1, <1>2, Used, Times
<1>5. OneAhead' /\ Linkable' /\ Guesses' /\ Pending' /\ Own'
  BY <1>1, <1>3, <1>4, CalmStep DEF OnTheWay
<1>6. There'
  BY <1>1 DEF There, Unread
<1>7. InTime'
  <2>1. copy'[u].start <= now /\ now < copy'[u].start + Interval
    BY <1>2, Times
  <2>. QED BY <1>1, <1>2, <2>1 DEF InTime, Alone
<1>8. Working'
  <2>1. \A a \in Actors : pc'[a] \notin Saving => seen'[a] = Unread
    BY <1>1, <1>2 DEF Working, Alone, Saving
  <2>2. \A v \in Analysts : pc'[v] \in {"idle", "store"}
    BY <1>2 DEF Working, Alone
  <2>3. \A d \in Dispatchers : Dispatching(d)'
    BY <1>1, <1>3 DEF Working, Dispatching, Past
  <2>. QED BY <1>3, <2>1, <2>2, <2>3 DEF Working, Unread, Saving, Past
<1>9. Still'
  BY <1>1 DEF Still
<1>. QED BY <1>5, <1>6, <1>7, <1>8, <1>9

\* A dispatcher that loses the slot gives up.
LEMMA OrderlyLost ==
  ASSUME Before, TypeInv', NEW d \in Dispatchers, Claim(d), ~MayInsert(copy[d].next) PROVE Orderly'
<1>. USE DEF Before, Orderly
<1>1. /\ UNCHANGED <<now, row, runs, scans, job, slotOf, sweepVars, crossed, events>>
      /\ pc[d] = "claim" /\ Rest(d)
  BY DEF Claim
<1>2. Alone(d) /\ pc'[d] = "idle" /\ seen'[d] = Unread
  BY <1>1, RestMoves
<1>3. InUse' \subseteq InUse
  BY <1>1, <1>2, Used, Times
<1>4. OneAhead' /\ Linkable' /\ Guesses' /\ Pending' /\ Own'
  BY <1>1, <1>2, <1>3, CalmStep DEF Alone, OnTheWay
<1>5. There'
  BY <1>1, <1>2 DEF There, Alone, Unread
<1>6. InTime'
  BY <1>1, <1>2 DEF InTime, Alone
<1>7. Working'
  <2>1. Dispatching(d)' /\ pc'[d] \notin Past
    BY <1>2 DEF Dispatching, Past
  <2>. QED BY <1>1, <1>2, <2>1, WorkingKept
<1>8. Still'
  <2>1. Holding(d)'
    BY <1>2 DEF Holding, Past
  <2>2. \A t \in Slot : Claimed(t)' <=> Claimed(t)
    BY <1>1 DEF Claimed, NoRun
  <2>. QED BY <1>1, <1>2, <2>1, <2>2, StillKept
<1>. QED BY <1>4, <1>5, <1>6, <1>7, <1>8

\* Whoever claims a slot has the one free time, and nobody else is past his claim.
LEMMA ClaimIsFirst ==
  ASSUME Before, NEW d \in Dispatchers, pc[d] = "claim", ~Claimed(copy[d].next)
  PROVE  /\ copy[d].next \in InUse /\ copy[d].next <= now
         /\ \A t \in InUse : Claimed(t) \/ t = copy[d].next
         /\ \A e \in Dispatchers : pc[e] \notin Past
<1>. USE DEF Before, Orderly
<1>1. copy[d].next \in InUse /\ copy[d].next <= copy[d].start /\ copy[d].start <= now
  BY Times DEF Working, Dispatching, InTime
<1>2. copy[d].next <= now
  BY <1>1, Times
<1>3. ASSUME NEW e \in Dispatchers, pc[e] \in Past PROVE FALSE
  <2>1. now < copy[e].next /\ copy[d].next = copy[e].next
    BY <1>1, <1>3, PastAhead
  <2>. QED BY <1>2, <2>1, Times
<1>. QED BY <1>1, <1>2, <1>3 DEF OneAhead

\* What a claim that is won changes.
LEMMA WonIs ==
  ASSUME Before, NEW d \in Dispatchers, Claim(d), MayInsert(copy[d].next)
  PROVE  \E n \in Claims :
           /\ slotOf[n] = None /\ n # None
           /\ slotOf'[n] = copy[d].next /\ \A m \in Claims \ {n} : slotOf'[m] = slotOf[m]
           /\ runs'[copy[d].next].id = n /\ runs'[copy[d].next].job = None
           /\ \A t \in Slot \ {copy[d].next} : runs'[t] = runs[t]
           /\ claim'[d] = n /\ pc'[d] = "advance"
           /\ copy'[d] = [copy[d] EXCEPT !.next = copy[d].start + Interval]
           /\ Alone(d) /\ seen'[d] = seen[d]
<1>. USE DEF Before
<1>1. PICK n \in Claims :
        /\ slotOf[n] = None
        /\ slotOf' = [slotOf EXCEPT ![n] = copy[d].next]
        /\ runs'   = [runs EXCEPT ![copy[d].next] = [id |-> n, status |-> "dispatched",
                                                     job |-> None, at |-> now]]
        /\ claim'  = [claim EXCEPT ![d] = n]
        /\ copy'   = [copy EXCEPT ![d].next = NextRun(d)]
        /\ pc'     = [pc EXCEPT ![d] = "advance"]
        /\ UNCHANGED <<seen, seenRun>>
  BY DEF Claim
<1>2. copy[d].next \in Slot
  BY Times
<1>3. Alone(d)
  BY <1>1, Functions DEF Alone
<1>4. copy'[d] = [copy[d] EXCEPT !.next = copy[d].start + Interval]
  BY <1>1, Functions DEF NextRun
<1>5. /\ slotOf'[n] = copy[d].next /\ \A m \in Claims \ {n} : slotOf'[m] = slotOf[m]
      /\ claim'[d] = n /\ pc'[d] = "advance"
  BY <1>1, Functions
<1>6. /\ runs'[copy[d].next].id = n /\ runs'[copy[d].next].job = None
      /\ \A t \in Slot \ {copy[d].next} : runs'[t] = runs[t]
  BY <1>1, <1>2, Functions
<1>. QED BY <1>1, <1>3, <1>4, <1>5, <1>6, RecordTypes

\* A claim uses up the free time and makes the next.
LEMMA OrderlyWon ==
  ASSUME Before, TypeInv', NEW d \in Dispatchers, Claim(d), MayInsert(copy[d].next) PROVE Orderly'
<1>. USE DEF Before, Orderly
<1>. DEFINE t == copy[d].next
            ahead == copy[d].start + Interval
<1>1. /\ UNCHANGED <<now, row, scans, job, sweepVars, crossed, events>>
      /\ pc[d] = "claim" /\ row.exists /\ ~Claimed(t)
  BY DEF Claim, MayInsert
<1>2. PICK n \in Claims :
        /\ slotOf[n] = None /\ n # None
        /\ slotOf'[n] = t /\ \A m \in Claims \ {n} : slotOf'[m] = slotOf[m]
        /\ runs'[t].id = n /\ runs'[t].job = None
        /\ \A s \in Slot \ {t} : runs'[s] = runs[s]
        /\ claim'[d] = n /\ pc'[d] = "advance"
        /\ copy'[d] = [copy[d] EXCEPT !.next = ahead]
        /\ Alone(d) /\ seen'[d] = seen[d]
  BY WonIs
<1>3. /\ t \in InUse /\ t <= now /\ \A s \in InUse : Claimed(s) \/ s = t
      /\ \A e \in Dispatchers : pc[e] \notin Past
  BY <1>1, ClaimIsFirst
<1>4. copy'[d].next = ahead /\ copy'[d].start = copy[d].start /\ copy'[d].paused = copy[d].paused
  BY <1>2, Functions DEF Copy
<1>5. copy[d].start <= now /\ now < ahead /\ ahead \in Nat
  BY <1>1, Times DEF InTime
<1>6. /\ \A s \in Slot \ {t} : Claimed(s)' <=> Claimed(s)
      /\ t \in Slot /\ runs'[t] # NoRun'
  <2>1. NoRun' = NoRun /\ NoRun.id = None
    BY DEF NoRun
  <2>. QED BY <1>2, <1>3, <2>1, Times DEF Claimed
<1>7. ASSUME NEW s \in InUse' PROVE s = ahead \/ (s \in InUse /\ s \in Slot)
  <2>1. Unread' = Unread
    BY DEF Unread
  <2>2. CASE s = row'.next
    BY <1>1, <2>2, Times
  <2>3. ASSUME NEW b \in Actors, pc'[b] # "idle", s = copy'[b].next
        PROVE  s = ahead \/ (s \in InUse /\ s \in Slot)
    <3>1. CASE b = d
      BY <1>4, <2>3, <3>1
    <3>2. CASE b # d
      <4>1. pc[b] # "idle" /\ s = copy[b].next
        BY <1>2, <2>3, <3>2 DEF Alone
      <4>. QED BY <4>1, Times
    <3>. QED BY <3>1, <3>2
  <2>4. ASSUME NEW b \in Actors, seen'[b] # Unread, s = seen'[b].next
        PROVE  s = ahead \/ (s \in InUse /\ s \in Slot)
    <3>1. seen[b] # Unread /\ s = seen[b].next
      BY <1>2, <2>4 DEF Alone
    <3>. QED BY <3>1, Times
  <2>. QED BY <1>7, <2>1, <2>2, <2>3, <2>4 DEF InUse
<1>8. OneAhead'
  <2>1. ASSUME NEW s \in Slot, Claimed(s)' PROVE s <= now
    BY <1>3, <1>6, <2>1 DEF OneAhead
  <2>2. ASSUME NEW s \in InUse', s # ahead PROVE Claimed(s)'
    <3>1. CASE s = t
      BY <1>6, <3>1 DEF Claimed
    <3>2. CASE s # t
      BY <1>3, <1>6, <1>7, <2>2, <3>2
    <3>. QED BY <3>1, <3>2
  <2>3. \A s, o \in InUse' : ~Claimed(s)' /\ ~Claimed(o)' => s = o
    BY <2>2
  <2>. QED BY <1>1, <1>3, <1>6, <2>1, <2>3 DEF OneAhead
<1>9. There'
  BY <1>1, <1>2 DEF There, Alone, Unread
<1>10. InTime'
  BY <1>1, <1>2, <1>4, <1>5 DEF InTime, Alone
<1>11. seen'[d] = Unread
  BY <1>1, <1>2 DEF Working, Saving
<1>12. \A e \in Dispatchers \ {d} :
         /\ pc'[e] = pc[e] /\ copy'[e] = copy[e] /\ claim'[e] = claim[e] /\ seen'[e] = seen[e]
         /\ pc'[e] \notin Past
  BY <1>2, <1>3 DEF Alone
<1>13. Working'
  <2>1. \A a \in Actors : pc'[a] \notin Saving => seen'[a] = Unread
    BY <1>2, <1>11 DEF Working, Alone
  <2>2. \A u \in Analysts : pc'[u] \in {"idle", "store"}
    BY <1>2, SchedulerKinds DEF Working, Alone
  <2>3. ASSUME NEW e \in Dispatchers \ {d} PROVE Dispatching(e)'
    BY <1>12 DEF Working, Dispatching, Past
  <2>4. Dispatching(d)'
    BY <1>2, <1>4 DEF Dispatching, Past
  <2>5. \A e \in Dispatchers : pc'[e] \in Past => e = d
    BY <1>12
  <2>. QED BY <2>1, <2>2, <2>3, <2>4, <2>5 DEF Working, Unread, Saving, Past
<1>14. \A m : ~Linking(m)
  BY <1>3 DEF Linking, OnTheWay, Past
<1>15. Linking(n)'
  BY <1>2 DEF Linking, OnTheWay
<1>16. ASSUME NEW s \in Slot, s # t
       PROVE  /\ Claimed(s)' => slotOf'[runs'[s].id] = s /\ runs'[s].job # None
              /\ runs'[s].job \in {None, runs'[s].id} \/ runs'[s].id \in crossed
  <2>1. Claimed(s) => slotOf[runs[s].id] = s /\ runs[s].job # None /\ runs[s].id \in Claims
    BY <1>14, ClaimedById DEF Linkable
  <2>2. runs[s].job \in {None, runs[s].id} \/ runs[s].id \in crossed
    BY <1>14 DEF Own
  <2>. QED BY <1>2, <1>6, <1>16, <2>1, <2>2, RecordTypes
<1>17. Linkable' /\ Own'
  BY <1>1, <1>2, <1>15, <1>16 DEF Linkable, Own
<1>20. Pending'
  <2>. SUFFICES ASSUME NEW u \in InFlight
       PROVE  /\ u.job \in Claims /\ slotOf'[u.id] # None
              /\ runs'[u.slot].id = u.id => u.job = u.id \/ u.id \in crossed
    BY <1>1 DEF Pending, InFlight
  <2>1. u.slot \in Slot /\ u.id \in Claims
    BY Functions DEF InFlight, Finding, RunUpdate
  <2>2. /\ u.job \in Claims /\ slotOf[u.id] # None
        /\ runs[u.slot].id = u.id => u.job = u.id \/ u.id \in crossed
    BY <1>14 DEF Pending
  <2>3. u.id # n /\ slotOf'[u.id] # None
    BY <1>2, <2>1, <2>2
  <2>. QED BY <1>2, <2>1, <2>2, <2>3
<1>18. Guesses'
  <2>. SUFFICES ASSUME NEW e \in todo
       PROVE  slotOf'[e.id] # None /\ ~(e.job = None /\ runs'[e.slot].id = e.id)
    BY <1>1 DEF Guesses
  <2>1. slotOf[e.id] # None /\ e.id \in Claims /\ e.slot \in Slot
    BY Functions DEF Guesses
  <2>2. e.id # n /\ slotOf'[e.id] # None
    BY <1>2, <2>1
  <2>3. ~(e.job = None /\ runs[e.slot].id = e.id)
    <3>1. ~(Claimed(t) \/ now < t)
      BY <1>1, <1>3, Times
    <3>. QED BY <1>3, <1>14, <3>1 DEF Guesses
  <2>. QED BY <1>2, <2>1, <2>2, <2>3
<1>19. Still'
  <2>. SUFFICES ASSUME events = {}
       PROVE  /\ row.paused = 0 /\ \A u \in Analysts : pc'[u] = "idle"
              /\ \A e \in Dispatchers : Holding(e)'
              /\ ~Wedged'
    BY <1>1 DEF Still
  <2>1. row.next = t
    <3>1. ~Claimed(row.next)
      BY <1>1, <1>3 DEF Still, Wedged, Past
    <3>. QED BY <1>3, <3>1, Times
  <2>2. Holding(d)'
    BY <1>1, <1>2, <1>4, <1>11, <2>1 DEF Still, Holding, Past
  <2>3. ASSUME NEW e \in Dispatchers \ {d} PROVE Holding(e)'
    <3>1. Holding(e)
      BY DEF Still
    <3>. QED BY <1>12, <3>1 DEF Holding, Past
  <2>4. ~Wedged'
    BY <1>1, <1>2, <2>1 DEF Wedged
  <2>5. \A u \in Analysts : pc'[u] = "idle"
    BY <1>2, SchedulerKinds DEF Still, Alone
  <2>. QED BY <2>2, <2>3, <2>4, <2>5 DEF Still
<1>. QED BY <1>8, <1>9, <1>10, <1>13, <1>17, <1>18, <1>19, <1>20

\* At first the one time in use is free.
LEMMA OrderlyInit == Init => OrderlyInv
<1>. SUFFICES ASSUME Init PROVE Orderly
  BY KeptInit DEF OrderlyInv
<1>1. /\ row = [exists |-> TRUE, next |-> 0, paused |-> 0] /\ now = 0 /\ todo = {}
      /\ hand = None /\ updates = {}
      /\ \A a \in Actors : pc[a] = "idle" /\ seen[a] = Unread
      /\ \A t \in Slot : runs[t] = NoRun
      /\ \A d \in Dispatchers : pc[d] = "idle"
      /\ \A u \in Analysts : pc[u] = "idle"
  BY DEF Init
<1>2. InUse = {0} /\ 0 \in Slot
  BY <1>1, SchedulerKinds DEF InUse, Slot
<1>3. \A t \in Slot : ~Claimed(t)
  BY <1>1 DEF Claimed
<1>4. There /\ InTime /\ OneAhead
  BY <1>1, <1>2, <1>3 DEF There, InTime, OneAhead
<1>5. Working
  BY <1>1 DEF Working, Dispatching, Past
<1>6. Linkable /\ Guesses /\ Pending /\ Own
  BY <1>1, <1>3 DEF Linkable, Guesses, Pending, InFlight, Own, NoRun
<1>7. Still
  BY <1>1, <1>2, <1>3 DEF Still, Holding, Wedged, Past
<1>. QED BY <1>4, <1>5, <1>6, <1>7 DEF Orderly

\* No step disturbs the order, unless somebody crashes or deletes.
LEMMA OrderlyNext ==
  ASSUME Backend = "postgres", OrderlyInv, [Next]_vars PROVE OrderlyInv'
<1>1. TypeInv /\ TypeInv' /\ Kept /\ KeptInv'
  BY KeptNext DEF OrderlyInv, KeptInv
<1>. SUFFICES ASSUME Undisturbed' PROVE Orderly'
  BY <1>1 DEF OrderlyInv
<1>2. Undisturbed /\ Before
  <2>1. events \subseteq events'
    BY DEF Next, DispatcherStep, SaveStep, Start, Claim, SaveScan, CreateJob, LinkRead, LinkWrite,
       Send, SaveRead, SaveWrite, PauseRequest, ResumeRequest, Happens, DeleteRequest, Crash,
       Reconcile, ReconcileRead, ReconcileLook, ReconcileJob, ReconcileRun, JobOver, Tick, vars
  <2>. QED BY <1>1, <2>1 DEF Undisturbed, OrderlyInv, Before
<1>3. ASSUME NEW d \in Dispatchers, DispatcherStep(d) PROVE Orderly'
  <2>1. d \in Actors
    OBVIOUS
  <2>2. CASE Claim(d)
    BY <1>1, <1>2, <2>2, OrderlyLost, OrderlyWon
  <2>3. CASE Start(d) \/ SaveScan(d) \/ CreateJob(d) \/ LinkRead(d) \/ LinkWrite(d) \/ Send(d)
    BY <1>1, <1>2, <2>3, OrderlyStart, OrderlySaveScan, OrderlyMiddle, OrderlyLinkWrite
  <2>4. CASE SaveStep(d)
    BY <1>1, <1>2, <2>1, <2>4, OrderlySaveRead, OrderlySaveWrite DEF SaveStep
  <2>. QED BY <1>3, <2>2, <2>3, <2>4 DEF DispatcherStep
<1>4. ASSUME NEW u \in Analysts, SaveStep(u) \/ PauseRequest(u) \/ ResumeRequest(u)
      PROVE  Orderly'
  <2>1. u \in Actors /\ "pause" \in Event /\ "resume" \in Event
    BY DEF Event
  <2>2. CASE SaveStep(u)
    BY <1>1, <1>2, <2>1, <2>2, OrderlySaveRead, OrderlySaveWrite DEF SaveStep
  <2>3. CASE PauseRequest(u)
    BY <1>1, <1>2, <2>1, <2>3, OrderlyEdit DEF PauseRequest
  <2>4. CASE ResumeRequest(u)
    BY <1>1, <1>2, <2>1, <2>4, OrderlyEdit DEF ResumeRequest
  <2>. QED BY <1>4, <2>2, <2>3, <2>4
<1>5. ~DeleteRequest /\ ~\E a \in Actors : Crash(a)
  BY DEF DeleteRequest, Crash, Happens, Undisturbed
<1>6. CASE Reconcile
  BY <1>1, <1>2, <1>6, OrderlyReconcileRead, OrderlyReconcileLook, OrderlyReconcileJob,
     OrderlyReconcileRun DEF Reconcile
<1>7. CASE Tick \/ \E n \in Claims : JobOver(n)
  BY <1>1, <1>2, <1>7, OrderlyTick, OrderlyJobOver
<1>8. CASE UNCHANGED vars
  BY <1>1, <1>2, <1>8, NobodyMoves DEF vars, Orderly, InFlight
<1>. QED BY <1>3, <1>4, <1>5, <1>6, <1>7, <1>8 DEF Next

\* The invariant from which both theorems follow.
LEMMA OrderlySafe == ASSUME Backend = "postgres" PROVE Spec => []OrderlyInv
<1>1. OrderlyInv /\ [Next]_vars => OrderlyInv'
  BY OrderlyNext
<1>. QED BY <1>1, OrderlyInit, PTL DEF Spec

\* On PostgreSQL dispatchers, their saves and the reconciliation never leave the schedule at
\* a slot that was claimed and that nobody is about to advance from, as long as nothing
\* crashes and nobody edits it.
THEOREM NotWedged == ASSUME Backend = "postgres" PROVE Spec => []NeverWedged
<1>1. OrderlyInv => NeverWedged
  BY DEF OrderlyInv, Undisturbed, Orderly, Still, NeverWedged
<1>. QED BY <1>1, OrderlySafe, PTL

\* On PostgreSQL, while nothing crashes and nothing is deleted, the reconciliation ties a run
\* to no other slot's job, unless the dispatcher of the run will overwrite that or linked the run
\* between the reconciliation's look for the latest scan and its update.
THEOREM JobsOwned == ASSUME Backend = "postgres" PROVE Spec => []OwnJob
<1>1. OrderlyInv => OwnJob
  BY DEF OrderlyInv, Undisturbed, Orderly, Own, Linking, OnTheWay, OwnJob
<1>. QED BY <1>1, OrderlySafe, PTL

=============================================================================
