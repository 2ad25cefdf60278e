---------------------------- MODULE OutboxProofs ----------------------------
(***************************************************************************)
(* Theorems about Outbox for any number of monitors, processors, reapers,  *)
(* events, attempts and scenarios: types, claims that are paid for, one    *)
(* dispatch of an announcement, and a scan behind what is DELIVERED; and   *)
(* about CircuitBreaker for any threads and thresholds: its counters, and  *)
(* that it implements AbstractBreaker.                                     *)
(***************************************************************************)
EXTENDS Outbox, CircuitBreaker, FiniteSetTheorems, WellFoundedInduction, TLAPS

(* Types. *)

Places == {"save"} \cup ProcessorPc \cup ReaperPc

\* A row that is or was there.
Known(e) == e \in Reference /\ 0 < e.id /\ e.id <= row[e.event].id

\* Only a row that is being processed has a claim.
RowTypes ==
  /\ row \in [Events -> Row] /\ claims \in [Events -> Nat]
  /\ \A k \in Events : /\ row[k].status # "PROCESSING" => row[k].claim = 0 /\ ~row[k].stale
                       /\ row[k].id = 0 <=> row[k].status = "none"

JobTypes ==
  /\ jobs \in Seq(Job)
  /\ \A n \in DOMAIN jobs : 0 < jobs[n].id /\ jobs[n].id <= row[jobs[n].event].id

WorkTypes ==
  /\ pc \in [Actors -> Places]
  /\ todo \in [Workers -> SUBSET Reference]
  /\ mine \in [Processors -> SUBSET Reference]
  /\ cur \in [Actors -> Reference \cup {Nobody}]
  /\ goal \in [Reapers -> {"none", "retry", "DELIVERED"}]

HistTypes == events \subseteq Happening /\ budget \in [Happening -> Nat]

\* What a monitor knows.
Informed(m) == pc[m] \in {"idle", "save"} /\ (pc[m] = "save" => cur[m] \in Reference)

AtWork == {"check", "job", "send", "deliver", "audit", "failed"}

\* What a processor knows.
Prepared(p) ==
  /\ pc[p] \in ProcessorPc
  /\ \A e \in todo[p] \cup mine[p] : Known(e)
  /\ IF pc[p] \in AtWork THEN Known(cur[p]) ELSE cur[p] = Nobody
  /\ pc[p] = "send" => Unsent(p) # {}
  /\ backend # "sqlite" => pc[p] = "idle"

\* What a reaper knows.
Ready(r) ==
  /\ pc[r] \in ReaperPc
  /\ \A e \in todo[r] : Known(e)
  /\ pc[r] \in {"verdict", "write"} => Known(cur[r])
  /\ goal[r] \in (IF pc[r] = "write" THEN {"DELIVERED", "retry"} ELSE {"none"})
  /\ backend = "sqlite" => pc[r] # "flush"

TypeInv ==
  /\ backend \in Backends /\ prefix \in Prefixes
  /\ RowTypes /\ JobTypes /\ WorkTypes /\ HistTypes
  /\ \A m \in Monitors : Informed(m)
  /\ \A p \in Processors : Prepared(p)
  /\ \A r \in Reapers : Ready(r)
  /\ backend # "sqlite" => jobs = <<>>

\* The invariant has the shape.
LEMMA TypesFollow == TypeInv => OutboxTypeOK
BY DEF TypeInv, OutboxTypeOK, RowTypes, JobTypes, WorkTypes, HistTypes, Informed, Prepared, Ready

\* No actor is of two kinds.
LEMMA Kinds ==
  /\ Actors = Monitors \cup Processors \cup Reapers /\ Workers = Processors \cup Reapers
  /\ Monitors \cap Processors = {} /\ Monitors \cap Reapers = {} /\ Processors \cap Reapers = {}
  /\ MaxAttempts \in Nat \ {0} /\ AttemptCap \in Nat
BY OutboxKinds DEF Actors, Workers

\* b stands still.
Same(b) ==
  /\ pc'[b] = pc[b] /\ cur'[b] = cur[b]
  /\ b \in Workers => todo'[b] = todo[b]
  /\ b \in Processors => mine'[b] = mine[b]
  /\ b \in Reapers => goal'[b] = goal[b]

\* Nobody moves but those of A.
Still(A) == \A b \in Actors \ A : Same(b)

Alone(a) == Still({a})

\* A row is never taken back to an earlier one.
Onward == \A k \in Events : row[k].id <= row'[k].id

\* The row is being processed.
Processing(k) == row[k].status = "PROCESSING"

\* The row was there and still is, or a later one.
Stays(e) == e \in Reference /\ 0 < e.id /\ e.id <= row'[e.event].id

\* What was known is known.
LEMMA KnownKept == ASSUME TypeInv, RowTypes', Onward, NEW e, Known(e) PROVE Stays(e)
<1>1. e \in Reference /\ e.event \in Events /\ e.id \in Nat
  BY DEF Known, Reference
<1>2. row[e.event].id \in Nat /\ row'[e.event].id \in Nat
  BY <1>1 DEF TypeInv, RowTypes, Row
<1>3. row[e.event].id <= row'[e.event].id
  BY <1>1 DEF Onward
<1>. QED BY <1>1, <1>2, <1>3 DEF Known, Stays

\* A row that is there can be read.
LEMMA RefKnown ==
  ASSUME TypeInv, NEW k \in Events
  PROVE  /\ Ref(k) \in Reference /\ Ref(k).event = k /\ Ref(k).id = row[k].id
         /\ Ref(k).attempt = row[k].attempt /\ Ref(k).claim = row[k].claim
         /\ row[k].status # "none" => Known(Ref(k))
BY DEF TypeInv, RowTypes, Ref, Reference, Row, Known

\* Who stands still keeps what he knows.
LEMMA OthersKept ==
  ASSUME TypeInv, NEW A, Still(A), RowTypes', Onward, backend' = backend,
         \A p \in Processors \ A : Unsent(p) # {} => Unsent(p)' # {}
  PROVE  /\ \A m \in Monitors \ A : Informed(m)'
         /\ \A p \in Processors \ A : Prepared(p)'
         /\ \A r \in Reapers \ A : Ready(r)'
<1>1. ASSUME NEW m \in Monitors \ A PROVE Informed(m)'
  <2>1. Same(m) /\ Informed(m)
    BY Kinds DEF Still, TypeInv
  <2>. QED BY <2>1 DEF Informed, Same, Reference
<1>2. ASSUME NEW p \in Processors \ A PROVE Prepared(p)'
  <2>1. Same(p) /\ Prepared(p) /\ p \in Workers
    BY Kinds DEF Still, TypeInv
  <2>2. \A e \in todo[p] \cup mine[p] : Stays(e)
    BY <2>1, KnownKept DEF Prepared
  <2>3. Known(cur[p]) => Stays(cur[p])
    BY KnownKept
  <2>. QED BY <2>1, <2>2, <2>3 DEF Prepared, Same, Known, Stays, Reference
<1>3. ASSUME NEW r \in Reapers \ A PROVE Ready(r)'
  <2>1. Same(r) /\ Ready(r) /\ r \in Workers
    BY Kinds DEF Still, TypeInv
  <2>2. \A e \in todo[r] : Stays(e)
    BY <2>1, KnownKept DEF Ready
  <2>3. Known(cur[r]) => Stays(cur[r])
    BY KnownKept
  <2>. QED BY <2>1, <2>2, <2>3 DEF Ready, Same, Known, Stays, Reference
<1>. QED BY <1>1, <1>2, <1>3

\* What a step of a has to keep.
LEMMA TypeStep ==
  ASSUME TypeInv, NEW A, Still(A), RowTypes', Onward, JobTypes', WorkTypes', HistTypes',
         UNCHANGED <<backend, prefix>>, backend # "sqlite" => jobs' = <<>>,
         \A p \in Processors \ A : Unsent(p) # {} => Unsent(p)' # {},
         \A m \in Monitors \cap A : Informed(m)', \A p \in Processors \cap A : Prepared(p)',
         \A r \in Reapers \cap A : Ready(r)'
  PROVE  TypeInv'
<1>1. /\ \A m \in Monitors : Informed(m)'
      /\ \A p \in Processors : Prepared(p)'
      /\ \A r \in Reapers : Ready(r)'
  BY OthersKept
<1>. QED BY <1>1 DEF TypeInv

\* What the jobs are.
LEMMA JobAt == ASSUME TypeInv, NEW n \in DOMAIN jobs PROVE jobs[n] \in Job /\ n \in Nat
<1>1. jobs \in Seq(Job)
  BY DEF TypeInv, JobTypes
<1>. QED BY <1>1

\* The same for a step that changes no job.
LEMMA TypeCalm ==
  ASSUME TypeInv, NEW A, Still(A), RowTypes', Onward, WorkTypes', HistTypes',
         UNCHANGED <<backend, prefix, jobs>>,
         \A m \in Monitors \cap A : Informed(m)', \A p \in Processors \cap A : Prepared(p)',
         \A r \in Reapers \cap A : Ready(r)'
  PROVE  TypeInv'
<1>1. ASSUME NEW n \in DOMAIN jobs PROVE 0 < jobs[n].id /\ jobs[n].id <= row'[jobs[n].event].id
  <2>1. jobs[n].id \in Nat /\ jobs[n].event \in Events
    BY JobAt DEF Job
  <2>2. 0 < jobs[n].id /\ jobs[n].id <= row[jobs[n].event].id
    BY DEF TypeInv, JobTypes
  <2>3. row[jobs[n].event].id <= row'[jobs[n].event].id
    BY <2>1 DEF Onward
  <2>4. row[jobs[n].event].id \in Nat /\ row'[jobs[n].event].id \in Nat
    BY <2>1 DEF TypeInv, RowTypes, Row
  <2>. QED BY <2>1, <2>2, <2>3, <2>4
<1>2. JobTypes'
  BY <1>1 DEF TypeInv, JobTypes, Job
<1>3. \A p : Unsent(p)' = Unsent(p)
  BY DEF Unsent
<1>. QED BY <1>2, <1>3, TypeStep DEF TypeInv

\* A step that leaves the rows alone.
LEMMA RowsKept ==
  ASSUME TypeInv, UNCHANGED <<row, claims>> PROVE RowTypes' /\ Onward
BY DEF TypeInv, RowTypes, Onward, Row

\* The history's events.
LEMMA HistKept ==
  ASSUME TypeInv, \/ UNCHANGED histVars
                  \/ \E e \in Happening : Happens(e)
  PROVE  HistTypes' /\ events \subseteq events'
BY DEF TypeInv, HistTypes, Happens, histVars

-----------------------------------------------------------------------------
(* What the updates make of the rows. *)

LEMMA PutIs ==
  ASSUME TypeInv, NEW e, Known(e), NEW status \in Status \ {"none", "PROCESSING"}, NEW attempt \in Nat,
         Put(e, status, attempt), claims' = claims
  PROVE  /\ RowTypes' /\ Onward /\ \A k \in Events : row'[k].id = row[k].id
         /\ \A k \in Events : k # e.event => row'[k] = row[k]
         /\ ~SameRow(e) => row' = row
         /\ SameRow(e) => /\ row'[e.event].status = status /\ row'[e.event].attempt = attempt
                          /\ row'[e.event].claim = 0 /\ ~row'[e.event].stale
<1>1. e.event \in Events /\ e.id > 0
  BY DEF Known, Reference
<1>2. CASE ~SameRow(e)
  BY <1>2, RowsKept DEF Put, SameRow
<1>3. CASE SameRow(e)
  <2>. DEFINE new == [row[e.event] EXCEPT !.status = status, !.attempt = attempt,
                                         !.claim = 0, !.stale = FALSE]
  <2>1. row' = [row EXCEPT ![e.event] = new]
    BY <1>3 DEF Put, SameRow
  <2>2. row[e.event] \in Row /\ row[e.event].id = e.id
    BY <1>1, <1>3 DEF TypeInv, RowTypes, SameRow
  <2>3. /\ new \in Row /\ new.id = row[e.event].id /\ new.status = status /\ new.attempt = attempt
        /\ new.claim = 0 /\ ~new.stale
    BY <2>2 DEF Row
  <2>. HIDE DEF new
  <2>4. row \in [Events -> Row] /\ \A k \in Events : row[k].id \in Nat
    BY DEF TypeInv, RowTypes, Row
  <2>5. /\ row' \in [Events -> Row] /\ row'[e.event] = new
        /\ \A k \in Events : k # e.event => row'[k] = row[k]
    BY <1>1, <2>1, <2>3, <2>4
  <2>6. RowTypes'
    BY <1>1, <2>2, <2>3, <2>5 DEF TypeInv, RowTypes
  <2>7. \A k \in Events : row'[k].id = row[k].id
    BY <2>3, <2>5
  <2>. QED BY <1>3, <2>3, <2>4, <2>5, <2>6, <2>7 DEF Onward
<1>. QED BY <1>2, <1>3

LEMMA PutStatusIs ==
  ASSUME TypeInv, NEW e, Known(e), NEW status \in Status \ {"none", "PROCESSING"},
         PutStatus(e, status), claims' = claims
  PROVE  /\ RowTypes' /\ Onward /\ \A k \in Events : row'[k].id = row[k].id
         /\ \A k \in Events : k # e.event => row'[k] = row[k]
         /\ ~SameRow(e) => row' = row
         /\ SameRow(e) => /\ row'[e.event].status = status
                          /\ row'[e.event].attempt = row[e.event].attempt
                          /\ row'[e.event].claim = 0 /\ ~row'[e.event].stale
<1>1. row[e.event].attempt \in Nat
  BY DEF TypeInv, RowTypes, Row, Known, Reference
<1>. QED BY <1>1, PutIs DEF PutStatus

\* Trying again gives the row another attempt or ends it.
LEMMA AgainIs ==
  ASSUME TypeInv, NEW e, Known(e), NEW last \in Nat, Again(e, last), claims' = claims
  PROVE  /\ RowTypes' /\ Onward /\ \A k \in Events : row'[k].id = row[k].id
         /\ \A k \in Events : k # e.event => row'[k] = row[k]
         /\ ~SameRow(e) => row' = row
         /\ SameRow(e) =>
              /\ row'[e.event].claim = 0 /\ ~row'[e.event].stale
              /\ \/ /\ e.attempt < last
                    /\ row'[e.event].status = "PENDING" /\ row'[e.event].attempt = e.attempt + 1
                 \/ /\ row'[e.event].status = "DEAD_LETTER"
                    /\ row'[e.event].attempt = row[e.event].attempt
<1>1. e.attempt \in Nat
  BY DEF Known, Reference
<1>2. CASE e.attempt < last
  <2>1. e.attempt + 1 \in Nat /\ "PENDING" \in Status \ {"none", "PROCESSING"}
    BY <1>1 DEF Status
  <2>. QED BY <1>2, <2>1, PutIs DEF Again
<1>3. CASE ~(e.attempt < last)
  BY <1>3, PutStatusIs DEF Again, Status
<1>. QED BY <1>2, <1>3

\* A claim begins to process the row.
LEMMA TakeIs ==
  ASSUME TypeInv, NEW k \in Events, row[k].status # "none"
  PROVE  /\ Take(k) \in Row /\ Take(k).status = "PROCESSING" /\ Take(k).id = row[k].id
         /\ Take(k).claim = claims[k] + 1 /\ ~Take(k).stale /\ Take(k).attempt = row[k].attempt
<1>1. row[k] \in Row /\ claims[k] + 1 \in Nat /\ "PROCESSING" \in Status
  BY DEF TypeInv, RowTypes, Status
<1>. DEFINE c == claims[k] + 1
<1>2. Take(k) = [row[k] EXCEPT !.status = "PROCESSING", !.claim = c, !.stale = FALSE]
  BY DEF Take
<1>. HIDE DEF c
<1>3. c \in Nat /\ c = claims[k] + 1
  BY <1>1 DEF c
<1>. QED BY <1>1, <1>2, <1>3 DEF Row

LEMMA TypeInit == OutboxInit => TypeInv
<1>. SUFFICES ASSUME OutboxInit PROVE TypeInv
  OBVIOUS
<1>1. NoRow \in Row
  BY DEF NoRow, Row, Status
<1>2. RowTypes
  BY <1>1 DEF OutboxInit, RowTypes, NoRow
<1>3. JobTypes
  BY DEF OutboxInit, JobTypes
<1>4. WorkTypes
  BY Kinds DEF OutboxInit, WorkTypes, Places, ProcessorPc
<1>5. HistTypes
  BY OutboxKinds DEF OutboxInit, HistTypes
<1>6. \A a \in Actors : pc[a] = "idle" /\ cur[a] = Nobody
  BY DEF OutboxInit
<1>7. \A w \in Workers : todo[w] = {}
  BY DEF OutboxInit
<1>8. \A m \in Monitors : Informed(m)
  BY <1>6, Kinds DEF Informed
<1>9. \A p \in Processors : Prepared(p)
  BY <1>6, <1>7, Kinds DEF OutboxInit, Prepared, ProcessorPc, AtWork
<1>10. \A r \in Reapers : Ready(r)
  BY <1>6, <1>7, Kinds DEF OutboxInit, Ready, ReaperPc
<1>. QED BY <1>2, <1>3, <1>4, <1>5, <1>8, <1>9, <1>10 DEF OutboxInit, TypeInv

\* A processor's step that changes no job.
LEMMA ProcessorCalm ==
  ASSUME TypeInv, NEW p \in Processors, Alone(p), RowTypes', Onward, WorkTypes',
         UNCHANGED histVars \/ \E e \in Happening : Happens(e),
         UNCHANGED <<backend, prefix, jobs>>, backend = "sqlite",
         pc'[p] \in ProcessorPc \ {"send"},
         \A e \in todo'[p] \cup mine'[p] : Known(e),
         IF pc'[p] \in AtWork THEN Known(cur'[p]) ELSE cur'[p] = Nobody
  PROVE  TypeInv'
<1>1. \A e \in todo'[p] \cup mine'[p] : Stays(e)
  BY KnownKept
<1>2. IF pc'[p] \in AtWork THEN Stays(cur'[p]) ELSE cur'[p] = Nobody
  BY KnownKept
<1>3. Prepared(p)'
  BY <1>1, <1>2 DEF Prepared, Stays, Known, AtWork, ProcessorPc, Nobody, Reference
<1>4. HistTypes'
  BY HistKept
<1>. QED BY <1>3, <1>4, Kinds, TypeCalm DEF Alone

\* A reaper's step that changes no job.
LEMMA ReaperCalm ==
  ASSUME TypeInv, NEW r \in Reapers, Alone(r), RowTypes', Onward, WorkTypes',
         UNCHANGED histVars \/ \E e \in Happening : Happens(e),
         UNCHANGED <<backend, prefix, jobs>>,
         pc'[r] \in ReaperPc, \A e \in todo'[r] : Known(e),
         pc'[r] \in {"verdict", "write"} => Known(cur'[r]),
         goal'[r] \in (IF pc'[r] = "write" THEN {"DELIVERED", "retry"} ELSE {"none"}),
         backend = "sqlite" => pc'[r] # "flush"
  PROVE  TypeInv'
<1>1. \A e \in todo'[r] : Stays(e)
  BY KnownKept
<1>2. pc'[r] \in {"verdict", "write"} => Stays(cur'[r])
  BY KnownKept
<1>3. Ready(r)'
  BY <1>1, <1>2 DEF Ready, Stays, Known, ReaperPc, Reference
<1>4. HistTypes'
  BY HistKept
<1>. QED BY <1>3, <1>4, Kinds, TypeCalm DEF Alone

\* What a processor at work knows.
LEMMA ProcessorKnows ==
  ASSUME TypeInv, NEW p \in Processors
  PROVE  /\ \A e \in todo[p] \cup mine[p] : Known(e)
         /\ pc[p] \in AtWork => Known(cur[p])
         /\ pc[p] \notin AtWork => cur[p] = Nobody
         /\ pc[p] # "idle" => backend = "sqlite"
         /\ pc[p] = "send" => Unsent(p) # {}
         /\ p \in Actors /\ p \in Workers /\ pc[p] \in ProcessorPc /\ p \notin Reapers
BY Kinds DEF TypeInv, Prepared

LEMMA ReaperKnows ==
  ASSUME TypeInv, NEW r \in Reapers
  PROVE  /\ \A e \in todo[r] : Known(e)
         /\ pc[r] \in {"verdict", "write"} => Known(cur[r])
         /\ goal[r] \in (IF pc[r] = "write" THEN {"DELIVERED", "retry"} ELSE {"none"})
         /\ backend = "sqlite" => pc[r] # "flush"
         /\ r \in Actors /\ r \in Workers /\ pc[r] \in ReaperPc /\ r \notin Processors
BY Kinds DEF TypeInv, Ready

\* What the variables of the actors range over.
LEMMA Functions ==
  ASSUME TypeInv
  PROVE  /\ pc \in [Actors -> Places] /\ todo \in [Workers -> SUBSET Reference]
         /\ mine \in [Processors -> SUBSET Reference]
         /\ cur \in [Actors -> Reference \cup {Nobody}]
         /\ goal \in [Reapers -> {"none", "retry", "DELIVERED"}]
BY DEF TypeInv, WorkTypes

-----------------------------------------------------------------------------
(* Who moves in a step, and how. *)

\* A processor goes on to another place.
Goes(p, from, to) ==
  /\ pc[p] = from /\ pc'[p] = to /\ Alone(p) /\ WorkTypes'
  /\ todo'[p] = todo[p] /\ mine'[p] = mine[p] /\ cur'[p] = cur[p]

LEMMA GoesIs ==
  ASSUME TypeInv, NEW p \in Processors, NEW to \in ProcessorPc,
         pc' = [pc EXCEPT ![p] = to], UNCHANGED <<todo, mine, cur, goal>>
  PROVE  Goes(p, pc[p], to)
BY Functions, Kinds DEF Goes, Alone, Still, Same, WorkTypes, Places

\* The loop goes on, or ends.
LEMMA DoneIs ==
  ASSUME TypeInv, NEW p \in Processors, Done(p)
  PROVE  /\ Alone(p) /\ WorkTypes' /\ cur'[p] = Nobody
         /\ pc'[p] = IF todo[p] = {} THEN "idle" ELSE "next"
         /\ todo'[p] = todo[p] /\ mine'[p] = mine[p]
BY Functions, Kinds DEF Done, Alone, Still, Same, WorkTypes, Places, ProcessorPc

LEMMA CheckDuplicateIs ==
  ASSUME TypeInv, NEW m \in Monitors, CheckDuplicate(m)
  PROVE  /\ Alone(m) /\ WorkTypes' /\ Informed(m)' /\ UNCHANGED <<backend, prefix, row, claims, jobs>>
         /\ Happens("announce") /\ "announce" \in Happening
<1>1. PICK k \in Events :
        IF Staged(k) THEN UNCHANGED <<pc, cur>>
        ELSE pc' = [pc EXCEPT ![m] = "save"] /\ cur' = [cur EXCEPT ![m] = Ref(k)]
  BY DEF CheckDuplicate
<1>2. UNCHANGED <<backend, prefix, row, claims, jobs, todo, mine, goal>> /\ pc[m] = "idle"
  BY DEF CheckDuplicate, tableVars
<1>3. Ref(k) \in Reference /\ m \in Actors
  BY RefKnown, Kinds
<1>4. Alone(m) /\ WorkTypes' /\ Informed(m)'
  BY <1>1, <1>2, <1>3, Functions DEF Alone, Still, Same, WorkTypes, Informed, Places, Reference
<1>. QED BY <1>2, <1>4 DEF CheckDuplicate, Happening

LEMMA TypeCheckDuplicate ==
  ASSUME TypeInv, NEW m \in Monitors, CheckDuplicate(m) PROVE TypeInv'
<1>1. RowTypes' /\ Onward
  BY CheckDuplicateIs, RowsKept
<1>2. HistTypes'
  BY CheckDuplicateIs, HistKept
<1>. QED BY <1>1, <1>2, CheckDuplicateIs, Kinds, TypeCalm DEF Alone

\* An announcement is a new row on SQLite, and has not been claimed.
LEMMA SaveEventIs ==
  ASSUME TypeInv, NEW m \in Monitors, SaveEvent(m)
  PROVE  \E k \in Events :
           /\ \A j \in Events \ {k} : row'[j] = row[j] /\ claims'[j] = claims[j]
           /\ row'[k].status = "PENDING" /\ row'[k].attempt = 1 /\ claims'[k] = 0
           /\ row'[k].claim = 0 /\ ~row'[k].stale
           /\ backend = "sqlite" => row'[k].id = row[k].id + 1
           /\ RowTypes' /\ Onward /\ Alone(m) /\ WorkTypes' /\ Informed(m)'
           /\ UNCHANGED <<backend, prefix, jobs, histVars>>
<1>. DEFINE k == cur[m].event
            new == [id |-> NewId(k), status |-> "PENDING", attempt |-> 1, claim |-> 0, stale |-> FALSE]
<1>1. k \in Events /\ m \in Actors
  BY Kinds DEF SaveEvent, TypeInv, Informed, Reference
<1>2. row[k].id \in Nat /\ row \in [Events -> Row] /\ claims \in [Events -> Nat]
  BY <1>1 DEF TypeInv, RowTypes, Row
<1>3. NewId(k) \in Nat /\ NewId(k) > 0 /\ NewId(k) >= row[k].id
  BY <1>2 DEF NewId
<1>4. row' = [row EXCEPT ![k] = new] /\ claims' = [claims EXCEPT ![k] = 0]
  BY DEF SaveEvent
<1>5. /\ new \in Row /\ new.id = NewId(k) /\ new.status = "PENDING" /\ new.attempt = 1
      /\ new.claim = 0 /\ ~new.stale
  BY <1>3 DEF Row, Status
<1>6. backend = "sqlite" => NewId(k) = row[k].id + 1
  BY DEF NewId
<1>. HIDE DEF k, new
<1>7. /\ row' \in [Events -> Row] /\ claims' \in [Events -> Nat] /\ row'[k] = new /\ claims'[k] = 0
      /\ \A j \in Events \ {k} : row'[j] = row[j] /\ claims'[j] = claims[j]
  BY <1>1, <1>2, <1>4, <1>5
<1>8. RowTypes'
  BY <1>3, <1>5, <1>7 DEF TypeInv, RowTypes
<1>9. Onward
  <2>1. \A j \in Events : row[j].id \in Nat
    BY DEF TypeInv, RowTypes, Row
  <2>. QED BY <1>3, <1>5, <1>7, <2>1 DEF Onward
<1>10. Alone(m) /\ WorkTypes' /\ Informed(m)'
  <2>1. /\ pc' = [pc EXCEPT ![m] = "idle"] /\ cur' = [cur EXCEPT ![m] = Nobody]
        /\ UNCHANGED <<todo, mine, goal>>
    BY DEF SaveEvent
  <2>. QED
    BY <1>1, <2>1, Functions DEF Alone, Still, Same, WorkTypes, Informed, Places, ProcessorPc
<1>11. UNCHANGED <<backend, prefix, jobs, histVars>>
  BY DEF SaveEvent
<1>. QED BY <1>1, <1>5, <1>6, <1>7, <1>8, <1>9, <1>10, <1>11

LEMMA TypeSaveEvent ==
  ASSUME TypeInv, NEW m \in Monitors, SaveEvent(m) PROVE TypeInv'
<1>1. HistTypes' /\ RowTypes' /\ Onward
  BY SaveEventIs, HistKept
<1>. QED BY <1>1, SaveEventIs, Kinds, TypeCalm DEF Alone

LEMMA ListPendingIs ==
  ASSUME TypeInv, NEW p \in Processors, ListPending(p)
  PROVE  /\ Alone(p) /\ WorkTypes' /\ pc'[p] = "claim" /\ mine'[p] = mine[p] /\ cur'[p] = cur[p]
         /\ \A e \in todo'[p] : Known(e)
         /\ pc[p] = "idle" /\ backend = "sqlite" /\ UNCHANGED <<backend, prefix, row, claims, jobs, histVars>>
<1>1. \A k \in With("PENDING") : Known(Ref(k)) /\ Ref(k) \in Reference
  BY RefKnown DEF With
<1>2. /\ pc' = [pc EXCEPT ![p] = "claim"]
      /\ todo' = [todo EXCEPT ![p] = {Ref(k) : k \in With("PENDING")}]
      /\ UNCHANGED <<mine, cur, goal>>
  BY DEF ListPending
<1>3. \A e \in {Ref(k) : k \in With("PENDING")} : Known(e) /\ e \in Reference
  BY <1>1
<1>4. todo'[p] = {Ref(k) : k \in With("PENDING")}
  BY <1>2, Functions, Kinds
<1>5. Alone(p) /\ WorkTypes' /\ pc'[p] = "claim" /\ mine'[p] = mine[p] /\ cur'[p] = cur[p]
  BY <1>2, <1>3, Functions, Kinds DEF Alone, Still, Same, WorkTypes, Places, ProcessorPc
<1>. QED BY <1>3, <1>4, <1>5 DEF ListPending, tableVars

LEMMA TypeListPending ==
  ASSUME TypeInv, NEW p \in Processors, ListPending(p) PROVE TypeInv'
<1>1. RowTypes' /\ Onward
  BY ListPendingIs, RowsKept
<1>2. \A e \in mine'[p] : Known(e)
  BY ListPendingIs, ProcessorKnows
<1>3. cur'[p] = Nobody
  BY ListPendingIs, ProcessorKnows DEF AtWork
<1>. QED
  BY <1>1, <1>2, <1>3, ListPendingIs, ProcessorCalm DEF AtWork, ProcessorPc

\* A claim takes a PENDING row, or finds that somebody else has.
LEMMA ClaimEventIs ==
  ASSUME TypeInv, NEW p \in Processors, ClaimEvent(p)
  PROVE  \E e \in todo[p] :
           /\ Known(e) /\ e.event \in Events /\ Alone(p) /\ WorkTypes'
           /\ pc[p] = "claim" /\ pc'[p] = "claim" /\ cur'[p] = cur[p] /\ todo'[p] = todo[p] \ {e}
           /\ \/ /\ SameRow(e) /\ row[e.event].status = "PENDING" /\ mine'[p] = mine[p] \cup {e}
                 /\ row'[e.event] = Take(e.event) /\ claims'[e.event] = claims[e.event] + 1
                 /\ \A k \in Events : k # e.event => row'[k] = row[k] /\ claims'[k] = claims[k]
              \/ mine'[p] = mine[p] /\ UNCHANGED <<row, claims>>
           /\ RowTypes' /\ Onward /\ \A k \in Events : row'[k].id = row[k].id
           /\ backend = "sqlite" /\ UNCHANGED <<backend, prefix, jobs, histVars>>
<1>1. PICK e \in todo[p] :
        /\ todo' = [todo EXCEPT ![p] = @ \ {e}]
        /\ IF Claimable(e)
             THEN /\ row'    = [row EXCEPT ![e.event] = Take(e.event)]
                  /\ claims' = [claims EXCEPT ![e.event] = @ + 1]
                  /\ mine'   = [mine EXCEPT ![p] = @ \cup {e}]
             ELSE UNCHANGED <<row, claims, mine>>
  BY DEF ClaimEvent
<1>2. UNCHANGED <<backend, prefix, jobs, pc, cur, goal, histVars>> /\ pc[p] = "claim"
  BY DEF ClaimEvent
<1>3. Known(e) /\ e.event \in Events /\ e \in Reference
  BY ProcessorKnows DEF Known, Reference
<1>4. backend = "sqlite"
  BY <1>2, ProcessorKnows
<1>5. mine'[p] = IF Claimable(e) THEN mine[p] \cup {e} ELSE mine[p]
  BY <1>1, Functions
<1>6. /\ Alone(p) /\ WorkTypes' /\ pc'[p] = "claim" /\ cur'[p] = cur[p]
      /\ todo'[p] = todo[p] \ {e}
  BY <1>1, <1>2, <1>3, Functions, Kinds DEF Alone, Still, Same, WorkTypes
<1>7. CASE Claimable(e)
  <2>1. /\ SameRow(e) /\ row[e.event].status = "PENDING" /\ row[e.event].status # "none"
        /\ row \in [Events -> Row] /\ claims \in [Events -> Nat]
    BY <1>7 DEF Claimable, TypeInv, RowTypes
  <2>. DEFINE new == Take(e.event)
  <2>2. /\ new \in Row /\ new.status = "PROCESSING" /\ new.id = row[e.event].id
    BY <1>3, <2>1, TakeIs
  <2>3. row' = [row EXCEPT ![e.event] = new] /\ claims' = [claims EXCEPT ![e.event] = @ + 1]
    BY <1>1, <1>7
  <2>. HIDE DEF new
  <2>4. /\ row' \in [Events -> Row] /\ row'[e.event] = new /\ claims' \in [Events -> Nat]
        /\ claims'[e.event] = claims[e.event] + 1
        /\ \A k \in Events : k # e.event => row'[k] = row[k] /\ claims'[k] = claims[k]
    BY <1>3, <2>1, <2>2, <2>3
  <2>5. RowTypes'
    <3>1. ASSUME NEW k \in Events
          PROVE  /\ row'[k].status # "PROCESSING" => row'[k].claim = 0 /\ ~row'[k].stale
                 /\ row'[k].id = 0 <=> row'[k].status = "none"
      <4>1. CASE k = e.event
        BY <4>1, <2>1, <2>2, <2>4 DEF TypeInv, RowTypes
      <4>2. CASE k # e.event
        BY <4>2, <2>4 DEF TypeInv, RowTypes
      <4>. QED BY <4>1, <4>2
    <3>. QED BY <2>4, <3>1 DEF RowTypes
  <2>6. \A k \in Events : row'[k].id = row[k].id
    BY <2>2, <2>4
  <2>9. \A k \in Events : row[k].id \in Nat
    BY DEF TypeInv, RowTypes, Row
  <2>7. Onward
    BY <2>6, <2>9 DEF Onward
  <2>8. row'[e.event] = Take(e.event)
    BY <2>4 DEF new
  <2>. QED BY <1>2, <1>3, <1>4, <1>5, <1>6, <1>7, <2>1, <2>4, <2>5, <2>6, <2>7, <2>8
<1>8. CASE ~Claimable(e)
  <2>1. UNCHANGED <<row, claims>>
    BY <1>1, <1>8
  <2>2. RowTypes' /\ Onward
    BY <2>1, RowsKept
  <2>. QED BY <1>2, <1>3, <1>4, <1>5, <1>6, <1>8, <2>1, <2>2
<1>. QED BY <1>7, <1>8

LEMMA TypeClaimEvent ==
  ASSUME TypeInv, NEW p \in Processors, ClaimEvent(p) PROVE TypeInv'
<1>1. cur[p] = Nobody /\ \A e \in todo[p] \cup mine[p] : Known(e)
  BY ClaimEventIs, ProcessorKnows DEF AtWork
<1>2. \A e \in todo'[p] \cup mine'[p] : Known(e)
  BY <1>1, ClaimEventIs
<1>. QED BY <1>1, <1>2, ClaimEventIs, ProcessorCalm DEF AtWork, ProcessorPc

\* The rows that were claimed are read again.
LEMMA LoadIs ==
  ASSUME TypeInv, NEW p \in Processors, Load(p)
  PROVE  /\ Alone(p) /\ WorkTypes' /\ pc[p] = "claim" /\ pc'[p] \in {"idle", "next"}
         /\ cur'[p] = cur[p] /\ mine'[p] = {} /\ todo'[p] = Loaded(p)
         /\ \A f \in Loaded(p) : \E e \in mine[p] : SameRow(e) /\ Known(e) /\ f = Ref(e.event)
         /\ \A f \in Loaded(p) : Known(f)
         /\ backend = "sqlite" /\ UNCHANGED <<backend, prefix, row, claims, jobs, histVars>>
<1>1. /\ pc' = [pc EXCEPT ![p] = IF Loaded(p) = {} THEN "idle" ELSE "next"]
      /\ todo' = [todo EXCEPT ![p] = Loaded(p)] /\ mine' = [mine EXCEPT ![p] = {}]
      /\ UNCHANGED <<cur, goal, backend, prefix, row, claims, jobs, histVars>> /\ pc[p] = "claim"
  BY DEF Load, tableVars
<1>2. \A f \in Loaded(p) : \E e \in mine[p] : SameRow(e) /\ Known(e) /\ f = Ref(e.event)
  BY ProcessorKnows DEF Loaded
<1>3. ASSUME NEW e, Known(e), SameRow(e) PROVE Known(Ref(e.event)) /\ Ref(e.event) \in Reference
  <2>1. e.event \in Events /\ row[e.event].status # "none"
    BY <1>3 DEF Known, SameRow, Reference, TypeInv, RowTypes
  <2>. QED BY <2>1, RefKnown
<1>4. \A f \in Loaded(p) : Known(f) /\ f \in Reference
  BY <1>2, <1>3
<1>5. /\ Alone(p) /\ WorkTypes' /\ pc'[p] \in {"idle", "next"} /\ cur'[p] = cur[p]
      /\ mine'[p] = {} /\ todo'[p] = Loaded(p)
  BY <1>1, <1>4, Functions, Kinds DEF Alone, Still, Same, WorkTypes, Places, ProcessorPc
<1>. QED BY <1>1, <1>2, <1>4, <1>5, ProcessorKnows

LEMMA TypeLoad ==
  ASSUME TypeInv, NEW p \in Processors, Load(p) PROVE TypeInv'
<1>1. RowTypes' /\ Onward
  BY LoadIs, RowsKept
<1>2. cur[p] = Nobody
  BY LoadIs, ProcessorKnows DEF AtWork
<1>3. \A e \in todo'[p] \cup mine'[p] : Known(e)
  BY LoadIs
<1>. QED BY <1>1, <1>2, <1>3, LoadIs, ProcessorCalm DEF AtWork, ProcessorPc

LEMMA NextEventIs ==
  ASSUME TypeInv, NEW p \in Processors, NextEvent(p)
  PROVE  /\ \E e \in todo[p] : cur'[p] = e /\ Known(e) /\ todo'[p] = todo[p] \ {e}
         /\ Alone(p) /\ WorkTypes' /\ pc[p] = "next" /\ pc'[p] = "check" /\ mine'[p] = mine[p]
         /\ backend = "sqlite" /\ UNCHANGED <<backend, prefix, row, claims, jobs, histVars>>
<1>1. PICK e \in todo[p] : /\ cur'  = [cur EXCEPT ![p] = e]
                           /\ todo' = [todo EXCEPT ![p] = @ \ {e}]
  BY DEF NextEvent
<1>2. /\ pc' = [pc EXCEPT ![p] = "check"] /\ pc[p] = "next"
      /\ UNCHANGED <<mine, goal, backend, prefix, row, claims, jobs, histVars>>
  BY DEF NextEvent, tableVars
<1>3. Known(e) /\ e \in Reference /\ backend = "sqlite"
  BY <1>2, ProcessorKnows DEF Known
<1>4. /\ Alone(p) /\ WorkTypes' /\ pc'[p] = "check" /\ mine'[p] = mine[p]
      /\ cur'[p] = e /\ todo'[p] = todo[p] \ {e}
  BY <1>1, <1>2, <1>3, Functions, Kinds DEF Alone, Still, Same, WorkTypes, Places, ProcessorPc
<1>. QED BY <1>2, <1>3, <1>4

LEMMA TypeNextEvent ==
  ASSUME TypeInv, NEW p \in Processors, NextEvent(p) PROVE TypeInv'
<1>1. RowTypes' /\ Onward
  BY NextEventIs, RowsKept
<1>2. \A e \in todo'[p] \cup mine'[p] : Known(e)
  BY NextEventIs, ProcessorKnows
<1>. QED BY <1>1, <1>2, NextEventIs, ProcessorCalm DEF AtWork, ProcessorPc

\* A processor goes on, and nothing else happens.
LEMMA TypeGoes ==
  ASSUME TypeInv, NEW p \in Processors, NEW from, NEW to \in ProcessorPc \ {"send"}, Goes(p, from, to),
         from \in AtWork, to \in AtWork, RowTypes', Onward, UNCHANGED <<backend, prefix, jobs>>,
         UNCHANGED histVars \/ \E e \in Happening : Happens(e)
  PROVE  TypeInv'
BY ProcessorKnows, ProcessorCalm DEF Goes, AtWork

\* The work on a row is done, and the row is written or not.
LEMMA TypeDone ==
  ASSUME TypeInv, NEW p \in Processors, Done(p), pc[p] \in AtWork, RowTypes', Onward,
         UNCHANGED <<backend, prefix, jobs>>,
         UNCHANGED histVars \/ \E e \in Happening : Happens(e)
  PROVE  TypeInv'
<1>1. \A e \in todo'[p] \cup mine'[p] : Known(e)
  BY DoneIs, ProcessorKnows
<1>2. backend = "sqlite"
  BY ProcessorKnows DEF AtWork
<1>. QED BY <1>1, <1>2, DoneIs, ProcessorCalm DEF AtWork, ProcessorPc

LEMMA TypeRefuse ==
  ASSUME TypeInv, NEW p \in Processors, Refuse(p) PROVE TypeInv'
<1>1. PICK s \in {"FAILED", "SKIPPED"} : PutStatus(cur[p], s)
  BY DEF Refuse
<1>2. /\ pc[p] = "check" /\ Happens("refuse") /\ "refuse" \in Happening /\ Done(p)
      /\ UNCHANGED <<backend, prefix, claims, jobs>>
  BY DEF Refuse, Happening
<1>3. Known(cur[p])
  BY <1>2, ProcessorKnows DEF AtWork
<1>4. RowTypes' /\ Onward
  BY <1>1, <1>2, <1>3, PutStatusIs DEF Status
<1>. QED BY <1>2, <1>4, TypeDone DEF AtWork

LEMMA TypeSaveScan ==
  ASSUME TypeInv, NEW p \in Processors, SaveScan(p) PROVE TypeInv'
<1>1. /\ Goes(p, "check", "job") /\ UNCHANGED <<backend, prefix, row, claims, jobs, histVars>>
  BY GoesIs DEF SaveScan, ProcessorPc, tableVars
<1>. QED BY <1>1, RowsKept, TypeGoes DEF AtWork, ProcessorPc

LEMMA TypeAudit ==
  ASSUME TypeInv, NEW p \in Processors, Audit(p) PROVE TypeInv'
<1>1. pc[p] = "audit" /\ Done(p) /\ UNCHANGED <<backend, prefix, row, claims, jobs, histVars>>
  BY DEF Audit, tableVars
<1>. QED BY <1>1, RowsKept, TypeDone DEF AtWork

LEMMA TypeRaise ==
  ASSUME TypeInv, NEW p \in Processors, Raise(p) PROVE TypeInv'
<1>1. /\ pc[p] \in AtWork /\ Goes(p, pc[p], "failed") /\ Happens("error") /\ "error" \in Happening
      /\ UNCHANGED <<backend, prefix, row, claims, jobs>>
  BY GoesIs DEF Raise, ProcessorPc, tableVars, AtWork, Happening
<1>. QED BY <1>1, RowsKept, TypeGoes DEF AtWork, ProcessorPc

LEMMA TypeBackOff ==
  ASSUME TypeInv, NEW p \in Processors, BackOff(p) PROVE TypeInv'
<1>1. /\ pc[p] = "failed" /\ Again(cur[p], MaxAttempts) /\ Done(p)
      /\ UNCHANGED <<backend, prefix, claims, jobs, histVars>>
  BY DEF BackOff
<1>2. Known(cur[p])
  BY <1>1, ProcessorKnows DEF AtWork
<1>3. RowTypes' /\ Onward
  BY <1>1, <1>2, AgainIs, Kinds
<1>. QED BY <1>1, <1>3, TypeDone DEF AtWork

LEMMA TypeBackOffFails ==
  ASSUME TypeInv, NEW p \in Processors, BackOffFails(p) PROVE TypeInv'
<1>1. /\ pc[p] = "failed" /\ Happens("error") /\ "error" \in Happening /\ Done(p)
      /\ UNCHANGED <<backend, prefix, row, claims, jobs>>
  BY DEF BackOffFails, tableVars, Happening
<1>. QED BY <1>1, RowsKept, TypeDone DEF AtWork

LEMMA TypeDeliver ==
  ASSUME TypeInv, NEW p \in Processors, Deliver(p) PROVE TypeInv'
<1>1. /\ Goes(p, "deliver", "audit") /\ PutStatus(cur[p], "DELIVERED") /\ pc[p] = "deliver"
      /\ UNCHANGED <<backend, prefix, claims, jobs, histVars>>
  BY GoesIs DEF Deliver, ProcessorPc
<1>2. Known(cur[p])
  BY <1>1, ProcessorKnows DEF AtWork
<1>3. RowTypes' /\ Onward
  BY <1>1, <1>2, PutStatusIs DEF Status
<1>. QED BY <1>1, <1>3, TypeGoes DEF AtWork, ProcessorPc

-----------------------------------------------------------------------------
(* The jobs. *)

\* A bounded set of numbers has a greatest one.
LEMMA Newest ==
  ASSUME NEW N, N # {}, NEW b \in Nat, \A n \in N : n \in Nat /\ n <= b
  PROVE  NewestOf(N) \in N /\ \A m \in N : m <= NewestOf(N)
<1>. DEFINE after(n) == {m \in N : n < m}
            T == {after(n) : n \in N}
<1>1. IsFiniteSet(N)
  BY FS_BoundedSetOfNaturals
<1>2. T \subseteq FiniteSubsetsOf(N) /\ T # {}
  <2>1. ASSUME NEW n \in N PROVE after(n) \in SUBSET N /\ IsFiniteSet(after(n))
    BY <1>1, FS_Subset
  <2>. QED BY <2>1 DEF FiniteSubsetsOf
<1>3. PICK x \in T : \A y \in T : ~(<<y, x>> \in StrictSubsetOrdering(N))
  <2>. HIDE DEF T
  <2>. QED BY <1>2, FS_StrictSubsetOrderingWellFounded, WFMin
<1>4. PICK n \in N : x = after(n)
  OBVIOUS
<1>5. ASSUME NEW m \in N, n < m PROVE FALSE
  <2>1. after(m) \subseteq after(n) /\ m \in after(n) /\ m \notin after(m)
    BY <1>5
  <2>2. <<after(m), after(n)>> \in StrictSubsetOrdering(N)
    BY <2>1 DEF StrictSubsetOrdering
  <2>. QED BY <1>3, <1>4, <2>2
<1>6. \A m \in N : m <= n
  BY <1>5
<1>. QED BY <1>6 DEF NewestOf

\* A job of a set of jobs is the newest one.
LEMMA NewestJob ==
  ASSUME TypeInv, NEW N \in SUBSET DOMAIN jobs, N # {}
  PROVE  NewestOf(N) \in N /\ \A m \in N : m <= NewestOf(N)
<1>1. Len(jobs) \in Nat /\ DOMAIN jobs = 1 .. Len(jobs)
  BY DEF TypeInv, JobTypes
<1>2. \A n \in N : n \in Nat /\ n <= Len(jobs)
  BY <1>1
<1>. QED BY <1>1, <1>2, Newest

\* The new job is the last one.
LEMMA CreateJobIs ==
  ASSUME TypeInv, NEW p \in Processors, CreateJob(p)
  PROVE  /\ Goes(p, "job", "send") /\ Known(cur[p]) /\ backend = "sqlite" /\ JobTypes'
         /\ UNCHANGED <<backend, prefix, row, claims, histVars>>
         /\ \E n \in Nat :
              /\ n \notin DOMAIN jobs /\ DOMAIN jobs' = DOMAIN jobs \cup {n}
              /\ \A m \in DOMAIN jobs : jobs'[m] = jobs[m] /\ m < n
              /\ jobs'[n] = [event |-> cur[p].event, id |-> cur[p].id, by |-> p,
                             status |-> "live", sent |-> FALSE]
<1>. DEFINE new == [event |-> cur[p].event, id |-> cur[p].id, by |-> p,
                    status |-> "live", sent |-> FALSE]
            n == Len(jobs) + 1
<1>1. Goes(p, "job", "send") /\ UNCHANGED <<backend, prefix, row, claims, histVars>>
  BY GoesIs DEF CreateJob, ProcessorPc
<1>2. Known(cur[p]) /\ backend = "sqlite"
  BY ProcessorKnows DEF CreateJob, AtWork
<1>3. new \in Job /\ new.event = cur[p].event /\ new.id = cur[p].id
  BY <1>2 DEF Job, Known, Reference
<1>4. jobs' = Append(jobs, new) /\ jobs \in Seq(Job) /\ Len(jobs) \in Nat
  BY DEF CreateJob, TypeInv, JobTypes
<1>. HIDE DEF new
<1>5. /\ jobs' \in Seq(Job) /\ DOMAIN jobs' = DOMAIN jobs \cup {n} /\ n \notin DOMAIN jobs
      /\ \A m \in DOMAIN jobs : jobs'[m] = jobs[m] /\ m < n
      /\ jobs'[n] = new /\ n \in Nat
  BY <1>3, <1>4
<1>6. JobTypes'
  <2>1. UNCHANGED row
    BY <1>1
  <2>2. ASSUME NEW m \in DOMAIN jobs' PROVE 0 < jobs'[m].id /\ jobs'[m].id <= row[jobs'[m].event].id
    <3>1. CASE m \in DOMAIN jobs
      BY <3>1, <1>5 DEF TypeInv, JobTypes
    <3>2. CASE m = n
      BY <3>2, <1>2, <1>3, <1>5 DEF Known
    <3>. QED BY <3>1, <3>2, <1>5
  <2>. QED BY <1>5, <2>1, <2>2 DEF JobTypes
<1>7. jobs'[n] = [event |-> cur[p].event, id |-> cur[p].id, by |-> p,
                  status |-> "live", sent |-> FALSE]
  BY <1>5 DEF new
<1>. QED BY <1>1, <1>2, <1>5, <1>6, <1>7

LEMMA TypeCreateJob ==
  ASSUME TypeInv, NEW p \in Processors, CreateJob(p) PROVE TypeInv'
<1>1. PICK n \in Nat :
        /\ n \notin DOMAIN jobs /\ DOMAIN jobs' = DOMAIN jobs \cup {n}
        /\ \A m \in DOMAIN jobs : jobs'[m] = jobs[m] /\ m < n
        /\ jobs'[n] = [event |-> cur[p].event, id |-> cur[p].id, by |-> p,
                       status |-> "live", sent |-> FALSE]
  BY CreateJobIs
<1>2. \A q : Unsent(q) \subseteq Unsent(q)'
  BY <1>1 DEF Unsent
<1>3. n \in Unsent(p)'
  BY <1>1 DEF Unsent
<1>4. /\ Goes(p, "job", "send") /\ JobTypes' /\ Known(cur[p]) /\ backend = "sqlite"
      /\ UNCHANGED <<backend, prefix, row, claims, histVars>>
  BY CreateJobIs
<1>5. RowTypes' /\ Onward /\ HistTypes'
  BY <1>4, RowsKept, HistKept
<1>6. Prepared(p)'
  <2>1. \A e \in todo[p] \cup mine[p] : Known(e)
    BY ProcessorKnows
  <2>2. \A e \in todo'[p] \cup mine'[p] : Known(e)
    BY <1>4, <2>1 DEF Goes
  <2>3. Known(cur[p]) /\ cur'[p] = cur[p] /\ pc'[p] = "send" /\ UNCHANGED <<row, backend>>
    BY <1>4 DEF Goes
  <2>. QED BY <1>3, <1>4, <2>2, <2>3 DEF Prepared, Known, AtWork, ProcessorPc
<1>. QED BY <1>2, <1>4, <1>5, <1>6, Kinds, TypeStep DEF Goes, Alone

\* One job is published.
LEMMA SendIs ==
  ASSUME TypeInv, NEW p \in Processors, Send(p)
  PROVE  /\ Goes(p, "send", "deliver") /\ Known(cur[p]) /\ backend = "sqlite" /\ JobTypes'
         /\ UNCHANGED <<backend, prefix, row, claims, histVars>>
         /\ DOMAIN jobs' = DOMAIN jobs
         /\ \E n \in Unsent(p) :
              /\ \A m \in DOMAIN jobs \ {n} : jobs'[m] = jobs[m]
              /\ jobs'[n] = [jobs[n] EXCEPT !.sent = TRUE]
<1>. DEFINE n == NewestOf(Unsent(p))
            new == [jobs[n] EXCEPT !.sent = TRUE]
<1>1. Goes(p, "send", "deliver") /\ UNCHANGED <<backend, prefix, row, claims, histVars>>
  BY GoesIs DEF Send, ProcessorPc
<1>2. Known(cur[p]) /\ backend = "sqlite" /\ Unsent(p) # {}
  BY ProcessorKnows DEF Send, AtWork
<1>3. n \in Unsent(p) /\ n \in DOMAIN jobs
  BY <1>2, NewestJob DEF Unsent
<1>4. new \in Job /\ new.event = jobs[n].event /\ new.id = jobs[n].id
  BY <1>3, JobAt DEF Job
<1>5. jobs' = [jobs EXCEPT ![n] = new] /\ jobs \in Seq(Job)
  BY DEF Send, TypeInv, JobTypes
<1>. HIDE DEF n, new
<1>6. /\ jobs' \in Seq(Job) /\ DOMAIN jobs' = DOMAIN jobs
      /\ \A m \in DOMAIN jobs \ {n} : jobs'[m] = jobs[m]
      /\ jobs'[n] = new
  BY <1>3, <1>4, <1>5
<1>7. JobTypes'
  <2>1. UNCHANGED row
    BY <1>1
  <2>2. ASSUME NEW m \in DOMAIN jobs' PROVE 0 < jobs'[m].id /\ jobs'[m].id <= row[jobs'[m].event].id
    BY <1>3, <1>4, <1>6 DEF TypeInv, JobTypes
  <2>. QED BY <1>6, <2>1, <2>2 DEF JobTypes
<1>8. jobs'[n] = [jobs[n] EXCEPT !.sent = TRUE]
  BY <1>6 DEF new
<1>. QED BY <1>1, <1>2, <1>3, <1>6, <1>7, <1>8

LEMMA TypeSend ==
  ASSUME TypeInv, NEW p \in Processors, Send(p) PROVE TypeInv'
<1>1. PICK n \in Unsent(p) : /\ \A m \in DOMAIN jobs \ {n} : jobs'[m] = jobs[m]
                             /\ jobs'[n] = [jobs[n] EXCEPT !.sent = TRUE]
  BY SendIs
<1>2. /\ Goes(p, "send", "deliver") /\ JobTypes' /\ Known(cur[p]) /\ backend = "sqlite"
      /\ UNCHANGED <<backend, prefix, row, claims, histVars>> /\ DOMAIN jobs' = DOMAIN jobs
  BY SendIs
<1>3. \A q \in Processors \ {p} : Unsent(q) \subseteq Unsent(q)'
  BY <1>1, <1>2 DEF Unsent
<1>4. RowTypes' /\ Onward /\ HistTypes'
  BY <1>2, RowsKept, HistKept
<1>5. Prepared(p)'
  <2>1. \A e \in todo[p] \cup mine[p] : Known(e)
    BY ProcessorKnows
  <2>2. \A e \in todo'[p] \cup mine'[p] : Known(e)
    BY <1>2, <2>1 DEF Goes
  <2>3. Known(cur[p]) /\ cur'[p] = cur[p] /\ pc'[p] = "deliver" /\ UNCHANGED <<row, backend>>
    BY <1>2 DEF Goes
  <2>. QED BY <1>2, <2>2, <2>3 DEF Prepared, Known, AtWork, ProcessorPc
<1>. QED BY <1>2, <1>3, <1>4, <1>5, Kinds, TypeStep DEF Goes, Alone

\* A scan that fails leaves its job in place.
LEMMA ScanFailsIs ==
  ASSUME TypeInv, NEW n \in DOMAIN jobs, ScanFails(n)
  PROVE  /\ Still({}) /\ WorkTypes' /\ JobTypes' /\ UNCHANGED <<backend, prefix, row, claims>>
         /\ DOMAIN jobs' = DOMAIN jobs /\ jobs[n].sent
         /\ \A m \in DOMAIN jobs \ {n} : jobs'[m] = jobs[m]
         /\ jobs'[n] = [jobs[n] EXCEPT !.status = "failed"]
         /\ Happens("scanfail") /\ "scanfail" \in Happening
<1>. DEFINE new == [jobs[n] EXCEPT !.status = "failed"]
<1>1. new \in Job /\ new.event = jobs[n].event /\ new.id = jobs[n].id
  BY JobAt DEF Job
<1>2. jobs' = [jobs EXCEPT ![n] = new] /\ jobs \in Seq(Job)
  BY DEF ScanFails, TypeInv, JobTypes
<1>. HIDE DEF new
<1>3. /\ jobs' \in Seq(Job) /\ DOMAIN jobs' = DOMAIN jobs
      /\ \A m \in DOMAIN jobs \ {n} : jobs'[m] = jobs[m]
      /\ jobs'[n] = new
  BY <1>1, <1>2
<1>4. UNCHANGED <<backend, prefix, row, claims, pc, todo, mine, cur, goal>>
  BY DEF ScanFails, workVars
<1>5. JobTypes'
  <2>1. ASSUME NEW m \in DOMAIN jobs' PROVE 0 < jobs'[m].id /\ jobs'[m].id <= row[jobs'[m].event].id
    BY <1>1, <1>3 DEF TypeInv, JobTypes
  <2>. QED BY <1>3, <1>4, <2>1 DEF JobTypes
<1>6. jobs'[n] = [jobs[n] EXCEPT !.status = "failed"]
  BY <1>3 DEF new
<1>7. Still({}) /\ WorkTypes'
  BY <1>4, Functions DEF Still, Same, WorkTypes
<1>. QED BY <1>3, <1>4, <1>5, <1>6, <1>7 DEF ScanFails, Happening

LEMMA TypeScanFails ==
  ASSUME TypeInv, NEW n \in DOMAIN jobs, ScanFails(n) PROVE TypeInv'
<1>1. /\ UNCHANGED <<backend, prefix, row, claims>> /\ DOMAIN jobs' = DOMAIN jobs
      /\ \A m \in DOMAIN jobs \ {n} : jobs'[m] = jobs[m]
      /\ jobs'[n] = [jobs[n] EXCEPT !.status = "failed"]
  BY ScanFailsIs
<1>2. jobs[n].by = jobs'[n].by /\ jobs[n].sent = jobs'[n].sent
  BY <1>1, JobAt DEF Job
<1>3. \A q : Unsent(q)' = Unsent(q)
  BY <1>1, <1>2 DEF Unsent
<1>4. HistTypes' /\ RowTypes' /\ Onward
  BY <1>1, ScanFailsIs, HistKept, RowsKept
<1>5. backend # "sqlite" => DOMAIN jobs = {}
  BY DEF TypeInv
<1>. QED BY <1>1, <1>3, <1>4, <1>5, ScanFailsIs, TypeStep

-----------------------------------------------------------------------------
(* The recovery. *)

\* A run that starts alongside another one is an event.
LEMMA StartsIs ==
  ASSUME TypeInv, NEW r \in Reapers, Starts(r)
  PROVE  /\ UNCHANGED histVars \/ \E e \in Happening : Happens(e)
         /\ (\A s \in Reapers \ {r} : pc[s] = "idle") \/ "overlap" \in events'
BY DEF Starts, Happens, Happening

\* A reaper that starts has read the stale rows.
LEMMA StartIs ==
  ASSUME TypeInv, NEW r \in Reapers, NEW to \in {"lease", "flush"},
         pc' = [pc EXCEPT ![r] = to], todo' = [todo EXCEPT ![r] = {Ref(k) : k \in Stale}],
         pc[r] = "idle", UNCHANGED <<mine, cur, goal>>
  PROVE  /\ Alone(r) /\ WorkTypes' /\ pc'[r] = to /\ cur'[r] = cur[r] /\ goal'[r] = "none"
         /\ \A e \in todo'[r] : Known(e) /\ e.event \in Stale /\ e = Ref(e.event)
<1>1. \A k \in Stale : Known(Ref(k)) /\ Ref(k) \in Reference /\ Ref(k).event = k
  BY RefKnown DEF Stale, With
<1>2. \A e \in {Ref(k) : k \in Stale} : Known(e) /\ e \in Reference /\ e.event \in Stale /\ e = Ref(e.event)
  BY <1>1
<1>3. todo'[r] = {Ref(k) : k \in Stale}
  BY Functions, Kinds
<1>4. Alone(r) /\ WorkTypes' /\ pc'[r] = to /\ cur'[r] = cur[r] /\ goal'[r] = goal[r]
  BY <1>2, Functions, Kinds DEF Alone, Still, Same, WorkTypes, Places, ReaperPc
<1>5. goal[r] = "none"
  BY ReaperKnows
<1>. QED BY <1>2, <1>3, <1>4, <1>5

LEMMA TypeListStale ==
  ASSUME TypeInv, NEW r \in Reapers, ListStale(r) PROVE TypeInv'
<1>1. /\ pc' = [pc EXCEPT ![r] = "lease"] /\ todo' = [todo EXCEPT ![r] = {Ref(k) : k \in Stale}]
      /\ pc[r] = "idle" /\ Starts(r)
      /\ UNCHANGED <<mine, cur, goal, backend, prefix, row, claims, jobs>>
  BY DEF ListStale, tableVars
<1>2. /\ Alone(r) /\ WorkTypes' /\ pc'[r] = "lease" /\ goal'[r] = "none"
      /\ \A e \in todo'[r] : Known(e)
  BY <1>1, StartIs
<1>3. UNCHANGED histVars \/ \E e \in Happening : Happens(e)
  BY <1>1, StartsIs
<1>4. RowTypes' /\ Onward
  BY <1>1, RowsKept
<1>. QED BY <1>1, <1>2, <1>3, <1>4, ReaperCalm DEF ReaperPc

LEMMA TypeReadStale ==
  ASSUME TypeInv, NEW r \in Reapers, ReadStale(r) PROVE TypeInv'
<1>1. /\ pc' = [pc EXCEPT ![r] = "flush"] /\ todo' = [todo EXCEPT ![r] = {Ref(k) : k \in Stale}]
      /\ pc[r] = "idle" /\ Starts(r) /\ backend = "postgres"
      /\ UNCHANGED <<mine, cur, goal, backend, prefix, row, claims, jobs>>
  BY DEF ReadStale, tableVars
<1>2. /\ Alone(r) /\ WorkTypes' /\ pc'[r] = "flush" /\ goal'[r] = "none"
      /\ \A e \in todo'[r] : Known(e)
  BY <1>1, StartIs
<1>3. UNCHANGED histVars \/ \E e \in Happening : Happens(e)
  BY <1>1, StartsIs
<1>4. RowTypes' /\ Onward
  BY <1>1, RowsKept
<1>. QED BY <1>1, <1>2, <1>3, <1>4, ReaperCalm DEF ReaperPc

\* A lease is taken, or the row is passed over.
LEMMA LeaseIs ==
  ASSUME TypeInv, NEW r \in Reapers, Lease(r)
  PROVE  \E e \in todo[r] :
           /\ Known(e) /\ Alone(r) /\ WorkTypes' /\ pc[r] = "lease" /\ goal'[r] = "none"
           /\ todo'[r] = todo[r] \ {e}
           /\ \/ Leased(e) /\ pc'[r] = "verdict" /\ cur'[r] = e
              \/ pc'[r] \in {"idle", "lease"} /\ cur'[r] = cur[r]
           /\ UNCHANGED <<backend, prefix, row, claims, jobs, histVars>>
<1>1. PICK e \in todo[r] :
       /\ todo' = [todo EXCEPT ![r] = @ \ {e}]
       /\ IF Leased(e)
            THEN /\ pc'  = [pc EXCEPT ![r] = "verdict"]
                 /\ cur' = [cur EXCEPT ![r] = e]
            ELSE /\ pc'  = [pc EXCEPT ![r] = IF todo[r] = {e} THEN "idle" ELSE "lease"]
                 /\ UNCHANGED cur
  BY DEF Lease
<1>2. pc[r] = "lease" /\ UNCHANGED <<mine, goal, backend, prefix, row, claims, jobs, histVars>>
  BY DEF Lease, tableVars
<1>3. Known(e) /\ e \in Reference /\ goal[r] = "none"
  BY <1>2, ReaperKnows DEF Known
<1>4. todo'[r] = todo[r] \ {e} /\ goal'[r] = "none"
  BY <1>1, <1>2, <1>3, Functions, Kinds
<1>5. CASE Leased(e)
  <2>1. pc' = [pc EXCEPT ![r] = "verdict"] /\ cur' = [cur EXCEPT ![r] = e]
    BY <1>1, <1>5
  <2>2. /\ Alone(r) /\ WorkTypes' /\ pc'[r] = "verdict" /\ cur'[r] = e
    BY <1>1, <1>2, <1>3, <2>1, Functions, Kinds DEF Alone, Still, Same, WorkTypes, Places, ReaperPc
  <2>. QED BY <1>2, <1>3, <1>4, <1>5, <2>2
<1>6. CASE ~Leased(e)
  <2>1. /\ UNCHANGED cur
        /\ pc' = [pc EXCEPT ![r] = IF todo[r] = {e} THEN "idle" ELSE "lease"]
    BY <1>1, <1>6
  <2>2. /\ Alone(r) /\ WorkTypes' /\ pc'[r] \in {"idle", "lease"} /\ cur'[r] = cur[r]
    BY <1>1, <1>2, <1>3, <2>1, Functions, Kinds DEF Alone, Still, Same, WorkTypes, Places, ReaperPc
  <2>. QED BY <1>2, <1>3, <1>4, <2>2
<1>. QED BY <1>5, <1>6

LEMMA TypeLease ==
  ASSUME TypeInv, NEW r \in Reapers, Lease(r) PROVE TypeInv'
<1>1. PICK e \in todo[r] :
        /\ Known(e) /\ Alone(r) /\ WorkTypes' /\ goal'[r] = "none"
        /\ todo'[r] = todo[r] \ {e}
        /\ \/ Leased(e) /\ pc'[r] = "verdict" /\ cur'[r] = e
           \/ pc'[r] \in {"idle", "lease"} /\ cur'[r] = cur[r]
        /\ UNCHANGED <<backend, prefix, row, claims, jobs, histVars>>
  BY LeaseIs
<1>2. RowTypes' /\ Onward
  BY <1>1, RowsKept
<1>3. \A f \in todo'[r] : Known(f)
  BY <1>1, ReaperKnows
<1>. QED BY <1>1, <1>2, <1>3, ReaperCalm DEF ReaperPc

\* The verdict is found.
LEMMA VerdictIs ==
  ASSUME TypeInv, NEW r \in Reapers, Verdict(r)
  PROVE  /\ Alone(r) /\ WorkTypes' /\ pc[r] = "verdict" /\ pc'[r] = "write" /\ Known(cur[r])
         /\ cur'[r] = cur[r] /\ todo'[r] = todo[r]
         /\ goal'[r] = IF AlreadyScanned(cur[r].event) THEN "DELIVERED" ELSE "retry"
         /\ UNCHANGED <<backend, prefix, row, claims, jobs, histVars>>
<1>. DEFINE g == IF AlreadyScanned(cur[r].event) THEN "DELIVERED" ELSE "retry"
<1>1. /\ goal' = [goal EXCEPT ![r] = g] /\ pc' = [pc EXCEPT ![r] = "write"] /\ pc[r] = "verdict"
      /\ UNCHANGED <<todo, mine, cur, backend, prefix, row, claims, jobs, histVars>>
  BY DEF Verdict, tableVars
<1>2. g \in {"DELIVERED", "retry"} /\ Known(cur[r])
  BY <1>1, ReaperKnows
<1>. HIDE DEF g
<1>3. /\ Alone(r) /\ WorkTypes' /\ pc'[r] = "write" /\ cur'[r] = cur[r] /\ todo'[r] = todo[r]
      /\ goal'[r] = g
  BY <1>1, <1>2, Functions, Kinds DEF Alone, Still, Same, WorkTypes, Places, ReaperPc
<1>. QED BY <1>1, <1>2, <1>3 DEF g

LEMMA TypeVerdict ==
  ASSUME TypeInv, NEW r \in Reapers, Verdict(r) PROVE TypeInv'
<1>1. RowTypes' /\ Onward
  BY VerdictIs, RowsKept
<1>2. \A f \in todo'[r] : Known(f)
  BY VerdictIs, ReaperKnows
<1>. QED BY <1>1, <1>2, VerdictIs, ReaperCalm DEF ReaperPc

\* The row is written as the verdict says.
LEMMA RecoverIs ==
  ASSUME TypeInv, NEW r \in Reapers, Recover(r)
  PROVE  /\ Alone(r) /\ WorkTypes' /\ pc[r] = "write" /\ pc'[r] \in {"idle", "lease"}
         /\ todo'[r] = todo[r] /\ cur'[r] = Nobody /\ goal'[r] = "none" /\ Known(cur[r])
         /\ pc'[r] = "idle" => todo[r] = {}
         /\ \/ goal[r] = "DELIVERED" /\ PutStatus(cur[r], "DELIVERED")
            \/ goal[r] = "retry" /\ Again(cur[r], MaxAttempts)
         /\ RowTypes' /\ Onward
         /\ UNCHANGED <<backend, prefix, claims, jobs, histVars>>
<1>1. /\ pc[r] = "write"
      /\ IF goal[r] = "DELIVERED" THEN PutStatus(cur[r], "DELIVERED")
                                  ELSE Again(cur[r], MaxAttempts)
      /\ pc'   = [pc EXCEPT ![r] = IF todo[r] = {} THEN "idle" ELSE "lease"]
      /\ cur'  = [cur EXCEPT ![r] = Nobody]
      /\ goal' = [goal EXCEPT ![r] = "none"]
      /\ UNCHANGED <<backend, prefix, claims, jobs, todo, mine, histVars>>
  BY DEF Recover
<1>2. Known(cur[r]) /\ goal[r] \in {"DELIVERED", "retry"}
  BY <1>1, ReaperKnows
<1>3. /\ Alone(r) /\ WorkTypes' /\ pc'[r] = (IF todo[r] = {} THEN "idle" ELSE "lease")
      /\ cur'[r] = Nobody /\ todo'[r] = todo[r] /\ goal'[r] = "none"
  BY <1>1, <1>2, Functions, Kinds DEF Alone, Still, Same, WorkTypes, Places, ReaperPc
<1>4. RowTypes' /\ Onward
  <2>1. CASE goal[r] = "DELIVERED"
    BY <1>1, <1>2, <2>1, PutStatusIs DEF Status
  <2>2. CASE goal[r] # "DELIVERED"
    BY <1>1, <1>2, <2>2, AgainIs, Kinds
  <2>. QED BY <2>1, <2>2
<1>. QED BY <1>1, <1>2, <1>3, <1>4

LEMMA TypeRecover ==
  ASSUME TypeInv, NEW r \in Reapers, Recover(r) PROVE TypeInv'
<1>1. \A f \in todo'[r] : Known(f)
  BY RecoverIs, ReaperKnows
<1>. QED BY <1>1, RecoverIs, ReaperCalm DEF ReaperPc

-----------------------------------------------------------------------------
(* PostgreSQL, time and lost processes. *)

LEMMA TypeClaimPostgres ==
  ASSUME TypeInv, NEW p \in Processors, ClaimPostgres(p) PROVE TypeInv'
<1>. DEFINE due == With("PENDING") \cup With("RETRYING")
<1>1. /\ row' = [k \in Events |-> IF k \in due THEN Take(k) ELSE row[k]]
      /\ UNCHANGED <<backend, prefix, claims, jobs, pc, todo, mine, cur, goal, histVars>>
  BY DEF ClaimPostgres, workVars
<1>2. \A k \in due : row[k].status # "none" /\ k \in Events
  BY DEF With
<1>3. ASSUME NEW k \in Events
      PROVE  /\ row'[k] \in Row /\ row'[k].id = row[k].id
             /\ row'[k].status # "PROCESSING" => row'[k].claim = 0 /\ ~row'[k].stale
             /\ row'[k].id = 0 <=> row'[k].status = "none"
  <2>1. CASE k \in due
    <3>1. row'[k] = Take(k) /\ row[k].status # "none"
      BY <1>1, <1>2, <2>1
    <3>2. /\ row'[k] \in Row /\ row'[k].id = row[k].id /\ row'[k].status = "PROCESSING"
      BY <3>1, TakeIs
    <3>. QED BY <3>1, <3>2 DEF TypeInv, RowTypes
  <2>2. CASE k \notin due
    <3>. HIDE DEF due
    <3>1. row'[k] = row[k]
      BY <1>1, <2>2
    <3>. QED BY <3>1 DEF TypeInv, RowTypes
  <2>. QED BY <2>1, <2>2
<1>4. DOMAIN row' = Events /\ row' = [k \in DOMAIN row' |-> row'[k]]
  BY <1>1
<1>. HIDE DEF due
<1>5. RowTypes'
  BY <1>1, <1>3, <1>4 DEF RowTypes, TypeInv
<1>6. Onward
  <2>1. \A k \in Events : row[k].id \in Nat
    BY DEF TypeInv, RowTypes, Row
  <2>. QED BY <1>3, <2>1 DEF Onward
<1>7. Still({}) /\ WorkTypes'
  BY <1>1, Functions DEF Still, Same, WorkTypes
<1>8. HistTypes'
  BY <1>1, HistKept
<1>. QED BY <1>1, <1>5, <1>6, <1>7, <1>8, TypeCalm

LEMMA TypeResetStale ==
  ASSUME TypeInv, NEW r \in Reapers, ResetStale(r) PROVE TypeInv'
<1>. DEFINE hit(k) == \E e \in todo[r] : e.event = k
            n(k) == Counted((CHOOSE e \in todo[r] : e.event = k).attempt)
            new(k) == [row[k] EXCEPT !.status = "RETRYING", !.claim = 0, !.stale = FALSE, !.attempt = n(k)]
<1>1. /\ row' = [k \in Events |-> IF hit(k) THEN new(k) ELSE row[k]]
      /\ pc' = [pc EXCEPT ![r] = "idle"] /\ todo' = [todo EXCEPT ![r] = {}] /\ pc[r] = "flush"
      /\ UNCHANGED <<backend, prefix, claims, jobs, mine, cur, goal, histVars>>
  BY DEF ResetStale
<1>2. \A e \in todo[r] : Known(e)
  BY ReaperKnows
<1>3. ASSUME NEW k \in Events, hit(k)
      PROVE  new(k) \in Row /\ new(k).id = row[k].id /\ new(k).status = "RETRYING" /\ new(k).claim = 0
             /\ ~new(k).stale /\ row[k].status # "none"
  <2>1. PICK e \in todo[r] : e.event = k /\ e = CHOOSE f \in todo[r] : f.event = k
    BY <1>3
  <2>2. e.attempt \in Nat /\ row[k].id > 0
    BY <1>2, <2>1 DEF Known, Reference, TypeInv, RowTypes, Row
  <2>3. n(k) \in Nat
    BY <2>1, <2>2, Kinds DEF Counted
  <2>4. row[k] \in Row
    BY DEF TypeInv, RowTypes
  <2>. DEFINE a == n(k)
              m == [row[k] EXCEPT !.status = "RETRYING", !.claim = 0, !.stale = FALSE, !.attempt = a]
  <2>5. new(k) = m /\ a \in Nat
    BY <2>3
  <2>. HIDE DEF a, new
  <2>6. row[k].status # "none"
    BY <2>2, <2>4 DEF Row, TypeInv, RowTypes
  <2>7. m \in Row /\ m.id = row[k].id /\ m.status = "RETRYING" /\ m.claim = 0 /\ ~m.stale
    BY <2>4, <2>5 DEF Row, Status
  <2>. QED BY <2>5, <2>6, <2>7
<1>4. ASSUME NEW k \in Events
      PROVE  /\ row'[k] \in Row /\ row'[k].id = row[k].id
             /\ row'[k].status # "PROCESSING" => row'[k].claim = 0 /\ ~row'[k].stale
             /\ row'[k].id = 0 <=> row'[k].status = "none"
  <2>1. CASE hit(k)
    <3>1. row'[k] = new(k)
      BY <1>1, <2>1
    <3>. HIDE DEF new, hit
    <3>. QED BY <1>3, <2>1, <3>1 DEF TypeInv, RowTypes
  <2>2. CASE ~hit(k)
    <3>. HIDE DEF new, hit
    <3>1. row'[k] = row[k]
      BY <1>1, <2>2
    <3>. QED BY <3>1 DEF TypeInv, RowTypes
  <2>. QED BY <2>1, <2>2
<1>5. DOMAIN row' = Events /\ row' = [k \in DOMAIN row' |-> row'[k]]
  BY <1>1
<1>. HIDE DEF hit, new
<1>6. RowTypes'
  BY <1>1, <1>4, <1>5 DEF RowTypes, TypeInv
<1>7. Onward
  <2>1. \A k \in Events : row[k].id \in Nat
    BY DEF TypeInv, RowTypes, Row
  <2>. QED BY <1>4, <2>1 DEF Onward
<1>8. Alone(r) /\ WorkTypes' /\ pc'[r] = "idle" /\ todo'[r] = {} /\ goal'[r] = goal[r]
  BY <1>1, Functions, Kinds DEF Alone, Still, Same, WorkTypes, Places, ReaperPc
<1>9. goal[r] = "none"
  BY <1>1, ReaperKnows
<1>. QED BY <1>1, <1>6, <1>7, <1>8, <1>9, ReaperCalm DEF ReaperPc

\* A claim grows old.
LEMMA AgeIs ==
  ASSUME TypeInv, NEW k \in Events, Age(k)
  PROVE  /\ Processing(k) /\ row'[k].status = "PROCESSING" /\ row'[k].stale
         /\ row'[k].id = row[k].id /\ row'[k].attempt = row[k].attempt /\ row'[k].claim = row[k].claim
         /\ \A j \in Events \ {k} : row'[j] = row[j]
         /\ RowTypes' /\ Onward /\ UNCHANGED <<backend, prefix, claims, jobs, pc, todo, mine, cur, goal>>
         /\ Held(k) => "slow" \in events'
         /\ UNCHANGED histVars \/ \E e \in Happening : Happens(e)
<1>. DEFINE new == [row[k] EXCEPT !.stale = TRUE]
<1>1. /\ row' = [row EXCEPT ![k] = new] /\ row[k].status = "PROCESSING"
      /\ UNCHANGED <<backend, prefix, claims, jobs, pc, todo, mine, cur, goal>>
  BY DEF Age, workVars
<1>2. row[k] \in Row /\ row \in [Events -> Row]
  BY DEF TypeInv, RowTypes
<1>3. /\ new \in Row /\ new.status = row[k].status /\ new.stale /\ new.id = row[k].id
      /\ new.attempt = row[k].attempt /\ new.claim = row[k].claim
  BY <1>2 DEF Row
<1>. HIDE DEF new
<1>4. row' \in [Events -> Row] /\ row'[k] = new /\ \A j \in Events \ {k} : row'[j] = row[j]
  BY <1>1, <1>2, <1>3
<1>5. RowTypes'
  BY <1>1, <1>3, <1>4 DEF TypeInv, RowTypes
<1>6. Onward
  <2>1. \A j \in Events : row[j].id \in Nat
    BY DEF TypeInv, RowTypes, Row
  <2>. QED BY <1>3, <1>4, <2>1 DEF Onward
<1>7. /\ Held(k) => "slow" \in events'
      /\ UNCHANGED histVars \/ \E e \in Happening : Happens(e)
  BY DEF Age, Happens, Happening
<1>. QED BY <1>1, <1>3, <1>4, <1>5, <1>6, <1>7 DEF Processing

LEMMA TypeAge == ASSUME TypeInv, NEW k \in Events, Age(k) PROVE TypeInv'
<1>1. Still({}) /\ WorkTypes'
  BY AgeIs, Functions DEF Still, Same, WorkTypes
<1>2. HistTypes'
  BY AgeIs, HistKept
<1>. QED BY <1>1, <1>2, AgeIs, TypeCalm

\* A worker that is lost knows nothing.
LEMMA CrashIs ==
  ASSUME TypeInv, NEW w \in Workers, Crash(w)
  PROVE  /\ Alone(w) /\ WorkTypes' /\ pc'[w] = "idle" /\ todo'[w] = {} /\ cur'[w] = Nobody
         /\ w \in Processors => mine'[w] = {} /\ backend = "sqlite"
         /\ w \in Reapers => goal'[w] = "none"
         /\ UNCHANGED <<backend, prefix, row, claims, jobs>>
         /\ Happens("crash") /\ "crash" \in Happening
<1>1. /\ pc' = [pc EXCEPT ![w] = "idle"] /\ todo' = [todo EXCEPT ![w] = {}]
      /\ mine' = [p \in Processors |-> IF p = w THEN {} ELSE mine[p]]
      /\ cur' = [cur EXCEPT ![w] = Nobody]
      /\ goal' = [r \in Reapers |-> IF r = w THEN "none" ELSE goal[r]]
      /\ pc[w] # "idle" /\ UNCHANGED <<backend, prefix, row, claims, jobs>>
  BY DEF Crash, tableVars
<1>2. Alone(w)
  BY <1>1, Functions, Kinds DEF Alone, Still, Same
<1>3. /\ pc'[w] = "idle" /\ todo'[w] = {} /\ cur'[w] = Nobody
      /\ w \in Processors => mine'[w] = {}
      /\ w \in Reapers => goal'[w] = "none"
  BY <1>1, Functions, Kinds
<1>4. WorkTypes'
  BY <1>1, Functions, Kinds DEF WorkTypes, Places, ProcessorPc
<1>. QED BY <1>1, <1>2, <1>3, <1>4, ProcessorKnows DEF Crash, Happening

LEMMA TypeCrash == ASSUME TypeInv, NEW w \in Workers, Crash(w) PROVE TypeInv'
<1>1. RowTypes' /\ Onward
  BY CrashIs, RowsKept
<1>2. CASE w \in Processors
  BY <1>1, <1>2, CrashIs, ProcessorCalm DEF AtWork, ProcessorPc
<1>3. CASE w \in Reapers
  BY <1>1, <1>3, CrashIs, ReaperCalm DEF ReaperPc
<1>. QED BY <1>2, <1>3, Kinds

\* A step keeps the types.
LEMMA TypeNext == TypeInv /\ [OutboxNext]_outboxVars => TypeInv'
<1>. SUFFICES ASSUME TypeInv, [OutboxNext]_outboxVars PROVE TypeInv'
  OBVIOUS
<1>1. CASE \E m \in Monitors : CheckDuplicate(m) \/ SaveEvent(m)
  BY <1>1, TypeCheckDuplicate, TypeSaveEvent
<1>2. CASE \E p \in Processors : ProcessorStep(p) \/ Raise(p)
  BY <1>2, TypeListPending, TypeClaimEvent, TypeLoad, TypeNextEvent, TypeRefuse, TypeSaveScan,
     TypeCreateJob, TypeSend, TypeDeliver, TypeAudit, TypeBackOff, TypeBackOffFails,
     TypeClaimPostgres, TypeRaise DEF ProcessorStep
<1>3. CASE \E r \in Reapers : ReaperStep(r)
  BY <1>3, TypeListStale, TypeLease, TypeVerdict, TypeRecover, TypeReadStale, TypeResetStale
  DEF ReaperStep
<1>4. CASE (\E k \in Events : Age(k)) \/ (\E w \in Workers : Crash(w))
           \/ (\E n \in DOMAIN jobs : ScanFails(n))
  BY <1>4, TypeAge, TypeCrash, TypeScanFails
<1>5. CASE UNCHANGED outboxVars
  <2>1. UNCHANGED <<backend, prefix, row, claims, jobs, pc, todo, mine, cur, goal, histVars>>
    BY <1>5 DEF outboxVars, tableVars, workVars
  <2>2. Still({}) /\ WorkTypes'
    BY <2>1, Functions DEF Still, Same, WorkTypes
  <2>. QED BY <2>1, <2>2, RowsKept, HistKept, TypeCalm
<1>. QED BY <1>1, <1>2, <1>3, <1>4, <1>5 DEF OutboxNext

\* Every state of the system has the types, and the actors know rows that were there.
THEOREM OutboxTypes == OutboxSpec => []OutboxTypeOK
<1>1. OutboxSpec => []TypeInv
  BY TypeInit, TypeNext, PTL DEF OutboxSpec
<1>. QED BY <1>1, TypesFollow, PTL

-----------------------------------------------------------------------------
(* Claims are paid for. *)

\* SQLite, no worker slower than the threshold, one reaper at a time.
Calm == backend = "sqlite" /\ events \cap {"slow", "overlap"} = {}

\* Every claim costs an attempt, and a row that waits for one has an attempt to spare.
RowPaid(k) ==
  /\ claims[k] <= row[k].attempt /\ row[k].attempt <= MaxAttempts
  /\ row[k].status = "PENDING" => claims[k] < row[k].attempt
  /\ Processing(k) => row[k].claim = claims[k]

\* A processor works on e: unless it was replaced nobody else may take it.
Fit(p, e) ==
  e.id > 0 /\ SameRow(e) =>
    /\ row[e.event].status # "PENDING" /\ ~row[e.event].stale
    /\ pc[p] # "claim" => e.attempt = row[e.event].attempt

Orderly(p) ==
  /\ \A e \in Working(p) : Fit(p, e)
  /\ pc[p] # "claim" => mine[p] = {} /\ cur[p] \notin todo[p]

\* A reaper has listed e: unless it was put back it is as it was.
Listed(e) ==
  SameRow(e) => /\ e.claim <= claims[e.event]
                /\ Leased(e) => row[e.event].stale /\ row[e.event].attempt = e.attempt

\* A reaper decides on e: unless it was replaced it is as it was.
Leasing(e) ==
  SameRow(e) => Processing(e.event) /\ row[e.event].stale /\ row[e.event].attempt = e.attempt

Watchful(r) ==
  /\ \A e \in todo[r] : Listed(e)
  /\ pc[r] \in {"verdict", "write"} => \A e \in {cur[r]} : Leasing(e)

Alike(e, f) == e.event = f.event /\ e.id = f.id

\* No two processors work on one row.
Apart ==
  \A p, q \in Processors : \A e \in Working(p), f \in Working(q) :
    e.id > 0 /\ Alike(e, f) => p = q /\ e = f

OneReaper == \A r, s \in Reapers : pc[r] # "idle" /\ pc[s] # "idle" => r = s

Tidy ==
  /\ \A k \in Events : RowPaid(k)
  /\ \A p \in Processors : Orderly(p)
  /\ \A r \in Reapers : Watchful(r)
  /\ Apart /\ OneReaper

Careful == Calm => Tidy

\* Who works on a row knows it.
LEMMA WorkingKnown ==
  ASSUME TypeInv, NEW p \in Processors, NEW e \in Working(p)
  PROVE  e = Nobody \/ Known(e)
BY ProcessorKnows DEF Working

\* Nobody is no row.
LEMMA NobodyIs == Nobody.id = 0 /\ \A p : Fit(p, Nobody)
BY DEF Nobody, Fit

\* The row a known row is in.
LEMMA KnownIs ==
  ASSUME TypeInv, NEW e, Known(e)
  PROVE  /\ e.event \in Events /\ e.id \in Nat /\ e.id > 0 /\ e.attempt \in Nat /\ e.claim \in Nat
         /\ row[e.event] \in Row /\ row[e.event].id \in Nat /\ row[e.event].attempt \in Nat
         /\ row[e.event].claim \in Nat /\ claims[e.event] \in Nat
BY DEF Known, Reference, TypeInv, RowTypes, Row

\* What a row is.
LEMMA RowIs ==
  ASSUME TypeInv, NEW k \in Events
  PROVE  /\ row[k] \in Row /\ row[k].id \in Nat /\ row[k].attempt \in Nat
         /\ row[k].claim \in Nat /\ claims[k] \in Nat
BY DEF TypeInv, RowTypes, Row

\* The processors that work on a row are not joined by another one.
LEMMA ApartKept ==
  ASSUME TypeInv, Apart, \A p \in Processors : Working(p)' \subseteq Working(p) \cup {Nobody}
  PROVE  Apart'
<1>. SUFFICES ASSUME NEW p \in Processors, NEW q \in Processors, NEW e \in Working(p)',
                     NEW f \in Working(q)', e.id > 0, Alike(e, f)
              PROVE  p = q /\ e = f
  BY DEF Apart, Alike
<1>1. e # Nobody /\ f # Nobody
  BY NobodyIs DEF Alike
<1>2. e \in Working(p) /\ f \in Working(q)
  BY <1>1
<1>. QED BY <1>2 DEF Apart

\* What a step has to keep that A take and that touches the rows K.
LEMMA TidyStep ==
  ASSUME TypeInv, Tidy, NEW A, Still(A), NEW K,
         \A j \in Events \ K : row'[j] = row[j] /\ claims'[j] = claims[j],
         \A j \in Events \cap K : RowPaid(j)',
         \A p \in Processors \ A : \A e \in Working(p) : e.event \in K /\ Known(e) => Fit(p, e)',
         \A r \in Reapers \ A : \A e \in todo[r] : e.event \in K => Listed(e)',
         \A r \in Reapers \ A : pc[r] \in {"verdict", "write"} =>
            \A e \in {cur[r]} : e.event \in K => Leasing(e)',
         \A p \in Processors \cap A : Orderly(p)',
         \A r \in Reapers \cap A : Watchful(r)',
         Apart', OneReaper'
  PROVE  Tidy'
<1>1. ASSUME NEW j \in Events PROVE RowPaid(j)'
  <2>1. CASE j \in K
    BY <2>1
  <2>2. CASE j \notin K
    BY <2>2 DEF Tidy, RowPaid, Processing
  <2>. QED BY <2>1, <2>2
<1>2. ASSUME NEW p \in Processors PROVE Orderly(p)'
  <2>1. CASE p \in A
    BY <2>1
  <2>2. CASE p \notin A
    <3>1. Same(p) /\ Orderly(p) /\ p \in Workers
      BY <2>2, Kinds DEF Still, Tidy
    <3>2. Working(p)' = Working(p)
      BY <3>1 DEF Working, Same
    <3>3. ASSUME NEW e \in Working(p) PROVE Fit(p, e)'
      <4>1. CASE e = Nobody
        BY <4>1 DEF Nobody, Fit
      <4>2. CASE Known(e) /\ e.event \in K
        BY <2>2, <4>2
      <4>3. CASE Known(e) /\ e.event \notin K
        <5>1. e.event \in Events \ K
          BY <4>3 DEF Known, Reference
        <5>2. row'[e.event] = row[e.event] /\ pc'[p] = pc[p] /\ Fit(p, e)
          BY <3>1, <5>1 DEF Same, Orderly
        <5>. QED BY <5>2 DEF Fit, SameRow
      <4>. QED BY <4>1, <4>2, <4>3, WorkingKnown
    <3>. QED BY <3>1, <3>2, <3>3 DEF Orderly, Same
  <2>. QED BY <2>1, <2>2
<1>3. ASSUME NEW r \in Reapers PROVE Watchful(r)'
  <2>1. CASE r \in A
    BY <2>1
  <2>2. CASE r \notin A
    <3>1. Same(r) /\ Watchful(r) /\ r \in Workers
      BY <2>2, Kinds DEF Still, Tidy
    <3>2. ASSUME NEW e \in todo[r] PROVE Listed(e)'
      <4>1. CASE e.event \in K
        BY <2>2, <4>1
      <4>2. CASE e.event \notin K
        <5>1. e.event \in Events \ K
          BY <4>2, ReaperKnows DEF Known, Reference
        <5>2. row'[e.event] = row[e.event] /\ claims'[e.event] = claims[e.event] /\ Listed(e)
          BY <3>1, <5>1 DEF Watchful
        <5>. QED BY <5>2 DEF Listed, SameRow, Leased
      <4>. QED BY <4>1, <4>2
    <3>3. ASSUME pc[r] \in {"verdict", "write"}, NEW e \in {cur[r]} PROVE Leasing(e)'
      <4>1. CASE e.event \in K
        BY <2>2, <3>3, <4>1
      <4>2. CASE e.event \notin K
        <5>1. e.event \in Events \ K
          BY <3>3, <4>2, ReaperKnows DEF Known, Reference
        <5>2. row'[e.event] = row[e.event] /\ Leasing(e)
          BY <3>1, <3>3, <5>1 DEF Watchful
        <5>. QED BY <5>2 DEF Leasing, SameRow, Processing
      <4>. QED BY <4>1, <4>2
    <3>. QED BY <3>1, <3>2, <3>3 DEF Watchful, Same
  <2>. QED BY <2>1, <2>2
<1>. QED BY <1>1, <1>2, <1>3 DEF Tidy

\* The same for a step that writes no row.
LEMMA TidyCalm ==
  ASSUME TypeInv, Tidy, NEW A, Still(A), UNCHANGED <<row, claims>>,
         \A p \in Processors \cap A : Orderly(p)',
         \A r \in Reapers \cap A : Watchful(r)',
         Apart', OneReaper'
  PROVE  Tidy'
<1>. DEFINE K == {}
<1>1. /\ \A j \in Events \ K : row'[j] = row[j] /\ claims'[j] = claims[j]
      /\ \A j \in Events \cap K : RowPaid(j)'
  OBVIOUS
<1>2. \A p \in Processors \ A : \A e \in Working(p) : e.event \in K /\ Known(e) => Fit(p, e)'
  OBVIOUS
<1>3. /\ \A r \in Reapers \ A : \A e \in todo[r] : e.event \in K => Listed(e)'
      /\ \A r \in Reapers \ A : pc[r] \in {"verdict", "write"} =>
           \A e \in {cur[r]} : e.event \in K => Leasing(e)'
  OBVIOUS
<1>. HIDE DEF K
<1>. QED BY <1>1, <1>2, <1>3, TidyStep

\* The reapers that are at work stay the same or are fewer.
LEMMA OneReaperKept ==
  ASSUME OneReaper, \A r \in Reapers : pc'[r] # "idle" => pc[r] # "idle"
  PROVE  OneReaper'
BY DEF OneReaper

\* A processor's step that writes no row.
LEMMA ProcessorTidy ==
  ASSUME TypeInv, Tidy, NEW p \in Processors, Alone(p), UNCHANGED <<row, claims>>,
         Working(p)' \subseteq Working(p) \cup {Nobody},
         pc[p] = "claim" => \A e \in Working(p)' : e = Nobody,
         pc'[p] # "claim" => mine'[p] = {} /\ cur'[p] \notin todo'[p]
  PROVE  Tidy'
<1>1. \A q \in Processors \ {p} : Working(q)' = Working(q)
  BY Kinds DEF Alone, Still, Same, Working
<1>2. Apart'
  BY <1>1, ApartKept DEF Tidy
<1>3. OneReaper'
  BY Kinds, OneReaperKept DEF Tidy, Alone, Still, Same
<1>4. ASSUME NEW e \in Working(p)' PROVE Fit(p, e)'
  <2>1. CASE e = Nobody
    BY <2>1 DEF Nobody, Fit
  <2>2. CASE e # Nobody
    <3>1. Fit(p, e) /\ pc[p] # "claim"
      BY <2>2 DEF Tidy, Orderly
    <3>. QED BY <3>1 DEF Fit, SameRow
  <2>. QED BY <2>1, <2>2
<1>5. Orderly(p)'
  BY <1>4 DEF Orderly
<1>. QED BY <1>2, <1>3, <1>5, Kinds, TidyCalm DEF Alone

\* A reaper's step that writes no row.
LEMMA ReaperTidy ==
  ASSUME TypeInv, Tidy, NEW r \in Reapers, Alone(r), UNCHANGED <<row, claims>>, Watchful(r)', OneReaper'
  PROVE  Tidy'
<1>1. \A q \in Processors : Working(q)' = Working(q)
  BY Kinds DEF Alone, Still, Same, Working
<1>2. Apart'
  BY <1>1, ApartKept DEF Tidy
<1>. QED BY <1>2, Kinds, TidyCalm DEF Alone

\* A processor at work holds nothing but cur and todo.
LEMMA AtWorkHolds ==
  ASSUME TypeInv, Tidy, NEW p \in Processors, pc[p] \in AtWork
  PROVE  /\ Working(p) = {cur[p]} \cup todo[p] /\ mine[p] = {} /\ cur[p] \notin todo[p]
         /\ \A e \in todo[p] : ~Alike(e, cur[p]) /\ Known(e) /\ e # Nobody
         /\ Fit(p, cur[p]) /\ Known(cur[p])
<1>1. Orderly(p) /\ pc[p] # "claim"
  BY DEF Tidy, AtWork
<1>2. Working(p) = {cur[p]} \cup todo[p] /\ mine[p] = {} /\ cur[p] \notin todo[p] /\ Fit(p, cur[p])
  BY <1>1 DEF Orderly, Working
<1>3. Known(cur[p]) /\ \A e \in todo[p] : Known(e)
  BY ProcessorKnows
<1>4. \A e \in todo[p] : e.id > 0 /\ e # Nobody
  BY <1>3 DEF Known, Nobody
<1>5. ASSUME NEW e \in todo[p], Alike(e, cur[p]) PROVE FALSE
  <2>1. e = cur[p]
    BY <1>2, <1>4, <1>5 DEF Tidy, Apart
  <2>. QED BY <1>2, <2>1
<1>. QED BY <1>2, <1>3, <1>4, <1>5

\* Nobody else holds a row that a processor holds, and no reaper decides on it.
LEMMA HeldByOne ==
  ASSUME TypeInv, Tidy, NEW p \in Processors, pc[p] \in AtWork, SameRow(cur[p])
  PROVE  /\ \A q \in Processors \ {p} : \A e \in Working(q) :
              Known(e) /\ e.event = cur[p].event => ~SameRow(e)
         /\ \A r \in Reapers : pc[r] \in {"verdict", "write"} =>
              \A e \in {cur[r]} : e.event = cur[p].event => ~SameRow(e)
<1>1. cur[p] \in Working(p) /\ Fit(p, cur[p]) /\ cur[p].id > 0
  BY AtWorkHolds DEF Known
<1>2. ASSUME NEW q \in Processors \ {p}, NEW e \in Working(q), Known(e), e.event = cur[p].event,
             SameRow(e)
      PROVE  FALSE
  <2>1. e.id > 0 /\ Alike(e, cur[p])
    BY <1>2 DEF SameRow, Alike, Known
  <2>. QED BY <1>1, <1>2, <2>1 DEF Tidy, Apart
<1>3. ASSUME NEW r \in Reapers, pc[r] \in {"verdict", "write"}, NEW e \in {cur[r]},
             e.event = cur[p].event, SameRow(e)
      PROVE  FALSE
  <2>1. row[e.event].stale
    BY <1>3 DEF Tidy, Watchful, Leasing
  <2>2. ~row[cur[p].event].stale
    BY <1>1 DEF Fit
  <2>. QED BY <1>3, <2>1, <2>2
<1>. QED BY <1>2, <1>3

\* A row that is no longer processed cannot be leased.
LEMMA ClosedListed ==
  ASSUME TypeInv, Tidy, NEW k \in Events, row'[k].status # "PROCESSING", row'[k].id = row[k].id,
         claims' = claims
  PROVE  \A r \in Reapers : \A e \in todo[r] : e.event = k => Listed(e)'
BY DEF Tidy, Watchful, Listed, Leased, SameRow

\* A processor writes the row it works on.
LEMMA ProcessorWrites ==
  ASSUME TypeInv, Tidy, NEW p \in Processors, pc[p] \in AtWork, Alone(p), claims' = claims,
         \A k \in Events : row'[k].id = row[k].id,
         \A k \in Events : k # cur[p].event => row'[k] = row[k],
         ~SameRow(cur[p]) => row' = row,
         SameRow(cur[p]) => /\ row'[cur[p].event].status # "PROCESSING"
                            /\ \A k \in {cur[p].event} : RowPaid(k)',
         Orderly(p)', Working(p)' \subseteq Working(p) \cup {Nobody}
  PROVE  Tidy'
<1>1. Apart'
  <2>1. \A q \in Processors \ {p} : Working(q)' = Working(q)
    BY Kinds DEF Alone, Still, Same, Working
  <2>. QED BY <2>1, ApartKept DEF Tidy
<1>2. OneReaper'
  BY Kinds, OneReaperKept DEF Tidy, Alone, Still, Same
<1>3. CASE ~SameRow(cur[p])
  BY <1>1, <1>2, <1>3, Kinds, TidyCalm DEF Alone
<1>4. CASE SameRow(cur[p])
  <2>. DEFINE k == cur[p].event
              K == {k}
              A == {p}
  <2>1. k \in Events
    BY AtWorkHolds DEF Known, Reference
  <2>2. /\ \A j \in Events \ K : row'[j] = row[j] /\ claims'[j] = claims[j]
        /\ \A j \in Events \cap K : RowPaid(j)'
    BY <1>4
  <2>3. ASSUME NEW q \in Processors \ A, NEW e \in Working(q), e.event \in K, Known(e) PROVE Fit(q, e)'
    <3>1. ~SameRow(e)
      BY <1>4, <2>3, HeldByOne
    <3>2. row'[e.event].id # e.id
      BY <2>1, <2>3, <3>1 DEF SameRow
    <3>. QED BY <3>2 DEF Fit, SameRow
  <2>4. \A r \in Reapers \ A : \A e \in todo[r] : e.event \in K => Listed(e)'
    BY <1>4, <2>1, ClosedListed
  <2>5. ASSUME NEW r \in Reapers \ A, pc[r] \in {"verdict", "write"}, NEW e \in {cur[r]}, e.event \in K
        PROVE  Leasing(e)'
    <3>1. ~SameRow(e)
      BY <1>4, <2>5, HeldByOne
    <3>2. row'[e.event].id # e.id
      BY <2>1, <2>5, <3>1 DEF SameRow
    <3>. QED BY <3>2 DEF Leasing, SameRow
  <2>6. Still(A) /\ \A q \in Processors \cap A : Orderly(q)'
    BY DEF Alone
  <2>7. \A r \in Reapers \cap A : Watchful(r)'
    BY Kinds
  <2>. HIDE DEF K, A
  <2>. QED BY <1>1, <1>2, <2>2, <2>3, <2>4, <2>5, <2>6, <2>7, TidyStep
<1>. QED BY <1>3, <1>4

\* What a processor has still to do is untouched by what it writes.
LEMMA TodoFit ==
  ASSUME TypeInv, Tidy, NEW p \in Processors, pc[p] \in AtWork, pc'[p] # "claim",
         \A k \in Events : row'[k].id = row[k].id,
         \A k \in Events : k # cur[p].event => row'[k] = row[k],
         ~SameRow(cur[p]) => row' = row
  PROVE  \A e \in todo[p] : Fit(p, e)'
<1>. SUFFICES ASSUME NEW e \in todo[p] PROVE Fit(p, e)'
  OBVIOUS
<1>1. Known(e) /\ ~Alike(e, cur[p]) /\ e \in Working(p) /\ e.event \in Events
  BY AtWorkHolds DEF Known, Reference
<1>2. Fit(p, e) /\ pc[p] # "claim"
  BY <1>1 DEF Tidy, Orderly, AtWork
<1>3. CASE e.event = cur[p].event /\ SameRow(cur[p])
  <2>1. row'[e.event].id # e.id
    BY <1>1, <1>3 DEF Alike, SameRow
  <2>. QED BY <2>1 DEF Fit, SameRow
<1>4. CASE ~(e.event = cur[p].event /\ SameRow(cur[p]))
  <2>1. row'[e.event] = row[e.event]
    BY <1>1, <1>4
  <2>. QED BY <1>2, <2>1 DEF Fit, SameRow
<1>. QED BY <1>3, <1>4

\* A processor that is done with a row.
LEMMA DoneOrderly ==
  ASSUME TypeInv, Tidy, NEW p \in Processors, pc[p] \in AtWork, Done(p),
         \A k \in Events : row'[k].id = row[k].id,
         \A k \in Events : k # cur[p].event => row'[k] = row[k],
         ~SameRow(cur[p]) => row' = row
  PROVE  Orderly(p)' /\ Working(p)' \subseteq Working(p) \cup {Nobody}
<1>1. /\ cur'[p] = Nobody /\ pc'[p] # "claim" /\ todo'[p] = todo[p] /\ mine'[p] = mine[p]
  BY DoneIs
<1>2. mine[p] = {} /\ Nobody \notin todo[p] /\ Working(p) = {cur[p]} \cup todo[p]
  BY AtWorkHolds
<1>3. Working(p)' = {Nobody} \cup todo[p]
  BY <1>1, <1>2 DEF Working
<1>4. \A e \in todo[p] : Fit(p, e)'
  BY <1>1, TodoFit
<1>5. Fit(p, Nobody)'
  BY DEF Nobody, Fit
<1>. QED BY <1>1, <1>2, <1>3, <1>4, <1>5 DEF Orderly

\* A row that was dealt with keeps its claims paid for.
LEMMA PutPaid ==
  ASSUME TypeInv, Tidy, NEW k \in Events, row'[k].attempt = row[k].attempt, claims' = claims,
         row'[k].status \notin {"PENDING", "PROCESSING"}
  PROVE  RowPaid(k)'
BY DEF Tidy, RowPaid, Processing

\* A row that is tried again has an attempt to spare.
LEMMA AgainPaid ==
  ASSUME TypeInv, Tidy, NEW e, Known(e), row[e.event].attempt = e.attempt, claims' = claims,
         \/ /\ e.attempt < MaxAttempts
            /\ row'[e.event].status = "PENDING" /\ row'[e.event].attempt = e.attempt + 1
         \/ /\ row'[e.event].status = "DEAD_LETTER" /\ row'[e.event].attempt = row[e.event].attempt
  PROVE  RowPaid(e.event)'
<1>1. /\ claims[e.event] \in Nat /\ e.attempt \in Nat /\ MaxAttempts \in Nat
      /\ row[e.event].attempt \in Nat /\ e.event \in Events
  BY KnownIs, Kinds
<1>2. claims[e.event] <= row[e.event].attempt /\ row[e.event].attempt <= MaxAttempts
  BY <1>1 DEF Tidy, RowPaid
<1>3. claims'[e.event] = claims[e.event]
  OBVIOUS
<1>4. CASE /\ e.attempt < MaxAttempts
           /\ row'[e.event].status = "PENDING" /\ row'[e.event].attempt = e.attempt + 1
  <2>1. claims[e.event] < e.attempt + 1 /\ e.attempt + 1 <= MaxAttempts /\ claims[e.event] <= e.attempt + 1
    BY <1>1, <1>2, <1>4
  <2>. QED BY <1>3, <1>4, <2>1 DEF RowPaid, Processing
<1>5. CASE row'[e.event].status = "DEAD_LETTER" /\ row'[e.event].attempt = row[e.event].attempt
  BY <1>1, <1>2, <1>3, <1>5 DEF RowPaid, Processing
<1>. QED BY <1>4, <1>5

\* A processor writes the row it works on and is done with it.
LEMMA DoneTidy ==
  ASSUME TypeInv, Tidy, NEW p \in Processors, pc[p] \in AtWork, Done(p), claims' = claims,
         \A k \in Events : row'[k].id = row[k].id,
         \A k \in Events : k # cur[p].event => row'[k] = row[k],
         ~SameRow(cur[p]) => row' = row,
         SameRow(cur[p]) => /\ row'[cur[p].event].status # "PROCESSING"
                            /\ \A k \in {cur[p].event} : RowPaid(k)'
  PROVE  Tidy'
<1>1. Orderly(p)' /\ Working(p)' \subseteq Working(p) \cup {Nobody}
  BY DoneOrderly
<1>2. Alone(p)
  BY DoneIs
<1>. QED BY <1>1, <1>2, ProcessorWrites

LEMMA TidyCheckDuplicate ==
  ASSUME TypeInv, Tidy, NEW m \in Monitors, CheckDuplicate(m) PROVE Tidy'
<1>1. Alone(m) /\ UNCHANGED <<row, claims>>
  BY CheckDuplicateIs
<1>2. \A q \in Processors : Working(q)' = Working(q)
  BY <1>1, Kinds DEF Alone, Still, Same, Working
<1>3. Apart' /\ OneReaper'
  BY <1>1, <1>2, Kinds, ApartKept, OneReaperKept DEF Tidy, Alone, Still, Same
<1>. QED BY <1>1, <1>3, Kinds, TidyCalm DEF Alone

\* A new announcement is a new row, which nobody works on.
LEMMA TidySaveEvent ==
  ASSUME TypeInv, Tidy, backend = "sqlite", NEW m \in Monitors, SaveEvent(m) PROVE Tidy'
<1>1. PICK k \in Events :
           /\ \A j \in Events \ {k} : row'[j] = row[j] /\ claims'[j] = claims[j]
           /\ row'[k].status = "PENDING" /\ row'[k].attempt = 1 /\ claims'[k] = 0
           /\ row'[k].id = row[k].id + 1 /\ Alone(m)
  BY SaveEventIs
<1>2. \A q \in Processors : Working(q)' = Working(q)
  BY <1>1, Kinds DEF Alone, Still, Same, Working
<1>3. Apart' /\ OneReaper'
  BY <1>1, <1>2, Kinds, ApartKept, OneReaperKept DEF Tidy, Alone, Still, Same
<1>. DEFINE K == {k}
            A == {m}
<1>4. ASSUME NEW e, Known(e), e.event = k PROVE row'[e.event].id # e.id
  <2>1. e.id <= row[k].id /\ e.id \in Nat /\ row[k].id \in Nat
    BY <1>4, KnownIs DEF Known
  <2>. QED BY <1>1, <1>4, <2>1
<1>5. \A j \in Events \cap K : RowPaid(j)'
  BY <1>1, Kinds DEF RowPaid, Processing
<1>6. \A q \in Processors \ A : \A e \in Working(q) : e.event \in K /\ Known(e) => Fit(q, e)'
  BY <1>4 DEF Fit, SameRow
<1>7. \A r \in Reapers \ A : \A e \in todo[r] : e.event \in K => Listed(e)'
  BY <1>4, ReaperKnows DEF Listed, SameRow
<1>8. \A r \in Reapers \ A : pc[r] \in {"verdict", "write"} =>
        \A e \in {cur[r]} : e.event \in K => Leasing(e)'
  BY <1>4, ReaperKnows DEF Leasing, SameRow
<1>9. Still(A) /\ \A j \in Events \ K : row'[j] = row[j] /\ claims'[j] = claims[j]
  BY <1>1 DEF Alone
<1>10. (\A q \in Processors \cap A : Orderly(q)') /\ (\A r \in Reapers \cap A : Watchful(r)')
  BY Kinds
<1>. HIDE DEF K, A
<1>. QED BY <1>3, <1>5, <1>6, <1>7, <1>8, <1>9, <1>10, TidyStep

LEMMA TidyListPending ==
  ASSUME TypeInv, Tidy, NEW p \in Processors, ListPending(p) PROVE Tidy'
<1>1. /\ Alone(p) /\ UNCHANGED <<row, claims>> /\ pc[p] = "idle" /\ pc'[p] = "claim"
      /\ mine'[p] = mine[p] /\ cur'[p] = cur[p]
  BY ListPendingIs
<1>2. Working(p)' \subseteq Working(p)
  BY <1>1 DEF Working
<1>. QED BY <1>1, <1>2, ProcessorTidy

\* A row that is claimed was nobody's.
LEMMA TidyClaimEvent ==
  ASSUME TypeInv, Tidy, NEW p \in Processors, ClaimEvent(p) PROVE Tidy'
<1>1. PICK e \in todo[p] :
           /\ Known(e) /\ e.event \in Events /\ Alone(p)
           /\ pc[p] = "claim" /\ pc'[p] = "claim" /\ cur'[p] = cur[p]
           /\ \/ /\ SameRow(e) /\ row[e.event].status = "PENDING" /\ mine'[p] = mine[p] \cup {e}
                 /\ row'[e.event] = Take(e.event) /\ claims'[e.event] = claims[e.event] + 1
                 /\ \A k \in Events : k # e.event => row'[k] = row[k] /\ claims'[k] = claims[k]
              \/ mine'[p] = mine[p] /\ UNCHANGED <<row, claims>>
  BY ClaimEventIs
<1>2. OneReaper'
  BY <1>1, Kinds, OneReaperKept DEF Tidy, Alone, Still, Same
<1>3. \A q \in Processors \ {p} : Working(q)' = Working(q)
  BY <1>1, Kinds DEF Alone, Still, Same, Working
<1>4. CASE mine'[p] = mine[p] /\ UNCHANGED <<row, claims>>
  <2>1. Working(p)' = Working(p)
    BY <1>1, <1>4 DEF Working
  <2>2. Apart'
    BY <1>3, <2>1, ApartKept DEF Tidy
  <2>3. \A f \in Working(p) : Fit(p, f)
    BY DEF Tidy, Orderly
  <2>4. Orderly(p)'
    BY <1>1, <1>4, <2>1, <2>3 DEF Orderly, Fit, SameRow
  <2>. QED BY <1>1, <1>2, <1>4, <2>2, <2>4, Kinds, TidyCalm DEF Alone
<1>5. CASE /\ SameRow(e) /\ row[e.event].status = "PENDING" /\ mine'[p] = mine[p] \cup {e}
           /\ row'[e.event] = Take(e.event) /\ claims'[e.event] = claims[e.event] + 1
           /\ \A k \in Events : k # e.event => row'[k] = row[k] /\ claims'[k] = claims[k]
  <2>. DEFINE k == e.event
              K == {k}
              A == {p}
  <2>1. /\ row'[k].status = "PROCESSING" /\ row'[k].id = row[k].id /\ row'[k].id = e.id
        /\ row'[k].claim = claims[k] + 1 /\ ~row'[k].stale /\ row'[k].attempt = row[k].attempt
    BY <1>1, <1>5, TakeIs DEF SameRow
  <2>2. Working(p)' = Working(p) \cup {e}
    BY <1>1, <1>5 DEF Working
  <2>3. ASSUME NEW q \in Processors, NEW f \in Working(q), f.id > 0, f.event = k, f.id = e.id
        PROVE  FALSE
    <3>1. Fit(q, f)
      BY <2>3 DEF Tidy, Orderly
    <3>. QED BY <1>5, <2>3, <3>1 DEF Fit, SameRow
  <2>4. Apart'
    <3>. SUFFICES ASSUME NEW q \in Processors, NEW s \in Processors, NEW f \in Working(q)',
                         NEW g \in Working(s)', f.id > 0, Alike(f, g)
                  PROVE  q = s /\ f = g
      BY DEF Apart, Alike
    <3>1. f.id > 0 /\ g.id > 0 /\ f.event = g.event /\ f.id = g.id
      BY DEF Alike
    <3>2. (f \in Working(q) \/ (f = e /\ q = p)) /\ (g \in Working(s) \/ (g = e /\ s = p))
      BY <1>3, <2>2
    <3>3. CASE f \in Working(q) /\ g \in Working(s)
      BY <3>3 DEF Tidy, Apart
    <3>4. CASE f \in Working(q) /\ g = e
      BY <2>3, <3>1, <3>4
    <3>5. CASE f = e /\ g \in Working(s)
      BY <2>3, <3>1, <3>5
    <3>. QED BY <3>2, <3>3, <3>4, <3>5
  <2>5. \A j \in Events \cap K : RowPaid(j)'
    <3>1. claims[k] < row[k].attempt /\ row[k].attempt <= MaxAttempts /\ claims[k] \in Nat
          /\ row[k].attempt \in Nat
      BY <1>1, <1>5, RowIs DEF Tidy, RowPaid
    <3>2. claims[k] + 1 <= row[k].attempt
      BY <3>1
    <3>. QED BY <1>5, <2>1, <3>1, <3>2 DEF RowPaid, Processing
  <2>6. ASSUME NEW q \in Processors \ A, NEW f \in Working(q), f.event \in K, Known(f) PROVE Fit(q, f)'
    <3>1. f.id # e.id
      BY <2>3, <2>6 DEF Known
    <3>. QED BY <2>1, <2>6, <3>1 DEF Fit, SameRow
  <2>7. ASSUME NEW r \in Reapers \ A, NEW f \in todo[r], f.event \in K PROVE Listed(f)'
    <3>1. Listed(f) /\ Known(f)
      BY ReaperKnows DEF Tidy, Watchful
    <3>2. f.claim \in Nat /\ claims[k] \in Nat
      BY <1>1, <3>1, KnownIs
    <3>3. CASE SameRow(f)
      <4>1. f.claim <= claims[k]
        BY <2>7, <3>1, <3>3 DEF Listed
      <4>2. f.claim <= claims[k] + 1 /\ f.claim # claims[k] + 1
        BY <3>2, <4>1
      <4>. QED BY <1>5, <2>1, <2>7, <4>2 DEF Listed, Leased
    <3>4. CASE ~SameRow(f)
      BY <2>1, <2>7, <3>4 DEF Listed, SameRow
    <3>. QED BY <3>3, <3>4
  <2>8. ASSUME NEW r \in Reapers \ A, pc[r] \in {"verdict", "write"}, NEW f \in {cur[r]}, f.event \in K
        PROVE  Leasing(f)'
    <3>1. Leasing(f)
      BY <2>8 DEF Tidy, Watchful
    <3>2. ~SameRow(f)
      BY <1>5, <2>8, <3>1 DEF Leasing, Processing
    <3>. QED BY <2>1, <2>8, <3>2 DEF Leasing, SameRow
  <2>9. Orderly(p)'
    <3>1. ASSUME NEW f \in Working(p)' PROVE Fit(p, f)'
      <4>1. CASE f = e
        BY <1>1, <2>1, <4>1 DEF Fit
      <4>2. CASE f # e
        <5>1. f \in Working(p) /\ Fit(p, f)
          BY <2>2, <4>2 DEF Tidy, Orderly
        <5>2. CASE f.id > 0 /\ f.event = k
          <6>1. f.id # e.id
            BY <2>3, <5>1, <5>2
          <6>. QED BY <2>1, <5>2, <6>1 DEF Fit, SameRow
        <5>3. CASE f.id > 0 /\ f.event # k
          <6>1. f = Nobody \/ Known(f)
            BY <5>1, WorkingKnown
          <6>2. f.event \in Events
            BY <5>3, <6>1 DEF Nobody, Known, Reference
          <6>3. row'[f.event] = row[f.event]
            BY <1>5, <5>3, <6>2
          <6>. QED BY <1>1, <5>1, <6>3 DEF Fit, SameRow
        <5>4. CASE ~(f.id > 0)
          BY <5>4 DEF Fit
        <5>. QED BY <5>2, <5>3, <5>4
      <4>. QED BY <4>1, <4>2
    <3>. QED BY <1>1, <3>1 DEF Orderly
  <2>10. Still(A) /\ \A j \in Events \ K : row'[j] = row[j] /\ claims'[j] = claims[j]
    BY <1>1, <1>5 DEF Alone
  <2>11. (\A q \in Processors \cap A : Orderly(q)') /\ (\A r \in Reapers \cap A : Watchful(r)')
    BY <2>9, Kinds
  <2>. HIDE DEF K, A
  <2>. QED BY <1>2, <2>4, <2>5, <2>6, <2>7, <2>8, <2>10, <2>11, TidyStep
<1>. QED BY <1>1, <1>4, <1>5

\* The rows are read again as they are.
LEMMA TidyLoad ==
  ASSUME TypeInv, Tidy, NEW p \in Processors, Load(p) PROVE Tidy'
<1>1. /\ Alone(p) /\ pc[p] = "claim" /\ pc'[p] \in {"idle", "next"}
      /\ cur'[p] = cur[p] /\ mine'[p] = {} /\ todo'[p] = Loaded(p) /\ UNCHANGED <<row, claims>>
      /\ \A f \in Loaded(p) : \E e \in mine[p] : SameRow(e) /\ Known(e) /\ f = Ref(e.event)
  BY LoadIs
<1>2. cur[p] = Nobody
  BY <1>1, ProcessorKnows DEF AtWork
<1>3. Working(p)' = {Nobody} \cup Loaded(p)
  BY <1>1, <1>2 DEF Working
<1>4. ASSUME NEW f \in Loaded(p)
      PROVE  \E e \in Working(p) : /\ SameRow(e) /\ Known(e) /\ Alike(e, f) /\ f = Ref(e.event)
                                   /\ f.event = e.event /\ f.attempt = row[e.event].attempt
  <2>1. PICK e \in mine[p] : SameRow(e) /\ Known(e) /\ f = Ref(e.event)
    BY <1>1
  <2>2. e \in Working(p) /\ e.event \in Events
    BY <2>1 DEF Working, Known, Reference
  <2>. QED BY <2>1, <2>2, RefKnown DEF Alike, SameRow
<1>5. \A q \in Processors \ {p} : Working(q)' = Working(q)
  BY <1>1, Kinds DEF Alone, Still, Same, Working
<1>6. Apart'
  <2>. SUFFICES ASSUME NEW q \in Processors, NEW s \in Processors, NEW f \in Working(q)',
                       NEW g \in Working(s)', f.id > 0, Alike(f, g)
                PROVE  q = s /\ f = g
    BY DEF Apart, Alike
  <2>1. f.id > 0 /\ g.id > 0 /\ f.event = g.event /\ f.id = g.id /\ f # Nobody /\ g # Nobody
    BY NobodyIs DEF Alike
  <2>2. ASSUME NEW t \in Processors, NEW h \in Working(t)', h # Nobody
        PROVE  \E e \in Working(t) : /\ Alike(e, h)
                                     /\ IF t = p THEN h = Ref(e.event) ELSE h = e
    <3>1. CASE t = p
      BY <1>3, <1>4, <2>2, <3>1
    <3>2. CASE t # p
      BY <1>5, <2>2, <3>2 DEF Alike
    <3>. QED BY <3>1, <3>2
  <2>3. PICK e \in Working(q) : Alike(e, f) /\ IF q = p THEN f = Ref(e.event) ELSE f = e
    BY <2>1, <2>2
  <2>4. PICK d \in Working(s) : Alike(d, g) /\ IF s = p THEN g = Ref(d.event) ELSE g = d
    BY <2>1, <2>2
  <2>5. e.id > 0 /\ Alike(e, d) /\ e.event = d.event
    BY <2>1, <2>3, <2>4 DEF Alike
  <2>6. q = s /\ e = d
    BY <2>5 DEF Tidy, Apart
  <2>. QED BY <2>3, <2>4, <2>6
<1>7. OneReaper'
  BY <1>1, Kinds, OneReaperKept DEF Tidy, Alone, Still, Same
<1>8. Orderly(p)'
  <2>1. ASSUME NEW f \in Loaded(p) PROVE Fit(p, f)' /\ f # Nobody
    <3>1. PICK e \in Working(p) : /\ SameRow(e) /\ Known(e) /\ Alike(e, f)
                                  /\ f.event = e.event /\ f.attempt = row[e.event].attempt
      BY <1>4
    <3>2. Fit(p, e) /\ e.id > 0 /\ f.id = e.id
      BY <3>1 DEF Tidy, Orderly, Known, Alike
    <3>. QED BY <1>1, <3>1, <3>2, NobodyIs DEF Fit, SameRow
  <2>2. Fit(p, Nobody)'
    BY DEF Nobody, Fit
  <2>. QED BY <1>1, <1>2, <1>3, <2>1, <2>2 DEF Orderly
<1>. QED BY <1>1, <1>6, <1>7, <1>8, Kinds, TidyCalm DEF Alone

LEMMA TidyNextEvent ==
  ASSUME TypeInv, Tidy, NEW p \in Processors, NextEvent(p) PROVE Tidy'
<1>1. PICK e \in todo[p] : cur'[p] = e /\ todo'[p] = todo[p] \ {e}
  BY NextEventIs
<1>2. /\ Alone(p) /\ pc[p] = "next" /\ pc'[p] = "check" /\ mine'[p] = mine[p]
      /\ UNCHANGED <<row, claims>>
  BY NextEventIs
<1>3. mine[p] = {}
  BY <1>2 DEF Tidy, Orderly
<1>4. Working(p)' \subseteq Working(p)
  BY <1>1, <1>2, <1>3 DEF Working
<1>. QED BY <1>1, <1>2, <1>3, <1>4, ProcessorTidy

\* A processor goes on, and the rows stay.
LEMMA TidyGoes ==
  ASSUME TypeInv, Tidy, NEW p \in Processors, NEW from \in AtWork, NEW to \in AtWork,
         Goes(p, from, to), UNCHANGED <<row, claims>>
  PROVE  Tidy'
<1>1. Alone(p) /\ pc[p] \in AtWork /\ pc'[p] # "claim" /\ pc[p] # "claim"
  BY DEF Goes, AtWork
<1>2. Working(p)' = Working(p) /\ mine'[p] = {} /\ cur'[p] \notin todo'[p]
  BY <1>1, AtWorkHolds DEF Goes, Working
<1>. QED BY <1>1, <1>2, ProcessorTidy

LEMMA TidyRefuse ==
  ASSUME TypeInv, Tidy, NEW p \in Processors, Refuse(p) PROVE Tidy'
<1>1. PICK s \in {"FAILED", "SKIPPED"} : PutStatus(cur[p], s)
  BY DEF Refuse
<1>2. pc[p] \in AtWork /\ Done(p) /\ claims' = claims
  BY DEF Refuse, AtWork
<1>3. Known(cur[p])
  BY <1>2, ProcessorKnows
<1>4. /\ \A k \in Events : row'[k].id = row[k].id
      /\ \A k \in Events : k # cur[p].event => row'[k] = row[k]
      /\ ~SameRow(cur[p]) => row' = row
      /\ SameRow(cur[p]) => /\ row'[cur[p].event].status = s
                            /\ row'[cur[p].event].attempt = row[cur[p].event].attempt
  BY <1>1, <1>2, <1>3, PutStatusIs DEF Status
<1>5. ASSUME SameRow(cur[p]), NEW k \in {cur[p].event} PROVE RowPaid(k)'
  BY <1>2, <1>3, <1>4, <1>5, PutPaid, KnownIs
<1>. QED BY <1>2, <1>4, <1>5, DoneTidy

LEMMA TidyDeliver ==
  ASSUME TypeInv, Tidy, NEW p \in Processors, Deliver(p) PROVE Tidy'
<1>1. /\ Goes(p, "deliver", "audit") /\ PutStatus(cur[p], "DELIVERED") /\ claims' = claims
  BY GoesIs DEF Deliver, ProcessorPc
<1>2. pc[p] \in AtWork /\ pc'[p] # "claim" /\ Alone(p)
  BY <1>1 DEF Goes, AtWork
<1>3. Known(cur[p])
  BY <1>2, ProcessorKnows
<1>4. /\ \A k \in Events : row'[k].id = row[k].id
      /\ \A k \in Events : k # cur[p].event => row'[k] = row[k]
      /\ ~SameRow(cur[p]) => row' = row
      /\ SameRow(cur[p]) => /\ row'[cur[p].event].status = "DELIVERED" /\ ~row'[cur[p].event].stale
                            /\ row'[cur[p].event].attempt = row[cur[p].event].attempt
  BY <1>1, <1>3, PutStatusIs DEF Status
<1>5. ASSUME SameRow(cur[p]), NEW k \in {cur[p].event} PROVE RowPaid(k)'
  BY <1>1, <1>3, <1>4, <1>5, PutPaid, KnownIs
<1>6. /\ Working(p) = {cur[p]} \cup todo[p] /\ mine[p] = {} /\ cur[p] \notin todo[p]
      /\ Fit(p, cur[p]) /\ pc[p] # "claim"
  BY <1>2, AtWorkHolds DEF AtWork
<1>7. Working(p)' = Working(p)
  BY <1>1, <1>2, <1>6 DEF Goes, Working
<1>8. \A e \in todo[p] : Fit(p, e)'
  BY <1>2, <1>4, TodoFit
<1>9. \A e \in {cur[p]} : Fit(p, e)'
  <2>1. cur[p].event \in Events
    BY <1>3, KnownIs
  <2>2. CASE SameRow(cur[p])
    BY <1>4, <1>6, <2>1, <2>2 DEF Fit, SameRow
  <2>3. CASE ~SameRow(cur[p])
    BY <1>4, <2>1, <2>3 DEF Fit, SameRow
  <2>. QED BY <2>2, <2>3
<1>10. Orderly(p)'
  BY <1>1, <1>6, <1>7, <1>8, <1>9 DEF Orderly, Goes
<1>. QED BY <1>1, <1>2, <1>4, <1>5, <1>7, <1>10, ProcessorWrites

LEMMA TidyBackOff ==
  ASSUME TypeInv, Tidy, NEW p \in Processors, BackOff(p) PROVE Tidy'
<1>1. Again(cur[p], MaxAttempts) /\ pc[p] \in AtWork /\ Done(p) /\ claims' = claims
  BY DEF BackOff, AtWork
<1>2. Known(cur[p]) /\ Fit(p, cur[p]) /\ pc[p] # "claim"
  BY <1>1, AtWorkHolds DEF AtWork
<1>3. /\ \A k \in Events : row'[k].id = row[k].id
      /\ \A k \in Events : k # cur[p].event => row'[k] = row[k]
      /\ ~SameRow(cur[p]) => row' = row
      /\ SameRow(cur[p]) =>
           \/ /\ cur[p].attempt < MaxAttempts /\ row'[cur[p].event].status = "PENDING"
              /\ row'[cur[p].event].attempt = cur[p].attempt + 1
           \/ /\ row'[cur[p].event].status = "DEAD_LETTER"
              /\ row'[cur[p].event].attempt = row[cur[p].event].attempt
  BY <1>1, <1>2, AgainIs, Kinds
<1>4. ASSUME SameRow(cur[p]) PROVE \A e \in {cur[p]} : RowPaid(e.event)'
  <2>1. row[cur[p].event].attempt = cur[p].attempt
    BY <1>2, <1>4 DEF Fit, Known
  <2>. QED BY <1>1, <1>2, <1>3, <1>4, <2>1, AgainPaid
<1>5. ASSUME SameRow(cur[p]), NEW k \in {cur[p].event} PROVE RowPaid(k)'
  BY <1>4, <1>5
<1>. QED BY <1>1, <1>3, <1>5, DoneTidy

\* A processor is done with a row and has not written it.
LEMMA TidyDoneCalm ==
  ASSUME TypeInv, Tidy, NEW p \in Processors, pc[p] \in AtWork, Done(p), UNCHANGED <<row, claims>>
  PROVE  Tidy'
<1>1. Orderly(p)' /\ Working(p)' \subseteq Working(p) \cup {Nobody}
  BY DoneOrderly
<1>2. Alone(p) /\ pc[p] # "claim"
  BY DoneIs DEF AtWork
<1>3. pc'[p] # "claim" => mine'[p] = {} /\ cur'[p] \notin todo'[p]
  BY <1>1 DEF Orderly
<1>. QED BY <1>1, <1>2, <1>3, ProcessorTidy

LEMMA TidyProcessorCalm ==
  ASSUME TypeInv, Tidy, NEW p \in Processors,
         SaveScan(p) \/ CreateJob(p) \/ Send(p) \/ Audit(p) \/ Raise(p) \/ BackOffFails(p)
  PROVE  Tidy'
<1>1. CASE SaveScan(p)
  <2>1. Goes(p, "check", "job") /\ UNCHANGED <<row, claims>>
    BY <1>1, GoesIs DEF SaveScan, ProcessorPc, tableVars
  <2>. QED BY <2>1, TidyGoes DEF AtWork
<1>2. CASE CreateJob(p)
  BY <1>2, CreateJobIs, TidyGoes DEF AtWork
<1>3. CASE Send(p)
  BY <1>3, SendIs, TidyGoes DEF AtWork
<1>4. CASE Audit(p)
  BY <1>4, TidyDoneCalm DEF Audit, AtWork, tableVars
<1>5. CASE Raise(p)
  <2>1. pc[p] \in AtWork /\ Goes(p, pc[p], "failed") /\ UNCHANGED <<row, claims>>
    BY <1>5, GoesIs DEF Raise, ProcessorPc, tableVars, AtWork
  <2>. QED BY <2>1, TidyGoes DEF AtWork
<1>6. CASE BackOffFails(p)
  BY <1>6, TidyDoneCalm DEF BackOffFails, AtWork, tableVars
<1>. QED BY <1>1, <1>2, <1>3, <1>4, <1>5, <1>6

\* The rows that are listed are stale and as they are.
LEMMA TidyListStale ==
  ASSUME TypeInv, Tidy, NEW r \in Reapers, ListStale(r), Calm' PROVE Tidy'
<1>1. /\ pc' = [pc EXCEPT ![r] = "lease"] /\ todo' = [todo EXCEPT ![r] = {Ref(k) : k \in Stale}]
      /\ pc[r] = "idle" /\ Starts(r) /\ UNCHANGED <<mine, cur, goal, row, claims>>
  BY DEF ListStale, tableVars
<1>2. /\ Alone(r) /\ pc'[r] = "lease"
      /\ \A e \in todo'[r] : Known(e) /\ e.event \in Stale /\ e = Ref(e.event)
  BY <1>1, StartIs
<1>3. ASSUME NEW e \in todo'[r] PROVE Listed(e)'
  <2>1. e.event \in Events /\ row[e.event].status = "PROCESSING" /\ row[e.event].stale
    BY <1>2 DEF Stale, With
  <2>2. e.claim = row[e.event].claim /\ e.attempt = row[e.event].attempt
    BY <1>2, <2>1, RefKnown
  <2>3. row[e.event].claim = claims[e.event]
    BY <2>1 DEF Tidy, RowPaid, Processing
  <2>4. claims[e.event] \in Nat
    BY <2>1, RowIs
  <2>. QED BY <1>1, <2>1, <2>2, <2>3, <2>4 DEF Listed
<1>4. Watchful(r)'
  BY <1>2, <1>3 DEF Watchful
<1>5. \A s \in Reapers \ {r} : pc[s] = "idle"
  BY <1>1, StartsIs DEF Calm
<1>6. OneReaper'
  BY <1>2, <1>5, Kinds DEF OneReaper, Alone, Still, Same
<1>. QED BY <1>1, <1>2, <1>4, <1>6, ReaperTidy

LEMMA TidyLease ==
  ASSUME TypeInv, Tidy, NEW r \in Reapers, Lease(r) PROVE Tidy'
<1>1. PICK e \in todo[r] :
        /\ Alone(r) /\ pc[r] = "lease" /\ todo'[r] = todo[r] \ {e}
        /\ \/ Leased(e) /\ pc'[r] = "verdict" /\ cur'[r] = e
           \/ pc'[r] \in {"idle", "lease"} /\ cur'[r] = cur[r]
        /\ UNCHANGED <<row, claims>>
  BY LeaseIs
<1>2. \A f \in todo[r] : Listed(f)
  BY DEF Tidy, Watchful
<1>3. \A f \in todo'[r] : Listed(f)'
  BY <1>1, <1>2 DEF Listed, SameRow, Leased
<1>4. pc'[r] = "verdict" => Leasing(e)'
  BY <1>1, <1>2 DEF Listed, Leased, Leasing, SameRow, Processing
<1>5. Watchful(r)'
  BY <1>1, <1>3, <1>4 DEF Watchful
<1>6. OneReaper'
  BY <1>1, Kinds, OneReaperKept DEF Tidy, Alone, Still, Same
<1>. QED BY <1>1, <1>5, <1>6, ReaperTidy

LEMMA TidyVerdict ==
  ASSUME TypeInv, Tidy, NEW r \in Reapers, Verdict(r) PROVE Tidy'
<1>1. /\ Alone(r) /\ pc[r] = "verdict" /\ cur'[r] = cur[r] /\ todo'[r] = todo[r] /\ UNCHANGED <<row, claims>>
  BY VerdictIs
<1>2. (\A e \in todo[r] : Listed(e)) /\ (\A e \in {cur[r]} : Leasing(e))
  BY <1>1 DEF Tidy, Watchful
<1>3. Watchful(r)'
  BY <1>1, <1>2 DEF Watchful, Listed, Leasing, SameRow, Leased, Processing
<1>4. OneReaper'
  BY <1>1, Kinds, OneReaperKept DEF Tidy, Alone, Still, Same
<1>. QED BY <1>1, <1>3, <1>4, ReaperTidy

\* Recovery writes a row that no processor holds.
LEMMA TidyRecover ==
  ASSUME TypeInv, Tidy, NEW r \in Reapers, Recover(r) PROVE Tidy'
<1>1. /\ Alone(r) /\ pc[r] = "write" /\ pc'[r] \in {"idle", "lease"} /\ todo'[r] = todo[r]
      /\ \/ goal[r] = "DELIVERED" /\ PutStatus(cur[r], "DELIVERED")
         \/ goal[r] = "retry" /\ Again(cur[r], MaxAttempts)
      /\ claims' = claims /\ Known(cur[r])
  BY RecoverIs
<1>2. /\ \A k \in Events : row'[k].id = row[k].id
      /\ \A k \in Events : k # cur[r].event => row'[k] = row[k]
      /\ ~SameRow(cur[r]) => row' = row
      /\ SameRow(cur[r]) =>
           \/ /\ cur[r].attempt < MaxAttempts /\ row'[cur[r].event].status = "PENDING"
              /\ row'[cur[r].event].attempt = cur[r].attempt + 1
           \/ /\ row'[cur[r].event].status \in {"DELIVERED", "DEAD_LETTER"}
              /\ row'[cur[r].event].attempt = row[cur[r].event].attempt
  <2>1. CASE goal[r] = "DELIVERED" /\ PutStatus(cur[r], "DELIVERED")
    BY <1>1, <2>1, PutStatusIs DEF Status
  <2>2. CASE goal[r] = "retry" /\ Again(cur[r], MaxAttempts)
    BY <1>1, <2>2, AgainIs, Kinds
  <2>. QED BY <1>1, <2>1, <2>2
<1>3. \A q \in Processors : Working(q)' = Working(q)
  BY <1>1, Kinds DEF Alone, Still, Same, Working
<1>4. Apart' /\ OneReaper'
  BY <1>1, <1>3, Kinds, ApartKept, OneReaperKept DEF Tidy, Alone, Still, Same
<1>5. Watchful(r) /\ \A e \in {cur[r]} : Leasing(e)
  BY <1>1 DEF Tidy, Watchful
<1>6. CASE ~SameRow(cur[r])
  <2>1. UNCHANGED <<row, claims>>
    BY <1>1, <1>2, <1>6
  <2>2. Watchful(r)'
    BY <1>1, <1>5, <2>1 DEF Watchful, Listed, SameRow, Leased
  <2>. QED BY <1>1, <1>4, <2>1, <2>2, ReaperTidy
<1>7. CASE SameRow(cur[r])
  <2>. DEFINE k == cur[r].event
              K == {k}
              A == {r}
  <2>1. /\ k \in Events /\ row[k].stale /\ row[k].attempt = cur[r].attempt /\ row[k].id = cur[r].id
        /\ cur[r].id > 0 /\ row'[k].status # "PROCESSING"
    BY <1>1, <1>2, <1>5, <1>7, KnownIs DEF Leasing, SameRow
  <2>2. \A e \in {cur[r]} : RowPaid(e.event)'
    <3>1. CASE row'[k].status = "DELIVERED"
      BY <1>1, <1>2, <1>7, <2>1, <3>1, PutPaid
    <3>2. CASE row'[k].status # "DELIVERED"
      <4>1. \/ /\ cur[r].attempt < MaxAttempts /\ row'[cur[r].event].status = "PENDING"
               /\ row'[cur[r].event].attempt = cur[r].attempt + 1
            \/ /\ row'[cur[r].event].status = "DEAD_LETTER"
               /\ row'[cur[r].event].attempt = row[cur[r].event].attempt
        BY <1>2, <1>7, <3>2
      <4>. QED BY <1>1, <2>1, <4>1, AgainPaid
    <3>. QED BY <3>1, <3>2
  <2>3. \A j \in Events \cap K : RowPaid(j)'
    BY <2>2
  <2>4. ASSUME NEW q \in Processors \ A, NEW e \in Working(q), e.event \in K, Known(e) PROVE Fit(q, e)'
    <3>1. Fit(q, e) /\ e.id > 0
      BY <2>4 DEF Tidy, Orderly, Known
    <3>2. ~SameRow(e)
      BY <2>1, <2>4, <3>1 DEF Fit
    <3>3. row'[e.event].id # e.id
      BY <1>2, <2>1, <2>4, <3>2 DEF SameRow
    <3>. QED BY <3>3 DEF Fit, SameRow
  <2>5. \A s \in Reapers : \A e \in todo[s] : e.event = k => Listed(e)'
    BY <1>1, <1>2, <2>1, ClosedListed
  <2>6. \A s \in Reapers \ A : \A e \in todo[s] : e.event \in K => Listed(e)'
    BY <2>5
  <2>7. ASSUME NEW s \in Reapers \ A, pc[s] \in {"verdict", "write"}, NEW e \in {cur[s]}, e.event \in K
        PROVE  Leasing(e)'
    BY <1>1, <2>7 DEF Tidy, OneReaper
  <2>8. Watchful(r)'
    <3>1. ASSUME NEW e \in todo[r] PROVE Listed(e)'
      <4>1. CASE e.event = k
        BY <2>5, <4>1
      <4>2. CASE e.event # k
        <5>1. Listed(e) /\ e.event \in Events
          BY <1>5, ReaperKnows DEF Watchful, Known, Reference
        <5>2. row'[e.event] = row[e.event]
          BY <1>2, <4>2, <5>1
        <5>. QED BY <1>1, <5>1, <5>2 DEF Listed, SameRow, Leased
      <4>. QED BY <4>1, <4>2
    <3>. QED BY <1>1, <3>1 DEF Watchful
  <2>9. Still(A) /\ \A j \in Events \ K : row'[j] = row[j] /\ claims'[j] = claims[j]
    BY <1>1, <1>2 DEF Alone
  <2>10. (\A q \in Processors \cap A : Orderly(q)') /\ (\A s \in Reapers \cap A : Watchful(s)')
    BY <2>8, Kinds
  <2>. HIDE DEF K, A
  <2>. QED BY <1>4, <2>3, <2>4, <2>6, <2>7, <2>9, <2>10, TidyStep
<1>. QED BY <1>6, <1>7

\* Only a claim that nobody works under grows old.
LEMMA TidyAge ==
  ASSUME TypeInv, Tidy, NEW k \in Events, Age(k), Calm' PROVE Tidy'
<1>1. /\ Processing(k) /\ row'[k].status = "PROCESSING" /\ row'[k].stale
      /\ row'[k].id = row[k].id /\ row'[k].attempt = row[k].attempt /\ row'[k].claim = row[k].claim
      /\ \A j \in Events \ {k} : row'[j] = row[j]
      /\ UNCHANGED <<claims, pc, todo, mine, cur, goal>>
  BY AgeIs
<1>2. ~Held(k)
  BY AgeIs DEF Calm
<1>. DEFINE K == {k}
            A == {}
<1>3. \A q \in Processors : Working(q)' = Working(q)
  BY <1>1 DEF Working
<1>4. Apart' /\ OneReaper'
  BY <1>1, <1>3, ApartKept, OneReaperKept DEF Tidy
<1>5. \A j \in Events \cap K : RowPaid(j)'
  BY <1>1 DEF Tidy, RowPaid, Processing
<1>6. \A q \in Processors \ A : \A e \in Working(q) : e.event \in K /\ Known(e) => Fit(q, e)'
  BY <1>1, <1>2 DEF Held, Fit, SameRow
<1>7. ASSUME NEW r \in Reapers \ A, NEW e \in todo[r], e.event \in K PROVE Listed(e)'
  <2>1. Listed(e)
    BY DEF Tidy, Watchful
  <2>. QED BY <1>1, <1>7, <2>1 DEF Listed, SameRow, Leased, Processing
<1>8. ASSUME NEW r \in Reapers \ A, pc[r] \in {"verdict", "write"}, NEW e \in {cur[r]}, e.event \in K
      PROVE  Leasing(e)'
  <2>1. Leasing(e)
    BY <1>8 DEF Tidy, Watchful
  <2>. QED BY <1>1, <1>8, <2>1 DEF Leasing, SameRow, Processing
<1>9. Still(A) /\ \A j \in Events \ K : row'[j] = row[j] /\ claims'[j] = claims[j]
  BY <1>1 DEF Still, Same
<1>10. (\A q \in Processors \cap A : Orderly(q)') /\ (\A s \in Reapers \cap A : Watchful(s)')
  OBVIOUS
<1>. HIDE DEF K, A
<1>. QED BY <1>4, <1>5, <1>6, <1>7, <1>8, <1>9, <1>10, TidyStep

LEMMA TidyCrash == ASSUME TypeInv, Tidy, NEW w \in Workers, Crash(w) PROVE Tidy'
<1>1. /\ Alone(w) /\ pc'[w] = "idle" /\ todo'[w] = {} /\ cur'[w] = Nobody
      /\ w \in Processors => mine'[w] = {}
      /\ UNCHANGED <<row, claims>>
  BY CrashIs
<1>2. CASE w \in Processors
  <2>1. Working(w)' = {Nobody}
    BY <1>1, <1>2 DEF Working
  <2>. QED BY <1>1, <1>2, <2>1, ProcessorTidy
<1>3. CASE w \in Reapers
  <2>1. Watchful(w)'
    BY <1>1, <1>3 DEF Watchful
  <2>2. OneReaper'
    BY <1>1, Kinds, OneReaperKept DEF Tidy, Alone, Still, Same
  <2>. QED BY <1>1, <1>3, <2>1, <2>2, ReaperTidy
<1>. QED BY <1>2, <1>3, Kinds

\* A step in which no actor moves and no row changes.
LEMMA TidyIdle == ASSUME TypeInv, Tidy, Still({}), UNCHANGED <<row, claims>> PROVE Tidy'
<1>1. \A q \in Processors : Working(q)' = Working(q)
  BY Kinds DEF Still, Same, Working
<1>2. Apart' /\ OneReaper'
  BY <1>1, Kinds, ApartKept, OneReaperKept DEF Tidy, Still, Same
<1>. QED BY <1>2, TidyCalm

\* A step of a calm history keeps the claims paid for.
LEMMA TidyNext == TypeInv /\ Tidy /\ [OutboxNext]_outboxVars /\ backend = "sqlite" /\ Calm' => Tidy'
<1>. SUFFICES ASSUME TypeInv, Tidy, [OutboxNext]_outboxVars, backend = "sqlite", Calm' PROVE Tidy'
  OBVIOUS
<1>1. CASE \E m \in Monitors : CheckDuplicate(m) \/ SaveEvent(m)
  BY <1>1, TidyCheckDuplicate, TidySaveEvent
<1>2. ASSUME NEW p \in Processors, ProcessorStep(p) \/ Raise(p) PROVE Tidy'
  <2>1. ~ClaimPostgres(p)
    BY DEF ClaimPostgres
  <2>. QED
    BY <1>2, <2>1, TidyListPending, TidyClaimEvent, TidyLoad, TidyNextEvent, TidyRefuse, TidyDeliver,
       TidyBackOff, TidyProcessorCalm DEF ProcessorStep
<1>3. ASSUME NEW r \in Reapers, ReaperStep(r) PROVE Tidy'
  <2>1. ~ReadStale(r) /\ ~ResetStale(r)
    BY ReaperKnows DEF ReadStale, ResetStale
  <2>. QED BY <1>3, <2>1, TidyListStale, TidyLease, TidyVerdict, TidyRecover DEF ReaperStep
<1>4. CASE (\E k \in Events : Age(k)) \/ (\E w \in Workers : Crash(w))
           \/ (\E n \in DOMAIN jobs : ScanFails(n))
  BY <1>4, TidyAge, TidyCrash, ScanFailsIs, TidyIdle
<1>5. CASE UNCHANGED outboxVars
  <2>1. UNCHANGED <<row, claims, pc, todo, mine, cur, goal>>
    BY <1>5 DEF outboxVars, tableVars, workVars
  <2>2. Still({})
    BY <2>1 DEF Still, Same
  <2>. QED BY <2>1, <2>2, TidyIdle
<1>. QED BY <1>1, <1>2, <1>3, <1>4, <1>5 DEF OutboxNext

\* What has happened has happened, and no database changes into another.
LEMMA HistoryGrows ==
  TypeInv /\ [OutboxNext]_outboxVars => events \subseteq events' /\ UNCHANGED <<backend, prefix>>
<1>. SUFFICES ASSUME TypeInv, [OutboxNext]_outboxVars
              PROVE  events \subseteq events' /\ UNCHANGED <<backend, prefix>>
  OBVIOUS
<1>1. CASE \E m \in Monitors : CheckDuplicate(m) \/ SaveEvent(m)
  BY <1>1 DEF CheckDuplicate, SaveEvent, Happens, histVars
<1>2. ASSUME NEW p \in Processors, ProcessorStep(p) \/ Raise(p)
      PROVE  events \subseteq events' /\ UNCHANGED <<backend, prefix>>
  BY <1>2 DEF ProcessorStep, ListPending, ClaimEvent, Load, NextEvent, Refuse, SaveScan, CreateJob,
     Send, Deliver, Audit, Raise, BackOff, BackOffFails, ClaimPostgres, Happens, histVars
<1>3. ASSUME NEW r \in Reapers, ReaperStep(r)
      PROVE  events \subseteq events' /\ UNCHANGED <<backend, prefix>>
  BY <1>3 DEF ReaperStep, ListStale, Lease, Verdict, Recover, ReadStale, ResetStale, Starts,
     Happens, histVars
<1>4. CASE (\E k \in Events : Age(k)) \/ (\E w \in Workers : Crash(w))
           \/ (\E n \in DOMAIN jobs : ScanFails(n))
  BY <1>4 DEF Age, Crash, ScanFails, Happens, histVars
<1>5. CASE UNCHANGED outboxVars
  BY <1>5 DEF outboxVars, histVars
<1>. QED BY <1>1, <1>2, <1>3, <1>4, <1>5 DEF OutboxNext

\* At the beginning nothing is claimed.
LEMMA CarefulInit == OutboxInit => Careful
<1>. SUFFICES ASSUME OutboxInit PROVE Tidy
  BY DEF Careful
<1>1. \A k \in Events : RowPaid(k)
  BY Kinds DEF OutboxInit, RowPaid, NoRow, Processing
<1>2. \A p \in Processors : Working(p) = {Nobody} /\ mine[p] = {} /\ todo[p] = {}
  BY Kinds DEF OutboxInit, Working
<1>3. \A p \in Processors : Orderly(p)
  BY <1>2, NobodyIs, Kinds DEF Orderly, OutboxInit
<1>4. \A r \in Reapers : Watchful(r)
  BY Kinds DEF OutboxInit, Watchful
<1>5. Apart
  BY <1>2, NobodyIs DEF Apart
<1>6. OneReaper
  BY Kinds DEF OutboxInit, OneReaper
<1>. QED BY <1>1, <1>3, <1>4, <1>5, <1>6 DEF Tidy

LEMMA CarefulNext == TypeInv /\ Careful /\ [OutboxNext]_outboxVars => Careful'
<1>. SUFFICES ASSUME TypeInv, Careful, [OutboxNext]_outboxVars, Calm' PROVE Tidy'
  BY DEF Careful
<1>1. Calm
  BY HistoryGrows DEF Calm
<1>. QED BY <1>1, TidyNext DEF Careful, Calm

LEMMA TypesAndCare == OutboxSpec => [](TypeInv /\ Careful)
BY TypeInit, TypeNext, CarefulInit, CarefulNext, PTL DEF OutboxSpec

\* Without a slow worker or two reapers at a time, an announcement on SQLite is claimed at most
\* as often as it has attempts, and it has at most MaxAttempts.
THEOREM OutboxClaimsPaid == OutboxSpec => []ClaimsPaidFor
<1>1. Careful => ClaimsPaidFor
  BY DEF Careful, Calm, Tidy, RowPaid, ClaimsPaidFor
<1>. QED BY <1>1, TypesAndCare, PTL

-----------------------------------------------------------------------------
(* An announcement is dispatched once. *)

\* Nor does a call raise or a scan fail.
Smooth == Calm /\ events \cap {"error", "scanfail"} = {}

NoJob(e) == \A n \in DOMAIN jobs : ~Alike(jobs[n], e)

\* A row that can be claimed has no job.
Waiting(k) == row[k].status = "PENDING" => \A e \in {Ref(k)} : NoJob(e)

\* What a processor has still to do has no job.
Fresh(p) ==
  /\ pc[p] # "failed"
  /\ \A e \in Working(p) : e.id > 0 /\ (e # cur[p] \/ pc[p] \in {"check", "job"}) => NoJob(e)

\* What a reaper puts back has no job.
Checked(r) ==
  pc[r] = "write" /\ goal[r] = "retry" => \A e \in {cur[r]} : SameRow(e) => NoJob(e)

Single ==
  /\ \A m, n \in DOMAIN jobs : Alike(jobs[m], jobs[n]) => m = n
  /\ \A n \in DOMAIN jobs : jobs[n].status = "live"
  /\ \A k \in Events : Waiting(k)
  /\ \A p \in Processors : Fresh(p)
  /\ \A r \in Reapers : Checked(r)

Once == Smooth => Single

\* The jobs are of the same events.
SameJobs ==
  /\ DOMAIN jobs' = DOMAIN jobs
  /\ \A n \in DOMAIN jobs : /\ jobs'[n].event = jobs[n].event /\ jobs'[n].id = jobs[n].id
                            /\ jobs'[n].status = jobs[n].status

LEMMA NoJobKept == ASSUME SameJobs PROVE \A e : NoJob(e) => NoJob(e)'
BY DEF SameJobs, NoJob, Alike

\* A row that was replaced stays so.
LEMMA ReplacedStays ==
  ASSUME TypeInv, RowTypes', Onward, NEW e, Known(e), SameRow(e)' PROVE SameRow(e)
<1>1. e.event \in Events /\ e.id \in Nat /\ e.id <= row[e.event].id /\ row[e.event].id \in Nat
  BY KnownIs DEF Known
<1>2. row[e.event].id <= row'[e.event].id /\ row'[e.event].id = e.id
  BY <1>1 DEF Onward, SameRow
<1>. QED BY <1>1, <1>2 DEF SameRow

\* A row that waited still waits without a job.
LEMMA WaitingKept ==
  ASSUME TypeInv, SameJobs, NEW k \in Events, Waiting(k),
         row'[k].status = "PENDING" => row[k].status = "PENDING" /\ row'[k].id = row[k].id
  PROVE  Waiting(k)'
BY NoJobKept DEF Waiting, Ref, NoJob, Alike, SameJobs

\* What a step that creates no job has to keep.
LEMMA SingleStep ==
  ASSUME TypeInv, Single, NEW A, Still(A), SameJobs, RowTypes', Onward,
         \A k \in Events : Waiting(k)',
         \A p \in Processors \cap A : Fresh(p)',
         \A r \in Reapers \cap A : Checked(r)'
  PROVE  Single'
<1>1. ASSUME NEW p \in Processors PROVE Fresh(p)'
  <2>1. CASE p \in A
    BY <2>1
  <2>2. CASE p \notin A
    <3>1. Same(p) /\ Fresh(p) /\ p \in Workers
      BY <2>2, Kinds DEF Still, Single
    <3>2. Working(p)' = Working(p)
      BY <3>1 DEF Working, Same
    <3>. QED BY <3>1, <3>2, NoJobKept DEF Fresh, Same
  <2>. QED BY <2>1, <2>2
<1>2. ASSUME NEW r \in Reapers PROVE Checked(r)'
  <2>1. CASE r \in A
    BY <2>1
  <2>2. CASE r \notin A
    <3>1. Same(r) /\ Checked(r)
      BY <2>2, Kinds DEF Still, Single
    <3>2. ASSUME pc[r] = "write", goal[r] = "retry", NEW e \in {cur[r]}, SameRow(e)' PROVE NoJob(e)'
      <4>1. Known(e)
        BY <3>2, ReaperKnows
      <4>2. SameRow(e)
        BY <3>2, <4>1, ReplacedStays
      <4>. QED BY <3>1, <3>2, <4>2, NoJobKept DEF Checked
    <3>. QED BY <3>1, <3>2 DEF Checked, Same
  <2>. QED BY <2>1, <2>2
<1>3. \A m, n \in DOMAIN jobs' : Alike(jobs'[m], jobs'[n]) => m = n
  BY DEF Single, SameJobs, Alike
<1>4. \A n \in DOMAIN jobs' : jobs'[n].status = "live"
  BY DEF Single, SameJobs
<1>. QED BY <1>1, <1>2, <1>3, <1>4 DEF Single, Alike

\* A processor's step that creates no job and puts no row back.
LEMMA ProcessorSingle ==
  ASSUME TypeInv, Single, NEW p \in Processors, Alone(p), SameJobs, RowTypes', Onward,
         \A k \in Events : row'[k].status = "PENDING" => row[k].status = "PENDING" /\ row'[k].id = row[k].id,
         pc'[p] # "failed",
         \A e \in Working(p)' : e.id > 0 /\ (e # cur'[p] \/ pc'[p] \in {"check", "job"}) => NoJob(e)
  PROVE  Single'
<1>1. \A k \in Events : Waiting(k)'
  BY WaitingKept DEF Single
<1>2. Fresh(p)'
  BY NoJobKept DEF Fresh
<1>. QED BY <1>1, <1>2, Kinds, SingleStep DEF Alone

\* A reaper's step that puts no row back.
LEMMA ReaperSingle ==
  ASSUME TypeInv, Single, NEW r \in Reapers, Alone(r), SameJobs, RowTypes', Onward, Checked(r)',
         \A k \in Events : row'[k].status = "PENDING" => row[k].status = "PENDING" /\ row'[k].id = row[k].id
  PROVE  Single'
<1>1. \A k \in Events : Waiting(k)'
  BY WaitingKept DEF Single
<1>. QED BY <1>1, Kinds, SingleStep DEF Alone

\* A step in which nobody moves.
LEMMA SingleIdle ==
  ASSUME TypeInv, Single, Still({}), SameJobs, RowTypes', Onward,
         \A k \in Events : row'[k].status = "PENDING" => row[k].status = "PENDING" /\ row'[k].id = row[k].id
  PROVE  Single'
<1>1. \A k \in Events : Waiting(k)'
  BY WaitingKept DEF Single
<1>. QED BY <1>1, SingleStep

LEMMA SameJobsIs == ASSUME UNCHANGED jobs PROVE SameJobs
BY DEF SameJobs

LEMMA SingleCheckDuplicate ==
  ASSUME TypeInv, Single, NEW m \in Monitors, CheckDuplicate(m) PROVE Single'
<1>1. Alone(m) /\ UNCHANGED <<row, claims, jobs>>
  BY CheckDuplicateIs
<1>2. RowTypes' /\ Onward /\ SameJobs
  BY <1>1, RowsKept, SameJobsIs
<1>3. \A k \in Events : Waiting(k)'
  BY <1>1, <1>2, WaitingKept DEF Single
<1>. QED BY <1>1, <1>2, <1>3, Kinds, SingleStep DEF Alone

\* A new row has no job.
LEMMA SingleSaveEvent ==
  ASSUME TypeInv, Single, backend = "sqlite", NEW m \in Monitors, SaveEvent(m) PROVE Single'
<1>1. PICK k \in Events :
           /\ \A j \in Events \ {k} : row'[j] = row[j] /\ claims'[j] = claims[j]
           /\ row'[k].id = row[k].id + 1 /\ Alone(m) /\ RowTypes' /\ Onward /\ UNCHANGED jobs
  BY SaveEventIs
<1>2. SameJobs
  BY <1>1, SameJobsIs
<1>3. ASSUME NEW j \in Events PROVE Waiting(j)'
  <2>1. CASE j = k
    <3>1. ASSUME NEW n \in DOMAIN jobs, jobs[n].event = k PROVE jobs[n].id # row[k].id + 1
      <4>1. jobs[n].id <= row[k].id /\ jobs[n].id \in Nat /\ row[k].id \in Nat
        BY <3>1, JobAt, RowIs DEF TypeInv, JobTypes, Job
      <4>. QED BY <4>1
    <3>. QED BY <1>1, <2>1, <3>1 DEF Waiting, Ref, NoJob, Alike
  <2>2. CASE j # k
    BY <1>1, <1>2, <2>2, WaitingKept DEF Single
  <2>. QED BY <2>1, <2>2
<1>. QED BY <1>1, <1>2, <1>3, Kinds, SingleStep DEF Alone

LEMMA SingleListPending ==
  ASSUME TypeInv, Single, NEW p \in Processors, ListPending(p) PROVE Single'
<1>1. /\ Alone(p) /\ UNCHANGED <<row, claims, jobs>> /\ pc[p] = "idle" /\ pc'[p] = "claim"
      /\ mine'[p] = mine[p] /\ cur'[p] = cur[p]
  BY ListPendingIs
<1>2. RowTypes' /\ Onward /\ SameJobs
  BY <1>1, RowsKept, SameJobsIs
<1>3. Working(p)' \subseteq Working(p)
  BY <1>1 DEF Working
<1>4. Fresh(p)
  BY DEF Single
<1>. QED BY <1>1, <1>2, <1>3, <1>4, ProcessorSingle DEF Fresh

\* A row that is claimed has no job.
LEMMA SingleClaimEvent ==
  ASSUME TypeInv, Single, NEW p \in Processors, ClaimEvent(p) PROVE Single'
<1>1. PICK e \in todo[p] :
           /\ Known(e) /\ e.event \in Events /\ Alone(p)
           /\ pc[p] = "claim" /\ pc'[p] = "claim" /\ cur'[p] = cur[p]
           /\ \/ /\ SameRow(e) /\ row[e.event].status = "PENDING" /\ mine'[p] = mine[p] \cup {e}
                 /\ row'[e.event] = Take(e.event)
                 /\ \A k \in Events : k # e.event => row'[k] = row[k]
              \/ mine'[p] = mine[p] /\ UNCHANGED <<row, claims>>
           /\ RowTypes' /\ Onward /\ UNCHANGED jobs
  BY ClaimEventIs
<1>2. SameJobs
  BY <1>1, SameJobsIs
<1>3. Fresh(p) /\ Waiting(e.event)
  BY <1>1 DEF Single
<1>4. CASE mine'[p] = mine[p] /\ UNCHANGED <<row, claims>>
  <2>1. Working(p)' = Working(p)
    BY <1>1, <1>4 DEF Working
  <2>. QED BY <1>1, <1>2, <1>3, <1>4, <2>1, ProcessorSingle DEF Fresh
<1>5. CASE /\ SameRow(e) /\ row[e.event].status = "PENDING" /\ mine'[p] = mine[p] \cup {e}
           /\ row'[e.event] = Take(e.event)
           /\ \A k \in Events : k # e.event => row'[k] = row[k]
  <2>1. NoJob(e)
    <3>1. NoJob(Ref(e.event)) /\ Ref(e.event).event = e.event /\ Ref(e.event).id = e.id
      BY <1>1, <1>3, <1>5, RefKnown DEF Waiting, SameRow
    <3>. QED BY <3>1 DEF NoJob, Alike
  <2>2. Working(p)' = Working(p) \cup {e}
    BY <1>1, <1>5 DEF Working
  <2>3. row'[e.event].status = "PROCESSING"
    BY <1>1, <1>5, TakeIs
  <2>4. \A k \in Events : row'[k].status = "PENDING" => row[k].status = "PENDING" /\ row'[k].id = row[k].id
    BY <1>5, <2>3
  <2>. QED BY <1>1, <1>2, <1>3, <2>1, <2>2, <2>4, ProcessorSingle DEF Fresh
<1>. QED BY <1>1, <1>4, <1>5

LEMMA SingleLoad ==
  ASSUME TypeInv, Single, NEW p \in Processors, Load(p) PROVE Single'
<1>1. /\ Alone(p) /\ pc[p] = "claim" /\ pc'[p] \in {"idle", "next"}
      /\ cur'[p] = cur[p] /\ mine'[p] = {} /\ todo'[p] = Loaded(p) /\ UNCHANGED <<row, claims, jobs>>
      /\ \A f \in Loaded(p) : \E e \in mine[p] : SameRow(e) /\ Known(e) /\ f = Ref(e.event)
  BY LoadIs
<1>2. RowTypes' /\ Onward /\ SameJobs
  BY <1>1, RowsKept, SameJobsIs
<1>3. cur[p] = Nobody /\ Fresh(p)
  BY <1>1, ProcessorKnows DEF AtWork, Single
<1>4. Working(p)' = {Nobody} \cup Loaded(p)
  BY <1>1, <1>3 DEF Working
<1>5. ASSUME NEW f \in Loaded(p) PROVE NoJob(f)
  <2>1. PICK e \in mine[p] : SameRow(e) /\ Known(e) /\ f = Ref(e.event)
    BY <1>1
  <2>2. e \in Working(p) /\ e.event \in Events /\ e.id > 0 /\ e # Nobody
    BY <2>1, NobodyIs DEF Working, Known, Reference
  <2>3. NoJob(e)
    BY <1>3, <2>2 DEF Fresh
  <2>4. f.event = e.event /\ f.id = e.id
    BY <2>1, <2>2, RefKnown DEF SameRow
  <2>. QED BY <2>3, <2>4 DEF NoJob, Alike
<1>. QED BY <1>1, <1>2, <1>3, <1>4, <1>5, NobodyIs, ProcessorSingle

LEMMA SingleNextEvent ==
  ASSUME TypeInv, Tidy, Single, NEW p \in Processors, NextEvent(p) PROVE Single'
<1>1. PICK e \in todo[p] : cur'[p] = e /\ Known(e) /\ todo'[p] = todo[p] \ {e}
  BY NextEventIs
<1>2. /\ Alone(p) /\ pc[p] = "next" /\ pc'[p] = "check" /\ mine'[p] = mine[p]
      /\ UNCHANGED <<row, claims, jobs>>
  BY NextEventIs
<1>3. mine[p] = {} /\ cur[p] = Nobody /\ Fresh(p)
  BY <1>2, ProcessorKnows DEF Tidy, Orderly, Single, AtWork
<1>4. Working(p)' \subseteq Working(p)
  BY <1>1, <1>2, <1>3 DEF Working
<1>5. RowTypes' /\ Onward /\ SameJobs
  BY <1>2, RowsKept, SameJobsIs
<1>6. \A f \in Working(p)' : f.id > 0 => NoJob(f)
  BY <1>3, <1>4, NobodyIs DEF Fresh
<1>. QED BY <1>2, <1>5, <1>6, ProcessorSingle

\* A processor that is done with a row.
LEMMA SingleDone ==
  ASSUME TypeInv, Tidy, Single, NEW p \in Processors, pc[p] \in AtWork, Done(p), RowTypes', Onward,
         UNCHANGED jobs,
         \A k \in Events : row'[k].status = "PENDING" => row[k].status = "PENDING" /\ row'[k].id = row[k].id
  PROVE  Single'
<1>1. /\ Alone(p) /\ cur'[p] = Nobody /\ pc'[p] \in {"idle", "next"}
      /\ todo'[p] = todo[p] /\ mine'[p] = mine[p]
  BY DoneIs
<1>2. mine[p] = {} /\ Working(p) = {cur[p]} \cup todo[p] /\ cur[p] \notin todo[p] /\ Fresh(p)
  BY AtWorkHolds DEF Single
<1>3. Working(p)' = {Nobody} \cup todo[p]
  BY <1>1, <1>2 DEF Working
<1>4. \A e \in todo[p] : e.id > 0 => NoJob(e)
  BY <1>2 DEF Fresh
<1>. QED BY <1>1, <1>3, <1>4, NobodyIs, SameJobsIs, ProcessorSingle

\* A processor that goes on.
LEMMA SingleGoes ==
  ASSUME TypeInv, Tidy, Single, NEW p \in Processors, NEW from \in AtWork,
         NEW to \in AtWork \ {"failed", "check"}, Goes(p, from, to), to = "job" => from = "check",
         RowTypes', Onward, SameJobs,
         \A k \in Events : row'[k].status = "PENDING" => row[k].status = "PENDING" /\ row'[k].id = row[k].id
  PROVE  Single'
<1>1. Alone(p) /\ pc[p] \in AtWork /\ pc'[p] # "claim" /\ pc[p] # "claim" /\ pc'[p] # "failed"
  BY DEF Goes, AtWork
<1>2. Working(p)' = Working(p) /\ Fresh(p)
  BY <1>1, AtWorkHolds DEF Goes, Working, Single
<1>. QED BY <1>1, <1>2, ProcessorSingle DEF Goes, Fresh

\* A row that is written by id waits only if it is written so.
LEMMA PutWaiting ==
  ASSUME TypeInv, NEW e, Known(e), \A k \in Events : row'[k].id = row[k].id,
         \A k \in Events : k # e.event => row'[k] = row[k],
         ~SameRow(e) => row' = row, SameRow(e) => row'[e.event].status # "PENDING"
  PROVE  \A k \in Events : row'[k].status = "PENDING" => row[k].status = "PENDING" /\ row'[k].id = row[k].id
OBVIOUS

LEMMA SingleWrites ==
  ASSUME TypeInv, Tidy, Single, NEW p \in Processors, Refuse(p) \/ Deliver(p) PROVE Single'
<1>1. PICK s \in {"FAILED", "SKIPPED", "DELIVERED"} : PutStatus(cur[p], s)
  BY DEF Refuse, Deliver
<1>2. pc[p] \in AtWork /\ claims' = claims /\ jobs' = jobs
  BY DEF Refuse, Deliver, AtWork
<1>3. Known(cur[p])
  BY <1>2, ProcessorKnows
<1>4. /\ RowTypes' /\ Onward /\ \A k \in Events : row'[k].id = row[k].id
      /\ \A k \in Events : k # cur[p].event => row'[k] = row[k]
      /\ ~SameRow(cur[p]) => row' = row
      /\ SameRow(cur[p]) => row'[cur[p].event].status = s
  BY <1>1, <1>2, <1>3, PutStatusIs DEF Status
<1>5. \A k \in Events : row'[k].status = "PENDING" => row[k].status = "PENDING" /\ row'[k].id = row[k].id
  BY <1>3, <1>4, PutWaiting
<1>6. CASE Refuse(p)
  BY <1>2, <1>4, <1>5, <1>6, SingleDone DEF Refuse
<1>7. CASE Deliver(p)
  <2>1. Goes(p, "deliver", "audit")
    BY <1>7, GoesIs DEF Deliver, ProcessorPc
  <2>. QED BY <1>2, <1>4, <1>5, <2>1, SameJobsIs, SingleGoes DEF AtWork
<1>. QED BY <1>6, <1>7

LEMMA SingleProcessorCalm ==
  ASSUME TypeInv, Tidy, Single, NEW p \in Processors, SaveScan(p) \/ Audit(p) \/ Send(p) PROVE Single'
<1>1. CASE SaveScan(p)
  <2>1. Goes(p, "check", "job") /\ UNCHANGED <<row, claims, jobs>>
    BY <1>1, GoesIs DEF SaveScan, ProcessorPc, tableVars
  <2>. QED BY <2>1, RowsKept, SameJobsIs, SingleGoes DEF AtWork
<1>2. CASE Audit(p)
  <2>1. pc[p] \in AtWork /\ Done(p) /\ UNCHANGED <<row, claims, jobs>>
    BY <1>2 DEF Audit, AtWork, tableVars
  <2>. QED BY <2>1, RowsKept, SingleDone
<1>3. CASE Send(p)
  <2>1. Goes(p, "send", "deliver") /\ UNCHANGED <<row, claims>> /\ DOMAIN jobs' = DOMAIN jobs
    BY <1>3, SendIs
  <2>2. PICK n \in Unsent(p) : /\ \A m \in DOMAIN jobs \ {n} : jobs'[m] = jobs[m]
                               /\ jobs'[n] = [jobs[n] EXCEPT !.sent = TRUE]
    BY <1>3, SendIs
  <2>3. n \in DOMAIN jobs /\ jobs[n] \in Job
    BY JobAt DEF Unsent
  <2>4. SameJobs
    BY <2>1, <2>2, <2>3 DEF SameJobs, Job
  <2>. QED BY <2>1, <2>4, RowsKept, SingleGoes DEF AtWork
<1>. QED BY <1>1, <1>2, <1>3

\* The job that is created is the first one of its row.
LEMMA SingleCreateJob ==
  ASSUME TypeInv, Tidy, Single, NEW p \in Processors, CreateJob(p) PROVE Single'
<1>1. /\ Goes(p, "job", "send") /\ Known(cur[p]) /\ UNCHANGED <<row, claims>>
  BY CreateJobIs
<1>2. PICK n \in Nat :
        /\ n \notin DOMAIN jobs /\ DOMAIN jobs' = DOMAIN jobs \cup {n}
        /\ \A m \in DOMAIN jobs : jobs'[m] = jobs[m]
        /\ jobs'[n] = [event |-> cur[p].event, id |-> cur[p].id, by |-> p,
                       status |-> "live", sent |-> FALSE]
  BY CreateJobIs
<1>3. /\ Working(p) = {cur[p]} \cup todo[p] /\ mine[p] = {} /\ cur[p] \notin todo[p]
      /\ Fit(p, cur[p]) /\ cur[p].id > 0 /\ pc[p] = "job" /\ pc'[p] = "send"
  BY <1>1, AtWorkHolds DEF Goes, AtWork, Known
<1>4. NoJob(cur[p])
  BY <1>3 DEF Single, Fresh
<1>5. ASSUME NEW e, NoJob(e), ~Alike(e, cur[p]) PROVE NoJob(e)'
  BY <1>2, <1>5 DEF NoJob, Alike
<1>6. ASSUME NEW k \in Events PROVE Waiting(k)'
  <2>. SUFFICES ASSUME row[k].status = "PENDING" PROVE \A e \in {Ref(k)} : NoJob(e)'
    BY <1>1 DEF Waiting, Ref
  <2>1. NoJob(Ref(k)) /\ Ref(k).event = k /\ Ref(k).id = row[k].id
    BY RefKnown DEF Single, Waiting
  <2>2. ~Alike(Ref(k), cur[p])
    BY <1>3, <2>1 DEF Fit, SameRow, Alike
  <2>. QED BY <1>5, <2>1, <2>2
<1>7. ASSUME NEW q \in Processors PROVE Fresh(q)'
  <2>1. CASE q = p
    <3>1. Working(p)' = Working(p) /\ cur'[p] = cur[p]
      BY <1>1, <1>3 DEF Goes, Working
    <3>2. ASSUME NEW e \in todo[p] PROVE NoJob(e)'
      <4>1. ~Alike(e, cur[p]) /\ e.id > 0
        BY <1>3, AtWorkHolds DEF AtWork, Known
      <4>2. NoJob(e)
        BY <1>3, <3>2, <4>1 DEF Single, Fresh
      <4>. QED BY <1>5, <4>1, <4>2
    <3>. QED BY <1>3, <2>1, <3>1, <3>2 DEF Fresh
  <2>2. CASE q # p
    <3>1. Same(q) /\ Fresh(q) /\ q \in Workers
      BY <1>1, <2>2, Kinds DEF Goes, Alone, Still, Single
    <3>2. Working(q)' = Working(q)
      BY <3>1 DEF Working, Same
    <3>3. \A e \in Working(q) : e.id > 0 => ~Alike(e, cur[p])
      BY <1>3, <2>2 DEF Tidy, Apart
    <3>4. ASSUME NEW e \in Working(q), e.id > 0, e # cur[q] \/ pc[q] \in {"check", "job"}
          PROVE  NoJob(e)'
      BY <1>5, <3>1, <3>3, <3>4 DEF Fresh
    <3>. QED BY <3>1, <3>2, <3>4 DEF Fresh, Same
  <2>. QED BY <2>1, <2>2
<1>8. ASSUME NEW r \in Reapers PROVE Checked(r)'
  <2>1. Same(r) /\ Checked(r)
    BY <1>1, Kinds DEF Goes, Alone, Still, Single
  <2>2. ASSUME pc[r] = "write", goal[r] = "retry", NEW e \in {cur[r]}, SameRow(e) PROVE NoJob(e)'
    <3>1. NoJob(e) /\ row[e.event].stale
      BY <2>1, <2>2 DEF Checked, Tidy, Watchful, Leasing
    <3>2. ~Alike(e, cur[p])
      BY <1>3, <2>2, <3>1 DEF Fit, Alike, SameRow
    <3>. QED BY <1>5, <3>1, <3>2
  <2>. QED BY <1>1, <2>1, <2>2 DEF Checked, Same, SameRow
<1>9. \A m, l \in DOMAIN jobs' : Alike(jobs'[m], jobs'[l]) => m = l
  <2>1. jobs'[n].event = cur[p].event /\ jobs'[n].id = cur[p].id
    BY <1>2
  <2>2. \A m \in DOMAIN jobs : ~Alike(jobs'[m], jobs'[n]) /\ ~Alike(jobs'[n], jobs'[m])
    BY <1>2, <1>4, <2>1 DEF NoJob, Alike
  <2>3. \A m, l \in DOMAIN jobs : Alike(jobs'[m], jobs'[l]) => m = l
    BY <1>2 DEF Single
  <2>. QED BY <1>2, <2>2, <2>3
<1>10. \A m \in DOMAIN jobs' : jobs'[m].status = "live"
  BY <1>2 DEF Single
<1>. QED BY <1>6, <1>7, <1>8, <1>9, <1>10 DEF Single, Alike

\* A reaper that has not found the job puts back a row that has none.
LEMMA SingleReaper ==
  ASSUME TypeInv, Tidy, Single, NEW r \in Reapers, ListStale(r) \/ Lease(r) \/ Verdict(r)
  PROVE  Single'
<1>1. UNCHANGED <<row, claims, jobs>>
  BY DEF ListStale, Lease, Verdict, tableVars
<1>2. RowTypes' /\ Onward /\ SameJobs
  BY <1>1, RowsKept, SameJobsIs
<1>3. CASE ListStale(r)
  <2>1. /\ pc' = [pc EXCEPT ![r] = "lease"] /\ todo' = [todo EXCEPT ![r] = {Ref(k) : k \in Stale}]
        /\ pc[r] = "idle" /\ UNCHANGED <<mine, cur, goal>>
    BY <1>3 DEF ListStale
  <2>2. Alone(r) /\ goal'[r] = "none"
    BY <2>1, StartIs
  <2>. QED BY <1>1, <1>2, <2>2, ReaperSingle DEF Checked
<1>4. CASE Lease(r)
  <2>1. Alone(r) /\ goal'[r] = "none"
    BY <1>4, LeaseIs
  <2>. QED BY <1>1, <1>2, <2>1, ReaperSingle DEF Checked
<1>5. CASE Verdict(r)
  <2>1. /\ Alone(r) /\ Known(cur[r]) /\ cur'[r] = cur[r]
        /\ goal'[r] = IF AlreadyScanned(cur[r].event) THEN "DELIVERED" ELSE "retry"
    BY <1>5, VerdictIs
  <2>2. ASSUME goal'[r] = "retry" PROVE NoJob(cur[r])
    <3>1. ~AlreadyScanned(cur[r].event)
      BY <2>1, <2>2
    <3>. DEFINE N == JobsLike(cur[r].event)
    <3>2. N \in SUBSET DOMAIN jobs
      BY DEF JobsLike
    <3>3. N # {} => jobs[NewestOf(N)].status = "live"
      BY <3>2, NewestJob DEF Single
    <3>4. N = {}
      BY <3>1, <3>3 DEF AlreadyScanned
    <3>. QED BY <3>4 DEF JobsLike, NoJob, Alike
  <2>3. Checked(r)'
    <3>1. \A e \in {cur[r]} : goal'[r] = "retry" => NoJob(e)'
      BY <1>2, <2>2, NoJobKept
    <3>. QED BY <2>1, <3>1 DEF Checked
  <2>. QED BY <1>1, <1>2, <2>1, <2>3, ReaperSingle
<1>. QED BY <1>3, <1>4, <1>5

LEMMA SingleRecover ==
  ASSUME TypeInv, Single, NEW r \in Reapers, Recover(r) PROVE Single'
<1>1. /\ Alone(r) /\ pc[r] = "write" /\ pc'[r] \in {"idle", "lease"}
      /\ \/ goal[r] = "DELIVERED" /\ PutStatus(cur[r], "DELIVERED")
         \/ goal[r] = "retry" /\ Again(cur[r], MaxAttempts)
      /\ claims' = claims /\ Known(cur[r]) /\ RowTypes' /\ Onward /\ UNCHANGED jobs
  BY RecoverIs
<1>2. Checked(r)' /\ SameJobs
  BY <1>1, SameJobsIs DEF Checked
<1>3. CASE goal[r] = "DELIVERED" /\ PutStatus(cur[r], "DELIVERED")
  <2>1. /\ \A k \in Events : row'[k].id = row[k].id
        /\ \A k \in Events : k # cur[r].event => row'[k] = row[k]
        /\ ~SameRow(cur[r]) => row' = row
        /\ SameRow(cur[r]) => row'[cur[r].event].status # "PENDING"
    BY <1>1, <1>3, PutStatusIs DEF Status
  <2>2. \A k \in Events : row'[k].status = "PENDING" => row[k].status = "PENDING" /\ row'[k].id = row[k].id
    BY <1>1, <2>1, PutWaiting
  <2>. QED BY <1>1, <1>2, <2>2, ReaperSingle
<1>4. CASE goal[r] = "retry" /\ Again(cur[r], MaxAttempts)
  <2>1. /\ \A k \in Events : row'[k].id = row[k].id
        /\ \A k \in Events : k # cur[r].event => row'[k] = row[k]
        /\ ~SameRow(cur[r]) => row' = row
    BY <1>1, <1>4, AgainIs, Kinds
  <2>2. ASSUME NEW k \in Events PROVE Waiting(k)'
    <3>1. CASE k = cur[r].event /\ SameRow(cur[r])
      <4>1. NoJob(cur[r]) /\ row'[k].id = cur[r].id
        BY <1>1, <1>4, <2>1, <3>1 DEF Single, Checked, SameRow
      <4>. QED BY <1>1, <3>1, <4>1 DEF Waiting, Ref, NoJob, Alike
    <3>2. CASE ~(k = cur[r].event /\ SameRow(cur[r]))
      <4>1. row'[k] = row[k]
        BY <2>1, <3>2
      <4>. QED BY <1>2, <4>1, WaitingKept DEF Single
    <3>. QED BY <3>1, <3>2
  <2>. QED BY <1>1, <1>2, <2>2, Kinds, SingleStep DEF Alone
<1>. QED BY <1>1, <1>3, <1>4

LEMMA SingleAge == ASSUME TypeInv, Single, NEW k \in Events, Age(k) PROVE Single'
<1>1. /\ row'[k].status = "PROCESSING"
      /\ \A j \in Events \ {k} : row'[j] = row[j]
      /\ RowTypes' /\ Onward /\ UNCHANGED <<jobs, pc, todo, mine, cur, goal>>
  BY AgeIs
<1>2. Still({}) /\ SameJobs
  BY <1>1, SameJobsIs DEF Still, Same
<1>. QED BY <1>1, <1>2, SingleIdle

LEMMA SingleCrash == ASSUME TypeInv, Single, NEW w \in Workers, Crash(w) PROVE Single'
<1>1. /\ Alone(w) /\ pc'[w] = "idle" /\ todo'[w] = {} /\ cur'[w] = Nobody
      /\ w \in Processors => mine'[w] = {}
      /\ UNCHANGED <<row, claims, jobs>>
  BY CrashIs
<1>2. RowTypes' /\ Onward /\ SameJobs
  BY <1>1, RowsKept, SameJobsIs
<1>3. CASE w \in Processors
  <2>1. Working(w)' = {Nobody}
    BY <1>1, <1>3 DEF Working
  <2>. QED BY <1>1, <1>2, <1>3, <2>1, NobodyIs, ProcessorSingle
<1>4. CASE w \in Reapers
  BY <1>1, <1>2, <1>4, ReaperSingle DEF Checked
<1>. QED BY <1>3, <1>4, Kinds

\* A step of a smooth history creates no second job.
LEMMA SingleNext ==
  TypeInv /\ Tidy /\ Single /\ [OutboxNext]_outboxVars /\ backend = "sqlite" /\ Smooth' => Single'
<1>. SUFFICES ASSUME TypeInv, Tidy, Single, [OutboxNext]_outboxVars, backend = "sqlite", Smooth'
              PROVE  Single'
  OBVIOUS
<1>1. CASE \E m \in Monitors : CheckDuplicate(m) \/ SaveEvent(m)
  BY <1>1, SingleCheckDuplicate, SingleSaveEvent
<1>2. ASSUME NEW p \in Processors, ProcessorStep(p) \/ Raise(p) PROVE Single'
  <2>1. ~ClaimPostgres(p) /\ ~Raise(p) /\ ~BackOffFails(p)
    BY DEF ClaimPostgres, Raise, BackOffFails, Happens, Smooth
  <2>2. ~BackOff(p)
    BY DEF BackOff, Single, Fresh
  <2>. QED
    BY <1>2, <2>1, <2>2, SingleListPending, SingleClaimEvent, SingleLoad, SingleNextEvent,
       SingleWrites, SingleProcessorCalm, SingleCreateJob DEF ProcessorStep
<1>3. ASSUME NEW r \in Reapers, ReaperStep(r) PROVE Single'
  <2>1. ~ReadStale(r) /\ ~ResetStale(r)
    BY ReaperKnows DEF ReadStale, ResetStale
  <2>. QED BY <1>3, <2>1, SingleReaper, SingleRecover DEF ReaperStep
<1>4. CASE (\E k \in Events : Age(k)) \/ (\E w \in Workers : Crash(w))
           \/ (\E n \in DOMAIN jobs : ScanFails(n))
  <2>1. \A n \in DOMAIN jobs : ~ScanFails(n)
    BY DEF ScanFails, Happens, Smooth
  <2>. QED BY <1>4, <2>1, SingleAge, SingleCrash
<1>5. CASE UNCHANGED outboxVars
  <2>1. UNCHANGED <<row, claims, jobs, pc, todo, mine, cur, goal>>
    BY <1>5 DEF outboxVars, tableVars, workVars
  <2>2. Still({}) /\ SameJobs
    BY <2>1, SameJobsIs DEF Still, Same
  <2>. QED BY <2>1, <2>2, RowsKept, SingleIdle
<1>. QED BY <1>1, <1>2, <1>3, <1>4, <1>5 DEF OutboxNext

LEMMA OnceInit == OutboxInit => Once
<1>. SUFFICES ASSUME OutboxInit PROVE Single
  BY DEF Once
<1>1. jobs = <<>> /\ \A a \in Actors : pc[a] = "idle"
  BY DEF OutboxInit
<1>2. \A e : NoJob(e)
  BY <1>1 DEF NoJob
<1>. QED BY <1>1, <1>2, Kinds DEF Single, Waiting, Fresh, Checked

LEMMA OnceNext == TypeInv /\ Careful /\ Once /\ [OutboxNext]_outboxVars => Once'
<1>. SUFFICES ASSUME TypeInv, Careful, Once, [OutboxNext]_outboxVars, Smooth' PROVE Single'
  BY DEF Once
<1>1. Smooth
  BY HistoryGrows DEF Smooth, Calm
<1>. QED BY <1>1, SingleNext DEF Careful, Once, Smooth, Calm

\* A set whose members are all the same has at most one.
LEMMA OneAtMost == ASSUME NEW S, \A x, y \in S : x = y PROVE Cardinality(S) <= 1
<1>1. CASE S = {}
  BY <1>1, FS_EmptySet
<1>2. CASE S # {}
  <2>1. PICK x \in S : S = {x}
    BY <1>2
  <2>. QED BY <2>1, FS_Singleton
<1>. QED BY <1>1, <1>2

\* Without a slow worker, overlapping reapers, an exception or a scan that failed, an
\* announcement is dispatched at most once, wherever its worker or a reaper is lost.
THEOREM OutboxDispatchedOnce == OutboxSpec => []SingleDispatch
<1>1. OutboxSpec => [](TypeInv /\ Careful /\ Once)
  BY TypeInit, TypeNext, CarefulInit, CarefulNext, OnceInit, OnceNext, PTL DEF OutboxSpec
<1>2. TypeInv /\ Once => SingleDispatch
  <2>. SUFFICES ASSUME TypeInv, Once, events \cap {"slow", "overlap", "error", "scanfail"} = {},
                       NEW k \in Events, NEW i \in 1 .. row[k].id
                PROVE  Cardinality(SentFor(k, i)) <= 1
    BY DEF SingleDispatch
  <2>1. ASSUME NEW m \in SentFor(k, i), NEW n \in SentFor(k, i) PROVE m = n
    <3>1. m \in DOMAIN jobs /\ n \in DOMAIN jobs /\ Alike(jobs[m], jobs[n])
      BY DEF SentFor, Alike
    <3>2. backend = "sqlite"
      BY <3>1 DEF TypeInv
    <3>3. Single
      BY <3>2 DEF Once, Smooth, Calm
    <3>. QED BY <3>1, <3>3 DEF Single
  <2>. QED BY <2>1, OneAtMost
<1>. QED BY <1>1, <1>2, PTL

-----------------------------------------------------------------------------
(* A scan is behind what is DELIVERED. *)

Like(k) == \E n \in DOMAIN jobs : prefix[jobs[n].event] = prefix[k]

\* The same prefix as the event has a job, if the row is DELIVERED or about to be.
Scanned(k) == row[k].status = "DELIVERED" => Like(k)

Sending(p) == pc[p] \in {"send", "deliver"} => \A e \in {cur[p]} : Like(e.event)

Found(r) == goal[r] = "DELIVERED" => \A e \in {cur[r]} : Like(e.event)

\* Nobody is lost and nothing raises: a job is sent or about to be.
Sound == events \cap {"crash", "error"} = {}

Sent ==
  Sound => /\ \A n \in DOMAIN jobs : jobs[n].sent \/ pc[jobs[n].by] = "send"
           /\ \A p \in Processors : \A m, n \in Unsent(p) : m = n

Published ==
  /\ \A k \in Events : Scanned(k)
  /\ \A p \in Processors : Sending(p)
  /\ \A r \in Reapers : Found(r)
  /\ Sent

\* The jobs that are there stay there.
JobsStay ==
  \A n \in DOMAIN jobs : n \in DOMAIN jobs' /\ jobs'[n].event = jobs[n].event

LEMMA LikeKept == ASSUME JobsStay, UNCHANGED prefix PROVE \A k : Like(k) => Like(k)'
BY DEF JobsStay, Like

\* What a step has to keep.
LEMMA PublishedStep ==
  ASSUME TypeInv, Published, NEW A, Still(A), JobsStay, UNCHANGED prefix,
         \A k \in Events : row'[k].status = "DELIVERED" => row[k].status = "DELIVERED" \/ Like(k)',
         \A p \in Processors \cap A : Sending(p)',
         \A r \in Reapers \cap A : Found(r)',
         Sent'
  PROVE  Published'
<1>1. \A k \in Events : Scanned(k)'
  BY LikeKept DEF Published, Scanned
<1>2. ASSUME NEW p \in Processors PROVE Sending(p)'
  <2>1. CASE p \in A
    BY <2>1
  <2>2. CASE p \notin A
    <3>1. Same(p) /\ Sending(p)
      BY <2>2, Kinds DEF Still, Published
    <3>. QED BY <3>1, LikeKept DEF Sending, Same
  <2>. QED BY <2>1, <2>2
<1>3. ASSUME NEW r \in Reapers PROVE Found(r)'
  <2>1. CASE r \in A
    BY <2>1
  <2>2. CASE r \notin A
    <3>1. Same(r) /\ Found(r)
      BY <2>2, Kinds DEF Still, Published
    <3>. QED BY <3>1, LikeKept DEF Found, Same
  <2>. QED BY <2>1, <2>2
<1>. QED BY <1>1, <1>2, <1>3 DEF Published

\* A step that touches no job, and after which the sender still sends.
LEMMA PublishedCalm ==
  ASSUME TypeInv, Published, NEW A, Still(A), UNCHANGED <<prefix, jobs>>, events \subseteq events',
         \A p \in Processors \cap A : pc[p] = "send" => ~Sound',
         \A k \in Events : row'[k].status = "DELIVERED" => row[k].status = "DELIVERED" \/ Like(k),
         \A p \in Processors \cap A : Sending(p)',
         \A r \in Reapers \cap A : Found(r)'
  PROVE  Published'
<1>1. JobsStay
  BY DEF JobsStay
<1>2. \A k \in Events : row'[k].status = "DELIVERED" => row[k].status = "DELIVERED" \/ Like(k)'
  BY <1>1, LikeKept
<1>3. Sent'
  <2>. SUFFICES ASSUME Sound'
                PROVE  /\ \A n \in DOMAIN jobs : jobs[n].sent \/ pc'[jobs[n].by] = "send"
                       /\ \A p \in Processors : \A m, n \in Unsent(p) : m = n
    BY DEF Sent, Unsent
  <2>1. Sound
    BY DEF Sound
  <2>2. ASSUME NEW n \in DOMAIN jobs, ~jobs[n].sent PROVE pc'[jobs[n].by] = "send"
    <3>1. jobs[n].by \in Processors /\ pc[jobs[n].by] = "send"
      BY <2>1, <2>2, JobAt DEF Published, Sent, Job
    <3>2. jobs[n].by \notin A
      BY <3>1
    <3>. QED BY <3>1, <3>2, Kinds DEF Still, Same
  <2>. QED BY <2>1, <2>2 DEF Published, Sent
<1>. QED BY <1>1, <1>2, <1>3, PublishedStep

\* The same, with no row made DELIVERED that was not.
LEMMA PublishedRows ==
  ASSUME TypeInv, [OutboxNext]_outboxVars, Published, NEW A, Still(A), UNCHANGED jobs,
         \A p \in Processors \cap A : pc[p] = "send" => ~Sound',
         \A k \in Events : row'[k].status = "DELIVERED" => row[k].status = "DELIVERED" \/ Like(k),
         \A p \in Processors \cap A : Sending(p)',
         \A r \in Reapers \cap A : Found(r)'
  PROVE  Published'
<1>1. events \subseteq events' /\ UNCHANGED prefix
  BY HistoryGrows
<1>. QED BY <1>1, PublishedCalm

\* The row is written by id and is then DELIVERED only if a job is like it.
LEMMA PutLike ==
  ASSUME TypeInv, NEW e, Known(e), \A k \in Events : k # e.event => row'[k] = row[k],
         ~SameRow(e) => row' = row,
         SameRow(e) /\ row'[e.event].status = "DELIVERED" => Like(e.event)
  PROVE  \A k \in Events : row'[k].status = "DELIVERED" => row[k].status = "DELIVERED" \/ Like(k)
OBVIOUS

LEMMA PublishedMonitor ==
  ASSUME TypeInv, [OutboxNext]_outboxVars, Published, NEW m \in Monitors, CheckDuplicate(m) \/ SaveEvent(m)
  PROVE  Published'
<1>1. CASE CheckDuplicate(m)
  <2>1. Alone(m) /\ UNCHANGED <<row, jobs>>
    BY <1>1, CheckDuplicateIs
  <2>. QED BY <2>1, Kinds, PublishedRows DEF Alone
<1>2. CASE SaveEvent(m)
  <2>1. /\ Alone(m) /\ UNCHANGED jobs
        /\ \A j \in Events : row'[j].status = "DELIVERED" => row[j].status = "DELIVERED"
    BY <1>2, SaveEventIs
  <2>. QED BY <2>1, Kinds, PublishedRows DEF Alone
<1>. QED BY <1>1, <1>2

\* A processor that claims, loads or begins has no job to answer for.
LEMMA PublishedClaims ==
  ASSUME TypeInv, [OutboxNext]_outboxVars, Published, NEW p \in Processors,
         ListPending(p) \/ ClaimEvent(p) \/ Load(p) \/ NextEvent(p)
  PROVE  Published'
<1>1. /\ Alone(p) /\ pc[p] # "send" /\ pc'[p] \notin {"send", "deliver"} /\ UNCHANGED jobs
      /\ \A k \in Events : row'[k].status = "DELIVERED" => row[k].status = "DELIVERED"
  <2>1. CASE ListPending(p)
    BY <2>1, ListPendingIs
  <2>2. CASE ClaimEvent(p)
    <3>1. PICK e \in todo[p] :
           /\ Known(e) /\ e.event \in Events /\ Alone(p)
           /\ pc[p] = "claim" /\ pc'[p] = "claim"
           /\ \/ /\ row[e.event].status = "PENDING" /\ row'[e.event] = Take(e.event)
                 /\ \A k \in Events : k # e.event => row'[k] = row[k]
              \/ UNCHANGED <<row, claims>>
           /\ UNCHANGED jobs
      BY <2>2, ClaimEventIs
    <3>2. row[e.event].status = "PENDING" => Take(e.event).status = "PROCESSING"
      BY <3>1, TakeIs
    <3>. QED BY <3>1, <3>2
  <2>3. CASE Load(p)
    BY <2>3, LoadIs
  <2>4. CASE NextEvent(p)
    BY <2>4, NextEventIs
  <2>. QED BY <2>1, <2>2, <2>3, <2>4
<1>2. Sending(p)'
  BY <1>1 DEF Sending
<1>. QED BY <1>1, <1>2, Kinds, PublishedRows DEF Alone

\* A processor that is done with a row and has not sent a job for it.
LEMMA PublishedDone ==
  ASSUME TypeInv, [OutboxNext]_outboxVars, Published, NEW p \in Processors, Done(p), pc[p] # "send",
         UNCHANGED jobs,
         \A k \in Events : row'[k].status = "DELIVERED" => row[k].status = "DELIVERED" \/ Like(k)
  PROVE  Published'
<1>1. Alone(p) /\ pc'[p] \notin {"send", "deliver"}
  BY DoneIs
<1>2. Sending(p)'
  BY <1>1 DEF Sending
<1>. QED BY <1>1, <1>2, Kinds, PublishedRows DEF Alone

LEMMA PublishedProcessorDone ==
  ASSUME TypeInv, [OutboxNext]_outboxVars, Published, NEW p \in Processors,
         Refuse(p) \/ Audit(p) \/ BackOff(p) \/ BackOffFails(p)
  PROVE  Published'
<1>1. /\ Done(p) /\ pc[p] \in AtWork \ {"send"} /\ UNCHANGED jobs
  BY DEF Refuse, Audit, BackOff, BackOffFails, AtWork, tableVars
<1>2. Known(cur[p])
  BY <1>1, ProcessorKnows
<1>3. \A k \in Events : row'[k].status = "DELIVERED" => row[k].status = "DELIVERED"
  <2>1. CASE Refuse(p)
    <3>1. PICK s \in {"FAILED", "SKIPPED"} : PutStatus(cur[p], s)
      BY <2>1 DEF Refuse
    <3>2. claims' = claims
      BY <2>1 DEF Refuse
    <3>3. /\ \A k \in Events : k # cur[p].event => row'[k] = row[k]
          /\ ~SameRow(cur[p]) => row' = row
          /\ SameRow(cur[p]) => row'[cur[p].event].status = s
      BY <1>2, <3>1, <3>2, PutStatusIs DEF Status
    <3>. QED BY <3>3
  <2>2. CASE BackOff(p)
    <3>1. Again(cur[p], MaxAttempts) /\ claims' = claims
      BY <2>2 DEF BackOff
    <3>2. /\ \A k \in Events : k # cur[p].event => row'[k] = row[k]
          /\ ~SameRow(cur[p]) => row' = row
          /\ SameRow(cur[p]) => row'[cur[p].event].status \in {"PENDING", "DEAD_LETTER"}
      BY <1>2, <3>1, AgainIs, Kinds
    <3>. QED BY <3>2
  <2>3. CASE Audit(p) \/ BackOffFails(p)
    BY <2>3 DEF Audit, BackOffFails, tableVars
  <2>. QED BY <2>1, <2>2, <2>3
<1>. QED BY <1>1, <1>3, PublishedDone DEF AtWork

\* A processor goes on and touches no job.
LEMMA PublishedGoes ==
  ASSUME TypeInv, [OutboxNext]_outboxVars, Published, NEW p \in Processors,
         SaveScan(p) \/ Deliver(p) \/ Raise(p)
  PROVE  Published'
<1>1. CASE SaveScan(p)
  <2>1. Goes(p, "check", "job") /\ UNCHANGED <<row, jobs>>
    BY <1>1, GoesIs DEF SaveScan, ProcessorPc, tableVars
  <2>2. Alone(p) /\ pc[p] # "send" /\ Sending(p)'
    BY <2>1 DEF Goes, Sending
  <2>. QED BY <2>1, <2>2, Kinds, PublishedRows DEF Alone
<1>2. CASE Deliver(p)
  <2>1. Goes(p, "deliver", "audit") /\ PutStatus(cur[p], "DELIVERED") /\ UNCHANGED <<claims, jobs>>
    BY <1>2, GoesIs DEF Deliver, ProcessorPc
  <2>2. Alone(p) /\ pc[p] = "deliver" /\ Sending(p)' /\ Like(cur[p].event)
    BY <2>1 DEF Goes, Sending, Published
  <2>3. Known(cur[p])
    BY <2>2, ProcessorKnows DEF AtWork
  <2>4. /\ \A k \in Events : k # cur[p].event => row'[k] = row[k]
        /\ ~SameRow(cur[p]) => row' = row
    BY <2>1, <2>3, PutStatusIs DEF Status
  <2>5. \A k \in Events : row'[k].status = "DELIVERED" => row[k].status = "DELIVERED" \/ Like(k)
    BY <2>2, <2>3, <2>4, PutLike
  <2>. QED BY <2>1, <2>2, <2>5, Kinds, PublishedRows DEF Alone
<1>3. CASE Raise(p)
  <2>1. Goes(p, pc[p], "failed") /\ UNCHANGED <<row, jobs>> /\ "error" \in events'
    BY <1>3, GoesIs DEF Raise, ProcessorPc, tableVars, Happens
  <2>2. Alone(p) /\ Sending(p)' /\ ~Sound'
    BY <2>1 DEF Goes, Sending, Sound
  <2>. QED BY <2>1, <2>2, Kinds, PublishedRows DEF Alone
<1>. QED BY <1>1, <1>2, <1>3

\* The job is there before its task is sent.
LEMMA PublishedCreateJob ==
  ASSUME TypeInv, [OutboxNext]_outboxVars, Published, NEW p \in Processors, CreateJob(p) PROVE Published'
<1>1. /\ Goes(p, "job", "send") /\ Known(cur[p]) /\ UNCHANGED <<prefix, row, histVars>>
  BY CreateJobIs
<1>2. PICK n \in Nat :
        /\ n \notin DOMAIN jobs /\ DOMAIN jobs' = DOMAIN jobs \cup {n}
        /\ \A m \in DOMAIN jobs : jobs'[m] = jobs[m]
        /\ jobs'[n] = [event |-> cur[p].event, id |-> cur[p].id, by |-> p,
                       status |-> "live", sent |-> FALSE]
  BY CreateJobIs
<1>3. Alone(p) /\ JobsStay /\ pc[p] = "job" /\ pc'[p] = "send" /\ cur'[p] = cur[p]
  BY <1>1, <1>2 DEF Goes, JobsStay
<1>4. Sending(p)'
  <2>1. \A e \in {cur[p]} : Like(e.event)'
    BY <1>1, <1>2 DEF Like
  <2>. QED BY <1>3, <2>1 DEF Sending
<1>5. Sent'
  <2>. SUFFICES ASSUME Sound'
                PROVE  /\ \A m \in DOMAIN jobs' : jobs'[m].sent \/ pc'[jobs'[m].by] = "send"
                       /\ \A q \in Processors : \A m, l \in Unsent(q)' : m = l
    BY DEF Sent
  <2>1. /\ \A m \in DOMAIN jobs : jobs[m].sent \/ pc[jobs[m].by] = "send"
        /\ \A q \in Processors : \A m, l \in Unsent(q) : m = l
    BY <1>1 DEF Published, Sent, Sound, histVars
  <2>2. \A m \in DOMAIN jobs : jobs[m].by \in Processors /\ jobs[m].by \in Actors
    BY JobAt, Kinds DEF Job
  <2>3. \A q \in Processors \ {p} : pc'[q] = pc[q]
    BY <1>3, Kinds DEF Alone, Still, Same
  <2>4. \A m \in DOMAIN jobs : jobs[m].sent \/ jobs[m].by # p
    BY <1>3, <2>1
  <2>5. \A m \in DOMAIN jobs : jobs'[m].sent \/ pc'[jobs'[m].by] = "send"
    BY <1>2, <2>1, <2>2, <2>3, <2>4
  <2>6. jobs'[n].by = p /\ ~jobs'[n].sent
    BY <1>2
  <2>7. Unsent(p)' = {n}
    BY <1>2, <2>4, <2>6 DEF Unsent
  <2>8. \A q \in Processors \ {p} : Unsent(q)' = Unsent(q)
    BY <1>2, <2>6 DEF Unsent
  <2>. QED BY <1>2, <1>3, <2>1, <2>5, <2>6, <2>7, <2>8
<1>6. Still({p}) /\ \A r \in Reapers \cap {p} : Found(r)'
  BY <1>3, Kinds DEF Alone
<1>. QED BY <1>1, <1>3, <1>4, <1>5, <1>6, PublishedStep

\* The task that is sent is that of the only job that waits for it.
LEMMA PublishedSend ==
  ASSUME TypeInv, [OutboxNext]_outboxVars, Published, NEW p \in Processors, Send(p) PROVE Published'
<1>1. /\ Goes(p, "send", "deliver") /\ UNCHANGED <<prefix, row, histVars>> /\ DOMAIN jobs' = DOMAIN jobs
  BY SendIs
<1>2. PICK n \in Unsent(p) : /\ \A m \in DOMAIN jobs \ {n} : jobs'[m] = jobs[m]
                             /\ jobs'[n] = [jobs[n] EXCEPT !.sent = TRUE]
  BY SendIs
<1>3. n \in DOMAIN jobs /\ jobs[n].by = p /\ jobs[n] \in Job
  BY JobAt DEF Unsent
<1>4. jobs'[n].sent /\ jobs'[n].by = p /\ jobs'[n].event = jobs[n].event
  BY <1>2, <1>3 DEF Job
<1>5. Alone(p) /\ JobsStay /\ pc[p] = "send" /\ pc'[p] = "deliver" /\ cur'[p] = cur[p]
  BY <1>1, <1>2, <1>4 DEF Goes, JobsStay
<1>6. Sending(p)'
  <2>1. \A e \in {cur[p]} : Like(e.event)
    BY <1>5 DEF Published, Sending
  <2>2. \A e \in {cur[p]} : Like(e.event)'
    BY <1>1, <1>5, <2>1, LikeKept
  <2>. QED BY <1>5, <2>2 DEF Sending
<1>7. Sent'
  <2>. SUFFICES ASSUME Sound'
                PROVE  /\ \A m \in DOMAIN jobs' : jobs'[m].sent \/ pc'[jobs'[m].by] = "send"
                       /\ \A q \in Processors : \A m, l \in Unsent(q)' : m = l
    BY DEF Sent
  <2>1. /\ \A m \in DOMAIN jobs : jobs[m].sent \/ pc[jobs[m].by] = "send"
        /\ \A q \in Processors : \A m, l \in Unsent(q) : m = l
    BY <1>1 DEF Published, Sent, Sound, histVars
  <2>2. \A m \in DOMAIN jobs : jobs[m].by \in Processors /\ jobs[m].by \in Actors
    BY JobAt, Kinds DEF Job
  <2>3. \A q \in Processors \ {p} : pc'[q] = pc[q]
    BY <1>5, Kinds DEF Alone, Still, Same
  <2>4. \A m \in DOMAIN jobs \ {n} : jobs[m].sent \/ jobs[m].by # p
    BY <2>1 DEF Unsent
  <2>5. \A m \in DOMAIN jobs \ {n} : jobs'[m].sent \/ pc'[jobs'[m].by] = "send"
    BY <1>2, <2>1, <2>2, <2>3, <2>4
  <2>6. \A q \in Processors : Unsent(q)' \subseteq Unsent(q)
    BY <1>1, <1>2, <1>4 DEF Unsent
  <2>. QED BY <1>1, <1>4, <2>1, <2>5, <2>6
<1>8. Still({p}) /\ \A r \in Reapers \cap {p} : Found(r)'
  BY <1>5, Kinds DEF Alone
<1>. QED BY <1>1, <1>5, <1>6, <1>7, <1>8, PublishedStep

\* A reaper delivers what it has found a job for.
LEMMA PublishedReaper ==
  ASSUME TypeInv, [OutboxNext]_outboxVars, Published, NEW r \in Reapers, ReaperStep(r) PROVE Published'
<1>1. CASE ListStale(r) \/ ReadStale(r)
  <2>1. PICK to \in {"lease", "flush"} :
          /\ pc' = [pc EXCEPT ![r] = to] /\ todo' = [todo EXCEPT ![r] = {Ref(k) : k \in Stale}]
          /\ pc[r] = "idle" /\ UNCHANGED <<mine, cur, goal, row, jobs>>
    BY <1>1 DEF ListStale, ReadStale, tableVars
  <2>2. Alone(r) /\ goal'[r] = "none"
    BY <2>1, StartIs
  <2>. QED BY <2>1, <2>2, Kinds, PublishedRows DEF Found, Alone
<1>2. CASE Lease(r)
  <2>1. Alone(r) /\ goal'[r] = "none" /\ UNCHANGED <<row, jobs>>
    BY <1>2, LeaseIs
  <2>. QED BY <2>1, Kinds, PublishedRows DEF Found, Alone
<1>3. CASE Verdict(r)
  <2>1. /\ Alone(r) /\ cur'[r] = cur[r] /\ UNCHANGED <<prefix, row, jobs>>
        /\ goal'[r] = IF AlreadyScanned(cur[r].event) THEN "DELIVERED" ELSE "retry"
    BY <1>3, VerdictIs
  <2>2. AlreadyScanned(cur[r].event) => \A e \in {cur[r]} : Like(e.event)
    BY DEF AlreadyScanned, JobsLike, Like
  <2>3. \A e \in {cur[r]} : Like(e.event) => Like(e.event)'
    BY <2>1, LikeKept DEF JobsStay
  <2>4. Found(r)'
    BY <2>1, <2>2, <2>3 DEF Found
  <2>. QED BY <2>1, <2>4, Kinds, PublishedRows DEF Alone
<1>4. CASE Recover(r)
  <2>1. /\ Alone(r) /\ goal'[r] = "none" /\ Known(cur[r])
        /\ \/ goal[r] = "DELIVERED" /\ PutStatus(cur[r], "DELIVERED")
           \/ goal[r] = "retry" /\ Again(cur[r], MaxAttempts)
        /\ UNCHANGED <<claims, jobs>>
    BY <1>4, RecoverIs
  <2>2. CASE goal[r] = "DELIVERED" /\ PutStatus(cur[r], "DELIVERED")
    <3>1. /\ \A k \in Events : k # cur[r].event => row'[k] = row[k]
          /\ ~SameRow(cur[r]) => row' = row
      BY <2>1, <2>2, PutStatusIs DEF Status
    <3>2. Like(cur[r].event)
      BY <2>2 DEF Published, Found
    <3>3. \A k \in Events : row'[k].status = "DELIVERED" => row[k].status = "DELIVERED" \/ Like(k)
      BY <2>1, <3>1, <3>2, PutLike
    <3>. QED BY <2>1, <3>3, Kinds, PublishedRows DEF Found, Alone
  <2>3. CASE goal[r] = "retry" /\ Again(cur[r], MaxAttempts)
    <3>1. /\ \A k \in Events : k # cur[r].event => row'[k] = row[k]
          /\ ~SameRow(cur[r]) => row' = row
          /\ SameRow(cur[r]) => row'[cur[r].event].status \in {"PENDING", "DEAD_LETTER"}
      BY <2>1, <2>3, AgainIs, Kinds
    <3>. QED BY <2>1, <3>1, Kinds, PublishedRows DEF Found, Alone
  <2>. QED BY <2>1, <2>2, <2>3
<1>5. CASE ResetStale(r)
  <2>1. /\ \A k \in Events : row'[k] = row[k] \/ row'[k] =
                [row[k] EXCEPT !.status = "RETRYING", !.claim = 0, !.stale = FALSE,
                               !.attempt = Counted((CHOOSE e \in todo[r] : e.event = k).attempt)]
        /\ pc' = [pc EXCEPT ![r] = "idle"] /\ todo' = [todo EXCEPT ![r] = {}] /\ pc[r] = "flush"
        /\ UNCHANGED <<jobs, mine, cur, goal>>
    BY <1>5 DEF ResetStale
  <2>2. \A k \in Events : row'[k].status = "DELIVERED" => row[k].status = "DELIVERED"
    <3>1. \A k \in Events : row[k] \in Row
      BY RowIs
    <3>. QED BY <2>1, <3>1 DEF Row
  <2>3. goal[r] = "none"
    BY <2>1, ReaperKnows
  <2>4. Alone(r) /\ Found(r)'
    BY <2>1, <2>3, Functions, Kinds DEF Alone, Still, Same, Found
  <2>. QED BY <2>1, <2>2, <2>4, Kinds, PublishedRows DEF Alone
<1>. QED BY <1>1, <1>2, <1>3, <1>4, <1>5 DEF ReaperStep

\* Time, lost workers, failed scans and PostgreSQL's claims deliver nothing.
LEMMA PublishedOthers ==
  ASSUME TypeInv, [OutboxNext]_outboxVars, Published,
         \/ \E p \in Processors : ClaimPostgres(p)
         \/ \E k \in Events : Age(k)
         \/ \E w \in Workers : Crash(w)
         \/ \E n \in DOMAIN jobs : ScanFails(n)
         \/ UNCHANGED outboxVars
  PROVE  Published'
<1>1. ASSUME NEW p \in Processors, ClaimPostgres(p) PROVE Published'
  <2>1. /\ \A k \in Events : row'[k] = row[k] \/ (row[k].status # "none" /\ row'[k] = Take(k))
        /\ UNCHANGED <<jobs, pc, todo, mine, cur, goal>>
    BY <1>1 DEF ClaimPostgres, With, workVars
  <2>2. \A k \in Events : row'[k].status = "DELIVERED" => row[k].status = "DELIVERED"
    BY <2>1, TakeIs
  <2>3. Still({})
    BY <2>1 DEF Still, Same
  <2>. QED BY <2>1, <2>2, <2>3, PublishedRows
<1>2. ASSUME NEW k \in Events, Age(k) PROVE Published'
  <2>1. /\ row'[k].status = "PROCESSING" /\ \A j \in Events \ {k} : row'[j] = row[j]
        /\ UNCHANGED <<jobs, pc, todo, mine, cur, goal>>
    BY <1>2, AgeIs
  <2>2. Still({}) /\ \A j \in Events : row'[j].status = "DELIVERED" => row[j].status = "DELIVERED"
    BY <2>1 DEF Still, Same
  <2>. QED BY <2>1, <2>2, PublishedRows
<1>3. ASSUME NEW w \in Workers, Crash(w) PROVE Published'
  <2>1. /\ Alone(w) /\ pc'[w] = "idle" /\ (w \in Reapers => goal'[w] = "none")
        /\ UNCHANGED <<row, jobs>> /\ "crash" \in events'
    BY <1>3, CrashIs DEF Happens
  <2>2. ~Sound' /\ Sending(w)' /\ (w \in Reapers => Found(w)')
    BY <2>1 DEF Sound, Sending, Found
  <2>. QED BY <2>1, <2>2, PublishedRows DEF Alone
<1>4. ASSUME NEW n \in DOMAIN jobs, ScanFails(n) PROVE Published'
  <2>1. /\ Still({}) /\ UNCHANGED <<prefix, row>> /\ DOMAIN jobs' = DOMAIN jobs
        /\ \A m \in DOMAIN jobs \ {n} : jobs'[m] = jobs[m]
        /\ jobs'[n] = [jobs[n] EXCEPT !.status = "failed"]
    BY <1>4, ScanFailsIs
  <2>2. \A m \in DOMAIN jobs : jobs'[m].event = jobs[m].event /\ jobs'[m].by = jobs[m].by
                               /\ jobs'[m].sent = jobs[m].sent
    BY <2>1, JobAt DEF Job
  <2>3. JobsStay /\ \A p : Unsent(p)' = Unsent(p)
    BY <2>1, <2>2 DEF JobsStay, Unsent
  <2>4. Sent'
    <3>1. Sound' => Sound
      BY HistoryGrows DEF Sound
    <3>2. \A m \in DOMAIN jobs : pc'[jobs[m].by] = pc[jobs[m].by]
      BY <2>1, JobAt, Kinds DEF Still, Same, Job
    <3>. QED BY <2>1, <2>2, <2>3, <3>1, <3>2 DEF Published, Sent
  <2>. QED BY <2>1, <2>3, <2>4, PublishedStep
<1>5. CASE UNCHANGED outboxVars
  <2>1. UNCHANGED <<row, jobs, pc, todo, mine, cur, goal>>
    BY <1>5 DEF outboxVars, tableVars, workVars
  <2>2. Still({})
    BY <2>1 DEF Still, Same
  <2>. QED BY <2>1, <2>2, PublishedRows
<1>. QED BY <1>1, <1>2, <1>3, <1>4, <1>5

LEMMA PublishedNext == TypeInv /\ Published /\ [OutboxNext]_outboxVars => Published'
<1>. SUFFICES ASSUME TypeInv, Published, [OutboxNext]_outboxVars PROVE Published'
  OBVIOUS
<1>1. CASE \E m \in Monitors : CheckDuplicate(m) \/ SaveEvent(m)
  BY <1>1, PublishedMonitor
<1>2. ASSUME NEW p \in Processors, ProcessorStep(p) \/ Raise(p) PROVE Published'
  BY <1>2, PublishedClaims, PublishedProcessorDone, PublishedGoes, PublishedCreateJob,
     PublishedSend, PublishedOthers DEF ProcessorStep
<1>3. CASE \E r \in Reapers : ReaperStep(r)
  BY <1>3, PublishedReaper
<1>4. CASE \/ \E k \in Events : Age(k)
           \/ \E w \in Workers : Crash(w)
           \/ \E n \in DOMAIN jobs : ScanFails(n)
           \/ UNCHANGED outboxVars
  BY <1>4, PublishedOthers
<1>. QED BY <1>1, <1>2, <1>3, <1>4 DEF OutboxNext

LEMMA PublishedInit == OutboxInit => Published
<1>. SUFFICES ASSUME OutboxInit PROVE Published
  OBVIOUS
<1>1. jobs = <<>> /\ (\A a \in Actors : pc[a] = "idle") /\ \A r \in Reapers : goal[r] = "none"
  BY DEF OutboxInit
<1>2. \A k \in Events : row[k].status = "none"
  BY DEF OutboxInit, NoRow
<1>. QED BY <1>1, <1>2, Kinds DEF Published, Scanned, Sending, Found, Sent, Unsent

\* Behind every row that is DELIVERED there is a job of its own event or of one with the same
\* prefix, and unless a worker was lost or a call raised its task was sent or is being sent.
THEOREM OutboxDeliveredScanned == OutboxSpec => []DeliveredIsScanned
<1>1. OutboxSpec => [](TypeInv /\ Published)
  BY TypeInit, TypeNext, PublishedInit, PublishedNext, PTL DEF OutboxSpec
<1>2. TypeInv /\ Published => DeliveredIsScanned
  <2>. SUFFICES ASSUME TypeInv, Published, NEW k \in Events, row[k].status = "DELIVERED"
                PROVE  \E n \in DOMAIN jobs :
                         /\ prefix[jobs[n].event] = prefix[k]
                         /\ jobs[n].sent \/ pc[jobs[n].by] = "send" \/ events \cap {"crash", "error"} # {}
    BY DEF DeliveredIsScanned
  <2>1. PICK n \in DOMAIN jobs : prefix[jobs[n].event] = prefix[k]
    BY DEF Published, Scanned, Like
  <2>. QED BY <2>1 DEF Published, Sent, Sound
<1>. QED BY <1>1, <1>2, PTL


-----------------------------------------------------------------------------
(* The circuit breaker. *)

\* Its types and its counter belong together.
BreakerInv == BreakerTypeOK /\ TrippedByCount

USE DEF BreakerInv, BreakerTypeOK, TrippedByCount

LEMMA BreakerInitially == BreakerInit => BreakerInv
  BY Thresholds DEF BreakerInit

LEMMA BreakerStep == BreakerInv /\ [BreakerNext]_breakerVars => BreakerInv'
<1>. SUFFICES ASSUME BreakerInv, [BreakerNext]_breakerVars PROVE BreakerInv'
  OBVIOUS
<1>1. ASSUME NEW c \in Callers, Begin(c) PROVE BreakerInv'
  BY <1>1, Thresholds DEF Begin, Pass, Probe
<1>2. ASSUME NEW c \in Callers, OnSuccess(c) PROVE BreakerInv'
  <2>1. CASE state = "HALF_OPEN" /\ success_count + 1 >= HalfOpenSuccessThreshold
    BY <1>2, <2>1, Thresholds DEF OnSuccess
  <2>2. CASE state = "HALF_OPEN" /\ success_count + 1 < HalfOpenSuccessThreshold
    BY <1>2, <2>2, Thresholds DEF OnSuccess
  <2>3. CASE state # "HALF_OPEN"
    BY <1>2, <2>3, Thresholds DEF OnSuccess
  <2>. QED BY <2>1, <2>2, <2>3, Thresholds
<1>3. ASSUME NEW c \in Callers, OnFailure(c) PROVE BreakerInv'
  <2>1. failure_count' = failure_count + 1 /\ failure_count' \in Nat
    BY <1>3 DEF OnFailure
  <2>2. BreakerTypeOK'
    BY <1>3, <2>1 DEF OnFailure
  <2>3. CASE failure_count + 1 >= FailureThreshold
    BY <1>3, <2>1, <2>2, <2>3, Thresholds DEF OnFailure
  <2>4. CASE failure_count + 1 < FailureThreshold
    BY <1>3, <2>1, <2>2, <2>4, Thresholds DEF OnFailure
  <2>. QED BY <2>3, <2>4, Thresholds
<1>4. CASE CoolDown
  BY <1>4 DEF CoolDown
<1>5. CASE UNCHANGED breakerVars
  BY <1>5 DEF breakerVars
<1>. QED
  BY <1>1, <1>2, <1>3, <1>4, <1>5 DEF BreakerNext

\* The shape of the state, for any thresholds: a breaker that is not CLOSED never counts
\* as many successes as would close it.
THEOREM BreakerTypes == BreakerSpec => []BreakerTypeOK
<1>1. BreakerInv => BreakerTypeOK
  OBVIOUS
<1>. QED BY BreakerInitially, BreakerStep, <1>1, PTL DEF BreakerSpec

\* The counter of failures and the state agree, for any thresholds and any number of
\* threads: a breaker in HALF_OPEN is one failure away from OPEN.
THEOREM TrippedByCountHolds == BreakerSpec => []TrippedByCount
<1>1. BreakerInv => TrippedByCount
  OBVIOUS
<1>. QED BY BreakerInitially, BreakerStep, <1>1, PTL DEF BreakerSpec

LEMMA InitRefines == BreakerInit => Abstract!Init
  BY DEF BreakerInit, Abstract!Init

LEMMA StepRefines ==
  BreakerInv /\ [BreakerNext]_breakerVars => [Abstract!Next]_Abstract!vars
<1>. SUFFICES ASSUME BreakerInv, [BreakerNext]_breakerVars
              PROVE  Abstract!Next \/ UNCHANGED Abstract!vars
  OBVIOUS
<1>1. ASSUME NEW c \in Callers, Begin(c) PROVE Abstract!Begin(c)
  BY <1>1 DEF Begin, Pass, Probe, Abstract!Begin
<1>2. ASSUME NEW c \in Callers, OnSuccess(c) PROVE Abstract!Succeed(c)
  BY <1>2, Thresholds DEF OnSuccess, Abstract!Succeed
<1>3. ASSUME NEW c \in Callers, OnFailure(c) PROVE Abstract!Fail(c)
  BY <1>3, Thresholds DEF OnFailure, Abstract!Fail
<1>4. CASE CoolDown \/ UNCHANGED breakerVars
  BY <1>4 DEF CoolDown, breakerVars, Abstract!vars
<1>. QED
  BY <1>1, <1>2, <1>3, <1>4 DEF BreakerNext, Abstract!Next

\* The breaker implements AbstractBreaker: every step of a call, one that reports late to
\* a breaker in another state included, is a step that the abstract breaker allows.
THEOREM Refinement == BreakerSpec => BreakerRefines
<1>. QED
  BY BreakerInitially, BreakerStep, InitRefines, StepRefines, PTL
     DEF BreakerSpec, BreakerRefines, Abstract!Spec

=============================================================================
