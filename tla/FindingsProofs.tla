--------------------------- MODULE FindingsProofs ---------------------------
(***************************************************************************)
(* Theorems about Findings for any number of requests, scans, runs of both *)
(* tasks and acceptances, and every scenario.  A step changes neither the  *)
(* row nor the history (Quiet), except Write, LogFirst, Log and Insert.    *)
(***************************************************************************)
EXTENDS Findings, TLAPS

(* Rows. *)

SlaStatus == {"ON_TRACK", "WARNING", "BREACHED", "PAUSED", "COMPLIED"}

Columns == {"version", "status", "sla", "paused", "verifier", "seen"}

\* The columns of a row.
LEMMA RowColumns ==
  ASSUME NEW f \in FindingRow
  PROVE  /\ DOMAIN f = Columns
         /\ f.version \in Nat /\ f.status \in FindingStatus /\ f.sla \in SlaStatus
         /\ f.paused \in BOOLEAN /\ f.verifier \in Nat /\ f.seen \in Nat
BY DEF FindingRow, Columns, SlaStatus

\* The row that is not there, and the row of a new finding.
LEMMA NoFindingRow == NoFinding \in FindingRow /\ NoFinding.version = 0 /\ NoFinding.status = "NEW"
BY DEF FindingRow, NoFinding, FindingStatus

\* A discovered finding is open.
LEMMA DiscoveredRow ==
  ASSUME NEW n \in Nat
  PROVE  Discovered(n) \in FindingRow /\ Discovered(n).version = 1 /\ Discovered(n).status = "OPEN"
BY NoFindingRow DEF FindingRow, Discovered, NoFinding, FindingStatus

\* What evaluate_finding_sla_status answers.
LEMMA EvaluateSla == ASSUME NEW f PROVE Evaluate(f) \in SlaStatus
BY DEF Evaluate, SlaStatus

\* The status of a row and its version are apart from its other columns.
LEMMA ResumedRow ==
  ASSUME NEW f \in FindingRow
  PROVE  Resumed(f) \in FindingRow /\ Resumed(f).version = f.version /\ Resumed(f).status = f.status
<1>. DEFINE g == [f EXCEPT !.paused = FALSE]
<1>1. g \in FindingRow /\ g.version = f.version /\ g.status = f.status
  BY DEF FindingRow
<1>2. Evaluate(g) \in SlaStatus
  BY EvaluateSla
<1>3. Resumed(f) = [g EXCEPT !.sla = Evaluate(g)]
  BY DEF Resumed
<1>. HIDE DEF g
<1>. QED
  BY <1>1, <1>2, <1>3 DEF FindingRow, SlaStatus

\* transition_finding_status sets the status and no version.
LEMMA MovedRow ==
  ASSUME NEW f \in FindingRow, NEW t \in FindingStatus
  PROVE  Moved(f, t) \in FindingRow /\ Moved(f, t).version = f.version /\ Moved(f, t).status = t
<1>. DEFINE g == [f EXCEPT !.status = t]
<1>1. g \in FindingRow /\ g.version = f.version /\ g.status = t
  BY DEF FindingRow
<1>2. /\ Moved(f, t) = IF t = "RISK_ACCEPTED" THEN [g EXCEPT !.sla = "PAUSED", !.paused = TRUE]
        ELSE IF t \in Settled
        THEN [g EXCEPT !.sla = IF f.sla = "BREACHED" THEN "BREACHED" ELSE "COMPLIED"]
        ELSE IF f.status = "RISK_ACCEPTED" /\ t \in {"OPEN", "REOPENED", "IN_PROGRESS"}
        THEN Resumed(g) ELSE g
  BY DEF Moved
<1>3. Resumed(g) \in FindingRow /\ Resumed(g).version = f.version /\ Resumed(g).status = t
  BY <1>1, ResumedRow
<1>. HIDE DEF g
<1>. QED
  BY <1>1, <1>2, <1>3 DEF FindingRow

\* A scan that sees a finding reopens it or leaves its status.
LEMMA ObservedRow ==
  ASSUME NEW f \in FindingRow, NEW n \in Nat
  PROVE  /\ Observed(f, n) \in FindingRow /\ Observed(f, n).version = f.version
         /\ Observed(f, n).status = IF Reopens(f) THEN "REOPENED" ELSE f.status
BY DEF Observed, FindingRow, FindingStatus

\* A flush writes each column that differs from what was read.
LEMMA OverwriteRow ==
  ASSUME NEW b \in FindingRow, NEW new \in FindingRow, NEW old \in FindingRow
  PROVE  /\ Overwrite(b, new, old) \in FindingRow
         /\ Overwrite(b, new, old).version = IF new.version # b.version THEN new.version ELSE old.version
         /\ Overwrite(b, new, old).status = IF new.status # b.status THEN new.status ELSE old.status
<1>. DEFINE w == Overwrite(b, new, old)
<1>1. w = [c \in Columns |-> IF new[c] # b[c] THEN new[c] ELSE old[c]]
  BY RowColumns DEF Overwrite
<1>. DEFINE pick(c) == IF new[c] # b[c] THEN new[c] ELSE old[c]
<1>2. w = [version |-> pick("version"), status |-> pick("status"), sla |-> pick("sla"),
           paused |-> pick("paused"), verifier |-> pick("verifier"), seen |-> pick("seen")]
  BY <1>1 DEF Columns
<1>3. /\ pick("version") \in Nat /\ pick("status") \in FindingStatus /\ pick("sla") \in SlaStatus
      /\ pick("paused") \in BOOLEAN /\ pick("verifier") \in Nat /\ pick("seen") \in Nat
  BY RowColumns
<1>. QED
  BY <1>2, <1>3 DEF FindingRow, SlaStatus

-----------------------------------------------------------------------------
(* Types. *)

Places ==
  {"idle", "viewed", "accept", "reopen", "select", "write", "log", "process", "note", "insert",
   "expire"}

HistoryEntry == FindingStatus \X FindingStatus

Plans ==
  [entry : {<<>>} \cup HistoryEntry, locked : BOOLEAN, ras : SUBSET Acceptances, look : Nat,
   seen : BOOLEAN]

\* What the writers know.
LocalTypes ==
  /\ at \in [Writers -> Places]
  /\ got \in [Writers -> FindingRow]
  /\ copy \in [Writers -> FindingRow]
  /\ base \in [Writers -> FindingRow]
  /\ plan \in [Writers -> Plans]

\* What they share.
SharedTypes ==
  /\ db \in {"sqlite", "postgres"}
  /\ finding \in FindingRow
  /\ finding.version = 0 => history = <<>>
  /\ finding.version = 0 => finding = NoFinding
  /\ history \in Seq(HistoryEntry)
  /\ acceptances \in [Acceptances -> {"PENDING", "APPROVED", "REJECTED", "REVOKED", "EXPIRED"}]
  /\ expired \subseteq Acceptances /\ stage \in 0 .. 2
  /\ looks \in Nat /\ twin \in BOOLEAN
  /\ left \in [Occasion -> Nat]

\* Who saves a row has one to save, and only requests carry a version.
Ready(a) ==
  /\ at[a] \in {"viewed", "select", "write", "log", "note"} => finding.version > 0
  /\ a \in Requests /\ at[a] \in {"accept", "reopen"} => finding.version > 0
  /\ at[a] \in {"select", "write", "log", "note"} => copy[a].version > 0
  /\ plan[a].locked => a \in Requests /\ at[a] \in {"viewed", "select", "write", "log"}
  /\ at[a] \in {"log", "note"} => plan[a].entry \in HistoryEntry
  /\ db = "postgres" /\ at[a] = "select" => ~plan[a].locked

TypeInv == LocalTypes /\ SharedTypes /\ \A a \in Writers : Ready(a)

\* Only a moves.
Alone(a) ==
  \A b \in Writers \ {a} :
    /\ at'[b] = at[b] /\ got'[b] = got[b] /\ copy'[b] = copy[b] /\ base'[b] = base[b]
    /\ plan'[b] = plan[b]

\* An entry names two statuses.
LEMMA Entries == \A e \in HistoryEntry : e # <<>> /\ e[1] \in FindingStatus /\ e[2] \in FindingStatus
BY DEF HistoryEntry

\* What an idle writer plans.
LEMMA IdlePlan == Idle \in Plans /\ Idle.entry = <<>> /\ ~Idle.locked
BY DEF Idle, Plans

\* Whoever returns has forgotten his row.
LEMMA ReturnsTo ==
  ASSUME LocalTypes, NEW a \in Writers, Returns(a)
  PROVE  /\ LocalTypes' /\ Alone(a)
         /\ at'[a] \in {"idle", "expire"} /\ plan'[a].entry = <<>> /\ ~plan'[a].locked
         /\ got'[a] = NoFinding /\ base'[a] = NoFinding /\ copy'[a] = NoFinding
<1>. DEFINE left_ras == IF a \in Expiries THEN plan[a].ras ELSE {}
<1>1. plan[a] \in Plans /\ left_ras \in SUBSET Acceptances
  BY DEF LocalTypes, Plans
<1>2. [Idle EXCEPT !.ras = left_ras] \in Plans
  BY <1>1, IdlePlan DEF Plans
<1>3. plan' = [plan EXCEPT ![a] = [Idle EXCEPT !.ras = left_ras]]
  BY DEF Returns
<1>4. [Idle EXCEPT !.ras = left_ras].entry = <<>> /\ ~[Idle EXCEPT !.ras = left_ras].locked
  BY DEF Idle
<1>5. plan' \in [Writers -> Plans] /\ plan'[a].entry = <<>> /\ ~plan'[a].locked
      /\ \A b \in Writers \ {a} : plan'[b] = plan[b]
  BY <1>2, <1>3, <1>4 DEF LocalTypes
<1>6. at' \in [Writers -> Places] /\ at'[a] \in {"idle", "expire"}
      /\ \A b \in Writers \ {a} : at'[b] = at[b]
  BY DEF Returns, LocalTypes, Places
<1>7. /\ got' \in [Writers -> FindingRow] /\ copy' \in [Writers -> FindingRow]
      /\ base' \in [Writers -> FindingRow]
      /\ got'[a] = NoFinding /\ base'[a] = NoFinding /\ copy'[a] = NoFinding
      /\ \A b \in Writers \ {a} : got'[b] = got[b] /\ copy'[b] = copy[b] /\ base'[b] = base[b]
  BY NoFindingRow DEF Returns, LocalTypes
<1>. QED
  BY <1>5, <1>6, <1>7 DEF LocalTypes, Alone

\* What a writer reads to save it later.
LEMMA ReadsFor ==
  ASSUME LocalTypes, finding \in FindingRow, NEW a \in Writers, NEW new \in FindingRow,
         NEW entry \in {<<>>} \cup HistoryEntry, Reads(a, new, entry),
         NEW p \in Places, at' = [at EXCEPT ![a] = p]
  PROVE  /\ LocalTypes' /\ Alone(a) /\ at'[a] = p
         /\ got'[a] = finding /\ base'[a] = finding /\ copy'[a] = new
         /\ plan'[a] = [plan[a] EXCEPT !.entry = entry]
         /\ plan'[a].entry = entry /\ plan'[a].locked = plan[a].locked
<1>1. plan[a] \in Plans /\ [plan[a] EXCEPT !.entry = entry] \in Plans
      /\ [plan[a] EXCEPT !.entry = entry].entry = entry
      /\ [plan[a] EXCEPT !.entry = entry].locked = plan[a].locked
  BY DEF LocalTypes, Plans
<1>2. plan' = [plan EXCEPT ![a] = [plan[a] EXCEPT !.entry = entry]]
  BY DEF Reads
<1>3. /\ plan' \in [Writers -> Plans] /\ plan'[a] = [plan[a] EXCEPT !.entry = entry]
      /\ \A b \in Writers \ {a} : plan'[b] = plan[b]
  BY <1>1, <1>2 DEF LocalTypes
<1>. QED
  BY <1>1, <1>3 DEF Reads, LocalTypes, Alone

\* What a person reads who asks for another status.
LEMMA Transits ==
  ASSUME LocalTypes, finding \in FindingRow, NEW q \in Writers, NEW t \in FindingStatus,
         Transition(q, t)
  PROVE  /\ LocalTypes' /\ Alone(q)
         /\ IF CanTransition(finding.status, t)
              THEN /\ at'[q] = AfterRead /\ copy'[q] = Moved(finding, t) /\ base'[q] = finding
                   /\ got'[q] = IF plan[q].locked THEN got[q] ELSE finding
                   /\ plan'[q].entry = <<finding.status, t>> /\ plan'[q].locked = plan[q].locked
              ELSE Returns(q)
<1>1. CASE ~CanTransition(finding.status, t)
  BY <1>1, ReturnsTo DEF Transition
<1>2. CASE CanTransition(finding.status, t)
  <2>1. AfterRead \in Places /\ Moved(finding, t) \in FindingRow
    BY MovedRow DEF AfterRead, Places
  <2>2. <<finding.status, t>> \in HistoryEntry
    BY RowColumns DEF HistoryEntry
  <2>. DEFINE e == <<finding.status, t>>
  <2>. HIDE DEF e
  <2>3. plan[q] \in Plans /\ [plan[q] EXCEPT !.entry = e] \in Plans
        /\ [plan[q] EXCEPT !.entry = e].entry = e
        /\ [plan[q] EXCEPT !.entry = e].locked = plan[q].locked
    BY <2>2 DEF LocalTypes, Plans, e
  <2>4. plan' = [plan EXCEPT ![q] = [plan[q] EXCEPT !.entry = e]]
    BY <1>2 DEF Transition, e
  <2>5. /\ plan' \in [Writers -> Plans] /\ plan'[q] = [plan[q] EXCEPT !.entry = e]
        /\ \A b \in Writers \ {q} : plan'[b] = plan[b]
    BY <2>3, <2>4 DEF LocalTypes
  <2>. QED
    BY <1>2, <2>1, <2>3, <2>5 DEF Transition, LocalTypes, Alone, e
<1>. QED
  BY <1>1, <1>2

\* What is saved is a row with a version of its own.
LEMMA SavedIs ==
  ASSUME LocalTypes, SharedTypes, NEW a \in Writers
  PROVE  /\ Saved(a) \in FindingRow /\ Saved(a).version > 0
         /\ finding = base[a] => /\ Saved(a).version = finding.version + 1
                                 /\ Saved(a).status = copy[a].status
<1>1. copy[a] \in FindingRow /\ base[a] \in FindingRow /\ finding \in FindingRow
  BY DEF LocalTypes, SharedTypes
<1>2. /\ SavedRow(a) \in FindingRow /\ SavedRow(a).version = base[a].version + 1
      /\ SavedRow(a).status = copy[a].status
  BY <1>1, RowColumns DEF SavedRow, FindingRow
<1>3. base[a].version \in Nat /\ finding.version \in Nat
  BY <1>1, RowColumns
<1>4. CASE db = "postgres"
  <2>1. Saved(a) = Overwrite(base[a], SavedRow(a), finding)
    BY <1>4 DEF Saved
  <2>2. /\ Saved(a) \in FindingRow /\ Saved(a).version = base[a].version + 1
        /\ Saved(a).status = IF copy[a].status # base[a].status THEN copy[a].status ELSE finding.status
    BY <1>1, <1>2, <1>3, <2>1, OverwriteRow
  <2>. QED
    BY <1>3, <2>2
<1>5. CASE db # "postgres"
  BY <1>2, <1>3, <1>5 DEF Saved
<1>. QED
  BY <1>4, <1>5
-----------------------------------------------------------------------------
(* The inductive invariant. *)

\* As long as no two saves read one version, a version stands for one row: what a writer
\* knows is older than the row, or is the row.
Versions(a) ==
  "race" \notin noted =>
    /\ got[a].version <= finding.version /\ (got[a].version = finding.version => got[a] = finding)
    /\ base[a].version <= finding.version /\ (base[a].version = finding.version => base[a] = finding)
    /\ db = "postgres" /\ at[a] = "write" /\ plan[a].locked => base[a] = got[a]

Clean == Without({"lost", "race", "conflict", "crash", "behind"})

\* Whose change is in the row and not yet in the history, or the other way round.
Out(a) == Logging(a) \/ LoggedFirst(a)

\* The entry of a writer says what he makes of the row, and follows the history.
Follows(a) ==
  Clean =>
    /\ at[a] \in {"select", "write", "note", "log"} /\ plan[a].entry # <<>> =>
         plan[a].entry = <<got[a].status, copy[a].status>>
    /\ at[a] = "note" => got[a].status # copy[a].status
    /\ Logging(a) => copy[a].status = finding.status /\ got[a].status = Latest
    /\ LoggedFirst(a) => copy[a].status = Latest

Chain == \A n \in 1 .. Len(history) - 1 : history[n][2] = history[n + 1][1]

Together ==
  /\ Chain
  /\ \A a, b \in Writers : Out(a) /\ Out(b) => a = b
  /\ (\A a \in Writers : ~Out(a)) => finding.status = Latest

InStep == Clean => Together

\* One scan at a time finds the weakness for the first time.
FirstSeen ==
  "overlap" \notin noted =>
    /\ \A s, o \in Scans : at[s] # "idle" /\ at[o] # "idle" => s = o
    /\ \A s \in Scans : at[s] = "insert" => finding.version = 0
    /\ ~twin

FindingsInv ==
  /\ TypeInv /\ InStep /\ FirstSeen
  /\ \A a \in Writers : Versions(a) /\ Follows(a)

-----------------------------------------------------------------------------
(* Steps that change neither the row nor the history. *)

Quiet(a) ==
  /\ LocalTypes' /\ SharedTypes' /\ Alone(a) /\ noted \subseteq noted'
  /\ finding' = finding /\ history' = history /\ db' = db /\ twin' = twin
  /\ Ready(a)' /\ Versions(a)' /\ Follows(a)'
  /\ Clean' => (Out(a)' <=> Out(a))
  /\ a \in Scans => \/ at[a] # "idle" \/ at'[a] = "idle"
                    \/ "overlap" \in noted' \/ \A o \in Scans \ {a} : at[o] = "idle"
  /\ a \in Scans /\ at'[a] = "insert" => finding.version = 0

\* What is noted stays noted.
LEMMA CleanBefore ==
  ASSUME noted \subseteq noted'
  PROVE  /\ Clean' => Clean /\ ("race" \in noted => "race" \in noted')
         /\ "race" \notin noted' => "race" \notin noted
         /\ "overlap" \notin noted' => "overlap" \notin noted
         /\ Clean => "race" \notin noted /\ "lost" \notin noted /\ "behind" \notin noted
BY DEF Clean, Without

\* A quiet step of one writer keeps the invariant.
LEMMA QuietStep ==
  ASSUME FindingsInv, NEW a \in Writers, Quiet(a)
  PROVE  FindingsInv'
<1>. USE CleanBefore DEF Quiet
<1>1. \A b \in Writers \ {a} : Ready(b)' /\ Versions(b)' /\ Follows(b)' /\ (Out(b)' <=> Out(b))
  <2>. TAKE b \in Writers \ {a}
  <2>1. Ready(b) /\ Versions(b) /\ Follows(b)
    BY DEF FindingsInv, TypeInv
  <2>2. Ready(b)'
    BY <2>1 DEF Ready, Alone
  <2>3. Versions(b)'
    BY <2>1 DEF Versions, Alone
  <2>4. Out(b)' <=> Out(b)
    BY DEF Out, Logging, LoggedFirst, Alone
  <2>5. Follows(b)'
    BY <2>1 DEF Follows, Alone, Logging, LoggedFirst, Latest
  <2>. QED
    BY <2>2, <2>3, <2>4, <2>5
<1>2. TypeInv' /\ \A b \in Writers : Versions(b)' /\ Follows(b)'
  BY <1>1 DEF TypeInv
<1>3. InStep'
  <2>. SUFFICES ASSUME Clean' PROVE Together'
    BY DEF InStep
  <2>1. Clean /\ \A b \in Writers : Out(b)' <=> Out(b)
    BY <1>1
  <2>. QED
    BY <2>1 DEF FindingsInv, InStep, Together, Chain, Latest
<1>4. FirstSeen'
  <2>. SUFFICES ASSUME "overlap" \notin noted'
       PROVE  /\ \A s, o \in Scans : at'[s] # "idle" /\ at'[o] # "idle" => s = o
              /\ \A s \in Scans : at'[s] = "insert" => finding'.version = 0
              /\ ~twin'
    BY DEF FirstSeen
  <2>1. /\ \A s, o \in Scans : at[s] # "idle" /\ at[o] # "idle" => s = o
        /\ \A s \in Scans : at[s] = "insert" => finding.version = 0
        /\ ~twin
    BY DEF FindingsInv, FirstSeen
  <2>2. \A s \in Scans \ {a} : at'[s] = at[s]
    BY DEF Alone, Writers
  <2>3. \A s, o \in Scans : at'[s] # "idle" /\ at'[o] # "idle" => s = o
    <3>1. CASE a \in Scans /\ at[a] = "idle" /\ at'[a] # "idle"
      <4>1. \A o \in Scans \ {a} : at'[o] = "idle"
        BY <2>2, <3>1
      <4>. QED
        BY <4>1
    <3>2. CASE ~(a \in Scans /\ at[a] = "idle" /\ at'[a] # "idle")
      <4>1. \A s \in Scans : at'[s] # "idle" => at[s] # "idle"
        BY <2>2, <3>2
      <4>. QED
        BY <2>1, <4>1
    <3>. QED
      BY <3>1, <3>2
  <2>4. \A s \in Scans : at'[s] = "insert" => finding'.version = 0
    BY <2>1, <2>2
  <2>. QED
    BY <2>1, <2>3, <2>4
<1>. QED
  BY <1>2, <1>3, <1>4 DEF FindingsInv

\* What a step shares with the others when it leaves the row and the history alone.
Elsewhere ==
  /\ UNCHANGED <<db, finding, twin, history>>
  /\ SharedTypes' /\ noted \subseteq noted'

\* A scenario is used up.
LEMMA BeginsLeft ==
  ASSUME SharedTypes, NEW o \in Occasion, Begins(o)
  PROVE  left' \in [Occasion -> Nat]
BY DEF SharedTypes, Begins

\* A writer who gives up, or has nothing to save.
LEMMA ReturnQuiet ==
  ASSUME FindingsInv, NEW a \in Writers, Returns(a), Elsewhere, Clean' => ~Out(a),
         a \in Scans => at[a] # "idle"
  PROVE  Quiet(a)
<1>1. LocalTypes /\ SharedTypes
  BY DEF FindingsInv, TypeInv
<1>2. /\ LocalTypes' /\ Alone(a)
      /\ at'[a] \in {"idle", "expire"} /\ plan'[a].entry = <<>> /\ ~plan'[a].locked
      /\ got'[a] = NoFinding /\ base'[a] = NoFinding
  BY <1>1, ReturnsTo
<1>3. Ready(a)'
  BY <1>2 DEF Ready
<1>4. Versions(a)'
  BY <1>1, <1>2, NoFindingRow, RowColumns DEF Versions, SharedTypes, Elsewhere
<1>5. Follows(a)' /\ ~Out(a)'
  BY <1>2 DEF Follows, Out, Logging, LoggedFirst
<1>. QED
  BY <1>2, <1>3, <1>4, <1>5 DEF Quiet, Elsewhere

\* A scan or a task that reads the row to save it.
LEMMA ReadQuiet ==
  ASSUME FindingsInv, NEW a \in Writers \ Requests, Elsewhere, finding.version > 0,
         NEW new \in FindingRow, NEW entry \in {<<>>} \cup HistoryEntry, Reads(a, new, entry),
         NEW p \in {"select", "write", "note"}, at' = [at EXCEPT ![a] = p],
         at[a] \in {"idle", "process", "reopen"},
         a \in Scans => at[a] # "idle",
         new.version > 0,
         entry # <<>> => entry = <<finding.status, new.status>>,
         entry = <<>> => new.status = finding.status,
         p = "note" => entry # <<>> /\ finding.status # new.status
  PROVE  Quiet(a)
<1>1. LocalTypes /\ SharedTypes /\ Ready(a)
  BY DEF FindingsInv, TypeInv
<1>2. p \in Places /\ finding \in FindingRow
  BY <1>1 DEF Places, SharedTypes
<1>3. /\ LocalTypes' /\ Alone(a) /\ at'[a] = p
      /\ got'[a] = finding /\ base'[a] = finding /\ copy'[a] = new
      /\ plan'[a].entry = entry /\ plan'[a].locked = plan[a].locked
  BY <1>1, <1>2, ReadsFor
<1>4. ~plan[a].locked
  BY <1>1 DEF Ready
<1>5. Ready(a)'
  BY <1>3, <1>4 DEF Ready, Elsewhere
<1>6. Versions(a)'
  BY <1>2, <1>3, <1>4, RowColumns DEF Versions, Elsewhere
<1>7. ~Out(a) /\ ~Out(a)'
  BY <1>3 DEF Out, Logging, LoggedFirst
<1>8. Follows(a)'
  BY <1>3, <1>7 DEF Follows, Out
<1>. QED
  BY <1>3, <1>5, <1>6, <1>7, <1>8 DEF Quiet, Elsewhere

\* A person who asks for another status.
LEMMA TransitQuiet ==
  ASSUME FindingsInv, NEW q \in Requests, Elsewhere, finding.version > 0,
         NEW t \in FindingStatus, Transition(q, t),
         at[q] \in {"idle", "viewed", "accept", "reopen"},
         plan[q].locked => finding.version = got[q].version
  PROVE  Quiet(q)
<1>1. LocalTypes /\ SharedTypes /\ Ready(q) /\ Versions(q) /\ q \in Writers /\ q \notin Scans
  BY FindingKinds DEF FindingsInv, TypeInv, Writers
<1>2. ~Out(q)
  BY DEF Out, Logging, LoggedFirst
<1>3. CASE ~CanTransition(finding.status, t)
  BY <1>1, <1>2, <1>3, ReturnQuiet DEF Transition
<1>4. CASE CanTransition(finding.status, t)
  <2>1. finding \in FindingRow
    BY <1>1 DEF SharedTypes
  <2>2. /\ LocalTypes' /\ Alone(q)
        /\ at'[q] = AfterRead /\ copy'[q] = Moved(finding, t) /\ base'[q] = finding
        /\ got'[q] = IF plan[q].locked THEN got[q] ELSE finding
        /\ plan'[q].entry = <<finding.status, t>> /\ plan'[q].locked = plan[q].locked
    BY <1>1, <1>4, <2>1, Transits
  <2>3. copy'[q].version > 0 /\ copy'[q].status = t
    BY <2>1, <2>2, MovedRow
  <2>4. AfterRead \in {"select", "write"} /\ (db = "postgres" => AfterRead = "write")
    BY DEF AfterRead
  <2>5. Ready(q)'
    BY <2>2, <2>3, <2>4 DEF Ready, Elsewhere
  <2>6. "race" \notin noted => got'[q] = finding
    BY <1>1, <2>2 DEF Versions
  <2>7. finding.version \in Nat
    BY <2>1, RowColumns
  <2>8. Versions(q)'
    BY <1>1, <2>2, <2>4, <2>6, <2>7, CleanBefore DEF Versions, Elsewhere
  <2>9. plan'[q].entry # <<>>
    BY <2>2
  <2>10. ~Out(q)'
    BY <2>2, <2>4, <2>9 DEF Out, Logging, LoggedFirst
  <2>11. Clean' => got'[q] = finding
    BY <2>6, CleanBefore DEF Elsewhere
  <2>12. Follows(q)'
    BY <2>2, <2>3, <2>4, <2>10, <2>11 DEF Follows, Out
  <2>. QED
    BY <1>1, <1>2, <2>2, <2>5, <2>8, <2>10, <2>12 DEF Quiet, Elsewhere
<1>. QED
  BY <1>3, <1>4

-----------------------------------------------------------------------------
(* The steps of people. *)

\* Analysts and admins change the row only by Write.
LEMMA PeopleQuiet ==
  ASSUME FindingsInv, NEW q \in Requests,
         View(q) \/ PostUnlocked(q) \/ Decide(q) \/ Post(q) \/ MoveDecided(q)
  PROVE  Quiet(q)
<1>1. LocalTypes /\ SharedTypes /\ Ready(q) /\ Versions(q) /\ q \in Writers /\ q \notin Scans
  BY FindingKinds DEF FindingsInv, TypeInv, Writers
<1>2. finding \in FindingRow /\ finding.version \in Nat /\ Targets \subseteq FindingStatus
  BY <1>1, RowColumns, FindingKinds DEF SharedTypes
<1>3. CASE View(q)
  <2>1. left' \in [Occasion -> Nat]
    BY <1>1, <1>3, BeginsLeft DEF View, Occasion
  <2>2. Elsewhere
    BY <1>1, <1>3, <2>1 DEF View, Elsewhere, SharedTypes, rowVars, timeVars
  <2>3. plan[q] \in Plans /\ [plan[q] EXCEPT !.locked = TRUE] \in Plans
    BY <1>1 DEF LocalTypes, Plans
  <2>4. LocalTypes' /\ Alone(q) /\ at'[q] = "viewed" /\ got'[q] = finding /\ base'[q] = base[q]
    BY <1>1, <1>2, <1>3, <2>3 DEF View, LocalTypes, Alone, Places
  <2>5. Ready(q)'
    BY <1>1, <1>3, <2>2, <2>4 DEF Ready, View, Elsewhere
  <2>6. Versions(q)'
    BY <1>1, <1>2, <2>2, <2>4, CleanBefore DEF Versions, Elsewhere
  <2>7. ~Out(q) /\ ~Out(q)' /\ Follows(q)'
    BY <1>3, <2>4 DEF View, Out, Logging, LoggedFirst, Follows
  <2>. QED
    BY <1>1, <2>2, <2>4, <2>5, <2>6, <2>7 DEF Quiet, Elsewhere
<1>4. CASE PostUnlocked(q)
  <2>1. left' \in [Occasion -> Nat]
    BY <1>1, <1>4, BeginsLeft DEF PostUnlocked, Occasion
  <2>2. Elsewhere
    BY <1>1, <1>4, <2>1 DEF PostUnlocked, Elsewhere, SharedTypes, rowVars, timeVars, Note
  <2>3. PICK t \in Targets : Transition(q, t)
    BY <1>4 DEF PostUnlocked
  <2>4. ~plan[q].locked
    BY <1>1, <1>4 DEF Ready, PostUnlocked
  <2>. QED
    BY <1>2, <1>4, <2>2, <2>3, <2>4, TransitQuiet DEF PostUnlocked
<1>5. CASE Decide(q)
  <2>1. left' \in [Occasion -> Nat]
    BY <1>1, <1>5, BeginsLeft DEF Decide, Occasion
  <2>2. Elsewhere
    BY <1>1, <1>5, <2>1 DEF Decide, Elsewhere, SharedTypes, timeVars, Note
  <2>3. PICK r \in Acceptances, v \in {"APPROVED", "REJECTED", "REVOKED"} :
          IF v = "REJECTED" THEN UNCHANGED <<at, plan>>
          ELSE /\ at'   = [at EXCEPT ![q] = IF v = "APPROVED" THEN "accept" ELSE "reopen"]
               /\ plan' = [plan EXCEPT ![q].ras = {r}]
    BY <1>5 DEF Decide
  <2>4. plan[q] \in Plans /\ [plan[q] EXCEPT !.ras = {r}] \in Plans
        /\ [plan[q] EXCEPT !.ras = {r}].locked = plan[q].locked
    BY <1>1 DEF LocalTypes, Plans
  <2>5. at[q] = "idle" /\ ~plan[q].locked /\ UNCHANGED saveVars
    BY <1>1, <1>5 DEF Ready, Decide
  <2>6. /\ at' \in [Writers -> Places] /\ at'[q] \in {"idle", "accept", "reopen"}
        /\ \A b \in Writers \ {q} : at'[b] = at[b]
    BY <1>1, <2>3, <2>5 DEF LocalTypes, Places
  <2>7. /\ plan' \in [Writers -> Plans] /\ ~plan'[q].locked
        /\ \A b \in Writers \ {q} : plan'[b] = plan[b]
    BY <1>1, <2>3, <2>4, <2>5 DEF LocalTypes
  <2>8. LocalTypes' /\ Alone(q)
    BY <1>1, <2>5, <2>6, <2>7 DEF LocalTypes, Alone, saveVars
  <2>9. Ready(q)'
    BY <1>5, <2>2, <2>6, <2>7 DEF Ready, Decide, Elsewhere
  <2>10. Versions(q)'
    BY <1>1, <2>2, <2>5, <2>6, CleanBefore DEF Versions, Elsewhere, saveVars
  <2>11. ~Out(q) /\ ~Out(q)' /\ Follows(q)'
    BY <2>5, <2>6 DEF Out, Logging, LoggedFirst, Follows
  <2>. QED
    BY <1>1, <2>2, <2>8, <2>9, <2>10, <2>11 DEF Quiet, Elsewhere
<1>6. CASE Post(q)
  <2>1. Elsewhere
    BY <1>1, <1>6 DEF Post, Elsewhere, SharedTypes, rowVars, timeVars, Note
  <2>2. CASE finding.version = got[q].version
    <3>1. PICK t \in Targets : Transition(q, t)
      BY <1>6, <2>2 DEF Post
    <3>2. finding.version > 0
      BY <1>1, <1>6 DEF Ready, Post
    <3>. QED
      BY <1>2, <1>6, <2>1, <2>2, <3>1, <3>2, TransitQuiet DEF Post
  <2>3. CASE finding.version # got[q].version
    <3>1. Returns(q) /\ ~Out(q)
      BY <1>6, <2>3 DEF Post, Out, Logging, LoggedFirst
    <3>. QED
      BY <1>1, <2>1, <3>1, ReturnQuiet
  <2>. QED
    BY <2>2, <2>3
<1>7. CASE MoveDecided(q)
  <2>1. Elsewhere
    BY <1>1, <1>7 DEF MoveDecided, Elsewhere, SharedTypes, rowVars, timeVars
  <2>2. PICK t \in {"RISK_ACCEPTED", "REOPENED"} : Transition(q, t)
    BY <1>7 DEF MoveDecided
  <2>3. t \in FindingStatus
    BY DEF FindingStatus
  <2>4. at[q] \in {"accept", "reopen"} /\ finding.version > 0 /\ ~plan[q].locked
    BY <1>1, <1>7 DEF MoveDecided, Ready
  <2>. QED
    BY <2>1, <2>2, <2>3, <2>4, TransitQuiet
<1>. QED
  BY <1>3, <1>4, <1>5, <1>6, <1>7

-----------------------------------------------------------------------------
(* The steps of scans and tasks. *)

\* Neither does a scan before it saves, logs or inserts.
LEMMA ScansQuiet ==
  ASSUME FindingsInv, NEW s \in Scans,
         Look(s) \/ SeeAgain(s) \/ SeeTwice(s) \/ SeeFirst(s) \/ Verify(s)
  PROVE  Quiet(s)
<1>1. LocalTypes /\ SharedTypes /\ Ready(s) /\ Versions(s) /\ s \in Writers /\ s \notin Requests
  BY FindingKinds DEF FindingsInv, TypeInv, Writers
<1>2. finding \in FindingRow /\ finding.version \in Nat /\ plan[s] \in Plans /\ plan[s].look \in Nat
      /\ finding.status \in FindingStatus
  BY <1>1, RowColumns DEF SharedTypes, LocalTypes, Plans
<1>3. CASE Look(s)
  <2>1. left' \in [Occasion -> Nat]
    BY <1>1, <1>3, BeginsLeft DEF Look, Occasion
  <2>2. Elsewhere
    BY <1>1, <1>3, <2>1 DEF Look, Elsewhere, SharedTypes, rowVars, timeVars, Note
  <2>3. at[s] = "idle" /\ ~plan[s].locked /\ UNCHANGED saveVars
    BY <1>1, <1>3 DEF Ready, Look
  <2>4. \/ UNCHANGED <<at, plan>>
        \/ \E seen \in BOOLEAN :
             /\ at'   = [at EXCEPT ![s] = "process"]
             /\ plan' = [plan EXCEPT ![s].look = looks + 1, ![s].seen = seen]
    BY <1>3 DEF Look
  <2>5. LocalTypes' /\ Alone(s) /\ at'[s] \in {"idle", "process"} /\ ~plan'[s].locked
    <3>1. CASE UNCHANGED <<at, plan>>
      BY <1>1, <2>3, <3>1 DEF LocalTypes, Alone, saveVars
    <3>2. CASE ~UNCHANGED <<at, plan>>
      <4>1. PICK seen \in BOOLEAN :
              /\ at'   = [at EXCEPT ![s] = "process"]
              /\ plan' = [plan EXCEPT ![s].look = looks + 1, ![s].seen = seen]
        BY <2>4, <3>2
            <4>. DEFINE n == looks + 1
      <4>2. n \in Nat
        BY <1>1 DEF SharedTypes
      <4>. HIDE DEF n
      <4>. DEFINE p == [plan[s] EXCEPT !.look = n, !.seen = seen]
      <4>3. p \in Plans /\ p.locked = plan[s].locked
        BY <1>2, <4>2 DEF Plans
      <4>4. plan' = [plan EXCEPT ![s] = p]
        BY <1>1, <4>1 DEF LocalTypes, n
      <4>. HIDE DEF p
      <4>. QED
        BY <1>1, <2>3, <4>1, <4>3, <4>4 DEF LocalTypes, Alone, saveVars, Places
    <3>. QED
      BY <3>1, <3>2
  <2>6. Ready(s)'
    BY <2>5 DEF Ready
  <2>7. Versions(s)'
    BY <1>1, <2>2, <2>3, <2>5, CleanBefore DEF Versions, Elsewhere, saveVars
  <2>8. ~Out(s) /\ ~Out(s)' /\ Follows(s)'
    BY <2>3, <2>5 DEF Out, Logging, LoggedFirst, Follows
  <2>9. "overlap" \in noted' \/ \A o \in Scans \ {s} : at[o] = "idle"
    BY <1>3 DEF Look, Note
  <2>. QED
    BY <2>2, <2>5, <2>6, <2>7, <2>8, <2>9 DEF Quiet, Elsewhere
<1>4. CASE SeeAgain(s)
  <2>1. Elsewhere
    BY <1>1, <1>4 DEF SeeAgain, Elsewhere, SharedTypes, rowVars, timeVars
  <2>. DEFINE new == Observed(finding, plan[s].look)
              entry == IF Reopens(finding) THEN <<finding.status, "REOPENED">> ELSE <<>>
              p == IF db = "sqlite" /\ Reopens(finding) THEN "note" ELSE AfterRead
  <2>2. /\ new \in FindingRow /\ new.version = finding.version
        /\ new.status = IF Reopens(finding) THEN "REOPENED" ELSE finding.status
    BY <1>2, ObservedRow
  <2>3. entry \in {<<>>} \cup HistoryEntry
    BY <1>2 DEF HistoryEntry, FindingStatus
  <2>4. /\ entry # <<>> => entry = <<finding.status, new.status>>
        /\ entry = <<>> => new.status = finding.status
    BY <2>2
  <2>5. p = "note" => entry # <<>> /\ finding.status # new.status
    BY <2>2 DEF AfterRead, Reopens
  <2>6. p \in {"select", "write", "note"}
    BY DEF AfterRead
  <2>7. Reads(s, new, entry) /\ at' = [at EXCEPT ![s] = p] /\ at[s] = "process" /\ finding.version > 0
    BY <1>4 DEF SeeAgain, Known
  <2>. HIDE DEF new, entry, p
  <2>. QED
    BY <1>1, <2>1, <2>2, <2>3, <2>4, <2>5, <2>6, <2>7, ReadQuiet
<1>5. CASE SeeTwice(s)
  <2>1. Elsewhere
    BY <1>1, <1>5 DEF SeeTwice, Elsewhere, SharedTypes, rowVars, timeVars
  <2>2. Returns(s) /\ ~Out(s) /\ at[s] # "idle"
    BY <1>5 DEF SeeTwice, Out, Logging, LoggedFirst
  <2>. QED
    BY <1>1, <2>1, <2>2, ReturnQuiet
<1>6. CASE SeeFirst(s)
  <2>1. Elsewhere
    BY <1>1, <1>6 DEF SeeFirst, Elsewhere, SharedTypes, rowVars, timeVars
  <2>2. LocalTypes' /\ Alone(s) /\ at'[s] = "insert" /\ UNCHANGED <<saveVars, plan>> /\ at[s] = "process"
    BY <1>1, <1>6 DEF SeeFirst, LocalTypes, Alone, Places, saveVars
  <2>3. finding.version = 0
    BY <1>2, <1>6 DEF SeeFirst, Known
  <2>4. Ready(s)'
    BY <1>1, <2>2 DEF Ready
  <2>5. Versions(s)'
    BY <1>1, <2>1, <2>2, CleanBefore DEF Versions, Elsewhere, saveVars
  <2>6. ~Out(s) /\ ~Out(s)' /\ Follows(s)'
    BY <2>2 DEF Out, Logging, LoggedFirst, Follows
  <2>. QED
    BY <2>1, <2>2, <2>3, <2>4, <2>5, <2>6 DEF Quiet, Elsewhere
<1>7. CASE Verify(s)
  <2>1. Elsewhere
    BY <1>1, <1>7 DEF Verify, Elsewhere, SharedTypes, rowVars, timeVars
  <2>2. CASE finding.version > 0 /\ finding.status = "VERIFICATION_PENDING"
    <3>. DEFINE new == [finding EXCEPT !.status = "VERIFIED", !.verifier = plan[s].look]
                entry == <<finding.status, "VERIFIED">>
    <3>1. new \in FindingRow /\ new.version = finding.version /\ new.status = "VERIFIED"
      BY <1>2 DEF FindingRow, FindingStatus
    <3>2. entry \in HistoryEntry /\ entry # <<>>
      BY <1>2 DEF HistoryEntry, FindingStatus
    <3>3. AfterRead \in {"select", "write"}
      BY DEF AfterRead
    <3>4. Reads(s, new, entry) /\ at' = [at EXCEPT ![s] = AfterRead] /\ at[s] = "process"
      BY <1>7, <2>2 DEF Verify
    <3>5. entry = <<finding.status, new.status>>
      BY <3>1
    <3>. HIDE DEF new, entry
    <3>. QED
      BY <1>1, <2>1, <2>2, <3>1, <3>2, <3>3, <3>4, <3>5, ReadQuiet
  <2>3. CASE ~(finding.version > 0 /\ finding.status = "VERIFICATION_PENDING")
    <3>1. Returns(s) /\ ~Out(s) /\ at[s] # "idle"
      BY <1>7, <2>3 DEF Verify, Out, Logging, LoggedFirst
    <3>. QED
      BY <1>1, <2>1, <3>1, ReturnQuiet
  <2>. QED
    BY <2>2, <2>3
<1>. QED
  BY <1>3, <1>4, <1>5, <1>6, <1>7

\* Nor do the two tasks.
LEMMA TasksQuiet ==
  ASSUME FindingsInv, NEW c \in Checks \cup Expiries,
         \/ c \in Checks /\ Check(c)
         \/ c \in Expiries /\ (ListOver(c) \/ Expire(c) \/ ReopenOver(c))
  PROVE  Quiet(c)
<1>1. LocalTypes /\ SharedTypes /\ Ready(c) /\ Versions(c) /\ c \in Writers
      /\ c \notin Requests /\ c \notin Scans
  BY FindingKinds DEF FindingsInv, TypeInv, Writers
<1>2. finding \in FindingRow /\ finding.version \in Nat /\ plan[c] \in Plans
      /\ finding.status \in FindingStatus
  BY <1>1, RowColumns DEF SharedTypes, LocalTypes, Plans
<1>3. CASE Check(c)
  <2>1. Elsewhere
    BY <1>1, <1>3 DEF Check, Elsewhere, SharedTypes, rowVars, timeVars
  <2>. DEFINE new == [finding EXCEPT !.sla = Evaluate(finding)]
              entry == IF Evaluate(finding) = "BREACHED" THEN <<finding.status, finding.status>>
                       ELSE <<>>
  <2>2. new \in FindingRow /\ new.version = finding.version /\ new.status = finding.status
    BY <1>2, EvaluateSla DEF FindingRow, SlaStatus
  <2>3. entry \in {<<>>} \cup HistoryEntry
    BY <1>2 DEF HistoryEntry
  <2>4. entry # <<>> => entry = <<finding.status, new.status>>
    BY <2>2
  <2>5. Reads(c, new, entry) /\ at' = [at EXCEPT ![c] = "select"] /\ at[c] = "idle"
        /\ finding.version > 0
    BY <1>3 DEF Check
  <2>. HIDE DEF new, entry
  <2>. QED
    BY <1>1, <2>1, <2>2, <2>3, <2>4, <2>5, ReadQuiet
<1>4. CASE ListOver(c) \/ Expire(c)
  <2>1. Elsewhere
    BY <1>1, <1>4 DEF ListOver, Expire, Elsewhere, SharedTypes, rowVars, timeVars, Note
  <2>2. PICK R \in SUBSET Acceptances, p \in {"expire", "reopen"} :
          /\ at' = [at EXCEPT ![c] = p]
          /\ plan' = [plan EXCEPT ![c].ras = R]
    <3>1. CASE ListOver(c)
      BY <3>1 DEF ListOver, Over
    <3>2. CASE Expire(c)
      BY <1>2, <3>2 DEF Expire, Plans
    <3>. QED
      BY <1>4, <3>1, <3>2
  <2>3. [plan[c] EXCEPT !.ras = R] \in Plans /\ [plan[c] EXCEPT !.ras = R].locked = plan[c].locked
    BY <1>2 DEF Plans
  <2>4. at[c] \in {"idle", "expire"} /\ ~plan[c].locked /\ UNCHANGED saveVars
    BY <1>1, <1>4 DEF Ready, ListOver, Expire
  <2>5. LocalTypes' /\ Alone(c) /\ at'[c] = p /\ ~plan'[c].locked
    BY <1>1, <2>2, <2>3, <2>4 DEF LocalTypes, Alone, Places, saveVars
  <2>6. Ready(c)'
    BY <1>1, <2>5 DEF Ready
  <2>7. Versions(c)'
    BY <1>1, <2>1, <2>4, <2>5, CleanBefore DEF Versions, Elsewhere, saveVars
  <2>8. ~Out(c) /\ ~Out(c)' /\ Follows(c)'
    BY <2>4, <2>5 DEF Out, Logging, LoggedFirst, Follows
  <2>. QED
    BY <1>1, <2>1, <2>5, <2>6, <2>7, <2>8 DEF Quiet, Elsewhere
<1>5. CASE ReopenOver(c)
  <2>1. Elsewhere
    BY <1>1, <1>5 DEF ReopenOver, Elsewhere, SharedTypes, rowVars, timeVars
  <2>2. CASE finding.status = "RISK_ACCEPTED"
    <3>. DEFINE g == [finding EXCEPT !.status = "REOPENED"]
                entry == <<"RISK_ACCEPTED", "REOPENED">>
    <3>1. g \in FindingRow /\ g.version = finding.version /\ g.status = "REOPENED"
      BY <1>2 DEF FindingRow, FindingStatus
    <3>2. entry \in HistoryEntry /\ entry # <<>>
      BY DEF HistoryEntry, FindingStatus
    <3>3. Reads(c, Resumed(g), entry) /\ at' = [at EXCEPT ![c] = "select"] /\ at[c] = "reopen"
      BY <1>5, <2>2 DEF ReopenOver
    <3>4. /\ Resumed(g) \in FindingRow /\ Resumed(g).version = finding.version
          /\ Resumed(g).status = "REOPENED"
      BY <3>1, ResumedRow
    <3>5. finding.version > 0
      BY <1>1, <1>2, <2>2, NoFindingRow DEF SharedTypes
    <3>6. entry = <<finding.status, Resumed(g).status>>
      BY <2>2, <3>4
    <3>. DEFINE new == Resumed(g)
    <3>. HIDE DEF new, entry
    <3>. QED
      BY <1>1, <2>1, <3>2, <3>3, <3>4, <3>5, <3>6, ReadQuiet DEF new
  <2>3. CASE finding.status # "RISK_ACCEPTED"
    <3>1. Returns(c) /\ ~Out(c)
      BY <1>5, <2>3 DEF ReopenOver, Out, Logging, LoggedFirst
    <3>. QED
      BY <1>1, <2>1, <3>1, ReturnQuiet
  <2>. QED
    BY <2>2, <2>3
<1>. QED
  BY <1>3, <1>4, <1>5

-----------------------------------------------------------------------------
(* The steps of whoever saves. *)

\* Nor does a save that reads again, is refused or is lost.
LEMMA SaversQuiet ==
  ASSUME FindingsInv, NEW a \in Writers, Select(a) \/ Conflict(a) \/ Lost(a)
  PROVE  Quiet(a)
<1>1. LocalTypes /\ SharedTypes /\ Ready(a) /\ Versions(a) /\ Follows(a)
  BY DEF FindingsInv, TypeInv
<1>2. finding \in FindingRow /\ finding.version \in Nat
  BY <1>1, RowColumns DEF SharedTypes
<1>3. CASE Select(a)
  <2>1. Elsewhere
    BY <1>1, <1>3 DEF Select, Elsewhere, SharedTypes, rowVars, timeVars
  <2>2. /\ LocalTypes' /\ Alone(a) /\ at[a] = "select" /\ at'[a] = "write" /\ base'[a] = finding
        /\ UNCHANGED <<got, copy, plan, noted>>
    BY <1>1, <1>2, <1>3 DEF Select, LocalTypes, Alone, Places
  <2>3. Ready(a)'
    BY <1>1, <2>1, <2>2 DEF Ready, Elsewhere
  <2>4. Versions(a)'
    BY <1>1, <1>2, <2>1, <2>2, CleanBefore DEF Versions, Ready, Elsewhere
  <2>5. Out(a)' <=> Out(a)
    BY <2>2 DEF Out, Logging, LoggedFirst
  <2>6. Follows(a)'
    BY <1>1, <2>1, <2>2, CleanBefore DEF Follows, Elsewhere, Logging, LoggedFirst, Latest
  <2>. QED
    BY <2>1, <2>2, <2>3, <2>4, <2>5, <2>6 DEF Quiet, Elsewhere
<1>4. CASE Conflict(a)
  <2>1. Elsewhere
    BY <1>1, <1>4 DEF Conflict, Elsewhere, SharedTypes, rowVars, timeVars, Note
  <2>2. Returns(a) /\ ~Clean' /\ at[a] # "idle"
    BY <1>4 DEF Conflict, Note, Clean, Without
  <2>. QED
    BY <2>1, <2>2, ReturnQuiet
<1>5. CASE Lost(a)
  <2>1. left' \in [Occasion -> Nat]
    BY <1>1, <1>5, BeginsLeft DEF Lost, Occasion
  <2>2. Elsewhere
    BY <1>1, <1>5, <2>1 DEF Lost, Elsewhere, SharedTypes, rowVars, timeVars, Note
  <2>3. ~Clean' /\ at[a] # "idle"
    BY <1>5 DEF Lost, Note, Clean, Without
  <2>4. /\ LocalTypes' /\ Alone(a) /\ at'[a] = "idle" /\ plan'[a] = Idle
        /\ got'[a] = NoFinding /\ base'[a] = NoFinding
    BY <1>1, <1>5, NoFindingRow, IdlePlan DEF Lost, LocalTypes, Alone, Places
  <2>5. Ready(a)'
    BY <2>4, IdlePlan DEF Ready
  <2>6. Versions(a)'
    BY <1>1, <1>2, <2>2, <2>4, NoFindingRow DEF Versions, SharedTypes, Elsewhere
  <2>7. Follows(a)'
    BY <2>4 DEF Follows, Logging, LoggedFirst
  <2>. QED
    BY <2>2, <2>3, <2>4, <2>5, <2>6, <2>7 DEF Quiet, Elsewhere
<1>. QED
  BY <1>3, <1>4, <1>5

-----------------------------------------------------------------------------
(* Steps that change the row or the history. *)

\* An entry that begins with the latest status goes on with the chain.
LEMMA Appended ==
  ASSUME history \in Seq(HistoryEntry), Chain, NEW e \in HistoryEntry,
         history' = Append(history, e), e[1] = Latest
  PROVE  Chain' /\ Latest' = e[2]
<1>1. /\ Len(history) \in Nat /\ Len(history') = Len(history) + 1 /\ history' # <<>>
      /\ Len(history) > 0 => history # <<>>
  OBVIOUS
<1>2. /\ history'[Len(history) + 1] = e
      /\ \A n \in 1 .. Len(history) : history'[n] = history[n]
  BY <1>1
<1>3. Chain'
  BY <1>1, <1>2 DEF Chain, Latest
<1>. QED
  BY <1>1, <1>2, <1>3 DEF Latest

\* A step of one writer that changes the row or the history, while nobody else is between
\* the two as long as all is clean.
LEMMA RowStep ==
  ASSUME FindingsInv, NEW a \in Writers,
         LocalTypes', SharedTypes', Alone(a), noted \subseteq noted', db' = db,
         finding'.version = 0 => finding.version = 0,
         "race" \notin noted' => finding' = finding \/ finding'.version > finding.version,
         Ready(a)', Versions(a)', Follows(a)', FirstSeen',
         Clean' => (\A b \in Writers \ {a} : ~Out(b)) /\ Together'
  PROVE  FindingsInv'
<1>1. \A b \in Writers \ {a} : Ready(b)' /\ Versions(b)' /\ Follows(b)'
  <2>. TAKE b \in Writers \ {a}
  <2>1. Ready(b) /\ Versions(b) /\ Follows(b)
    BY DEF FindingsInv, TypeInv
  <2>2. /\ finding.version \in Nat /\ finding'.version \in Nat
        /\ got[b].version \in Nat /\ base[b].version \in Nat
    BY RowColumns DEF FindingsInv, TypeInv, LocalTypes, SharedTypes
  <2>3. Ready(b)'
    BY <2>1, <2>2 DEF Ready, Alone
  <2>4. Versions(b)'
    BY <2>1, <2>2, CleanBefore DEF Versions, Alone
  <2>5. Clean' => ~Out(b)'
    BY DEF Out, Logging, LoggedFirst, Alone
  <2>6. Follows(b)'
    BY <2>1, <2>5, CleanBefore DEF Follows, Alone, Out
  <2>. QED
    BY <2>3, <2>4, <2>6
<1>. QED
  BY <1>1 DEF FindingsInv, TypeInv, InStep

\* Only scans that overlap insert, and only while there is no row.
LEMMA FirstSeenKept ==
  ASSUME FindingsInv, NEW a \in Writers, Alone(a), noted \subseteq noted', twin' = twin,
         finding.version > 0, at[a] # "idle", at'[a] # "insert"
  PROVE  FirstSeen'
<1>. SUFFICES ASSUME "overlap" \notin noted'
     PROVE  /\ \A s, o \in Scans : at'[s] # "idle" /\ at'[o] # "idle" => s = o
            /\ \A s \in Scans : at'[s] # "insert"
            /\ ~twin'
  BY DEF FirstSeen
<1>1. /\ \A s, o \in Scans : at[s] # "idle" /\ at[o] # "idle" => s = o
      /\ \A s \in Scans : at[s] # "insert"
      /\ ~twin
  BY CleanBefore DEF FindingsInv, FirstSeen
<1>2. \A s \in Scans \ {a} : at'[s] = at[s]
  BY DEF Alone, Writers
<1>. QED
  BY <1>1, <1>2

\* The save.
LEMMA WriteStep ==
  ASSUME FindingsInv, NEW a \in Writers, Write(a)
  PROVE  FindingsInv'
<1>1. LocalTypes /\ SharedTypes /\ Ready(a) /\ Versions(a) /\ Follows(a) /\ InStep
  BY DEF FindingsInv, TypeInv
<1>2. /\ finding' = Saved(a) /\ at[a] = "write" /\ noted' = noted \cup Consequences(a)
      /\ UNCHANGED <<db, twin, acceptances, expired, stage, looks, left>>
  BY <1>1 DEF Write, Note, timeVars
<1>3. /\ finding.version > 0 /\ finding.version \in Nat
      /\ got[a].version \in Nat /\ base[a].version \in Nat
  BY <1>1, <1>2, RowColumns DEF Ready, SharedTypes, LocalTypes
<1>4. finding' \in FindingRow /\ finding'.version > 0
  BY <1>1, <1>2, SavedIs
<1>5. noted \subseteq noted'
  BY <1>2
<1>6. "race" \notin noted' => /\ "race" \notin noted /\ finding = base[a]
                              /\ finding'.version = finding.version + 1
                              /\ finding'.status = copy[a].status
  BY <1>1, <1>2, SavedIs DEF Consequences
<1>7. Clean' => /\ Clean /\ finding = got[a] /\ \A b \in Writers \ {a} : ~Out(b)
                /\ finding'.status = copy[a].status
  BY <1>2, <1>5, <1>6, CleanBefore DEF Clean, Without, Consequences, OutOfStep, Out
<1>8. plan[a] \in Plans /\ plan[a].entry \in {<<>>} \cup HistoryEntry
  BY <1>1 DEF LocalTypes, Plans
<1>9. Clean' /\ ~LoggedFirst(a) => finding.status = Latest
  BY <1>1, <1>2, <1>3, <1>7 DEF InStep, Together, Out, Logging
<1>10. CASE HasEntry(a) /\ ~SameTransaction(a)
  <2>1. at' = [at EXCEPT ![a] = "log"] /\ UNCHANGED <<history, plan, got, copy, base>>
    BY <1>10 DEF Write, saveVars
  <2>2. LocalTypes' /\ Alone(a) /\ at'[a] = "log"
    BY <1>1, <2>1 DEF LocalTypes, Alone, Places
  <2>3. SharedTypes'
    BY <1>1, <1>2, <1>3, <1>4, <2>1 DEF SharedTypes
  <2>4. Ready(a)'
    BY <1>1, <1>2, <1>4, <1>8, <1>10, <2>1, <2>2 DEF Ready, HasEntry
  <2>5. Versions(a)'
    BY <1>1, <1>3, <1>6, <2>1, <2>2 DEF Versions
  <2>6. ~LoggedFirst(a) /\ Logging(a)' /\ ~LoggedFirst(a)'
    BY <1>10, <2>2 DEF LoggedFirst, Logging, HasEntry
  <2>7. Follows(a)'
    BY <1>1, <1>2, <1>7, <1>9, <2>1, <2>2, <2>6 DEF Follows, Latest
  <2>8. Clean' => Together'
    BY <1>1, <1>7, <2>1, <2>2, <2>6 DEF InStep, Together, Chain, Out, Logging, LoggedFirst, Alone
  <2>9. FirstSeen'
    BY <1>2, <1>3, <1>5, <2>2, FirstSeenKept
  <2>. QED
    BY <1>2, <1>3, <1>4, <1>5, <1>6, <1>7, <2>2, <2>3, <2>4, <2>5, <2>7, <2>8, <2>9, RowStep
<1>11. CASE ~(HasEntry(a) /\ ~SameTransaction(a))
  <2>1. /\ history' = IF HasEntry(a) THEN Append(history, plan[a].entry) ELSE history
        /\ Returns(a)
    BY <1>11 DEF Write
  <2>2. /\ LocalTypes' /\ Alone(a)
        /\ at'[a] \in {"idle", "expire"} /\ plan'[a].entry = <<>> /\ ~plan'[a].locked
        /\ got'[a] = NoFinding /\ base'[a] = NoFinding
    BY <1>1, <2>1, ReturnsTo
  <2>3. history' \in Seq(HistoryEntry)
    <3>1. CASE HasEntry(a)
      <4>1. plan[a].entry \in HistoryEntry /\ history \in Seq(HistoryEntry)
        BY <1>1, <1>8, <3>1 DEF HasEntry, SharedTypes
      <4>2. history' = Append(history, plan[a].entry)
        BY <2>1, <3>1
      <4>. QED
        BY <4>1, <4>2
    <3>2. CASE ~HasEntry(a)
      BY <1>1, <1>3, <2>1, <3>2 DEF SharedTypes
    <3>. QED
      BY <3>1, <3>2
  <2>4. SharedTypes'
    BY <1>1, <1>2, <1>4, <2>3 DEF SharedTypes
  <2>5. Ready(a)'
    BY <2>2 DEF Ready
  <2>6. Versions(a)'
    BY <1>4, <2>2, NoFindingRow, RowColumns DEF Versions
  <2>7. ~Out(a)' /\ Follows(a)'
    BY <2>2 DEF Out, Logging, LoggedFirst, Follows
  <2>8. Clean' => Chain' /\ finding'.status = Latest'
    <3>. SUFFICES ASSUME Clean' PROVE Chain' /\ finding'.status = Latest'
      OBVIOUS
    <3>1. CASE HasEntry(a)
      <4>1. /\ plan[a].entry \in HistoryEntry /\ history \in Seq(HistoryEntry)
            /\ history' = Append(history, plan[a].entry)
        BY <1>1, <1>8, <2>1, <3>1 DEF HasEntry, SharedTypes
      <4>2. plan[a].entry = <<got[a].status, copy[a].status>>
        BY <1>1, <1>2, <1>7, <3>1 DEF Follows, HasEntry
      <4>3. ~LoggedFirst(a)
        BY <3>1 DEF LoggedFirst, HasEntry
      <4>4. plan[a].entry[1] = Latest /\ Chain
        BY <1>1, <1>7, <1>9, <4>2, <4>3 DEF InStep, Together
      <4>5. Chain' /\ Latest' = plan[a].entry[2]
        BY <1>3, <4>1, <4>4, Appended
      <4>. QED
        BY <1>7, <4>2, <4>5
    <3>2. CASE ~HasEntry(a)
      <4>1. history' = history
        BY <2>1, <3>2
      <4>2. copy[a].status = Latest
        <5>1. CASE LoggedFirst(a)
          BY <1>1, <1>7, <5>1 DEF Follows
        <5>2. CASE ~LoggedFirst(a)
          BY <1>2, <1>7, <1>9, <3>2, <5>2 DEF LoggedFirst, HasEntry
        <5>. QED
          BY <5>1, <5>2
      <4>. QED
        BY <1>1, <1>7, <4>1, <4>2 DEF InStep, Together, Chain, Latest
    <3>. QED
      BY <3>1, <3>2
  <2>9. Clean' => Together'
    BY <1>7, <2>2, <2>7, <2>8 DEF Together, Out, Logging, LoggedFirst, Alone
  <2>10. FirstSeen'
    BY <1>2, <1>3, <1>5, <2>2, FirstSeenKept
  <2>. QED
    BY <1>2, <1>3, <1>4, <1>5, <1>6, <1>7, <2>2, <2>4, <2>5, <2>6, <2>7, <2>9, <2>10, RowStep
<1>. QED
  BY <1>10, <1>11

\* The entry, before or after it.
LEMMA LogStep ==
  ASSUME FindingsInv, NEW a \in Writers, LogFirst(a) \/ Log(a)
  PROVE  FindingsInv'
<1>1. LocalTypes /\ SharedTypes /\ Ready(a) /\ Versions(a) /\ Follows(a) /\ InStep
  BY DEF FindingsInv, TypeInv
<1>2. /\ history' = Append(history, plan[a].entry) /\ at[a] \in {"note", "log"}
      /\ UNCHANGED <<db, finding, twin, acceptances, expired, stage, looks, left>>
  BY DEF LogFirst, Log, timeVars, Logging
<1>3. /\ finding.version > 0 /\ finding.version \in Nat
      /\ plan[a].entry \in HistoryEntry /\ plan[a].entry # <<>>
  BY <1>1, <1>2, RowColumns, Entries DEF Ready, SharedTypes
<1>4. noted \subseteq noted'
  BY DEF LogFirst, Log, Note
<1>5. SharedTypes'
  <2>1. history \in Seq(HistoryEntry)
    BY <1>1 DEF SharedTypes
  <2>2. history' \in Seq(HistoryEntry) /\ history' # <<>>
    BY <1>2, <1>3, <2>1
  <2>. QED
    BY <1>1, <1>2, <1>3, <2>2 DEF SharedTypes
<1>6. Clean' => plan[a].entry = <<got[a].status, copy[a].status>>
  BY <1>1, <1>2, <1>3, <1>4, CleanBefore DEF Follows
<1>7. Clean' /\ got[a].status = Latest => Chain' /\ Latest' = copy[a].status
  <2>. SUFFICES ASSUME Clean', got[a].status = Latest PROVE Chain' /\ Latest' = copy[a].status
    OBVIOUS
  <2>1. history \in Seq(HistoryEntry) /\ Chain
    BY <1>1, <1>4, CleanBefore DEF SharedTypes, InStep, Together
  <2>2. plan[a].entry[1] = Latest /\ plan[a].entry[2] = copy[a].status
    BY <1>6
  <2>. QED
    BY <1>2, <1>3, <2>1, <2>2, Appended
<1>8. CASE LogFirst(a)
  <2>1. at[a] = "note" /\ UNCHANGED saveVars
    BY <1>8 DEF LogFirst
  <2>2. /\ LocalTypes' /\ Alone(a) /\ at'[a] = "select" /\ plan'[a].entry = <<>>
        /\ plan'[a].locked = plan[a].locked
    <3>1. plan[a] \in Plans /\ [plan[a] EXCEPT !.entry = <<>>] \in Plans
          /\ [plan[a] EXCEPT !.entry = <<>>].locked = plan[a].locked
          /\ [plan[a] EXCEPT !.entry = <<>>].entry = <<>>
      BY <1>1 DEF LocalTypes, Plans
    <3>2. plan' = [plan EXCEPT ![a] = [plan[a] EXCEPT !.entry = <<>>]]
          /\ at' = [at EXCEPT ![a] = "select"]
      BY <1>8 DEF LogFirst
    <3>. QED
      BY <1>1, <2>1, <3>1, <3>2 DEF LocalTypes, Alone, saveVars, Places
  <2>3. Ready(a)'
    BY <1>1, <1>2, <1>3, <2>1, <2>2 DEF Ready, saveVars
  <2>4. Versions(a)'
    BY <1>1, <1>2, <1>4, <2>1, <2>2, CleanBefore DEF Versions, saveVars
  <2>5. Clean' => finding = got[a] /\ \A b \in Writers \ {a} : ~Out(b)
    BY <1>8 DEF LogFirst, Note, Clean, Without, Consequences, OutOfStep, Out
  <2>6. ~Out(a)
    BY <2>1 DEF Out, Logging, LoggedFirst
  <2>7. Clean' => got[a].status = Latest
    BY <1>1, <1>3, <1>4, <2>5, <2>6, CleanBefore DEF InStep, Together
  <2>8. Clean' => got[a].status # copy[a].status
    BY <1>1, <1>4, <2>1, CleanBefore DEF Follows
  <2>9. Follows(a)'
    BY <1>7, <2>1, <2>2, <2>7 DEF Follows, Logging, LoggedFirst, saveVars
  <2>10. Clean' => LoggedFirst(a)'
    BY <2>1, <2>2, <2>8 DEF LoggedFirst, saveVars
  <2>11. Clean' => Together'
    BY <1>7, <2>2, <2>5, <2>7, <2>10 DEF Together, Out, Logging, LoggedFirst, Alone
  <2>12. FirstSeen'
    BY <1>2, <1>3, <1>4, <2>1, <2>2, FirstSeenKept
  <2>. QED
    BY <1>2, <1>4, <1>5, <2>2, <2>3, <2>4, <2>5, <2>9, <2>11, <2>12, RowStep
<1>9. CASE Log(a)
  <2>1. Logging(a) /\ noted' = noted /\ at[a] = "log"
    BY <1>9 DEF Log, Logging
  <2>2. /\ LocalTypes' /\ Alone(a)
        /\ at'[a] \in {"idle", "expire"} /\ plan'[a].entry = <<>> /\ ~plan'[a].locked
        /\ got'[a] = NoFinding /\ base'[a] = NoFinding
    BY <1>1, <1>9, ReturnsTo DEF Log
  <2>3. Ready(a)'
    BY <2>2 DEF Ready
  <2>4. Versions(a)'
    BY <1>2, <1>3, <2>2, NoFindingRow DEF Versions
  <2>5. ~Out(a)' /\ Follows(a)'
    BY <2>2 DEF Out, Logging, LoggedFirst, Follows
  <2>6. Clean' => Clean /\ \A b \in Writers \ {a} : ~Out(b)
    BY <1>1, <1>4, <2>1, CleanBefore DEF InStep, Together, Out
  <2>7. Clean' => got[a].status = Latest /\ copy[a].status = finding.status
    BY <1>1, <2>1, <2>6 DEF Follows
  <2>8. Clean' => Together'
    BY <1>2, <1>7, <2>2, <2>5, <2>6, <2>7 DEF Together, Out, Logging, LoggedFirst, Alone
  <2>9. FirstSeen'
    BY <1>2, <1>3, <1>4, <2>1, <2>2, FirstSeenKept
  <2>. QED
    BY <1>2, <1>4, <1>5, <2>2, <2>3, <2>4, <2>5, <2>6, <2>8, <2>9, RowStep
<1>. QED
  BY <1>8, <1>9

\* The first row, or a second one.
LEMMA InsertStep ==
  ASSUME FindingsInv, NEW s \in Scans, Insert(s)
  PROVE  FindingsInv'
<1>1. LocalTypes /\ SharedTypes /\ InStep /\ FirstSeen /\ s \in Writers /\ Ready(s)
  BY DEF FindingsInv, TypeInv, Writers
<1>2. at[s] = "insert" /\ UNCHANGED <<db, acceptances, expired, stage, looks, left, noted>>
  BY DEF Insert, timeVars
<1>3. plan[s].look \in Nat /\ finding.version \in Nat /\ finding \in FindingRow
  BY <1>1, RowColumns DEF LocalTypes, Plans, SharedTypes
<1>4. ~Out(s) /\ s \notin Requests
  BY <1>2, FindingKinds DEF Out, Logging, LoggedFirst
<1>5. /\ "overlap" \notin noted => \A o \in Scans \ {s} : at[o] = "idle"
      /\ "overlap" \notin noted => finding.version = 0 /\ ~twin
  BY <1>1, <1>2 DEF FirstSeen
<1>6. ASSUME finding.version = 0, Returns(s) \/ Logging(s)', Alone(s), at'[s] # "insert",
             finding' = Discovered(plan[s].look), UNCHANGED twin, LocalTypes', SharedTypes',
             Ready(s)', Versions(s)', Follows(s)', Chain', Out(s)' \/ Latest' = "OPEN"
      PROVE  FindingsInv'
  <2>1. finding' \in FindingRow /\ finding'.version = 1 /\ finding'.status = "OPEN"
    BY <1>3, <1>6, DiscoveredRow
  <2>2. \A b \in Writers \ {s} : ~Out(b) /\ ~Out(b)'
    <3>. TAKE b \in Writers \ {s}
    <3>1. at[b] \notin {"select", "write", "log"}
      BY <1>6 DEF FindingsInv, TypeInv, Ready
    <3>. QED
      BY <1>6, <3>1 DEF Out, Logging, LoggedFirst, Alone
  <2>3. Together'
    BY <1>1, <1>6, <2>1, <2>2 DEF Together
  <2>4. \A o \in Scans \ {s} : at'[o] = at[o]
    BY <1>6 DEF Alone, Writers
  <2>5. FirstSeen'
    BY <1>2, <1>5, <1>6, <2>4 DEF FirstSeen
  <2>. QED
    BY <1>1, <1>2, <1>3, <1>6, <2>1, <2>2, <2>3, <2>5, RowStep
<1>7. Creation \in HistoryEntry /\ Creation = <<NoFinding.status, "OPEN">> /\ Creation[2] = "OPEN"
  BY NoFindingRow DEF Creation, HistoryEntry, FindingStatus
<1>8. CASE finding.version = 0 /\ db = "postgres"
  <2>1. /\ finding' = Discovered(plan[s].look) /\ history' = Append(history, Creation)
        /\ twin' = twin /\ history = <<>> /\ Returns(s)
    BY <1>1, <1>8 DEF Insert, SharedTypes
  <2>2. /\ LocalTypes' /\ Alone(s)
        /\ at'[s] \in {"idle", "expire"} /\ plan'[s].entry = <<>> /\ ~plan'[s].locked
        /\ got'[s] = NoFinding /\ base'[s] = NoFinding
    BY <1>1, <2>1, ReturnsTo
  <2>3. finding' \in FindingRow /\ finding'.version = 1
    BY <1>3, <2>1, DiscoveredRow
  <2>4. history' = <<Creation>> /\ history' \in Seq(HistoryEntry) /\ history' # <<>>
        /\ Len(history') = 1 /\ history'[1] = Creation
    BY <1>7, <2>1
  <2>5. SharedTypes'
    BY <1>1, <1>2, <2>1, <2>3, <2>4 DEF SharedTypes
  <2>6. Ready(s)' /\ Follows(s)'
    BY <2>2 DEF Ready, Follows, Logging, LoggedFirst
  <2>7. Versions(s)'
    BY <2>2, <2>3, NoFindingRow DEF Versions
  <2>8. Chain' /\ Latest' = "OPEN"
    BY <1>7, <2>4 DEF Chain, Latest
  <2>. QED
    BY <1>6, <1>8, <2>1, <2>2, <2>5, <2>6, <2>7, <2>8
<1>9. CASE finding.version = 0 /\ db # "postgres"
  <2>1. /\ finding' = Discovered(plan[s].look) /\ history' = history /\ twin' = twin
        /\ history = <<>> /\ finding = NoFinding
        /\ Reads(s, Discovered(plan[s].look), Creation) /\ at' = [at EXCEPT ![s] = "log"]
    BY <1>1, <1>9 DEF Insert, SharedTypes
  <2>. DEFINE first == Discovered(plan[s].look)
  <2>2. first \in FindingRow /\ first.version = 1 /\ first.status = "OPEN"
    BY <1>3, DiscoveredRow
  <2>3. "log" \in Places /\ Reads(s, first, Creation) /\ at' = [at EXCEPT ![s] = "log"]
    BY <2>1 DEF Places
  <2>. HIDE DEF first
  <2>4. /\ LocalTypes' /\ Alone(s) /\ at'[s] = "log"
        /\ got'[s] = finding /\ base'[s] = finding /\ copy'[s] = first
        /\ plan'[s].entry = Creation /\ plan'[s].locked = plan[s].locked
    <3>1. Creation \in HistoryEntry /\ first \in FindingRow
      BY <1>7, <2>2
    <3>2. LocalTypes' /\ Alone(s) /\ at'[s] = "log"
      BY <1>1, <1>3, <2>3, <3>1, ReadsFor
    <3>3. got'[s] = finding /\ base'[s] = finding /\ copy'[s] = first
      BY <1>1, <1>3, <2>3, <3>1, ReadsFor
    <3>4. plan[s] \in Plans /\ plan' = [plan EXCEPT ![s] = [plan[s] EXCEPT !.entry = Creation]]
      BY <1>1, <2>3 DEF Reads, LocalTypes
    <3>5. plan'[s] = [plan[s] EXCEPT !.entry = Creation]
      BY <1>1, <3>4 DEF LocalTypes
    <3>6. plan'[s].entry = Creation /\ plan'[s].locked = plan[s].locked
      BY <3>4, <3>5 DEF Plans
    <3>. QED
      BY <3>2, <3>3, <3>6
  <2>5. finding' = first
    BY <2>1 DEF first
  <2>6. SharedTypes'
    BY <1>1, <1>2, <2>1, <2>2, <2>5 DEF SharedTypes
  <2>7. Ready(s)'
    BY <1>1, <1>2, <1>4, <1>7, <2>2, <2>4, <2>5 DEF Ready
  <2>8. Versions(s)'
    BY <2>1, <2>2, <2>4, <2>5, NoFindingRow DEF Versions
  <2>9. Latest' = "NEW" /\ Chain'
    BY <2>1 DEF Latest, Chain
  <2>10. Logging(s)' /\ Out(s)'
    BY <2>4 DEF Out, Logging
  <2>11. Follows(s)'
    BY <1>7, <2>1, <2>2, <2>4, <2>5, <2>9, NoFindingRow DEF Follows, LoggedFirst
  <2>. QED
    BY <1>6, <1>9, <2>1, <2>4, <2>6, <2>7, <2>8, <2>9, <2>10, <2>11
<1>10. CASE finding.version # 0
  <2>1. twin' = TRUE /\ UNCHANGED <<finding, history>> /\ Returns(s)
    BY <1>10 DEF Insert
  <2>2. SharedTypes'
    BY <1>1, <1>2, <2>1 DEF SharedTypes
  <2>3. /\ LocalTypes' /\ Alone(s)
        /\ at'[s] \in {"idle", "expire"} /\ plan'[s].entry = <<>> /\ ~plan'[s].locked
        /\ got'[s] = NoFinding /\ base'[s] = NoFinding
    BY <1>1, <2>1, ReturnsTo
  <2>4. Ready(s)' /\ ~Out(s)' /\ Follows(s)'
    BY <2>3 DEF Ready, Out, Logging, LoggedFirst, Follows
  <2>5. Versions(s)'
    BY <1>3, <1>10, <2>1, <2>3, NoFindingRow DEF Versions
  <2>6. FirstSeen'
    BY <1>2, <1>5, <1>10 DEF FirstSeen
  <2>7. Clean' <=> Clean
    BY <1>2 DEF Clean, Without
  <2>8. \A b \in Writers \ {s} : /\ Ready(b)' /\ Versions(b)' /\ Follows(b)'
                                 /\ (Out(b)' <=> Out(b))
    <3>. TAKE b \in Writers \ {s}
    <3>1. Ready(b) /\ Versions(b) /\ Follows(b)
      BY DEF FindingsInv, TypeInv
    <3>2. Ready(b)'
      BY <1>2, <2>1, <2>3, <3>1 DEF Ready, Alone
    <3>3. Versions(b)'
      BY <1>2, <2>1, <2>3, <3>1 DEF Versions, Alone
    <3>4. Out(b)' <=> Out(b)
      BY <2>3 DEF Out, Logging, LoggedFirst, Alone
    <3>5. Follows(b)'
      BY <2>1, <2>3, <2>7, <3>1 DEF Follows, Alone, Logging, LoggedFirst, Latest
    <3>. QED
      BY <3>2, <3>3, <3>4, <3>5
  <2>9. \A b \in Writers : Ready(b)' /\ Versions(b)' /\ Follows(b)' /\ (Out(b)' <=> Out(b))
    BY <1>4, <2>4, <2>5, <2>8
  <2>10. InStep'
    BY <1>1, <2>1, <2>7, <2>9 DEF InStep, Together, Chain, Latest
  <2>. QED
    BY <2>2, <2>3, <2>6, <2>9, <2>10 DEF FindingsInv, TypeInv
<1>. QED
  BY <1>8, <1>9, <1>10

\* Acceptances that lapse and dates that pass.
LEMMA DatesStep ==
  ASSUME FindingsInv,
         \/ UNCHANGED findingsVars
         \/ \E r \in Acceptances : Lapse(r)
         \/ PassDate
         \/ Outrank
  PROVE  FindingsInv'
<1>1. LocalTypes /\ SharedTypes
  BY DEF FindingsInv, TypeInv
<1>2. /\ UNCHANGED <<db, finding, twin, history, acceptances, at, got, copy, base, plan, looks>>
      /\ \/ noted' = noted
         \/ noted' = noted \cup {"outranked"}
  BY DEF findingsVars, rowVars, timeVars, saveVars, Lapse, PassDate, Outrank, Note
<1>3. SharedTypes'
  <2>1. CASE UNCHANGED findingsVars
    BY <1>1, <2>1 DEF findingsVars, rowVars, timeVars, SharedTypes
  <2>2. CASE \E r \in Acceptances : Lapse(r)
    BY <1>1, <1>2, <2>2 DEF Lapse, SharedTypes
  <2>3. CASE PassDate
    <3>1. left' \in [Occasion -> Nat]
      BY <1>1, <2>3, BeginsLeft DEF PassDate, Occasion
    <3>. QED
      BY <1>1, <1>2, <2>3, <3>1 DEF PassDate, SharedTypes
  <2>4. CASE Outrank
    <3>1. left' \in [Occasion -> Nat]
      BY <1>1, <2>4, BeginsLeft DEF Outrank, Occasion
    <3>. QED
      BY <1>1, <1>2, <2>4, <3>1 DEF Outrank, timeVars, SharedTypes
  <2>. QED
    BY <2>1, <2>2, <2>3, <2>4
<1>4. LocalTypes'
  BY <1>1, <1>2 DEF LocalTypes
<1>5. /\ Clean' <=> Clean
      /\ "race" \in noted' <=> "race" \in noted
      /\ "overlap" \in noted' <=> "overlap" \in noted
  BY <1>2 DEF Clean, Without
<1>6. \A a \in Writers : Ready(a)' /\ Versions(a)' /\ Follows(a)'
  BY <1>2, <1>5 DEF FindingsInv, TypeInv, Ready, Versions, Follows, Logging, LoggedFirst, Latest
<1>7. InStep' /\ FirstSeen'
  BY <1>2, <1>5 DEF FindingsInv, InStep, Together, Chain, Latest, Out, Logging, LoggedFirst, FirstSeen
<1>. QED
  BY <1>3, <1>4, <1>6, <1>7 DEF FindingsInv, TypeInv

-----------------------------------------------------------------------------
(* The theorems. *)

\* The invariant holds at first.
LEMMA FindingsInitially == FindingsInit => FindingsInv
<1>. SUFFICES ASSUME FindingsInit PROVE FindingsInv
  OBVIOUS
<1>. USE FindingKinds DEF FindingsInit
<1>1. LocalTypes
  BY NoFindingRow, IdlePlan DEF LocalTypes, Places
<1>2. Discovered(0) \in FindingRow /\ Discovered(0).version = 1 /\ Discovered(0).status = "OPEN"
  BY DiscoveredRow
<1>3. finding \in FindingRow /\ (finding.version = 0 => history = <<>>)
      /\ (finding.version = 0 => finding = NoFinding)
  BY <1>2, NoFindingRow
<1>4. history \in Seq(HistoryEntry)
  <2>1. Creation \in HistoryEntry
    BY DEF Creation, HistoryEntry, FindingStatus
  <2>. QED
    BY <2>1
<1>5. SharedTypes
  <2>1. db \in {"sqlite", "postgres"} /\ left \in [Occasion -> Nat]
    OBVIOUS
  <2>2. acceptances \in [Acceptances -> {"PENDING", "APPROVED", "REJECTED", "REVOKED", "EXPIRED"}]
    OBVIOUS
  <2>3. stage \in 0 .. 2 /\ looks \in Nat
    OBVIOUS
  <2>4. expired \subseteq Acceptances /\ twin \in BOOLEAN
    OBVIOUS
  <2>. QED
    BY <1>3, <1>4, <2>1, <2>2, <2>3, <2>4 DEF SharedTypes
<1>6. \A a \in Writers : /\ Ready(a) /\ ~Out(a) /\ Follows(a)
                         /\ at[a] = "idle" /\ got[a] = NoFinding /\ base[a] = NoFinding
  BY IdlePlan DEF Ready, Out, Logging, LoggedFirst, Follows
<1>7. \A a \in Writers : Versions(a)
  BY <1>2, <1>6, NoFindingRow DEF Versions
<1>8. Together
  <2>1. Chain /\ Latest = IF finding = NoFinding THEN "NEW" ELSE "OPEN"
    BY NoFindingRow DEF Chain, Latest, Creation
  <2>2. finding.status = IF finding = NoFinding THEN "NEW" ELSE "OPEN"
    BY <1>2, NoFindingRow
  <2>. QED
    BY <1>6, <2>1, <2>2 DEF Together
<1>9. FirstSeen
  BY <1>6 DEF FirstSeen, Writers
<1>. QED
  BY <1>1, <1>5, <1>6, <1>7, <1>8, <1>9 DEF FindingsInv, TypeInv, InStep

\* Every step keeps it.
LEMMA FindingsStep == FindingsInv /\ [FindingsNext]_findingsVars => FindingsInv'
<1>. SUFFICES ASSUME FindingsInv, [FindingsNext]_findingsVars PROVE FindingsInv'
  OBVIOUS
<1>1. Requests \subseteq Writers /\ Scans \subseteq Writers /\ Checks \subseteq Writers
      /\ Expiries \subseteq Writers
  BY DEF Writers
<1>2. ASSUME NEW a \in Writers, Save(a) PROVE FindingsInv'
  BY <1>2, SaversQuiet, QuietStep, WriteStep, LogStep DEF Save
<1>3. ASSUME NEW q \in Requests, View(q) \/ PostUnlocked(q) \/ Decide(q) \/ RequestStep(q)
      PROVE  FindingsInv'
  BY <1>1, <1>2, <1>3, PeopleQuiet, QuietStep DEF RequestStep
<1>4. ASSUME NEW s \in Scans, Look(s) \/ ScanStep(s) PROVE FindingsInv'
  BY <1>1, <1>2, <1>4, ScansQuiet, QuietStep, LogStep, InsertStep DEF ScanStep
<1>5. ASSUME NEW c \in Checks, CheckStep(c) PROVE FindingsInv'
  BY <1>1, <1>2, <1>5, TasksQuiet, QuietStep DEF CheckStep
<1>6. ASSUME NEW e \in Expiries, ExpiryStep(e) PROVE FindingsInv'
  BY <1>1, <1>2, <1>6, TasksQuiet, QuietStep DEF ExpiryStep
<1>7. ASSUME NEW a \in Writers, Lost(a) PROVE FindingsInv'
  BY <1>7, SaversQuiet, QuietStep
<1>. QED
  BY <1>3, <1>4, <1>5, <1>6, <1>7, DatesStep DEF FindingsNext

\* So it holds always.
LEMMA FindingsAlways == FindingsSpec => []FindingsInv
BY FindingsInitially, FindingsStep, PTL DEF FindingsSpec

\* Every row, plan and entry is one the program can have; nobody saves a row that is not
\* there, and who is about to save one has read one.
THEOREM FindingTypes == FindingsSpec => []FindingTypeOK
<1>1. FindingsInv => FindingTypeOK
  BY DEF FindingsInv, TypeInv, LocalTypes, SharedTypes, Ready, FindingTypeOK, HistoryEntry
<1>. QED
  BY <1>1, FindingsAlways, PTL

\* The history is a chain that ends at the present status, as long as no save was lost,
\* refused or overwrote another, and nobody wrote while a row and its entry were apart.
THEOREM HistoryIsTold == FindingsSpec => []HistoryTellsAll
<1>1. FindingsInv => HistoryTellsAll
  <2>. SUFFICES ASSUME FindingsInv, Clean
       PROVE  /\ Chain
              /\ \/ \E a \in Writers : Logging(a) \/ LoggedFirst(a)
                 \/ finding.status = Latest
    BY DEF HistoryTellsAll, Clean, Chain
  <2>1. Together
    BY DEF FindingsInv, InStep
  <2>. QED
    BY <2>1 DEF Together, Out
<1>. QED
  BY <1>1, FindingsAlways, PTL

\* Only scans that overlap insert a second row.
THEOREM DoublesOverlap == FindingsSpec => []OneRow
<1>1. FindingsInv => OneRow
  BY DEF FindingsInv, FirstSeen, OneRow
<1>. QED
  BY <1>1, FindingsAlways, PTL

\* A status that was posted with a version replaces the row that the analyst saw.
THEOREM DecisionsSeen == FindingsSpec => DecidedOnWhatWasSeen
<1>. DEFINE Seen == \A q \in Requests : Decided(q) /\ "race" \notin noted' => finding = got[q]
<1>1. ASSUME FindingsInv, [FindingsNext]_findingsVars PROVE [Seen]_findingsVars
  <2>. SUFFICES ASSUME NEW q \in Requests, Decided(q), "race" \notin noted' PROVE finding = got[q]
    OBVIOUS
  <2>1. at[q] = "write" /\ plan[q].locked /\ finding' # finding /\ at'[q] # "write" /\ q \in Writers
    BY DEF Decided, Writers
  <2>2. LocalTypes /\ SharedTypes /\ Versions(q)
    BY <1>1, <2>1 DEF FindingsInv, TypeInv
  <2>3. ASSUME NEW a \in Writers, Quiet(a) PROVE FALSE
    BY <2>1, <2>3 DEF Quiet
  <2>4. ASSUME NEW a \in Writers, LogFirst(a) \/ Log(a) PROVE FALSE
    BY <2>1, <2>4 DEF LogFirst, Log
  <2>5. ASSUME NEW a \in Writers, Write(a) PROVE finding = got[q]
    <3>1. a = q
      <4>1. \A b \in Writers \ {a} : at'[b] = at[b]
        BY <2>2, <2>5 DEF Write, Returns, LocalTypes
      <4>. QED
        BY <2>1, <4>1
    <3>2. Unmodified(q) /\ finding = base[q] /\ "race" \notin noted
      BY <2>5, <3>1 DEF Write, Note, Consequences
    <3>. QED
      BY <2>1, <2>2, <3>2 DEF Unmodified, Versions, SharedTypes
  <2>6. ASSUME NEW s \in Scans, Insert(s) PROVE FALSE
    <3>1. s # q /\ s \in Writers
      BY FindingKinds DEF Writers
    <3>2. at'[q] = at[q]
      BY <2>1, <2>2, <2>6, <3>1 DEF Insert, Returns, LocalTypes
    <3>. QED
      BY <2>1, <3>2
  <2>7. ASSUME NEW a \in Writers, Save(a) PROVE finding = got[q]
    BY <1>1, <2>3, <2>4, <2>5, <2>7, SaversQuiet DEF Save
  <2>8. Requests \subseteq Writers /\ Scans \subseteq Writers /\ Checks \subseteq Writers
        /\ Expiries \subseteq Writers
    BY DEF Writers
  <2>9. ASSUME NEW p \in Requests, View(p) \/ PostUnlocked(p) \/ Decide(p) \/ RequestStep(p)
         PROVE  finding = got[q]
    BY <1>1, <2>3, <2>7, <2>8, <2>9, PeopleQuiet DEF RequestStep
  <2>10. ASSUME NEW s \in Scans, Look(s) \/ ScanStep(s) PROVE finding = got[q]
    BY <1>1, <2>3, <2>4, <2>6, <2>7, <2>8, <2>10, ScansQuiet DEF ScanStep
  <2>11. ASSUME NEW c \in Checks, CheckStep(c) PROVE finding = got[q]
    BY <1>1, <2>3, <2>7, <2>8, <2>11, TasksQuiet DEF CheckStep
  <2>12. ASSUME NEW e \in Expiries, ExpiryStep(e) PROVE finding = got[q]
    BY <1>1, <2>3, <2>7, <2>8, <2>12, TasksQuiet DEF ExpiryStep
  <2>13. ASSUME NEW a \in Writers, Lost(a) PROVE FALSE
    BY <1>1, <2>3, <2>13, SaversQuiet
  <2>14. ~(\E r \in Acceptances : Lapse(r)) /\ ~PassDate /\ ~Outrank /\ ~UNCHANGED findingsVars
    BY <2>1 DEF Lapse, PassDate, Outrank, findingsVars, rowVars
  <2>. QED
    BY <1>1, <2>9, <2>10, <2>11, <2>12, <2>13, <2>14 DEF FindingsNext
<1>. QED
  BY <1>1, FindingsAlways, PTL DEF FindingsSpec, DecidedOnWhatWasSeen

-----------------------------------------------------------------------------
(* Verification. *)

\* No transition changes last_scan_id.
LEMMA KeptColumns ==
  ASSUME NEW f \in FindingRow, NEW t \in FindingStatus
  PROVE  Moved(f, t).seen = f.seen /\ Resumed(f).seen = f.seen
<1>1. ASSUME NEW g \in FindingRow PROVE Resumed(g).seen = g.seen
  <2>. DEFINE h == [g EXCEPT !.paused = FALSE]
  <2>1. h \in FindingRow /\ h.seen = g.seen /\ Resumed(g) = [h EXCEPT !.sla = Evaluate(h)]
    BY DEF FindingRow, Resumed
  <2>. HIDE DEF h
  <2>. QED
    BY <2>1 DEF FindingRow
<1>. DEFINE g == [f EXCEPT !.status = t]
<1>2. g \in FindingRow /\ g.seen = f.seen
  BY DEF FindingRow
<1>3. Moved(f, t) \in {[g EXCEPT !.sla = "PAUSED", !.paused = TRUE], [g EXCEPT !.sla = "BREACHED"],
                      [g EXCEPT !.sla = "COMPLIED"], Resumed(g), g}
  BY DEF Moved
<1>. HIDE DEF g
<1>4. Moved(f, t).seen = f.seen
  BY <1>1, <1>2, <1>3 DEF FindingRow
<1>. QED
  BY <1>1, <1>4

\* A save of what was read before overwrites nothing.
LEMMA OverwriteNothing ==
  ASSUME NEW b \in FindingRow, NEW new \in FindingRow
  PROVE  Overwrite(b, new, b) = new
<1>1. DOMAIN b = Columns /\ DOMAIN new = Columns /\ new = [c \in Columns |-> new[c]]
  BY RowColumns DEF FindingRow, Columns
<1>. QED
  BY <1>1 DEF Overwrite

\* What a row that says VERIFIED says of the scans.
Consistent(f) == f.status = "VERIFIED" /\ f.verifier > 0 => f.seen < f.verifier

Orderly == Without({"overlap", "attested", "race"})

\* The rows in the database and in the memory of the writers are consistent, and a scan
\* that has looked and not yet written is ahead of all of them.
LooksInOrder ==
  Orderly =>
    /\ Consistent(finding) /\ finding.seen <= looks
    /\ \A a \in Writers : Consistent(copy[a]) /\ copy[a].seen <= looks
    /\ \A s \in Scans :
         /\ at[s] \in {"process", "insert"} => plan[s].look <= looks
         /\ at[s] = "process" =>
              /\ finding.seen < plan[s].look
              /\ \A a \in Writers : copy[a].seen < plan[s].look

VerifiedInv == FindingsInv /\ LooksInOrder

\* The numbers of looks in a state.
LEMMA LooksAreNumbers ==
  ASSUME FindingsInv
  PROVE  /\ looks \in Nat /\ finding \in FindingRow /\ finding.seen \in Nat
         /\ \A a \in Writers : copy[a] \in FindingRow /\ copy[a].seen \in Nat /\ plan[a].look \in Nat
         /\ Scans \subseteq Writers
<1>1. LocalTypes /\ SharedTypes /\ Scans \subseteq Writers
  BY DEF FindingsInv, TypeInv, Writers
<1>2. \A a \in Writers : plan[a].look \in Nat
  BY <1>1 DEF LocalTypes, Plans
<1>. QED
  BY <1>1, <1>2, RowColumns DEF LocalTypes, SharedTypes

\* What a may make of the row without writing it: a consistent row that was last seen when
\* the present one or his last one was, or never, or by the scan that a is.
Copies(a) ==
  Orderly' =>
    /\ Consistent(copy'[a])
    /\ \/ copy'[a].seen \in {0, copy[a].seen, finding.seen}
       \/ a \in Scans /\ at[a] = "process" /\ copy'[a].seen = plan[a].look

\* a stays at work on what it has seen.
Stays(a) ==
  at'[a] \in {"process", "insert"} =>
    at[a] \in {at'[a], "process"} /\ plan'[a].look = plan[a].look

LEMMA OrderlyBefore ==
  ASSUME noted \subseteq noted' PROVE Orderly' => Orderly /\ "overlap" \notin noted /\ "race" \notin noted'
BY DEF Orderly, Without

LEMMA LooksKept ==
  ASSUME VerifiedInv, FindingsInv', NEW a \in Writers, Alone(a), noted \subseteq noted',
         finding' = finding, looks' = looks, Copies(a), Stays(a),
         at'[a] = "process" => copy'[a] = copy[a]
  PROVE  LooksInOrder'
<1>. SUFFICES ASSUME Orderly' PROVE LooksInOrder'
  BY DEF LooksInOrder
<1>1. Orderly /\ FirstSeen /\ "overlap" \notin noted
  BY OrderlyBefore DEF VerifiedInv, FindingsInv
<1>2. \A s, o \in Scans : at[s] # "idle" /\ at[o] # "idle" => s = o
  BY <1>1 DEF FirstSeen
<1>3. \A b \in Writers \ {a} : at'[b] = at[b] /\ copy'[b] = copy[b] /\ plan'[b] = plan[b]
  BY DEF Alone
<1>4. /\ looks \in Nat /\ finding.seen \in Nat /\ Scans \subseteq Writers
      /\ \A b \in Writers : copy[b].seen \in Nat /\ plan[b].look \in Nat
  BY LooksAreNumbers DEF VerifiedInv
<1>5. /\ Consistent(finding) /\ finding.seen <= looks
      /\ \A b \in Writers : Consistent(copy[b]) /\ copy[b].seen <= looks
      /\ \A s \in Scans :
           /\ at[s] \in {"process", "insert"} => plan[s].look <= looks
           /\ at[s] = "process" =>
                /\ finding.seen < plan[s].look
                /\ \A b \in Writers : copy[b].seen < plan[s].look
  BY <1>1 DEF VerifiedInv, LooksInOrder
<1>6. Consistent(finding)' /\ finding'.seen <= looks'
  BY <1>5 DEF Consistent
<1>7. Consistent(copy'[a]) /\ copy'[a].seen <= looks'
  BY <1>4, <1>5 DEF Copies
<1>8. ASSUME NEW b \in Writers PROVE Consistent(copy[b])' /\ copy'[b].seen <= looks'
  BY <1>3, <1>5, <1>7 DEF Consistent
<1>9. ASSUME NEW s \in Scans
      PROVE  /\ at'[s] \in {"process", "insert"} => plan'[s].look <= looks'
             /\ at'[s] = "process" =>
                  /\ finding'.seen < plan'[s].look
                  /\ \A b \in Writers : copy'[b].seen < plan'[s].look
  <2>1. at'[s] \in {"process", "insert"} =>
          at[s] \in {at'[s], "process"} /\ plan'[s].look = plan[s].look
    BY <1>3, <1>4 DEF Stays
  <2>2. ASSUME at'[s] = "process", NEW b \in Writers PROVE copy'[b].seen < plan'[s].look
    <3>1. at[s] = "process" /\ plan'[s].look = plan[s].look
      BY <2>1, <2>2
    <3>2. finding.seen < plan[s].look /\ copy[b].seen < plan[s].look
      BY <1>5, <3>1
    <3>3. CASE b = a
      <4>1. 0 < plan[s].look
        BY <1>4, <3>2
      <4>2. CASE copy'[a].seen \in {0, copy[a].seen, finding.seen}
        BY <3>1, <3>2, <3>3, <4>1, <4>2
      <4>3. CASE a \in Scans /\ at[a] = "process"
        BY <1>2, <2>2, <3>1, <3>2, <3>3, <4>3
      <4>. QED
        BY <4>2, <4>3 DEF Copies
    <3>4. CASE b # a
      BY <1>3, <3>1, <3>2, <3>4
    <3>. QED
      BY <3>3, <3>4
  <2>. QED
    BY <1>5, <2>1, <2>2
<1>. QED
  BY <1>6, <1>8, <1>9 DEF LooksInOrder

\* Forgetting a row.
LEMMA ForgottenCopies ==
  ASSUME NEW a \in Writers, copy'[a] = NoFinding PROVE Copies(a)
BY DEF Copies, Consistent, NoFinding

\* Keeping it.
LEMMA SameCopies ==
  ASSUME VerifiedInv, noted \subseteq noted', NEW a \in Writers, copy'[a] = copy[a] PROVE Copies(a)
BY OrderlyBefore DEF Copies, VerifiedInv, LooksInOrder

\* Reading a row to save what is not VERIFIED.
LEMMA OtherCopies ==
  ASSUME NEW a \in Writers, copy'[a].status # "VERIFIED", copy'[a].seen = finding.seen
  PROVE  Copies(a)
BY DEF Copies, Consistent

LEMMA QuietLooks ==
  ASSUME VerifiedInv, FindingsInv', NEW a \in Writers, Quiet(a), looks' = looks, Copies(a), Stays(a),
         at'[a] = "process" => copy'[a] = copy[a]
  PROVE  LooksInOrder'
BY LooksKept DEF Quiet

\* An analyst who does not attest to it makes no VERIFIED row.
LEMMA TransitionLooks ==
  ASSUME VerifiedInv, NEW q \in Requests, NEW t \in FindingStatus, Transition(q, t),
         t = "VERIFIED" => "attested" \in noted'
  PROVE  Copies(q) /\ at'[q] \notin {"process", "insert"}
<1>1. LocalTypes /\ SharedTypes /\ q \in Writers
  BY DEF VerifiedInv, FindingsInv, TypeInv, Writers
<1>2. finding \in FindingRow
  BY <1>1 DEF SharedTypes
<1>3. CASE CanTransition(finding.status, t)
  <2>1. copy'[q] = Moved(finding, t) /\ at'[q] = AfterRead
    BY <1>1, <1>3 DEF Transition, LocalTypes
  <2>2. copy'[q].status = t /\ copy'[q].seen = finding.seen
    BY <1>2, <2>1, MovedRow, KeptColumns
  <2>3. ASSUME t = "VERIFIED" PROVE Copies(q)
    BY <2>3 DEF Copies, Orderly, Without
  <2>4. ASSUME t # "VERIFIED" PROVE Copies(q)
    BY <1>1, <2>2, <2>4, OtherCopies
  <2>. QED
    BY <2>1, <2>3, <2>4 DEF AfterRead
<1>4. CASE ~CanTransition(finding.status, t)
  <2>1. Returns(q)
    BY <1>4 DEF Transition
  <2>. QED
    BY <1>1, <2>1, ReturnsTo, ForgottenCopies
<1>. QED
  BY <1>3, <1>4

\* Requests keep the looks in order.
LEMMA PeopleLooks ==
  ASSUME VerifiedInv, FindingsInv', NEW q \in Requests,
         View(q) \/ PostUnlocked(q) \/ Decide(q) \/ Post(q) \/ MoveDecided(q)
  PROVE  LooksInOrder'
<1>1. LocalTypes /\ SharedTypes /\ q \in Writers /\ FindingsInv /\ Targets \subseteq FindingStatus
  BY FindingKinds DEF VerifiedInv, FindingsInv, TypeInv, Writers
<1>2. Quiet(q) /\ noted \subseteq noted' /\ looks' = looks
  <2>1. Quiet(q)
    BY <1>1, PeopleQuiet
  <2>. QED
    BY <2>1 DEF Quiet, View, PostUnlocked, Decide, Post, MoveDecided
<1>3. Copies(q) /\ at'[q] \notin {"process", "insert"}
  <2>1. CASE View(q)
    BY <1>1, <1>2, <2>1, SameCopies DEF View, LocalTypes
  <2>2. CASE PostUnlocked(q)
    <3>1. PICK t \in Targets : Transition(q, t) /\ Note(ByHand(t))
      BY <2>2 DEF PostUnlocked
    <3>. QED
      BY <1>1, <3>1, TransitionLooks DEF Note, ByHand
  <2>3. CASE Decide(q)
    <3>1. copy' = copy
      BY <2>3 DEF Decide, saveVars
    <3>2. at'[q] \in {at[q], "accept", "reopen"} /\ at[q] = "idle"
      BY <1>1, <2>3 DEF Decide, LocalTypes
    <3>. QED
      BY <1>1, <1>2, <3>1, <3>2, SameCopies
  <2>4. CASE Post(q)
    <3>1. CASE Returns(q)
      BY <1>1, <3>1, ReturnsTo, ForgottenCopies
    <3>2. CASE \E t \in Targets : Transition(q, t) /\ Note(ByHand(t))
      BY <1>1, <3>2, TransitionLooks DEF Note, ByHand
    <3>. QED
      BY <2>4, <3>1, <3>2 DEF Post
  <2>5. CASE MoveDecided(q)
    <3>1. PICK t \in {"RISK_ACCEPTED", "REOPENED"} : Transition(q, t)
      BY <2>5 DEF MoveDecided
    <3>. QED
      BY <3>1, TransitionLooks DEF FindingStatus
  <2>. QED
    BY <2>1, <2>2, <2>3, <2>4, <2>5
<1>. QED
  BY <1>1, <1>2, <1>3, QuietLooks DEF Stays

\* A scan that looks is ahead of every row.
LEMMA LookLooks ==
  ASSUME VerifiedInv, FindingsInv', NEW s \in Scans, Look(s)
  PROVE  LooksInOrder'
<1>. SUFFICES ASSUME Orderly' PROVE LooksInOrder'
  BY DEF LooksInOrder
<1>1. LocalTypes /\ SharedTypes /\ s \in Writers /\ noted \subseteq noted'
  BY DEF VerifiedInv, FindingsInv, TypeInv, Writers, Look, Note
<1>2. /\ looks \in Nat /\ finding.seen \in Nat /\ Scans \subseteq Writers
      /\ \A b \in Writers : copy[b].seen \in Nat /\ plan[b].look \in Nat
  BY LooksAreNumbers DEF VerifiedInv
<1>3. /\ Consistent(finding) /\ finding.seen <= looks
      /\ \A b \in Writers : Consistent(copy[b]) /\ copy[b].seen <= looks
  BY <1>1, OrderlyBefore DEF VerifiedInv, LooksInOrder
<1>4. \A o \in Scans \ {s} : at[o] = "idle"
  BY DEF Look, Note, Orderly, Without
<1>5. looks' = looks + 1 /\ finding' = finding /\ copy' = copy
  BY DEF Look, rowVars, saveVars
<1>6. ASSUME NEW o \in Scans
      PROVE  at'[o] \notin {"process", "insert"} \/ plan'[o].look = looks + 1
  <2>1. CASE UNCHANGED <<at, plan>>
    BY <1>4, <2>1 DEF Look
  <2>2. CASE ~UNCHANGED <<at, plan>>
    <3>1. PICK seen \in BOOLEAN :
            /\ at'   = [at EXCEPT ![s] = "process"]
            /\ plan' = [plan EXCEPT ![s].look = looks + 1, ![s].seen = seen]
      BY <2>2 DEF Look
    <3>2. plan'[s].look = looks + 1
      BY <1>1, <3>1 DEF LocalTypes, Plans
    <3>3. o # s => at'[o] = at[o]
      BY <1>1, <3>1 DEF LocalTypes
    <3>. QED
      BY <1>4, <3>2, <3>3
  <2>. QED
    BY <2>1, <2>2
<1>7. \A o \in Scans : at'[o] \in {"process", "insert"} => plan'[o].look = looks + 1
  BY <1>6
<1>8. finding.seen < looks + 1 /\ \A b \in Writers : copy[b].seen < looks + 1
  BY <1>2, <1>3
<1>. QED
  BY <1>2, <1>3, <1>5, <1>7, <1>8 DEF LooksInOrder, Consistent

\* A scan verifies with a look that is later than every other, or reopens.
LEMMA ScanLooks ==
  ASSUME VerifiedInv, FindingsInv', NEW s \in Scans,
         SeeAgain(s) \/ SeeTwice(s) \/ SeeFirst(s) \/ Verify(s)
  PROVE  LooksInOrder'
<1>1. LocalTypes /\ SharedTypes /\ s \in Writers /\ FindingsInv
  BY DEF VerifiedInv, FindingsInv, TypeInv, Writers
<1>2. Quiet(s) /\ noted \subseteq noted' /\ looks' = looks
  <2>1. Quiet(s)
    BY <1>1, ScansQuiet
  <2>. QED
    BY <2>1 DEF Quiet, SeeAgain, SeeTwice, SeeFirst, Verify
<1>3. finding \in FindingRow /\ plan[s].look \in Nat /\ at[s] = "process" /\ finding.seen \in Nat
  BY <1>1, LooksAreNumbers DEF SeeAgain, SeeTwice, SeeFirst, Verify
<1>4. Orderly' => finding.seen < plan[s].look
  BY <1>2, <1>3, OrderlyBefore DEF VerifiedInv, LooksInOrder
<1>5. Copies(s) /\ Stays(s) /\ at'[s] # "process"
  <2>1. CASE SeeAgain(s)
    <3>1. copy'[s] = Observed(finding, plan[s].look) /\ at'[s] \in {"note", AfterRead}
      BY <1>1, <2>1 DEF SeeAgain, Reads, LocalTypes
    <3>2. copy'[s].seen = plan[s].look /\ copy'[s].status # "VERIFIED"
      BY <1>3, <3>1 DEF Observed, Reopens, FindingRow
    <3>. QED
      BY <1>3, <3>1, <3>2 DEF Copies, Consistent, Stays, AfterRead
  <2>2. CASE SeeTwice(s)
    <3>1. Returns(s)
      BY <2>2 DEF SeeTwice
    <3>. QED
      BY <1>1, <3>1, ReturnsTo, ForgottenCopies DEF Stays
  <2>3. CASE SeeFirst(s)
    <3>1. copy' = copy /\ plan' = plan /\ at' = [at EXCEPT ![s] = "insert"]
      BY <2>3 DEF SeeFirst, saveVars
    <3>. QED
      BY <1>1, <1>2, <1>3, <3>1, SameCopies DEF Stays, LocalTypes
  <2>4. CASE Verify(s)
    <3>1. CASE Returns(s)
      BY <1>1, <3>1, ReturnsTo, ForgottenCopies DEF Stays
    <3>2. CASE /\ Reads(s, [finding EXCEPT !.status = "VERIFIED", !.verifier = plan[s].look],
                        <<finding.status, "VERIFIED">>)
               /\ at' = [at EXCEPT ![s] = AfterRead]
      <4>1. /\ copy'[s] = [finding EXCEPT !.status = "VERIFIED", !.verifier = plan[s].look]
            /\ at'[s] = AfterRead
        BY <1>1, <3>2 DEF Reads, LocalTypes
      <4>2. copy'[s].seen = finding.seen /\ copy'[s].verifier = plan[s].look
        BY <1>3, <4>1 DEF FindingRow
      <4>. QED
        BY <1>4, <4>1, <4>2 DEF Copies, Consistent, Stays, AfterRead
    <3>. QED
      BY <2>4, <3>1, <3>2 DEF Verify
  <2>. QED
    BY <2>1, <2>2, <2>3, <2>4
<1>. QED
  BY <1>1, <1>2, <1>5, QuietLooks

\* The tasks make no row VERIFIED.
LEMMA TaskLooks ==
  ASSUME VerifiedInv, FindingsInv', NEW c \in Checks \cup Expiries,
         \/ c \in Checks /\ Check(c)
         \/ c \in Expiries /\ (ListOver(c) \/ Expire(c) \/ ReopenOver(c))
  PROVE  LooksInOrder'
<1>1. LocalTypes /\ SharedTypes /\ c \in Writers /\ FindingsInv /\ finding \in FindingRow
  BY DEF VerifiedInv, FindingsInv, TypeInv, SharedTypes, Writers
<1>2. Quiet(c) /\ noted \subseteq noted' /\ looks' = looks
  <2>1. Quiet(c)
    BY <1>1, TasksQuiet
  <2>. QED
    BY <2>1 DEF Quiet, Check, ListOver, Expire, ReopenOver
<1>3. Copies(c) /\ at'[c] \notin {"process", "insert"}
  <2>1. CASE c \in Checks /\ Check(c)
    <3>1. copy'[c] = [finding EXCEPT !.sla = Evaluate(finding)] /\ at'[c] = "select"
      BY <1>1, <2>1 DEF Check, Reads, LocalTypes
    <3>2. copy'[c].status = finding.status /\ copy'[c].seen = finding.seen
          /\ finding.status # "VERIFIED"
      BY <1>1, <2>1, <3>1 DEF Check, Settled, FindingRow
    <3>. QED
      BY <1>1, <3>1, <3>2, OtherCopies
  <2>2. CASE c \in Expiries /\ (ListOver(c) \/ Expire(c))
    <3>1. copy' = copy /\ at'[c] \in {"expire", "reopen"}
      BY <1>1, <2>2 DEF ListOver, Expire, saveVars, LocalTypes
    <3>. QED
      BY <1>1, <1>2, <3>1, SameCopies
  <2>3. CASE c \in Expiries /\ ReopenOver(c)
    <3>1. CASE Returns(c)
      BY <1>1, <3>1, ReturnsTo, ForgottenCopies
    <3>2. CASE /\ Reads(c, Resumed([finding EXCEPT !.status = "REOPENED"]),
                        <<"RISK_ACCEPTED", "REOPENED">>)
               /\ at' = [at EXCEPT ![c] = "select"]
      <4>. DEFINE g == [finding EXCEPT !.status = "REOPENED"]
      <4>1. copy'[c] = Resumed(g) /\ at'[c] = "select"
        BY <1>1, <3>2 DEF Reads, LocalTypes
      <4>2. g \in FindingRow /\ g.status = "REOPENED" /\ g.seen = finding.seen
        BY <1>1 DEF FindingRow, FindingStatus
      <4>. HIDE DEF g
      <4>3. copy'[c].status = "REOPENED" /\ copy'[c].seen = finding.seen
        BY <4>1, <4>2, ResumedRow, KeptColumns DEF FindingRow
      <4>. QED
        BY <1>1, <4>1, <4>3, OtherCopies
    <3>. QED
      BY <2>3, <3>1, <3>2 DEF ReopenOver
  <2>. QED
    BY <2>1, <2>2, <2>3
<1>. QED
  BY <1>1, <1>2, <1>3, QuietLooks DEF Stays

\* Writers that read again, give up, log or are lost keep what they have or forget it.
LEMMA SaverLooks ==
  ASSUME VerifiedInv, FindingsInv', NEW a \in Writers,
         Select(a) \/ Conflict(a) \/ Log(a) \/ LogFirst(a) \/ Lost(a)
  PROVE  LooksInOrder'
<1>1. LocalTypes /\ SharedTypes /\ FindingsInv
  BY DEF VerifiedInv, FindingsInv, TypeInv
<1>2. noted \subseteq noted' /\ looks' = looks /\ finding' = finding
  BY DEF Select, Conflict, Log, LogFirst, Lost, Note, rowVars
<1>3. CASE Conflict(a) \/ Log(a)
  <2>1. Returns(a)
    BY <1>3 DEF Conflict, Log
  <2>. QED
    BY <1>1, <1>2, <2>1, ReturnsTo, ForgottenCopies, LooksKept DEF Stays
<1>4. CASE Select(a) \/ LogFirst(a)
  <2>1. copy' = copy /\ at'[a] \in {"write", "select"}
    BY <1>1, <1>4 DEF Select, LogFirst, saveVars, LocalTypes
  <2>2. \A b \in Writers \ {a} : at'[b] = at[b] /\ got'[b] = got[b] /\ base'[b] = base[b]
                                 /\ plan'[b] = plan[b]
    BY <1>1, <1>4 DEF Select, LogFirst, saveVars, LocalTypes
  <2>3. Alone(a) /\ Stays(a)
    BY <2>1, <2>2 DEF Alone, Stays
  <2>. QED
    BY <1>2, <2>1, <2>3, SameCopies, LooksKept
<1>5. CASE Lost(a)
  <2>1. Alone(a) /\ copy'[a] = NoFinding /\ at'[a] = "idle"
    BY <1>1, <1>5 DEF Lost, Alone, LocalTypes
  <2>. QED
    BY <1>2, <2>1, ForgottenCopies, LooksKept DEF Stays
<1>. QED
  BY <1>3, <1>4, <1>5

\* A save puts a writer's row into the database.
LEMMA WriteLooks ==
  ASSUME VerifiedInv, FindingsInv', NEW a \in Writers, Write(a)
  PROVE  LooksInOrder'
<1>. SUFFICES ASSUME Orderly' PROVE LooksInOrder'
  BY DEF LooksInOrder
<1>1. LocalTypes /\ SharedTypes /\ FindingsInv
  BY DEF VerifiedInv, FindingsInv, TypeInv
<1>2. /\ noted \subseteq noted' /\ looks' = looks /\ finding' = Saved(a) /\ at[a] = "write"
      /\ finding = base[a]
  BY DEF Write, Note, Consequences, Orderly, Without
<1>3. Orderly /\ FirstSeen /\ "overlap" \notin noted
  BY <1>1, <1>2, OrderlyBefore DEF FindingsInv
<1>4. copy[a] \in FindingRow /\ base[a] \in FindingRow /\ finding \in FindingRow
  BY <1>1 DEF LocalTypes, SharedTypes
<1>5. SavedRow(a) \in FindingRow /\ SavedRow(a).seen = copy[a].seen
      /\ SavedRow(a).status = copy[a].status /\ SavedRow(a).verifier = copy[a].verifier
  BY <1>4, RowColumns DEF SavedRow, FindingRow
<1>6. finding' = SavedRow(a)
  BY <1>2, <1>4, <1>5, OverwriteNothing DEF Saved
<1>7. /\ looks \in Nat /\ Scans \subseteq Writers
      /\ \A b \in Writers : copy[b].seen \in Nat /\ plan[b].look \in Nat
  BY <1>1, LooksAreNumbers
<1>8. /\ \A b \in Writers : Consistent(copy[b]) /\ copy[b].seen <= looks
      /\ \A s \in Scans :
           /\ at[s] \in {"process", "insert"} => plan[s].look <= looks
           /\ at[s] = "process" => \A b \in Writers : copy[b].seen < plan[s].look
  BY <1>3 DEF VerifiedInv, LooksInOrder
<1>9. /\ \A b \in Writers \ {a} : at'[b] = at[b] /\ plan'[b] = plan[b] /\ copy'[b] = copy[b]
      /\ at'[a] \notin {"process", "insert"}
      /\ copy'[a] \in {copy[a], NoFinding}
  <2>1. CASE Returns(a)
    BY <1>1, <2>1, ReturnsTo DEF Alone
  <2>2. CASE at' = [at EXCEPT ![a] = "log"] /\ UNCHANGED <<history, plan, saveVars>>
    BY <1>1, <2>2 DEF LocalTypes, saveVars
  <2>. QED
    BY <2>1, <2>2 DEF Write
<1>10. Consistent(finding)' /\ finding'.seen <= looks'
  BY <1>2, <1>5, <1>6, <1>8 DEF Consistent
<1>11. Consistent(NoFinding) /\ NoFinding.seen = 0
  BY DEF Consistent, NoFinding
<1>12. ASSUME NEW b \in Writers PROVE Consistent(copy'[b]) /\ copy'[b].seen <= looks'
  BY <1>2, <1>7, <1>8, <1>9, <1>11
<1>13. ASSUME NEW s \in Scans, at'[s] \in {"process", "insert"}
       PROVE  /\ plan'[s].look <= looks'
              /\ at'[s] = "process" => /\ finding'.seen < plan'[s].look
                                       /\ \A b \in Writers : copy'[b].seen < plan'[s].look
  <2>1. s # a /\ s \in Writers /\ at[s] = at'[s] /\ plan'[s] = plan[s]
    BY <1>7, <1>9, <1>13
  <2>2. plan[s].look <= looks
    BY <1>8, <1>13, <2>1
  <2>3. ASSUME at'[s] = "process", NEW b \in Writers PROVE copy'[b].seen < plan'[s].look
    <3>1. copy[b].seen < plan[s].look
      BY <1>8, <2>1, <2>3
    <3>2. copy'[b].seen \in {copy[b].seen, 0}
      BY <1>9, <1>11
    <3>3. copy[b].seen \in Nat /\ plan[s].look \in Nat
      BY <1>7, <2>1
    <3>. QED
      BY <2>1, <3>1, <3>2, <3>3
  <2>4. at'[s] = "process" => copy[a].seen < plan[s].look
    BY <1>8, <2>1
  <2>. QED
    BY <1>2, <1>5, <1>6, <2>1, <2>2, <2>3, <2>4
<1>. QED
  BY <1>10, <1>12, <1>13 DEF LooksInOrder, Consistent

\* A finding that is new is open.
LEMMA InsertLooks ==
  ASSUME VerifiedInv, FindingsInv', NEW s \in Scans, Insert(s)
  PROVE  LooksInOrder'
<1>. SUFFICES ASSUME Orderly' PROVE LooksInOrder'
  BY DEF LooksInOrder
<1>1. LocalTypes /\ SharedTypes /\ FindingsInv /\ s \in Writers /\ noted' = noted /\ looks' = looks
      /\ at[s] = "insert"
  BY DEF VerifiedInv, FindingsInv, TypeInv, Writers, Insert
<1>2. Orderly /\ FirstSeen /\ "overlap" \notin noted
  BY <1>1, OrderlyBefore DEF FindingsInv
<1>3. /\ looks \in Nat /\ finding.seen \in Nat /\ Scans \subseteq Writers
      /\ \A b \in Writers : copy[b].seen \in Nat /\ plan[b].look \in Nat
  BY <1>1, LooksAreNumbers
<1>4. /\ Consistent(finding) /\ finding.seen <= looks /\ plan[s].look <= looks
      /\ \A b \in Writers : Consistent(copy[b]) /\ copy[b].seen <= looks
  BY <1>1, <1>2 DEF VerifiedInv, LooksInOrder
<1>. DEFINE first == Discovered(plan[s].look)
<1>5. Consistent(NoFinding) /\ NoFinding.seen = 0 /\ Consistent(first) /\ first.seen = plan[s].look
      /\ first \in FindingRow
  BY <1>3, DiscoveredRow DEF Consistent, NoFinding, Discovered
<1>6. Alone(s) /\ at'[s] \in {"idle", "expire", "log"} /\ copy'[s] \in {NoFinding, first}
  <2>1. CASE Returns(s)
    BY <1>1, <2>1, ReturnsTo
  <2>2. CASE Reads(s, first, Creation) /\ at' = [at EXCEPT ![s] = "log"]
    <3>1. "log" \in Places /\ Creation \in HistoryEntry /\ finding \in FindingRow
      BY <1>1 DEF Places, Creation, HistoryEntry, FindingStatus, SharedTypes
    <3>. HIDE DEF first
    <3>. QED
      BY <1>1, <1>5, <2>2, <3>1, ReadsFor
  <2>. QED
    BY <2>1, <2>2 DEF Insert
<1>7. finding' \in {finding, first}
  BY DEF Insert
<1>8. Consistent(finding') /\ finding'.seen <= looks'
  BY <1>1, <1>4, <1>5, <1>7
<1>9. \A b \in Writers : Consistent(copy'[b]) /\ copy'[b].seen <= looks'
  BY <1>1, <1>3, <1>4, <1>5, <1>6 DEF Alone
<1>10. \A o \in Scans : at'[o] \notin {"process", "insert"}
  <2>1. \A o \in Scans \ {s} : at[o] = "idle" /\ at'[o] = at[o]
    BY <1>1, <1>2, <1>3, <1>6 DEF FirstSeen, Alone
  <2>. QED
    BY <1>6, <2>1
<1>. QED
  BY <1>8, <1>9, <1>10 DEF LooksInOrder, Consistent

LEMMA LooksStep == VerifiedInv /\ [FindingsNext]_findingsVars => VerifiedInv'
<1>. SUFFICES ASSUME VerifiedInv, [FindingsNext]_findingsVars PROVE LooksInOrder'
  BY FindingsStep DEF VerifiedInv
<1>1. FindingsInv'
  BY FindingsStep DEF VerifiedInv
<1>2. Requests \subseteq Writers /\ Scans \subseteq Writers /\ Checks \subseteq Writers
      /\ Expiries \subseteq Writers
  BY DEF Writers
<1>3. ASSUME NEW a \in Writers, Save(a) PROVE LooksInOrder'
  BY <1>1, <1>3, SaverLooks, WriteLooks DEF Save
<1>4. ASSUME NEW q \in Requests, View(q) \/ PostUnlocked(q) \/ Decide(q) \/ RequestStep(q)
      PROVE  LooksInOrder'
  BY <1>1, <1>2, <1>3, <1>4, PeopleLooks DEF RequestStep
<1>5. ASSUME NEW s \in Scans, Look(s) \/ ScanStep(s) PROVE LooksInOrder'
  BY <1>1, <1>2, <1>3, <1>5, LookLooks, ScanLooks, SaverLooks, InsertLooks DEF ScanStep
<1>6. ASSUME NEW c \in Checks, CheckStep(c) PROVE LooksInOrder'
  BY <1>1, <1>2, <1>3, <1>6, TaskLooks DEF CheckStep
<1>7. ASSUME NEW e \in Expiries, ExpiryStep(e) PROVE LooksInOrder'
  BY <1>1, <1>2, <1>3, <1>7, TaskLooks DEF ExpiryStep
<1>8. ASSUME \/ \E r \in Acceptances : Lapse(r)
             \/ PassDate
             \/ Outrank
             \/ UNCHANGED findingsVars
      PROVE  LooksInOrder'
  <2>1. /\ UNCHANGED <<finding, copy, at, plan, looks>>
        /\ \/ noted' = noted
           \/ noted' = noted \cup {"outranked"}
    BY <1>8 DEF Lapse, PassDate, Outrank, Note, findingsVars, rowVars, saveVars
  <2>2. Orderly' => Orderly
    BY <2>1 DEF Orderly, Without
  <2>. QED
    BY <2>1, <2>2 DEF VerifiedInv, LooksInOrder, Consistent
<1>9. ASSUME NEW a \in Writers, Lost(a) PROVE LooksInOrder'
  BY <1>1, <1>9, SaverLooks
<1>. QED
  BY <1>4, <1>5, <1>6, <1>7, <1>8, <1>9 DEF FindingsNext

\* A finding that a scan has verified was not seen by a later scan, for any number of
\* writers and whatever they ask for.
THEOREM VerifiedLast == FindingsSpec => []VerifiedByTheLatest
<1>1. FindingsInit => VerifiedInv
  <2>. SUFFICES ASSUME FindingsInit PROVE LooksInOrder
    BY FindingsInitially DEF VerifiedInv
  <2>0. NoFinding.seen = 0 /\ Discovered(0).seen = 0
    BY DEF NoFinding, Discovered
  <2>1. finding.seen = 0 /\ finding.status # "VERIFIED" /\ looks = 0
    BY <2>0, NoFindingRow, DiscoveredRow DEF FindingsInit
  <2>2. \A a \in Writers : copy[a] = NoFinding /\ at[a] = "idle"
    BY DEF FindingsInit
  <2>. QED
    BY <2>1, <2>2 DEF LooksInOrder, Consistent, NoFinding, Writers
<1>2. VerifiedInv => VerifiedByTheLatest
  BY DEF VerifiedInv, LooksInOrder, Consistent, Orderly, VerifiedByTheLatest
<1>. QED
  BY <1>1, <1>2, LooksStep, PTL DEF FindingsSpec
=============================================================================
