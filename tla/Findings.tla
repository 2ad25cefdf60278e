------------------------------ MODULE Findings ------------------------------
(***************************************************************************)
(* One finding and everybody who writes its row: analysts who change its   *)
(* status, admins who decide on risk acceptances, scans that see it or do  *)
(* not see it any more, the task that evaluates its SLA and the task that  *)
(* ends risk acceptances.  Findings share no row; that two rows may come   *)
(* to stand for one finding is remembered in twin.                         *)
(*                                                                         *)
(* One action is one statement (SQLite commits each) or one transaction    *)
(* (PostgreSQL), split where it writes what it has read without a lock.    *)
(***************************************************************************)
EXTENDS Naturals, FiniteSets, Sequences

CONSTANTS
  Requests,    \* requests of analysts and admins
  Scans,       \* scans of the finding's asset
  Checks,      \* runs of evaluate_sla_breaches
  Expiries,    \* runs of expire_risk_acceptances
  Acceptances, \* risk acceptances of the finding
  Targets,     \* the statuses that analysts ask for
  Databases,   \* which of "sqlite" and "postgres" are looked at
  Allowances   \* scenarios: how often people and scans begin, writers crash, dates pass,
               \* other findings come before this one

Writers == Requests \cup Scans \cup Checks \cup Expiries
Occasion == {"view", "decide", "scan", "crash", "date", "outrank"}

FindingStatus ==
  {"NEW", "OPEN", "ACKNOWLEDGED", "IN_PROGRESS", "REMEDIATED", "VERIFICATION_PENDING",
   "VERIFIED", "RISK_ACCEPTED", "FALSE_POSITIVE", "CLOSED", "REOPENED"}

ASSUME FindingKinds ==
  /\ Requests \cap (Scans \cup Checks \cup Expiries) = {}
  /\ Scans \cap (Checks \cup Expiries) = {} /\ Checks \cap Expiries = {}
  /\ Targets \subseteq FindingStatus
  /\ Databases \subseteq {"sqlite", "postgres"}
  /\ Allowances \subseteq [Occasion -> Nat]

VARIABLES
  db,
  finding,      \* the row; version 0: there is none; verifier, seen: the look at the asset
                \* of verified_by_scan_id, last_scan_id
  twin,         \* a second row with the same fingerprint exists
  acceptances,  \* risk_acceptances.status
  expired,      \* the acceptances whose valid_until has passed
  stage,        \* of the SLA: 0, 1 past the warning date, 2 past sla_due_at
  history,      \* finding_history: old and new status of each entry
  at,
  got,          \* the row as a writer read it
  copy,         \* what a writer is about to make of it
  base,         \* the row as the save of a writer read it
  plan,         \* what else a writer knows, see Idle
  looks,        \* how often a scan has looked at the asset
  noted,        \* history: what has happened
  left          \* what is left of the scenario

rowVars  == <<finding, twin, acceptances, history>>
timeVars == <<expired, stage>>
saveVars == <<got, copy, base>>
findingsVars == <<db, rowVars, timeVars, at, saveVars, plan, looks, noted, left>>

NoFinding == [version |-> 0, status |-> "NEW", sla |-> "ON_TRACK", paused |-> FALSE,
              verifier |-> 0, seen |-> 0]

Unversioned(n) == [NoFinding EXCEPT !.status = "OPEN", !.seen = n]

\* The entry of a finding that is new.
Creation == <<"NEW", "OPEN">>

\* A finding that the n-th look at the asset has discovered.
Discovered(n) == [NoFinding EXCEPT !.version = 1, !.status = "OPEN", !.seen = n]

\* entry: the history entry to be written; locked: expected_version is given; ras: the
\* acceptances a request or an expiry run is dealing with; look, seen: of a scan.
Idle == [entry |-> <<>>, locked |-> FALSE, ras |-> {}, look |-> 0, seen |-> FALSE]

FindingsInit ==
  /\ db \in Databases
  /\ finding \in {NoFinding, Discovered(0)}
  /\ twin = FALSE
  /\ acceptances = [r \in Acceptances |-> "PENDING"]
  /\ expired = {} /\ stage = 0
  /\ history = IF finding = NoFinding THEN <<>> ELSE <<Creation>>
  /\ at   = [a \in Writers |-> "idle"]
  /\ got  = [a \in Writers |-> NoFinding]
  /\ copy = [a \in Writers |-> NoFinding]
  /\ base = [a \in Writers |-> NoFinding]
  /\ plan = [a \in Writers |-> Idle]
  /\ looks = 0 /\ noted = {}
  /\ left \in Allowances

-----------------------------------------------------------------------------
(* lifecycle.py and sla_engine.py *)

Transitions ==
  [s \in FindingStatus |->
     CASE s = "NEW"    -> {"OPEN", "ACKNOWLEDGED", "IN_PROGRESS", "FALSE_POSITIVE", "RISK_ACCEPTED"}
       [] s = "OPEN"   -> {"ACKNOWLEDGED", "IN_PROGRESS", "REMEDIATED", "VERIFICATION_PENDING",
                           "RISK_ACCEPTED", "FALSE_POSITIVE"}
       [] s = "ACKNOWLEDGED" -> {"IN_PROGRESS", "REMEDIATED", "RISK_ACCEPTED", "FALSE_POSITIVE", "OPEN"}
       [] s = "IN_PROGRESS"  -> {"REMEDIATED", "ACKNOWLEDGED", "OPEN", "RISK_ACCEPTED"}
       [] s = "REMEDIATED"   -> {"VERIFICATION_PENDING", "VERIFIED", "IN_PROGRESS", "REOPENED"}
       [] s = "VERIFICATION_PENDING" -> {"VERIFIED", "REOPENED", "IN_PROGRESS", "REMEDIATED"}
       [] s = "VERIFIED"      -> {"CLOSED", "REOPENED"}
       [] s = "RISK_ACCEPTED" -> {"OPEN", "REOPENED", "IN_PROGRESS", "CLOSED"}
       [] s = "FALSE_POSITIVE" -> {"OPEN", "REOPENED"}
       [] s = "CLOSED"   -> {"REOPENED"}
       [] s = "REOPENED" -> {"ACKNOWLEDGED", "IN_PROGRESS", "REMEDIATED", "RISK_ACCEPTED",
                             "FALSE_POSITIVE", "OPEN"}]

NoneFromAccepted(s, t) == s = t \/ (s # "RISK_ACCEPTED" /\ t \in Transitions[s])

CanTransition(s, t) == s = t \/ t \in Transitions[s]

Settled == {"REMEDIATED", "VERIFIED", "CLOSED", "FALSE_POSITIVE"}

OnceOnly(f) == IF f.sla = "ON_TRACK" /\ stage > 0 THEN "WARNING" ELSE f.sla

\* evaluate_finding_sla_status: what is PAUSED stays PAUSED.
Evaluate(f) ==
  IF f.status = "RISK_ACCEPTED" \/ f.paused \/ f.sla = "PAUSED" THEN "PAUSED"
  ELSE IF f.status \in Settled THEN IF f.sla = "BREACHED" THEN "BREACHED" ELSE "COMPLIED"
  ELSE IF stage = 2 THEN "BREACHED"
  ELSE IF stage = 1 THEN "WARNING" ELSE "ON_TRACK"

Resumed(f) == LET g == [f EXCEPT !.paused = FALSE] IN [g EXCEPT !.sla = Evaluate(g)]

\* What transition_finding_status makes of f.
Moved(f, t) ==
  LET g == [f EXCEPT !.status = t]
  IN  IF t = "RISK_ACCEPTED" THEN [g EXCEPT !.sla = "PAUSED", !.paused = TRUE]
      ELSE IF t \in Settled
        THEN [g EXCEPT !.sla = IF f.sla = "BREACHED" THEN "BREACHED" ELSE "COMPLIED"]
      ELSE IF f.status = "RISK_ACCEPTED" /\ t \in {"OPEN", "REOPENED", "IN_PROGRESS"}
        THEN Resumed(g)
      ELSE g

-----------------------------------------------------------------------------
(* Reading and saving the row. *)

Note(E) == noted' = noted \cup E

Begins(o) == left[o] > 0 /\ left' = [left EXCEPT ![o] = @ - 1]

\* A transaction of PostgreSQL that reads the row and saves it later finds its own copy
\* when the save reads it again; SQLite reads the version again.
Reads(a, new, entry) ==
  /\ got'  = [got EXCEPT ![a] = finding]
  /\ copy' = [copy EXCEPT ![a] = new]
  /\ base' = [base EXCEPT ![a] = finding]
  /\ plan' = [plan EXCEPT ![a].entry = entry]

AfterRead == IF db = "postgres" THEN "write" ELSE "select"

\* Forget everything but the acceptances that are still to be looked at.
Returns(a) ==
  /\ at'   = [at EXCEPT ![a] = IF a \in Expiries /\ plan[a].ras # {} THEN "expire" ELSE "idle"]
  /\ got'  = [got EXCEPT ![a] = NoFinding]
  /\ copy' = [copy EXCEPT ![a] = NoFinding]
  /\ base' = [base EXCEPT ![a] = NoFinding]
  /\ plan' = [plan EXCEPT ![a] = [Idle EXCEPT !.ras = IF a \in Expiries THEN plan[a].ras ELSE {}]]

Select(a) ==
  /\ at[a] = "select"
  /\ at'   = [at EXCEPT ![a] = "write"]
  /\ base' = [base EXCEPT ![a] = finding]
  /\ UNCHANGED <<db, rowVars, timeVars, got, copy, plan, looks, noted, left>>

AnyVersion(a) == TRUE

\* UPDATE ... WHERE id = ? AND version = ?  On PostgreSQL there is no such condition.
Unmodified(a) ==
  \/ db = "postgres"
  \/ finding.version = IF plan[a].locked THEN got[a].version ELSE base[a].version

SavedRow(a) == [copy[a] EXCEPT !.version = base[a].version + 1]

\* The flush of PostgreSQL writes the columns that differ from what the save read.
Overwrite(b, new, old) == [c \in DOMAIN old |-> IF new[c] # b[c] THEN new[c] ELSE old[c]]

Saved(a) == IF db = "postgres" THEN Overwrite(base[a], SavedRow(a), finding) ELSE SavedRow(a)

Logging(a) == at[a] = "log"

\* A reopening of SQLite that is in the history and not yet in the row.
LoggedFirst(a) ==
  at[a] \in {"select", "write"} /\ copy[a].status # got[a].status /\ plan[a].entry = <<>>

\* behind: an entry or a row is written while another writer's row and entry are apart.
OutOfStep(a) ==
  IF \E b \in Writers \ {a} : Logging(b) \/ LoggedFirst(b) THEN {"behind"} ELSE {}

\* lost: the row is not what the writer read, and it overwrites the change.
\* race: it is not what its own save read.  accepted: the risk of the finding is accepted.
Consequences(a) ==
  OutOfStep(a) \cup (IF finding # got[a] THEN {"lost"} ELSE {})
               \cup (IF finding # base[a] THEN {"race"} ELSE {})
               \cup (IF copy[a].status = "RISK_ACCEPTED" THEN {"accepted"} ELSE {})

SameTransaction(a) == db = "postgres" /\ a \in Requests \cup Scans

HasPersonsEntry(a) == plan[a].entry # <<>> /\ a \notin Expiries

HasEntry(a) == plan[a].entry # <<>>

Write(a) ==
  /\ at[a] = "write" /\ Unmodified(a)
  /\ finding' = Saved(a)
  /\ Note(Consequences(a))
  /\ IF HasEntry(a) /\ ~SameTransaction(a)
       THEN /\ at' = [at EXCEPT ![a] = "log"]
            /\ UNCHANGED <<history, plan, saveVars>>
       ELSE /\ history' = IF HasEntry(a) THEN Append(history, plan[a].entry) ELSE history
            /\ Returns(a)
  /\ UNCHANGED <<db, twin, acceptances, timeVars, looks, left>>

\* OptimisticLockError
Conflict(a) ==
  /\ at[a] = "write" /\ ~Unmodified(a)
  /\ Note({"conflict"})
  /\ Returns(a)
  /\ UNCHANGED <<db, rowVars, timeVars, looks, left>>

Log(a) ==
  /\ Logging(a)
  /\ history' = Append(history, plan[a].entry)
  /\ Returns(a)
  /\ UNCHANGED <<db, finding, twin, acceptances, timeVars, looks, noted, left>>
-----------------------------------------------------------------------------
(* Analysts and admins. *)

\* The page that is posted later carries the version it showed.
View(q) ==
  /\ at[q] = "idle" /\ finding.version > 0
  /\ Begins("view")
  /\ at'   = [at EXCEPT ![q] = "viewed"]
  /\ got'  = [got EXCEPT ![q] = finding]
  /\ plan' = [plan EXCEPT ![q].locked = TRUE]
  /\ UNCHANGED <<db, rowVars, timeVars, copy, base, looks, noted>>

\* transition_finding_status up to the save.
Transition(q, t) ==
  IF CanTransition(finding.status, t)
    THEN /\ at'   = [at EXCEPT ![q] = AfterRead]
         /\ copy' = [copy EXCEPT ![q] = Moved(finding, t)]
         /\ base' = [base EXCEPT ![q] = finding]
         /\ got'  = [got EXCEPT ![q] = IF plan[q].locked THEN @ ELSE finding]
         /\ plan' = [plan EXCEPT ![q].entry = <<finding.status, t>>]
    ELSE Returns(q)

\* manual: a risk is accepted without an acceptance.  attested: a person says that the
\* weakness is gone; verified_by_scan_id keeps the scan of an earlier verification.
ByHand(t) ==
  IF t = "RISK_ACCEPTED" THEN {"manual"} ELSE IF t = "VERIFIED" THEN {"attested"} ELSE {}

\* With expected_version; an older version is answered by 409.
Post(q) ==
  /\ at[q] = "viewed"
  /\ IF finding.version = got[q].version
       THEN \E t \in Targets : Transition(q, t) /\ Note(ByHand(t))
       ELSE Returns(q) /\ UNCHANGED noted
  /\ UNCHANGED <<db, rowVars, timeVars, looks, left>>

\* Without it; so does verify_finding with the target VERIFICATION_PENDING.
PostUnlocked(q) ==
  /\ at[q] = "idle" /\ finding.version > 0
  /\ Begins("view")
  /\ \E t \in Targets : Transition(q, t) /\ Note(ByHand(t))
  /\ UNCHANGED <<db, rowVars, timeVars, looks>>

Deciding(r) ==
  \E q \in Requests : plan[q].ras = {r}

\* The routes do not ask for the status of the acceptance.
Decide(q) ==
  /\ at[q] = "idle" /\ finding.version > 0
  /\ Begins("decide")
  /\ \E r \in Acceptances : \E v \in {"APPROVED", "REJECTED", "REVOKED"} :
       /\ acceptances' = [acceptances EXCEPT ![r] = v]
       /\ Note((IF v = "REJECTED" /\ acceptances[r] = "APPROVED" THEN {"redecided"} ELSE {})
                 \cup (IF Deciding(r) THEN {"hasty"} ELSE {}))
       /\ IF v = "REJECTED" THEN UNCHANGED <<at, plan>>
          ELSE /\ at'   = [at EXCEPT ![q] = IF v = "APPROVED" THEN "accept" ELSE "reopen"]
               /\ plan' = [plan EXCEPT ![q].ras = {r}]
  /\ UNCHANGED <<db, finding, twin, history, timeVars, saveVars, looks>>

MoveDecided(q) ==
  /\ \/ at[q] = "accept" /\ Transition(q, "RISK_ACCEPTED")
     \/ at[q] = "reopen" /\ q \in Requests /\ Transition(q, "REOPENED")
  /\ UNCHANGED <<db, rowVars, timeVars, looks, noted, left>>

-----------------------------------------------------------------------------
(* process_scan_findings *)

\* What a scan has found depends on when it looked.  One that found nothing at all does
\* not process its findings, and so does not verify any.
Look(s) ==
  /\ at[s] = "idle"
  /\ Begins("scan")
  /\ looks' = looks + 1
  /\ \/ UNCHANGED <<at, plan>>
     \/ \E seen \in BOOLEAN :
          /\ at'   = [at EXCEPT ![s] = "process"]
          /\ plan' = [plan EXCEPT ![s].look = looks + 1, ![s].seen = seen]
  /\ Note(IF \E o \in Scans \ {s} : at[o] # "idle" THEN {"overlap"} ELSE {})
  /\ UNCHANGED <<db, rowVars, timeVars, saveVars>>

ReopensUnverified(f) == f.status \in {"CLOSED", "REMEDIATED", "VERIFICATION_PENDING"}

Reopens(f) == f.status \in {"VERIFIED", "CLOSED", "REMEDIATED", "VERIFICATION_PENDING"}

\* last_scan_id and, where it applies, the reopening.
Observed(f, n) ==
  LET g == [f EXCEPT !.seen = n]
  IN  IF Reopens(f) THEN [g EXCEPT !.status = "REOPENED", !.verifier = 0] ELSE g

KnownAndOpen == finding.version > 0 /\ finding.status \notin Settled

\* get_finding_by_fingerprint
Known == finding.version > 0

\* scalar_one_or_none raises when two rows have the fingerprint.
Ambiguous == twin /\ db = "postgres"

SeeAgain(s) ==
  /\ at[s] = "process" /\ plan[s].seen
  /\ Known /\ ~Ambiguous
  /\ Reads(s, Observed(finding, plan[s].look),
           IF Reopens(finding) THEN <<finding.status, "REOPENED">> ELSE <<>>)
  /\ at' = [at EXCEPT ![s] = IF db = "sqlite" /\ Reopens(finding) THEN "note" ELSE AfterRead]
  /\ UNCHANGED <<db, rowVars, timeVars, looks, noted, left>>

\* On SQLite the entry is written before the row.
LogFirst(s) ==
  /\ at[s] = "note"
  /\ history' = Append(history, plan[s].entry)
  /\ plan' = [plan EXCEPT ![s].entry = <<>>]
  /\ at'   = [at EXCEPT ![s] = "select"]
  /\ Note(Consequences(s) \ {"race"})
  /\ UNCHANGED <<db, finding, twin, acceptances, timeVars, saveVars, looks, left>>

SeeTwice(s) ==
  /\ at[s] = "process" /\ plan[s].seen
  /\ Ambiguous
  /\ Returns(s)
  /\ UNCHANGED <<db, rowVars, timeVars, looks, noted, left>>

SeeFirst(s) ==
  /\ at[s] = "process" /\ plan[s].seen
  /\ ~Known
  /\ at' = [at EXCEPT ![s] = "insert"]
  /\ UNCHANGED <<db, rowVars, timeVars, saveVars, plan, looks, noted, left>>

\* No constraint keeps a second row out.  SQLite commits the row before its entry.
Insert(s) ==
  /\ at[s] = "insert"
  /\ \/ /\ finding.version = 0
        /\ finding' = Discovered(plan[s].look)
        /\ IF db = "postgres"
             THEN history' = Append(history, Creation) /\ Returns(s)
             ELSE /\ Reads(s, Discovered(plan[s].look), Creation)
                  /\ at' = [at EXCEPT ![s] = "log"]
                  /\ UNCHANGED history
        /\ UNCHANGED twin
     \/ /\ finding.version > 0
        /\ twin' = TRUE
        /\ Returns(s)
        /\ UNCHANGED <<finding, history>>
  /\ UNCHANGED <<db, acceptances, timeVars, looks, noted, left>>

\* A finding that waits for verification and is not seen is verified.
Verify(s) ==
  /\ at[s] = "process" /\ ~plan[s].seen
  /\ IF finding.version > 0 /\ finding.status = "VERIFICATION_PENDING"
       THEN /\ Reads(s, [finding EXCEPT !.status = "VERIFIED", !.verifier = plan[s].look],
                     <<finding.status, "VERIFIED">>)
            /\ at' = [at EXCEPT ![s] = AfterRead]
       ELSE Returns(s)
  /\ UNCHANGED <<db, rowVars, timeVars, looks, noted, left>>

-----------------------------------------------------------------------------
(* The periodic tasks. *)

\* evaluate_sla_breaches reads the first page of 1000 findings, those of the highest
\* priority, and then saves those whose SLA status changes.
Check(c) ==
  /\ at[c] = "idle" /\ "outranked" \notin noted
  /\ finding.version > 0 /\ finding.status \notin Settled
  /\ Evaluate(finding) # finding.sla
  /\ Reads(c, [finding EXCEPT !.sla = Evaluate(finding)],
           IF Evaluate(finding) = "BREACHED" THEN <<finding.status, finding.status>> ELSE <<>>)
  /\ at' = [at EXCEPT ![c] = "select"]
  /\ UNCHANGED <<db, rowVars, timeVars, looks, noted, left>>

Over == {r \in Acceptances : acceptances[r] = "APPROVED" /\ r \in expired}

ListOver(e) ==
  /\ at[e] = "idle" /\ Over # {}
  /\ at'   = [at EXCEPT ![e] = "expire"]
  /\ plan' = [plan EXCEPT ![e].ras = Over]
  /\ UNCHANGED <<db, rowVars, timeVars, saveVars, looks, noted, left>>

Expire(e) ==
  /\ at[e] = "expire"
  /\ \E r \in plan[e].ras :
       /\ acceptances' = [acceptances EXCEPT ![r] = "EXPIRED"]
       /\ plan' = [plan EXCEPT ![e].ras = @ \ {r}]
       /\ Note(IF Deciding(r) THEN {"hasty"} ELSE {})
  /\ at' = [at EXCEPT ![e] = "reopen"]
  /\ UNCHANGED <<db, finding, twin, history, timeVars, saveVars, looks, left>>

ReopenOver(e) ==
  /\ at[e] = "reopen"
  /\ IF finding.status = "RISK_ACCEPTED"
       THEN /\ Reads(e, Resumed([finding EXCEPT !.status = "REOPENED"]),
                     <<"RISK_ACCEPTED", "REOPENED">>)
            /\ at' = [at EXCEPT ![e] = "select"]
       ELSE Returns(e)
  /\ UNCHANGED <<db, rowVars, timeVars, looks, noted, left>>

-----------------------------------------------------------------------------
(* Time, other findings and lost processes. *)

Lapse(r) ==
  /\ acceptances[r] = "APPROVED" /\ r \notin expired
  /\ expired' = expired \cup {r}
  /\ UNCHANGED <<db, rowVars, stage, at, saveVars, plan, looks, noted, left>>

\* The warning date or sla_due_at.
PassDate ==
  /\ finding.version > 0 /\ stage < 2
  /\ Begins("date")
  /\ stage' = stage + 1
  /\ UNCHANGED <<db, rowVars, expired, at, saveVars, plan, looks, noted>>

\* A page of other findings comes before this one, for good.
Outrank ==
  /\ Begins("outrank") /\ Note({"outranked"})
  /\ UNCHANGED <<db, rowVars, timeVars, at, saveVars, plan, looks>>

Lost(a) ==
  /\ at[a] \notin {"idle", "viewed"}
  /\ Begins("crash") /\ Note({"crash"})
  /\ at'   = [at EXCEPT ![a] = "idle"]
  /\ got'  = [got EXCEPT ![a] = NoFinding]
  /\ copy' = [copy EXCEPT ![a] = NoFinding]
  /\ base' = [base EXCEPT ![a] = NoFinding]
  /\ plan' = [plan EXCEPT ![a] = Idle]
  /\ UNCHANGED <<db, rowVars, timeVars, looks>>

-----------------------------------------------------------------------------
Save(a) == Select(a) \/ Write(a) \/ Conflict(a) \/ Log(a)

RequestStep(q) == Post(q) \/ MoveDecided(q) \/ Save(q)

ScanStep(s) ==
  \/ SeeAgain(s)
  \/ LogFirst(s)
  \/ SeeTwice(s)
  \/ SeeFirst(s)
  \/ Insert(s)
  \/ Verify(s)
  \/ Save(s)

CheckStep(c) == Check(c) \/ Save(c)

ExpiryStep(e) == ListOver(e) \/ Expire(e) \/ ReopenOver(e) \/ Save(e)

FindingsNext ==
  \/ \E q \in Requests : View(q) \/ PostUnlocked(q) \/ Decide(q) \/ RequestStep(q)
  \/ \E s \in Scans : Look(s) \/ ScanStep(s)
  \/ \E c \in Checks : CheckStep(c)
  \/ \E e \in Expiries : ExpiryStep(e)
  \/ \E r \in Acceptances : Lapse(r)
  \/ PassDate
  \/ Outrank
  \/ \E a \in Writers : Lost(a)

\* What has begun goes on, and Beat starts both tasks again and again.
FindingsFairness ==
  /\ \A q \in Requests : WF_findingsVars(MoveDecided(q) \/ Save(q))
  /\ \A s \in Scans : WF_findingsVars(ScanStep(s))
  /\ \A c \in Checks : WF_findingsVars(CheckStep(c))
  /\ \A e \in Expiries : WF_findingsVars(ExpiryStep(e))
  /\ \A r \in Acceptances : WF_findingsVars(Lapse(r))

FindingsSpec == FindingsInit /\ [][FindingsNext]_findingsVars /\ FindingsFairness

-----------------------------------------------------------------------------
(* Correctness. *)

Without(E) == noted \cap E = {}

FindingRow == [version : Nat, status : FindingStatus, sla : {"ON_TRACK", "WARNING", "BREACHED",
               "PAUSED", "COMPLIED"}, paused : BOOLEAN, verifier : Nat, seen : Nat]

\* Nobody writes a row that is not there; a risk that is accepted pauses the SLA.
FindingTypeOK ==
  /\ finding \in FindingRow
  /\ finding.version = 0 => finding = NoFinding /\ history = <<>>
  /\ \A a \in Writers : {got[a], copy[a], base[a]} \subseteq FindingRow
  /\ \A a \in Writers : at[a] \in {"select", "write", "log"} => copy[a].version > 0
  /\ acceptances \in [Acceptances -> {"PENDING", "APPROVED", "REJECTED", "REVOKED", "EXPIRED"}]
  /\ expired \subseteq Acceptances /\ stage \in 0 .. 2
  /\ \A n \in DOMAIN history : history[n] \in FindingStatus \X FindingStatus
  /\ looks \in Nat /\ twin \in BOOLEAN
  /\ left \in [Occasion -> Nat]

Latest == IF history = <<>> THEN "NEW" ELSE history[Len(history)][2]

\* The history is a chain of the statuses the finding had, and ends at its present one,
\* although half of the writers use no version and log in another transaction: as long as
\* nobody overwrites what he has not seen (lost, race), no save is refused (conflict), nobody
\* dies (crash), and nobody writes while another one's row and entry are apart (behind).
HistoryTellsAll ==
  Without({"lost", "race", "conflict", "crash", "behind"})
    => /\ \A n \in 1 .. Len(history) - 1 : history[n][2] = history[n + 1][1]
       /\ (\E a \in Writers : Logging(a) \/ LoggedFirst(a)) \/ finding.status = Latest

Decided(q) == at[q] = "write" /\ plan[q].locked /\ finding' # finding /\ at'[q] # "write"

\* "If cursor.rowcount == 0, an OptimisticLockError is raised": a status that is posted with a
\* version is written on exactly the row the analyst saw, whoever saved in between.  On
\* PostgreSQL that needs that no two saves read the same version.
DecidedOnWhatWasSeen ==
  [][\A q \in Requests : Decided(q) /\ "race" \notin noted' => finding = got[q]]_findingsVars

\* A finding that a scan verified has not been seen by a scan that looked later, although
\* whoever saves the row writes back all he has read of it.  Scans that overlap may process
\* their findings in the other order; an analyst who sets the status to VERIFIED leaves the
\* scan of an earlier verification beside it; and a save of PostgreSQL that overwrites
\* another one mixes the columns of both.
VerifiedByTheLatest ==
  Without({"overlap", "attested", "race"}) /\ finding.status = "VERIFIED" /\ finding.verifier > 0
    => finding.seen < finding.verifier

\* Only overlapping scans give one weakness two rows.
OneRow == twin => "overlap" \in noted

\* An accepted risk without an approved acceptance is reopened, when its acceptance was
\* revoked or has ended; unless a person accepted it directly or rejected the approved
\* acceptance, the acceptance changed while its approval was under way, or a save was
\* refused, overwritten or lost.
AcceptanceEnds ==
  LET Regular == Without({"manual", "redecided", "hasty", "lost", "race", "conflict", "crash"})
      Unapproved == finding.status = "RISK_ACCEPTED"
                      /\ \A r \in Acceptances : acceptances[r] # "APPROVED"
  IN  (Regular /\ Unapproved) ~> (~Regular \/ ~Unapproved)

Running == finding.version > 0 /\ finding.status \notin Settled \cup {"RISK_ACCEPTED"}

\* A deadline that has passed is noticed, whoever else saves the row meanwhile.  It is not
\* for a finding whose risk was accepted once: what reopens it evaluates the SLA while
\* sla_status still says PAUSED, so that it stays paused for good, although the task's
\* docstring "resumes SLA tracking"; nor for one that a page of others comes before.
BreachNoticed ==
  LET Watched == Running /\ stage = 2 /\ Without({"accepted", "outranked"})
  IN  Watched ~> (finding.sla = "BREACHED" \/ ~Watched)
=============================================================================
