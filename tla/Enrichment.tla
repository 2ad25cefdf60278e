----------------------------- MODULE Enrichment -----------------------------
(***************************************************************************)
(* The scores of vulnerability records.  A sync stores the records of the  *)
(* feed, one transaction each, and where it is a whole sync_all it then    *)
(* asks the NVD for the scores the feed does not give, all in one          *)
(* transaction.  The backfill task does the same for a page of records, a  *)
(* transaction each, and an operator starts it again with the next_offset  *)
(* it returned.  The table is SQLite on either backend: one writer at a    *)
(* time, and a statement gives up when it cannot write within a minute.    *)
(***************************************************************************)
EXTENDS Integers, FiniteSets

CONSTANTS
  Rounds,          \* one run of a sync each
  Whole,           \* the syncs that are sync_all and ask the NVD
  Records,         \* ids of records, in the order of ORDER BY id
  MaxEnrichments,  \* bound of a sync, 10 without a key for the NVD
  MaxTotal,        \* max_total of the backfill task
  NoSync,
  Beginnings       \* choices of what the feed first says, and of the bounds

ASSUME RecordsAssumption == Records \subseteq Nat /\ IsFiniteSet(Records)

ASSUME RoundsAssumption == Whole \subseteq Rounds /\ NoSync \notin Rounds

ASSUME PagesAssumption == MaxEnrichments \in Nat \ {0} /\ MaxTotal \in Nat \ {0}

\* A record the feed does not have, has without a score, has with one (0 is none here).
FeedStates == {"absent", "none", "feed"}

ScoreStates == FeedStates \cup {"nvd"}

\* Bounds: syncs that begin, changes of the feed, chains of the backfill task.
Budget == [sync : Nat, publish : Nat, backfill : {0, 1}]

ASSUME BeginningsAssumption ==
  Beginnings \subseteq [feed : [Records -> FeedStates], allowance : Budget]

VARIABLES
  feed,        \* what the feed says now
  score,       \* cvss_score of the committed rows, and where it came from
  writer,      \* the sync whose open transaction has written
  open,        \* the records that this transaction has updated
  phase,
  fetched,     \* the feed as each sync read it
  rest,        \* records a sync has yet to store, or yet to ask the NVD about
  overlapped,  \* history: syncs during which another one ran
  page,        \* candidates the backfill task has yet to ask the NVD about
  backfill,    \* "full" or "last" while a page is worked off, "resume" after a full one
  offset,
  missed,      \* history: candidates of the whole chain that no page has held
  scored,      \* history: how often a candidate got a score during the chain
  allowance    \* what may still begin

roundVars == <<phase, fetched, rest, overlapped>>
chainVars == <<page, backfill, offset, missed, scored>>
enrichmentVars == <<feed, score, writer, open, roundVars, chainVars, allowance>>

Table == [Records -> ScoreStates]

EnrichmentInit ==
  /\ \E b \in Beginnings : feed = b.feed /\ allowance = b.allowance
  /\ score = [r \in Records |-> "absent"]
  /\ writer = NoSync /\ open = {}
  /\ phase = [s \in Rounds |-> "idle"]
  /\ fetched = [s \in Rounds |-> feed]
  /\ rest = [s \in Rounds |-> {}]
  /\ overlapped = {}
  /\ page = {} /\ backfill = "idle" /\ offset = 0
  /\ missed = {} /\ scored = 0

Candidates(table) == {r \in Records : table[r] = "none"}

Running == {s \in Rounds : phase[s] \in {"store", "query", "enrich"}}

\* Every change of the table: a chain that goes on counts the candidates it loses.
Becomes(table) ==
  /\ score' = table
  /\ LET gone == Candidates(score) \ Candidates(table)
     IN  /\ scored' = IF backfill \in {"idle", "ended"} THEN scored ELSE scored + Cardinality(gone)
         /\ missed' = IF backfill = "ended" THEN missed ELSE missed \ gone

Begins(b) == allowance[b] > 0 /\ allowance' = [allowance EXCEPT ![b] = @ - 1]

-----------------------------------------------------------------------------
(* A sync. *)

Fetch(s) ==
  /\ phase[s] = "idle" /\ Begins("sync")
  /\ fetched' = [fetched EXCEPT ![s] = feed]
  /\ rest' = [rest EXCEPT ![s] = {r \in Records : feed[r] # "absent"}]
  /\ phase' = [phase EXCEPT ![s] = "store"]
  /\ overlapped' = IF Running = {} THEN overlapped ELSE overlapped \cup Running \cup {s}
  /\ UNCHANGED <<feed, score, writer, open, chainVars>>

\* The feed does not answer; a sync_all goes on to the scores all the same.
FetchFails(s) ==
  /\ phase[s] = "idle" /\ Begins("sync")
  /\ fetched' = [fetched EXCEPT ![s] = [r \in Records |-> "absent"]]
  /\ phase' = [phase EXCEPT ![s] = IF s \in Whole THEN "query" ELSE "done"]
  /\ overlapped' = IF Running = {} THEN overlapped ELSE overlapped \cup Running \cup {s}
  /\ UNCHANGED <<feed, score, writer, open, rest, chainVars>>

InsertOnly(s, r) == IF score[r] = "absent" THEN fetched[s][r] ELSE score[r]

\* ON CONFLICT DO UPDATE SET cvss_score = excluded.cvss_score: also to NULL.
Excluded(s, r) == fetched[s][r]

Store(s, r) ==
  /\ phase[s] = "store" /\ r \in rest[s]
  /\ writer = NoSync
  /\ Becomes([score EXCEPT ![r] = Excluded(s, r)])
  /\ rest' = [rest EXCEPT ![s] = @ \ {r}]
  /\ UNCHANGED <<feed, writer, open, phase, fetched, overlapped, page, backfill, offset, allowance>>

\* Another sync keeps the database for more than a minute: the error is logged and the
\* record counted as inserted.
StoreFails(s, r) ==
  /\ phase[s] = "store" /\ r \in rest[s]
  /\ writer \notin {NoSync, s}
  /\ rest' = [rest EXCEPT ![s] = @ \ {r}]
  /\ UNCHANGED <<feed, score, writer, open, phase, fetched, overlapped, chainVars, allowance>>

\* The state of the feed is set to success.
Success(s) ==
  /\ phase[s] = "store" /\ rest[s] = {}
  /\ phase' = [phase EXCEPT ![s] = IF s \in Whole THEN "query" ELSE "done"]
  /\ UNCHANGED <<feed, score, writer, open, fetched, rest, overlapped, chainVars, allowance>>

AnyRecord == {r \in Records : score[r] # "absent"}

\* The query reads without a lock, and without ORDER BY any MaxEnrichments of these.
Unscored == Candidates(score)

Query(s) ==
  /\ phase[s] = "query"
  /\ \E rows \in SUBSET Unscored :
       /\ \/ rows = Unscored /\ Cardinality(rows) <= MaxEnrichments
          \/ Cardinality(rows) = MaxEnrichments
       /\ rest' = [rest EXCEPT ![s] = rows]
  /\ phase' = [phase EXCEPT ![s] = "enrich"]
  /\ UNCHANGED <<feed, score, writer, open, fetched, overlapped, chainVars, allowance>>

\* The NVD has a score.  The UPDATE has no condition on the row; the first one opens the
\* transaction, which stays open while the NVD is asked about the other rows.
Enrich(s, r) ==
  /\ phase[s] = "enrich" /\ r \in rest[s]
  /\ writer \in {NoSync, s}
  /\ writer' = s
  /\ open' = open \cup {r}
  /\ rest' = [rest EXCEPT ![s] = @ \ {r}]
  /\ UNCHANGED <<feed, score, phase, fetched, overlapped, chainVars, allowance>>

\* The NVD has none or does not answer, or another sync keeps the database.
NotEnriched(s, r) ==
  /\ phase[s] = "enrich" /\ r \in rest[s]
  /\ rest' = [rest EXCEPT ![s] = @ \ {r}]
  /\ UNCHANGED <<feed, score, writer, open, phase, fetched, overlapped, chainVars, allowance>>

Committed(records) == [r \in Records |-> IF r \in records THEN "nvd" ELSE score[r]]

Commit(s) ==
  /\ phase[s] = "enrich" /\ rest[s] = {}
  /\ IF writer = s
       THEN /\ Becomes(Committed(open))
            /\ writer' = NoSync /\ open' = {}
       ELSE UNCHANGED <<score, missed, scored, writer, open>>
  /\ phase' = [phase EXCEPT ![s] = "done"]
  /\ UNCHANGED <<feed, fetched, rest, overlapped, page, backfill, offset, allowance>>

\* The process is lost, and with it what it had not committed.
RoundLost(s) ==
  /\ s \in Running
  /\ IF writer = s THEN writer' = NoSync /\ open' = {} ELSE UNCHANGED <<writer, open>>
  /\ phase' = [phase EXCEPT ![s] = "lost"]
  /\ rest' = [rest EXCEPT ![s] = {}]
  /\ UNCHANGED <<feed, score, fetched, overlapped, chainVars, allowance>>

\* The feed adds a record, or a score to one it had.
Publish(r) ==
  /\ Begins("publish")
  /\ \/ feed[r] = "absent" /\ feed' = [feed EXCEPT ![r] = "none"]
     \/ feed[r] = "none" /\ feed' = [feed EXCEPT ![r] = "feed"]
  /\ UNCHANGED <<score, writer, open, roundVars, chainVars>>

-----------------------------------------------------------------------------
(* The backfill task. *)

\* How many candidates come before r in ORDER BY id.
Rank(r) == Cardinality({q \in Candidates(score) : q < r})

\* ORDER BY id LIMIT max_total OFFSET offset.
PageTooFar == {r \in Candidates(score) : Rank(r) \in (offset + 1)..(offset + MaxTotal)}

Page == {r \in Candidates(score) : Rank(r) \in offset..(offset + MaxTotal - 1)}

\* A first run at offset 0, or one with the next_offset of the run before.
Backfill ==
  /\ \/ backfill = "idle" /\ Begins("backfill")
     \/ backfill = "resume" /\ UNCHANGED allowance
  /\ page' = Page
  /\ missed' = (IF backfill = "idle" THEN Candidates(score) ELSE missed) \ Page
  /\ backfill' = IF Cardinality(Page) = MaxTotal THEN "full" ELSE "last"
  /\ UNCHANGED <<feed, score, writer, open, roundVars, offset, scored>>

OverwriteAny(r) == [score EXCEPT ![r] = "nvd"]

\* The UPDATE repeats the condition of the query.
IfStillUnscored(r) == IF r \in Candidates(score) THEN [score EXCEPT ![r] = "nvd"] ELSE score

Fill(r) ==
  /\ r \in page
  /\ writer = NoSync
  /\ Becomes(IfStillUnscored(r))
  /\ page' = page \ {r}
  /\ UNCHANGED <<feed, writer, open, roundVars, backfill, offset, allowance>>

\* The NVD has no score or does not answer, or a sync keeps the database.
NotFilled(r) ==
  /\ r \in page
  /\ page' = page \ {r}
  /\ UNCHANGED <<feed, score, writer, open, roundVars, backfill, offset, missed, scored, allowance>>

\* next_offset is None unless the page was full.
EndPage ==
  /\ backfill \in {"full", "last"} /\ page = {}
  /\ IF backfill = "full" THEN backfill' = "resume" /\ offset' = offset + MaxTotal
                          ELSE backfill' = "ended" /\ UNCHANGED offset
  /\ UNCHANGED <<feed, score, writer, open, roundVars, page, missed, scored, allowance>>

-----------------------------------------------------------------------------
RoundStep(s) ==
  \/ Fetch(s) \/ FetchFails(s) \/ Success(s) \/ Query(s) \/ Commit(s) \/ RoundLost(s)
  \/ \E r \in Records : Store(s, r) \/ StoreFails(s, r) \/ Enrich(s, r) \/ NotEnriched(s, r)

BackfillStep ==
  \/ Backfill
  \/ EndPage
  \/ \E r \in Records : Fill(r) \/ NotFilled(r)

EnrichmentNext ==
  \/ \E s \in Rounds : RoundStep(s)
  \/ BackfillStep
  \/ \E r \in Records : Publish(r)

EnrichmentSpec == EnrichmentInit /\ [][EnrichmentNext]_enrichmentVars

-----------------------------------------------------------------------------
(* Correctness. *)

EnrichmentTypeOK ==
  /\ feed \in [Records -> FeedStates]
  /\ score \in Table
  /\ writer \in Rounds \cup {NoSync}
  /\ open \subseteq Records
  /\ phase \in [Rounds -> {"idle", "store", "query", "enrich", "done", "lost"}]
  /\ fetched \in [Rounds -> [Records -> FeedStates]]
  /\ rest \in [Rounds -> SUBSET Records]
  /\ overlapped \subseteq Rounds
  /\ page \subseteq Records
  /\ backfill \in {"idle", "full", "last", "resume", "ended"}
  /\ offset \in Nat
  /\ missed \subseteq Records
  /\ scored \in Nat
  /\ allowance \in Budget

\* A sync counts a record as inserted whether it was stored or not (service.py:236-237).
\* What a sync that no other one overlapped reports as stored is in the table, with the
\* score of the feed where the feed has one: no enrichment and no backfill takes it away.
FeedStored ==
  \A s \in Rounds \ overlapped :
    phase[s] \in {"query", "enrich", "done"} =>
      \A r \in Records :
        /\ fetched[s][r] # "absent" => score[r] # "absent"
        /\ fetched[s][r] = "feed" => score[r] = "feed"

\* intel_tasks.py:129-130 says that "Records that already have a CVSS score are never
\* overwritten".  A score of the feed is lost only to a sync that overlapped another one:
\* it stores a feed it read earlier, or updates a row that had no score when it looked.
FeedScoreKept ==
  [][\A r \in Records :
       score[r] = "feed" /\ score'[r] # "feed" =>
         \E s \in overlapped : phase[s] = "store" \/ writer = s]_enrichmentVars

\* intel_tasks.py:126 offers the offset to resume with.  It counts candidates that are
\* candidates no more, so a chain of pages steps over as many as have got a score since
\* it began, and over no more than that.
BackfillMisses ==
  backfill = "ended" => Cardinality(missed) <= scored
=============================================================================
