---------------------------- MODULE IntelProofs -----------------------------
(***************************************************************************)
(* Theorems about the syncs of vulnerability intelligence.  Of SyncLock:   *)
(* who may be inside together, who can rob whom, and what becomes of the   *)
(* process lock, for any number of syncs and processes and any mishaps.    *)
(* Of Enrichment: what is in the table after a sync, when a score of the   *)
(* feed is lost, and how much a chain of backfill pages steps over, for    *)
(* any number of syncs and records, any bounds and any history of the      *)
(* feed.                                                                   *)
(***************************************************************************)
EXTENDS SyncLock, Enrichment, FiniteSetTheorems, TLAPS

-----------------------------------------------------------------------------
(* The lock. *)


\* What let a sync in is still there, unless it was robbed.
Held ==
  \A s \in Inside \ robbed :
    IF grip[s] = "lease" THEN lease = s
    ELSE grip[s] = "process" /\ Home[s] \in process_lock

\* Two syncs never hold the lock of one process.
OnePerProcess ==
  \A s, t \in Inside \ robbed :
    grip[s] = "process" /\ grip[t] = "process" /\ Home[s] = Home[t] => s = t

Distributed == required => process_lock = {}

\* The token of a singleton is that of a sync of its process.
OwnToken == \A p \in Processes : token[p] # NoToken => Home[token[p]] = p

LockInv ==
  /\ LockTypeOK
  /\ Held
  /\ OnePerProcess
  /\ Distributed
  /\ OwnToken
  /\ ProcessLockKept

LEMMA LockInitially == LockInit => LockInv
  BY MishapsAssumption
     DEF LockInit, LockInv, LockTypeOK, Held, OnePerProcess, Distributed, OwnToken,
         ProcessLockKept, Inside, Grips

LEMMA LockTypes == LockInv /\ [LockNext]_lockVars => LockTypeOK'
<1>. SUFFICES ASSUME LockInv, [LockNext]_lockVars PROVE LockTypeOK'
  OBVIOUS
<1>. USE HomeAssumption DEF LockInv, LockTypeOK, Grips
<1>1. ASSUME NEW e \in Trouble, Befalls(e) PROVE trouble' \in [Trouble -> Nat]
  BY <1>1 DEF Befalls
<1>2. {"expiry", "outage", "lost", "crash"} \subseteq Trouble
  BY DEF Trouble
<1>3. ASSUME NEW p \in Processes, Connects(p) PROVE client' \subseteq Processes
  BY <1>3 DEF Connects
<1>4. ASSUME NEW s \in Syncs, Acquire(s) PROVE LockTypeOK'
  <2>1. CASE Win(s)
    BY <1>3, <2>1 DEF Win
  <2>2. CASE StoreToken(s)
    BY <2>2 DEF StoreToken
  <2>3. CASE Skip(s)
    BY <1>3, <2>3 DEF Skip
  <2>4. CASE NoAnswer(s)
    BY <2>4 DEF NoAnswer, FallBack
  <2>5. CASE ReplyLost(s)
    BY <1>1, <1>2, <1>3, <2>5 DEF ReplyLost, FallBack
  <2>. QED BY <1>4, <2>1, <2>2, <2>3, <2>4, <2>5 DEF Acquire
<1>5. ASSUME NEW s \in Syncs, Release(s) PROVE LockTypeOK'
  <2>1. CASE Delete(s)
    BY <1>1, <1>2, <1>3, <2>1 DEF Delete, Evaluated, Inside
  <2>2. CASE DeleteFails(s)
    BY <2>2 DEF DeleteFails
  <2>3. CASE ClearToken(s)
    BY <2>3 DEF ClearToken
  <2>4. CASE AfterFailure(s)
    BY <2>4 DEF AfterFailure, Unlock, Inside
  <2>5. CASE NothingToDelete(s)
    BY <1>3, <2>5 DEF NothingToDelete
  <2>6. CASE ReleaseProcess(s)
    BY <2>6 DEF ReleaseProcess, Unlock, Inside
  <2>. QED BY <1>5, <2>1, <2>2, <2>3, <2>4, <2>5, <2>6 DEF Release
<1>6. CASE Expire
  BY <1>1, <1>2, <1>6 DEF Expire, Inside
<1>7. CASE Outage \/ Restored
  BY <1>1, <1>2, <1>7 DEF Outage, Restored
<1>8. ASSUME NEW p \in Processes, ProcessLost(p) PROVE LockTypeOK'
  BY <1>1, <1>2, <1>8 DEF ProcessLost
<1>9. CASE UNCHANGED lockVars
  BY <1>9 DEF lockVars
<1>. QED BY <1>4, <1>5, <1>6, <1>7, <1>8, <1>9 DEF LockNext

Kept == Held /\ OnePerProcess /\ Distributed /\ OwnToken /\ ProcessLockKept

LEMMA AcquireKeeps ==
  ASSUME LockInv, NEW s \in Syncs, Acquire(s) PROVE Kept'
<1>. USE HomeAssumption, NoTokenAssumption
     DEF LockInv, LockTypeOK, Kept, Held, OnePerProcess, Distributed, OwnToken,
         ProcessLockKept, Inside
<1>1. CASE Win(s)
  BY <1>1 DEF Win, Connects
<1>2. CASE StoreToken(s)
  BY <1>2 DEF StoreToken
<1>3. CASE Skip(s)
  BY <1>3 DEF Skip, Connects
<1>4. CASE NoAnswer(s)
  BY <1>4 DEF NoAnswer, FallBack
<1>5. CASE ReplyLost(s)
  BY <1>5 DEF ReplyLost, FallBack, Connects
<1>. QED BY <1>1, <1>2, <1>3, <1>4, <1>5 DEF Acquire

LEMMA ReleaseKeeps ==
  ASSUME LockInv, NEW s \in Syncs, Release(s) PROVE Kept'
<1>. USE HomeAssumption, NoTokenAssumption
     DEF LockInv, LockTypeOK, Kept, Held, OnePerProcess, Distributed, OwnToken,
         ProcessLockKept, Inside
<1>1. CASE Delete(s)
  BY <1>1 DEF Delete, Evaluated, Connects
<1>2. CASE DeleteFails(s)
  BY <1>2 DEF DeleteFails
<1>3. CASE ClearToken(s)
  BY <1>3 DEF ClearToken
<1>4. CASE AfterFailure(s)
  BY <1>4 DEF AfterFailure, Unlock
<1>5. CASE NothingToDelete(s)
  BY <1>5 DEF NothingToDelete, Connects
<1>6. CASE ReleaseProcess(s)
  BY <1>6 DEF ReleaseProcess, Unlock
<1>. QED BY <1>1, <1>2, <1>3, <1>4, <1>5, <1>6 DEF Release

LEMMA LockStep == LockInv /\ [LockNext]_lockVars => LockInv'
<1>. SUFFICES ASSUME LockInv, [LockNext]_lockVars PROVE Kept'
  BY LockTypes DEF LockInv, Kept
<1>1. CASE \E s \in Syncs : Acquire(s) \/ Release(s)
  BY <1>1, AcquireKeeps, ReleaseKeeps
<1>. USE HomeAssumption, NoTokenAssumption
     DEF LockInv, LockTypeOK, Kept, Held, OnePerProcess, Distributed, OwnToken,
         ProcessLockKept, Inside
<1>2. CASE Expire
  BY <1>2 DEF Expire
<1>3. CASE Outage \/ Restored \/ UNCHANGED lockVars
  BY <1>3 DEF Outage, Restored, lockVars
<1>4. ASSUME NEW p \in Processes, ProcessLost(p) PROVE Kept'
  BY <1>4 DEF ProcessLost
<1>. QED BY <1>1, <1>2, <1>3, <1>4 DEF LockNext

\* The shape of the state, for any number of syncs and processes.
THEOREM LockTypeCorrect == LockSpec => []LockTypeOK
<1>1. LockInv => LockTypeOK
  BY DEF LockInv
<1>. QED BY LockInitially, LockStep, <1>1, PTL DEF LockSpec

\* Two syncs run together only when one has lost what let it in or one came in by the
\* lock of its own process, for any number of syncs, processes and mishaps.
THEOREM ExclusiveHolds == LockSpec => []Exclusive
<1>1. LockInv => Exclusive
  BY DEF LockInv, LockTypeOK, Held, OnePerProcess, Distributed, Exclusive, Inside, Grips
<1>. QED BY LockInitially, LockStep, <1>1, PTL DEF LockSpec

\* A process that never reached Redis gives its process lock back.
THEOREM ProcessLockHolds == LockSpec => []ProcessLockKept
<1>1. LockInv => ProcessLockKept
  BY DEF LockInv
<1>. QED BY LockInitially, LockStep, <1>1, PTL DEF LockSpec

-----------------------------------------------------------------------------

Robbery ==
  \A t \in robbed' \ robbed :
    \/ lease' = NoToken /\ lease = t /\ UNCHANGED at
    \/ \E s \in Syncs : /\ at[s] # at'[s] /\ Home[s] = Home[t]
                        /\ s \in robbed \/ ~required

LEMMA RobberyStep == LockInv /\ [LockNext]_lockVars => Robbery \/ UNCHANGED lockVars
<1>. SUFFICES ASSUME LockInv, LockNext PROVE Robbery
  OBVIOUS
<1>. USE DEF LockInv, LockTypeOK, Robbery
<1>1. ASSUME NEW s \in Syncs, Delete(s) PROVE Robbery
  <2>. SUFFICES ASSUME NEW t \in robbed' \ robbed
                PROVE  at[s] # at'[s] /\ Home[s] = Home[t] /\ (s \in robbed \/ ~required)
    OBVIOUS
  <2>1. at[s] = "in" /\ at'[s] # "in"
    BY <1>1 DEF Delete
  <2>2. t = token[Home[s]] /\ t = lease /\ t # s /\ t \in Inside
    BY <1>1 DEF Delete, Evaluated
  <2>3. Home[t] = Home[s]
    BY <2>2, HomeAssumption, NoTokenAssumption DEF OwnToken, Inside
  <2>4. CASE required /\ s \notin robbed
    BY <2>1, <2>2, <2>4 DEF Held, Distributed, Inside
  <2>. QED BY <2>1, <2>3, <2>4
<1>2. ASSUME NEW s \in Syncs, AfterFailure(s) \/ ReleaseProcess(s) PROVE Robbery
  BY <1>2 DEF AfterFailure, ReleaseProcess, Unlock
<1>3. ASSUME NEW s \in Syncs, Acquire(s) \/ Release(s) PROVE Robbery
  BY <1>1, <1>2, <1>3
     DEF Acquire, Release, Win, StoreToken, Skip, NoAnswer, ReplyLost, DeleteFails,
         ClearToken, NothingToDelete
<1>4. CASE Expire
  BY <1>4 DEF Expire
<1>5. CASE Outage \/ Restored \/ \E p \in Processes : ProcessLost(p)
  BY <1>5 DEF Outage, Restored, ProcessLost
<1>. QED BY <1>3, <1>4, <1>5 DEF LockNext

\* A sync is robbed by the end of its lease or by a sync of its own process, and where the
\* distributed lock is required only by one that was robbed before.
THEOREM RobbedAtHomeHolds == LockSpec => RobbedAtHome
<1>1. LockInv /\ [LockNext]_lockVars => [Robbery]_lockVars
  BY RobberyStep
<1>. QED BY LockInitially, LockStep, <1>1, PTL DEF LockSpec, RobbedAtHome, Robbery

-----------------------------------------------------------------------------
(* The records. *)

\* The phases in which a sync has reported its records as stored.
Reported == {"query", "enrich", "done"}

\* What a sync asks the NVD about, or has updated without committing it.
Asked(s) == IF writer = s THEN rest[s] \cup open ELSE rest[s]

OneWriter ==
  /\ writer # NoSync => phase[writer] = "enrich"
  /\ writer = NoSync => open = {}

\* A sync that no other one overlapped is alone.
OverlapsSeen == \A s, t \in Running : s # t => s \in overlapped /\ t \in overlapped

\* The feed never takes back what it said.
SaysMore(f, g) ==
  \A r \in Records :
    /\ f[r] # "absent" => g[r] # "absent"
    /\ f[r] = "feed" => g[r] = "feed"

KnownToFeed ==
  /\ \A r \in Records : score[r] = "feed" => feed[r] = "feed"
  /\ \A s \in Rounds : SaysMore(fetched[s], feed)

StillToStore ==
  \A s \in Rounds : phase[s] = "store" => \A r \in rest[s] : fetched[s][r] # "absent"

InTable(s, r) ==
  /\ fetched[s][r] # "absent" => score[r] # "absent"
  /\ fetched[s][r] = "feed" => score[r] = "feed"

Stored ==
  \A s \in Rounds \ overlapped :
    \A r \in Records : phase[s] \in Reported \/ (phase[s] = "store" /\ r \notin rest[s]) => InTable(s, r)

\* A sync that stores records read the feed after every one that has reported its own.
LaterFeed ==
  \A s \in Rounds \ overlapped, t \in Rounds :
    phase[s] \in Reported /\ phase[t] = "store" => SaysMore(fetched[s], fetched[t])

FreshFeed ==
  \A t \in Rounds \ overlapped : phase[t] = "store" =>
    \A r \in Records : score[r] = "feed" => fetched[t][r] = "feed"

AskedUnscored ==
  \A t \in Rounds : phase[t] = "enrich" =>
    \A r \in Asked(t) :
      /\ t \notin overlapped => score[r] \notin {"feed", "absent"}
      /\ \A s \in Rounds \ overlapped : phase[s] \in Reported => fetched[s][r] # "feed"

\* FeedStored alone is not inductive: a sync that stores must have read a feed no older
\* than what others reported, and one that asks the NVD must ask about no score of a feed.
RecordsInv ==
  /\ EnrichmentTypeOK
  /\ OneWriter
  /\ OverlapsSeen
  /\ KnownToFeed
  /\ StillToStore
  /\ Stored
  /\ LaterFeed
  /\ FreshFeed
  /\ AskedUnscored

LEMMA CandidatesFinite ==
  ASSUME NEW table
  PROVE  /\ IsFiniteSet(Candidates(table))
         /\ \A S : /\ IsFiniteSet(Candidates(table) \ S)
                   /\ Cardinality(Candidates(table) \ S) \in Nat
<1>1. IsFiniteSet(Candidates(table))
  BY RecordsAssumption, FS_Subset DEF Candidates
<1>2. ASSUME NEW S
      PROVE  IsFiniteSet(Candidates(table) \ S) /\ Cardinality(Candidates(table) \ S) \in Nat
  BY <1>1, FS_Subset, FS_CardinalityType
<1>. QED BY <1>1, <1>2

LEMMA BecomesTypes ==
  ASSUME EnrichmentTypeOK, NEW table \in Table, Becomes(table)
  PROVE  score' \in Table /\ missed' \subseteq Records /\ scored' \in Nat
<1>. DEFINE gone == Candidates(score) \ Candidates(table)
<1>1. Cardinality(gone) \in Nat
  BY CandidatesFinite
<1>. QED BY <1>1 DEF Becomes, EnrichmentTypeOK

LEMMA RecordsInitially == EnrichmentInit => RecordsInv
<1>. SUFFICES ASSUME EnrichmentInit PROVE RecordsInv
  OBVIOUS
<1>1. PICK b \in Beginnings : feed = b.feed /\ allowance = b.allowance
  BY DEF EnrichmentInit
<1>2. feed \in [Records -> FeedStates] /\ allowance \in Budget
  BY <1>1, BeginningsAssumption
<1>3. EnrichmentTypeOK
  BY <1>2 DEF EnrichmentInit, EnrichmentTypeOK, Table, ScoreStates, FeedStates
<1>. QED
  BY <1>3, RoundsAssumption
        DEF RecordsInv, EnrichmentInit, OneWriter, OverlapsSeen, KnownToFeed, SaysMore,
            StillToStore,
     Stored, Reported, LaterFeed, FreshFeed, AskedUnscored, Running

LEMMA RecordsTypes == EnrichmentTypeOK /\ [EnrichmentNext]_enrichmentVars => EnrichmentTypeOK'
<1>. SUFFICES ASSUME EnrichmentTypeOK, [EnrichmentNext]_enrichmentVars PROVE EnrichmentTypeOK'
  OBVIOUS
<1>. USE DEF EnrichmentTypeOK, FeedStates, ScoreStates, Table, roundVars, chainVars
<1>1. ASSUME NEW b \in {"sync", "publish", "backfill"}, Begins(b) PROVE allowance' \in Budget
  BY <1>1 DEF Begins, Budget
<1>2. ASSUME NEW s \in Rounds, RoundStep(s) PROVE EnrichmentTypeOK'
  <2>1. CASE Fetch(s)
    BY <1>1, <2>1 DEF Fetch, Running
  <2>2. CASE FetchFails(s)
    BY <1>1, <2>2 DEF FetchFails, Running
  <2>3. CASE Success(s)
    BY <2>3 DEF Success
  <2>4. CASE Query(s)
    BY <2>4 DEF Query, Unscored, Candidates
  <2>5. CASE Commit(s)
    <3>1. Committed(open) \in Table
      BY DEF Committed
    <3>2. CASE writer = s
      BY <2>5, <3>1, <3>2, BecomesTypes DEF Commit
    <3>3. CASE writer # s
      BY <2>5, <3>3 DEF Commit
    <3>. QED BY <3>2, <3>3
  <2>6. CASE RoundLost(s)
    BY <2>6 DEF RoundLost, Running
  <2>7. ASSUME NEW r \in Records, Store(s, r) PROVE EnrichmentTypeOK'
    <3>1. [score EXCEPT ![r] = Excluded(s, r)] \in Table
      BY DEF Excluded
    <3>. QED BY <2>7, <3>1, BecomesTypes DEF Store
  <2>8. ASSUME NEW r \in Records, StoreFails(s, r) \/ Enrich(s, r) \/ NotEnriched(s, r)
        PROVE  EnrichmentTypeOK'
    BY <2>8 DEF StoreFails, Enrich, NotEnriched
  <2>. QED BY <1>2, <2>1, <2>2, <2>3, <2>4, <2>5, <2>6, <2>7, <2>8 DEF RoundStep
<1>3. CASE BackfillStep
  <2>1. CASE Backfill
    BY <1>1, <2>1 DEF Backfill, Page, Candidates
  <2>2. CASE EndPage
    BY <2>2, PagesAssumption DEF EndPage
  <2>3. ASSUME NEW r \in Records, Fill(r) PROVE EnrichmentTypeOK'
    <3>1. IfStillUnscored(r) \in Table
      BY DEF IfStillUnscored
    <3>. QED BY <2>3, <3>1, BecomesTypes DEF Fill
  <2>4. ASSUME NEW r \in Records, NotFilled(r) PROVE EnrichmentTypeOK'
    BY <2>4 DEF NotFilled
  <2>. QED BY <1>3, <2>1, <2>2, <2>3, <2>4 DEF BackfillStep
<1>4. ASSUME NEW r \in Records, Publish(r) PROVE EnrichmentTypeOK'
  BY <1>1, <1>4 DEF Publish
<1>5. CASE UNCHANGED enrichmentVars
  BY <1>5 DEF enrichmentVars
<1>. QED BY <1>2, <1>3, <1>4, <1>5 DEF EnrichmentNext

\* A record is stored, asked about and updated by a sync that is running; where that sync
\* is not overlapped it is the only one, and what it read is as new as what is stored.
LEMMA FetchKeepsRecords ==
  ASSUME RecordsInv, NEW s \in Rounds, Fetch(s), EnrichmentTypeOK'
  PROVE  RecordsInv'
<1>. USE RoundsAssumption
      DEF RecordsInv, EnrichmentTypeOK, Fetch, Running, FeedStates, ScoreStates, Table, Budget,
          roundVars, chainVars
<1>1. OneWriter'
  BY DEF OneWriter
<1>2. OverlapsSeen'
  BY DEF OneWriter, OverlapsSeen, Running
<1>3. KnownToFeed'
  BY DEF KnownToFeed, SaysMore
<1>4. StillToStore'
  BY DEF StillToStore
<1>5. Stored'
  BY DEF Stored, InTable, Reported
<1>6. LaterFeed'
  BY DEF LaterFeed, SaysMore, Reported, KnownToFeed
<1>7. FreshFeed'
  BY DEF FreshFeed, KnownToFeed, SaysMore
<1>8. AskedUnscored'
  BY DEF AskedUnscored, Asked, Reported, OneWriter
<1>. QED BY <1>1, <1>2, <1>3, <1>4, <1>5, <1>6, <1>7, <1>8

LEMMA FetchFailsKeepsRecords ==
  ASSUME RecordsInv, NEW s \in Rounds, FetchFails(s), EnrichmentTypeOK'
  PROVE  RecordsInv'
<1>. USE RoundsAssumption
      DEF RecordsInv, EnrichmentTypeOK, FetchFails, Running, FeedStates, ScoreStates, Table, Budget,
          roundVars, chainVars
<1>1. OneWriter'
  BY DEF OneWriter
<1>2. OverlapsSeen'
  BY DEF OneWriter, OverlapsSeen, Running
<1>3. KnownToFeed'
  BY DEF KnownToFeed, SaysMore
<1>4. StillToStore'
  BY DEF StillToStore
<1>5. Stored'
  BY DEF Stored, InTable, Reported
<1>6. LaterFeed'
  BY DEF LaterFeed, SaysMore, Reported
<1>7. FreshFeed'
  BY DEF FreshFeed
<1>8. AskedUnscored'
  BY DEF AskedUnscored, Asked, Reported, OneWriter
<1>. QED BY <1>1, <1>2, <1>3, <1>4, <1>5, <1>6, <1>7, <1>8

LEMMA SuccessKeepsRecords ==
  ASSUME RecordsInv, NEW s \in Rounds, Success(s), EnrichmentTypeOK'
  PROVE  RecordsInv'
<1>. USE RoundsAssumption
      DEF RecordsInv, EnrichmentTypeOK, Success, FeedStates, ScoreStates, Table, Budget, roundVars,
          chainVars
<1>1. OneWriter'
  BY DEF OneWriter
<1>2. OverlapsSeen'
  BY DEF OneWriter, OverlapsSeen, Running
<1>3. KnownToFeed'
  BY DEF KnownToFeed, SaysMore
<1>4. StillToStore'
  BY DEF StillToStore
<1>5. Stored'
  BY DEF Stored, InTable, Reported
<1>6. LaterFeed'
  BY DEF LaterFeed, SaysMore, Reported, OverlapsSeen, Running
<1>7. FreshFeed'
  BY DEF FreshFeed
<1>8. AskedUnscored'
  BY DEF AskedUnscored, Asked, Reported, OverlapsSeen, Running, OneWriter
<1>. QED BY <1>1, <1>2, <1>3, <1>4, <1>5, <1>6, <1>7, <1>8

LEMMA QueryKeepsRecords ==
  ASSUME RecordsInv, NEW s \in Rounds, Query(s), EnrichmentTypeOK'
  PROVE  RecordsInv'
<1>. USE RoundsAssumption
      DEF RecordsInv, EnrichmentTypeOK, Query, Unscored, FeedStates, ScoreStates, Table, Budget,
          roundVars, chainVars
<1>1. OneWriter'
  BY DEF OneWriter
<1>2. OverlapsSeen'
  BY DEF OneWriter, OverlapsSeen, Running
<1>3. KnownToFeed'
  BY DEF KnownToFeed, SaysMore
<1>4. StillToStore'
  BY DEF StillToStore
<1>5. Stored'
  BY DEF Stored, InTable, Reported
<1>6. LaterFeed'
  BY DEF LaterFeed, SaysMore, Reported
<1>7. FreshFeed'
  BY DEF FreshFeed
<1>8. AskedUnscored'
  BY DEF AskedUnscored, Asked, Reported, Stored, InTable, OneWriter, Unscored, Candidates
<1>. QED BY <1>1, <1>2, <1>3, <1>4, <1>5, <1>6, <1>7, <1>8

LEMMA CommitKeepsRecords ==
  ASSUME RecordsInv, NEW s \in Rounds, Commit(s), EnrichmentTypeOK'
  PROVE  RecordsInv'
<1>. USE RoundsAssumption
      DEF RecordsInv, EnrichmentTypeOK, Commit, Becomes, Committed, FeedStates, ScoreStates, Table,
          Budget, roundVars, chainVars
<1>1. OneWriter'
  BY DEF OneWriter
<1>2. OverlapsSeen'
  BY DEF OneWriter, OverlapsSeen, Running
<1>3. KnownToFeed'
  BY DEF KnownToFeed, SaysMore
<1>4. StillToStore'
  BY DEF StillToStore
<1>5. Stored'
  BY DEF Stored, InTable, Reported, AskedUnscored, Asked, OverlapsSeen, Running, OneWriter
<1>6. LaterFeed'
  BY DEF LaterFeed, SaysMore, Reported
<1>7. FreshFeed'
  BY DEF FreshFeed
<1>8. AskedUnscored'
  BY DEF AskedUnscored, Asked, Reported, OverlapsSeen, Running, OneWriter
<1>. QED BY <1>1, <1>2, <1>3, <1>4, <1>5, <1>6, <1>7, <1>8

LEMMA RoundLostKeepsRecords ==
  ASSUME RecordsInv, NEW s \in Rounds, RoundLost(s), EnrichmentTypeOK'
  PROVE  RecordsInv'
<1>. USE RoundsAssumption
      DEF RecordsInv, EnrichmentTypeOK, RoundLost, FeedStates, ScoreStates, Table, Budget,
          roundVars, chainVars
<1>1. OneWriter'
  BY DEF OneWriter
<1>2. OverlapsSeen'
  BY DEF OneWriter, OverlapsSeen, Running
<1>3. KnownToFeed'
  BY DEF KnownToFeed, SaysMore
<1>4. StillToStore'
  BY DEF StillToStore
<1>5. Stored'
  BY DEF Stored, InTable, Reported
<1>6. LaterFeed'
  BY DEF LaterFeed, SaysMore, Reported
<1>7. FreshFeed'
  BY DEF FreshFeed
<1>8. AskedUnscored'
  BY DEF AskedUnscored, Asked, Reported, OneWriter
<1>. QED BY <1>1, <1>2, <1>3, <1>4, <1>5, <1>6, <1>7, <1>8

LEMMA StoreKeepsRecords ==
  ASSUME RecordsInv, NEW s \in Rounds, NEW r \in Records, Store(s, r), EnrichmentTypeOK'
  PROVE  RecordsInv'
<1>. USE DEF RecordsInv
<1>1. score' = [score EXCEPT ![r] = fetched[s][r]]
  BY DEF Store, Becomes, Excluded
<1>2. /\ phase[s] = "store" /\ phase' = phase /\ r \in rest[s] /\ rest' = [rest EXCEPT ![s] = @ \ {r}]
      /\ writer = NoSync /\ UNCHANGED <<feed, writer, open, fetched, overlapped>>
  BY DEF Store
<1>3. /\ score \in [Records -> ScoreStates] /\ feed \in [Records -> FeedStates]
      /\ fetched \in [Rounds -> [Records -> FeedStates]] /\ rest \in [Rounds -> SUBSET Records]
      /\ overlapped \subseteq Rounds /\ writer \in Rounds \cup {NoSync}
  BY DEF EnrichmentTypeOK, Table
<1>4. Running' = Running
  BY <1>2 DEF Running
<1>5. OneWriter'
  BY <1>2 DEF OneWriter
<1>6. OverlapsSeen'
  BY <1>2, <1>4 DEF OverlapsSeen
<1>7. ASSUME NEW q \in Records
      PROVE  score'[q] = IF q = r THEN fetched[s][r] ELSE score[q]
  BY <1>1, <1>3
<1>8. KnownToFeed'
  <2>1. ASSUME NEW q \in Records, score'[q] = "feed" PROVE feed'[q] = "feed"
    <3>1. CASE q = r
      <4>1. SaysMore(fetched[s], feed)
        BY DEF KnownToFeed
      <4>. QED BY <1>2, <1>7, <2>1, <3>1, <4>1 DEF SaysMore
    <3>2. CASE q # r
      BY <1>2, <1>7, <2>1, <3>2 DEF KnownToFeed
    <3>. QED BY <3>1, <3>2
  <2>. QED BY <1>2, <2>1 DEF KnownToFeed, SaysMore
<1>9. StillToStore'
  BY <1>2, <1>3 DEF StillToStore
<1>10. Stored'
  <2>1. ASSUME NEW t \in Rounds \ overlapped, NEW q \in Records, t # s,
               phase[t] \in Reported \/ (phase[t] = "store" /\ q \notin rest[t])
        PROVE  InTable(t, q)'
    <3>1. InTable(t, q)
      BY <2>1 DEF Stored
    <3>2. phase[t] \in Reported
      BY <1>2, <2>1 DEF OverlapsSeen, Running
    <3>3. SaysMore(fetched[t], fetched[s])
      BY <1>2, <3>2 DEF LaterFeed
    <3>4. CASE q = r
      BY <1>2, <1>7, <3>3, <3>4 DEF InTable, SaysMore
    <3>5. CASE q # r
      BY <1>2, <1>7, <3>1, <3>5 DEF InTable
    <3>. QED BY <3>4, <3>5
  <2>2. ASSUME NEW q \in Records, s \notin overlapped, q \notin rest'[s]
        PROVE  InTable(s, q)'
    <3>1. CASE q = r
      BY <1>2, <1>7, <3>1 DEF InTable
    <3>2. CASE q # r
      BY <1>2, <1>3, <1>7, <2>2, <3>2 DEF Stored, InTable
    <3>. QED BY <3>1, <3>2
  <2>. QED BY <1>2, <1>3, <2>1, <2>2 DEF Stored, Reported
<1>11. LaterFeed'
  BY <1>2 DEF LaterFeed
<1>12. FreshFeed'
  BY <1>2, <1>7 DEF FreshFeed, OverlapsSeen, Running
<1>13. AskedUnscored'
  <2>1. ASSUME NEW t \in Rounds, phase[t] = "enrich" PROVE t \in overlapped /\ Asked(t)' = Asked(t)
    <3>1. t # s
      BY <1>2, <2>1
    <3>2. t \in overlapped
      BY <1>2, <2>1, <3>1 DEF OverlapsSeen, Running
    <3>3. rest'[t] = rest[t]
      BY <1>2, <1>3, <3>1
    <3>. QED BY <1>2, <3>2, <3>3 DEF Asked
  <2>. QED BY <1>2, <2>1 DEF AskedUnscored
<1>. QED BY <1>5, <1>6, <1>8, <1>9, <1>10, <1>11, <1>12, <1>13

LEMMA StoreFailsKeepsRecords ==
  ASSUME RecordsInv, NEW s \in Rounds, NEW r \in Records, StoreFails(s, r), EnrichmentTypeOK'
  PROVE  RecordsInv'
<1>. USE RoundsAssumption
      DEF RecordsInv, EnrichmentTypeOK, StoreFails, FeedStates, ScoreStates, Table, Budget,
          roundVars, chainVars
<1>1. OneWriter'
  BY DEF OneWriter
<1>2. OverlapsSeen'
  BY DEF OneWriter, OverlapsSeen, Running
<1>3. KnownToFeed'
  BY DEF KnownToFeed, SaysMore
<1>4. StillToStore'
  BY DEF StillToStore
<1>5. Stored'
  BY DEF Stored, InTable, Reported, OneWriter, OverlapsSeen, Running
<1>6. LaterFeed'
  BY DEF LaterFeed, SaysMore, Reported
<1>7. FreshFeed'
  BY DEF FreshFeed
<1>8. AskedUnscored'
  BY DEF AskedUnscored, Asked, Reported
<1>. QED BY <1>1, <1>2, <1>3, <1>4, <1>5, <1>6, <1>7, <1>8

LEMMA EnrichKeepsRecords ==
  ASSUME RecordsInv, NEW s \in Rounds, NEW r \in Records, Enrich(s, r), EnrichmentTypeOK'
  PROVE  RecordsInv'
<1>. USE RoundsAssumption
      DEF RecordsInv, EnrichmentTypeOK, Enrich, FeedStates, ScoreStates, Table, Budget, roundVars,
          chainVars
<1>1. OneWriter'
  BY DEF OneWriter
<1>2. OverlapsSeen'
  BY DEF OneWriter, OverlapsSeen, Running
<1>3. KnownToFeed'
  BY DEF KnownToFeed, SaysMore
<1>4. StillToStore'
  BY DEF StillToStore
<1>5. Stored'
  BY DEF Stored, InTable, Reported
<1>6. LaterFeed'
  BY DEF LaterFeed, SaysMore, Reported
<1>7. FreshFeed'
  BY DEF FreshFeed
<1>8. AskedUnscored'
  BY DEF AskedUnscored, Asked, Reported, OneWriter
<1>. QED BY <1>1, <1>2, <1>3, <1>4, <1>5, <1>6, <1>7, <1>8

LEMMA NotEnrichedKeepsRecords ==
  ASSUME RecordsInv, NEW s \in Rounds, NEW r \in Records, NotEnriched(s, r), EnrichmentTypeOK'
  PROVE  RecordsInv'
<1>. USE RoundsAssumption
      DEF RecordsInv, EnrichmentTypeOK, NotEnriched, FeedStates, ScoreStates, Table, Budget,
          roundVars, chainVars
<1>1. OneWriter'
  BY DEF OneWriter
<1>2. OverlapsSeen'
  BY DEF OneWriter, OverlapsSeen, Running
<1>3. KnownToFeed'
  BY DEF KnownToFeed, SaysMore
<1>4. StillToStore'
  BY DEF StillToStore
<1>5. Stored'
  BY DEF Stored, InTable, Reported
<1>6. LaterFeed'
  BY DEF LaterFeed, SaysMore, Reported
<1>7. FreshFeed'
  BY DEF FreshFeed
<1>8. AskedUnscored'
  BY DEF AskedUnscored, Asked, Reported, OneWriter
<1>. QED BY <1>1, <1>2, <1>3, <1>4, <1>5, <1>6, <1>7, <1>8

LEMMA FillKeepsRecords ==
  ASSUME RecordsInv, NEW r \in Records, Fill(r), EnrichmentTypeOK'
  PROVE  RecordsInv'
<1>. USE RoundsAssumption
      DEF RecordsInv, EnrichmentTypeOK, Fill, Becomes, IfStillUnscored, FeedStates, ScoreStates,
          Table, Budget, roundVars, chainVars
<1>1. OneWriter'
  BY DEF OneWriter
<1>2. OverlapsSeen'
  BY DEF OneWriter, OverlapsSeen, Running
<1>3. KnownToFeed'
  BY DEF KnownToFeed, SaysMore
<1>4. StillToStore'
  BY DEF StillToStore
<1>5. Stored'
  BY DEF Stored, InTable, Reported, Candidates
<1>6. LaterFeed'
  BY DEF LaterFeed, SaysMore, Reported
<1>7. FreshFeed'
  BY DEF FreshFeed
<1>8. AskedUnscored'
  BY DEF AskedUnscored, Asked, Reported, Candidates
<1>. QED BY <1>1, <1>2, <1>3, <1>4, <1>5, <1>6, <1>7, <1>8

LEMMA PublishKeepsRecords ==
  ASSUME RecordsInv, NEW r \in Records, Publish(r), EnrichmentTypeOK'
  PROVE  RecordsInv'
<1>. USE DEF RecordsInv
<1>1. UNCHANGED <<score, writer, open, phase, fetched, rest, overlapped>>
  BY DEF Publish, roundVars
<1>2. SaysMore(feed, feed')
  BY DEF Publish, EnrichmentTypeOK, SaysMore
<1>3. KnownToFeed'
  <2>1. \A q \in Records : score[q] = "feed" => feed'[q] = "feed"
    BY <1>2 DEF KnownToFeed, SaysMore
  <2>2. ASSUME NEW s \in Rounds PROVE SaysMore(fetched[s], feed')
    <3>1. SaysMore(fetched[s], feed)
      BY DEF KnownToFeed
    <3>. QED BY <1>2, <3>1 DEF SaysMore
  <2>. QED BY <1>1, <2>1, <2>2 DEF KnownToFeed, SaysMore
<1>4. Running' = Running /\ \A t \in Rounds : Asked(t)' = Asked(t)
  BY <1>1 DEF Running, Asked
<1>5. OneWriter' /\ OverlapsSeen' /\ StillToStore'
  BY <1>1, <1>4 DEF OneWriter, OverlapsSeen, StillToStore
<1>6. Stored' /\ LaterFeed' /\ FreshFeed' /\ AskedUnscored'
  BY <1>1, <1>4 DEF Stored, InTable, LaterFeed, FreshFeed, AskedUnscored
<1>. QED BY <1>3, <1>5, <1>6

LEMMA RecordsStep == RecordsInv /\ [EnrichmentNext]_enrichmentVars => RecordsInv'
<1>. SUFFICES ASSUME RecordsInv, [EnrichmentNext]_enrichmentVars PROVE RecordsInv'
  OBVIOUS
<1>1. EnrichmentTypeOK'
  BY RecordsTypes DEF RecordsInv
<1>2. ASSUME NEW s \in Rounds, RoundStep(s) PROVE RecordsInv'
  BY <1>1, <1>2, FetchKeepsRecords, FetchFailsKeepsRecords, SuccessKeepsRecords, QueryKeepsRecords,
     CommitKeepsRecords, RoundLostKeepsRecords, StoreKeepsRecords, StoreFailsKeepsRecords,
     EnrichKeepsRecords, NotEnrichedKeepsRecords
     DEF RoundStep
<1>3. ASSUME UNCHANGED <<feed, score, writer, open, roundVars>> PROVE RecordsInv'
  <2>1. UNCHANGED <<feed, score, writer, open, phase, fetched, rest, overlapped>>
    BY <1>3 DEF roundVars
  <2>2. Running' = Running /\ \A t \in Rounds : Asked(t)' = Asked(t)
    BY <2>1 DEF Running, Asked
  <2>. QED
    BY <1>1, <2>1, <2>2
          DEF RecordsInv, OneWriter, OverlapsSeen, KnownToFeed, StillToStore, Stored, InTable,
       LaterFeed, FreshFeed, AskedUnscored
<1>4. CASE BackfillStep
  <2>1. ASSUME NEW r \in Records, Fill(r) PROVE RecordsInv'
    BY <1>1, <2>1, FillKeepsRecords
  <2>2. CASE Backfill \/ EndPage \/ \E r \in Records : NotFilled(r)
    BY <1>3, <2>2 DEF Backfill, EndPage, NotFilled
  <2>. QED BY <1>4, <2>1, <2>2 DEF BackfillStep
<1>5. CASE UNCHANGED enrichmentVars
  BY <1>3, <1>5 DEF enrichmentVars
<1>. QED BY <1>1, <1>2, <1>4, <1>5, PublishKeepsRecords DEF EnrichmentNext

\* The records part of Enrichment keeps its types.
THEOREM RecordTypeCorrect == EnrichmentSpec => []EnrichmentTypeOK
<1>1. RecordsInv => EnrichmentTypeOK
  BY DEF RecordsInv
<1>. QED BY <1>1, RecordsInitially, RecordsStep, PTL DEF EnrichmentSpec

\* What a sync that no other one overlapped reports as stored is in the table, with the
\* score of the feed, however many syncs, records and enrichments follow.
THEOREM StoredOnly == EnrichmentSpec => []FeedStored
<1>1. RecordsInv => FeedStored
  BY DEF RecordsInv, Stored, InTable, Reported, FeedStored
<1>. QED BY <1>1, RecordsInitially, RecordsStep, PTL DEF EnrichmentSpec

\* A step that takes a score of the feed away.
LEMMA OnlyOverlapped ==
  ASSUME RecordsInv, [EnrichmentNext]_enrichmentVars,
         NEW r \in Records, score[r] = "feed", score'[r] # "feed"
  PROVE  \E s \in overlapped : phase[s] = "store" \/ writer = s
<1>. USE DEF RecordsInv, EnrichmentTypeOK, Table
<1>1. ASSUME NEW s \in Rounds, NEW q \in Records, Store(s, q)
      PROVE  phase[s] = "store" /\ s \in overlapped
  <2>1. /\ phase[s] = "store"
        /\ score' = [score EXCEPT ![q] = fetched[s][q]]
    BY <1>1 DEF Store, Becomes, Excluded
  <2>. QED BY <2>1 DEF FreshFeed
<1>2. ASSUME NEW s \in Rounds, Commit(s) PROVE writer = s /\ s \in overlapped
  <2>1. writer = s /\ phase[s] = "enrich" /\ r \in open
    BY <1>2 DEF Commit, Becomes, Committed
  <2>. QED BY <2>1 DEF AskedUnscored, Asked
<1>3. ASSUME NEW q \in Records, Fill(q) PROVE FALSE
  BY <1>3 DEF Fill, Becomes, IfStillUnscored, Candidates
<1>. QED
  BY <1>1, <1>2, <1>3
     DEF EnrichmentNext, RoundStep, BackfillStep, Fetch, FetchFails, Success, Query, RoundLost,
         StoreFails, Enrich, NotEnriched, Backfill, EndPage, NotFilled, Publish,
         enrichmentVars

\* No step but one of a sync that overlapped another takes a score of the feed away.
THEOREM ScoreKept == EnrichmentSpec => FeedScoreKept
<1>1. RecordsInv /\ [EnrichmentNext]_enrichmentVars =>
        [\A r \in Records :
           score[r] = "feed" /\ score'[r] # "feed" =>
             \E s \in overlapped : phase[s] = "store" \/ writer = s]_enrichmentVars
  BY OnlyOverlapped
<1>. QED BY <1>1, RecordsInitially, RecordsStep, PTL DEF EnrichmentSpec, FeedScoreKept

-----------------------------------------------------------------------------
(* The pages of the backfill task. *)

\* The members of a set of ids that come before b in ORDER BY id.
Before(C, b) == {q \in C : q < b}

\* A set of ids, as Candidates(score) is one.
Ids(C) == C \subseteq Nat /\ IsFiniteSet(C)

LEMMA SmallerSet ==
  ASSUME NEW T, IsFiniteSet(T), NEW S \in SUBSET T
  PROVE  /\ IsFiniteSet(S)
         /\ Cardinality(S) \in Nat /\ Cardinality(T) \in Nat
         /\ Cardinality(S) <= Cardinality(T)
  BY FS_Subset, FS_CardinalityType

LEMMA BeforeFinite ==
  ASSUME NEW C, Ids(C), NEW b
  PROVE  /\ IsFiniteSet(C) /\ Cardinality(C) \in Nat
         /\ IsFiniteSet(Before(C, b))
         /\ Cardinality(Before(C, b)) \in Nat
         /\ Cardinality(Before(C, b)) <= Cardinality(C)
<1>1. Before(C, b) \in SUBSET C
  BY DEF Before
<1>. QED BY <1>1, SmallerSet DEF Ids

LEMMA BeforeGrows ==
  ASSUME NEW C, Ids(C), NEW a \in Nat, NEW b \in Nat, a <= b
  PROVE  Cardinality(Before(C, a)) <= Cardinality(Before(C, b))
<1>1. Before(C, a) \in SUBSET Before(C, b)
  <2>1. ASSUME NEW q \in C, q < a PROVE q < b
    <3>1. q \in Nat
      BY DEF Ids
    <3>. QED BY <2>1, <3>1
  <2>. QED BY <2>1 DEF Before
<1>2. IsFiniteSet(Before(C, b))
  BY BeforeFinite
<1>. QED BY <1>1, <1>2, SmallerSet

LEMMA OneMore ==
  ASSUME NEW C, Ids(C), NEW r \in C
  PROVE  Cardinality(Before(C, r + 1)) = Cardinality(Before(C, r)) + 1
<1>1. Before(C, r + 1) = Before(C, r) \cup {r} /\ r \notin Before(C, r)
  <2>1. r \in Nat
    BY DEF Ids
  <2>2. ASSUME NEW q \in C PROVE q < r + 1 <=> q < r \/ q = r
    <3>1. q \in Nat
      BY DEF Ids
    <3>. QED BY <2>1, <3>1
  <2>3. Before(C, r + 1) = {q \in C : q < r \/ q = r}
    BY <2>2, Zenon DEF Before
  <2>4. ~(r < r)
    BY <2>1
  <2>. QED BY <2>3, <2>4 DEF Before
<1>2. IsFiniteSet(Before(C, r))
  BY BeforeFinite
<1>. QED BY <1>1, <1>2, FS_AddElement

\* ORDER BY id gives every candidate a position of its own.
LEMMA RanksDiffer ==
  ASSUME NEW C, Ids(C), NEW q \in C, NEW r \in C, q < r
  PROVE  Cardinality(Before(C, q)) < Cardinality(Before(C, r))
<1>1. q \in Nat /\ r \in Nat /\ q + 1 <= r
  BY DEF Ids
<1>2. Cardinality(Before(C, q + 1)) <= Cardinality(Before(C, r))
  BY <1>1, BeforeGrows
<1>. QED BY <1>2, OneMore, BeforeFinite

\* No more candidates than positions.
LEMMA NoMoreThanRanks ==
  ASSUME NEW C, Ids(C), NEW S \in SUBSET C, NEW a \in Nat, NEW k \in Nat, a <= k,
         \A r \in S : Cardinality(Before(C, r)) \in a..(k - 1)
  PROVE  /\ IsFiniteSet(S) /\ Cardinality(S) \in Nat
         /\ Cardinality(S) <= k - a
         /\ (\A n \in a..(k - 1) : \E r \in S : Cardinality(Before(C, r)) = n) => Cardinality(S) = k - a
<1>. DEFINE f == [r \in S |-> Cardinality(Before(C, r))]
<1>1. f \in Injection(S, a..(k - 1))
  <2>1. ASSUME NEW q \in S, NEW r \in S, f[q] = f[r] PROVE q = r
    <3>1. q \in Nat /\ r \in Nat
      BY DEF Ids
    <3>2. q = r \/ q < r \/ r < q
      BY <3>1
    <3>. QED BY <2>1, <3>2, RanksDiffer, BeforeFinite
  <2>2. f \in [S -> a..(k - 1)]
    OBVIOUS
  <2>. QED BY <2>1, <2>2 DEF Injection, IsInjective
<1>2. IsFiniteSet(a..(k - 1)) /\ Cardinality(a..(k - 1)) = k - a
  <2>1. k - 1 \in Int /\ (a > k - 1 \/ (k - 1) - a + 1 = k - a)
    OBVIOUS
  <2>2. IsFiniteSet(a..(k - 1)) /\ Cardinality(a..(k - 1)) = IF a > k - 1 THEN 0 ELSE (k - 1) - a + 1
    BY <2>1, FS_Interval
  <2>. QED BY <2>1, <2>2
<1>3. /\ IsFiniteSet(S)
      /\ Cardinality(S) <= k - a
      /\ f \in Surjection(S, a..(k - 1)) => Cardinality(S) = k - a
  BY <1>1, <1>2, FS_Injection
<1>4. Cardinality(S) \in Nat
  BY <1>3, FS_CardinalityType
<1>5. ASSUME \A n \in a..(k - 1) : \E r \in S : Cardinality(Before(C, r)) = n
      PROVE  f \in Surjection(S, a..(k - 1))
  <2>1. f \in [S -> a..(k - 1)]
    OBVIOUS
  <2>. QED BY <1>5, <2>1 DEF Surjection
<1>. QED BY <1>3, <1>4, <1>5

\* Every position below the number of candidates is taken.
LEMMA RanksTaken ==
  ASSUME NEW C, Ids(C), NEW n \in Nat, n < Cardinality(C)
  PROVE  \E r \in C : Cardinality(Before(C, r)) = n
<1>. DEFINE f == [r \in C |-> Cardinality(Before(C, r))]
            k == Cardinality(C)
<1>1. k \in Nat /\ IsFiniteSet(C)
  BY BeforeFinite
<1>2. ASSUME NEW r \in C PROVE Cardinality(Before(C, r)) \in 0..(k - 1)
  <2>1. Cardinality(Before(C, r + 1)) = Cardinality(Before(C, r)) + 1
    BY OneMore
  <2>. QED BY <1>1, <2>1, BeforeFinite
<1>3. f \in Injection(C, 0..(k - 1))
  <2>1. ASSUME NEW q \in C, NEW r \in C, f[q] = f[r] PROVE q = r
    <3>1. q \in Nat /\ r \in Nat
      BY DEF Ids
    <3>2. q = r \/ q < r \/ r < q
      BY <3>1
    <3>. QED BY <2>1, <3>2, RanksDiffer, BeforeFinite
  <2>2. f \in [C -> 0..(k - 1)]
    BY <1>2
  <2>. QED BY <2>1, <2>2 DEF Injection, IsInjective
<1>4. IsFiniteSet(0..(k - 1)) /\ Cardinality(0..(k - 1)) = k
  <2>1. /\ IsFiniteSet(0..(k - 1))
        /\ Cardinality(0..(k - 1)) = IF 0 > k - 1 THEN 0 ELSE (k - 1) - 0 + 1
    <3>1. 0 \in Int /\ k - 1 \in Int
      BY <1>1
    <3>. HIDE DEF k
    <3>. QED BY <3>1, FS_Interval
  <2>. QED BY <1>1, <2>1
<1>5. f \in Surjection(C, 0..(k - 1))
  BY <1>3, <1>4, FS_Injection
<1>6. n \in 0..(k - 1)
  BY <1>1
<1>. QED BY <1>5, <1>6 DEF Surjection

\* The page of m ids from position a.
PageOf(C, a, m) == {r \in C : Cardinality(Before(C, r)) \in a..(a + m - 1)}

\* A full page has a last id, and a page that is not full is the last page.
LEMMA PageFull ==
  ASSUME NEW C, Ids(C), NEW a \in Nat, NEW m \in Nat \ {0}, Cardinality(PageOf(C, a, m)) = m
  PROVE  \E r \in C : Cardinality(Before(C, r)) = a + m - 1
<1>. SUFFICES ASSUME ~\E r \in C : Cardinality(Before(C, r)) = a + m - 1 PROVE FALSE
  OBVIOUS
<1>. DEFINE P == PageOf(C, a, m)
<1>1. P \in SUBSET C
  BY DEF PageOf
<1>2. ASSUME NEW r \in P PROVE Cardinality(Before(C, r)) \in a..((a + m - 1) - 1)
  BY BeforeFinite DEF PageOf
<1>3. a + m - 1 \in Nat /\ a <= a + m - 1
  OBVIOUS
<1>4. Cardinality(P) <= (a + m - 1) - a
  BY <1>1, <1>2, <1>3, NoMoreThanRanks
<1>. QED BY <1>4

LEMMA PageNotFull ==
  ASSUME NEW C, Ids(C), NEW a \in Nat, NEW m \in Nat \ {0}, Cardinality(PageOf(C, a, m)) # m,
         NEW r \in C
  PROVE  Cardinality(Before(C, r)) < a + m
<1>. SUFFICES ASSUME Cardinality(Before(C, r)) >= a + m PROVE FALSE
  BY BeforeFinite
<1>. DEFINE P == PageOf(C, a, m)
<1>1. P \in SUBSET C /\ \A q \in P : Cardinality(Before(C, q)) \in a..((a + m) - 1)
  BY DEF PageOf
<1>2. ASSUME NEW n \in a..((a + m) - 1) PROVE \E q \in P : Cardinality(Before(C, q)) = n
  <2>1. n \in Nat /\ n < Cardinality(C)
    BY BeforeFinite
  <2>. QED BY <2>1, RanksTaken DEF PageOf
<1>3. a + m \in Nat /\ a <= a + m
  OBVIOUS
<1>4. Cardinality(P) = (a + m) - a
  BY <1>1, <1>2, <1>3, NoMoreThanRanks
<1>. QED BY <1>4

\* What a chain of pages has stepped over up to some id is what has been scored, and the
\* next page begins no further than that from it.
Skipped(C, M, b, next, n) ==
  LET over == Cardinality(M \cap Before(C, b))
  IN  /\ over <= n
      /\ over + next <= n + Cardinality(Before(C, b))

\* Past b there are few ids before position a.
LEMMA FewLeftOut ==
  ASSUME NEW C, Ids(C), NEW M \in SUBSET C, NEW b \in Nat, NEW a \in Nat, NEW n \in Nat,
         Skipped(C, M, b, a, n),
         NEW S \in SUBSET C,
         \A r \in S : r \in M \cap Before(C, b) \/ (r >= b /\ Cardinality(Before(C, r)) < a)
  PROVE  /\ IsFiniteSet(S) /\ Cardinality(S) \in Nat
         /\ Cardinality(S) <= n
<1>. DEFINE L == Before(C, b)
            X == {r \in S : r \notin M \cap L}
<1>1. IsFiniteSet(L) /\ Cardinality(L) \in Nat
  BY BeforeFinite
<1>2. IsFiniteSet(M \cap L) /\ Cardinality(M \cap L) \in Nat
  BY <1>1, SmallerSet
<1>3. /\ Cardinality(M \cap L) <= n
      /\ Cardinality(M \cap L) + a <= n + Cardinality(L)
  BY DEF Skipped
<1>4. ASSUME NEW r \in X
      PROVE  /\ Cardinality(Before(C, r)) \in Nat
             /\ Cardinality(L) <= Cardinality(Before(C, r))
             /\ Cardinality(Before(C, r)) < a
  <2>1. r \in Nat /\ b <= r /\ Cardinality(Before(C, r)) < a
    BY DEF Ids
  <2>. QED BY <2>1, BeforeGrows, BeforeFinite
<1>5. /\ IsFiniteSet(X) /\ Cardinality(X) \in Nat
      /\ Cardinality(M \cap L) + Cardinality(X) <= n
  <2>1. CASE Cardinality(L) <= a
    <3>1. X \in SUBSET C /\ \A r \in X : Cardinality(Before(C, r)) \in Cardinality(L)..(a - 1)
      BY <1>1, <1>4
    <3>2. IsFiniteSet(X) /\ Cardinality(X) \in Nat /\ Cardinality(X) <= a - Cardinality(L)
      BY <1>1, <2>1, <3>1, NoMoreThanRanks
    <3>. QED BY <1>1, <1>2, <1>3, <3>2
  <2>2. CASE Cardinality(L) > a
    <3>1. X = {}
      BY <1>1, <1>4, <2>2
    <3>. QED BY <1>2, <1>3, <3>1, FS_EmptySet
  <2>. QED BY <1>1, <2>1, <2>2
<1>6. S \in SUBSET ((M \cap L) \cup X)
  OBVIOUS
<1>7. /\ IsFiniteSet((M \cap L) \cup X)
      /\ Cardinality((M \cap L) \cup X) = Cardinality(M \cap L) + Cardinality(X) - Cardinality((M \cap L) \cap X)
  BY <1>2, <1>5, FS_Union
<1>8. Cardinality((M \cap L) \cap X) \in Nat
  BY <1>2, SmallerSet
<1>9. IsFiniteSet(S) /\ Cardinality(S) \in Nat /\ Cardinality(S) <= Cardinality((M \cap L) \cup X)
  BY <1>6, <1>7, SmallerSet
<1>. QED BY <1>2, <1>5, <1>7, <1>8, <1>9

\* A page that is full takes the chain on, and one that is not ends it.
LEMMA NextPage ==
  ASSUME NEW C, Ids(C), NEW M \in SUBSET C, NEW b \in Nat, NEW a \in Nat, NEW n \in Nat,
         NEW m \in Nat \ {0}, Skipped(C, M, b, a, n)
  PROVE  LET P == PageOf(C, a, m)
         IN  IF Cardinality(P) = m THEN \E d \in Nat : Skipped(C, M \ P, d, a + m, n)
                                   ELSE Cardinality(M \ P) <= n
<1>. DEFINE P == PageOf(C, a, m)
<1>1. CASE Cardinality(P) = m
  <2>1. PICK r \in C : Cardinality(Before(C, r)) = a + m - 1
    BY <1>1, PageFull
  <2>2. r \in Nat
    BY DEF Ids
  <2>3. PICK d \in Nat : b <= d /\ r + 1 <= d /\ (d = b \/ d = r + 1)
    BY <2>2
  <2>4. Cardinality(Before(C, d)) \in Nat /\ a + m <= Cardinality(Before(C, d))
    <3>1. Cardinality(Before(C, r + 1)) = a + m
      BY <2>1, OneMore
    <3>. QED BY <2>2, <2>3, <3>1, BeforeGrows, BeforeFinite
  <2>. DEFINE S == (M \ P) \cap Before(C, d)
  <2>5. ASSUME NEW q \in S
        PROVE  q \in M \cap Before(C, b) \/ (q >= b /\ Cardinality(Before(C, q)) < a)
    <3>1. q \in Nat /\ q \in C /\ q \in M /\ q < d /\ q \notin P
      BY DEF Ids, Before
    <3>2. CASE q < b
      BY <3>1, <3>2 DEF Before
    <3>3. CASE q >= b
      <4>1. q <= r
        BY <2>2, <2>3, <3>1, <3>3
      <4>2. Cardinality(Before(C, q)) \in Nat /\ Cardinality(Before(C, q)) <= a + m - 1
        BY <2>1, <2>2, <3>1, <4>1, BeforeGrows, BeforeFinite
      <4>. QED BY <3>1, <3>3, <4>2 DEF PageOf
    <3>. QED BY <3>1, <3>2, <3>3
  <2>6. S \in SUBSET C
    OBVIOUS
  <2>7. Cardinality(S) \in Nat /\ Cardinality(S) <= n
    <3>. HIDE DEF S
    <3>. QED BY <2>5, <2>6, FewLeftOut
  <2>8. Skipped(C, M \ P, d, a + m, n)
    BY <2>4, <2>7 DEF Skipped
  <2>. QED BY <1>1, <2>8
<1>2. CASE Cardinality(P) # m
  <2>1. ASSUME NEW q \in M \ P
        PROVE  q \in M \cap Before(C, b) \/ (q >= b /\ Cardinality(Before(C, q)) < a)
    <3>1. q \in Nat /\ q \in C
      BY DEF Ids
    <3>2. Cardinality(Before(C, q)) \in Nat /\ Cardinality(Before(C, q)) < a + m
      BY <1>2, <3>1, PageNotFull, BeforeFinite
    <3>3. Cardinality(Before(C, q)) < a
      BY <3>1, <3>2 DEF PageOf
    <3>. QED BY <3>1, <3>3 DEF Before
  <2>2. M \ P \in SUBSET C
    OBVIOUS
  <2>3. Cardinality(M \ P) <= n
    <3>. HIDE DEF P
    <3>. QED BY <2>1, <2>2, FewLeftOut
  <2>. QED BY <1>2, <2>3
<1>. QED BY <1>1, <1>2

\* Candidates that are lost take no more away than they add to what has been scored.
LEMMA LostCandidates ==
  ASSUME NEW C, Ids(C), NEW D, Ids(D), NEW M \in SUBSET C, NEW b \in Nat, NEW a \in Nat, NEW n \in Nat,
         Skipped(C, M, b, a, n)
  PROVE  Skipped(D, M \ (C \ D), b, a, n + Cardinality(C \ D))
<1>. DEFINE N == M \ (C \ D)
            K == Before(C, b)
            L == Before(D, b)
<1>1. /\ IsFiniteSet(K) /\ Cardinality(K) \in Nat
      /\ IsFiniteSet(L) /\ Cardinality(L) \in Nat
  BY BeforeFinite
<1>2. IsFiniteSet(C \ D) /\ Cardinality(C \ D) \in Nat
  BY SmallerSet DEF Ids
<1>3. /\ Cardinality(N \cap L) \in Nat /\ Cardinality(M \cap K) \in Nat
      /\ Cardinality(N \cap L) <= Cardinality(M \cap K)
  <2>1. IsFiniteSet(M \cap K)
    BY <1>1, SmallerSet
  <2>2. N \cap L \in SUBSET (M \cap K)
    BY DEF Before
  <2>. QED BY <2>1, <2>2, SmallerSet
<1>4. Cardinality(K) <= Cardinality(L) + Cardinality(C \ D)
  <2>1. K \in SUBSET (L \cup (C \ D))
    BY DEF Before
  <2>2. /\ IsFiniteSet(L \cup (C \ D))
        /\ Cardinality(L \cup (C \ D)) = Cardinality(L) + Cardinality(C \ D) - Cardinality(L \cap (C \ D))
    BY <1>1, <1>2, FS_Union
  <2>3. Cardinality(L \cap (C \ D)) \in Nat
    BY <1>1, SmallerSet
  <2>4. Cardinality(K) <= Cardinality(L \cup (C \ D)) /\ Cardinality(L \cup (C \ D)) \in Nat
    BY <2>1, <2>2, SmallerSet
  <2>. QED BY <1>1, <1>2, <2>2, <2>3, <2>4
<1>5. /\ Cardinality(M \cap K) <= n
      /\ Cardinality(M \cap K) + a <= n + Cardinality(K)
  BY DEF Skipped
<1>6. /\ Cardinality(N \cap L) <= n + Cardinality(C \ D)
      /\ Cardinality(N \cap L) + a <= n + Cardinality(C \ D) + Cardinality(L)
  <2>. HIDE DEF N, K, L
  <2>. QED BY <1>1, <1>2, <1>3, <1>4, <1>5
<1>. QED BY <1>6 DEF Skipped

\* Where the next page of the chain begins.
NextOffset == IF backfill = "full" THEN offset + MaxTotal ELSE offset

Chained ==
  /\ backfill = "idle" => offset = 0 /\ scored = 0 /\ missed = {}
  /\ backfill # "ended" => missed \subseteq Candidates(score)
  /\ backfill \in {"full", "resume"} =>
       \E b \in Nat : Skipped(Candidates(score), missed, b, NextOffset, scored)
  /\ backfill \in {"last", "ended"} => Cardinality(missed) <= scored

LEMMA CandidateIds == ASSUME NEW table PROVE Ids(Candidates(table))
  BY RecordsAssumption, CandidatesFinite DEF Ids, Candidates

LEMMA BecomesKeepsChain ==
  ASSUME EnrichmentTypeOK, Chained, NEW table, Becomes(table), UNCHANGED <<backfill, offset>>
  PROVE  Chained'
<1>. DEFINE C == Candidates(score)
            D == Candidates(table)
<1>1. Candidates(score)' = D
  BY DEF Becomes, Candidates
<1>2. Ids(C) /\ Ids(D)
  BY CandidateIds
<1>3. CASE backfill = "ended"
  BY <1>3 DEF Chained, Becomes
<1>4. CASE backfill = "idle"
  BY <1>1, <1>4 DEF Chained, Becomes
<1>5. ASSUME backfill \notin {"idle", "ended"}
      PROVE  /\ missed' = missed \ (C \ D) /\ scored' = scored + Cardinality(C \ D)
             /\ missed \subseteq C /\ missed' \subseteq D
             /\ Cardinality(C \ D) \in Nat /\ scored \in Nat
  BY <1>5, CandidatesFinite DEF Chained, Becomes, EnrichmentTypeOK
<1>6. CASE backfill \in {"full", "resume"}
  <2>1. PICK b \in Nat : Skipped(C, missed, b, NextOffset, scored)
    BY <1>6 DEF Chained
  <2>2. NextOffset \in Nat /\ NextOffset' = NextOffset
    BY PagesAssumption DEF NextOffset, EnrichmentTypeOK
  <2>3. Skipped(D, missed', b, NextOffset', scored')
    BY <1>2, <1>5, <1>6, <2>1, <2>2, LostCandidates
  <2>. QED BY <1>1, <1>5, <1>6, <2>3 DEF Chained
<1>7. CASE backfill = "last"
  <2>1. missed' \in SUBSET missed /\ IsFiniteSet(missed)
    BY <1>2, <1>5, <1>7, SmallerSet DEF Ids
  <2>2. /\ Cardinality(missed') \in Nat /\ Cardinality(missed) \in Nat
        /\ Cardinality(missed') <= Cardinality(missed)
    BY <2>1, SmallerSet
  <2>3. Cardinality(missed') <= scored'
    BY <1>5, <1>7, <2>2 DEF Chained
  <2>. QED BY <1>1, <1>5, <1>7, <2>3 DEF Chained
<1>. QED BY <1>3, <1>4, <1>6, <1>7 DEF EnrichmentTypeOK

LEMMA BackfillKeepsChain ==
  ASSUME EnrichmentTypeOK, Chained, Backfill
  PROVE  Chained'
<1>. DEFINE C == Candidates(score)
            M == IF backfill = "idle" THEN C ELSE missed
            P == PageOf(C, offset, MaxTotal)
<1>1. Ids(C) /\ M \in SUBSET C
  BY CandidateIds DEF Chained, Backfill
<1>2. Page = P
  BY DEF Page, Rank, PageOf, Before
<1>3. /\ backfill \in {"idle", "resume"}
      /\ missed' = M \ P
      /\ backfill' = IF Cardinality(P) = MaxTotal THEN "full" ELSE "last"
      /\ UNCHANGED <<score, offset, scored>>
  BY <1>2 DEF Backfill
<1>4. PICK b \in Nat : Skipped(C, M, b, offset, scored)
  <2>1. CASE backfill = "idle"
    <3>1. M \cap Before(C, 0) = {} /\ Before(C, 0) = {}
      BY <1>1 DEF Before, Ids
    <3>2. Skipped(C, M, 0, offset, scored)
      BY <2>1, <3>1, FS_EmptySet DEF Skipped, Chained
    <3>. QED BY <3>2
  <2>2. CASE backfill = "resume"
    BY <2>2 DEF Chained, NextOffset
  <2>. QED BY <1>3, <2>1, <2>2
<1>5. IF Cardinality(P) = MaxTotal THEN \E d \in Nat : Skipped(C, M \ P, d, offset + MaxTotal, scored)
                                   ELSE Cardinality(M \ P) <= scored
  <2>. HIDE DEF M, C
  <2>. QED BY <1>1, <1>4, NextPage, PagesAssumption DEF EnrichmentTypeOK
<1>6. Candidates(score)' = C
  BY <1>3 DEF Candidates
<1>. QED BY <1>1, <1>3, <1>5, <1>6 DEF Chained, NextOffset

LEMMA ChainStep ==
  EnrichmentTypeOK /\ Chained /\ [EnrichmentNext]_enrichmentVars => Chained'
<1>. SUFFICES ASSUME EnrichmentTypeOK, Chained, [EnrichmentNext]_enrichmentVars PROVE Chained'
  OBVIOUS
<1>1. ASSUME UNCHANGED <<score, missed, scored, backfill, offset>> PROVE Chained'
  <2>1. Candidates(score)' = Candidates(score) /\ NextOffset' = NextOffset
    BY <1>1 DEF Candidates, NextOffset
  <2>. QED BY <1>1, <2>1 DEF Chained
<1>2. ASSUME NEW s \in Rounds, RoundStep(s) PROVE Chained'
  <2>1. CASE Commit(s)
    BY <1>1, <2>1, BecomesKeepsChain DEF Commit
  <2>2. ASSUME NEW r \in Records, Store(s, r) PROVE Chained'
    BY <2>2, BecomesKeepsChain DEF Store
  <2>. QED
    BY <1>1, <1>2, <2>1, <2>2
      
            DEF RoundStep, Fetch, FetchFails, Success, Query, RoundLost, StoreFails, Enrich,
                NotEnriched, chainVars
<1>3. CASE BackfillStep
  <2>1. CASE EndPage
    <3>1. Candidates(score)' = Candidates(score)
      BY <2>1 DEF EndPage, Candidates
    <3>. QED BY <2>1, <3>1 DEF EndPage, Chained, NextOffset
  <2>2. ASSUME NEW r \in Records, Fill(r) PROVE Chained'
    BY <2>2, BecomesKeepsChain DEF Fill
  <2>. QED BY <1>1, <1>3, <2>1, <2>2, BackfillKeepsChain DEF BackfillStep, NotFilled
<1>4. CASE UNCHANGED enrichmentVars \/ \E r \in Records : Publish(r)
  BY <1>1, <1>4 DEF enrichmentVars, chainVars, Publish
<1>. QED BY <1>2, <1>3, <1>4 DEF EnrichmentNext

\* What the offset of the backfill task steps over is bounded by what was scored meanwhile.
THEOREM MissesOnly == EnrichmentSpec => []BackfillMisses
<1>1. EnrichmentInit => EnrichmentTypeOK /\ Chained
  <2>1. EnrichmentInit => EnrichmentTypeOK
    BY RecordsInitially DEF RecordsInv
  <2>. QED BY <2>1 DEF EnrichmentInit, Chained
<1>2. EnrichmentTypeOK /\ Chained /\ [EnrichmentNext]_enrichmentVars => (EnrichmentTypeOK /\ Chained)'
  BY RecordsTypes, ChainStep
<1>3. Chained => BackfillMisses
  BY DEF Chained, BackfillMisses
<1>. QED BY <1>1, <1>2, <1>3, PTL DEF EnrichmentSpec
=============================================================================
