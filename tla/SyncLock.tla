------------------------------ MODULE SyncLock ------------------------------
(***************************************************************************)
(* The lock under which the feeds of vulnerability intelligence are        *)
(* synchronised: one key in Redis with a lease, the singleton _sync_lock   *)
(* of every process that remembers the token of its last acquisition, and  *)
(* a lock of the process for when Redis does not answer.  A sync is one    *)
(* attempt to take the lock: a thread of the web application, a round of   *)
(* the legacy scheduler, or one of the two syncs of the Celery task.       *)
(***************************************************************************)
EXTENDS Naturals, FiniteSets

CONSTANTS
  Syncs,
  Processes,
  Home,            \* Home[s] is the process that runs s
  NoToken,         \* None, as a token and as the value of the key
  Mishaps          \* choices of how often Redis and the processes fail

ASSUME HomeAssumption == Home \in [Syncs -> Processes]

ASSUME NoTokenAssumption == NoToken \notin Syncs

Trouble == {"expiry", "outage", "lost", "crash"}

ASSUME MishapsAssumption == Mishaps \subseteq [Trouble -> Nat]

VARIABLES
  required,       \* REQUIRE_DISTRIBUTED_LOCK
  up,             \* Redis answers
  lease,          \* the value of the key: the sync whose token it is
  client,         \* the processes that keep a _redis_client
  token,          \* _token of each process's _sync_lock, shared by its threads
  process_lock,   \* the processes whose _process_lock is locked
  at,
  grip,           \* history: what let the sync in
  robbed,         \* history: syncs that lost what let them in while they ran
  trouble         \* what may still go wrong

lockVars == <<required, up, lease, client, token, process_lock, at, grip, robbed, trouble>>

Grips == {"none", "lease", "process"}

LockInit ==
  /\ required \in BOOLEAN
  /\ up \in BOOLEAN
  /\ lease = NoToken
  /\ client = {}
  /\ token = [p \in Processes |-> NoToken]
  /\ process_lock = {}
  /\ at = [s \in Syncs |-> "idle"]
  /\ grip = [s \in Syncs |-> "none"]
  /\ robbed = {}
  /\ trouble \in Mishaps

\* The syncs that read feeds and write records.
Inside == {s \in Syncs : at[s] \in {"won", "in"}}

Befalls(e) == trouble[e] > 0 /\ trouble' = [trouble EXCEPT ![e] = @ - 1]

-----------------------------------------------------------------------------
(* acquire *)

\* _get_redis_client: a client that answered once is kept, whatever becomes of Redis.
Connects(p) ==
  /\ p \in client \/ up
  /\ client' = client \cup {p}

WinAlways(s) ==
  /\ at[s] = "idle" /\ up
  /\ Connects(Home[s])
  /\ lease' = s
  /\ grip' = [grip EXCEPT ![s] = "lease"]
  /\ at' = [at EXCEPT ![s] = "won"]
  /\ UNCHANGED <<required, up, token, process_lock, robbed, trouble>>

\* SET with NX and EX.  The token is stored on the singleton in a second step.
Win(s) ==
  /\ at[s] = "idle" /\ up /\ lease = NoToken
  /\ Connects(Home[s])
  /\ lease' = s
  /\ grip' = [grip EXCEPT ![s] = "lease"]
  /\ at' = [at EXCEPT ![s] = "won"]
  /\ UNCHANGED <<required, up, token, process_lock, robbed, trouble>>

StoreToken(s) ==
  /\ at[s] = "won"
  /\ token' = [token EXCEPT ![Home[s]] = s]
  /\ at' = [at EXCEPT ![s] = "in"]
  /\ UNCHANGED <<required, up, lease, client, process_lock, grip, robbed, trouble>>

\* Somebody else's lease: the sync is skipped.
Skip(s) ==
  /\ at[s] = "idle" /\ up /\ lease # NoToken
  /\ Connects(Home[s])
  /\ at' = [at EXCEPT ![s] = "done"]
  /\ UNCHANGED <<required, up, lease, token, process_lock, grip, robbed, trouble>>

\* Without an answer of Redis: raise, or try the lock of the process.
FallBack(s) ==
  IF required \/ Home[s] \in process_lock
    THEN /\ at' = [at EXCEPT ![s] = "done"]
         /\ UNCHANGED <<process_lock, grip>>
    ELSE /\ at' = [at EXCEPT ![s] = "in"]
         /\ process_lock' = process_lock \cup {Home[s]}
         /\ grip' = [grip EXCEPT ![s] = "process"]

NoAnswer(s) ==
  /\ at[s] = "idle" /\ ~up
  /\ FallBack(s)
  /\ UNCHANGED <<required, up, lease, client, token, robbed, trouble>>

\* Redis executed the SET and its reply did not arrive within the socket timeout.
ReplyLost(s) ==
  /\ at[s] = "idle" /\ up
  /\ Befalls("lost")
  /\ Connects(Home[s])
  /\ lease' = IF lease = NoToken THEN s ELSE lease
  /\ FallBack(s)
  /\ UNCHANGED <<required, up, token, robbed>>

-----------------------------------------------------------------------------
(* release *)

UncheckedDelete(s) ==
  /\ lease' = NoToken
  /\ robbed' = IF lease # s /\ lease \in Inside THEN robbed \cup {lease} ELSE robbed

\* The check-and-delete script: the key goes only if it holds the token that the
\* singleton remembers, which may be another thread's by now.
Evaluated(s) ==
  LET mine == token[Home[s]]
  IN  /\ lease' = IF lease = mine THEN NoToken ELSE lease
      /\ robbed' = IF lease = mine /\ mine # s /\ mine \in Inside
                     THEN robbed \cup {mine} ELSE robbed

Delete(s) ==
  /\ at[s] = "in" /\ up
  /\ Connects(Home[s])
  /\ token[Home[s]] # NoToken
  /\ Evaluated(s)
  /\ \/ at' = [at EXCEPT ![s] = "clear"] /\ UNCHANGED trouble
     \/ at' = [at EXCEPT ![s] = "failed"] /\ Befalls("lost")
  /\ UNCHANGED <<required, up, token, process_lock, grip>>

\* Redis is gone: the client that is kept raises when it is used.
DeleteFails(s) ==
  /\ at[s] = "in" /\ ~up
  /\ Home[s] \in client /\ token[Home[s]] # NoToken
  /\ at' = [at EXCEPT ![s] = "failed"]
  /\ UNCHANGED <<required, up, lease, client, token, process_lock, grip, robbed, trouble>>

ClearToken(s) ==
  /\ at[s] = "clear"
  /\ token' = [token EXCEPT ![Home[s]] = NoToken]
  /\ at' = [at EXCEPT ![s] = "done"]
  /\ UNCHANGED <<required, up, lease, client, process_lock, grip, robbed, trouble>>

\* A client without a token: release returns and leaves the process lock as it is.
NothingToDelete(s) ==
  /\ at[s] = "in"
  /\ Connects(Home[s])
  /\ token[Home[s]] = NoToken
  /\ at' = [at EXCEPT ![s] = "done"]
  /\ UNCHANGED <<required, up, lease, token, process_lock, grip, robbed, trouble>>

\* _process_lock.release(), which asks nobody whether s holds it.
Unlock(s) ==
  /\ process_lock' = process_lock \ {Home[s]}
  /\ robbed' = robbed \cup {t \in Inside \ {s} : grip[t] = "process" /\ Home[t] = Home[s]}

AfterFailure(s) ==
  /\ at[s] = "failed"
  /\ token' = [token EXCEPT ![Home[s]] = NoToken]
  /\ IF required THEN UNCHANGED <<process_lock, robbed>> ELSE Unlock(s)
  /\ at' = [at EXCEPT ![s] = "done"]
  /\ UNCHANGED <<required, up, lease, client, grip, trouble>>

ReleaseNothing(s) ==
  /\ at[s] = "in" /\ ~up /\ Home[s] \notin client
  /\ at' = [at EXCEPT ![s] = "done"]
  /\ UNCHANGED <<required, up, lease, client, token, process_lock, robbed, grip, trouble>>

\* Without a client: the error of _get_redis_client when the lock must be distributed,
\* and else the process lock.
ReleaseProcess(s) ==
  /\ at[s] = "in" /\ ~up /\ Home[s] \notin client
  /\ IF required THEN UNCHANGED <<process_lock, robbed>> ELSE Unlock(s)
  /\ at' = [at EXCEPT ![s] = "done"]
  /\ UNCHANGED <<required, up, lease, client, token, grip, trouble>>

-----------------------------------------------------------------------------
(* Redis and the processes. *)

\* The lease is not renewed: a sync of more than 300 seconds goes on without it.
Expire ==
  /\ lease # NoToken
  /\ Befalls("expiry")
  /\ lease' = NoToken
  /\ robbed' = robbed \cup ({lease} \cap Inside)
  /\ UNCHANGED <<required, up, client, token, process_lock, at, grip>>

Outage ==
  /\ up
  /\ Befalls("outage")
  /\ up' = FALSE
  /\ UNCHANGED <<required, lease, client, token, process_lock, at, grip, robbed>>

Restored ==
  /\ ~up
  /\ up' = TRUE
  /\ UNCHANGED <<required, lease, client, token, process_lock, at, grip, robbed, trouble>>

\* A process dies with its threads; it starts again with a fresh module.
ProcessLost(p) ==
  /\ Befalls("crash")
  /\ at' = [s \in Syncs |-> IF Home[s] = p /\ at[s] # "idle" THEN "done" ELSE at[s]]
  /\ client' = client \ {p}
  /\ token' = [token EXCEPT ![p] = NoToken]
  /\ process_lock' = process_lock \ {p}
  /\ UNCHANGED <<required, up, lease, grip, robbed>>

Acquire(s) == Win(s) \/ StoreToken(s) \/ Skip(s) \/ NoAnswer(s) \/ ReplyLost(s)

Release(s) ==
  \/ Delete(s) \/ DeleteFails(s) \/ ClearToken(s) \/ AfterFailure(s)
  \/ NothingToDelete(s) \/ ReleaseProcess(s)

LockNext ==
  \/ \E s \in Syncs : Acquire(s) \/ Release(s)
  \/ Expire
  \/ Outage
  \/ Restored
  \/ \E p \in Processes : ProcessLost(p)

LockSpec == LockInit /\ [][LockNext]_lockVars

-----------------------------------------------------------------------------
(* Correctness. *)

LockTypeOK ==
  /\ required \in BOOLEAN /\ up \in BOOLEAN
  /\ lease \in Syncs \cup {NoToken}
  /\ client \subseteq Processes
  /\ token \in [Processes -> Syncs \cup {NoToken}]
  /\ process_lock \subseteq Processes
  /\ at \in [Syncs -> {"idle", "won", "in", "clear", "failed", "done"}]
  /\ grip \in [Syncs -> Grips]
  /\ robbed \subseteq Syncs
  /\ trouble \in [Trouble -> Nat]

\* service.py:39-46 promises that one caller holds the lock "across any number of
\* workers".  Two syncs run together only when one of them has lost what let it in, or
\* when at least one of them came in by the lock of its own process: two of one process
\* never both did, and none does where the distributed lock is required.
Exclusive ==
  \A s, t \in Inside \ robbed :
    s = t \/ (~required /\ <<grip[s], Home[s]>> # <<grip[t], Home[t]>>
                        /\ ~(grip[s] = "lease" /\ grip[t] = "lease"))

\* service.py:44-46: "Expired locks are never released by a different worker".  A sync is
\* robbed only by the end of its lease or by a sync of its own process, and where the
\* distributed lock is required only by one that had lost its own lease before: the token
\* that release() compares is the process's, not the thread's (service.py:135).
RobbedAtHome ==
  [][\A t \in robbed' \ robbed :
       \/ lease' = NoToken /\ lease = t /\ UNCHANGED at
       \/ \E s \in Syncs : /\ at[s] # at'[s] /\ Home[s] = Home[t]
                           /\ s \in robbed \/ ~required]_lockVars

\* A process that never reached Redis gives its process lock back; one that did (its
\* client is kept, and release() returns as there is no token) may keep it for good.
ProcessLockKept ==
  \A p \in process_lock :
    p \in client \/ \E s \in Inside : grip[s] = "process" /\ Home[s] = p
=============================================================================
