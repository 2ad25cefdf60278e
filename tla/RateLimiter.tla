----------------------------- MODULE RateLimiter -----------------------------
(***************************************************************************)
(* The sliding window rate limiter: requests of one key are admitted while *)
(* fewer than the limit were within the window.  A request counts and then *)
(* enters itself, in two pipelines of Redis, or on a list that each        *)
(* process keeps for itself where there is no Redis or it fails.  The      *)
(* threads of a process share the list without a lock.                     *)
(***************************************************************************)
EXTENDS Naturals, FiniteSets

CONSTANTS
  Asks,        \* requests, numbered in the order they come
  Servers,     \* processes
  Window,      \* window_seconds
  LastTick,    \* bound: the clock stops there
  Scenes,      \* choices of the limit of the key, RATE_LIMIT_FAIL_MODE, the processes that
               \* reached Redis when they started, the process of each request, the outages
               \* (a bound)
  NoAsk

Modes == {"closed", "open", "fallback"}

ASSUME LimiterAssumption ==
  /\ Asks \subseteq Nat /\ IsFiniteSet(Asks) /\ NoAsk \notin Asks
  /\ Servers \cap {"redis", "nowhere"} = {}
  /\ Window \in Nat /\ LastTick \in Nat \ {0}
  /\ Scenes \subseteq [max_requests : Nat, fail_mode : Modes, clients : SUBSET Servers,
                       outages : Nat, server : [Asks -> Servers]]

VARIABLES
  tick, scene, answering,
  redis,      \* the sorted set of the key: an entry is a clock, here the request that
              \* entered it
  own,        \* the list that a request has made
  holder,     \* whose list is _requests[key] of a process
  ask,        \* where a request is
  came,       \* the time it took
  counted,    \* history: where an admitted request was counted
  pruned,     \* history: the latest time that was counted at
  passed,     \* history: requests that have counted before another one entered
  stale       \* history: requests that were admitted on a count no longer right, or that
              \* the list has lost or never had

limiterVars == <<tick, scene, answering, redis, own, holder, ask, came,
                 counted, pruned, passed, stale>>

Counters == {"redis"} \cup Servers

LimiterInit ==
  /\ tick = 1
  /\ scene \in Scenes
  /\ answering = TRUE
  /\ redis = {}
  /\ own = [c \in Asks |-> {}]
  /\ holder = [p \in Servers |-> NoAsk]
  /\ ask = [c \in Asks |-> "new"]
  /\ came = [c \in Asks |-> 0]
  /\ counted = [c \in Asks |-> "nowhere"]
  /\ pruned = [k \in Counters |-> 0]
  /\ passed = {} /\ stale = {}

ServerOf(c) == scene.server[c]

MaxRequests == scene.max_requests

Asking(c, from, to) == ask[c] = from /\ ask' = [ask EXCEPT ![c] = to]

Since(entries, at) == {d \in entries : came[d] + Window > at}

HasRoomForOneMore(entries) == Cardinality(entries) <= MaxRequests

HasRoom(entries) == Cardinality(entries) < MaxRequests

\* Others with a later clock have dropped what this request should have counted.
CountsAt(c, k) ==
  /\ stale' = IF came[c] < pruned[k] THEN stale \cup {c} ELSE stale
  /\ pruned' = [pruned EXCEPT ![k] = IF came[c] < @ THEN @ ELSE came[c]]

\* Who has counted there and goes on to enter.
Waiting(k) ==
  IF k = "redis" THEN {c \in Asks : ask[c] = "add"}
  ELSE {c \in Asks : ask[c] \in {"assign", "enter"} /\ ServerOf(c) = k}

EntersAt(c, k, lost) ==
  /\ counted' = [counted EXCEPT ![c] = k]
  /\ passed' = passed \cup (Waiting(k) \ {c})
  /\ stale' = IF c \in passed \/ lost THEN stale \cup {c} ELSE stale

-----------------------------------------------------------------------------
(* is_allowed *)

\* Requests are told apart by their numbers alone.
Ask(c) ==
  /\ ask[c] = "new" /\ \A d \in Asks : d < c => ask[d] # "new"
  /\ came' = [came EXCEPT ![c] = tick]
  /\ ask' = [ask EXCEPT ![c] = IF ServerOf(c) \in scene.clients THEN "count"
                               ELSE IF scene.fail_mode = "closed" THEN "denied" ELSE "read"]
  /\ UNCHANGED <<tick, scene, answering, redis, own, holder, counted, pruned,
                 passed, stale>>

CountRedis(c) ==
  /\ answering
  /\ redis' = Since(redis, came[c])
  /\ Asking(c, "count", IF HasRoom(redis') THEN "add" ELSE "denied")
  /\ CountsAt(c, "redis")
  /\ UNCHANGED <<tick, scene, answering, own, holder, came, counted,
                 passed>>

\* The member of the sorted set is the clock: a request adds nothing to one that is there.
SameClock(c) == \E d \in redis : came[d] = came[c]

RedisWith(c) == IF SameClock(c) THEN redis ELSE redis \cup {c}

AddRedis(c) ==
  /\ answering
  /\ Asking(c, "add", "admitted")
  /\ redis' = RedisWith(c)
  /\ EntersAt(c, "redis", SameClock(c))
  /\ UNCHANGED <<tick, scene, answering, own, holder, came, pruned>>

\* An exception of either pipeline, also when Redis has carried it out.
RedisFails(c) ==
  /\ ~answering /\ ask[c] \in {"count", "add"}
  /\ ask' = [ask EXCEPT ![c] = IF scene.fail_mode = "closed" THEN "denied"
                               ELSE IF scene.fail_mode = "open" THEN "admitted" ELSE "read"]
  /\ redis' \in {redis, IF ask[c] = "count" THEN Since(redis, came[c]) ELSE RedisWith(c)}
  /\ pruned' = [pruned EXCEPT !["redis"] = IF came[c] < @ THEN @ ELSE came[c]]
  /\ UNCHANGED <<tick, scene, answering, own, holder, came, counted,
                 passed, stale>>

Kept(p) == IF holder[p] = NoAsk THEN {} ELSE own[holder[p]]

ReadKept(c) ==
  /\ Asking(c, "read", "assign")
  /\ own' = [own EXCEPT ![c] = Since(Kept(ServerOf(c)), came[c])]
  /\ CountsAt(c, ServerOf(c))
  /\ passed' = passed \ {c}
  /\ UNCHANGED <<tick, scene, answering, redis, holder, came, counted>>

Assign(c) ==
  /\ Asking(c, "assign", IF HasRoom(own[c]) THEN "enter" ELSE "denied")
  /\ holder' = [holder EXCEPT ![ServerOf(c)] = c]
  /\ stale' = stale \cup (Since(Kept(ServerOf(c)), came[c]) \ own[c])
  /\ UNCHANGED <<tick, scene, answering, redis, own, came, counted, pruned, passed>>

\* The request enters its own list, even if another one has replaced it.
EnterOwn(c) ==
  /\ Asking(c, "enter", "admitted")
  /\ own' = [own EXCEPT ![c] = @ \cup {c}]
  /\ EntersAt(c, ServerOf(c), holder[ServerOf(c)] # c)
  /\ UNCHANGED <<tick, scene, answering, redis, holder, came, pruned>>

-----------------------------------------------------------------------------
Ticks ==
  /\ tick < LastTick /\ tick' = tick + 1
  /\ UNCHANGED <<scene, answering, redis, own, holder, ask, came,
                 counted, pruned, passed, stale>>

RedisStops ==
  /\ answering /\ answering' = FALSE
  /\ scene.outages > 0 /\ scene' = [scene EXCEPT !.outages = @ - 1]
  /\ UNCHANGED <<tick, redis, own, holder, ask, came, counted,
                 pruned, passed, stale>>

RedisAnswers ==
  /\ ~answering /\ answering' = TRUE
  /\ UNCHANGED <<tick, scene, redis, own, holder, ask, came, counted,
                 pruned, passed, stale>>

AskStep(c) ==
  \/ Ask(c) \/ CountRedis(c) \/ AddRedis(c) \/ RedisFails(c)
  \/ ReadKept(c) \/ Assign(c) \/ EnterOwn(c)

LimiterNext == (\E c \in Asks : AskStep(c)) \/ Ticks \/ RedisStops \/ RedisAnswers

LimiterSpec == LimiterInit /\ [][LimiterNext]_limiterVars

-----------------------------------------------------------------------------
(* Correctness. *)

\* The shape of the state of the limiter.
LimiterTypeOK ==
  /\ tick \in 1..LastTick
  /\ answering \in BOOLEAN
  /\ scene \in [max_requests : Nat, fail_mode : Modes, clients : SUBSET Servers,
                outages : Nat, server : [Asks -> Servers]]
  /\ redis \subseteq Asks
  /\ own \in [Asks -> SUBSET Asks]
  /\ holder \in [Servers -> Asks \cup {NoAsk}]
  /\ ask \in [Asks -> {"new", "count", "add", "read", "assign", "enter", "admitted", "denied"}]
  /\ came \in [Asks -> 0..LastTick]
  /\ counted \in [Asks -> Counters \cup {"nowhere"}]
  /\ pruned \in [Counters -> 0..LastTick]
  /\ passed \subseteq Asks /\ stale \subseteq Asks

AdmittedBy(k, t) ==
  {c \in Asks : ask[c] = "admitted" /\ counted[c] = k /\ came[c] <= t /\ t < came[c] + Window}

\* Within any window, Redis and each process for itself admit no more requests than the
\* limit, but for those that entered after another one had entered since they counted, that
\* counted after another one with a later clock, or that another one's list replaced:
\* counting and entering are steps of their own.  In Redis a request whose clock equals that
\* of an entry is not counted by the later ones, and may be over the limit as well.
WindowKept ==
  \A k \in Counters : \A t \in 1..tick : Cardinality(AdmittedBy(k, t) \ stale) <= MaxRequests
=============================================================================
