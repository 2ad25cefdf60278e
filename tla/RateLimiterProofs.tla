-------------------------- MODULE RateLimiterProofs --------------------------
(***************************************************************************)
(* Theorems about RateLimiter: no counter admits more than the limit       *)
(* within a window, for any requests, processes, limit and window.         *)
(***************************************************************************)
EXTENDS RateLimiter, FiniteSetTheorems, TLAPS

\* The admissions of a counter that were made on a count that was right.
Sound(k) == {d \in Asks : ask[d] = "admitted" /\ counted[d] = k /\ d \notin stale}

\* Those of them that a request has to count.
Ahead(k, c) == {d \in Sound(k) : came[d] + Window > came[c]}

\* A request counts once, and its list is nobody's before it has made it.
Once ==
  /\ \A c \in Asks : ask[c] # "admitted" => counted[c] = "nowhere"
  /\ \A c \in Asks : \A p \in Servers :
       holder[p] = c => ask[c] \in {"enter", "admitted", "denied"}

\* The counter was last pruned with a clock that is no earlier than anybody's who counted.
PrunedLater ==
  \A k \in Counters :
    /\ \A d \in Sound(k) : came[d] <= pruned[k]
    /\ \A c \in Waiting(k) : came[c] <= pruned[k]

List(k) == IF k = "redis" THEN redis ELSE Kept(k)

\* What had not left the window then is on the list.
Listed ==
  \A k \in Counters : \A d \in Sound(k) : came[d] + Window > pruned[k] => d \in List(k)

\* A request that is about to enter knows of all that are within its window.
RoomFor(k, c) ==
  /\ \A d \in Sound(k) : came[d] <= came[c]
  /\ IF ask[c] = "assign" THEN Ahead(k, c) \subseteq own[c]
                          ELSE Cardinality(Ahead(k, c)) < MaxRequests

CountIsRight ==
  \A k \in Counters : \A c \in Waiting(k) \ (passed \cup stale) : RoomFor(k, c)

Within(k, t) == {d \in Sound(k) : came[d] <= t /\ t < came[d] + Window}

Limited == \A k \in Counters : \A t \in Nat : Cardinality(Within(k, t)) <= MaxRequests

LimiterInv ==
  /\ LimiterTypeOK /\ Once /\ PrunedLater /\ Listed /\ CountIsRight /\ Limited

-----------------------------------------------------------------------------
(* Sets of requests. *)

LEMMA AskSets ==
  ASSUME NEW S \in SUBSET Asks
  PROVE  /\ IsFiniteSet(S) /\ Cardinality(S) \in Nat
         /\ \A T \in SUBSET S : Cardinality(T) \in Nat /\ Cardinality(T) <= Cardinality(S)
         /\ \A c \in Asks : Cardinality(S \cup {c}) <= Cardinality(S) + 1
<1>1. IsFiniteSet(S)
  BY FS_Subset, LimiterAssumption
<1>2. Cardinality(S) \in Nat
  BY <1>1, FS_CardinalityType
<1>3. \A T \in SUBSET S : Cardinality(T) \in Nat /\ Cardinality(T) <= Cardinality(S)
  BY <1>1, FS_Subset, FS_CardinalityType
<1>4. \A c \in Asks : Cardinality(S \cup {c}) <= Cardinality(S) + 1
  BY <1>1, <1>2, FS_AddElement
<1>. QED BY <1>1, <1>2, <1>3, <1>4

LEMMA LimitIsNat == LimiterTypeOK => MaxRequests \in Nat
  BY DEF LimiterTypeOK, MaxRequests

LEMMA SoundTypes ==
  ASSUME LimiterTypeOK, NEW k \in Counters
  PROVE  /\ Sound(k) \subseteq Asks
         /\ \A c \in Asks : Ahead(k, c) \subseteq Asks
         /\ \A t \in Nat : Within(k, t) \subseteq Asks
         /\ \A c \in Asks : came[c] \in Nat
  BY LimiterAssumption DEF Sound, Ahead, Within, LimiterTypeOK

LEMMA LimiterInitially == LimiterInit => LimiterInv
<1>. SUFFICES ASSUME LimiterInit PROVE LimiterInv
  OBVIOUS
<1>1. LimiterTypeOK
  BY LimiterAssumption DEF LimiterInit, LimiterTypeOK, Counters
<1>2. \A k \in Counters : Sound(k) = {} /\ Waiting(k) = {}
  BY DEF LimiterInit, Sound, Waiting
<1>3. Once /\ PrunedLater /\ Listed /\ CountIsRight
  BY <1>2, LimiterAssumption DEF LimiterInit, Once, PrunedLater, Listed, CountIsRight
<1>4. Limited
  <2>1. \A k \in Counters : \A t \in Nat : Within(k, t) = {}
    BY <1>2 DEF Within
  <2>. QED BY <1>1, <2>1, FS_EmptySet, LimitIsNat DEF Limited
<1>. QED BY <1>1, <1>3, <1>4 DEF LimiterInv

-----------------------------------------------------------------------------
(* Types. *)

LEMMA LimiterTypes == LimiterTypeOK /\ LimiterNext => LimiterTypeOK'
<1>. SUFFICES ASSUME LimiterTypeOK, LimiterNext PROVE LimiterTypeOK'
  OBVIOUS
<1>. USE LimiterAssumption DEF LimiterTypeOK, Counters, ServerOf
<1>1. ASSUME NEW c \in Asks, AskStep(c) PROVE LimiterTypeOK'
  <2>1. CASE Ask(c)
    BY <2>1 DEF Ask
  <2>2. CASE CountRedis(c)
    BY <2>2 DEF CountRedis, Asking, CountsAt, Since
  <2>3. CASE AddRedis(c)
    <3>1. passed' \subseteq Asks
      BY <2>3 DEF AddRedis, EntersAt, Waiting
    <3>2. stale' \subseteq Asks /\ redis' \subseteq Asks
      BY <2>3 DEF AddRedis, EntersAt, RedisWith
    <3>. QED BY <2>3, <3>1, <3>2 DEF AddRedis, Asking, EntersAt
  <2>4. CASE RedisFails(c)
    BY <2>4 DEF RedisFails, Since, RedisWith
  <2>5. CASE ReadKept(c)
    BY <2>5 DEF ReadKept, Asking, CountsAt, Since, Kept
  <2>6. CASE Assign(c)
    BY <2>6 DEF Assign, Asking, Since, Kept
  <2>7. CASE EnterOwn(c)
    <3>1. passed' \subseteq Asks /\ ServerOf(c) \in Servers
      BY <2>7 DEF EnterOwn, EntersAt, Waiting
    <3>2. counted' = [counted EXCEPT ![c] = ServerOf(c)] /\ stale' \subseteq Asks
      BY <2>7 DEF EnterOwn, EntersAt
    <3>3. counted' \in [Asks -> Counters \cup {"nowhere"}]
      BY <3>1, <3>2
    <3>4. own' \in [Asks -> SUBSET Asks]
      BY <2>7 DEF EnterOwn
    <3>5. ask' \in [Asks -> {"new", "count", "add", "read", "assign", "enter", "admitted", "denied"}]
      BY <2>7 DEF EnterOwn, Asking
    <3>. QED BY <2>7, <3>1, <3>2, <3>3, <3>4, <3>5 DEF EnterOwn
  <2>. QED BY <1>1, <2>1, <2>2, <2>3, <2>4, <2>5, <2>6, <2>7 DEF AskStep
<1>2. CASE Ticks
  BY <1>2 DEF Ticks
<1>3. CASE RedisStops
  <2>1. scene.outages \in Nat /\ scene.outages > 0
    BY <1>3 DEF RedisStops
  <2>2. [scene EXCEPT !.outages = @ - 1] \in
          [max_requests : Nat, fail_mode : Modes, clients : SUBSET Servers, outages : Nat,
           server : [Asks -> Servers]]
    BY <2>1
  <2>. QED BY <1>3, <2>2 DEF RedisStops
<1>4. CASE RedisAnswers
  BY <1>4 DEF RedisAnswers
<1>. QED BY <1>1, <1>2, <1>3, <1>4 DEF LimiterNext

-----------------------------------------------------------------------------
(* Steps in which nobody enters. *)

Calm ==
  /\ MaxRequests' = MaxRequests
  /\ stale \subseteq stale'
  /\ \A d \in Asks : ask'[d] = "admitted" /\ counted'[d] \in Counters =>
       ask[d] = "admitted" /\ counted'[d] = counted[d]
  /\ \A d \in Asks : came'[d] = came[d] \/ ask[d] = "new"

\* Nobody is admitted on a count of this counter.
Shrinks(k) ==
  /\ MaxRequests' = MaxRequests
  /\ Sound(k)' \subseteq Sound(k) /\ \A d \in Sound(k)' : came'[d] = came[d]

LEMMA CalmSound ==
  ASSUME Calm, NEW k \in Counters
  PROVE  Shrinks(k)
  BY DEF Calm, Sound, Shrinks

LEMMA CalmLimited ==
  ASSUME LimiterInv, Calm
  PROVE  Limited'
<1>. SUFFICES ASSUME NEW k \in Counters, NEW t \in Nat
              PROVE  Cardinality(Within(k, t)') <= MaxRequests
  BY DEF Limited, Calm
<1>1. Within(k, t)' \subseteq Within(k, t)
  BY CalmSound DEF Within, Shrinks
<1>2. Within(k, t) \subseteq Asks
  BY SoundTypes DEF LimiterInv
<1>3. Cardinality(Within(k, t)) <= MaxRequests
  BY DEF LimiterInv, Limited
<1>4. MaxRequests \in Nat
  BY LimitIsNat DEF LimiterInv
<1>. QED BY <1>1, <1>2, <1>3, <1>4, AskSets

\* What a request that waits has counted stays right.
LEMMA RoomStays ==
  ASSUME LimiterInv, NEW k \in Counters, Shrinks(k), NEW c \in Waiting(k) \ (passed \cup stale),
         ask'[c] = ask[c], came'[c] = came[c], own'[c] = own[c]
  PROVE  RoomFor(k, c)'
<1>1. RoomFor(k, c) /\ c \in Asks
  BY DEF LimiterInv, CountIsRight, Waiting
<1>2. Ahead(k, c)' \subseteq Ahead(k, c)
  BY DEF Ahead, Shrinks
<1>3. Ahead(k, c) \subseteq Asks
  BY <1>1, SoundTypes DEF LimiterInv
<1>4. Cardinality(Ahead(k, c)') <= Cardinality(Ahead(k, c))
      /\ Cardinality(Ahead(k, c)') \in Nat /\ Cardinality(Ahead(k, c)) \in Nat
  BY <1>2, <1>3, AskSets
<1>5. \A d \in Sound(k)' : came'[d] <= came'[c]
  BY <1>1 DEF RoomFor, Shrinks
<1>6. MaxRequests' = MaxRequests /\ MaxRequests \in Nat
  BY LimitIsNat DEF LimiterInv, Shrinks
<1>. QED BY <1>1, <1>2, <1>4, <1>5, <1>6 DEF RoomFor

LEMMA PrunedStays ==
  ASSUME LimiterInv, LimiterTypeOK', NEW k \in Counters, Shrinks(k), pruned'[k] >= pruned[k]
  PROVE  \A d \in Sound(k)' : came'[d] <= pruned'[k]
<1>. SUFFICES ASSUME NEW d \in Sound(k)' PROVE came'[d] <= pruned'[k]
  OBVIOUS
<1>1. d \in Sound(k) /\ came'[d] = came[d] /\ d \in Asks
  BY DEF Sound, Shrinks
<1>2. came[d] <= pruned[k]
  BY <1>1 DEF LimiterInv, PrunedLater
<1>3. came[d] \in Nat /\ pruned[k] \in Nat /\ pruned'[k] \in Nat
  BY <1>1, LimiterAssumption DEF LimiterInv, LimiterTypeOK
<1>. QED BY <1>1, <1>2, <1>3

LEMMA ListedStays ==
  ASSUME LimiterInv, LimiterTypeOK', NEW k \in Counters, Shrinks(k), pruned'[k] >= pruned[k],
         \A d \in Sound(k)' : d \in List(k) /\ came[d] + Window > pruned'[k] => d \in List(k)'
  PROVE  \A d \in Sound(k)' : came'[d] + Window > pruned'[k] => d \in List(k)'
<1>. SUFFICES ASSUME NEW d \in Sound(k)', came'[d] + Window > pruned'[k]
              PROVE  d \in List(k)'
  OBVIOUS
<1>1. d \in Sound(k) /\ came'[d] = came[d] /\ d \in Asks
  BY DEF Sound, Shrinks
<1>2. came[d] \in Nat /\ pruned[k] \in Nat /\ pruned'[k] \in Nat
  BY <1>1, LimiterAssumption DEF LimiterInv, LimiterTypeOK
<1>3. came[d] + Window > pruned[k]
  BY <1>1, <1>2, LimiterAssumption
<1>4. d \in List(k)
  BY <1>1, <1>3 DEF LimiterInv, Listed
<1>. QED BY <1>1, <1>4

LEMMA Calmly ==
  ASSUME LimiterInv, NEW c \in Asks,
         Ask(c) \/ CountRedis(c) \/ RedisFails(c) \/ ReadKept(c) \/ Assign(c)
  PROVE  Calm
<1>. USE LimiterAssumption DEF LimiterInv, LimiterTypeOK, Once, Calm, Counters, MaxRequests
<1>1. CASE Ask(c)
  BY <1>1 DEF Ask
<1>2. CASE CountRedis(c)
  BY <1>2 DEF CountRedis, Asking, CountsAt
<1>3. CASE RedisFails(c)
  BY <1>3 DEF RedisFails
<1>4. CASE ReadKept(c)
  BY <1>4 DEF ReadKept, Asking, CountsAt
<1>5. CASE Assign(c)
  BY <1>5 DEF Assign, Asking
<1>. QED BY <1>1, <1>2, <1>3, <1>4, <1>5

LEMMA OnceStep == LimiterInv /\ LimiterNext => Once'
<1>. SUFFICES ASSUME LimiterInv, LimiterNext PROVE Once'
  OBVIOUS
<1>. USE LimiterAssumption DEF LimiterInv, LimiterTypeOK, Once
<1>1. ASSUME NEW c \in Asks, AskStep(c) PROVE Once'
  <2>1. CASE Ask(c)
    BY <2>1 DEF Ask
  <2>2. CASE CountRedis(c)
    BY <2>2 DEF CountRedis, Asking
  <2>3. CASE AddRedis(c)
    BY <2>3 DEF AddRedis, Asking, EntersAt
  <2>4. CASE RedisFails(c)
    BY <2>4 DEF RedisFails
  <2>5. CASE ReadKept(c)
    BY <2>5 DEF ReadKept, Asking
  <2>6. CASE Assign(c)
    BY <2>6 DEF Assign, Asking
  <2>7. CASE EnterOwn(c)
    BY <2>7 DEF EnterOwn, Asking, EntersAt
  <2>. QED BY <1>1, <2>1, <2>2, <2>3, <2>4, <2>5, <2>6, <2>7 DEF AskStep
<1>2. CASE Ticks
  BY <1>2 DEF Ticks
<1>3. CASE RedisStops
  BY <1>3 DEF RedisStops
<1>4. CASE RedisAnswers
  BY <1>4 DEF RedisAnswers
<1>. QED BY <1>1, <1>2, <1>3, <1>4 DEF LimiterNext

\* The rest of the invariant.
RestInv == PrunedLater /\ Listed /\ CountIsRight /\ Limited

LEMMA AskTame ==
  ASSUME LimiterInv, LimiterTypeOK', NEW c \in Asks, Ask(c)
  PROVE  RestInv'
<1>1. Calm
  BY Calmly
<1>2. /\ pruned' = pruned /\ redis' = redis /\ own' = own /\ holder' = holder
      /\ passed' = passed /\ stale' = stale /\ scene' = scene
      /\ ask[c] = "new" /\ ask'[c] \notin {"add", "assign", "enter"}
      /\ \A d \in Asks \ {c} : ask'[d] = ask[d] /\ came'[d] = came[d]
  BY DEF Ask, LimiterInv, LimiterTypeOK
<1>3. ASSUME NEW k \in Counters
      PROVE  \A d \in Waiting(k)' : d \in Waiting(k) /\ ask'[d] = ask[d] /\ came'[d] = came[d]
  BY <1>2 DEF Waiting, ServerOf
<1>4. ASSUME NEW k \in Counters PROVE pruned[k] \in Nat /\ List(k)' = List(k)
  BY <1>2, LimiterAssumption DEF LimiterInv, LimiterTypeOK, List, Kept
<1>5. PrunedLater'
  BY <1>1, <1>2, <1>3, <1>4, CalmSound, PrunedStays DEF LimiterInv, PrunedLater
<1>6. Listed'
  BY <1>1, <1>2, <1>4, CalmSound, ListedStays DEF Listed
<1>7. CountIsRight'
  BY <1>1, <1>2, <1>3, CalmSound, RoomStays DEF CountIsRight
<1>. QED BY <1>1, <1>5, <1>6, <1>7, CalmLimited DEF RestInv

\* What the two counting steps have in common.
LEMMA CountsTame ==
  ASSUME LimiterInv, LimiterTypeOK', Calm, NEW c \in Asks, NEW k0 \in Counters,
         CountsAt(c, k0), UNCHANGED <<came, scene, holder>>,
         \A d \in Asks \ {c} : ask'[d] = ask[d] /\ own'[d] = own[d]
                               /\ (d \in passed => d \in passed'),
         c \notin Waiting(k0),
         \A k \in Counters : c \in Waiting(k)' => k = k0,
         \A k \in Counters : \A d \in Sound(k)' :
            d \in List(k) /\ came[d] + Window > pruned'[k] => d \in List(k)',
         \A d \in Sound(k0) : d \in List(k0) /\ came[d] + Window > came[c] /\ c \notin stale'
            => IF ask'[c] = "assign" THEN d \in own'[c] ELSE d \in List(k0)',
         c \in Waiting(k0)' /\ ask'[c] # "assign" => Cardinality(List(k0)') < MaxRequests,
         List(k0)' \subseteq Asks
  PROVE  RestInv'
<1>1. /\ \A k \in Counters : pruned[k] \in Nat /\ pruned'[k] \in Nat /\ pruned'[k] >= pruned[k]
      /\ came[c] \in Nat /\ pruned'[k0] >= came[c]
      /\ c \notin stale' => came[c] >= pruned[k0]
  BY LimiterAssumption DEF LimiterInv, LimiterTypeOK, CountsAt
<1>2. PrunedLater'
  <2>. SUFFICES ASSUME NEW k \in Counters, NEW d \in Waiting(k)' PROVE came'[d] <= pruned'[k]
    BY <1>1, CalmSound, PrunedStays DEF PrunedLater
  <2>1. d \in Asks
    BY DEF Waiting
  <2>2. CASE d = c
    BY <1>1, <2>2
  <2>3. CASE d # c
    <3>1. d \in Waiting(k)
      BY <2>1, <2>3 DEF Waiting, ServerOf
    <3>2. came[d] <= pruned[k] /\ came[d] \in Nat
      BY <2>1, <3>1, SoundTypes DEF LimiterInv, PrunedLater
    <3>. QED BY <1>1, <3>2
  <2>. QED BY <2>2, <2>3
<1>3. Listed'
  BY <1>1, CalmSound, ListedStays DEF Listed
<1>4. CountIsRight'
  <2>. SUFFICES ASSUME NEW k \in Counters, NEW d \in Waiting(k)', d \notin passed' \cup stale'
                PROVE  RoomFor(k, d)'
    BY DEF CountIsRight
  <2>1. d \in Asks
    BY DEF Waiting
  <2>2. CASE d # c
    <3>1. d \in Waiting(k)
      BY <2>1, <2>2 DEF Waiting, ServerOf
    <3>2. d \notin passed \cup stale
      BY <2>1, <2>2 DEF Calm
    <3>. QED BY <2>1, <2>2, <3>1, <3>2, CalmSound, RoomStays
  <2>3. CASE d = c
    <3>1. k = k0 /\ c \notin stale'
      BY <2>3
    <3>2. \A e \in Sound(k0)' : came'[e] <= came'[c]
      BY <1>1, <3>1, CalmSound, SoundTypes DEF Shrinks, LimiterInv, PrunedLater, LimiterTypeOK, Sound
    <3>3. ASSUME NEW e \in Ahead(k0, c)'
          PROVE  IF ask'[c] = "assign" THEN e \in own'[c] ELSE e \in List(k0)'
      <4>1. e \in Sound(k0) /\ came[e] + Window > came[c] /\ e \in Asks
        BY CalmSound DEF Ahead, Shrinks, Sound
      <4>2. came[e] + Window > pruned[k0]
        BY <1>1, <3>1, <4>1, LimiterAssumption, SoundTypes DEF LimiterInv
      <4>3. e \in List(k0)
        BY <4>1, <4>2 DEF LimiterInv, Listed
      <4>. QED BY <3>1, <4>1, <4>3
    <3>4. CASE ask'[c] = "assign"
      BY <2>3, <3>1, <3>2, <3>3, <3>4 DEF RoomFor
    <3>5. CASE ask'[c] # "assign"
      <4>1. Ahead(k0, c)' \subseteq List(k0)'
        BY <3>3, <3>5
      <4>2. Cardinality(List(k0)') < MaxRequests /\ MaxRequests' = MaxRequests
            /\ MaxRequests \in Nat
        BY <2>3, <3>1, <3>5, LimitIsNat DEF Calm, LimiterInv
      <4>3. Cardinality(Ahead(k0, c)') < MaxRequests
        BY <4>1, <4>2, AskSets
      <4>. QED BY <2>3, <3>1, <3>2, <3>5, <4>2, <4>3 DEF RoomFor
    <3>. QED BY <3>4, <3>5
  <2>. QED BY <2>2, <2>3
<1>. QED BY <1>2, <1>3, <1>4, CalmLimited DEF RestInv

LEMMA CountRedisTame ==
  ASSUME LimiterInv, LimiterTypeOK', NEW c \in Asks, CountRedis(c)
  PROVE  RestInv'
<1>. USE LimiterAssumption
<1>1. Calm
  BY Calmly
<1>2. /\ ask[c] = "count" /\ redis' = Since(redis, came[c])
      /\ ask' = [ask EXCEPT ![c] = IF HasRoom(redis') THEN "add" ELSE "denied"]
      /\ CountsAt(c, "redis") /\ UNCHANGED <<came, scene, holder, own, passed>>
  BY DEF CountRedis, Asking
<1>3. /\ "redis" \in Counters /\ redis' \subseteq Asks
      /\ ask'[c] = (IF HasRoom(redis') THEN "add" ELSE "denied")
      /\ \A d \in Asks \ {c} : ask'[d] = ask[d]
  BY <1>2 DEF LimiterInv, LimiterTypeOK, Counters
<1>4. c \notin Waiting("redis")
  BY <1>2 DEF Waiting
<1>5. \A k \in Counters : c \in Waiting(k)' => k = "redis"
  BY <1>3 DEF Waiting
<1>6. \A k \in Counters : k # "redis" => List(k)' = List(k)
  BY <1>2 DEF List, Kept
<1>7. /\ pruned'["redis"] >= came[c] /\ pruned'["redis"] \in Nat /\ came[c] \in Nat
      /\ \A d \in Asks : came[d] \in Nat
  BY <1>2, <1>3 DEF CountsAt, LimiterInv, LimiterTypeOK
<1>8. \A d \in Asks : d \in redis /\ came[d] + Window > came[c] => d \in redis'
  BY <1>2 DEF Since
<1>9. \A k \in Counters : \A d \in Sound(k)' :
        d \in List(k) /\ came[d] + Window > pruned'[k] => d \in List(k)'
  <2>. SUFFICES ASSUME NEW d \in Sound("redis")', d \in redis, came[d] + Window > pruned'["redis"]
                PROVE  d \in redis'
    BY <1>6 DEF List
  <2>1. d \in Asks
    BY DEF Sound
  <2>. QED BY <1>7, <1>8, <2>1
<1>10. \A d \in Sound("redis") : d \in List("redis") /\ came[d] + Window > came[c] => d \in List("redis")'
  BY <1>8 DEF List, Sound
<1>11. ask'[c] = "add" => Cardinality(List("redis")') < MaxRequests
  BY <1>2, <1>3 DEF HasRoom, List, LimiterInv, LimiterTypeOK
<1>12. c \in Waiting("redis")' => ask'[c] = "add"
  BY DEF Waiting
<1>13. List("redis")' \subseteq Asks
  BY <1>3 DEF List
<1>14. \A d \in Asks \ {c} : ask'[d] = ask[d] /\ own'[d] = own[d] /\ (d \in passed => d \in passed')
  BY <1>2, <1>3
<1>. HIDE DEF LimiterInv
<1>. QED
  BY <1>1, <1>2, <1>3, <1>4, <1>5, <1>9, <1>10, <1>11, <1>12, <1>13, <1>14, CountsTame

LEMMA ReadKeptTame ==
  ASSUME LimiterInv, LimiterTypeOK', NEW c \in Asks, ReadKept(c)
  PROVE  RestInv'
<1>. USE LimiterAssumption
<1>. PICK p \in Servers : p = ServerOf(c)
  BY DEF LimiterInv, LimiterTypeOK, ServerOf
<1>1. Calm
  BY Calmly
<1>2. /\ ask[c] = "read" /\ ask' = [ask EXCEPT ![c] = "assign"]
      /\ own' = [own EXCEPT ![c] = Since(Kept(p), came[c])]
      /\ CountsAt(c, p) /\ passed' = passed \ {c}
      /\ UNCHANGED <<came, scene, holder, redis>>
  BY DEF ReadKept, Asking
<1>3. p \in Counters /\ p # "redis" /\ own'[c] = Since(Kept(p), came[c])
      /\ ask'[c] = "assign" /\ \A d \in Asks \ {c} : own'[d] = own[d] /\ ask'[d] = ask[d]
  BY <1>2 DEF LimiterInv, LimiterTypeOK, Counters, ServerOf
<1>4. \A q \in Servers : holder[q] # c /\ (holder[q] \in Asks \/ holder[q] = NoAsk)
  BY <1>2 DEF LimiterInv, LimiterTypeOK, Once
<1>5. \A k \in Counters : List(k)' = List(k) /\ List(k)' \subseteq Asks
  <2>1. ASSUME NEW q \in Servers PROVE Kept(q)' = Kept(q) /\ Kept(q) \subseteq Asks
    BY <1>2, <1>3, <1>4 DEF Kept, LimiterInv, LimiterTypeOK
  <2>2. redis' = redis /\ redis \subseteq Asks
    BY <1>2 DEF LimiterInv, LimiterTypeOK
  <2>. SUFFICES ASSUME NEW k \in Counters PROVE List(k)' = List(k) /\ List(k)' \subseteq Asks
    OBVIOUS
  <2>3. CASE k = "redis"
    BY <2>2, <2>3 DEF List
  <2>4. CASE k # "redis"
    <3>1. k \in Servers /\ List(k) = Kept(k) /\ List(k)' = Kept(k)'
      BY <2>4 DEF List, Counters
    <3>. QED BY <2>1, <3>1
  <2>. QED BY <2>3, <2>4
<1>6. c \notin Waiting(p) /\ \A k \in Counters : c \in Waiting(k)' => k = p
  BY <1>2, <1>3 DEF Waiting, ServerOf, Counters
<1>7. \A d \in Sound(p) : d \in List(p) /\ came[d] + Window > came[c] => d \in own'[c]
  BY <1>3 DEF List, Since
<1>8. \A d \in Asks \ {c} : ask'[d] = ask[d] /\ own'[d] = own[d] /\ (d \in passed => d \in passed')
  BY <1>2, <1>3
<1>. QED
  BY <1>1, <1>2, <1>3, <1>5, <1>6, <1>7, <1>8, CountsTame

LEMMA RedisFailsTame ==
  ASSUME LimiterInv, LimiterTypeOK', NEW c \in Asks, RedisFails(c)
  PROVE  RestInv'
<1>. USE LimiterAssumption
<1>1. Calm
  BY Calmly
<1>2. /\ ask'[c] \in {"denied", "admitted", "read"}
      /\ \A d \in Asks \ {c} : ask'[d] = ask[d]
      /\ Since(redis, came[c]) \subseteq redis'
      /\ UNCHANGED <<came, scene, holder, own, passed, stale>>
  BY DEF RedisFails, LimiterInv, LimiterTypeOK, Since, RedisWith
<1>3. /\ \A k \in Counters : pruned[k] \in Nat /\ pruned'[k] \in Nat /\ pruned'[k] >= pruned[k]
      /\ pruned'["redis"] >= came[c]
      /\ \A d \in Asks : came[d] \in Nat
  BY DEF RedisFails, LimiterInv, LimiterTypeOK, Counters
<1>4. ASSUME NEW k \in Counters
      PROVE  \A d \in Waiting(k)' : d \in Waiting(k) /\ ask'[d] = ask[d] /\ came'[d] = came[d]
  BY <1>2 DEF Waiting, ServerOf
<1>5. PrunedLater'
  <2>. SUFFICES ASSUME NEW k \in Counters, NEW d \in Waiting(k)' PROVE came'[d] <= pruned'[k]
    BY <1>1, <1>3, CalmSound, PrunedStays DEF PrunedLater
  <2>1. d \in Waiting(k) /\ came'[d] = came[d] /\ d \in Asks
    BY <1>4 DEF Waiting
  <2>2. came[d] <= pruned[k]
    BY <2>1 DEF LimiterInv, PrunedLater
  <2>. QED BY <1>3, <2>1, <2>2
<1>6. Listed'
  <2>1. ASSUME NEW k \in Counters, NEW d \in Sound(k)', d \in List(k), came[d] + Window > pruned'[k]
        PROVE  d \in List(k)'
    <3>1. d \in Asks
      BY DEF Sound
    <3>2. CASE k = "redis"
      BY <1>2, <1>3, <2>1, <3>1, <3>2 DEF List, Since
    <3>3. CASE k # "redis"
      BY <1>2, <2>1, <3>3 DEF List, Kept
    <3>. QED BY <3>2, <3>3
  <2>. QED BY <1>1, <1>3, <2>1, CalmSound, ListedStays DEF Listed
<1>7. CountIsRight'
  BY <1>1, <1>2, <1>4, CalmSound, RoomStays DEF CountIsRight
<1>. QED BY <1>1, <1>5, <1>6, <1>7, CalmLimited DEF RestInv

\* A list that replaces another one has what the request counted; what the other had
\* besides is no longer counted on.
LEMMA AssignTame ==
  ASSUME LimiterInv, LimiterTypeOK', NEW c \in Asks, Assign(c)
  PROVE  RestInv'
<1>. USE LimiterAssumption
<1>. PICK p \in Servers : p = ServerOf(c)
  BY DEF LimiterInv, LimiterTypeOK, ServerOf
<1>1. Calm
  BY Calmly
<1>2. /\ ask[c] = "assign" /\ ask' = [ask EXCEPT ![c] = IF HasRoom(own[c]) THEN "enter" ELSE "denied"]
      /\ holder' = [holder EXCEPT ![p] = c]
      /\ stale' = stale \cup (Since(Kept(p), came[c]) \ own[c])
      /\ UNCHANGED <<came, scene, redis, own, pruned, passed>>
  BY DEF Assign, Asking
<1>3. p \in Counters /\ p # "redis" /\ c # NoAsk /\ own[c] \subseteq Asks
      /\ ask'[c] = (IF HasRoom(own[c]) THEN "enter" ELSE "denied")
      /\ holder'[p] = c /\ \A q \in Servers \ {p} : holder'[q] = holder[q]
      /\ \A d \in Asks \ {c} : ask'[d] = ask[d]
  BY <1>2 DEF LimiterInv, LimiterTypeOK, Counters, ServerOf
<1>4. \A k \in Counters : \A d \in Waiting(k)' : d \in Waiting(k)
  BY <1>2, <1>3 DEF Waiting, ServerOf
<1>5. c \in Waiting(p) /\ \A k \in Counters : c \in Waiting(k) => k = p
  BY <1>2, <1>3 DEF Waiting
<1>6. \A k \in Counters : pruned[k] \in Nat /\ \A d \in Asks : came[d] \in Nat
  BY DEF LimiterInv, LimiterTypeOK
<1>7. came[c] <= pruned[p]
  BY <1>3, <1>5 DEF LimiterInv, PrunedLater
<1>8. PrunedLater'
  <2>. SUFFICES ASSUME NEW k \in Counters, NEW d \in Waiting(k)' PROVE came'[d] <= pruned'[k]
    BY <1>1, <1>2, <1>6, CalmSound, PrunedStays DEF PrunedLater
  <2>. QED BY <1>2, <1>4 DEF LimiterInv, PrunedLater
<1>9. Listed'
  <2>1. ASSUME NEW k \in Counters, NEW d \in Sound(k)', d \in List(k), came[d] + Window > pruned'[k]
        PROVE  d \in List(k)'
    <3>1. d \in Asks /\ d \notin stale'
      BY DEF Sound
    <3>2. CASE k = p
      <4>1. d \in Kept(p) /\ came[d] + Window > came[c]
        BY <1>2, <1>3, <1>6, <1>7, <2>1, <3>1, <3>2 DEF List
      <4>2. d \in own[c]
        BY <1>2, <3>1, <4>1 DEF Since
      <4>. QED BY <1>2, <1>3, <3>2, <4>2 DEF List, Kept
    <3>3. CASE k # p
      BY <1>2, <1>3, <2>1, <3>3 DEF List, Kept, Counters
    <3>. QED BY <3>2, <3>3
  <2>. QED BY <1>1, <1>2, <1>6, <2>1, CalmSound, ListedStays DEF Listed
<1>10. CountIsRight'
  <2>. SUFFICES ASSUME NEW k \in Counters, NEW d \in Waiting(k)', d \notin passed' \cup stale'
                PROVE  RoomFor(k, d)'
    BY DEF CountIsRight
  <2>1. d \in Waiting(k) \ (passed \cup stale) /\ d \in Asks
    BY <1>2, <1>4 DEF Waiting
  <2>2. CASE d # c
    BY <1>1, <1>2, <1>3, <2>1, <2>2, CalmSound, RoomStays
  <2>3. CASE d = c
    <3>1. k = p /\ ask'[c] # "denied" /\ ask'[c] = "enter" /\ HasRoom(own[c])
      BY <1>3, <1>5, <2>1, <2>3 DEF Waiting
    <3>2. RoomFor(k, c)
      BY <2>1, <2>3 DEF LimiterInv, CountIsRight
    <3>3. Ahead(k, c)' \subseteq Ahead(k, c) /\ Ahead(k, c) \subseteq own[c]
      BY <1>1, <1>2, <3>2, CalmSound DEF Ahead, Shrinks, RoomFor
    <3>4. Cardinality(Ahead(k, c)') < MaxRequests /\ MaxRequests' = MaxRequests
      BY <1>1, <1>3, <3>1, <3>3, AskSets, LimitIsNat DEF HasRoom, Calm, LimiterInv
    <3>5. \A e \in Sound(k)' : came'[e] <= came'[c]
      BY <1>1, <1>2, <3>2, CalmSound DEF Shrinks, RoomFor
    <3>. QED BY <2>3, <3>1, <3>4, <3>5 DEF RoomFor
  <2>. QED BY <2>2, <2>3
<1>. QED BY <1>1, <1>8, <1>9, <1>10, CalmLimited DEF RestInv

-----------------------------------------------------------------------------
(* Steps in which a request enters. *)

LEMMA EntersTame ==
  ASSUME LimiterInv, LimiterTypeOK', NEW c \in Asks, NEW k0 \in Counters,
         c \in Waiting(k0), ask[c] # "assign",
         ask' = [ask EXCEPT ![c] = "admitted"], counted' = [counted EXCEPT ![c] = k0],
         passed' = passed \cup (Waiting(k0) \ {c}),
         stale \subseteq stale', c \in passed => c \in stale',
         UNCHANGED <<came, pruned, scene>>, \A d \in Asks \ {c} : own'[d] = own[d],
         \A k \in Counters : List(k) \subseteq List(k)',
         c \notin stale' => c \in List(k0)'
  PROVE  RestInv'
<1>. USE LimiterAssumption
<1>1. /\ ask[c] # "admitted" /\ ask'[c] = "admitted" /\ counted'[c] = k0
      /\ \A d \in Asks \ {c} : ask'[d] = ask[d] /\ counted'[d] = counted[d]
  BY DEF LimiterInv, LimiterTypeOK, Waiting
<1>2. \A k \in Counters : pruned[k] \in Nat /\ \A d \in Asks : came[d] \in Nat
  BY DEF LimiterInv, LimiterTypeOK
<1>3. \A k \in Counters : \A d \in Waiting(k)' : d \in Waiting(k) /\ d # c
  BY <1>1 DEF Waiting, ServerOf
<1>4. ASSUME NEW k \in Counters, NEW d \in Sound(k)'
      PROVE  d \in Sound(k) \/ (d = c /\ k = k0 /\ c \notin stale')
  BY <1>1 DEF Sound
<1>5. ASSUME NEW k \in Counters, k # k0 PROVE Shrinks(k)
  BY <1>4, <1>5 DEF Shrinks, Sound, MaxRequests
<1>6. PrunedLater'
  <2>1. ASSUME NEW k \in Counters, NEW d \in Sound(k)' PROVE came'[d] <= pruned'[k]
    BY <1>4 DEF LimiterInv, PrunedLater
  <2>2. ASSUME NEW k \in Counters, NEW d \in Waiting(k)' PROVE came'[d] <= pruned'[k]
    BY <1>3 DEF LimiterInv, PrunedLater
  <2>. QED BY <2>1, <2>2 DEF PrunedLater
<1>7. Listed'
  <2>. SUFFICES ASSUME NEW k \in Counters, NEW d \in Sound(k)', came'[d] + Window > pruned'[k]
                PROVE  d \in List(k)'
    BY DEF Listed
  <2>. QED BY <1>4 DEF LimiterInv, Listed
<1>8. CountIsRight'
  <2>. SUFFICES ASSUME NEW k \in Counters, NEW d \in Waiting(k)', d \notin passed' \cup stale'
                PROVE  RoomFor(k, d)'
    BY DEF CountIsRight
  <2>1. d \in Waiting(k) \ (passed \cup stale) /\ d # c /\ d \in Asks /\ k # k0
    BY <1>3 DEF Waiting
  <2>. QED BY <1>1, <1>5, <2>1, RoomStays
<1>9. Limited'
  <2>. SUFFICES ASSUME NEW k \in Counters, NEW t \in Nat
                PROVE  Cardinality(Within(k, t)') <= MaxRequests
    BY DEF Limited, MaxRequests
  <2>0. MaxRequests \in Nat
    BY LimitIsNat DEF LimiterInv
  <2>1. Within(k, t) \subseteq Asks /\ Ahead(k, c) \subseteq Asks
    BY SoundTypes DEF LimiterInv
  <2>2. Cardinality(Within(k, t)) <= MaxRequests
    BY DEF LimiterInv, Limited
  <2>3. CASE c \in Within(k, t)'
    <3>1. k = k0 /\ c \notin stale' /\ came[c] <= t /\ c \notin passed \cup stale
      BY <1>1, <2>3 DEF Within, Sound
    <3>2. RoomFor(k, c)
      BY <3>1 DEF LimiterInv, CountIsRight
    <3>3. Within(k, t)' \subseteq Ahead(k, c) \cup {c}
      <4>. SUFFICES ASSUME NEW d \in Within(k, t)', d # c PROVE d \in Ahead(k, c)
        OBVIOUS
      <4>1. d \in Sound(k) /\ d \in Asks /\ t < came[d] + Window
        BY <1>4 DEF Within, Sound
      <4>. QED BY <1>2, <3>1, <4>1 DEF Ahead
    <3>4. Cardinality(Ahead(k, c)) < MaxRequests
      BY <3>2 DEF RoomFor
    <3>5. Ahead(k, c) \cup {c} \subseteq Asks
      BY <2>1
    <3>6. /\ Cardinality(Ahead(k, c)) \in Nat
          /\ Cardinality(Ahead(k, c) \cup {c}) <= Cardinality(Ahead(k, c)) + 1
      BY <2>1, AskSets
    <3>7. /\ Cardinality(Within(k, t)') <= Cardinality(Ahead(k, c) \cup {c})
          /\ Cardinality(Within(k, t)') \in Nat /\ Cardinality(Ahead(k, c) \cup {c}) \in Nat
      BY <3>3, <3>5, AskSets
    <3>. QED BY <2>0, <3>4, <3>6, <3>7
  <2>4. CASE c \notin Within(k, t)'
    <3>1. Within(k, t)' \subseteq Within(k, t)
      BY <1>4, <2>4 DEF Within
    <3>2. Cardinality(Within(k, t)') <= Cardinality(Within(k, t))
          /\ Cardinality(Within(k, t)') \in Nat /\ Cardinality(Within(k, t)) \in Nat
      BY <2>1, <3>1, AskSets
    <3>. QED BY <2>0, <2>2, <3>2
  <2>. QED BY <2>3, <2>4
<1>. QED BY <1>6, <1>7, <1>8, <1>9 DEF RestInv

LEMMA AddRedisTame ==
  ASSUME LimiterInv, LimiterTypeOK', NEW c \in Asks, AddRedis(c)
  PROVE  RestInv'
<1>1. /\ ask[c] = "add" /\ ask' = [ask EXCEPT ![c] = "admitted"]
      /\ redis \subseteq redis' /\ (c \notin stale' => c \in redis')
      /\ counted' = [counted EXCEPT ![c] = "redis"]
      /\ passed' = passed \cup (Waiting("redis") \ {c})
      /\ stale \subseteq stale' /\ (c \in passed => c \in stale')
      /\ UNCHANGED <<came, pruned, scene, own, holder>>
  BY DEF AddRedis, Asking, EntersAt, RedisWith
<1>2. "redis" \in Counters /\ c \in Waiting("redis") /\ ask[c] # "assign"
  BY <1>1 DEF Counters, Waiting
<1>3. \A k \in Counters : List(k) \subseteq List(k)'
  BY <1>1 DEF List, Kept
<1>4. c \notin stale' => c \in List("redis")'
  BY <1>1 DEF List
<1>. QED BY <1>1, <1>2, <1>3, <1>4, EntersTame

LEMMA EnterOwnTame ==
  ASSUME LimiterInv, LimiterTypeOK', NEW c \in Asks, EnterOwn(c)
  PROVE  RestInv'
<1>. PICK p \in Servers : p = ServerOf(c)
  BY LimiterAssumption DEF LimiterInv, LimiterTypeOK, ServerOf
<1>1. /\ ask[c] = "enter" /\ ask' = [ask EXCEPT ![c] = "admitted"]
      /\ own' = [own EXCEPT ![c] = own[c] \cup {c}]
      /\ counted' = [counted EXCEPT ![c] = p]
      /\ passed' = passed \cup (Waiting(p) \ {c})
      /\ stale' = (IF c \in passed \/ holder[p] # c THEN stale \cup {c} ELSE stale)
      /\ UNCHANGED <<came, pruned, scene, redis, holder>>
  BY DEF EnterOwn, Asking, EntersAt
<1>2. /\ p \in Counters /\ p # "redis" /\ c \in Waiting(p)
      /\ own'[c] = own[c] \cup {c} /\ \A d \in Asks \ {c} : own'[d] = own[d]
  BY <1>1, LimiterAssumption DEF Waiting, LimiterInv, LimiterTypeOK, Counters, ServerOf
<1>3. \A k \in Counters : List(k) \subseteq List(k)'
  <2>1. ASSUME NEW q \in Servers PROVE Kept(q) \subseteq Kept(q)'
    <3>1. holder'[q] = holder[q] /\ (holder[q] = NoAsk \/ holder[q] \in Asks)
      BY <1>1 DEF LimiterInv, LimiterTypeOK
    <3>. QED BY <1>2, <3>1 DEF Kept
  <2>2. ASSUME NEW k \in Counters, k # "redis" PROVE List(k) \subseteq List(k)'
    <3>1. k \in Servers /\ List(k) = Kept(k) /\ List(k)' = Kept(k)'
      BY <2>2 DEF List, Counters
    <3>. QED BY <2>1, <3>1
  <2>3. List("redis") \subseteq List("redis")'
    BY <1>1 DEF List
  <2>. QED BY <2>2, <2>3
<1>4. c \notin stale' => c \in List(p)'
  <2>. SUFFICES ASSUME c \notin stale' PROVE c \in List(p)'
    OBVIOUS
  <2>1. holder'[p] = c /\ c # NoAsk
    BY <1>1, LimiterAssumption
  <2>. QED BY <1>2, <2>1 DEF List, Kept
<1>. QED BY <1>1, <1>2, <1>3, <1>4, EntersTame

-----------------------------------------------------------------------------
LEMMA ClockTame ==
  ASSUME LimiterInv, Ticks \/ RedisStops \/ RedisAnswers
  PROVE  RestInv'
<1>1. /\ UNCHANGED <<redis, own, holder, ask, came, counted, pruned, passed, stale>>
      /\ scene'.server = scene.server /\ MaxRequests' = MaxRequests
  BY DEF Ticks, RedisStops, RedisAnswers, LimiterInv, LimiterTypeOK, MaxRequests
<1>2. \A k : Sound(k)' = Sound(k) /\ Waiting(k)' = Waiting(k) /\ List(k)' = List(k)
  BY <1>1 DEF Sound, Waiting, List, Kept, ServerOf
<1>3. PrunedLater' /\ Listed'
  BY <1>1, <1>2 DEF LimiterInv, PrunedLater, Listed
<1>4. CountIsRight'
  BY <1>1, <1>2 DEF LimiterInv, CountIsRight, RoomFor, Ahead
<1>5. Limited'
  BY <1>1, <1>2 DEF LimiterInv, Limited, Within
<1>. QED BY <1>3, <1>4, <1>5 DEF RestInv

LEMMA LimiterStep == LimiterInv /\ [LimiterNext]_limiterVars => LimiterInv'
<1>1. CASE LimiterInv /\ LimiterNext
  <2>1. LimiterTypeOK' /\ Once'
    BY <1>1, LimiterTypes, OnceStep DEF LimiterInv
  <2>2. RestInv'
    <3>1. ASSUME NEW c \in Asks, AskStep(c) PROVE RestInv'
      BY <1>1, <2>1, <3>1, AskTame, CountRedisTame, AddRedisTame, RedisFailsTame, ReadKeptTame,
         AssignTame, EnterOwnTame DEF AskStep
    <3>2. CASE Ticks \/ RedisStops \/ RedisAnswers
      BY <1>1, <3>2, ClockTame
    <3>. QED BY <1>1, <3>1, <3>2 DEF LimiterNext
  <2>. QED BY <2>1, <2>2 DEF LimiterInv, RestInv
<1>2. CASE LimiterInv /\ UNCHANGED limiterVars
  <2>1. /\ UNCHANGED <<tick, scene, answering, redis, own, holder, ask, came, counted, pruned,
                      passed, stale>>
    BY <1>2 DEF limiterVars
  <2>2. \A k : Sound(k)' = Sound(k) /\ Waiting(k)' = Waiting(k) /\ List(k)' = List(k)
    BY <2>1 DEF Sound, Waiting, List, Kept, ServerOf
  <2>3. LimiterTypeOK' /\ Once' /\ PrunedLater' /\ Listed'
    BY <1>2, <2>1, <2>2 DEF LimiterInv, LimiterTypeOK, Once, PrunedLater, Listed
  <2>4. CountIsRight' /\ Limited'
    BY <1>2, <2>1, <2>2 DEF LimiterInv, CountIsRight, Limited, RoomFor, Ahead, Within, MaxRequests
  <2>. QED BY <2>3, <2>4 DEF LimiterInv
<1>. QED BY <1>1, <1>2

\* The shape of the state, for any requests, processes and scenes.
THEOREM LimiterTypeCorrect == LimiterSpec => []LimiterTypeOK
<1>1. LimiterInv => LimiterTypeOK
  BY DEF LimiterInv
<1>. QED BY LimiterInitially, LimiterStep, <1>1, PTL DEF LimiterSpec

\* The limit of every counter, for any number of requests and processes, any limit, window
\* and number of outages: what is admitted on a count that was right keeps to it.
THEOREM WindowKeptHolds == LimiterSpec => []WindowKept
<1>1. LimiterInv => WindowKept
  <2>. SUFFICES ASSUME LimiterInv, NEW k \in Counters, NEW t \in 1..tick
                PROVE  Cardinality(AdmittedBy(k, t) \ stale) <= MaxRequests
    BY DEF WindowKept
  <2>1. t \in Nat
    BY LimiterAssumption DEF LimiterInv, LimiterTypeOK
  <2>2. AdmittedBy(k, t) \ stale = Within(k, t)
    BY DEF AdmittedBy, Within, Sound
  <2>. QED BY <2>1, <2>2 DEF LimiterInv, Limited
<1>. QED BY LimiterInitially, LimiterStep, <1>1, PTL DEF LimiterSpec
=============================================================================
