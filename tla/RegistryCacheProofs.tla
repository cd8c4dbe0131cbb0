------------------------ MODULE RegistryCacheProofs ------------------------
(* The freshness of every answer of the registry health cache. *)
EXTENDS RegistryCache, TLAPS

\* No fetch is older than the timeouts of its two requests.
FetchesEnd ==
  \A q \in Requests : Fetching(q) => request[q].age <= V2_TIMEOUT + CATALOG_TIMEOUT

IInv == TypeOK /\ FetchesEnd /\ AnswersAreFresh

Ages == 0..MaxAge

Answer ==
  [at : {"idle", "asking", "replied", "listing", "listed", "answered"},
   healthy : BOOLEAN, age : Ages, seen : Ages]

LEMMA ZeroIsAnAge == 0 \in Ages /\ 0 <= V2_TIMEOUT + CATALOG_TIMEOUT
BY TimeoutAssumption DEF Ages, MaxAge

LEMMA IdleIsAnAnswer == Idle \in Answer
BY ZeroIsAnAge DEF Idle, Answer

LEMMA OlderBounds ==
  ASSUME NEW a \in Ages
  PROVE  Older(a) \in Ages /\ a <= Older(a) /\ Older(a) <= a + 1
BY TimeoutAssumption DEF Older, Ages, MaxAge

LEMMA OlderIsMonotone ==
  ASSUME NEW a \in Ages, NEW b \in Ages, a <= b
  PROVE  Older(a) <= Older(b)
BY TimeoutAssumption DEF Older, Ages, MaxAge

LEMMA InitIInv == Init => IInv
BY TimeoutAssumption
DEF Init, Registries, IInv, TypeOK, FetchesEnd, AnswersAreFresh, Nothing, Idle, Fetching, MaxAge

\* One invocation gets new locals; the cache and the others keep theirs.
LEMMA NewLocals ==
  ASSUME IInv, NEW q \in Requests, NEW a \in Answer, UNCHANGED <<registry, cached>>,
         request' = [request EXCEPT ![q] = a],
         a.at \in {"asking", "replied", "listing", "listed"} =>
           a.seen <= a.age /\ a.age <= V2_TIMEOUT + CATALOG_TIMEOUT,
         a.at = "answered" => a.seen < CACHE_TTL
  PROVE  IInv'
BY DEF IInv, TypeOK, FetchesEnd, AnswersAreFresh, Answer, Ages, Fetching

\* A fetch that ends: its answer is recent, and the stamp it leaves is not
\* younger than what it saw.
LEMMA KeepIInv ==
  ASSUME IInv, NEW q \in Requests, Fetching(q), Keep(q, request[q]),
         UNCHANGED registry
  PROVE  IInv'
<1> DEFINE a == [request[q] EXCEPT !.at = "answered"]
<1>1. request[q] \in Answer
  BY DEF IInv, TypeOK, Answer, Ages
<1>2. request[q].seen <= request[q].age /\ request[q].age < CACHE_TTL
  BY <1>1, TimeoutAssumption DEF IInv, TypeOK, FetchesEnd, Answer, Ages, MaxAge
<1>3. a \in Answer /\ a.at = "answered" /\ a.seen < CACHE_TTL
  BY <1>1, <1>2, TimeoutAssumption DEF Answer, Ages, MaxAge
<1>4. request' = [request EXCEPT ![q] = a]
  BY DEF Keep
<1>5. /\ cached' = [healthy |-> request[q].healthy, age |-> request[q].age,
                    seen |-> request[q].seen]
      /\ registry' = registry
  BY DEF Keep
<1>6. cached' \in [healthy : BOOLEAN, age : Ages, seen : Ages]
      /\ cached'.seen <= cached'.age
  BY <1>1, <1>2, <1>5 DEF Answer
<1> HIDE DEF a
<1>7. \A p \in Requests : request'[p] = IF p = q THEN a ELSE request[p]
  BY <1>4 DEF IInv, TypeOK
<1>8. request' \in [Requests -> Answer]
  BY <1>3, <1>4 DEF IInv, TypeOK, Answer, Ages
<1> QED
  BY <1>3, <1>5, <1>6, <1>7, <1>8
  DEF IInv, TypeOK, FetchesEnd, AnswersAreFresh, Answer, Ages, Fetching

\* A second passes: the stamp of the cache and what it saw age together.
LEMMA TickIInv == ASSUME IInv, Tick PROVE IInv'
<1>1. cached.age \in Ages /\ cached.seen \in Ages /\ cached.seen <= cached.age
  BY DEF IInv, TypeOK, Ages
<1>2. /\ cached' = [cached EXCEPT !.age = Older(cached.age),
                                  !.seen = Older(cached.seen)]
      /\ registry' = registry
  BY DEF Tick
<1>3. /\ Older(cached.age) \in Ages /\ Older(cached.seen) \in Ages
      /\ Older(cached.seen) <= Older(cached.age)
  BY <1>1, OlderBounds, OlderIsMonotone
<1>4. /\ cached' \in [healthy : BOOLEAN, age : Ages, seen : Ages]
      /\ cached'.seen <= cached'.age
  BY <1>2, <1>3 DEF IInv, TypeOK
<1>5. ASSUME NEW q \in Requests
      PROVE  /\ request'[q] \in Answer
             /\ request'[q].at = request[q].at
             /\ Fetching(q) => /\ request'[q].seen <= request'[q].age
                               /\ request'[q].age <= V2_TIMEOUT + CATALOG_TIMEOUT
             /\ ~Fetching(q) => request'[q] = request[q]
  <2>1. /\ request[q] \in Answer
        /\ Fetching(q) => request[q].seen <= request[q].age
    BY DEF IInv, TypeOK, Answer, Ages
  <2>2. CASE ~Fetching(q)
    BY <2>1, <2>2 DEF Tick
  <2>3. CASE Fetching(q)
    <3> DEFINE s == IF request[q].at = "asking" THEN request[q].seen
                    ELSE Older(request[q].seen)
    <3>1. request[q].age \in Ages /\ request[q].seen \in Ages
      BY <2>1 DEF Answer
    <3>2. request'[q] = [request[q] EXCEPT !.age = Older(request[q].age), !.seen = s]
      BY <2>3 DEF Tick
    <3>3. request[q].age < V2_TIMEOUT + CATALOG_TIMEOUT
      <4>1. request[q].age < IF request[q].at \in {"listing", "listed"}
                             THEN V2_TIMEOUT + CATALOG_TIMEOUT ELSE V2_TIMEOUT
        BY <2>3 DEF Tick
      <4> QED
        BY <3>1, <4>1, TimeoutAssumption DEF Ages, MaxAge
    <3>4. Older(request[q].age) \in Ages /\ Older(request[q].age) <= request[q].age + 1
          /\ request[q].age <= Older(request[q].age)
      BY <3>1, OlderBounds
    <3>5. s \in Ages /\ s <= Older(request[q].age)
      <4>1. CASE request[q].at = "asking"
        BY <4>1, <2>1, <2>3, <3>1, <3>4 DEF Ages, MaxAge
      <4>2. CASE request[q].at # "asking"
        BY <4>2, <2>1, <2>3, <3>1, OlderBounds, OlderIsMonotone
      <4> QED
        BY <4>1, <4>2
    <3> HIDE DEF s
    <3>6. Older(request[q].age) <= V2_TIMEOUT + CATALOG_TIMEOUT
      BY <3>1, <3>3, <3>4, TimeoutAssumption DEF Ages, MaxAge
    <3> QED
      BY <2>1, <2>3, <3>2, <3>4, <3>5, <3>6 DEF Answer
  <2> QED
    BY <2>2, <2>3
<1>6. request' \in [Requests -> Answer]
  <2>1. request' = [q \in Requests |-> request'[q]]
    BY DEF Tick
  <2> QED
    BY <1>5, <2>1
<1> QED
  BY <1>2, <1>4, <1>5, <1>6
  DEF IInv, TypeOK, FetchesEnd, AnswersAreFresh, Answer, Ages, Fetching

LEMMA NextIInv == IInv /\ [Next]_vars => IInv'
<1> SUFFICES ASSUME IInv, [Next]_vars PROVE IInv'
  OBVIOUS
<1>1. ASSUME NEW q \in Requests PROVE request[q] \in Answer
  BY <1>1 DEF IInv, TypeOK, Answer, Ages
<1>2. ASSUME NEW q \in Requests, Hit(q) PROVE IInv'
  <2> DEFINE a == [at |-> "answered", healthy |-> cached.healthy, age |-> 0,
                   seen |-> cached.seen]
  <2>1. a \in Answer /\ a.at = "answered" /\ a.seen < CACHE_TTL
    BY <1>2, TimeoutAssumption DEF Hit, Fresh, IInv, TypeOK, Answer, Ages, MaxAge
  <2>2. request' = [request EXCEPT ![q] = a] /\ UNCHANGED <<registry, cached>>
    BY <1>2 DEF Hit
  <2> HIDE DEF a
  <2> QED
    BY <2>1, <2>2, NewLocals
<1>3. ASSUME NEW q \in Requests, Miss(q) PROVE IInv'
  <2> DEFINE a == [Idle EXCEPT !.at = "asking"]
  <2>1. a \in Answer /\ a.at = "asking" /\ a.seen = 0 /\ a.age = 0
    BY IdleIsAnAnswer DEF Idle, Answer
  <2>2. request' = [request EXCEPT ![q] = a] /\ UNCHANGED <<registry, cached>>
    BY <1>3 DEF Miss
  <2> HIDE DEF a
  <2>3. a.seen <= a.age /\ a.age <= V2_TIMEOUT + CATALOG_TIMEOUT /\ a.at # "answered"
    BY <2>1, ZeroIsAnAge
  <2> QED
    BY <2>1, <2>2, <2>3, NewLocals
<1>4. ASSUME NEW q \in Requests, RegistryReplies(q) PROVE IInv'
  <2> DEFINE a == [request[q] EXCEPT !.at = "replied", !.seen = 0,
                                  !.healthy = registry # "down"]
  <2>1. request[q] \in Answer /\ request[q].age <= V2_TIMEOUT + CATALOG_TIMEOUT
    BY <1>1, <1>4 DEF RegistryReplies, IInv, FetchesEnd, Fetching
  <2>2. (registry # "down") \in BOOLEAN
    OBVIOUS
  <2>3. a \in Answer /\ a.at = "replied" /\ a.seen = 0 /\ a.age = request[q].age
    BY <2>1, <2>2, ZeroIsAnAge DEF Answer
  <2>4. request' = [request EXCEPT ![q] = a] /\ UNCHANGED <<registry, cached>>
    BY <1>4 DEF RegistryReplies
  <2>5. 0 <= request[q].age
    BY <2>1 DEF Answer, Ages
  <2> HIDE DEF a
  <2> QED
    BY <2>1, <2>3, <2>4, <2>5, NewLocals
<1>5. ASSUME NEW q \in Requests, V2Fails(q) PROVE IInv'
  BY <1>5, KeepIInv DEF V2Fails, Fetching
<1>6. ASSUME NEW q \in Requests, V2Answers(q) PROVE IInv'
  <2> DEFINE a == [request[q] EXCEPT !.at = "listing"]
  <2>1. /\ request[q] \in Answer /\ request[q].age <= V2_TIMEOUT + CATALOG_TIMEOUT
        /\ request[q].seen <= request[q].age
    BY <1>1, <1>6 DEF V2Answers, IInv, TypeOK, FetchesEnd, Fetching
  <2>2. /\ a \in Answer /\ a.at = "listing"
        /\ a.seen = request[q].seen /\ a.age = request[q].age
    BY <2>1 DEF Answer
  <2>3. request' = [request EXCEPT ![q] = a] /\ UNCHANGED <<registry, cached>>
    BY <1>6 DEF V2Answers
  <2> HIDE DEF a
  <2> QED
    BY <2>1, <2>2, <2>3, NewLocals
<1>r. ASSUME NEW q \in Requests, CatalogReplies(q) PROVE IInv'
  <2> DEFINE a == [request[q] EXCEPT !.at = "listed", !.healthy = registry # "null"]
  <2>1. /\ request[q] \in Answer /\ request[q].age <= V2_TIMEOUT + CATALOG_TIMEOUT
        /\ request[q].seen <= request[q].age
    BY <1>1, <1>r DEF CatalogReplies, IInv, TypeOK, FetchesEnd, Fetching
  <2>2. /\ a \in Answer /\ a.at = "listed"
        /\ a.seen = request[q].seen /\ a.age = request[q].age
    BY <2>1 DEF Answer
  <2>3. request' = [request EXCEPT ![q] = a] /\ UNCHANGED <<registry, cached>>
    BY <1>r DEF CatalogReplies
  <2> HIDE DEF a
  <2> QED
    BY <2>1, <2>2, <2>3, NewLocals
<1>7. ASSUME NEW q \in Requests, CatalogEnds(q) PROVE IInv'
  BY <1>7, KeepIInv DEF CatalogEnds, Fetching
<1>8. ASSUME NEW q \in Requests, Deliver(q) PROVE IInv'
  <2>1. Idle \in Answer /\ Idle.at = "idle"
    BY IdleIsAnAnswer DEF Idle
  <2> QED
    BY <1>8, <2>1, NewLocals DEF Deliver
<1>9. CASE Tick
  BY <1>9, TickIInv
<1>10. CASE RegistryChanges
  BY <1>10 DEF RegistryChanges, IInv, TypeOK, FetchesEnd, AnswersAreFresh, Fetching
<1>11. CASE UNCHANGED vars
  BY <1>11 DEF vars, IInv, TypeOK, FetchesEnd, AnswersAreFresh, Fetching
<1> QED
  BY <1>2, <1>3, <1>4, <1>5, <1>6, <1>r, <1>7, <1>8, <1>9, <1>10, <1>11 DEF Next, Step

\* The types of the cache and of the fetches, for any number of them
\* (registry.py:13-72).
THEOREM CacheIsTyped == Spec => []TypeOK
<1>1. IInv => TypeOK
  BY DEF IInv
<1> QED BY InitIInv, NextIInv, <1>1, PTL DEF Spec

\* For any number of overlapping requests and any timeouts shorter than the
\* lifetime of the cache, no answer rests on an observation of CACHE_TTL
\* seconds ago or older (registry.py:22-31).
THEOREM HealthIsFresh == Spec => []AnswersAreFresh
<1>1. IInv => AnswersAreFresh
  BY DEF IInv
<1> QED
  BY InitIInv, NextIInv, <1>1, PTL DEF Spec
=============================================================================
