---------------------------- MODULE RegistryCache ----------------------------
(***************************************************************************)
(* RegistryClient.health of server/registry.py as GET /api/capabilities     *)
(* calls it: a cached answer while it is younger than CACHE_TTL, otherwise  *)
(* a fetch over two awaited requests.  Every invocation runs on the event   *)
(* loop and may overlap with the others at those awaits.                    *)
(*                                                                          *)
(* Instead of time.monotonic() the state holds how long ago each event was  *)
(* (its age), which is all that the code compares, and which stays finite.  *)
(***************************************************************************)
EXTENDS Integers

CONSTANTS
  Requests,       \* concurrent invocations of api_capabilities
  CACHE_TTL,      \* seconds
  V2_TIMEOUT,     \* longest GET /v2/: 5 s for each connect, write and read
  CATALOG_TIMEOUT \* longest GET /v2/_catalog, likewise

ASSUME TimeoutAssumption ==
  /\ CACHE_TTL \in Nat /\ V2_TIMEOUT \in Nat /\ CATALOG_TIMEOUT \in Nat
  /\ V2_TIMEOUT + CATALOG_TIMEOUT < CACHE_TTL

VARIABLES
  registry,  \* "up"; "down", for whatever makes GET /v2/ fail; or "null": up,
             \* with a catalog that says `"repositories": null`
  cached,    \* _cache_result with _cache_ts: [healthy, age, seen]
  request    \* where an invocation is, and its locals

vars == <<registry, cached, request>>

\* The age of `now` in the code, and the age of the answer of the registry.
MaxAge == CACHE_TTL
Older(age) == IF age < MaxAge THEN age + 1 ELSE MaxAge

\* _cache_result is None: nothing that could be fresh.
Nothing == [healthy |-> FALSE, age |-> MaxAge, seen |-> MaxAge]

Registries == {"up", "down", "null"}

Idle == [at |-> "idle", healthy |-> FALSE, age |-> 0, seen |-> 0]

Init ==
  /\ registry \in Registries
  /\ cached = Nothing
  /\ request = [q \in Requests |-> Idle]

Fetching(q) == request[q].at \in {"asking", "replied", "listing", "listed"}

\* Mutated form of Fresh: the age is not looked at.
AnyCached == cached # Nothing

Fresh == cached.age < CACHE_TTL

\* The cached answer is returned without an await.
Hit(q) ==
  /\ request[q].at = "idle"
  /\ Fresh
  /\ request' = [request EXCEPT ![q] =
       [at |-> "answered", healthy |-> cached.healthy, age |-> 0,
        seen |-> cached.seen]]
  /\ UNCHANGED <<registry, cached>>

\* `now` is read, and GET /v2/ is awaited.
Miss(q) ==
  /\ request[q].at = "idle"
  /\ ~Fresh
  /\ request' = [request EXCEPT ![q] = [Idle EXCEPT !.at = "asking"]]
  /\ UNCHANGED <<registry, cached>>

\* Mutated form of Keep: the cache is stamped when the answer is stored.
KeepStampedLate(q, answer) ==
  /\ cached' = [healthy |-> answer.healthy, age |-> 0, seen |-> answer.seen]
  /\ request' = [request EXCEPT ![q] = [answer EXCEPT !.at = "answered"]]

\* Both lines after the await: the stamp is the time the fetch began.
Keep(q, answer) ==
  /\ cached' = [healthy |-> answer.healthy, age |-> answer.age, seen |-> answer.seen]
  /\ request' = [request EXCEPT ![q] = [answer EXCEPT !.at = "answered"]]

\* The registry answers, or turns out not to; the response is on its way.
RegistryReplies(q) ==
  /\ request[q].at = "asking"
  /\ request' = [request EXCEPT ![q].at = "replied", ![q].seen = 0,
                                ![q].healthy = registry # "down"]
  /\ UNCHANGED <<registry, cached>>

\* Not 200, or an exception: there is no catalog to list.
V2Fails(q) ==
  /\ request[q].at = "replied"
  /\ ~request[q].healthy
  /\ Keep(q, request[q])
  /\ UNCHANGED registry

V2Answers(q) ==
  /\ request[q].at = "replied"
  /\ request[q].healthy
  /\ request' = [request EXCEPT ![q].at = "listing"]
  /\ UNCHANGED <<registry, cached>>

\* The catalog is on its way.  len(None) raises, outside the inner try: the answer
\* will be that the registry is not healthy.
CatalogReplies(q) ==
  /\ request[q].at = "listing"
  /\ request' = [request EXCEPT ![q].at = "listed", ![q].healthy = registry # "null"]
  /\ UNCHANGED <<registry, cached>>

\* The catalog is there, or does not come: then what is said about health stays.
CatalogEnds(q) ==
  /\ request[q].at \in {"listing", "listed"}
  /\ Keep(q, request[q])
  /\ UNCHANGED registry

Deliver(q) ==
  /\ request[q].at = "answered"
  /\ request' = [request EXCEPT ![q] = Idle]
  /\ UNCHANGED <<registry, cached>>

\* A second passes; no request outlives its timeout.
Tick ==
  /\ \A q \in Requests : Fetching(q) =>
       request[q].age < (IF request[q].at \in {"listing", "listed"}
                         THEN V2_TIMEOUT + CATALOG_TIMEOUT ELSE V2_TIMEOUT)
  /\ cached' = [cached EXCEPT !.age = Older(@), !.seen = Older(@)]
  /\ request' = [q \in Requests |->
       IF Fetching(q)
       THEN [request[q] EXCEPT !.age = Older(@),
               !.seen = IF request[q].at = "asking" THEN @ ELSE Older(@)]
       ELSE request[q]]
  /\ UNCHANGED registry

RegistryChanges ==
  /\ registry' \in Registries \ {registry}
  /\ UNCHANGED <<cached, request>>

Step(q) ==
  \/ Hit(q) \/ Miss(q) \/ Deliver(q)
  \/ RegistryReplies(q) \/ V2Fails(q) \/ V2Answers(q)
  \/ CatalogReplies(q) \/ CatalogEnds(q)

Next == (\E q \in Requests : Step(q)) \/ Tick \/ RegistryChanges

Spec == Init /\ [][Next]_vars

\* The event loop serves whoever is ready, timeouts fire, and time passes.
FairSpec ==
  /\ Spec
  /\ \A q \in Requests :
       WF_vars(RegistryReplies(q) \/ V2Fails(q) \/ V2Answers(q)
                 \/ CatalogReplies(q) \/ CatalogEnds(q))
  /\ \A q \in Requests : WF_vars(Deliver(q))
  /\ SF_vars(Tick)

-----------------------------------------------------------------------------
\* The type invariant of the client's attributes and the handlers' locals; what
\* a fetch saw, kept in the cache or not, is not older than the fetch.
TypeOK ==
  /\ registry \in Registries
  /\ cached \in [healthy : BOOLEAN, age : 0..MaxAge, seen : 0..MaxAge]
  /\ request \in [Requests ->
       [at : {"idle", "asking", "replied", "listing", "listed", "answered"},
        healthy : BOOLEAN, age : 0..MaxAge, seen : 0..MaxAge]]
  /\ cached.seen <= cached.age
  /\ \A q \in Requests : Fetching(q) => request[q].seen <= request[q].age

\* However fetches overlap and overwrite one another, no answer rests on an
\* observation of CACHE_TTL seconds ago or older (registry.py:22-31).
AnswersAreFresh ==
  \A q \in Requests : request[q].at = "answered" => request[q].seen < CACHE_TTL

\* Once the registry stays as it is, up or down, stale answers end: a slow fetch
\* that stores an old observation last is itself forgotten (registry.py:22-61).
ChangesAreSeen ==
  \A state \in {"up", "down"} :
    <>[](registry = state) =>
      <>[](\A q \in Requests :
             request[q].at = "answered" => request[q].healthy = (state = "up"))
=============================================================================
