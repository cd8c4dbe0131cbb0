------------------------- MODULE PlacementLoopProofs -------------------------
(***************************************************************************)
(* The loop of pick_host returns what the placement rule says, and agrees   *)
(* with the free slots of the capabilities, for configurations of any       *)
(* length and every snapshot.                                               *)
(***************************************************************************)
EXTENDS PlacementLoop, PlacementProofs

Names == DOMAIN in.active

Entry == [name : Names, docker : BOOLEAN, max_slots : Int]

LEMMA WellFormed ==
  ASSUME in \in Inputs
  PROVE  /\ cfg.hosts \in Seq(Entry)
         /\ cfg.max_slots_per_host \in Int /\ cfg.max_port_offsets \in Int
         /\ in.active \in [Names -> Int]
BY InputsAssumption DEF cfg, Names, Entry

Chosen == PickHost(cfg, in.metrics, in.active, in.used, in.hint)

Fits(k) == IsCandidate(cfg, in.metrics, in.active, in.used, in.hint, k)

Lowest(k) == LowestFreeOffset(in.used[cfg.hosts[k].name], cfg.max_port_offsets)

\* An element of the list describes a candidate that the loop has passed.
Describes(c) ==
  /\ c.index \in 1..(i - 1) /\ Fits(c.index)
  /\ c.headroom = Headroom(cfg, in.active, c.index)
  /\ c.offset = Lowest(c.index)

Searched ==
  /\ i <= Len(cfg.hosts) /\ ~Rejected
  /\ offset \in Nat
  /\ \A o \in 0..(offset - 1) : o \in in.used[host.name]

\* The list holds the candidates of the part already seen, all of them and in that
\* part's order; offsets below the one under consideration are taken.
LoopInv ==
  /\ in \in Inputs
  /\ i \in 1..(Len(cfg.hosts) + 1)
  /\ offset # NoOffset => Searched
  /\ candidates \in Seq([headroom : Int, index : Nat, offset : Int])
  /\ \A k \in DOMAIN candidates : Describes(candidates[k])
  /\ \A j \in 1..(i - 1) : Fits(j) => \E k \in DOMAIN candidates : candidates[k].index = j
  /\ \A k, m \in DOMAIN candidates : k < m => candidates[k].index < candidates[m].index
  /\ Returned => result = Chosen

-----------------------------------------------------------------------------
(* The search for an offset. *)

\* The first offset that is not in use is the lowest.
LEMMA FirstFreeIsLowest ==
  ASSUME NEW used, NEW max_offsets \in Int, NEW o \in Nat,
         o < max_offsets, o \notin used, \A j \in 0..(o - 1) : j \in used
  PROVE  LowestFreeOffset(used, max_offsets) = o
<1> DEFINE free == {k \in 0..(max_offsets - 1) : k \notin used}
<1>1. o \in free /\ \A k \in free : k \in Int /\ o <= k
  OBVIOUS
<1>2. (CHOOSE k \in free : \A j \in free : k <= j) = o
  <2> HIDE DEF free
  <2>1. \A k \in free : (\A j \in free : k <= j) => k = o
    BY <1>1
  <2> QED BY <1>1, <2>1
<1> QED BY <1>1, <1>2 DEF LowestFreeOffset

\* There is none exactly if all are in use.
LEMMA NoneFreeMeansAllUsed ==
  ASSUME NEW used, NEW max_offsets \in Int
  PROVE  LowestFreeOffset(used, max_offsets) = NoOffset
           <=> \A k \in 0..(max_offsets - 1) : k \in used
<1> DEFINE free == {k \in 0..(max_offsets - 1) : k \notin used}
<1>1. CASE free = {}
  BY <1>1 DEF LowestFreeOffset
<1>2. CASE free # {}
  <2>1. \E m \in free : \A n \in free : m <= n
    <3>1. free \in SUBSET Nat
      OBVIOUS
    <3> HIDE DEF free
    <3> QED BY <1>2, <3>1, LeastNatural
  <2>2. LowestFreeOffset(used, max_offsets) \in free
    <3>1. LowestFreeOffset(used, max_offsets) = CHOOSE k \in free : \A j \in free : k <= j
      BY <1>2 DEF LowestFreeOffset
    <3> HIDE DEF free
    <3> QED BY <2>1, <3>1
  <2> QED BY <1>2, <2>2 DEF NoOffset
<1> QED BY <1>1, <1>2

-----------------------------------------------------------------------------
(* The filters. *)

\* An entry that is not rejected is a candidate if an offset is free.
LEMMA FitsIfFree ==
  ASSUME in \in Inputs, i \in 1..Len(cfg.hosts)
  PROVE  /\ Headroom(cfg, in.active, i) = capacity - in.active[host.name]
         /\ Headroom(cfg, in.active, i) \in Int
         /\ Fits(i) <=> ~Rejected /\ Lowest(i) # NoOffset
<1> DEFINE list == cfg.hosts
<1>1. list \in Seq(Entry) /\ cfg.max_slots_per_host \in Int /\ in.active \in [Names -> Int]
  BY WellFormed
<1>2. list[i] \in Entry
  <2> HIDE DEF list
  <2> QED BY <1>1 DEF list
<1>3. capacity \in Int /\ in.active[host.name] \in Int
  BY <1>1, <1>2 DEF capacity, host, Entry
<1>4. Headroom(cfg, in.active, i) = capacity - in.active[host.name]
  BY DEF Headroom, MaxSlots, capacity, host
<1>5. Fits(i) <=> ~Rejected /\ Lowest(i) # NoOffset
  BY <1>3 DEF Fits, IsCandidate, Overloaded, Rejected, MaxSlots, capacity, host,
              sample, Lowest
<1> QED BY <1>3, <1>4, <1>5
-----------------------------------------------------------------------------
(* The steps of the loop. *)

\* What the arguments alone determine does not change with the loop.
LEMMA ArgumentsStay ==
  ASSUME UNCHANGED in
  PROVE  cfg' = cfg /\ Chosen' = Chosen /\ \A k : Fits(k)' = Fits(k) /\ Lowest(k)' = Lowest(k)
BY DEF cfg, Chosen, Fits, Lowest

\* An entry that is no candidate is passed.
LEMMA PassKeeps ==
  ASSUME LoopInv, i <= Len(cfg.hosts), ~Fits(i), i' = i + 1, offset' = NoOffset,
         UNCHANGED <<in, candidates, result>>, Len(cfg.hosts) \in Nat
  PROVE  LoopInv'
<1>1. /\ cfg' = cfg /\ Chosen' = Chosen /\ i \in Int
      /\ \A k : Fits(k)' = Fits(k) /\ Lowest(k)' = Lowest(k)
  BY ArgumentsStay DEF LoopInv
<1>2. ASSUME NEW k \in DOMAIN candidates PROVE Describes(candidates[k])'
  <2> DEFINE c == candidates[k]
  <2>1. Describes(c) /\ c' = c
    BY DEF LoopInv
  <2>2. c.index \in 1..(i' - 1)
    BY <1>1, <2>1 DEF Describes
  <2> QED BY <1>1, <2>1, <2>2 DEF Describes, Headroom, MaxSlots
<1>3. ASSUME NEW j \in 1..(i' - 1), Fits(j)
      PROVE  \E k \in DOMAIN candidates : candidates[k].index = j
  <2>1. j \in 1..(i - 1)
    BY <1>1, <1>3
  <2> QED BY <1>3, <2>1 DEF LoopInv
<1>4. i' \in 1..(Len(cfg.hosts) + 1)
  BY <1>1 DEF LoopInv
<1> QED BY <1>1, <1>2, <1>3, <1>4 DEF LoopInv, Returned, Unfinished

LEMMA ContinueKeeps ==
  ASSUME LoopInv, Continue
  PROVE  LoopInv'
<1>1. Len(cfg.hosts) \in Nat /\ in \in Inputs
  BY WellFormed DEF LoopInv
<1>2. i \in 1..Len(cfg.hosts)
  BY <1>1 DEF Continue, Filtering, LoopInv
<1>3. ~Fits(i)
  BY <1>1, <1>2, FitsIfFree DEF Continue
<1> QED BY <1>1, <1>2, <1>3, PassKeeps DEF Continue, Filtering

LEMMA NoneFreeKeeps ==
  ASSUME LoopInv, NoneFree
  PROVE  LoopInv'
<1>1. Len(cfg.hosts) \in Nat /\ in \in Inputs /\ cfg.max_port_offsets \in Int
  BY WellFormed DEF LoopInv
<1>2. i \in 1..Len(cfg.hosts) /\ Searched
  BY <1>1 DEF NoneFree, LoopInv, Searched
<1>3. \A o \in 0..(cfg.max_port_offsets - 1) : o \in in.used[host.name]
  BY <1>1, <1>2 DEF NoneFree, Searched
<1>4. Lowest(i) = NoOffset
  BY <1>1, <1>3, NoneFreeMeansAllUsed DEF Lowest, host
<1>5. ~Fits(i)
  BY <1>1, <1>2, <1>4, FitsIfFree
<1> QED BY <1>1, <1>2, <1>5, PassKeeps DEF NoneFree

LEMMA SearchKeeps ==
  ASSUME LoopInv, StartSearch \/ OffsetTaken
  PROVE  LoopInv'
<1>1. UNCHANGED <<in, i, candidates, result>>
  BY DEF StartSearch, OffsetTaken
<1>2. /\ cfg' = cfg /\ Chosen' = Chosen
      /\ \A k : Fits(k)' = Fits(k) /\ Lowest(k)' = Lowest(k)
  BY <1>1, ArgumentsStay
<1>3. host' = host /\ Rejected' = Rejected
  BY <1>1, <1>2 DEF host, Rejected, sample, capacity
<1>4. offset' \in Nat /\ \A o \in 0..(offset' - 1) : o \in in.used[host.name]
  <2>1. CASE StartSearch
    BY <2>1 DEF StartSearch
  <2>2. CASE OffsetTaken
    BY <2>2 DEF OffsetTaken, LoopInv, Searched
  <2> QED BY <2>1, <2>2
<1>5. i <= Len(cfg.hosts) /\ ~Rejected
  BY DEF StartSearch, Filtering, OffsetTaken, LoopInv, Searched
<1>6. Searched'
  BY <1>1, <1>2, <1>3, <1>4, <1>5 DEF Searched
<1> QED BY <1>1, <1>2, <1>6 DEF LoopInv, Describes, Headroom, MaxSlots, Returned, Unfinished

LEMMA AddKeeps ==
  ASSUME LoopInv, AddCandidate
  PROVE  LoopInv'
<1>1. Len(cfg.hosts) \in Nat /\ in \in Inputs /\ cfg.max_port_offsets \in Int
  BY WellFormed DEF LoopInv
<1>2. i \in 1..Len(cfg.hosts) /\ Searched
  BY <1>1 DEF AddCandidate, LoopInv, Searched
<1>3. Lowest(i) = offset /\ offset \in Nat
  BY <1>1, <1>2, FirstFreeIsLowest DEF AddCandidate, Searched, Lowest, host
<1>4. Fits(i) /\ Headroom(cfg, in.active, i) \in Int
  BY <1>1, <1>2, <1>3, FitsIfFree DEF Searched, NoOffset
<1> DEFINE new == [headroom |-> Headroom(cfg, in.active, i), index |-> i, offset |-> offset]
           Item == [headroom : Int, index : Nat, offset : Int]
<1>5. candidates' = Append(candidates, new)
  BY <1>1, <1>2, FitsIfFree DEF AddCandidate
<1>6. new \in Item /\ new.index = i
  BY <1>2, <1>3, <1>4
<1>7. i' = i + 1 /\ offset' = NoOffset /\ UNCHANGED <<in, result>> /\ i \in Nat
  BY <1>1, <1>2 DEF AddCandidate
<1>8. /\ cfg' = cfg /\ Chosen' = Chosen
      /\ \A k : Fits(k)' = Fits(k) /\ Lowest(k)' = Lowest(k)
  BY <1>7, ArgumentsStay
<1>9. new.headroom = Headroom(cfg, in.active, i) /\ new.offset = Lowest(i)
  BY <1>3
<1> DEFINE last == Len(candidates) + 1
<1>10. /\ candidates \in Seq(Item) /\ Len(candidates) \in Nat
       /\ DOMAIN candidates = 1..Len(candidates)
  BY DEF LoopInv
<1> HIDE DEF new, Item
<1>11. /\ candidates' \in Seq(Item) /\ DOMAIN candidates' = 1..last
       /\ candidates'[last] = new
       /\ \A k \in DOMAIN candidates : candidates'[k] = candidates[k]
  BY <1>5, <1>6, <1>10
<1>12. ASSUME NEW k \in DOMAIN candidates'
       PROVE  LET c == candidates'[k]
              IN  /\ c.index \in 1..(i' - 1) /\ Fits(c.index)
                  /\ c.headroom = Headroom(cfg, in.active, c.index)
                  /\ c.offset = Lowest(c.index)
  <2>1. CASE k = last
    <3>1. i \in 1..(i' - 1)
      BY <1>2, <1>7
    <3> QED BY <1>4, <1>6, <1>9, <1>11, <2>1, <3>1
  <2>2. CASE k \in DOMAIN candidates
    <3>1. Describes(candidates[k]) /\ candidates'[k] = candidates[k]
      BY <1>11, <2>2 DEF LoopInv
    <3>2. candidates[k].index \in 1..(i' - 1)
      BY <1>7, <3>1 DEF Describes
    <3> QED BY <3>1, <3>2 DEF Describes
  <2> QED BY <1>10, <1>11, <2>1, <2>2
<1>13. ASSUME NEW j \in 1..(i' - 1), Fits(j)
       PROVE  \E k \in DOMAIN candidates' : candidates'[k].index = j
  <2>1. CASE j = i
    BY <1>6, <1>10, <1>11, <2>1
  <2>2. CASE j # i
    <3>1. j \in 1..(i - 1)
      BY <1>7, <2>2
    <3>2. PICK k \in DOMAIN candidates : candidates[k].index = j
      BY <1>13, <3>1 DEF LoopInv
    <3> QED BY <1>10, <1>11, <3>2
  <2> QED BY <2>1, <2>2
<1>14. ASSUME NEW k \in DOMAIN candidates', NEW m \in DOMAIN candidates', k < m
       PROVE  candidates'[k].index < candidates'[m].index
  <2>1. k \in DOMAIN candidates
    BY <1>10, <1>11, <1>14
  <2>2. candidates'[k].index \in 1..(i - 1)
    BY <1>11, <2>1 DEF LoopInv, Describes
  <2>3. CASE m = last
    BY <1>6, <1>7, <1>11, <2>2, <2>3
  <2>4. CASE m \in DOMAIN candidates
    BY <1>11, <1>14, <2>1, <2>4 DEF LoopInv
  <2> QED BY <1>10, <1>11, <2>3, <2>4
<1>15. i' \in 1..(Len(cfg.hosts) + 1)
  BY <1>1, <1>2, <1>7
<1>16. \A k \in DOMAIN candidates' : Describes(candidates[k])'
  BY <1>7, <1>8, <1>12 DEF Describes, Headroom, MaxSlots
<1>17. Returned' => result' = Chosen'
  BY <1>7, <1>8 DEF LoopInv, Returned, Unfinished
<1>18. offset' = NoOffset /\ in' \in Inputs
  BY <1>1, <1>7
<1> QED BY <1>7, <1>8, <1>11, <1>13, <1>14, <1>15, <1>16, <1>17, <1>18
        DEF LoopInv, Item
\* The first element after the stable sort is the candidate that the rule prefers.
LEMMA SortedFirstIsPreferred ==
  ASSUME LoopInv, i > Len(cfg.hosts), candidates # <<>>
  PROVE  LET first == SortedFirst(candidates)
         IN  Chosen = [found |-> TRUE, index |-> first.index, offset |-> first.offset]
<1> DEFINE cands == Candidates(cfg, in.metrics, in.active, in.used, in.hint)
           len == Len(cfg.hosts)
           Item == [headroom : Int, index : Nat, offset : Int]
<1>1. len \in Nat /\ in \in Inputs /\ i = len + 1 /\ DOMAIN cfg.hosts = 1..len
  <2> DEFINE list == cfg.hosts
  <2>1. list \in Seq(Entry) /\ in \in Inputs /\ i \in 1..(Len(list) + 1) /\ i > Len(list)
    BY WellFormed DEF LoopInv
  <2> HIDE DEF list
  <2>2. Len(list) \in Nat /\ i = Len(list) + 1 /\ DOMAIN list = 1..Len(list)
    BY <2>1
  <2> QED BY <2>1, <2>2 DEF list
<1>2. \A j : j \in cands <=> j \in 1..len /\ Fits(j)
  BY <1>1 DEF Candidates, Fits
<1>3. \A k \in 1..len : Headroom(cfg, in.active, k) \in Int
  <2> TAKE k \in 1..len
  <2> DEFINE list == cfg.hosts
  <2>1. list \in Seq(Entry) /\ cfg.max_slots_per_host \in Int /\ in.active \in [Names -> Int]
    BY WellFormed DEF LoopInv
  <2>2. list[k] \in Entry
    <3>1. k \in 1..Len(list)
      OBVIOUS
    <3> HIDE DEF list
    <3> QED BY <2>1, <3>1
  <2>3. cfg.hosts[k].max_slots \in Int /\ cfg.hosts[k].name \in Names
    BY <2>2 DEF Entry
  <2>4. MaxSlots(cfg, cfg.hosts[k]) \in Int /\ in.active[cfg.hosts[k].name] \in Int
    BY <2>1, <2>3 DEF MaxSlots
  <2> QED BY <2>4 DEF Headroom
<1> HIDE DEF len, cands
<1>4. /\ \A k \in DOMAIN candidates :
           /\ candidates[k].index \in cands
           /\ candidates[k].headroom = Headroom(cfg, in.active, candidates[k].index)
           /\ candidates[k].offset = Lowest(candidates[k].index)
      /\ \A j \in cands : \E k \in DOMAIN candidates : candidates[k].index = j
  <2>1. i - 1 = len
    BY <1>1
  <2>2. /\ \A k \in DOMAIN candidates : Describes(candidates[k])
        /\ \A j \in 1..(i - 1) : Fits(j) => \E k \in DOMAIN candidates : candidates[k].index = j
    BY DEF LoopInv
  <2> QED BY <1>2, <2>1, <2>2 DEF Describes
<1>5. /\ DOMAIN candidates \subseteq Nat /\ 1 \in DOMAIN candidates
      /\ \A k \in DOMAIN candidates : candidates[k] \in Item
  <2>1. candidates \in Seq(Item)
    BY DEF LoopInv
  <2> HIDE DEF Item
  <2> QED BY <2>1
<1>6. PICK b \in cands : \A j \in cands : Preferred(cfg, in.active, b, j)
  <2>1. cands # {} /\ cands \subseteq 1..len
    BY <1>2, <1>4, <1>5
  <2> QED BY <1>1, <1>3, <2>1, BestCandidateExists
<1>7. \A j \in cands : (\A x \in cands : Preferred(cfg, in.active, j, x)) => j = b
  BY <1>2, <1>3, <1>6 DEF Preferred
<1> DEFINE First(k) == \A m \in DOMAIN candidates :
             \/ candidates[k].headroom > candidates[m].headroom
             \/ candidates[k].headroom = candidates[m].headroom /\ k <= m
           k0 == CHOOSE k \in DOMAIN candidates : First(k)
<1>8. \E k \in DOMAIN candidates : First(k)
  <2>1. PICK k \in DOMAIN candidates : candidates[k].index = b
    BY <1>4
  <2>2. ASSUME NEW m \in DOMAIN candidates
        PROVE  \/ candidates[k].headroom > candidates[m].headroom
               \/ candidates[k].headroom = candidates[m].headroom /\ k <= m
    <3>1. Preferred(cfg, in.active, b, candidates[m].index)
      BY <1>4, <1>6
    <3>2. b <= candidates[m].index => k <= m
      <4>1. m < k => candidates[m].index < candidates[k].index
        BY DEF LoopInv
      <4>2. k \in Nat /\ m \in Nat /\ candidates[m].index \in Nat /\ b \in Nat
        BY <1>5, <2>1
      <4> QED BY <2>1, <4>1, <4>2
    <3> QED BY <1>4, <2>1, <3>1, <3>2 DEF Preferred
  <2> QED BY <2>1, <2>2
<1>9. k0 \in DOMAIN candidates /\ First(k0)
  <2> HIDE DEF First
  <2> QED BY <1>8
<1> HIDE DEF k0
<1>10. candidates[k0].index = b
  <2>1. ASSUME NEW j \in cands PROVE Preferred(cfg, in.active, candidates[k0].index, j)
    <3>1. PICK m \in DOMAIN candidates : candidates[m].index = j
      BY <1>4
    <3>2. k0 <= m => candidates[k0].index <= candidates[m].index
      <4>1. k0 < m => candidates[k0].index < candidates[m].index
        BY <1>9 DEF LoopInv
      <4>2. k0 \in Nat /\ m \in Nat /\ candidates[m].index \in Nat /\ candidates[k0].index \in Nat
        BY <1>5, <1>9
      <4> QED BY <4>1, <4>2
    <3> QED BY <1>4, <1>9, <3>1, <3>2 DEF Preferred
  <2> QED BY <1>4, <1>7, <1>9, <2>1
<1>11. SortedFirst(candidates) = candidates[k0]
  BY DEF SortedFirst, k0
<1>12. Chosen = [found |-> TRUE, index |-> b, offset |-> Lowest(b)]
  <2> DEFINE best == CHOOSE x \in cands : \A j \in cands : Preferred(cfg, in.active, x, j)
  <2>1. best = b
    BY <1>6, <1>7
  <2>2. Chosen = IF cands = {} THEN NoPlacement
                 ELSE [found |-> TRUE, index |-> best, offset |-> Lowest(best)]
    BY DEF Chosen, PickHost, Lowest, cands
  <2> HIDE DEF best
  <2> QED BY <1>6, <2>1, <2>2
<1> QED BY <1>4, <1>9, <1>10, <1>11, <1>12

LEMMA ReturnKeeps ==
  ASSUME LoopInv, Return
  PROVE  LoopInv'
<1>1. UNCHANGED <<in, i, offset, candidates>> /\ i > Len(cfg.hosts)
  BY DEF Return
<1>2. /\ cfg' = cfg /\ Chosen' = Chosen
      /\ \A k : Fits(k)' = Fits(k) /\ Lowest(k)' = Lowest(k)
  BY <1>1, ArgumentsStay
<1>3. result' = Chosen
  <2>1. CASE candidates = <<>>
    <3>1. Candidates(cfg, in.metrics, in.active, in.used, in.hint) = {}
      <4>1. Len(cfg.hosts) \in Nat /\ DOMAIN cfg.hosts = 1..Len(cfg.hosts) /\ i = Len(cfg.hosts) + 1
        BY <1>1, WellFormed DEF LoopInv
      <4>2. \A j \in 1..Len(cfg.hosts) : ~Fits(j)
        BY <2>1, <4>1 DEF LoopInv
      <4> QED BY <4>1, <4>2 DEF Candidates, Fits
    <3> QED BY <2>1, <3>1 DEF Return, Chosen, PickHost
  <2>2. CASE candidates # <<>>
    BY <1>1, <2>2, SortedFirstIsPreferred DEF Return
  <2> QED BY <2>1, <2>2
<1>4. offset' # NoOffset => Searched'
  BY <1>1, <1>2 DEF LoopInv, Searched, Rejected, host, sample, capacity
<1> QED BY <1>1, <1>2, <1>3, <1>4 DEF LoopInv, Describes, Headroom, MaxSlots

LEMMA LoopStep ==
  LoopInv /\ [Next]_vars => LoopInv'
<1> SUFFICES ASSUME LoopInv, [Next]_vars PROVE LoopInv'
  OBVIOUS
<1>1. CASE Next
  BY <1>1, ContinueKeeps, SearchKeeps, NoneFreeKeeps, AddKeeps, ReturnKeeps DEF Next
<1>2. CASE UNCHANGED vars
  <2>1. UNCHANGED in /\ UNCHANGED <<i, offset, candidates, result>>
    BY <1>2 DEF vars
  <2>2. /\ cfg' = cfg /\ Chosen' = Chosen
        /\ \A k : Fits(k)' = Fits(k) /\ Lowest(k)' = Lowest(k)
    BY <2>1, ArgumentsStay
  <2>3. offset' # NoOffset => Searched'
    BY <2>1, <2>2 DEF LoopInv, Searched, Rejected, host, sample, capacity
  <2> QED BY <2>1, <2>2, <2>3 DEF LoopInv, Describes, Headroom, MaxSlots, Returned, Unfinished
<1> QED BY <1>1, <1>2

LEMMA LoopInit ==
  Init => LoopInv
<1> SUFFICES ASSUME Init PROVE LoopInv
  OBVIOUS
<1>1. Len(cfg.hosts) \in Nat
  BY WellFormed DEF Init
<1>2. candidates = <<>> /\ DOMAIN candidates = {}
  BY DEF Init
<1>3. candidates \in Seq([headroom : Int, index : Nat, offset : Int])
  BY <1>2
<1> QED BY <1>1, <1>2, <1>3 DEF Init, LoopInv, Returned

\* What the loop returns is what the rule says, and it is consistent with the free
\* slots that the capabilities show.
LEMMA InvariantSuffices ==
  ASSUME LoopInv
  PROVE  TypeOK /\ ReturnsPickHost /\ FreeSlotsMatchPlacement
<1> DEFINE cands == Candidates(cfg, in.metrics, in.active, in.used, in.hint)
<1>1. TypeOK
  <2>1. \A k \in DOMAIN candidates : candidates[k].index < i
    BY DEF LoopInv, Describes
  <2> QED BY <2>1 DEF LoopInv, TypeOK, Searched, NoOffset
<1>2. ReturnsPickHost
  BY DEF LoopInv, ReturnsPickHost, Chosen
<1>3. ASSUME Returned PROVE FreeSlotsMatchPlacement
  <2> DEFINE list == cfg.hosts
  <2>1. /\ list \in Seq(Entry) /\ cfg.max_slots_per_host \in Int
        /\ cfg.max_port_offsets \in Int /\ in.active \in [Names -> Int]
    BY WellFormed DEF LoopInv
  <2>2. ASSUME NEW k \in DOMAIN list
        PROVE  /\ MaxSlots(cfg, list[k]) - in.active[list[k].name] \in Int
               /\ MaxSlots(cfg, list[k]) \in Int /\ in.active[list[k].name] \in Int
    <3>1. list[k] \in Entry
      <4> HIDE DEF list
      <4> QED BY <2>1
    <3>2. list[k].max_slots \in Int /\ list[k].name \in Names
      BY <3>1 DEF Entry
    <3> QED BY <2>1, <3>2 DEF MaxSlots
  <2>3. result = Chosen
    BY <1>3 DEF LoopInv
  <2>4. /\ ~result.found => cands = {}
        /\ result.found => result.index \in cands
    BY <2>1, <2>3, PickHostIsBest DEF Chosen, Entry
  <2>5. ASSUME result.found
        PROVE  FreeSlots(cfg, in.metrics, in.active, result.index) > 0
    <3>1. result.index \in DOMAIN list /\ Fits(result.index)
      BY <2>4, <2>5 DEF Candidates, Fits
    <3> QED BY <2>2, <3>1 DEF Fits, IsCandidate, FreeSlots
  <2>6. ASSUME ~result.found, NEW k \in DOMAIN list,
               FreeSlots(cfg, in.metrics, in.active, k) > 0,
               in.hint \in {NoHint, list[k].name}, ~Overloaded(in.metrics[list[k].name])
        PROVE  0..(cfg.max_port_offsets - 1) \subseteq in.used[list[k].name]
    <3>1. ~Fits(k)
      BY <2>4, <2>6 DEF Candidates, Fits
    <3>2. Lowest(k) = NoOffset
      BY <2>2, <2>6, <3>1 DEF Fits, IsCandidate, FreeSlots, Lowest
    <3> QED BY <2>1, <3>2, NoneFreeMeansAllUsed DEF Lowest
  <2> QED BY <2>5, <2>6 DEF FreeSlotsMatchPlacement
<1>4. ASSUME ~Returned PROVE FreeSlotsMatchPlacement
  BY <1>4 DEF FreeSlotsMatchPlacement
<1> QED BY <1>1, <1>2, <1>3, <1>4

\* The types of the loop's locals, for every configuration and snapshot.
THEOREM LoopIsTyped == Spec => []TypeOK
<1>1. LoopInv => TypeOK
  BY InvariantSuffices
<1> QED BY LoopInit, LoopStep, <1>1, PTL DEF Spec

\* pick_host as it is written, with its `continue`s, its inner search and its stable
\* sort, returns the placement of the rule for every configuration, however many
\* hosts it names and how often, and for every snapshot (placement.py:25-69).
THEOREM LoopReturnsPickHost ==
  Spec => []ReturnsPickHost
<1>1. LoopInv => ReturnsPickHost
  BY InvariantSuffices
<1> QED BY LoopInit, LoopStep, <1>1, PTL DEF Spec

\* Where a slot is placed the capabilities show a free one, and a refusal despite a
\* free one means an overloaded host or one whose port offsets are all taken, for
\* every configuration and snapshot (server.py:233-243, placement.py:31-58).
THEOREM CapabilitiesAgree ==
  Spec => []FreeSlotsMatchPlacement
<1>1. LoopInv => FreeSlotsMatchPlacement
  BY InvariantSuffices
<1> QED BY LoopInit, LoopStep, <1>1, PTL DEF Spec
=============================================================================
