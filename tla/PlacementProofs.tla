-------------------------- MODULE PlacementProofs --------------------------
(***************************************************************************)
(* Facts about the operators of Placement for every configuration, every    *)
(* set of offsets and every snapshot.                                       *)
(***************************************************************************)
EXTENDS Placement, WellFoundedInduction, TLAPS

\* A nonempty set of naturals has a least element.  The facts below that need
\* induction use it on the set of their counterexamples.
LEMMA LeastNatural ==
  ASSUME NEW T \in SUBSET Nat, T # {}
  PROVE  \E m \in T : \A n \in T : m <= n
<1> DEFINE R == OpToRel(<, Nat)
<1>1. IsWellFoundedOn(R, Nat)
  BY NatLessThanWellFounded
<1>2. \A x, y \in Nat : <<y, x>> \in R <=> y < x
  BY DEF OpToRel
<1> HIDE DEF R
<1>3. \E x \in T : \A y \in T : ~(<<y, x>> \in R)
  BY <1>1, WFMin
<1>4. PICK m \in T : \A y \in T : ~(<<y, m>> \in R)
  BY <1>3
<1>5. ASSUME NEW y \in T PROVE m <= y
  <2>1. ~(y < m)
    BY <1>2, <1>4, Zenon
  <2> QED BY <2>1
<1> QED BY <1>5

\* _lowest_free_offset returns NoOffset when every offset is in use, and
\* otherwise the lowest one below max_offsets that is not.
LEMMA LowestFreeOffsetIsFree ==
  ASSUME NEW used, NEW max_offsets \in Int,
         NEW o, o = LowestFreeOffset(used, max_offsets), o # NoOffset
  PROVE  /\ o \in 0..(max_offsets - 1)
         /\ o \notin used
         /\ \A j \in 0..(o - 1) : j \in used
<1> DEFINE free == {i \in 0..(max_offsets - 1) : i \notin used}
<1>1. free # {} /\ o = CHOOSE i \in free : \A j \in free : i <= j
  BY DEF LowestFreeOffset
<1>2. free \in SUBSET Nat
  OBVIOUS
<1>3. \E i \in free : \A j \in free : i <= j
  <2> HIDE DEF free
  <2> QED BY <1>1, <1>2, LeastNatural
<1>4. o \in free /\ \A j \in free : o <= j
  <2> HIDE DEF free
  <2> QED BY <1>1, <1>3
<1> QED BY <1>4

\* Among the candidates of a configuration one is preferred to all: the sort
\* of pick_host has a first element, and it is unique.
LEMMA BestCandidateExists ==
  ASSUME NEW cfg, NEW active, NEW cands,
         NEW len \in Nat, cands \subseteq 1..len, cands # {},
         \A i \in 1..len : Headroom(cfg, active, i) \in Int
  PROVE  \E i \in cands : \A j \in cands : Preferred(cfg, active, i, j)
<1> DEFINE h(i) == Headroom(cfg, active, i)
           Best(n, i) == /\ i \in cands \intersect (1..n)
                         /\ \A j \in cands \intersect (1..n) :
                              \/ h(i) > h(j)
                              \/ h(i) = h(j) /\ i <= j
           Bad == {n \in 0..len : /\ cands \intersect (1..n) # {}
                                  /\ ~ \E i \in 1..n : Best(n, i)}
<1>1. SUFFICES Bad = {}
  <2>1. cands \intersect (1..len) = cands
    OBVIOUS
  <2>2. PICK i \in 1..len : Best(len, i)
    <3>1. len \notin Bad
      BY <1>1
    <3> QED BY <2>1, <3>1
  <2> QED BY <2>1, <2>2 DEF Preferred
<1>2. SUFFICES ASSUME Bad # {} PROVE FALSE
  OBVIOUS
<1>3. PICK m \in Bad : \A n \in Bad : m <= n
  <2>1. Bad \in SUBSET Nat
    OBVIOUS
  <2> HIDE DEF Bad
  <2> QED BY <1>2, <2>1, LeastNatural
<1>4. m \in 1..len
  <2>1. m # 0
    OBVIOUS
  <2> QED BY <2>1
<1>5. m - 1 \notin Bad
  <2> HIDE DEF Bad
  <2> QED BY <1>3, <1>4
<1>6. h(m) \in Int /\ \A j \in 1..len : h(j) \in Int
  BY <1>4
<1> HIDE DEF h
<1>7. CASE cands \intersect (1..(m - 1)) = {}
  <2>1. cands \intersect (1..m) = {m}
    BY <1>4, <1>7
  <2>2. Best(m, m)
    BY <1>4, <2>1
  <2> QED BY <1>4, <2>2
<1>8. CASE cands \intersect (1..(m - 1)) # {}
  <2>1. PICK b \in 1..(m - 1) : Best(m - 1, b)
    BY <1>4, <1>5, <1>8
  <2>2. CASE m \in cands /\ h(m) > h(b)
    <3>1. Best(m, m)
      <4>1. ASSUME NEW j \in cands \intersect (1..m), j # m
            PROVE  h(m) > h(j)
        <5>1. j \in cands \intersect (1..(m - 1))
          BY <4>1, <1>4
        <5>2. h(b) > h(j) \/ h(b) = h(j)
          BY <2>1, <5>1
        <5> QED BY <2>2, <5>1, <5>2, <1>4, <1>6
      <4> QED BY <2>2, <4>1, <1>4, <1>6
    <3> QED BY <3>1, <1>4
  <2>3. CASE ~(m \in cands /\ h(m) > h(b))
    <3>1. Best(m, b)
      <4>1. ASSUME NEW j \in cands \intersect (1..m)
            PROVE  h(b) > h(j) \/ (h(b) = h(j) /\ b <= j)
        <5>1. CASE j = m
          BY <5>1, <2>3, <1>4, <1>6
        <5>2. CASE j # m
          BY <5>2, <2>1, <1>4
        <5> QED BY <5>1, <5>2
      <4> QED BY <4>1, <2>1, <1>4
    <3> QED BY <3>1, <1>4
  <2> QED BY <2>2, <2>3
<1> QED BY <1>7, <1>8

\* What a reservation relies on: a placement names a candidate that no other
\* candidate beats, with an offset that the snapshot shows free, and there is
\* one whenever there is a candidate.
THEOREM PickHostIsBest ==
  ASSUME NEW names, NEW cfg,
         cfg.hosts \in Seq([name : names, docker : BOOLEAN, max_slots : Int]),
         cfg.max_slots_per_host \in Int, cfg.max_port_offsets \in Int,
         NEW active \in [names -> Int], NEW metrics, NEW used, NEW hint,
         NEW p, p = PickHost(cfg, metrics, active, used, hint)
  PROVE  LET cands == Candidates(cfg, metrics, active, used, hint)
         IN  /\ ~p.found => p = NoPlacement /\ cands = {}
             /\ p.found =>
                  /\ p.index \in cands
                  /\ \A j \in cands : Preferred(cfg, active, p.index, j)
                  /\ p.offset \in 0..(cfg.max_port_offsets - 1)
                  /\ p.offset \notin used[cfg.hosts[p.index].name]
<1> DEFINE cands == Candidates(cfg, metrics, active, used, hint)
           best  == CHOOSE i \in cands :
                      \A j \in cands : Preferred(cfg, active, i, j)
           o == LowestFreeOffset(used[cfg.hosts[best].name],
                                 cfg.max_port_offsets)
<1>1. p = IF cands = {} THEN NoPlacement
          ELSE [found |-> TRUE, index |-> best, offset |-> o]
  BY DEF PickHost
<1>2. CASE cands = {}
  BY <1>1, <1>2 DEF NoPlacement
<1>3. CASE cands # {}
  <2>1. cands \subseteq 1..Len(cfg.hosts) /\ Len(cfg.hosts) \in Nat
    BY DEF Candidates
  <2>2. \A i \in 1..Len(cfg.hosts) : Headroom(cfg, active, i) \in Int
    <3> TAKE i \in 1..Len(cfg.hosts)
    <3> DEFINE Entry == [name : names, docker : BOOLEAN, max_slots : Int]
               list  == cfg.hosts
    <3>1. list[i] \in Entry
      <4>1. list \in Seq(Entry) /\ i \in 1..Len(list)
        OBVIOUS
      <4> HIDE DEF Entry, list
      <4> QED BY <4>1
    <3> QED BY <3>1 DEF Headroom, MaxSlots
  <2>3. \E i \in cands : \A j \in cands : Preferred(cfg, active, i, j)
    <3> HIDE DEF cands
    <3> QED BY <1>3, <2>1, <2>2, BestCandidateExists
  <2>4. best \in cands /\ \A j \in cands : Preferred(cfg, active, best, j)
    <3> HIDE DEF cands
    <3> QED BY <2>3
  <2>5. IsCandidate(cfg, metrics, active, used, hint, best)
    BY <2>4 DEF Candidates
  <2>6. o # NoOffset
    <3> HIDE DEF best
    <3> QED BY <2>5 DEF IsCandidate
  <2>7. o \in 0..(cfg.max_port_offsets - 1) /\ o \notin used[cfg.hosts[best].name]
    <3> HIDE DEF best
    <3> QED BY <2>6, LowestFreeOffsetIsFree
  <2> HIDE DEF cands, best, o
  <2>8. p = [found |-> TRUE, index |-> best, offset |-> o]
    BY <1>1, <1>3
  <2> QED BY <2>4, <2>7, <2>8 DEF cands, o
<1> QED BY <1>2, <1>3
=============================================================================
