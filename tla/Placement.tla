----------------------------- MODULE Placement -----------------------------
(***************************************************************************)
(* The placement rule of server/placement.py as operators: which hosts of   *)
(* a configuration may take one more slot, and which of them pick_host       *)
(* returns.  A configuration is                                             *)
(*   [hosts |-> sequence of [name, docker, max_slots],                      *)
(*    max_slots_per_host, max_port_offsets]                                 *)
(* and a metrics sample is [online, cpu, mem], the part of a metrics row    *)
(* that the rule reads.  PlacementLoop checks the loop of the source        *)
(* against these operators; SlotRegistry uses them inside a reservation.    *)
(***************************************************************************)
EXTENDS Integers, FiniteSets, Sequences

CPU_THRESHOLD == 80
MEM_THRESHOLD == 85

\* The hint of a request that names no host, and the offset of "none free".
CONSTANT NoHint
NoOffset == -1

\* (None, -1, detail): pick_host found no candidate.
NoPlacement == [found |-> FALSE, index |-> 0, offset |-> NoOffset]

\* Mutated form of LowestFreeOffset: one past the highest offset in use.
NextOffset(used, max_offsets) ==
  IF used = {} THEN 0 ELSE 1 + CHOOSE i \in used : \A j \in used : j <= i

\* The lowest offset below max_offsets that is not in use.
LowestFreeOffset(used, max_offsets) ==
  LET free == {i \in 0..(max_offsets - 1) : i \notin used}
  IN  IF free = {} THEN NoOffset
      ELSE CHOOSE i \in free : \A j \in free : i <= j

\* A host entry without a positive max_slots takes the policy's default.
MaxSlots(cfg, h) ==
  IF h.max_slots > 0 THEN h.max_slots ELSE cfg.max_slots_per_host

Overloaded(m) == m.cpu >= CPU_THRESHOLD \/ m.mem >= MEM_THRESHOLD

\* Mutated form of FreeSlots: a host entry without max_slots has none.
FreeSlotsOfEntry(cfg, metrics, active, i) ==
  LET h    == cfg.hosts[i]
      free == h.max_slots - active[h.name]
  IN  IF h.docker /\ metrics[h.name].online /\ free > 0 THEN free ELSE 0

\* free_slots of GET /api/capabilities for entry i: computed by the server, apart
\* from the rule below and without its thresholds, hint and offsets.
FreeSlots(cfg, metrics, active, i) ==
  LET h    == cfg.hosts[i]
      free == MaxSlots(cfg, h) - active[h.name]
  IN  IF h.docker /\ metrics[h.name].online /\ free > 0 THEN free ELSE 0

\* Mutated form of IsCandidate: the capacity check is off by one.
IsCandidateAtCapacity(cfg, metrics, active, used, hint, i) ==
  LET h == cfg.hosts[i]
  IN  /\ h.docker
      /\ metrics[h.name].online
      /\ active[h.name] <= MaxSlots(cfg, h)
      /\ ~Overloaded(metrics[h.name])
      /\ hint \in {NoHint, h.name}
      /\ LowestFreeOffset(used[h.name], cfg.max_port_offsets) # NoOffset

\* Entry i of the configuration passes every filter of the loop body.
IsCandidate(cfg, metrics, active, used, hint, i) ==
  LET h == cfg.hosts[i]
  IN  /\ h.docker
      /\ metrics[h.name].online
      /\ active[h.name] < MaxSlots(cfg, h)
      /\ ~Overloaded(metrics[h.name])
      /\ hint \in {NoHint, h.name}
      /\ LowestFreeOffset(used[h.name], cfg.max_port_offsets) # NoOffset

Candidates(cfg, metrics, active, used, hint) ==
  {i \in DOMAIN cfg.hosts : IsCandidate(cfg, metrics, active, used, hint, i)}

Headroom(cfg, active, i) ==
  MaxSlots(cfg, cfg.hosts[i]) - active[cfg.hosts[i].name]

\* Most headroom first; the sort is stable, so ties go to the earlier entry.
Preferred(cfg, active, i, j) ==
  \/ Headroom(cfg, active, i) > Headroom(cfg, active, j)
  \/ Headroom(cfg, active, i) = Headroom(cfg, active, j) /\ i <= j

PickHost(cfg, metrics, active, used, hint) ==
  LET cands == Candidates(cfg, metrics, active, used, hint)
      best  == CHOOSE i \in cands :
                 \A j \in cands : Preferred(cfg, active, i, j)
  IN  IF cands = {} THEN NoPlacement
      ELSE [found  |-> TRUE,
            index  |-> best,
            offset |-> LowestFreeOffset(used[cfg.hosts[best].name],
                                        cfg.max_port_offsets)]
=============================================================================
