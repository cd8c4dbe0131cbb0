--------------------------- MODULE PlacementLoop ---------------------------
(***************************************************************************)
(* pick_host of server/placement.py statement by statement: the loop over   *)
(* the hosts of a configuration file with its `continue`s, the inner search *)
(* for a free offset, the stable sort and the first element.  Placement     *)
(* says in one expression what it must return; the two are compared on      *)
(* every input.                                                             *)
(***************************************************************************)
EXTENDS Placement, ServerConfig

CONSTANT Inputs  \* records [raw, metrics, active, used, hint], raw the configuration file

\* The loader's form of a configuration, and a number of active slots for every
\* host that it names.
ASSUME InputsAssumption ==
  \A x \in Inputs :
    LET c == LoadServerConfig(x.raw)
    IN  /\ c.hosts \in Seq([name : DOMAIN x.active, docker : BOOLEAN, max_slots : Int])
        /\ c.max_slots_per_host \in Int /\ c.max_port_offsets \in Int
        /\ x.active \in [DOMAIN x.active -> Int]

VARIABLES
  in,          \* the arguments, and the file that cfg is loaded from
  i,           \* the host entry under consideration
  offset,      \* the candidate offset of the inner loop, or NoOffset outside
  candidates,  \* the list, in the order of the configuration
  result       \* NoPlacement until the function returns

vars == <<in, i, offset, candidates, result>>

Unfinished == [found |-> FALSE, index |-> -1, offset |-> NoOffset]

cfg == LoadServerConfig(in.raw)

Init ==
  /\ in \in Inputs
  /\ i = 1
  /\ offset = NoOffset
  /\ candidates = <<>>
  /\ result = Unfinished

host == cfg.hosts[i]
sample == in.metrics[host.name]
capacity == IF host.max_slots > 0 THEN host.max_slots ELSE cfg.max_slots_per_host

Filtering == i <= Len(cfg.hosts) /\ offset = NoOffset

\* Mutated form of Rejected: a host exactly at a threshold is not overloaded.
RejectedAbove ==
  \/ ~host.docker
  \/ ~sample.online
  \/ in.active[host.name] >= capacity
  \/ sample.cpu > CPU_THRESHOLD \/ sample.mem > MEM_THRESHOLD
  \/ in.hint \notin {NoHint, host.name}

Rejected ==
  \/ ~host.docker
  \/ ~sample.online
  \/ in.active[host.name] >= capacity
  \/ sample.cpu >= CPU_THRESHOLD \/ sample.mem >= MEM_THRESHOLD
  \/ in.hint \notin {NoHint, host.name}

\* One of the first five `continue`s.
Continue ==
  /\ Filtering
  /\ Rejected
  /\ i' = i + 1
  /\ UNCHANGED <<in, offset, candidates, result>>

\* _lowest_free_offset: for i in range(max_offsets).
StartSearch ==
  /\ Filtering
  /\ ~Rejected
  /\ offset' = 0
  /\ UNCHANGED <<in, i, candidates, result>>

OffsetTaken ==
  /\ offset # NoOffset
  /\ offset < cfg.max_port_offsets
  /\ offset \in in.used[host.name]
  /\ offset' = offset + 1
  /\ UNCHANGED <<in, i, candidates, result>>

\* Mutated form of NoneFree: the inner variable is not reset.
NoneFreeKeepsOffset ==
  /\ offset >= cfg.max_port_offsets
  /\ offset # NoOffset
  /\ i' = i + 1
  /\ UNCHANGED <<in, offset, candidates, result>>

\* The search returns None: the last `continue`.
NoneFree ==
  /\ offset >= cfg.max_port_offsets
  /\ offset # NoOffset
  /\ offset' = NoOffset
  /\ i' = i + 1
  /\ UNCHANGED <<in, candidates, result>>

AddCandidate ==
  /\ offset # NoOffset
  /\ offset < cfg.max_port_offsets
  /\ offset \notin in.used[host.name]
  /\ candidates' = Append(candidates,
       [headroom |-> capacity - in.active[host.name], index |-> i,
        offset |-> offset])
  /\ offset' = NoOffset
  /\ i' = i + 1
  /\ UNCHANGED <<in, result>>

\* candidates.sort(key=-headroom)[0]: Python's sort keeps equal keys in order.
SortedFirst(list) ==
  list[CHOOSE k \in DOMAIN list : \A m \in DOMAIN list :
         \/ list[k].headroom > list[m].headroom
         \/ list[k].headroom = list[m].headroom /\ k <= m]

Return ==
  /\ i > Len(cfg.hosts)
  /\ result = Unfinished
  /\ result' =
       IF candidates = <<>> THEN NoPlacement
       ELSE LET first == SortedFirst(candidates)
            IN  [found |-> TRUE, index |-> first.index, offset |-> first.offset]
  /\ UNCHANGED <<in, i, offset, candidates>>

Next ==
  Continue \/ StartSearch \/ OffsetTaken \/ NoneFree \/ AddCandidate \/ Return

Spec == Init /\ [][Next]_vars

-----------------------------------------------------------------------------
Returned == result # Unfinished

\* The list holds candidates of the part already seen, in that part's order.
TypeOK ==
  /\ in \in Inputs
  /\ i \in 1..(Len(cfg.hosts) + 1)
  /\ offset \in Int
  /\ offset # NoOffset => i <= Len(cfg.hosts)
  /\ \A k \in DOMAIN candidates : candidates[k].index < i

\* The loop returns what the placement rule says (placement.py:25-69).
ReturnsPickHost ==
  Returned => result =
    PickHost(cfg, in.metrics, in.active, in.used, in.hint)

\* A caller that asks GET /api/capabilities first is not misled: where pick_host
\* places a slot a free one is shown, and when it refuses although a host that the
\* caller accepts shows one, that host is overloaded or out of port offsets
\* (server.py:233-243, placement.py:31-58, README.md:257).
FreeSlotsMatchPlacement ==
  LET free(k) == FreeSlots(cfg, in.metrics, in.active, k)
  IN  /\ Returned /\ result.found => free(result.index) > 0
      /\ Returned /\ ~result.found =>
           \A k \in DOMAIN cfg.hosts :
             LET name == cfg.hosts[k].name
             IN  free(k) > 0 /\ in.hint \in {NoHint, name} =>
                   \/ Overloaded(in.metrics[name])
                   \/ 0..(cfg.max_port_offsets - 1) \subseteq in.used[name]
=============================================================================
