--------------------------- MODULE MCSlotRegistry ---------------------------
(* Instances of SlotRegistry for TLC: configurations, samples and symmetry. *)
EXTENDS SlotRegistry, TLC

CONSTANTS h1, h2, Malformed

Entry(h, max_slots) == [name |-> h, docker |-> TRUE, max_slots |-> max_slots]

Policy(hosts, max_slots, offsets) ==
  [hosts |-> hosts, max_slots_per_host |-> max_slots,
   max_port_offsets |-> offsets]

\* One host with room for two slots, and more offsets than slots.
RoomForTwo == Policy(<<Entry(h1, 0)>>, 2, 3)

\* After an edit that leaves it room for one and adds a host with one slot: a failed
\* probe moves on to the other.
TwoHosts == Policy(<<Entry(h1, 1), Entry(h2, 1)>>, 4, 1)

Fit  == [online |-> TRUE, cpu |-> 10, mem |-> 10]

OneSize == {RoomForTwo}
Edited  == {RoomForTwo, TwoHosts}

TwoSamples == {Offline, Fit}

Symmetry == Permutations(SlotIds) \union Permutations(Reservers)
=============================================================================
