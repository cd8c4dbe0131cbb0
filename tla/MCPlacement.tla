----------------------------- MODULE MCPlacement -----------------------------
(* Every input of pick_host over two hosts and samples around the thresholds. *)
EXTENDS PlacementLoop

CONSTANTS h1, h2

Entries(h) ==
  {[name |-> h], [name |-> h, docker |-> TRUE], [name |-> h, docker |-> FALSE, max_slots |-> 2],
   [name |-> h, docker |-> TRUE, max_slots |-> 2]}

Policies == {[max_slots_per_host |-> 1, max_port_offsets |-> 2], [max_slots_per_host |-> 1]}

\* With a policy, and without one.
Files ==
  {[hosts |-> <<a, b>>, slot_policy |-> p] :
     a \in Entries(h1), b \in Entries(h2), p \in Policies}
  \union {[hosts |-> <<a, b>>] : a \in Entries(h1), b \in Entries(h2)}

Below   == [online |-> TRUE, cpu |-> CPU_THRESHOLD - 1, mem |-> MEM_THRESHOLD - 1]
HighCpu == [Below EXCEPT !.cpu = CPU_THRESHOLD]
HighMem == [Below EXCEPT !.mem = MEM_THRESHOLD]
Down    == [Below EXCEPT !.online = FALSE]

AllInputs ==
  [raw : Files, metrics : [{h1, h2} -> {Below, HighCpu, HighMem, Down}],
   active : [{h1, h2} -> 0..2], used : [{h1, h2} -> SUBSET {0, 1}],
   hint : {NoHint, h1}]
=============================================================================
