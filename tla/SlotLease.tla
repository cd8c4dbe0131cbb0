----------------------------- MODULE SlotLease -----------------------------
(***************************************************************************)
(* What the slot API promises its callers, without clocks, rows, locks or   *)
(* handlers: a lease is a (host, port offset) pair held under an id, a      *)
(* lease is only granted on a pair that nobody holds, and it ends by        *)
(* release or expiry, possibly several at once.  SlotRegistry is shown to   *)
(* implement this module as long as no heartbeat is applied after expiry.   *)
(***************************************************************************)
CONSTANTS Ids, Hosts, Offsets, NoLease

VARIABLE leases

Held(id) == leases[id] # NoLease

PairIsFree(h, o) ==
  \A id \in Ids : Held(id) => leases[id] # [host |-> h, offset |-> o]

Init == leases = [id \in Ids |-> NoLease]

Grant(id, h, o) ==
  /\ ~Held(id)
  /\ PairIsFree(h, o)
  /\ leases' = [leases EXCEPT ![id] = [host |-> h, offset |-> o]]

End(ended) ==
  /\ leases' = [id \in Ids |-> IF id \in ended THEN NoLease ELSE leases[id]]

Next ==
  \/ \E ended \in SUBSET Ids : End(ended)
  \/ \E id \in Ids, h \in Hosts, o \in Offsets : Grant(id, h, o)

Spec == Init /\ [][Next]_leases
=============================================================================
