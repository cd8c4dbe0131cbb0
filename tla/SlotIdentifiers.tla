--------------------------- MODULE SlotIdentifiers ---------------------------
(* What the clients of the slot API have in common. *)

CONSTANT Slots  \* ids of _make_slot_id, each granted once at most
=============================================================================
