----------------------------- MODULE MCSlotRing -----------------------------
(* TLC instance of SlotRing: see MCSlotRing.cfg for the bounds. *)
EXTENDS SlotRing
=============================================================================
