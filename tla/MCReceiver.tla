----------------------------- MODULE MCReceiver -----------------------------
(* TLC instance of Receiver: see MCReceiver.cfg for the bounds. *)
EXTENDS Receiver
=============================================================================
