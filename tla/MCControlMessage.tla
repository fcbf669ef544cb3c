-------------------------- MODULE MCControlMessage --------------------------
(* TLC instance of ControlMessage: see the .cfg file for the bounds. *)
EXTENDS ControlMessage
=============================================================================
