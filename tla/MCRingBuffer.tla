---------------------------- MODULE MCRingBuffer ----------------------------
(* TLC instance of RingBuffer: see MCRingBuffer.cfg for the bounds. *)
EXTENDS RingBuffer
=============================================================================
