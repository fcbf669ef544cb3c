---------------------------- MODULE MCStreamTable ----------------------------
(* TLC instances of StreamTable: 16 bits are the 2 bits of SerialMod = 4,  *)
(* and the second that select waits is two ticks.                          *)
EXTENDS StreamTable
=============================================================================
