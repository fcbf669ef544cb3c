------------------------------ MODULE MCTxClock ------------------------------
(* TLC instances of TxClock: see the .cfg files for the bounds.  A second   *)
(* has two callbacks, a day four seconds.  Neither the transmitters nor     *)
(* their destinations differ in anything.                                   *)
EXTENDS TxClock, TLC

Symmetry == Permutations(Senders) \cup Permutations(Dests)
=============================================================================
