---------------------------- MODULE MCTxDestList ----------------------------
(* TLC instances of TxDestList: see the .cfg files for the bounds. *)
EXTENDS TxDestList
=============================================================================
