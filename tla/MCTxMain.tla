------------------------------ MODULE MCTxMain ------------------------------
(* TLC instance of TxMain: see MCTxMain.cfg for the bounds.  The bitrates   *)
(* are in the order of Opus's own: -1000, -1, 500, 600000, and 1000 for a   *)
(* key.                                                                     *)
EXTENDS TxMain

Auto == -3
BitrateMax == -1
=============================================================================
