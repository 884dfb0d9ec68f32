--------------------------- MODULE MCTxPoolClient ---------------------------
(* Instances of TxPoolClient for TLC.  The connections are model values.   *)
EXTENDS TxPoolClient, TLC

(* Connections are interchangeable: sound for the safety runs.             *)
ConnSymmetry == Permutations(Conns)
=============================================================================
