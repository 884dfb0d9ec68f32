---------------------------- MODULE MCPriorities ----------------------------
(* A bid field of two bits, ids of one bit, hashes of three.  The amounts  *)
(* include the largest that fits, the first that does not and one that     *)
(* would reach the id field; the targets include two with the same id and  *)
(* both ends of the range.                                                 *)
EXTENDS Priorities

MCBidAmounts == {0, 1, 3, 4, 9}
MCTargets == {0, 3, 4, 7}
=============================================================================
