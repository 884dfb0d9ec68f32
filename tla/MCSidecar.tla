----------------------------- MODULE MCSidecar -----------------------------
(* The values the configurations give to the constants of Sidecar.         *)
EXTENDS Sidecar

CONSTANTS opp, tob, bid

MCCall(hashes) == [toContract |-> TRUE, flashSig |-> TRUE, decodes |-> TRUE,
                   bidAmount |-> 1, txHashes |-> hashes]

(* An ordinary transaction, a top-of-block bid and a bid behind opp.       *)
MCCalldata ==
    [h \in Hashes |->
       CASE h = tob -> MCCall(<<ZeroHash>>)
         [] h = bid -> MCCall(<<opp, ZeroHash>>)
         [] OTHER   -> [MCCall(<<ZeroHash>>) EXCEPT !.toContract = FALSE]]

MCEvents(actions, hashes) == [action : actions, tx : hashes]

(* An opportunity and a bid behind it, the opportunity leaving early.      *)
PairFeed == MCEvents({"insert"}, {opp, bid}) \cup MCEvents({"commit"}, {opp})

(* A top-of-block bid with everything that can happen to it.               *)
TobFeed == MCEvents({"insert", "commit", "drop", "evict"}, {tob})
=============================================================================
