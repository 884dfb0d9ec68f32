------------------------------- MODULE Filter -------------------------------
(***************************************************************************)
(* internal/processor/filter.go: which transactions are fastlane bids.     *)
(*                                                                         *)
(* A transaction is looked at through what the filter reads of it, a call  *)
(* record:                                                                 *)
(*   toContract  To() is the fastlane contract;                            *)
(*   flashSig    at least four bytes of data, and they are the selector of *)
(*               flashExecutionBid;                                        *)
(*   decodes     the ABI decoder accepts the arguments;                    *)
(*   bidAmount   the first argument;                                       *)
(*   txHashes    the second argument, a sequence of hashes.                *)
(***************************************************************************)
EXTENDS Naturals, Sequences

CONSTANTS
    Hashes,     \* the transaction hashes, and the names of transactions
    ZeroHash,   \* common.Hash{}, the terminator of txHashes
    NoTarget    \* TargetTxHash = nil

TxTypes == {"TOBBid", "BackrunBid", "NormalTransaction"}

Call == [toContract : BOOLEAN, flashSig : BOOLEAN, decodes : BOOLEAN,
         bidAmount : Nat, txHashes : Seq(Hashes \cup {ZeroHash})]

Classification == [type : TxTypes, target : Hashes \cup {ZeroHash, NoTarget}]

Normal == [type |-> "NormalTransaction", target |-> NoTarget]

(* One hash, the zero hash, is a top-of-block bid; a hash and the zero     *)
(* hash is a bid behind that transaction; everything else is not a bid.    *)
classifyFlashExecutionBid(call) ==
    LET n == Len(call.txHashes) IN
    IF call.decodes /\ n \in 1..2 /\ call.txHashes[n] = ZeroHash
    THEN IF n = 1
         THEN [type |-> "TOBBid", target |-> NoTarget]
         ELSE [type |-> "BackrunBid", target |-> call.txHashes[1]]
    ELSE Normal

ClassifyTransaction(call) ==
    IF call.toContract /\ call.flashSig
    THEN classifyFlashExecutionBid(call)
    ELSE Normal
=============================================================================
