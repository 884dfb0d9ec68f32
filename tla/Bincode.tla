------------------------------ MODULE Bincode ------------------------------
(***************************************************************************)
(* internal/ipc/txpool_types.go: the decoders of the txpool's messages,    *)
(* over bytes 0..Base-1 and with the widths of the fields as parameters.   *)
(* Every field a decoder skips is skipped here; of those it keeps, the     *)
(* address, the owner and the reasons are read by nobody and left out.     *)
(* Whether go-ethereum takes the bytes of a transaction is external.       *)
(* Lengths are below half of their range, so that int(length) is the same  *)
(* number.                                                                 *)
(***************************************************************************)
EXTENDS Bytes

CONSTANTS
    LenWidth,      \* bytes of a length (8)
    TagWidth,      \* bytes of an enum variant (4)
    HashWidth,     \* bytes of a hash (32)
    AddressWidth,  \* bytes of an address (20)
    Transactions   \* byte strings that decode as a transaction

ASSUME WidthsAssumption ==
    {LenWidth, TagWidth, HashWidth, AddressWidth} \subseteq Nat \ {0}

-----------------------------------------------------------------------------
(* What a decoder of part of a message comes to: the event decoded and the *)
(* offset behind it, an error, or a panic of the process.                  *)
NoEvent == [hash |-> <<>>, action |-> "none", tx |-> <<>>]
Error == [outcome |-> "error", event |-> NoEvent, next |-> 0]
Panic == [Error EXCEPT !.outcome = "panic"]
Done(action, tx, next) ==
    [outcome |-> "ok", next |-> next,
     event |-> [NoEvent EXCEPT !.action = action, !.tx = tx]]

(* Insert: address, owned, transaction.                                    *)
decodeInsert(data, offset) ==
    LET owned == offset + LenWidth + AddressWidth
        bytes == owned + 1 + LenWidth
        size == Number(Field(data, owned + 1, LenWidth))
        tx == Field(data, bytes, size)
    IN IF \/ Short(data, offset, LenWidth + AddressWidth + 1 + LenWidth)
          \/ Number(Field(data, offset, LenWidth)) # AddressWidth
          \/ Short(data, bytes, size)
          \/ tx \notin Transactions
       THEN Error ELSE Done("insert", tx, bytes + size)

(* Mutant: skips the hash without asking for its bytes.                    *)
skipReplacementUnchecked(data, offset) ==
    IF Short(data, offset, LenWidth) THEN Panic
    ELSE IF Number(Field(data, offset, LenWidth)) # HashWidth THEN Error
    ELSE Done("drop", <<>>, offset + LenWidth + HashWidth)

(* ReplacedByHigherPriority: the one field that is read without a check    *)
(* that its bytes are there.                                               *)
skipReplacement(data, offset) ==
    IF Short(data, offset, LenWidth) THEN Panic
    ELSE IF \/ Number(Field(data, offset, LenWidth)) # HashWidth
            \/ Short(data, offset + LenWidth, HashWidth)
    THEN Error ELSE Done("drop", <<>>, offset + LenWidth + HashWidth)

(* NotWellFormed and Internal hold an enum of their own.                   *)
NestedReasons == {0, 9}
ReplacedByHigherPriority == 6

decodeDrop(data, offset) ==
    LET next == offset + TagWidth
        reason == Number(Field(data, offset, TagWidth))
    IN IF Short(data, offset, TagWidth) THEN Error
       ELSE IF reason = ReplacedByHigherPriority THEN skipReplacement(data, next)
       ELSE IF reason \notin NestedReasons THEN Done("drop", <<>>, next)
       ELSE IF Short(data, next, TagWidth) THEN Error
       ELSE Done("drop", <<>>, next + TagWidth)

(* Mutant: reads the reason of an eviction without asking for its bytes.   *)
decodeEvictUnchecked(data, offset) ==
    IF Short(data, offset, TagWidth) THEN Panic
    ELSE Done("evict", <<>>, offset + TagWidth)

decodeEvict(data, offset) ==
    IF Short(data, offset, TagWidth) THEN Error
    ELSE Done("evict", <<>>, offset + TagWidth)

(* EthTxPoolEventType(variantIndex) keeps the low byte of the variant.     *)
decodeEventAction(data, offset) ==
    LET next == offset + TagWidth
        variant == Number(Field(data, offset, TagWidth)) % Base
    IN IF Short(data, offset, TagWidth) THEN Error
       ELSE CASE variant = 0 -> decodeInsert(data, next)
              [] variant = 1 -> Done("commit", <<>>, next)
              [] variant = 2 -> decodeDrop(data, next)
              [] variant = 3 -> decodeEvict(data, next)
              [] OTHER       -> Error

decodeEthTxPoolEvent(data, offset) ==
    LET hash == offset + LenWidth
        action == decodeEventAction(data, hash + HashWidth)
    IN IF \/ Short(data, offset, LenWidth)
          \/ Number(Field(data, offset, LenWidth)) # HashWidth
          \/ Short(data, hash, HashWidth)
       THEN Error
       ELSE IF action.outcome # "ok" THEN action
       ELSE [action EXCEPT !.event.hash = Field(data, hash, HashWidth)]

(* Its hashes, without length prefixes, are only counted.                  *)
DecodeEthTxPoolSnapshot(data) ==
    /\ ~Short(data, 0, LenWidth)
    /\ ~Short(data, LenWidth, HashWidth * Number(Field(data, 0, LenWidth)))
=============================================================================
