-------------------------------- MODULE Rlp --------------------------------
(***************************************************************************)
(* internal/ipc/txpool_types.go: the RLP that the sidecar writes, over     *)
(* bytes 0..Base-1.  RLP divides the values of a first byte among single   *)
(* bytes, short and long strings, short and long lists; StringMark and     *)
(* ShortLimit are 0x80 and 56 in the code, and what is left of the range   *)
(* tells lengths of up to eight bytes.                                     *)
(***************************************************************************)
EXTENDS Bytes

CONSTANTS StringMark, ShortLimit, LengthBytes

ListMark == StringMark + ShortLimit + LengthBytes

ASSUME RangeAssumption ==
    /\ {StringMark, ShortLimit, LengthBytes} \subseteq Nat \ {0}
    /\ Base = ListMark + ShortLimit + LengthBytes

-----------------------------------------------------------------------------
(* How many digits a number has; big-endian and without leading zeros is   *)
(* how encodeLength and big.Int write it.                                  *)
Digits(n) == CHOOSE k \in 1..(n + 1) : n < Power[k] /\ (k > 1 => n >= Power[k - 1])
encodeLength(n) == BigEndian(n, Digits(n))

(* Mutant: one payload too many is called short.                           *)
HeaderLate(mark, length) ==
    IF length <= ShortLimit THEN <<mark + length>>
    ELSE <<mark + ShortLimit - 1 + Digits(length)>> \o encodeLength(length)

Header(mark, length) ==
    IF length < ShortLimit THEN <<mark + length>>
    ELSE <<mark + ShortLimit - 1 + Digits(length)>> \o encodeLength(length)

encodeRLPListHeader(length) == Header(ListMark, length)

(* rlp.EncodeToBytes of a byte string and of a number.                     *)
String(bytes) ==
    IF Len(bytes) = 1 /\ bytes[1] < StringMark THEN bytes
    ELSE Header(StringMark, Len(bytes)) \o bytes

Integer(n) == IF n = 0 THEN String(<<>>) ELSE String(encodeLength(n))

(* A request: the transaction as it came, its priority, the extra data, an *)
(* empty list when there are none.                                         *)
EncodeRLP(tx, priority, extra) ==
    LET payload == tx \o Integer(priority)
                      \o (IF extra = <<>> THEN encodeRLPListHeader(0) ELSE String(extra))
    IN encodeRLPListHeader(Len(payload)) \o payload

-----------------------------------------------------------------------------
(* The reading side, which is the txpool's: where the contents of the item *)
(* at a position begin, and where the next item begins.                    *)

(* Length that a header announces behind its mark.                         *)
Announced(bytes, at, mark) ==
    IF bytes[at] - mark < ShortLimit
    THEN [from |-> at + 1, size |-> bytes[at] - mark]
    ELSE LET k == bytes[at] - mark - ShortLimit + 1
         IN [from |-> at + 1 + k,
             size |-> BigEndianNumber(SubSeq(bytes, at + 1, at + k))]

Item(bytes, at) ==
    IF at > Len(bytes) THEN [from |-> at, size |-> 0]
    ELSE IF bytes[at] < StringMark THEN [from |-> at, size |-> 1]
    ELSE IF bytes[at] < ListMark THEN Announced(bytes, at, StringMark)
    ELSE Announced(bytes, at, ListMark)

After(bytes, at) == Item(bytes, at).from + Item(bytes, at).size

(* The three items of a request; all of its bytes belong to one of them.   *)
Unpack(bytes) ==
    LET tx == Item(bytes, 1).from
        priority == After(bytes, tx)
        extra == After(bytes, priority)
        content(at) == SubSeq(bytes, Item(bytes, at).from, After(bytes, at) - 1)
    IN [tx |-> SubSeq(bytes, tx, priority - 1),
        priority |-> BigEndianNumber(content(priority)),
        extra |-> content(extra),
        whole |-> /\ After(bytes, 1) = Len(bytes) + 1
                  /\ After(bytes, extra) = Len(bytes) + 1
                  /\ extra <= Len(bytes)]
=============================================================================
