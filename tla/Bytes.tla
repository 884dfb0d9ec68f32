------------------------------- MODULE Bytes -------------------------------
(***************************************************************************)
(* encoding/binary as the wire formats use it: numbers in a fixed width,   *)
(* over bytes 0..Base-1.                                                   *)
(***************************************************************************)
EXTENDS Naturals, Sequences, SequencesExt

CONSTANT Base   \* 256

ASSUME BaseAssumption == Base \in Nat \ {0, 1}

Byte == 0..(Base - 1)

(* Numbers below Power[w] fit a field of w bytes.                          *)
Power[w \in Nat] == IF w = 0 THEN 1 ELSE Base * Power[w - 1]

(* binary.LittleEndian: PutUint and Uint.                                  *)
Word(n, width) == [j \in 1..width |-> (n \div Power[j - 1]) % Base]
Number(bytes) ==
    LET value[j \in 0..Len(bytes)] ==
            IF j = 0 THEN 0 ELSE value[j - 1] + bytes[j] * Power[j - 1]
    IN value[Len(bytes)]

(* binary.BigEndian.                                                       *)
BigEndian(n, width) == Reverse(Word(n, width))
BigEndianNumber(bytes) == Number(Reverse(bytes))

Field(data, offset, width) == SubSeq(data, offset + 1, offset + width)
Short(data, offset, width) == Len(data) < offset + width
=============================================================================
