-------------------------------- MODULE Wire --------------------------------
(***************************************************************************)
(* One connection of internal/ipc/txpool_client.go, byte by byte: frames   *)
(* of a big-endian length and that many bytes, the snapshot and vectors of *)
(* events towards the sidecar (readEvents), requests towards the txpool    *)
(* (SendTxWithPriorityRLP).  EventStream takes a message for one step that *)
(* decodes or does not; this module is about what decoding yields and      *)
(* where in the bytes the reader stands after it.                          *)
(*                                                                         *)
(* The txpool is external: it writes the messages of a script and unpacks  *)
(* what arrives.                                                           *)
(***************************************************************************)
EXTENDS Bincode, Rlp

CONSTANTS
    HeaderWidth,  \* bytes of a frame's length (4)
    Scripts       \* bound: what either side sends in a behaviour

(* What a frame holds has a length that RLP can write (four bytes, eight). *)
ASSUME HeaderWidthAssumption ==
    HeaderWidth \in Nat \ {0} /\ HeaderWidth <= LengthBytes

(* The lengths 32 and 20 fit the prefixes in front of hash and address.    *)
ASSUME PrefixesAssumption ==
    HashWidth < Power[LenWidth] /\ AddressWidth < Power[LenWidth]

-----------------------------------------------------------------------------
(* What the txpool writes.                                                 *)

HashPrefix == Word(HashWidth, LenWidth)

(* The fields of an event behind its variant.  The reason of a drop may    *)
(* hold a nested enum or the hash of the replacement.                      *)
ReasonFields(reason) ==
    Word(reason, TagWidth) \o
    (IF reason \in NestedReasons THEN Word(1, TagWidth)
     ELSE IF reason = ReplacedByHigherPriority THEN HashPrefix \o Word(0, HashWidth)
     ELSE <<>>)

Fields(e) ==
    CASE e.action = "insert" -> Word(AddressWidth, LenWidth) \o Word(0, AddressWidth)
                                \o <<1>> \o Word(Len(e.tx), LenWidth) \o e.tx
      [] e.action = "drop"   -> ReasonFields(e.reason)
      [] e.action = "evict"  -> Word(e.reason, TagWidth)
      [] OTHER               -> <<>>

Variant(e) ==
    CASE e.action = "insert" -> 0 [] e.action = "commit" -> 1
      [] e.action = "drop"   -> 2 [] e.action = "evict"  -> 3
      [] OTHER               -> 4

EncodeEvent(e) ==
    HashPrefix \o e.hash \o Word(Variant(e), TagWidth) \o Fields(e)

(* A vector and a snapshot, from a txpool whose last event or hash is some *)
(* bytes shorter than the sidecar expects.                                 *)
EncodeVector(m) ==
    LET bytes == Word(Len(m.events), LenWidth) \o FlattenSeq(
                   [i \in 1..Len(m.events) |-> EncodeEvent(m.events[i])])
    IN SubSeq(bytes, 1, Len(bytes) - m.missing)

EncodeSnapshot(m) ==
    Word(m.hashes, LenWidth) \o Word(0, m.hashes * HashWidth - m.missing)

Frame(data) == BigEndian(Len(data), HeaderWidth) \o data

Frames(script) ==
    <<Frame(EncodeSnapshot(script.snapshot))>> \o
    [i \in 1..Len(script.vectors) |-> Frame(EncodeVector(script.vectors[i]))]

(* What a decoder makes of an event that it understands, and of a vector.  *)
Understood(e) ==
    /\ e.action # "newer"
    /\ e.action = "insert" => e.tx \in Transactions

Meant(e) ==
    [hash |-> e.hash, action |-> e.action,
     tx |-> IF e.action = "insert" THEN e.tx ELSE <<>>]

Intact(m) ==
    /\ m.missing = 0
    /\ \A i \in 1..Len(m.events) : Understood(m.events[i])

Meaning(m) ==
    IF Intact(m) THEN [i \in 1..Len(m.events) |-> Meant(m.events[i])] ELSE <<>>

(* Every length and every reason fits the field that is to hold it, and    *)
(* only bytes of the last event or hash are missing.                       *)
Event == [hash : [1..HashWidth -> Byte], tx : Seq(Byte), reason : Nat,
          action : {"insert", "commit", "drop", "evict", "newer"}]

EventFits(e) == e.reason < Power[TagWidth] /\ Len(e.tx) < Power[LenWidth]

VectorFits(m) ==
    /\ Len(m.events) < Power[LenWidth]
    /\ \A i \in 1..Len(m.events) : EventFits(m.events[i])
    /\ m.missing <= IF m.events = <<>> THEN LenWidth ELSE Len(EncodeEvent(Last(m.events)))
    /\ Len(EncodeVector(m)) < Power[HeaderWidth]

SnapshotFits(m) ==
    /\ m.missing <= m.hashes * HashWidth
    /\ Len(EncodeSnapshot(m)) < Power[HeaderWidth]

(* A request's transaction is one item of RLP, a list or, when it is of a  *)
(* later type, a string, as it came from the txpool.                       *)
IsItem(bytes) ==
    \E mark \in {StringMark, ListMark}, n \in 0..Len(bytes) :
        bytes = Header(mark, n) \o SubSeq(bytes, Len(bytes) - n + 1, Len(bytes))

RequestFits(r) ==
    IsItem(r.tx) /\ Len(EncodeRLP(r.tx, r.priority, r.extra)) < Power[HeaderWidth]

(* The messages and requests of every script are of these kinds and fit.   *)
ASSUME MessagesAssumption ==
    \A s \in Scripts :
      /\ s.snapshot \in [hashes : Nat, missing : Nat] /\ SnapshotFits(s.snapshot)
      /\ s.vectors \in Seq([events : Seq(Event), missing : Nat])
      /\ \A i \in 1..Len(s.vectors) : VectorFits(s.vectors[i])
      /\ s.requests \in Seq([tx : Seq(Byte), priority : Nat, extra : Seq(Byte)])
      /\ \A i \in 1..Len(s.requests) : RequestFits(s.requests[i])

-----------------------------------------------------------------------------
VARIABLES
    script,     \* what is sent
    inbound,    \* bytes on their way to the sidecar
    reader,     \* where readEvents is, and its locals
    delivered,  \* events handed on, in order
    sender,     \* where SendTxWithPriorityRLP is, and the next request
    outbound,   \* bytes written and not yet read by the txpool
    accepted,   \* what the txpool has unpacked, in order
    frames      \* history: frames read to the end

vars == <<script, inbound, reader, delivered, sender, outbound, accepted, frames>>

Reading(at) == [at |-> at, need |-> 0, data |-> <<>>, offset |-> 0, left |-> 0,
                events |-> <<>>]

(* The reader between two messages.                                        *)
Between == [Reading("length") EXCEPT !.need = HeaderWidth]

Init ==
    /\ script \in Scripts
    /\ inbound = FlattenSeq(Frames(script))
    /\ frames = 0
    /\ reader = Between
    /\ delivered = <<>>
    /\ sender = [at |-> "idle", next |-> 1]
    /\ outbound = <<>>
    /\ accepted = <<>>

(* io.ReadFull and binary.Read: all the bytes asked for, or an error when  *)
(* the connection ends before them, as it may anywhere.                    *)
Available == Len(inbound) >= reader.need
Chunk == SubSeq(inbound, 1, reader.need)
Rest == SubSeq(inbound, reader.need + 1, Len(inbound))

ReadEnds ==
    /\ reader.at \in {"length", "data"}
    /\ reader' = Reading("ended")
    /\ UNCHANGED <<script, inbound, delivered, sender, outbound, accepted, frames>>

ReadLength ==
    /\ reader.at = "length" /\ Available
    /\ reader' = [Reading("data") EXCEPT !.need = BigEndianNumber(Chunk)]
    /\ inbound' = Rest
    /\ UNCHANGED <<script, delivered, sender, outbound, accepted, frames>>

(* The data of the first message go to readSnapshot, which fails or        *)
(* changes nothing; those of the others to DecodeEthTxPoolEvents.          *)
ReadData ==
    /\ reader.at = "data" /\ Available
    /\ inbound' = Rest
    /\ frames' = frames + 1
    /\ reader' = IF frames > 0 THEN [Reading("vector") EXCEPT !.data = Chunk]
                 ELSE IF DecodeEthTxPoolSnapshot(Chunk) THEN Between
                 ELSE Reading("ended")
    /\ UNCHANGED <<script, delivered, sender, outbound, accepted>>

DecodeCount ==
    /\ reader.at = "vector"
    /\ reader' = IF Short(reader.data, 0, LenWidth) THEN Between
                 ELSE [reader EXCEPT !.at = "event", !.offset = LenWidth,
                         !.left = Number(Field(reader.data, 0, LenWidth))]
    /\ UNCHANGED <<script, inbound, delivered, sender, outbound, accepted, frames>>

(* Mutant: hands on what it has decoded when the next event fails.         *)
DecodeEventPartial ==
    /\ reader.at = "event" /\ reader.left > 0
    /\ LET r == decodeEthTxPoolEvent(reader.data, reader.offset) IN
       reader' = CASE r.outcome = "ok" ->
                        [reader EXCEPT !.offset = r.next, !.left = @ - 1,
                                       !.events = Append(@, r.event)]
                   [] r.outcome = "error" -> [reader EXCEPT !.left = 0]
                   [] r.outcome = "panic" -> Reading("panicked")
    /\ UNCHANGED <<script, inbound, delivered, sender, outbound, accepted, frames>>

(* One turn of the loop; an event that fails gives up the whole message.   *)
DecodeEvent ==
    /\ reader.at = "event" /\ reader.left > 0
    /\ LET r == decodeEthTxPoolEvent(reader.data, reader.offset) IN
       reader' = CASE r.outcome = "ok" ->
                        [reader EXCEPT !.offset = r.next, !.left = @ - 1,
                                       !.events = Append(@, r.event)]
                   [] r.outcome = "error" -> Between
                   [] r.outcome = "panic" -> Reading("panicked")
    /\ UNCHANGED <<script, inbound, delivered, sender, outbound, accepted, frames>>

Deliver ==
    /\ reader.at = "event" /\ reader.left = 0
    /\ delivered' = delivered \o reader.events
    /\ reader' = Between
    /\ UNCHANGED <<script, inbound, sender, outbound, accepted, frames>>

readEvents ==
    ReadEnds \/ ReadLength \/ ReadData \/ DecodeCount \/ DecodeEvent \/ Deliver

-----------------------------------------------------------------------------
(* SendTxWithPriorityRLP, which the processor calls with one request at a  *)
(* time.  A write that fails may have written a part; its connection is    *)
(* never written to again (WritesToInstalled of TxPoolClient).             *)

Request == script.requests[sender.next]
Encoded == EncodeRLP(Request.tx, Request.priority, Request.extra)

Writes(bytes, at, next) ==
    \/ /\ outbound' = outbound \o bytes
       /\ sender' = [at |-> at, next |-> next]
    \/ /\ \E n \in 0..(Len(bytes) - 1) : outbound' = outbound \o SubSeq(bytes, 1, n)
       /\ sender' = [sender EXCEPT !.at = "failed"]

WriteLength ==
    /\ sender.at = "idle" /\ sender.next <= Len(script.requests)
    /\ Writes(BigEndian(Len(Encoded), HeaderWidth), "data", sender.next)
    /\ UNCHANGED <<script, inbound, reader, delivered, accepted, frames>>

WriteData ==
    /\ sender.at = "data"
    /\ Writes(Encoded, "idle", sender.next + 1)
    /\ UNCHANGED <<script, inbound, reader, delivered, accepted, frames>>

SendTxWithPriorityRLP == WriteLength \/ WriteData

(* The txpool takes a frame when all of it has come.                       *)
PeerReads ==
    LET size == BigEndianNumber(Field(outbound, 0, HeaderWidth)) IN
    /\ ~Short(outbound, 0, HeaderWidth) /\ ~Short(outbound, HeaderWidth, size)
    /\ accepted' = Append(accepted, Unpack(Field(outbound, HeaderWidth, size)))
    /\ outbound' = SubSeq(outbound, HeaderWidth + size + 1, Len(outbound))
    /\ UNCHANGED <<script, inbound, reader, delivered, sender, frames>>

Next == readEvents \/ SendTxWithPriorityRLP \/ PeerReads

Spec == Init /\ [][Next]_vars

-----------------------------------------------------------------------------
(* Types; the decoder's offset stays within the message, so that no slice  *)
(* expression is taken past its end.                                       *)
TypeOK ==
    /\ script \in Scripts
    /\ inbound \in Seq(0..(Base - 1)) /\ outbound \in Seq(0..(Base - 1))
    /\ reader.at \in {"length", "data", "vector", "event", "ended", "panicked"}
    /\ reader.need \in Nat /\ reader.left \in Nat
    /\ reader.data \in Seq(0..(Base - 1))
    /\ reader.offset \in 0..Len(reader.data)
    /\ sender.at \in {"idle", "data", "failed"}
    /\ sender.next \in 1..(Len(script.requests) + 1)

(* How many messages have been read and dealt with.                        *)
Settled ==
    frames - (IF reader.at \in {"vector", "event", "panicked"} THEN 1 ELSE 0)

(* The reader stays in step with the stream: after any number of frames    *)
(* what it has delivered is what the txpool meant by those it understands, *)
(* event for event, and nothing of the others.  A message that is short    *)
(* or holds a newer event costs itself and no neighbour.                   *)
DeliversWhatWasMeant ==
    delivered = FlattenSeq([i \in 1..(IF Settled = 0 THEN 0 ELSE Settled - 1) |->
                              Meaning(script.vectors[i])])

(* Of messages whose counts are honest, as those of the scripts are, there *)
(* is one way to a panic: the hash of the replacement, last in a message,  *)
(* so short that its length is not all there.  Whatever else is missing,   *)
(* from a message of any kind, is an error.                                *)
PanicsOnlyAtReplacement ==
    reader.at = "panicked" =>
        LET m == script.vectors[frames - 1]
            e == Last(m.events)
        IN /\ e.action = "drop" /\ e.reason = ReplacedByHigherPriority
           /\ m.missing \in (HashWidth + 1)..(HashWidth + LenWidth)

(* The txpool unpacks exactly the requests that were sent, whole and in    *)
(* order, each byte of a frame in one of its items; after a failed write   *)
(* it never takes the part that came through for a request.                *)
RequestsReadBack ==
    /\ Len(accepted) <= sender.next - 1
    /\ \A i \in 1..Len(accepted) :
         /\ accepted[i].whole
         /\ accepted[i].tx = script.requests[i].tx
         /\ accepted[i].priority = script.requests[i].priority
         /\ accepted[i].extra = script.requests[i].extra
=============================================================================
