------------------------- MODULE EventStreamProofs -------------------------
(***************************************************************************)
(* The event stream implements the lossy link, and accounts for every      *)
(* event, for any connections, channel capacity and message sizes.         *)
(***************************************************************************)
EXTENDS EventStream, TLAPS

(* A connection that was never opened has no reader yet.                   *)
UnusedIdle == \A k \in Conns : link[k] = "unused" => reader[k].at = "none"

(* A reader that has read a message since the cancellation will not come   *)
(* back to reading.                                                        *)
LateInv ==
    \A k \in Conns :
        /\ seen[k].late \in {0, 1}
        /\ ~cancelled => seen[k].late = 0
        /\ seen[k].late = 1 => reader[k].at \in {"push", "check", "ended"}

(* A reader holds events exactly while it pushes, all of them written.     *)
ReaderInv(k) ==
    /\ reader[k].next >= 1
    /\ reader[k].last <= written[k]
    /\ IF reader[k].at = "push" THEN reader[k].next <= reader[k].last
       ELSE reader[k].next = reader[k].last + 1

(* The messages on the wire follow it and one another without overlap.     *)
WireInv(k) ==
    /\ \A i \in 1..Len(wire[k]) :
         /\ reader[k].last < wire[k][i].first
         /\ wire[k][i].last <= written[k]
         /\ wire[k][i].first <= wire[k][i].last + 1
    /\ \A i, j \in 1..Len(wire[k]) : i < j => wire[k][i].last < wire[k][j].first

(* What the channel holds of a connection lies before the reader, in       *)
(* order, and nothing of it has been settled.                              *)
QueueInv(k) ==
    /\ \A i \in 1..Len(eventChan) : eventChan[i].conn = k =>
         /\ eventChan[i].n \in 1..(reader[k].next - 1)
         /\ \A n \in seen[k].taken : n < eventChan[i].n
         /\ eventChan[i].n \notin seen[k].dropped \cup seen[k].skipped
    /\ \A i, j \in 1..Len(eventChan) :
         i < j /\ eventChan[i].conn = k /\ eventChan[j].conn = k
            => eventChan[i].n < eventChan[j].n

SeenInv(k) ==
    /\ seen[k].taken \cup seen[k].dropped \cup seen[k].skipped \subseteq 1..(reader[k].next - 1)
    /\ seen[k].taken \cap seen[k].dropped = {}
    /\ seen[k].taken \cap seen[k].skipped = {}
    /\ seen[k].dropped \cap seen[k].skipped = {}

Covered(k) ==
    \A n \in 1..written[k] :
        n \in OnWire(k) \cup InHand(k) \cup Queued(k)
              \cup seen[k].taken \cup seen[k].dropped \cup seen[k].skipped

ConnInv(k) == ReaderInv(k) /\ WireInv(k) /\ QueueInv(k) /\ SeenInv(k) /\ Covered(k)

Flow == \A k \in Conns : ConnInv(k)

-----------------------------------------------------------------------------
LEMMA InitTypeOK == Init => TypeOK
    <1> SUFFICES ASSUME Init PROVE TypeOK
        OBVIOUS
    <1>1. link \in [Conns -> LinkStates] /\ written \in [Conns -> Nat]
        BY DEF Init, LinkStates
    <1>2. wire \in [Conns -> Seq(Message)]
        BY DEF Init
    <1>3. reader \in [Conns -> Reader]
        BY DEF Init, Reader, ReaderPC
    <1>4. eventChan \in Seq(Event) /\ Len(eventChan) <= EventCap
        BY EventCapAssumption DEF Init
    <1>5. seen \in [Conns -> History]
        BY DEF Init, History
    <1> QED
        BY <1>1, <1>2, <1>3, <1>4, <1>5 DEF Init, TypeOK, ProcessorPC

LEMMA BatchIsNat == ASSUME NEW k \in Conns PROVE Batch(k) \subseteq Nat
    BY BoundsAssumption DEF Batch

LEMMA PeerTypeOK ==
    ASSUME TypeOK, NEW k \in Conns,
           Open(k) \/ PeerWrites(k) \/ PeerCloses(k) \/ ClientCloses(k)
    PROVE  TypeOK'
    <1>1. ASSUME NEW events \in Nat, NEW decodes \in BOOLEAN, NEW whole \in BOOLEAN,
                 Write(k, events, decodes, whole)
          PROVE  wire' \in [Conns -> Seq(Message)] /\ written' \in [Conns -> Nat]
        <2>1. [first |-> written[k] + 1, last |-> written[k] + events,
               decodes |-> decodes, whole |-> whole] \in Message
            BY DEF TypeOK, Message
        <2> QED
            BY <1>1, <2>1 DEF TypeOK, Write
    <1>2. CASE Open(k)
        BY <1>2 DEF Open, TypeOK, LinkStates, Reader, ReaderPC
    <1>3. CASE PeerWrites(k)
        <2>1. PICK events \in Batch(k), decodes \in BOOLEAN :
                 Write(k, events, decodes, TRUE)
            BY <1>3 DEF PeerWrites
        <2>2. events \in Nat
            BY BatchIsNat
        <2> QED
            BY <1>1, <1>3, <2>1, <2>2 DEF PeerWrites, TypeOK
    <1>4. CASE PeerCloses(k)
        <2>1. wire' \in [Conns -> Seq(Message)] /\ written' \in [Conns -> Nat]
            <3>1. CASE UNCHANGED <<wire, written>>
                BY <3>1 DEF TypeOK
            <3>2. CASE \E events \in Batch(k) : Write(k, events, TRUE, FALSE)
                BY <1>1, <3>2, BatchIsNat
            <3> QED
                BY <1>4, <3>1, <3>2 DEF PeerCloses
        <2> QED
            BY <1>4, <2>1 DEF PeerCloses, TypeOK, LinkStates
    <1>5. CASE ClientCloses(k)
        BY <1>5 DEF ClientCloses, TypeOK, LinkStates
    <1> QED
        BY <1>2, <1>3, <1>4, <1>5

LEMMA PastTypeOK ==
    ASSUME NEW r \in Reader, NEW n \in Nat
    PROVE  Past(r, n) \in Reader
    <1> DEFINE at == IF n = r.last THEN "check" ELSE "push"
    <1>1. at \in ReaderPC
        BY DEF ReaderPC
    <1>2. [r EXCEPT !.next = n + 1] \in Reader
        BY DEF Reader
    <1>3. Past(r, n) = [[r EXCEPT !.next = n + 1] EXCEPT !.at = at]
        BY DEF Past
    <1> HIDE DEF at
    <1> QED
        BY <1>1, <1>2, <1>3 DEF Reader

LEMMA ReaderTypeOK ==
    ASSUME TypeOK, NEW k \in Conns, readEvents(k)
    PROVE  TypeOK'
    <1>1. CASE ReadMessage(k)
        <2>1. PICK m \in Message : m = Head(wire[k])
            BY <1>1 DEF ReadMessage, Readable, TypeOK
        <2>2. wire' \in [Conns -> Seq(Message)]
            BY <1>1 DEF ReadMessage, Readable, TypeOK
        <2>3. reader' \in [Conns -> Reader]
            BY <1>1, <2>1 DEF ReadMessage, Decoded, TypeOK, Reader, ReaderPC, Message
        <2>4. seen' \in [Conns -> History]
            <3> DEFINE skipped == IF m.decodes THEN seen[k].skipped
                                  ELSE seen[k].skipped \cup (m.first..m.last)
                       new == [seen[k] EXCEPT !.late = @ + Late, !.skipped = skipped]
            <3>1. seen[k] \in History
                BY DEF TypeOK
            <3>2. skipped \in SUBSET Nat
                BY <3>1, <2>1 DEF History, Message
            <3>3. new \in History
                <4>1. seen[k].late + Late \in Nat
                    BY <3>1 DEF History, Late
                <4> HIDE DEF skipped
                <4> QED
                    BY <3>1, <3>2, <4>1 DEF History
            <3>4. seen' = [seen EXCEPT ![k] = new]
                BY <1>1, <2>1 DEF ReadMessage
            <3> QED
                BY <3>3, <3>4 DEF TypeOK
        <2> QED
            BY <1>1, <2>2, <2>3, <2>4 DEF ReadMessage, TypeOK
    <1>2. CASE ReadFails(k)
        BY <1>2 DEF ReadFails, Goto, TypeOK, Reader, ReaderPC
    <1>3. CASE Push(k)
        <2>1. reader' \in [Conns -> Reader]
            <3>1. reader[k] \in Reader
                BY DEF TypeOK
            <3>2. Past(reader[k], reader[k].next) \in Reader
                <4>1. reader[k].next \in Nat
                    BY <3>1 DEF Reader
                <4> QED
                    BY <3>1, <4>1, PastTypeOK
            <3>3. reader' = [reader EXCEPT ![k] = Past(reader[k], reader[k].next)]
                BY <1>3 DEF Push
            <3> QED
                BY <3>2, <3>3 DEF TypeOK
        <2>2. CASE Fits
            <3>1. [conn |-> k, n |-> reader[k].next] \in Event
                BY DEF TypeOK, Reader, Event
            <3>2. eventChan' = Append(eventChan, [conn |-> k, n |-> reader[k].next])
                BY <1>3, <2>2 DEF Push, Enqueue
            <3>3. eventChan' \in Seq(Event) /\ Len(eventChan') <= EventCap
                BY <2>2, <3>1, <3>2, EventCapAssumption DEF Fits, TypeOK
            <3> QED
                BY <1>3, <2>1, <2>2, <3>3 DEF Push, TypeOK
        <2>3. CASE ~Fits
            <3>1. seen[k] \in History /\ reader[k].next \in Nat
                BY DEF TypeOK, Reader
            <3>2. [seen[k] EXCEPT !.dropped = @ \cup {reader[k].next}] \in History
                BY <3>1 DEF History
            <3>3. seen' \in [Conns -> History]
                BY <1>3, <2>3, <3>2 DEF Push, TypeOK
            <3> QED
                BY <1>3, <2>1, <2>3, <3>3 DEF Push, TypeOK
        <2> QED
            BY <2>2, <2>3
    <1>4. CASE CheckContext(k)
        BY <1>4 DEF CheckContext, Goto, TypeOK, Reader, ReaderPC
    <1> QED
        BY <1>1, <1>2, <1>3, <1>4 DEF readEvents

LEMMA OthersTypeOK ==
    ASSUME TypeOK, Take \/ SendReturns \/ ProcessorStops \/ Cancel
    PROVE  TypeOK'
    <1>1. CASE Take
        <2> DEFINE e == Head(eventChan)
        <2>1. e \in Event
            BY <1>1 DEF Take, TypeOK
        <2>2. /\ Tail(eventChan) \in Seq(Event)
              /\ Len(Tail(eventChan)) <= EventCap
            BY <1>1, EventCapAssumption DEF Take, TypeOK
        <2>3. seen[e.conn] \in History /\ e.n \in Nat /\ e.conn \in Conns
            BY <2>1 DEF TypeOK, Event
        <2>4. [seen[e.conn] EXCEPT !.taken = @ \cup {e.n}] \in History
            BY <2>3 DEF History
        <2>5. seen' \in [Conns -> History]
            BY <1>1, <2>3, <2>4 DEF Take, TypeOK
        <2> QED
            <3>1. eventChan' = Tail(eventChan)
                BY <1>1 DEF Take
            <3> QED
                BY <1>1, <2>2, <2>5, <3>1 DEF Take, TypeOK, ProcessorPC
    <1>2. CASE SendReturns \/ ProcessorStops
        BY <1>2 DEF SendReturns, ProcessorStops, TypeOK, ProcessorPC
    <1>3. CASE Cancel
        BY <1>3 DEF Cancel, TypeOK
    <1> QED
        BY <1>1, <1>2, <1>3

LEMMA NextTypeOK == TypeOK /\ [Next]_vars => TypeOK'
    <1> SUFFICES ASSUME TypeOK, [Next]_vars PROVE TypeOK'
        OBVIOUS
    <1>1. CASE UNCHANGED vars
        BY <1>1 DEF vars, TypeOK
    <1> QED
        BY <1>1, PeerTypeOK, ReaderTypeOK, OthersTypeOK DEF Next

(* The state of the stream is well typed, and the channel never holds more *)
(* than its capacity, for any number of readers.                           *)
THEOREM StreamTypeCorrect == Spec => []TypeOK
    <1> QED
        BY InitTypeOK, NextTypeOK, PTL DEF Spec

-----------------------------------------------------------------------------
LEMMA AppendFacts ==
    ASSUME NEW S, NEW s \in Seq(S), NEW e \in S
    PROVE  /\ Len(Append(s, e)) = Len(s) + 1
           /\ \A i \in 1..Len(s) : Append(s, e)[i] = s[i]
           /\ Append(s, e)[Len(s) + 1] = e
    OBVIOUS

LEMMA TailFacts ==
    ASSUME NEW S, NEW s \in Seq(S), s # <<>>
    PROVE  /\ Len(s) \in Nat \ {0}
           /\ Head(s) = s[1] /\ s[1] \in S
           /\ Len(Tail(s)) = Len(s) - 1
           /\ \A i \in 1..(Len(s) - 1) : Tail(s)[i] = s[i + 1]
    OBVIOUS

(* What the invariants read of a reader.                                   *)
SameHand(j) ==
    /\ reader'[j].next = reader[j].next
    /\ reader'[j].last = reader[j].last
    /\ (reader'[j].at = "push") <=> (reader[j].at = "push")

SameHands == \A j \in Conns : SameHand(j)

(* A step leaves alone a connection that is not the subject of it.         *)
LEMMA OtherFlow ==
    ASSUME NEW j \in Conns, ConnInv(j), SameHand(j), wire'[j] = wire[j],
           written'[j] = written[j], seen'[j] = seen[j],
           QueueInv(j)', Queued(j)' = Queued(j)
    PROVE  ConnInv(j)'
    <1>1. ReaderInv(j)' /\ SeenInv(j)'
        BY DEF ConnInv, SameHand, ReaderInv, SeenInv
    <1>2. WireInv(j)'
        BY DEF ConnInv, SameHand, WireInv
    <1>3. OnWire(j)' = OnWire(j)
        BY DEF OnWire
    <1>4. InHand(j)' = InHand(j)
        BY DEF InHand, SameHand
    <1>5. Covered(j)'
        BY <1>3, <1>4 DEF ConnInv, Covered
    <1> QED
        BY <1>1, <1>2, <1>5 DEF ConnInv

LEMMA QuietFlow ==
    ASSUME Flow, SameHands, UNCHANGED <<wire, written, eventChan, seen>>
    PROVE  Flow'
    <1> SUFFICES ASSUME NEW j \in Conns PROVE ConnInv(j)'
        BY DEF Flow
    <1>1. ConnInv(j) /\ SameHand(j)
        BY DEF Flow, SameHands
    <1>2. QueueInv(j)'
        BY <1>1 DEF ConnInv, SameHand, QueueInv
    <1>3. Queued(j)' = Queued(j)
        BY DEF Queued
    <1> QED
        BY <1>1, <1>2, <1>3, OtherFlow

LEMMA WriteFlow ==
    ASSUME TypeOK, Flow, SameHands, UNCHANGED <<eventChan, seen>>, NEW k \in Conns,
           NEW events \in Nat, NEW decodes \in BOOLEAN, NEW whole \in BOOLEAN,
           Write(k, events, decodes, whole)
    PROVE  Flow'
    <1> DEFINE m == [first |-> written[k] + 1, last |-> written[k] + events,
                     decodes |-> decodes, whole |-> whole]
    <1>1. /\ wire' = [wire EXCEPT ![k] = Append(wire[k], m)]
          /\ written' = [written EXCEPT ![k] = written[k] + events]
        BY DEF Write
    <1>2. m \in Message /\ wire[k] \in Seq(Message) /\ written[k] \in Nat
        BY DEF Message, TypeOK
    <1>3. /\ Len(wire'[k]) = Len(wire[k]) + 1
          /\ \A i \in 1..Len(wire[k]) : wire'[k][i] = wire[k][i]
          /\ wire'[k][Len(wire[k]) + 1] = m
          /\ Len(wire[k]) \in Nat
          /\ written'[k] = written[k] + events
        BY <1>1, <1>2, AppendFacts DEF TypeOK
    <1>4. m.first = written[k] + 1 /\ m.last = written[k] + events
        OBVIOUS
    <1>5. ASSUME NEW j \in Conns, j # k PROVE wire'[j] = wire[j] /\ written'[j] = written[j]
        BY <1>1, <1>5 DEF TypeOK
    <1> HIDE DEF m
    <1> SUFFICES ASSUME NEW j \in Conns PROVE ConnInv(j)'
        BY DEF Flow
    <1>6. ConnInv(j) /\ SameHand(j)
        BY DEF Flow, SameHands
    <1>7. reader[j].next \in Nat /\ reader[j].last \in Nat
        BY DEF TypeOK, Reader
    <1>8. QueueInv(j)' /\ SeenInv(j)'
        BY <1>6 DEF ConnInv, SameHand, QueueInv, SeenInv
    <1>9. InHand(j)' = InHand(j) /\ Queued(j)' = Queued(j)
        BY <1>6 DEF SameHand, InHand, Queued
    <1>10. CASE j = k
        <2>1. ReaderInv(j)'
            BY <1>2, <1>3, <1>6, <1>7, <1>10 DEF ConnInv, SameHand, ReaderInv
        <2>2. \A i \in 1..Len(wire[k]) :
                 wire[k][i].first \in Nat /\ wire[k][i].last \in Nat
            <3>1. \A i \in 1..Len(wire[k]) : wire[k][i] \in Message
                BY <1>2
            <3> QED
                BY <3>1 DEF Message
        <2>3. WireInv(j)'
            <3> DEFINE new == Len(wire[k]) + 1
            <3>1. /\ reader'[k].last <= written[k]
                  /\ reader'[k].last \in Nat
                BY <1>6, <1>7, <1>10 DEF ConnInv, SameHand, ReaderInv
            <3> WireInv(k)
                BY <1>6, <1>10 DEF ConnInv
            <3> /\ wire'[k][new].first = written[k] + 1
                /\ wire'[k][new].last = written[k] + events
                BY <1>3, <1>4
            <3> reader'[k].last = reader[k].last
                BY <1>6, <1>10 DEF SameHand
            <3> written'[k] = written[k] + events /\ written[k] \in Nat /\ events \in Nat
                BY <1>2, <1>3
            <3> HIDE DEF new
            <3>2. ASSUME NEW i \in 1..Len(wire'[k])
                  PROVE  /\ reader'[k].last < wire'[k][i].first
                         /\ wire'[k][i].last <= written'[k]
                         /\ wire'[k][i].first <= wire'[k][i].last + 1
                <4>1. CASE i = new
                    BY <3>1, <4>1
                <4>2. CASE i # new
                    <5>1. i \in 1..Len(wire[k])
                        BY <1>3, <4>2 DEF new
                    <5>2. wire'[k][i] = wire[k][i]
                        BY <1>3, <5>1
                    <5> QED
                        BY <2>2, <5>1, <5>2 DEF WireInv
                <4> QED
                    BY <4>1, <4>2
            <3>3. ASSUME NEW i \in 1..Len(wire'[k]), NEW l \in 1..Len(wire'[k]), i < l
                  PROVE  wire'[k][i].last < wire'[k][l].first
                <4>1. i \in 1..Len(wire[k]) /\ wire'[k][i] = wire[k][i]
                    BY <1>3, <3>3 DEF new
                <4>2. CASE l = new
                    <5>1. wire[k][i].last <= written[k]
                        BY <4>1 DEF WireInv
                    <5>2. wire[k][i].last \in Nat
                        BY <2>2, <4>1
                    <5> QED
                        BY <1>2, <4>1, <4>2, <5>1, <5>2
                <4>3. CASE l # new
                    <5>1. l \in 1..Len(wire[k]) /\ wire'[k][l] = wire[k][l]
                        BY <1>3, <4>3 DEF new
                    <5> QED
                        BY <3>3, <4>1, <5>1 DEF WireInv
                <4> QED
                    BY <4>2, <4>3
            <3> QED
                BY <1>10, <3>2, <3>3 DEF WireInv
        <2>4. ASSUME NEW n \in 1..written[k], n \in OnWire(k) PROVE n \in OnWire(k)'
            BY <1>3, <2>4 DEF OnWire
        <2>5. ASSUME NEW n \in (written[k] + 1)..(written[k] + events)
              PROVE  n \in OnWire(k)'
            <3>1. n \in wire'[k][Len(wire[k]) + 1].first..wire'[k][Len(wire[k]) + 1].last
                BY <1>3, <1>4
            <3>2. Len(wire[k]) + 1 \in 1..Len(wire'[k])
                BY <1>3
            <3> QED
                BY <3>1, <3>2 DEF OnWire
        <2>6. Covered(j)'
            BY <1>2, <1>3, <1>6, <1>9, <1>10, <2>4, <2>5 DEF ConnInv, Covered
        <2> QED
            BY <1>8, <2>1, <2>3, <2>6 DEF ConnInv
    <1>11. CASE j # k
        BY <1>5, <1>6, <1>8, <1>9, <1>11, OtherFlow
    <1> QED
        BY <1>10, <1>11

LEMMA ReadMessageFlow ==
    ASSUME TypeOK, Flow, NEW k \in Conns, ReadMessage(k)
    PROVE  Flow'
    <1>1. PICK m : m = Head(wire[k])
        OBVIOUS
    <1>2. wire[k] \in Seq(Message) /\ wire[k] # <<>> /\ reader[k] \in Reader /\ seen[k] \in History
        BY DEF ReadMessage, Readable, TypeOK
    <1>3. /\ Len(wire[k]) \in Nat \ {0}
          /\ m = wire[k][1] /\ m \in Message
          /\ Len(Tail(wire[k])) = Len(wire[k]) - 1
          /\ \A i \in 1..(Len(wire[k]) - 1) : Tail(wire[k])[i] = wire[k][i + 1]
        BY <1>1, <1>2, TailFacts
    <1>4. m.first \in Nat /\ m.last \in Nat /\ m.decodes \in BOOLEAN
        BY <1>3 DEF Message
    <1>5. /\ reader[k].next \in Nat /\ reader[k].last \in Nat /\ written[k] \in Nat
          /\ seen[k].late \in Nat
        BY <1>2 DEF Reader, TypeOK, History
    <1>6. /\ wire' = [wire EXCEPT ![k] = Tail(wire[k])]
          /\ reader' = [reader EXCEPT ![k] = Decoded(reader[k], m)]
          /\ UNCHANGED <<written, eventChan>>
        BY <1>1 DEF ReadMessage
    <1>7. /\ reader'[k].last = m.last
          /\ reader'[k].next = IF m.decodes THEN m.first ELSE m.last + 1
          /\ reader'[k].at = "push" <=> m.decodes /\ m.first <= m.last
        BY <1>6 DEF Decoded, TypeOK
    <1>8. /\ seen'[k].taken = seen[k].taken /\ seen'[k].dropped = seen[k].dropped
          /\ seen'[k].skipped = IF m.decodes THEN seen[k].skipped
                                ELSE seen[k].skipped \cup (m.first..m.last)
        BY <1>1, <1>2 DEF ReadMessage, TypeOK, History
    <1>9. ASSUME NEW j \in Conns, j # k
          PROVE  reader'[j] = reader[j] /\ wire'[j] = wire[j] /\ seen'[j] = seen[j]
        BY <1>6, <1>9 DEF TypeOK, ReadMessage
    <1>10. wire'[k] = Tail(wire[k]) /\ written'[k] = written[k]
        BY <1>6 DEF TypeOK
    <1>11. ConnInv(k)
        BY DEF Flow
    <1>12. reader[k].next = reader[k].last + 1
        BY <1>11 DEF ConnInv, ReaderInv, ReadMessage
    <1>13. /\ reader[k].last < m.first /\ m.last <= written[k] /\ m.first <= m.last + 1
           /\ \A i \in 2..Len(wire[k]) : m.last < wire[k][i].first
        BY <1>3, <1>11 DEF ConnInv, WireInv
    <1>14. ReaderInv(k)'
        BY <1>4, <1>5, <1>7, <1>10, <1>13 DEF ReaderInv
    <1>15. WireInv(k)'
        <2>1. Len(wire'[k]) = Len(wire[k]) - 1
            BY <1>3, <1>10
        <2>2. ASSUME NEW i \in 1..Len(wire'[k])
              PROVE  /\ reader'[k].last < wire'[k][i].first
                     /\ wire'[k][i].last <= written'[k]
                     /\ wire'[k][i].first <= wire'[k][i].last + 1
            <3>1. i + 1 \in 2..Len(wire[k]) /\ wire'[k][i] = wire[k][i + 1]
                BY <1>3, <1>10, <2>1
            <3> QED
                BY <1>7, <1>10, <1>11, <1>13, <3>1 DEF ConnInv, WireInv
        <2>3. ASSUME NEW i \in 1..Len(wire'[k]), NEW j \in 1..Len(wire'[k]), i < j
              PROVE  wire'[k][i].last < wire'[k][j].first
            <3>1. /\ i + 1 \in 1..Len(wire[k]) /\ j + 1 \in 1..Len(wire[k]) /\ i + 1 < j + 1
                  /\ wire'[k][i] = wire[k][i + 1] /\ wire'[k][j] = wire[k][j + 1]
                BY <1>3, <1>10, <2>1, <2>3
            <3> QED
                BY <1>11, <3>1 DEF ConnInv, WireInv
        <2> QED
            BY <2>2, <2>3 DEF WireInv
    <1>16. SeenInv(k)'
        <2>1. /\ seen[k].taken \cup seen[k].dropped \cup seen[k].skipped
                    \subseteq 1..reader[k].last
              /\ seen[k].taken \cap seen[k].dropped = {}
              /\ seen[k].taken \cap seen[k].skipped = {}
              /\ seen[k].dropped \cap seen[k].skipped = {}
            BY <1>5, <1>11, <1>12 DEF ConnInv, SeenInv
        <2>2. \A n \in m.first..m.last : n \notin 1..reader[k].last
            BY <1>4, <1>5, <1>13
        <2>3. 1..reader[k].last \subseteq 1..(reader'[k].next - 1)
            BY <1>4, <1>5, <1>7, <1>13
        <2>4. ~m.decodes => m.first..m.last \subseteq 1..(reader'[k].next - 1)
            BY <1>4, <1>5, <1>7, <1>13
        <2> QED
            BY <1>4, <1>8, <2>1, <2>2, <2>3, <2>4 DEF SeenInv
    <1>17. QueueInv(k)'
        <2>1. ASSUME NEW i \in 1..Len(eventChan), eventChan[i].conn = k
              PROVE  /\ eventChan[i].n \in 1..(reader'[k].next - 1)
                     /\ \A n \in seen'[k].taken : n < eventChan[i].n
                     /\ eventChan[i].n \notin seen'[k].dropped \cup seen'[k].skipped
            <3>1. /\ eventChan[i].n \in 1..reader[k].last
                  /\ \A n \in seen[k].taken : n < eventChan[i].n
                  /\ eventChan[i].n \notin seen[k].dropped \cup seen[k].skipped
                BY <1>5, <1>11, <1>12, <2>1 DEF ConnInv, QueueInv
            <3> QED
                BY <1>4, <1>5, <1>7, <1>8, <1>13, <3>1
        <2> QED
            BY <1>6, <1>11, <2>1 DEF ConnInv, QueueInv
    <1>18. Covered(k)'
        <2>1. ASSUME NEW n \in OnWire(k), n \notin m.first..m.last PROVE n \in OnWire(k)'
            <3>1. PICK i \in 1..Len(wire[k]) : n \in wire[k][i].first..wire[k][i].last
                BY DEF OnWire
            <3>2. i # 1
                BY <1>3, <2>1, <3>1
            <3>3. i - 1 \in 1..Len(wire'[k]) /\ wire'[k][i - 1] = wire[k][i]
                BY <1>3, <1>10, <3>2
            <3> QED
                BY <3>1, <3>3 DEF OnWire
        <2>2. ASSUME NEW n \in m.first..m.last PROVE n \in InHand(k)' \cup seen'[k].skipped
            BY <1>4, <1>7, <1>8 DEF InHand
        <2>3. InHand(k) = {}
            BY <1>5, <1>12 DEF InHand
        <2>4. Queued(k)' = Queued(k)
            BY <1>6 DEF Queued
        <2> QED
            BY <1>8, <1>10, <1>11, <2>1, <2>2, <2>3, <2>4 DEF ConnInv, Covered
    <1>19. ASSUME NEW j \in Conns, j # k PROVE ConnInv(j)'
        <2>1. ConnInv(j) /\ SameHand(j) /\ written'[j] = written[j]
            BY <1>6, <1>9, <1>19 DEF Flow, SameHand
        <2>2. QueueInv(j)'
            BY <1>6, <1>9, <1>19, <2>1 DEF ConnInv, QueueInv
        <2>3. Queued(j)' = Queued(j)
            BY <1>6 DEF Queued
        <2> QED
            BY <1>9, <1>19, <2>1, <2>2, <2>3, OtherFlow
    <1>20. ConnInv(k)'
        BY <1>14, <1>15, <1>16, <1>17, <1>18 DEF ConnInv
    <1> QED
        BY <1>19, <1>20 DEF Flow

LEMMA PushFlow ==
    ASSUME TypeOK, Flow, NEW k \in Conns, Push(k)
    PROVE  Flow'
    <1> DEFINE n0 == reader[k].next
               e == [conn |-> k, n |-> reader[k].next]
    <1>1. /\ reader[k] \in Reader /\ seen[k] \in History /\ eventChan \in Seq(Event)
          /\ e \in Event /\ e.conn = k /\ e.n = n0
        BY DEF TypeOK, Reader, Event
    <1>2. n0 \in Nat /\ reader[k].last \in Nat /\ written[k] \in Nat
        BY <1>1 DEF Reader, TypeOK
    <1>3. reader[k].at = "push" /\ n0 >= 1 /\ n0 <= reader[k].last
        BY DEF Push, Flow, ConnInv, ReaderInv
    <1>4. /\ reader'[k].next = n0 + 1 /\ reader'[k].last = reader[k].last
          /\ reader'[k].at = IF n0 = reader[k].last THEN "check" ELSE "push"
        BY <1>1 DEF Push, Past, TypeOK, Reader
    <1>5. ASSUME NEW j \in Conns, j # k
          PROVE  /\ reader'[j] = reader[j] /\ wire'[j] = wire[j]
                 /\ seen'[j] = seen[j] /\ written'[j] = written[j]
        BY <1>5 DEF Push, TypeOK
    <1>6. wire'[k] = wire[k] /\ written'[k] = written[k]
        BY DEF Push
    <1>7. \A j \in Conns : ConnInv(j)
        BY DEF Flow
    <1>8. ReaderInv(k)'
        BY <1>2, <1>3, <1>4, <1>6, <1>7 DEF ConnInv, ReaderInv
    <1>9. WireInv(k)'
        BY <1>4, <1>6, <1>7 DEF ConnInv, WireInv
    <1>10. InHand(k) = InHand(k)' \cup {n0}
        BY <1>2, <1>3, <1>4 DEF InHand
    <1>11. OnWire(k)' = OnWire(k)
        BY <1>6 DEF OnWire
    <1>12. 1..(n0 - 1) \subseteq 1..(reader'[k].next - 1) /\ n0 \in 1..(reader'[k].next - 1)
        BY <1>2, <1>3, <1>4
    <1>13. \A n \in 1..(n0 - 1) : n < n0
        BY <1>2
    <1>14. n0 \notin seen[k].taken \cup seen[k].dropped \cup seen[k].skipped
        BY <1>7, <1>13, <1>2 DEF ConnInv, SeenInv
    <1>15. /\ seen[k].taken \cup seen[k].dropped \cup seen[k].skipped
                \subseteq 1..(reader'[k].next - 1)
           /\ seen[k].taken \cap seen[k].dropped = {}
           /\ seen[k].taken \cap seen[k].skipped = {}
           /\ seen[k].dropped \cap seen[k].skipped = {}
        BY <1>7, <1>12 DEF ConnInv, SeenInv
    <1> HIDE DEF n0, e
    <1>16. CASE Fits
        <2>1. eventChan' = Append(eventChan, e) /\ UNCHANGED seen
            BY <1>16 DEF Push, Enqueue, e
        <2>2. /\ Len(eventChan) \in Nat
              /\ Len(eventChan') = Len(eventChan) + 1
              /\ \A i \in 1..Len(eventChan) : eventChan'[i] = eventChan[i]
              /\ eventChan'[Len(eventChan) + 1] = e
            BY <1>1, <2>1, AppendFacts
        <2>3. SeenInv(k)'
            BY <1>15, <2>1 DEF SeenInv
        <2>4. ASSUME NEW i \in 1..Len(eventChan'), i # Len(eventChan) + 1
              PROVE  i \in 1..Len(eventChan) /\ eventChan'[i] = eventChan[i]
            BY <2>2, <2>4
        <2>5. QueueInv(k)'
            <3>1. ASSUME NEW i \in 1..Len(eventChan'), eventChan'[i].conn = k
                  PROVE  /\ eventChan'[i].n \in 1..(reader'[k].next - 1)
                         /\ \A n \in seen'[k].taken : n < eventChan'[i].n
                         /\ eventChan'[i].n \notin seen'[k].dropped \cup seen'[k].skipped
                <4>1. CASE i = Len(eventChan) + 1
                    <5>1. \A n \in seen[k].taken : n < n0
                        BY <1>7, <1>13 DEF ConnInv, SeenInv, n0
                    <5>2. eventChan'[i].n = n0
                        BY <1>1, <2>2, <4>1
                    <5> QED
                        BY <1>12, <1>14, <2>1, <5>1, <5>2
                <4>2. CASE i # Len(eventChan) + 1
                    <5>1. i \in 1..Len(eventChan) /\ eventChan'[i] = eventChan[i]
                        BY <2>4, <4>2
                    <5>2. /\ eventChan[i].n \in 1..(n0 - 1)
                          /\ \A n \in seen[k].taken : n < eventChan[i].n
                          /\ eventChan[i].n \notin seen[k].dropped \cup seen[k].skipped
                        BY <1>7, <3>1, <5>1 DEF ConnInv, QueueInv, n0
                    <5> QED
                        BY <1>12, <2>1, <5>1, <5>2
                <4> QED
                    BY <4>1, <4>2
            <3>2. ASSUME NEW i \in 1..Len(eventChan'), NEW l \in 1..Len(eventChan'), i < l,
                         eventChan'[i].conn = k, eventChan'[l].conn = k
                  PROVE  eventChan'[i].n < eventChan'[l].n
                <4>1. i \in 1..Len(eventChan) /\ eventChan'[i] = eventChan[i]
                    BY <2>2, <3>2
                <4>2. CASE l = Len(eventChan) + 1
                    <5>1. eventChan[i].n \in 1..(n0 - 1)
                        BY <1>7, <3>2, <4>1 DEF ConnInv, QueueInv, n0
                    <5>2. eventChan'[l].n = n0
                        BY <1>1, <2>2, <4>2
                    <5> QED
                        BY <1>13, <4>1, <5>1, <5>2
                <4>3. CASE l # Len(eventChan) + 1
                    <5>1. l \in 1..Len(eventChan) /\ eventChan'[l] = eventChan[l]
                        BY <2>4, <4>3
                    <5> QED
                        BY <1>7, <3>2, <4>1, <5>1 DEF ConnInv, QueueInv
                <4> QED
                    BY <4>2, <4>3
            <3> QED
                BY <3>1, <3>2 DEF QueueInv
        <2>6. n0 \in Queued(k)'
            <3>1. Len(eventChan) + 1 \in 1..Len(eventChan')
                BY <2>2
            <3> QED
                BY <1>1, <2>2, <3>1 DEF Queued
        <2>7. Queued(k) \subseteq Queued(k)'
            <3>1. \A i \in 1..Len(eventChan) :
                     i \in 1..Len(eventChan') /\ eventChan'[i] = eventChan[i]
                BY <2>2
            <3> QED
                BY <3>1 DEF Queued
        <2>8. Covered(k)'
            BY <1>6, <1>7, <1>10, <1>11, <2>1, <2>6, <2>7 DEF ConnInv, Covered
        <2>9. ASSUME NEW j \in Conns, j # k PROVE ConnInv(j)'
            <3>1. eventChan'[Len(eventChan) + 1].conn # j
                BY <1>1, <2>2, <2>9
            <3>2. ASSUME NEW i \in 1..Len(eventChan'), eventChan'[i].conn = j
                  PROVE  i \in 1..Len(eventChan) /\ eventChan'[i] = eventChan[i]
                BY <2>4, <3>1, <3>2
            <3>3. QueueInv(j)'
                <4>1. QueueInv(j) /\ seen'[j] = seen[j] /\ reader'[j] = reader[j]
                    BY <1>5, <1>7, <2>9 DEF ConnInv
                <4> QED
                    BY <3>2, <4>1 DEF QueueInv
            <3>4. Queued(j)' = Queued(j)
                <4>1. \A i \in 1..Len(eventChan) :
                         i \in 1..Len(eventChan') /\ eventChan'[i] = eventChan[i]
                    BY <2>2
                <4> QED
                    BY <3>2, <4>1 DEF Queued
            <3> QED
                BY <1>5, <1>7, <2>9, <3>3, <3>4, OtherFlow DEF SameHand
        <2>10. ConnInv(k)'
            BY <1>8, <1>9, <2>3, <2>5, <2>8 DEF ConnInv
        <2> QED
            BY <2>9, <2>10 DEF Flow
    <1>17. CASE ~Fits
        <2>1. UNCHANGED eventChan
            BY <1>17 DEF Push
        <2>2. /\ seen'[k].taken = seen[k].taken /\ seen'[k].skipped = seen[k].skipped
              /\ seen'[k].dropped = seen[k].dropped \cup {n0}
            BY <1>1, <1>17 DEF Push, TypeOK, History, n0
        <2>3. SeenInv(k)'
            BY <1>12, <1>14, <1>15, <2>2 DEF SeenInv
        <2>4. QueueInv(k)'
            <3>1. ASSUME NEW i \in 1..Len(eventChan), eventChan[i].conn = k
                  PROVE  /\ eventChan[i].n \in 1..(reader'[k].next - 1)
                         /\ \A n \in seen'[k].taken : n < eventChan[i].n
                         /\ eventChan[i].n \notin seen'[k].dropped \cup seen'[k].skipped
                <4>1. /\ eventChan[i].n \in 1..(n0 - 1)
                      /\ \A n \in seen[k].taken : n < eventChan[i].n
                      /\ eventChan[i].n \notin seen[k].dropped \cup seen[k].skipped
                    BY <1>7, <3>1 DEF ConnInv, QueueInv, n0
                <4>2. eventChan[i].n # n0
                    BY <1>2, <1>13, <4>1
                <4> QED
                    BY <1>12, <2>2, <4>1, <4>2
            <3> QED
                BY <1>7, <2>1, <3>1 DEF ConnInv, QueueInv
        <2>5. Covered(k)'
            <3>1. Queued(k)' = Queued(k)
                BY <2>1 DEF Queued
            <3> QED
                BY <1>6, <1>7, <1>10, <1>11, <2>2, <3>1 DEF ConnInv, Covered
        <2>6. ASSUME NEW j \in Conns, j # k PROVE ConnInv(j)'
            <3>1. QueueInv(j)'
                BY <1>5, <1>7, <2>1, <2>6 DEF ConnInv, QueueInv
            <3>2. Queued(j)' = Queued(j)
                BY <2>1 DEF Queued
            <3> QED
                BY <1>5, <1>7, <2>6, <3>1, <3>2, OtherFlow DEF SameHand
        <2>7. ConnInv(k)'
            BY <1>8, <1>9, <2>3, <2>4, <2>5 DEF ConnInv
        <2> QED
            BY <2>6, <2>7 DEF Flow
    <1> QED
        BY <1>16, <1>17

LEMMA TakeFlow ==
    ASSUME TypeOK, Flow, Take
    PROVE  Flow'
    <1>1. PICK e : e = Head(eventChan)
        OBVIOUS
    <1>2. eventChan \in Seq(Event) /\ eventChan # <<>>
        BY DEF Take, TypeOK
    <1>3. /\ Len(eventChan) \in Nat \ {0}
          /\ e = eventChan[1] /\ e \in Event
          /\ Len(eventChan') = Len(eventChan) - 1
          /\ \A i \in 1..(Len(eventChan) - 1) : eventChan'[i] = eventChan[i + 1]
        BY <1>1, <1>2, TailFacts DEF Take
    <1>4. PICK k \in Conns : k = e.conn
        BY <1>3 DEF Event
    <1>5. /\ seen' = [seen EXCEPT ![k].taken = @ \cup {e.n}]
          /\ UNCHANGED <<wire, written, reader>>
        BY <1>1, <1>4 DEF Take
    <1>6. /\ seen'[k].taken = seen[k].taken \cup {e.n}
          /\ seen'[k].dropped = seen[k].dropped
          /\ seen'[k].skipped = seen[k].skipped
          /\ \A j \in Conns : j # k => seen'[j] = seen[j]
        BY <1>5 DEF TypeOK, History
    <1>7. \A j \in Conns : ConnInv(j)
        BY DEF Flow
    <1>8. /\ e.n \in 1..(reader[k].next - 1)
          /\ \A n \in seen[k].taken : n < e.n
          /\ e.n \notin seen[k].dropped \cup seen[k].skipped
        <2>1. 1 \in 1..Len(eventChan)
            BY <1>3
        <2> QED
            BY <1>3, <1>4, <1>7, <2>1 DEF ConnInv, QueueInv
    <1>9. ASSUME NEW i \in 1..Len(eventChan')
          PROVE  /\ i + 1 \in 1..Len(eventChan) /\ 1 \in 1..Len(eventChan)
                 /\ 1 < i + 1
                 /\ eventChan'[i] = eventChan[i + 1]
        BY <1>3
    <1>10. ASSUME NEW i \in 1..Len(eventChan), i # 1
           PROVE  i - 1 \in 1..Len(eventChan') /\ eventChan'[i - 1] = eventChan[i]
        BY <1>3, <1>10
    <1>11. SeenInv(k)'
        BY <1>5, <1>6, <1>7, <1>8 DEF ConnInv, SeenInv
    <1>12. ASSUME NEW j \in Conns PROVE QueueInv(j)'
        <2>1. QueueInv(j)
            BY <1>7 DEF ConnInv
        <2>2. ASSUME NEW i \in 1..Len(eventChan'), eventChan'[i].conn = j
              PROVE  /\ eventChan'[i].n \in 1..(reader'[j].next - 1)
                     /\ \A n \in seen'[j].taken : n < eventChan'[i].n
                     /\ eventChan'[i].n \notin seen'[j].dropped \cup seen'[j].skipped
            <3>1. /\ eventChan'[i].n \in 1..(reader[j].next - 1)
                  /\ \A n \in seen[j].taken : n < eventChan'[i].n
                  /\ eventChan'[i].n \notin seen[j].dropped \cup seen[j].skipped
                BY <1>9, <2>1, <2>2 DEF QueueInv
            <3>2. j = k => e.n < eventChan'[i].n
                BY <1>3, <1>4, <1>9, <2>1, <2>2 DEF QueueInv
            <3> QED
                BY <1>5, <1>6, <3>1, <3>2
        <2>3. ASSUME NEW i \in 1..Len(eventChan'), NEW l \in 1..Len(eventChan'), i < l,
                     eventChan'[i].conn = j, eventChan'[l].conn = j
              PROVE  eventChan'[i].n < eventChan'[l].n
            <3>1. i + 1 < l + 1
                BY <2>3
            <3> QED
                BY <1>9, <2>1, <2>3, <3>1 DEF QueueInv
        <2> QED
            BY <2>2, <2>3 DEF QueueInv
    <1>13. Queued(k) \subseteq Queued(k)' \cup {e.n}
        BY <1>3, <1>10 DEF Queued
    <1>14. Covered(k)'
        BY <1>5, <1>6, <1>7, <1>13 DEF ConnInv, Covered, OnWire, InHand
    <1>15. ConnInv(k)'
        BY <1>5, <1>7, <1>11, <1>12, <1>14 DEF ConnInv, ReaderInv, WireInv
    <1>16. ASSUME NEW j \in Conns, j # k PROVE ConnInv(j)'
        <2>1. ASSUME NEW i \in 1..Len(eventChan), eventChan[i].conn = j
              PROVE  i # 1
            BY <1>3, <1>4, <1>16, <2>1
        <2>2. Queued(j)' = Queued(j)
            <3>1. Queued(j)' \subseteq Queued(j)
                BY <1>9 DEF Queued
            <3>2. Queued(j) \subseteq Queued(j)'
                BY <1>10, <2>1 DEF Queued
            <3> QED
                BY <3>1, <3>2
        <2> QED
            BY <1>5, <1>6, <1>7, <1>12, <1>16, <2>2, OtherFlow DEF SameHand
    <1> QED
        BY <1>15, <1>16 DEF Flow

LEMMA InitFlow == Init => Flow
    <1> SUFFICES ASSUME Init, NEW k \in Conns PROVE ConnInv(k)
        BY DEF Flow
    <1>1. /\ reader[k] = [at |-> "none", first |-> TRUE, next |-> 1, last |-> 0]
          /\ Len(wire[k]) = 0 /\ written[k] = 0 /\ Len(eventChan) = 0
          /\ seen[k] = [taken |-> {}, dropped |-> {}, skipped |-> {}, late |-> 0]
        BY DEF Init
    <1>2. ReaderInv(k) /\ WireInv(k)
        BY <1>1 DEF ReaderInv, WireInv
    <1>3. QueueInv(k) /\ SeenInv(k)
        BY <1>1 DEF QueueInv, SeenInv
    <1>4. Covered(k)
        BY <1>1 DEF Covered
    <1> QED
        BY <1>2, <1>3, <1>4 DEF ConnInv

LEMMA PeerFlow ==
    ASSUME TypeOK, UnusedIdle, Flow, NEW k \in Conns,
           Open(k) \/ PeerWrites(k) \/ PeerCloses(k) \/ ClientCloses(k)
    PROVE  Flow'
    <1>1. CASE Open(k)
        <2>1. SameHands
            BY <1>1 DEF Open, UnusedIdle, SameHands, SameHand, TypeOK, Reader
        <2> QED
            BY <1>1, <2>1, QuietFlow DEF Open
    <1>2. SameHands \/ reader' # reader
        BY DEF SameHands, SameHand
    <1>3. CASE PeerWrites(k)
        <2>1. PICK events \in Batch(k), decodes \in BOOLEAN :
                 Write(k, events, decodes, TRUE)
            BY <1>3 DEF PeerWrites
        <2>2. events \in Nat /\ TRUE \in BOOLEAN
            BY BatchIsNat
        <2> QED
            BY <1>2, <1>3, <2>1, <2>2, WriteFlow DEF PeerWrites
    <1>4. CASE PeerCloses(k)
        <2>1. ASSUME NEW events \in Batch(k), Write(k, events, TRUE, FALSE) PROVE Flow'
            <3>1. events \in Nat /\ TRUE \in BOOLEAN /\ FALSE \in BOOLEAN
                BY BatchIsNat
            <3> QED
                BY <1>2, <1>4, <2>1, <3>1, WriteFlow DEF PeerCloses
        <2>2. CASE UNCHANGED <<wire, written>>
            BY <1>2, <1>4, <2>2, QuietFlow DEF PeerCloses
        <2> QED
            BY <1>4, <2>1, <2>2 DEF PeerCloses
    <1>5. CASE ClientCloses(k)
        BY <1>2, <1>5, QuietFlow DEF ClientCloses
    <1> QED
        BY <1>1, <1>3, <1>4, <1>5

LEMMA GotoFlow ==
    ASSUME TypeOK, Flow, NEW k \in Conns, NEW at \in ReaderPC, Goto(k, at),
           at # "push", reader[k].at # "push",
           UNCHANGED <<wire, written, eventChan, seen>>
    PROVE  Flow'
    <1>1. SameHands
        BY DEF Goto, SameHands, SameHand, TypeOK, Reader
    <1> QED
        BY <1>1, QuietFlow

LEMMA NextFlow ==
    ASSUME TypeOK, UnusedIdle, Flow, [Next]_vars
    PROVE  Flow'
    <1>1. ASSUME NEW k \in Conns, ReadFails(k) PROVE Flow'
        BY <1>1, GotoFlow DEF ReadFails, ReaderPC
    <1>2. ASSUME NEW k \in Conns, CheckContext(k) PROVE Flow'
        BY <1>2, GotoFlow DEF CheckContext, ReaderPC
    <1>3. ASSUME NEW k \in Conns, readEvents(k) PROVE Flow'
        BY <1>1, <1>2, <1>3, ReadMessageFlow, PushFlow DEF readEvents
    <1>4. CASE SendReturns \/ ProcessorStops \/ Cancel \/ UNCHANGED vars
        <2>1. SameHands
            BY <1>4 DEF SendReturns, ProcessorStops, Cancel, vars, SameHands, SameHand
        <2> QED
            BY <1>4, <2>1, QuietFlow DEF SendReturns, ProcessorStops, Cancel, vars
    <1> QED
        BY <1>3, <1>4, PeerFlow, TakeFlow DEF Next

LEMMA NextUnusedIdle ==
    ASSUME TypeOK, UnusedIdle, [Next]_vars
    PROVE  UnusedIdle'
    <1>1. ASSUME NEW k \in Conns,
                 Open(k) \/ PeerWrites(k) \/ PeerCloses(k) \/ ClientCloses(k)
          PROVE  UnusedIdle'
        BY <1>1 DEF Open, PeerWrites, PeerCloses, ClientCloses, UnusedIdle, TypeOK, Reader
    <1>2. ASSUME NEW k \in Conns, readEvents(k) PROVE UnusedIdle'
        <2>1. /\ reader[k].at # "none" /\ UNCHANGED link
              /\ \A j \in Conns : j # k => reader'[j] = reader[j]
            BY <1>2 DEF readEvents, ReadMessage, ReadFails, Push, CheckContext, Goto, TypeOK
        <2> QED
            BY <2>1 DEF UnusedIdle
    <1>3. CASE Take \/ SendReturns \/ ProcessorStops \/ Cancel \/ UNCHANGED vars
        BY <1>3 DEF Take, SendReturns, ProcessorStops, Cancel, vars, UnusedIdle
    <1> QED
        BY <1>1, <1>2, <1>3 DEF Next

LEMMA NextLateInv ==
    ASSUME TypeOK, UnusedIdle, LateInv, [Next]_vars
    PROVE  LateInv'
    <1>1. ASSUME NEW k \in Conns,
                 Open(k) \/ PeerWrites(k) \/ PeerCloses(k) \/ ClientCloses(k)
          PROVE  LateInv'
        BY <1>1 DEF Open, PeerWrites, PeerCloses, ClientCloses, UnusedIdle, LateInv, TypeOK, Reader
    <1>2. ASSUME NEW k \in Conns, readEvents(k) PROVE LateInv'
        <2>1. UNCHANGED cancelled
            BY <1>2 DEF readEvents, ReadMessage, ReadFails, Push, CheckContext
        <2>2. ASSUME NEW j \in Conns, j # k PROVE reader'[j] = reader[j] /\ seen'[j] = seen[j]
            BY <1>2, <2>2 DEF readEvents, ReadMessage, ReadFails, Push, CheckContext, Goto, TypeOK
        <2>3. CASE ReadMessage(k)
            <3>1. seen[k].late = 0
                BY <2>3 DEF ReadMessage, LateInv
            <3>2. seen'[k].late = Late
                BY <2>3, <3>1 DEF ReadMessage, TypeOK, History, Late
            <3>3. reader'[k].at \in {"push", "check", "ended"}
                BY <2>3 DEF ReadMessage, Decoded, TypeOK
            <3> QED
                BY <2>1, <2>2, <3>2, <3>3 DEF LateInv, Late
        <2>4. CASE ReadFails(k)
            BY <2>1, <2>2, <2>4 DEF ReadFails, Goto, LateInv, TypeOK, Reader
        <2>5. CASE Push(k)
            <3>1. seen'[k].late = seen[k].late
                BY <2>5 DEF Push, TypeOK, History
            <3>2. reader'[k].at \in {"push", "check"}
                BY <2>5 DEF Push, Past, TypeOK, Reader
            <3> QED
                BY <2>1, <2>2, <3>1, <3>2 DEF LateInv
        <2>6. CASE CheckContext(k)
            BY <2>1, <2>2, <2>6 DEF CheckContext, Goto, LateInv, TypeOK, Reader
        <2> QED
            BY <1>2, <2>3, <2>4, <2>5, <2>6 DEF readEvents
    <1>3. CASE Take
        <2>1. UNCHANGED <<reader, cancelled>> /\ \A j \in Conns : seen'[j].late = seen[j].late
            BY <1>3 DEF Take, TypeOK, History
        <2> QED
            BY <2>1 DEF LateInv
    <1>4. CASE SendReturns \/ ProcessorStops \/ Cancel \/ UNCHANGED vars
        BY <1>4 DEF SendReturns, ProcessorStops, Cancel, vars, LateInv
    <1> QED
        BY <1>1, <1>2, <1>3, <1>4 DEF Next

-----------------------------------------------------------------------------
StreamInv == TypeOK /\ UnusedIdle /\ LateInv /\ Flow

LEMMA StreamInvariant == Spec => []StreamInv
    <1>1. Init => StreamInv
        BY InitTypeOK, InitFlow DEF StreamInv, Init, UnusedIdle, LateInv
    <1>2. StreamInv /\ [Next]_vars => StreamInv'
        BY NextTypeOK, NextUnusedIdle, NextLateInv, NextFlow DEF StreamInv
    <1> QED
        BY <1>1, <1>2, PTL DEF Spec

(* Every event that was written to a connection is on its wire, in its     *)
(* reader's hands, in the channel, with the processor, dropped or skipped, *)
(* and in one of these only.                                               *)
THEOREM EveryEventAccountedFor == Spec => []EventLedger
    <1>1. ASSUME StreamInv, NEW k \in Conns
          PROVE  /\ \A n \in 1..written[k] : \E p \in 1..6 : n \in Places(k)[p]
                 /\ \A p, q \in 1..6 : p # q => Places(k)[p] \cap Places(k)[q] = {}
        <2> DEFINE W == OnWire(k)
                   H == InHand(k)
                   Q == Queued(k)
                   T == seen[k].taken
                   D == seen[k].dropped
                   S == seen[k].skipped
        <2>1. ConnInv(k) /\ reader[k].next \in Nat /\ reader[k].last \in Nat
            BY <1>1 DEF StreamInv, Flow, TypeOK, Reader
        <2>2. \A n \in 1..written[k] : n \in W \cup H \cup Q \cup T \cup D \cup S
            BY <2>1 DEF ConnInv, Covered
        <2>3. Places(k) = <<W, H, Q, T, D, S>>
            BY DEF Places
        <2>4. \A n \in Q \cup T \cup D \cup S : n \in 1..(reader[k].next - 1)
            <3>1. \A n \in Q : n \in 1..(reader[k].next - 1)
                BY <2>1 DEF ConnInv, QueueInv, Queued
            <3>2. \A n \in T \cup D \cup S : n \in 1..(reader[k].next - 1)
                BY <2>1 DEF ConnInv, SeenInv
            <3> QED
                BY <3>1, <3>2
        <2>5. \A n \in H : n \notin 1..(reader[k].next - 1) /\ n \in Nat /\ n <= reader[k].last
            BY <2>1 DEF InHand
        <2>6. \A n \in W : n \in Int /\ reader[k].last < n
            <3>1. ASSUME NEW i \in 1..Len(wire[k]) PROVE wire[k][i].first \in Nat
                <4>1. wire[k] \in Seq(Message)
                    BY <1>1 DEF StreamInv, TypeOK
                <4>2. wire[k][i] \in Message
                    BY <4>1
                <4> QED
                    BY <4>2 DEF Message
            <3>2. ASSUME NEW n \in W PROVE n \in Int /\ reader[k].last < n
                <4>1. PICK i \in 1..Len(wire[k]) : n \in wire[k][i].first..wire[k][i].last
                    BY <3>2 DEF OnWire
                <4>2. reader[k].last < wire[k][i].first
                    BY <2>1 DEF ConnInv, WireInv
                <4> QED
                    BY <2>1, <3>1, <4>1, <4>2
            <3> QED
                BY <3>2
        <2>7. \A n \in 1..(reader[k].next - 1) : n <= reader[k].last
            BY <2>1 DEF ConnInv, ReaderInv
        <2>8. T \cap D = {} /\ T \cap S = {} /\ D \cap S = {}
            BY <2>1 DEF ConnInv, SeenInv
        <2>9. Q \cap T = {} /\ Q \cap D = {} /\ Q \cap S = {}
            <3>1. ASSUME NEW n \in Q PROVE n \notin T /\ n \notin D \cup S
                <4>1. PICK i \in 1..Len(eventChan) : eventChan[i].conn = k /\ n = eventChan[i].n
                    BY <3>1 DEF Queued
                <4>2. /\ \A l \in T : l < n
                      /\ n \notin D \cup S /\ n \in 1..(reader[k].next - 1)
                    BY <2>1, <4>1 DEF ConnInv, QueueInv
                <4> QED
                    BY <2>1, <4>2
            <3> QED
                BY <3>1
        <2>10. H \cap Q = {} /\ H \cap T = {} /\ H \cap D = {} /\ H \cap S = {}
            BY <2>4, <2>5
        <2>11. W \cap H = {}
            BY <2>1, <2>5, <2>6
        <2>12. \A n \in W : n \notin 1..(reader[k].next - 1)
            BY <2>1, <2>6, <2>7
        <2>13. W \cap Q = {} /\ W \cap T = {} /\ W \cap D = {} /\ W \cap S = {}
            BY <2>4, <2>12
        <2> HIDE DEF W, H, Q, T, D, S
        <2>14. /\ Places(k)[1] = W /\ Places(k)[2] = H /\ Places(k)[3] = Q
               /\ Places(k)[4] = T /\ Places(k)[5] = D /\ Places(k)[6] = S
            BY <2>3
        <2> HIDE <2>3
        <2>15. 1..6 = {1, 2, 3, 4, 5, 6}
            OBVIOUS
        <2>16. \A n \in 1..written[k] : \E p \in 1..6 : n \in Places(k)[p]
            BY <2>2, <2>14, <2>15
        <2>17. \A p, q \in 1..6 : p # q => Places(k)[p] \cap Places(k)[q] = {}
            BY <2>8, <2>9, <2>10, <2>11, <2>13, <2>14, <2>15
        <2> QED
            BY <2>16, <2>17
    <1>2. StreamInv => EventLedger
        BY <1>1 DEF EventLedger
    <1> QED
        BY <1>2, StreamInvariant, PTL

(* However many readers there are, each finishes at most the message that  *)
(* it is in when the context is cancelled.                                 *)
THEOREM CancelIsSeen == Spec => []OneMessageAfterCancel
    <1>1. StreamInv => OneMessageAfterCancel
        BY DEF StreamInv, LateInv, OneMessageAfterCancel
    <1> QED
        BY <1>1, StreamInvariant, PTL

-----------------------------------------------------------------------------
LEMMA WriteIsSend ==
    ASSUME TypeOK, NEW k \in Conns, NEW events \in Nat, NEW decodes, NEW whole,
           Write(k, events, decodes, whole), UNCHANGED seen
    PROVE  Link!Send(k) \/ UNCHANGED <<written, Taken>>
    <1>1. written' = [written EXCEPT ![k] = written[k] + events]
        BY DEF Write
    <1>2. written[k] \in Nat /\ written'[k] = written[k] + events
        BY <1>1 DEF TypeOK
    <1>3. CASE events = 0
        <2>1. written' = written
            BY <1>1, <1>2, <1>3 DEF TypeOK
        <2>2. Taken' = Taken
            BY DEF Taken
        <2> QED
            BY <2>1, <2>2
    <1>4. CASE events # 0
        <2>1. written'[k] \in Nat /\ written'[k] > written[k]
            BY <1>2, <1>4
        <2>2. written' = [written EXCEPT ![k] = written'[k]]
            BY <1>1, <1>2
        <2>3. Taken' = Taken
            BY DEF Taken
        <2> QED
            BY <2>1, <2>2, <2>3 DEF Link!Send
    <1> QED
        BY <1>3, <1>4

LEMMA TakeIsReceive ==
    ASSUME StreamInv, Take
    PROVE  \E k \in Conns : Link!Receive(k)
    <1>1. PICK e : e = Head(eventChan)
        OBVIOUS
    <1>2. eventChan \in Seq(Event) /\ eventChan # <<>>
        BY DEF Take, StreamInv, TypeOK
    <1>3. /\ 1 \in 1..Len(eventChan)
          /\ e = eventChan[1] /\ e \in Event
        BY <1>1, <1>2, TailFacts
    <1>4. PICK k \in Conns : k = e.conn
        BY <1>3 DEF Event
    <1>5. ConnInv(k) /\ reader[k].next \in Nat /\ reader[k].last \in Nat /\ written[k] \in Nat
        BY DEF StreamInv, Flow, TypeOK, Reader
    <1>6. /\ e.n \in 1..(reader[k].next - 1)
          /\ \A n \in seen[k].taken : n < e.n
        BY <1>3, <1>4, <1>5 DEF ConnInv, QueueInv
    <1>7. e.n \in 1..written[k]
        BY <1>5, <1>6 DEF ConnInv, ReaderInv
    <1>8. seen' = [seen EXCEPT ![k].taken = @ \cup {e.n}] /\ UNCHANGED written
        BY <1>1, <1>4 DEF Take
    <1>9. Taken' = [Taken EXCEPT ![k] = @ \cup {e.n}] /\ Taken[k] = seen[k].taken
        BY <1>8 DEF StreamInv, TypeOK, History, Taken
    <1> QED
        BY <1>6, <1>7, <1>8, <1>9 DEF Link!Receive

LEMMA SameTaken ==
    ASSUME TypeOK, NEW k \in Conns, readEvents(k)
    PROVE  UNCHANGED <<written, Taken>>
    <1>1. UNCHANGED written
        BY DEF readEvents, ReadMessage, ReadFails, Push, CheckContext
    <1>2. ASSUME NEW j \in Conns PROVE seen'[j].taken = seen[j].taken
        <2>1. CASE ReadMessage(k)
            BY <2>1 DEF ReadMessage, TypeOK, History
        <2>2. CASE Push(k)
            <3>1. CASE Fits
                BY <2>2, <3>1 DEF Push
            <3>2. CASE ~Fits
                <4>1. seen' = [seen EXCEPT ![k].dropped = @ \cup {reader[k].next}]
                    BY <2>2, <3>2 DEF Push
                <4>2. seen \in [Conns -> History]
                    BY DEF TypeOK
                <4> QED
                    BY <4>1, <4>2 DEF History
            <3> QED
                BY <3>1, <3>2
        <2>3. CASE ReadFails(k) \/ CheckContext(k)
            BY <2>3 DEF ReadFails, CheckContext
        <2> QED
            BY <2>1, <2>2, <2>3 DEF readEvents
    <1> QED
        BY <1>1, <1>2 DEF Taken

LEMMA StepsAreLinkSteps ==
    ASSUME StreamInv, [Next]_vars
    PROVE  [Link!Next]_<<written, Taken>>
    <1> USE DEF StreamInv
    <1>1. ASSUME NEW k \in Conns, Open(k)
          PROVE  UNCHANGED <<written, Taken>>
        BY <1>1 DEF Open, Taken
    <1>2. ASSUME NEW k \in Conns, PeerWrites(k)
          PROVE  Link!Send(k) \/ UNCHANGED <<written, Taken>>
        <2>1. PICK events \in Batch(k), decodes \in BOOLEAN :
                 Write(k, events, decodes, TRUE)
            BY <1>2 DEF PeerWrites
        <2>2. events \in Nat /\ UNCHANGED seen
            BY <1>2, BatchIsNat DEF PeerWrites
        <2> QED
            BY <2>1, <2>2, WriteIsSend
    <1>3. ASSUME NEW k \in Conns, PeerCloses(k)
          PROVE  Link!Send(k) \/ UNCHANGED <<written, Taken>>
        <2>1. ASSUME NEW events \in Batch(k), Write(k, events, TRUE, FALSE)
              PROVE  Link!Send(k) \/ UNCHANGED <<written, Taken>>
            BY <1>3, <2>1, WriteIsSend, BatchIsNat DEF PeerCloses
        <2>2. CASE UNCHANGED <<wire, written>>
            BY <1>3, <2>2 DEF PeerCloses, Taken
        <2> QED
            BY <1>3, <2>1, <2>2 DEF PeerCloses
    <1>4. ASSUME NEW k \in Conns, ClientCloses(k)
          PROVE  UNCHANGED <<written, Taken>>
        BY <1>4 DEF ClientCloses, Taken
    <1>5. CASE SendReturns \/ ProcessorStops \/ Cancel \/ UNCHANGED vars
        BY <1>5 DEF SendReturns, ProcessorStops, Cancel, vars, Taken
    <1> QED
        BY <1>1, <1>2, <1>3, <1>4, <1>5, SameTaken, TakeIsReceive DEF Next, Link!Next

(* Whatever the readers, the channel and the two ends of every connection  *)
(* do, the processor receives from a connection what was written to it, in *)
(* the order of writing and at most once.                                  *)
THEOREM StreamImplementsLink == Spec => ImplementsLink
    <1>1. Init => Link!Init
        BY DEF Init, Link!Init, Taken
    <1>2. StreamInv /\ [Next]_vars => [Link!Next]_<<written, Taken>>
        BY StepsAreLinkSteps
    <1> QED
        BY <1>1, <1>2, StreamInvariant, PTL DEF Spec, ImplementsLink, Link!Spec
=============================================================================
