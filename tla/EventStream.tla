---------------------------- MODULE EventStream ----------------------------
(***************************************************************************)
(* internal/ipc/txpool_client.go: the way of an event from the txpool to   *)
(* the event processor.  Each connection has its wire and its reader       *)
(* (readEvents); all readers, old ones included, push into one bounded     *)
(* eventChan, which the processor empties.                                 *)
(*                                                                         *)
(* A message is one length-prefixed frame: the snapshot first, then vectors *)
(* of events.  The events of a connection are numbered from 1, so that a   *)
(* message is an interval of numbers.  Bytes are left out: a message may   *)
(* fail to decode, and the last one may be cut short by the end of the     *)
(* connection.  How connections come to be installed and closed is the     *)
(* subject of TxPoolClient; here any may be opened once and closed by      *)
(* either end at any time.                                                 *)
(***************************************************************************)
EXTENDS Naturals, Sequences, Functions

CONSTANTS
    Conns,      \* connections of a behaviour
    EventCap,   \* capacity of eventChan (1000 in the code)
    MaxBatch,   \* bound: events in a message
    MaxWritten  \* bound: events written to all connections together

ASSUME EventCapAssumption == EventCap \in Nat \ {0}
ASSUME BoundsAssumption == MaxBatch \in Nat /\ MaxWritten \in Nat

VARIABLES
    link,       \* the state of each connection
    wire,       \* messages written to it and not yet read
    written,    \* how many events they and all earlier ones hold
    reader,     \* where its readEvents is, and its locals
    eventChan,  \* the events pushed and not yet taken
    processor,  \* where processTxPoolEvents is
    cancelled,  \* the context is cancelled
    seen        \* history: what became of the events of each connection

vars == <<link, wire, written, reader, eventChan, processor, cancelled, seen>>

-----------------------------------------------------------------------------
LinkStates == {"unused", "open", "peerClosed", "closed"}
ReaderPC == {"none", "read", "push", "check", "ended"}
ProcessorPC == {"select", "send", "done"}

(* Events first..last, none when last = first - 1, as in every snapshot.   *)
Message == [first : Nat, last : Nat, decodes : BOOLEAN, whole : BOOLEAN]

(* first: it still expects the snapshot; next..last: what is left of the   *)
(* decoded message.                                                        *)
Reader == [at : ReaderPC, first : BOOLEAN, next : Nat, last : Nat]

(* What the channel carries.                                               *)
Event == [conn : Conns, n : Nat]

(* Events taken by the processor, dropped at a full channel, skipped with  *)
(* a message that does not decode; messages read to the end since the      *)
(* cancellation.                                                           *)
History == [taken : SUBSET Nat, dropped : SUBSET Nat, skipped : SUBSET Nat, late : Nat]

Init ==
    /\ link = [k \in Conns |-> "unused"]
    /\ wire = [k \in Conns |-> <<>>]
    /\ written = [k \in Conns |-> 0]
    /\ reader = [k \in Conns |-> [at |-> "none", first |-> TRUE, next |-> 1, last |-> 0]]
    /\ eventChan = <<>>
    /\ processor = "select"
    /\ cancelled = FALSE
    /\ seen = [k \in Conns |-> [taken |-> {}, dropped |-> {}, skipped |-> {}, late |-> 0]]

-----------------------------------------------------------------------------
(* The txpool, and the two ends of a connection.                           *)

WithinBound(events) == FoldFunction(+, events, written) <= MaxWritten

Write(k, events, decodes, whole) ==
    /\ WithinBound(events)
    /\ wire' = [wire EXCEPT ![k] = Append(@,
         [first |-> written[k] + 1, last |-> written[k] + events,
          decodes |-> decodes, whole |-> whole])]
    /\ written' = [written EXCEPT ![k] = @ + events]

(* A new connection and its reader.  A cancellation does not stop a dial   *)
(* that is under way.                                                      *)
Open(k) ==
    /\ link[k] = "unused"
    /\ link' = [link EXCEPT ![k] = "open"]
    /\ reader' = [reader EXCEPT ![k].at = "read"]
    /\ UNCHANGED <<wire, written, eventChan, processor, cancelled, seen>>

(* Nothing has been written yet: the snapshot comes first.                 *)
SnapshotDue(k) == reader[k].first /\ wire[k] = <<>>

(* How many events the next message may hold.                              *)
Batch(k) == IF SnapshotDue(k) THEN {0} ELSE 1..MaxBatch

PeerWrites(k) ==
    /\ link[k] = "open"
    /\ \E events \in Batch(k), decodes \in BOOLEAN : Write(k, events, decodes, TRUE)
    /\ UNCHANGED <<link, reader, eventChan, processor, cancelled, seen>>

(* The txpool closes, possibly in the middle of a message, the snapshot    *)
(* included.                                                               *)
PeerCloses(k) ==
    /\ link[k] = "open"
    /\ link' = [link EXCEPT ![k] = "peerClosed"]
    /\ \/ UNCHANGED <<wire, written>>
       \/ \E events \in Batch(k) : Write(k, events, TRUE, FALSE)
    /\ UNCHANGED <<reader, eventChan, processor, cancelled, seen>>

(* reconnectionLoop closes the installed connection, or Close does.        *)
ClientCloses(k) ==
    /\ link[k] \in {"open", "peerClosed"}
    /\ link' = [link EXCEPT ![k] = "closed"]
    /\ UNCHANGED <<wire, written, reader, eventChan, processor, cancelled, seen>>

-----------------------------------------------------------------------------
(* readEvents and readSnapshot of connection k.                            *)

Goto(k, at) == reader' = [reader EXCEPT ![k].at = at]

(* A message whose last byte has been read counts as late once cancelled.  *)
Late == IF cancelled THEN 1 ELSE 0

Readable(k) == link[k] # "closed" /\ wire[k] # <<>>

(* The reader once it has message m: a snapshot that does not decode ends  *)
(* it, a vector that does not is skipped as a whole.                       *)
Decoded(r, m) ==
    [at |-> IF m.decodes THEN (IF m.first <= m.last THEN "push" ELSE "check")
            ELSE (IF r.first THEN "ended" ELSE "check"),
     first |-> FALSE,
     next |-> IF m.decodes THEN m.first ELSE m.last + 1,
     last |-> m.last]

(* Mutant: waits for the rest of a message that does not decode.           *)
ReadMessageRetries(k) ==
    /\ reader[k].at = "read" /\ Readable(k)
    /\ LET m == Head(wire[k]) IN
       /\ m.whole
       /\ IF m.decodes \/ reader[k].first
          THEN /\ wire' = [wire EXCEPT ![k] = Tail(@)]
               /\ reader' = [reader EXCEPT ![k] = Decoded(reader[k], m)]
               /\ seen' = [seen EXCEPT ![k].late = @ + Late]
          ELSE UNCHANGED <<wire, reader, seen>>
    /\ UNCHANGED <<link, written, eventChan, processor, cancelled>>

(* The length, the data and their decoding.  The read of the data may wait *)
(* or fail as that of the length does, and nothing else happens between.   *)
ReadMessage(k) ==
    /\ reader[k].at = "read" /\ Readable(k)
    /\ LET m == Head(wire[k]) IN
       /\ m.whole
       /\ wire' = [wire EXCEPT ![k] = Tail(@)]
       /\ reader' = [reader EXCEPT ![k] = Decoded(reader[k], m)]
       /\ seen' = [seen EXCEPT ![k].late = @ + Late,
                     ![k].skipped = IF m.decodes THEN @ ELSE @ \cup (m.first..m.last)]
    /\ UNCHANGED <<link, written, eventChan, processor, cancelled>>

(* Nothing more will come, or not all of it.                               *)
ReadFails(k) ==
    /\ reader[k].at = "read"
    /\ \/ link[k] = "closed"
       \/ link[k] = "peerClosed" /\ wire[k] = <<>>
       \/ Readable(k) /\ ~Head(wire[k]).whole
    /\ Goto(k, "ended")
    /\ UNCHANGED <<link, wire, written, eventChan, processor, cancelled, seen>>

Fits == Len(eventChan) < EventCap

(* The reader past the first n events in its hands.                        *)
Past(r, n) == [r EXCEPT !.next = n + 1, !.at = IF n = r.last THEN "check" ELSE "push"]

Enqueue(k) == eventChan' = Append(eventChan, [conn |-> k, n |-> reader[k].next])

(* Mutant: does not ask whether there is room.                             *)
PushUnbounded(k) ==
    /\ reader[k].at = "push"
    /\ reader' = [reader EXCEPT ![k] = Past(@, @.next)]
    /\ Enqueue(k)
    /\ UNCHANGED <<link, wire, written, processor, cancelled, seen>>

(* Mutant: waits for room.                                                 *)
PushBlocks(k) ==
    /\ reader[k].at = "push" /\ Fits
    /\ reader' = [reader EXCEPT ![k] = Past(@, @.next)]
    /\ Enqueue(k)
    /\ UNCHANGED <<link, wire, written, processor, cancelled, seen>>

(* Mutant: hands the events of a message over from its end.                *)
PushFromEnd(k) ==
    /\ reader[k].at = "push"
    /\ LET r == reader[k] IN
       /\ reader' = [reader EXCEPT ![k].last = @ - 1,
                       ![k].at = IF r.next = r.last THEN "check" ELSE "push"]
       /\ IF Fits
          THEN /\ eventChan' = Append(eventChan, [conn |-> k, n |-> r.last])
               /\ UNCHANGED seen
          ELSE /\ seen' = [seen EXCEPT ![k].dropped = @ \cup {r.last}]
               /\ UNCHANGED eventChan
    /\ UNCHANGED <<link, wire, written, processor, cancelled>>

(* Mutant: makes room by throwing away the oldest event in the channel.    *)
PushEvicts(k) ==
    /\ reader[k].at = "push"
    /\ reader' = [reader EXCEPT ![k] = Past(@, @.next)]
    /\ IF Fits
       THEN Enqueue(k)
       ELSE eventChan' = Append(Tail(eventChan), [conn |-> k, n |-> reader[k].next])
    /\ UNCHANGED <<link, wire, written, processor, cancelled, seen>>

(* One event of the message; without room in the channel it is dropped.    *)
Push(k) ==
    /\ reader[k].at = "push"
    /\ reader' = [reader EXCEPT ![k] = Past(@, @.next)]
    /\ IF Fits
       THEN Enqueue(k) /\ UNCHANGED seen
       ELSE /\ seen' = [seen EXCEPT ![k].dropped = @ \cup {reader[k].next}]
            /\ UNCHANGED eventChan
    /\ UNCHANGED <<link, wire, written, processor, cancelled>>

(* Mutant: reads on after the cancellation.                                *)
CheckNothing(k) ==
    /\ reader[k].at = "check"
    /\ Goto(k, "read")
    /\ UNCHANGED <<link, wire, written, eventChan, processor, cancelled, seen>>

(* The select at the head of the loop: the context, or else a read.        *)
CheckContext(k) ==
    /\ reader[k].at = "check"
    /\ Goto(k, IF cancelled THEN "ended" ELSE "read")
    /\ UNCHANGED <<link, wire, written, eventChan, processor, cancelled, seen>>

readEvents(k) ==
    \/ ReadMessage(k) \/ ReadFails(k) \/ Push(k) \/ CheckContext(k)

-----------------------------------------------------------------------------
(* The processor, and Stop.                                                *)

(* An event; some make the processor send, which may take any time.        *)
Take ==
    /\ processor = "select" /\ eventChan # <<>>
    /\ processor' \in {"select", "send"}
    /\ LET e == Head(eventChan) IN
       seen' = [seen EXCEPT ![e.conn].taken = @ \cup {e.n}]
    /\ eventChan' = Tail(eventChan)
    /\ UNCHANGED <<link, wire, written, reader, cancelled>>

SendReturns ==
    /\ processor = "send"
    /\ processor' = "select"
    /\ UNCHANGED <<link, wire, written, reader, eventChan, cancelled, seen>>

ProcessorStops ==
    /\ processor = "select" /\ cancelled
    /\ processor' = "done"
    /\ UNCHANGED <<link, wire, written, reader, eventChan, cancelled, seen>>

Cancel ==
    /\ ~cancelled
    /\ cancelled' = TRUE
    /\ UNCHANGED <<link, wire, written, reader, eventChan, processor, seen>>

Next ==
    \/ \E k \in Conns :
         \/ Open(k) \/ PeerWrites(k) \/ PeerCloses(k) \/ ClientCloses(k)
         \/ readEvents(k)
    \/ Take \/ SendReturns \/ ProcessorStops \/ Cancel

Spec == Init /\ [][Next]_vars

(* Go runs a goroutine that can run, and a select with both cases ready    *)
(* does not pass over the context for ever.  Nothing is assumed of the     *)
(* peer, which may hold the processor in a send for ever (SendReturns is   *)
(* not fair), nor that anyone opens, closes or cancels.                    *)
Fairness ==
    /\ \A k \in Conns : WF_vars(readEvents(k))
    /\ WF_vars(Take) /\ SF_vars(ProcessorStops)

FairSpec == Spec /\ Fairness

-----------------------------------------------------------------------------
(* Types; eventChan never holds more than it was made for.                 *)
TypeOK ==
    /\ link \in [Conns -> LinkStates]
    /\ wire \in [Conns -> Seq(Message)]
    /\ written \in [Conns -> Nat]
    /\ reader \in [Conns -> Reader]
    /\ eventChan \in Seq(Event)
    /\ Len(eventChan) <= EventCap
    /\ processor \in ProcessorPC
    /\ cancelled \in BOOLEAN
    /\ seen \in [Conns -> History]

(* Where an event of connection k may be: on the wire, in the message the  *)
(* reader is handing over, in the channel, or past it.                     *)
OnWire(k) == UNION {wire[k][i].first..wire[k][i].last : i \in 1..Len(wire[k])}
InHand(k) == reader[k].next..reader[k].last
Queued(k) == {eventChan[i].n :
                i \in {j \in 1..Len(eventChan) : eventChan[j].conn = k}}
Places(k) == <<OnWire(k), InHand(k), Queued(k),
               seen[k].taken, seen[k].dropped, seen[k].skipped>>

(* Every event that was ever written to a connection is in exactly one     *)
(* place: no failure, full channel or bad message loses one unnoticed or   *)
(* delivers one twice, however many readers push at the same time.         *)
EventLedger ==
    \A k \in Conns :
        /\ \A n \in 1..written[k] : \E p \in 1..6 : n \in Places(k)[p]
        /\ \A p, q \in 1..6 : p # q => Places(k)[p] \cap Places(k)[q] = {}

(* The readers and the channel implement the link that the processor       *)
(* relies on: in order, at most once, nothing invented.                    *)
Taken == [k \in Conns |-> seen[k].taken]

Link == INSTANCE LossyLink WITH sent <- written, received <- Taken

ImplementsLink == Link!Spec

(* After a cancellation a reader finishes at most the message it is in.    *)
OneMessageAfterCancel == \A k \in Conns : seen[k].late <= 1

(* Waiting for bytes on a connection that nobody has closed.               *)
Blocked(k) ==
    /\ reader[k].at = "read"
    /\ link[k] = "open" /\ wire[k] = <<>>

(* A cancellation ends every reader, but for those that wait on an open    *)
(* and silent connection: neither a full channel that nobody empties any   *)
(* more nor a bad message holds one back.                                  *)
ReadersEnd ==
    cancelled ~> \A k \in Conns : reader[k].at \in {"none", "ended"} \/ Blocked(k)

(* Once the txpool falls silent every reader comes to the end of what was  *)
(* written, even while a send holds the processor, who is the only one to  *)
(* make room in the channel; and the channel empties, unless a send does   *)
(* hold the processor.                                                     *)
Drains ==
    <>[]\/ cancelled
        \/ /\ eventChan = <<>> \/ processor = "send"
           /\ \A k \in Conns : reader[k].at \in {"none", "ended"} \/ Blocked(k)
=============================================================================
