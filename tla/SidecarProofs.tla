--------------------------- MODULE SidecarProofs ---------------------------
(***************************************************************************)
(* What holds of Sidecar for every set of transactions, every calldata,    *)
(* every PoolMaxDuration, channel capacity and number of events.           *)
(***************************************************************************)
EXTENDS Sidecar, FiniteSetTheorems, SequenceTheorems, TLAPS

Maps == [Hashes -> Ages \cup {NoEntry}]

-----------------------------------------------------------------------------
(* The operations on the two maps: their results, and their effect on the  *)
(* set of keys and its size.                                               *)

LEMMA KeysFinite ==
    ASSUME NEW m \in Maps
    PROVE  /\ Keys(m) \subseteq Hashes
           /\ IsFiniteSet(Keys(m))
           /\ Cardinality(Keys(m)) \in Nat
    BY HashesAssumption, FS_Subset, FS_CardinalityType DEF Keys

LEMMA WithoutKeys ==
    ASSUME NEW m \in Maps, NEW S
    PROVE  /\ Without(m, S) \in Maps
           /\ Keys(Without(m, S)) = Keys(m) \ S
    BY DEF Without, Maps, Keys

LEMMA WithoutOne ==
    ASSUME NEW m \in Maps, NEW h \in Hashes
    PROVE  Cardinality(Keys(Without(m, {h}))) =
             IF h \in Keys(m) THEN Cardinality(Keys(m)) - 1
                              ELSE Cardinality(Keys(m))
    BY WithoutKeys, KeysFinite, FS_RemoveElement

LEMMA WithoutExpired ==
    ASSUME NEW m \in Maps
    PROVE  /\ Expired(m) \subseteq Keys(m)
           /\ Cardinality(Expired(m)) \in Nat
           /\ Cardinality(Keys(Without(m, Expired(m)))) =
                Cardinality(Keys(m)) - Cardinality(Expired(m))
    <1>1. Expired(m) \subseteq Keys(m)
        BY DEF Expired
    <1>2. IsFiniteSet(Expired(m)) /\ Cardinality(Expired(m)) \in Nat
        BY <1>1, KeysFinite, FS_Subset, FS_CardinalityType
    <1>3. Keys(m) \cap Expired(m) = Expired(m)
        BY <1>1
    <1>4. Cardinality(Keys(m) \ Expired(m)) =
            Cardinality(Keys(m)) - Cardinality(Expired(m))
        BY <1>3, KeysFinite, FS_Difference
    <1> QED
        BY <1>1, <1>2, <1>4, WithoutKeys

LEMMA EntryKeys ==
    ASSUME NEW m \in Maps, NEW h \in Hashes
    PROVE  /\ [m EXCEPT ![h] = 0] \in Maps
           /\ Keys([m EXCEPT ![h] = 0]) = Keys(m) \cup {h}
           /\ Cardinality(Keys([m EXCEPT ![h] = 0])) =
                IF h \in Keys(m) THEN Cardinality(Keys(m))
                                 ELSE Cardinality(Keys(m)) + 1
    <1>1. 0 \in Ages /\ 0 # NoEntry
        BY MaxDurationAssumption, NoEntryAssumption DEF Ages
    <1>2. [m EXCEPT ![h] = 0] \in Maps
        BY <1>1 DEF Maps
    <1>3. Keys([m EXCEPT ![h] = 0]) = Keys(m) \cup {h}
        BY <1>1 DEF Keys, Maps
    <1> QED
        BY <1>2, <1>3, KeysFinite, FS_AddElement

LEMMA AgedKeys ==
    ASSUME NEW m \in Maps
    PROVE  Aged(m) \in Maps /\ Keys(Aged(m)) = Keys(m)
    <1>1. ASSUME NEW h \in Hashes
          PROVE  /\ Aged(m)[h] \in Ages \cup {NoEntry}
                 /\ Aged(m)[h] # NoEntry <=> m[h] # NoEntry
        <2>1. CASE m[h] \in 0..MaxDuration
            <3>1. m[h] + 1 \in Ages /\ m[h] \in Nat /\ m[h] + 1 \in Nat
                BY <2>1, MaxDurationAssumption DEF Ages
            <3> QED
                BY <2>1, <3>1, NoEntryAssumption DEF Aged
        <2>2. CASE m[h] \notin 0..MaxDuration
            BY <2>2 DEF Aged, Maps
        <2> QED
            BY <2>1, <2>2
    <1> QED
        BY <1>1 DEF Aged, Maps, Keys

LEMMA AddType ==
    ASSUME ctr \in [Counters -> Nat], NEW c \in Counters, NEW n \in Nat
    PROVE  [ctr EXCEPT ![c] = @ + n] \in [Counters -> Nat]
    OBVIOUS

LEMMA BumpType ==
    ASSUME ctr \in [Counters -> Nat], NEW S, Bump(S)
    PROVE  ctr' \in [Counters -> Nat]
    BY DEF Bump

LEMMA HistoryType ==
    ASSUME hist \in History, NEW n \in Nat, NEW h \in Hashes, NEW b \in BOOLEAN
    PROVE  /\ [hist EXCEPT !.removed = @ + n] \in History
           /\ [hist EXCEPT !.restamped = @ + n] \in History
           /\ [hist EXCEPT !.lapsed = @ + n] \in History
           /\ [hist EXCEPT !.ownSends[h] = 0] \in History
           /\ [hist EXCEPT !.ownSends[h] = @ + 1] \in History
           /\ [hist EXCEPT !.oppSent = b] \in History
    <1>1. [hist EXCEPT !.removed = @ + n] \in History
        BY DEF History
    <1>2. [hist EXCEPT !.restamped = @ + n] \in History
        BY DEF History
    <1>3. [hist EXCEPT !.lapsed = @ + n] \in History
        BY DEF History
    <1>4. [hist EXCEPT !.ownSends[h] = 0] \in History
        BY DEF History
    <1>5. [hist EXCEPT !.ownSends[h] = @ + 1] \in History
        BY DEF History
    <1>6. [hist EXCEPT !.oppSent = b] \in History
        BY DEF History
    <1> QED
        BY <1>1, <1>2, <1>3, <1>4, <1>5, <1>6

LEMMA IdleType == Idle \in Processor /\ Resting \in Cleaner
    <1>1. \E e : e \in Event
        <2>1. PICK h \in Hashes : TRUE
            BY HashesAssumption
        <2>2. [action |-> "insert", tx |-> h] \in Event
            BY <2>1 DEF Event
        <2> QED
            BY <2>2
    <1>2. (CHOOSE e \in Event : TRUE) \in Event
        BY <1>1
    <1> QED
        BY <1>2 DEF Idle, Resting, Processor, Cleaner, ProcessorPC, CleanerPC, Roles

-----------------------------------------------------------------------------
(* Type correctness.                                                       *)

(* What an opportunity being streamed is: a transaction found in the pool. *)
SubjectOK ==
    proc.at \in {"fetch", "send", "track"} => Subject \in Hashes

TInv == TypeOK /\ SubjectOK

LEMMA ReturnType ==
    ASSUME TInv, NEW S, Return(S), proc.at \in {"fetch", "send", "track"}
    PROVE  /\ proc' \in Processor
           /\ ctr' \in [Counters -> Nat]
           /\ SubjectOK'
    <1>1. ctr' \in [Counters -> Nat]
        BY BumpType DEF Return, TInv, TypeOK
    <1>2. CASE proc.role = "opp"
        BY <1>1, <1>2 DEF Return, TInv, TypeOK, Processor, ProcessorPC, Roles,
                          SubjectOK, Subject, tx, Event
    <1>3. CASE proc.role # "opp"
        BY <1>1, <1>3, IdleType DEF Return, TInv, TypeOK, SubjectOK, Idle
    <1> QED
        BY <1>2, <1>3

LEMMA InitTInv == Init => TInv
    <1> SUFFICES ASSUME Init PROVE TInv
        OBVIOUS
    <1>1. hist \in History
        BY DEF Init, History
    <1>2. events \in Seq(Event) /\ Len(events) <= EventCap
        BY EventCapAssumption DEF Init
    <1>3. ctr \in [Counters -> Nat]
        BY DEF Init
    <1>4. fed \in 0..MaxEvents
        BY MaxEventsAssumption DEF Init
    <1>5. SubjectOK
        BY DEF Init, SubjectOK, Idle
    <1>6. /\ pool \in [Hashes -> Ages \cup {NoEntry}]
          /\ prioritized \in [Hashes -> Ages \cup {NoEntry}]
        BY DEF Init
    <1> QED
        BY <1>1, <1>2, <1>3, <1>4, <1>5, <1>6, IdleType DEF Init, TInv, TypeOK

LEMMA ProcessorTInv ==
    ASSUME TInv, processTxPoolEvents
    PROVE  TInv'
    <1> USE DEF TInv, TypeOK
    <1> /\ proc \in Processor /\ tx \in Hashes
        /\ proc.event \in Event /\ proc.role \in Roles /\ proc.size \in Nat
        BY DEF Processor, tx, Event
    <1>1. CASE Receive
        <2>1. Head(events) \in Event /\ Tail(events) \in Seq(Event)
              /\ Len(Tail(events)) <= EventCap
            BY <1>1, HeadTailProperties, EventCapAssumption DEF Receive
        <2>2. ctr' \in [Counters -> Nat]
            BY <1>1, BumpType DEF Receive
        <2> QED
            BY <1>1, <2>1, <2>2 DEF Receive, Processor, ProcessorPC, SubjectOK
    <1>2. CASE ProcessorStops
        BY <1>2 DEF ProcessorStops, Goto, Processor, ProcessorPC, SubjectOK
    <1>3. CASE MarshalFails
        BY <1>3, IdleType, BumpType DEF MarshalFails, SubjectOK, Idle
    <1>4. CASE Exists
        BY <1>4 DEF Exists, Goto, Processor, ProcessorPC, SubjectOK
    <1>5. CASE Echo
        BY <1>5, IdleType, BumpType, WithoutKeys DEF Echo, SubjectOK, Idle, Maps
    <1>6. CASE Add
        <2>1. pool' \in Maps
            BY <1>6, EntryKeys DEF Add, Maps
        <2>2. hist' \in History
            BY <1>6, HistoryType DEF Add
        <2> QED
            BY <1>6, <2>1, <2>2 DEF Add, Goto, Processor, ProcessorPC, SubjectOK, Maps
    <1>7. CASE ReadSize
        BY <1>7, KeysFinite DEF ReadSize, Size, Processor, ProcessorPC, SubjectOK, Maps
    <1>8. CASE Dispatch
        <2>1. ctr' \in [Counters -> Nat]
            BY <1>8, BumpType DEF Dispatch
        <2>2. proc' \in Processor /\ SubjectOK'
            BY <1>8, IdleType
            DEF Dispatch, Goto, Processor, ProcessorPC, Roles, SubjectOK, Subject,
                tx, Idle
        <2> QED
            BY <1>8, <2>1, <2>2 DEF Dispatch
    <1>9. CASE FindTarget
        <2>1. hist' \in History
            BY <1>9, HistoryType DEF FindTarget
        <2>2. proc' \in Processor /\ SubjectOK'
            BY <1>9, IdleType
            DEF FindTarget, Processor, ProcessorPC, Roles, SubjectOK, Subject, tx,
                Idle, Keys
        <2> QED
            BY <1>9, <2>1, <2>2 DEF FindTarget
    <1>10. CASE FetchRLP
        BY <1>10 DEF FetchRLP, Goto, Processor, ProcessorPC, SubjectOK, Subject, tx
    <1>11. CASE FetchFails
        BY <1>11, ReturnType DEF FetchFails
    <1>12. CASE SendFails
        BY <1>12, ReturnType DEF SendFails
    <1>13. CASE SendSucceeds
        <2>1. hist' \in History
            BY <1>13, HistoryType DEF SendSucceeds
        <2>2. proc' \in Processor /\ SubjectOK'
            BY <1>13
            DEF SendSucceeds, Goto, Processor, ProcessorPC, SubjectOK, Subject, tx
        <2> QED
            BY <1>13, <2>1, <2>2, BumpType DEF SendSucceeds
    <1>14. CASE Track
        <2>1. hist' \in History
            BY <1>14, HistoryType DEF Track
        <2>2. prioritized' \in Maps
            BY <1>14, EntryKeys DEF Track, SubjectOK, Maps
        <2> QED
            BY <1>14, <2>1, <2>2, ReturnType DEF Track, Maps
    <1>15. CASE removePrioritizedTx
        BY <1>15, BumpType, WithoutKeys
        DEF removePrioritizedTx, Goto, Processor, ProcessorPC, SubjectOK, Maps
    <1>16. CASE RemoveTransaction
        <2>1. hist' \in History
            BY <1>16, HistoryType DEF RemoveTransaction
        <2> QED
            BY <1>16, <2>1, IdleType, WithoutKeys
            DEF RemoveTransaction, SubjectOK, Idle, Maps
    <1> QED
        BY <1>1, <1>2, <1>3, <1>4, <1>5, <1>6, <1>7, <1>8, <1>9, <1>10, <1>11,
           <1>12, <1>13, <1>14, <1>15, <1>16 DEF processTxPoolEvents

LEMMA CleanerTInv ==
    ASSUME TInv, cleanupOldTransactions
    PROVE  TInv'
    <1> USE DEF TInv, TypeOK, Cleaner, CleanerPC
    <1> Size \in Nat
        BY KeysFinite DEF Size, Maps
    <1>1. CASE Tick
        BY <1>1 DEF Tick, SubjectOK, Subject, tx
    <1>2. CASE CleanerStops
        BY <1>2 DEF CleanerStops, SubjectOK, Subject, tx
    <1>3. CASE CleanupOldTransactions
        <2>1. hist' \in History
            BY <1>3, WithoutExpired, HistoryType, HashesAssumption
            DEF CleanupOldTransactions, Maps
        <2> QED
            BY <1>3, <2>1, WithoutKeys
            DEF CleanupOldTransactions, SubjectOK, Subject, tx, Maps
    <1>4. CASE CountExpired
        <2>1. ExpiredCount(clean.before, Size) \in Nat
            BY DEF ExpiredCount
        <2>2. "TxExpired" \in Counters
            BY DEF Counters
        <2>3. ctr' \in [Counters -> Nat]
            BY <1>4, <2>1, <2>2, AddType DEF CountExpired
        <2> QED
            BY <1>4, <2>3 DEF CountExpired, SubjectOK, Subject, tx
    <1>5. CASE StoreSizeAfter
        BY <1>5 DEF StoreSizeAfter, SubjectOK, Subject, tx
    <1>6. CASE LapsePrioritized
        <2>1. hist' \in History
            BY <1>6, WithoutExpired, HistoryType, HashesAssumption
            DEF LapsePrioritized, Maps
        <2> QED
            BY <1>6, <2>1, WithoutKeys, IdleType
            DEF LapsePrioritized, SubjectOK, Subject, tx, Maps
    <1> QED
        BY <1>1, <1>2, <1>3, <1>4, <1>5, <1>6 DEF cleanupOldTransactions

LEMMA NextTInv == TInv /\ [Next]_vars => TInv'
    <1> SUFFICES ASSUME TInv, [Next]_vars PROVE TInv'
        OBVIOUS
    <1> USE DEF TInv, TypeOK
    <1>1. CASE NodeEvent
        <2>1. events' \in Seq(Event) /\ Len(events') <= EventCap
            BY <1>1, AppendProperties, EventCapAssumption, FeedAssumption
            DEF NodeEvent
        <2> QED
            BY <1>1, <2>1, MaxEventsAssumption
            DEF NodeEvent, SubjectOK, Subject, tx
    <1>2. CASE Clock
        BY <1>2, AgedKeys DEF Clock, SubjectOK, Subject, tx, Maps
    <1>3. CASE Stop
        BY <1>3 DEF Stop, SubjectOK, Subject, tx
    <1>4. CASE UNCHANGED vars
        BY <1>4 DEF vars, SubjectOK, Subject, tx
    <1> QED
        BY <1>1, <1>2, <1>3, <1>4, ProcessorTInv, CleanerTInv DEF Next

(* The state stays within its types, so no counter or gauge underflows.    *)
THEOREM TypeCorrect == Spec => []TypeOK
    <1>1. Spec => []TInv
        BY InitTInv, NextTInv, PTL DEF Spec
    <1> QED
        BY <1>1, PTL DEF TInv

-----------------------------------------------------------------------------
(* The ledger of sends.                                                    *)

SendCounters == {"TxSentToNode", "RoundTrips", "CommittedBeforeEcho",
                 "DroppedBeforeEcho", "EvictedBeforeEcho"}

LEMMA BumpValue ==
    ASSUME NEW S, Bump(S), NEW c \in Counters
    PROVE  ctr'[c] = IF c \in S THEN ctr[c] + 1 ELSE ctr[c]
    BY DEF Bump

LEMMA IdleAt == Idle.at = "select"
    BY DEF Idle

(* A step that leaves every term of the ledger as it was.                  *)
SendsUnchanged ==
    /\ Cardinality(Keys(prioritized')) = Cardinality(Keys(prioritized))
    /\ \A c \in SendCounters : ctr'[c] = ctr[c]
    /\ hist'.restamped = hist.restamped /\ hist'.lapsed = hist.lapsed
    /\ proc'.at = "track" <=> proc.at = "track"

LEMMA SendsUnchangedOK ==
    ASSUME SendLedger, SendsUnchanged
    PROVE  SendLedger'
    BY DEF SendLedger, SendsUnchanged, Settled, One, SendCounters

LEMMA ProcessorSendLedger ==
    ASSUME TInv, SendLedger, processTxPoolEvents
    PROVE  SendLedger'
    <1> SendCounters \subseteq Counters
        BY DEF SendCounters, Counters
    <1> /\ prioritized \in Maps /\ proc \in Processor /\ hist \in History
        /\ ctr \in [Counters -> Nat]
        /\ tx \in Hashes
        BY DEF TInv, TypeOK, Maps, Processor, Event, tx
    <1> Cardinality(Keys(prioritized)) \in Nat
        BY KeysFinite
    <1>1. CASE Echo
        <2>1. \A c \in SendCounters \ {"RoundTrips"} : ctr'[c] = ctr[c]
            BY <1>1, BumpValue DEF Echo, SendCounters, Counters
        <2>2. ctr'["RoundTrips"] =
                ctr["RoundTrips"] + One(tx \in Keys(prioritized))
            BY <1>1, BumpValue DEF Echo, Counters, One
        <2>3. Cardinality(Keys(prioritized')) =
                Cardinality(Keys(prioritized)) - One(tx \in Keys(prioritized))
            BY <1>1, WithoutOne DEF Echo, One
        <2>4. /\ proc.at = "echo" /\ proc'.at = "select" /\ hist' = hist
            BY <1>1, IdleAt DEF Echo
        <2> QED
            BY <2>1, <2>2, <2>3, <2>4
            DEF SendLedger, Settled, One, SendCounters, History, Counters
    <1>2. CASE removePrioritizedTx
        <2> DEFINE k == BeforeEchoCounter(proc.event.action)
        <2>1. k \in {"CommittedBeforeEcho", "DroppedBeforeEcho", "EvictedBeforeEcho"}
            BY DEF BeforeEchoCounter
        <2>2. \A c \in SendCounters \ {k} : ctr'[c] = ctr[c]
            BY <1>2, <2>1, BumpValue DEF removePrioritizedTx, SendCounters, Counters
        <2>3. ctr'[k] = ctr[k] + One(tx \in Keys(prioritized))
            BY <1>2, <2>1, BumpValue DEF removePrioritizedTx, Counters, One
        <2>4. Cardinality(Keys(prioritized')) =
                Cardinality(Keys(prioritized)) - One(tx \in Keys(prioritized))
            BY <1>2, WithoutOne DEF removePrioritizedTx, One
        <2>5. /\ proc.at = "untrack" /\ proc'.at = "remove" /\ hist' = hist
            BY <1>2 DEF removePrioritizedTx, Goto, Processor
        <2> HIDE DEF k
        <2> QED
            BY <2>1, <2>2, <2>3, <2>4, <2>5
            DEF SendLedger, Settled, One, SendCounters, History, Counters
    <1>3. CASE SendSucceeds
        <2>1. \A c \in SendCounters \ {"TxSentToNode"} : ctr'[c] = ctr[c]
            BY <1>3, BumpValue DEF SendSucceeds, SendCounters, Counters
        <2>2. ctr'["TxSentToNode"] = ctr["TxSentToNode"] + 1
            BY <1>3, BumpValue DEF SendSucceeds, Counters
        <2>3. /\ proc.at = "send" /\ proc'.at = "track"
              /\ hist'.restamped = hist.restamped /\ hist'.lapsed = hist.lapsed
              /\ prioritized' = prioritized
            BY <1>3 DEF SendSucceeds, Goto, Processor, History
        <2> QED
            BY <2>1, <2>2, <2>3
            DEF SendLedger, Settled, One, SendCounters, History, Counters
    <1>4. CASE Track
        <2>1. Subject \in Hashes
            BY <1>4 DEF Track, TInv, SubjectOK
        <2>2. Cardinality(Keys(prioritized')) =
                Cardinality(Keys(prioritized)) + 1 - One(Subject \in Keys(prioritized))
            <3>1. prioritized' = [prioritized EXCEPT ![Subject] = 0]
                BY <1>4 DEF Track
            <3>2. Cardinality(Keys([prioritized EXCEPT ![Subject] = 0])) =
                    IF Subject \in Keys(prioritized)
                    THEN Cardinality(Keys(prioritized))
                    ELSE Cardinality(Keys(prioritized)) + 1
                BY <2>1, EntryKeys
            <3> QED
                BY <3>1, <3>2 DEF One
        <2>3. /\ hist'.restamped =
                   hist.restamped + One(Subject \in Keys(prioritized))
              /\ hist'.lapsed = hist.lapsed
            BY <1>4 DEF Track, One, History
        <2>4. \A c \in SendCounters : ctr'[c] = ctr[c]
            BY <1>4, BumpValue DEF Track, Return, SendCounters, Counters
        <2>5. proc.at = "track" /\ proc'.at # "track"
            BY <1>4, IdleAt DEF Track, Return, Processor
        <2> QED
            BY <2>2, <2>3, <2>4, <2>5
            DEF SendLedger, Settled, One, SendCounters, History, Counters
    <1>6. CASE Receive
        <2>1. \A c \in SendCounters : ctr'[c] = ctr[c]
            <3>1. PICK S \in SUBSET {"TxReceivedFromNode", "TxDropped"} : Bump(S)
                BY <1>6 DEF Receive
            <3> QED
                BY <3>1, BumpValue DEF SendCounters, Counters
        <2>2. proc'.at # "track"
            BY <1>6 DEF Receive, Processor
        <2> QED
            BY <1>6, <2>1, <2>2, SendsUnchangedOK DEF SendsUnchanged, Receive
    <1>7. CASE Dispatch
        <2>1. \A c \in SendCounters : ctr'[c] = ctr[c]
            BY <1>7, BumpValue DEF Dispatch, SendCounters, Counters
        <2>2. proc'.at # "track"
            BY <1>7, IdleAt DEF Dispatch, Goto, Processor
        <2> QED
            BY <1>7, <2>1, <2>2, SendsUnchangedOK DEF SendsUnchanged, Dispatch
    <1>8. CASE MarshalFails
        <2>1. \A c \in SendCounters : ctr'[c] = ctr[c]
            BY <1>8, BumpValue DEF MarshalFails, SendCounters, Counters
        <2> QED
            BY <1>8, <2>1, IdleAt, SendsUnchangedOK DEF SendsUnchanged, MarshalFails
    <1>9. ASSUME Return({"SendErrors"}), proc.at # "track",
                 UNCHANGED <<prioritized, hist>>
          PROVE  SendLedger'
        <2>1. \A c \in SendCounters : ctr'[c] = ctr[c]
            BY <1>9, BumpValue DEF Return, SendCounters, Counters
        <2>2. proc'.at # "track"
            BY <1>9, IdleAt DEF Return, Processor
        <2> QED
            BY <1>9, <2>1, <2>2, SendsUnchangedOK DEF SendsUnchanged
    <1>10. CASE FetchFails
        BY <1>9, <1>10 DEF FetchFails
    <1>11. CASE SendFails
        BY <1>9, <1>11 DEF SendFails
    <1>12. CASE ProcessorStops \/ Exists \/ ReadSize \/ FetchRLP
        <2>1. /\ proc'.at # "track" /\ proc.at # "track"
              /\ prioritized' = prioritized /\ hist' = hist /\ ctr' = ctr
            BY <1>12 DEF ProcessorStops, Exists, ReadSize, FetchRLP, Goto, Processor
        <2> QED
            BY <2>1, SendsUnchangedOK DEF SendsUnchanged
    <1>13. CASE Add \/ FindTarget \/ RemoveTransaction
        <2>1. /\ hist'.restamped = hist.restamped /\ hist'.lapsed = hist.lapsed
            BY <1>13 DEF Add, FindTarget, RemoveTransaction, History
        <2>2. proc'.at # "track" /\ proc.at # "track"
            BY <1>13, IdleAt DEF Add, FindTarget, RemoveTransaction, Goto, Processor
        <2>3. prioritized' = prioritized /\ ctr' = ctr
            BY <1>13 DEF Add, FindTarget, RemoveTransaction
        <2> QED
            BY <2>1, <2>2, <2>3, SendsUnchangedOK DEF SendsUnchanged
    <1> QED
        BY <1>1, <1>2, <1>3, <1>4, <1>6, <1>7, <1>8, <1>10, <1>11, <1>12, <1>13
        DEF processTxPoolEvents

LEMMA NextSendLedger == TInv /\ SendLedger /\ [Next]_vars => SendLedger'
    <1> SUFFICES ASSUME TInv, SendLedger, [Next]_vars PROVE SendLedger'
        OBVIOUS
    <1> /\ prioritized \in Maps /\ hist \in History /\ ctr \in [Counters -> Nat]
        BY DEF TInv, TypeOK, Maps
    <1>1. CASE LapsePrioritized
        <2>1. /\ Cardinality(Keys(prioritized)) \in Nat
              /\ Cardinality(Expired(prioritized)) \in Nat
              /\ Cardinality(Keys(prioritized')) =
                   Cardinality(Keys(prioritized)) - Cardinality(Expired(prioritized))
            BY <1>1, KeysFinite, WithoutExpired DEF LapsePrioritized
        <2>2. /\ hist'.lapsed = hist.lapsed + Cardinality(Expired(prioritized))
              /\ hist'.restamped = hist.restamped
              /\ proc' = proc /\ ctr' = ctr
            BY <1>1 DEF LapsePrioritized, History
        <2> QED
            BY <2>1, <2>2 DEF SendLedger, Settled, One, History, Counters
    <1>2. CASE CountExpired
        <2>1. \A c \in SendCounters : ctr'[c] = ctr[c]
            BY <1>2 DEF CountExpired, SendCounters, Counters
        <2> QED
            BY <1>2, <2>1, SendsUnchangedOK DEF SendsUnchanged, CountExpired
    <1>3. CASE CleanupOldTransactions
        BY <1>3, SendsUnchangedOK DEF SendsUnchanged, CleanupOldTransactions, History
    <1>4. CASE Tick \/ CleanerStops \/ StoreSizeAfter
        BY <1>4, SendsUnchangedOK
        DEF SendsUnchanged, Tick, CleanerStops, StoreSizeAfter
    <1>5. CASE NodeEvent \/ Stop \/ UNCHANGED vars
        BY <1>5, SendsUnchangedOK DEF SendsUnchanged, NodeEvent, Stop, vars
    <1>6. CASE Clock
        BY <1>6, AgedKeys, SendsUnchangedOK DEF SendsUnchanged, Clock
    <1> QED
        BY <1>1, <1>2, <1>3, <1>4, <1>5, <1>6, ProcessorSendLedger
        DEF Next, cleanupOldTransactions

(* The ledger of sends balances in every reachable state.                  *)
THEOREM SendLedgerBalances == Spec => []SendLedger
    <1>1. Init => SendLedger
        <2> SUFFICES ASSUME Init PROVE SendLedger
            OBVIOUS
        <2>1. Keys(prioritized) = {}
            BY DEF Init, Keys
        <2>2. Cardinality({}) = 0
            BY FS_EmptySet
        <2>3. /\ \A c \in SendCounters : ctr[c] = 0
              /\ hist.restamped = 0 /\ hist.lapsed = 0
              /\ proc.at # "track"
            BY IdleAt DEF Init, SendCounters, Counters
        <2> QED
            BY <2>1, <2>2, <2>3
            DEF SendLedger, Settled, One, SendCounters
    <1> QED
        BY <1>1, InitTInv, NextTInv, NextSendLedger, PTL DEF Spec

-----------------------------------------------------------------------------
(* TxExpired.  While the cleaner holds a size it read before its purge,    *)
(* what it may still add is bounded by what has left the pool since then.  *)

ExpiredInv ==
    /\ ExpiredBounded
    /\ clean.at \in {"purge", "count"} =>
         ctr["TxExpired"] + clean.before <= hist.removed + Size

(* A step after which no less has left the pool, counting what is in it.   *)
ExpiredMonotone ==
    /\ ctr'["TxExpired"] = ctr["TxExpired"]
    /\ hist'.removed >= hist.removed
    /\ hist'.removed + Size' >= hist.removed + Size
    /\ clean'.at \in {"purge", "count"} =>
         clean.at \in {"purge", "count"} /\ clean'.before = clean.before

LEMMA SizeType ==
    ASSUME TypeOK
    PROVE  /\ Size \in Nat
           /\ ctr["TxExpired"] \in Nat
           /\ hist.removed \in Nat
           /\ clean.before \in Nat
    BY KeysFinite DEF TypeOK, Size, Maps, History, Cleaner, Counters

LEMMA ExpiredMonotoneOK ==
    ASSUME TypeOK, TypeOK', ExpiredInv, ExpiredMonotone
    PROVE  ExpiredInv'
    <1>1. /\ Size' \in Nat /\ ctr'["TxExpired"] \in Nat
          /\ hist'.removed \in Nat /\ clean'.before \in Nat
        BY KeysFinite DEF TypeOK, Size, Maps, History, Cleaner, Counters
    <1> QED
        BY <1>1, SizeType DEF ExpiredInv, ExpiredBounded, ExpiredMonotone

LEMMA NextExpiredInv == TInv /\ TInv' /\ ExpiredInv /\ [Next]_vars => ExpiredInv'
    <1> SUFFICES ASSUME TInv, TInv', ExpiredInv, [Next]_vars PROVE ExpiredInv'
        OBVIOUS
    <1> /\ pool \in Maps /\ hist \in History /\ clean \in Cleaner
        /\ TypeOK /\ TypeOK' /\ tx \in Hashes
        BY DEF TInv, TypeOK, Maps, Processor, Event, tx
    <1>s. /\ Size \in Nat /\ ctr["TxExpired"] \in Nat
          /\ hist.removed \in Nat /\ clean.before \in Nat
        BY SizeType
    <1>b. ASSUME NEW S, Bump(S), "TxExpired" \notin S
          PROVE  ctr'["TxExpired"] = ctr["TxExpired"]
        BY <1>b, BumpValue DEF Counters
    <1>1. CASE Tick
        BY <1>1, <1>s DEF Tick, ExpiredInv, ExpiredBounded, Size, Cleaner
    <1>2. CASE CleanerStops \/ StoreSizeAfter
        BY <1>2, <1>s, ExpiredMonotoneOK
        DEF CleanerStops, StoreSizeAfter, ExpiredMonotone, Size, Cleaner
    <1>3. CASE CleanupOldTransactions
        <2>1. /\ Cardinality(Expired(pool)) \in Nat
              /\ Size' = Size - Cardinality(Expired(pool))
            BY <1>3, WithoutExpired DEF CleanupOldTransactions, Size
        <2>2. hist'.removed = hist.removed + Cardinality(Expired(pool))
            BY <1>3 DEF CleanupOldTransactions, History
        <2>3. /\ ctr' = ctr /\ clean.at = "purge"
              /\ clean'.before = clean.before
            BY <1>3 DEF CleanupOldTransactions, Cleaner
        <2> QED
            BY <2>1, <2>2, <2>3, <1>s, ExpiredMonotoneOK DEF ExpiredMonotone
    <1>4. CASE CountExpired
        <2>1. ctr'["TxExpired"] =
                ctr["TxExpired"] + ExpiredCount(clean.before, Size)
            BY <1>4 DEF CountExpired, TypeOK, Counters
        <2>2. /\ clean.at = "count" /\ clean'.at = "gauge" /\ hist' = hist
            BY <1>4 DEF CountExpired, Cleaner
        <2> QED
            BY <2>1, <2>2, <1>s DEF ExpiredInv, ExpiredBounded, ExpiredCount
    <1>5. CASE LapsePrioritized
        <2>1. hist'.removed = hist.removed
            BY <1>5 DEF LapsePrioritized, History
        <2> QED
            BY <1>5, <2>1, <1>s, ExpiredMonotoneOK
            DEF LapsePrioritized, ExpiredMonotone, Size, Resting
    <1>6. CASE Add
        <2>1. Size' >= Size /\ Size' \in Nat
            <3>1. CASE tx \in Keys(pool)
                BY <1>6, <3>1, <1>s DEF Add, Size
            <3>2. CASE tx \notin Keys(pool)
                BY <1>6, <3>2, <1>s, EntryKeys DEF Add, Size
            <3> QED
                BY <3>1, <3>2
        <2>2. hist'.removed = hist.removed
            BY <1>6 DEF Add, History
        <2> QED
            BY <1>6, <2>1, <2>2, <1>s, ExpiredMonotoneOK DEF Add, ExpiredMonotone
    <1>7. CASE RemoveTransaction
        <2>1. Size' = Size - One(tx \in Keys(pool))
            BY <1>7, <1>s, WithoutOne DEF RemoveTransaction, Size, One
        <2>2. hist'.removed = hist.removed + One(tx \in Keys(pool))
            BY <1>7 DEF RemoveTransaction, History, One
        <2> QED
            BY <1>7, <2>1, <2>2, <1>s, ExpiredMonotoneOK
            DEF RemoveTransaction, ExpiredMonotone, One
    <1>8. CASE UNCHANGED <<pool, clean, hist, ctr>>
        BY <1>8, <1>s, ExpiredMonotoneOK DEF ExpiredMonotone, Size
    <1>9. CASE Clock
        BY <1>9, <1>s, AgedKeys, ExpiredMonotoneOK DEF Clock, ExpiredMonotone, Size
    <1>10. ASSUME UNCHANGED <<pool, clean>>, hist'.removed = hist.removed,
                  NEW S, Bump(S), "TxExpired" \notin S
           PROVE  ExpiredInv'
        BY <1>10, <1>b, <1>s, ExpiredMonotoneOK DEF ExpiredMonotone, Size
    <1>11. CASE Receive
        <2>1. PICK S \in SUBSET {"TxReceivedFromNode", "TxDropped"} : Bump(S)
            BY <1>11 DEF Receive
        <2> QED
            BY <1>10, <1>11, <2>1 DEF Receive
    <1>12. CASE MarshalFails
        BY <1>10, <1>12 DEF MarshalFails
    <1>13. CASE Dispatch
        <2>1. PICK S \in SUBSET {"TOBBidsProcessed", "BackrunBidsProcessed",
                                 "NormalTxsProcessed"} : Bump(S)
            BY <1>13 DEF Dispatch
        <2> QED
            BY <1>10, <1>13, <2>1 DEF Dispatch
    <1>14. CASE Echo \/ removePrioritizedTx
        <2>1. PICK S \in SUBSET {"RoundTrips", "CommittedBeforeEcho",
                                 "DroppedBeforeEcho", "EvictedBeforeEcho"} : Bump(S)
            BY <1>14 DEF Echo, removePrioritizedTx, BeforeEchoCounter
        <2> QED
            BY <1>10, <1>14, <2>1 DEF Echo, removePrioritizedTx
    <1>15. CASE FetchFails \/ SendFails \/ SendSucceeds \/ Track
        <2>1. PICK S \in SUBSET {"SendErrors", "TxSentToNode",
                                 "BackrunPairsMatched"} : Bump(S)
            BY <1>15 DEF FetchFails, SendFails, SendSucceeds, Track, Return
        <2>2. hist'.removed = hist.removed
            BY <1>15 DEF FetchFails, SendFails, SendSucceeds, Track, History
        <2> QED
            BY <1>10, <1>15, <2>1, <2>2 DEF FetchFails, SendFails, SendSucceeds, Track
    <1>16. CASE FindTarget
        <2>1. hist'.removed = hist.removed
            BY <1>16 DEF FindTarget, History
        <2> QED
            BY <1>16, <2>1, <1>s, ExpiredMonotoneOK DEF FindTarget, ExpiredMonotone, Size
    <1>17. CASE NodeEvent \/ Stop \/ ProcessorStops \/ Exists \/ ReadSize
                \/ FetchRLP \/ UNCHANGED vars
        BY <1>8, <1>17
        DEF NodeEvent, Stop, ProcessorStops, Exists, ReadSize, FetchRLP, vars
    <1> QED
        BY <1>1, <1>2, <1>3, <1>4, <1>5, <1>6, <1>7, <1>9, <1>11, <1>12, <1>13,
           <1>14, <1>15, <1>16, <1>17
        DEF Next, processTxPoolEvents, cleanupOldTransactions

(* TxExpired never exceeds the number of transactions that left the pool.  *)
THEOREM ExpiredIsBounded == Spec => []ExpiredBounded
    <1>1. Init => ExpiredInv
        BY DEF Init, ExpiredInv, ExpiredBounded, Resting, Counters
    <1>2. Spec => []ExpiredInv
        BY <1>1, InitTInv, NextTInv, NextExpiredInv, PTL DEF Spec
    <1> QED
        BY <1>2, PTL DEF ExpiredInv

-----------------------------------------------------------------------------
(* One send per residency.  The test of Exists is still true when Add runs *)
(* because only the processor adds, and the counter of own sends is zero   *)
(* from Add until the bid itself has been streamed.                        *)

OwnSendPending ==
    \/ proc.at \in {"size", "gauge", "target", "fetch", "send"}
    \/ proc.at = "track" /\ proc.role = "opp"

OwnInv ==
    /\ OneSendPerResidency
    /\ proc.at = "add" => tx \notin Keys(pool)
    /\ OwnSendPending => hist.ownSends[tx] = 0

LEMMA OwnInvKeeps ==
    ASSUME OwnInv, UNCHANGED proc, hist'.ownSends = hist.ownSends,
           Keys(pool') \subseteq Keys(pool)
    PROVE  OwnInv'
    BY DEF OwnInv, OneSendPerResidency, OwnSendPending, tx

LEMMA OwnInvIdle ==
    ASSUME OwnInv, proc'.at \in {"select", "exists", "untrack", "echo", "remove", "done"},
           hist'.ownSends = hist.ownSends
    PROVE  OwnInv'
    BY DEF OwnInv, OneSendPerResidency, OwnSendPending

LEMMA NextOwnInv == TInv /\ OwnInv /\ [Next]_vars => OwnInv'
    <1> SUFFICES ASSUME TInv, OwnInv, [Next]_vars PROVE OwnInv'
        OBVIOUS
    <1> /\ pool \in Maps /\ hist \in History /\ proc \in Processor /\ tx \in Hashes
        BY DEF TInv, TypeOK, Maps, Processor, Event, tx
    <1>1. CASE Receive \/ ProcessorStops \/ MarshalFails \/ Echo \/ removePrioritizedTx
        BY <1>1, IdleAt, OwnInvIdle
        DEF Receive, ProcessorStops, MarshalFails, Echo, removePrioritizedTx, Goto,
            Processor
    <1>2. CASE Exists
        BY <1>2 DEF Exists, Goto, Processor, OwnInv, OneSendPerResidency,
                    OwnSendPending, tx
    <1>3. CASE Add
        <2>1. tx \notin Keys(pool)
            BY <1>3 DEF Add, OwnInv
        <2>2. hist'.ownSends = [hist.ownSends EXCEPT ![tx] = 0]
            BY <1>3, <2>1 DEF Add, History
        <2>3. tx' = tx /\ proc'.at = "size"
            BY <1>3 DEF Add, Goto, tx, Processor
        <2> QED
            BY <2>2, <2>3 DEF OwnInv, OneSendPerResidency, OwnSendPending, History
    <1>4. CASE ReadSize
        BY <1>4 DEF ReadSize, Processor, OwnInv, OneSendPerResidency,
                    OwnSendPending, tx
    <1>5. CASE Dispatch
        BY <1>5, IdleAt DEF Dispatch, Goto, Processor, OwnInv, OneSendPerResidency,
                            OwnSendPending, tx
    <1>6. CASE FindTarget
        <2>1. hist'.ownSends = hist.ownSends
            BY <1>6 DEF FindTarget, History
        <2> QED
            BY <1>6, <2>1, IdleAt
            DEF FindTarget, Processor, OwnInv, OneSendPerResidency, OwnSendPending, tx
    <1>7. CASE FetchRLP
        BY <1>7 DEF FetchRLP, Goto, Processor, OwnInv, OneSendPerResidency,
                    OwnSendPending, tx
    <1>8. ASSUME NEW S, Return(S), OwnSendPending \/ proc.role # "opp",
                 hist'.ownSends = hist.ownSends
          PROVE  OwnInv'
        BY <1>8, IdleAt DEF Return, Processor, OwnInv, OneSendPerResidency,
                            OwnSendPending, tx
    <1>9. CASE FetchFails \/ SendFails
        BY <1>8, <1>9 DEF FetchFails, SendFails, OwnSendPending
    <1>10. CASE SendSucceeds
        <2>1. /\ proc.at = "send" /\ proc'.at = "track" /\ proc'.role = proc.role
              /\ tx' = tx
            BY <1>10 DEF SendSucceeds, Goto, Processor, tx
        <2>2. hist.ownSends[tx] = 0
            BY <2>1 DEF OwnInv, OwnSendPending
        <2>3. CASE proc.role = "opp"
            <3>1. hist'.ownSends = hist.ownSends
                BY <1>10, <2>3 DEF SendSucceeds, History
            <3> QED
                BY <2>1, <2>2, <3>1 DEF OwnInv, OneSendPerResidency, OwnSendPending
        <2>4. CASE proc.role # "opp"
            <3>1. hist'.ownSends = [hist.ownSends EXCEPT ![tx] = 1]
                BY <1>10, <2>2, <2>4 DEF SendSucceeds, History
            <3> QED
                BY <2>1, <2>4, <3>1
                DEF OwnInv, OneSendPerResidency, OwnSendPending, History
        <2> QED
            BY <2>3, <2>4
    <1>11. CASE Track
        <2>1. hist'.ownSends = hist.ownSends
            BY <1>11 DEF Track, History
        <2> QED
            BY <1>8, <1>11, <2>1 DEF Track, OwnSendPending
    <1>12. CASE RemoveTransaction
        <2>1. hist'.ownSends = hist.ownSends
            BY <1>12 DEF RemoveTransaction, History
        <2> QED
            BY <1>12, <2>1, IdleAt, OwnInvIdle DEF RemoveTransaction
    <1>13. CASE CleanupOldTransactions
        <2>1. hist'.ownSends = hist.ownSends
            BY <1>13 DEF CleanupOldTransactions, History
        <2> QED
            BY <1>13, <2>1, WithoutKeys, OwnInvKeeps DEF CleanupOldTransactions
    <1>14. CASE LapsePrioritized
        <2>1. hist'.ownSends = hist.ownSends
            BY <1>14 DEF LapsePrioritized, History
        <2> QED
            BY <1>14, <2>1, OwnInvKeeps DEF LapsePrioritized
    <1>15. CASE Clock
        BY <1>15, AgedKeys, OwnInvKeeps DEF Clock
    <1>16. CASE NodeEvent \/ Stop \/ Tick \/ CleanerStops \/ CountExpired
                \/ StoreSizeAfter \/ UNCHANGED vars
        BY <1>16, OwnInvKeeps
        DEF NodeEvent, Stop, Tick, CleanerStops, CountExpired, StoreSizeAfter, vars
    <1> QED
        BY <1>1, <1>2, <1>3, <1>4, <1>5, <1>6, <1>7, <1>9, <1>10, <1>11, <1>12,
           <1>13, <1>14, <1>15, <1>16
        DEF Next, processTxPoolEvents, cleanupOldTransactions

(* A bid is streamed at most once per stay of its transaction in the pool. *)
THEOREM BidSentOnce == Spec => []OneSendPerResidency
    <1>1. Init => OwnInv
        BY IdleAt DEF Init, OwnInv, OneSendPerResidency, OwnSendPending
    <1>2. Spec => []OwnInv
        BY <1>1, InitTInv, NextTInv, NextOwnInv, PTL DEF Spec
    <1> QED
        BY <1>2, PTL DEF OwnInv

-----------------------------------------------------------------------------
(* The ledger of attempts.                                                 *)

AttemptCounters == {"TxSentToNode", "SendErrors", "TOBBidsProcessed",
                    "BackrunPairsMatched"}

Streaming == proc.at \in {"fetch", "send", "track"}

LEMMA AttemptKeeps ==
    ASSUME AttemptLedger, \A c \in AttemptCounters : ctr'[c] = ctr[c],
           ~Streaming, ~Streaming'
    PROVE  AttemptLedger'
    BY DEF AttemptLedger, AttemptCounters, Outstanding, Streaming, One

LEMMA AttemptStays ==
    ASSUME AttemptLedger, \A c \in AttemptCounters : ctr'[c] = ctr[c], proc' = proc
    PROVE  AttemptLedger'
    BY DEF AttemptLedger, AttemptCounters, Outstanding, One

LEMMA AttemptBump ==
    ASSUME NEW S, Bump(S), S \cap AttemptCounters = {}
    PROVE  \A c \in AttemptCounters : ctr'[c] = ctr[c]
    BY BumpValue DEF AttemptCounters, Counters

LEMMA NextAttemptLedger == TInv /\ AttemptLedger /\ [Next]_vars => AttemptLedger'
    <1> SUFFICES ASSUME TInv, AttemptLedger, [Next]_vars PROVE AttemptLedger'
        OBVIOUS
    <1> proc \in Processor /\ ctr \in [Counters -> Nat]
        BY DEF TInv, TypeOK
    <1>1. CASE Receive
        <2>1. PICK S \in SUBSET {"TxReceivedFromNode", "TxDropped"} : Bump(S)
            BY <1>1 DEF Receive
        <2>2. \A c \in AttemptCounters : ctr'[c] = ctr[c]
            BY <2>1, AttemptBump DEF AttemptCounters
        <2> QED
            BY <1>1, <2>2, AttemptKeeps DEF Receive, Processor, Streaming
    <1>2. CASE MarshalFails
        <2>1. \A c \in AttemptCounters : ctr'[c] = ctr[c]
            BY <1>2, AttemptBump DEF MarshalFails, AttemptCounters
        <2> QED
            BY <1>2, <2>1, AttemptKeeps, IdleAt DEF MarshalFails, Streaming
    <1>3. CASE Echo \/ removePrioritizedTx
        <2>1. PICK S \in SUBSET {"RoundTrips", "CommittedBeforeEcho",
                                 "DroppedBeforeEcho", "EvictedBeforeEcho"} : Bump(S)
            BY <1>3 DEF Echo, removePrioritizedTx, BeforeEchoCounter
        <2>2. \A c \in AttemptCounters : ctr'[c] = ctr[c]
            BY <2>1, AttemptBump DEF AttemptCounters
        <2>3. ~Streaming /\ ~Streaming'
            BY <1>3, IdleAt DEF Echo, removePrioritizedTx, Goto, Processor, Streaming
        <2> QED
            BY <2>2, <2>3, AttemptKeeps
    <1>4. CASE Dispatch
        <2>1. CASE Class(tx).type = "TOBBid"
            <3>1. /\ ctr'["TOBBidsProcessed"] = ctr["TOBBidsProcessed"] + 1
                  /\ \A c \in AttemptCounters \ {"TOBBidsProcessed"} : ctr'[c] = ctr[c]
                BY <1>4, <2>1, BumpValue DEF Dispatch, AttemptCounters, Counters
            <3>2. proc.at = "gauge" /\ proc'.at = "fetch" /\ proc'.role = "tob"
                BY <1>4, <2>1 DEF Dispatch, Processor
            <3> QED
                BY <3>1, <3>2
                DEF AttemptLedger, AttemptCounters, Outstanding, One, Counters
        <2>2. CASE Class(tx).type # "TOBBid"
            <3>1. PICK S \in SUBSET {"BackrunBidsProcessed", "NormalTxsProcessed"} :
                    Bump(S)
                BY <1>4, <2>2 DEF Dispatch
            <3>2. \A c \in AttemptCounters : ctr'[c] = ctr[c]
                BY <3>1, AttemptBump DEF AttemptCounters
            <3>3. ~Streaming /\ ~Streaming'
                BY <1>4, <2>2, IdleAt DEF Dispatch, Goto, Processor, Streaming
            <3> QED
                BY <3>2, <3>3, AttemptKeeps
        <2> QED
            BY <2>1, <2>2
    <1>5. CASE FindTarget
        <2>1. \/ proc'.at = "select"
              \/ proc'.at = "fetch" /\ proc'.role = "opp"
            BY <1>5, IdleAt DEF FindTarget, Processor
        <2> QED
            BY <1>5, <2>1
            DEF FindTarget, AttemptLedger, Outstanding, One
    <1>6. ASSUME Return({"SendErrors"}), proc.at \in {"fetch", "send"}
          PROVE  AttemptLedger'
        <2>1. /\ ctr'["SendErrors"] = ctr["SendErrors"] + 1
              /\ ctr'["BackrunPairsMatched"] =
                   ctr["BackrunPairsMatched"] + One(proc.role = "bid")
              /\ ctr'["TxSentToNode"] = ctr["TxSentToNode"]
              /\ ctr'["TOBBidsProcessed"] = ctr["TOBBidsProcessed"]
            BY <1>6, BumpValue DEF Return, Counters, One
        <2>2. IF proc.role = "opp" THEN proc'.at = "fetch" /\ proc'.role = "bid"
                                   ELSE proc'.at = "select"
            BY <1>6, IdleAt DEF Return, Processor
        <2> QED
            BY <1>6, <2>1, <2>2
            DEF AttemptLedger, Outstanding, One, Counters, Processor, Roles
    <1>7. CASE FetchFails \/ SendFails
        BY <1>6, <1>7 DEF FetchFails, SendFails
    <1>8. CASE SendSucceeds
        <2>1. /\ ctr'["TxSentToNode"] = ctr["TxSentToNode"] + 1
              /\ \A c \in AttemptCounters \ {"TxSentToNode"} : ctr'[c] = ctr[c]
            BY <1>8, BumpValue DEF SendSucceeds, AttemptCounters, Counters
        <2>2. proc.at = "send" /\ proc'.at = "track" /\ proc'.role = proc.role
            BY <1>8 DEF SendSucceeds, Goto, Processor
        <2> QED
            BY <2>1, <2>2
            DEF AttemptLedger, AttemptCounters, Outstanding, One, Counters,
                Processor, Roles
    <1>9. CASE Track
        <2>1. /\ ctr'["SendErrors"] = ctr["SendErrors"]
              /\ ctr'["BackrunPairsMatched"] =
                   ctr["BackrunPairsMatched"] + One(proc.role = "bid")
              /\ ctr'["TxSentToNode"] = ctr["TxSentToNode"]
              /\ ctr'["TOBBidsProcessed"] = ctr["TOBBidsProcessed"]
            BY <1>9, BumpValue DEF Track, Return, Counters, One
        <2>2. IF proc.role = "opp" THEN proc'.at = "fetch" /\ proc'.role = "bid"
                                   ELSE proc'.at = "select"
            BY <1>9, IdleAt DEF Track, Return, Processor
        <2>3. proc.at = "track"
            BY <1>9 DEF Track
        <2> QED
            BY <2>1, <2>2, <2>3
            DEF AttemptLedger, Outstanding, One, Counters, Processor, Roles
    <1>10. CASE FetchRLP
        <2>1. proc.at = "fetch" /\ proc'.at = "send" /\ proc'.role = proc.role
            BY <1>10 DEF FetchRLP, Goto, Processor
        <2> QED
            BY <1>10, <2>1 DEF FetchRLP, AttemptLedger, Outstanding, One
    <1>11. CASE ProcessorStops \/ Exists \/ Add \/ ReadSize \/ RemoveTransaction
        <2>1. ~Streaming /\ ~Streaming'
            BY <1>11, IdleAt
            DEF ProcessorStops, Exists, Add, ReadSize, RemoveTransaction, Goto,
                Processor, Streaming
        <2>2. ctr' = ctr
            BY <1>11 DEF ProcessorStops, Exists, Add, ReadSize, RemoveTransaction
        <2> QED
            BY <2>1, <2>2, AttemptKeeps
    <1>12. CASE CountExpired
        <2>1. \A c \in AttemptCounters : ctr'[c] = ctr[c]
            BY <1>12 DEF CountExpired, AttemptCounters, Counters
        <2>2. proc' = proc
            BY <1>12 DEF CountExpired
        <2> QED
            BY <2>1, <2>2, AttemptStays
    <1>13. CASE NodeEvent \/ Clock \/ Stop \/ Tick \/ CleanerStops
                \/ CleanupOldTransactions \/ StoreSizeAfter \/ LapsePrioritized
                \/ UNCHANGED vars
        <2>1. proc' = proc /\ ctr' = ctr
            BY <1>13
            DEF NodeEvent, Clock, Stop, Tick, CleanerStops, CleanupOldTransactions,
                StoreSizeAfter, LapsePrioritized, vars
        <2> QED
            BY <2>1, AttemptStays
    <1> QED
        BY <1>1, <1>2, <1>3, <1>4, <1>5, <1>7, <1>8, <1>9, <1>10, <1>11, <1>12,
           <1>13 DEF Next, processTxPoolEvents, cleanupOldTransactions

(* Every attempt to stream is counted exactly once, as sent or as failed.  *)
THEOREM AttemptLedgerBalances == Spec => []AttemptLedger
    <1>1. Init => AttemptLedger
        BY IdleAt DEF Init, AttemptLedger, Outstanding, Counters
    <1> QED
        BY <1>1, InitTInv, NextTInv, NextAttemptLedger, PTL DEF Spec
-----------------------------------------------------------------------------
(* The processor is the caller that the IPC client is given.               *)

(* A return leads to the next attempt or to the end of the handler.        *)
LEMMA ReturnStage ==
    ASSUME TInv, NEW S, Return(S), proc.at \in {"fetch", "send", "track"}
    PROVE  Stage' \in {"working", "select"}
    <1>1. proc'.at \in {"fetch", "select"}
        BY IdleAt DEF Return, TInv, TypeOK, Processor
    <1> QED
        BY <1>1 DEF Stage

LEMMA NextStreamer == TInv /\ [Next]_vars => [Caller!Next]_<<Stage, ctxDone>>
    <1> SUFFICES ASSUME TInv, [Next]_vars PROVE [Caller!Next]_<<Stage, ctxDone>>
        OBVIOUS
    <1> proc \in Processor
        BY DEF TInv, TypeOK
    <1>1. CASE Receive
        <2>1. proc.at = "select" /\ proc'.at \in {"exists", "untrack"}
              /\ ctxDone' = ctxDone
            BY <1>1 DEF Receive, Processor
        <2> QED
            BY <2>1 DEF Stage, Caller!Take, Caller!Next
    <1>2. CASE ProcessorStops
        <2>1. proc.at = "select" /\ ctxDone /\ proc'.at = "done"
              /\ ctxDone' = ctxDone
            BY <1>2 DEF ProcessorStops, Goto, Processor
        <2> QED
            BY <2>1 DEF Stage, Caller!End, Caller!Next
    <1>3. CASE MarshalFails \/ Echo \/ RemoveTransaction
        <2>1. proc.at \in {"exists", "echo", "remove"} /\ proc'.at = "select"
              /\ ctxDone' = ctxDone
            BY <1>3, IdleAt DEF MarshalFails, Echo, RemoveTransaction
        <2> QED
            BY <2>1 DEF Stage, Caller!Finish, Caller!Next
    <1>4. CASE Exists \/ Add \/ ReadSize \/ removePrioritizedTx
        <2>1. proc.at \in {"exists", "add", "size", "untrack"}
              /\ proc'.at \in {"echo", "add", "size", "gauge", "remove"}
              /\ ctxDone' = ctxDone
            BY <1>4 DEF Exists, Add, ReadSize, removePrioritizedTx, Goto, Processor
        <2> QED
            BY <2>1 DEF Stage
    <1>5. CASE Dispatch \/ FindTarget
        <2>1. proc.at \in {"gauge", "target"}
              /\ proc'.at \in {"fetch", "target", "select"} /\ ctxDone' = ctxDone
            BY <1>5, IdleAt DEF Dispatch, FindTarget, Goto, Processor
        <2> QED
            BY <2>1 DEF Stage, Caller!Finish, Caller!Next
    <1>6. CASE FetchRLP
        <2>1. proc.at = "fetch" /\ proc'.at = "send" /\ ctxDone' = ctxDone
            BY <1>6 DEF FetchRLP, Goto, Processor
        <2> QED
            BY <2>1 DEF Stage, Caller!Call, Caller!Next
    <1>7. CASE FetchFails \/ Track
        <2>1. proc.at \in {"fetch", "track"} /\ ctxDone' = ctxDone
            BY <1>7 DEF FetchFails, Track
        <2>2. Stage' \in {"working", "select"}
            BY <1>7, <2>1, ReturnStage DEF FetchFails, Track
        <2> QED
            BY <2>1, <2>2 DEF Stage, Caller!Finish, Caller!Next
    <1>8. CASE SendFails
        <2>1. proc.at = "send" /\ ctxDone' = ctxDone
            BY <1>8 DEF SendFails
        <2>2. Stage' \in {"working", "select"}
            BY <1>8, <2>1, ReturnStage DEF SendFails
        <2> QED
            BY <2>1, <2>2 DEF Stage, Caller!Return, Caller!Next
    <1>9. CASE SendSucceeds
        <2>1. proc.at = "send" /\ proc'.at = "track" /\ ctxDone' = ctxDone
            BY <1>9 DEF SendSucceeds, Goto, Processor
        <2> QED
            BY <2>1 DEF Stage, Caller!Return, Caller!Next
    <1>10. CASE Stop
        BY <1>10 DEF Stop, Stage, Caller!Cancel, Caller!Next
    <1>11. CASE NodeEvent \/ Clock \/ cleanupOldTransactions \/ UNCHANGED vars
        <2>1. proc' = proc /\ ctxDone' = ctxDone
            BY <1>11
            DEF NodeEvent, Clock, Tick, CleanerStops, CleanupOldTransactions,
                CountExpired, StoreSizeAfter, LapsePrioritized,
                cleanupOldTransactions, vars
        <2> QED
            BY <2>1 DEF Stage
    <1> QED
        BY <1>1, <1>2, <1>3, <1>4, <1>5, <1>6, <1>7, <1>8, <1>9, <1>10, <1>11
        DEF Next, processTxPoolEvents

(* For every pool, feed and interleaving with the cleaner the processor    *)
(* calls the client, waits and ends the way Streamer says, which is all    *)
(* that SidecarSystem assumes of it.                                       *)
THEOREM ProcessorIsStreamer == Spec => ImplementsStreamer
    <1>1. Init => Caller!Init
        BY IdleAt DEF Init, Stage, Caller!Init
    <1> QED
        BY <1>1, InitTInv, NextTInv, NextStreamer, PTL
        DEF Spec, ImplementsStreamer, Caller!Spec
=============================================================================
