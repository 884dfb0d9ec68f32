-------------------------- MODULE MonitoringProofs --------------------------
(***************************************************************************)
(* What holds of Monitoring for all latencies, any range of the system's   *)
(* counters and any number of events and readings.                         *)
(***************************************************************************)
EXTENDS Monitoring, TLAPS

-----------------------------------------------------------------------------
(* The tables of loads, and unsigned arithmetic.                           *)

LEMMA LoadTable ==
    /\ Len(HealthStats) = 4 /\ Len(Collect) = 8 /\ Len(GetSnapshot) = 2
    /\ HealthStats[1] = "lastReceivedAt" /\ HealthStats[2] = "lastSentAt"
    /\ HealthStats[3] = "txReceived" /\ HealthStats[4] = "txStreamed"
    /\ Collect[1] = "TxReceivedFromNode" /\ Collect[2] = "TxSentToNode"
    /\ Collect[3] = "NodeMessageLatencyCount" /\ Collect[4] = "NodeMessageLatencySum"
    /\ Collect[5] = "lastReceivedAt" /\ Collect[6] = "lastSentAt"
    /\ Collect[7] = "txReceived" /\ Collect[8] = "txStreamed"
    /\ GetSnapshot[1] = "NodeMessageLatencyCount"
    /\ GetSnapshot[2] = "NodeMessageLatencySum"
    BY DEF HealthStats, Collect, GetSnapshot, Average

LEMMA LoadsOf ==
    /\ Loads("health") = HealthStats
    /\ Loads("prometheus") = Collect
    /\ Loads("metrics") = GetSnapshot
    BY DEF Loads

LEMMA Remainder ==
    ASSUME NEW x \in Int
    PROVE  x % WordSize \in 0..(WordSize - 1)
    BY WordSizeAssumption

LEMMA NoRemainder ==
    ASSUME NEW x \in 0..(WordSize - 1)
    PROVE  x % WordSize = x
    BY WordSizeAssumption

LEMMA WriteType ==
    ASSUME value \in [Words -> Nat], NEW w \in Words, NEW n \in Nat,
           Add(w, n) \/ Store(w, n)
    PROVE  value' \in [Words -> Nat]
    BY DEF Add, Store

(* What a write does to the words.                                         *)
LEMMA AddValue ==
    ASSUME value \in [Words -> Nat], NEW w \in Words, NEW n \in Nat, Add(w, n)
    PROVE  \A v \in Words : value'[v] = IF v = w THEN value[v] + n ELSE value[v]
    BY DEF Add

LEMMA StoreValue ==
    ASSUME value \in [Words -> Nat], NEW w \in Words, NEW n \in Nat, Store(w, n)
    PROVE  \A v \in Words : value'[v] = IF v = w THEN n ELSE value[v]
    BY DEF Store

LEMMA SlotType ==
    ASSUME reader \in Reader, reader.next \in 1..Len(Loads(reader.endpoint))
    PROVE  Slot \in Words
    <1> DEFINE e == reader.endpoint
               n == reader.next
    <1>1. e \in Endpoints /\ n \in Nat
        BY DEF Reader
    <1>2. CASE e = "health"
        <2>1. n \in 1..4
            BY <1>2, LoadTable, LoadsOf
        <2>2. HealthStats[n] \in Words
            BY <2>1, LoadTable DEF Words
        <2> QED
            BY <1>2, <2>2, LoadsOf DEF Slot
    <1>3. CASE e = "prometheus"
        <2>1. n \in 1..8
            BY <1>3, LoadTable, LoadsOf
        <2>2. Collect[n] \in Words
            BY <2>1, LoadTable DEF Words
        <2> QED
            BY <1>3, <2>2, LoadsOf DEF Slot
    <1>4. CASE e = "metrics"
        <2>1. n \in 1..2
            BY <1>4, LoadTable, LoadsOf
        <2>2. GetSnapshot[n] \in Words
            BY <2>1, LoadTable DEF Words
        <2> QED
            BY <1>4, <2>2, LoadsOf DEF Slot
    <1> QED
        BY <1>1, <1>2, <1>3, <1>4 DEF Endpoints

-----------------------------------------------------------------------------
(* Type correctness.                                                       *)

LEMMA InitType == Init => TypeOK
    <1> SUFFICES ASSUME Init PROVE TypeOK
        OBVIOUS
    <1>1. os \in 0..(WordSize - 1) /\ last \in 0..(WordSize - 1)
        BY WordSizeAssumption DEF Init
    <1>2. proc \in Processor /\ clean \in Cleaner
        BY DEF Init, Idle, Resting, Processor, ProcessorPC, Cleaner
    <1>3. reader \in Reader
        BY DEF Init, Waiting, Unseen, Reader, Endpoints
    <1>4. hist \in History
        BY <1>1 DEF Init, History
    <1> QED
        BY <1>1, <1>2, <1>3, <1>4, MaxWorkAssumption DEF Init, TypeOK

LEMMA WorkType == TypeOK /\ Work => work' \in 0..MaxWork
    BY MaxWorkAssumption DEF TypeOK, Work

LEMMA HandlerType ==
    ASSUME TypeOK, Handler
    PROVE  /\ value' \in [Words -> Nat] /\ size' \in Nat
           /\ proc' \in Processor /\ hist' \in History
    <1> USE DEF TypeOK
    <1> proc \in Processor /\ proc.size \in Nat /\ proc.micros \in Nat
        /\ proc.sends \in 0..2
        BY DEF Processor
    <1>1. CASE AddReceived
        <2>1. value' \in [Words -> Nat]
            BY <1>1, WriteType DEF AddReceived, Words
        <2> QED
            BY <1>1, <2>1 DEF AddReceived, Goto, Processor, ProcessorPC
    <1>2. CASE AddReceivedTwin
        <2>1. value' \in [Words -> Nat]
            BY <1>2, WriteType DEF AddReceivedTwin, Words
        <2> QED
            BY <1>2, <2>1 DEF AddReceivedTwin, Goto, Processor, ProcessorPC
    <1>3. CASE StampReceived
        <2>1. value["txReceived"] \in Nat
            BY DEF Words
        <2>2. value' \in [Words -> Nat]
            BY <1>3, <2>1, WriteType DEF StampReceived, Words
        <2> QED
            BY <1>3, <2>2 DEF StampReceived, Goto, Processor, ProcessorPC
    <1>4. CASE AddSum("messageSum", "messageCount")
        <2>1. PICK micros \in Latencies :
                /\ proc' = [proc EXCEPT !.at = "messageCount", !.micros = micros]
                /\ Add("NodeMessageLatencySum", micros)
            BY <1>4 DEF AddSum
        <2>2. micros \in Nat
            BY LatenciesAssumption
        <2>3. value' \in [Words -> Nat]
            BY <2>1, <2>2, WriteType DEF Words
        <2>4. proc' \in Processor
            BY <2>1, <2>2 DEF Processor, ProcessorPC
        <2> QED
            BY <1>4, <2>3, <2>4 DEF AddSum
    <1>5. CASE AddCount("messageCount", "pool")
        <2>1. value' \in [Words -> Nat]
            BY <1>5, WriteType DEF AddCount, Words
        <2>2. hist' \in History
            BY <1>5 DEF AddCount, History
        <2>3. proc' \in Processor
            BY <1>5 DEF AddCount, Processor, ProcessorPC
        <2> QED
            BY <1>5, <2>1, <2>2, <2>3 DEF AddCount
    <1>6. CASE AddToPool
        BY <1>6 DEF AddToPool, Goto, Processor, ProcessorPC
    <1>7. CASE Measure
        BY <1>7 DEF Measure, Processor, ProcessorPC
    <1>8. CASE StoreGauge
        <2>1. value' \in [Words -> Nat]
            BY <1>8, WriteType DEF StoreGauge, Words
        <2> QED
            BY <1>8, <2>1 DEF StoreGauge, Goto, Processor, ProcessorPC
    <1>9. CASE StoreGaugeTwin
        <2>1. value' \in [Words -> Nat]
            BY <1>9, WriteType DEF StoreGaugeTwin, Words
        <2>2. PICK sends \in 0..2 :
                proc' = [proc EXCEPT !.at = "dispatch", !.size = 0, !.sends = sends]
            BY <1>9 DEF StoreGaugeTwin
        <2>3. proc' \in Processor
            BY <2>2 DEF Processor, ProcessorPC
        <2> QED
            BY <1>9, <2>1, <2>3 DEF StoreGaugeTwin
    <1>10. CASE Dispatch
        <2>1. CASE proc.sends = 0
            BY <1>10, <2>1 DEF Dispatch, Goto, Processor, ProcessorPC
        <2>2. CASE proc.sends # 0
            <3>1. PICK at \in {"sent", "dispatch"} :
                    proc' = [proc EXCEPT !.at = at, !.sends = @ - 1]
                BY <1>10, <2>2 DEF Dispatch
            <3>2. proc.sends - 1 \in 0..2
                BY <2>2
            <3>3. proc' \in Processor
                BY <3>1, <3>2 DEF Processor, ProcessorPC
            <3> QED
                BY <1>10, <3>3 DEF Dispatch
        <2> QED
            BY <2>1, <2>2
    <1>11. CASE AddStreamed
        <2>1. value' \in [Words -> Nat]
            BY <1>11, WriteType DEF AddStreamed, Words
        <2> QED
            BY <1>11, <2>1 DEF AddStreamed, Goto, Processor, ProcessorPC
    <1>12. CASE AddStreamedTwin
        <2>1. value' \in [Words -> Nat]
            BY <1>12, WriteType DEF AddStreamedTwin, Words
        <2> QED
            BY <1>12, <2>1 DEF AddStreamedTwin, Goto, Processor, ProcessorPC
    <1>13. CASE StampSent
        <2>1. value["txStreamed"] \in Nat
            BY DEF Words
        <2>2. value' \in [Words -> Nat]
            BY <1>13, <2>1, WriteType DEF StampSent, Words
        <2> QED
            BY <1>13, <2>2 DEF StampSent, Goto, Processor, ProcessorPC
    <1> QED
        BY <1>1, <1>2, <1>3, <1>4, <1>5, <1>6, <1>7, <1>8, <1>9, <1>10, <1>11,
           <1>12, <1>13 DEF Handler, RecordNodeMessageLatency

LEMMA HandlerFrame ==
    ASSUME Handler
    PROVE  UNCHANGED <<clean, os, last, reader, beside, work>>
    BY DEF Handler, AddReceived, AddReceivedTwin, StampReceived,
           RecordNodeMessageLatency, AddSum, AddCount, AddToPool, Measure, StoreGauge,
           StoreGaugeTwin, Dispatch, AddStreamed, AddStreamedTwin, StampSent

LEMMA CleanerType ==
    ASSUME TypeOK, cleanupOldTransactions
    PROVE  TypeOK'
    <1> USE DEF TypeOK, Cleaner
    <1>1. CASE Purge
        BY <1>1 DEF Purge
    <1>2. CASE MeasureAfter
        BY <1>2 DEF MeasureAfter
    <1>3. CASE StoreGaugeAfter
        <2>1. value' \in [Words -> Nat]
            BY <1>3, WriteType DEF StoreGaugeAfter, Words
        <2> QED
            BY <1>3, <2>1 DEF StoreGaugeAfter
    <1>4. CASE StoreGaugeTwinAfter
        <2>1. value' \in [Words -> Nat]
            BY <1>4, WriteType DEF StoreGaugeTwinAfter, Words
        <2> QED
            BY <1>4, <2>1 DEF StoreGaugeTwinAfter, Resting
    <1> QED
        BY <1>1, <1>2, <1>3, <1>4 DEF cleanupOldTransactions

LEMMA CollectedType ==
    ASSUME TypeOK, Collected
    PROVE  TypeOK'
    <1> USE DEF TypeOK
    <1>1. os' \in 0..(WordSize - 1) /\ last' \in 0..(WordSize - 1)
        BY DEF Collected
    <1>2. hist' \in History
        BY DEF Collected, History
    <1>3. Delta(os') \in Int
        <2>1. (os' - last) % WordSize \in Int
            BY <1>1, Remainder
        <2> QED
            BY <2>1 DEF Delta
    <1>4. value["DiskReadBytes"] \in Nat
        BY DEF Words
    <1>5. (value["DiskReadBytes"] + Delta(os')) % WordSize \in Nat
        BY <1>3, <1>4, Remainder, WordSizeAssumption
    <1>6. value' \in [Words -> Nat]
        BY <1>5, WriteType DEF Collected, Words
    <1> QED
        BY <1>1, <1>2, <1>6, WorkType DEF Collected

LEMMA ReaderType ==
    ASSUME TypeOK, Request \/ Load \/ Respond
    PROVE  TypeOK'
    <1> USE DEF TypeOK
    <1>1. CASE Request
        BY <1>1 DEF Request, Reader, Unseen
    <1>2. CASE Load
        <2>1. Slot \in Words
            BY <1>2, SlotType DEF Load
        <2>2. Seen \in Nat
            BY <2>1 DEF Seen
        <2>3. reader' \in Reader
            <3>1. [reader.seen EXCEPT ![Slot] = Seen] \in [Words -> Nat]
                BY <2>1, <2>2 DEF Reader
            <3>2. [reader EXCEPT !.next = @ + 1] \in Reader
                BY DEF Reader
            <3>3. reader' = [[reader EXCEPT !.next = @ + 1]
                               EXCEPT !.seen = [reader.seen EXCEPT ![Slot] = Seen]]
                BY <1>2 DEF Load, Reader
            <3> QED
                BY <3>1, <3>2, <3>3 DEF Reader
        <2>4. hist' \in History
            BY <1>2 DEF Load, History
        <2> QED
            BY <1>2, <2>3, <2>4 DEF Load
    <1>3. CASE Respond
        <2>1. hist' \in History
            BY <1>3 DEF Respond, History
        <2>2. reader' \in Reader
            BY <1>3 DEF Respond, Waiting, Unseen, Reader, Endpoints
        <2> QED
            BY <1>3, <2>1, <2>2 DEF Respond
    <1> QED
        BY <1>1, <1>2, <1>3

LEMMA NextType == TypeOK /\ [Next]_vars => TypeOK'
    <1> SUFFICES ASSUME TypeOK, [Next]_vars PROVE TypeOK'
        OBVIOUS
    <1>1. CASE Insert
        <2>1. proc' \in Processor
            BY <1>1 DEF Insert, Goto, TypeOK, Processor, ProcessorPC
        <2> QED
            BY <1>1, <2>1, WorkType DEF Insert, TypeOK
    <1>2. CASE Remove
        BY <1>2, WorkType DEF Remove, TypeOK
    <1>3. CASE Handler
        BY <1>3, HandlerType, HandlerFrame DEF TypeOK
    <1>4. CASE UNCHANGED vars
        BY <1>4 DEF vars, TypeOK
    <1> QED
        BY <1>1, <1>2, <1>3, <1>4, CleanerType, CollectedType, ReaderType DEF Next

(* The words, the locals and the history stay within their types.          *)
THEOREM MonitoringTypeCorrect == Spec => []TypeOK
    BY InitType, NextType, PTL DEF Spec

-----------------------------------------------------------------------------
(* The writers keep the words in step with one another.                    *)

Twin(at) == IF proc.at = at THEN 1 ELSE 0

WriterInv ==
    /\ value["txReceived"] = value["TxReceivedFromNode"] + Twin("receivedTwin")
    /\ value["txStreamed"] = value["TxSentToNode"] + Twin("sentTwin")
    /\ value["lastReceivedAt"] <= value["txReceived"]
    /\ value["lastSentAt"] <= value["txStreamed"]
    /\ value["NodeMessageLatencySum"]
         = hist.counted + (IF proc.at = "messageCount" THEN proc.micros ELSE 0)
    /\ value["NodeMessageLatencyCount"] = 0 => hist.counted = 0

(* What a step leaves the reader: nothing it has seen, and words that grow. *)
Growing ==
    /\ reader' = reader /\ hist'.covered = hist.covered
    /\ value'["txReceived"] >= value["txReceived"]
    /\ value'["txStreamed"] >= value["txStreamed"]
    /\ value'["NodeMessageLatencySum"] >= value["NodeMessageLatencySum"]

LEMMA WordTypes ==
    ASSUME TypeOK
    PROVE  /\ \A w \in {"txReceived", "TxReceivedFromNode", "lastReceivedAt", "txStreamed",
                       "TxSentToNode", "lastSentAt", "poolSize", "PoolSize",
                       "NodeMessageLatencySum", "NodeMessageLatencyCount",
                       "DiskReadBytes"} : w \in Words /\ value[w] \in Nat
           /\ proc.micros \in Nat /\ proc.size \in Nat /\ hist.counted \in Nat
           /\ clean.size \in Nat /\ hist.covered \in Nat
    BY DEF TypeOK, Words, Processor, History, Cleaner

LEMMA QuietWriter ==
    ASSUME TypeOK, WriterInv, UNCHANGED <<value, reader, hist>>,
           proc.at \notin {"receivedTwin", "sentTwin", "messageCount"},
           proc'.at \notin {"receivedTwin", "sentTwin", "messageCount"}
    PROVE  WriterInv' /\ Growing
    BY WordTypes DEF WriterInv, Growing, Twin

LEMMA GaugeWriter ==
    ASSUME TypeOK, WriterInv, NEW w \in {"poolSize", "PoolSize", "DiskReadBytes"},
           NEW n \in Nat, Store(w, n), UNCHANGED reader,
           hist'.counted = hist.counted, hist'.covered = hist.covered,
           \/ UNCHANGED proc
           \/ /\ proc.at \notin {"receivedTwin", "sentTwin", "messageCount"}
              /\ proc'.at \notin {"receivedTwin", "sentTwin", "messageCount"}
    PROVE  WriterInv' /\ Growing
    <1>1. \A v \in Words \ {"poolSize", "PoolSize", "DiskReadBytes"} : value'[v] = value[v]
        BY StoreValue, WordTypes DEF TypeOK
    <1>2. /\ value'["txReceived"] = value["txReceived"]
          /\ value'["TxReceivedFromNode"] = value["TxReceivedFromNode"]
          /\ value'["lastReceivedAt"] = value["lastReceivedAt"]
          /\ value'["txStreamed"] = value["txStreamed"]
          /\ value'["TxSentToNode"] = value["TxSentToNode"]
          /\ value'["lastSentAt"] = value["lastSentAt"]
          /\ value'["NodeMessageLatencySum"] = value["NodeMessageLatencySum"]
          /\ value'["NodeMessageLatencyCount"] = value["NodeMessageLatencyCount"]
        BY <1>1 DEF Words
    <1> QED
        BY <1>2, WordTypes DEF WriterInv, Growing, Twin

LEMMA HandlerWrites ==
    ASSUME TypeOK, WriterInv, Handler
    PROVE  WriterInv' /\ Growing
    <1> value \in [Words -> Nat] /\ proc \in Processor /\ hist \in History
        BY DEF TypeOK
    <1> USE WordTypes
    <1>0. UNCHANGED reader
        BY HandlerFrame
    <1>1. CASE AddReceived
        <2>1. \A v \in Words : value'[v] = IF v = "txReceived" THEN value[v] + 1 ELSE value[v]
            BY <1>1, AddValue DEF AddReceived
        <2>2. proc.at = "received" /\ proc'.at = "receivedTwin" /\ UNCHANGED hist
            BY <1>1 DEF AddReceived, Goto, Processor
        <2> QED
            BY <1>0, <2>1, <2>2 DEF WriterInv, Growing, Twin
    <1>2. CASE AddReceivedTwin
        <2>1. \A v \in Words :
                value'[v] = IF v = "TxReceivedFromNode" THEN value[v] + 1 ELSE value[v]
            BY <1>2, AddValue DEF AddReceivedTwin
        <2>2. proc.at = "receivedTwin" /\ proc'.at = "receivedStamp" /\ UNCHANGED hist
            BY <1>2 DEF AddReceivedTwin, Goto, Processor
        <2> QED
            BY <1>0, <2>1, <2>2 DEF WriterInv, Growing, Twin
    <1>3. CASE StampReceived
        <2>1. \A v \in Words :
                value'[v] = IF v = "lastReceivedAt" THEN value["txReceived"] ELSE value[v]
            BY <1>3, StoreValue DEF StampReceived
        <2>2. proc.at = "receivedStamp" /\ proc'.at = "messageSum" /\ UNCHANGED hist
            BY <1>3 DEF StampReceived, Goto, Processor
        <2> QED
            BY <1>0, <2>1, <2>2 DEF WriterInv, Growing, Twin
    <1>4. CASE AddSum("messageSum", "messageCount")
        <2>1. PICK micros \in Latencies :
                /\ proc' = [proc EXCEPT !.at = "messageCount", !.micros = micros]
                /\ Add("NodeMessageLatencySum", micros)
            BY <1>4 DEF AddSum
        <2>2. micros \in Nat
            BY LatenciesAssumption
        <2>3. \A v \in Words :
                value'[v] = IF v = "NodeMessageLatencySum" THEN value[v] + micros ELSE value[v]
            BY <2>1, <2>2, AddValue
        <2>4. /\ proc.at = "messageSum" /\ UNCHANGED hist
              /\ proc'.at = "messageCount" /\ proc'.micros = micros
            BY <1>4, <2>1 DEF AddSum, Processor
        <2> QED
            BY <1>0, <2>2, <2>3, <2>4 DEF WriterInv, Growing, Twin
    <1>5. CASE AddCount("messageCount", "pool")
        <2>1. \A v \in Words :
                value'[v] = IF v = "NodeMessageLatencyCount" THEN value[v] + 1 ELSE value[v]
            BY <1>5, AddValue DEF AddCount
        <2>2. /\ proc.at = "messageCount" /\ proc'.at = "pool"
              /\ hist'.counted = hist.counted + proc.micros
              /\ hist'.covered = hist.covered
            BY <1>5 DEF AddCount, Processor, History
        <2> QED
            BY <1>0, <2>1, <2>2 DEF WriterInv, Growing, Twin
    <1>6. CASE AddToPool
        BY <1>6, <1>0, QuietWriter DEF AddToPool, Goto, Processor
    <1>7. CASE Measure
        BY <1>7, <1>0, QuietWriter DEF Measure, Processor
    <1>8. CASE StoreGauge
        <2>1. proc.at = "gauge" /\ proc'.at = "gaugeTwin" /\ UNCHANGED hist
              /\ Store("poolSize", proc.size)
            BY <1>8 DEF StoreGauge, Goto, Processor
        <2> QED
            BY <1>0, <2>1, GaugeWriter
    <1>9. CASE StoreGaugeTwin
        <2>1. proc.at = "gaugeTwin" /\ proc'.at = "dispatch" /\ UNCHANGED hist
              /\ Store("PoolSize", proc.size)
            BY <1>9 DEF StoreGaugeTwin, Processor
        <2> QED
            BY <1>0, <2>1, GaugeWriter
    <1>10. CASE Dispatch
        <2>1. proc.at = "dispatch" /\ proc'.at \in {"select", "sent", "dispatch"}
            BY <1>10 DEF Dispatch, Goto, Processor
        <2> QED
            BY <1>10, <1>0, <2>1, QuietWriter DEF Dispatch
    <1>11. CASE AddStreamed
        <2>1. \A v \in Words : value'[v] = IF v = "txStreamed" THEN value[v] + 1 ELSE value[v]
            BY <1>11, AddValue DEF AddStreamed
        <2>2. proc.at = "sent" /\ proc'.at = "sentTwin" /\ UNCHANGED hist
            BY <1>11 DEF AddStreamed, Goto, Processor
        <2> QED
            BY <1>0, <2>1, <2>2 DEF WriterInv, Growing, Twin
    <1>12. CASE AddStreamedTwin
        <2>1. \A v \in Words :
                value'[v] = IF v = "TxSentToNode" THEN value[v] + 1 ELSE value[v]
            BY <1>12, AddValue DEF AddStreamedTwin
        <2>2. proc.at = "sentTwin" /\ proc'.at = "sentStamp" /\ UNCHANGED hist
            BY <1>12 DEF AddStreamedTwin, Goto, Processor
        <2> QED
            BY <1>0, <2>1, <2>2 DEF WriterInv, Growing, Twin
    <1>13. CASE StampSent
        <2>1. \A v \in Words :
                value'[v] = IF v = "lastSentAt" THEN value["txStreamed"] ELSE value[v]
            BY <1>13, StoreValue DEF StampSent
        <2>2. proc.at = "sentStamp" /\ proc'.at = "dispatch" /\ UNCHANGED hist
            BY <1>13 DEF StampSent, Goto, Processor
        <2> QED
            BY <1>0, <2>1, <2>2 DEF WriterInv, Growing, Twin
    <1> QED
        BY <1>1, <1>2, <1>3, <1>4, <1>5, <1>6, <1>7, <1>8, <1>9, <1>10, <1>11,
           <1>12, <1>13 DEF Handler, RecordNodeMessageLatency

LEMMA OthersWrite ==
    ASSUME TypeOK, WriterInv, Insert \/ Remove \/ cleanupOldTransactions \/ Collected
    PROVE  WriterInv' /\ Growing
    <1> USE WordTypes
    <1> DEFINE Same == /\ UNCHANGED <<value, reader, hist>>
                       /\ UNCHANGED proc
    <1>0. Same => WriterInv' /\ Growing
        BY DEF WriterInv, Growing, Twin
    <1>1. CASE Insert
        BY <1>1, QuietWriter DEF Insert, Goto, TypeOK, Processor
    <1>2. CASE Remove
        BY <1>2, <1>0 DEF Remove
    <1>3. CASE Purge \/ MeasureAfter
        BY <1>3, <1>0 DEF Purge, MeasureAfter
    <1>4. CASE StoreGaugeAfter
        BY <1>4, GaugeWriter DEF StoreGaugeAfter
    <1>5. CASE StoreGaugeTwinAfter
        BY <1>5, GaugeWriter DEF StoreGaugeTwinAfter
    <1>6. CASE Collected
        <2>1. /\ hist'.counted = hist.counted /\ hist'.covered = hist.covered
              /\ UNCHANGED <<proc, reader>>
            BY <1>6 DEF Collected, History, TypeOK
        <2>2. CASE UNCHANGED value
            BY <2>1, <2>2 DEF WriterInv, Growing, Twin
        <2>3. CASE Store("DiskReadBytes", (value["DiskReadBytes"] + Delta(os')) % WordSize)
            <3>1. Delta(os') \in Int
                <4>1. os' \in Int /\ last \in Int
                    BY <1>6 DEF Collected, TypeOK
                <4>2. (os' - last) % WordSize \in Int
                    BY <4>1, Remainder
                <4> QED
                    BY <4>2 DEF Delta
            <3>2. (value["DiskReadBytes"] + Delta(os')) % WordSize \in Nat
                BY <3>1, Remainder
            <3> QED
                BY <2>1, <2>3, <3>2, GaugeWriter
        <2> QED
            BY <1>6, <2>2, <2>3 DEF Collected
    <1> QED
        BY <1>1, <1>2, <1>3, <1>4, <1>5, <1>6 DEF cleanupOldTransactions

-----------------------------------------------------------------------------
(* What a reader has seen, by how far it has come.                         *)

Asks(endpoint, loads) == reader.endpoint = endpoint /\ reader.next > loads

(* What has been loaded already is at most what will be loaded.            *)
Behind ==
    /\ reader.seen["lastReceivedAt"] <= value["txReceived"]
    /\ reader.seen["TxReceivedFromNode"] <= value["txReceived"]
    /\ reader.seen["lastSentAt"] <= value["txStreamed"]
    /\ reader.seen["TxSentToNode"] <= value["txStreamed"]
    /\ hist.covered <= value["NodeMessageLatencySum"]

ReceivedLoaded ==
    /\ Asks("health", 3) \/ Asks("prometheus", 7) =>
          reader.seen["lastReceivedAt"] <= reader.seen["txReceived"]
    /\ Asks("prometheus", 7) =>
          reader.seen["TxReceivedFromNode"] <= reader.seen["txReceived"]

StreamedLoaded ==
    /\ Asks("health", 4) \/ Asks("prometheus", 8) =>
          reader.seen["lastSentAt"] <= reader.seen["txStreamed"]
    /\ Asks("prometheus", 8) =>
          reader.seen["TxSentToNode"] <= reader.seen["txStreamed"]

LatencyLoaded ==
    /\ Asks("prometheus", 3) \/ Asks("metrics", 1) =>
          (reader.seen["NodeMessageLatencyCount"] = 0 => hist.covered = 0)
    /\ Asks("prometheus", 4) \/ Asks("metrics", 2) =>
          reader.seen["NodeMessageLatencySum"] >= hist.covered

ReaderInv == Behind /\ ReceivedLoaded /\ StreamedLoaded /\ LatencyLoaded

LEMMA SeenTypes ==
    ASSUME TypeOK
    PROVE  /\ \A w \in {"txReceived", "TxReceivedFromNode", "lastReceivedAt", "txStreamed",
                       "TxSentToNode", "lastSentAt", "NodeMessageLatencySum",
                       "NodeMessageLatencyCount"} : reader.seen[w] \in Nat
           /\ reader.endpoint \in Endpoints /\ reader.next \in Nat
    BY DEF TypeOK, Words, Reader

LEMMA GrowingKeepsReader ==
    ASSUME TypeOK, TypeOK', ReaderInv, Growing
    PROVE  ReaderInv'
    <1> USE WordTypes, SeenTypes
    <1>1. /\ value'["txReceived"] \in Nat /\ value'["txStreamed"] \in Nat
          /\ value'["NodeMessageLatencySum"] \in Nat
        BY DEF TypeOK, Words
    <1>2. Behind'
        BY <1>1 DEF ReaderInv, Growing, Behind
    <1>3. ReceivedLoaded' /\ StreamedLoaded'
        BY DEF ReaderInv, Growing, ReceivedLoaded, StreamedLoaded, Asks
    <1>4. LatencyLoaded'
        BY DEF ReaderInv, Growing, LatencyLoaded, Asks
    <1> QED
        BY <1>2, <1>3, <1>4 DEF ReaderInv

LEMMA LoadReads ==
    ASSUME TypeOK, Load
    PROVE  /\ reader'.endpoint = reader.endpoint /\ reader'.next = reader.next + 1
           /\ \A w \in Words : reader'.seen[w] = IF w = Slot THEN Seen ELSE reader.seen[w]
           /\ hist'.covered =
                IF Slot = "NodeMessageLatencyCount" THEN hist.counted ELSE hist.covered
           /\ hist'.counted = hist.counted
           /\ UNCHANGED <<value, proc>>
    <1>1. reader \in Reader /\ hist \in History
        BY DEF TypeOK
    <1>2. /\ hist'.covered =
                IF Slot = "NodeMessageLatencyCount" THEN hist.counted ELSE hist.covered
          /\ hist'.counted = hist.counted
        BY <1>1 DEF Load, History
    <1>3. reader' = [[reader EXCEPT !.next = @ + 1]
                       EXCEPT !.seen = [reader.seen EXCEPT ![Slot] = Seen]]
        BY <1>1 DEF Load, Reader
    <1>4. reader'.endpoint = reader.endpoint /\ reader'.next = reader.next + 1
        BY <1>1, <1>3 DEF Reader
    <1>5. reader'.seen = [reader.seen EXCEPT ![Slot] = Seen]
        BY <1>1, <1>3 DEF Reader
    <1>6. \A w \in Words : reader'.seen[w] = IF w = Slot THEN Seen ELSE reader.seen[w]
        BY <1>1, <1>5 DEF Reader
    <1> QED
        BY <1>2, <1>4, <1>6 DEF Load

(* Where each word is loaded, by the tables.                               *)
LEMMA SlotOf ==
    ASSUME TypeOK, Load
    PROVE  \/ /\ reader.endpoint = "health"
              /\ \/ reader.next = 1 /\ Slot = "lastReceivedAt"
                 \/ reader.next = 2 /\ Slot = "lastSentAt"
                 \/ reader.next = 3 /\ Slot = "txReceived"
                 \/ reader.next = 4 /\ Slot = "txStreamed"
           \/ /\ reader.endpoint = "prometheus"
              /\ \/ reader.next = 1 /\ Slot = "TxReceivedFromNode"
                 \/ reader.next = 2 /\ Slot = "TxSentToNode"
                 \/ reader.next = 3 /\ Slot = "NodeMessageLatencyCount"
                 \/ reader.next = 4 /\ Slot = "NodeMessageLatencySum"
                 \/ reader.next = 5 /\ Slot = "lastReceivedAt"
                 \/ reader.next = 6 /\ Slot = "lastSentAt"
                 \/ reader.next = 7 /\ Slot = "txReceived"
                 \/ reader.next = 8 /\ Slot = "txStreamed"
           \/ /\ reader.endpoint = "metrics"
              /\ \/ reader.next = 1 /\ Slot = "NodeMessageLatencyCount"
                 \/ reader.next = 2 /\ Slot = "NodeMessageLatencySum"
    <1>1. reader.next \in 1..Len(Loads(reader.endpoint)) /\ reader.endpoint \in Endpoints
        BY SeenTypes DEF Load
    <1>2. CASE reader.endpoint = "health"
        <2>1. reader.next \in 1..4 /\ Slot = HealthStats[reader.next]
            BY <1>1, <1>2, LoadTable, LoadsOf DEF Slot
        <2> QED
            BY <1>2, <2>1, LoadTable
    <1>3. CASE reader.endpoint = "prometheus"
        <2>1. reader.next \in 1..8 /\ Slot = Collect[reader.next]
            BY <1>1, <1>3, LoadTable, LoadsOf DEF Slot
        <2> QED
            BY <1>3, <2>1, LoadTable
    <1>4. CASE reader.endpoint = "metrics"
        <2>1. reader.next \in 1..2 /\ Slot = GetSnapshot[reader.next]
            BY <1>1, <1>4, LoadTable, LoadsOf DEF Slot
        <2> QED
            BY <1>4, <2>1, LoadTable
    <1> QED
        BY <1>1, <1>2, <1>3, <1>4 DEF Endpoints

LEMMA LoadKeepsReader ==
    ASSUME TypeOK, WriterInv, ReaderInv, Load
    PROVE  ReaderInv'
    <1> USE WordTypes, SeenTypes, LoadReads
    <1>1. Slot \in Words /\ Seen \in Nat
        BY SlotType DEF Load, Seen, TypeOK
    <1>2. Slot # "NodeMessageLatencySum" => Seen = value[Slot]
        BY DEF Seen
    <1>3. Slot = "NodeMessageLatencySum" =>
             Seen = IF reader.seen["NodeMessageLatencyCount"] = 0 THEN 0
                    ELSE value["NodeMessageLatencySum"]
        BY DEF Seen
    <1>4. Behind'
        BY <1>2 DEF Behind, ReaderInv, WriterInv, Twin
    <1>5. ReceivedLoaded'
        BY <1>2, SlotOf DEF ReceivedLoaded, Behind, ReaderInv, Asks
    <1>6. StreamedLoaded'
        BY <1>2, SlotOf DEF StreamedLoaded, Behind, ReaderInv, Asks
    <1>7. LatencyLoaded'
        BY <1>2, <1>3, SlotOf DEF LatencyLoaded, Behind, ReaderInv, WriterInv, Asks
    <1> QED
        BY <1>4, <1>5, <1>6, <1>7 DEF ReaderInv

(* A request begins, and an answer ends, with nothing seen.                *)
LEMMA FreshReader ==
    ASSUME TypeOK, UNCHANGED value, reader'.next \in 0..1, reader'.seen = Unseen,
           hist'.covered \in Nat, hist'.covered <= value["NodeMessageLatencySum"]
    PROVE  ReaderInv'
    <1> USE WordTypes
    <1>1. \A w \in Words : reader'.seen[w] = 0
        BY DEF Unseen
    <1>2. Behind'
        BY <1>1 DEF Behind
    <1>3. ReceivedLoaded' /\ StreamedLoaded' /\ LatencyLoaded'
        BY <1>1 DEF ReceivedLoaded, StreamedLoaded, LatencyLoaded, Asks
    <1> QED
        BY <1>2, <1>3 DEF ReaderInv

-----------------------------------------------------------------------------
(* Together, and what an answer may therefore say.                         *)

CountersInv == WriterInv /\ ReaderInv

LEMMA InitCounters == Init => CountersInv
    <1> SUFFICES ASSUME Init PROVE CountersInv
        OBVIOUS
    <1>1. \A w \in Words : value[w] = 0 /\ reader.seen[w] = 0
        BY DEF Init, Waiting, Unseen
    <1>2. /\ proc.at = "select" /\ hist.counted = 0 /\ hist.covered = 0
          /\ reader.next = 0
        BY DEF Init, Idle, Waiting
    <1>3. WriterInv
        BY <1>1, <1>2 DEF WriterInv, Twin, Words
    <1>4. ReaderInv
        BY <1>1, <1>2
           DEF ReaderInv, Behind, ReceivedLoaded, StreamedLoaded, LatencyLoaded, Asks, Words
    <1> QED
        BY <1>3, <1>4 DEF CountersInv

LEMMA NextCounters ==
    ASSUME TypeOK, TypeOK', CountersInv, [Next]_vars
    PROVE  CountersInv'
    <1> WriterInv /\ ReaderInv
        BY DEF CountersInv
    <1>1. CASE Handler
        BY <1>1, HandlerWrites, GrowingKeepsReader DEF CountersInv
    <1>2. CASE Insert \/ Remove \/ cleanupOldTransactions \/ Collected
        BY <1>2, OthersWrite, GrowingKeepsReader DEF CountersInv
    <1>3. CASE Request
        <2>1. reader'.next = 1 /\ reader'.seen = Unseen
            BY <1>3 DEF Request
        <2>2. ReaderInv'
            <3>1. hist.covered <= value["NodeMessageLatencySum"] /\ hist.covered \in Nat
                BY WordTypes DEF ReaderInv, Behind
            <3>2. UNCHANGED <<value, hist>>
                BY <1>3 DEF Request
            <3>3. hist'.covered = hist.covered
                BY <3>2
            <3> QED
                BY <2>1, <3>1, <3>2, <3>3, FreshReader
        <2>3. WriterInv'
            BY <1>3 DEF Request, WriterInv, Twin
        <2> QED
            BY <2>2, <2>3 DEF CountersInv
    <1>4. CASE Load
        <2>1. WriterInv'
            BY <1>4, LoadReads DEF WriterInv, Twin
        <2> QED
            BY <1>4, <2>1, LoadKeepsReader DEF CountersInv
    <1>5. CASE Respond
        <2>1. hist'.covered = 0 /\ hist'.counted = hist.counted /\ UNCHANGED <<value, proc>>
            BY <1>5 DEF Respond, TypeOK, History
        <2>2. reader'.next = 0 /\ reader'.seen = Unseen
            BY <1>5 DEF Respond, Waiting
        <2>3. ReaderInv'
            BY <2>1, <2>2, FreshReader, WordTypes
        <2>4. WriterInv'
            BY <2>1 DEF WriterInv, Twin
        <2> QED
            BY <2>3, <2>4 DEF CountersInv
    <1>6. CASE UNCHANGED vars
        <2>1. WriterInv'
            BY <1>6 DEF vars, WriterInv, Twin
        <2>2. ReaderInv'
            BY <1>6 DEF vars, ReaderInv, Behind, ReceivedLoaded, StreamedLoaded,
                        LatencyLoaded, Asks
        <2> QED
            BY <2>1, <2>2 DEF CountersInv
    <1> QED
        BY <1>1, <1>2, <1>3, <1>4, <1>5, <1>6 DEF Next

LEMMA CountersHold == Spec => [](TypeOK /\ CountersInv)
    <1>1. Init => TypeOK /\ CountersInv
        BY InitType, InitCounters
    <1>2. TypeOK /\ CountersInv /\ [Next]_vars => (TypeOK /\ CountersInv)'
        BY NextType, NextCounters
    <1> QED
        BY <1>1, <1>2, PTL DEF Spec

(* An answer is complete only past the last load of its table.             *)
LEMMA AnsweredAt ==
    ASSUME TypeOK, Answered
    PROVE  \/ reader.endpoint = "health" /\ reader.next > 4
           \/ reader.endpoint = "prometheus" /\ reader.next > 8
           \/ reader.endpoint = "metrics" /\ reader.next > 2
    <1>1. reader.next > Len(Loads(reader.endpoint)) /\ reader.endpoint \in Endpoints
        BY SeenTypes DEF Answered
    <1>2. CASE reader.endpoint = "health"
        BY <1>1, <1>2, LoadTable, LoadsOf
    <1>3. CASE reader.endpoint = "prometheus"
        BY <1>1, <1>3, LoadTable, LoadsOf
    <1>4. CASE reader.endpoint = "metrics"
        BY <1>1, <1>4, LoadTable, LoadsOf
    <1> QED
        BY <1>1, <1>2, <1>3, <1>4 DEF Endpoints

(* StampsAreCounted: no answer of GetHealthStats shows the time of a       *)
(* transaction that its counts leave out, at any number of transactions.   *)
THEOREM EveryStampIsCounted == Spec => []StampsAreCounted
    <1>1. TypeOK /\ CountersInv => StampsAreCounted
        BY AnsweredAt, SeenTypes
           DEF CountersInv, ReaderInv, ReceivedLoaded, StreamedLoaded, Asks, StampsAreCounted
    <1> QED
        BY <1>1, CountersHold, PTL

(* HealthCoversMetrics: in a scrape the counters of Sidecar are never      *)
(* behind their twins of Metrics.                                          *)
THEOREM ScrapeTwinsOrdered == Spec => []HealthCoversMetrics
    <1>1. TypeOK /\ CountersInv => HealthCoversMetrics
        BY AnsweredAt, SeenTypes
           DEF CountersInv, ReaderInv, ReceivedLoaded, StreamedLoaded, Asks,
               HealthCoversMetrics
    <1> QED
        BY <1>1, CountersHold, PTL

(* AverageCovers: the average of the latencies that /metrics and the       *)
(* scrape publish has every latency counted in its sum, whatever they are. *)
THEOREM AverageHasItsSum == Spec => []AverageCovers
    <1>1. TypeOK /\ CountersInv => AverageCovers
        BY AnsweredAt, SeenTypes, WordTypes
           DEF CountersInv, ReaderInv, LatencyLoaded, Asks, AverageCovers
    <1> QED
        BY <1>1, CountersHold, PTL

-----------------------------------------------------------------------------
(* The deltas of the collector telescope as long as the counter does not   *)
(* fall: what is added is what has gone by since the reading before.       *)

OsInv ==
    ~hist.fell =>
        /\ hist.start \in Nat /\ hist.start <= os
        /\ last = 0 => value["DiskReadBytes"] = 0
        /\ last > 0 => /\ hist.start <= last /\ last <= os
                       /\ value["DiskReadBytes"] <= last - hist.start

LEMMA InitOs == Init => OsInv
    <1> SUFFICES ASSUME Init PROVE OsInv
        OBVIOUS
    <1>1. value["DiskReadBytes"] = 0 /\ hist.start = os
        BY DEF Init, Words
    <1>2. os \in Nat /\ last \in {0, os}
        BY WordSizeAssumption DEF Init
    <1> QED
        BY <1>1, <1>2 DEF OsInv

(* A step of anybody else.                                                 *)
OsUnchanged ==
    /\ UNCHANGED <<os, last>>
    /\ value'["DiskReadBytes"] = value["DiskReadBytes"]
    /\ hist'.fell = hist.fell /\ hist'.start = hist.start

LEMMA OthersLeaveOs ==
    ASSUME TypeOK, Insert \/ Remove \/ Handler \/ cleanupOldTransactions
                   \/ Request \/ Load \/ Respond \/ UNCHANGED vars
    PROVE  OsUnchanged
    <1> USE DEF OsUnchanged
    <1> value \in [Words -> Nat] /\ hist \in History
        BY DEF TypeOK
    <1>1. CASE Insert \/ Remove \/ Request \/ UNCHANGED vars
        BY <1>1 DEF Insert, Remove, Request, vars
    <1>2. CASE Load \/ Respond
        BY <1>2 DEF Load, Respond, History
    <1>3. CASE cleanupOldTransactions
        BY <1>3 DEF cleanupOldTransactions, Purge, MeasureAfter, StoreGaugeAfter,
                    StoreGaugeTwinAfter, Store, Words
    <1>4. CASE AddReceived \/ AddReceivedTwin \/ AddStreamed \/ AddStreamedTwin
        BY <1>4 DEF AddReceived, AddReceivedTwin, AddStreamed, AddStreamedTwin, Add, Words
    <1>5. CASE StampReceived \/ StampSent \/ StoreGauge \/ StoreGaugeTwin
        BY <1>5 DEF StampReceived, StampSent, StoreGauge, StoreGaugeTwin, Store, Words
    <1>6. CASE AddSum("messageSum", "messageCount")
        BY <1>6 DEF AddSum, Add, Words
    <1>7. CASE AddCount("messageCount", "pool")
        BY <1>7 DEF AddCount, Add, Words, History
    <1>8. CASE AddToPool \/ Measure \/ Dispatch
        BY <1>8 DEF AddToPool, Measure, Dispatch
    <1> QED
        BY <1>1, <1>2, <1>3, <1>4, <1>5, <1>6, <1>7, <1>8
           DEF Handler, RecordNodeMessageLatency

LEMMA CollectedOs ==
    ASSUME TypeOK, OsInv, Collected
    PROVE  OsInv'
    <1>1. /\ os \in 0..(WordSize - 1) /\ last \in 0..(WordSize - 1)
          /\ os' \in 0..(WordSize - 1) /\ value["DiskReadBytes"] \in Nat
        BY WordTypes DEF TypeOK, Collected
    <1>2. /\ ~hist'.fell => ~hist.fell /\ ~(os' < os)
          /\ hist'.start = hist.start /\ hist'.start \in Nat
        BY DEF Collected, TypeOK, History
    <1>3. SUFFICES ASSUME ~hist'.fell
                   PROVE  OsInv'
        BY DEF OsInv
    <1>4. /\ ~hist.fell /\ os <= os'
        BY <1>1, <1>2, <1>3
    <1>5. CASE UNCHANGED <<value, last>>
        BY <1>1, <1>2, <1>4, <1>5 DEF OsInv
    <1>6. CASE /\ Store("DiskReadBytes", (value["DiskReadBytes"] + Delta(os')) % WordSize)
               /\ last' = os'
        <2> DEFINE d == value["DiskReadBytes"]
                   n == (d + Delta(os')) % WordSize
        <2>1. value'["DiskReadBytes"] = n
            BY <1>6 DEF Store, TypeOK, Words
        <2>2. CASE last = 0
            <3>1. d = 0 /\ Delta(os') = 0
                BY <1>4, <2>2 DEF OsInv, Delta
            <3>2. n = 0
                BY <3>1, NoRemainder, WordSizeAssumption
            <3> QED
                BY <1>1, <1>2, <1>4, <1>6, <2>1, <2>2, <3>2 DEF OsInv
        <2>3. CASE last > 0
            <3>1. hist.start <= last /\ last <= os /\ d <= last - hist.start
                BY <1>4, <2>3 DEF OsInv
            <3>2. os' - last \in 0..(WordSize - 1)
                <4>1. last <= os /\ os <= os'
                    BY <1>4, <3>1
                <4>2. \A a, b, c \in 0..(WordSize - 1) :
                         a <= b /\ b <= c => c - a \in 0..(WordSize - 1)
                    BY WordSizeAssumption
                <4> QED
                    BY <1>1, <4>1, <4>2
            <3>3. Delta(os') = os' - last
                BY <2>3, <3>2, NoRemainder DEF Delta
            <3>4. d + Delta(os') \in 0..(WordSize - 1)
                BY <1>1, <1>2, <1>4, <3>1, <3>3, WordSizeAssumption
            <3>5. n = d + (os' - last)
                BY <3>3, <3>4, NoRemainder
            <3>6. n <= os' - hist.start
                BY <1>1, <1>2, <3>1, <3>5
            <3> QED
                BY <1>1, <1>2, <1>4, <1>6, <2>1, <2>3, <3>1, <3>6 DEF OsInv
        <2> QED
            BY <1>1, <2>2, <2>3
    <1> QED
        BY <1>5, <1>6 DEF Collected

(* NoOvercount: without a fall of the system's counter the metric of       *)
(* updateDiskIO never exceeds what went by, whichever readings fail and    *)
(* although the first reading may be missing.                              *)
THEOREM NeverOvercounts == Spec => []NoOvercount
    <1>1. Init => TypeOK /\ OsInv
        BY InitType, InitOs
    <1>2. TypeOK /\ OsInv /\ [Next]_vars => (TypeOK /\ OsInv)'
        <2> SUFFICES ASSUME TypeOK, OsInv, [Next]_vars PROVE OsInv'
            BY NextType
        <2>1. CASE Collected
            BY <2>1, CollectedOs
        <2>2. CASE OsUnchanged
            BY <2>2 DEF OsUnchanged, OsInv
        <2> QED
            BY <2>1, <2>2, OthersLeaveOs DEF Next
    <1>3. TypeOK /\ OsInv => NoOvercount
        <2> SUFFICES ASSUME TypeOK, OsInv, ~hist.fell
                     PROVE  value["DiskReadBytes"] <= os - hist.start
            BY DEF NoOvercount
        <2>1. os \in Nat /\ last \in Nat /\ value["DiskReadBytes"] \in Nat
            BY WordTypes DEF TypeOK
        <2>2. CASE last = 0
            BY <2>1, <2>2 DEF OsInv
        <2>3. CASE last > 0
            BY <2>1, <2>3 DEF OsInv
        <2> QED
            BY <2>1, <2>2, <2>3
    <1> QED
        BY <1>1, <1>2, <1>3, PTL DEF Spec
=============================================================================
