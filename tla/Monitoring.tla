----------------------------- MODULE Monitoring -----------------------------
(***************************************************************************)
(* The atomic words that internal/orchestrator/sidecar.go and              *)
(* internal/metrics keep of what the program does, their writers and the   *)
(* three endpoints that read them.  Some facts are kept twice: the         *)
(* transactions received and streamed and the size of the pool are words   *)
(* of Sidecar, for /health, and words of Metrics.                          *)
(*                                                                         *)
(*   processor  the writes of handleTxPoolEvent and of what it calls;      *)
(*   cleaner    those of cleanupOldTransactions;                           *)
(*   collector  SystemMetricsCollector, over counters of the operating     *)
(*              system, one of which stands for the four;                  *)
(*   reader     a request to one of the endpoints, one load at a time.     *)
(*                                                                         *)
(* No two of the last three touch the same word or local, so that one of   *)
(* them at a time runs beside the processor: a bound that no property can  *)
(* tell from all three.                                                    *)
(*                                                                         *)
(* The pool is its size; which transactions come, go and are streamed is   *)
(* the subject of Sidecar.  A time stamp is the number of transactions     *)
(* received (or streamed) when the clock was read; latencies are in units. *)
(***************************************************************************)
EXTENDS Integers, Sequences

CONSTANTS
    Latencies,  \* latencies that may be measured
    WordSize,   \* 2^64: the range of a counter of the operating system
    MaxWork     \* bound: events and readings in a behaviour

ASSUME LatenciesAssumption == Latencies \subseteq Nat
ASSUME WordSizeAssumption == WordSize \in Nat \ {0}
ASSUME MaxWorkAssumption == MaxWork \in Nat

VARIABLES
    value,      \* the words
    size,       \* transactions in the pool
    proc,       \* where the processor is, and its locals
    clean,      \* where the cleaner is, and its local
    os,         \* the counter of the operating system
    last,       \* what the collector read of it last
    reader,     \* the request being answered, and what it has loaded
    beside,     \* who runs beside the processor
    work,       \* events and readings so far
    hist        \* history of what no variable of the code remembers

vars == <<value, size, proc, clean, os, last, reader, beside, work, hist>>

-----------------------------------------------------------------------------
Words == {"txReceived", "TxReceivedFromNode", "lastReceivedAt",
          "txStreamed", "TxSentToNode", "lastSentAt", "poolSize", "PoolSize",
          "NodeMessageLatencySum", "NodeMessageLatencyCount", "DiskReadBytes"}

(* Mutant: loads the sum before the count.                                 *)
AverageSumFirst == <<"NodeMessageLatencySum", "NodeMessageLatencyCount">>

(* Mutant: reads the counts before the time stamps.                        *)
HealthStatsCountsFirst == <<"txReceived", "txStreamed", "lastReceivedAt", "lastSentAt">>

(* The loads of an answer, in order, but for those that stand alone:       *)
(* GetHealthStatsForServer, which is GetHealthStatsForPrometheus too,      *)
HealthStats == <<"lastReceivedAt", "lastSentAt", "txReceived", "txStreamed">>

(* GetAverageNodeMessageLatency,                                           *)
Average == <<"NodeMessageLatencyCount", "NodeMessageLatencySum">>

(* Mutant: begins with the health statistics.                              *)
CollectHealthFirst ==
    <<"lastReceivedAt", "lastSentAt", "txReceived", "txStreamed",
      "TxReceivedFromNode", "TxSentToNode",
      "NodeMessageLatencyCount", "NodeMessageLatencySum">>

(* Collect of the Prometheus collector, which does both,                   *)
Collect ==
    <<"TxReceivedFromNode", "TxSentToNode",
      "NodeMessageLatencyCount", "NodeMessageLatencySum",
      "lastReceivedAt", "lastSentAt", "txReceived", "txStreamed">>

(* and GetSnapshot.                                                        *)
GetSnapshot == Average

Loads(endpoint) ==
    CASE endpoint = "health"     -> HealthStats
      [] endpoint = "prometheus" -> Collect
      [] endpoint = "metrics"    -> GetSnapshot

Others == {"cleaner", "collector", "reader"}
Endpoints == {"health", "prometheus", "metrics"}

-----------------------------------------------------------------------------
ProcessorPC == {"select", "received", "receivedTwin", "receivedStamp",
                "messageSum", "messageCount", "pool", "measure", "gauge", "gaugeTwin",
                "dispatch", "sent", "sentTwin", "sentStamp"}

(* The size read, the latency measured, the sends left of a handler.       *)
Processor == [at : ProcessorPC, size : Nat, micros : Nat, sends : 0..2]
Cleaner == [at : {"wait", "measure", "gauge", "gaugeTwin"}, size : Nat]

(* next: the load to make, none when 0.                                    *)
Reader == [endpoint : Endpoints, next : Nat, seen : [Words -> Nat]]

(* counted: the latencies that the count includes; covered: what that was  *)
(* when the reader loaded the count; start: the counter of the system at   *)
(* the start; fell: it has fallen since.                                   *)
History == [counted : Nat, covered : Nat, start : Nat, fell : BOOLEAN]

Unseen == [w \in Words |-> 0]
Waiting == [endpoint |-> "health", next |-> 0, seen |-> Unseen]
Idle == [at |-> "select", size |-> 0, micros |-> 0, sends |-> 0]
Resting == [at |-> "wait", size |-> 0]

(* StartSystemMetricsCollection reads the counter once before its loop,    *)
(* or fails to.                                                            *)
Init ==
    /\ os \in 0..(WordSize - 1)
    /\ last \in {0, os}
    /\ value = [w \in Words |-> 0]
    /\ size = 0
    /\ proc = Idle
    /\ clean = Resting
    /\ reader = Waiting
    /\ beside \in Others
    /\ work = 0
    /\ hist = [counted |-> 0, covered |-> 0, start |-> os, fell |-> FALSE]

-----------------------------------------------------------------------------
(* The processor.                                                          *)

Goto(at) == proc' = [proc EXCEPT !.at = at]
Store(w, n) == value' = [value EXCEPT ![w] = n]
Add(w, n) == value' = [value EXCEPT ![w] = @ + n]

Work == work < MaxWork /\ work' = work + 1

(* An inserted transaction.                                                *)
Insert ==
    /\ proc.at = "select" /\ Work
    /\ Goto("received")
    /\ UNCHANGED <<value, size, clean, os, last, reader, beside, hist>>

(* A commit, drop or eviction takes an entry from the pool, or finds none, *)
(* and stores no gauge.                                                    *)
Remove ==
    /\ proc.at = "select" /\ Work
    /\ size > 0 /\ size' = size - 1
    /\ UNCHANGED <<value, proc, clean, os, last, reader, beside, hist>>

AddReceived ==
    /\ proc.at = "received"
    /\ Goto("receivedTwin") /\ Add("txReceived", 1)
    /\ UNCHANGED <<size, clean, os, last, reader, beside, work, hist>>

AddReceivedTwin ==
    /\ proc.at = "receivedTwin"
    /\ Goto("receivedStamp") /\ Add("TxReceivedFromNode", 1)
    /\ UNCHANGED <<size, clean, os, last, reader, beside, work, hist>>

StampReceived ==
    /\ proc.at = "receivedStamp"
    /\ Goto("messageSum") /\ Store("lastReceivedAt", value["txReceived"])
    /\ UNCHANGED <<size, clean, os, last, reader, beside, work, hist>>

(* RecordNodeMessageLatency; the latency of the processing has the same    *)
(* code and is left out.                                                   *)
AddSum(at, next) ==
    /\ proc.at = at
    /\ \E micros \in Latencies :
         /\ proc' = [proc EXCEPT !.at = next, !.micros = micros]
         /\ Add("NodeMessageLatencySum", micros)
    /\ UNCHANGED <<size, clean, os, last, reader, beside, work, hist>>

AddCount(at, next) ==
    /\ proc.at = at
    /\ proc' = [proc EXCEPT !.at = next, !.micros = 0]
    /\ Add("NodeMessageLatencyCount", 1)
    /\ hist' = [hist EXCEPT !.counted = @ + proc.micros]
    /\ UNCHANGED <<size, clean, os, last, reader, beside, work>>

RecordNodeMessageLatency ==
    AddSum("messageSum", "messageCount") \/ AddCount("messageCount", "pool")

(* A transaction that does not marshal or is already pooled ends the       *)
(* handler here.                                                           *)
AddToPool ==
    /\ proc.at = "pool"
    /\ \/ Goto("select") /\ UNCHANGED size
       \/ Goto("measure") /\ size' = size + 1
    /\ UNCHANGED <<value, clean, os, last, reader, beside, work, hist>>

Measure ==
    /\ proc.at = "measure"
    /\ proc' = [proc EXCEPT !.at = "gauge", !.size = size]
    /\ UNCHANGED <<value, size, clean, os, last, reader, beside, work, hist>>

StoreGauge ==
    /\ proc.at = "gauge"
    /\ Goto("gaugeTwin") /\ Store("poolSize", proc.size)
    /\ UNCHANGED <<size, clean, os, last, reader, beside, work, hist>>

(* With it the handler knows how many transactions it streams: none, one,  *)
(* or a pair.                                                              *)
StoreGaugeTwin ==
    /\ proc.at = "gaugeTwin"
    /\ \E sends \in 0..2 :
         proc' = [proc EXCEPT !.at = "dispatch", !.size = 0, !.sends = sends]
    /\ Store("PoolSize", proc.size)
    /\ UNCHANGED <<size, clean, os, last, reader, beside, work, hist>>

(* The next send, with success or without; after the last the handler ends.*)
Dispatch ==
    /\ proc.at = "dispatch"
    /\ IF proc.sends = 0 THEN Goto("select")
       ELSE \E at \in {"sent", "dispatch"} :
              proc' = [proc EXCEPT !.at = at, !.sends = @ - 1]
    /\ UNCHANGED <<value, size, clean, os, last, reader, beside, work, hist>>

AddStreamed ==
    /\ proc.at = "sent"
    /\ Goto("sentTwin") /\ Add("txStreamed", 1)
    /\ UNCHANGED <<size, clean, os, last, reader, beside, work, hist>>

AddStreamedTwin ==
    /\ proc.at = "sentTwin"
    /\ Goto("sentStamp") /\ Add("TxSentToNode", 1)
    /\ UNCHANGED <<size, clean, os, last, reader, beside, work, hist>>

StampSent ==
    /\ proc.at = "sentStamp"
    /\ Goto("dispatch") /\ Store("lastSentAt", value["txStreamed"])
    /\ UNCHANGED <<size, clean, os, last, reader, beside, work, hist>>

Handler ==
    \/ AddReceived \/ AddReceivedTwin \/ StampReceived \/ RecordNodeMessageLatency
    \/ AddToPool \/ Measure \/ StoreGauge \/ StoreGaugeTwin \/ Dispatch
    \/ AddStreamed \/ AddStreamedTwin \/ StampSent

-----------------------------------------------------------------------------
(* The cleaner.                                                            *)

Purge ==
    /\ beside = "cleaner" /\ clean.at = "wait"
    /\ clean' = [clean EXCEPT !.at = "measure"]
    /\ size' \in 0..size
    /\ UNCHANGED <<value, proc, os, last, reader, beside, work, hist>>

MeasureAfter ==
    /\ clean.at = "measure"
    /\ clean' = [clean EXCEPT !.at = "gauge", !.size = size]
    /\ UNCHANGED <<value, size, proc, os, last, reader, beside, work, hist>>

StoreGaugeAfter ==
    /\ clean.at = "gauge"
    /\ clean' = [clean EXCEPT !.at = "gaugeTwin"]
    /\ Store("poolSize", clean.size)
    /\ UNCHANGED <<size, proc, os, last, reader, beside, work, hist>>

(* Mutant: stores the gauge of /health alone.                              *)
StoreGaugeTwinAfterSkips ==
    /\ clean.at = "gaugeTwin"
    /\ clean' = Resting
    /\ UNCHANGED <<value, size, proc, os, last, reader, beside, work, hist>>

StoreGaugeTwinAfter ==
    /\ clean.at = "gaugeTwin"
    /\ clean' = Resting
    /\ Store("PoolSize", clean.size)
    /\ UNCHANGED <<size, proc, os, last, reader, beside, work, hist>>

cleanupOldTransactions ==
    Purge \/ MeasureAfter \/ StoreGaugeAfter \/ StoreGaugeTwinAfter

-----------------------------------------------------------------------------
(* The collector.  The subtraction and the addition are of unsigned words. *)

(* Mutant: does without a baseline.                                        *)
DeltaAlways(reading) == (reading - last) % WordSize

(* Without a baseline, which a reading of zero is not, there is no delta.  *)
Delta(reading) == IF last > 0 THEN (reading - last) % WordSize ELSE 0

(* updateDiskIO and updateNetworkIO: the counter has moved, or a part of   *)
(* it has gone with an interface; a reading that fails changes nothing.    *)
Collected ==
    /\ beside = "collector" /\ Work
    /\ os' \in 0..(WordSize - 1)
    /\ hist' = [hist EXCEPT !.fell = @ \/ os' < os]
    /\ \/ UNCHANGED <<value, last>>
       \/ /\ Store("DiskReadBytes", (value["DiskReadBytes"] + Delta(os')) % WordSize)
          /\ last' = os'
    /\ UNCHANGED <<size, proc, clean, reader, beside>>

-----------------------------------------------------------------------------
(* A request to one of the endpoints.                                      *)

Request ==
    /\ beside = "reader" /\ reader.next = 0
    /\ \E e \in Endpoints :
         reader' = [endpoint |-> e, next |-> 1, seen |-> Unseen]
    /\ UNCHANGED <<value, size, proc, clean, os, last, beside, work, hist>>

Slot == Loads(reader.endpoint)[reader.next]

(* An average of nothing is zero, without a look at the sum.               *)
Seen ==
    IF Slot = "NodeMessageLatencySum" /\ reader.seen["NodeMessageLatencyCount"] = 0
    THEN 0 ELSE value[Slot]

Load ==
    /\ reader.next \in 1..Len(Loads(reader.endpoint))
    /\ reader' = [reader EXCEPT !.next = @ + 1, !.seen[Slot] = Seen]
    /\ hist' = [hist EXCEPT !.covered =
                  IF Slot = "NodeMessageLatencyCount" THEN hist.counted ELSE @]
    /\ UNCHANGED <<value, size, proc, clean, os, last, beside, work>>

Answered == reader.next > Len(Loads(reader.endpoint))

Respond ==
    /\ Answered
    /\ reader' = Waiting
    /\ hist' = [hist EXCEPT !.covered = 0]
    /\ UNCHANGED <<value, size, proc, clean, os, last, beside, work>>

Next ==
    \/ Insert \/ Remove \/ Handler \/ cleanupOldTransactions \/ Collected
    \/ Request \/ Load \/ Respond

Spec == Init /\ [][Next]_vars

(* Go runs a goroutine that can run, and the timer goes on.                *)
FairSpec == Spec /\ WF_vars(Handler) /\ WF_vars(cleanupOldTransactions)

-----------------------------------------------------------------------------
TypeOK ==
    /\ value \in [Words -> Nat]
    /\ size \in Nat
    /\ proc \in Processor /\ clean \in Cleaner
    /\ os \in 0..(WordSize - 1) /\ last \in 0..(WordSize - 1)
    /\ reader \in Reader
    /\ beside \in Others
    /\ work \in 0..MaxWork
    /\ hist \in History

(* No answer shows the time of a transaction that it does not count: every *)
(* time stamp is of one of the transactions in the count beside it.        *)
StampsAreCounted ==
    Answered /\ reader.endpoint # "metrics" =>
        /\ reader.seen["lastReceivedAt"] <= reader.seen["txReceived"]
        /\ reader.seen["lastSentAt"] <= reader.seen["txStreamed"]

(* In one scrape the count kept for /health is never behind its twin of    *)
(* the metrics, although the two are written and read at four moments.     *)
HealthCoversMetrics ==
    Answered /\ reader.endpoint = "prometheus" =>
        /\ reader.seen["TxReceivedFromNode"] <= reader.seen["txReceived"]
        /\ reader.seen["TxSentToNode"] <= reader.seen["txStreamed"]

(* The sum of an average includes every latency that its count does: what  *)
(* is published is never below the average of the latencies counted.       *)
AverageCovers ==
    Answered /\ reader.endpoint # "health" =>
        reader.seen["NodeMessageLatencySum"] >= hist.covered

(* As long as the system's counter does not fall the metric never exceeds  *)
(* what has gone by since the start, whichever readings fail.              *)
NoOvercount == ~hist.fell => value["DiskReadBytes"] <= os - hist.start

(* Whatever order processor and cleaner store the two gauges in, once the  *)
(* txpool falls silent they agree for good.                                *)
GaugesAgree == <>[](value["poolSize"] = value["PoolSize"])
=============================================================================
