------------------------------ MODULE Sidecar ------------------------------
(***************************************************************************)
(* internal/orchestrator/sidecar.go over internal/pool/transactionpool.go: *)
(* the two goroutines that share the transaction pool, the map of          *)
(* prioritized transactions, the pool_size gauge and the counters.         *)
(*                                                                         *)
(*   processor   processTxPoolEvents: takes one event of the txpool at a   *)
(*               time and runs its handler to the end;                     *)
(*   cleaner     cleanupOldTransactions: on each tick of its timer purges  *)
(*               what is older than PoolMaxDuration.                       *)
(*                                                                         *)
(* Each access to the pool, to the map or to the gauge is one action, so   *)
(* the two goroutines interleave wherever Go lets them.  A counter is      *)
(* raised in the action of the access it follows: only one goroutine       *)
(* writes it and neither reads it.  The gauge and the two counters that    *)
(* the code keeps twice are kept once.  The txpool is outside src/ and     *)
(* appears as NodeEvent; the outcome of SendTxWithPriorityRLP is a choice  *)
(* here and is modelled in TxPoolClient.                                   *)
(***************************************************************************)
EXTENDS Filter, Integers, FiniteSets

CONSTANTS
    Calldata,      \* the call record of each transaction
    MaxDuration,   \* config.PoolMaxDuration, in ticks of Clock
    EventCap,      \* capacity of eventChan (1000 in the code)
    Feed,          \* the events the txpool may produce
    MaxEvents,     \* bound: how many it produces in a behaviour
    NoEntry        \* "no entry" in one of the two maps

(* Insert, Commit, Drop and Evict, about a transaction.                    *)
Event == [action : {"insert", "commit", "drop", "evict"}, tx : Hashes]

ASSUME MaxDurationAssumption == MaxDuration \in Nat
ASSUME EventCapAssumption == EventCap \in Nat \ {0}
ASSUME MaxEventsAssumption == MaxEvents \in Nat
ASSUME NoEntryAssumption == NoEntry \notin Nat
ASSUME HashesAssumption ==
    /\ IsFiniteSet(Hashes) /\ Hashes # {}
    /\ ZeroHash \notin Hashes /\ NoTarget \notin Hashes \cup {ZeroHash}
ASSUME CalldataAssumption == Calldata \in [Hashes -> Call]
ASSUME FeedAssumption == Feed \subseteq Event

VARIABLES
    pool,        \* age of each entry of TransactionPool.allTxs, or NoEntry
    prioritized, \* age of each entry of prioritizedTxs, or NoEntry
    events,      \* contents of eventChan
    fed,         \* events produced so far by the txpool
    proc,        \* where the processor is, and its locals
    clean,       \* where the cleaner is, and its locals
    poolSize,    \* the pool_size gauge
    ctr,         \* the counters of metrics.Metrics
    ctxDone,     \* the context is cancelled
    hist         \* history of what no variable of the code remembers

vars == <<pool, prioritized, events, fed, proc, clean, poolSize, ctr, ctxDone, hist>>

-----------------------------------------------------------------------------
(* Ages stop at MaxDuration + 1: everything older is expired alike.        *)
Ages == 0..(MaxDuration + 1)
Roles == {"tob", "opp", "bid"}
ProcessorPC == {"select", "exists", "echo", "add", "size", "gauge", "target",
                "fetch", "send", "track", "untrack", "remove", "done"}
CleanerPC == {"wait", "purge", "count", "gauge", "lapse", "done"}

(* The processor's locals: the event it handles, what it is streaming, the *)
(* size it read.  The cleaner's: the sizes before and after its purge.     *)
(* They mean nothing while the goroutine waits in its select.              *)
Processor == [at : ProcessorPC, event : Event, role : Roles, size : Nat]
Cleaner == [at : CleanerPC, before : Nat, after : Nat]

Idle == [at |-> "select", event |-> CHOOSE e \in Event : TRUE,
         role |-> "tob", size |-> 0]
Resting == [at |-> "wait", before |-> 0, after |-> 0]

(* The counters that matter here.  RoundTrips are the echoes handed to     *)
(* RecordPriorityRoundTrip, which runs in a goroutine of its own and is    *)
(* modelled in Histogram; the other names are those of the code, without   *)
(* the prefix PrioritizedTx of the last three.                             *)
Counters == {"TxReceivedFromNode", "DecodeErrors", "TxDropped", "TxExpired",
             "TOBBidsProcessed", "BackrunBidsProcessed", "NormalTxsProcessed",
             "BackrunPairsMatched", "TxSentToNode", "SendErrors", "RoundTrips",
             "CommittedBeforeEcho", "DroppedBeforeEcho", "EvictedBeforeEcho"}

(* removed: entries that ever left the pool; restamped: sends that found   *)
(* an older send of the same transaction still tracked; lapsed: tracked    *)
(* sends the cleaner gave up on; ownSends: how often each transaction was  *)
(* streamed as a bid since it last entered the pool; oppSent: whether the  *)
(* opportunity of the bid being handled was streamed.                      *)
History == [removed : Nat, restamped : Nat, lapsed : Nat,
            ownSends : [Hashes -> Nat], oppSent : BOOLEAN]

(* The keys of a map, and the map without some of them.                    *)
Keys(m) == {h \in Hashes : m[h] # NoEntry}
Without(m, S) == [h \in Hashes |-> IF h \in S THEN NoEntry ELSE m[h]]
Expired(m) == {h \in Keys(m) : m[h] > MaxDuration}
Aged(m) == [h \in Hashes |->
              IF m[h] \in 0..MaxDuration THEN m[h] + 1 ELSE m[h]]

Class(h) == ClassifyTransaction(Calldata[h])
Target(h) == Class(h).target
Size == Cardinality(Keys(pool))

Bump(S) == ctr' = [c \in Counters |-> IF c \in S THEN ctr[c] + 1 ELSE ctr[c]]

(* Mutant: the subtraction without its guard.                              *)
ExpiredCountUnguarded(b, a) == b - a

(* The number the cleaner adds to TxExpired: never negative.               *)
ExpiredCount(b, a) == IF a < b THEN b - a ELSE 0

-----------------------------------------------------------------------------
Init ==
    /\ pool = [h \in Hashes |-> NoEntry]
    /\ prioritized = [h \in Hashes |-> NoEntry]
    /\ events = <<>>
    /\ fed = 0
    /\ proc = Idle
    /\ clean = Resting
    /\ poolSize = 0
    /\ ctr = [c \in Counters |-> 0]
    /\ ctxDone = FALSE
    /\ hist = [removed |-> 0, restamped |-> 0, lapsed |-> 0,
               ownSends |-> [h \in Hashes |-> 0], oppSent |-> FALSE]

(* The reader of the IPC client offers an event; a full channel loses it.  *)
NodeEvent ==
    /\ fed < MaxEvents
    /\ fed' = fed + 1
    /\ \E e \in Feed :
         events' = IF Len(events) < EventCap THEN Append(events, e) ELSE events
    /\ UNCHANGED <<pool, prioritized, proc, clean, poolSize, ctr, ctxDone, hist>>

-----------------------------------------------------------------------------
(* The processor.                                                          *)

tx == proc.event.tx

Goto(at) == proc' = [proc EXCEPT !.at = at]

(* case event := <-eventChan, and what the handler does before it touches  *)
(* anything shared with the cleaner.                                       *)
Receive ==
    /\ proc.at = "select" /\ events # <<>>
    /\ LET e == Head(events) IN
       /\ proc' = [proc EXCEPT !.event = e,
                     !.at = IF e.action = "insert" THEN "exists" ELSE "untrack"]
       /\ Bump(CASE e.action = "insert" -> {"TxReceivedFromNode"}
                 [] e.action = "drop"   -> {"TxDropped"}
                 [] OTHER               -> {})
    /\ events' = Tail(events)
    /\ UNCHANGED <<pool, prioritized, fed, clean, poolSize, ctxDone, hist>>

(* Mutant: looks at the context only when an event arrives.                *)
ProcessorStopsOnEvent ==
    /\ proc.at = "select" /\ ctxDone /\ events # <<>>
    /\ Goto("done")
    /\ UNCHANGED <<pool, prioritized, events, fed, clean, poolSize, ctr, ctxDone, hist>>

(* Mutant: gives up an event whose transaction is already pooled.          *)
ProcessorStopsMidEvent ==
    /\ proc.at \in {"select", "size"} /\ ctxDone
    /\ Goto("done")
    /\ UNCHANGED <<pool, prioritized, events, fed, clean, poolSize, ctr, ctxDone, hist>>

(* case <-ctx.Done(): the deferred close of shutdownChan ends the process. *)
ProcessorStops ==
    /\ proc.at = "select" /\ ctxDone
    /\ Goto("done")
    /\ UNCHANGED <<pool, prioritized, events, fed, clean, poolSize, ctr, ctxDone, hist>>

MarshalFails ==
    /\ proc.at = "exists"
    /\ proc' = Idle
    /\ Bump({"DecodeErrors"})
    /\ UNCHANGED <<pool, prioritized, events, fed, clean, poolSize, ctxDone, hist>>

(* Mutant: asks the map of sends instead of the pool.                      *)
ExistsByTracking ==
    /\ proc.at = "exists"
    /\ Goto(IF tx \in Keys(prioritized) THEN "echo" ELSE "add")
    /\ UNCHANGED <<pool, prioritized, events, fed, clean, poolSize, ctr, ctxDone, hist>>

Exists ==
    /\ proc.at = "exists"
    /\ Goto(IF tx \in Keys(pool) THEN "echo" ELSE "add")
    /\ UNCHANGED <<pool, prioritized, events, fed, clean, poolSize, ctr, ctxDone, hist>>

(* Mutant: measures the round trip and forgets the delete.                 *)
EchoKeepsEntry ==
    /\ proc.at = "echo"
    /\ proc' = Idle
    /\ Bump(IF tx \in Keys(prioritized) THEN {"RoundTrips"} ELSE {})
    /\ UNCHANGED <<pool, prioritized, events, fed, clean, poolSize, ctxDone, hist>>

(* A transaction already pooled: the echo of a send, or a plain repeat.    *)
Echo ==
    /\ proc.at = "echo"
    /\ proc' = Idle
    /\ prioritized' = Without(prioritized, {tx})
    /\ Bump(IF tx \in Keys(prioritized) THEN {"RoundTrips"} ELSE {})
    /\ UNCHANGED <<pool, events, fed, clean, poolSize, ctxDone, hist>>

Add ==
    /\ proc.at = "add"
    /\ Goto("size")
    /\ IF tx \in Keys(pool)
       THEN UNCHANGED <<pool, hist>>
       ELSE /\ pool' = [pool EXCEPT ![tx] = 0]
            /\ hist' = [hist EXCEPT !.ownSends[tx] = 0]
    /\ UNCHANGED <<prioritized, events, fed, clean, poolSize, ctr, ctxDone>>

ReadSize ==
    /\ proc.at = "size"
    /\ proc' = [proc EXCEPT !.at = "gauge", !.size = Size]
    /\ UNCHANGED <<pool, prioritized, events, fed, clean, poolSize, ctr, ctxDone, hist>>

(* Stores the gauge, counts the transaction under its type and dispatches  *)
(* it: a TOB bid streams itself, a backrun bid looks for its opportunity.  *)
Dispatch ==
    /\ proc.at = "gauge"
    /\ poolSize' = proc.size
    /\ CASE Class(tx).type = "TOBBid" ->
              /\ proc' = [proc EXCEPT !.at = "fetch", !.role = "tob"]
              /\ Bump({"TOBBidsProcessed"})
         [] Class(tx).type = "BackrunBid" ->
              Goto("target") /\ Bump({"BackrunBidsProcessed"})
         [] OTHER ->
              proc' = Idle /\ Bump({"NormalTxsProcessed"})
    /\ UNCHANGED <<pool, prioritized, events, fed, clean, ctxDone, hist>>

(* handleBackrunBid: without its opportunity in the pool a bid is dropped. *)
FindTarget ==
    /\ proc.at = "target"
    /\ proc' = IF Target(tx) \in Keys(pool)
               THEN [proc EXCEPT !.at = "fetch", !.role = "opp"] ELSE Idle
    /\ hist' = [hist EXCEPT !.oppSent = FALSE]
    /\ UNCHANGED <<pool, prioritized, events, fed, clean, poolSize, ctr, ctxDone>>

(* streamTransaction is called for Subject in the current role.            *)
Subject == IF proc.role = "opp" THEN Target(tx) ELSE tx

(* Its return: after the opportunity comes the bid, and after the bid the  *)
(* pair is counted, whatever became of the two sends.                      *)
Return(counted) ==
    /\ proc' = IF proc.role = "opp"
               THEN [proc EXCEPT !.at = "fetch", !.role = "bid"] ELSE Idle
    /\ Bump(counted \cup (IF proc.role = "bid" THEN {"BackrunPairsMatched"} ELSE {}))

FetchRLP ==
    /\ proc.at = "fetch" /\ Subject \in Keys(pool)
    /\ Goto("send")
    /\ UNCHANGED <<pool, prioritized, events, fed, clean, poolSize, ctr, ctxDone, hist>>

(* Mutant: a transaction gone from the pool is skipped in silence.         *)
FetchFailsUncounted ==
    /\ proc.at = "fetch" /\ Subject \notin Keys(pool)
    /\ Return({})
    /\ UNCHANGED <<pool, prioritized, events, fed, clean, poolSize, ctxDone, hist>>

FetchFails ==
    /\ proc.at = "fetch" /\ Subject \notin Keys(pool)
    /\ Return({"SendErrors"})
    /\ UNCHANGED <<pool, prioritized, events, fed, clean, poolSize, ctxDone, hist>>

SendFails ==
    /\ proc.at = "send"
    /\ Return({"SendErrors"})
    /\ UNCHANGED <<pool, prioritized, events, fed, clean, poolSize, ctxDone, hist>>

SendSucceeds ==
    /\ proc.at = "send"
    /\ Goto("track")
    /\ Bump({"TxSentToNode"})
    /\ hist' = IF proc.role = "opp" THEN [hist EXCEPT !.oppSent = TRUE]
               ELSE [hist EXCEPT !.ownSends[tx] = @ + 1]
    /\ UNCHANGED <<pool, prioritized, events, fed, clean, poolSize, ctxDone>>

(* prioritizedTxs[hash] = time.Now(), after the send has happened.         *)
Track ==
    /\ proc.at = "track"
    /\ prioritized' = [prioritized EXCEPT ![Subject] = 0]
    /\ hist' = IF Subject \in Keys(prioritized)
               THEN [hist EXCEPT !.restamped = @ + 1] ELSE hist
    /\ Return({})
    /\ UNCHANGED <<pool, events, fed, clean, poolSize, ctxDone>>

(* removePrioritizedTx and its three callers.                              *)
BeforeEchoCounter(action) ==
    CASE action = "commit" -> "CommittedBeforeEcho"
      [] action = "drop"   -> "DroppedBeforeEcho"
      [] OTHER             -> "EvictedBeforeEcho"

removePrioritizedTx ==
    /\ proc.at = "untrack"
    /\ Goto("remove")
    /\ prioritized' = Without(prioritized, {tx})
    /\ Bump(IF tx \in Keys(prioritized)
            THEN {BeforeEchoCounter(proc.event.action)} ELSE {})
    /\ UNCHANGED <<pool, events, fed, clean, poolSize, ctxDone, hist>>

RemoveTransaction ==
    /\ proc.at = "remove"
    /\ proc' = Idle
    /\ pool' = Without(pool, {tx})
    /\ hist' = IF tx \in Keys(pool) THEN [hist EXCEPT !.removed = @ + 1] ELSE hist
    /\ UNCHANGED <<prioritized, events, fed, clean, poolSize, ctr, ctxDone>>

processTxPoolEvents ==
    \/ Receive \/ ProcessorStops \/ MarshalFails \/ Exists \/ Echo \/ Add
    \/ ReadSize \/ Dispatch \/ FindTarget \/ FetchRLP \/ FetchFails
    \/ SendFails \/ SendSucceeds \/ Track \/ removePrioritizedTx
    \/ RemoveTransaction

-----------------------------------------------------------------------------
(* The cleaner.                                                            *)

(* Mutant: starts from the gauge instead of the pool.                      *)
TickFromGauge ==
    /\ clean.at = "wait"
    /\ clean' = [clean EXCEPT !.at = "purge", !.before = poolSize]
    /\ UNCHANGED <<pool, prioritized, events, fed, proc, poolSize, ctr, ctxDone, hist>>

Tick ==
    /\ clean.at = "wait"
    /\ clean' = [clean EXCEPT !.at = "purge", !.before = Size]
    /\ UNCHANGED <<pool, prioritized, events, fed, proc, poolSize, ctr, ctxDone, hist>>

CleanerStops ==
    /\ clean.at = "wait" /\ ctxDone
    /\ clean' = [clean EXCEPT !.at = "done"]
    /\ UNCHANGED <<pool, prioritized, events, fed, proc, poolSize, ctr, ctxDone, hist>>

CleanupOldTransactions ==
    /\ clean.at = "purge"
    /\ clean' = [clean EXCEPT !.at = "count"]
    /\ pool' = Without(pool, Expired(pool))
    /\ hist' = [hist EXCEPT !.removed = @ + Cardinality(Expired(pool))]
    /\ UNCHANGED <<prioritized, events, fed, proc, poolSize, ctr, ctxDone>>

CountExpired ==
    /\ clean.at = "count"
    /\ clean' = [clean EXCEPT !.at = "gauge", !.after = Size]
    /\ ctr' = [ctr EXCEPT !["TxExpired"] = @ + ExpiredCount(clean.before, Size)]
    /\ UNCHANGED <<pool, prioritized, events, fed, proc, poolSize, ctxDone, hist>>

StoreSizeAfter ==
    /\ clean.at = "gauge"
    /\ clean' = [clean EXCEPT !.at = "lapse"]
    /\ poolSize' = clean.after
    /\ UNCHANGED <<pool, prioritized, events, fed, proc, ctr, ctxDone, hist>>

(* Mutant: forgets the sends of the transactions that expire in the pool.  *)
LapseWithPool ==
    /\ clean.at = "lapse"
    /\ clean' = Resting
    /\ prioritized' = Without(prioritized, Expired(pool))
    /\ hist' = [hist EXCEPT !.lapsed =
                  @ + Cardinality(Keys(prioritized) \cap Expired(pool))]
    /\ UNCHANGED <<pool, events, fed, proc, poolSize, ctr, ctxDone>>

LapsePrioritized ==
    /\ clean.at = "lapse"
    /\ clean' = Resting
    /\ prioritized' = Without(prioritized, Expired(prioritized))
    /\ hist' = [hist EXCEPT !.lapsed = @ + Cardinality(Expired(prioritized))]
    /\ UNCHANGED <<pool, events, fed, proc, poolSize, ctr, ctxDone>>

cleanupOldTransactions ==
    \/ Tick \/ CleanerStops \/ CleanupOldTransactions \/ CountExpired
    \/ StoreSizeAfter \/ LapsePrioritized

-----------------------------------------------------------------------------
(* Time passes for every entry of both maps.                               *)
Clock ==
    /\ pool' = Aged(pool)
    /\ prioritized' = Aged(prioritized)
    /\ <<pool', prioritized'>> # <<pool, prioritized>>
    /\ UNCHANGED <<events, fed, proc, clean, poolSize, ctr, ctxDone, hist>>

(* Stop cancels the context.                                               *)
Stop ==
    /\ ~ctxDone
    /\ ctxDone' = TRUE
    /\ UNCHANGED <<pool, prioritized, events, fed, proc, clean, poolSize, ctr, hist>>

Next == NodeEvent \/ processTxPoolEvents \/ cleanupOldTransactions \/ Clock \/ Stop

Spec == Init /\ [][Next]_vars

(* Go runs a goroutine that can run; the timer and the clock go on; and a  *)
(* select with both cases ready picks each with positive probability, so   *)
(* it does not pass over a cancelled context for ever.                     *)
Fairness ==
    /\ WF_vars(processTxPoolEvents) /\ SF_vars(ProcessorStops)
    /\ WF_vars(cleanupOldTransactions) /\ SF_vars(CleanerStops)
    /\ WF_vars(Clock)

FairSpec == Spec /\ Fairness

-----------------------------------------------------------------------------
(* Types, and with them that no counter or gauge of the code, all unsigned *)
(* 64-bit words, is ever taken below zero.                                 *)
TypeOK ==
    /\ pool \in [Hashes -> Ages \cup {NoEntry}]
    /\ prioritized \in [Hashes -> Ages \cup {NoEntry}]
    /\ events \in Seq(Event) /\ Len(events) <= EventCap
    /\ fed \in 0..MaxEvents
    /\ proc \in Processor
    /\ clean \in Cleaner
    /\ poolSize \in Nat
    /\ ctr \in [Counters -> Nat]
    /\ ctxDone \in BOOLEAN
    /\ hist \in History

One(condition) == IF condition THEN 1 ELSE 0

(* Sends that have left the map of prioritized transactions.               *)
Settled == ctr["RoundTrips"] + ctr["CommittedBeforeEcho"]
           + ctr["DroppedBeforeEcho"] + ctr["EvictedBeforeEcho"]
           + hist.restamped + hist.lapsed

(* Every transaction counted as sent is accounted for exactly once: it is  *)
(* still tracked, about to be, or it left the map as an echo, through one  *)
(* of the three "before echo" counters, under a newer send of the same     *)
(* transaction, or because the cleaner gave up on it.  The processor and   *)
(* the cleaner change the map and the counters in any interleaving.        *)
SendLedger ==
    ctr["TxSentToNode"] =
        Cardinality(Keys(prioritized)) + Settled + One(proc.at = "track")

(* How many outcomes the handler at work has already counted, less those   *)
(* its dispatch counter promises: one for a TOB bid, two for a pair.       *)
Outstanding ==
    IF proc.at \notin {"fetch", "send", "track"} THEN 0
    ELSE CASE proc.role = "tob" -> One(proc.at = "track") - 1
           [] proc.role = "opp" -> One(proc.at = "track")
           [] OTHER             -> One(proc.at = "track") + 1

(* No attempt to stream is lost or counted twice: each TOB bid comes to    *)
(* one sent or failed transaction and each matched pair to two, whatever   *)
(* the cleaner removes from the pool in between.                           *)
AttemptLedger ==
    ctr["TxSentToNode"] + ctr["SendErrors"] =
        ctr["TOBBidsProcessed"] + 2 * ctr["BackrunPairsMatched"] + Outstanding

(* TxExpired, computed from two sizes read in two lock regions, never      *)
(* exceeds the number of transactions that really left the pool, although  *)
(* the processor adds and removes transactions between the two reads.      *)
ExpiredBounded == ctr["TxExpired"] <= hist.removed

(* A transaction is streamed as a bid at most once while it stays in the   *)
(* pool, however often the txpool repeats it: an echo of our own send is   *)
(* never taken for a new bid.                                              *)
OneSendPerResidency == \A h \in Hashes : hist.ownSends[h] <= 1

(* With no more events and no shutdown both maps drain, and the gauge,     *)
(* which the two goroutines store from sizes read earlier, ends at zero.   *)
Drains ==
    <>[]\/ ctxDone
        \/ Keys(pool) = {} /\ Keys(prioritized) = {} /\ poolSize = 0

(* Once the context is cancelled both goroutines end.                      *)
StopsBoth == ctxDone ~> (proc.at = "done" /\ clean.at = "done")

(* What the IPC client sees of the processor, with whatever handler it     *)
(* runs: SidecarSystem joins this with the client.                         *)
Stage == IF proc.at \in {"select", "send", "done"} THEN proc.at ELSE "working"

Caller == INSTANCE Streamer WITH at <- Stage, cancelled <- ctxDone

ImplementsStreamer == Caller!Spec

-----------------------------------------------------------------------------
(* What the sources say and the code does not do.                          *)

(* sidecar.go, handleBackrunBid: "look for opportunity and stream both".   *)
BidFollowsOpportunity ==
    proc.at = "track" /\ proc.role = "bid" => hist.oppSent
=============================================================================
