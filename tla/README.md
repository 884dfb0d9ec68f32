# A TLA+ verification project for fastlane-sidecar

The sidecar runs beside a Monad node. It receives every event of the node's
transaction pool (the *txpool*) over a unix socket, keeps a short-lived copy of
the pending transactions, recognises bids addressed to the FastLane contract,
and streams bids, and the transactions they are placed behind, back to the
txpool with a 256-bit priority. This directory models the parts of it where
goroutines meet, and the bytes and priorities that it exchanges, with the TLC
runs that check them and the TLAPS proofs that hold for every value of the
constants.

Run everything from this directory: `tlc -config SidecarPair.cfg MCSidecar.tla`,
`tlapm SidecarProofs.tla`.

## 1. Inventory

### Parts, their state, and how they interact

| Part | Source | State | Operations | Module |
|---|---|---|---|---|
| Event processor | `internal/orchestrator/sidecar.go` 190-411 | none of its own; one event at a time | Insert, Commit, Drop, Evict; dispatch; `streamTransaction` | `Sidecar` |
| Cleaner | `sidecar.go` 414-453 | a ticker | purge, count, store the gauge, lapse tracked sends | `Sidecar` |
| Transaction pool | `internal/pool/transactionpool.go` | `allTxs` under a RWMutex | `Exists`, `Add`, `Remove`, `Cleanup`, `Size`, `GetTransaction` | `Sidecar` |
| Tracked sends | `sidecar.go` 41-43 | `prioritizedTxs` under a mutex | set after a send; deleted by echo, removal, lapse | `Sidecar` |
| Bid filter | `internal/processor/filter.go` | the parsed ABI | `ClassifyTransaction` | `Filter` |
| Priority calculator | `internal/priorities/calculator.go` | none | three calculators, `FormatPriority`, the sort | `Priorities` |
| IPC client | `internal/ipc/txpool_client.go` | `conn`, `connected`, `reconnectChan` | reconnection loop, reader per connection, send, `Close` | `TxPoolClient` |
| Event stream | `txpool_client.go` 121-206 | the bounded `eventChan`, the bytes on a connection | snapshot, vectors of events, push or drop | `EventStream`, `Wire` |
| Wire types | `internal/ipc/txpool_types.go` | none | bincode decoders, RLP encoder | `Bincode`, `Rlp`, `Wire` |
| Start and stop | `sidecar.go` 129-167 | the context | cancel, close the connection | `SidecarSystem` |
| Histograms | `internal/metrics/metrics.go` 156-222 | atomic sum, count, buckets | record (a goroutine each), scrape | `Histogram` |
| Counters, gauges | `metrics.go` 11-134, `sidecar.go` 32-38 | atomic words, some kept twice | add, store, load | `Sidecar`, `Monitoring` |
| Prometheus collector | `internal/metrics/prometheus.go` | none | one load after another | `Histogram`, `Monitoring` |
| System metrics | `internal/metrics/system.go` | last readings | deltas on a timer | `Monitoring` |
| HTTP server | `internal/health/server.go` | the listener | `/health`, `/metrics`, `/prometheus/metrics` | `Monitoring` |
| Frames | `internal/ipc/protocol.go` | none | `ReadFrame`, `WriteFrame`: no caller | not modelled |
| Legacy serialization | `pkg/types/serialization.go` | none | no caller | not modelled |
| Config, log, main | `pkg/config`, `pkg/log`, `cmd/sidecar` | none | read once; output; start and wait | not modelled |

The connections between them:

    txpool --events--> reader --eventChan(1000)--> processor --> pool, prioritizedTxs
       ^                 |                          |   ^             ^
       |        connected, reconnectChan            |   | select      |
       |                 v                          |  ctx       cleaner (ticker)
       |         reconnection loop                  v
       +------- conn <------------------- SendTxWithPriorityRLP

Nothing is persisted: a restart begins with empty maps. Three mutexes and a set
of atomic words protect single accesses; no lock is held from one access to the
next, so every pair of accesses may have another goroutine's work in between.

### What is hard

* *Two goroutines over two maps, a gauge and counters.* The cleaner reads the
  size, purges, reads the size again, stores the gauge and lapses tracked sends
  in five separate regions; the processor looks an opportunity up, looks it up
  again to send it, sends, and only then tracks the send.
* *Three kinds of goroutine over one connection.* The loop, any number of
  readers, old and new, and the sender write `conn`, `connected` and the signal
  channel, each without knowing which connection is installed.
* *Loss.* A full `eventChan` drops events; connections fail at any point; a
  snapshot may not decode.
* *The echo.* The txpool reports what the sidecar streamed as a new insert.
* *Writes without a deadline.* A txpool that does not read holds the one caller
  of a send, which is also the one who empties `eventChan`.
* *Bytes.* Every field is cut from a message at an offset that the fields before
  it add up to; a bad message must cost itself and no neighbour.
* *Answers put together from many loads* while their writers are at work: of
  histograms, of time stamps beside counts, of words that are kept twice.
* *Unsigned deltas* of counters that may fall.
* *Bit fields* whose contents are wider than the field.

`PROJECT.json` lists each as a hazard at its line, with the properties that
cover it, or the reason why none does.

### What makes each part correct

* Processor, cleaner, pool: every send and every attempt is accounted for
  (`SendLedger`, `AttemptLedger`); `TxExpired` never exceeds what has left the
  pool (`ExpiredBounded`); an echo is not a new bid (`OneSendPerResidency`);
  everything drains and stops (`Drains`, `StopsBoth`).
* Client: no failure is forgotten (`NoLostReconnect`), the client reconnects to
  a peer that stays up and answers (`Reconnects`), its loop ends (`LoopEnds`),
  and what is written to is what `Close` would close (`WritesToInstalled`).
* Event stream: every event written is taken, waiting, dropped at a full channel
  or skipped with its message, and only one of these (`EventLedger`); the
  processor sees a connection in order, at most once (`ImplementsLink`); a
  cancellation reaches the readers (`OneMessageAfterCancel`, `ReadersEnd`); readers
  come to the end even while a send holds the processor (`Drains`).
* Processor and client together: a send returns unless the txpool holds it
  (`SendReturns`); `Stop` ends a processor that is held (`StopCompletes`).
* Bytes: what is delivered is what was meant (`DeliversWhatWasMeant`), what is
  sent is read back (`RequestsReadBack`), a short message with honest counts is an
  error, with one exception (`PanicsOnlyAtReplacement`).
* Calculator: the five statements about the order of priorities.
* Histograms: a scrape is consistent with the interval it took
  (`ScrapeWithinInterval`, `SumCoversCount`) and never falls (`NeverFalls`).
* Answers: a time stamp belongs to a transaction that is counted
  (`StampsAreCounted`), twins are ordered or agree (`HealthCoversMetrics`,
  `GaugesAgree`), an average has the sum of all it counts (`AverageCovers`),
  nothing of the system is counted twice (`NoOvercount`).

## 2. Modules

| Module | What it is |
|---|---|
| `Filter`, `Sidecar` | processor and cleaner over pool, tracked sends, counters |
| `Streamer` | abstract: what the client sees of the processor; `Sidecar` implements it |
| `TxPoolClient` | the connection: loop, readers, sender, `Close`, faults |
| `SidecarSystem` | `Streamer` composed with `TxPoolClient`, and `Stop` |
| `LossyLink` | abstract: what the processor may rely on; `EventStream` implements it |
| `EventStream` | messages from the txpool's write to the processor's receive |
| `Bytes`, `Bincode`, `Rlp` | operators: numbers in bytes, the decoders, the encoder |
| `Wire` | one connection byte by byte, over the three above |
| `Priorities` | the 256-bit priorities |
| `Histogram` | one histogram, its recorders and a scrape |
| `Monitoring` | the words behind the three endpoints, their writers and a request |
| `MC*` | values of constants for TLC |
| `*Proofs` | theorems and proofs about the module of that name: `Sidecar`, `TxPoolClient`, `SidecarSystem`, `EventStream`, `Wire`, `Priorities`, `Histogram`, `Monitoring` |

`Sidecar` takes the outcome of a send as a choice and `TxPoolClient` takes the
processor as a caller; `SidecarSystem` joins the two through `Streamer`, of
which `Sidecar` is shown to be a refinement. `TxPoolClient` leaves out what the
readers read, `EventStream` leaves out which connection is installed and takes
decoding as a choice, `Wire` is about what decoding yields.

### `Filter`

`ClassifyTransaction` and `classifyFlashExecutionBid` over call records: whether
the call goes to the contract, carries the selector, decodes, and which hashes
it names. The zero hash ends the list; one hash is a top-of-block bid, two a bid
behind the first, everything else an ordinary transaction.

### `Sidecar` (extends `Filter`)

| Variable | Code |
|---|---|
| `pool` | `TransactionPool.allTxs`, each entry's age, or `NoEntry` |
| `prioritized` | `Sidecar.prioritizedTxs`, each entry's age, or `NoEntry` |
| `events` | `eventChan` |
| `proc` | where the processor is, with `event`, `poolSize` and what it is streaming |
| `clean` | where the cleaner is, with `sizeBefore` and `sizeAfter` |
| `poolSize`, `ctr` | the gauge and the counters |
| `ctxDone` | the cancelled context |
| `fed`, `hist` | the bound on events; history for the properties |

`processTxPoolEvents` is the disjunction of the processor's steps,
`cleanupOldTransactions` of the cleaner's; each step names the access it models
(`Exists`, `Add`, `FetchRLP`, `Track`, `LapsePrioritized`, ...).
`streamTransaction` is `FetchRLP`/`FetchFails`, `SendSucceeds`/`SendFails`,
`Track`, and `Return`, which continues with the bid after the opportunity.

Abstractions:

* Whether a send succeeds is a choice; the reasons are in `TxPoolClient`. A send
  returns: writes have no deadline in the code, so this is an assumption, which
  `SidecarSystem` does without.
* Time is `Clock`, which ages both maps; ages stop at `MaxDuration + 1`. The
  ticker is not tied to the clock, so the cleaner may run at any moment.
* `TxType` and `BidData` of a pool entry are written and never read: left out,
  with `PoolCleanupOps`, latency sums and timestamps. Gauges and counters kept
  twice (`txReceived`, `txStreamed`, `poolSize`) are kept once here and twice in
  `Monitoring`.
* `Stage` maps the processor to `Streamer`: `select`, `send`, `done`, and
  `working` for everything else.
* The echo's `RecordPriorityRoundTrip` runs in a goroutine of its own;
  `RoundTrips` counts its starts and `Histogram` models what it does.
* A transaction that does not marshal is a choice (`MarshalFails`), and one
  stored without its RLP bytes is not a state the decoder can produce.
* The arrival histogram and `lastCommitTime` do not touch the rest.

### `TxPoolClient`

| Variable | Code |
|---|---|
| `conn`, `connected`, `signal` | `c.conn`, `c.connected`, a full `reconnectChan` |
| `loop` | `reconnectionLoop` and its local `conn` |
| `reader` | `readEvents` of each connection |
| `sender` | `SendTxWithPriorityRLP` and its local `conn` |
| `link` | each connection: open, closed by the peer, closed by us |
| `stopper` | `Sidecar.Stop`: cancelled, then closed |
| `up`, `faults`, `sends` | the peer, and two bounds |

There is one sender because the only caller is the processor. Connections that
nothing refers to are garbage and their names are dialled again, so behaviours
that reconnect for ever are finite-state. A dial waits for a free name; three
names leave room for an old reader, an old sender and a new connection. What
`Close` finds is closed and stays installed, as in the code. The two failure
branches of a send have the same steps and are modelled once; the return on an
encoding error (lines 248-251), which changes nothing, is left out. A dial may
fail whether the peer listens or not. Frames are in `Wire`; backoff lengths, the
attempt counter and `onReconnect` are left out.

### `SidecarSystem` (INSTANCE of `Streamer` and `TxPoolClient`)

`at` is the processor's stage, the other variables are the client's; the
cancellation is one variable for both, as the code has one context. A send that
is refused, fails or succeeds is a step of the client and the processor's
`Return`. `late` remembers that the loop installed a connection after `Close`
had run, which nobody closes. What `Stop` does beyond that, one call each to the
collector and the HTTP server, touches nothing modelled here.

### `EventStream`

| Variable | Code |
|---|---|
| `link`, `wire` | a connection and the messages on it |
| `written` | how many events it ever carried; they are numbered |
| `reader` | `readEvents` and `readSnapshot`: `read`, `push`, `check`, `ended` |
| `eventChan` | the channel, shared by all readers |
| `processor`, `cancelled` | `processTxPoolEvents`: in its `select`, held by a `send`, `done`; the context |
| `seen` | history: events taken, dropped, skipped; messages read late |

A message is an interval of event numbers that decodes or does not, and is whole
unless the connection ended inside it. Connections come and go freely, which
includes all that `TxPoolClient` does with them. The first message of a
connection is its snapshot, which may be late, cut or undecodable, or never
come. The read of the length and that of the data are one step: nothing happens
between them, and they fail alike.

### `Bytes`, `Bincode`, `Rlp`, `Wire`

The decoders, one operator each, with every check, skip and offset of the code;
a decoder returns an event and the offset behind it, an error, or a panic where
the code slices without a check. The encoder with short and long headers. Base,
widths and limits are parameters, and small in the run (bytes of 16 values). `Wire`
is the client's framing around them: the txpool, which is external, writes the
messages of a script, possibly short of their last bytes or with variants and
reasons the sidecar does not know; the connection may end at any byte. In the
other direction each of the two writes of a request may write only a part.

`Number(...)` of a count is unbounded; the code's `make` with a capacity that no
memory holds, and `int(txBytesLen)` of a length above half the range, are
outside the scripts: no txpool that counts its own events writes them.

### `Priorities`

The layout with the sizes of the fields as constants (2^128, 2^126, 2^130 in the
code). Disjoint fields are added where the code ORs them; masks are remainders,
shifts products and quotients. `FormatPriority(nil)` is left out. The state is
what the txpool has received, with either send of a pair possibly missing.

### `Histogram`

One histogram: recorders add to sum, count and a bucket in three steps, the
collector loads count, sum and each bucket in turn and publishes. Boundary `i`
is `i`; an observation is at most one above the last boundary. The histograms of
arrivals and round trips have the same code.

### `Monitoring`

| Variable | Code |
|---|---|
| `value` | the atomic words; `txReceived`, `txStreamed`, `poolSize` beside their twins |
| `size` | `TransactionPool.Size` |
| `proc`, `clean` | the processor and the cleaner, as writers of words |
| `os`, `last` | a counter of the operating system, `lastDiskRead` |
| `reader` | a request: its endpoint, the loads done and what they saw |
| `beside` | which of cleaner, collector, reader runs beside the processor |
| `hist` | what the properties compare with |

Each atomic operation is an action. The tables `HealthStats`, `Average`,
`Collect`, `GetSnapshot` give the order of the loads; a word that is related to
no other is left out of them. A time stamp is the count at which it was taken.
Two of the last three goroutines never touch the same word, so that running one
of them at a time loses no behaviour that a property can tell. The types of its
state are proved and not checked by the run, whose other properties use them.

## 3. Runs

All passing runs are exhaustive over their bounds. Deadlock checking is off
everywhere because the modelled systems may stop: feeds, faults, sends and
observations are bounded, and the goroutines end after a cancellation.

| Run | Module, cfg | Shows |
|---|---|---|
| `sidecar_pair` | `MCSidecar`, `SidecarPair` | ledgers and `TxExpired` with an opportunity and a bid behind it; refinement of `Streamer` |
| `sidecar_tob` | `MCSidecar`, `SidecarTob` | one send per residency, through commit, drop and evict; maps and gauge drain; both goroutines stop |
| `client` | `MCTxPoolClient`, `Client` | no lost reconnection; only the installed connection is written to; reconnects to a peer that answers; the loop ends |
| `sidecar_system` | `MCSidecarSystem`, `SidecarSystem` | a send returns, `Stop` completes, with writes that may wait for ever |
| `event_stream` | `MCEventStream`, `EventStream` | every event accounted for; refinement of `LossyLink`; readers end, and come to rest, whatever holds the processor; the channel drains |
| `wire` | `MCWire`, `Wire` | decoding delivers what was meant; requests read back; where a panic is |
| `priorities` | `MCPriorities`, `Priorities` | the order of priorities; `FormatPriority` inverts |
| `histogram` | `MCHistogram`, `Histogram` | consistent, monotone scrapes |
| `monitoring` | `MCMonitoring`, `Monitoring` | what the fields of an answer have in common |

Every property of these runs is also checked to *fail* on a variant of the code
(the operators marked *Mutant*), so that none holds for want of interesting
behaviour.

Runs that end in a violation, each contradicting a sentence of the sources:

| Run | Sentence | What happens |
|---|---|---|
| `client_settles` | "continuously tries to maintain connection" (`txpool_client.go:50`) | a late reader or sender undoes each new connection, for ever, with a peer that stays up and answers |
| `client_one_connection` | "Close old connection if exists" (`txpool_client.go:63`) | a failed sender forgets a connection without closing it; the next one is dialled beside it |
| `sidecar_pairing` | "stream both if found" (`sidecar.go:340`) | the opportunity expires or fails, the bid goes out alone |

Other differences between sources and comments that the models show, without a
run of their own:

* `pool_size` is called the "current number of transactions" (`README.md:270`),
  and removals (`sidecar.go:233`, 240, 246) store no gauge: it is stale until
  the next insert or cleanup.
* "Calculate how many were removed" (`sidecar.go:431`): what the processor adds
  or removes between the two sizes is mixed in. `ExpiredBounded` is what is left.
* A cumulative bucket may exceed the count of its scrape, which is loaded
  earlier (`metrics.go:176`). `ScrapeWithinInterval` is what is left.
* `/health` loads `txReceived` before `txStreamed` (`sidecar.go:180`), so that it
  can show more transactions streamed than received.
* The gauge of `NodeConnected` "will be updated" (`sidecar.go:144`) and is not.
* `EthTxPoolSnapshot`'s hashes are read as bare 32 bytes, those of events with a
  length before them (`txpool_types.go:170` and 222).
* `DecodeRLP` expects a list of strings and does not read what `EncodeRLP` writes
  when the transaction is a list or the extra data are empty; nothing calls it.
* The drop reason with a replacement is read without a length check
  (`txpool_types.go:360`): `PanicsOnlyAtReplacement` says that no other short field
  panics. A dishonest count does: `make` with a capacity that no memory holds
  (lines 178 and 205), a slice up to a negative `int` (lines 297-301).

### Bounds

* *Sidecar*: one or two transactions, four events (three for the run with
  liveness, two for the violation), a channel of one, `MaxDuration` 1. Two
  transactions are what one bid involves; four events are enough for insert,
  echo, removal and a second insert, or for a pair, its echoes and a removal;
  three for a bid, its echo or removal, and what follows; a channel of one makes
  a full channel common. With `MaxDuration` 1 an entry may be fresh, old and
  expired. The purge takes any set of expired entries at once.
* *Client*: three connections, two faults and one send (two sends for
  `client_one_connection`, one fault for `client_settles`): enough for a
  connection to fail while an earlier reader or sender is still at work. The
  run without liveness uses the symmetry of connections.
* *SidecarSystem*: two connections, one fault, two sends: a send held on an old
  connection, on the present one, and on one installed after `Close`.
* *EventStream*: two connections, a channel of one, messages of up to two events,
  two events in all: two readers pushing at once with room for one of them, a
  vector that fills the channel with its own first event, a second message after
  one that does not decode, a cut one, a snapshot of either kind.
* *Wire*: bytes of 16 values, fields of one and two bytes; every event and
  reason, alone and in pairs, followed by a plain message; up to six bytes
  missing, which reaches into each field from behind; payloads on both sides of
  both length limits; one or two requests.
* *Priorities*: a bid field of two bits, ids of one, hashes of three, three
  handled bids; amounts on both sides of the field's end and one that reaches
  the id field; targets that share an id and that do not.
* *Histogram*: two recorders, two boundaries, three observations, any number of
  scrapes; with fewer observations no bucket gets ahead of a scrape twice.
* *Monitoring*: latencies of one unit, a system counter of four values, three
  events and readings: two transactions may be in different stages of a request
  that began before both, and a counter moves, wraps or falls between readings.

### Fairness

* Weak fairness of the processor, the cleaner, the loop and `Close`: Go runs a
  goroutine that can run. Of the client's readers and its sender it is what they
  do without the peer (`ReaderRuns`, `SenderRuns`): a read on a healthy connection
  and a write to one may wait for ever, a dial may always fail, so that
  `readSnapshot`, `ReaderSeesCancel`, the writes and the peer's actions are not
  fair. In `Sidecar` alone a send is taken to return.
* Strong fairness of `ProcessorStops`, `CleanerStops` and `LoopStops`: a select
  with several ready cases chooses among them at random, so that it does not
  pass over a cancelled context for ever.
* Weak fairness of `Clock`: time passes.
* *EventStream*: weak fairness of each reader and of the receive of a processor
  that is in its select, strong fairness of the processor's stop. A send may
  hold the processor for ever (`SendReturns` is not fair), as in
  `SidecarSystem`: `Drains` promises an empty channel unless it does, and
  readers at rest even then. A reader on an open and silent connection waits;
  the properties say so (`Blocked`). Nothing is assumed of who opens or closes.
* *SidecarSystem*: weak fairness of the processor's steps and of `Close`. `Finish`
  is strongly fair, because a handler makes finitely many calls (`Sidecar`), and
  so is `ProcessorEnds`, a choice of a select. No write to an open connection
  is fair, and nothing is assumed of peer, loop and readers: `SendReturns` and
  `StopCompletes` hold without their help.
* *Monitoring*: weak fairness of the handler and of the cleaner's steps.
* Nothing is assumed of the peer. `Reconnects` and `Settles` have their own premise,
  `PeerAnswers`: the peer comes to stay up, and a dial that can succeed again and
  again is not turned down for ever. The premise is not that the peer is up again
  and again: one that comes and goes may be away at every dial, and in the run,
  where it goes down finitely often, the two would say the same.
* `StopsBoth` and `LoopEnds` start from a cancellation. `main` never calls
  `Stop`, so at present only a caller outside the program would cause one.

## 4. Proofs

The theorems hold for every value of the constants allowed by the named
assumptions of the modules: `Hashes` finite and not empty, the special values
outside it, `Calldata` total, `Feed` a set of events, bounds natural numbers,
connections a set without `None`, field sizes positive, targets hashes of the
right width. `Wire` assumes of its messages what their fields impose:

* `MessagesAssumption`: the scripts are snapshots, vectors and requests whose
  counts, lengths and reasons fit the fields that hold them, and whose bytes fit
  the length of a frame; of a vector no more is missing than its last event, or
  the count of an empty one; a request's transaction is one item of RLP, which
  is what the txpool's own bytes of a transaction are.
* `PrefixesAssumption`: the lengths of a hash and an address fit their prefixes
  (32 and 20 in eight bytes).
* `HeaderWidthAssumption`: a frame's length is no wider than the longest length
  that RLP writes (four bytes and eight), so that what fits a frame fits RLP.

They exclude the empty field, not the short message: messages that are cut off,
events that the sidecar does not know, undecodable transactions and a connection
that ends anywhere are all behaviours of `Wire`.

*`SidecarProofs`.*
`TypeCorrect` strengthens `TypeOK` with `SubjectOK`: while the processor fetches,
sends or tracks, what it streams is a real hash and not the absent target
(`TInv`). Types include that no unsigned word goes below zero,
which needs the guard in `ExpiredCount`. `SendLedgerBalances` takes one step per
action; most raise no counter of the ledger (`SendsUnchanged`), the others move
exactly one unit between its terms, by lemmas on the size of a map after an
insertion, a removal and a purge. `ExpiredIsBounded` needs the inductive
`ExpiredInv`: between the cleaner's first size and its count, what `TxExpired`
holds and the remembered size together are at most what has ever left the pool
and its present size. `BidSentOnce` needs `OwnInv`: what the test of `Exists`
found still holds at `Add`, since only the processor adds, and from there until
the bid itself is streamed no send of it has been counted since it entered the
pool. `AttemptLedgerBalances` is inductive
together with the types. The ledger of sends through drops and evictions, which the
events of `sidecar_pair` do not include, rests on the theorem, which is about
every `Feed`.

`ProcessorIsStreamer` maps each action to a step of `Streamer` or a stutter; only
the type invariant is needed.

*`SidecarSystemProofs`.* The composition is a behaviour of each of its parts:
every step is one of `Streamer` (`SystemImplementsStreamer`) and one of
`TxPoolClient` (`SystemImplementsClient`), or leaves it alone, so that what is
proved of the client holds in the program. `SystemInv` is inductive: the sender
is busy only inside a call (`CallsInStep`), no connection is installed while the
loop dials, and after `Close` an installed connection that is open is a late one.
It follows that only a connection installed after `Close` can still hold a write
(`CloseFreesEveryWrite`), the safety half of `StopCompletes`.

*`TxPoolClientProofs`.* `ReconnectNeverLost` uses `LoopInv`: as the loop goes
from install to publish to spawn, either the connection it made is still
installed (and then published), or somebody else is about to signal
(`OthersPending`). Signals are only taken in the select, so whoever undoes the
loop's work is seen by it later. `OnlyInstalledWritten` needs that from the
closing of the old connection to the installation of the next none is installed,
and that nobody writes to a connection not yet dialled (`WriteInv`, with the
types).

*`EventStreamProofs`.* The inductive invariant is `Flow`: the places where an
event of a connection may be follow each other in order, channel before the
reader's hand before the wire, as intervals that meet, and what has been taken
lies before all of them. The ledger, and that a receive takes a number above all
taken earlier (`TakeIsReceive`), follow from it. `LateInv` says that a reader that
has read a late message is on its way to the check that ends it.

*`MonitoringProofs`.* `WriterInv` says by how much two words differ in the middle
of a handler: a twin by the one in flight, a sum by the latency not yet counted.
`ReaderInv` says what a request that is part of the way through has seen: never
more than the words hold now (`Behind`), and of each pair that a property
compares, that the one loaded first is covered by what is still to be loaded.
`OsInv` relates the metric, the last reading and the start, for words of any size.

*`HistogramProofs`.* `RecordInv`: of each boundary, what is begun and not ended is
the number of recorders at work on it, and a bucket is the difference of
neighbours of `ended`. `ShareInv`, `TotalInv` and `LoadInv` relate what a scrape
has loaded so far to the interval it began in and to what was published before.
`SumCoversWhatIsCounted` has to speak of the sum of the observations that any
number of recorders have added to the sum and not yet to the count. `SumInv`
takes it as the number of pairs of such a recorder and a unit of its observation
(`Uncounted`): the step to the sum brings one recorder's pairs in, the step to
the count takes them out, and lemmas on cardinalities do the rest.

*`WireProofs`.* The statements are about all messages, so that they need
induction over data. The library's induction theorems take an operator; the
proofs use a set instead, whose counterexamples have a least element (`Induct`),
and functions by recursion are shown to exist first (`RecursionExists`), since
`CHOOSE` alone does not tell what they are. On these rest the numbers (a number
that fits a field is read back from it, in both orders of the bytes), and what
`FlattenSeq` puts together.

Reading: an event that is encoded at an offset of any message is decoded there
as it was meant, and its end is found (`EventDecodes`). A decoder that succeeds
on the beginning of a message succeeds on the whole of it with the same result
(`EventStable`); therefore, of an event whose last bytes are missing nothing
comes (`EventTruncated`), and a panic has the one cause while counts are honest.
The inductive invariant `ReadInv` gives for every place in `readEvents` the
bytes still to come, the offset of the event that the decoder stands at, and the
events it holds; that what was delivered is what was meant is not inductive
without it. That a message which is not intact never comes to `Deliver` is the
clause of `DecodedUpTo` that leaves an event to decode while bytes are missing.

Sending: an item of RLP is found by its header wherever it stands
(`HeaderReads`, on each side of both limits), so that a request is unpacked from
its own bytes (`RequestReads`), and a part of a frame is always short of the
length it begins with (`PartOfFrame`). The inductive invariant `SendInv` says that
the bytes on their way are the frames of the requests not yet taken, whole, and
then a part of the next one: none while the sender is idle, the length alone
before the data, anything short of the frame after a failure.
`TypeCorrect` follows from the two. Both invariants were checked by TLC on the
run's instance before they were proved.

*`PrioritiesProofs`.* The invariant is that every message carries the priority
of its kind (`Honest`). The order follows from where the kinds lie
(`PriorityPlace`): a group occupies one unit of the id field, the opportunity
above its bids, and units of different ids do not overlap (`Multiples`).
`BidBeforeIsStrictWeakOrder` is what `sort.Slice` requires of its comparison.
`FormatIsInverse` recovers each field by one lemma on quotients and remainders of
a sum of disjoint fields (`Field`).

Every safety invariant and every action property of the passing runs is a
theorem. Only model-checked is what needs fairness (`Drains`, `StopsBoth`,
`Reconnects`, `LoopEnds`, `ReadersEnd`, `SendReturns`, `StopCompletes`,
`GaugesAgree`), which TLAPS does not reach. That the small widths of the runs are
no accident is what the proofs add: `Wire`, `Priorities` and `Monitoring` hold for
fields of any size, among them those of the code.

## 5. What is done and what is left

Done: every part whose behaviour depends on more than one goroutine, on
failures, or on bytes from outside, each with an abstract counterpart where one
is worth stating, and proofs of every safety property that a run checks.

Left, in the order in which it would add most:

1. A txpool with a pool of its own that echoes what it is sent, composed with
   `Sidecar`: how often a bid goes out after its entry was purged.
2. Drop reasons of a later txpool that carry fields: `DeliversWhatWasMeant` would
   not hold for them (`txpool_types.go:383`), so that a statement of which
   versions go together comes first. The theorem holds because `EncodeEvent`
   writes no fields for a reason that it does not know.

Not modelled, and why:

* `ReadFrame`, `WriteFrame`, `serialization.go`, `DecodeRLP`, `GetSystemInfo`:
  no caller in the program.
* Routing and formatting of the HTTP handlers, logging, version lookup: output
  that nothing reads back. What the handlers load is in `Monitoring`.
* Configuration, read once. An interval below four nanoseconds would stop
  `NewTicker` (`sidecar.go:416`).
* `main`: it waits for `shutdownChan`, which closes after `Stop`, and calls `Stop`
  nowhere (`cmd/sidecar/main.go:27`).
* The wall clock: a clock set back makes the arrival delta negative
  (`sidecar.go:214`), and Go does not define its conversion.
* Words that one goroutine raises and nothing is compared with: CPU, memory and
  goroutine gauges, `NodeReconnections`, `PoolCleanupOps`, `NodeConnected`.
* The packaging files.
