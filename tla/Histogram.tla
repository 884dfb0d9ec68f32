----------------------------- MODULE Histogram -----------------------------
(***************************************************************************)
(* internal/metrics/metrics.go: a latency histogram of atomic counters.    *)
(* Observations are recorded by goroutines of their own, several at work   *)
(* at a time (sidecar.go starts one for an inserted transaction and one    *)
(* for an echo), while the Prometheus collector reads the counters one by  *)
(* one.  Every atomic operation is one action.  The histograms of arrivals *)
(* after a commit and of round trips have the same code over different     *)
(* boundaries; here boundary i is i, and an observation a number up to one *)
(* more than the last boundary.                                            *)
(***************************************************************************)
EXTENDS Naturals, FiniteSets

CONSTANTS
    Recorders,   \* goroutines that may be recording at one time
    N,           \* number of boundaries (15 and 11 in the code)
    MaxRecords   \* bound: observations in a behaviour

ASSUME RecordersAssumption == IsFiniteSet(Recorders)
ASSUME NAssumption == N \in Nat \ {0}
ASSUME MaxRecordsAssumption == MaxRecords \in Nat

VARIABLES
    sum, count, buckets,  \* the counters of the histogram
    recorder,             \* where each recorder is, and its observation
    scraper,              \* where the collector is, and its locals
    published,            \* the histogram it handed to Prometheus last
    hist                  \* history of what no variable of the code remembers

vars == <<sum, count, buckets, recorder, scraper, published, hist>>

-----------------------------------------------------------------------------
Boundaries == 1..N
Observations == 1..(N + 1)
PerBoundary == [Boundaries -> Nat]
Zeros == [i \in Boundaries |-> 0]

(* How many recordings have begun and ended of observations up to each     *)
(* boundary (the last one takes all), and those that had ended when the    *)
(* latest scrape began; the sum of the observations in count, and what it  *)
(* was when that scrape read count.                                        *)
History == [begun : PerBoundary, ended : PerBoundary, before : PerBoundary,
            countedSum : Nat, covered : Nat]

(* One more for every boundary that the observation does not exceed.       *)
Including(f, ms) == [i \in Boundaries |-> IF ms <= i \/ i = N THEN f[i] + 1 ELSE f[i]]

Resting == [at |-> "idle", count |-> 0, sum |-> 0, next |-> 1, cumulative |-> 0,
            read |-> Zeros]

Init ==
    /\ sum = 0 /\ count = 0 /\ buckets = Zeros
    /\ recorder = [r \in Recorders |-> [at |-> "idle", ms |-> 1]]
    /\ scraper = Resting
    /\ published = [count |-> 0, sum |-> 0, buckets |-> Zeros]
    /\ hist = [begun |-> Zeros, ended |-> Zeros, before |-> Zeros,
               countedSum |-> 0, covered |-> 0]

-----------------------------------------------------------------------------
(* RecordTxArrivalAfterCommit and RecordPriorityRoundTrip.                 *)

AddSum(r) ==
    /\ recorder[r].at = "idle" /\ hist.begun[N] < MaxRecords
    /\ \E ms \in Observations :
         /\ sum' = sum + ms
         /\ recorder' = [recorder EXCEPT ![r] = [at |-> "count", ms |-> ms]]
         /\ hist' = [hist EXCEPT !.begun = Including(@, ms)]
    /\ UNCHANGED <<count, buckets, scraper, published>>

AddCount(r) ==
    /\ recorder[r].at = "count"
    /\ count' = count + 1
    /\ recorder' = [recorder EXCEPT ![r].at = "bucket"]
    /\ hist' = [hist EXCEPT !.countedSum = @ + recorder[r].ms]
    /\ UNCHANGED <<sum, buckets, scraper, published>>

(* Mutant: what is above every boundary goes to the first bucket.          *)
BucketOfWrapped(ms) == IF ms \in Boundaries THEN ms ELSE 1

(* The first boundary not below the observation, or else the last.         *)
BucketOf(ms) == IF ms \in Boundaries THEN ms ELSE N

AddBucket(r) ==
    /\ recorder[r].at = "bucket"
    /\ buckets' = [buckets EXCEPT ![BucketOf(recorder[r].ms)] = @ + 1]
    /\ recorder' = [recorder EXCEPT ![r].at = "idle"]
    /\ hist' = [hist EXCEPT !.ended = Including(@, recorder[r].ms)]
    /\ UNCHANGED <<sum, count, scraper, published>>

Record(r) == AddSum(r) \/ AddCount(r) \/ AddBucket(r)

-----------------------------------------------------------------------------
(* GetTxArrivalAfterCommitCumulativeBuckets and its twin.                  *)

LoadCount ==
    /\ scraper.at = "idle"
    /\ scraper' = [scraper EXCEPT !.at = "sum", !.count = count]
    /\ hist' = [hist EXCEPT !.before = hist.ended, !.covered = hist.countedSum]
    /\ UNCHANGED <<sum, count, buckets, recorder, published>>

(* Mutant: reads the sum it published the last time.                       *)
LoadSumCached ==
    /\ scraper.at = "sum"
    /\ scraper' = [scraper EXCEPT !.at = "buckets", !.sum = published.sum]
    /\ UNCHANGED <<sum, count, buckets, recorder, published, hist>>

LoadSum ==
    /\ scraper.at = "sum"
    /\ scraper' = [scraper EXCEPT !.at = "buckets", !.sum = sum]
    /\ UNCHANGED <<sum, count, buckets, recorder, published, hist>>

(* Mutant: takes the bucket's contents away, so that they count once.      *)
LoadBucketSwaps ==
    /\ scraper.at = "buckets" /\ scraper.next \in Boundaries
    /\ LET c == scraper.cumulative + buckets[scraper.next] IN
       scraper' = [scraper EXCEPT !.next = @ + 1, !.cumulative = c,
                                  !.read[scraper.next] = c]
    /\ buckets' = [buckets EXCEPT ![scraper.next] = 0]
    /\ UNCHANGED <<sum, count, recorder, published, hist>>

(* One bucket; with those before it, cumulative.                           *)
LoadBucket ==
    /\ scraper.at = "buckets" /\ scraper.next \in Boundaries
    /\ LET c == scraper.cumulative + buckets[scraper.next] IN
       scraper' = [scraper EXCEPT !.next = @ + 1, !.cumulative = c,
                                  !.read[scraper.next] = c]
    /\ UNCHANGED <<sum, count, buckets, recorder, published, hist>>

(* Mutant: keeps the running total for the next scrape.                    *)
PublishKeepsTotal ==
    /\ scraper.at = "buckets" /\ scraper.next \notin Boundaries
    /\ published' = [count |-> scraper.count, sum |-> scraper.sum, buckets |-> scraper.read]
    /\ scraper' = [Resting EXCEPT !.cumulative = scraper.cumulative]
    /\ UNCHANGED <<sum, count, buckets, recorder, hist>>

(* Return, and MustNewConstHistogram.                                      *)
Publish ==
    /\ scraper.at = "buckets" /\ scraper.next \notin Boundaries
    /\ published' = [count |-> scraper.count, sum |-> scraper.sum, buckets |-> scraper.read]
    /\ scraper' = Resting
    /\ UNCHANGED <<sum, count, buckets, recorder, hist>>

Scrape == LoadCount \/ LoadSum \/ LoadBucket \/ Publish

Next == (\E r \in Recorders : Record(r)) \/ Scrape

Spec == Init /\ [][Next]_vars

-----------------------------------------------------------------------------
(* Types; every scrape starts from fresh locals.                           *)
TypeOK ==
    /\ sum \in Nat /\ count \in Nat /\ buckets \in PerBoundary
    /\ recorder \in [Recorders -> [at : {"idle", "count", "bucket"}, ms : Observations]]
    /\ scraper \in [at : {"idle", "sum", "buckets"}, count : Nat, sum : Nat,
                    next : 1..(N + 1), cumulative : Nat, read : PerBoundary]
    /\ scraper.at \in {"idle", "sum"} => scraper.next = 1 /\ scraper.cumulative = 0
    /\ published \in [count : Nat, sum : Nat, buckets : PerBoundary]
    /\ hist \in History

(* What the latest scrape says of each boundary lies between what had been *)
(* recorded when it began and what has been begun by now, and so does its  *)
(* count, although it reads each counter at another moment.                *)
ScrapeWithinInterval ==
    scraper.at = "idle" =>
        /\ published.count \in hist.before[N]..hist.begun[N]
        /\ \A i \in Boundaries : published.buckets[i] \in hist.before[i]..hist.begun[i]

(* Every observation that a scrape counts is in its sum: the average that  *)
(* dashboards compute from the two never falls below what was observed.    *)
SumCoversCount == scraper.at = "idle" => published.sum >= hist.covered

(* No published counter ever falls: Prometheus takes a fall for a restart  *)
(* of the process and counts everything again.                             *)
NeverFalls ==
    [][/\ published'.count >= published.count
       /\ published'.sum >= published.sum
       /\ \A i \in Boundaries : published'.buckets[i] >= published.buckets[i]]_vars

=============================================================================
