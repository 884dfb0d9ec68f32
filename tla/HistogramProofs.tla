--------------------------- MODULE HistogramProofs ---------------------------
(***************************************************************************)
(* What holds of Histogram for any finite set of recorders, any number of  *)
(* boundaries and any number of observations and scrapes.                  *)
(***************************************************************************)
EXTENDS Histogram, Integers, FiniteSetTheorems, TLAPS

-----------------------------------------------------------------------------
(* Type correctness.                                                       *)

Recording == [at : {"idle", "count", "bucket"}, ms : Observations]
Scraper == [at : {"idle", "sum", "buckets"}, count : Nat, sum : Nat,
            next : 1..(N + 1), cumulative : Nat, read : PerBoundary]
Published == [count : Nat, sum : Nat, buckets : PerBoundary]

LEMMA ZerosType == Zeros \in PerBoundary
    BY DEF Zeros, PerBoundary

LEMMA RestingType == Resting \in Scraper
    BY ZerosType, NAssumption DEF Resting, Scraper

LEMMA IncludingType ==
    ASSUME NEW f \in PerBoundary, NEW ms \in Observations
    PROVE  /\ Including(f, ms) \in PerBoundary
           /\ \A i \in Boundaries :
                Including(f, ms)[i] = IF ms <= i \/ i = N THEN f[i] + 1 ELSE f[i]
    BY DEF Including, PerBoundary

LEMMA BucketOfType == \A ms \in Observations : BucketOf(ms) \in Boundaries
    BY NAssumption DEF BucketOf, Boundaries, Observations

(* TypeOK read with the sets above.                                        *)
Typed ==
    /\ sum \in Nat /\ count \in Nat /\ buckets \in PerBoundary
    /\ recorder \in [Recorders -> Recording]
    /\ scraper \in Scraper
    /\ scraper.at \in {"idle", "sum"} => scraper.next = 1 /\ scraper.cumulative = 0
    /\ published \in Published
    /\ hist \in History

LEMMA Types == (TypeOK <=> Typed) /\ (TypeOK' <=> Typed')
    BY DEF TypeOK, Typed, Recording, Scraper, Published

(* What a loaded bucket changes, field by field.                           *)
LEMMA LoadBucketFields ==
    ASSUME TypeOK, LoadBucket
    PROVE  /\ scraper.at = "buckets" /\ scraper.next \in Boundaries
           /\ scraper'.at = "buckets" /\ scraper'.next = scraper.next + 1
           /\ scraper'.count = scraper.count /\ scraper'.sum = scraper.sum
           /\ scraper'.cumulative = scraper.cumulative + buckets[scraper.next]
           /\ scraper'.read = [scraper.read EXCEPT
                ![scraper.next] = scraper.cumulative + buckets[scraper.next]]
           /\ scraper' \in Scraper
    <1> DEFINE c == scraper.cumulative + buckets[scraper.next]
               R == [scraper.read EXCEPT ![scraper.next] = c]
    <1>1. scraper \in Scraper /\ scraper.next \in Boundaries /\ scraper.at = "buckets"
        BY Types DEF LoadBucket, Typed
    <1>2. c \in Nat
        BY <1>1, Types DEF Typed, Scraper, PerBoundary
    <1>3. R \in PerBoundary
        BY <1>1, <1>2 DEF Scraper, PerBoundary
    <1>4. scraper' = [[[scraper EXCEPT !.next = @ + 1] EXCEPT !.cumulative = c]
                        EXCEPT !.read = R]
        BY <1>1 DEF LoadBucket, Scraper
    <1>5. scraper.next + 1 \in 1..(N + 1)
        BY <1>1, NAssumption DEF Boundaries
    <1> HIDE DEF c, R
    <1>6. [scraper EXCEPT !.next = @ + 1] \in Scraper
        BY <1>1, <1>5 DEF Scraper
    <1>7. scraper' \in Scraper
        BY <1>2, <1>3, <1>4, <1>6 DEF Scraper
    <1>8. /\ scraper'.at = scraper.at /\ scraper'.next = scraper.next + 1
          /\ scraper'.count = scraper.count /\ scraper'.sum = scraper.sum
          /\ scraper'.cumulative = c /\ scraper'.read = R
        BY <1>1, <1>4 DEF Scraper
    <1> QED
        BY <1>1, <1>7, <1>8 DEF c, R

LEMMA InitType == Init => TypeOK
    <1> SUFFICES ASSUME Init PROVE TypeOK
        OBVIOUS
    <1>1. recorder \in [Recorders -> Recording]
        BY NAssumption DEF Init, Recording, Observations
    <1>2. published \in Published /\ hist \in History /\ buckets \in PerBoundary
        BY ZerosType DEF Init, Published, History
    <1>3. scraper \in Scraper /\ scraper.next = 1 /\ scraper.cumulative = 0
        BY RestingType DEF Init, Resting
    <1> QED
        BY <1>1, <1>2, <1>3, Types DEF Typed, Init

LEMMA NextType == TypeOK /\ [Next]_vars => TypeOK'
    <1> SUFFICES ASSUME TypeOK, [Next]_vars PROVE TypeOK'
        OBVIOUS
    <1> USE Types DEF Typed
    <1>0. /\ sum \in Nat /\ count \in Nat /\ buckets \in PerBoundary
          /\ recorder \in [Recorders -> Recording] /\ scraper \in Scraper
          /\ published \in Published /\ hist \in History
          /\ hist.begun \in PerBoundary /\ hist.ended \in PerBoundary
          /\ hist.countedSum \in Nat
        BY DEF History
    <1>1. ASSUME NEW r \in Recorders, AddSum(r) PROVE TypeOK'
        <2>1. PICK ms \in Observations :
                /\ sum' = sum + ms
                /\ recorder' = [recorder EXCEPT ![r] = [at |-> "count", ms |-> ms]]
                /\ hist' = [hist EXCEPT !.begun = Including(@, ms)]
            BY <1>1 DEF AddSum
        <2>2. sum' \in Nat
            BY <1>0, <2>1 DEF Observations
        <2>3. recorder' \in [Recorders -> Recording]
            BY <1>0, <2>1 DEF Recording
        <2>4. hist' \in History
            <3>1. Including(hist.begun, ms) \in PerBoundary
                BY <1>0, IncludingType
            <3> QED
                BY <1>0, <2>1, <3>1 DEF History
        <2> QED
            BY <1>1, <2>2, <2>3, <2>4, <1>0 DEF AddSum
    <1>2. ASSUME NEW r \in Recorders, AddCount(r) PROVE TypeOK'
        <2>1. recorder' \in [Recorders -> Recording]
            BY <1>0, <1>2 DEF AddCount, Recording
        <2>2. recorder[r].ms \in Nat
            BY <1>0 DEF Recording, Observations
        <2>3. hist' \in History
            BY <1>0, <1>2, <2>2 DEF AddCount, History
        <2> QED
            BY <1>0, <1>2, <2>1, <2>3 DEF AddCount
    <1>3. ASSUME NEW r \in Recorders, AddBucket(r) PROVE TypeOK'
        <2>1. recorder' \in [Recorders -> Recording]
            BY <1>0, <1>3 DEF AddBucket, Recording
        <2>2. recorder[r].ms \in Observations
            BY <1>0 DEF Recording
        <2>3. hist' \in History
            <3>1. Including(hist.ended, recorder[r].ms) \in PerBoundary
                BY <1>0, <2>2, IncludingType
            <3> QED
                BY <1>0, <1>3, <3>1 DEF AddBucket, History
        <2>4. buckets' \in PerBoundary
            BY <1>0, <1>3, <2>2, BucketOfType DEF AddBucket, PerBoundary
        <2> QED
            BY <1>0, <1>3, <2>1, <2>3, <2>4 DEF AddBucket
    <1>4. CASE LoadCount
        <2>1. hist' \in History
            BY <1>0, <1>4 DEF LoadCount, History
        <2>2. scraper' \in Scraper /\ scraper'.next = 1 /\ scraper'.cumulative = 0
            BY <1>0, <1>4 DEF LoadCount, Scraper
        <2> QED
            BY <1>0, <1>4, <2>1, <2>2 DEF LoadCount
    <1>5. CASE LoadSum
        <2>1. scraper' \in Scraper /\ scraper'.at = "buckets"
            BY <1>0, <1>5 DEF LoadSum, Scraper
        <2> QED
            BY <1>0, <1>5, <2>1 DEF LoadSum
    <1>6. CASE LoadBucket
        BY <1>0, <1>6, LoadBucketFields DEF LoadBucket
    <1>7. CASE Publish
        <2>1. published' \in Published
            BY <1>0, <1>7 DEF Publish, Published, Scraper
        <2>2. scraper' \in Scraper /\ scraper'.next = 1 /\ scraper'.cumulative = 0
            BY <1>7, RestingType DEF Publish, Resting
        <2> QED
            BY <1>0, <1>7, <2>1, <2>2 DEF Publish
    <1>8. CASE UNCHANGED vars
        BY <1>8 DEF vars
    <1> QED
        BY <1>1, <1>2, <1>3, <1>4, <1>5, <1>6, <1>7, <1>8 DEF Next, Record, Scrape

(* The counters, the locals and the published histogram keep their types,  *)
(* and every scrape begins with fresh locals.                              *)
THEOREM HistogramTypeCorrect == Spec => []TypeOK
    BY InitType, NextType, PTL DEF Spec

-----------------------------------------------------------------------------
(* What the recorders keep: recordings begun and ended differ by those     *)
(* under way, and a bucket is the difference of two neighbours of ended.   *)

Busy(i) == {r \in Recorders : recorder[r].at # "idle"
                                 /\ (recorder[r].ms <= i \/ i = N)}
Counted == {r \in Recorders : recorder[r].at = "bucket"}

Below(f, i) == IF i = 1 THEN 0 ELSE f[i - 1]

RecordInv ==
    /\ \A i \in Boundaries : hist.begun[i] = hist.ended[i] + Cardinality(Busy(i))
    /\ count = hist.ended[N] + Cardinality(Counted)
    /\ \A i \in Boundaries : buckets[i] = hist.ended[i] - Below(hist.ended, i)

LEMMA BelowType ==
    ASSUME NEW f \in PerBoundary, NEW i \in 1..(N + 1)
    PROVE  Below(f, i) \in Nat
    BY NAssumption DEF Below, PerBoundary, Boundaries

LEMMA SubsetSize ==
    ASSUME NEW S, S \subseteq Recorders
    PROVE  IsFiniteSet(S) /\ Cardinality(S) \in Nat
    BY RecordersAssumption, FS_Subset, FS_CardinalityType

LEMMA SizeAfterAdd ==
    ASSUME NEW S, S \subseteq Recorders, NEW r \in Recorders \ S
    PROVE  Cardinality(S \cup {r}) = Cardinality(S) + 1
    BY SubsetSize, FS_AddElement

LEMMA SizeAfterRemove ==
    ASSUME NEW S, S \subseteq Recorders, NEW r \in S
    PROVE  Cardinality(S \ {r}) = Cardinality(S) - 1
    BY SubsetSize, FS_RemoveElement

(* What the history and the counters have to do with each other.           *)
LEMMA RecordBounds ==
    ASSUME TypeOK, RecordInv
    PROVE  /\ \A i \in Boundaries : hist.ended[i] <= hist.begun[i]
           /\ hist.ended[N] <= count /\ count <= hist.begun[N]
    <1> USE Types DEF Typed, History, PerBoundary
    <1>1. \A i \in Boundaries : Cardinality(Busy(i)) \in Nat
        BY SubsetSize DEF Busy
    <1>2. \A i \in Boundaries : hist.ended[i] <= hist.begun[i]
        BY <1>1 DEF RecordInv
    <1>3. N \in Boundaries
        BY NAssumption DEF Boundaries
    <1>4. Cardinality(Counted) \in Nat /\ Cardinality(Counted) <= Cardinality(Busy(N))
        <2>1. Counted \subseteq Busy(N) /\ IsFiniteSet(Busy(N))
            BY SubsetSize DEF Counted, Busy
        <2> QED
            BY <2>1, FS_Subset, FS_CardinalityType
    <1> QED
        BY <1>1, <1>2, <1>3, <1>4 DEF RecordInv

LEMMA InitRecord == Init => RecordInv
    <1> SUFFICES ASSUME Init PROVE RecordInv
        OBVIOUS
    <1>1. \A i \in Boundaries : Busy(i) = {}
        BY DEF Init, Busy
    <1>2. Counted = {}
        BY DEF Init, Counted
    <1>3. /\ hist.begun = Zeros /\ hist.ended = Zeros /\ buckets = Zeros /\ count = 0
        BY DEF Init
    <1>4. N \in Boundaries /\ \A i \in Boundaries : Zeros[i] = 0 /\ Below(Zeros, i) = 0
        BY NAssumption DEF Zeros, Below, Boundaries
    <1> QED
        BY <1>1, <1>2, <1>3, <1>4, FS_EmptySet DEF RecordInv

(* What the steps of the recorders leave the collector.                    *)
Growing ==
    /\ scraper' = scraper /\ published' = published
    /\ hist'.before = hist.before
    /\ sum' >= sum /\ count' >= count
    /\ \A i \in Boundaries :
          buckets'[i] >= buckets[i] /\ hist'.ended[i] >= hist.ended[i]

LEMMA AddSumKeeps ==
    ASSUME TypeOK, RecordInv, NEW r \in Recorders, AddSum(r)
    PROVE  RecordInv' /\ Growing
    <1> USE Types DEF Typed
    <1>1. PICK ms \in Observations :
            /\ sum' = sum + ms
            /\ recorder' = [recorder EXCEPT ![r] = [at |-> "count", ms |-> ms]]
            /\ hist' = [hist EXCEPT !.begun = Including(@, ms)]
        BY DEF AddSum
    <1>2. /\ recorder[r].at = "idle" /\ recorder'[r].at = "count" /\ recorder'[r].ms = ms
          /\ \A q \in Recorders \ {r} : recorder'[q] = recorder[q]
        BY <1>1 DEF AddSum
    <1>3. /\ hist'.begun = Including(hist.begun, ms) /\ hist'.ended = hist.ended
          /\ hist'.before = hist.before
          /\ hist.begun \in PerBoundary /\ hist.ended \in PerBoundary
        BY <1>1 DEF History
    <1>4. \A i \in Boundaries : hist'.begun[i] = hist'.ended[i] + Cardinality(Busy(i)')
        <2> TAKE i \in Boundaries
        <2>1. hist.begun[i] = hist.ended[i] + Cardinality(Busy(i))
            BY DEF RecordInv
        <2>2. hist.begun[i] \in Nat /\ hist.ended[i] \in Nat /\ Cardinality(Busy(i)) \in Nat
            BY <1>3, SubsetSize DEF PerBoundary, Busy
        <2>3. CASE ms <= i \/ i = N
            <3>1. Busy(i)' = Busy(i) \cup {r}
                BY <1>2, <2>3 DEF Busy
            <3>2. r \in Recorders \ Busy(i) /\ Busy(i) \subseteq Recorders
                BY <1>2 DEF Busy
            <3>3. Cardinality(Busy(i)') = Cardinality(Busy(i)) + 1
                BY <3>1, <3>2, SizeAfterAdd
            <3>4. hist'.begun[i] = hist.begun[i] + 1
                BY <1>3, <2>3, IncludingType
            <3> QED
                BY <1>3, <2>1, <2>2, <3>3, <3>4
        <2>4. CASE ~(ms <= i \/ i = N)
            <3>1. Busy(i)' = Busy(i)
                BY <1>2, <2>4 DEF Busy
            <3>2. hist'.begun[i] = hist.begun[i]
                BY <1>3, <2>4, IncludingType
            <3> QED
                BY <1>3, <2>1, <3>1, <3>2
        <2> QED
            BY <2>3, <2>4
    <1>5. Counted' = Counted
        BY <1>2 DEF Counted
    <1>6. UNCHANGED <<count, buckets, scraper, published>>
        BY DEF AddSum
    <1>7. RecordInv'
        BY <1>3, <1>4, <1>5, <1>6 DEF RecordInv, Below
    <1>8. Growing
        BY <1>1, <1>3, <1>6 DEF Growing, Observations, PerBoundary
    <1> QED
        BY <1>7, <1>8

LEMMA AddCountKeeps ==
    ASSUME TypeOK, RecordInv, NEW r \in Recorders, AddCount(r)
    PROVE  RecordInv' /\ Growing
    <1> USE Types DEF Typed
    <1>1. /\ recorder[r].at = "count" /\ recorder'[r].at = "bucket"
          /\ recorder'[r].ms = recorder[r].ms
          /\ \A q \in Recorders \ {r} : recorder'[q] = recorder[q]
        BY DEF AddCount, Recording
    <1>2. /\ hist'.begun = hist.begun /\ hist'.ended = hist.ended
          /\ hist'.before = hist.before
          /\ hist.ended \in PerBoundary
        BY DEF AddCount, History
    <1>3. \A i \in Boundaries : Busy(i)' = Busy(i)
        BY <1>1 DEF Busy
    <1>4. Cardinality(Counted') = Cardinality(Counted) + 1
        <2>1. Counted' = Counted \cup {r} /\ r \in Recorders \ Counted
            BY <1>1 DEF Counted
        <2> QED
            BY <2>1, SizeAfterAdd DEF Counted
    <1>5. /\ Cardinality(Counted) \in Nat /\ hist.ended[N] \in Nat
        BY <1>2, SubsetSize, NAssumption DEF Counted, PerBoundary, Boundaries
    <1>6. count' = count + 1 /\ UNCHANGED <<sum, buckets, scraper, published>>
        BY DEF AddCount
    <1>7. RecordInv'
        BY <1>2, <1>3, <1>4, <1>5, <1>6 DEF RecordInv, Below
    <1>8. Growing
        BY <1>2, <1>6 DEF Growing, PerBoundary
    <1> QED
        BY <1>7, <1>8

LEMMA AddBucketKeeps ==
    ASSUME TypeOK, RecordInv, NEW r \in Recorders, AddBucket(r)
    PROVE  RecordInv' /\ Growing
    <1> USE Types DEF Typed
    <1> DEFINE ms == recorder[r].ms
               b == BucketOf(ms)
    <1>1. /\ recorder[r].at = "bucket" /\ recorder'[r].at = "idle" /\ ms \in Observations
          /\ \A q \in Recorders \ {r} : recorder'[q] = recorder[q]
        BY DEF AddBucket, Recording
    <1>2. /\ hist'.begun = hist.begun /\ hist'.ended = Including(hist.ended, ms)
          /\ hist'.before = hist.before
          /\ hist.begun \in PerBoundary /\ hist.ended \in PerBoundary
        BY DEF AddBucket, History
    <1>3. \A i \in Boundaries :
            hist'.ended[i] = IF ms <= i \/ i = N THEN hist.ended[i] + 1 ELSE hist.ended[i]
        BY <1>1, <1>2, IncludingType
    <1>4. \A i \in Boundaries : hist.ended[i] \in Nat /\ buckets[i] \in Nat
        BY <1>2 DEF PerBoundary
    <1>5. b \in Boundaries /\ N \in Boundaries
        BY <1>1, BucketOfType, NAssumption DEF Boundaries
    <1>6. \A i \in Boundaries : buckets'[i] = IF i = b THEN buckets[i] + 1 ELSE buckets[i]
        BY <1>5 DEF AddBucket, PerBoundary
    <1>7. UNCHANGED <<sum, count, scraper, published>>
        BY DEF AddBucket
    <1>8. \A i \in Boundaries : hist'.begun[i] = hist'.ended[i] + Cardinality(Busy(i)')
        <2> TAKE i \in Boundaries
        <2>1. hist.begun[i] = hist.ended[i] + Cardinality(Busy(i))
            BY DEF RecordInv
        <2>2. Cardinality(Busy(i)) \in Nat
            BY SubsetSize DEF Busy
        <2>3. CASE ms <= i \/ i = N
            <3>1. Busy(i)' = Busy(i) \ {r}
                BY <1>1, <2>3 DEF Busy
            <3>2. r \in Busy(i) /\ Busy(i) \subseteq Recorders
                BY <1>1, <2>3 DEF Busy
            <3>3. Cardinality(Busy(i)') = Cardinality(Busy(i)) - 1
                BY <3>1, <3>2, SizeAfterRemove
            <3> QED
                BY <1>2, <1>3, <1>4, <2>1, <2>2, <2>3, <3>3
        <2>4. CASE ~(ms <= i \/ i = N)
            <3>1. Busy(i)' = Busy(i)
                BY <1>1, <2>4 DEF Busy
            <3> QED
                BY <1>2, <1>3, <2>1, <2>4, <3>1
        <2> QED
            BY <2>3, <2>4
    <1>9. count' = hist'.ended[N] + Cardinality(Counted')
        <2>1. Counted' = Counted \ {r} /\ r \in Counted
            BY <1>1 DEF Counted
        <2>2. Cardinality(Counted') = Cardinality(Counted) - 1 /\ Cardinality(Counted) \in Nat
            BY <2>1, SizeAfterRemove, SubsetSize DEF Counted
        <2>3. hist'.ended[N] = hist.ended[N] + 1 /\ hist.ended[N] \in Nat
            BY <1>3, <1>4, <1>5
        <2> QED
            BY <1>7, <2>2, <2>3 DEF RecordInv
    <1>10. \A i \in Boundaries : buckets'[i] = hist'.ended[i] - Below(hist'.ended, i)
        <2> TAKE i \in Boundaries
        <2>1. buckets[i] = hist.ended[i] - Below(hist.ended, i)
            BY DEF RecordInv
        <2>2. ms \in 1..(N + 1) /\ i \in 1..N /\ N \in Nat
            BY <1>1, NAssumption DEF Observations, Boundaries
        <2>3. i = b <=> IF ms \in 1..N THEN i = ms ELSE i = N
            BY DEF BucketOf, Boundaries
        <2>4. CASE i = 1
            BY <1>3, <1>4, <1>6, <2>1, <2>2, <2>3, <2>4 DEF Below
        <2>5. CASE i # 1
            <3>1. i - 1 \in Boundaries /\ i - 1 # N
                BY <2>2, <2>5 DEF Boundaries
            <3> QED
                BY <1>3, <1>4, <1>6, <2>1, <2>2, <2>3, <2>5, <3>1 DEF Below
        <2> QED
            BY <2>4, <2>5
    <1>11. RecordInv'
        BY <1>8, <1>9, <1>10 DEF RecordInv
    <1>12. Growing
        BY <1>2, <1>3, <1>4, <1>6, <1>7 DEF Growing
    <1> QED
        BY <1>11, <1>12

LEMMA ScrapeKeepsRecord ==
    ASSUME TypeOK, RecordInv, Scrape \/ UNCHANGED vars
    PROVE  RecordInv'
    <1>1. /\ UNCHANGED <<count, buckets, recorder>>
          /\ hist'.begun = hist.begun /\ hist'.ended = hist.ended
        BY Types DEF Typed, History, Scrape, LoadCount, LoadSum, LoadBucket, Publish, vars
    <1> QED
        BY <1>1 DEF RecordInv, Busy, Counted, Below

-----------------------------------------------------------------------------
(* What the collector keeps.  Of each bucket: the share of the scrape      *)
(* published and of what had ended before the latest one are at most what  *)
(* the bucket holds, and so are the shares read so far.                    *)

Shares(f, i) == f[i] - Below(f, i)

ShareInv ==
    /\ \A i \in Boundaries : /\ Shares(hist.before, i) <= buckets[i]
                             /\ Shares(published.buckets, i) <= buckets[i]
    /\ \A i \in 1..(scraper.next - 1) : Shares(scraper.read, i) <= buckets[i]

(* Of the running totals.                                                  *)
TotalInv ==
    /\ scraper.cumulative = Below(scraper.read, scraper.next)
    /\ \A i \in Boundaries : published.buckets[i] <= hist.ended[i]
    /\ \A i \in 1..(scraper.next - 1) :
         /\ hist.before[i] <= scraper.read[i] /\ scraper.read[i] <= hist.ended[i]
         /\ published.buckets[i] <= scraper.read[i]
    /\ scraper.at = "idle" =>
         \A i \in Boundaries : hist.before[i] <= published.buckets[i]

(* Of the count and the sum.                                               *)
LoadInv ==
    /\ published.count <= count /\ published.sum <= sum
    /\ scraper.at = "idle" => hist.before[N] <= published.count
    /\ scraper.at # "idle" =>
         /\ hist.before[N] <= scraper.count /\ scraper.count <= count
         /\ published.count <= scraper.count
    /\ scraper.at = "buckets" => published.sum <= scraper.sum /\ scraper.sum <= sum

ScrapeInv == ShareInv /\ TotalInv /\ LoadInv

LEMMA FieldTypes ==
    ASSUME TypeOK
    PROVE  /\ sum \in Nat /\ count \in Nat /\ buckets \in PerBoundary
           /\ hist.begun \in PerBoundary /\ hist.ended \in PerBoundary
           /\ hist.before \in PerBoundary
           /\ scraper.count \in Nat /\ scraper.sum \in Nat /\ scraper.read \in PerBoundary
           /\ scraper.next \in 1..(N + 1) /\ scraper.cumulative \in Nat
           /\ scraper.at \in {"idle", "sum", "buckets"}
           /\ scraper.at \in {"idle", "sum"} => scraper.next = 1 /\ scraper.cumulative = 0
           /\ published.count \in Nat /\ published.sum \in Nat
           /\ published.buckets \in PerBoundary
           /\ 1..(scraper.next - 1) \subseteq Boundaries
           /\ N \in Boundaries
    BY Types, NAssumption DEF Typed, History, Scraper, Published, Boundaries

LEMMA InitScrape == Init => ScrapeInv
    <1> SUFFICES ASSUME Init PROVE ScrapeInv
        OBVIOUS
    <1>1. /\ hist.before = Zeros /\ hist.ended = Zeros /\ buckets = Zeros
          /\ published.buckets = Zeros /\ published.count = 0 /\ published.sum = 0
          /\ count = 0 /\ sum = 0
          /\ scraper.at = "idle" /\ scraper.next = 1 /\ scraper.cumulative = 0
        BY DEF Init, Resting
    <1>2. N \in Boundaries /\ \A i \in Boundaries : Zeros[i] = 0 /\ Below(Zeros, i) = 0
        BY NAssumption DEF Zeros, Below, Boundaries
    <1> QED
        BY <1>1, <1>2 DEF ScrapeInv, ShareInv, TotalInv, LoadInv, Shares, Below

LEMMA GrowingKeepsScrape ==
    ASSUME TypeOK, TypeOK', ScrapeInv, Growing
    PROVE  ScrapeInv'
    <1>1. /\ \A i \in Boundaries : /\ buckets[i] \in Nat /\ buckets'[i] \in Nat
                                    /\ hist.ended[i] \in Nat /\ hist'.ended[i] \in Nat
                                    /\ hist.before[i] \in Nat /\ scraper.read[i] \in Nat
                                    /\ published.buckets[i] \in Nat
                                    /\ Shares(hist.before, i) \in Int
                                    /\ Shares(published.buckets, i) \in Int
                                    /\ Shares(scraper.read, i) \in Int
        <2>1. \A f \in PerBoundary : \A i \in Boundaries :
                f[i] \in Nat /\ Shares(f, i) \in Int
            <3> TAKE f \in PerBoundary
            <3> TAKE i \in Boundaries
            <3>1. f[i] \in Nat /\ i \in 1..(N + 1)
                BY NAssumption DEF PerBoundary, Boundaries
            <3>2. Below(f, i) \in Nat
                BY <3>1, BelowType
            <3> QED
                BY <3>1, <3>2 DEF Shares
        <2>2. buckets' \in PerBoundary /\ hist'.ended \in PerBoundary
            BY Types DEF Typed, History
        <2> QED
            BY <2>1, <2>2, FieldTypes
    <1>2. count' \in Nat /\ sum' \in Nat
        BY Types DEF Typed
    <1>3. ShareInv'
        BY <1>1, FieldTypes DEF ScrapeInv, ShareInv, Growing
    <1>4. TotalInv'
        BY <1>1, FieldTypes DEF ScrapeInv, TotalInv, Growing
    <1>5. LoadInv'
        BY <1>1, <1>2, FieldTypes DEF ScrapeInv, LoadInv, Growing
    <1> QED
        BY <1>3, <1>4, <1>5 DEF ScrapeInv

LEMMA LoadCountKeeps ==
    ASSUME TypeOK, RecordInv, ScrapeInv, LoadCount
    PROVE  ScrapeInv'
    <1>1. /\ scraper.at = "idle" /\ scraper'.at = "sum" /\ scraper'.count = count
          /\ scraper'.next = scraper.next /\ scraper'.cumulative = scraper.cumulative
          /\ scraper'.read = scraper.read
          /\ hist'.before = hist.ended /\ hist'.ended = hist.ended
          /\ UNCHANGED <<sum, count, buckets, published>>
        BY Types DEF LoadCount, Typed, History, Scraper
    <1>2. scraper.next = 1 /\ scraper.cumulative = 0
        BY <1>1, FieldTypes
    <1>3. ShareInv'
        <2>1. \A i \in Boundaries : Shares(hist.ended, i) = buckets[i]
            BY DEF RecordInv, Shares
        <2>2. \A i \in Boundaries : buckets[i] \in Nat
            BY FieldTypes DEF PerBoundary
        <2> QED
            BY <1>1, <1>2, <2>1, <2>2 DEF ScrapeInv, ShareInv
    <1>4. TotalInv'
        BY <1>1, <1>2 DEF ScrapeInv, TotalInv, Below
    <1>5. LoadInv'
        BY <1>1, RecordBounds, FieldTypes DEF ScrapeInv, LoadInv
    <1> QED
        BY <1>3, <1>4, <1>5 DEF ScrapeInv

LEMMA LoadSumKeeps ==
    ASSUME TypeOK, ScrapeInv, LoadSum
    PROVE  ScrapeInv'
    <1>1. /\ scraper.at = "sum" /\ scraper'.at = "buckets" /\ scraper'.sum = sum
          /\ scraper'.count = scraper.count
          /\ scraper'.next = scraper.next /\ scraper'.cumulative = scraper.cumulative
          /\ scraper'.read = scraper.read
          /\ UNCHANGED <<sum, count, buckets, published, hist>>
        BY Types DEF LoadSum, Typed, Scraper
    <1>2. ShareInv'
        BY <1>1 DEF ScrapeInv, ShareInv
    <1>3. TotalInv'
        BY <1>1 DEF ScrapeInv, TotalInv
    <1>4. LoadInv'
        BY <1>1, FieldTypes DEF ScrapeInv, LoadInv
    <1> QED
        BY <1>2, <1>3, <1>4 DEF ScrapeInv

LEMMA LoadBucketKeeps ==
    ASSUME TypeOK, RecordInv, ScrapeInv, LoadBucket
    PROVE  ScrapeInv'
    <1> DEFINE k == scraper.next
               read == scraper.read
               c == scraper.cumulative + buckets[k]
    <1>1. /\ scraper.at = "buckets" /\ scraper'.at = "buckets"
          /\ k \in Boundaries /\ scraper'.next = k + 1
          /\ scraper'.count = scraper.count /\ scraper'.sum = scraper.sum
          /\ scraper'.cumulative = c /\ scraper'.read = [read EXCEPT ![k] = c]
          /\ UNCHANGED <<sum, count, buckets, published, hist>>
        BY LoadBucketFields DEF LoadBucket
    <1>2. /\ read \in PerBoundary /\ buckets[k] \in Nat /\ scraper.cumulative \in Nat
          /\ k \in Nat /\ k >= 1 /\ c \in Nat
        <2>1. read \in PerBoundary /\ buckets[k] \in Nat /\ scraper.cumulative \in Nat
            BY <1>1, FieldTypes DEF PerBoundary
        <2>2. k \in Nat /\ k >= 1
            BY <1>1, NAssumption DEF Boundaries
        <2> QED
            BY <2>1, <2>2
    <1>3. /\ scraper'.read[k] = c
          /\ \A i \in 1..(k - 1) : scraper'.read[i] = read[i]
          /\ \A i \in 1..k : Below(scraper'.read, i) = Below(read, i)
        <2>1. \A i \in Boundaries : scraper'.read[i] = IF i = k THEN c ELSE read[i]
            BY <1>1, <1>2 DEF PerBoundary
        <2>2. 1..k \subseteq Boundaries
            BY <1>1, <1>2, NAssumption DEF Boundaries
        <2>3. \A i \in 1..k : i # 1 => i - 1 \in Boundaries /\ i - 1 # k
            BY <1>1, <1>2, NAssumption DEF Boundaries
        <2> QED
            BY <1>1, <1>2, <2>1, <2>2, <2>3 DEF Below
    <1>4. scraper.cumulative = Below(read, k)
        BY DEF ScrapeInv, TotalInv
    <1>5. Below(scraper'.read, k + 1) = c
        <2>1. k + 1 # 1 /\ (k + 1) - 1 = k
            BY <1>2
        <2> QED
            BY <1>3, <2>1 DEF Below
    <1>6. scraper'.next - 1 = k /\ \A i \in 1..k : i \in 1..(k - 1) \/ i = k
        <2>1. scraper'.next = k + 1 /\ k \in Nat
            BY <1>1, <1>2
        <2> HIDE DEF k
        <2>2. scraper'.next - 1 = k
            BY <2>1
        <2>3. \A i \in 1..k : i \in 1..(k - 1) \/ i = k
            BY <2>1
        <2> QED
            BY <2>2, <2>3
    <1>7. ShareInv'
        <2>1. Shares(scraper'.read, k) = buckets[k]
            <3>1. Below(scraper'.read, k) = scraper.cumulative
                BY <1>2, <1>3, <1>4
            <3> QED
                BY <1>2, <1>3, <3>1 DEF Shares
        <2>2. \A i \in 1..(k - 1) : Shares(scraper'.read, i) = Shares(read, i)
            BY <1>2, <1>3 DEF Shares
        <2>3. \A i \in 1..(k - 1) : Shares(read, i) <= buckets[i]
            BY DEF ScrapeInv, ShareInv
        <2>4. \A i \in 1..k : Shares(scraper'.read, i) <= buckets[i]
            BY <1>2, <1>6, <2>1, <2>2, <2>3
        <2> QED
            BY <1>1, <1>6, <2>4 DEF ScrapeInv, ShareInv
    <1>8. TotalInv'
        <2>1. /\ hist.before[k] \in Nat /\ hist.ended[k] \in Nat
              /\ published.buckets[k] \in Nat
              /\ Below(hist.before, k) \in Nat /\ Below(hist.ended, k) \in Nat
              /\ Below(published.buckets, k) \in Nat
            BY <1>1, FieldTypes, BelowType DEF PerBoundary
        <2>2. /\ hist.before[k] <= Below(hist.before, k) + buckets[k]
              /\ published.buckets[k] <= Below(published.buckets, k) + buckets[k]
              /\ hist.ended[k] = Below(hist.ended, k) + buckets[k]
            BY <1>1, <1>2, <2>1 DEF ScrapeInv, ShareInv, RecordInv, Shares
        <2>3. /\ Below(hist.before, k) <= Below(read, k)
              /\ Below(published.buckets, k) <= Below(read, k)
              /\ Below(read, k) <= Below(hist.ended, k)
            <3>1. CASE k = 1
                BY <3>1 DEF Below
            <3>2. CASE k # 1
                <4>1. k - 1 \in 1..(k - 1)
                    BY <1>2, <3>2
                <4> QED
                    BY <3>2, <4>1 DEF Below, ScrapeInv, TotalInv
            <3> QED
                BY <3>1, <3>2
        <2>4. hist.before[k] <= c /\ c <= hist.ended[k] /\ published.buckets[k] <= c
            BY <1>2, <1>4, <2>1, <2>2, <2>3
        <2>5. \A i \in 1..k :
                /\ hist.before[i] <= scraper'.read[i] /\ scraper'.read[i] <= hist.ended[i]
                /\ published.buckets[i] <= scraper'.read[i]
            BY <1>3, <1>6, <2>4 DEF ScrapeInv, TotalInv
        <2> QED
            BY <1>1, <1>5, <1>6, <2>5 DEF ScrapeInv, TotalInv
    <1>9. LoadInv'
        BY <1>1 DEF ScrapeInv, LoadInv
    <1> QED
        BY <1>7, <1>8, <1>9 DEF ScrapeInv

(* A complete scrape has every bucket.                                     *)
LEMMA PublishFields ==
    ASSUME TypeOK, Publish
    PROVE  /\ scraper.at = "buckets" /\ 1..(scraper.next - 1) = Boundaries
           /\ scraper'.at = "idle" /\ scraper'.next = 1 /\ scraper'.cumulative = 0
           /\ published'.count = scraper.count /\ published'.sum = scraper.sum
           /\ published'.buckets = scraper.read
           /\ UNCHANGED <<sum, count, buckets, hist>>
    BY FieldTypes, NAssumption DEF Publish, Resting, Boundaries

LEMMA PublishKeeps ==
    ASSUME TypeOK, ScrapeInv, Publish
    PROVE  ScrapeInv'
    <1> USE PublishFields
    <1>0. 1..(scraper'.next - 1) = {}
        OBVIOUS
    <1>1. ShareInv'
        BY <1>0 DEF ScrapeInv, ShareInv
    <1>2. TotalInv'
        BY <1>0 DEF ScrapeInv, TotalInv, Below
    <1>3. LoadInv'
        BY DEF ScrapeInv, LoadInv
    <1> QED
        BY <1>1, <1>2, <1>3 DEF ScrapeInv

LEMMA ScrapesHold == Spec => [](TypeOK /\ RecordInv /\ ScrapeInv)
    <1>1. Init => TypeOK /\ RecordInv /\ ScrapeInv
        BY InitType, InitRecord, InitScrape
    <1>2. TypeOK /\ RecordInv /\ ScrapeInv /\ [Next]_vars
            => (TypeOK /\ RecordInv /\ ScrapeInv)'
        <2> SUFFICES ASSUME TypeOK, RecordInv, ScrapeInv, [Next]_vars
                     PROVE  RecordInv' /\ ScrapeInv'
            BY NextType
        <2>0. TypeOK'
            BY NextType
        <2>1. ASSUME NEW r \in Recorders, Record(r) PROVE RecordInv' /\ ScrapeInv'
            BY <2>0, <2>1, AddSumKeeps, AddCountKeeps, AddBucketKeeps, GrowingKeepsScrape
               DEF Record
        <2>2. CASE Scrape
            BY <2>2, ScrapeKeepsRecord, LoadCountKeeps, LoadSumKeeps, LoadBucketKeeps,
               PublishKeeps DEF Scrape
        <2>3. CASE UNCHANGED vars
            BY <2>3, ScrapeKeepsRecord
               DEF vars, ScrapeInv, ShareInv, TotalInv, LoadInv, Shares, Below
        <2> QED
            BY <2>1, <2>2, <2>3 DEF Next
    <1> QED
        BY <1>1, <1>2, PTL DEF Spec

(* ScrapeWithinInterval: whatever the recorders do while the getter loads  *)
(* count, sum and buckets, each number published lies between what had     *)
(* been recorded when the scrape began and what has been begun since.      *)
THEOREM ScrapeStaysWithin == Spec => []ScrapeWithinInterval
    <1>1. TypeOK /\ RecordInv /\ ScrapeInv => ScrapeWithinInterval
        <2> SUFFICES ASSUME TypeOK, RecordInv, ScrapeInv, scraper.at = "idle"
                     PROVE  /\ published.count \in hist.before[N]..hist.begun[N]
                            /\ \A i \in Boundaries :
                                 published.buckets[i] \in hist.before[i]..hist.begun[i]
            BY DEF ScrapeWithinInterval
        <2>1. \A i \in Boundaries : /\ hist.before[i] \in Nat /\ hist.begun[i] \in Nat
                                    /\ hist.ended[i] \in Nat
                                    /\ published.buckets[i] \in Nat
            BY FieldTypes DEF PerBoundary
        <2>2. /\ hist.before[N] <= published.count /\ published.count <= count
              /\ count <= hist.begun[N]
            BY RecordBounds DEF ScrapeInv, LoadInv
        <2>3. \A i \in Boundaries : /\ hist.before[i] <= published.buckets[i]
                                    /\ published.buckets[i] <= hist.ended[i]
                                    /\ hist.ended[i] <= hist.begun[i]
            BY RecordBounds DEF ScrapeInv, TotalInv
        <2> QED
            BY <2>1, <2>2, <2>3, FieldTypes
    <1> QED
        BY <1>1, ScrapesHold, PTL

(* NeverFalls: no number published is below the one published before it,   *)
(* although every scrape adds the buckets up again from nothing.           *)
THEOREM PublishedNeverFalls == Spec => NeverFalls
    <1> DEFINE Rises == /\ published'.count >= published.count
                        /\ published'.sum >= published.sum
                        /\ \A i \in Boundaries :
                             published'.buckets[i] >= published.buckets[i]
    <1>1. TypeOK /\ RecordInv /\ ScrapeInv /\ [Next]_vars => [Rises]_vars
        <2> SUFFICES ASSUME TypeOK, ScrapeInv, [Next]_vars PROVE Rises \/ UNCHANGED vars
            OBVIOUS
        <2>0. /\ published.count \in Nat /\ published.sum \in Nat
              /\ \A i \in Boundaries : published.buckets[i] \in Nat
            BY FieldTypes DEF PerBoundary
        <2>1. CASE published' = published
            BY <2>0, <2>1
        <2>2. CASE Publish
            <3>1. \A i \in Boundaries : scraper.read[i] \in Nat
                BY FieldTypes DEF PerBoundary
            <3> QED
                BY <2>0, <2>2, <3>1, PublishFields, FieldTypes
                   DEF ScrapeInv, TotalInv, LoadInv
        <2> QED
            BY <2>1, <2>2 DEF Next, Record, AddSum, AddCount, AddBucket, Scrape, LoadCount,
                              LoadSum, LoadBucket
    <1>2. TypeOK /\ RecordInv /\ ScrapeInv /\ [Next]_vars =>
            [/\ published'.count >= published.count
             /\ published'.sum >= published.sum
             /\ \A i \in Boundaries : published'.buckets[i] >= published.buckets[i]]_vars
        BY <1>1
    <1> QED
        BY <1>2, ScrapesHold, PTL DEF Spec, NeverFalls

-----------------------------------------------------------------------------
(* The sum of the observations that are in sum and not yet in count, as    *)
(* the size of a set: for every recorder between the two additions, one    *)
(* pair for each unit of its observation.                                  *)

Units(r, ms) == {r} \X (1..ms)

Uncounted ==
    {p \in Recorders \X Observations :
        recorder[p[1]].at = "count" /\ p[2] <= recorder[p[1]].ms}

(* covered never runs ahead of what is counted now; once the scrape has    *)
(* loaded the sum, its own sum is enough.                                  *)
SumInv ==
    /\ sum = hist.countedSum + Cardinality(Uncounted)
    /\ hist.covered <= hist.countedSum
    /\ scraper.at = "buckets" => hist.covered <= scraper.sum
    /\ scraper.at = "idle" => hist.covered <= published.sum

LEMMA UncountedSize ==
    /\ IsFiniteSet(Uncounted) /\ Cardinality(Uncounted) \in Nat
    /\ IsFiniteSet(Uncounted') /\ Cardinality(Uncounted') \in Nat
    <1>1. IsFiniteSet(Recorders \X Observations)
        <2>1. IsFiniteSet(Observations)
            BY FS_Interval, NAssumption DEF Observations
        <2> QED
            BY <2>1, RecordersAssumption, FS_Product
    <1>2. Uncounted \subseteq Recorders \X Observations
        BY DEF Uncounted
    <1>3. Uncounted' \subseteq Recorders \X Observations
        BY DEF Uncounted
    <1> QED
        BY <1>1, <1>2, <1>3, FS_Subset, FS_CardinalityType

LEMMA UnitsSize ==
    ASSUME NEW r, NEW ms \in Observations
    PROVE  IsFiniteSet(Units(r, ms)) /\ Cardinality(Units(r, ms)) = ms
    <1>1. IsFiniteSet({r}) /\ Cardinality({r}) = 1
        BY FS_Singleton
    <1>2. ms \in Nat /\ ms >= 1
        BY NAssumption DEF Observations
    <1>3. IsFiniteSet(1..ms) /\ Cardinality(1..ms) = ms
        BY <1>2, FS_Interval
    <1>4. Cardinality(Units(r, ms)) = Cardinality({r}) * Cardinality(1..ms)
          /\ IsFiniteSet(Units(r, ms))
        BY <1>1, <1>3, FS_Product DEF Units
    <1> QED
        BY <1>1, <1>2, <1>3, <1>4

LEMMA DisjointSize ==
    ASSUME NEW S, NEW T, IsFiniteSet(S), IsFiniteSet(T), S \cap T = {}
    PROVE  Cardinality(S \cup T) = Cardinality(S) + Cardinality(T)
    <1>1. Cardinality(S \cup T) =
            Cardinality(S) + Cardinality(T) - Cardinality(S \cap T)
        BY FS_Union
    <1>2. Cardinality(S \cap T) = 0
        BY FS_EmptySet
    <1> QED
        BY <1>1, <1>2, FS_CardinalityType

LEMMA InitSum == Init => SumInv
    <1> SUFFICES ASSUME Init PROVE SumInv
        OBVIOUS
    <1>1. Uncounted = {}
        BY DEF Init, Uncounted
    <1>2. /\ sum = 0 /\ hist.countedSum = 0 /\ hist.covered = 0
          /\ published.sum = 0 /\ scraper.at = "idle"
        BY DEF Init, Resting
    <1> QED
        BY <1>1, <1>2, FS_EmptySet DEF SumInv

(* The sum gains what becomes uncounted.                                   *)
LEMMA AddSumKeepsSum ==
    ASSUME TypeOK, TypeOK', SumInv, NEW r \in Recorders, AddSum(r)
    PROVE  SumInv'
    <1> USE Types DEF Typed
    <1>1. PICK ms \in Observations :
            /\ sum' = sum + ms
            /\ recorder' = [recorder EXCEPT ![r] = [at |-> "count", ms |-> ms]]
            /\ hist' = [hist EXCEPT !.begun = Including(@, ms)]
        BY DEF AddSum
    <1>2. /\ recorder[r].at = "idle" /\ recorder'[r].at = "count" /\ recorder'[r].ms = ms
          /\ \A q \in Recorders \ {r} : recorder'[q] = recorder[q]
        BY <1>1 DEF AddSum
    <1>3. /\ hist'.countedSum = hist.countedSum /\ hist'.covered = hist.covered
          /\ hist.countedSum \in Nat /\ ms \in Nat
          /\ UNCHANGED <<scraper, published>>
        BY <1>1, NAssumption DEF AddSum, History, Observations
    <1>4. Uncounted' = Uncounted \cup Units(r, ms) /\ Uncounted \cap Units(r, ms) = {}
        <2>1. Units(r, ms) \subseteq Recorders \X Observations
            BY NAssumption DEF Units, Observations
        <2>2. ASSUME NEW p \in Recorders \X Observations
              PROVE  p \in Uncounted' <=> p \in Uncounted \/ p \in Units(r, ms)
            BY <1>2 DEF Uncounted, Units, Observations
        <2>3. \A p \in Units(r, ms) : p \notin Uncounted
            BY <1>2 DEF Uncounted, Units
        <2>4. Uncounted \subseteq Recorders \X Observations
              /\ Uncounted' \subseteq Recorders \X Observations
            BY DEF Uncounted
        <2> QED
            BY <2>1, <2>2, <2>3, <2>4
    <1>5. Cardinality(Uncounted') = Cardinality(Uncounted) + ms
        BY <1>4, UncountedSize, UnitsSize, DisjointSize
    <1> QED
        BY <1>1, <1>3, <1>5, UncountedSize DEF SumInv

(* Counting moves units from one term to the other.                        *)
LEMMA AddCountKeepsSum ==
    ASSUME TypeOK, TypeOK', SumInv, NEW r \in Recorders, AddCount(r)
    PROVE  SumInv'
    <1> USE Types DEF Typed
    <1> DEFINE ms == recorder[r].ms
    <1>1. /\ recorder[r].at = "count" /\ recorder'[r].at = "bucket"
          /\ ms \in Observations
          /\ \A q \in Recorders \ {r} : recorder'[q] = recorder[q]
        BY DEF AddCount, Recording
    <1>2. /\ hist'.countedSum = hist.countedSum + ms /\ hist'.covered = hist.covered
          /\ hist.countedSum \in Nat /\ hist.covered \in Nat /\ ms \in Nat
          /\ UNCHANGED <<sum, scraper, published>>
        BY <1>1, NAssumption DEF AddCount, History, Observations
    <1> HIDE DEF ms
    <1>3. Uncounted = Uncounted' \cup Units(r, ms) /\ Uncounted' \cap Units(r, ms) = {}
        <2>1. Units(r, ms) \subseteq Recorders \X Observations
            BY <1>1, NAssumption DEF Units, Observations
        <2>2. ASSUME NEW p \in Recorders \X Observations
              PROVE  p \in Uncounted <=> p \in Uncounted' \/ p \in Units(r, ms)
            BY <1>1 DEF Uncounted, Units, Observations, ms
        <2>3. \A p \in Units(r, ms) : p \notin Uncounted'
            BY <1>1 DEF Uncounted, Units
        <2>4. Uncounted \subseteq Recorders \X Observations
              /\ Uncounted' \subseteq Recorders \X Observations
            BY DEF Uncounted
        <2> QED
            BY <2>1, <2>2, <2>3, <2>4
    <1>4. Cardinality(Uncounted) = Cardinality(Uncounted') + ms
        BY <1>1, <1>3, UncountedSize, UnitsSize, DisjointSize
    <1> QED
        BY <1>2, <1>4, UncountedSize DEF SumInv

LEMMA AddBucketKeepsSum ==
    ASSUME TypeOK, SumInv, NEW r \in Recorders, AddBucket(r)
    PROVE  SumInv'
    <1> USE Types DEF Typed
    <1>1. /\ recorder[r].at = "bucket" /\ recorder'[r].at = "idle"
          /\ \A q \in Recorders \ {r} : recorder'[q] = recorder[q]
        BY DEF AddBucket, Recording
    <1>2. Uncounted' = Uncounted
        BY <1>1 DEF Uncounted
    <1>3. /\ hist'.countedSum = hist.countedSum /\ hist'.covered = hist.covered
          /\ UNCHANGED <<sum, scraper, published>>
        BY DEF AddBucket, History
    <1> QED
        BY <1>2, <1>3 DEF SumInv

(* What the scrape loads as sum covers what it has loaded as count.        *)
LEMMA ScrapeKeepsSum ==
    ASSUME TypeOK, SumInv, Scrape \/ UNCHANGED vars
    PROVE  SumInv'
    <1> USE Types DEF Typed
    <1>1. UNCHANGED <<sum, recorder>> /\ hist'.countedSum = hist.countedSum
        BY DEF History, Scrape, LoadCount, LoadSum, LoadBucket, Publish, vars
    <1>2. Uncounted' = Uncounted
        BY <1>1 DEF Uncounted
    <1>3. /\ Cardinality(Uncounted) \in Nat /\ hist.countedSum \in Nat
          /\ hist.covered \in Nat
        BY UncountedSize DEF History
    <1>4. CASE LoadCount
        <2>1. scraper'.at = "sum" /\ hist'.covered = hist.countedSum
            BY <1>4 DEF LoadCount, History, Scraper
        <2> QED
            BY <1>1, <1>2, <1>3, <2>1 DEF SumInv
    <1>5. CASE LoadSum
        <2>1. scraper'.at = "buckets" /\ scraper'.sum = sum /\ hist' = hist
            BY <1>5 DEF LoadSum, Scraper
        <2> QED
            BY <1>1, <1>2, <1>3, <2>1 DEF SumInv
    <1>6. CASE LoadBucket
        <2>1. /\ scraper.at = "buckets" /\ scraper'.at = "buckets"
              /\ scraper'.sum = scraper.sum /\ hist' = hist
            BY <1>6, LoadBucketFields DEF LoadBucket
        <2> QED
            BY <1>1, <1>2, <2>1 DEF SumInv
    <1>7. CASE Publish
        BY <1>1, <1>2, <1>7, PublishFields DEF SumInv
    <1>8. CASE UNCHANGED vars
        BY <1>1, <1>2, <1>8 DEF SumInv, vars
    <1> QED
        BY <1>4, <1>5, <1>6, <1>7, <1>8 DEF Scrape

(* SumCoversCount: an observation enters sum before count and the scrape   *)
(* reads them the other way round, so that whatever the recorders do in    *)
(* between, every observation that a published histogram counts is in its  *)
(* sum.                                                                    *)
THEOREM SumCoversWhatIsCounted == Spec => []SumCoversCount
    <1>1. Init => TypeOK /\ SumInv
        BY InitType, InitSum
    <1>2. TypeOK /\ SumInv /\ [Next]_vars => (TypeOK /\ SumInv)'
        <2> SUFFICES ASSUME TypeOK, SumInv, [Next]_vars PROVE SumInv'
            BY NextType
        <2>0. TypeOK'
            BY NextType
        <2>1. ASSUME NEW r \in Recorders, Record(r) PROVE SumInv'
            BY <2>0, <2>1, AddSumKeepsSum, AddCountKeepsSum, AddBucketKeepsSum DEF Record
        <2> QED
            BY <2>1, ScrapeKeepsSum DEF Next
    <1>3. TypeOK /\ SumInv => SumCoversCount
        BY Types DEF SumInv, SumCoversCount, Typed, History, Published
    <1> QED
        BY <1>1, <1>2, <1>3, PTL DEF Spec
=============================================================================
