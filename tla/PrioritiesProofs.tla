-------------------------- MODULE PrioritiesProofs --------------------------
(***************************************************************************)
(* The order of the priorities, for every width of the fields, every set   *)
(* of bid amounts and every set of targets.                                *)
(***************************************************************************)
EXTENDS Priorities, TLAPS

-----------------------------------------------------------------------------
(* Arithmetic of the fields.                                               *)

LEMMA Multiples ==
    ASSUME NEW a \in Nat, NEW b \in Nat, NEW d \in Nat, a < b
    PROVE  a * d + d <= b * d
    <1>1. PICK c \in Nat : b = a + 1 + c
        <2>1. b - a - 1 \in Nat /\ b = a + 1 + (b - a - 1)
            OBVIOUS
        <2> QED
            BY <2>1
    <1>2. b * d = a * d + d + c * d /\ c * d \in Nat /\ a * d \in Nat
        BY <1>1
    <1> QED
        BY <1>2

LEMMA Units ==
    /\ BidSpace \in Nat \ {0} /\ IdUnit \in Nat \ {0} /\ IdUnit = BidSpace + BidSpace
    /\ TopOfBlockBit \in Nat /\ Word = TopOfBlockBit + TopOfBlockBit
    /\ IdUnit <= TopOfBlockBit
    <1>1. IdUnit \in Nat \ {0} /\ IdUnit = BidSpace + BidSpace
        BY WidthAssumption DEF IdUnit
    <1>2. TopOfBlockBit \in Nat
        BY <1>1, WidthAssumption DEF TopOfBlockBit
    <1>3. 0 * IdUnit + IdUnit <= IdSpace * IdUnit
        BY <1>1, Multiples, WidthAssumption
    <1> QED
        BY <1>1, <1>2, <1>3, WidthAssumption DEF Word, TopOfBlockBit

LEMMA MaskType ==
    ASSUME NEW b \in Nat
    PROVE  /\ MaskBid(b) \in Nat /\ MaskBid(b) < BidSpace
           /\ b < BidSpace => MaskBid(b) = b
    BY WidthAssumption DEF MaskBid

LEMMA IdType ==
    ASSUME NEW h \in 0..(IdSpace * HashLow - 1)
    PROVE  extractBackrunID(h) \in Nat /\ extractBackrunID(h) < IdSpace
    <1> DEFINE q == h \div HashLow
    <1>1. h \in Nat /\ h < IdSpace * HashLow
        BY WidthAssumption
    <1>2. q \in Nat /\ q * HashLow <= h
        BY <1>1, WidthAssumption
    <1>3. CASE IdSpace <= q
        <2>1. IdSpace * HashLow <= q * HashLow
            <3>1. CASE IdSpace = q
                BY <3>1, <1>2, WidthAssumption
            <3>2. CASE IdSpace < q
                BY <3>2, <1>2, Multiples, WidthAssumption
            <3> QED
                BY <1>2, <1>3, <3>1, <3>2, WidthAssumption
        <2> QED
            BY <1>1, <1>2, <2>1, WidthAssumption
    <1>4. CASE q < IdSpace
        BY <1>2, <1>4 DEF extractBackrunID
    <1> QED
        BY <1>2, <1>3, <1>4, WidthAssumption

(* Where the priorities of the three kinds lie: those of a group within    *)
(* one unit of the id, the opportunity above its bids.                     *)
Base(h) == extractBackrunID(h) * IdUnit

LEMMA BaseType ==
    ASSUME NEW h \in 0..(IdSpace * HashLow - 1)
    PROVE  /\ Base(h) \in Nat
           /\ Base(h) + IdUnit <= TopOfBlockBit
    BY IdType, Units, Multiples, WidthAssumption DEF Base, TopOfBlockBit

LEMMA BaseOrder ==
    ASSUME NEW h \in 0..(IdSpace * HashLow - 1), NEW g \in 0..(IdSpace * HashLow - 1),
           extractBackrunID(h) < extractBackrunID(g)
    PROVE  Base(h) + IdUnit <= Base(g)
    BY IdType, Units, Multiples DEF Base

(* The comparison of the sort is a strict weak order, missing amounts      *)
(* last: what sort.Slice requires of it.                                   *)
THEOREM BidBeforeIsStrictWeakOrder ==
    ASSUME NEW i \in Nat \cup {NoBid}, NEW j \in Nat \cup {NoBid},
           NEW k \in Nat \cup {NoBid}
    PROVE  /\ ~BidBefore(i, i)
           /\ BidBefore(i, j) /\ BidBefore(j, k) => BidBefore(i, k)
           /\ ~BidBefore(i, j) /\ ~BidBefore(j, i)
                /\ ~BidBefore(j, k) /\ ~BidBefore(k, j)
              => ~BidBefore(i, k) /\ ~BidBefore(k, i)
    BY BidsAssumption DEF BidBefore

-----------------------------------------------------------------------------
(* Every message carries the priority of its kind.                         *)
Priority(m) ==
    CASE m.kind = "tob" -> CalculateTOBPriority(m.bid)
      [] m.kind = "opp" -> CalculateOpportunityPriority(m.target)
      [] OTHER          -> CalculateBackrunPriority(m.bid, m.target)

Messages == [kind : {"tob", "opp", "bid"}, bid : BidAmounts \cup {0},
             target : Targets \cup {0}, priority : 0..(Word - 1)]

Honest(m) ==
    /\ m \in Messages
    /\ m.priority = Priority(m)
    /\ m.kind # "tob" => m.target \in Targets

IInv == (\A m \in received : Honest(m)) /\ handled \in 0..MaxHandled

LEMMA PriorityPlace ==
    ASSUME NEW m, m.bid \in Nat, m.kind \in {"tob", "opp", "bid"},
           m.kind # "tob" => m.target \in Targets
    PROVE  /\ Priority(m) \in 0..(Word - 1)
           /\ m.kind = "tob" => Priority(m) >= TopOfBlockBit
           /\ m.kind # "tob" =>
                /\ Base(m.target) <= Priority(m)
                /\ Priority(m) < Base(m.target) + IdUnit
                /\ Priority(m) < TopOfBlockBit
           /\ m.kind = "tob" => Priority(m) = TopOfBlockBit + MaskBid(m.bid)
           /\ m.kind = "opp" => Priority(m) = Base(m.target) + BidSpace
           /\ m.kind = "bid" => Priority(m) = Base(m.target) + MaskBid(m.bid)
    <1>1. CASE m.kind = "tob"
        BY <1>1, MaskType, Units DEF Priority, CalculateTOBPriority
    <1>2. CASE m.kind # "tob"
        <2>1. m.target \in 0..(IdSpace * HashLow - 1)
            BY <1>2, TargetsAssumption
        <2>2. Base(m.target) \in Nat /\ Base(m.target) + IdUnit <= TopOfBlockBit
            BY <2>1, BaseType
        <2>3. CASE m.kind = "opp"
            BY <2>2, <2>3, Units DEF Priority, CalculateOpportunityPriority, Base
        <2>4. CASE m.kind = "bid"
            BY <2>2, <2>4, Units, MaskType
            DEF Priority, CalculateBackrunPriority, Base
        <2> QED
            BY <1>2, <2>3, <2>4
    <1> QED
        BY <1>1, <1>2

LEMMA InitIInv == Init => IInv
    BY HandledAssumption DEF Init, IInv

LEMMA NextIInv == IInv /\ [Next]_vars => IInv'
    <1> SUFFICES ASSUME IInv, [Next]_vars PROVE IInv'
        OBVIOUS
    <1>1. CASE UNCHANGED vars
        BY <1>1 DEF vars, IInv
    <1>2. CASE Next
        <2>1. handled' \in 0..MaxHandled
            BY <1>2, HandledAssumption DEF Next, IInv
        <2>2. ASSUME NEW bid \in BidAmounts, handleTOBBid(bid)
              PROVE  \A m \in received' : Honest(m)
            <3> DEFINE n == Message("tob", bid, 0, CalculateTOBPriority(bid))
            <3>1. /\ n.kind = "tob" /\ n.bid = bid /\ n.bid \in Nat
                  /\ n.priority = Priority(n)
                BY BidsAssumption DEF Message, Priority
            <3>2. n.priority \in 0..(Word - 1)
                BY <3>1, PriorityPlace
            <3>3. Honest(n)
                BY <3>1, <3>2 DEF Honest, Messages, Message
            <3> QED
                BY <2>2, <3>3 DEF handleTOBBid, IInv
        <2>3. ASSUME NEW bid \in BidAmounts, NEW target \in Targets,
                     handleBackrunBid(bid, target)
              PROVE  \A m \in received' : Honest(m)
            <3> DEFINE o == Message("opp", 0, target, CalculateOpportunityPriority(target))
                       b == Message("bid", bid, target, CalculateBackrunPriority(bid, target))
            <3>1. /\ o.kind = "opp" /\ o.bid \in Nat /\ o.target = target
                  /\ o.priority = Priority(o)
                BY DEF Message, Priority
            <3>2. /\ b.kind = "bid" /\ b.bid \in Nat /\ b.target = target
                  /\ b.priority = Priority(b)
                BY BidsAssumption DEF Message, Priority
            <3>3. o.priority \in 0..(Word - 1)
                BY <3>1, PriorityPlace
            <3>4. b.priority \in 0..(Word - 1)
                BY <3>2, PriorityPlace
            <3>5. Honest(o) /\ Honest(b)
                BY <3>1, <3>2, <3>3, <3>4 DEF Honest, Messages, Message
            <3> QED
                BY <2>3, <3>5 DEF handleBackrunBid, IInv
        <2> QED
            BY <1>2, <2>1, <2>2, <2>3 DEF Next, IInv
    <1> QED
        BY <1>1, <1>2

LEMMA Always == Spec => []IInv
    BY InitIInv, NextIInv, PTL DEF Spec

LEMMA HonestPlace ==
    ASSUME NEW m, Honest(m)
    PROVE  /\ m.priority = Priority(m) /\ m.priority \in Nat /\ m.bid \in Nat
           /\ m.kind \in {"tob", "opp", "bid"}
           /\ m.kind = "tob" => m.priority >= TopOfBlockBit
           /\ m.kind # "tob" =>
                /\ m.target \in 0..(IdSpace * HashLow - 1)
                /\ Base(m.target) \in Nat
                /\ Base(m.target) <= m.priority
                /\ m.priority < Base(m.target) + IdUnit
                /\ m.priority < TopOfBlockBit
           /\ m.kind = "tob" => m.priority = TopOfBlockBit + MaskBid(m.bid)
           /\ m.kind = "opp" => m.priority = Base(m.target) + BidSpace
           /\ m.kind = "bid" => m.priority = Base(m.target) + MaskBid(m.bid)
    <1>1. /\ m.kind \in {"tob", "opp", "bid"} /\ m.priority = Priority(m)
          /\ m.kind # "tob" => m.target \in Targets
        BY DEF Honest, Messages
    <1>2. m.bid \in Nat
        <2>1. m.bid \in BidAmounts \/ m.bid = 0
            BY DEF Honest, Messages
        <2>2. \A b \in BidAmounts : b \in Nat
            BY BidsAssumption
        <2> QED
            BY <2>1, <2>2
    <1>3. m.priority \in Nat
        <2>1. m.priority \in 0..(Word - 1) /\ Word \in Nat
            BY Units DEF Honest, Messages
        <2> QED
            BY <2>1
    <1>4. m.kind # "tob" => /\ m.target \in 0..(IdSpace * HashLow - 1)
                            /\ Base(m.target) \in Nat
        BY <1>1, BaseType, TargetsAssumption
    <1> QED
        BY <1>1, <1>2, <1>3, <1>4, PriorityPlace

-----------------------------------------------------------------------------
(* The priorities fit their word.                                          *)
THEOREM PrioritiesTypeCorrect == Spec => []TypeOK
    <1>1. IInv => TypeOK
        BY DEF IInv, TypeOK, Honest, Messages
    <1> QED
        BY <1>1, Always, PTL

(* Top-of-block bids are above everything else the sidecar streams.        *)
THEOREM TopOfBlockIsFirst == Spec => []TopOfBlockFirst
    <1>1. IInv => TopOfBlockFirst
        BY HonestPlace, Units DEF IInv, TopOfBlockFirst, Above
    <1> QED
        BY <1>1, Always, PTL

(* An opportunity is above all the bids behind it.                         *)
THEOREM OpportunityIsFirst == Spec => []OpportunityFirst
    <1>1. IInv => OpportunityFirst
        BY HonestPlace, MaskType, Units DEF IInv, OpportunityFirst, Above
    <1> QED
        BY <1>1, Always, PTL

(* The groups of two opportunities with different ids do not interleave.   *)
THEOREM GroupsAreContiguous == Spec => []GroupsContiguous
    <1>1. ASSUME NEW m, NEW n, Honest(m), Honest(n), m.kind # "tob", n.kind # "tob",
                 Group(m) < Group(n)
          PROVE  m.priority < n.priority
        BY <1>1, HonestPlace, BaseOrder, Units DEF Group
    <1>2. ASSUME IInv, NEW m \in received, NEW n \in received, NEW o \in received,
                 "tob" \notin {m.kind, n.kind, o.kind}, Group(m) = Group(o),
                 Above(m, n), Above(n, o)
          PROVE  Group(n) = Group(m)
        <2>1. Honest(m) /\ Honest(n) /\ Honest(o)
            BY <1>2 DEF IInv
        <2>2. Group(m) \in Nat /\ Group(n) \in Nat
            BY <1>2, <2>1, HonestPlace, IdType DEF Group
        <2>3. ~(Group(m) < Group(n))
            BY <1>1, <1>2, <2>1, HonestPlace DEF Above
        <2>4. ~(Group(n) < Group(o))
            BY <1>1, <1>2, <2>1, HonestPlace DEF Above
        <2> QED
            BY <1>2, <2>2, <2>3, <2>4
    <1>3. IInv => GroupsContiguous
        BY <1>2 DEF GroupsContiguous
    <1> QED
        BY <1>3, Always, PTL

(* The higher of two bids that fit the field is above the other.           *)
THEOREM HigherBidIsFirst == Spec => []HigherBidFirst
    <1>1. ASSUME IInv, NEW m \in received, NEW n \in received,
                 m.kind = n.kind, m.kind # "opp", m.target = n.target,
                 n.bid < m.bid, m.bid < BidSpace
          PROVE  Above(m, n)
        <2>1. Honest(m) /\ Honest(n) /\ m.bid \in Nat /\ n.bid \in Nat
            BY <1>1, HonestPlace DEF IInv
        <2>2. MaskBid(m.bid) = m.bid /\ MaskBid(n.bid) = n.bid
            BY <1>1, <2>1, MaskType, Units
        <2>3. CASE m.kind = "tob"
            BY <1>1, <2>1, <2>2, <2>3, HonestPlace, Units DEF Above
        <2>4. CASE m.kind = "bid"
            <3>1. Base(m.target) = Base(n.target) /\ Base(m.target) \in Nat
                BY <1>1, <2>1, <2>4, HonestPlace
            <3>2. /\ m.priority = Base(m.target) + m.bid
                  /\ n.priority = Base(n.target) + n.bid
                BY <1>1, <2>1, <2>2, <2>4, HonestPlace
            <3> QED
                BY <1>1, <2>1, <3>1, <3>2 DEF Above
        <2> QED
            BY <1>1, <2>1, <2>3, <2>4, HonestPlace
    <1>2. IInv => HigherBidFirst
        BY <1>1 DEF HigherBidFirst
    <1> QED
        BY <1>2, Always, PTL

-----------------------------------------------------------------------------
(* Reading a field: shifts are quotients and masks remainders.             *)

LEMMA Field ==
    ASSUME NEW q \in Nat, NEW r \in Nat, NEW d \in Nat \ {0}, r < d
    PROVE  (q * d + r) \div d = q /\ (q * d + r) % d = r
    <1> DEFINE x == q * d + r
               y == x \div d
               z == x % d
    <1>1. q * d \in Nat /\ x \in Nat
        OBVIOUS
    <1>2. y \in Nat /\ z \in Nat /\ z < d /\ x = y * d + z /\ y * d \in Nat
        BY <1>1
    <1>3. CASE y < q
        <2>1. y * d + d <= q * d
            BY <1>2, <1>3, Multiples
        <2> HIDE DEF y, z
        <2> QED
            BY <1>1, <1>2, <2>1
    <1>4. CASE q < y
        <2>1. q * d + d <= y * d
            BY <1>2, <1>4, Multiples
        <2> HIDE DEF y, z
        <2> QED
            BY <1>1, <1>2, <2>1
    <1>5. CASE y = q
        <2>1. z = r
            <3> HIDE DEF y, z
            <3> QED
                BY <1>1, <1>2, <1>5
        <2> QED
            BY <1>5, <2>1
    <1> QED
        BY <1>2, <1>3, <1>4, <1>5

(* The fields of each kind of priority.                                    *)
LEMMA ReadTOB ==
    ASSUME NEW b \in 0..(BidSpace - 1)
    PROVE  /\ (TopOfBlockBit + b) \div TopOfBlockBit = 1
           /\ (TopOfBlockBit + b) % BidSpace = b
    <1>1. b \in Nat /\ b < BidSpace /\ b < TopOfBlockBit
        BY Units
    <1>2. TopOfBlockBit + b = 1 * TopOfBlockBit + b
        BY Units
    <1>3. TopOfBlockBit + b = (2 * IdSpace) * BidSpace + b
        BY WidthAssumption DEF TopOfBlockBit, IdUnit
    <1>4. TopOfBlockBit \in Nat \ {0} /\ 2 * IdSpace \in Nat
        BY Units, WidthAssumption
    <1>5. (1 * TopOfBlockBit + b) \div TopOfBlockBit = 1
        BY <1>1, <1>4, Field
    <1>6. ((2 * IdSpace) * BidSpace + b) % BidSpace = b
        BY <1>1, <1>4, Field, WidthAssumption
    <1> QED
        BY <1>2, <1>3, <1>5, <1>6

LEMMA ReadGroup ==
    ASSUME NEW id \in Nat, NEW b \in Nat, b < IdUnit, id * IdUnit + b < TopOfBlockBit
    PROVE  /\ (id * IdUnit + b) \div TopOfBlockBit = 0
           /\ (id * IdUnit + b) \div IdUnit = id
    <1> DEFINE x == id * IdUnit + b
    <1>1. x \in Nat /\ x = 0 * TopOfBlockBit + x
        BY Units
    <1>2. x \div TopOfBlockBit = 0
        <2> HIDE DEF x
        <2>1. x < TopOfBlockBit
            BY DEF x
        <2> QED
            BY <1>1, <2>1, Units, Field
    <1> QED
        BY <1>2, Units, Field

LEMMA ReadOpportunity ==
    ASSUME NEW id \in Nat
    PROVE  ((id * IdUnit + BidSpace) \div BidSpace) % 2 = 1
    <1>1. id * IdUnit + BidSpace = (2 * id + 1) * BidSpace + 0
        BY WidthAssumption DEF IdUnit
    <1>2. ((2 * id + 1) * BidSpace + 0) \div BidSpace = 2 * id + 1
        BY Field, WidthAssumption
    <1> QED
        BY <1>1, <1>2

LEMMA ReadBid ==
    ASSUME NEW id \in Nat, NEW b \in 0..(BidSpace - 1)
    PROVE  /\ ((id * IdUnit + b) \div BidSpace) % 2 = 0
           /\ (id * IdUnit + b) % BidSpace = b
    <1>1. id * IdUnit + b = (2 * id) * BidSpace + b
        BY WidthAssumption DEF IdUnit
    <1>2. /\ ((2 * id) * BidSpace + b) \div BidSpace = 2 * id
          /\ ((2 * id) * BidSpace + b) % BidSpace = b
        BY Field, WidthAssumption
    <1> QED
        BY <1>1, <1>2

(* FormatReadsBack: whatever the widths, amounts and targets, the fields   *)
(* that FormatPriority shows are those the calculators wrote.              *)
THEOREM FormatIsInverse == Spec => []FormatReadsBack
    <1>1. ASSUME IInv, NEW m \in received
          PROVE  FormatPriority(m.priority) =
                   [kind |-> m.kind,
                    id   |-> IF m.kind = "tob" THEN 0 ELSE Group(m),
                    bid  |-> IF m.kind = "opp" THEN 0 ELSE MaskBid(m.bid)]
        <2>1. Honest(m) /\ m.bid \in Nat
            BY <1>1, HonestPlace DEF IInv
        <2>2. MaskBid(m.bid) \in 0..(BidSpace - 1)
            BY <2>1, MaskType, WidthAssumption
        <2>3. CASE m.kind = "tob"
            BY <2>1, <2>2, <2>3, HonestPlace, ReadTOB DEF FormatPriority
        <2>4. ASSUME m.kind # "tob"
              PROVE  /\ Group(m) \in Nat /\ Base(m.target) = Group(m) * IdUnit
                     /\ m.priority < TopOfBlockBit
            BY <2>1, <2>4, HonestPlace, IdType DEF Group, Base
        <2>5. CASE m.kind = "opp"
            <3>1. m.priority = Group(m) * IdUnit + BidSpace /\ BidSpace < IdUnit
                BY <2>1, <2>4, <2>5, HonestPlace, Units
            <3>2. /\ m.priority \div TopOfBlockBit = 0
                  /\ m.priority \div IdUnit = Group(m)
                BY <2>4, <2>5, <3>1, ReadGroup, Units
            <3>3. (m.priority \div BidSpace) % 2 = 1
                BY <2>4, <2>5, <3>1, ReadOpportunity
            <3> QED
                BY <2>5, <3>2, <3>3 DEF FormatPriority
        <2>6. CASE m.kind = "bid"
            <3>1. /\ m.priority = Group(m) * IdUnit + MaskBid(m.bid)
                  /\ MaskBid(m.bid) \in Nat /\ MaskBid(m.bid) < IdUnit
                BY <2>1, <2>2, <2>4, <2>6, HonestPlace, Units
            <3>2. /\ m.priority \div TopOfBlockBit = 0
                  /\ m.priority \div IdUnit = Group(m)
                BY <2>4, <2>6, <3>1, ReadGroup
            <3>3. /\ (m.priority \div BidSpace) % 2 = 0
                  /\ m.priority % BidSpace = MaskBid(m.bid)
                BY <2>2, <2>4, <2>6, <3>1, ReadBid
            <3> QED
                BY <2>6, <3>2, <3>3 DEF FormatPriority
        <2> QED
            BY <2>1, <2>3, <2>5, <2>6, HonestPlace
    <1>2. IInv => FormatReadsBack
        BY <1>1 DEF FormatReadsBack
    <1> QED
        BY <1>2, Always, PTL
=============================================================================
