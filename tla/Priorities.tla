----------------------------- MODULE Priorities -----------------------------
(***************************************************************************)
(* internal/priorities/calculator.go: the 256-bit priority under which a   *)
(* transaction is streamed, and the order it imposes on what the txpool    *)
(* has received from the sidecar.                                          *)
(*                                                                         *)
(*     bit 255        bits 254-129      bit 128        bits 127-0          *)
(*     top of block   backrun id        opportunity    bid amount          *)
(*                                                                         *)
(* The widths are parameters, given as the sizes of the fields: the code   *)
(* has BidSpace = 2^128, IdSpace = 2^126 and HashLow = 2^130, the part of  *)
(* a hash that the id leaves out.  Fields that are OR-ed into disjoint     *)
(* bits are added.                                                         *)
(***************************************************************************)
EXTENDS Integers, FiniteSets

CONSTANTS
    BidSpace,     \* number of bid amounts the bid field tells apart
    IdSpace,      \* number of backrun ids
    HashLow,      \* number of hashes with the same backrun id
    BidAmounts,   \* the bid amounts offered, wider than the field or not
    Targets,      \* the hashes of the opportunities
    MaxHandled,   \* bound: bids handled in a behaviour
    NoBid         \* a missing bid amount

ASSUME WidthAssumption ==
    /\ BidSpace \in Nat \ {0} /\ IdSpace \in Nat \ {0} /\ HashLow \in Nat \ {0}
ASSUME BidsAssumption == BidAmounts \subseteq Nat /\ NoBid \notin Nat
ASSUME TargetsAssumption == Targets \subseteq 0..(IdSpace * HashLow - 1)
ASSUME HandledAssumption == MaxHandled \in Nat

-----------------------------------------------------------------------------
IdUnit == 2 * BidSpace                \* the lowest bit of the id field
TopOfBlockBit == IdSpace * IdUnit     \* bit 255
Word == 2 * TopOfBlockBit             \* one past the largest priority

(* Mutant: the mask of half the field.                                     *)
MaskBidHalf(bidAmount) == bidAmount % (BidSpace \div 2)

MaskBid(bidAmount) == bidAmount % BidSpace

(* Mutant: the hash itself.                                                *)
WholeHash(txHash) == txHash

extractBackrunID(txHash) == txHash \div HashLow

(* Mutant: the marker one bit too low.                                     *)
CalculateTOBPriorityBit254(bidAmount) == TopOfBlockBit \div 2 + MaskBid(bidAmount)

CalculateTOBPriority(bidAmount) == TopOfBlockBit + MaskBid(bidAmount)

(* Mutant: no opportunity marker.                                          *)
CalculateOpportunityPriorityUnmarked(txHash) == extractBackrunID(txHash) * IdUnit

CalculateOpportunityPriority(txHash) ==
    extractBackrunID(txHash) * IdUnit + BidSpace

(* Mutant: no mask, so that a large bid spills into the id.                *)
CalculateBackrunPriorityUnmasked(bidAmount, oppTxHash) ==
    extractBackrunID(oppTxHash) * IdUnit + bidAmount

CalculateBackrunPriority(bidAmount, oppTxHash) ==
    extractBackrunID(oppTxHash) * IdUnit + MaskBid(bidAmount)

(* Mutant: the id read from bit 128 on.                                    *)
FormatPriorityShift128(priority) ==
    IF priority \div TopOfBlockBit = 1
    THEN [kind |-> "tob", id |-> 0, bid |-> priority % BidSpace]
    ELSE IF (priority \div BidSpace) % 2 = 1
    THEN [kind |-> "opp", id |-> priority \div BidSpace, bid |-> 0]
    ELSE [kind |-> "bid", id |-> priority \div BidSpace, bid |-> priority % BidSpace]

(* What FormatPriority says of a priority, field by field; its answer to   *)
(* nil, which no caller passes, is left out.                               *)
FormatPriority(priority) ==
    IF priority \div TopOfBlockBit = 1
    THEN [kind |-> "tob", id |-> 0, bid |-> priority % BidSpace]
    ELSE IF (priority \div BidSpace) % 2 = 1
    THEN [kind |-> "opp", id |-> priority \div IdUnit, bid |-> 0]
    ELSE [kind |-> "bid", id |-> priority \div IdUnit, bid |-> priority % BidSpace]

(* The comparison SortBackrunBidsByPriority hands to the sort: i before j. *)
BidBefore(i, j) == i # NoBid /\ (j = NoBid \/ i > j)

-----------------------------------------------------------------------------
VARIABLES
    received,  \* what the txpool has received, each with its priority
    handled    \* bids handled so far

vars == <<received, handled>>

Message(kind, bid, target, priority) ==
    [kind |-> kind, bid |-> bid, target |-> target, priority |-> priority]

Init == received = {} /\ handled = 0

handleTOBBid(bid) ==
    received' = received \cup {Message("tob", bid, 0, CalculateTOBPriority(bid))}

(* The opportunity and the bid; either send may fail.                      *)
handleBackrunBid(bid, target) ==
    \E sent \in SUBSET
         {Message("opp", 0, target, CalculateOpportunityPriority(target)),
          Message("bid", bid, target, CalculateBackrunPriority(bid, target))} :
       received' = received \cup sent

Next ==
    /\ handled < MaxHandled /\ handled' = handled + 1
    /\ \E bid \in BidAmounts :
         handleTOBBid(bid) \/ \E target \in Targets : handleBackrunBid(bid, target)

Spec == Init /\ [][Next]_vars

-----------------------------------------------------------------------------
(* Every priority is a word of the right width.                            *)
TypeOK ==
    /\ received \subseteq [kind : {"tob", "opp", "bid"}, bid : BidAmounts \cup {0},
                           target : Targets \cup {0}, priority : 0..(Word - 1)]
    /\ handled \in 0..MaxHandled

Above(m, n) == m.priority > n.priority
Group(m) == extractBackrunID(m.target)

(* No bid, however large its amount and whatever its target, reaches the   *)
(* top-of-block bids.                                                      *)
TopOfBlockFirst ==
    \A m, n \in received : m.kind = "tob" /\ n.kind # "tob" => Above(m, n)

(* An opportunity is above every bid behind it, whatever they offer.       *)
OpportunityFirst ==
    \A m, n \in received :
      m.kind = "opp" /\ n.kind = "bid" /\ m.target = n.target => Above(m, n)

(* Nothing comes between an opportunity and the bids behind it but what    *)
(* shares its backrun id: groups do not interleave.                        *)
GroupsContiguous ==
    \A m, n, o \in received :
      "tob" \notin {m.kind, n.kind, o.kind} /\ Group(m) = Group(o)
        /\ Above(m, n) /\ Above(n, o) => Group(n) = Group(m)

(* Among bids of one kind behind one target the higher amount comes first, *)
(* as long as both fit the field.                                          *)
HigherBidFirst ==
    \A m, n \in received :
      m.kind = n.kind /\ m.kind # "opp" /\ m.target = n.target
        /\ n.bid < m.bid /\ m.bid < BidSpace => Above(m, n)

(* FormatPriority reads back what the calculators wrote.                   *)
FormatReadsBack ==
    \A m \in received :
      FormatPriority(m.priority) =
        [kind |-> m.kind,
         id   |-> IF m.kind = "tob" THEN 0 ELSE Group(m),
         bid  |-> IF m.kind = "opp" THEN 0 ELSE MaskBid(m.bid)]
=============================================================================
