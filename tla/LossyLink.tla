----------------------------- MODULE LossyLink -----------------------------
(***************************************************************************)
(* What the sidecar may rely on when it handles the events of the txpool:  *)
(* what reaches the event processor over one connection was written to     *)
(* that connection, and arrives in the order of writing and at most once.  *)
(* Any event may be missing.  Nothing is promised between connections.     *)
(* The events of a connection are numbered from 1.                         *)
(***************************************************************************)
EXTENDS Naturals

CONSTANT Conns   \* connections of a behaviour

VARIABLES
    sent,        \* how many events were written to each connection
    received     \* those that the processor has received from it

Init ==
    /\ sent = [k \in Conns |-> 0]
    /\ received = [k \in Conns |-> {}]

Send(k) ==
    /\ sent'[k] \in Nat /\ sent'[k] > sent[k]
    /\ sent' = [sent EXCEPT ![k] = sent'[k]]
    /\ UNCHANGED received

Receive(k) ==
    /\ \E n \in 1..sent[k] :
         /\ \A m \in received[k] : m < n
         /\ received' = [received EXCEPT ![k] = @ \cup {n}]
    /\ UNCHANGED sent

Next == \E k \in Conns : Send(k) \/ Receive(k)

Spec == Init /\ [][Next]_<<sent, received>>
=============================================================================
