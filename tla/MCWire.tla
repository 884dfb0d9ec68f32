------------------------------- MODULE MCWire -------------------------------
EXTENDS Wire

(* Transactions as they come: a list of no, two or fourteen bytes, so that *)
(* requests have short and long headers and fill both sides of each limit. *)
Tx(n) == encodeRLPListHeader(n) \o [i \in 1..n |-> i % 2]

WireTransactions == {<<7>>, <<7, 1>>}

(* Every kind of event, every reason of a drop and some newer ones, and a  *)
(* transaction that go-ethereum does not take.                             *)
WireEvents ==
    [hash : {<<1, 2>>}, action : {"insert"}, tx : {<<>>, <<7>>, <<7, 1>>}, reason : {0}]
    \cup [hash : {<<1, 2>>}, action : {"drop"}, tx : {<<>>}, reason : 0..11]
    \cup [hash : {<<1, 2>>}, action : {"evict"}, tx : {<<>>}, reason : {0, 1}]
    \cup [hash : {<<2, 0>>}, action : {"commit", "newer"}, tx : {<<>>}, reason : {0}]

Few == {e \in WireEvents : e.reason \in {0, 6, 10} /\ e.tx # <<>> => e.tx = <<7>>}

Vectors ==
    [events : {<<e>> : e \in WireEvents} \cup {<<e, f>> : e, f \in Few},
     missing : {0}]
    \cup [events : {<<e>> : e \in WireEvents} \cup {<<e, f>> : e, f \in {g \in Few : g.action = "drop"}},
          missing : 1..6]

Commit == [events |-> <<[hash |-> <<2, 0>>, action |-> "commit", tx |-> <<>>,
                         reason |-> 0]>>, missing |-> 0]

Snapshot(n, missing) == [hashes |-> n, missing |-> missing]

(* A vector and a plain one after it, or only that one after a snapshot of *)
(* any kind; and requests of all sizes.                                    *)
WireScripts ==
    [snapshot : {Snapshot(1, 0)}, vectors : {<<v, Commit>> : v \in Vectors},
     requests : {<<>>}]
    \cup [snapshot : {Snapshot(0, 0), Snapshot(2, 0), Snapshot(2, 1)},
          vectors : {<<Commit>>}, requests : {<<>>}]
    \cup [snapshot : {Snapshot(0, 0)}, vectors : {<<>>},
          requests : {<<[tx |-> Tx(n), priority |-> p, extra |-> <<>>],
                        [tx |-> Tx(0), priority |-> q, extra |-> x]>> :
                        n \in {0, 1, 2, 12, 14, 16}, p \in {0, 5, 6, 255},
                        q \in {0, 16}, x \in {<<>>, <<3>>, <<9>>, <<1, 2>>}}]
=============================================================================
