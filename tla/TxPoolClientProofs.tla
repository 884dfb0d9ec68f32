------------------------- MODULE TxPoolClientProofs -------------------------
(***************************************************************************)
(* No reconnection is lost, whatever the number of connections, faults and *)
(* sends.                                                                  *)
(***************************************************************************)
EXTENDS TxPoolClient, TLAPS

(* Somebody other than the loop will signal it, or already has.            *)
OthersPending ==
    \/ signal
    \/ sender.at \in {"fail1", "fail2", "fail3"}
    \/ \E k \in Conns : reader[k] \in {"exit", "trigger"}

(* How far the loop has come towards a healthy connection, unless somebody *)
(* has undone it and will signal: it installs, then publishes, then reads. *)
LoopInv ==
    /\ loop.conn # None => reader[loop.conn] = "none"
    /\ loop.at = "publish" => OthersPending \/ conn = loop.conn
    /\ loop.at = "spawn" => OthersPending \/ (conn = loop.conn /\ connected)
    /\ loop.at = "select" => OthersPending \/ Healthy

IInv == TypeOK /\ LoopInv

LEMMA InitIInv == Init => IInv
    <1> SUFFICES ASSUME Init PROVE IInv
        OBVIOUS
    <1>1. reader \in [Conns -> ReaderPC] /\ link \in [Conns -> LinkStates]
        BY DEF Init, ReaderPC, LinkStates
    <1>2. faults \in 0..MaxFaults /\ sends \in 0..MaxSends
        BY BoundsAssumption DEF Init
    <1>3. LoopInv
        BY DEF Init, LoopInv, OthersPending
    <1> QED
        BY <1>1, <1>2, <1>3, NoneAssumption DEF Init, IInv, TypeOK, LoopPC, SenderPC

LEMMA LoopTypeOK ==
    ASSUME TypeOK, reconnectionLoop
    PROVE  TypeOK'
    <1> USE NoneAssumption DEF TypeOK, LoopPC, ReaderPC, LinkStates, client, peer
    <1>1. CASE LoopSignalled
        BY <1>1 DEF LoopSignalled, LoopGoto
    <1>2. CASE CloseOld
        BY <1>2 DEF CloseOld, CloseLink, LoopGoto
    <1>3. CASE DialSucceeds
        BY <1>3 DEF DialSucceeds
    <1>4. CASE DialFails
        BY <1>4 DEF DialFails, LoopGoto
    <1>5. CASE Retry
        BY <1>5 DEF Retry, LoopGoto
    <1>6. CASE Install
        BY <1>6 DEF Install, LoopGoto
    <1>7. CASE Publish
        BY <1>7 DEF Publish, LoopGoto
    <1>8. CASE Spawn
        BY <1>8 DEF Spawn, ReaderGoto
    <1>9. CASE LoopStops
        BY <1>9 DEF LoopStops, LoopGoto
    <1> QED
        BY <1>1, <1>2, <1>3, <1>4, <1>5, <1>6, <1>7, <1>8, <1>9 DEF reconnectionLoop

LEMMA ReaderTypeOK ==
    ASSUME TypeOK, NEW k \in Conns,
           readEvents(k) \/ ReaderSeesCancel(k) \/ BadSnapshot(k)
    PROVE  TypeOK'
    <1> USE DEF TypeOK, ReaderPC, ReaderGoto, client, peer
    <1>1. CASE readEvents(k)
        BY <1>1 DEF readEvents, readSnapshot, ReadFails, ReaderDisconnects,
                    ReaderTriggers
    <1>2. CASE ReaderSeesCancel(k)
        BY <1>2 DEF ReaderSeesCancel
    <1>3. CASE BadSnapshot(k)
        BY <1>3, BoundsAssumption DEF BadSnapshot, PeerFault
    <1> QED
        BY <1>1, <1>2, <1>3

LEMMA SenderTypeOK ==
    ASSUME TypeOK, SendStarts \/ SendInProgress
    PROVE  TypeOK'
    <1> USE NoneAssumption, BoundsAssumption DEF TypeOK, SenderPC, SenderGoto, client, peer
    <1>1. CASE SendStarts
        BY <1>1 DEF SendStarts
    <1>2. CASE LoadConn
        BY <1>2 DEF LoadConn
    <1>3. CASE WriteLength \/ WriteData \/ WriteFails
        BY <1>3 DEF WriteLength, WriteData, WriteFails
    <1>4. CASE SenderDisconnects
        BY <1>4 DEF SenderDisconnects
    <1>5. CASE SenderForgets
        BY <1>5 DEF SenderForgets
    <1>6. CASE SenderTriggers
        BY <1>6 DEF SenderTriggers
    <1> QED
        BY <1>1, <1>2, <1>3, <1>4, <1>5, <1>6 DEF SendInProgress

LEMMA OthersTypeOK ==
    ASSUME TypeOK, Cancel \/ Close \/ PeerCloses \/ PeerGoesDown \/ PeerComesUp
    PROVE  TypeOK'
    <1> USE BoundsAssumption DEF TypeOK, LinkStates, client, peer
    <1>1. CASE Cancel
        BY <1>1 DEF Cancel
    <1>2. CASE Close
        BY <1>2 DEF Close, CloseLink
    <1>3. CASE PeerCloses
        BY <1>3 DEF PeerCloses, PeerFault
    <1>4. CASE PeerGoesDown
        <2>1. link' \in [Conns -> LinkStates]
            BY <1>4 DEF PeerGoesDown
        <2>2. faults' \in 0..MaxFaults
            BY <1>4 DEF PeerGoesDown, PeerFault
        <2> QED
            BY <1>4, <2>1, <2>2 DEF PeerGoesDown
    <1>5. CASE PeerComesUp
        BY <1>5 DEF PeerComesUp
    <1> QED
        BY <1>1, <1>2, <1>3, <1>4, <1>5

LEMMA NextTypeOK == TypeOK /\ [Next]_vars => TypeOK'
    <1> SUFFICES ASSUME TypeOK, [Next]_vars PROVE TypeOK'
        OBVIOUS
    <1>1. CASE UNCHANGED vars
        BY <1>1 DEF vars, client, peer, TypeOK
    <1> QED
        BY <1>1, LoopTypeOK, ReaderTypeOK, SenderTypeOK, OthersTypeOK DEF Next, Peer

-----------------------------------------------------------------------------
LEMMA LoopLoopInv ==
    ASSUME IInv, reconnectionLoop
    PROVE  LoopInv'
    <1> USE NoneAssumption DEF IInv, TypeOK, LoopInv, OthersPending, client
    <1>1. CASE LoopSignalled
        BY <1>1 DEF LoopSignalled, LoopGoto
    <1>2. CASE CloseOld
        BY <1>2 DEF CloseOld, LoopGoto
    <1>3. CASE DialSucceeds
        BY <1>3 DEF DialSucceeds, Garbage
    <1>4. CASE DialFails
        BY <1>4 DEF DialFails, LoopGoto
    <1>5. CASE Retry
        BY <1>5 DEF Retry, LoopGoto
    <1>6. CASE Install
        BY <1>6 DEF Install, LoopGoto
    <1>7. CASE Publish
        BY <1>7 DEF Publish, LoopGoto
    <1>8. CASE Spawn
        <2>1. /\ loop.conn \in Conns
              /\ reader' = [reader EXCEPT ![loop.conn] = "snapshot"]
              /\ loop'.at = "select" /\ loop'.conn = None
              /\ UNCHANGED <<conn, connected, signal, sender>>
            BY <1>8 DEF Spawn, ReaderGoto
        <2>2. reader[loop.conn] = "none"
            BY <2>1
        <2>3. CASE OthersPending
            BY <2>1, <2>2, <2>3
        <2>4. CASE ~OthersPending
            <3>1. conn = loop.conn /\ connected
                BY <1>8, <2>4 DEF Spawn
            <3> QED
                BY <2>1, <3>1 DEF Healthy, Live
        <2> QED
            BY <2>3, <2>4
    <1>9. CASE LoopStops
        BY <1>9 DEF LoopStops, LoopGoto
    <1> QED
        BY <1>1, <1>2, <1>3, <1>4, <1>5, <1>6, <1>7, <1>8, <1>9 DEF reconnectionLoop

(* A step of a reader leaves the loop alone; its failure is pending.       *)
LEMMA ReaderLoopInv ==
    ASSUME IInv, NEW k \in Conns,
           readEvents(k) \/ ReaderSeesCancel(k) \/ BadSnapshot(k)
    PROVE  LoopInv'
    <1> USE DEF IInv, TypeOK, LoopInv, ReaderGoto, client
    <1>1. CASE ReadFails(k) \/ ReaderSeesCancel(k) \/ BadSnapshot(k)
        <2>1. OthersPending'
            BY <1>1 DEF ReadFails, ReaderSeesCancel, BadSnapshot, OthersPending
        <2> QED
            BY <1>1, <2>1 DEF ReadFails, ReaderSeesCancel, BadSnapshot, Live
    <1>2. CASE ReaderDisconnects(k)
        <2>1. OthersPending'
            BY <1>2 DEF ReaderDisconnects, OthersPending
        <2> QED
            BY <1>2, <2>1 DEF ReaderDisconnects
    <1>3. CASE ReaderTriggers(k)
        BY <1>3 DEF ReaderTriggers, OthersPending
    <1>4. CASE readSnapshot(k)
        BY <1>4 DEF readSnapshot, OthersPending, Healthy, Live
    <1> QED
        BY <1>1, <1>2, <1>3, <1>4 DEF readEvents

LEMMA SenderLoopInv ==
    ASSUME IInv, SendStarts \/ SendInProgress
    PROVE  LoopInv'
    <1> USE DEF IInv, TypeOK, LoopInv, SenderGoto, client
    <1>1. CASE SendStarts
        BY <1>1 DEF SendStarts, OthersPending, Healthy, Live
    <1>2. CASE LoadConn
        BY <1>2 DEF LoadConn, OthersPending, Healthy, Live
    <1>3. CASE WriteLength \/ WriteData
        BY <1>3 DEF WriteLength, WriteData, OthersPending, Healthy, Live
    <1>4. CASE WriteFails \/ SenderDisconnects \/ SenderForgets \/ SenderTriggers
        BY <1>4 DEF WriteFails, SenderDisconnects, SenderForgets, SenderTriggers,
                    OthersPending
    <1> QED
        BY <1>1, <1>2, <1>3, <1>4 DEF SendInProgress

LEMMA NextIInv == IInv /\ [Next]_vars => IInv'
    <1> SUFFICES ASSUME IInv, [Next]_vars PROVE IInv'
        OBVIOUS
    <1>1. TypeOK'
        BY NextTypeOK DEF IInv
    <1>2. CASE UNCHANGED <<client, loop, reader, sender>>
        BY <1>1, <1>2 DEF IInv, LoopInv, OthersPending, Healthy, Live, client
    <1>3. CASE Cancel \/ Close \/ PeerCloses \/ PeerGoesDown \/ PeerComesUp \/ UNCHANGED vars
        BY <1>2, <1>3 DEF Cancel, Close, PeerCloses, PeerGoesDown, PeerComesUp, vars
    <1> QED
        BY <1>1, <1>3, LoopLoopInv, ReaderLoopInv, SenderLoopInv DEF Next, Peer, IInv

(* The state keeps its types and the two local connections their owners.   *)
THEOREM ClientTypeCorrect == Spec => []TypeOK
    BY InitIInv, NextIInv, PTL DEF Spec, IInv

(* A failure is never lost between the goroutines of the client.           *)
THEOREM ReconnectNeverLost == Spec => []NoLostReconnect
    <1>1. IInv => NoLostReconnect
        BY DEF IInv, TypeOK, LoopInv, OthersPending, NoLostReconnect, Pending, LoopPC
    <1> QED
        BY <1>1, InitIInv, NextIInv, PTL DEF Spec

-----------------------------------------------------------------------------
(* From the closing of the old connection to the next one none is there.   *)
WriteInv ==
    /\ loop.at \in {"dial", "wait", "install"} => conn = None
    /\ WritesToInstalled

LEMMA LoopWriteInv ==
    ASSUME TypeOK, WriteInv, reconnectionLoop
    PROVE  WriteInv'
    <1> USE NoneAssumption DEF TypeOK, WriteInv, WritesToInstalled, client
    <1>1. CASE LoopSignalled
        BY <1>1 DEF LoopSignalled, LoopGoto
    <1>2. CASE CloseOld
        BY <1>2 DEF CloseOld, CloseLink, LoopGoto
    <1>3. CASE DialSucceeds
        BY <1>3 DEF DialSucceeds, Garbage
    <1>4. CASE DialFails
        BY <1>4 DEF DialFails, LoopGoto
    <1>5. CASE Retry
        BY <1>5 DEF Retry, LoopGoto
    <1>6. CASE Install
        BY <1>6 DEF Install, LoopGoto
    <1>7. CASE Publish
        BY <1>7 DEF Publish, LoopGoto
    <1>8. CASE Spawn
        BY <1>8 DEF Spawn, ReaderGoto
    <1>9. CASE LoopStops
        BY <1>9 DEF LoopStops, LoopGoto
    <1> QED
        BY <1>1, <1>2, <1>3, <1>4, <1>5, <1>6, <1>7, <1>8, <1>9 DEF reconnectionLoop

LEMMA SenderWriteInv ==
    ASSUME TypeOK, WriteInv, SendStarts \/ SendInProgress
    PROVE  WriteInv'
    <1> USE NoneAssumption DEF TypeOK, WriteInv, WritesToInstalled, SenderGoto, client
    <1>1. CASE SendStarts \/ LoadConn
        BY <1>1 DEF SendStarts, LoadConn
    <1>2. CASE WriteLength \/ WriteData \/ WriteFails
        BY <1>2 DEF WriteLength, WriteData, WriteFails
    <1>3. CASE SenderDisconnects \/ SenderForgets \/ SenderTriggers
        BY <1>3 DEF SenderDisconnects, SenderForgets, SenderTriggers
    <1> QED
        BY <1>1, <1>2, <1>3 DEF SendInProgress

(* Nothing else changes the connections that are written to but to close   *)
(* them.                                                                   *)
LEMMA OthersWriteInv ==
    ASSUME TypeOK, WriteInv, UNCHANGED <<conn, sender, loop>>,
           \A k \in Conns : link'[k] = "open" => link[k] = "open"
    PROVE  WriteInv'
    BY DEF TypeOK, WriteInv, WritesToInstalled

LEMMA NextWriteInv == TypeOK /\ WriteInv /\ [Next]_vars => WriteInv'
    <1> SUFFICES ASSUME TypeOK, WriteInv, [Next]_vars PROVE WriteInv'
        OBVIOUS
    <1>1. ASSUME NEW k \in Conns, readEvents(k) \/ ReaderSeesCancel(k) \/ BadSnapshot(k)
          PROVE  WriteInv'
        BY <1>1, OthersWriteInv DEF readEvents, readSnapshot, ReadFails, ReaderDisconnects,
                ReaderTriggers, ReaderSeesCancel, BadSnapshot, client
    <1>2. CASE Cancel \/ Close \/ PeerComesUp \/ UNCHANGED vars
        BY <1>2, OthersWriteInv DEF Cancel, Close, CloseLink, PeerComesUp, client, vars
    <1>3. CASE PeerCloses \/ PeerGoesDown
        BY <1>3, OthersWriteInv DEF PeerCloses, PeerGoesDown, TypeOK, client
    <1> QED
        BY <1>1, <1>2, <1>3, LoopWriteInv, SenderWriteInv DEF Next, Peer

(* Only the installed connection is ever written to while it is open, so   *)
(* that closing it frees every write.                                      *)
THEOREM OnlyInstalledWritten == Spec => []WritesToInstalled
    <1>1. Init => WriteInv
        BY DEF Init, WriteInv, WritesToInstalled
    <1>2. WriteInv => WritesToInstalled
        BY DEF WriteInv
    <1> QED
        BY <1>1, <1>2, NextWriteInv, ClientTypeCorrect, PTL DEF Spec
=============================================================================
