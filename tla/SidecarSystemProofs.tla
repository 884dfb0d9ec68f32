------------------------- MODULE SidecarSystemProofs -------------------------
(***************************************************************************)
(* What holds of the processor and the client joined, for any number of    *)
(* connections, faults and sends.  Each of the two sees of the system what *)
(* its own specification allows, so that every theorem about TxPoolClient  *)
(* and Streamer is one about the system; the joining keeps nobody waiting; *)
(* and Close leaves no write behind that it could have freed.              *)
(***************************************************************************)
EXTENDS SidecarSystem, TLAPS

-----------------------------------------------------------------------------
(* The processor's half.                                                   *)

LEMMA StepOfStreamer ==
    ASSUME [Next]_vars
    PROVE  [P!Next]_<<at, stopper # "ready">>
    <1> USE DEF client
    <1>1. CASE UNCHANGED vars
        BY <1>1 DEF vars
    <1>2. CASE TakeEvent \/ Finish \/ ProcessorEnds \/ Call \/ SendRefused
        BY <1>2 DEF TakeEvent, Finish, ProcessorEnds, Call, SendRefused, P!Next
    <1>3. CASE SendStarts \/ WriteLength
        BY <1>3 DEF SendStarts, WriteLength, C!SendStarts, C!WriteLength
    <1>4. CASE LoadConn \/ WriteData \/ SendReturnsError
        BY <1>4 DEF LoadConn, WriteData, SendReturnsError, C!LoadConn, C!WriteData,
           C!SenderTriggers, P!Next
    <1>5. CASE WriteFails
        BY <1>5 DEF WriteFails, C!WriteFails, C!SenderDisconnects, C!SenderForgets
    <1>6. CASE reconnectionLoop
        BY <1>6 DEF reconnectionLoop, C!reconnectionLoop, C!LoopSignalled, C!CloseOld,
           C!DialSucceeds, C!DialFails, C!Retry, C!Install, C!Publish, C!Spawn, C!LoopStops
    <1>7. ASSUME NEW k \in Conns, readEvents(k) \/ ReaderSeesCancel(k)
          PROVE  UNCHANGED <<at, stopper>>
        BY <1>7 DEF readEvents, ReaderSeesCancel, C!readEvents, C!ReaderSeesCancel,
           C!readSnapshot, C!ReadFails, C!ReaderDisconnects, C!ReaderTriggers
    <1>8. CASE Stop
        BY <1>8 DEF Stop, C!Cancel, P!Next
    <1>9. CASE Close
        BY <1>9 DEF Close, C!Close
    <1>10. CASE Peer
        BY <1>10 DEF Peer, C!Peer, C!PeerCloses, C!PeerGoesDown, C!PeerComesUp, C!BadSnapshot
    <1> QED
        BY <1>1, <1>2, <1>3, <1>4, <1>5, <1>6, <1>7, <1>8, <1>9, <1>10 DEF Next

(* The system implements Streamer, with Stop's cancellation as its own.    *)
THEOREM SystemImplementsStreamer == Spec => P!Spec
    <1>1. Init => P!Init
        BY DEF Init, P!Init, C!Init
    <1> QED
        BY <1>1, StepOfStreamer, PTL DEF Spec, P!Spec

-----------------------------------------------------------------------------
(* The client's half.                                                      *)

LEMMA StepOfClient ==
    ASSUME [Next]_vars
    PROVE  [C!Next]_C!vars
    <1>1. CASE UNCHANGED vars
        BY <1>1 DEF vars, client, C!vars, C!client, C!peer
    <1>2. CASE TakeEvent \/ Finish \/ ProcessorEnds \/ Call \/ SendRefused
        BY <1>2 DEF TakeEvent, Finish, ProcessorEnds, Call, SendRefused, client,
           C!vars, C!client, C!peer
    <1>3. CASE SendStarts \/ LoadConn \/ WriteLength \/ WriteData \/ WriteFails
               \/ SendReturnsError
        BY <1>3 DEF SendStarts, LoadConn, WriteLength, WriteData, WriteFails,
           SendReturnsError, C!Next, C!SendInProgress
    <1>4. CASE reconnectionLoop \/ Stop \/ Close \/ Peer
        BY <1>4 DEF reconnectionLoop, Stop, Close, Peer, C!Next
    <1>5. ASSUME NEW k \in Conns, readEvents(k) \/ ReaderSeesCancel(k)
          PROVE  C!Next
        BY <1>5 DEF readEvents, ReaderSeesCancel, C!Next
    <1> QED
        BY <1>1, <1>2, <1>3, <1>4, <1>5 DEF Next

(* The system implements TxPoolClient: a caller that waits for its call    *)
(* gives the client no step that it does not take alone.                   *)
THEOREM SystemImplementsClient == Spec => C!Spec
    <1>1. Init => C!Init
        BY DEF Init
    <1> QED
        BY <1>1, StepOfClient, PTL DEF Spec, C!Spec

-----------------------------------------------------------------------------
(* Types, and that the client is sending only while the processor waits.   *)

Connection == Conns \cup {None}

Typed ==
    /\ conn \in Connection /\ connected \in BOOLEAN
    /\ loop \in [at : C!LoopPC, conn : Connection]
    /\ loop.at \in {"install", "publish", "spawn"} => loop.conn \in Conns
    /\ sender \in [at : C!SenderPC, conn : Connection]
    /\ sender.at \in {"length", "data"} => sender.conn \in Conns
    /\ link \in [Conns -> C!LinkStates]
    /\ stopper \in {"ready", "cancelled", "done"}

(* The client is at work on a send only while the processor waits for it,  *)
(* so that the return of a send never has to wait for the processor.       *)
CallsInStep == sender.at # "idle" => at = "send"

(* A write to an open connection is to the installed one, and after Close  *)
(* that can only be open if the loop was dialling it while Close ran.      *)
WriteInv ==
    /\ loop.at \in {"dial", "wait", "install"} => conn = None
    /\ C!WritesToInstalled
    /\ stopper = "done" /\ conn # None /\ link[conn] = "open" => late

SystemInv == Typed /\ CallsInStep /\ WriteInv

(* Once Close has run, the only write that a silent peer can still hold is *)
(* one to a connection that was installed after it.                        *)
CloseFrees == stopper = "done" /\ Held => late

LEMMA InitSystem == Init => SystemInv
    <1> SUFFICES ASSUME Init PROVE SystemInv
        OBVIOUS
    <1>1. /\ conn = None /\ connected = FALSE /\ stopper = "ready"
          /\ loop = [at |-> "select", conn |-> None]
          /\ sender = [at |-> "idle", conn |-> None]
          /\ link = [k \in Conns |-> "closed"]
        BY DEF Init, C!Init
    <1>2. Typed
        <2>1. None \in Connection /\ "select" \in C!LoopPC /\ "idle" \in C!SenderPC
            BY DEF Connection, C!LoopPC, C!SenderPC
        <2>2. loop \in [at : C!LoopPC, conn : Connection]
              /\ sender \in [at : C!SenderPC, conn : Connection]
            BY <1>1, <2>1
        <2>3. link \in [Conns -> C!LinkStates]
            BY <1>1 DEF C!LinkStates
        <2> QED
            BY <1>1, <2>1, <2>2, <2>3 DEF Typed
    <1>3. CallsInStep /\ WriteInv
        BY <1>1 DEF CallsInStep, WriteInv, C!WritesToInstalled
    <1> QED
        BY <1>2, <1>3 DEF SystemInv

LEMMA LoopSystem ==
    ASSUME SystemInv, reconnectionLoop
    PROVE  SystemInv'
    <1> USE ClientAssumption DEF SystemInv, Typed, Connection, CallsInStep, WriteInv,
            C!WritesToInstalled, C!LoopPC, C!LinkStates, C!client, C!peer, reconnectionLoop
    <1>1. CASE C!LoopSignalled
        BY <1>1 DEF C!LoopSignalled, C!LoopGoto
    <1>2. CASE C!CloseOld
        BY <1>2 DEF C!CloseOld, C!CloseLink, C!LoopGoto
    <1>3. CASE C!DialSucceeds
        BY <1>3 DEF C!DialSucceeds, C!Garbage
    <1>4. CASE C!DialFails \/ C!Retry \/ C!LoopStops
        BY <1>4 DEF C!DialFails, C!Retry, C!LoopStops, C!LoopGoto
    <1>5. CASE C!Install
        BY <1>5 DEF C!Install, C!LoopGoto
    <1>6. CASE C!Publish
        BY <1>6 DEF C!Publish, C!LoopGoto
    <1>7. CASE C!Spawn
        BY <1>7 DEF C!Spawn, C!ReaderGoto
    <1> QED
        BY <1>1, <1>2, <1>3, <1>4, <1>5, <1>6, <1>7 DEF C!reconnectionLoop

LEMMA SenderSystem ==
    ASSUME SystemInv,
           SendStarts \/ LoadConn \/ WriteLength \/ WriteData \/ WriteFails
               \/ SendReturnsError
    PROVE  SystemInv'
    <1> USE ClientAssumption DEF SystemInv, Typed, Connection, CallsInStep, WriteInv,
            C!WritesToInstalled, C!SenderPC, C!SenderGoto, C!client, C!peer
    <1>1. CASE SendStarts
        BY <1>1 DEF SendStarts, C!SendStarts
    <1>2. CASE LoadConn
        BY <1>2 DEF LoadConn, C!LoadConn, P!Return
    <1>3. CASE WriteLength \/ WriteData
        BY <1>3 DEF WriteLength, WriteData, C!WriteLength, C!WriteData
    <1>4. CASE WriteFails
        BY <1>4 DEF WriteFails, C!WriteFails, C!SenderDisconnects, C!SenderForgets
    <1>5. CASE SendReturnsError
        BY <1>5 DEF SendReturnsError, C!SenderTriggers
    <1> QED
        BY <1>1, <1>2, <1>3, <1>4, <1>5

(* The processor takes no step of its own while a call is under way.       *)
LEMMA ProcessorSystem ==
    ASSUME SystemInv, TakeEvent \/ Finish \/ ProcessorEnds \/ Call \/ SendRefused
    PROVE  SystemInv'
    BY DEF SystemInv, Typed, CallsInStep, WriteInv, C!WritesToInstalled, client,
       TakeEvent, Finish, ProcessorEnds, Call, SendRefused,
       P!Take, P!Finish, P!End, P!Call, P!Return

(* What opens no connection and leaves the writer, the loop and Close      *)
(* where they are, or lets Close close the installed one.                  *)
LEMMA OthersSystem ==
    ASSUME SystemInv, UNCHANGED <<conn, loop, sender, at, late>>,
           connected' \in BOOLEAN, link' \in [Conns -> C!LinkStates],
           \A k \in Conns : link'[k] = "open" => link[k] = "open",
           \/ stopper' = stopper
           \/ stopper' = "cancelled"
           \/ stopper' = "done" /\ \A k \in Conns : link'[k] = "open" => k # conn
    PROVE  SystemInv'
    BY ClientAssumption DEF SystemInv, Typed, Connection, CallsInStep, WriteInv,
       C!WritesToInstalled

LEMMA NextSystem == SystemInv /\ [Next]_vars => SystemInv'
    <1> SUFFICES ASSUME SystemInv, [Next]_vars PROVE SystemInv'
        OBVIOUS
    <1> USE DEF C!client, C!peer
    <1>1. CASE UNCHANGED vars
        BY <1>1 DEF vars, client, SystemInv, Typed, CallsInStep, WriteInv,
           C!WritesToInstalled
    <1>2. ASSUME NEW k \in Conns, readEvents(k) \/ ReaderSeesCancel(k)
          PROVE  SystemInv'
        BY <1>2, OthersSystem DEF readEvents, ReaderSeesCancel, C!readEvents,
           C!ReaderSeesCancel, C!readSnapshot, C!ReadFails, C!ReaderDisconnects,
           C!ReaderTriggers, SystemInv, Typed
    <1>3. CASE Stop
        BY <1>3, OthersSystem DEF Stop, C!Cancel, P!Cancel, SystemInv, Typed
    <1>4. CASE Close
        BY <1>4, OthersSystem DEF Close, C!Close, C!CloseLink, C!LinkStates,
           SystemInv, Typed
    <1>5. CASE Peer
        BY <1>5, OthersSystem DEF Peer, C!Peer, C!PeerCloses, C!PeerGoesDown,
           C!PeerComesUp, C!BadSnapshot, C!LinkStates, SystemInv, Typed
    <1> QED
        BY <1>1, <1>2, <1>3, <1>4, <1>5, LoopSystem, SenderSystem, ProcessorSystem
           DEF Next

(* CallsInStep: sends of the client happen within calls of the processor.  *)
THEOREM SendsHappenInCalls == Spec => []CallsInStep
    BY InitSystem, NextSystem, PTL DEF Spec, SystemInv

(* CloseFrees: what StopCompletes says of the end of the process rests on  *)
(* this; a write under way when Stop is called is to the installed         *)
(* connection or to none that is open, wherever the loop stands.           *)
THEOREM CloseFreesEveryWrite == Spec => []CloseFrees
    <1>1. SystemInv => CloseFrees
        BY ClientAssumption DEF SystemInv, Typed, WriteInv, C!WritesToInstalled,
           CloseFrees, Held
    <1> QED
        BY <1>1, InitSystem, NextSystem, PTL DEF Spec
=============================================================================
