--------------------------- MODULE SidecarSystem ---------------------------
(***************************************************************************)
(* The event processor over the IPC client: Streamer, which Sidecar        *)
(* implements, joined with TxPoolClient where the code joins them: the     *)
(* processor is the one caller of SendTxWithPriorityRLP and waits for it,  *)
(* and Stop cancels the context they share and closes the installed        *)
(* connection.                                                             *)
(*                                                                         *)
(* Writes have no deadline: a peer that does not read holds them, so no    *)
(* write to an open connection is taken to end.                            *)
(***************************************************************************)
EXTENDS Naturals

CONSTANTS Conns, None, MaxFaults, MaxSends   \* of TxPoolClient

ASSUME ClientAssumption == None \notin Conns /\ MaxFaults \in Nat /\ MaxSends \in Nat

VARIABLES
    at,    \* the processor
    conn, connected, signal, loop, reader, sender, link, up, stopper,
    faults, sends,
    late   \* a connection was installed after Close had run

(* One context serves both: cancelled is cancelled.                        *)
P == INSTANCE Streamer WITH cancelled <- stopper # "ready"
C == INSTANCE TxPoolClient

client == <<conn, connected, signal, loop, reader, sender, link, up,
            stopper, faults, sends>>
vars == <<at, client, late>>

Init == C!Init /\ P!Init /\ late = FALSE

-----------------------------------------------------------------------------
(* Events wait in eventChan, so that one may come when no reader runs.     *)
TakeEvent == UNCHANGED <<client, late>> /\ P!Take

Finish == UNCHANGED <<client, late>> /\ P!Finish

ProcessorEnds == UNCHANGED <<client, late>> /\ P!End

-----------------------------------------------------------------------------
(* streamTransaction calls SendTxWithPriorityRLP and waits for it.         *)

Call == sends < MaxSends /\ UNCHANGED <<client, late>> /\ P!Call

SendRefused ==
    /\ sender.at = "idle" /\ ~connected
    /\ UNCHANGED <<client, late>>
    /\ P!Return

SendStarts == at = "send" /\ C!SendStarts /\ UNCHANGED <<at, late>>

LoadConn ==
    /\ C!LoadConn
    /\ IF conn = None THEN P!Return ELSE UNCHANGED at
    /\ UNCHANGED late

WriteLength == C!WriteLength /\ UNCHANGED <<at, late>>

WriteData == C!WriteData /\ P!Return /\ UNCHANGED late

WriteFails ==
    /\ C!WriteFails \/ C!SenderDisconnects \/ C!SenderForgets
    /\ UNCHANGED <<at, late>>

(* Mutant: triggerReconnect without its default waits for the loop.        *)
SendReturnsErrorBlocks == ~signal /\ C!SenderTriggers /\ P!Return /\ UNCHANGED late

SendReturnsError == C!SenderTriggers /\ P!Return /\ UNCHANGED late

-----------------------------------------------------------------------------
(* The client's own goroutines, Stop and the peer.                         *)

reconnectionLoop ==
    /\ C!reconnectionLoop
    /\ late' = (late \/ (loop.at = "install" /\ stopper = "done"))
    /\ UNCHANGED at

readEvents(k) == C!readEvents(k) /\ UNCHANGED <<at, late>>

ReaderSeesCancel(k) == C!ReaderSeesCancel(k) /\ UNCHANGED <<at, late>>

Stop == C!Cancel /\ P!Cancel /\ UNCHANGED late

(* Mutant: forgets the connection instead of closing it.                   *)
CloseForgets ==
    /\ stopper = "cancelled"
    /\ stopper' = "done"
    /\ conn' = None
    /\ UNCHANGED <<connected, signal, loop, reader, sender, link, up,
                   faults, sends, at, late>>

Close == C!Close /\ UNCHANGED <<at, late>>

Peer == C!Peer /\ UNCHANGED <<at, late>>

Next ==
    \/ TakeEvent \/ Finish \/ ProcessorEnds
    \/ Call \/ SendRefused \/ SendStarts \/ LoadConn
    \/ WriteLength \/ WriteData \/ WriteFails \/ SendReturnsError
    \/ reconnectionLoop \/ \E k \in Conns : readEvents(k) \/ ReaderSeesCancel(k)
    \/ Stop \/ Close \/ Peer

Spec == Init /\ [][Next]_vars

(* What the processor does without the peer: all but its two writes.       *)
ProcessorRuns ==
    \/ Finish \/ ProcessorEnds \/ Call \/ SendRefused \/ SendStarts \/ LoadConn
    \/ WriteFails \/ SendReturnsError

(* The processor runs when it can, its handlers end (Sidecar), and it does *)
(* not pass over a cancelled context for ever; Stop, once called, goes on. *)
(* Nothing is assumed of the peer and of the client's own goroutines.      *)
Fairness ==
    /\ WF_vars(ProcessorRuns) /\ SF_vars(Finish) /\ SF_vars(ProcessorEnds)
    /\ WF_vars(Close)

FairSpec == Spec /\ Fairness

-----------------------------------------------------------------------------
(* A write to an open connection, which only the peer can end.             *)
Held == sender.at \in {"length", "data"} /\ link[sender.conn] = "open"

(* A call that sends a transaction returns, however often the connection   *)
(* is lost, forgotten or replaced meanwhile, unless the peer leaves a      *)
(* write waiting on an open connection for ever.                           *)
SendReturns == at = "send" ~> (at # "send" \/ []Held)

(* Close frees a processor that a write holds: after Stop the processor    *)
(* ends, and with it the process, whatever the peer, the loop and the      *)
(* readers do.  Only a connection that the loop was dialling while Close   *)
(* ran can hold it, for nobody closes that one.                            *)
StopCompletes == stopper # "ready" ~> (at = "done" \/ [](Held /\ late))
=============================================================================
