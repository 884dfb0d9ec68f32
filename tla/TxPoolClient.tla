---------------------------- MODULE TxPoolClient ----------------------------
(***************************************************************************)
(* internal/ipc/txpool_client.go: how the client keeps its one connection  *)
(* to the txpool, with the goroutines that share it:                       *)
(*                                                                         *)
(*   loop     reconnectionLoop: waits for a signal, closes the installed   *)
(*            connection, dials until it has a new one, installs it and    *)
(*            starts its reader;                                           *)
(*   reader   readEvents, one per connection: its end clears connected and *)
(*            signals the loop;                                            *)
(*   sender   SendTxWithPriorityRLP, called by the event processor: a      *)
(*            failed write forgets the connection and signals the loop;    *)
(*   stopper  Sidecar.Stop: cancels the context, then calls Close.         *)
(*                                                                         *)
(* Every atomic operation and lock region is one action.  A connection is  *)
(* an element of Conns; one that nothing refers to any more is garbage and *)
(* its name is dialled again, so that a behaviour may reconnect for ever.  *)
(* The peer (the txpool) is outside src/: it closes connections, goes      *)
(* down, comes back and may send a snapshot that does not decode.  Frames  *)
(* are left out: here a reader only blocks, fails or ends.                 *)
(***************************************************************************)
EXTENDS Naturals, FiniteSets

CONSTANTS
    Conns,      \* connections that may exist at one time
    None,       \* c.conn = nil
    MaxFaults,  \* bound: faults of the peer in a behaviour
    MaxSends    \* bound: calls of SendTxWithPriorityRLP in a behaviour

ASSUME NoneAssumption == None \notin Conns
ASSUME BoundsAssumption == MaxFaults \in Nat /\ MaxSends \in Nat

VARIABLES
    conn,       \* c.conn
    connected,  \* c.connected
    signal,     \* whether reconnectChan, of capacity one, is full
    loop,       \* where reconnectionLoop is, and its local conn
    reader,     \* where readEvents of each connection is
    sender,     \* where SendTxWithPriorityRLP is, and its local conn
    link,       \* the state of each connection
    up,         \* the peer listens on the socket
    stopper,    \* where Sidecar.Stop is
    faults,     \* faults of the peer so far
    sends       \* sends started so far

client == <<conn, connected, signal>>
peer == <<up, faults>>
vars == <<client, loop, reader, sender, link, peer, stopper, sends>>

-----------------------------------------------------------------------------
LoopPC == {"select", "close", "dial", "wait", "install", "publish", "spawn", "done"}
ReaderPC == {"none", "snapshot", "events", "exit", "trigger"}
SenderPC == {"idle", "load", "length", "data", "fail1", "fail2", "fail3"}
LinkStates == {"open", "peerClosed", "closed"}

Cancelled == stopper # "ready"
Live(k) == reader[k] \in {"snapshot", "events"}

(* Nothing refers to the connection; its descriptor is finalized.          *)
Garbage(k) == reader[k] = "none" /\ k \notin {conn, loop.conn, sender.conn}

(* conn.Close(), of a connection or of nil.                                *)
CloseLink(k) == link' = [j \in Conns |-> IF j = k THEN "closed" ELSE link[j]]

LoopGoto(at) == loop' = [loop EXCEPT !.at = at]
ReaderGoto(k, at) == reader' = [reader EXCEPT ![k] = at]
SenderGoto(at) == sender' = [sender EXCEPT !.at = at]

(* NewTxPoolIPCClient starts the loop and signals it.                      *)
Init ==
    /\ conn = None
    /\ connected = FALSE
    /\ signal = TRUE
    /\ loop = [at |-> "select", conn |-> None]
    /\ reader = [k \in Conns |-> "none"]
    /\ sender = [at |-> "idle", conn |-> None]
    /\ link = [k \in Conns |-> "closed"]
    /\ up \in BOOLEAN
    /\ stopper = "ready"
    /\ faults = 0
    /\ sends = 0

-----------------------------------------------------------------------------
(* reconnectionLoop.                                                       *)

LoopSignalled ==
    /\ loop.at = "select" /\ signal
    /\ signal' = FALSE
    /\ LoopGoto("close")
    /\ UNCHANGED <<conn, connected, reader, sender, link, peer, stopper, sends>>

(* Mutant: replaces the old connection without closing it.                 *)
CloseOldForgets ==
    /\ loop.at = "close"
    /\ conn' = None
    /\ LoopGoto("dial")
    /\ UNCHANGED <<connected, signal, reader, sender, link, peer, stopper, sends>>

CloseOld ==
    /\ loop.at = "close"
    /\ CloseLink(conn)
    /\ conn' = None
    /\ LoopGoto("dial")
    /\ UNCHANGED <<connected, signal, reader, sender, peer, stopper, sends>>

DialSucceeds ==
    /\ loop.at = "dial" /\ up
    /\ \E k \in Conns :
         /\ Garbage(k)
         /\ link' = [link EXCEPT ![k] = "open"]
         /\ loop' = [at |-> "install", conn |-> k]
    /\ UNCHANGED <<client, reader, sender, peer, stopper, sends>>

(* A socket without a listener refuses; one with a listener may, too.      *)
DialFails ==
    /\ loop.at = "dial"
    /\ LoopGoto("wait")
    /\ UNCHANGED <<client, reader, sender, link, peer, stopper, sends>>

(* case <-time.After(backoff)                                              *)
Retry ==
    /\ loop.at = "wait"
    /\ LoopGoto("dial")
    /\ UNCHANGED <<client, reader, sender, link, peer, stopper, sends>>

Install ==
    /\ loop.at = "install"
    /\ conn' = loop.conn
    /\ LoopGoto("publish")
    /\ UNCHANGED <<connected, signal, reader, sender, link, peer, stopper, sends>>

Publish ==
    /\ loop.at = "publish"
    /\ connected' = TRUE
    /\ LoopGoto("spawn")
    /\ UNCHANGED <<conn, signal, reader, sender, link, peer, stopper, sends>>

(* Mutant: clears what looks like a stale signal once connected.           *)
SpawnDrainsSignal ==
    /\ loop.at = "spawn"
    /\ signal' = FALSE
    /\ ReaderGoto(loop.conn, "snapshot")
    /\ loop' = [at |-> "select", conn |-> None]
    /\ UNCHANGED <<conn, connected, sender, link, peer, stopper, sends>>

Spawn ==
    /\ loop.at = "spawn"
    /\ ReaderGoto(loop.conn, "snapshot")
    /\ loop' = [at |-> "select", conn |-> None]
    /\ UNCHANGED <<client, sender, link, peer, stopper, sends>>

(* Mutant: no context in the select of the backoff.                        *)
LoopStopsInSelect ==
    /\ loop.at = "select" /\ Cancelled
    /\ LoopGoto("done")
    /\ UNCHANGED <<client, reader, sender, link, peer, stopper, sends>>

(* case <-c.ctx.Done(), in both selects of the loop.                       *)
LoopStops ==
    /\ loop.at \in {"select", "wait"} /\ Cancelled
    /\ LoopGoto("done")
    /\ UNCHANGED <<client, reader, sender, link, peer, stopper, sends>>

reconnectionLoop ==
    \/ LoopSignalled \/ CloseOld \/ DialSucceeds \/ DialFails \/ Retry
    \/ Install \/ Publish \/ Spawn \/ LoopStops

-----------------------------------------------------------------------------
(* readEvents of connection k.                                             *)

readSnapshot(k) ==
    /\ reader[k] = "snapshot" /\ link[k] = "open"
    /\ ReaderGoto(k, "events")
    /\ UNCHANGED <<client, loop, sender, link, peer, stopper, sends>>

(* A read of a connection either end has closed.                           *)
ReadFails(k) ==
    /\ Live(k) /\ link[k] # "open"
    /\ ReaderGoto(k, "exit")
    /\ UNCHANGED <<client, loop, sender, link, peer, stopper, sends>>

(* Seen only between two messages.                                         *)
ReaderSeesCancel(k) ==
    /\ reader[k] = "events" /\ Cancelled
    /\ ReaderGoto(k, "exit")
    /\ UNCHANGED <<client, loop, sender, link, peer, stopper, sends>>

(* The deferred function, in its two steps.                                *)
ReaderDisconnects(k) ==
    /\ reader[k] = "exit"
    /\ connected' = FALSE
    /\ ReaderGoto(k, "trigger")
    /\ UNCHANGED <<conn, signal, loop, sender, link, peer, stopper, sends>>

(* Mutant: signals only a client that still counts as connected.           *)
ReaderTriggersIfConnected(k) ==
    /\ reader[k] = "trigger"
    /\ signal' = (signal \/ connected)
    /\ ReaderGoto(k, "none")
    /\ UNCHANGED <<conn, connected, loop, sender, link, peer, stopper, sends>>

ReaderTriggers(k) ==
    /\ reader[k] = "trigger"
    /\ signal' = TRUE
    /\ ReaderGoto(k, "none")
    /\ UNCHANGED <<conn, connected, loop, sender, link, peer, stopper, sends>>

readEvents(k) ==
    \/ readSnapshot(k) \/ ReadFails(k) \/ ReaderDisconnects(k) \/ ReaderTriggers(k)

-----------------------------------------------------------------------------
(* SendTxWithPriorityRLP.                                                  *)

(* connected.Load(); a call that finds it false has no effect.             *)
SendStarts ==
    /\ sender.at = "idle" /\ connected
    /\ sends < MaxSends
    /\ sends' = sends + 1
    /\ SenderGoto("load")
    /\ UNCHANGED <<client, loop, reader, link, peer, stopper>>

(* Mutant: trusts connected and skips the test for nil.                    *)
LoadConnUnchecked ==
    /\ sender.at = "load"
    /\ sender' = [at |-> "length", conn |-> conn]
    /\ UNCHANGED <<client, loop, reader, link, peer, stopper, sends>>

(* The encoding follows, whose error returns and changes nothing: left out. *)
LoadConn ==
    /\ sender.at = "load"
    /\ sender' = [at |-> IF conn = None THEN "idle" ELSE "length", conn |-> conn]
    /\ UNCHANGED <<client, loop, reader, link, peer, stopper, sends>>

WriteLength ==
    /\ sender.at = "length" /\ link[sender.conn] = "open"
    /\ SenderGoto("data")
    /\ UNCHANGED <<client, loop, reader, link, peer, stopper, sends>>

WriteData ==
    /\ sender.at = "data" /\ link[sender.conn] = "open"
    /\ sender' = [at |-> "idle", conn |-> None]
    /\ UNCHANGED <<client, loop, reader, link, peer, stopper, sends>>

WriteFails ==
    /\ sender.at \in {"length", "data"} /\ link[sender.conn] # "open"
    /\ SenderGoto("fail1")
    /\ UNCHANGED <<client, loop, reader, link, peer, stopper, sends>>

SenderDisconnects ==
    /\ sender.at = "fail1"
    /\ connected' = FALSE
    /\ SenderGoto("fail2")
    /\ UNCHANGED <<conn, signal, loop, reader, link, peer, stopper, sends>>

(* Whichever connection is installed by now is forgotten, not closed.      *)
SenderForgets ==
    /\ sender.at = "fail2"
    /\ conn' = None
    /\ SenderGoto("fail3")
    /\ UNCHANGED <<connected, signal, loop, reader, link, peer, stopper, sends>>

SenderTriggers ==
    /\ sender.at = "fail3"
    /\ signal' = TRUE
    /\ sender' = [at |-> "idle", conn |-> None]
    /\ UNCHANGED <<conn, connected, loop, reader, link, peer, stopper, sends>>

SendInProgress ==
    \/ LoadConn \/ WriteLength \/ WriteData \/ WriteFails
    \/ SenderDisconnects \/ SenderForgets \/ SenderTriggers

-----------------------------------------------------------------------------
(* Sidecar.Stop.                                                           *)

Cancel ==
    /\ stopper = "ready"
    /\ stopper' = "cancelled"
    /\ UNCHANGED <<client, loop, reader, sender, link, peer, sends>>

Close ==
    /\ stopper = "cancelled"
    /\ stopper' = "done"
    /\ CloseLink(conn)
    /\ UNCHANGED <<client, loop, reader, sender, peer, sends>>

-----------------------------------------------------------------------------
(* The peer.                                                               *)

PeerFault == faults < MaxFaults /\ faults' = faults + 1

PeerCloses ==
    /\ PeerFault
    /\ \E k \in Conns :
         /\ link[k] = "open"
         /\ link' = [link EXCEPT ![k] = "peerClosed"]
    /\ UNCHANGED <<client, loop, reader, sender, up, stopper, sends>>

PeerGoesDown ==
    /\ PeerFault
    /\ up /\ up' = FALSE
    /\ link' = [k \in Conns |-> IF link[k] = "open" THEN "peerClosed" ELSE link[k]]
    /\ UNCHANGED <<client, loop, reader, sender, stopper, sends>>

PeerComesUp ==
    /\ ~up /\ up' = TRUE
    /\ UNCHANGED <<client, loop, reader, sender, link, faults, stopper, sends>>

(* A snapshot that does not decode ends the reader of an open connection.  *)
BadSnapshot(k) ==
    /\ PeerFault
    /\ reader[k] = "snapshot" /\ link[k] = "open"
    /\ ReaderGoto(k, "exit")
    /\ UNCHANGED <<client, loop, sender, link, up, stopper, sends>>

Peer == PeerCloses \/ PeerGoesDown \/ PeerComesUp \/ \E k \in Conns : BadSnapshot(k)

-----------------------------------------------------------------------------
Next ==
    \/ reconnectionLoop
    \/ \E k \in Conns : readEvents(k) \/ ReaderSeesCancel(k)
    \/ SendStarts \/ SendInProgress
    \/ Cancel \/ Close
    \/ Peer

Spec == Init /\ [][Next]_vars

(* What reader and sender do without the peer: all but receive and write.  *)
ReaderRuns(k) == ReadFails(k) \/ ReaderDisconnects(k) \/ ReaderTriggers(k)
SenderRuns == LoadConn \/ WriteFails \/ SenderDisconnects \/ SenderForgets \/ SenderTriggers

(* Go runs a goroutine that can run; a select with two ready cases does    *)
(* not pass over the same one for ever.  Nothing is assumed of the peer:   *)
(* no snapshot need arrive, no dial succeed and no write end; nor need     *)
(* anyone send or cancel.                                                  *)
Fairness ==
    /\ WF_vars(reconnectionLoop)
    /\ SF_vars(LoopStops)
    /\ \A k \in Conns : WF_vars(ReaderRuns(k))
    /\ WF_vars(SenderRuns)
    /\ WF_vars(Close)

FairSpec == Spec /\ Fairness

-----------------------------------------------------------------------------
(* Types; the loop holds a connection of its own exactly between a dial    *)
(* and the start of its reader, and a sender one exactly while it writes.  *)
TypeOK ==
    /\ conn \in Conns \cup {None}
    /\ connected \in BOOLEAN
    /\ signal \in BOOLEAN
    /\ loop \in [at : LoopPC, conn : Conns \cup {None}]
    /\ loop.conn \in Conns <=> loop.at \in {"install", "publish", "spawn"}
    /\ reader \in [Conns -> ReaderPC]
    /\ sender \in [at : SenderPC, conn : Conns \cup {None}]
    /\ sender.at \in {"length", "data"} => sender.conn \in Conns
    /\ link \in [Conns -> LinkStates]
    /\ up \in BOOLEAN
    /\ stopper \in {"ready", "cancelled", "done"}
    /\ faults \in 0..MaxFaults
    /\ sends \in 0..MaxSends

(* Somebody is about to reconnect: the loop is at work or signalled, or a  *)
(* goroutine is between its failure and its signal.                        *)
Pending ==
    \/ signal
    \/ loop.at \notin {"select", "done"}
    \/ sender.at \in {"fail1", "fail2", "fail3"}
    \/ \E k \in Conns : reader[k] \in {"exit", "trigger"}

Healthy == connected /\ conn # None /\ Live(conn)

(* No failure is ever lost between the goroutines: while the loop has not  *)
(* ended and nobody is about to reconnect, the client has a connection,    *)
(* says so, and reads from it.  Signals are merged in a channel of one,    *)
(* connected is written by three goroutines and conn is forgotten by a     *)
(* sender that may be looking at an older connection.                      *)
NoLostReconnect == loop.at = "done" \/ Pending \/ Healthy

(* A sender writes to a connection that is still open only while that is   *)
(* the installed one: the loop closes a connection before it replaces it,  *)
(* and a sender that forgets one is not writing.  Hence Close, which knows *)
(* only the installed connection, frees every write.                       *)
WritesToInstalled ==
    sender.at \in {"length", "data"} /\ link[sender.conn] = "open"
        => sender.conn = conn

(* The peer comes to stay up, and a dial that can succeed again and again  *)
(* is not turned down for ever.                                            *)
PeerAnswers == <>[]up /\ SF_vars(DialSucceeds)

(* A client that is not connected becomes connected, if the peer is to be  *)
(* had in the end and nobody cancels.  A peer that comes and goes for ever *)
(* may be away at every dial, so that its coming up again and again is not *)
(* enough.                                                                 *)
Reconnects == PeerAnswers => (~connected ~> (connected \/ Cancelled))

(* After a cancellation the loop ends, whatever the peer does.             *)
LoopEnds == Cancelled ~> loop.at = "done"

-----------------------------------------------------------------------------
(* What the comments say and the code does not do.                         *)

(* "continuously tries to maintain connection to the txpool": when the     *)
(* faults, bounded here, are over and the peer stays up and answers, the   *)
(* connection stays.                                                       *)
Settles == PeerAnswers => <>[](connected \/ Cancelled)

(* "Close old connection if exists", before dialling: no earlier           *)
(* connection is open and being read once the next one is.                 *)
OneConnection ==
    loop.at \in {"install", "publish", "spawn"} =>
        \A k \in Conns : link[k] = "open" /\ Live(k) => k = loop.conn
=============================================================================
