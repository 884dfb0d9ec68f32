------------------------------ MODULE Streamer ------------------------------
(***************************************************************************)
(* What the IPC client sees of the event processor: a caller that now and  *)
(* then is at work on an event, calls SendTxWithPriorityRLP and waits for  *)
(* it, and ends between two events once the context is cancelled.          *)
(***************************************************************************)

VARIABLES
    at,        \* between events, at work on one, in a call, ended
    cancelled  \* the context is cancelled

Init == at = "select" /\ cancelled = FALSE

Take ==
    /\ at = "select" /\ at' = "working"
    /\ UNCHANGED cancelled

Call ==
    /\ at = "working" /\ at' = "send"
    /\ UNCHANGED cancelled

(* With the call the handler may be over.                                  *)
Return ==
    /\ at = "send" /\ at' \in {"working", "select"}
    /\ UNCHANGED cancelled

Finish ==
    /\ at = "working" /\ at' = "select"
    /\ UNCHANGED cancelled

End ==
    /\ at = "select" /\ cancelled /\ at' = "done"
    /\ UNCHANGED cancelled

Cancel == cancelled' = TRUE /\ UNCHANGED at

Next == Take \/ Call \/ Return \/ Finish \/ End \/ Cancel

Spec == Init /\ [][Next]_<<at, cancelled>>
=============================================================================
