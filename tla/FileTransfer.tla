---------------------------- MODULE FileTransfer ----------------------------
(***************************************************************************)
(* A sending and a receiving FileTransferSession joined by connections.    *)
(* What one side sends on a connection (stx, rtx) is what the other side's *)
(* read loop takes from it, in order: TCP and the strict frame sequence of *)
(* the encrypted channel allow no loss or reordering inside a connection.  *)
(* A connection may break at any moment; each side notices when its read   *)
(* loop does, and what was not read by then is lost.                       *)
(***************************************************************************)
EXTENDS TransferSender, TransferReceiver

CONSTANTS
    MaxBreaks,          \* how often connections break
    MaxCrashes,         \* how often the receiving program stops
    MaxLocks,           \* how often the sender's vault is locked
    HonoursOffset       \* has FALSE: senders from before resume_offset existed

VARIABLES
    broken,     \* connections whose transport has died
    breaks, crashes, locks

net == <<broken, breaks, crashes, locks>>
vars == <<svars, rvars, net>>

Init ==
    /\ SInit
    /\ RInit
    /\ broken = [c \in Conns |-> FALSE]
    /\ breaks = 0
    /\ crashes = 0
    /\ locks = 0

-----------------------------------------------------------------------------
(* A read loop takes the oldest frame.                                     *)

ReceiverReads(c) ==
    /\ stx[c] # <<>>
    /\ stx' = [stx EXCEPT ![c] = Tail(@)]
    /\ LET m == Head(stx[c]) IN
       \/ m.type = "offer" /\ HandleOffer(c, m.t, m.ver)
       \/ m.type = "data" /\ \/ UnknownTransfer(c, m.t)
                             \/ WriteChunk(c, m.t, m.off, m.len, m.ver)
                             \/ AbortIncoming(c, m.t, m.off, m.len)
       \/ m.type = "done" /\ (UnknownTransfer(c, m.t) \/ HandleDone(c, m.t))
       \/ m.type = "error" /\ HandleReceiverError(c, m.t, m.terminal)
    /\ UNCHANGED <<file, out, outgoing, task, gen, sNotes, sUp, sReported, net>>

SenderReads(c) ==
    /\ rtx[c] # <<>>
    /\ rtx' = [rtx EXCEPT ![c] = Tail(@)]
    /\ LET m == Head(rtx[c]) IN
       \/ /\ m.type = "accept"
          /\ \E honours \in HonoursOffset :
                HandleAccept(c, m.t, IF honours THEN m.off ELSE 0)
       \/ m.type = "reject" /\ HandleReject(c, m.t)
       \/ m.type = "ack" /\ HandleCompleteAck(c, m.t, m.ok)
       \/ m.type = "error" /\ HandleSenderError(c, m.t, m.terminal)
    /\ UNCHANGED <<disk, inc, incoming, loop, rNotes, rUp, rReported, net>>

-----------------------------------------------------------------------------
(* Steps of one side.                                                      *)

Offer(c, t) == OfferBegin(c, t) /\ UNCHANGED <<rvars, net>>

\* A send() fails only on a connection that died; on one that was closed
\* under it, drain() may also return normally.
SenderTask(t) ==
    /\ \/ StreamStart(t)
       \/ \E timeout \in BOOLEAN : AckEnd(t, timeout)
       \/ \E ok \in BOOLEAN :
            /\ ok \/ broken[out[t].conn]
            /\ OfferEnd(t, ok) \/ DataEnd(t, ok) \/ DoneEnd(t, ok)
    /\ UNCHANGED <<rvars, net>>

Answer(c) ==
    /\ Accept(c) \/ AcceptFails(c) \/ Decline(c)
    /\ UNCHANGED <<svars, net>>

Publish(c) == Finish(c) /\ UNCHANGED <<svars, net>>

Edit(v) == EditFile(v) /\ UNCHANGED <<rvars, net>>

Age(n) == GrowOld(n) /\ UNCHANGED <<svars, net>>

Lock ==
    /\ locks < MaxLocks
    /\ locks' = locks + 1
    /\ CancelTransfers
    /\ UNCHANGED <<rvars, broken, breaks, crashes>>

-----------------------------------------------------------------------------
(* Connections and crashes.                                                *)

Break(c) ==
    /\ breaks < MaxBreaks
    /\ ~broken[c]
    /\ broken' = [broken EXCEPT ![c] = TRUE]
    /\ breaks' = breaks + 1
    /\ UNCHANGED <<svars, rvars, crashes, locks>>

SenderNotices(c) ==
    /\ broken[c]
    /\ SenderConnectionLost(c)
    /\ UNCHANGED <<rvars, net>>

ReceiverNotices(c) ==
    /\ broken[c]
    /\ ReceiverConnectionLost(c)
    /\ UNCHANGED <<svars, net>>

\* A new connection under the same key, once both read loops have ended and
\* no send() of the old connection is still suspended.
Reconnect(c) ==
    /\ broken[c]
    /\ \A t \in Transfers :
          out[t].conn = c => task[t] \notin {"offer", "data", "done"}
    /\ ~sUp[c]
    /\ ~rUp[c]
    /\ sUp' = [sUp EXCEPT ![c] = TRUE]
    /\ stx' = [stx EXCEPT ![c] = <<>>]
    /\ ReceiverReconnect(c)
    /\ broken' = [broken EXCEPT ![c] = FALSE]
    /\ UNCHANGED <<file, out, outgoing, task, gen, sNotes, sReported, breaks,
                   crashes, locks>>

Crash(k, zeroed) ==
    /\ crashes < MaxCrashes
    /\ crashes' = crashes + 1
    /\ CrashAndRestart(k, zeroed)
    /\ broken' = [c \in Conns |-> TRUE]
    /\ UNCHANGED <<svars, breaks, locks>>

Next ==
    \/ \E c \in Conns, t \in Transfers : Offer(c, t)
    \/ \E t \in Transfers : SenderTask(t)
    \/ \E c \in Conns :
          \/ ReceiverReads(c) \/ SenderReads(c) \/ Answer(c) \/ Publish(c)
          \/ Break(c) \/ SenderNotices(c) \/ ReceiverNotices(c)
          \/ Reconnect(c)
    \/ \E k \in Offsets, zeroed \in BOOLEAN : Crash(k, zeroed)
    \/ \E v \in Edits : Edit(v)
    \/ \E n \in Names : Age(n)
    \/ Lock

\* The event loop runs every coroutine that is ready, TCP delivers or breaks,
\* a broken connection is noticed, the ack wait has a timeout and the user
\* answers a prompt.  Nothing makes a user offer, lock or reconnect.
Fairness ==
    /\ \A t \in Transfers : WF_vars(SenderTask(t))
    /\ \A c \in Conns :
          /\ WF_vars(ReceiverReads(c)) /\ WF_vars(SenderReads(c))
          /\ WF_vars(Answer(c)) /\ WF_vars(Publish(c))
          /\ WF_vars(SenderNotices(c)) /\ WF_vars(ReceiverNotices(c))

Spec == Init /\ [][Next]_vars
FairSpec == Spec /\ Fairness

-----------------------------------------------------------------------------
(* Properties.                                                             *)

\* How the transfer looks to its users: the receiver's check from the read
\* loop that waits for its ack to be sent, the directory from the bytes under
\* final names, the verdict from the state of the outgoing transfer.
Check(t) ==
    IF inc[t].st = "COMPLETED" THEN "placed"
    ELSE IF \E c \in Conns : loop[c].pc = "verified" /\ loop[c].t = t /\ loop[c].ok
    THEN "whole" ELSE "none"

Placed(n) ==
    IF dest[n] = None THEN 0
    ELSE CHOOSE v \in Vers \cup {-1} :
            IF \E w \in Vers : ino[dest[n]].data = Content(w)
            THEN v \in Vers /\ ino[dest[n]].data = Content(v)
            ELSE v = -1

Told(t) ==
    CASE out[t].st = "COMPLETED" -> "completed"
      [] out[t].st = "REJECTED"  -> "rejected"
      [] out[t].st = "FAILED"    -> "failed"
      [] OTHER                   -> "none"

Promise == INSTANCE Delivery WITH
    Nothing <- 0,
    offered <- [t \in Transfers |-> out[t].ver],
    check   <- [t \in Transfers |-> Check(t)],
    files   <- [n \in Names |-> Placed(n)],
    verdict <- [t \in Transfers |-> Told(t)]

\* Offer, resume, chunks, acks, timeouts, failed writes, edits of the file and
\* vault locks together still look like Delivery: a file appears whole, once,
\* under a name that was free, and the sender is told one outcome, completed
\* only after the receiver has checked the whole content (all of session.py).
ImplementsDelivery == Promise!Spec

\* A sender that streams an unchanged file is never refused by the receiver:
\* whatever breaks and crashes came before, the offset the receiver asks for,
\* the chunks that follow and the bytes already on disk fit together, so no
\* transfer ends as out of order, oversized or with a checksum mismatch
\* (resume_offset_for, _handle_accept, read_chunks, restart detection).
HonestStreamFits ==
    \A t \in Transfers :
        \A i \in 1 .. Len(rNotes[t]) :
            rNotes[t][i] \notin {"aborted", "checksum_mismatch"}

\* Every accepted transfer is resolved for the sender: no lost ack, broken
\* connection or dead receiver leaves _send_chunks() waiting (the ack timeout
\* and handle_connection_lost).
SendingEnds ==
    \A t \in Transfers :
        out[t].st \in {"SENDING", "WAITING_FOR_COMPLETE_ACK"} ~>
            out[t].st \in Terminal

\* Every transfer the receiver accepted leaves _incoming, so the file name it
\* keeps busy is free again (_handle_done, _abort_incoming, _fail_incoming,
\* handle_connection_lost).
IncomingEnds ==
    \A t \in Transfers : t \in incoming ~> t \notin incoming
=============================================================================
