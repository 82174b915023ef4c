--------------------------- MODULE TransferSender ---------------------------
(***************************************************************************)
(* The sending half of FileTransferSession (core/transfer/session.py): the *)
(* offer_file() coroutine, one _send_chunks() task per accepted offer, and *)
(* the handlers the read loop calls for file_accept, file_reject,          *)
(* file_complete_ack, error and the loss of a connection.                  *)
(*                                                                         *)
(* The program is one asyncio event loop, so control moves between these   *)
(* coroutines only at an await.  Each await that can suspend is a value of *)
(* task[t], and every action runs from one await to the next.  A frame is  *)
(* on the wire (stx) when the await of its send() ends, because drain()    *)
(* releases the sender no later than the frame leaves the write buffer, so *)
(* nothing the peer answers to a frame can be read before that.            *)
(***************************************************************************)
EXTENDS TransferBase

CONSTANT Edits          \* what the user may turn the file into; 0: unreadable

ASSUME EditsAreVersions == Edits \subseteq Vers \cup {0}

VARIABLES
    file,       \* version of the offered file on disk; 0: it cannot be read
    out,        \* the OutgoingTransfer objects
    outgoing,   \* keys of _outgoing
    task,       \* await at which offer_file() or _send_chunks() is suspended
    gen,        \* chunk read_chunks() yielded last: offset, length, version
    sNotes,     \* TransferCompleted notifications posted for each transfer
    sUp,        \* connections the manager has registered
    stx,        \* frames sent on each connection, oldest first
    sReported   \* keys of _reported_errors

svars == <<file, out, outgoing, task, gen, sNotes, sUp, stx, sReported>>

Verdict == {"completed", "failed", "rejected"}

\* offer: send(offer); start: task created, not yet run; data: send_binary();
\* done: send(done); ack: wait for _ack_event.
TaskPoint == {"none", "offer", "start", "data", "done", "ack", "ended"}

Running == {"start", "data", "done", "ack"}

Offset == 0 .. (IF Vers = {} THEN 0 ELSE SizeOf[CHOOSE v \in Vers :
                    \A w \in Vers : SizeOf[w] <= SizeOf[v]])

SFrame ==
    [type : {"offer"}, t : Transfers, ver : Vers]
    \cup [type : {"data"}, t : Transfers, off : Nat, len : Nat, ver : Vers]
    \cup [type : {"done"}, t : Transfers]
    \cup [type : {"error"}, t : Transfers, terminal : BOOLEAN]

Outgoing == [st : OutgoingState, conn : Conns, ver : Vers, off : Nat,
             acked : BOOLEAN, success : BOOLEAN]

STypeOK ==
    /\ file \in Vers \cup {0}
    /\ out \in [Transfers -> Outgoing]
    /\ outgoing \in SUBSET Transfers
    /\ task \in [Transfers -> TaskPoint]
    /\ gen \in [Transfers -> [off : Nat, len : Nat, ver : Vers]]
    /\ sNotes \in [Transfers -> Seq(Verdict)]
    /\ sUp \in [Conns -> BOOLEAN]
    /\ stx \in [Conns -> Seq(SFrame)]
    /\ sReported \in SUBSET (Conns \X Transfers)

SInit ==
    /\ file \in Vers
    /\ out = [t \in Transfers |->
                [st |-> "NONE", conn |-> CHOOSE c \in Conns : TRUE,
                 ver |-> CHOOSE v \in Vers : TRUE, off |-> 0,
                 acked |-> FALSE, success |-> FALSE]]
    /\ outgoing = {}
    /\ task = [t \in Transfers |-> "none"]
    /\ gen = [t \in Transfers |->
                [off |-> 0, len |-> 0, ver |-> CHOOSE v \in Vers : TRUE]]
    /\ sNotes = [t \in Transfers |-> <<>>]
    /\ sUp = [c \in Conns |-> TRUE]
    /\ stx = [c \in Conns |-> <<>>]
    /\ sReported = {}

-----------------------------------------------------------------------------
(* Resolving a transfer.                                                   *)

CanMove(t, s) == s \in OutgoingTransitions[out[t].st]

\* The members of T that _fail_outgoing() resolves when called for each.
Failing(T) == {t \in T : CanMove(t, "FAILED")}

\* _fail_outgoing() for every transfer of T: FAILED, woken, notified.
FailOutgoing(T) ==
    /\ out' = [t \in Transfers |->
                IF t \in Failing(T)
                THEN [out[t] EXCEPT !.st = "FAILED", !.acked = TRUE,
                                    !.success = FALSE]
                ELSE out[t]]
    /\ sNotes' = [t \in Transfers |->
                IF t \in Failing(T) THEN Append(sNotes[t], "failed")
                ELSE sNotes[t]]

\* The finally clause of _send_chunks().
EndTask(t) ==
    /\ task' = [task EXCEPT ![t] = "ended"]
    /\ outgoing' = outgoing \ {t}

-----------------------------------------------------------------------------
(* offer_file()                                                            *)

\* Size and checksum are read, then send(offer) is awaited.
OfferBegin(c, t) ==
    /\ sUp[c]
    /\ file # 0
    /\ out[t].st = "NONE"
    /\ out' = [out EXCEPT ![t].st = "OFFERED", ![t].conn = c, ![t].ver = file]
    /\ task' = [task EXCEPT ![t] = "offer"]
    /\ UNCHANGED <<file, outgoing, gen, sNotes, sUp, stx, sReported>>

\* send(offer) returned.  Only now does the transfer enter _outgoing.
OfferEnd(t, ok) ==
    /\ task[t] = "offer"
    /\ IF ok
       THEN /\ Len(stx[out[t].conn]) < QueueCap
            /\ stx' = [stx EXCEPT ![out[t].conn] =
                        Append(@, [type |-> "offer", t |-> t,
                                   ver |-> out[t].ver])]
            /\ out' = [out EXCEPT ![t].st = "WAITING_FOR_ACCEPT"]
            /\ outgoing' = outgoing \cup {t}
       ELSE UNCHANGED <<stx, out, outgoing>>
    /\ task' = [task EXCEPT ![t] = IF ok THEN "none" ELSE "ended"]
    /\ UNCHANGED <<file, gen, sNotes, sUp, sReported>>

-----------------------------------------------------------------------------
(* _send_chunks()                                                          *)

\* One turn of the for loop, from offset o: read_chunks() reads before the
\* loop body looks at the state of the transfer.
NextChunk(t, o) ==
    \/ /\ file = 0
       /\ FailOutgoing({t})
       /\ EndTask(t)
       /\ UNCHANGED gen
    \/ /\ file # 0
       /\ out[t].st # "SENDING"
       /\ EndTask(t)
       /\ UNCHANGED <<out, sNotes, gen>>
    \/ /\ file # 0
       /\ out[t].st = "SENDING"
       /\ gen' = [gen EXCEPT ![t] =
                    [off |-> o, ver |-> file,
                     len |-> SmallerOf(ChunkSize,
                               IF o <= SizeOf[file] THEN SizeOf[file] - o ELSE 0)]]
       /\ task' = [task EXCEPT ![t] =
                    IF o < SizeOf[file] THEN "data" ELSE "done"]
       /\ UNCHANGED <<out, sNotes, outgoing>>

\* The task first runs.  A start offset beyond the file raises ValueError,
\* which only the finally clause sees.
StreamStart(t) ==
    /\ task[t] = "start"
    /\ IF file # 0 /\ out[t].off > SizeOf[file]
       THEN EndTask(t) /\ UNCHANGED <<out, sNotes, gen>>
       ELSE NextChunk(t, out[t].off)
    /\ UNCHANGED <<file, sUp, stx, sReported>>

\* send_binary() returned.
DataEnd(t, ok) ==
    /\ task[t] = "data"
    /\ IF ok
       THEN /\ Len(stx[out[t].conn]) < QueueCap
            /\ stx' = [stx EXCEPT ![out[t].conn] =
                        Append(@, [type |-> "data", t |-> t,
                                   off |-> gen[t].off, len |-> gen[t].len,
                                   ver |-> gen[t].ver])]
            /\ NextChunk(t, gen[t].off + gen[t].len)
       ELSE /\ FailOutgoing({t})
            /\ EndTask(t)
            /\ UNCHANGED <<stx, gen>>
    /\ UNCHANGED <<file, sUp, sReported>>

\* send(done) returned; its result is not looked at.
DoneEnd(t, ok) ==
    /\ task[t] = "done"
    /\ IF ok
       THEN /\ Len(stx[out[t].conn]) < QueueCap
            /\ stx' = [stx EXCEPT ![out[t].conn] =
                        Append(@, [type |-> "done", t |-> t])]
       ELSE UNCHANGED stx
    /\ IF CanMove(t, "WAITING_FOR_COMPLETE_ACK")
       THEN /\ out' = [out EXCEPT ![t].st = "WAITING_FOR_COMPLETE_ACK"]
            /\ task' = [task EXCEPT ![t] = "ack"]
            /\ UNCHANGED outgoing
       ELSE EndTask(t) /\ UNCHANGED out
    /\ UNCHANGED <<file, gen, sNotes, sUp, sReported>>

\* Mutant: any ack in time is announced as a success.
AckEndAnyAck(t, timeout) ==
    /\ task[t] = "ack"
    /\ timeout = ~out[t].acked
    /\ IF out[t].st = "WAITING_FOR_COMPLETE_ACK"
       THEN /\ out' = [out EXCEPT ![t].st =
                        IF ~timeout /\ out[t].success THEN "COMPLETED" ELSE "FAILED"]
            /\ sNotes' = [sNotes EXCEPT ![t] =
                            Append(@, IF ~timeout THEN "completed" ELSE "failed")]
       ELSE UNCHANGED <<out, sNotes>>
    /\ EndTask(t)
    /\ UNCHANGED <<file, gen, sUp, stx, sReported>>

\* The wait for _ack_event ends, with the event set or after
\* COMPLETE_ACK_TIMEOUT.
AckEnd(t, timeout) ==
    /\ task[t] = "ack"
    /\ timeout = ~out[t].acked
    /\ IF out[t].st = "WAITING_FOR_COMPLETE_ACK"
       THEN LET ok == ~timeout /\ out[t].success IN
            /\ out' = [out EXCEPT ![t].st = IF ok THEN "COMPLETED" ELSE "FAILED"]
            /\ sNotes' = [sNotes EXCEPT ![t] =
                            Append(@, IF ok THEN "completed" ELSE "failed")]
       ELSE UNCHANGED <<out, sNotes>>
    /\ EndTask(t)
    /\ UNCHANGED <<file, gen, sUp, stx, sReported>>

\* cancel_group("transfer"), called by a vault lock and at exit.  A task that
\* has not run yet never enters its try block, so nothing removes its entry.
CancelTransfers ==
    /\ \E t \in Transfers : task[t] \in Running
    /\ task' = [t \in Transfers |->
                    IF task[t] \in Running THEN "ended" ELSE task[t]]
    /\ outgoing' = outgoing \ {t \in Transfers : task[t] \in Running \ {"start"}}
    /\ UNCHANGED <<file, out, gen, sNotes, sUp, stx, sReported>>

-----------------------------------------------------------------------------
(* Handlers run by the read loop of connection c.                          *)

\* _is_valid_resume_offset()
ValidResumeOffset(off, size) == off <= size /\ off % ChunkSize = 0

\* TRANSFER_NOT_FOUND, at most once per connection and transfer.
ReportNotFound(c, t) ==
    IF <<c, t>> \in sReported
    THEN UNCHANGED <<stx, sReported>>
    ELSE /\ sReported' = sReported \cup {<<c, t>>}
         /\ stx' = [stx EXCEPT ![c] =
                     Append(@, [type |-> "error", t |-> t, terminal |-> TRUE])]

\* Mutant: the stream is started only for a transfer that is not resumed.
HandleAcceptNoTask(c, t, off) ==
    /\ sUp[c]
    /\ t \in outgoing
    /\ CanMove(t, "SENDING")
    /\ out' = [out EXCEPT ![t].off = off, ![t].st = "SENDING"]
    /\ task' = [task EXCEPT ![t] = IF off = 0 THEN "start" ELSE @]
    /\ UNCHANGED <<file, outgoing, gen, sNotes, sUp, stx, sReported>>

\* _handle_accept(): the offset is stored before the state is looked at.
HandleAccept(c, t, off) ==
    /\ sUp[c]
    /\ IF t \notin outgoing
       THEN ReportNotFound(c, t) /\ UNCHANGED <<out, task>>
       ELSE LET o == IF ValidResumeOffset(off, SizeOf[out[t].ver])
                     THEN off ELSE 0 IN
            /\ out' = [out EXCEPT ![t].off = o,
                                  ![t].st = IF CanMove(t, "SENDING")
                                            THEN "SENDING" ELSE @]
            /\ task' = [task EXCEPT ![t] = IF CanMove(t, "SENDING")
                                           THEN "start" ELSE @]
            /\ UNCHANGED <<stx, sReported>>
    /\ UNCHANGED <<file, outgoing, gen, sNotes, sUp>>

\* _handle_reject()
HandleReject(c, t) ==
    /\ sUp[c]
    /\ IF t \in outgoing /\ CanMove(t, "REJECTED")
       THEN /\ out' = [out EXCEPT ![t].st = "REJECTED"]
            /\ sNotes' = [sNotes EXCEPT ![t] = Append(@, "rejected")]
            /\ outgoing' = outgoing \ {t}
       ELSE UNCHANGED <<out, sNotes, outgoing>>
    /\ UNCHANGED <<file, task, gen, sUp, stx, sReported>>

\* _handle_complete_ack(): a success that arrives before the state is
\* WAITING_FOR_COMPLETE_ACK is dropped, an abort stops the stream.
HandleCompleteAck(c, t, ok) ==
    /\ sUp[c]
    /\ \/ /\ t \in outgoing
          /\ out[t].st = "WAITING_FOR_COMPLETE_ACK"
          /\ out' = [out EXCEPT ![t].acked = TRUE, ![t].success = ok]
          /\ UNCHANGED <<sNotes, outgoing>>
       \/ /\ t \in outgoing
          /\ out[t].st = "SENDING"
          /\ ~ok
          /\ FailOutgoing({t})
          /\ outgoing' = outgoing \ {t}
       \/ /\ t \notin outgoing \/ out[t].st # "WAITING_FOR_COMPLETE_ACK"
          /\ t \notin outgoing \/ out[t].st # "SENDING" \/ ok
          /\ UNCHANGED <<out, sNotes, outgoing>>
    /\ UNCHANGED <<file, task, gen, sUp, stx, sReported>>

\* The outgoing half of _handle_error(): only a terminal code, and only for a
\* transfer with the peer on this connection, fails it.
HandleSenderError(c, t, terminal) ==
    /\ sUp[c]
    /\ LET T == IF t \in outgoing /\ out[t].conn = c /\ terminal
                THEN {t} ELSE {} IN
       /\ FailOutgoing(T)
       /\ outgoing' = outgoing \ Failing(T)
    /\ UNCHANGED <<file, task, gen, sUp, stx, sReported>>

\* The outgoing half of handle_connection_lost().
SenderConnectionLost(c) ==
    /\ sUp[c]
    /\ sUp' = [sUp EXCEPT ![c] = FALSE]
    /\ LET T == {t \in outgoing : out[t].conn = c} IN
       /\ FailOutgoing(T)
       /\ outgoing' = outgoing \ Failing(T)
    /\ UNCHANGED <<file, task, gen, stx, sReported>>

-----------------------------------------------------------------------------
(* The sender against an arbitrary peer and network.                       *)

SenderReconnect(c) ==
    /\ ~sUp[c]
    /\ sUp' = [sUp EXCEPT ![c] = TRUE]
    /\ stx' = [stx EXCEPT ![c] = <<>>]
    /\ UNCHANGED <<file, out, outgoing, task, gen, sNotes, sReported>>

\* The user replaces the contents of the file, or makes it unreadable.
EditFile(v) ==
    /\ file # v
    /\ file' = v
    /\ UNCHANGED <<out, outgoing, task, gen, sNotes, sUp, stx, sReported>>

NetworkTakes(c) ==
    /\ stx[c] # <<>>
    /\ stx' = [stx EXCEPT ![c] = Tail(@)]
    /\ UNCHANGED <<file, out, outgoing, task, gen, sNotes, sUp, sReported>>

TaskStep(t) ==
    \/ \E ok \in BOOLEAN : OfferEnd(t, ok) \/ DataEnd(t, ok) \/ DoneEnd(t, ok)
    \/ StreamStart(t)
    \/ \E timeout \in BOOLEAN : AckEnd(t, timeout)

PeerStep(c, t) ==
    \/ \E off \in Offset : HandleAccept(c, t, off)
    \/ HandleReject(c, t)
    \/ \E ok \in BOOLEAN : HandleCompleteAck(c, t, ok)
    \/ \E terminal \in BOOLEAN : HandleSenderError(c, t, terminal)

SNext ==
    \/ \E c \in Conns, t \in Transfers : OfferBegin(c, t) \/ PeerStep(c, t)
    \/ \E t \in Transfers : TaskStep(t)
    \/ CancelTransfers
    \/ \E c \in Conns : \/ SenderConnectionLost(c) \/ SenderReconnect(c)
                        \/ NetworkTakes(c)
    \/ \E v \in Edits : EditFile(v)

SSpec == SInit /\ [][SNext]_svars
-----------------------------------------------------------------------------
(* Properties.                                                             *)

Terminal == {"COMPLETED", "FAILED", "REJECTED", "CANCELLED"}

\* The verdict shown to the user and the state of the transfer never
\* disagree, whatever order acks, rejects, errors, timeouts, failed sends and
\* the loss of the connection reach the transfer in: nothing is announced
\* before the transfer is resolved, a completed or rejected transfer is
\* announced exactly once and as that, and a failed one only as failed
\* (_fail_outgoing, _handle_reject, end of _send_chunks).
VerdictAgrees ==
    \A t \in Transfers :
        /\ out[t].st \notin Terminal => sNotes[t] = <<>>
        /\ out[t].st = "COMPLETED" => sNotes[t] = <<"completed">>
        /\ out[t].st = "REJECTED" => sNotes[t] = <<"rejected">>
        /\ out[t].st = "FAILED" =>
              /\ sNotes[t] # <<>>
              /\ \A i \in 1 .. Len(sNotes[t]) : sNotes[t][i] = "failed"

\* _outgoing is exactly what incoming frames can still act on: an entry is
\* never a resolved transfer, and a transfer a task is still working for and
\* nobody has resolved is always there, so the ack, the abort and the loss of
\* its connection reach it.
RegisteredIsLive ==
    /\ \A t \in outgoing : out[t].st \notin Terminal \cup {"NONE", "OFFERED"}
    /\ \A t \in Transfers :
          task[t] \in Running /\ out[t].st \notin Terminal => t \in outgoing

\* A resolved transfer is never revived: no duplicate accept, late ack,
\* timeout or reconnect changes the outcome of a transfer, and a transfer
\* announced as completed is never announced again
\* (transition_to() and the guards in front of it).
ResolvedIsFinal ==
    [][\A t \in Transfers :
          out[t].st \in Terminal =>
            /\ out'[t].st = out[t].st
            /\ out[t].st # "FAILED" => sNotes'[t] = sNotes[t]]_svars
=============================================================================
