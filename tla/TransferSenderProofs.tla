------------------------ MODULE TransferSenderProofs ------------------------
(***************************************************************************)
(* Proofs about the sending half: its type invariant and its safety        *)
(* properties hold for any number of transfers, connections and file       *)
(* versions, any chunk size and any queue length.                          *)
(***************************************************************************)
EXTENDS TransferSender, TLAPS

-----------------------------------------------------------------------------
(* Lemmas about the transition table and the helpers.                      *)

\* The only states from which _OUTGOING_TRANSITIONS allows each move that
\* the session asks for.
LEMMA MovesAllowed ==
    ASSUME NEW s \in OutgoingState
    PROVE  /\ "FAILED" \in OutgoingTransitions[s] <=>
                s \in {"WAITING_FOR_ACCEPT", "SENDING",
                       "WAITING_FOR_COMPLETE_ACK", "FAILED"}
           /\ "SENDING" \in OutgoingTransitions[s] <=> s = "WAITING_FOR_ACCEPT"
           /\ "REJECTED" \in OutgoingTransitions[s] <=>
                s \in {"WAITING_FOR_ACCEPT", "REJECTED"}
           /\ "WAITING_FOR_COMPLETE_ACK" \in OutgoingTransitions[s] <=>
                s = "SENDING"
  BY DEF OutgoingState, OutgoingTransitions

LEMMA AppendIsSeq ==
    ASSUME NEW S, NEW s \in Seq(S), NEW e \in S
    PROVE  Append(s, e) \in Seq(S)
  OBVIOUS

LEMMA SmallerIsNat ==
    ASSUME NEW a \in Nat, NEW b \in Nat
    PROVE  SmallerOf(a, b) \in Nat
  BY DEF SmallerOf

-----------------------------------------------------------------------------
(* The inductive invariant.                                                *)

\* offer_file() is suspended in its send only before the transfer left
\* OFFERED, so registering it afterwards revives nothing.
OfferIsOpen == \A t \in Transfers : task[t] = "offer" => out[t].st = "OFFERED"

SInv == STypeOK /\ VerdictAgrees /\ RegisteredIsLive /\ OfferIsOpen

\* What one step may do to a transfer and its notifications.
Announces(t, s, w) == out'[t].st = s /\ sNotes'[t] = Append(sNotes[t], w)

LegalMove(t) ==
    \/ out'[t].st = out[t].st /\ sNotes'[t] = sNotes[t]
    \/ /\ out[t].st \notin Terminal
       /\ out'[t].st \notin Terminal
       /\ sNotes'[t] = sNotes[t]
    \/ /\ out[t].st \notin Terminal
       /\ \/ Announces(t, "COMPLETED", "completed")
          \/ Announces(t, "REJECTED", "rejected")
          \/ Announces(t, "FAILED", "failed")
    \/ out[t].st = "FAILED" /\ Announces(t, "FAILED", "failed")

\* A step as ResolvedIsFinal wants it.
FinalStep ==
    \A t \in Transfers :
        out[t].st \in Terminal =>
            /\ out'[t].st = out[t].st
            /\ out[t].st # "FAILED" => sNotes'[t] = sNotes[t]

\* Legal moves keep verdicts and states in agreement and resolved transfers
\* resolved.
LEMMA LegalMovesAreSound ==
    ASSUME STypeOK, VerdictAgrees, \A t \in Transfers : LegalMove(t)
    PROVE  VerdictAgrees' /\ FinalStep
  <1>1. ASSUME NEW t \in Transfers
        PROVE  /\ out'[t].st \notin Terminal => sNotes'[t] = <<>>
               /\ out'[t].st = "COMPLETED" => sNotes'[t] = <<"completed">>
               /\ out'[t].st = "REJECTED" => sNotes'[t] = <<"rejected">>
               /\ out'[t].st = "FAILED" =>
                    /\ sNotes'[t] # <<>>
                    /\ \A i \in 1 .. Len(sNotes'[t]) : sNotes'[t][i] = "failed"
    <2>. sNotes[t] \in Seq(Verdict)
      BY DEF STypeOK
    <2>1. CASE out'[t].st = out[t].st /\ sNotes'[t] = sNotes[t]
      BY <2>1 DEF VerdictAgrees
    <2>2. CASE /\ out[t].st \notin Terminal
               /\ out'[t].st \notin Terminal
               /\ sNotes'[t] = sNotes[t]
      BY <2>2 DEF VerdictAgrees, Terminal
    <2>3. CASE /\ out[t].st \notin Terminal
               /\ \/ Announces(t, "COMPLETED", "completed")
                  \/ Announces(t, "REJECTED", "rejected")
                  \/ Announces(t, "FAILED", "failed")
      <3>1. sNotes[t] = <<>>
        BY <2>3 DEF VerdictAgrees
      <3>. QED BY <2>3, <3>1 DEF Announces, Terminal
    <2>4. CASE out[t].st = "FAILED" /\ Announces(t, "FAILED", "failed")
      <3>1. \A i \in 1 .. Len(sNotes[t]) : sNotes[t][i] = "failed"
        BY <2>4 DEF VerdictAgrees
      <3>. QED BY <2>4, <3>1 DEF Announces, Terminal
    <2>. QED BY <2>1, <2>2, <2>3, <2>4 DEF LegalMove
  <1>2. VerdictAgrees'
    BY <1>1 DEF VerdictAgrees
  <1>3. FinalStep
    BY DEF FinalStep, LegalMove, Announces, Terminal
  <1>. QED BY <1>2, <1>3

\* What _fail_outgoing() does to the transfers it is called for.
LEMMA FailOutgoingEffect ==
    ASSUME STypeOK, NEW T \in SUBSET Transfers, FailOutgoing(T)
    PROVE  /\ out' \in [Transfers -> Outgoing]
           /\ sNotes' \in [Transfers -> Seq(Verdict)]
           /\ \A t \in Transfers :
                 /\ LegalMove(t)
                 /\ t \in Failing(T) => out'[t].st = "FAILED"
                 /\ t \notin Failing(T) => out'[t] = out[t]
                 /\ out[t].st = "OFFERED" => out'[t].st = "OFFERED"
  <1>1. \A t \in Transfers : out[t] \in Outgoing /\ sNotes[t] \in Seq(Verdict)
    BY DEF STypeOK
  <1>2. \A t \in Failing(T) :
           out[t].st \in {"WAITING_FOR_ACCEPT", "SENDING",
                          "WAITING_FOR_COMPLETE_ACK", "FAILED"}
    BY <1>1, MovesAllowed DEF Failing, CanMove, Outgoing
  <1>3. ASSUME NEW t \in Transfers
        PROVE  /\ out'[t] \in Outgoing
               /\ t \in Failing(T) => out'[t].st = "FAILED"
               /\ t \notin Failing(T) => out'[t] = out[t]
    <2>1. CASE t \in Failing(T)
      <3>1. out'[t] = [out[t] EXCEPT !.st = "FAILED", !.acked = TRUE,
                                     !.success = FALSE]
        BY <2>1 DEF FailOutgoing
      <3>2. "FAILED" \in OutgoingState
        BY DEF OutgoingState
      <3>. QED BY <3>1, <3>2, <2>1, <1>1, Zenon DEF Outgoing
    <2>2. CASE t \notin Failing(T)
      BY <2>2, <1>1 DEF FailOutgoing
    <2>. QED BY <2>1, <2>2
  <1>4. ASSUME NEW t \in Transfers
        PROVE  /\ sNotes'[t] \in Seq(Verdict)
               /\ t \in Failing(T) => sNotes'[t] = Append(sNotes[t], "failed")
               /\ t \notin Failing(T) => sNotes'[t] = sNotes[t]
    <2>1. "failed" \in Verdict
      BY DEF Verdict
    <2>. QED BY <2>1, <1>1, AppendIsSeq DEF FailOutgoing
  <1>5. out' \in [Transfers -> Outgoing] /\ sNotes' \in [Transfers -> Seq(Verdict)]
    <2>1. /\ out' = [t \in Transfers |-> out'[t]]
          /\ sNotes' = [t \in Transfers |-> sNotes'[t]]
      BY DEF FailOutgoing
    <2>. QED BY <2>1, <1>3, <1>4
  <1>6. ASSUME NEW t \in Transfers
        PROVE  LegalMove(t) /\ (out[t].st = "OFFERED" => out'[t].st = "OFFERED")
    <2>1. CASE t \in Failing(T)
      BY <2>1, <1>2, <1>3, <1>4 DEF LegalMove, Announces, Terminal
    <2>2. CASE t \notin Failing(T)
      BY <2>2, <1>3, <1>4 DEF LegalMove
    <2>. QED BY <2>1, <2>2
  <1>. QED BY <1>3, <1>5, <1>6

\* What is left to show of a step once its moves are known to be legal.
LEMMA StepIsSound ==
    ASSUME SInv, STypeOK', \A t \in Transfers : LegalMove(t),
           RegisteredIsLive', OfferIsOpen'
    PROVE  SInv' /\ FinalStep
  BY LegalMovesAreSound DEF SInv

-----------------------------------------------------------------------------
(* One lemma per action.                                                   *)

LEMMA OfferBeginStep ==
    ASSUME SInv, NEW c \in Conns, NEW t \in Transfers, OfferBegin(c, t)
    PROVE  SInv' /\ FinalStep
  <1>. USE DEF SInv
  <1>1. /\ out[t] \in Outgoing
        /\ file \in Vers
    BY DEF STypeOK, OfferBegin
  <1>2. out'[t] = [out[t] EXCEPT !.st = "OFFERED", !.conn = c, !.ver = file]
    BY DEF OfferBegin, STypeOK
  <1>3. out'[t] \in Outgoing /\ out'[t].st = "OFFERED"
    <2>1. "OFFERED" \in OutgoingState
      BY DEF OutgoingState
    <2>. QED BY <1>1, <1>2, <2>1, Zenon DEF Outgoing
  <1>4. \A u \in Transfers \ {t} : out'[u] = out[u]
    BY DEF OfferBegin, STypeOK
  <1>5. out' \in [Transfers -> Outgoing]
    <2>1. out' = [u \in Transfers |-> out'[u]]
      BY DEF OfferBegin, STypeOK
    <2>. QED BY <2>1, <1>3, <1>4 DEF STypeOK
  <1>6. STypeOK'
    BY <1>5 DEF OfferBegin, STypeOK, TaskPoint
  <1>7. \A u \in Transfers : LegalMove(u)
    BY <1>3, <1>4 DEF OfferBegin, LegalMove, Terminal
  <1>8. t \notin outgoing
    BY DEF OfferBegin, RegisteredIsLive
  <1>9. RegisteredIsLive'
    BY <1>3, <1>4, <1>8 DEF OfferBegin, RegisteredIsLive, Running, STypeOK
  <1>10. OfferIsOpen'
    BY <1>3, <1>4 DEF OfferBegin, OfferIsOpen, STypeOK
  <1>. QED BY <1>6, <1>7, <1>9, <1>10, StepIsSound

\* Appending a frame to the queue of a connection.
LEMMA SentIsTyped ==
    ASSUME STypeOK, NEW c \in Conns, NEW f \in SFrame
    PROVE  [stx EXCEPT ![c] = Append(@, f)] \in [Conns -> Seq(SFrame)]
  BY AppendIsSeq DEF STypeOK

LEMMA OfferEndStep ==
    ASSUME SInv, NEW t \in Transfers, NEW ok \in BOOLEAN, OfferEnd(t, ok)
    PROVE  SInv' /\ FinalStep
  <1>. USE DEF SInv
  <1>1. /\ out[t] \in Outgoing
        /\ out[t].conn \in Conns
        /\ out[t].st = "OFFERED"
        /\ [type |-> "offer", t |-> t, ver |-> out[t].ver] \in SFrame
    BY DEF STypeOK, OfferEnd, OfferIsOpen, Outgoing, SFrame
  <1>2. CASE ok
    <2>1. /\ stx' = [stx EXCEPT ![out[t].conn] =
                       Append(@, [type |-> "offer", t |-> t, ver |-> out[t].ver])]
          /\ out' = [out EXCEPT ![t].st = "WAITING_FOR_ACCEPT"]
          /\ outgoing' = outgoing \cup {t}
          /\ task' = [task EXCEPT ![t] = "none"]
          /\ UNCHANGED <<file, gen, sNotes, sUp, sReported>>
      BY <1>2, Zenon DEF OfferEnd
    <2>2. STypeOK'
      <3>1. stx' \in [Conns -> Seq(SFrame)]
        BY <1>1, <2>1, SentIsTyped
      <3>2. out' \in [Transfers -> Outgoing]
        BY <1>1, <2>1 DEF STypeOK, Outgoing, OutgoingState
      <3>. QED BY <3>1, <3>2, <2>1 DEF STypeOK, TaskPoint
    <2>3. /\ out'[t].st = "WAITING_FOR_ACCEPT"
          /\ \A u \in Transfers \ {t} : out'[u] = out[u]
      BY <2>1 DEF STypeOK, Outgoing
    <2>4. \A u \in Transfers : LegalMove(u)
      BY <1>1, <2>1, <2>3 DEF LegalMove, Terminal
    <2>5. RegisteredIsLive'
      BY <2>1, <2>3 DEF RegisteredIsLive, Running, STypeOK, Terminal
    <2>6. OfferIsOpen'
      BY <2>1, <2>3 DEF OfferIsOpen, STypeOK
    <2>. QED BY <2>2, <2>4, <2>5, <2>6, StepIsSound
  <1>3. CASE ~ok
    <2>1. /\ task' = [task EXCEPT ![t] = "ended"]
          /\ UNCHANGED <<file, out, outgoing, gen, sNotes, sUp, stx, sReported>>
      BY <1>3, Zenon DEF OfferEnd
    <2>2. STypeOK'
      BY <2>1 DEF STypeOK, TaskPoint
    <2>3. \A u \in Transfers : LegalMove(u)
      BY <2>1 DEF LegalMove
    <2>4. RegisteredIsLive' /\ OfferIsOpen'
      BY <2>1 DEF RegisteredIsLive, OfferIsOpen, Running, STypeOK
    <2>. QED BY <2>2, <2>3, <2>4, StepIsSound
  <1>. QED BY <1>2, <1>3

\* The finally clause removes the entry of the only transfer that changed.
LEMMA EndTaskEffect ==
    ASSUME SInv, NEW t \in Transfers, EndTask(t), task[t] # "offer",
           \A u \in Transfers \ {t} : out'[u] = out[u]
    PROVE  /\ task' \in [Transfers -> TaskPoint]
           /\ outgoing' \in SUBSET Transfers
           /\ RegisteredIsLive'
           /\ OfferIsOpen'
  BY DEF SInv, STypeOK, EndTask, TaskPoint, RegisteredIsLive, OfferIsOpen, Running

\* The chunk read_chunks() yields is typed, also for a file that became shorter
\* than the offset.
LEMMA ChunkIsTyped ==
    ASSUME STypeOK, NEW o \in Nat, file # 0
    PROVE  [off |-> o, ver |-> file,
            len |-> SmallerOf(ChunkSize,
                      IF o <= SizeOf[file] THEN SizeOf[file] - o ELSE 0)]
              \in [off : Nat, len : Nat, ver : Vers]
  <1>1. file \in Vers /\ SizeOf[file] \in Nat /\ ChunkSize \in Nat
    BY SizesAreNatural, ChunkIsPositive DEF STypeOK
  <1>2. (IF o <= SizeOf[file] THEN SizeOf[file] - o ELSE 0) \in Nat
    BY <1>1
  <1>3. SmallerOf(ChunkSize, IF o <= SizeOf[file] THEN SizeOf[file] - o ELSE 0)
            \in Nat
    BY <1>1, <1>2, SmallerIsNat
  <1>. QED BY <1>1, <1>3

\* One turn of the loop of _send_chunks().
LEMMA NextChunkEffect ==
    ASSUME SInv, NEW t \in Transfers, NEW o \in Nat, task[t] \in Running,
           NextChunk(t, o)
    PROVE  /\ out' \in [Transfers -> Outgoing]
           /\ sNotes' \in [Transfers -> Seq(Verdict)]
           /\ gen' \in [Transfers -> [off : Nat, len : Nat, ver : Vers]]
           /\ task' \in [Transfers -> TaskPoint]
           /\ outgoing' \in SUBSET Transfers
           /\ \A u \in Transfers : LegalMove(u)
           /\ RegisteredIsLive'
           /\ OfferIsOpen'
  <1>. STypeOK /\ task[t] # "offer"
    BY DEF SInv, Running
  <1>1. CASE file = 0 /\ FailOutgoing({t}) /\ EndTask(t) /\ UNCHANGED gen
    <2>1. \A u \in Transfers \ {t} : u \notin Failing({t})
      BY DEF Failing
    <2>. QED BY <1>1, <2>1, FailOutgoingEffect, EndTaskEffect DEF STypeOK
  <1>2. CASE EndTask(t) /\ UNCHANGED <<out, sNotes, gen>>
    BY <1>2, EndTaskEffect DEF STypeOK, LegalMove
  <1>3. CASE /\ file # 0
             /\ out[t].st = "SENDING"
             /\ gen' = [gen EXCEPT ![t] =
                   [off |-> o, ver |-> file,
                    len |-> SmallerOf(ChunkSize,
                              IF o <= SizeOf[file] THEN SizeOf[file] - o ELSE 0)]]
             /\ task' = [task EXCEPT ![t] =
                   IF o < SizeOf[file] THEN "data" ELSE "done"]
             /\ UNCHANGED <<out, sNotes, outgoing>>
    <2>1. gen' \in [Transfers -> [off : Nat, len : Nat, ver : Vers]]
      BY <1>3, ChunkIsTyped DEF STypeOK
    <2>2. /\ task' \in [Transfers -> TaskPoint]
          /\ task'[t] \in {"data", "done"}
          /\ \A u \in Transfers \ {t} : task'[u] = task[u]
      BY <1>3 DEF STypeOK, TaskPoint
    <2>3. RegisteredIsLive' /\ OfferIsOpen'
      BY <1>3, <2>2 DEF SInv, RegisteredIsLive, OfferIsOpen, Running
    <2>4. \A u \in Transfers : LegalMove(u)
      BY <1>3 DEF LegalMove
    <2>. QED BY <1>3, <2>1, <2>2, <2>3, <2>4 DEF STypeOK
  <1>. QED BY <1>1, <1>2, <1>3 DEF NextChunk

LEMMA StreamStartStep ==
    ASSUME SInv, NEW t \in Transfers, StreamStart(t)
    PROVE  SInv' /\ FinalStep
  <1>1. task[t] \in Running /\ task[t] # "offer" /\ out[t].off \in Nat
    BY DEF StreamStart, Running, SInv, STypeOK, Outgoing
  <1>2. CASE EndTask(t) /\ UNCHANGED <<out, sNotes, gen>>
    <2>1. STypeOK'
      BY <1>1, <1>2, EndTaskEffect DEF StreamStart, SInv, STypeOK
    <2>2. \A u \in Transfers : LegalMove(u)
      BY <1>2 DEF LegalMove
    <2>. QED BY <1>1, <1>2, <2>1, <2>2, EndTaskEffect, StepIsSound
  <1>3. CASE NextChunk(t, out[t].off)
    <2>1. STypeOK'
      BY <1>1, <1>3, NextChunkEffect DEF StreamStart, SInv, STypeOK
    <2>. QED BY <1>1, <1>3, <2>1, NextChunkEffect, StepIsSound
  <1>. QED BY <1>2, <1>3 DEF StreamStart

LEMMA DataEndStep ==
    ASSUME SInv, NEW t \in Transfers, NEW ok \in BOOLEAN, DataEnd(t, ok)
    PROVE  SInv' /\ FinalStep
  <1>1. /\ task[t] \in Running
        /\ task[t] # "offer"
        /\ gen[t].off + gen[t].len \in Nat
        /\ out[t].conn \in Conns
        /\ [type |-> "data", t |-> t, off |-> gen[t].off, len |-> gen[t].len,
            ver |-> gen[t].ver] \in SFrame
    BY DEF DataEnd, Running, SInv, STypeOK, Outgoing, SFrame
  <1>2. CASE ok
    <2>1. /\ stx' = [stx EXCEPT ![out[t].conn] =
                       Append(@, [type |-> "data", t |-> t,
                                  off |-> gen[t].off, len |-> gen[t].len,
                                  ver |-> gen[t].ver])]
          /\ NextChunk(t, gen[t].off + gen[t].len)
          /\ UNCHANGED <<file, sUp, sReported>>
      BY <1>2, Zenon DEF DataEnd
    <2>2. stx' \in [Conns -> Seq(SFrame)]
      BY <1>1, <2>1, SentIsTyped DEF SInv
    <2>3. STypeOK'
      BY <1>1, <2>1, <2>2, NextChunkEffect DEF SInv, STypeOK
    <2>. QED BY <1>1, <2>1, <2>3, NextChunkEffect, StepIsSound
  <1>3. CASE ~ok
    <2>1. FailOutgoing({t}) /\ EndTask(t) /\ UNCHANGED <<file, gen, sUp, stx, sReported>>
      BY <1>3, Zenon DEF DataEnd
    <2>2. /\ out' \in [Transfers -> Outgoing]
          /\ sNotes' \in [Transfers -> Seq(Verdict)]
          /\ \A u \in Transfers : LegalMove(u)
          /\ \A u \in Transfers \ {t} : out'[u] = out[u]
      BY <2>1, FailOutgoingEffect DEF SInv, Failing
    <2>3. STypeOK'
      BY <1>1, <2>1, <2>2, EndTaskEffect DEF SInv, STypeOK
    <2>. QED BY <1>1, <2>1, <2>2, <2>3, EndTaskEffect, StepIsSound
  <1>. QED BY <1>2, <1>3

LEMMA DoneEndStep ==
    ASSUME SInv, NEW t \in Transfers, NEW ok \in BOOLEAN, DoneEnd(t, ok)
    PROVE  SInv' /\ FinalStep
  <1>1. /\ task[t] \in Running
        /\ task[t] # "offer"
        /\ out[t] \in Outgoing
        /\ out[t].conn \in Conns
        /\ [type |-> "done", t |-> t] \in SFrame
        /\ UNCHANGED <<file, gen, sNotes, sUp, sReported>>
    BY DEF DoneEnd, Running, SInv, STypeOK, Outgoing, SFrame
  <1>2. stx' \in [Conns -> Seq(SFrame)]
    <2>1. \/ stx' = [stx EXCEPT ![out[t].conn] =
                       Append(@, [type |-> "done", t |-> t])]
          \/ stx' = stx
      BY Zenon DEF DoneEnd
    <2>2. STypeOK /\ stx \in [Conns -> Seq(SFrame)]
      BY DEF SInv, STypeOK
    <2>3. [stx EXCEPT ![out[t].conn] = Append(@, [type |-> "done", t |-> t])]
             \in [Conns -> Seq(SFrame)]
      BY <1>1, <2>2, SentIsTyped, Zenon
    <2>. QED BY <2>1, <2>2, <2>3, Zenon
  <1>3. CASE CanMove(t, "WAITING_FOR_COMPLETE_ACK")
    <2>1. out[t].st = "SENDING"
      BY <1>1, <1>3, MovesAllowed DEF CanMove, Outgoing
    <2>2. /\ out' = [out EXCEPT ![t].st = "WAITING_FOR_COMPLETE_ACK"]
          /\ task' = [task EXCEPT ![t] = "ack"]
          /\ UNCHANGED outgoing
      BY <1>3 DEF DoneEnd
    <2>3. /\ out' \in [Transfers -> Outgoing]
          /\ out'[t].st = "WAITING_FOR_COMPLETE_ACK"
          /\ \A u \in Transfers \ {t} : out'[u] = out[u]
      BY <1>1, <2>2 DEF SInv, STypeOK, Outgoing, OutgoingState
    <2>4. STypeOK'
      BY <1>1, <1>2, <2>2, <2>3 DEF SInv, STypeOK, TaskPoint
    <2>5. \A u \in Transfers : LegalMove(u)
      BY <1>1, <2>1, <2>3 DEF LegalMove, Terminal
    <2>6. RegisteredIsLive' /\ OfferIsOpen'
      BY <1>1, <2>1, <2>2, <2>3
      DEF SInv, STypeOK, RegisteredIsLive, OfferIsOpen, Running, Terminal
    <2>. QED BY <2>4, <2>5, <2>6, StepIsSound
  <1>4. CASE ~CanMove(t, "WAITING_FOR_COMPLETE_ACK")
    <2>1. EndTask(t) /\ UNCHANGED out
      BY <1>4 DEF DoneEnd
    <2>2. STypeOK'
      BY <1>1, <1>2, <2>1, EndTaskEffect DEF SInv, STypeOK
    <2>3. \A u \in Transfers : LegalMove(u)
      BY <1>1, <2>1 DEF LegalMove
    <2>. QED BY <1>1, <2>1, <2>2, <2>3, EndTaskEffect, StepIsSound
  <1>. QED BY <1>3, <1>4

LEMMA AckEndStep ==
    ASSUME SInv, NEW t \in Transfers, NEW timeout \in BOOLEAN, AckEnd(t, timeout)
    PROVE  SInv' /\ FinalStep
  <1>1. /\ task[t] \in Running
        /\ task[t] # "offer"
        /\ out[t] \in Outgoing
        /\ EndTask(t)
        /\ UNCHANGED <<file, gen, sUp, stx, sReported>>
    BY DEF AckEnd, Running, SInv, STypeOK
  <1>2. \/ UNCHANGED <<out, sNotes>>
        \/ /\ out[t].st = "WAITING_FOR_COMPLETE_ACK"
           /\ out' = [out EXCEPT ![t].st = "COMPLETED"]
           /\ sNotes' = [sNotes EXCEPT ![t] = Append(@, "completed")]
        \/ /\ out[t].st = "WAITING_FOR_COMPLETE_ACK"
           /\ out' = [out EXCEPT ![t].st = "FAILED"]
           /\ sNotes' = [sNotes EXCEPT ![t] = Append(@, "failed")]
    BY Zenon DEF AckEnd
  <1>3. CASE UNCHANGED <<out, sNotes>>
    <2>1. STypeOK'
      BY <1>1, <1>3, EndTaskEffect DEF SInv, STypeOK
    <2>2. \A u \in Transfers : LegalMove(u)
      BY <1>3 DEF LegalMove
    <2>. QED BY <1>1, <1>3, <2>1, <2>2, EndTaskEffect, StepIsSound
  <1>4. ASSUME NEW s \in {"COMPLETED", "FAILED"}, NEW w \in {"completed", "failed"},
               s = "COMPLETED" <=> w = "completed",
               out[t].st = "WAITING_FOR_COMPLETE_ACK",
               out' = [out EXCEPT ![t].st = s],
               sNotes' = [sNotes EXCEPT ![t] = Append(@, w)]
        PROVE  SInv' /\ FinalStep
    <2>1. /\ out' \in [Transfers -> Outgoing]
          /\ out'[t].st = s
          /\ \A u \in Transfers \ {t} : out'[u] = out[u]
      BY <1>4 DEF SInv, STypeOK, Outgoing, OutgoingState
    <2>2. w \in Verdict
      BY DEF Verdict
    <2>3. /\ sNotes' \in [Transfers -> Seq(Verdict)]
          /\ sNotes'[t] = Append(sNotes[t], w)
          /\ \A u \in Transfers \ {t} : sNotes'[u] = sNotes[u]
      BY <1>4, <2>2, AppendIsSeq DEF SInv, STypeOK
    <2>4. STypeOK'
      BY <1>1, <2>1, <2>3, EndTaskEffect DEF SInv, STypeOK
    <2>5. \A u \in Transfers : LegalMove(u)
      BY <1>4, <2>1, <2>3 DEF LegalMove, Announces, Terminal
    <2>. QED BY <1>1, <2>1, <2>4, <2>5, EndTaskEffect, StepIsSound
  <1>. QED BY <1>2, <1>3, <1>4

LEMMA CancelTransfersStep ==
    ASSUME SInv, CancelTransfers
    PROVE  SInv' /\ FinalStep
  <1>1. /\ UNCHANGED <<file, out, gen, sNotes, sUp, stx, sReported>>
        /\ task' \in [Transfers -> TaskPoint]
        /\ outgoing' \subseteq outgoing
        /\ \A u \in Transfers : /\ task'[u] \notin Running
                                /\ task'[u] = "offer" => task[u] = "offer"
    BY DEF CancelTransfers, SInv, STypeOK, TaskPoint, Running
  <1>2. STypeOK'
    BY <1>1 DEF SInv, STypeOK
  <1>3. \A u \in Transfers : LegalMove(u)
    BY <1>1 DEF LegalMove
  <1>4. RegisteredIsLive' /\ OfferIsOpen'
    BY <1>1 DEF SInv, RegisteredIsLive, OfferIsOpen
  <1>. QED BY <1>2, <1>3, <1>4, StepIsSound

LEMMA HandleAcceptStep ==
    ASSUME SInv, NEW c \in Conns, NEW t \in Transfers, NEW off \in Nat,
           HandleAccept(c, t, off)
    PROVE  SInv' /\ FinalStep
  <1>1. out[t] \in Outgoing /\ UNCHANGED <<file, outgoing, gen, sNotes, sUp>>
    BY DEF HandleAccept, SInv, STypeOK
  <1>2. CASE t \notin outgoing
    <2>1. ReportNotFound(c, t) /\ UNCHANGED <<out, task>>
      BY <1>2 DEF HandleAccept
    <2>2. [type |-> "error", t |-> t, terminal |-> TRUE] \in SFrame
      BY DEF SFrame
    <2>3. /\ stx' \in [Conns -> Seq(SFrame)]
          /\ sReported' \in SUBSET (Conns \X Transfers)
      <3>1. /\ STypeOK
            /\ stx \in [Conns -> Seq(SFrame)]
            /\ sReported \in SUBSET (Conns \X Transfers)
        BY DEF SInv, STypeOK
      <3>2. CASE <<c, t>> \in sReported
        BY <2>1, <3>1, <3>2 DEF ReportNotFound
      <3>3. CASE <<c, t>> \notin sReported
        <4>1. stx' \in [Conns -> Seq(SFrame)]
          <5>1. [stx EXCEPT ![c] =
                   Append(@, [type |-> "error", t |-> t, terminal |-> TRUE])]
                   \in [Conns -> Seq(SFrame)]
            BY <2>2, <3>1, SentIsTyped, Zenon
          <5>. QED BY <2>1, <3>3, <5>1, Zenon DEF ReportNotFound
        <4>. QED BY <2>1, <3>1, <3>3, <4>1 DEF ReportNotFound
      <3>. QED BY <3>2, <3>3
    <2>4. STypeOK'
      BY <1>1, <2>1, <2>3 DEF SInv, STypeOK
    <2>5. \A u \in Transfers : LegalMove(u)
      BY <1>1, <2>1 DEF LegalMove
    <2>6. RegisteredIsLive' /\ OfferIsOpen'
      BY <1>1, <2>1 DEF SInv, RegisteredIsLive, OfferIsOpen
    <2>. QED BY <2>4, <2>5, <2>6, StepIsSound
  <1>3. CASE t \in outgoing
    <2>. DEFINE o == IF ValidResumeOffset(off, SizeOf[out[t].ver]) THEN off ELSE 0
                go == CanMove(t, "SENDING")
    <2>1. /\ out' = [out EXCEPT ![t].off = o,
                                ![t].st = IF go THEN "SENDING" ELSE @]
          /\ task' = [task EXCEPT ![t] = IF go THEN "start" ELSE @]
          /\ UNCHANGED <<stx, sReported>>
      BY <1>3 DEF HandleAccept
    <2>2. o \in Nat
      OBVIOUS
    <2>3. go => out[t].st = "WAITING_FOR_ACCEPT"
      BY <1>1, MovesAllowed DEF CanMove, Outgoing
    <2>. HIDE DEF o, go
    <2>4. out'[t] = [out[t] EXCEPT !.off = o,
                                   !.st = IF go THEN "SENDING" ELSE out[t].st]
      BY <2>1, Zenon DEF SInv, STypeOK
    <2>5. /\ out'[t] \in Outgoing
          /\ out'[t].st = IF go THEN "SENDING" ELSE out[t].st
      <3>1. (IF go THEN "SENDING" ELSE out[t].st) \in OutgoingState
        BY <1>1 DEF Outgoing, OutgoingState
      <3>. QED BY <1>1, <2>2, <2>4, <3>1, Zenon DEF Outgoing
    <2>6. \A u \in Transfers \ {t} : out'[u] = out[u]
      BY <2>1, Zenon DEF SInv, STypeOK
    <2>7. out' \in [Transfers -> Outgoing]
      <3>1. out' = [u \in Transfers |-> out'[u]]
        BY <2>1, Zenon DEF SInv, STypeOK
      <3>. QED BY <3>1, <2>5, <2>6 DEF SInv, STypeOK
    <2>8. /\ task' \in [Transfers -> TaskPoint]
          /\ task'[t] = IF go THEN "start" ELSE task[t]
          /\ \A u \in Transfers \ {t} : task'[u] = task[u]
      BY <2>1 DEF SInv, STypeOK, TaskPoint
    <2>9. STypeOK'
      BY <1>1, <2>1, <2>7, <2>8 DEF SInv, STypeOK
    <2>10. \A u \in Transfers : LegalMove(u)
      BY <1>1, <2>3, <2>5, <2>6 DEF LegalMove, Terminal
    <2>11. RegisteredIsLive' /\ OfferIsOpen'
      BY <1>1, <1>3, <2>3, <2>5, <2>6, <2>8
      DEF SInv, STypeOK, RegisteredIsLive, OfferIsOpen, Running, Terminal
    <2>. QED BY <2>9, <2>10, <2>11, StepIsSound
  <1>. QED BY <1>2, <1>3

LEMMA UnchangedStep ==
    ASSUME SInv, UNCHANGED svars
    PROVE  SInv' /\ FinalStep
  <1>1. STypeOK' /\ VerdictAgrees' /\ RegisteredIsLive' /\ OfferIsOpen'
    BY DEF SInv, STypeOK, VerdictAgrees, RegisteredIsLive, OfferIsOpen, svars
  <1>. QED BY <1>1 DEF SInv, FinalStep, svars

LEMMA HandleRejectStep ==
    ASSUME SInv, NEW c \in Conns, NEW t \in Transfers, HandleReject(c, t)
    PROVE  SInv' /\ FinalStep
  <1>1. out[t] \in Outgoing /\ UNCHANGED <<file, task, gen, sUp, stx, sReported>>
    BY DEF HandleReject, SInv, STypeOK
  <1>2. CASE t \in outgoing /\ CanMove(t, "REJECTED")
    <2>1. out[t].st = "WAITING_FOR_ACCEPT"
      BY <1>1, <1>2, MovesAllowed
      DEF CanMove, Outgoing, SInv, RegisteredIsLive, Terminal
    <2>2. /\ out' = [out EXCEPT ![t].st = "REJECTED"]
          /\ sNotes' = [sNotes EXCEPT ![t] = Append(@, "rejected")]
          /\ outgoing' = outgoing \ {t}
      BY <1>2 DEF HandleReject
    <2>3. /\ out' \in [Transfers -> Outgoing]
          /\ out'[t].st = "REJECTED"
          /\ \A u \in Transfers \ {t} : out'[u] = out[u]
      BY <2>2 DEF SInv, STypeOK, Outgoing, OutgoingState
    <2>4. /\ sNotes' \in [Transfers -> Seq(Verdict)]
          /\ sNotes'[t] = Append(sNotes[t], "rejected")
          /\ \A u \in Transfers \ {t} : sNotes'[u] = sNotes[u]
      <3>1. "rejected" \in Verdict
        BY DEF Verdict
      <3>. QED BY <2>2, <3>1, AppendIsSeq DEF SInv, STypeOK
    <2>5. STypeOK'
      BY <1>1, <2>2, <2>3, <2>4 DEF SInv, STypeOK
    <2>6. \A u \in Transfers : LegalMove(u)
      BY <2>1, <2>3, <2>4 DEF LegalMove, Announces, Terminal
    <2>7. RegisteredIsLive' /\ OfferIsOpen'
      BY <1>1, <2>1, <2>2, <2>3
      DEF SInv, STypeOK, RegisteredIsLive, OfferIsOpen, Terminal
    <2>. QED BY <2>5, <2>6, <2>7, StepIsSound
  <1>3. CASE ~(t \in outgoing /\ CanMove(t, "REJECTED"))
    <2>1. UNCHANGED svars
      BY <1>1, <1>3 DEF HandleReject, svars
    <2>. QED BY <2>1, UnchangedStep
  <1>. QED BY <1>2, <1>3

\* _fail_outgoing() for transfers of _outgoing, and the removal of those it
\* resolved.
LEMMA FailingStep ==
    ASSUME SInv, NEW T \in SUBSET outgoing, FailOutgoing(T),
           outgoing' = outgoing \ Failing(T), sUp' \in [Conns -> BOOLEAN],
           UNCHANGED <<file, task, gen, stx, sReported>>
    PROVE  SInv' /\ FinalStep
  <1>1. T \in SUBSET Transfers /\ STypeOK
    BY DEF SInv, STypeOK
  <1>2. /\ out' \in [Transfers -> Outgoing]
        /\ sNotes' \in [Transfers -> Seq(Verdict)]
        /\ \A u \in Transfers :
              /\ LegalMove(u)
              /\ u \in Failing(T) => out'[u].st = "FAILED"
              /\ u \notin Failing(T) => out'[u] = out[u]
              /\ out[u].st = "OFFERED" => out'[u].st = "OFFERED"
    BY <1>1, FailOutgoingEffect
  <1>3. STypeOK'
    BY <1>2 DEF SInv, STypeOK
  <1>4. RegisteredIsLive' /\ OfferIsOpen'
    BY <1>1, <1>2 DEF SInv, STypeOK, RegisteredIsLive, OfferIsOpen, Terminal
  <1>. QED BY <1>2, <1>3, <1>4, StepIsSound

LEMMA HandleSenderErrorStep ==
    ASSUME SInv, NEW c \in Conns, NEW t \in Transfers, NEW terminal \in BOOLEAN,
           HandleSenderError(c, t, terminal)
    PROVE  SInv' /\ FinalStep
  <1>. DEFINE T == IF t \in outgoing /\ out[t].conn = c /\ terminal THEN {t} ELSE {}
  <1>1. T \in SUBSET outgoing
    OBVIOUS
  <1>2. /\ FailOutgoing(T)
        /\ outgoing' = outgoing \ Failing(T)
        /\ UNCHANGED <<file, task, gen, sUp, stx, sReported>>
    BY Zenon DEF HandleSenderError
  <1>3. sUp' \in [Conns -> BOOLEAN]
    BY <1>2 DEF SInv, STypeOK
  <1>. HIDE DEF T
  <1>. QED BY <1>1, <1>2, <1>3, FailingStep

LEMMA SenderConnectionLostStep ==
    ASSUME SInv, NEW c \in Conns, SenderConnectionLost(c)
    PROVE  SInv' /\ FinalStep
  <1>. DEFINE T == {t \in outgoing : out[t].conn = c}
  <1>1. T \in SUBSET outgoing
    OBVIOUS
  <1>2. /\ FailOutgoing(T)
        /\ outgoing' = outgoing \ Failing(T)
        /\ UNCHANGED <<file, task, gen, stx, sReported>>
    BY DEF SenderConnectionLost
  <1>3. sUp' \in [Conns -> BOOLEAN]
    BY DEF SInv, STypeOK, SenderConnectionLost
  <1>. HIDE DEF T
  <1>. QED BY <1>1, <1>2, <1>3, FailingStep

LEMMA HandleCompleteAckStep ==
    ASSUME SInv, NEW c \in Conns, NEW t \in Transfers, NEW ok \in BOOLEAN,
           HandleCompleteAck(c, t, ok)
    PROVE  SInv' /\ FinalStep
  <1>1. out[t] \in Outgoing /\ UNCHANGED <<file, task, gen, sUp, stx, sReported>>
    BY DEF HandleCompleteAck, SInv, STypeOK
  <1>2. CASE /\ out' = [out EXCEPT ![t].acked = TRUE, ![t].success = ok]
             /\ UNCHANGED <<sNotes, outgoing>>
    <2>1. out'[t] = [out[t] EXCEPT !.acked = TRUE, !.success = ok]
      BY <1>2, Zenon DEF SInv, STypeOK
    <2>2. out'[t] \in Outgoing /\ out'[t].st = out[t].st
      BY <1>1, <2>1, Zenon DEF Outgoing
    <2>3. \A u \in Transfers \ {t} : out'[u] = out[u]
      BY <1>2, Zenon DEF SInv, STypeOK
    <2>4. out' \in [Transfers -> Outgoing]
      <3>1. out' = [u \in Transfers |-> out'[u]]
        BY <1>2, Zenon DEF SInv, STypeOK
      <3>. QED BY <3>1, <2>2, <2>3 DEF SInv, STypeOK
    <2>5. STypeOK'
      BY <1>1, <1>2, <2>4 DEF SInv, STypeOK
    <2>6. \A u \in Transfers : LegalMove(u)
      BY <1>2, <2>2, <2>3 DEF LegalMove
    <2>7. RegisteredIsLive' /\ OfferIsOpen'
      BY <1>1, <1>2, <2>2, <2>3 DEF SInv, STypeOK, RegisteredIsLive, OfferIsOpen
    <2>. QED BY <2>5, <2>6, <2>7, StepIsSound
  <1>3. CASE /\ t \in outgoing
             /\ out[t].st = "SENDING"
             /\ FailOutgoing({t})
             /\ outgoing' = outgoing \ {t}
    <2>1. Failing({t}) = {t}
      BY <1>1, <1>3, MovesAllowed DEF Failing, CanMove, Outgoing
    <2>2. sUp' \in [Conns -> BOOLEAN]
      BY <1>1 DEF SInv, STypeOK
    <2>. QED BY <1>1, <1>3, <2>1, <2>2, FailingStep
  <1>4. CASE UNCHANGED <<out, sNotes, outgoing>>
    BY <1>1, <1>4, UnchangedStep DEF svars
  <1>. QED BY <1>2, <1>3, <1>4 DEF HandleCompleteAck

LEMMA OtherStep ==
    ASSUME SInv, UNCHANGED <<out, outgoing, task, gen, sNotes, sReported>>,
           file' \in Vers \cup {0}, sUp' \in [Conns -> BOOLEAN],
           stx' \in [Conns -> Seq(SFrame)]
    PROVE  SInv' /\ FinalStep
  <1>1. STypeOK'
    BY DEF SInv, STypeOK
  <1>2. \A u \in Transfers : LegalMove(u)
    BY DEF LegalMove
  <1>3. RegisteredIsLive' /\ OfferIsOpen'
    BY DEF SInv, RegisteredIsLive, OfferIsOpen
  <1>. QED BY <1>1, <1>2, <1>3, StepIsSound

-----------------------------------------------------------------------------
(* Theorems.                                                               *)

LEMMA SInitIsSound == SInit => SInv
  <1>. SUFFICES ASSUME SInit PROVE SInv
    OBVIOUS
  <1>. DEFINE c0 == CHOOSE c \in Conns : TRUE
              v0 == CHOOSE v \in Vers : TRUE
  <1>1. c0 \in Conns /\ v0 \in Vers
    BY SomeConnection, SomeVersion
  <1>. HIDE DEF c0, v0
  <1>2. [st |-> "NONE", conn |-> c0, ver |-> v0, off |-> 0, acked |-> FALSE,
         success |-> FALSE] \in Outgoing
    BY <1>1 DEF Outgoing, OutgoingState
  <1>3. out \in [Transfers -> Outgoing]
    BY <1>2, Zenon DEF SInit, c0, v0
  <1>4. gen \in [Transfers -> [off : Nat, len : Nat, ver : Vers]]
    <2>1. gen = [t \in Transfers |-> [off |-> 0, len |-> 0, ver |-> v0]]
      BY Zenon DEF SInit, v0
    <2>. QED BY <1>1, <2>1
  <1>5. STypeOK
    BY <1>3, <1>4 DEF SInit, STypeOK, TaskPoint
  <1>6. \A t \in Transfers : out[t].st = "NONE"
    BY DEF SInit
  <1>7. VerdictAgrees /\ RegisteredIsLive /\ OfferIsOpen
    BY <1>6 DEF SInit, VerdictAgrees, RegisteredIsLive, OfferIsOpen, Running
  <1>. QED BY <1>5, <1>7 DEF SInv

\* Every step keeps the inductive invariant and leaves resolved transfers
\* resolved.
LEMMA SNextIsSound == SInv /\ [SNext]_svars => SInv' /\ FinalStep
  <1>. SUFFICES ASSUME SInv, [SNext]_svars
                PROVE  SInv' /\ FinalStep
    OBVIOUS
  <1>1. ASSUME NEW c \in Conns, NEW t \in Transfers, PeerStep(c, t)
        PROVE  SInv' /\ FinalStep
    <2>1. ASSUME NEW off \in Offset, HandleAccept(c, t, off)
          PROVE  SInv' /\ FinalStep
      <3>1. off \in Nat
        BY DEF Offset
      <3>. QED BY <2>1, <3>1, HandleAcceptStep
    <2>. QED BY <1>1, <2>1, HandleRejectStep, HandleCompleteAckStep,
                HandleSenderErrorStep DEF PeerStep
  <1>2. ASSUME NEW t \in Transfers, TaskStep(t)
        PROVE  SInv' /\ FinalStep
    BY <1>2, OfferEndStep, DataEndStep, DoneEndStep, StreamStartStep, AckEndStep
    DEF TaskStep
  <1>3. ASSUME NEW c \in Conns, SenderReconnect(c) \/ NetworkTakes(c)
        PROVE  SInv' /\ FinalStep
    <2>1. /\ sUp' \in [Conns -> BOOLEAN]
          /\ stx' \in [Conns -> Seq(SFrame)]
          /\ file' \in Vers \cup {0}
      <3>. stx \in [Conns -> Seq(SFrame)] /\ sUp \in [Conns -> BOOLEAN]
        BY DEF SInv, STypeOK
      <3>1. CASE SenderReconnect(c)
        <4>1. <<>> \in Seq(SFrame)
          OBVIOUS
        <4>. QED BY <3>1, <4>1 DEF SenderReconnect, SInv, STypeOK
      <3>2. CASE NetworkTakes(c)
        <4>1. Tail(stx[c]) \in Seq(SFrame)
          BY <3>2 DEF NetworkTakes
        <4>. QED BY <3>2, <4>1 DEF NetworkTakes, SInv, STypeOK
      <3>. QED BY <1>3, <3>1, <3>2
    <2>2. UNCHANGED <<out, outgoing, task, gen, sNotes, sReported>>
      BY <1>3 DEF SenderReconnect, NetworkTakes
    <2>. QED BY <2>1, <2>2, OtherStep
  <1>4. ASSUME NEW v \in Edits, EditFile(v)
        PROVE  SInv' /\ FinalStep
    <2>1. /\ sUp' \in [Conns -> BOOLEAN]
          /\ stx' \in [Conns -> Seq(SFrame)]
          /\ file' \in Vers \cup {0}
      BY <1>4, EditsAreVersions DEF EditFile, SInv, STypeOK
    <2>. QED BY <1>4, <2>1, OtherStep DEF EditFile
  <1>. QED BY <1>1, <1>2, <1>3, <1>4, OfferBeginStep, CancelTransfersStep,
              SenderConnectionLostStep, UnchangedStep DEF SNext

\* SInv is an invariant of the sending half.
THEOREM SInvHolds == SSpec => []SInv
  <1>1. SInv /\ [SNext]_svars => SInv'
    BY SNextIsSound
  <1>. QED BY <1>1, SInitIsSound, PTL DEF SSpec

\* The variables of the sending half always have their types: no handler or
\* task of FileTransferSession leaves a transfer without a proper state.
THEOREM SenderTypes == SSpec => []STypeOK
  <1>1. SInv => STypeOK
    BY DEF SInv
  <1>. QED BY <1>1, SInvHolds, PTL

\* For any number of transfers and connections, what the user is told about an
\* outgoing transfer agrees with its state.
THEOREM SenderVerdictAgrees == SSpec => []VerdictAgrees
  <1>1. SInv => VerdictAgrees
    BY DEF SInv
  <1>. QED BY <1>1, SInvHolds, PTL

\* For any number of transfers and connections, _outgoing holds every
\* unresolved transfer a task works for, and no resolved one.
THEOREM SenderRegisteredIsLive == SSpec => []RegisteredIsLive
  <1>1. SInv => RegisteredIsLive
    BY DEF SInv
  <1>. QED BY <1>1, SInvHolds, PTL

\* No step revives a resolved outgoing transfer.
THEOREM SenderResolvedIsFinal == SSpec => ResolvedIsFinal
  <1>1. SInv /\ [SNext]_svars =>
          [\A t \in Transfers :
              out[t].st \in Terminal =>
                 /\ out'[t].st = out[t].st
                 /\ out[t].st # "FAILED" => sNotes'[t] = sNotes[t]]_svars
    BY SNextIsSound DEF FinalStep
  <1>. QED BY <1>1, SInvHolds, PTL DEF SSpec, ResolvedIsFinal
=============================================================================
