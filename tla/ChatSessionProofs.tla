-------------------------- MODULE ChatSessionProofs -------------------------
(***************************************************************************)
(* Proofs about ChatSession, for any messages, connections and numbers of  *)
(* locks and crashes: nothing is pending unwatched, the history is true,   *)
(* and, when no frames queue behind a message, its outcome is final.       *)
(***************************************************************************)
EXTENDS ChatSession, TLAPS

\* How far a message can have come while send_chat() is at each stage.
Stages ==
    \A m \in Messages :
        /\ stage[m] = "none" =>
            m \notin pending /\ m \notin wire /\ verdicts[m] = <<>>
        /\ stage[m] # "returned" => timer[m] # "running"

\* Without other frames behind it, a message cannot be answered while it is
\* sent; and what is pending was not resolved before.
Unresolved ==
    \A m \in Messages \ Backlog :
        /\ stage[m] = "sending" => m \in pending /\ m \notin wire
        /\ m \in pending => verdicts[m] = <<>>

Told(m, s) == \E i \in DOMAIN verdicts[m] : verdicts[m][i] = s
ToldThen(m, s) == \E i \in DOMAIN verdicts'[m] : verdicts'[m][i] = s

\* The user has been told what the posted status events say.
PostedIsTrue ==
    \A i \in DOMAIN posted :
        posted[i].type = "status" => Told(posted[i].m, posted[i].status)

Inv == TypeOK /\ Stages /\ PendingIsWatched /\ PostedIsTrue /\ HistoryIsTrue

-----------------------------------------------------------------------------
(* Types.                                                                  *)

\* Appending keeps a sequence over a set.
LEMMA AppendIsSeq ==
    ASSUME NEW S, NEW q \in Seq(S), NEW e \in S
    PROVE  Append(q, e) \in Seq(S)
OBVIOUS

\* The two kinds of events are events.
LEMMA EventTypes ==
    /\ \A m \in Messages, b \in BOOLEAN : Sent(m, b) \in Event
    /\ \A m \in Messages, s \in Verdict : Status(m, s) \in Event
BY Zenon DEF Sent, Status, Event

\* Telling the user an outcome adds it to what was told and posted before.
LEMMA NotifyEffect ==
    ASSUME TypeOK, NEW m \in Messages, NEW s \in Verdict, NotifyStatus(m, s)
    PROVE  /\ posted' \in Seq(Event)
           /\ posted' = Append(posted, Status(m, s))
           /\ verdicts' \in [Messages -> Seq(Verdict)]
           /\ verdicts'[m] = Append(verdicts[m], s)
           /\ \A x \in Messages \ {m} : verdicts'[x] = verdicts[x]
<1>1. posted \in Seq(Event) /\ verdicts \in [Messages -> Seq(Verdict)]
  BY DEF TypeOK
<1>2. /\ posted' = Append(posted, Status(m, s))
      /\ verdicts' = [verdicts EXCEPT ![m] = Append(verdicts[m], s)]
  BY DEF NotifyStatus
<1>3. posted' \in Seq(Event)
  BY <1>1, <1>2, AppendIsSeq, EventTypes
<1>4. Append(verdicts[m], s) \in Seq(Verdict)
  BY <1>1, AppendIsSeq
<1> QED BY <1>1, <1>2, <1>3, <1>4

\* The row after an event has a row's type.
LEMMA RowTypes ==
    ASSUME TypeOK, NEW e \in Event
    PROVE  RowAfter(e) \in [Messages -> RowStatus]
<1>1. row \in [Messages -> RowStatus] /\ e.m \in Messages
  BY Zenon DEF TypeOK, Event
<1>2. e.type = "status" => e.status \in Verdict
  BY Zenon DEF Event
<1> QED BY <1>1, <1>2 DEF RowAfter, RowStatus

-----------------------------------------------------------------------------
(* What was told stays told.                                               *)

\* An outcome that is told now was not untold, and the new one is told.
LEMMA ToldGrows ==
    ASSUME TypeOK, NEW m \in Messages, NEW s \in Verdict, NotifyStatus(m, s)
    PROVE  /\ ToldThen(m, s)
           /\ \A x \in Messages, v \in Verdict : Told(x, v) => ToldThen(x, v)
<1>1. /\ verdicts'[m] = Append(verdicts[m], s)
      /\ \A x \in Messages \ {m} : verdicts'[x] = verdicts[x]
  BY NotifyEffect
<1>2. verdicts[m] \in Seq(Verdict)
  BY DEF TypeOK
<1>3. /\ Len(verdicts[m]) + 1 \in DOMAIN verdicts'[m]
      /\ verdicts'[m][Len(verdicts[m]) + 1] = s
      /\ \A i \in DOMAIN verdicts[m] :
            i \in DOMAIN verdicts'[m] /\ verdicts'[m][i] = verdicts[m][i]
  BY <1>1, <1>2
<1> QED BY <1>1, <1>3, Zenon DEF Told, ToldThen

\* A notification keeps posted events and history true.
LEMMA NotifyKeepsTruth ==
    ASSUME Inv, NEW m \in Messages, NEW s \in Verdict, NotifyStatus(m, s),
           UNCHANGED <<row, saved>>
    PROVE  PostedIsTrue' /\ HistoryIsTrue'
<1>1. /\ ToldThen(m, s)
      /\ \A x \in Messages, v \in Verdict : Told(x, v) => ToldThen(x, v)
  BY ToldGrows DEF Inv
<1>2. posted \in Seq(Event) /\ posted' = Append(posted, Status(m, s))
  BY NotifyEffect DEF Inv, TypeOK
<1>3. PostedIsTrue'
  <2> SUFFICES ASSUME NEW i \in DOMAIN posted', posted'[i].type = "status"
               PROVE  ToldThen(posted'[i].m, posted'[i].status)
    BY DEF PostedIsTrue, Told, ToldThen
  <2>1. \/ i \in DOMAIN posted /\ posted'[i] = posted[i]
        \/ posted'[i] = Status(m, s)
    BY <1>2, EventTypes
  <2>2. CASE i \in DOMAIN posted /\ posted'[i] = posted[i]
    <3>1. posted[i] \in Event
      BY <1>2, <2>2
    <3>2. posted[i].m \in Messages /\ posted[i].status \in Verdict
      BY <2>2, <3>1, Zenon DEF Event
    <3>3. Told(posted[i].m, posted[i].status)
      BY <2>2 DEF Inv, PostedIsTrue
    <3> QED BY <1>1, <2>2, <3>2, <3>3
  <2>3. CASE posted'[i] = Status(m, s)
    BY <1>1, <2>3 DEF Status
  <2> QED BY <2>1, <2>2, <2>3
<1>4. HistoryIsTrue'
  BY <1>1, Zenon DEF Inv, HistoryIsTrue, Told, ToldThen
<1> QED BY <1>3, <1>4

-----------------------------------------------------------------------------
(* Steps.                                                                  *)

Final == Unresolved /\ VerdictIsFinal

\* A message that was not resolved before may be resolved once.
LEMMA FirstVerdictIsFinal ==
    ASSUME TypeOK, VerdictIsFinal, NEW m \in Messages, NEW s \in Verdict,
           NotifyStatus(m, s), m \in Backlog \/ verdicts[m] = <<>>
    PROVE  VerdictIsFinal'
<1>1. verdicts'[m] = Append(verdicts[m], s) /\ \A x \in Messages \ {m} : verdicts'[x] = verdicts[x]
  BY NotifyEffect
<1>2. m \notin Backlog => Len(verdicts'[m]) <= 1
  BY <1>1
<1> QED BY <1>1, <1>2, Zenon DEF VerdictIsFinal

\* send_chat() gives up at once.
LEMMA SendAtOnceFailsStep ==
    ASSUME Inv, NEW c \in Conns, NEW m \in Messages, SendAtOnceFails(c, m)
    PROVE  Inv' /\ (Final => Final')
<1>1. "failed" \in Verdict
  BY DEF Verdict
<1>2. /\ stage[m] = "none" /\ stage' = [stage EXCEPT ![m] = "returned"]
      /\ to' \in [Messages -> Conns]
      /\ NotifyStatus(m, "failed")
      /\ UNCHANGED <<pending, timer, wire, up, row, saved, unlocked, locks, crashes>>
  BY DEF SendAtOnceFails, history, Inv, TypeOK
<1>3. /\ posted' \in Seq(Event)
      /\ verdicts' \in [Messages -> Seq(Verdict)]
      /\ \A x \in Messages \ {m} : verdicts'[x] = verdicts[x]
  BY <1>1, <1>2, NotifyEffect DEF Inv
<1>4. TypeOK'
  <2>1. stage' \in [Messages -> {"none", "sending", "returned"}]
    BY <1>2 DEF Inv, TypeOK
  <2> QED BY <1>2, <1>3, <2>1, Zenon DEF Inv, TypeOK
<1>5. /\ stage'[m] = "returned" /\ \A x \in Messages \ {m} : stage'[x] = stage[x]
  BY <1>2 DEF Inv, TypeOK
<1>6. Stages' /\ PendingIsWatched'
  BY <1>2, <1>3, <1>5 DEF Inv, Stages, PendingIsWatched
<1>7. PostedIsTrue' /\ HistoryIsTrue'
  BY <1>1, <1>2, NotifyKeepsTruth
<1>8. ASSUME Final PROVE Final'
  <2>1. m \notin pending /\ verdicts[m] = <<>>
    BY <1>2 DEF Inv, Stages
  <2>2. VerdictIsFinal'
    BY <1>1, <1>2, <1>8, <2>1, FirstVerdictIsFinal DEF Final, Inv
  <2>3. Unresolved'
    BY <1>2, <1>3, <1>5, <1>8, <2>1 DEF Final, Unresolved
  <2> QED BY <2>2, <2>3 DEF Final
<1> QED BY <1>4, <1>6, <1>7, <1>8 DEF Inv

\* The send was refused by the transport.
LEMMA SendRefusedStep ==
    ASSUME Inv, NEW m \in Messages, SendRefused(m)
    PROVE  Inv' /\ (Final => Final')
<1>1. "failed" \in Verdict
  BY DEF Verdict
<1>2. /\ stage[m] = "sending" /\ stage' = [stage EXCEPT ![m] = "returned"]
      /\ pending' = pending \ {m}
      /\ NotifyStatus(m, "failed")
      /\ UNCHANGED <<to, timer, wire, up, row, saved, unlocked, locks, crashes>>
  BY DEF SendRefused, history
<1>3. /\ posted' \in Seq(Event)
      /\ verdicts' \in [Messages -> Seq(Verdict)]
      /\ \A x \in Messages \ {m} : verdicts'[x] = verdicts[x]
  BY <1>1, <1>2, NotifyEffect DEF Inv
<1>4. TypeOK'
  <2>1. stage' \in [Messages -> {"none", "sending", "returned"}]
    BY <1>2 DEF Inv, TypeOK
  <2> QED BY <1>2, <1>3, <2>1, Zenon DEF Inv, TypeOK
<1>5. /\ stage'[m] = "returned" /\ \A x \in Messages \ {m} : stage'[x] = stage[x]
  BY <1>2 DEF Inv, TypeOK
<1>6. Stages' /\ PendingIsWatched'
  BY <1>2, <1>3, <1>5 DEF Inv, Stages, PendingIsWatched
<1>7. PostedIsTrue' /\ HistoryIsTrue'
  BY <1>1, <1>2, NotifyKeepsTruth
<1>8. ASSUME Final PROVE Final'
  <2>1. m \in Backlog \/ verdicts[m] = <<>>
    BY <1>2, <1>8 DEF Final, Unresolved
  <2>2. VerdictIsFinal'
    BY <1>1, <1>2, <1>8, <2>1, FirstVerdictIsFinal DEF Final, Inv
  <2>3. Unresolved'
    BY <1>2, <1>3, <1>5, <1>8, <2>1 DEF Final, Unresolved
  <2> QED BY <2>2, <2>3 DEF Final
<1> QED BY <1>4, <1>6, <1>7, <1>8 DEF Inv

\* An ack, a terminal error or the timer resolves a pending message.
LEMMA ResolveStep ==
    ASSUME Inv, NEW m \in Messages, NEW s \in Verdict,
           m \in pending, stage[m] = "sending" => m \in wire,
           pending' = pending \ {m},
           timer' \in [Messages -> {"none", "running", "over"}],
           timer'[m] # "running",
           \A x \in Messages \ {m} : timer'[x] = timer[x],
           NotifyStatus(m, s), UNCHANGED <<stage, to, wire, up, history>>
    PROVE  Inv' /\ (Final => Final')
<1>1. UNCHANGED <<stage, to, wire, up, row, saved, unlocked, locks, crashes>>
  BY DEF history
<1>2. /\ posted' \in Seq(Event)
      /\ verdicts' \in [Messages -> Seq(Verdict)]
      /\ \A x \in Messages \ {m} : verdicts'[x] = verdicts[x]
  BY NotifyEffect DEF Inv
<1>3. TypeOK'
  BY <1>1, <1>2, Zenon DEF Inv, TypeOK
<1>4. Stages' /\ PendingIsWatched'
  BY <1>1, <1>2, Zenon DEF Inv, Stages, PendingIsWatched
<1>5. PostedIsTrue' /\ HistoryIsTrue'
  BY <1>1, NotifyKeepsTruth
<1>6. ASSUME Final PROVE Final'
  <2>1. m \in Backlog \/ (verdicts[m] = <<>> /\ stage[m] # "sending")
    BY <1>6 DEF Final, Unresolved
  <2>2. VerdictIsFinal'
    BY <1>6, <2>1, FirstVerdictIsFinal DEF Final, Inv
  <2>3. Unresolved'
    BY <1>1, <1>2, <1>6, <2>1 DEF Final, Unresolved
  <2> QED BY <2>2, <2>3 DEF Final
<1> QED BY <1>3, <1>4, <1>5, <1>6 DEF Inv

\* _handle_ack(), _handle_error() and _timeout_watcher().
LEMMA AnswersStep ==
    ASSUME Inv, NEW m \in Messages,
           HandleAck(m) \/ (\E c \in Conns : HandleError(c, m)) \/ TimeoutWatcher(m)
    PROVE  Inv' /\ (Final => Final')
<1>v. "failed" \in Verdict /\ "delivered" \in Verdict
  BY DEF Verdict
<1>t. timer \in [Messages -> {"none", "running", "over"}]
  BY DEF Inv, TypeOK
<1>1. ASSUME NEW s \in Verdict, m \in wire, m \in pending, Resolve(m, s),
             UNCHANGED <<stage, to, wire, up, history>>
      PROVE  Inv' /\ (Final => Final')
  <2>1. timer' = IF timer[m] = "running" THEN [timer EXCEPT ![m] = "over"] ELSE timer
    BY <1>1 DEF Resolve, Cancelled
  <2>2. /\ timer' \in [Messages -> {"none", "running", "over"}]
        /\ timer'[m] # "running"
        /\ \A x \in Messages \ {m} : timer'[x] = timer[x]
    BY <1>t, <2>1
  <2>3. pending' = pending \ {m} /\ NotifyStatus(m, s)
    BY <1>1 DEF Resolve
  <2> QED BY <1>1, <2>2, <2>3, ResolveStep, Zenon
<1>2. CASE HandleAck(m)
  BY <1>1, <1>2, <1>v DEF HandleAck
<1>3. CASE \E c \in Conns : HandleError(c, m)
  BY <1>1, <1>3, <1>v DEF HandleError
<1>4. CASE TimeoutWatcher(m)
  <2>1. m \in pending /\ stage[m] # "sending"
    BY <1>4 DEF TimeoutWatcher, Inv, PendingIsWatched, Stages
  <2>2. /\ timer' = [timer EXCEPT ![m] = "over"]
        /\ pending' = pending \ {m} /\ NotifyStatus(m, "failed")
        /\ UNCHANGED <<stage, to, wire, up, history>>
    BY <1>4, <2>1 DEF TimeoutWatcher
  <2>3. /\ timer' \in [Messages -> {"none", "running", "over"}]
        /\ timer'[m] # "running"
        /\ \A x \in Messages \ {m} : timer'[x] = timer[x]
    BY <1>t, <2>2
  <2> QED BY <1>v, <2>1, <2>2, <2>3, ResolveStep, Zenon
<1> QED BY <1>2, <1>3, <1>4

\* Truth depends only on what was told, posted, and written.
LEMMA TruthIsKept ==
    ASSUME Inv, verdicts' = verdicts,
           \A i \in DOMAIN posted' :
                posted'[i].type = "status" =>
                    \E j \in DOMAIN posted : posted'[i] = posted[j],
           \A m \in Messages : row'[m] \in {row[m], saved[m]} \/ row'[m] \notin Verdict
                               \/ Told(m, row'[m]),
           \A m \in Messages : saved'[m] \in {row[m], saved[m]}
    PROVE  PostedIsTrue' /\ HistoryIsTrue'
<1>1. PostedIsTrue'
  BY DEF Inv, PostedIsTrue, Told
<1>2. HistoryIsTrue'
  BY DEF Inv, HistoryIsTrue, Told
<1> QED BY <1>1, <1>2

\* A message enters _pending.
LEMMA SendBeginStep ==
    ASSUME Inv, NEW c \in Conns, NEW m \in Messages, SendBegin(c, m)
    PROVE  Inv' /\ (Final => Final')
<1>1. /\ stage[m] = "none" /\ stage' = [stage EXCEPT ![m] = "sending"]
      /\ to' \in [Messages -> Conns]
      /\ pending' = pending \cup {m}
      /\ wire' = wire \cup ({m} \cap Backlog)
      /\ UNCHANGED <<timer, verdicts, up, posted, row, saved, unlocked, locks, crashes>>
  BY DEF SendBegin, history, Inv, TypeOK
<1>2. /\ stage' \in [Messages -> {"none", "sending", "returned"}]
      /\ stage'[m] = "sending" /\ \A x \in Messages \ {m} : stage'[x] = stage[x]
  BY <1>1 DEF Inv, TypeOK
<1>3. wire' \in SUBSET Messages /\ \A x \in Messages \ {m} : x \in wire' => x \in wire
  BY <1>1 DEF Inv, TypeOK
<1>4. TypeOK'
  BY <1>1, <1>2, <1>3, Zenon DEF Inv, TypeOK
<1>5. Stages' /\ PendingIsWatched'
  BY <1>1, <1>2, <1>3 DEF Inv, Stages, PendingIsWatched
<1>6. PostedIsTrue' /\ HistoryIsTrue'
  BY <1>1, TruthIsKept
<1>7. ASSUME Final PROVE Final'
  BY <1>1, <1>2, <1>7 DEF Final, Unresolved, VerdictIsFinal, Inv, Stages
<1> QED BY <1>4, <1>5, <1>6, <1>7 DEF Inv

\* The send succeeded.
LEMMA SendAcceptedStep ==
    ASSUME Inv, NEW m \in Messages, SendAccepted(m)
    PROVE  Inv' /\ (Final => Final')
<1>1. /\ stage[m] = "sending" /\ stage' = [stage EXCEPT ![m] = "returned"]
      /\ wire' = wire \cup {m}
      /\ posted' = Append(posted, Sent(m, up[to[m]]))
      /\ timer' = IF m \in pending THEN [timer EXCEPT ![m] = "running"] ELSE timer
      /\ UNCHANGED <<to, pending, verdicts, up, row, saved, unlocked, locks, crashes>>
  BY DEF SendAccepted, history
<1>2. /\ stage' \in [Messages -> {"none", "sending", "returned"}]
      /\ stage'[m] = "returned" /\ \A x \in Messages \ {m} : stage'[x] = stage[x]
  BY <1>1 DEF Inv, TypeOK
<1>3. /\ timer' \in [Messages -> {"none", "running", "over"}]
      /\ timer'[m] = IF m \in pending THEN "running" ELSE timer[m]
      /\ \A x \in Messages \ {m} : timer'[x] = timer[x]
  BY <1>1 DEF Inv, TypeOK
<1>4. Sent(m, up[to[m]]) \in Event
  <2>1. up[to[m]] \in BOOLEAN
    BY Zenon DEF Inv, TypeOK
  <2> QED BY <2>1, EventTypes, Zenon
<1>5. posted \in Seq(Event) /\ posted' \in Seq(Event)
  BY <1>1, <1>4, AppendIsSeq DEF Inv, TypeOK
<1>6. wire' \in SUBSET Messages
  BY <1>1 DEF Inv, TypeOK
<1>7. TypeOK'
  BY <1>1, <1>2, <1>3, <1>5, <1>6, Zenon DEF Inv, TypeOK
<1>8. Stages' /\ PendingIsWatched'
  BY <1>1, <1>2, <1>3 DEF Inv, Stages, PendingIsWatched
<1>9. PostedIsTrue' /\ HistoryIsTrue'
  <2>1. \A i \in DOMAIN posted' :
            \/ i \in DOMAIN posted /\ posted'[i] = posted[i]
            \/ posted'[i] = Sent(m, up[to[m]])
    BY <1>1, <1>4, <1>5
  <2>2. Sent(m, up[to[m]]).type = "sent"
    BY DEF Sent
  <2>3. \A i \in DOMAIN posted' :
            posted'[i].type = "status" =>
                \E j \in DOMAIN posted : posted'[i] = posted[j]
    BY <2>1, <2>2
  <2> QED BY <1>1, <2>3, TruthIsKept
<1>10. ASSUME Final PROVE Final'
  BY <1>1, <1>2, <1>10 DEF Final, Unresolved, VerdictIsFinal
<1> QED BY <1>7, <1>8, <1>9, <1>10 DEF Inv

\* The oldest posted event reaches the history.
LEMMA PublishStep ==
    ASSUME Inv, PublishPosted
    PROVE  Inv' /\ (Final => Final')
<1> DEFINE e == Head(posted)
<1>1. /\ posted # <<>> /\ posted' = Tail(posted)
      /\ row' = IF unlocked THEN RowAfter(e) ELSE row
      /\ UNCHANGED <<stage, to, pending, timer, wire, verdicts, up, saved, unlocked,
                     locks, crashes>>
  BY DEF PublishPosted, session
<1>2. posted \in Seq(Event) /\ row \in [Messages -> RowStatus]
  BY DEF Inv, TypeOK
<1>3. /\ e \in Event /\ 1 \in DOMAIN posted /\ e = posted[1]
      /\ Tail(posted) \in Seq(Event)
      /\ \A i \in DOMAIN Tail(posted) :
            i + 1 \in DOMAIN posted /\ Tail(posted)[i] = posted[i + 1]
  BY <1>1, <1>2
<1> HIDE DEF e
<1>4. e.m \in Messages /\ (e.type = "status" => e.status \in Verdict)
  BY <1>3, Zenon DEF Event
<1>5. row' \in [Messages -> RowStatus]
  BY <1>1, <1>2, <1>3, RowTypes, Zenon DEF Inv
<1>6. \A m \in Messages : row'[m] \in {row[m], saved[m]} \/ row'[m] \notin Verdict
                          \/ Told(m, row'[m])
  <2>1. CASE row' = row
    BY <2>1
  <2>2. CASE e.type = "status" /\ row' = [row EXCEPT ![e.m] = e.status]
    <3>1. Told(e.m, e.status)
      BY <1>3, <2>2 DEF Inv, PostedIsTrue
    <3>2. row'[e.m] = e.status /\ \A m \in Messages \ {e.m} : row'[m] = row[m]
      BY <1>2, <1>4, <2>2
    <3> QED BY <3>1, <3>2, Zenon
  <2>3. CASE row' = [row EXCEPT ![e.m] = "pending"]
    <3>1. row'[e.m] = "pending" /\ \A m \in Messages \ {e.m} : row'[m] = row[m]
      BY <1>2, <1>4, <2>3
    <3>2. "pending" \notin Verdict
      BY DEF Verdict
    <3> QED BY <3>1, <3>2, Zenon
  <2>4. row' = row \/ (e.type = "status" /\ row' = [row EXCEPT ![e.m] = e.status])
        \/ row' = [row EXCEPT ![e.m] = "pending"]
    BY <1>1, Zenon DEF RowAfter
  <2> QED BY <2>1, <2>2, <2>3, <2>4
<1>7. TypeOK'
  BY <1>1, <1>3, <1>5, Zenon DEF Inv, TypeOK
<1>8. Stages' /\ PendingIsWatched'
  BY <1>1 DEF Inv, Stages, PendingIsWatched
<1>9. PostedIsTrue' /\ HistoryIsTrue'
  BY <1>1, <1>3, <1>6, TruthIsKept
<1>10. ASSUME Final PROVE Final'
  BY <1>1, <1>10 DEF Final, Unresolved, VerdictIsFinal
<1> QED BY <1>7, <1>8, <1>9, <1>10 DEF Inv

\* Flush, lock, unlock, and connections that come and go.
LEMMA VaultAndNetworkStep ==
    ASSUME Inv, Flush \/ HardLock \/ Unlock
                \/ (\E c \in Conns : ConnectionLost(c) \/ Reconnect(c))
    PROVE  Inv' /\ (Final => Final')
<1>1. /\ UNCHANGED <<stage, to, pending, timer, wire, verdicts, posted, crashes>>
      /\ row' \in {row, saved} /\ saved' \in {row, saved}
      /\ unlocked' \in BOOLEAN /\ locks' \in {locks, locks + 1}
  BY Zenon DEF Flush, HardLock, Unlock, ConnectionLost, Reconnect, session, history, Inv,
         TypeOK
<1>2. up' \in [Conns -> BOOLEAN]
  BY Zenon DEF Flush, HardLock, Unlock, ConnectionLost, Reconnect, Inv, TypeOK
<1>3. locks' \in Nat
  BY <1>1 DEF Inv, TypeOK
<1>4. TypeOK'
  BY <1>1, <1>2, <1>3, Zenon DEF Inv, TypeOK
<1>5. Stages' /\ PendingIsWatched'
  BY <1>1 DEF Inv, Stages, PendingIsWatched
<1>6. PostedIsTrue' /\ HistoryIsTrue'
  BY <1>1, TruthIsKept
<1>7. ASSUME Final PROVE Final'
  BY <1>1, <1>7 DEF Final, Unresolved, VerdictIsFinal
<1> QED BY <1>4, <1>5, <1>6, <1>7 DEF Inv

\* A crash forgets what is pending and keeps what is saved.
LEMMA CrashStep ==
    ASSUME Inv, Crash
    PROVE  Inv' /\ (Final => Final')
<1>1. /\ crashes' = crashes + 1
      /\ stage' = [m \in Messages |-> IF stage[m] = "none" THEN "none" ELSE "returned"]
      /\ pending' = {} /\ timer' = [m \in Messages |-> "over"]
      /\ posted' = <<>> /\ row' = saved /\ unlocked' = TRUE
      /\ up' = [c \in Conns |-> TRUE]
      /\ UNCHANGED <<to, wire, verdicts, saved, locks>>
  BY DEF Crash
<1>2. TypeOK'
  <2>1. /\ stage' \in [Messages -> {"none", "sending", "returned"}]
        /\ timer' \in [Messages -> {"none", "running", "over"}]
        /\ pending' \in SUBSET Messages /\ crashes' \in Nat
    BY <1>1 DEF Inv, TypeOK
  <2>2. posted' \in Seq(Event)
    BY <1>1
  <2>3. up' \in [Conns -> BOOLEAN] /\ unlocked' \in BOOLEAN
    BY <1>1, Zenon
  <2> QED BY <1>1, <2>1, <2>2, <2>3, Zenon DEF Inv, TypeOK
<1>3. Stages' /\ PendingIsWatched'
  BY <1>1 DEF Inv, Stages, PendingIsWatched
<1>4. PostedIsTrue' /\ HistoryIsTrue'
  <2>1. DOMAIN posted' = {}
    BY <1>1
  <2> QED BY <1>1, <2>1, TruthIsKept
<1>5. ASSUME Final PROVE Final'
  BY <1>1, <1>5 DEF Final, Unresolved, VerdictIsFinal
<1> QED BY <1>2, <1>3, <1>4, <1>5 DEF Inv

-----------------------------------------------------------------------------
\* Nothing is pending, told or written at first.
LEMMA InitInv == Init => Inv /\ Final
<1> SUFFICES ASSUME Init PROVE Inv /\ Final
  OBVIOUS
<1>1. TypeOK
  <2>1. to \in [Messages -> Conns]
    BY ConnsExist, Zenon DEF Init
  <2>2. verdicts \in [Messages -> Seq(Verdict)] /\ posted \in Seq(Event)
    BY DEF Init
  <2>3. up \in [Conns -> BOOLEAN] /\ unlocked \in BOOLEAN
    BY Zenon DEF Init
  <2> QED BY <2>1, <2>2, <2>3 DEF Init, TypeOK, RowStatus
<1>2. Stages /\ PendingIsWatched
  BY DEF Init, Stages, PendingIsWatched
<1>3. PostedIsTrue /\ HistoryIsTrue
  BY DEF Init, PostedIsTrue, HistoryIsTrue, Verdict
<1>4. Final
  BY DEF Init, Final, Unresolved, VerdictIsFinal
<1> QED BY <1>1, <1>2, <1>3, <1>4 DEF Inv

\* Every step keeps the invariant, and final what is final.
LEMMA StepKeepsInv ==
    ASSUME Inv, [Next]_vars
    PROVE  Inv' /\ (Final => Final')
<1>1. CASE UNCHANGED vars
  <2>1. UNCHANGED <<stage, to, pending, timer, wire, verdicts, up, posted, row, saved,
                    unlocked, locks, crashes>>
    BY <1>1 DEF vars, session, history
  <2>2. TypeOK' /\ Stages' /\ PendingIsWatched'
    BY <2>1 DEF Inv, TypeOK, Stages, PendingIsWatched
  <2>3. PostedIsTrue' /\ HistoryIsTrue'
    BY <2>1, TruthIsKept
  <2>4. Final => Final'
    BY <2>1 DEF Final, Unresolved, VerdictIsFinal
  <2> QED BY <2>2, <2>3, <2>4 DEF Inv
<1>2. CASE Next
  <2>1. CASE \E m \in Messages, c \in Conns : SendAtOnceFails(c, m)
    BY <2>1, SendAtOnceFailsStep
  <2>2. CASE \E m \in Messages, c \in Conns : SendBegin(c, m)
    BY <2>2, SendBeginStep
  <2>3. CASE \E m \in Messages : SendRefused(m)
    BY <2>3, SendRefusedStep
  <2>4. CASE \E m \in Messages : SendAccepted(m)
    BY <2>4, SendAcceptedStep
  <2>5. CASE \E m \in Messages :
                HandleAck(m) \/ (\E c \in Conns : HandleError(c, m)) \/ TimeoutWatcher(m)
    BY <2>5, AnswersStep
  <2>6. CASE PublishPosted
    BY <2>6, PublishStep
  <2>7. CASE Flush \/ HardLock \/ Unlock
             \/ (\E c \in Conns : ConnectionLost(c) \/ Reconnect(c))
    BY <2>7, VaultAndNetworkStep
  <2>8. CASE Crash
    BY <2>8, CrashStep
  <2> QED BY <1>2, <2>1, <2>2, <2>3, <2>4, <2>5, <2>6, <2>7, <2>8 DEF Next, SendEnds
<1> QED BY <1>1, <1>2

\* The invariant holds throughout.
LEMMA InvAlways == Spec => []Inv
<1>1. Init => Inv
  BY InitInv
<1>2. Inv /\ [Next]_vars => Inv'
  BY StepKeepsInv
<1> QED BY <1>1, <1>2, PTL DEF Spec

\* The state of the chat session is always well typed.
THEOREM ChatTypes == Spec => []TypeOK
<1>1. Inv => TypeOK
  BY DEF Inv
<1> QED BY <1>1, InvAlways, PTL

\* No message stays in _pending without a send or a timer that will end it,
\* through any number of crashes, locks and lost connections.
THEOREM ChatPendingIsWatched == Spec => []PendingIsWatched
<1>1. Inv => PendingIsWatched
  BY DEF Inv
<1> QED BY <1>1, InvAlways, PTL

\* The history never shows an outcome that the user was not told.
THEOREM ChatHistoryIsTrue == Spec => []HistoryIsTrue
<1>1. Inv => HistoryIsTrue
  BY DEF Inv
<1> QED BY <1>1, InvAlways, PTL

\* The user is told at most one outcome of each message that no other frames
\* are queued behind while it is sent.
THEOREM ChatVerdictIsFinal == Spec => []VerdictIsFinal
<1>1. Init => Inv /\ Final
  BY InitInv
<1>2. (Inv /\ Final) /\ [Next]_vars => (Inv /\ Final)'
  BY StepKeepsInv
<1>3. Inv /\ Final => VerdictIsFinal
  BY DEF Final
<1> QED BY <1>1, <1>2, <1>3, PTL DEF Spec
=============================================================================
