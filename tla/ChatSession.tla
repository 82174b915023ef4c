---------------------------- MODULE ChatSession -----------------------------
(***************************************************************************)
(* Outgoing chat messages: ChatSession (core/messaging/session.py), the    *)
(* events it posts on the event bus (core/events.py), and the rows that    *)
(* VaultPersistence (core/vault/persistence.py) writes for them in the     *)
(* working copy of the vault database, which is saved by flush(), lock()   *)
(* and the auto-flush task (core/vault/database.py).                       *)
(*                                                                         *)
(* send_chat() suspends only while it awaits manager.send().  post() makes *)
(* one task per event; the tasks start in the order they were made and     *)
(* their subscribers do not suspend, so posted events are a queue.         *)
(*                                                                         *)
(* Whether the answer to a message can be read before its own send() has   *)
(* returned depends on the write buffer: drain() waits for the buffer, not *)
(* for the message, so it can when other frames were queued behind the     *)
(* message.  Backlog are the messages that have such frames.               *)
(***************************************************************************)
EXTENDS Integers, Sequences, FiniteSets

CONSTANTS
    Messages,       \* message_id values
    Conns,          \* addr_key values
    Backlog,        \* messages behind which other frames are queued
    MaxLocks,       \* bound on vault locks
    MaxCrashes      \* bound on crashes of the program

ASSUME ConnsExist == Conns # {}
ASSUME BacklogIsMessages == Backlog \subseteq Messages
ASSUME BoundsAreNatural == MaxLocks \in Nat /\ MaxCrashes \in Nat

VARIABLES
    stage,      \* send_chat() of each message: none, sending, returned
    to,         \* SentMessageState.addr_key
    pending,    \* keys of _pending
    timer,      \* timeout_task: none, running, over (fired or cancelled)
    wire,       \* messages whose bytes the peer may have received
    verdicts,   \* on_status_change() calls for each message, oldest first
    up,         \* connections the manager has registered
    posted,     \* events whose publish() task has not run
    row,        \* status column in the working copy; none: no row
    saved,      \* the same in the encrypted vault file
    unlocked,   \* vault_persistence.vault_db is not None
    locks,      \* locks so far
    crashes     \* crashes so far

session == <<stage, to, pending, timer, wire, verdicts>>
history == <<row, saved, unlocked, locks, crashes>>
vars == <<session, history, up, posted>>

Verdict == {"delivered", "failed"}
RowStatus == {"none", "pending"} \cup Verdict
Event == [type : {"sent"}, m : Messages, known : BOOLEAN]
         \cup [type : {"status"}, m : Messages, status : Verdict]

TypeOK ==
    /\ stage \in [Messages -> {"none", "sending", "returned"}]
    /\ to \in [Messages -> Conns]
    /\ pending \in SUBSET Messages
    /\ timer \in [Messages -> {"none", "running", "over"}]
    /\ wire \in SUBSET Messages
    /\ verdicts \in [Messages -> Seq(Verdict)]
    /\ up \in [Conns -> BOOLEAN]
    /\ posted \in Seq(Event)
    /\ row \in [Messages -> RowStatus]
    /\ saved \in [Messages -> RowStatus]
    /\ unlocked \in BOOLEAN
    /\ locks \in Nat
    /\ crashes \in Nat

Init ==
    /\ stage = [m \in Messages |-> "none"]
    /\ to = [m \in Messages |-> CHOOSE c \in Conns : TRUE]
    /\ pending = {}
    /\ timer = [m \in Messages |-> "none"]
    /\ wire = {}
    /\ verdicts = [m \in Messages |-> <<>>]
    /\ up = [c \in Conns |-> TRUE]
    /\ posted = <<>>
    /\ row = [m \in Messages |-> "none"]
    /\ saved = [m \in Messages |-> "none"]
    /\ unlocked = TRUE
    /\ locks = 0
    /\ crashes = 0

-----------------------------------------------------------------------------
(* Helpers.                                                                *)

Sent(m, known) == [type |-> "sent", m |-> m, known |-> known]
Status(m, s) == [type |-> "status", m |-> m, status |-> s]

\* _notify_status(): post the event, then call on_status_change().
NotifyStatus(m, s) ==
    /\ posted' = Append(posted, Status(m, s))
    /\ verdicts' = [verdicts EXCEPT ![m] = Append(@, s)]

\* timeout_task.cancel(), when there is a task.
Cancelled(m) ==
    IF timer[m] = "running" THEN [timer EXCEPT ![m] = "over"] ELSE timer

\* An entry of _pending is removed, its timer stopped and its user told.
Resolve(m, s) ==
    /\ pending' = pending \ {m}
    /\ timer' = Cancelled(m)
    /\ NotifyStatus(m, s)

-----------------------------------------------------------------------------
(* send_chat()                                                             *)

\* A text over MAX_CHAT_TEXT_SIZE is reported as failed and never tracked; so
\* is a message to a connection the manager does not have, whose send()
\* returns False without suspending.
SendAtOnceFails(c, m) ==
    /\ stage[m] = "none"
    /\ stage' = [stage EXCEPT ![m] = "returned"]
    /\ to' = [to EXCEPT ![m] = c]
    /\ NotifyStatus(m, "failed")
    /\ UNCHANGED <<pending, timer, wire, up, history>>

\* The message enters _pending before its send() is awaited.
SendBegin(c, m) ==
    /\ stage[m] = "none"
    /\ up[c]
    /\ stage' = [stage EXCEPT ![m] = "sending"]
    /\ to' = [to EXCEPT ![m] = c]
    /\ pending' = pending \cup {m}
    /\ wire' = wire \cup ({m} \cap Backlog)
    /\ UNCHANGED <<timer, verdicts, up, posted, history>>

\* send() returned False: the transport failed.
SendRefused(m) ==
    /\ stage[m] = "sending"
    /\ stage' = [stage EXCEPT ![m] = "returned"]
    /\ pending' = pending \ {m}
    /\ NotifyStatus(m, "failed")
    /\ UNCHANGED <<to, timer, wire, up, history>>

\* send() returned True.  get_peer_device_id() is asked again, so the event
\* names no device when the connection was lost meanwhile.  The timer is
\* started only for a message that is still pending.
SendAccepted(m) ==
    /\ stage[m] = "sending"
    /\ wire' = wire \cup {m}
    /\ stage' = [stage EXCEPT ![m] = "returned"]
    /\ posted' = Append(posted, Sent(m, up[to[m]]))
    /\ timer' = IF m \in pending THEN [timer EXCEPT ![m] = "running"] ELSE timer
    /\ UNCHANGED <<to, pending, verdicts, up, history>>

-----------------------------------------------------------------------------
(* What resolves a message.                                                *)

\* _handle_ack(), whatever connection the ack came in on.  An ack of a
\* message that is not pending changes nothing.
HandleAck(m) ==
    /\ m \in wire
    /\ m \in pending
    /\ Resolve(m, "delivered")
    /\ UNCHANGED <<stage, to, wire, up, history>>

\* _handle_error() for a terminal code; the others change nothing.
HandleError(c, m) ==
    /\ up[c]
    /\ m \in wire
    /\ m \in pending
    /\ to[m] = c
    /\ Resolve(m, "failed")
    /\ UNCHANGED <<stage, to, wire, up, history>>

\* Mutant: a message that times out is dropped without a word.
TimeoutWatcherSilent(m) ==
    /\ timer[m] = "running"
    /\ timer' = [timer EXCEPT ![m] = "over"]
    /\ pending' = pending \ {m}
    /\ UNCHANGED <<stage, to, wire, verdicts, posted, up, history>>

\* _timeout_watcher() after ACK_TIMEOUT.
TimeoutWatcher(m) ==
    /\ timer[m] = "running"
    /\ timer' = [timer EXCEPT ![m] = "over"]
    /\ pending' = pending \ {m}
    /\ IF m \in pending THEN NotifyStatus(m, "failed")
                        ELSE UNCHANGED <<posted, verdicts>>
    /\ UNCHANGED <<stage, to, wire, up, history>>

-----------------------------------------------------------------------------
(* VaultPersistence and the vault.                                         *)

\* Mutant: only a delivery is recorded.
RowAfterDeliveredOnly(e) ==
    CASE e.type = "status" /\ row[e.m] # "none" /\ e.status = "delivered" ->
            [row EXCEPT ![e.m] = e.status]
      [] e.type = "sent" /\ e.known -> [row EXCEPT ![e.m] = "pending"]
      [] OTHER -> row

\* _on_chat_sent() inserts or replaces the row, _on_chat_status_changed()
\* updates it if there is one.
RowAfter(e) ==
    CASE e.type = "status" /\ row[e.m] # "none" ->
            [row EXCEPT ![e.m] = e.status]
      [] e.type = "sent" /\ e.known -> [row EXCEPT ![e.m] = "pending"]
      [] OTHER -> row

\* The publish() task of the oldest event runs; a locked vault skips it.
PublishPosted ==
    /\ posted # <<>>
    /\ posted' = Tail(posted)
    /\ row' = IF unlocked THEN RowAfter(Head(posted)) ELSE row
    /\ UNCHANGED <<session, up, saved, unlocked, locks, crashes>>

\* flush(), by the auto-flush task.
Flush ==
    /\ unlocked
    /\ saved # row
    /\ saved' = row
    /\ UNCHANGED <<session, up, posted, row, unlocked, locks, crashes>>

\* _perform_hard_lock(): persistence is detached, the database flushed, the
\* working copy destroyed.
HardLock ==
    /\ unlocked
    /\ locks < MaxLocks
    /\ unlocked' = FALSE
    /\ saved' = row
    /\ locks' = locks + 1
    /\ UNCHANGED <<session, up, posted, row, crashes>>

\* A fresh working copy is decrypted and persistence reattached.
Unlock ==
    /\ ~unlocked
    /\ unlocked' = TRUE
    /\ row' = saved
    /\ UNCHANGED <<session, up, posted, saved, locks, crashes>>

\* The program dies and is started again.  Messages it had not started are
\* new to it; of the others only the saved rows are left.
Crash ==
    /\ crashes < MaxCrashes
    /\ crashes' = crashes + 1
    /\ stage' = [m \in Messages |->
                    IF stage[m] = "none" THEN "none" ELSE "returned"]
    /\ pending' = {}
    /\ timer' = [m \in Messages |-> "over"]
    /\ posted' = <<>>
    /\ row' = saved
    /\ unlocked' = TRUE
    /\ up' = [c \in Conns |-> TRUE]
    /\ UNCHANGED <<to, wire, verdicts, saved, locks>>

-----------------------------------------------------------------------------
(* Connections come and go.                                                *)

ConnectionLost(c) ==
    /\ up[c]
    /\ up' = [up EXCEPT ![c] = FALSE]
    /\ UNCHANGED <<session, posted, history>>

Reconnect(c) ==
    /\ ~up[c]
    /\ up' = [up EXCEPT ![c] = TRUE]
    /\ UNCHANGED <<session, posted, history>>

-----------------------------------------------------------------------------
SendEnds(m) == SendRefused(m) \/ SendAccepted(m)

Next ==
    \/ \E m \in Messages :
        \/ \E c \in Conns : 
            SendAtOnceFails(c, m) \/ SendBegin(c, m) \/ HandleError(c, m)
        \/ SendEnds(m)
        \/ HandleAck(m)
        \/ TimeoutWatcher(m)
    \/ PublishPosted \/ Flush \/ HardLock \/ Unlock \/ Crash
    \/ \E c \in Conns : ConnectionLost(c) \/ Reconnect(c)

Spec == Init /\ [][Next]_vars

\* A suspended send ends (drain() returns or the transport fails), a timer
\* fires, the event loop runs the tasks of post().
Fairness ==
    /\ \A m \in Messages : WF_vars(SendEnds(m)) /\ WF_vars(TimeoutWatcher(m))
    /\ WF_vars(PublishPosted)

FairSpec == Spec /\ Fairness

-----------------------------------------------------------------------------
(* Properties.                                                             *)

\* The user is told at most one outcome of a message that nothing is queued
\* behind: of an ack, an error, the timer and a failing send() one reports it.
VerdictIsFinal == \A m \in Messages \ Backlog : Len(verdicts[m]) <= 1

\* Nothing stays in _pending unwatched: send_chat() is still waiting for the
\* transport, or a timer runs that will remove the entry.  And no timer runs
\* for a message that is resolved.
PendingIsWatched ==
    \A m \in Messages :
        /\ m \in pending => stage[m] = "sending" \/ timer[m] = "running"
        /\ timer[m] = "running" => m \in pending

\* A row of the history shows an outcome only if the user was told that
\* outcome, through locks, crashes and unlocks.
HistoryIsTrue ==
    \A m \in Messages : \A s \in {row[m], saved[m]} \cap Verdict :
        \E i \in DOMAIN verdicts[m] : verdicts[m][i] = s

StatusWaits(m) ==
    \E i \in DOMAIN posted : posted[i].type = "status" /\ posted[i].m = m

\* While the vault was never locked and the program never died, the history
\* shows what the user was told last of a message that nothing is queued
\* behind, as soon as no event is under way: an outcome is not lost between the
\* session and the database.
HistoryAgrees ==
    locks = 0 /\ crashes = 0 =>
        \A m \in Messages \ Backlog :
            row[m] # "none" /\ verdicts[m] # <<>> /\ ~StatusWaits(m)
                => row[m] = verdicts[m][Len(verdicts[m])]

\* Every message that send_chat() has begun to send gets an outcome, unless
\* the program dies.
EveryMessageResolves ==
    \A m \in Messages :
        stage[m] = "sending" ~> verdicts[m] # <<>> \/ crashes > 0
=============================================================================
