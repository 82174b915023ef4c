----------------------------- MODULE SecureLink -----------------------------
(***************************************************************************)
(* Secure sessions between two devices: the three-way handshake            *)
(* (core/crypto/handshake.py), the trust decisions it checks and records   *)
(* (core/trust/store.py, core/trust/revocation.py), the session that comes *)
(* out of it (core/transport/session.py) and the encrypted, numbered       *)
(* frames it carries (core/crypto/encryption.py, core/transport/secure.py, *)
(* core/transport/tcp.py).                                                 *)
(*                                                                         *)
(* Each connection has a dialer and an acceptor, and the two devices may   *)
(* dial each other at the same time.  A handler runs from one await to the *)
(* next; the acceptor awaits the finish message between reading the trust  *)
(* table and writing it.  Both devices run this program, so signatures and *)
(* keys agree.                                                             *)
(***************************************************************************)
EXTENDS Naturals, Sequences

CONSTANTS
    A, B,           \* the devices
    Conns,          \* TCP connections that may be made between them
    Dialer,         \* the device that makes each
    Talkers,        \* ends <<c, x>> that send messages
    Frail,          \* connections that the network may drop
    MaxSends        \* messages an end sends

Devices == {A, B}

ASSUME DistinctDevices == A # B
ASSUME DialerType == Dialer \in [Conns -> Devices]
ASSUME TalkersType == Talkers \subseteq Conns \X Devices
ASSUME FrailType == Frail \subseteq Conns
ASSUME MaxSendsType == MaxSends \in Nat

VARIABLES
    status,     \* of the peer in the trust table of each device
    unlocked,   \* its vault is unlocked: the trust table is attached
    signed,     \* devices that have signed a transcript
    at,         \* the stage of each end
    pre,        \* pre_decision of the acceptor of each connection
    inbox,      \* frames under way to each end
    cut,        \* connections over which nothing passes any more
    sent,       \* _send_sequence
    expected    \* _expected_recv_sequence

trust == <<status, unlocked, signed>>
channel == <<sent, expected>>
vars == <<trust, at, pre, inbox, cut, channel>>

Peer(x) == IF x = A THEN B ELSE A
Acceptor(c) == Peer(Dialer[c])

Status == {"UNKNOWN", "PENDING", "TRUSTED", "REVOKED"}
Handshaking == {"waits_init", "waits_response", "waits_finish"}
Live == {"open", "closing"}
\* "lost": the session ended, but TCPConnection.close() found _closed already
\* set and left the socket to the garbage collector.
Over == {"closed", "lost"}

Frame(kind) == [kind |-> kind, seq |-> 0]
Data(n) == [kind |-> "data", seq |-> n]
FrameSet == [kind : {"init", "response", "finish", "data", "eof"}, seq : Nat]

LTypeOK ==
    /\ status \in [Devices -> Status] /\ unlocked \in [Devices -> BOOLEAN]
    /\ signed \subseteq Devices
    /\ at \in [Conns -> [Devices -> {"idle"} \cup Handshaking \cup Live \cup Over]]
    /\ pre \in [Conns -> Status \ {"REVOKED"}]
    /\ inbox \in [Conns -> [Devices -> Seq(FrameSet)]]
    /\ \A c \in Conns, x \in Devices : \A i \in 1..Len(inbox[c][x]) :
          inbox[c][x][i].kind = "eof" => i = Len(inbox[c][x])
    /\ cut \subseteq Conns
    /\ sent \in [Conns -> [Devices -> Nat]] /\ expected \in [Conns -> [Devices -> Nat]]

Init ==
    /\ status = [x \in Devices |-> "UNKNOWN"] /\ unlocked = [x \in Devices |-> TRUE]
    /\ signed = {}
    /\ at = [c \in Conns |-> [x \in Devices |-> "idle"]]
    /\ pre = [c \in Conns |-> "UNKNOWN"]
    /\ inbox = [c \in Conns |-> [x \in Devices |-> << >>]]
    /\ cut = {}
    /\ sent = [c \in Conns |-> [x \in Devices |-> 0]] /\ expected = sent

-----------------------------------------------------------------------------
(* The connection.                                                         *)

\* What is written to an end that is gone, or over a dead connection, is lost.
Put(box, c, y, frame) ==
    IF c \in cut \/ at[c][y] \in Over THEN box
    ELSE [box EXCEPT ![c][y] = Append(@, frame)]

Arrived(c, x, kind) == inbox[c][x] # << >> /\ Head(inbox[c][x]).kind = kind
Rest(c, x) == [inbox EXCEPT ![c][x] = Tail(@)]

\* Mutant: a failed end keeps its socket.
CloseSilently(c, x) ==
    /\ at' = [at EXCEPT ![c][x] = "closed"]
    /\ inbox' = [inbox EXCEPT ![c][x] = << >>]

\* TCPConnection.close(): the peer reads the end of the stream.
Close(c, x) ==
    /\ at' = [at EXCEPT ![c][x] = "closed"]
    /\ inbox' = [Put(inbox, c, Peer(x), Frame("eof")) EXCEPT ![c][x] = << >>]

\* read_frame() has set _closed, so close() returns at once.
Lose(c, x) ==
    /\ at' = [at EXCEPT ![c][x] = "lost"]
    /\ inbox' = [inbox EXCEPT ![c][x] = << >>]

\* connect_to() and _handle_incoming(): open_tcp_connection(), and the first
\* message of the handshake.
Dial(c) ==
    /\ at[c][A] = "idle" /\ at[c][B] = "idle"
    /\ at' = [at EXCEPT ![c][Dialer[c]] = "waits_response", ![c][Acceptor(c)] = "waits_init"]
    /\ inbox' = [inbox EXCEPT ![c][Acceptor(c)] = <<Frame("init")>>]
    /\ UNCHANGED <<trust, pre, cut, channel>>

\* The network stops carrying c without telling anyone.
Cut(c) ==
    /\ c \in Frail \ cut /\ \E x \in Devices : at[c][x] \notin {"idle"} \cup Over
    /\ cut' = cut \cup {c}
    /\ inbox' = [inbox EXCEPT ![c] = [x \in Devices |-> << >>]]
    /\ UNCHANGED <<trust, at, pre, channel>>

\* The kernel gives up on a dead connection.
Reset(c, x) ==
    /\ c \in cut
    /\ \/ at[c][x] \in Handshaking /\ Close(c, x)
       \/ at[c][x] \in Live /\ Lose(c, x)
    /\ UNCHANGED <<trust, pre, cut, channel>>

-----------------------------------------------------------------------------
(* The handshake.                                                          *)

\* _check_trust(): the table must be attached and must not say REVOKED.
Admits(x) == unlocked[x] /\ status[x] # "REVOKED"

\* Mutant: record_first_seen() replaces the row.
RecordableOverwriting(x, decision, allowed) ==
    /\ unlocked[x]
    /\ decision = "UNKNOWN" => allowed

\* _record_trust() with a decision made earlier does not raise: a first
\* contact must still be unknown and the group policy must allow it.
Recordable(x, decision, allowed) ==
    /\ unlocked[x]
    /\ decision = "UNKNOWN" => status[x] = "UNKNOWN" /\ allowed

\* What it writes: record_first_seen() or touch_last_seen().
Recorded(x, decision) ==
    IF decision = "UNKNOWN" THEN [status EXCEPT ![x] = "PENDING"] ELSE status

\* perform_handshake_responder() up to its second await: the trust table is
\* only read.
OnInit(c) ==
    LET x == Acceptor(c)
    IN  /\ at[c][x] = "waits_init" /\ Arrived(c, x, "init")
        /\ \/ /\ ~Admits(x)
              /\ Close(c, x)
              /\ UNCHANGED <<signed, pre>>
           \/ /\ Admits(x)
              /\ pre' = [pre EXCEPT ![c] = status[x]]
              /\ signed' = signed \cup {x}
              /\ at' = [at EXCEPT ![c][x] = "waits_finish"]
              /\ inbox' = Put(Rest(c, x), c, Dialer[c], Frame("response"))
        /\ UNCHANGED <<status, unlocked, cut, channel>>

\* perform_handshake_initiator() from its await on: check, verify and record
\* without an await between them, then the finish message.
OnResponse(c, allowed) ==
    LET x == Dialer[c]
    IN  /\ at[c][x] = "waits_response" /\ Arrived(c, x, "response")
        /\ \/ /\ ~(Admits(x) /\ Recordable(x, status[x], allowed))
              /\ Close(c, x)
              /\ UNCHANGED <<status, signed>>
           \/ /\ Admits(x) /\ Recordable(x, status[x], allowed)
              /\ status' = Recorded(x, status[x])
              /\ signed' = signed \cup {x}
              /\ at' = [at EXCEPT ![c][x] = "open"]
              /\ inbox' = Put(Rest(c, x), c, Peer(x), Frame("finish"))
        /\ UNCHANGED <<unlocked, pre, cut, channel>>

\* Mutant: a failure to record does not end the handshake.
OnFinishUnrecorded(c, allowed) ==
    LET x == Acceptor(c)
    IN  /\ at[c][x] = "waits_finish" /\ Arrived(c, x, "finish")
        /\ at' = [at EXCEPT ![c][x] = "open"]
        /\ inbox' = Rest(c, x)
        /\ status' = IF Recordable(x, pre[c], allowed) THEN Recorded(x, pre[c]) ELSE status
        /\ UNCHANGED <<unlocked, signed, pre, cut, channel>>

\* perform_handshake_responder() from its second await on: records what the
\* table said before it.
OnFinish(c, allowed) ==
    LET x == Acceptor(c)
    IN  /\ at[c][x] = "waits_finish" /\ Arrived(c, x, "finish")
        /\ \/ /\ ~Recordable(x, pre[c], allowed)
              /\ Close(c, x)
              /\ UNCHANGED status
           \/ /\ Recordable(x, pre[c], allowed)
              /\ status' = Recorded(x, pre[c])
              /\ at' = [at EXCEPT ![c][x] = "open"]
              /\ inbox' = Rest(c, x)
        /\ UNCHANGED <<unlocked, signed, pre, cut, channel>>

\* wait_for(read_frame(reader), HANDSHAKE_TIMEOUT)
Timeout(c, x) ==
    /\ at[c][x] \in Handshaking
    /\ Close(c, x)
    /\ UNCHANGED <<trust, pre, cut, channel>>

-----------------------------------------------------------------------------
(* The session.                                                            *)

\* Mutant: a refused message uses up a number and the session goes on.
SendKeepsSession(c, x, fits) ==
    /\ <<c, x>> \in Talkers /\ at[c][x] = "open" /\ sent[c][x] < MaxSends
    /\ sent' = [sent EXCEPT ![c][x] = @ + 1]
    /\ inbox' = IF fits THEN Put(inbox, c, Peer(x), Data(sent[c][x])) ELSE inbox
    /\ UNCHANGED <<trust, at, pre, cut, expected>>

\* send(), send_binary() and send_relay_data() of the manager: encrypt() takes
\* the next number and the frame is written in the same step, so the frames of
\* several tasks leave in the order of their numbers.  A message too long for a
\* frame is refused after its number was taken, and the manager then forgets
\* the session.
Send(c, x, fits) ==
    /\ <<c, x>> \in Talkers /\ at[c][x] = "open" /\ sent[c][x] < MaxSends
    /\ sent' = [sent EXCEPT ![c][x] = @ + 1]
    /\ \/ /\ fits
          /\ inbox' = Put(inbox, c, Peer(x), Data(sent[c][x]))
          /\ UNCHANGED at
       \/ /\ ~fits
          /\ at' = [at EXCEPT ![c][x] = "closing"]
          /\ UNCHANGED inbox
    /\ UNCHANGED <<trust, pre, cut, expected>>

\* One turn of _read_loop() and receive_frame(): a frame out of sequence, or
\* any frame once the session is CLOSING, ends it.
Receive(c, x) ==
    /\ at[c][x] \in Live /\ Arrived(c, x, "data")
    /\ \/ /\ at[c][x] = "open" /\ Head(inbox[c][x]).seq = expected[c][x]
          /\ expected' = [expected EXCEPT ![c][x] = @ + 1]
          /\ inbox' = Rest(c, x)
          /\ UNCHANGED at
       \/ /\ at[c][x] = "closing" \/ Head(inbox[c][x]).seq # expected[c][x]
          /\ Close(c, x)
          /\ UNCHANGED expected
    /\ UNCHANGED <<trust, pre, cut, sent>>

\* The end of the stream: a handshake closes its socket, a session does not.
OnEof(c, x) ==
    /\ Arrived(c, x, "eof")
    /\ \/ at[c][x] \in Handshaking /\ Close(c, x)
       \/ at[c][x] \in Live /\ Lose(c, x)
    /\ UNCHANGED <<trust, pre, cut, channel>>

\* close_all(), or the manager ends the session.
Leave(c, x) ==
    /\ at[c][x] \in Live
    /\ Close(c, x)
    /\ UNCHANGED <<trust, pre, cut, channel>>

-----------------------------------------------------------------------------
(* The users.                                                              *)

\* _do_trust_approve() and approve()
Approve(x) ==
    /\ unlocked[x] /\ status[x] = "PENDING"
    /\ status' = [status EXCEPT ![x] = "TRUSTED"]
    /\ UNCHANGED <<unlocked, signed, at, pre, inbox, cut, channel>>

\* _do_trust_revoke() and revoke_device(): open sessions are left alone.
Revoke(x) ==
    /\ unlocked[x] /\ status[x] \in {"PENDING", "TRUSTED"}
    /\ status' = [status EXCEPT ![x] = "REVOKED"]
    /\ UNCHANGED <<unlocked, signed, at, pre, inbox, cut, channel>>

\* adopt_conn(): the table is detached while the vault is locked; sessions
\* stay open.
LockOrUnlock(x) ==
    /\ unlocked' = [unlocked EXCEPT ![x] = ~@]
    /\ UNCHANGED <<status, signed, at, pre, inbox, cut, channel>>

\* The task that reads an end: its handshake with the timer, then _read_loop().
Reader(c, x) ==
    \/ x = Acceptor(c) /\ OnInit(c)
    \/ x = Dialer[c] /\ \E allowed \in BOOLEAN : OnResponse(c, allowed)
    \/ x = Acceptor(c) /\ \E allowed \in BOOLEAN : OnFinish(c, allowed)
    \/ Receive(c, x) \/ OnEof(c, x) \/ Timeout(c, x)

Next ==
    \/ \E c \in Conns : Dial(c) \/ Cut(c)
    \/ \E c \in Conns, x \in Devices :
          \/ Reader(c, x) \/ Reset(c, x) \/ Leave(c, x)
          \/ \E fits \in BOOLEAN : Send(c, x, fits)
    \/ \E x \in Devices : Approve(x) \/ Revoke(x) \/ LockOrUnlock(x)

Spec == Init /\ [][Next]_vars

\* The event loop resumes a task whose frame has arrived or whose timer is due.
Fairness == \A c \in Conns, x \in Devices : WF_vars(Reader(c, x))

FairSpec == Spec /\ Fairness

-----------------------------------------------------------------------------
(* Properties.                                                             *)

\* Trust only moves forward, whatever handshakes, approvals and revocations
\* overlap: a device is never unknown again, an approval is never undone by a
\* late handshake, and a revocation is final (_record_trust(), approve(),
\* revoke_device()).
Rank == [s \in Status |-> IF s = "UNKNOWN" THEN 0 ELSE IF s = "PENDING" THEN 1
                          ELSE IF s = "TRUSTED" THEN 2 ELSE 3]

TrustMovesForward ==
    [][\A x \in Devices : Rank[status[x]] <= Rank[status'[x]]]_vars

\* A device is on record only once it has signed a handshake: a claimed
\* identity alone is never written (_record_trust()).
RecordedIsProven ==
    \A x \in Devices : status[x] # "UNKNOWN" => Peer(x) \in signed

\* While a session is open its peer is on record, and when the acceptor has
\* one both devices are on record with each other, also if the vault was locked
\* or another handshake came first (perform_handshake_responder(),
\* record_first_seen()).
SessionIsRecorded ==
    \A c \in Conns :
        /\ \A x \in Devices : at[c][x] \in Live => status[x] # "UNKNOWN"
        /\ at[c][Acceptor(c)] \in Live => status[Dialer[c]] # "UNKNOWN"

\* The numbers under way to an open end are the ones it expects next, in order:
\* no frame of an honest peer is refused as a replay, and no number, so no
\* nonce, is used twice (encrypt(), decrypt(), _send_encrypted()).
FramesAreConsecutive ==
    \A c \in Conns, x \in Devices :
        at[c][x] = "open" =>
            LET data == SelectSeq(inbox[c][x], LAMBDA f : f.kind = "data")
            IN  /\ \A i \in 1..Len(data) : data[i].seq = expected[c][x] + i - 1
                /\ expected[c][x] + Len(data) <= sent[c][Peer(x)]

\* No end is left alone: every handshake ends, also when the network or the peer
\* falls silent (HANDSHAKE_TIMEOUT; a connection is dialled once), and a session
\* does not outlive the other end.  If the peer gave up, for instance because
\* its handshake failed after this one had succeeded, this end hears of it,
\* unless the network fell silent (close(), _read_loop()).
EndsTogether ==
    <>[](\A c \in Conns, x \in Devices :
            /\ at[c][x] \notin Handshaking
            /\ c \notin cut /\ at[c][x] \in Live => at[c][Peer(x)] \notin Over)
=============================================================================
