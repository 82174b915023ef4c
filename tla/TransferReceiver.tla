-------------------------- MODULE TransferReceiver --------------------------
(***************************************************************************)
(* The receiving half of FileTransferSession (core/transfer/session.py),   *)
(* with the downloads directory it works on (core/transfer/partial.py,     *)
(* resume.py and resolve_safe_dest_path of receiver.py).                   *)
(*                                                                         *)
(* Every connection has one read loop that awaits its handlers, so         *)
(* loop[c] is where the read loop of c is suspended: reading ("idle"), in  *)
(* the prompt of _handle_offer(), or in the send of the completion ack of  *)
(* _handle_done().  Read loops of different connections interleave.        *)
(*                                                                         *)
(* The directory is modelled with inodes, because an open handle keeps     *)
(* writing to its file after the name was deleted or given to another      *)
(* file: inode i is the file that transfer i created, part[n] and dest[n]  *)
(* are what the names "<n>.part" and "<n>" refer to, where destination n   *)
(* is the offered name with its n-th collision suffix, and ino[i] holds    *)
(* the bytes and how many of the first ones fsync() has made durable.      *)
(***************************************************************************)
EXTENDS TransferBase

CONSTANTS
    MaxName,            \* collision suffixes 0 .. MaxName
    CommitInterval,     \* COMMIT_INTERVAL
    MaxIncomingSize,    \* MAX_INCOMING_FILE_SIZE
    DeviceOf,           \* authenticated device id of each connection
    Faults,             \* which operating-system faults may happen
    None

ASSUME NamesAreNatural == MaxName \in Nat
ASSUME IntervalIsPositive == CommitInterval \in Nat \ {0}
ASSUME LimitIsNatural == MaxIncomingSize \in Nat
ASSUME NoneIsNothing == None \notin Transfers

\* fsync, sidecar write, data write and open("wb") may fail; the disk may be
\* full; a partial may get older than PARTIAL_MAX_AGE_SECONDS; the process or
\* the machine may stop.
FaultKind == {"fsync", "meta", "write", "open", "space", "age", "crash"}

VARIABLES
    part,       \* inode of each .part file, or None
    meta,       \* sidecar of each .part file, or None
    dest,       \* inode of each destination file, or None
    ino,        \* contents of the inodes
    inc,        \* the IncomingTransfer objects
    incoming,   \* keys of _incoming
    loop,       \* where the read loop of each connection is
    rNotes,     \* TransferCompleted notifications posted for each transfer
    rUp,        \* connections the manager has registered
    rtx,        \* frames sent on each connection, oldest first
    rReported   \* keys of _reported_errors

disk == <<part, meta, dest, ino>>
rvars == <<part, meta, dest, ino, inc, incoming, loop, rNotes, rUp, rtx,
           rReported>>

Names == 0 .. MaxName

Sidecar == [dev : {DeviceOf[c] : c \in Conns}, ver : Vers, committed : Nat,
            aged : BOOLEAN]

Inode == [data : Seq(Cell), synced : Nat]

Incoming == [st : IncomingState, conn : Conns, name : Names, ver : Vers,
             off : Nat, recv : Nat, last : Nat, first : BOOLEAN,
             ino : Transfers \cup {None}]

Idle == [pc |-> "idle"]

LoopPoint ==
    {Idle}
    \cup [pc : {"prompt"}, t : Transfers, name : Names, off : Nat, ver : Vers]
    \cup [pc : {"verified"}, t : Transfers, ok : BOOLEAN]

Reason == {"complete", "connection_lost", "peer_error", "aborted",
           "checksum_mismatch"}

RFrame ==
    [type : {"accept"}, t : Transfers, off : Nat]
    \cup [type : {"reject"}, t : Transfers]
    \cup [type : {"ack"}, t : Transfers, ok : BOOLEAN]
    \cup [type : {"error"}, t : Transfers, terminal : BOOLEAN]

RTypeOK ==
    /\ part \in [Names -> Transfers \cup {None}]
    /\ meta \in [Names -> Sidecar \cup {None}]
    /\ dest \in [Names -> Transfers \cup {None}]
    /\ ino \in [Transfers -> Inode]
    /\ inc \in [Transfers -> Incoming]
    /\ incoming \in SUBSET Transfers
    /\ loop \in [Conns -> LoopPoint]
    /\ rNotes \in [Transfers -> Seq(Reason)]
    /\ rUp \in [Conns -> BOOLEAN]
    /\ rtx \in [Conns -> Seq(RFrame)]
    /\ rReported \in SUBSET (Conns \X Transfers)

Empty == [data |-> <<>>, synced |-> 0]

RInit ==
    /\ part = [n \in Names |-> None]
    /\ meta = [n \in Names |-> None]
    /\ dest = [n \in Names |-> None]
    /\ ino = [t \in Transfers |-> Empty]
    /\ inc = [t \in Transfers |->
                [st |-> "NONE", conn |-> CHOOSE c \in Conns : TRUE, name |-> 0,
                 ver |-> CHOOSE v \in Vers : TRUE, off |-> 0, recv |-> 0,
                 last |-> 0, first |-> FALSE, ino |-> None]]
    /\ incoming = {}
    /\ loop = [c \in Conns |-> Idle]
    /\ rNotes = [t \in Transfers |-> <<>>]
    /\ rUp = [c \in Conns |-> TRUE]
    /\ rtx = [c \in Conns |-> <<>>]
    /\ rReported = {}

-----------------------------------------------------------------------------
(* partial.py and resume.py                                                *)

\* discard() and the os.remove() of a path: the name is gone.
Without(f, N) == [n \in Names |-> IF n \in N THEN None ELSE f[n]]

\* write_meta(): an atomic, durable replacement of the sidecar of n.
WithMeta(m, n, c, v, committed) ==
    [m EXCEPT ![n] = [dev |-> DeviceOf[c], ver |-> v, committed |-> committed,
                      aged |-> FALSE]]

\* The partials sweep_expired() removes.
Expired == {n \in Names : meta[n] # None /\ meta[n].aged}

\* find_resumable(): the partials of this exact offer, of which the most
\* recently updated one is used.
Resumable(p, m, c, v) ==
    {n \in Names : /\ p[n] # None
                   /\ m[n] # None
                   /\ m[n].dev = DeviceOf[c]
                   /\ m[n].ver = v}

\* Mutant: the size of the file is believed.
ResumeOffsetOfFile(i, m) == Aligned(Len(ino[i].data))

\* resume_offset_for(): the smaller of what the sidecar says and what the
\* file holds, on a chunk boundary.
ResumeOffset(i, m) == Aligned(SmallerOf(m.committed, Len(ino[i].data)))

\* Mutant: only partials make a name taken.
FreeNamesButParts(p) == {n \in Names : p[n] = None}

\* resolve_safe_dest_path(): the first name with neither file nor partial.
FreeNames(p) == {n \in Names : p[n] = None /\ dest[n] = None}
FreshName(p) == CHOOSE n \in FreeNames(p) : \A k \in FreeNames(p) : n <= k

\* seek(k) and truncate(k) of a file.
Truncated(f, k) ==
    [data |-> [i \in 1 .. k |-> IF i <= Len(f.data) THEN f.data[i] ELSE Zero],
     synced |-> SmallerOf(f.synced, k)]

\* write() of len bytes of version v at position pos.
Written(f, pos, len, v) ==
    [data |-> [i \in 1 .. (IF pos + len > Len(f.data) THEN pos + len
                           ELSE Len(f.data)) |->
                 IF i > pos /\ i <= pos + len THEN <<v, i>>
                 ELSE IF i <= Len(f.data) THEN f.data[i] ELSE Zero],
     synced |-> SmallerOf(f.synced, pos)]

\* flush() and fsync().
Synced(f) == [f EXCEPT !.synced = Len(f.data)]

-----------------------------------------------------------------------------
(* _handle_offer()                                                         *)

\* send() on connection c, once the transport has room.
Send(c, frame) ==
    /\ Len(rtx[c]) < QueueCap
    /\ rtx' = [rtx EXCEPT ![c] = Append(@, frame)]

Held(n) == \E a \in incoming : inc[a].name = n

\* Refuse without asking the user; the directory becomes p, m.
Refuse(c, t, p, m) ==
    /\ part' = p
    /\ meta' = m
    /\ Send(c, [type |-> "reject", t |-> t])
    /\ UNCHANGED loop

\* Free space is checked, then the user is asked and the read loop waits.
Ask(c, t, n, off, v, p, m) ==
    \/ "space" \in Faults /\ Refuse(c, t, p, m)
    \/ /\ part' = p
       /\ meta' = m
       /\ loop' = [loop EXCEPT ![c] = [pc |-> "prompt", t |-> t, name |-> n,
                                       off |-> off, ver |-> v]]
       /\ UNCHANGED rtx

\* An offer of version v.  Expired partials are swept first.  An id that was
\* offered is never offered again (inc[t].st leaves "NONE").
HandleOffer(c, t, v) ==
    LET p == Without(part, Expired)
        m == Without(meta, Expired)
        found == Resumable(p, m, c, v)
        refused == \/ SizeOf[v] > MaxIncomingSize
                   \/ \E a \in incoming : inc[a].conn = c
        Fresh(D) ==
            LET q == Without(p, D)
                n == FreshName(q) IN
            /\ FreeNames(q) # {}
            /\ IF Held(n) THEN Refuse(c, t, q, Without(m, D))
               ELSE Ask(c, t, n, 0, v, q, Without(m, D))
    IN
    /\ rUp[c]
    /\ loop[c] = Idle
    /\ inc[t].st = "NONE"
    /\ inc' = [inc EXCEPT ![t].st = "OFFERED"]
    /\ \/ refused /\ Refuse(c, t, p, m)
       \/ ~refused /\ found = {} /\ Fresh({})
       \/ \E n \in found :
            /\ ~refused
            /\ IF Held(n) THEN Refuse(c, t, p, m)
               ELSE IF ResumeOffset(p[n], m[n]) > 0 /\ dest[n] = None
               THEN Ask(c, t, n, ResumeOffset(p[n], m[n]), v, p, m)
               ELSE Fresh({n})
    /\ UNCHANGED <<dest, ino, incoming, rNotes, rUp, rReported>>

\* The user accepts: what was decided before the prompt is used as it is.
Accept(c) ==
    LET t == loop[c].t
        n == loop[c].name
        resumed == loop[c].off > 0 /\ part[n] # None
        i == IF resumed THEN part[n] ELSE t
        off == IF resumed THEN loop[c].off ELSE 0
        m == IF resumed THEN meta ELSE Without(meta, {n})
    IN
    /\ loop[c].pc = "prompt"
    /\ part' = [part EXCEPT ![n] = i]
    /\ ino' = [ino EXCEPT ![i] = IF resumed THEN Truncated(@, off) ELSE Empty]
    /\ \/ meta' = WithMeta(m, n, c, loop[c].ver, off)
       \/ "meta" \in Faults /\ meta' = m
    /\ inc' = [inc EXCEPT ![t] =
                [st |-> "ACCEPTED", conn |-> c, name |-> n,
                 ver |-> loop[c].ver, off |-> off, recv |-> off, last |-> off,
                 first |-> off = 0, ino |-> i]]
    /\ incoming' = incoming \cup {t}
    /\ Send(c, [type |-> "accept", t |-> t, off |-> off])
    /\ loop' = [loop EXCEPT ![c] = Idle]
    /\ UNCHANGED <<dest, rNotes, rUp, rReported>>

\* The user accepts and open("wb") raises: the bus logs it, nobody is told.
AcceptFails(c) ==
    LET n == loop[c].name IN
    /\ "open" \in Faults
    /\ loop[c].pc = "prompt"
    /\ loop[c].off = 0 \/ part[n] = None
    /\ part' = Without(part, {n})
    /\ meta' = Without(meta, {n})
    /\ loop' = [loop EXCEPT ![c] = Idle]
    /\ UNCHANGED <<dest, ino, inc, incoming, rNotes, rUp, rtx, rReported>>

\* The user declines; a resumable partial goes with the offer.
Decline(c) ==
    LET N == IF loop[c].off > 0 THEN {loop[c].name} ELSE {} IN
    /\ loop[c].pc = "prompt"
    /\ part' = Without(part, N)
    /\ meta' = Without(meta, N)
    /\ Send(c, [type |-> "reject", t |-> loop[c].t])
    /\ loop' = [loop EXCEPT ![c] = Idle]
    /\ UNCHANGED <<dest, ino, inc, incoming, rNotes, rUp, rReported>>

-----------------------------------------------------------------------------
(* _handle_chunk() and _handle_done()                                      *)

\* _report_once(): a frame for a transfer that is not in _incoming.  (Every
\* transfer that is there accepts chunks and file_done: LivePartIntact below.)
UnknownTransfer(c, t) ==
    /\ rUp[c]
    /\ loop[c] = Idle
    /\ t \notin incoming
    /\ IF <<c, t>> \in rReported
       THEN UNCHANGED <<rReported, rtx>>
       ELSE /\ rReported' = rReported \cup {<<c, t>>}
            /\ Send(c, [type |-> "error", t |-> t, terminal |-> TRUE])
    /\ UNCHANGED <<part, meta, dest, ino, inc, incoming, loop, rNotes, rUp>>

\* The first chunk of a resumed transfer is at offset 0: the sender did not
\* resume.
Restarts(r, off) == r.off > 0 /\ ~r.first /\ off # r.recv /\ off = 0

\* The transfer and its file once a restart, if any, has been taken in.
AfterRestart(r, off) ==
    IF Restarts(r, off)
    THEN [r EXCEPT !.recv = 0, !.off = 0, !.last = 0, !.first = TRUE,
                   !.st = "RECEIVING"]
    ELSE [r EXCEPT !.first = TRUE, !.st = "RECEIVING"]

FileAfterRestart(r, off) ==
    IF Restarts(r, off) THEN Truncated(ino[r.ino], 0) ELSE ino[r.ino]

InOrder(s, off, len) == off = s.recv /\ s.recv + len <= SizeOf[s.ver]

\* Mutant: the sidecar advances with every chunk and nothing is synced.
WriteChunkUnsynced(c, t, off, len, v) ==
    LET s == AfterRestart(inc[t], off) IN
    /\ rUp[c]
    /\ loop[c] = Idle
    /\ t \in incoming
    /\ InOrder(s, off, len)
    /\ ino' = [ino EXCEPT ![s.ino] =
                Written(FileAfterRestart(inc[t], off), s.recv, len, v)]
    /\ inc' = [inc EXCEPT ![t] = [s EXCEPT !.recv = @ + len]]
    /\ meta' = WithMeta(meta, s.name, s.conn, s.ver, Aligned(s.recv + len))
    /\ UNCHANGED <<part, dest, incoming, loop, rNotes, rUp, rtx, rReported>>

\* A chunk is appended, and a checkpoint taken when one is due.
WriteChunk(c, t, off, len, v) ==
    LET s == AfterRestart(inc[t], off)
        got == s.recv + len
        f == Written(FileAfterRestart(inc[t], off), s.recv, len, v)
        m == IF Restarts(inc[t], off)
             THEN WithMeta(meta, s.name, s.conn, s.ver, 0) ELSE meta
        due == got - s.last >= CommitInterval
    IN
    /\ rUp[c]
    /\ loop[c] = Idle
    /\ t \in incoming
    /\ InOrder(s, off, len)
    /\ \/ /\ due
          /\ ino' = [ino EXCEPT ![s.ino] = Synced(f)]
          /\ inc' = [inc EXCEPT ![t] = [s EXCEPT !.recv = got,
                                                 !.last = Aligned(got)]]
          /\ \/ meta' = WithMeta(m, s.name, s.conn, s.ver, Aligned(got))
             \/ "meta" \in Faults /\ meta' \in {meta, m}
       \/ /\ ~due \/ "fsync" \in Faults
          /\ ino' = [ino EXCEPT ![s.ino] = f]
          /\ inc' = [inc EXCEPT ![t] = [s EXCEPT !.recv = got]]
          /\ \/ meta' = m
             \/ "meta" \in Faults /\ meta' = meta
    /\ UNCHANGED <<part, dest, incoming, loop, rNotes, rUp, rtx, rReported>>

\* _abort_incoming(): a chunk out of order or beyond the size, or a write that
\* failed.  The partial goes, and so does whatever is at the destination.
AbortIncoming(c, t, off, len) ==
    LET r == inc[t] IN
    /\ rUp[c]
    /\ loop[c] = Idle
    /\ t \in incoming
    /\ \/ ~InOrder(AfterRestart(r, off), off, len)
       \/ "write" \in Faults
    /\ part' = Without(part, {r.name})
    /\ meta' = Without(meta, {r.name})
    /\ dest' = Without(dest, {r.name})
    /\ ino' = [ino EXCEPT ![r.ino] = FileAfterRestart(r, off)]
    /\ inc' = [inc EXCEPT ![t].st = "FAILED"]
    /\ incoming' = incoming \ {t}
    /\ Send(r.conn, [type |-> "ack", t |-> t, ok |-> FALSE])
    /\ rNotes' = [rNotes EXCEPT ![t] = Append(@, "aborted")]
    /\ UNCHANGED <<loop, rUp, rReported>>

\* Mutant: the length is compared and the hash is not.
HandleDoneUnhashed(c, t) ==
    LET ok == inc[t].recv = SizeOf[inc[t].ver] IN
    /\ rUp[c]
    /\ loop[c] = Idle
    /\ t \in incoming
    /\ incoming' = incoming \ {t}
    /\ inc' = [inc EXCEPT ![t].st = "VERIFYING"]
    /\ loop' = [loop EXCEPT ![c] = [pc |-> "verified", t |-> t, ok |-> ok]]
    /\ Send(c, [type |-> "ack", t |-> t, ok |-> ok])
    /\ UNCHANGED <<part, meta, dest, ino, rNotes, rUp, rReported>>

\* file_done: the transfer leaves _incoming, the file at part_path is hashed
\* and the ack is sent.  If there is no such file the handler raises.
HandleDone(c, t) ==
    LET r == inc[t]
        ok == /\ ino[part[r.name]].data = Content(r.ver)
              /\ r.recv = SizeOf[r.ver]
    IN
    /\ rUp[c]
    /\ loop[c] = Idle
    /\ t \in incoming
    /\ incoming' = incoming \ {t}
    /\ inc' = [inc EXCEPT ![t].st = "VERIFYING"]
    /\ IF part[r.name] = None
       THEN UNCHANGED <<loop, rtx>>
       ELSE /\ loop' = [loop EXCEPT ![c] = [pc |-> "verified", t |-> t,
                                            ok |-> ok]]
            /\ Send(c, [type |-> "ack", t |-> t, ok |-> ok])
    /\ UNCHANGED <<part, meta, dest, ino, rNotes, rUp, rReported>>

\* The send of the ack ended and its outcome is applied: finalize_part_file()
\* and discard(), or discard() alone.
Finish(c) ==
    LET t == loop[c].t
        n == inc[t].name
    IN
    /\ loop[c].pc = "verified"
    /\ loop' = [loop EXCEPT ![c] = Idle]
    /\ IF loop[c].ok /\ part[n] = None
       THEN UNCHANGED <<part, meta, dest, inc, rNotes>>
       ELSE /\ dest' = [dest EXCEPT ![n] = IF loop[c].ok THEN part[n] ELSE @]
            /\ part' = Without(part, {n})
            /\ meta' = Without(meta, {n})
            /\ inc' = [inc EXCEPT ![t].st =
                        IF loop[c].ok THEN "COMPLETED" ELSE "FAILED"]
            /\ rNotes' = [rNotes EXCEPT ![t] =
                Append(@, IF loop[c].ok THEN "complete" ELSE "checksum_mismatch")]
    /\ UNCHANGED <<ino, incoming, rUp, rtx, rReported>>

-----------------------------------------------------------------------------
(* Transfers that stop.                                                    *)

\* The body shared by handle_connection_lost() and _fail_incoming(): sync and
\* close the file, record what was received, keep partial and sidecar.
StopIncoming(T, why) ==
    LET Of(n) == {t \in T : inc[t].name = n} IN
    /\ \/ ino' = [i \in Transfers |-> IF \E t \in T : inc[t].ino = i
                                      THEN Synced(ino[i]) ELSE ino[i]]
       \/ "fsync" \in Faults /\ ino' = ino
    /\ \/ meta' = [n \in Names |->
                    IF Of(n) = {} \/ part[n] = None THEN meta[n]
                    ELSE LET t == CHOOSE t \in Of(n) : TRUE IN
                         [dev |-> DeviceOf[inc[t].conn], ver |-> inc[t].ver,
                          committed |-> Aligned(inc[t].recv), aged |-> FALSE]]
       \/ "meta" \in Faults /\ meta' = meta
    /\ inc' = [t \in Transfers |-> IF t \in T THEN [inc[t] EXCEPT !.st = "FAILED"]
                                   ELSE inc[t]]
    /\ incoming' = incoming \ T
    /\ rNotes' = [t \in Transfers |-> IF t \in T THEN Append(rNotes[t], why)
                                      ELSE rNotes[t]]
    /\ UNCHANGED <<part, dest>>

\* The incoming half of _handle_error().
HandleReceiverError(c, t, terminal) ==
    /\ rUp[c]
    /\ loop[c] = Idle
    /\ IF t \in incoming /\ inc[t].conn = c /\ terminal
       THEN StopIncoming({t}, "peer_error")
       ELSE UNCHANGED <<part, meta, dest, ino, inc, incoming, rNotes>>
    /\ UNCHANGED <<loop, rUp, rtx, rReported>>

\* Mutant: PeerDisconnected does not reach the session.
ReceiverConnectionLostUnheard(c) ==
    /\ rUp[c]
    /\ loop[c] = Idle
    /\ rUp' = [rUp EXCEPT ![c] = FALSE]
    /\ UNCHANGED <<part, meta, dest, ino, inc, incoming, loop, rNotes, rtx,
                   rReported>>

\* The read loop of c ends: PeerDisconnected, handle_connection_lost().
ReceiverConnectionLost(c) ==
    /\ rUp[c]
    /\ loop[c] = Idle
    /\ rUp' = [rUp EXCEPT ![c] = FALSE]
    /\ StopIncoming({t \in incoming : inc[t].conn = c}, "connection_lost")
    /\ UNCHANGED <<loop, rtx, rReported>>

\* What a crash leaves of a file: the durable bytes, and of the others the
\* first k, as they were or zeroed.
Surviving(f, k, zeroed) ==
    LET end == IF k <= f.synced THEN f.synced ELSE SmallerOf(k, Len(f.data)) IN
    [data |-> [i \in 1 .. end |-> IF zeroed /\ i > f.synced THEN Zero
                                  ELSE f.data[i]],
     synced |-> f.synced]

\* The process or the machine stops and the program is started again: memory
\* is lost and __init__() sweeps the directory.
CrashAndRestart(k, zeroed) ==
    /\ "crash" \in Faults
    /\ ino' = [i \in Transfers |-> Surviving(ino[i], k, zeroed)]
    /\ part' = Without(part, Expired)
    /\ meta' = Without(meta, Expired)
    /\ incoming' = {}
    /\ loop' = [c \in Conns |-> Idle]
    /\ rUp' = [c \in Conns |-> FALSE]
    /\ rReported' = {}
    /\ UNCHANGED <<dest, inc, rNotes, rtx>>

-----------------------------------------------------------------------------
(* The receiver against arbitrary peers.                                   *)

ReceiverReconnect(c) ==
    /\ ~rUp[c]
    /\ rUp' = [rUp EXCEPT ![c] = TRUE]
    /\ rtx' = [rtx EXCEPT ![c] = <<>>]
    /\ UNCHANGED <<part, meta, dest, ino, inc, incoming, loop, rNotes,
                   rReported>>

PeerTakes(c) ==
    /\ rtx[c] # <<>>
    /\ rtx' = [rtx EXCEPT ![c] = Tail(@)]
    /\ UNCHANGED <<part, meta, dest, ino, inc, incoming, loop, rNotes, rUp,
                   rReported>>

\* PARTIAL_MAX_AGE_SECONDS pass without an update of the sidecar of n.
GrowOld(n) ==
    /\ "age" \in Faults
    /\ meta[n] # None
    /\ ~meta[n].aged
    /\ meta' = [meta EXCEPT ![n].aged = TRUE]
    /\ UNCHANGED <<part, dest, ino, inc, incoming, loop, rNotes, rUp, rtx,
                   rReported>>

Offsets == 0 .. (CHOOSE k \in {SizeOf[v] : v \in Vers} :
                    \A v \in Vers : SizeOf[v] <= k)

\* Frames about a transfer come on the connection it was offered on.
PeerFrame(c, t) ==
    \/ UnknownTransfer(c, t)
    \/ \E terminal \in BOOLEAN : HandleReceiverError(c, t, terminal)
    \/ /\ inc[t].conn = c
       /\ \/ HandleDone(c, t)
          \/ \E off \in Offsets, len \in 1 .. ChunkSize :
                \/ AbortIncoming(c, t, off, len)
                \/ \E v \in Vers : WriteChunk(c, t, off, len, v)

RNext ==
    \/ \E c \in Conns, t \in Transfers :
          PeerFrame(c, t) \/ \E v \in Vers : HandleOffer(c, t, v)
    \/ \E c \in Conns :
          \/ Accept(c) \/ AcceptFails(c) \/ Decline(c) \/ Finish(c)
          \/ ReceiverConnectionLost(c) \/ ReceiverReconnect(c) \/ PeerTakes(c)
    \/ \E k \in Offsets, zeroed \in BOOLEAN : CrashAndRestart(k, zeroed)

RSpec == RInit /\ [][RNext]_rvars

-----------------------------------------------------------------------------
(* Properties.                                                             *)

\* The .part file of a transfer in _incoming is the file the transfer writes
\* to, no two of them share one, and all of them can take another chunk: no
\* second offer, sweep or refusal pulls the file from under a live transfer
\* (the busy checks of _handle_offer).
LivePartIntact ==
    /\ \A t \in incoming : /\ part[inc[t].name] = inc[t].ino
                           /\ inc[t].st \in {"ACCEPTED", "RECEIVING"}
    /\ \A t, u \in incoming : inc[t].name = inc[u].name => t = u

\* "Nothing beyond committed is ever trusted": what a later offer would resume
\* from is durable, at every moment and after any crash
\* (_checkpoint_incoming, handle_connection_lost, _fail_incoming, accept and
\* restart against resume_offset_for).
TrustedIsDurable ==
    \A n \in Names :
        part[n] # None /\ meta[n] # None =>
            ResumeOffset(part[n], meta[n]) <= ino[part[n]].synced

\* A file gets its final name only as one whole content that a peer offered:
\* the hash computed over part_path before the ack is still right for the file
\* that finalize_part_file() renames after it (_handle_done).
PublishedIsWhole ==
    [][\A n \in Names :
          dest'[n] \notin {None, dest[n]} =>
              \E v \in Vers : ino'[dest'[n]].data = Content(v)]_rvars

\* A finished download is never overwritten, changed or removed by a later
\* transfer (resolve_safe_dest_path, os.replace in finalize_part_file,
\* os.remove(dest_path) in _abort_incoming); only a crash can take the bytes
\* that were not synced.
PublishedIsKept ==
    [][\A n \in Names :
          dest[n] # None =>
              /\ dest'[n] = dest[n]
              /\ \/ ino'[dest[n]].data = ino[dest[n]].data
                 \/ /\ incoming' = {}
                    /\ \E k \in Offsets, zeroed \in BOOLEAN :
                          ino'[dest[n]] = Surviving(ino[dest[n]], k, zeroed)]_rvars
=============================================================================
