------------------------- MODULE ConnectionManager --------------------------
(***************************************************************************)
(* ConnectionManager (core/transport/manager.py): sessions by addr_key,    *)
(* their handshakes, read loops, state machines and clean-up, failing      *)
(* sends, relay pipes (this node forwards for two others) and relay        *)
(* tunnels (a session of this node whose bytes travel inside another one). *)
(*                                                                         *)
(* A session is one TCP connection or one tunnel, used once.  phase[s] is  *)
(* the await at which the coroutine that owns it is suspended.  The        *)
(* subscribers of PeerConnected and TrustRequired do not suspend, so a     *)
(* handshake ends, registers its session and starts the read loop in one   *)
(* step.  What a frame says is abstracted: it is an application frame, a   *)
(* malformed one, or a relay chunk.                                        *)
(***************************************************************************)
EXTENDS Integers, FiniteSets

CONSTANTS
    Sessions,           \* SecureSession objects
    DialKeys,           \* "ip:port" keys that connect_to() may dial
    InKeys,             \* keys of peers that connect to us
    Devices,            \* device ids of peers
    MaxConnections,     \* max_connections
    MaxSends,           \* bound on sends that are suspended at a time
    Habits,             \* what the callers do, see below
    None                \* a value that is no session, key or device

\* reuse:       connect_to() for a key whose earlier session has not ended,
\*              because it is still dialling or its read loop still cleans up;
\* share_relay: a second tunnel through a relay session that has one;
\* tunnel:      tunnels at all;  pipe: relay pipes;  close_all: shutdown.
ASSUME HabitsAreKnown ==
    Habits \subseteq {"reuse", "share_relay", "tunnel", "pipe", "close_all"}
ASSUME LimitsAreNatural == MaxConnections \in Nat /\ MaxSends \in Nat
ASSUME NoneIsNothing == None \notin Sessions

RelayKey(d) == <<"relay", d>>

Keys == DialKeys \cup InKeys \cup {RelayKey(d) : d \in Devices}

VARIABLES
    phase,      \* see Phase
    key,        \* session.addr_key
    peer,       \* session.peer_device_id
    over,       \* key of the session a tunnel runs through; None for TCP
    stream,     \* open, eof (the peer sent FIN), lost (reset), closed by us
    shut,       \* TCPConnection._closed
    conns,      \* _connections: [Keys -> Sessions or None]
    states,     \* _connection_states: [Keys -> ConnectionState or None]
    sends,      \* suspended send(): <<addr_key, session, caller>>, see SendTo
    pipes,      \* _relay_pipes
    tunnels,    \* _relay_tunnels: whose reader a relay chunk feeds
    tunnelOf,   \* _tunnel_r_keys
    closing,    \* sessions close_all() has still to close; None: not running
    listening   \* the server socket accepts connections

ident == <<key, peer, over>>
relay == <<pipes, tunnels, tunnelOf>>
server == <<closing, listening>>
vars == <<phase, ident, stream, shut, conns, states, sends, relay, server>>

\* accepting, dialling, tunnelling, welcoming: the four handshakes;
\* answered: a tunnel's handshake has read what it needs from the other end;
\* reading: in receive(); handling: in the handlers of a frame;
\* reporting: in the send of INVALID_FRAME; ending: in session.close();
\* ended: PeerDisconnected published; refused: never registered.
Handshake == {"accepting", "dialling", "tunnelling", "welcoming", "answered"}
Serving == {"reading", "handling", "reporting"}
Phase == {"unused", "ending", "ended", "refused"} \cup Handshake \cup Serving

ConnectionState == {"ESTABLISHED", "CLOSING"}

TypeOK ==
    /\ phase \in [Sessions -> Phase]
    /\ key \in [Sessions -> Keys \cup {None}]
    /\ peer \in [Sessions -> Devices \cup {None}]
    /\ over \in [Sessions -> Keys \cup {None}]
    /\ stream \in [Sessions -> {"open", "eof", "lost", "closed"}]
    /\ shut \in [Sessions -> BOOLEAN]
    /\ conns \in [Keys -> Sessions \cup {None}]
    /\ states \in [Keys -> ConnectionState \cup {None}]
    /\ sends \in SUBSET (Keys \X Sessions \X (Sessions \cup {None}))
    /\ pipes \in [Keys -> Keys \cup {None}]
    /\ tunnels \in [Keys -> Sessions \cup {None}]
    /\ tunnelOf \in [Keys -> Keys \cup {None}]
    /\ closing \in (SUBSET Sessions) \cup {None}
    /\ listening \in BOOLEAN

Init ==
    /\ phase = [s \in Sessions |-> "unused"]
    /\ key = [s \in Sessions |-> None]
    /\ peer = [s \in Sessions |-> None]
    /\ over = [s \in Sessions |-> None]
    /\ stream = [s \in Sessions |-> "open"]
    /\ shut = [s \in Sessions |-> FALSE]
    /\ conns = [k \in Keys |-> None]
    /\ states = [k \in Keys |-> None]
    /\ sends = {}
    /\ pipes = [k \in Keys |-> None]
    /\ tunnels = [k \in Keys |-> None]
    /\ tunnelOf = [k \in Keys |-> None]
    /\ closing = None
    /\ listening = TRUE

Registered == {conns[k] : k \in Keys} \ {None}
IsTunnel(s) == over[s] # None

\* require_established(); a key without a state machine is let through.
MayDispatch(s) == states[key[s]] # "CLOSING"

-----------------------------------------------------------------------------
(* Handshakes and registration.                                            *)

BelowLimit == Cardinality({k \in Keys : conns[k] # None}) < MaxConnections

\* No session of this key is under way.
Unheld(k) ==
    \A x \in Sessions : key[x] = k => phase[x] \in {"ended", "refused"}

\* _handle_incoming() up to the handshake; at the limit the socket is closed.
\* No two live sockets have one remote address.
Incoming(s, k) ==
    /\ phase[s] = "unused"
    /\ listening
    /\ Unheld(k)
    /\ \A x \in Sessions : key[x] = k => stream[x] # "eof"
    /\ key' = [key EXCEPT ![s] = k]
    /\ IF BelowLimit
       THEN /\ phase' = [phase EXCEPT ![s] = "accepting"]
            /\ UNCHANGED <<stream, shut>>
       ELSE /\ phase' = [phase EXCEPT ![s] = "refused"]
            /\ stream' = [stream EXCEPT ![s] = "closed"]
            /\ shut' = [shut EXCEPT ![s] = TRUE]
    /\ UNCHANGED <<peer, over, conns, states, sends, relay, server>>

\* Mutant: a key is dialled though it is connected.
DialConnected(s, k) ==
    /\ phase[s] = "unused"
    /\ BelowLimit
    /\ key' = [key EXCEPT ![s] = k]
    /\ phase' = [phase EXCEPT ![s] = "dialling"]
    /\ UNCHANGED <<peer, over, stream, shut, conns, states, sends, relay, server>>

\* connect_to() up to the handshake, for a key that is not connected.
Dial(s, k) ==
    /\ phase[s] = "unused"
    /\ conns[k] = None
    /\ BelowLimit
    /\ "reuse" \in Habits \/ Unheld(k)
    /\ key' = [key EXCEPT ![s] = k]
    /\ phase' = [phase EXCEPT ![s] = "dialling"]
    /\ UNCHANGED <<peer, over, stream, shut, conns, states, sends, relay, server>>

\* connect_via_relay_tunnel() up to the handshake: a tunnel to device d
\* through the session at r, which the caller knows from an earlier answer.
OpenTunnel(s, r, d) ==
    /\ "tunnel" \in Habits
    /\ phase[s] = "unused"
    /\ \A x \in Registered : peer[x] # d
    /\ BelowLimit
    /\ \E x \in Sessions : key[x] = r /\ peer[x] # None
    /\ "share_relay" \in Habits \/ tunnels[r] = None
    /\ phase' = [phase EXCEPT ![s] = "tunnelling"]
    /\ peer' = [peer EXCEPT ![s] = d]
    /\ over' = [over EXCEPT ![s] = r]
    /\ tunnels' = [tunnels EXCEPT ![r] = s]
    /\ UNCHANGED <<key, stream, shut, conns, states, sends, pipes, tunnelOf, server>>

\* _register_session(): the state machine goes straight to ESTABLISHED.
Register(s, k) ==
    /\ conns' = [conns EXCEPT ![k] = s]
    /\ states' = [states EXCEPT ![k] = "ESTABLISHED"]
    /\ phase' = [phase EXCEPT ![s] = "reading"]

\* A reset wakes what is suspended in drain() at once, long before a handshake
\* that answers it can end.
ResetIsHeard == \A x \in sends : stream[x[2]] # "lost"

\* The handshake of a TCP connection succeeds with device d.
HandshakeDone(s, d) ==
    /\ phase[s] \in {"accepting", "dialling"}
    /\ ResetIsHeard
    /\ peer' = [peer EXCEPT ![s] = d]
    /\ Register(s, key[s])
    /\ UNCHANGED <<key, over, stream, shut, sends, relay, server>>

\* The last relay chunk a tunnel's handshake waits for reaches its reader,
\* through the read loop of the carrier.  A dialled tunnel must have reached
\* the device that was asked for.
TunnelAnswered(t, s, d) ==
    /\ phase[t] \in {"tunnelling", "welcoming"}
    /\ phase[t] = "tunnelling" => peer[t] = d
    /\ phase[s] = "reading"
    /\ stream[s] = "open"
    /\ key[s] = over[t]
    /\ MayDispatch(s)
    /\ pipes[key[s]] = None
    /\ tunnels[key[s]] = t
    /\ phase' = [phase EXCEPT ![t] = "answered"]
    /\ peer' = [peer EXCEPT ![t] = d]
    /\ UNCHANGED <<key, over, stream, shut, conns, states, sends, relay, server>>

\* The handshake inside a tunnel ends and the session is registered.
TunnelDone(s) ==
    LET k == RelayKey(peer[s]) IN
    /\ phase[s] = "answered"
    /\ ResetIsHeard
    /\ key' = [key EXCEPT ![s] = k]
    /\ tunnelOf' = [tunnelOf EXCEPT ![k] = over[s]]
    /\ Register(s, k)
    /\ UNCHANGED <<peer, over, stream, shut, sends, pipes, tunnels, server>>

\* A handshake fails, times out, or (tunnelling) reaches another device.  The
\* connection is closed and unregister_relay_tunnel() called for a tunnel.
HandshakeFails(s) ==
    /\ phase[s] \in Handshake
    /\ phase' = [phase EXCEPT ![s] = "refused"]
    /\ stream' = [stream EXCEPT ![s] = "closed"]
    /\ shut' = [shut EXCEPT ![s] = TRUE]
    /\ tunnels' = IF IsTunnel(s) THEN [tunnels EXCEPT ![over[s]] = None] ELSE tunnels
    /\ UNCHANGED <<ident, conns, states, sends, pipes, tunnelOf, server>>

-----------------------------------------------------------------------------
(* send(), send_binary() and send_relay_data().                            *)

\* The failure branch of send(): whatever is registered at the key is removed
\* and its state machine marked by _mark_closing().
SendFailure(k, s) ==
    /\ conns' = [conns EXCEPT ![k] = None]
    /\ states' = [states EXCEPT ![k] = IF @ = None THEN None ELSE "CLOSING"]
    /\ shut' = [shut EXCEPT ![s] = TRUE]

\* The connection is known to be closed, so that a write raises at once.
Unwritable(s) == shut[s] \/ stream[s] \in {"lost", "closed"}

\* send(k) until it is suspended in drain(), or has failed, or found no session.
\* The caller w is the read loop of session w, or None: some other task.
SendTo(k, w) ==
    \/ /\ conns[k] = None
       /\ UNCHANGED <<conns, states, shut, sends>>
    \/ /\ conns[k] # None
       /\ Unwritable(conns[k])
       /\ SendFailure(k, conns[k])
       /\ UNCHANGED sends
    \/ /\ conns[k] # None
       /\ ~Unwritable(conns[k])
       /\ Cardinality(sends) < MaxSends
       /\ sends' = sends \cup {<<k, conns[k], w>>}
       /\ UNCHANGED <<conns, states, shut>>

\* The read loop of s waits for a send of its own.
LoopSends(s) == \E x \in sends : x[3] = s

\* send(), send_binary() or send_relay_data() by another task.  A send on a
\* tunnel is also a send on its carrier, which is another such step.
Send(k) ==
    /\ conns[k] # None
    /\ SendTo(k, None)
    /\ UNCHANGED <<phase, ident, stream, relay, server>>

SendDone(k, s, w) ==
    /\ <<k, s, w>> \in sends
    /\ sends' = sends \ {<<k, s, w>>}
    /\ UNCHANGED <<phase, ident, stream, shut, conns, states, relay, server>>

\* drain() raises: the connection was reset, by the peer or while closing.  A
\* tunnel's drain() ignores what send_relay_data() returns and never raises.
SendFails(k, s, w) ==
    /\ <<k, s, w>> \in sends
    /\ ~IsTunnel(s)
    /\ stream[s] \in {"lost", "closed"}
    /\ SendFailure(k, s)
    /\ sends' = sends \ {<<k, s, w>>}
    /\ UNCHANGED <<phase, ident, stream, relay, server>>

-----------------------------------------------------------------------------
(* The read loop.                                                          *)

\* _relay_pipes after close_relay_pipe(k).
WithoutPipe(k) ==
    [x \in Keys |-> IF x = k \/ (pipes[k] # None /\ x = pipes[k]) THEN None
                    ELSE pipes[x]]

\* _relay_tunnels after unregister_relay_tunnel() for the tunnel registered
\* at k and the removal of the reader fed by k itself.
WithoutTunnels(k) ==
    [x \in Keys |-> IF x \in {k, tunnelOf[k]} THEN None ELSE tunnels[x]]

\* The reader that is fed by k, which gets its EOF.  It has already been
\* removed when k's own tunnel ran through k.
Starved(k) == IF tunnelOf[k] = k THEN None ELSE tunnels[k]

\* Mutant: the reader of a tunnel does not hear of the end of its carrier.
LeaveLoopSilently(s, failed) ==
    LET k == key[s] IN
    /\ conns' = [conns EXCEPT ![k] = None]
    /\ states' = [states EXCEPT ![k] = None]
    /\ pipes' = WithoutPipe(k)
    /\ tunnels' = WithoutTunnels(k)
    /\ tunnelOf' = [tunnelOf EXCEPT ![k] = None]
    /\ shut' = [shut EXCEPT ![s] = TRUE]
    /\ stream' = [stream EXCEPT ![s] = IF shut[s] \/ failed THEN @ ELSE "closed"]
    /\ phase' = [phase EXCEPT ![s] = IF shut[s] \/ failed THEN "ended" ELSE "ending"]

\* Mutant: the clean-up forgets _connections.
LeaveLoopRegistered(s, failed) ==
    LET k == key[s] IN
    /\ conns' = conns
    /\ states' = [states EXCEPT ![k] = None]
    /\ pipes' = WithoutPipe(k)
    /\ tunnels' = WithoutTunnels(k)
    /\ tunnelOf' = [tunnelOf EXCEPT ![k] = None]
    /\ shut' = [shut EXCEPT ![s] = TRUE]
    /\ stream' = [stream EXCEPT ![s] = IF shut[s] \/ failed THEN @ ELSE "closed"]
    /\ phase' = [phase EXCEPT ![s] = IF shut[s] \/ failed THEN "ended" ELSE "ending"]

\* Mutant: the state machine is closed but not removed.
LeaveLoopMarked(s, failed) ==
    LET k == key[s] IN
    /\ conns' = [conns EXCEPT ![k] = None]
    /\ states' = [states EXCEPT ![k] = IF @ = None THEN None ELSE "CLOSING"]
    /\ pipes' = WithoutPipe(k)
    /\ tunnels' = WithoutTunnels(k)
    /\ tunnelOf' = [tunnelOf EXCEPT ![k] = None]
    /\ shut' = [shut EXCEPT ![s] = TRUE]
    /\ stream' = [stream EXCEPT ![s] = IF shut[s] \/ failed THEN @ ELSE "closed"]
    /\ phase' = [phase EXCEPT ![s] = IF shut[s] \/ failed THEN "ended" ELSE "ending"]

\* The finally clause of _read_loop() up to the end of session.close().  The
\* dictionaries are cleared under the key, whoever is registered there.
\* close() does nothing on a connection that read_frame() has already marked
\* closed (failed); PeerDisconnected is then published in the same step.
LeaveLoop(s, failed) ==
    LET k == key[s] IN
    /\ conns' = [conns EXCEPT ![k] = None]
    /\ states' = [states EXCEPT ![k] = None]
    /\ pipes' = WithoutPipe(k)
    /\ tunnels' = WithoutTunnels(k)
    /\ tunnelOf' = [tunnelOf EXCEPT ![k] = None]
    /\ shut' = [shut EXCEPT ![s] = TRUE]
    /\ stream' = [x \in Sessions |->
                    IF x = Starved(k) /\ stream[x] = "open" THEN "eof"
                    ELSE IF x = s /\ ~shut[s] /\ ~failed THEN "closed"
                    ELSE stream[x]]
    /\ phase' = [phase EXCEPT ![s] = IF shut[s] \/ failed THEN "ended" ELSE "ending"]

\* receive() returns an application frame and its handlers are awaited.
Frame(s) ==
    /\ phase[s] = "reading"
    /\ stream[s] = "open"
    /\ MayDispatch(s)
    /\ phase' = [phase EXCEPT ![s] = "handling"]
    /\ UNCHANGED <<ident, stream, shut, conns, states, sends, relay, server>>

\* validate_message() refuses the frame; the peer is told, then the loop left.
Malformed(s) ==
    /\ phase[s] = "reading"
    /\ stream[s] = "open"
    /\ MayDispatch(s)
    /\ phase' = [phase EXCEPT ![s] = "reporting"]
    /\ SendTo(key[s], s)
    /\ UNCHANGED <<ident, stream, relay, server>>

\* A relay chunk of a piped session is sent on to the other end.
Forward(s) ==
    /\ phase[s] = "reading"
    /\ stream[s] = "open"
    /\ MayDispatch(s)
    /\ pipes[key[s]] # None
    /\ phase' = [phase EXCEPT ![s] = "handling"]
    /\ SendTo(pipes[key[s]], s)
    /\ UNCHANGED <<ident, stream, relay, server>>

\* Mutant: a read loop does not return to receive() from a frame handler
\* whose connection was marked meanwhile.
HandlerReturnsIfOpen(s) ==
    /\ phase[s] = "handling"
    /\ stream[s] = "open"
    /\ ~LoopSends(s)
    /\ phase' = [phase EXCEPT ![s] = "reading"]
    /\ UNCHANGED <<ident, stream, shut, conns, states, sends, relay, server>>

\* The handlers have returned.  A tunnel that close_all() marked meanwhile is
\* left at the next read_frame(); its reader heard nothing.
HandlerReturns(s) ==
    /\ phase[s] = "handling"
    /\ ~LoopSends(s)
    /\ IF shut[s] /\ IsTunnel(s)
       THEN LeaveLoop(s, TRUE)
       ELSE /\ phase' = [phase EXCEPT ![s] = "reading"]
            /\ UNCHANGED <<stream, shut, conns, states, relay>>
    /\ UNCHANGED <<ident, sends, server>>

Reported(s) ==
    /\ phase[s] = "reporting"
    /\ ~LoopSends(s)
    /\ LeaveLoop(s, FALSE)
    /\ UNCHANGED <<ident, sends, server>>

\* A relay chunk that starts a tunnel t towards this node: no pipe, no reader.
\* (With a reader the chunk is fed to it, at the limit it is dropped; neither
\* changes the manager's state.)
RelayChunk(s, t) ==
    /\ "tunnel" \in Habits
    /\ phase[s] = "reading"
    /\ stream[s] = "open"
    /\ MayDispatch(s)
    /\ pipes[key[s]] = None
    /\ tunnels[key[s]] = None
    /\ BelowLimit
    /\ phase[t] = "unused"
    /\ phase' = [phase EXCEPT ![t] = "welcoming"]
    /\ over' = [over EXCEPT ![t] = key[s]]
    /\ tunnels' = [tunnels EXCEPT ![key[s]] = t]
    /\ UNCHANGED <<key, peer, stream, shut, conns, states, sends, pipes,
                   tunnelOf, server>>

\* A frame for a connection that a failed send or close_all() marked CLOSING,
\* one that does not decrypt, or a malformed error message, which is not
\* answered: the loop is left, the stream still open.
BadFrame(s) ==
    /\ phase[s] = "reading"
    /\ stream[s] = "open"
    /\ LeaveLoop(s, FALSE)
    /\ UNCHANGED <<ident, sends, server>>

\* receive() finds the end of the stream.
EndOfStream(s) ==
    /\ phase[s] = "reading"
    /\ stream[s] # "open"
    /\ LeaveLoop(s, TRUE)
    /\ UNCHANGED <<ident, sends, server>>

\* session.close() returned, which wakes what was suspended in drain() no
\* later; PeerDisconnected is published.
Closed(s) ==
    /\ phase[s] = "ending"
    /\ \A x \in sends : x[2] # s
    /\ phase' = [phase EXCEPT ![s] = "ended"]
    /\ UNCHANGED <<ident, stream, shut, conns, states, sends, relay, server>>

-----------------------------------------------------------------------------
(* Relay pipes, the network, shutdown.                                     *)

\* _on_relay_request() of the application, a handler of the session that asks:
\* open_relay_pipe() to a connected session b.
OpenPipe(s, b) ==
    /\ "pipe" \in Habits
    /\ phase[s] = "handling"
    /\ conns[key[s]] # None
    /\ conns[b] # None
    /\ pipes' = [pipes EXCEPT ![key[s]] = b, ![b] = key[s]]
    /\ UNCHANGED <<phase, ident, stream, shut, conns, states, sends, tunnels,
                   tunnelOf, server>>

\* The peer closes its end, or the connection is reset.
StreamEnds(s, how) ==
    /\ phase[s] \in Serving \/ (phase[s] = "ended" /\ \E x \in sends : x[2] = s)
    /\ ~IsTunnel(s)
    /\ stream[s] \in {"open", "eof"} \ {how}
    /\ stream' = [stream EXCEPT ![s] = how]
    /\ UNCHANGED <<phase, ident, shut, conns, states, sends, relay, server>>

\* close_all() takes its list of sessions.
CloseAll ==
    /\ "close_all" \in Habits
    /\ listening
    /\ closing = None
    /\ closing' = Registered
    /\ UNCHANGED <<phase, ident, stream, shut, conns, states, sends, relay, listening>>

\* _mark_closing() and session.close() for the next one.  Closing a tunnel
\* ends no stream: only its writer is marked.
CloseNext(s) ==
    /\ closing # None
    /\ s \in closing
    /\ closing' = closing \ {s}
    /\ states' = [states EXCEPT ![key[s]] = IF @ = None THEN None ELSE "CLOSING"]
    /\ stream' = IF shut[s] \/ IsTunnel(s) THEN stream
                 ELSE [stream EXCEPT ![s] = "closed"]
    /\ shut' = [shut EXCEPT ![s] = TRUE]
    /\ UNCHANGED <<phase, ident, conns, sends, relay, listening>>

\* _connections.clear() and the end of the server.
CloseAllEnds ==
    /\ closing = {}
    /\ closing' = None
    /\ conns' = [k \in Keys |-> None]
    /\ listening' = FALSE
    /\ UNCHANGED <<phase, ident, stream, shut, states, sends, relay>>

-----------------------------------------------------------------------------
HandshakeEnds(s) ==
    HandshakeFails(s) \/ TunnelDone(s) \/ \E d \in Devices : HandshakeDone(s, d)

SendEnds(k, s, w) == SendDone(k, s, w) \/ SendFails(k, s, w)

Callers == Sessions \cup {None}

Next ==
    \/ \E s \in Sessions :
        \/ \E k \in InKeys : Incoming(s, k)
        \/ \E k \in DialKeys : Dial(s, k)
        \/ \E r \in Keys, d \in Devices : OpenTunnel(s, r, d)
        \/ HandshakeEnds(s)
        \/ Frame(s) \/ Malformed(s) \/ Forward(s) \/ BadFrame(s)
        \/ \E t \in Sessions : RelayChunk(s, t)
        \/ \E t \in Sessions, d \in Devices : TunnelAnswered(t, s, d)
        \/ HandlerReturns(s) \/ Reported(s) \/ EndOfStream(s) \/ Closed(s)
        \/ \E b \in Keys : OpenPipe(s, b)
        \/ \E how \in {"eof", "lost"} : StreamEnds(s, how)
        \/ \E k \in Keys, w \in Callers : SendEnds(k, s, w)
        \/ CloseNext(s)
    \/ \E k \in Keys : Send(k)
    \/ CloseAll \/ CloseAllEnds

Spec == Init /\ [][Next]_vars

\* Handshakes are bounded by HANDSHAKE_TIMEOUT, handlers and sends return, a
\* read loop notices the end of its stream.
Fairness ==
    \A s \in Sessions :
        /\ WF_vars(HandshakeEnds(s))
        /\ WF_vars(HandlerReturns(s))
        /\ WF_vars(Reported(s))
        /\ WF_vars(EndOfStream(s))
        /\ WF_vars(Closed(s))
        /\ \A k \in Keys, w \in Callers : WF_vars(SendEnds(k, s, w))

FairSpec == Spec /\ Fairness

-----------------------------------------------------------------------------
(* Properties.                                                             *)

Served(k) == \E s \in Sessions : key[s] = k /\ phase[s] \in Serving

\* _connections leads only to sessions whose read loop runs, under their own
\* key.  An entry left behind would make connect_to() answer that the dead
\* connection is open, for ever.
RegisteredIsServed ==
    \A k \in Keys : conns[k] # None =>
        key[conns[k]] = k /\ phase[conns[k]] \in Serving

\* The clean-up of a read loop is complete: no state machine, pipe or tunnel
\* record stays under a key that no read loop serves any more.
NothingLeftBehind ==
    \A k \in Keys :
        states[k] # None \/ pipes[k] # None \/ tunnelOf[k] # None => Served(k)

\* A TCP session that is given frames can be sent to: it is the registered one,
\* or marked as closing.  (A tunnel to a device may run inside another tunnel to
\* it, under the same key.)
ServedIsReachable ==
    \A s \in Sessions : phase[s] \in Serving /\ ~IsTunnel(s) =>
        conns[key[s]] = s \/ states[key[s]] = "CLOSING"

\* PeerDisconnected(k) is not published for a TCP session while k is connected.
DisconnectIsLast ==
    [][\A s \in Sessions :
        phase[s] # "ended" /\ phase'[s] = "ended" /\ ~IsTunnel(s) => conns'[key[s]] = None]_vars

\* A tunnel whose carrier is gone has heard of it.
CarrierLossIsHeard ==
    \A t \in Sessions :
        phase[t] = "reading" /\ IsTunnel(t) /\ ~Served(over[t]) => stream[t] # "open"

\* A read loop whose stream has ended gets to its end.
LossIsNoticed ==
    \A s \in Sessions :
        phase[s] \in Serving /\ stream[s] # "open" ~> phase[s] = "ended"
=============================================================================
