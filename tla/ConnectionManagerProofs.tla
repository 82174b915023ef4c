---------------------- MODULE ConnectionManagerProofs -----------------------
(***************************************************************************)
(* Proofs about ConnectionManager: types, and that its dictionaries hold   *)
(* nothing that no read loop serves, for any sets of sessions, keys and    *)
(* devices, any limits and any habits of the callers.                      *)
(***************************************************************************)
EXTENDS ConnectionManager, TLAPS

\* A session that is in a TCP handshake or is served has a key, and one whose
\* tunnel handshake was answered knows its peer.
KeysAreKnown ==
    \A s \in Sessions :
        /\ phase[s] \in Serving \cup {"accepting", "dialling"} => key[s] \in Keys
        /\ phase[s] = "answered" => peer[s] \in Devices

\* The inductive invariant.
Inv == TypeOK /\ KeysAreKnown /\ RegisteredIsServed /\ NothingLeftBehind

\* The initial state satisfies the invariant: everything is empty.
LEMMA InitInv == Init => Inv
BY NoneIsNothing
   DEF Init, Inv, TypeOK, KeysAreKnown, RegisteredIsServed, NothingLeftBehind,
       Phase, Serving, Handshake

\* Every key of a relayed session is a key.
LEMMA RelayKeys == \A d \in Devices : RelayKey(d) \in Keys
BY DEF Keys

\* A step that removes entries, and neither ends a read loop nor changes the
\* key of one that runs, leaves no entry unserved.
LEMMA RemovalIsSafe ==
    ASSUME Inv,
           \A k \in Keys : conns'[k] = conns[k] \/ conns'[k] = None,
           \A k \in Keys : states'[k] # None => states[k] # None,
           \A k \in Keys : pipes'[k] # None => pipes[k] # None,
           \A k \in Keys : tunnelOf'[k] # None => tunnelOf[k] # None,
           \A s \in Sessions : phase[s] \in Serving =>
                phase'[s] \in Serving /\ key'[s] = key[s]
    PROVE  RegisteredIsServed' /\ NothingLeftBehind'
<1>1. RegisteredIsServed'
  <2> SUFFICES ASSUME NEW k \in Keys, conns'[k] # None
               PROVE  key'[conns'[k]] = k /\ phase'[conns'[k]] \in Serving
    BY DEF RegisteredIsServed
  <2>1. conns'[k] = conns[k] /\ conns[k] \in Sessions
    BY DEF Inv, TypeOK
  <2> QED BY <2>1 DEF Inv, RegisteredIsServed
<1>2. NothingLeftBehind'
  <2> SUFFICES ASSUME NEW k \in Keys,
                      states'[k] # None \/ pipes'[k] # None \/ tunnelOf'[k] # None
               PROVE  Served(k)'
    BY DEF NothingLeftBehind
  <2>1. Served(k)
    BY DEF Inv, NothingLeftBehind
  <2> QED BY <2>1 DEF Served
<1> QED BY <1>1, <1>2

\* The clean-up of a read loop removes every entry of its key.
LEMMA LeavingIsSafe ==
    ASSUME Inv, NEW s \in Sessions, phase[s] \in Serving, NEW failed \in BOOLEAN,
           LeaveLoop(s, failed), UNCHANGED <<ident, sends, server>>
    PROVE  Inv'
<1>0. key[s] \in Keys
  BY DEF Inv, KeysAreKnown
<1>1. TypeOK'
  <2>a. /\ conns' = [conns EXCEPT ![key[s]] = None]
        /\ states' = [states EXCEPT ![key[s]] = None]
        /\ tunnelOf' = [tunnelOf EXCEPT ![key[s]] = None]
    BY DEF LeaveLoop
  <2>b. /\ conns \in [Keys -> Sessions \cup {None}]
        /\ states \in [Keys -> ConnectionState \cup {None}]
        /\ tunnelOf \in [Keys -> Keys \cup {None}]
    BY DEF Inv, TypeOK
  <2>1. conns' \in [Keys -> Sessions \cup {None}]
    BY <1>0, <2>a, <2>b
  <2>2. states' \in [Keys -> ConnectionState \cup {None}]
    BY <1>0, <2>a, <2>b
  <2>3. pipes' \in [Keys -> Keys \cup {None}]
    BY DEF Inv, TypeOK, LeaveLoop, WithoutPipe
  <2>4. tunnels' \in [Keys -> Sessions \cup {None}]
    BY DEF Inv, TypeOK, LeaveLoop, WithoutTunnels
  <2>5. tunnelOf' \in [Keys -> Keys \cup {None}]
    BY <1>0, <2>a, <2>b
  <2>6. shut' \in [Sessions -> BOOLEAN]
    BY DEF Inv, TypeOK, LeaveLoop
  <2>7. stream' \in [Sessions -> {"open", "eof", "lost", "closed"}]
    BY DEF Inv, TypeOK, LeaveLoop
  <2>8. phase' \in [Sessions -> Phase]
    BY DEF Inv, TypeOK, LeaveLoop, Phase
  <2> QED BY <2>1, <2>2, <2>3, <2>4, <2>5, <2>6, <2>7, <2>8
          DEF Inv, TypeOK, ident, server
<1>2. /\ phase'[s] \notin Serving \cup {"accepting", "dialling", "answered"}
      /\ \A x \in Sessions \ {s} : phase'[x] = phase[x]
  BY DEF Inv, TypeOK, LeaveLoop, Serving
<1>3. KeysAreKnown'
  BY <1>2 DEF Inv, KeysAreKnown, ident
<1>4. RegisteredIsServed'
  BY <1>0, <1>2 DEF Inv, TypeOK, RegisteredIsServed, LeaveLoop, ident
<1>5. NothingLeftBehind'
  <2> SUFFICES ASSUME NEW k \in Keys,
                      states'[k] # None \/ pipes'[k] # None \/ tunnelOf'[k] # None
               PROVE  Served(k)'
    BY DEF NothingLeftBehind
  <2>1. k # key[s]
    BY <1>0 DEF Inv, TypeOK, LeaveLoop, WithoutPipe
  <2>2. states[k] # None \/ pipes[k] # None \/ tunnelOf[k] # None
    BY <1>0, <2>1 DEF Inv, TypeOK, LeaveLoop, WithoutPipe
  <2>3. PICK x \in Sessions : key[x] = k /\ phase[x] \in Serving
    BY <2>2 DEF Inv, NothingLeftBehind, Served
  <2> QED BY <1>2, <2>1, <2>3 DEF Served, ident
<1> QED BY <1>1, <1>3, <1>4, <1>5 DEF Inv

\* Registration enters a session under its own key and starts its read loop.
LEMMA RegisteringIsSafe ==
    ASSUME Inv, NEW s \in Sessions, NEW k \in Keys, phase[s] \notin Serving,
           Register(s, k), key' = [key EXCEPT ![s] = k],
           peer' \in [Sessions -> Devices \cup {None}],
           \A x \in Sessions \ {s} : peer'[x] = peer[x],
           tunnelOf' \in [Keys -> Keys \cup {None}],
           \A x \in Keys \ {k} : tunnelOf'[x] = tunnelOf[x],
           UNCHANGED <<over, stream, shut, sends, pipes, tunnels, server>>
    PROVE  Inv'
<1>1. TypeOK'
  <2>1. conns' \in [Keys -> Sessions \cup {None}]
    BY DEF Inv, TypeOK, Register
  <2>2. states' \in [Keys -> ConnectionState \cup {None}]
    BY DEF Inv, TypeOK, Register, ConnectionState
  <2>3. phase' \in [Sessions -> Phase]
    BY DEF Inv, TypeOK, Register, Phase, Serving
  <2>4. key' \in [Sessions -> Keys \cup {None}]
    BY DEF Inv, TypeOK
  <2> QED BY <2>1, <2>2, <2>3, <2>4 DEF Inv, TypeOK, server
<1>2. /\ phase'[s] \in Serving /\ phase'[s] # "answered"
      /\ key'[s] = k /\ conns'[k] = s
      /\ \A x \in Sessions \ {s} : phase'[x] = phase[x] /\ key'[x] = key[x]
      /\ \A x \in Keys \ {k} : conns'[x] = conns[x] /\ states'[x] = states[x]
  BY DEF Inv, TypeOK, Register, Serving
<1>3. KeysAreKnown'
  BY <1>2 DEF Inv, KeysAreKnown
<1>4. RegisteredIsServed'
  BY <1>2 DEF Inv, TypeOK, RegisteredIsServed
<1>5. NothingLeftBehind'
  <2> SUFFICES ASSUME NEW x \in Keys,
                      states'[x] # None \/ pipes'[x] # None \/ tunnelOf'[x] # None
               PROVE  Served(x)'
    BY DEF NothingLeftBehind
  <2>1. CASE x = k
    BY <1>2, <2>1 DEF Served
  <2>2. CASE x # k
    <3>1. PICK y \in Sessions : key[y] = x /\ phase[y] \in Serving
      BY <1>2, <2>2 DEF Inv, NothingLeftBehind, Served
    <3> QED BY <1>2, <3>1 DEF Served
  <2> QED BY <2>1, <2>2
<1> QED BY <1>1, <1>3, <1>4, <1>5 DEF Inv

\* What a send may do to the dictionaries: remove an entry, mark a state machine.
OnlyRemoves ==
    /\ conns' \in [Keys -> Sessions \cup {None}]
    /\ states' \in [Keys -> ConnectionState \cup {None}]
    /\ shut' \in [Sessions -> BOOLEAN]
    /\ sends' \in SUBSET (Keys \X Sessions \X (Sessions \cup {None}))
    /\ \A k \in Keys : conns'[k] = conns[k] \/ conns'[k] = None
    /\ \A k \in Keys : states'[k] # None => states[k] # None

\* The failure branch of a send only removes.
LEMMA SendFailureRemoves ==
    ASSUME Inv, NEW k \in Keys, NEW s \in Sessions, SendFailure(k, s),
           sends' \in SUBSET sends
    PROVE  OnlyRemoves
<1>1. /\ conns \in [Keys -> Sessions \cup {None}]
      /\ states \in [Keys -> ConnectionState \cup {None}]
      /\ shut \in [Sessions -> BOOLEAN]
      /\ sends \in SUBSET (Keys \X Sessions \X (Sessions \cup {None}))
  BY DEF Inv, TypeOK
<1>2. /\ conns' = [conns EXCEPT ![k] = None]
      /\ states' = [states EXCEPT ![k] = IF states[k] = None THEN None ELSE "CLOSING"]
      /\ shut' = [shut EXCEPT ![s] = TRUE]
  BY DEF SendFailure
<1>3. /\ states' \in [Keys -> ConnectionState \cup {None}]
      /\ \A x \in Keys : states'[x] # None => states[x] # None
  BY <1>1, <1>2 DEF ConnectionState
<1>4. shut' \in [Sessions -> BOOLEAN]
  BY <1>1, <1>2
<1>5. /\ conns' \in [Keys -> Sessions \cup {None}]
      /\ \A x \in Keys : conns'[x] = conns[x] \/ conns'[x] = None
  BY <1>1, <1>2
<1> QED BY <1>1, <1>3, <1>4, <1>5 DEF OnlyRemoves

\* So does a send up to the point where it is suspended.
LEMMA SendToRemoves ==
    ASSUME Inv, NEW k \in Keys, NEW w \in Sessions \cup {None}, SendTo(k, w)
    PROVE  OnlyRemoves
<1>1. /\ conns \in [Keys -> Sessions \cup {None}]
      /\ states \in [Keys -> ConnectionState \cup {None}]
      /\ shut \in [Sessions -> BOOLEAN]
      /\ sends \in SUBSET (Keys \X Sessions \X (Sessions \cup {None}))
  BY DEF Inv, TypeOK
<1>2. CASE UNCHANGED <<conns, states, shut, sends>>
  BY <1>1, <1>2 DEF OnlyRemoves
<1>3. CASE conns[k] # None /\ SendFailure(k, conns[k]) /\ UNCHANGED sends
  BY <1>1, <1>3, SendFailureRemoves
<1>4. CASE /\ conns[k] # None
           /\ sends' = sends \cup {<<k, conns[k], w>>}
           /\ UNCHANGED <<conns, states, shut>>
  <2>1. conns[k] \in Sessions
    BY <1>1, <1>4
  <2>2. <<k, conns[k], w>> \in Keys \X Sessions \X (Sessions \cup {None})
    BY <2>1
  <2> QED BY <1>1, <1>4, <2>2 DEF OnlyRemoves
<1> QED BY <1>2, <1>3, <1>4 DEF SendTo

\* Steps that begin a session or end a handshake without registering.
LEMMA BeginningsAreSafe ==
    ASSUME Inv, NEW s \in Sessions
    PROVE  /\ \A k \in InKeys : Incoming(s, k) => Inv'
           /\ \A k \in DialKeys : Dial(s, k) => Inv'
           /\ \A r \in Keys, d \in Devices : OpenTunnel(s, r, d) => Inv'
           /\ \A t \in Sessions, d \in Devices : TunnelAnswered(t, s, d) => Inv'
           /\ \A t \in Sessions : RelayChunk(s, t) => Inv'
           /\ HandshakeFails(s) => Inv'
<1>t. TypeOK
  BY DEF Inv
<1>1. ASSUME NEW k \in InKeys, Incoming(s, k) PROVE Inv'
  <2>k. k \in Keys
    BY DEF Keys
  <2>1. TypeOK'
    <3>1. phase' \in [Sessions -> Phase] /\ key' \in [Sessions -> Keys \cup {None}]
      BY <1>1, <1>t, <2>k DEF TypeOK, Incoming, Phase, Handshake
    <3>2. /\ stream' \in [Sessions -> {"open", "eof", "lost", "closed"}]
          /\ shut' \in [Sessions -> BOOLEAN]
      <4>1. CASE BelowLimit
        BY <1>1, <1>t, <4>1 DEF TypeOK, Incoming
      <4>2. CASE ~BelowLimit
        <5>1. /\ stream' = [stream EXCEPT ![s] = "closed"]
              /\ shut' = [shut EXCEPT ![s] = TRUE]
          BY <1>1, <4>2 DEF Incoming
        <5> QED BY <1>t, <5>1 DEF TypeOK
      <4> QED BY <4>1, <4>2
    <3> QED BY <1>1, <1>t, <3>1, <3>2 DEF TypeOK, Incoming, relay, server
  <2>2. /\ phase[s] = "unused"
        /\ phase'[s] \in {"accepting", "refused"} /\ key'[s] = k
        /\ \A x \in Sessions \ {s} : phase'[x] = phase[x] /\ key'[x] = key[x]
        /\ UNCHANGED <<peer, conns, states, pipes, tunnelOf>>
    BY <1>1, <1>t DEF TypeOK, Incoming, relay
  <2>3. KeysAreKnown'
    BY <2>2, <2>k DEF Inv, KeysAreKnown
  <2> QED BY <2>1, <2>2, <2>3, RemovalIsSafe DEF Inv, Serving
<1>2. ASSUME NEW k \in DialKeys, Dial(s, k) PROVE Inv'
  <2>k. k \in Keys
    BY DEF Keys
  <2>1. TypeOK'
    BY <1>2, <1>t, <2>k DEF TypeOK, Dial, Phase, Handshake, relay, server
  <2>2. /\ phase[s] = "unused"
        /\ phase'[s] = "dialling" /\ key'[s] = k
        /\ \A x \in Sessions \ {s} : phase'[x] = phase[x] /\ key'[x] = key[x]
        /\ UNCHANGED <<peer, conns, states, pipes, tunnelOf>>
    BY <1>2, <1>t DEF TypeOK, Dial, relay
  <2>3. KeysAreKnown'
    BY <2>2, <2>k DEF Inv, KeysAreKnown
  <2> QED BY <2>1, <2>2, <2>3, RemovalIsSafe DEF Inv, Serving
<1>3. ASSUME NEW r \in Keys, NEW d \in Devices, OpenTunnel(s, r, d) PROVE Inv'
  <2>1. TypeOK'
    BY <1>3, <1>t DEF TypeOK, OpenTunnel, Phase, Handshake, server
  <2>2. /\ phase[s] = "unused" /\ phase'[s] = "tunnelling"
        /\ \A x \in Sessions \ {s} : phase'[x] = phase[x] /\ peer'[x] = peer[x]
        /\ UNCHANGED <<key, conns, states, pipes, tunnelOf>>
    BY <1>3, <1>t DEF TypeOK, OpenTunnel
  <2>3. KeysAreKnown'
    BY <2>2 DEF Inv, KeysAreKnown, Serving
  <2> QED BY <2>1, <2>2, <2>3, RemovalIsSafe DEF Inv, Serving
<1>4. ASSUME NEW t \in Sessions, NEW d \in Devices, TunnelAnswered(t, s, d)
      PROVE  Inv'
  <2>1. TypeOK'
    BY <1>4, <1>t DEF TypeOK, TunnelAnswered, Phase, Handshake, relay, server
  <2>2. /\ phase[t] \in {"tunnelling", "welcoming"}
        /\ phase'[t] = "answered" /\ peer'[t] = d
        /\ \A x \in Sessions \ {t} : phase'[x] = phase[x] /\ peer'[x] = peer[x]
        /\ UNCHANGED <<key, conns, states, pipes, tunnelOf>>
    BY <1>4, <1>t DEF TypeOK, TunnelAnswered, relay
  <2>3. KeysAreKnown'
    BY <2>2 DEF Inv, KeysAreKnown, Serving
  <2> QED BY <2>1, <2>2, <2>3, RemovalIsSafe DEF Inv, Serving
<1>5. ASSUME NEW t \in Sessions, RelayChunk(s, t) PROVE Inv'
  <2>1. TypeOK'
    <3>1. key[s] \in Keys
      BY <1>5 DEF RelayChunk, Inv, KeysAreKnown, Serving
    <3> QED BY <1>5, <1>t, <3>1 DEF TypeOK, RelayChunk, Phase, Handshake, server
  <2>2. /\ phase[t] = "unused" /\ phase'[t] = "welcoming"
        /\ \A x \in Sessions \ {t} : phase'[x] = phase[x]
        /\ UNCHANGED <<key, peer, conns, states, pipes, tunnelOf>>
    BY <1>5, <1>t DEF TypeOK, RelayChunk
  <2>3. KeysAreKnown'
    BY <2>2 DEF Inv, KeysAreKnown, Serving
  <2> QED BY <2>1, <2>2, <2>3, RemovalIsSafe DEF Inv, Serving
<1>6. ASSUME HandshakeFails(s) PROVE Inv'
  <2>1. TypeOK'
    <3>1. tunnels' \in [Keys -> Sessions \cup {None}]
      BY <1>6, <1>t DEF TypeOK, HandshakeFails, IsTunnel
    <3> QED BY <1>6, <1>t, <3>1 DEF TypeOK, HandshakeFails, Phase, ident, server
  <2>2. /\ phase[s] \in Handshake /\ phase'[s] = "refused"
        /\ \A x \in Sessions \ {s} : phase'[x] = phase[x]
        /\ UNCHANGED <<key, peer, conns, states, pipes, tunnelOf>>
    BY <1>6, <1>t DEF TypeOK, HandshakeFails, ident
  <2>3. KeysAreKnown'
    BY <2>2 DEF Inv, KeysAreKnown, Serving
  <2> QED BY <2>1, <2>2, <2>3, RemovalIsSafe DEF Inv, Serving, Handshake
<1> QED BY <1>1, <1>2, <1>3, <1>4, <1>5, <1>6

\* Sends, frames and what surrounds the read loops.
LEMMA TrafficIsSafe ==
    ASSUME Inv, NEW s \in Sessions
    PROVE  /\ \A k \in Keys : Send(k) => Inv'
           /\ \A k \in Keys, w \in Callers : SendEnds(k, s, w) => Inv'
           /\ Frame(s) \/ Malformed(s) \/ Forward(s) \/ Closed(s) => Inv'
           /\ \A how \in {"eof", "lost"} : StreamEnds(s, how) => Inv'
           /\ CloseAll \/ CloseNext(s) \/ CloseAllEnds => Inv'
<1>t. TypeOK
  BY DEF Inv
<1>1. ASSUME NEW k \in Keys, Send(k) PROVE Inv'
  <2>1. OnlyRemoves
    BY <1>1, SendToRemoves DEF Send
  <2>2. UNCHANGED <<phase, key, peer, over, stream, pipes, tunnels, tunnelOf,
                    closing, listening>>
    BY <1>1 DEF Send, ident, relay, server
  <2>3. TypeOK'
    BY <1>t, <2>1, <2>2 DEF TypeOK, OnlyRemoves
  <2>4. KeysAreKnown'
    BY <2>2 DEF Inv, KeysAreKnown
  <2> QED BY <2>1, <2>2, <2>3, <2>4, RemovalIsSafe DEF Inv, OnlyRemoves
<1>2. ASSUME NEW k \in Keys, NEW w \in Callers, SendEnds(k, s, w) PROVE Inv'
  <2>1. OnlyRemoves
    <3>1. CASE SendDone(k, s, w)
      BY <1>t, <3>1 DEF SendDone, OnlyRemoves, TypeOK
    <3>2. CASE SendFails(k, s, w)
      BY <3>2, SendFailureRemoves DEF SendFails
    <3> QED BY <1>2, <3>1, <3>2 DEF SendEnds
  <2>2. UNCHANGED <<phase, key, peer, over, stream, pipes, tunnels, tunnelOf,
                    closing, listening>>
    BY <1>2 DEF SendEnds, SendDone, SendFails, ident, relay, server
  <2>3. TypeOK'
    BY <1>t, <2>1, <2>2 DEF TypeOK, OnlyRemoves
  <2>4. KeysAreKnown'
    BY <2>2 DEF Inv, KeysAreKnown
  <2> QED BY <2>1, <2>2, <2>3, <2>4, RemovalIsSafe DEF Inv, OnlyRemoves
<1>3. ASSUME Malformed(s) \/ Forward(s) PROVE Inv'
  <2>1. phase[s] = "reading" /\ key[s] \in Keys
    BY <1>3 DEF Malformed, Forward, Inv, KeysAreKnown, Serving
  <2>2. OnlyRemoves
    <3>1. CASE Malformed(s)
      BY <2>1, <3>1, SendToRemoves DEF Malformed
    <3>2. CASE Forward(s)
      <4>1. pipes[key[s]] \in Keys
        BY <1>t, <2>1, <3>2 DEF TypeOK, Forward
      <4> QED BY <3>2, <4>1, SendToRemoves DEF Forward
    <3> QED BY <1>3, <3>1, <3>2
  <2>3. /\ \/ phase' = [phase EXCEPT ![s] = "handling"]
           \/ phase' = [phase EXCEPT ![s] = "reporting"]
        /\ UNCHANGED <<key, peer, over, stream, pipes, tunnels, tunnelOf,
                       closing, listening>>
    BY <1>3 DEF Malformed, Forward, ident, relay, server
  <2>4. phase' \in [Sessions -> Phase]
    BY <1>t, <2>3 DEF TypeOK, Phase, Serving
  <2>5. /\ phase'[s] \in {"handling", "reporting"}
        /\ \A x \in Sessions \ {s} : phase'[x] = phase[x]
    BY <1>t, <2>3 DEF TypeOK
  <2>6. TypeOK'
    BY <1>t, <2>2, <2>3, <2>4 DEF TypeOK, OnlyRemoves
  <2>7. KeysAreKnown'
    BY <2>1, <2>3, <2>5 DEF Inv, KeysAreKnown
  <2> QED BY <2>2, <2>3, <2>5, <2>6, <2>7, RemovalIsSafe DEF Inv, OnlyRemoves, Serving
<1>4. ASSUME Frame(s) \/ Closed(s) PROVE Inv'
  <2>1. /\ \/ phase[s] = "reading" /\ phase'[s] = "handling"
           \/ phase[s] = "ending" /\ phase'[s] = "ended"
        /\ \A x \in Sessions \ {s} : phase'[x] = phase[x]
        /\ UNCHANGED <<key, peer, conns, states, pipes, tunnelOf>>
    BY <1>4, <1>t DEF TypeOK, Frame, Closed, ident, relay
  <2>2. TypeOK'
    BY <1>4, <1>t DEF TypeOK, Frame, Closed, Phase, Serving, ident, relay, server
  <2>3. KeysAreKnown'
    BY <2>1 DEF Inv, KeysAreKnown, Serving
  <2> QED BY <2>1, <2>2, <2>3, RemovalIsSafe DEF Inv, Serving
<1>5. ASSUME NEW how \in {"eof", "lost"}, StreamEnds(s, how) PROVE Inv'
  <2>1. UNCHANGED <<phase, key, peer, conns, states, pipes, tunnelOf>>
    BY <1>5 DEF StreamEnds, ident, relay
  <2>2. TypeOK'
    BY <1>5, <1>t DEF TypeOK, StreamEnds, ident, relay, server
  <2>3. KeysAreKnown'
    BY <2>1 DEF Inv, KeysAreKnown
  <2> QED BY <2>1, <2>2, <2>3, RemovalIsSafe DEF Inv
<1>6. ASSUME CloseAll PROVE Inv'
  <2>1. UNCHANGED <<phase, key, peer, conns, states, pipes, tunnelOf>>
    BY <1>6 DEF CloseAll, ident, relay
  <2>2. TypeOK'
    BY <1>6, <1>t DEF TypeOK, CloseAll, Registered, ident, relay
  <2>3. KeysAreKnown'
    BY <2>1 DEF Inv, KeysAreKnown
  <2> QED BY <2>1, <2>2, <2>3, RemovalIsSafe DEF Inv
<1>7. ASSUME CloseNext(s) PROVE Inv'
  <2>1. UNCHANGED <<phase, key, peer, over, conns, sends, pipes, tunnels, tunnelOf,
                    listening>>
    BY <1>7 DEF CloseNext, ident, relay
  <2>2. /\ states' \in [Keys -> ConnectionState \cup {None}]
        /\ \A k \in Keys : states'[k] # None => states[k] # None
    <3>1. states' = [states EXCEPT ![key[s]] = IF states[key[s]] = None THEN None
                                                ELSE "CLOSING"]
      BY <1>7 DEF CloseNext
    <3>2. CASE key[s] \in Keys
      BY <1>t, <3>1, <3>2 DEF TypeOK, ConnectionState
    <3>3. CASE key[s] \notin Keys
      <4>1. states' = states
        BY <1>t, <3>1, <3>3 DEF TypeOK
      <4> QED BY <1>t, <4>1 DEF TypeOK
    <3> QED BY <3>2, <3>3
  <2>3. stream' \in [Sessions -> {"open", "eof", "lost", "closed"}]
    BY <1>7, <1>t DEF TypeOK, CloseNext
  <2>4. shut' \in [Sessions -> BOOLEAN]
    BY <1>7, <1>t DEF TypeOK, CloseNext
  <2>5. closing' \in SUBSET Sessions
    BY <1>7, <1>t DEF TypeOK, CloseNext
  <2>6. TypeOK'
    BY <1>t, <2>1, <2>2, <2>3, <2>4, <2>5 DEF TypeOK
  <2>7. KeysAreKnown'
    BY <2>1 DEF Inv, KeysAreKnown
  <2> QED BY <2>1, <2>2, <2>6, <2>7, RemovalIsSafe DEF Inv
<1>8. ASSUME CloseAllEnds PROVE Inv'
  <2>1. /\ UNCHANGED <<phase, key, peer, states, pipes, tunnelOf>>
        /\ \A k \in Keys : conns'[k] = None
    BY <1>8 DEF CloseAllEnds, ident, relay
  <2>2. TypeOK'
    BY <1>8, <1>t, Zenon DEF TypeOK, CloseAllEnds, ident, relay
  <2>3. KeysAreKnown'
    BY <2>1 DEF Inv, KeysAreKnown
  <2> QED BY <2>1, <2>2, <2>3, RemovalIsSafe DEF Inv
<1> QED BY <1>1, <1>2, <1>3, <1>4, <1>5, <1>6, <1>7, <1>8

\* The four ways out of a read loop, and the return to it.
LEMMA LoopStepsAreSafe ==
    ASSUME Inv, NEW s \in Sessions,
           HandlerReturns(s) \/ Reported(s) \/ BadFrame(s) \/ EndOfStream(s)
    PROVE  Inv'
<1>t. TypeOK
  BY DEF Inv
<1>1. CASE Reported(s) \/ BadFrame(s)
  BY <1>1, LeavingIsSafe, Zenon DEF Reported, BadFrame, Serving
<1>2. CASE EndOfStream(s)
  BY <1>2, LeavingIsSafe, Zenon DEF EndOfStream, Serving
<1>3. CASE HandlerReturns(s)
  <2>1. CASE LeaveLoop(s, TRUE)
    BY <1>3, <2>1, LeavingIsSafe, Zenon DEF HandlerReturns, Serving
  <2>2. CASE /\ phase' = [phase EXCEPT ![s] = "reading"]
             /\ UNCHANGED <<stream, shut, conns, states, relay>>
    <3>1. /\ phase[s] = "handling" /\ phase'[s] = "reading"
          /\ \A x \in Sessions \ {s} : phase'[x] = phase[x]
          /\ UNCHANGED <<key, peer, conns, states, pipes, tunnelOf>>
      BY <1>3, <1>t, <2>2 DEF TypeOK, HandlerReturns, ident, relay
    <3>2. TypeOK'
      BY <1>3, <1>t, <2>2
         DEF TypeOK, HandlerReturns, Phase, Serving, ident, relay, server
    <3>3. KeysAreKnown'
      BY <3>1 DEF Inv, KeysAreKnown, Serving
    <3> QED BY <3>1, <3>2, <3>3, RemovalIsSafe DEF Inv, Serving
  <2> QED BY <1>3, <2>1, <2>2 DEF HandlerReturns
<1> QED BY <1>1, <1>2, <1>3

\* Both kinds of handshake register a session that no read loop served before.
LEMMA HandshakesAreSafe ==
    ASSUME Inv, NEW s \in Sessions
    PROVE  /\ \A d \in Devices : HandshakeDone(s, d) => Inv'
           /\ TunnelDone(s) => Inv'
<1>t. TypeOK
  BY DEF Inv
<1>1. ASSUME NEW d \in Devices, HandshakeDone(s, d) PROVE Inv'
  <2>1. key[s] \in Keys /\ phase[s] \notin Serving
    BY <1>1 DEF HandshakeDone, Inv, KeysAreKnown, Serving
  <2>2. key' = [key EXCEPT ![s] = key[s]]
    BY <1>1, <1>t DEF TypeOK, HandshakeDone
  <2>3. /\ peer' \in [Sessions -> Devices \cup {None}]
        /\ \A x \in Sessions \ {s} : peer'[x] = peer[x]
    BY <1>1, <1>t DEF TypeOK, HandshakeDone
  <2>4. /\ Register(s, key[s])
        /\ UNCHANGED <<over, stream, shut, sends, pipes, tunnels, tunnelOf, server>>
    BY <1>1 DEF HandshakeDone, relay
  <2>5. tunnelOf' \in [Keys -> Keys \cup {None}]
    BY <1>t, <2>4 DEF TypeOK
  <2> QED BY <2>1, <2>2, <2>3, <2>4, <2>5, RegisteringIsSafe, Zenon
<1>2. ASSUME TunnelDone(s) PROVE Inv'
  <2> DEFINE k == RelayKey(peer[s])
  <2>1. phase[s] = "answered" /\ peer[s] \in Devices
    BY <1>2 DEF TunnelDone, Inv, KeysAreKnown
  <2>2. k \in Keys
    BY <2>1, RelayKeys
  <2>3. /\ key' = [key EXCEPT ![s] = k]
        /\ tunnelOf' = [tunnelOf EXCEPT ![k] = over[s]]
        /\ Register(s, k)
        /\ UNCHANGED <<peer, over, stream, shut, sends, pipes, tunnels, server>>
    BY <1>2 DEF TunnelDone
  <2> HIDE DEF k
  <2>4. /\ tunnelOf' \in [Keys -> Keys \cup {None}]
        /\ \A x \in Keys \ {k} : tunnelOf'[x] = tunnelOf[x]
    BY <1>t, <2>2, <2>3 DEF TypeOK
  <2>5. peer' \in [Sessions -> Devices \cup {None}]
    BY <1>t, <2>3 DEF TypeOK
  <2>6. phase[s] \notin Serving
    BY <2>1 DEF Serving
  <2> QED BY <2>2, <2>3, <2>4, <2>5, <2>6, RegisteringIsSafe, Zenon
<1> QED BY <1>1, <1>2

\* A pipe is opened between two keys that are served: by the loop that runs the
\* handler, and by the loop of a registered session.
LEMMA PipesAreSafe ==
    ASSUME Inv, NEW s \in Sessions, NEW b \in Keys, OpenPipe(s, b)
    PROVE  Inv'
<1>1. key[s] \in Keys /\ phase[s] \in Serving
  BY DEF OpenPipe, Inv, KeysAreKnown, Serving
<1>2. Served(key[s]) /\ Served(b)
  <2>1. Served(key[s])
    BY <1>1 DEF Served
  <2>2. conns[b] \in Sessions /\ key[conns[b]] = b /\ phase[conns[b]] \in Serving
    BY DEF OpenPipe, Inv, TypeOK, RegisteredIsServed
  <2> QED BY <2>1, <2>2 DEF Served
<1>3. UNCHANGED <<phase, key, peer, over, stream, shut, conns, states, sends,
                  tunnels, tunnelOf, closing, listening>>
  BY DEF OpenPipe, ident, server
<1>4. /\ pipes' \in [Keys -> Keys \cup {None}]
      /\ \A k \in Keys \ {key[s], b} : pipes'[k] = pipes[k]
  BY <1>1 DEF OpenPipe, Inv, TypeOK
<1>5. TypeOK'
  BY <1>3, <1>4 DEF Inv, TypeOK
<1>6. KeysAreKnown' /\ RegisteredIsServed'
  BY <1>3 DEF Inv, KeysAreKnown, RegisteredIsServed
<1>7. \A k \in Keys : Served(k) => Served(k)'
  BY <1>3 DEF Served
<1>8. NothingLeftBehind'
  BY <1>2, <1>3, <1>4, <1>7 DEF Inv, NothingLeftBehind
<1> QED BY <1>5, <1>6, <1>8 DEF Inv

\* Every step keeps the invariant.
LEMMA StepKeepsInv == Inv /\ [Next]_vars => Inv'
<1> SUFFICES ASSUME Inv, [Next]_vars PROVE Inv'
  OBVIOUS
<1>1. CASE UNCHANGED vars
  <2>1. UNCHANGED <<phase, key, peer, over, stream, shut, conns, states, sends,
                    pipes, tunnels, tunnelOf, closing, listening>>
    BY <1>1 DEF vars, ident, relay, server
  <2> QED BY <2>1 DEF Inv, TypeOK, KeysAreKnown, RegisteredIsServed,
                      NothingLeftBehind, Served
<1>2. CASE \E k \in Keys : Send(k)
  <2>1. PICK k \in Keys : Send(k)
    BY <1>2
  <2>2. conns[k] \in Sessions
    BY <2>1 DEF Send, Inv, TypeOK
  <2> QED BY <2>1, <2>2, TrafficIsSafe
<1>3. CASE CloseAll
  <2>1. CASE Sessions = {}
    <3>1. UNCHANGED <<phase, key, peer, over, stream, shut, conns, states, sends,
                      pipes, tunnels, tunnelOf, listening>>
      BY <1>3 DEF CloseAll, ident, relay
    <3>2. closing' \in SUBSET Sessions
      BY <1>3 DEF CloseAll, Registered, Inv, TypeOK
    <3> QED BY <3>1, <3>2 DEF Inv, TypeOK, KeysAreKnown, RegisteredIsServed,
                              NothingLeftBehind, Served
  <2> QED BY <1>3, <2>1, TrafficIsSafe
<1>4. CASE CloseAllEnds
  <2>1. CASE Sessions = {}
    <3>1. /\ UNCHANGED <<phase, key, peer, over, stream, shut, states, sends,
                         pipes, tunnels, tunnelOf>>
          /\ closing' = None /\ listening' = FALSE
          /\ conns' = [k \in Keys |-> None]
      BY <1>4 DEF CloseAllEnds, ident, relay
    <3>2. TypeOK'
      BY <3>1, Zenon DEF Inv, TypeOK
    <3> QED BY <3>1, <3>2 DEF Inv, KeysAreKnown, RegisteredIsServed,
                              NothingLeftBehind, Served
  <2> QED BY <1>4, <2>1, TrafficIsSafe
<1>5. CASE \E s \in Sessions :
              \/ \E k \in InKeys : Incoming(s, k)
              \/ \E k \in DialKeys : Dial(s, k)
              \/ \E r \in Keys, d \in Devices : OpenTunnel(s, r, d)
              \/ HandshakeFails(s)
              \/ \E t \in Sessions : RelayChunk(s, t)
              \/ \E t \in Sessions, d \in Devices : TunnelAnswered(t, s, d)
  BY <1>5, BeginningsAreSafe
<1>6. CASE \E s \in Sessions :
              TunnelDone(s) \/ \E d \in Devices : HandshakeDone(s, d)
  BY <1>6, HandshakesAreSafe
<1>7. CASE \E s \in Sessions :
              \/ Frame(s) \/ Malformed(s) \/ Forward(s) \/ Closed(s)
              \/ \E how \in {"eof", "lost"} : StreamEnds(s, how)
              \/ \E k \in Keys, w \in Callers : SendEnds(k, s, w)
              \/ CloseNext(s)
  BY <1>7, TrafficIsSafe
<1>8. CASE \E s \in Sessions :
              HandlerReturns(s) \/ Reported(s) \/ BadFrame(s) \/ EndOfStream(s)
  BY <1>8, LoopStepsAreSafe
<1>9. CASE \E s \in Sessions, b \in Keys : OpenPipe(s, b)
  BY <1>9, PipesAreSafe
<1> QED BY <1>1, <1>2, <1>3, <1>4, <1>5, <1>6, <1>7, <1>8, <1>9
        DEF Next, HandshakeEnds

-----------------------------------------------------------------------------
\* The invariant holds throughout.
LEMMA InvAlways == Spec => []Inv
BY InitInv, StepKeepsInv, PTL DEF Spec

\* The state of the manager is always well typed.
THEOREM ManagerTypes == Spec => []TypeOK
<1>1. Inv => TypeOK
  BY DEF Inv
<1> QED BY <1>1, InvAlways, PTL

\* _connections never leads to a session whose read loop does not run, however
\* handshakes, failing sends, clean-ups and shutdown interleave.
THEOREM ManagerRegisteredIsServed == Spec => []RegisteredIsServed
<1>1. Inv => RegisteredIsServed
  BY DEF Inv
<1> QED BY <1>1, InvAlways, PTL

\* No state machine, pipe or tunnel record outlives the read loops of its key.
THEOREM ManagerNothingLeftBehind == Spec => []NothingLeftBehind
<1>1. Inv => NothingLeftBehind
  BY DEF Inv
<1> QED BY <1>1, InvAlways, PTL
=============================================================================
