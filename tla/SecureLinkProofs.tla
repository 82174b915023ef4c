-------------------------- MODULE SecureLinkProofs --------------------------
(***************************************************************************)
(* Proofs about module SecureLink, for any number of connections between   *)
(* the two devices, in both directions.                                    *)
(*                                                                         *)
(* A device concludes from a frame what the other has done: a response or  *)
(* a finish was signed by its sender, and the sender of a finish had       *)
(* recorded the receiver.  The invariant says so of every frame under way, *)
(* however long it takes and whatever happens meanwhile.                   *)
(***************************************************************************)
EXTENDS SecureLink, TLAPS

FramesAreTrue ==
    \A c \in Conns, x \in Devices : \A k \in 1..Len(inbox[c][x]) :
        /\ inbox[c][x][k].kind \in {"response", "finish"} => Peer(x) \in signed
        /\ inbox[c][x][k].kind = "finish" => status[Peer(x)] # "UNKNOWN"
        /\ inbox[c][x][k].kind = "eof" => at[c][Peer(x)] \in Over

\* What the acceptor has read of the trust table may be old, but a device that
\* was known then is known now.
DecisionHolds == \A c \in Conns : pre[c] # "UNKNOWN" => status[Acceptor(c)] # "UNKNOWN"

LInv == LTypeOK /\ FramesAreTrue /\ DecisionHolds /\ RecordedIsProven /\ SessionIsRecorded

\* What a step of the end <<c, x>> does to the frames under way: it reads or
\* drops its own, and sends at most f.
Moves(c, x, f) ==
    /\ inbox' \in [Conns -> [Devices -> Seq(FrameSet)]]
    /\ \A d \in Conns, y \in Devices :
          \/ inbox'[d][y] = inbox[d][y]
          \/ d = c /\ y = x /\ inbox[d][y] # << >> /\ inbox'[d][y] = Tail(inbox[d][y])
          \/ d = c /\ y = x /\ inbox'[d][y] = << >>
          \/ d = c /\ y = Peer(x) /\ inbox'[d][y] = Append(inbox[d][y], f)

LEMMA PeerFacts ==
    /\ \A x \in Devices : Peer(x) \in Devices /\ Peer(x) # x /\ Peer(Peer(x)) = x
    /\ \A c \in Conns : /\ Dialer[c] \in Devices /\ Acceptor(c) \in Devices
                        /\ Peer(Acceptor(c)) = Dialer[c] /\ Peer(Dialer[c]) = Acceptor(c)
  <1>1. \A x \in Devices : Peer(x) \in Devices /\ Peer(x) # x /\ Peer(Peer(x)) = x
    BY DistinctDevices DEF Peer, Devices
  <1>2. \A c \in Conns : Dialer[c] \in Devices
    BY DialerType
  <1> QED BY <1>1, <1>2 DEF Acceptor

LEMMA FrameTypes ==
    /\ \A n \in Nat : Data(n) \in FrameSet
    /\ \A kind \in {"init", "response", "finish", "data", "eof"} : Frame(kind) \in FrameSet
  BY DEF Data, Frame, FrameSet

LEMMA RestFacts ==
    ASSUME LTypeOK, NEW c \in Conns, NEW x \in Devices, inbox[c][x] # << >>
    PROVE  /\ Rest(c, x) \in [Conns -> [Devices -> Seq(FrameSet)]]
           /\ \A d \in Conns, z \in Devices :
                 \/ Rest(c, x)[d][z] = inbox[d][z] /\ ~(d = c /\ z = x)
                 \/ d = c /\ z = x /\ Rest(c, x)[d][z] = Tail(inbox[d][z])
  <1>1. inbox \in [Conns -> [Devices -> Seq(FrameSet)]]
    BY DEF LTypeOK
  <1> QED BY <1>1 DEF Rest

\* An end reads its first frame and sends f.
LEMMA AnswerMoves ==
    ASSUME LTypeOK, NEW c \in Conns, NEW x \in Devices, inbox[c][x] # << >>,
           NEW f \in FrameSet, inbox' = Put(Rest(c, x), c, Peer(x), f)
    PROVE  Moves(c, x, f)
  <1>1. Peer(x) \in Devices /\ Peer(x) # x
    BY PeerFacts
  <1>2. /\ Rest(c, x) \in [Conns -> [Devices -> Seq(FrameSet)]]
        /\ \A d \in Conns, z \in Devices :
              \/ Rest(c, x)[d][z] = inbox[d][z] /\ ~(d = c /\ z = x)
              \/ d = c /\ z = x /\ Rest(c, x)[d][z] = Tail(inbox[d][z])
    BY RestFacts
  <1> DEFINE box == Rest(c, x)
  <1> DEFINE put == Put(box, c, Peer(x), f)
  <1>3. box \in [Conns -> [Devices -> Seq(FrameSet)]]
    BY <1>2
  <1> HIDE DEF box
  <1>4. /\ put \in [Conns -> [Devices -> Seq(FrameSet)]]
        /\ \A d \in Conns, z \in Devices :
              \/ put[d][z] = box[d][z]
              \/ d = c /\ z = Peer(x) /\ put[d][z] = Append(box[d][z], f)
    <2>1. CASE put = box
      BY <1>3, <2>1
    <2>2. CASE put = [box EXCEPT ![c][Peer(x)] = Append(@, f)]
      BY <1>1, <1>3, <2>2
    <2> QED BY <2>1, <2>2 DEF Put
  <1>5. inbox' = put
    BY DEF box
  <1> HIDE DEF put
  <1>6. ASSUME NEW d \in Conns, NEW z \in Devices
        PROVE  \/ inbox'[d][z] = inbox[d][z]
               \/ d = c /\ z = x /\ inbox[d][z] # << >> /\ inbox'[d][z] = Tail(inbox[d][z])
               \/ d = c /\ z = Peer(x) /\ inbox'[d][z] = Append(inbox[d][z], f)
    BY <1>1, <1>2, <1>4, <1>5 DEF box
  <1> QED BY <1>4, <1>5, <1>6 DEF Moves

LEMMA CloseMoves ==
    ASSUME LTypeOK, NEW c \in Conns, NEW x \in Devices, Close(c, x)
    PROVE  /\ Moves(c, x, Frame("eof"))
           /\ at' = [at EXCEPT ![c][x] = "closed"]
  <1>1. Peer(x) \in Devices /\ Peer(x) # x /\ Frame("eof") \in FrameSet
    BY PeerFacts, FrameTypes
  <1>2. inbox \in [Conns -> [Devices -> Seq(FrameSet)]]
    BY DEF LTypeOK
  <1> DEFINE box == Put(inbox, c, Peer(x), Frame("eof"))
  <1>3. /\ box \in [Conns -> [Devices -> Seq(FrameSet)]]
        /\ \A d \in Conns, z \in Devices :
              \/ box[d][z] = inbox[d][z]
              \/ d = c /\ z = Peer(x) /\ box[d][z] = Append(inbox[d][z], Frame("eof"))
    <2>0. box = inbox \/ box = [inbox EXCEPT ![c][Peer(x)] = Append(@, Frame("eof"))]
      BY DEF Put
    <2> HIDE DEF box
    <2>1. CASE box = inbox
      BY <1>2, <2>1
    <2>2. CASE box = [inbox EXCEPT ![c][Peer(x)] = Append(@, Frame("eof"))]
      BY <1>1, <1>2, <2>2
    <2> QED BY <2>0, <2>1, <2>2
  <1>4. inbox' = [box EXCEPT ![c][x] = << >>] /\ at' = [at EXCEPT ![c][x] = "closed"]
    BY DEF Close
  <1> HIDE DEF box
  <1>5. /\ inbox' \in [Conns -> [Devices -> Seq(FrameSet)]]
        /\ \A d \in Conns, z \in Devices :
              inbox'[d][z] = box[d][z] \/ (d = c /\ z = x /\ inbox'[d][z] = << >>)
    BY <1>3, <1>4
  <1> QED BY <1>3, <1>4, <1>5 DEF Moves

LEMMA DropMoves ==
    ASSUME LTypeOK, NEW c \in Conns, NEW x \in Devices, NEW f,
           \/ inbox' = [inbox EXCEPT ![c][x] = << >>]
           \/ inbox[c][x] # << >> /\ inbox' = Rest(c, x)
           \/ inbox' = inbox
    PROVE  Moves(c, x, f)
  <1>1. inbox \in [Conns -> [Devices -> Seq(FrameSet)]]
    BY DEF LTypeOK
  <1>2. CASE inbox' = [inbox EXCEPT ![c][x] = << >>]
    BY <1>1, <1>2 DEF Moves
  <1>3. CASE inbox[c][x] # << >> /\ inbox' = Rest(c, x)
    BY <1>3, RestFacts DEF Moves
  <1>4. CASE inbox' = inbox
    BY <1>1, <1>4 DEF Moves
  <1> QED BY <1>2, <1>3, <1>4

\* A step of an end that is not over keeps the frames true, if what it sends
\* is true.
LEMMA MovesKeeps ==
    ASSUME LInv, NEW c \in Conns, NEW x \in Devices, NEW f \in FrameSet, Moves(c, x, f),
           at[c][x] \notin Over,
           \A d \in Conns, y \in Devices : at[d][y] \in Over => at'[d][y] \in Over,
           signed \subseteq signed',
           \A y \in Devices : status[y] # "UNKNOWN" => status'[y] # "UNKNOWN",
           f.kind \in {"response", "finish"} => x \in signed',
           f.kind = "finish" => status'[x] # "UNKNOWN",
           f.kind = "eof" => at'[c][x] \in Over
    PROVE  /\ inbox' \in [Conns -> [Devices -> Seq(FrameSet)]]
           /\ \A d \in Conns, y \in Devices : \A i \in 1..Len(inbox'[d][y]) :
                 inbox'[d][y][i].kind = "eof" => i = Len(inbox'[d][y])
           /\ FramesAreTrue'
  <1>0. /\ inbox \in [Conns -> [Devices -> Seq(FrameSet)]]
        /\ inbox' \in [Conns -> [Devices -> Seq(FrameSet)]]
    BY DEF LInv, LTypeOK, Moves
  <1>1. ASSUME NEW d \in Conns, NEW y \in Devices, NEW k \in 1..Len(inbox'[d][y])
        PROVE  /\ inbox'[d][y][k].kind \in {"response", "finish"} => Peer(y) \in signed'
               /\ inbox'[d][y][k].kind = "finish" => status'[Peer(y)] # "UNKNOWN"
               /\ inbox'[d][y][k].kind = "eof" =>
                     k = Len(inbox'[d][y]) /\ at'[d][Peer(y)] \in Over
    <2>0. /\ inbox[d][y] \in Seq(FrameSet) /\ inbox'[d][y] \in Seq(FrameSet)
          /\ Peer(y) \in Devices
      BY <1>0, PeerFacts
    <2>1. ASSUME NEW j \in 1..Len(inbox[d][y]), inbox'[d][y][k] = inbox[d][y][j],
                 inbox[d][y][j].kind = "eof" /\ j = Len(inbox[d][y]) => k = Len(inbox'[d][y])
          PROVE  /\ inbox'[d][y][k].kind \in {"response", "finish"} => Peer(y) \in signed'
                 /\ inbox'[d][y][k].kind = "finish" => status'[Peer(y)] # "UNKNOWN"
                 /\ inbox'[d][y][k].kind = "eof" =>
                       k = Len(inbox'[d][y]) /\ at'[d][Peer(y)] \in Over
      <3>1. inbox[d][y][j].kind = "eof" => j = Len(inbox[d][y])
        BY DEF LInv, LTypeOK
      <3> QED BY <2>0, <2>1, <3>1 DEF LInv, FramesAreTrue
    <2>2. CASE inbox'[d][y] = inbox[d][y]
      BY <2>0, <2>1, <2>2
    <2>3. CASE inbox[d][y] # << >> /\ inbox'[d][y] = Tail(inbox[d][y])
      <3>1. /\ k + 1 \in 1..Len(inbox[d][y]) /\ inbox'[d][y][k] = inbox[d][y][k + 1]
            /\ Len(inbox'[d][y]) = Len(inbox[d][y]) - 1 /\ Len(inbox[d][y]) \in Nat
        BY <2>0, <2>3
      <3>2. k + 1 = Len(inbox[d][y]) => k = Len(inbox'[d][y])
        BY <3>1
      <3> QED BY <2>1, <3>1, <3>2
    <2>4. CASE inbox'[d][y] = << >>
      BY <2>0, <2>4
    <2>5. CASE d = c /\ y = Peer(x) /\ inbox'[d][y] = Append(inbox[d][y], f)
      <3>0. Peer(y) = x
        BY <2>5, PeerFacts
      <3>1. CASE k = Len(inbox'[d][y])
        <4>1. inbox'[d][y][k] = f
          BY <2>0, <2>5, <3>1
        <4> QED BY <2>5, <3>0, <3>1, <4>1
      <3>2. CASE k # Len(inbox'[d][y])
        <4>1. k \in 1..Len(inbox[d][y]) /\ inbox'[d][y][k] = inbox[d][y][k]
          BY <2>0, <2>5, <3>2
        <4>2. inbox[d][y][k].kind # "eof"
          BY <2>5, <3>0, <4>1 DEF LInv, FramesAreTrue
        <4> QED BY <2>1, <4>1, <4>2
      <3> QED BY <3>1, <3>2
    <2> QED BY <2>2, <2>3, <2>4, <2>5 DEF Moves
  <1>2. FramesAreTrue'
    BY <1>1 DEF FramesAreTrue
  <1> QED BY <1>0, <1>1, <1>2

Stages == {"idle"} \cup Handshaking \cup Live \cup Over

\* A step of an end that opens no session and records nobody.
LEMMA QuietStep ==
    ASSUME LInv, NEW c \in Conns, NEW x \in Devices, NEW f \in FrameSet, Moves(c, x, f),
           NEW v \in Stages, at' = [at EXCEPT ![c][x] = v],
           at[c][x] \notin Over, v \in Live => at[c][x] \in Live,
           UNCHANGED <<status, unlocked>>, signed' = signed \/ signed' = signed \cup {x},
           pre' \in [Conns -> Status \ {"REVOKED"}], UNCHANGED cut,
           \A d \in Conns : pre'[d] = pre[d] \/ pre'[d] = status[Acceptor(d)],
           sent' \in [Conns -> [Devices -> Nat]], expected' \in [Conns -> [Devices -> Nat]],
           f.kind = "response" => x \in signed', f.kind # "finish",
           f.kind = "eof" => v \in Over
    PROVE  LInv'
  <1>1. at \in [Conns -> [Devices -> Stages]] /\ LTypeOK
    BY DEF LInv, LTypeOK, Stages
  <1>2. /\ at' \in [Conns -> [Devices -> Stages]]
        /\ \A d \in Conns, y \in Devices :
              at'[d][y] = at[d][y] \/ (d = c /\ y = x /\ at'[d][y] = v)
        /\ at'[c][x] = v
    BY <1>1
  <1>3. \A d \in Conns, y \in Devices : at[d][y] \in Over => at'[d][y] \in Over
    BY <1>2
  <1>4. /\ inbox' \in [Conns -> [Devices -> Seq(FrameSet)]]
        /\ \A d \in Conns, y \in Devices : \A i \in 1..Len(inbox'[d][y]) :
              inbox'[d][y][i].kind = "eof" => i = Len(inbox'[d][y])
        /\ FramesAreTrue'
    BY <1>2, <1>3, MovesKeeps
  <1>5. LTypeOK'
    <2>1. signed' \subseteq Devices
      BY <1>1 DEF LTypeOK
    <2> QED BY <1>1, <1>2, <1>4, <2>1 DEF LTypeOK, Stages
  <1>6. RecordedIsProven' /\ DecisionHolds'
    BY DEF LInv, RecordedIsProven, DecisionHolds
  <1>7. SessionIsRecorded'
    <2>1. \A d \in Conns, y \in Devices : at'[d][y] \in Live => at[d][y] \in Live
      BY <1>2
    <2> QED BY <2>1, PeerFacts DEF LInv, SessionIsRecorded
  <1> QED BY <1>4, <1>5, <1>6, <1>7 DEF LInv

\* TCPConnection.close() and the loss of a stream that was read to its end.
LEMMA EndsKeeps ==
    ASSUME LInv, NEW c \in Conns, NEW x \in Devices, at[c][x] \notin Over,
           Close(c, x) \/ Lose(c, x), UNCHANGED <<status, unlocked, signed, pre, cut, sent, expected>>
    PROVE  LInv'
  <1>1. /\ LTypeOK /\ pre' \in [Conns -> Status \ {"REVOKED"}]
        /\ sent' \in [Conns -> [Devices -> Nat]] /\ expected' \in [Conns -> [Devices -> Nat]]
    BY DEF LInv, LTypeOK
  <1>2. Frame("eof") \in FrameSet /\ Frame("eof").kind = "eof"
    BY FrameTypes DEF Frame
  <1>3. PICK v \in Over : at' = [at EXCEPT ![c][x] = v]
    BY DEF Close, Lose, Over
  <1>4. Moves(c, x, Frame("eof"))
    BY <1>1, CloseMoves, DropMoves DEF Lose
  <1>5. v \in Stages /\ v \notin Live
    BY DEF Stages, Over, Live
  <1> QED BY <1>1, <1>2, <1>3, <1>4, <1>5, QuietStep

\* A session opens: the peer proved who it is, and x has it on record.
LEMMA OpensKeeps ==
    ASSUME LInv, NEW c \in Conns, NEW x \in Devices, NEW f \in FrameSet, Moves(c, x, f),
           at' = [at EXCEPT ![c][x] = "open"], at[c][x] \in Handshaking,
           Peer(x) \in signed, x = Acceptor(c) => status[Dialer[c]] # "UNKNOWN",
           NEW s \in Status, s # "UNKNOWN", status' = [status EXCEPT ![x] = s],
           signed' = signed \/ signed' = signed \cup {x},
           f.kind \notin {"response", "eof"}, f.kind = "finish" => x \in signed',
           UNCHANGED <<unlocked, pre, cut, sent, expected>>
    PROVE  LInv'
  <1>0. /\ at \in [Conns -> [Devices -> Stages]] /\ LTypeOK /\ status \in [Devices -> Status]
        /\ signed \subseteq Devices
    BY DEF LInv, LTypeOK, Stages
  <1>1. /\ at' \in [Conns -> [Devices -> Stages]]
        /\ \A d \in Conns, y \in Devices :
              at'[d][y] = at[d][y] \/ (d = c /\ y = x /\ at'[d][y] = "open")
    BY <1>0 DEF Stages, Live
  <1>2. /\ at[c][x] \notin Over
        /\ \A d \in Conns, y \in Devices : at[d][y] \in Over => at'[d][y] \in Over
    BY <1>1 DEF Handshaking, Over
  <1>3. /\ status' \in [Devices -> Status] /\ status'[x] = s
        /\ \A y \in Devices : y # x => status'[y] = status[y]
    BY <1>0
  <1>4. signed \subseteq signed' /\ signed' \subseteq Devices
    BY <1>0
  <1>5. /\ inbox' \in [Conns -> [Devices -> Seq(FrameSet)]]
        /\ \A d \in Conns, y \in Devices : \A i \in 1..Len(inbox'[d][y]) :
              inbox'[d][y][i].kind = "eof" => i = Len(inbox'[d][y])
        /\ FramesAreTrue'
    BY <1>2, <1>3, <1>4, MovesKeeps
  <1>6. LTypeOK'
    BY <1>0, <1>1, <1>3, <1>4, <1>5 DEF LTypeOK, Stages
  <1>7. RecordedIsProven' /\ DecisionHolds'
    <2>1. RecordedIsProven'
      BY <1>3, <1>4 DEF LInv, RecordedIsProven
    <2>2. DecisionHolds'
      BY <1>3, PeerFacts DEF LInv, DecisionHolds
    <2> QED BY <2>1, <2>2
  <1>8. SessionIsRecorded'
    <2> SUFFICES ASSUME NEW d \in Conns
                 PROVE  /\ \A y \in Devices : at'[d][y] \in Live => status'[y] # "UNKNOWN"
                        /\ at'[d][Acceptor(d)] \in Live => status'[Dialer[d]] # "UNKNOWN"
      BY DEF SessionIsRecorded
    <2>1. Acceptor(d) \in Devices /\ Dialer[d] \in Devices
      BY PeerFacts
    <2>2. \A y \in Devices : status[y] # "UNKNOWN" => status'[y] # "UNKNOWN"
      BY <1>3
    <2> QED BY <1>1, <1>3, <2>1, <2>2 DEF LInv, SessionIsRecorded
  <1> QED BY <1>5, <1>6, <1>7, <1>8 DEF LInv

\* Approvals, revocations and locks: what was known stays known.
LEMMA UserKeeps ==
    ASSUME LInv, status' \in [Devices -> Status], unlocked' \in [Devices -> BOOLEAN],
           \A y \in Devices : (status[y] = "UNKNOWN") = (status'[y] = "UNKNOWN"),
           UNCHANGED <<signed, at, pre, inbox, cut, sent, expected>>
    PROVE  LInv'
  <1>1. LTypeOK'
    BY DEF LInv, LTypeOK
  <1>2. FramesAreTrue'
    BY PeerFacts DEF LInv, FramesAreTrue
  <1>3. RecordedIsProven' /\ SessionIsRecorded' /\ DecisionHolds'
    BY PeerFacts DEF LInv, RecordedIsProven, SessionIsRecorded, DecisionHolds
  <1> QED BY <1>1, <1>2, <1>3 DEF LInv

LEMMA LInvInit == Init => LInv
  <1> SUFFICES ASSUME Init PROVE LInv
    OBVIOUS
  <1>1. LTypeOK
    BY DEF Init, LTypeOK, Status
  <1>2. FramesAreTrue
    BY DEF Init, FramesAreTrue
  <1>3. RecordedIsProven /\ SessionIsRecorded /\ DecisionHolds
    BY PeerFacts DEF Init, RecordedIsProven, SessionIsRecorded, DecisionHolds, Live
  <1> QED BY <1>1, <1>2, <1>3 DEF LInv

\* connect_to() opens a connection and sends the first message.
LEMMA DialKeeps ==
    ASSUME LInv, NEW c \in Conns, Dial(c)
    PROVE  LInv'
  <1> DEFINE x == Acceptor(c)
  <1>0. /\ x \in Devices /\ Dialer[c] \in Devices /\ Frame("init") \in FrameSet
        /\ Frame("init").kind = "init"
        /\ \A y \in Devices : at[c][y] = "idle"
    BY PeerFacts, FrameTypes DEF Dial, Devices, Frame
  <1>1. /\ LTypeOK /\ at \in [Conns -> [Devices -> Stages]]
        /\ inbox \in [Conns -> [Devices -> Seq(FrameSet)]]
    BY DEF LInv, LTypeOK, Stages
  <1>2. /\ at' = [at EXCEPT ![c][Dialer[c]] = "waits_response", ![c][x] = "waits_init"]
        /\ inbox' = [inbox EXCEPT ![c][x] = <<Frame("init")>>]
        /\ UNCHANGED <<status, unlocked, signed, pre, cut, sent, expected>>
    BY DEF Dial, trust, channel
  <1> HIDE DEF x
  <1>3. /\ at' \in [Conns -> [Devices -> Stages]]
        /\ \A d \in Conns, y \in Devices :
              at'[d][y] = at[d][y] \/ (d = c /\ at'[d][y] \in Handshaking)
    BY <1>0, <1>1, <1>2 DEF Stages, Handshaking
  <1>4. /\ inbox' \in [Conns -> [Devices -> Seq(FrameSet)]]
        /\ \A d \in Conns, y \in Devices :
              inbox'[d][y] = inbox[d][y] \/ inbox'[d][y] = <<Frame("init")>>
    BY <1>0, <1>1, <1>2
  <1>5. \A d \in Conns, y \in Devices :
           /\ at'[d][y] \in Live => at[d][y] \in Live
           /\ at[d][y] \in Over => at'[d][y] \in Over
    BY <1>0, <1>3 DEF Handshaking, Live, Over
  <1>6. \A d \in Conns, y \in Devices : \A k \in 1..Len(inbox'[d][y]) :
           \/ inbox'[d][y] = inbox[d][y]
           \/ inbox'[d][y][k].kind = "init"
    BY <1>0, <1>4
  <1>7. LTypeOK'
    <2>1. \A d \in Conns, y \in Devices : \A i \in 1..Len(inbox'[d][y]) :
             inbox'[d][y][i].kind = "eof" => i = Len(inbox'[d][y])
      BY <1>1, <1>6 DEF LTypeOK
    <2> QED BY <1>1, <1>2, <1>3, <1>4, <2>1 DEF LTypeOK, Stages
  <1>8. FramesAreTrue'
    <2> SUFFICES ASSUME NEW d \in Conns, NEW y \in Devices, NEW k \in 1..Len(inbox'[d][y])
                 PROVE  /\ inbox'[d][y][k].kind \in {"response", "finish"} => Peer(y) \in signed
                        /\ inbox'[d][y][k].kind = "finish" => status[Peer(y)] # "UNKNOWN"
                        /\ inbox'[d][y][k].kind = "eof" => at'[d][Peer(y)] \in Over
      BY <1>2 DEF FramesAreTrue
    <2>1. CASE inbox'[d][y] = inbox[d][y]
      BY <1>5, <2>1, PeerFacts DEF LInv, FramesAreTrue
    <2>2. CASE inbox'[d][y][k].kind = "init"
      BY <2>2
    <2> QED BY <1>6, <2>1, <2>2
  <1>9. RecordedIsProven' /\ SessionIsRecorded' /\ DecisionHolds'
    BY <1>2, <1>5, PeerFacts DEF LInv, RecordedIsProven, SessionIsRecorded, DecisionHolds
  <1> QED BY <1>7, <1>8, <1>9 DEF LInv

\* The network falls silent.
LEMMA CutKeeps ==
    ASSUME LInv, NEW c \in Conns, Cut(c)
    PROVE  LInv'
  <1>1. LTypeOK /\ inbox \in [Conns -> [Devices -> Seq(FrameSet)]] /\ cut \subseteq Conns
    BY DEF LInv, LTypeOK
  <1>2. /\ cut' = cut \cup {c}
        /\ inbox' = [inbox EXCEPT ![c] = [x \in Devices |-> << >>]]
        /\ UNCHANGED <<status, unlocked, signed, at, pre, sent, expected>>
    BY DEF Cut, trust, channel
  <1>3. /\ inbox' \in [Conns -> [Devices -> Seq(FrameSet)]]
        /\ \A d \in Conns, y \in Devices : inbox'[d][y] = inbox[d][y] \/ inbox'[d][y] = << >>
    BY <1>1, <1>2
  <1>4. \A d \in Conns, y \in Devices : \A k \in 1..Len(inbox'[d][y]) :
           inbox'[d][y] = inbox[d][y]
    BY <1>3
  <1>5. LTypeOK'
    <2>1. \A d \in Conns, y \in Devices : \A i \in 1..Len(inbox'[d][y]) :
             inbox'[d][y][i].kind = "eof" => i = Len(inbox'[d][y])
      BY <1>1, <1>4 DEF LTypeOK
    <2> QED BY <1>1, <1>2, <1>3, <2>1 DEF LTypeOK
  <1>6. FramesAreTrue'
    BY <1>2, <1>4 DEF LInv, FramesAreTrue
  <1>7. RecordedIsProven' /\ SessionIsRecorded' /\ DecisionHolds'
    BY <1>2 DEF LInv, RecordedIsProven, SessionIsRecorded, DecisionHolds
  <1> QED BY <1>5, <1>6, <1>7 DEF LInv

\* The first frame of an end, and what it says.
LEMMA HeadFacts ==
    ASSUME LInv, NEW c \in Conns, NEW x \in Devices, NEW kind, Arrived(c, x, kind)
    PROVE  /\ inbox[c][x] # << >>
           /\ kind \in {"response", "finish"} => Peer(x) \in signed
           /\ kind = "finish" => status[Peer(x)] # "UNKNOWN"
           /\ kind = "eof" => at[c][Peer(x)] \in Over
  <1>1. inbox[c][x] \in Seq(FrameSet) /\ inbox[c][x] # << >> /\ Head(inbox[c][x]).kind = kind
    BY DEF LInv, LTypeOK, Arrived
  <1>2. 1 \in 1..Len(inbox[c][x]) /\ inbox[c][x][1].kind = kind
    BY <1>1
  <1> QED BY <1>1, <1>2 DEF LInv, FramesAreTrue

\* The steps of the task that reads an end.
LEMMA ReaderKeeps ==
    ASSUME LInv, NEW c \in Conns, NEW x \in Devices, Reader(c, x)
    PROVE  LInv'
  <1>0. /\ LTypeOK /\ pre \in [Conns -> Status \ {"REVOKED"}] /\ status \in [Devices -> Status]
        /\ sent \in [Conns -> [Devices -> Nat]] /\ expected \in [Conns -> [Devices -> Nat]]
    BY DEF LInv, LTypeOK
  <1>1. CASE x = Acceptor(c) /\ OnInit(c)
    <2>1. CASE Close(c, x) /\ UNCHANGED <<signed, pre>>
      <3>1. at[c][x] \notin Over /\ UNCHANGED <<status, unlocked, cut, sent, expected>>
        BY <1>1 DEF OnInit, Over, channel
      <3> QED BY <2>1, <3>1, EndsKeeps
    <2>2. CASE ~(Close(c, x) /\ UNCHANGED <<signed, pre>>)
      <3>1. /\ at[c][x] = "waits_init" /\ inbox[c][x] # << >> /\ status[x] # "REVOKED"
            /\ pre' = [pre EXCEPT ![c] = status[x]] /\ signed' = signed \cup {x}
            /\ at' = [at EXCEPT ![c][x] = "waits_finish"]
            /\ inbox' = Put(Rest(c, x), c, Peer(x), Frame("response"))
            /\ UNCHANGED <<status, unlocked, cut, sent, expected>>
        BY <1>1, <2>2, PeerFacts DEF OnInit, Admits, Arrived, channel
      <3>2. Frame("response") \in FrameSet /\ Frame("response").kind = "response"
        BY FrameTypes DEF Frame
      <3>3. Moves(c, x, Frame("response"))
        BY <1>0, <3>1, <3>2, AnswerMoves
      <3>4. /\ pre' \in [Conns -> Status \ {"REVOKED"}]
            /\ \A d \in Conns : pre'[d] = pre[d] \/ pre'[d] = status[Acceptor(d)]
        BY <1>0, <1>1, <3>1
      <3>5. "waits_finish" \in Stages /\ "waits_finish" \notin Live /\ "waits_init" \notin Over
        BY DEF Stages, Handshaking, Live, Over
      <3> QED BY <1>0, <3>1, <3>2, <3>3, <3>4, <3>5, QuietStep
    <2> QED BY <2>1, <2>2
  <1>2. CASE x = Dialer[c] /\ \E allowed \in BOOLEAN : OnResponse(c, allowed)
    <2>0. PICK allowed \in BOOLEAN : OnResponse(c, allowed)
      BY <1>2
    <2>1. CASE Close(c, x) /\ UNCHANGED <<status, signed>>
      <3>1. at[c][x] \notin Over /\ UNCHANGED <<unlocked, pre, cut, sent, expected>>
        BY <1>2, <2>0 DEF OnResponse, Over, channel
      <3> QED BY <2>1, <3>1, EndsKeeps
    <2>2. CASE ~(Close(c, x) /\ UNCHANGED <<status, signed>>)
      <3>1. /\ at[c][x] = "waits_response" /\ Arrived(c, x, "response")
            /\ status' = Recorded(x, status[x]) /\ signed' = signed \cup {x}
            /\ at' = [at EXCEPT ![c][x] = "open"]
            /\ inbox' = Put(Rest(c, x), c, Peer(x), Frame("finish"))
            /\ UNCHANGED <<unlocked, pre, cut, sent, expected>>
        BY <1>2, <2>0, <2>2 DEF OnResponse, channel
      <3>2. inbox[c][x] # << >> /\ Peer(x) \in signed
        BY <3>1, HeadFacts
      <3>3. Frame("finish") \in FrameSet /\ Frame("finish").kind = "finish"
        BY FrameTypes DEF Frame
      <3>4. Moves(c, x, Frame("finish"))
        BY <1>0, <3>1, <3>2, <3>3, AnswerMoves
      <3>5. PICK s \in Status : s # "UNKNOWN" /\ status' = [status EXCEPT ![x] = s]
        <4>1. CASE status[x] = "UNKNOWN"
          BY <3>1, <4>1 DEF Recorded, Status
        <4>2. CASE status[x] # "UNKNOWN"
          <5>1. status' = [status EXCEPT ![x] = status[x]]
            BY <1>0, <3>1, <4>2 DEF Recorded
          <5> QED BY <1>0, <4>2, <5>1
        <4> QED BY <4>1, <4>2
      <3>6. x # Acceptor(c) /\ at[c][x] \in Handshaking
        BY <1>2, <3>1, PeerFacts DEF Handshaking
      <3> QED BY <3>1, <3>2, <3>3, <3>4, <3>5, <3>6, OpensKeeps
    <2> QED BY <2>1, <2>2
  <1>3. CASE x = Acceptor(c) /\ \E allowed \in BOOLEAN : OnFinish(c, allowed)
    <2>0. PICK allowed \in BOOLEAN : OnFinish(c, allowed)
      BY <1>3
    <2>1. CASE Close(c, x) /\ UNCHANGED status
      <3>1. at[c][x] \notin Over /\ UNCHANGED <<unlocked, signed, pre, cut, sent, expected>>
        BY <1>3, <2>0 DEF OnFinish, Over, channel
      <3> QED BY <2>1, <3>1, EndsKeeps
    <2>2. CASE ~(Close(c, x) /\ UNCHANGED status)
      <3>1. /\ at[c][x] = "waits_finish" /\ Arrived(c, x, "finish")
            /\ status' = Recorded(x, pre[c])
            /\ at' = [at EXCEPT ![c][x] = "open"] /\ inbox' = Rest(c, x)
            /\ UNCHANGED <<unlocked, signed, pre, cut, sent, expected>>
        BY <1>3, <2>0, <2>2 DEF OnFinish, channel
      <3>2. /\ inbox[c][x] # << >> /\ Peer(x) \in signed /\ status[Dialer[c]] # "UNKNOWN"
        BY <1>3, <3>1, HeadFacts, PeerFacts
      <3>3. Frame("init") \in FrameSet /\ Frame("init").kind = "init"
        BY FrameTypes DEF Frame
      <3>4. Moves(c, x, Frame("init"))
        BY <1>0, <3>1, <3>2, DropMoves
      <3>5. PICK s \in Status : s # "UNKNOWN" /\ status' = [status EXCEPT ![x] = s]
        <4>1. CASE pre[c] = "UNKNOWN"
          BY <3>1, <4>1 DEF Recorded, Status
        <4>2. CASE pre[c] # "UNKNOWN"
          <5>1. status' = [status EXCEPT ![x] = status[x]]
            BY <1>0, <3>1, <4>2 DEF Recorded
          <5>2. status[x] # "UNKNOWN"
            BY <1>3, <4>2 DEF LInv, DecisionHolds
          <5> QED BY <1>0, <5>1, <5>2
        <4> QED BY <4>1, <4>2
      <3>6. at[c][x] \in Handshaking
        BY <3>1 DEF Handshaking
      <3> QED BY <3>1, <3>2, <3>3, <3>4, <3>5, <3>6, OpensKeeps
    <2> QED BY <2>1, <2>2
  <1>4. CASE Receive(c, x)
    <2>1. CASE Close(c, x) /\ UNCHANGED expected
      <3>1. at[c][x] \notin Over /\ UNCHANGED <<status, unlocked, signed, pre, cut, sent>>
        BY <1>4 DEF Receive, Live, Over, trust
      <3> QED BY <2>1, <3>1, EndsKeeps
    <2>2. CASE ~(Close(c, x) /\ UNCHANGED expected)
      <3>1. /\ at[c][x] = "open" /\ inbox[c][x] # << >> /\ inbox' = Rest(c, x) /\ at' = at
            /\ expected' = [expected EXCEPT ![c][x] = @ + 1]
            /\ UNCHANGED <<status, unlocked, signed, pre, cut, sent>>
        BY <1>4, <2>2 DEF Receive, Arrived, trust
      <3>2. Frame("init") \in FrameSet /\ Frame("init").kind = "init"
        BY FrameTypes DEF Frame
      <3>3. Moves(c, x, Frame("init"))
        BY <1>0, <3>1, DropMoves
      <3>4. at' = [at EXCEPT ![c][x] = "open"]
        BY <1>0, <3>1 DEF LTypeOK
      <3>5. expected' \in [Conns -> [Devices -> Nat]]
        BY <1>0, <3>1
      <3>6. "open" \in Stages /\ at[c][x] \in Live /\ at[c][x] \notin Over
        BY <3>1 DEF Stages, Live, Over
      <3>7. /\ pre' \in [Conns -> Status \ {"REVOKED"}] /\ sent' \in [Conns -> [Devices -> Nat]]
            /\ \A d \in Conns : pre'[d] = pre[d]
        BY <1>0, <3>1
      <3> QED BY <3>1, <3>2, <3>3, <3>4, <3>5, <3>6, <3>7, QuietStep
    <2> QED BY <2>1, <2>2
  <1>5. CASE OnEof(c, x) \/ Timeout(c, x)
    <2>1. /\ at[c][x] \notin Over
          /\ Close(c, x) \/ Lose(c, x)
          /\ UNCHANGED <<status, unlocked, signed, pre, cut, sent, expected>>
      BY <1>5 DEF OnEof, Timeout, Handshaking, Live, Over, trust, channel
    <2> QED BY <2>1, EndsKeeps
  <1> QED BY <1>1, <1>2, <1>3, <1>4, <1>5 DEF Reader

\* The manager sends over an open session.
LEMMA SendKeeps ==
    ASSUME LInv, NEW c \in Conns, NEW x \in Devices, NEW fits \in BOOLEAN, Send(c, x, fits)
    PROVE  LInv'
  <1>0. /\ LTypeOK /\ pre \in [Conns -> Status \ {"REVOKED"}]
        /\ sent \in [Conns -> [Devices -> Nat]] /\ expected \in [Conns -> [Devices -> Nat]]
        /\ inbox \in [Conns -> [Devices -> Seq(FrameSet)]]
    BY DEF LInv, LTypeOK
  <1> DEFINE f == Data(sent[c][x])
  <1>1. f \in FrameSet /\ f.kind = "data"
    BY <1>0, FrameTypes DEF Data
  <1>2. /\ at[c][x] = "open" /\ sent' = [sent EXCEPT ![c][x] = @ + 1]
        /\ inbox' = Put(inbox, c, Peer(x), f) \/ inbox' = inbox
        /\ at' = at \/ at' = [at EXCEPT ![c][x] = "closing"]
        /\ UNCHANGED <<status, unlocked, signed, pre, cut, expected>>
    BY DEF Send, trust
  <1> HIDE DEF f
  <1>3. Moves(c, x, f)
    <2>1. CASE inbox' = inbox
      BY <1>0, <2>1, DropMoves
    <2>2. CASE inbox' = [inbox EXCEPT ![c][Peer(x)] = Append(@, f)]
      BY <1>0, <1>1, <2>2, PeerFacts DEF Moves
    <2> QED BY <1>2, <2>1, <2>2 DEF Put
  <1>4. PICK v \in Live : at' = [at EXCEPT ![c][x] = v]
    <2>1. CASE at' = at
      <3>1. at' = [at EXCEPT ![c][x] = "open"]
        BY <1>0, <1>2, <2>1 DEF LTypeOK
      <3> QED BY <3>1 DEF Live
    <2> QED BY <1>2, <2>1 DEF Live
  <1>5. v \in Stages /\ at[c][x] \in Live /\ at[c][x] \notin Over
    BY <1>2 DEF Stages, Live, Over
  <1>6. sent' \in [Conns -> [Devices -> Nat]]
    BY <1>0, <1>2
  <1> QED BY <1>0, <1>1, <1>2, <1>3, <1>4, <1>5, <1>6, QuietStep

\* Every step keeps the invariant.
LEMMA LInvNext == LInv /\ [Next]_vars => LInv'
  <1> SUFFICES ASSUME LInv, [Next]_vars PROVE LInv'
    OBVIOUS
  <1>0. status \in [Devices -> Status] /\ unlocked \in [Devices -> BOOLEAN]
    BY DEF LInv, LTypeOK
  <1>1. CASE \E c \in Conns : Dial(c) \/ Cut(c)
    BY <1>1, DialKeeps, CutKeeps
  <1>2. CASE \E c \in Conns, x \in Devices : Reader(c, x)
    BY <1>2, ReaderKeeps
  <1>3. CASE \E c \in Conns, x \in Devices : Reset(c, x) \/ Leave(c, x)
    <2>1. PICK c \in Conns, x \in Devices : Reset(c, x) \/ Leave(c, x)
      BY <1>3
    <2>2. /\ at[c][x] \notin Over
          /\ Close(c, x) \/ Lose(c, x)
          /\ UNCHANGED <<status, unlocked, signed, pre, cut, sent, expected>>
      BY <2>1 DEF Reset, Leave, Handshaking, Live, Over, trust, channel
    <2> QED BY <2>2, EndsKeeps
  <1>4. CASE \E c \in Conns, x \in Devices : \E fits \in BOOLEAN : Send(c, x, fits)
    BY <1>4, SendKeeps
  <1>5. CASE \E x \in Devices : Approve(x) \/ Revoke(x)
    <2>1. PICK x \in Devices : Approve(x) \/ Revoke(x)
      BY <1>5
    <2>2. PICK s \in {"TRUSTED", "REVOKED"} : status' = [status EXCEPT ![x] = s]
      BY <2>1 DEF Approve, Revoke
    <2>3. /\ status[x] # "UNKNOWN"
          /\ UNCHANGED <<unlocked, signed, at, pre, inbox, cut, sent, expected>>
      BY <2>1 DEF Approve, Revoke, channel
    <2>4. /\ status' \in [Devices -> Status]
          /\ \A y \in Devices : (status[y] = "UNKNOWN") = (status'[y] = "UNKNOWN")
      BY <1>0, <2>2, <2>3 DEF Status
    <2> QED BY <1>0, <2>3, <2>4, UserKeeps
  <1>6. CASE \E x \in Devices : LockOrUnlock(x)
    <2>1. /\ unlocked' \in [Devices -> BOOLEAN]
          /\ UNCHANGED <<status, signed, at, pre, inbox, cut, sent, expected>>
      BY <1>0, <1>6 DEF LockOrUnlock, channel
    <2> QED BY <1>0, <2>1, UserKeeps
  <1>7. CASE UNCHANGED vars
    BY <1>0, <1>7, UserKeeps DEF vars, trust, channel
  <1> QED BY <1>1, <1>2, <1>3, <1>4, <1>5, <1>6, <1>7 DEF Next

\* The devices, connections and frames have their types, and nothing follows
\* the end of a stream.
THEOREM LinkTypes == Spec => []LTypeOK
  <1>1. LInv => LTypeOK
    BY DEF LInv
  <1> QED BY <1>1, LInvInit, LInvNext, PTL DEF Spec

\* For any number of handshakes under way: a device is on record only once it
\* has signed a handshake (_record_trust()).
THEOREM LinkRecordedIsProven == Spec => []RecordedIsProven
  <1>1. LInv => RecordedIsProven
    BY DEF LInv
  <1> QED BY <1>1, LInvInit, LInvNext, PTL DEF Spec

\* For any number of connections: who has a session has its peer on record,
\* and an acceptor is on record with its dialer
\* (perform_handshake_initiator(), perform_handshake_responder()).
THEOREM LinkSessionIsRecorded == Spec => []SessionIsRecorded
  <1>1. LInv => SessionIsRecorded
    BY DEF LInv
  <1> QED BY <1>1, LInvInit, LInvNext, PTL DEF Spec

\* Rank of a status that only moves up.
LEMMA RankFacts ==
    ASSUME LInv, NEW x \in Devices, NEW s \in Status, status' = [status EXCEPT ![x] = s],
           Rank[status[x]] <= Rank[s]
    PROVE  \A y \in Devices : Rank[status[y]] <= Rank[status'[y]]
  <1>1. status \in [Devices -> Status] /\ \A t \in Status : Rank[t] \in Nat
    BY DEF LInv, LTypeOK, Rank
  <1> QED BY <1>1

\* For any overlap of handshakes, approvals and revocations: the status of a
\* device never moves back (record_first_seen(), approve(), revoke_device()).
THEOREM LinkTrustMovesForward == Spec => TrustMovesForward
  <1> DEFINE Up == \A x \in Devices : Rank[status[x]] <= Rank[status'[x]]
  <1>0. ASSUME LInv, UNCHANGED status PROVE Up
    <2>1. status \in [Devices -> Status] /\ \A t \in Status : Rank[t] \in Nat
      BY <1>0 DEF LInv, LTypeOK, Rank
    <2> QED BY <1>0, <2>1
  <1>1. ASSUME LInv, NEW x \in Devices, NEW decision, NEW allowed,
               Recordable(x, decision, allowed), status' = Recorded(x, decision)
        PROVE  Up
    <2>1. CASE decision = "UNKNOWN"
      <3>1. status[x] = "UNKNOWN" /\ status' = [status EXCEPT ![x] = "PENDING"]
        BY <1>1, <2>1 DEF Recordable, Recorded
      <3>2. "PENDING" \in Status /\ Rank[status[x]] <= Rank["PENDING"]
        BY <3>1 DEF Status, Rank
      <3> QED BY <1>1, <3>1, <3>2, RankFacts
    <2>2. CASE decision # "UNKNOWN"
      BY <1>0, <1>1, <2>2 DEF Recorded
    <2> QED BY <2>1, <2>2
  <1>2. ASSUME LInv, NEW x \in Devices, Approve(x) \/ Revoke(x) PROVE Up
    <2>1. PICK s \in {"TRUSTED", "REVOKED"} :
             status' = [status EXCEPT ![x] = s] /\ status[x] \in {"PENDING", "TRUSTED"}
                /\ (s = "TRUSTED" => status[x] = "PENDING")
      BY <1>2 DEF Approve, Revoke
    <2>2. s \in Status /\ Rank[status[x]] <= Rank[s]
      BY <2>1 DEF Status, Rank
    <2> QED BY <1>2, <2>1, <2>2, RankFacts
  <1>3. ASSUME LInv, NEW c \in Conns, NEW x \in Devices, Reader(c, x) PROVE Up
    <2>0. Dialer[c] \in Devices /\ Acceptor(c) \in Devices
      BY PeerFacts
    <2>1. CASE UNCHANGED status
      BY <1>0, <1>3, <2>1
    <2>2. CASE \E allowed \in BOOLEAN : OnResponse(c, allowed)
      BY <1>1, <1>3, <2>0, <2>1, <2>2 DEF OnResponse
    <2>3. CASE \E allowed \in BOOLEAN : OnFinish(c, allowed)
      BY <1>1, <1>3, <2>0, <2>1, <2>3 DEF OnFinish
    <2>4. CASE OnInit(c) \/ Receive(c, x) \/ OnEof(c, x) \/ Timeout(c, x)
      <3>1. UNCHANGED status
        BY <2>4 DEF OnInit, Receive, OnEof, Timeout, trust
      <3> QED BY <2>1, <3>1
    <2> QED BY <1>3, <2>2, <2>3, <2>4 DEF Reader
  <1>4. LInv /\ [Next]_vars => [Up]_vars
    <2> SUFFICES ASSUME LInv, Next PROVE Up
      OBVIOUS
    <2>1. CASE \E c \in Conns : Dial(c) \/ Cut(c)
      BY <1>0, <2>1 DEF Dial, Cut, trust
    <2>2. CASE \E c \in Conns, x \in Devices : Reader(c, x)
      BY <1>3, <2>2
    <2>3. CASE \E c \in Conns, x \in Devices : Reset(c, x) \/ Leave(c, x)
      BY <1>0, <2>3 DEF Reset, Leave, trust
    <2>4. CASE \E c \in Conns, x \in Devices : \E fits \in BOOLEAN : Send(c, x, fits)
      BY <1>0, <2>4 DEF Send, trust
    <2>5. CASE \E x \in Devices : Approve(x) \/ Revoke(x)
      BY <1>2, <2>5
    <2>6. CASE \E x \in Devices : LockOrUnlock(x)
      BY <1>0, <2>6 DEF LockOrUnlock
    <2> QED BY <2>1, <2>2, <2>3, <2>4, <2>5, <2>6 DEF Next
  <1> QED BY <1>4, LInvInit, LInvNext, PTL DEF Spec, TrustMovesForward
=============================================================================
