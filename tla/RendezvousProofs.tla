-------------------------- MODULE RendezvousProofs --------------------------
(***************************************************************************)
(* Proofs about module Rendezvous, for any groups, any number of updates,  *)
(* any delays, and any maximum age that the nonces outlive.                *)
(*                                                                         *)
(* Why an update is accepted once: a device that accepted it either still  *)
(* has its nonce, noted no earlier than the update was signed, or the      *)
(* update is too old.  A nonce is forgotten after its ttl, and by then the *)
(* update is too old (NonceOutlivesUpdate).                                *)
(***************************************************************************)
EXTENDS Rendezvous, TLAPS

\* Messages, answers and the cache name updates that were signed.
NamesSigned ==
    /\ \A x \in Apps : \A k \in 1..Len(toApp[x]) : toApp[x][k].id <= Len(updates)
    /\ \A k \in 1..Len(answers) : answers[k] # None => answers[k] <= Len(updates)
    /\ \A g \in Groups : cache[g] # None => cache[g] <= Len(updates)

\* No update is from a later time, and none was noted before it was signed.
NotedAfterSigned ==
    /\ \A i \in 1..Len(updates) : updates[i] <= now + Ahead
    /\ \A x \in Apps, i \in Ids : nonces[x][i] # None =>
          i <= Len(updates) /\ updates[i] <= nonces[x][i] + Ahead

\* What was accepted is noted or too old.
AcceptedIsNoted ==
    \A x \in Apps, i \in Ids :
        \/ taken[x][i] = 0
        \/ /\ taken[x][i] = 1 /\ i <= Len(updates)
           /\ nonces[x][i] # None \/ updates[i] + MaxAge < now

RvInv == RvTypeOK /\ NamesSigned /\ NotedAfterSigned /\ AcceptedIsNoted /\ CachedIsHosted

LEMMA Bounds ==
    /\ MaxAge \in Nat /\ NonceTTL \in Nat /\ Ahead \in Nat
    /\ MaxUpdates \in Nat /\ MaxTime \in Nat /\ MaxQueue \in Nat
  BY RendezvousTimes

\* Judging an update keeps both facts about the nonces.
LEMMA TakeKeeps ==
    ASSUME RvInv, NEW x \in Apps, NEW i \in Ids, i <= Len(updates), Take(x, i),
           UNCHANGED <<now, updates>>
    PROVE  /\ nonces' \in [Apps -> [Ids -> 0..now' \cup {None}]]
           /\ taken' \in [Apps -> [Ids -> Nat]]
           /\ NotedAfterSigned' /\ AcceptedIsNoted'
  <1> USE Bounds, NonceOutlivesUpdate, NoneIsNoTime
  <1>1. /\ now \in Nat /\ updates \in Seq(Nat)
        /\ nonces \in [Apps -> [Ids -> 0..now \cup {None}]]
        /\ taken \in [Apps -> [Ids -> Nat]]
    BY DEF RvInv, RvTypeOK
  <1>2. updates[i] \in Nat /\ i \in 1..Len(updates)
    BY <1>1 DEF Ids
  <1>3. CASE ~Fresh(i)
    <2>1. UNCHANGED <<nonces, taken>>
      BY <1>3 DEF Take, Judged, Accepts
    <2> QED BY <1>1, <2>1 DEF RvInv, NotedAfterSigned, AcceptedIsNoted
  <1>4. CASE Fresh(i) /\ Remembered(x, i)
    <2>1. /\ UNCHANGED taken
          /\ nonces' = [nonces EXCEPT ![x] = [j \in Ids |->
                IF Remembered(x, j) THEN nonces[x][j] ELSE None]]
      BY <1>4 DEF Take, Judged, Accepts
    <2>2. nonces' \in [Apps -> [Ids -> 0..now' \cup {None}]]
      BY <1>1, <2>1
    <2>3. \A y \in Apps, j \in Ids :
             \/ nonces'[y][j] = nonces[y][j]
             \/ y = x /\ nonces'[y][j] = None /\ ~Remembered(x, j)
      BY <1>1, <2>1
    <2>4. NotedAfterSigned'
      BY <1>1, <2>3 DEF RvInv, NotedAfterSigned
    <2>5. AcceptedIsNoted'
      <3> SUFFICES ASSUME NEW y \in Apps, NEW j \in Ids, taken[y][j] # 0,
                          nonces'[y][j] # nonces[y][j]
                   PROVE  updates[j] + MaxAge < now
        BY <1>1, <2>1 DEF RvInv, AcceptedIsNoted
      <3>1. j \in 1..Len(updates) /\ updates[j] \in Nat
        BY <1>1 DEF RvInv, AcceptedIsNoted, Ids
      <3>2. nonces[y][j] # None /\ nonces[y][j] \in Nat /\ ~(now <= nonces[y][j] + NonceTTL)
        BY <1>1, <2>3 DEF Remembered
      <3>3. updates[j] <= nonces[y][j] + Ahead
        BY <3>2 DEF RvInv, NotedAfterSigned
      <3> QED BY <1>1, <3>1, <3>2, <3>3
    <2> QED BY <1>1, <2>1, <2>2, <2>4, <2>5
  <1>5. CASE Fresh(i) /\ ~Remembered(x, i)
    <2>1. /\ taken' = [taken EXCEPT ![x][i] = @ + 1]
          /\ nonces' = [nonces EXCEPT ![x] = [j \in Ids |->
                IF j = i THEN now ELSE IF Remembered(x, j) THEN nonces[x][j] ELSE None]]
      BY <1>5 DEF Take, Judged, Accepts
    <2>2. /\ nonces' \in [Apps -> [Ids -> 0..now' \cup {None}]]
          /\ taken' \in [Apps -> [Ids -> Nat]]
      BY <1>1, <2>1
    <2>3. \A y \in Apps, j \in Ids :
             \/ nonces'[y][j] = nonces[y][j] /\ (y # x \/ j # i)
             \/ y = x /\ j = i /\ nonces'[y][j] = now
             \/ y = x /\ j # i /\ nonces'[y][j] = None /\ ~Remembered(x, j)
      BY <1>1, <2>1
    <2>4. NotedAfterSigned'
      <3>1. updates[i] <= now + Ahead
        BY <1>2 DEF RvInv, NotedAfterSigned
      <3> QED BY <1>1, <1>2, <2>3, <3>1 DEF RvInv, NotedAfterSigned
    <2>5. taken[x][i] = 0
      <3> SUFFICES ASSUME taken[x][i] # 0 PROVE FALSE
        OBVIOUS
      <3>1. nonces[x][i] # None
        BY <1>1, <1>2, <1>5 DEF RvInv, AcceptedIsNoted, Fresh
      <3>2. nonces[x][i] \in Nat /\ updates[i] <= nonces[x][i] + Ahead
        BY <1>1, <3>1 DEF RvInv, NotedAfterSigned
      <3>3. ~(now <= nonces[x][i] + NonceTTL)
        BY <1>5, <3>1 DEF Remembered
      <3> QED BY <1>1, <1>2, <1>5, <3>2, <3>3 DEF Fresh
    <2>6. AcceptedIsNoted'
      <3> SUFFICES ASSUME NEW y \in Apps, NEW j \in Ids
                   PROVE  \/ taken'[y][j] = 0
                          \/ /\ taken'[y][j] = 1 /\ j <= Len(updates)
                             /\ nonces'[y][j] # None \/ updates[j] + MaxAge < now
        BY DEF AcceptedIsNoted
      <3>1. CASE y = x /\ j = i
        <4>1. taken'[y][j] = 1
          BY <1>1, <2>1, <2>5, <3>1
        <4>2. nonces'[y][j] = now
          BY <2>3, <3>1
        <4> QED BY <1>1, <3>1, <4>1, <4>2
      <3>2. CASE y # x \/ j # i
        <4>1. taken'[y][j] = taken[y][j]
          BY <1>1, <2>1, <3>2
        <4>2. CASE nonces'[y][j] = nonces[y][j]
          BY <4>1, <4>2 DEF RvInv, AcceptedIsNoted
        <4>3. CASE nonces'[y][j] # nonces[y][j] /\ taken[y][j] # 0
          <5>1. j \in 1..Len(updates) /\ updates[j] \in Nat
            BY <1>1, <4>3 DEF RvInv, AcceptedIsNoted, Ids
          <5>2. nonces[y][j] # None /\ nonces[y][j] \in Nat /\ ~(now <= nonces[y][j] + NonceTTL)
            BY <1>1, <2>3, <3>2, <4>3 DEF Remembered
          <5>3. updates[j] <= nonces[y][j] + Ahead
            BY <5>2 DEF RvInv, NotedAfterSigned
          <5>4. updates[j] + MaxAge < now
            BY <1>1, <5>1, <5>2, <5>3
          <5> QED BY <4>1, <4>3, <5>4 DEF RvInv, AcceptedIsNoted
        <4> QED BY <4>1, <4>2, <4>3
      <3> QED BY <3>1, <3>2
    <2> QED BY <2>2, <2>4, <2>6
  <1> QED BY <1>3, <1>4, <1>5

\* The traveller signs an update: what is on record stays as it is.
LEMMA SignsKeeps ==
    ASSUME RvInv, Signs, UNCHANGED <<now, cache, answers, nonces, taken>>
    PROVE  /\ updates' \in Seq(Nat) /\ Len(updates') = Len(updates) + 1
           /\ Len(updates) \in Nat /\ Len(updates') <= MaxUpdates
           /\ NotedAfterSigned' /\ AcceptedIsNoted'
           /\ \A k \in 1..Len(answers') : answers'[k] # None => answers'[k] <= Len(updates')
           /\ \A g \in Groups : cache'[g] # None => cache'[g] <= Len(updates')
  <1> USE Bounds, NoneIsNoTime
  <1>1. /\ now \in Nat /\ updates \in Seq(Nat) /\ Len(updates) \in Nat
        /\ nonces \in [Apps -> [Ids -> 0..now \cup {None}]]
        /\ taken \in [Apps -> [Ids -> Nat]]
        /\ cache \in [Groups -> Ids \cup {None}] /\ answers \in Seq(Ids \cup {None})
    BY DEF RvInv, RvTypeOK
  <1>2. /\ updates' \in Seq(Nat) /\ Len(updates') = Len(updates) + 1
        /\ Len(updates') <= MaxUpdates
        /\ \A i \in 1..Len(updates) : updates'[i] = updates[i]
        /\ updates'[Len(updates) + 1] = now + Ahead
    BY <1>1 DEF Signs
  <1>3. NotedAfterSigned'
    <2>1. \A i \in 1..Len(updates') : updates'[i] <= now' + Ahead
      <3> SUFFICES ASSUME NEW i \in 1..Len(updates') PROVE updates'[i] <= now + Ahead
        OBVIOUS
      <3>1. CASE i \in 1..Len(updates)
        BY <1>2, <3>1 DEF RvInv, NotedAfterSigned
      <3>2. CASE i = Len(updates) + 1
        BY <1>1, <1>2, <3>2
      <3> QED BY <1>1, <1>2, <3>1, <3>2
    <2>2. \A x \in Apps, i \in Ids : nonces'[x][i] # None =>
             i <= Len(updates') /\ updates'[i] <= nonces'[x][i] + Ahead
      <3> SUFFICES ASSUME NEW x \in Apps, NEW i \in Ids, nonces[x][i] # None
                   PROVE  i <= Len(updates') /\ updates'[i] <= nonces[x][i] + Ahead
        OBVIOUS
      <3>1. i <= Len(updates) /\ updates[i] <= nonces[x][i] + Ahead
        BY DEF RvInv, NotedAfterSigned
      <3>2. i \in 1..Len(updates)
        BY <1>1, <3>1 DEF Ids
      <3> QED BY <1>1, <1>2, <3>1, <3>2
    <2> QED BY <2>1, <2>2 DEF NotedAfterSigned
  <1>4. AcceptedIsNoted'
    <2> SUFFICES ASSUME NEW x \in Apps, NEW i \in Ids, taken[x][i] # 0
                 PROVE  /\ taken[x][i] = 1 /\ i <= Len(updates')
                        /\ nonces[x][i] # None \/ updates'[i] + MaxAge < now
      BY DEF AcceptedIsNoted
    <2>1. /\ taken[x][i] = 1 /\ i <= Len(updates)
          /\ nonces[x][i] # None \/ updates[i] + MaxAge < now
      BY DEF RvInv, AcceptedIsNoted
    <2>2. i \in 1..Len(updates)
      BY <1>1, <2>1 DEF Ids
    <2> QED BY <1>1, <1>2, <2>1, <2>2
  <1>5. \A k \in 1..Len(answers') : answers'[k] # None => answers'[k] <= Len(updates')
    <2> SUFFICES ASSUME NEW k \in 1..Len(answers), answers[k] # None
                 PROVE  answers[k] <= Len(updates')
      OBVIOUS
    <2>1. answers[k] \in Ids /\ answers[k] <= Len(updates)
      BY <1>1 DEF RvInv, NamesSigned
    <2> QED BY <1>1, <1>2, <2>1 DEF Ids
  <1>6. \A g \in Groups : cache'[g] # None => cache'[g] <= Len(updates')
    <2> SUFFICES ASSUME NEW g \in Groups, cache[g] # None
                 PROVE  cache[g] <= Len(updates')
      OBVIOUS
    <2>1. cache[g] \in Ids /\ cache[g] <= Len(updates)
      BY <1>1 DEF RvInv, NamesSigned
    <2> QED BY <1>1, <1>2, <2>1 DEF Ids
  <1> QED BY <1>1, <1>2, <1>3, <1>4, <1>5, <1>6

\* A message is put on a connection after the update it names was signed.
LEMMA SendKeeps ==
    ASSUME RvInv, NEW x \in Apps, Signs, NEW n \in Nat, n = Len(updates) + 1,
           NEW s \in Seq(Message), \A k \in 1..Len(s) : s[k].id = n,
           toApp' = [toApp EXCEPT ![x] = @ \o s],
           UNCHANGED <<now, asks, answers, hosting, cache, members, unlocked,
                       nonces, taken, row>>
    PROVE  RvInv'
  <1>1. /\ updates' \in Seq(Nat) /\ Len(updates') = Len(updates) + 1
        /\ Len(updates) \in Nat /\ Len(updates') <= MaxUpdates
        /\ NotedAfterSigned' /\ AcceptedIsNoted'
        /\ \A k \in 1..Len(answers') : answers'[k] # None => answers'[k] <= Len(updates')
        /\ \A g \in Groups : cache'[g] # None => cache'[g] <= Len(updates')
    BY SignsKeeps
  <1>2. toApp \in [Apps -> Seq(Message)]
    BY DEF RvInv, RvTypeOK
  <1>3. toApp' \in [Apps -> Seq(Message)]
    BY <1>2
  <1>4. RvTypeOK'
    BY <1>1, <1>3 DEF RvInv, RvTypeOK
  <1>5. ASSUME NEW y \in Apps, NEW k \in 1..Len(toApp'[y])
        PROVE  toApp'[y][k].id <= Len(updates')
    <2>1. toApp[y] \in Seq(Message)
      BY <1>2
    <2>2. CASE y = x /\ k > Len(toApp[y])
      <3>1. toApp'[y][k] = s[k - Len(toApp[y])] /\ k - Len(toApp[y]) \in 1..Len(s)
        BY <1>2, <2>1, <2>2
      <3> QED BY <1>1, <3>1
    <2>3. CASE ~(y = x /\ k > Len(toApp[y]))
      <3>1. k \in 1..Len(toApp[y]) /\ toApp'[y][k] = toApp[y][k]
        BY <1>2, <2>1, <2>3
      <3>2. toApp[y][k].id <= Len(updates) /\ toApp[y][k].id \in Nat
        BY <2>1, <3>1 DEF RvInv, NamesSigned, Message, Ids
      <3> QED BY <1>1, <3>1, <3>2
    <2> QED BY <2>2, <2>3
  <1>6. NamesSigned'
    BY <1>1, <1>5 DEF NamesSigned
  <1>7. CachedIsHosted'
    BY DEF RvInv, CachedIsHosted
  <1> QED BY <1>1, <1>4, <1>6, <1>7 DEF RvInv

\* A message is taken off a connection.
LEMMA ReceiveKeeps ==
    ASSUME RvInv, NEW x \in Apps, toApp[x] # <<>>,
           toApp' = [toApp EXCEPT ![x] = Tail(@)], UNCHANGED updates
    PROVE  /\ toApp' \in [Apps -> Seq(Message)]
           /\ \A y \in Apps : \A k \in 1..Len(toApp'[y]) : toApp'[y][k].id <= Len(updates')
           /\ Head(toApp[x]) \in Message /\ Head(toApp[x]).id \in Ids
           /\ Head(toApp[x]).id <= Len(updates)
           /\ Head(toApp[x]).kind = "register" => Head(toApp[x]).group \in Groups
  <1>1. toApp \in [Apps -> Seq(Message)]
    BY DEF RvInv, RvTypeOK
  <1>2. toApp' \in [Apps -> Seq(Message)]
    BY <1>1
  <1>3. ASSUME NEW y \in Apps, NEW k \in 1..Len(toApp'[y])
        PROVE  toApp'[y][k].id <= Len(updates')
    <2>1. toApp[y] \in Seq(Message)
      BY <1>1
    <2>2. PICK j \in 1..Len(toApp[y]) : toApp'[y][k] = toApp[y][j]
      <3>1. CASE y = x
        <4>1. toApp'[y][k] = toApp[y][k + 1] /\ k + 1 \in 1..Len(toApp[y])
          BY <1>1, <2>1, <3>1
        <4> QED BY <4>1
      <3>2. CASE y # x
        BY <1>1, <2>1, <3>2
      <3> QED BY <3>1, <3>2
    <2> QED BY <2>2 DEF RvInv, NamesSigned
  <1>4. Head(toApp[x]) \in Message /\ Head(toApp[x]) = toApp[x][1] /\ 1 \in 1..Len(toApp[x])
    BY <1>1
  <1>5. /\ Head(toApp[x]).id \in Ids
        /\ Head(toApp[x]).kind = "register" => Head(toApp[x]).group \in Groups
    BY <1>4 DEF Message
  <1>6. Head(toApp[x]).id <= Len(updates)
    BY <1>4 DEF RvInv, NamesSigned
  <1> QED BY <1>2, <1>3, <1>4, <1>5, <1>6

LEMMA RvInvInit == RInit => RvInv
  <1> SUFFICES ASSUME RInit PROVE RvInv
    OBVIOUS
  <1> USE Bounds, NoneIsNoTime DEF RInit
  <1>1. RvTypeOK
    BY DEF RvTypeOK, Nothing, Zero
  <1>2. NamesSigned
    BY DEF NamesSigned
  <1>3. NotedAfterSigned /\ AcceptedIsNoted
    BY DEF NotedAfterSigned, AcceptedIsNoted, Nothing, Zero
  <1>4. CachedIsHosted
    BY DEF CachedIsHosted
  <1> QED BY <1>1, <1>2, <1>3, <1>4 DEF RvInv

\* Every step keeps the invariant.
LEMMA RvInvNext == RvInv /\ [RNext]_rvars => RvInv'
  <1> SUFFICES ASSUME RvInv, [RNext]_rvars PROVE RvInv'
    OBVIOUS
  <1> USE Bounds, NoneIsNoTime
  <1>0. /\ RvTypeOK /\ NamesSigned /\ NotedAfterSigned /\ AcceptedIsNoted /\ CachedIsHosted
        /\ updates \in Seq(Nat) /\ Len(updates) \in Nat
        /\ toApp \in [Apps -> Seq(Message)]
    BY DEF RvInv, RvTypeOK
  <1>1. CASE \E x \in Apps : SendSelfEndpointUpdate(x)
    <2>1. PICK x \in Apps : SendSelfEndpointUpdate(x)
      BY <1>1
    <2> DEFINE m == [kind |-> "update", id |-> Len(updates) + 1]
    <2>2. m \in Message
      BY <1>0, <2>1 DEF SendSelfEndpointUpdate, Signs, Message, Ids
    <2>3. Append(toApp[x], m) = toApp[x] \o <<m>>
      BY <1>0, <2>2
    <2>4. toApp' = [toApp EXCEPT ![x] = @ \o <<m>>]
      BY <1>0, <2>1, <2>3 DEF SendSelfEndpointUpdate
    <2>5. /\ <<m>> \in Seq(Message) /\ Len(updates) + 1 \in Nat
          /\ \A k \in 1..Len(<<m>>) : <<m>>[k].id = Len(updates) + 1
      BY <1>0, <2>2
    <2>6. /\ Signs
          /\ UNCHANGED <<now, asks, answers, hosting, cache, members, unlocked,
                         nonces, taken, row>>
      BY <2>1 DEF SendSelfEndpointUpdate
    <2> HIDE DEF m
    <2> QED BY <2>4, <2>5, <2>6, SendKeeps
  <1>2. CASE RegisterWithRendezvousHosts
    <2> DEFINE s == [k \in DOMAIN GroupList |->
                       [kind |-> "register", group |-> GroupList[k], id |-> Len(updates) + 1]]
    <2>1. Len(updates) + 1 \in Ids
      BY <1>0, <1>2 DEF RegisterWithRendezvousHosts, Signs, Ids
    <2>2. s \in Seq(Message) /\ \A k \in 1..Len(s) : s[k].id = Len(updates) + 1
      <3>1. DOMAIN GroupList = 1..Len(GroupList) /\ Len(GroupList) \in Nat
        BY GroupsAreListed
      <3>2. \A k \in 1..Len(GroupList) : s[k] \in Message
        BY <2>1, <3>1, GroupsAreListed DEF Message
      <3> QED BY <3>1, <3>2
    <2>3. /\ toApp' = [toApp EXCEPT !["host"] = @ \o s]
          /\ Signs
          /\ UNCHANGED <<now, asks, answers, hosting, cache, members, unlocked,
                         nonces, taken, row>>
      BY <1>2 DEF RegisterWithRendezvousHosts
    <2>4. Len(updates) + 1 \in Nat /\ "host" \in Apps
      BY <1>0 DEF Apps
    <2> HIDE DEF s
    <2> QED BY <2>2, <2>3, <2>4, SendKeeps
  <1>3. CASE \E x \in Apps : OnEndpointUpdate(x)
    <2>1. PICK x \in Apps : OnEndpointUpdate(x)
      BY <1>3
    <2> DEFINE i == Head(toApp[x]).id
    <2>2. /\ toApp[x] # <<>> /\ Take(x, i)
          /\ row' = Stored(i) \/ row' = row
          /\ toApp' = [toApp EXCEPT ![x] = Tail(@)]
          /\ UNCHANGED <<now, updates, asks, answers, hosting, cache, members, unlocked>>
      BY <2>1 DEF OnEndpointUpdate
    <2>3. /\ toApp' \in [Apps -> Seq(Message)]
          /\ \A y \in Apps : \A k \in 1..Len(toApp'[y]) : toApp'[y][k].id <= Len(updates')
          /\ i \in Ids /\ i <= Len(updates)
      BY <2>2, ReceiveKeeps
    <2> HIDE DEF i
    <2>4. /\ nonces' \in [Apps -> [Ids -> 0..now' \cup {None}]]
          /\ taken' \in [Apps -> [Ids -> Nat]]
          /\ NotedAfterSigned' /\ AcceptedIsNoted'
      BY <2>2, <2>3, TakeKeeps
    <2>5. row' \in Nat \cup {None}
      BY <1>0, <2>2, <2>3 DEF RvTypeOK, Stored, Ids
    <2>6. RvTypeOK'
      BY <1>0, <2>2, <2>3, <2>4, <2>5 DEF RvTypeOK
    <2>7. NamesSigned' /\ CachedIsHosted'
      BY <1>0, <2>2, <2>3 DEF NamesSigned, CachedIsHosted
    <2> QED BY <2>4, <2>6, <2>7 DEF RvInv
  <1>4. CASE OnRendezvousRegister
    <2> DEFINE m == Head(toApp["host"])
    <2> DEFINE served == m.group \in hosting /\ unlocked["host"] /\ "traveller" \in members[m.group]
    <2>0. "host" \in Apps
      BY DEF Apps
    <2>1. /\ toApp["host"] # <<>> /\ m.kind = "register"
          /\ toApp' = [toApp EXCEPT !["host"] = Tail(@)]
          /\ UNCHANGED <<now, updates, asks, answers, hosting, members, unlocked, row>>
          /\ (served /\ Take("host", m.id)) \/ UNCHANGED <<nonces, taken>>
          /\ (served /\ cache' = [cache EXCEPT ![m.group] = m.id]) \/ cache' = cache
      BY <1>4 DEF OnRendezvousRegister
    <2>2. /\ toApp' \in [Apps -> Seq(Message)]
          /\ \A y \in Apps : \A k \in 1..Len(toApp'[y]) : toApp'[y][k].id <= Len(updates')
          /\ m.id \in Ids /\ m.id <= Len(updates) /\ m.group \in Groups
      BY <2>0, <2>1, ReceiveKeeps
    <2>3. /\ nonces' \in [Apps -> [Ids -> 0..now' \cup {None}]]
          /\ taken' \in [Apps -> [Ids -> Nat]]
          /\ NotedAfterSigned' /\ AcceptedIsNoted'
      <3>1. CASE Take("host", m.id)
        BY <2>0, <2>1, <2>2, <3>1, TakeKeeps
      <3>2. CASE UNCHANGED <<nonces, taken>>
        BY <1>0, <2>1, <3>2 DEF RvTypeOK, NotedAfterSigned, AcceptedIsNoted
      <3> QED BY <2>1, <3>1, <3>2
    <2>4. /\ cache' \in [Groups -> Ids \cup {None}]
          /\ \A g \in Groups : cache'[g] = cache[g] \/ (g \in hosting /\ cache'[g] = m.id)
      BY <1>0, <2>1, <2>2 DEF RvTypeOK
    <2>5. RvTypeOK'
      BY <1>0, <2>1, <2>2, <2>3, <2>4 DEF RvTypeOK
    <2>6. NamesSigned' /\ CachedIsHosted'
      BY <1>0, <2>1, <2>2, <2>4 DEF NamesSigned, CachedIsHosted
    <2> QED BY <2>3, <2>5, <2>6 DEF RvInv
  <1>5. CASE \E g \in Groups : RendezvousOff(g)
    <2>1. PICK g \in Groups : RendezvousOff(g)
      BY <1>5
    <2>2. /\ hosting' = hosting \ {g} /\ cache' = [cache EXCEPT ![g] = None]
          /\ UNCHANGED <<now, updates, toApp, asks, answers, members, unlocked,
                         nonces, taken, row>>
      BY <2>1 DEF RendezvousOff
    <2>3. RvTypeOK'
      BY <1>0, <2>2 DEF RvTypeOK
    <2>4. NamesSigned' /\ NotedAfterSigned' /\ AcceptedIsNoted'
      BY <1>0, <2>2 DEF NamesSigned, NotedAfterSigned, AcceptedIsNoted, RvTypeOK
    <2>5. CachedIsHosted'
      BY <1>0, <2>2 DEF CachedIsHosted, RvTypeOK
    <2> QED BY <2>3, <2>4, <2>5 DEF RvInv
  <1>6. CASE \E g \in Groups : RendezvousOn(g) \/ RendezvousFind(g)
    <2>1. PICK g \in Groups : RendezvousOn(g) \/ RendezvousFind(g)
      BY <1>6
    <2>2. /\ hosting' = hosting \cup {g} \/ hosting' = hosting
          /\ asks' = Append(asks, g) \/ asks' = asks
          /\ UNCHANGED <<now, updates, toApp, answers, cache, members, unlocked,
                         nonces, taken, row>>
      BY <2>1 DEF RendezvousOn, RendezvousFind
    <2>3. RvTypeOK'
      <3>0. asks \in Seq(Groups)
        BY <1>0 DEF RvTypeOK
      <3>1. asks' \in Seq(Groups)
        BY <2>2, <3>0
      <3> QED BY <1>0, <2>2, <3>1 DEF RvTypeOK
    <2>4. NamesSigned' /\ NotedAfterSigned' /\ AcceptedIsNoted' /\ CachedIsHosted'
      BY <1>0, <2>2 DEF NamesSigned, NotedAfterSigned, AcceptedIsNoted, CachedIsHosted
    <2> QED BY <2>3, <2>4 DEF RvInv
  <1>7. CASE \E x \in Apps : LockOrUnlock(x)
    <2>1. /\ unlocked' \in [Apps -> BOOLEAN]
          /\ UNCHANGED <<now, updates, toApp, asks, answers, hosting, cache,
                         members, nonces, taken, row>>
      BY <1>0, <1>7 DEF LockOrUnlock, RvTypeOK
    <2>2. RvTypeOK'
      BY <1>0, <2>1 DEF RvTypeOK
    <2>3. NamesSigned' /\ NotedAfterSigned' /\ AcceptedIsNoted' /\ CachedIsHosted'
      BY <1>0, <2>1 DEF NamesSigned, NotedAfterSigned, AcceptedIsNoted, CachedIsHosted
    <2> QED BY <2>2, <2>3 DEF RvInv
  <1>8. CASE \E g \in Groups, d \in {"asker", "traveller"} : Revoke(g, d)
    <2>1. PICK g \in Groups, d \in {"asker", "traveller"} : Revoke(g, d)
      BY <1>8
    <2>2. /\ members' = [members EXCEPT ![g] = @ \ {d}]
          /\ UNCHANGED <<now, updates, toApp, asks, answers, hosting, cache,
                         unlocked, nonces, taken, row>>
      BY <2>1 DEF Revoke
    <2>3. RvTypeOK'
      <3>1. members' \in [Groups -> SUBSET {"asker", "traveller"}]
        BY <1>0, <2>2 DEF RvTypeOK
      <3> QED BY <1>0, <2>2, <3>1 DEF RvTypeOK
    <2>4. NamesSigned' /\ NotedAfterSigned' /\ AcceptedIsNoted' /\ CachedIsHosted'
      BY <1>0, <2>2 DEF NamesSigned, NotedAfterSigned, AcceptedIsNoted, CachedIsHosted
    <2> QED BY <2>3, <2>4 DEF RvInv
  <1>9. CASE OnRendezvousLookup
    <2>1. /\ asks # <<>> /\ asks' = Tail(asks)
          /\ answers' = answers \/ answers' = Append(answers, cache[Head(asks)])
          /\ UNCHANGED <<now, updates, toApp, hosting, cache, members, unlocked,
                         nonces, taken, row>>
      BY <1>9 DEF OnRendezvousLookup
    <2>2. /\ asks' \in Seq(Groups) /\ Head(asks) \in Groups
          /\ answers \in Seq(Ids \cup {None}) /\ cache[Head(asks)] \in Ids \cup {None}
      BY <1>0, <2>1 DEF RvTypeOK
    <2>3. /\ answers' \in Seq(Ids \cup {None})
          /\ \A k \in 1..Len(answers') :
                answers'[k] = cache[Head(asks)] \/ (k \in 1..Len(answers) /\ answers'[k] = answers[k])
      <3>1. CASE answers' = answers
        BY <2>2, <3>1
      <3>2. ASSUME NEW a \in Ids \cup {None}, answers' = Append(answers, a)
            PROVE  /\ answers' \in Seq(Ids \cup {None})
                   /\ \A k \in 1..Len(answers') :
                         answers'[k] = a \/ (k \in 1..Len(answers) /\ answers'[k] = answers[k])
        BY <2>2, <3>2
      <3> QED BY <2>1, <2>2, <3>1, <3>2
    <2>4. RvTypeOK'
      BY <1>0, <2>1, <2>2, <2>3 DEF RvTypeOK
    <2>5. NamesSigned'
      BY <1>0, <2>1, <2>2, <2>3 DEF NamesSigned
    <2>6. NotedAfterSigned' /\ AcceptedIsNoted' /\ CachedIsHosted'
      BY <1>0, <2>1 DEF NotedAfterSigned, AcceptedIsNoted, CachedIsHosted
    <2> QED BY <2>4, <2>5, <2>6 DEF RvInv
  <1>10. CASE OnRendezvousLookupResponse
    <2> DEFINE i == Head(answers)
    <2>0. "asker" \in Apps
      BY DEF Apps
    <2>1. /\ answers # <<>> /\ answers' = Tail(answers)
          /\ UNCHANGED <<now, updates, toApp, asks, hosting, cache, members, unlocked>>
          /\ \/ UNCHANGED <<nonces, taken, row>>
             \/ i # None /\ Take("asker", i) /\ (row' = Stored(i) \/ row' = row)
      BY <1>10 DEF OnRendezvousLookupResponse
    <2>2. answers \in Seq(Ids \cup {None})
      BY <1>0 DEF RvTypeOK
    <2>3. /\ answers' \in Seq(Ids \cup {None})
          /\ \A k \in 1..Len(answers') : k + 1 \in 1..Len(answers) /\ answers'[k] = answers[k + 1]
          /\ i \in Ids \cup {None} /\ i = answers[1] /\ 1 \in 1..Len(answers)
      BY <2>1, <2>2
    <2>4. i # None => i \in Ids /\ i <= Len(updates)
      BY <1>0, <2>3 DEF NamesSigned
    <2>5. NamesSigned'
      BY <1>0, <2>1, <2>3 DEF NamesSigned
    <2> HIDE DEF i
    <2>6. /\ nonces' \in [Apps -> [Ids -> 0..now' \cup {None}]]
          /\ taken' \in [Apps -> [Ids -> Nat]]
          /\ NotedAfterSigned' /\ AcceptedIsNoted'
          /\ row' \in Nat \cup {None}
      <3>1. CASE UNCHANGED <<nonces, taken, row>>
        BY <1>0, <2>1, <3>1 DEF RvTypeOK, NotedAfterSigned, AcceptedIsNoted
      <3>2. CASE i # None /\ Take("asker", i) /\ (row' = Stored(i) \/ row' = row)
        <4>1. row' \in Nat \cup {None}
          BY <1>0, <2>4, <3>2 DEF RvTypeOK, Stored, Ids
        <4> QED BY <2>0, <2>1, <2>4, <3>2, <4>1, TakeKeeps
      <3> QED BY <2>1, <3>1, <3>2
    <2>7. RvTypeOK'
      BY <1>0, <2>1, <2>3, <2>6 DEF RvTypeOK
    <2>8. CachedIsHosted'
      BY <1>0, <2>1 DEF CachedIsHosted
    <2> QED BY <2>5, <2>6, <2>7, <2>8 DEF RvInv
  <1>11. CASE \E x \in Apps : Restart(x)
    <2>1. PICK x \in Apps : Restart(x)
      BY <1>11
    <2>2. /\ nonces' = [nonces EXCEPT ![x] = Nothing] /\ taken' = [taken EXCEPT ![x] = Zero]
          /\ toApp' = [toApp EXCEPT ![x] = <<>>] /\ asks' = <<>> /\ answers' = <<>>
          /\ \/ hosting' = {} /\ cache' = [g \in Groups |-> None]
             \/ UNCHANGED <<hosting, cache>>
          /\ UNCHANGED <<now, updates, members, unlocked, row>>
      BY <2>1 DEF Restart
    <2>3. RvTypeOK'
      <3>1. nonces' \in [Apps -> [Ids -> 0..now \cup {None}]] /\ taken' \in [Apps -> [Ids -> Nat]]
        BY <1>0, <2>2 DEF RvTypeOK, Nothing, Zero
      <3>2. /\ toApp' \in [Apps -> Seq(Message)] /\ asks' \in Seq(Groups)
            /\ answers' \in Seq(Ids \cup {None}) /\ hosting' \subseteq Groups
            /\ cache' \in [Groups -> Ids \cup {None}]
        BY <1>0, <2>2 DEF RvTypeOK
      <3> QED BY <1>0, <2>2, <3>1, <3>2 DEF RvTypeOK
    <2>4. NamesSigned'
      <3>1. \A y \in Apps : toApp'[y] = toApp[y] \/ toApp'[y] = <<>>
        BY <1>0, <2>2
      <3>2. \A g \in Groups : cache'[g] = cache[g] \/ cache'[g] = None
        BY <2>2
      <3> QED BY <1>0, <2>2, <3>1, <3>2 DEF NamesSigned
    <2>5. NotedAfterSigned' /\ AcceptedIsNoted'
      <3>1. \A y \in Apps, i \in Ids :
               \/ nonces'[y][i] = None /\ taken'[y][i] = 0
               \/ nonces'[y][i] = nonces[y][i] /\ taken'[y][i] = taken[y][i]
        BY <1>0, <2>2 DEF RvTypeOK, Nothing, Zero
      <3> QED BY <1>0, <2>2, <3>1 DEF NotedAfterSigned, AcceptedIsNoted
    <2>6. CachedIsHosted'
      BY <1>0, <2>2 DEF CachedIsHosted
    <2> QED BY <2>3, <2>4, <2>5, <2>6 DEF RvInv
  <1>12. CASE Pass
    <2>1. /\ now \in 0..MaxTime /\ now < MaxTime /\ now' = now + 1
          /\ UNCHANGED <<updates, toApp, asks, answers, hosting, cache, members,
                         unlocked, nonces, taken, row>>
      BY <1>0, <1>12 DEF Pass, RvTypeOK
    <2>2. RvTypeOK'
      <3>1. nonces' \in [Apps -> [Ids -> 0..now' \cup {None}]]
        BY <1>0, <2>1 DEF RvTypeOK
      <3> QED BY <1>0, <2>1, <3>1 DEF RvTypeOK
    <2>3. NotedAfterSigned'
      BY <1>0, <2>1 DEF NotedAfterSigned
    <2>4. AcceptedIsNoted'
      <3> SUFFICES ASSUME NEW x \in Apps, NEW i \in Ids, taken[x][i] # 0
                   PROVE  /\ taken[x][i] = 1 /\ i <= Len(updates)
                          /\ nonces[x][i] # None \/ updates[i] + MaxAge < now'
        BY <2>1 DEF AcceptedIsNoted
      <3>1. /\ taken[x][i] = 1 /\ i \in 1..Len(updates)
            /\ nonces[x][i] # None \/ updates[i] + MaxAge < now
        BY <1>0 DEF AcceptedIsNoted, Ids
      <3>2. updates[i] \in Nat
        BY <1>0, <3>1
      <3> QED BY <2>1, <3>1, <3>2
    <2>5. NamesSigned' /\ CachedIsHosted'
      BY <1>0, <2>1 DEF NamesSigned, CachedIsHosted
    <2> QED BY <2>2, <2>3, <2>4, <2>5 DEF RvInv
  <1>13. CASE UNCHANGED rvars
    BY <1>0, <1>13 DEF RvInv, RvTypeOK, NamesSigned, NotedAfterSigned, AcceptedIsNoted,
                       CachedIsHosted, rvars
  <1> QED BY <1>1, <1>2, <1>3, <1>4, <1>5, <1>6, <1>7, <1>8, <1>9, <1>10, <1>11, <1>12,
             <1>13 DEF RNext

\* The rendezvous has its types for any bounds.
THEOREM RendezvousTypes == RSpec => []RvTypeOK
  <1>1. RvInv => RvTypeOK
    BY DEF RvInv
  <1> QED BY <1>1, RvInvInit, RvInvNext, PTL DEF RSpec

\* For every maximum age that the nonces outlive: no device accepts an update
\* twice (verify_endpoint_update(), NonceCache.check_and_add()).
THEOREM RendezvousTakenOnce == RSpec => []TakenOnce
  <1>1. RvInv => TakenOnce
    <2> SUFFICES ASSUME RvInv PROVE TakenOnce
      OBVIOUS
    <2>1. \A x \in Apps, i \in Ids : taken[x][i] = 0 \/ taken[x][i] = 1
      BY DEF RvInv, AcceptedIsNoted
    <2> QED BY <2>1 DEF TakenOnce
  <1> QED BY <1>1, RvInvInit, RvInvNext, PTL DEF RSpec

\* For any groups: nothing is cached for a group that is not hosted
\* (_on_rendezvous_register(), evict_all_for_group()).
THEOREM RendezvousCachedIsHosted == RSpec => []CachedIsHosted
  <1>1. RvInv => CachedIsHosted
    BY DEF RvInv
  <1> QED BY <1>1, RvInvInit, RvInvNext, PTL DEF RSpec
=============================================================================
