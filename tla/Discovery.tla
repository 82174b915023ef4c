----------------------------- MODULE Discovery ------------------------------
(***************************************************************************)
(* How a device keeps its list of peers: the announce, listen and prune    *)
(* loops (core/discovery/broadcast.py), the registry                       *)
(* (core/discovery/registry.py) and mDNS (core/discovery/mdns.py).         *)
(*                                                                         *)
(* An observer and one peer.  Announcements are UDP packets that may be    *)
(* lost; on some networks broadcasts of one of the two never reach the     *)
(* other, which then is heard only through the unicast replies to the      *)
(* other's announcements.  The peer moves between addresses, leaves and    *)
(* comes back.  Time passes in ticks; a packet arrives, if at all, within  *)
(* the tick in which it was sent.                                          *)
(***************************************************************************)
EXTENDS Naturals

CONSTANTS
    Addrs,              \* addresses the peer can have
    Absent,
    Interval,           \* ANNOUNCE_INTERVAL
    PeerTimeout,        \* PEER_TIMEOUT
    Period,             \* PEER_TIMEOUT / 2, the pause of _prune_loop()
    Refresh,            \* MDNS_ANNOUNCE_INTERVAL
    Resolve,            \* RESOLVE_TIMEOUT_MS
    MaxLost             \* packets for one device lost in a row

ASSUME TimesArePositive == {Interval, PeerTimeout, Period} \subseteq Nat \ {0}
ASSUME DelaysType == {Refresh, Resolve, MaxLost} \subseteq Nat
\* 3 s and 10 s: three announcements fit into the timeout.
ASSUME TimeoutCoversLosses == (MaxLost + 1) * Interval <= PeerTimeout

VARIABLES
    online,     \* the peer runs
    addr,       \* its address
    settled,    \* ticks since it last started or moved, up to Noticed + 1
    announce,   \* ticks until the next turn of each _announce_loop()
    prune,      \* ticks until the next turn of _prune_loop() of the observer
    entry,      \* the peer in the registry of the observer, or Absent
    deaf,       \* the device that broadcasts do not reach, or Absent
    lost,       \* packets for each device lost in a row
    wire,       \* packets under way
    record,     \* the address in the peer's mDNS record
    mdns        \* a resolution of the peer's service under way, or Absent

dvars ==
    <<online, addr, settled, announce, prune, entry, deaf, lost, wire, record, mdns>>

Nodes == {"observer", "peer"}
Other(x) == IF x = "peer" THEN "observer" ELSE "peer"

\* By then every device that stays where it is has been heard of there.
Noticed == Refresh + Resolve + (MaxLost + 1) * Interval

Packet == [to : Nodes, addr : Addrs, reply : BOOLEAN]

DTypeOK ==
    /\ online \in BOOLEAN /\ {addr, record} \subseteq Addrs /\ settled \in 0..(Noticed + 1)
    /\ announce \in [Nodes -> 0..Interval] /\ prune \in 0..Period
    /\ entry = Absent \/ entry \in [addr : Addrs, age : 0..(PeerTimeout + Period)]
    /\ deaf \in Nodes \cup {Absent} /\ lost \in [Nodes -> 0..MaxLost]
    /\ wire \subseteq Packet
    /\ mdns = Absent \/ mdns \in [addr : Addrs, left : 0..Resolve]

DInit ==
    /\ online = FALSE /\ addr \in Addrs /\ record = addr /\ settled = 0
    /\ announce = [x \in Nodes |-> 0] /\ prune = 0
    /\ entry = Absent /\ deaf \in Nodes \cup {Absent}
    /\ lost = [x \in Nodes |-> 0]
    /\ wire = {} /\ mdns = Absent

-----------------------------------------------------------------------------
(* The network.                                                            *)

\* A packet for x may be lost, but not for ever; where broadcasts do not reach
\* the other device, the announcements it answers do arrive.
Losable(x) == lost[x] < MaxLost /\ deaf # Other(x)

\* p is sent while the packets in others are under way.
Sends(p, others) ==
    \/ wire' = others \cup {p} /\ lost' = [lost EXCEPT ![p.to] = 0]
    \/ /\ Losable(p.to)
       /\ wire' = others /\ lost' = [lost EXCEPT ![p.to] = @ + 1]

Running(x) == x = "observer" \/ online

-----------------------------------------------------------------------------
(* The loops.                                                              *)

\* _announce_loop() and broadcast_now()
Announce(x) ==
    /\ Running(x) /\ announce[x] = 0
    /\ announce' = [announce EXCEPT ![x] = Interval]
    /\ \/ /\ deaf # Other(x)
          /\ Sends([to |-> Other(x), addr |-> addr, reply |-> TRUE], wire)
       \/ deaf = Other(x) /\ UNCHANGED <<wire, lost>>
    /\ UNCHANGED <<online, addr, settled, prune, entry, deaf, record, mdns>>

\* upsert(): the latest packet decides.
Upsert(a) == [addr |-> a, age |-> 0]

\* _listen_loop() and _handle_packet(): the registry, and a unicast answer that
\* asks for none.
HandlePacket(p) ==
    /\ p \in wire
    /\ entry' = IF p.to = "observer" THEN Upsert(p.addr) ELSE entry
    /\ \/ /\ p.reply /\ Running(p.to)
          /\ Sends([to |-> Other(p.to), addr |-> addr, reply |-> FALSE],
                   wire \ {p})
       \/ /\ ~(p.reply /\ Running(p.to))
          /\ wire' = wire \ {p} /\ UNCHANGED lost
    /\ UNCHANGED <<online, addr, settled, announce, prune, deaf, record, mdns>>

\* Mutant: the boundary counts as silence.
PruneEager ==
    /\ prune = 0 /\ prune' = Period
    /\ entry' = IF entry # Absent /\ entry.age >= PeerTimeout THEN Absent ELSE entry
    /\ UNCHANGED <<online, addr, settled, announce, deaf, lost, wire, record, mdns>>

\* _prune_loop() and prune_stale()
Prune ==
    /\ prune = 0 /\ prune' = Period
    /\ entry' = IF entry # Absent /\ entry.age > PeerTimeout THEN Absent ELSE entry
    /\ UNCHANGED <<online, addr, settled, announce, deaf, lost, wire, record, mdns>>

\* run() of MDNSDiscovery: the record gets the address of the moment.
RefreshRecord ==
    /\ online /\ record # addr /\ record' = addr
    /\ UNCHANGED <<online, addr, settled, announce, prune, entry, deaf, lost, wire, mdns>>

\* The service of the peer is added or updated: _schedule() starts a task that
\* resolves it.
ServiceSeen ==
    /\ online /\ mdns = Absent
    /\ mdns' = [addr |-> record, left |-> Resolve]
    /\ UNCHANGED <<online, addr, settled, announce, prune, entry, deaf, lost, wire, record>>

\* _handle_info(): the resolved address goes through _handle_packet() without
\* an answer, or the resolution times out.
HandleInfo(resolved) ==
    /\ mdns # Absent /\ mdns' = Absent
    /\ entry' = IF resolved THEN Upsert(mdns.addr) ELSE entry
    /\ UNCHANGED <<online, addr, settled, announce, prune, deaf, lost, wire, record>>

-----------------------------------------------------------------------------
(* The peer and the clock.                                                 *)

StartOrStop ==
    /\ online' = ~online /\ settled' = 0
    /\ announce' = [announce EXCEPT !["peer"] = 0]
    /\ record' = IF online THEN record ELSE addr
    /\ UNCHANGED <<addr, prune, entry, deaf, lost, wire, mdns>>

Move(a) ==
    /\ a # addr /\ addr' = a /\ settled' = 0
    /\ UNCHANGED <<online, announce, prune, entry, deaf, lost, wire, record, mdns>>

Due(x) == Running(x) /\ announce[x] = 0

Tick ==
    /\ wire = {} /\ prune > 0 /\ \A x \in Nodes : ~Due(x)
    /\ mdns # Absent => mdns.left > 0
    /\ online /\ settled = Refresh => record = addr
    /\ settled' = IF settled > Noticed THEN settled ELSE settled + 1
    /\ announce' = [x \in Nodes |-> IF announce[x] = 0 THEN 0 ELSE announce[x] - 1]
    /\ prune' = prune - 1
    /\ entry' = IF entry = Absent THEN Absent ELSE [entry EXCEPT !.age = @ + 1]
    /\ mdns' = IF mdns = Absent THEN Absent ELSE [mdns EXCEPT !.left = @ - 1]
    /\ UNCHANGED <<online, addr, deaf, lost, wire, record>>

DNext ==
    \/ \E x \in Nodes : Announce(x)
    \/ \E p \in wire : HandlePacket(p)
    \/ Prune \/ RefreshRecord \/ ServiceSeen
    \/ \E resolved \in BOOLEAN : HandleInfo(resolved)
    \/ StartOrStop \/ \E a \in Addrs : Move(a)
    \/ Tick

DSpec == DInit /\ [][DNext]_dvars

-----------------------------------------------------------------------------
(* Properties.                                                             *)

\* A peer that runs and stays at its address is in the list, at that address,
\* once it has had the time to be heard of, whatever the network lost, however
\* a late mDNS resolution interfered, and also where its broadcasts do not
\* arrive: three announcements fit into PEER_TIMEOUT, and every announcement is
\* answered (_announce_loop(), _handle_packet(), prune_stale()).
\* One that fell silent is gone after PEER_TIMEOUT and one turn of the prune loop
\* (_prune_loop()).
RegistryIsCurrent ==
    /\ online /\ settled > Noticed => entry # Absent /\ entry.addr = addr
    /\ entry # Absent => entry.age <= PeerTimeout + Period
=============================================================================
