----------------------------- MODULE Rendezvous -----------------------------
(***************************************************************************)
(* How a device learns the address of another from signed endpoint         *)
(* updates: sent directly (core/connectivity/endpoint_update.py), or kept  *)
(* by a rendezvous host for the members of a group and looked up there     *)
(* (core/connectivity/rendezvous.py), with the handlers of app/ui/app.py.  *)
(*                                                                         *)
(* A traveller signs updates for its current address.  Two devices are     *)
(* connected to it and to each other: a host, and an asker that stores     *)
(* what it learns (core/connectivity/store.py).  Every connection delivers *)
(* in order and as late as it likes; each device judges an update by its   *)
(* own clock and by the nonces it remembers.  A device may be restarted,   *)
(* which forgets the nonces and the cache, and its vault locked.           *)
(***************************************************************************)
EXTENDS Naturals, Sequences, FiniteSets

CONSTANTS
    GroupList,          \* list_groups() of the traveller
    Revocable,          \* memberships that may be revoked, <<group, device>>
    Lockable,           \* devices whose vault may be locked meanwhile
    None,
    MaxAge,             \* DEFAULT_MAX_AGE_SECONDS
    NonceTTL,           \* ttl of NonceCache
    Ahead,              \* how far the clock of the traveller is ahead
    MaxUpdates,         \* updates the traveller signs
    MaxTime,            \* how long it is looked at
    MaxQueue            \* messages on one connection

ASSUME RendezvousTimes == {MaxAge, NonceTTL, Ahead, MaxUpdates, MaxTime, MaxQueue} \subseteq Nat
\* Both are 300 s, and the clocks agree.
ASSUME NonceOutlivesUpdate == MaxAge + Ahead <= NonceTTL
ASSUME NoneIsNoTime == None \notin Nat

Groups == {GroupList[k] : k \in DOMAIN GroupList}
ASSUME GroupsAreListed == GroupList \in Seq(Groups)

Apps == {"host", "asker"}
Ids == 1..MaxUpdates

VARIABLES
    now,        \* the time on the clocks of host and asker
    updates,    \* timestamps of the updates the traveller has signed, in order
    toApp,      \* messages of the traveller for each device
    asks,       \* groups the asker asks the host about
    answers,    \* answers of the host to the asker
    hosting,    \* _rendezvous_active_groups of the host
    cache,      \* [Groups -> Ids \cup {None}], RendezvousCache
    members,    \* [Groups -> SUBSET {"asker", "traveller"}], as the host has it
    unlocked,   \* the vault of each device is open
    nonces,     \* when each device saw each nonce, or None: NonceCache
    taken,      \* how often each device accepted each update since its start
    row         \* updated_at of the traveller's endpoint at the asker, or None

rvars == <<now, updates, toApp, asks, answers, hosting, cache, members,
           unlocked, nonces, taken, row>>

Message == [kind : {"register"}, group : Groups, id : Ids] \cup
           [kind : {"update"}, id : Ids]

RvTypeOK ==
    /\ now \in 0..MaxTime
    /\ updates \in Seq(Nat) /\ Len(updates) <= MaxUpdates
    /\ toApp \in [Apps -> Seq(Message)]
    /\ asks \in Seq(Groups)
    /\ answers \in Seq(Ids \cup {None})
    /\ hosting \subseteq Groups
    /\ cache \in [Groups -> Ids \cup {None}]
    /\ members \in [Groups -> SUBSET {"asker", "traveller"}]
    /\ unlocked \in [Apps -> BOOLEAN]
    /\ nonces \in [Apps -> [Ids -> 0..now \cup {None}]]
    /\ taken \in [Apps -> [Ids -> Nat]]
    /\ row \in Nat \cup {None}

Nothing == [i \in Ids |-> None]
Zero == [i \in Ids |-> 0]

RInit ==
    /\ now = 0 /\ updates = <<>>
    /\ toApp = [x \in Apps |-> <<>>] /\ asks = <<>> /\ answers = <<>>
    /\ hosting = {} /\ cache = [g \in Groups |-> None]
    /\ members = [g \in Groups |-> {"asker", "traveller"}]
    /\ unlocked = [x \in Apps |-> TRUE]
    /\ nonces = [x \in Apps |-> Nothing] /\ taken = [x \in Apps |-> Zero]
    /\ row = None

-----------------------------------------------------------------------------
(* verify_endpoint_update(): fresh, and not seen before.                   *)

\* age = abs(now - timestamp) <= max_age_seconds
Fresh(i) == now <= updates[i] + MaxAge /\ updates[i] <= now + MaxAge

\* Mutant: a nonce is forgotten when its time is up, not after.
RememberedShort(x, i) == nonces[x][i] # None /\ now < nonces[x][i] + NonceTTL

\* check_and_add() forgets the nonces that are older than the ttl first.
Remembered(x, i) == nonces[x][i] # None /\ now <= nonces[x][i] + NonceTTL

Accepts(x, i) == Fresh(i) /\ ~Remembered(x, i)

\* The nonces of x after update i was judged.
Judged(x, i) ==
    IF ~Fresh(i) THEN nonces
    ELSE [nonces EXCEPT ![x] = [j \in Ids |->
             IF j = i /\ ~Remembered(x, i) THEN now
             ELSE IF Remembered(x, j) THEN nonces[x][j] ELSE None]]

\* x takes update i, or refuses it.
Take(x, i) ==
    /\ nonces' = Judged(x, i)
    /\ taken' = IF Accepts(x, i) THEN [taken EXCEPT ![x][i] = @ + 1] ELSE taken

\* upsert_endpoint()
Stored(i) == updates[i]

-----------------------------------------------------------------------------
(* The traveller.                                                          *)

Signs == /\ Len(updates) < MaxUpdates
         /\ updates' = Append(updates, now + Ahead)

\* _send_self_endpoint_update()
SendSelfEndpointUpdate(x) ==
    /\ Len(toApp[x]) < MaxQueue /\ Signs
    /\ toApp' = [toApp EXCEPT ![x] = Append(@, [kind |-> "update", id |-> Len(updates) + 1])]
    /\ UNCHANGED <<now, asks, answers, hosting, cache, members, unlocked,
                   nonces, taken, row>>

\* _register_with_rendezvous_hosts(): one update, sent for every group.  (The
\* asker hosts nothing and ignores its copies.)
RegisterWithRendezvousHosts ==
    /\ Len(toApp["host"]) < MaxQueue /\ Signs
    /\ toApp' = [toApp EXCEPT !["host"] = @ \o [k \in DOMAIN GroupList |->
            [kind |-> "register", group |-> GroupList[k], id |-> Len(updates) + 1]]]
    /\ UNCHANGED <<now, asks, answers, hosting, cache, members, unlocked,
                   nonces, taken, row>>

-----------------------------------------------------------------------------
(* Messages of the traveller.                                              *)

\* _on_endpoint_update(): the stores are still there while the vault is locked,
\* but detached: the update is judged and then cannot be stored.
OnEndpointUpdate(x) ==
    /\ toApp[x] # <<>> /\ Head(toApp[x]).kind = "update"
    /\ LET i == Head(toApp[x]).id IN
       /\ Take(x, i)
       /\ row' = IF x = "asker" /\ unlocked[x] /\ Accepts(x, i) THEN Stored(i) ELSE row
    /\ toApp' = [toApp EXCEPT ![x] = Tail(@)]
    /\ UNCHANGED <<now, updates, asks, answers, hosting, cache, members, unlocked>>

\* _on_rendezvous_register() and RendezvousCache.register(); a detached store
\* makes the membership check fail.
OnRendezvousRegister ==
    /\ toApp["host"] # <<>> /\ Head(toApp["host"]).kind = "register"
    /\ LET m == Head(toApp["host"])
           served == /\ m.group \in hosting
                     /\ unlocked["host"] /\ "traveller" \in members[m.group]
       IN  /\ IF served THEN Take("host", m.id) ELSE UNCHANGED <<nonces, taken>>
           /\ cache' = IF served /\ Accepts("host", m.id)
                       THEN [cache EXCEPT ![m.group] = m.id] ELSE cache
    /\ toApp' = [toApp EXCEPT !["host"] = Tail(@)]
    /\ UNCHANGED <<now, updates, asks, answers, hosting, members, unlocked, row>>

-----------------------------------------------------------------------------
(* The host and the asker.                                                 *)

\* /group rendezvous <group_id> off, with evict_all_for_group()
RendezvousOff(g) ==
    /\ g \in hosting /\ hosting' = hosting \ {g}
    /\ cache' = [cache EXCEPT ![g] = None]
    /\ UNCHANGED <<now, updates, toApp, asks, answers, members, unlocked,
                   nonces, taken, row>>

\* /group rendezvous <group_id> on
RendezvousOn(g) ==
    /\ unlocked["host"] /\ g \notin hosting /\ hosting' = hosting \cup {g}
    /\ UNCHANGED <<now, updates, toApp, asks, answers, cache, members,
                   unlocked, nonces, taken, row>>

\* /group rendezvous <group_id> find <device_id>
RendezvousFind(g) ==
    /\ unlocked["asker"] /\ Len(asks) < MaxQueue /\ asks' = Append(asks, g)
    /\ UNCHANGED <<now, updates, toApp, answers, hosting, cache, members,
                   unlocked, nonces, taken, row>>

\* _on_rendezvous_lookup() and RendezvousCache.lookup()
OnRendezvousLookup ==
    /\ asks # <<>> /\ Len(answers) < MaxQueue /\ asks' = Tail(asks)
    /\ LET g == Head(asks) IN
       answers' = IF /\ g \in hosting /\ unlocked["host"]
                     /\ {"asker", "traveller"} \subseteq members[g]
                  THEN Append(answers, cache[g]) ELSE answers
    /\ UNCHANGED <<now, updates, toApp, hosting, cache, members, unlocked,
                   nonces, taken, row>>

\* _on_rendezvous_lookup_response(): the asker judges the update itself.
OnRendezvousLookupResponse ==
    /\ answers # <<>> /\ answers' = Tail(answers)
    /\ LET i == Head(answers) IN
       IF i = None \/ ~unlocked["asker"] THEN UNCHANGED <<nonces, taken, row>>
       ELSE /\ Take("asker", i)
            /\ row' = IF Accepts("asker", i) THEN Stored(i) ELSE row
    /\ UNCHANGED <<now, updates, toApp, asks, hosting, cache, members, unlocked>>

\* A membership is revoked in the store of the host.
Revoke(g, d) ==
    /\ <<g, d>> \in Revocable /\ d \in members[g]
    /\ members' = [members EXCEPT ![g] = @ \ {d}]
    /\ UNCHANGED <<now, updates, toApp, asks, answers, hosting, cache,
                   unlocked, nonces, taken, row>>

LockOrUnlock(x) ==
    /\ x \in Lockable /\ unlocked' = [unlocked EXCEPT ![x] = ~@]
    /\ UNCHANGED <<now, updates, toApp, asks, answers, hosting, cache,
                   members, nonces, taken, row>>

\* Nonces, cache and mode live in memory; the connections end.
Restart(x) ==
    /\ nonces' = [nonces EXCEPT ![x] = Nothing]
    /\ taken' = [taken EXCEPT ![x] = Zero]
    /\ toApp' = [toApp EXCEPT ![x] = <<>>]
    /\ asks' = <<>> /\ answers' = <<>>
    /\ hosting' = IF x = "host" THEN {} ELSE hosting
    /\ cache' = IF x = "host" THEN [g \in Groups |-> None] ELSE cache
    /\ UNCHANGED <<now, updates, members, unlocked, row>>

Pass ==
    /\ now < MaxTime /\ now' = now + 1
    /\ UNCHANGED <<updates, toApp, asks, answers, hosting, cache, members,
                   unlocked, nonces, taken, row>>

RNext ==
    \/ \E x \in Apps : \/ SendSelfEndpointUpdate(x) \/ OnEndpointUpdate(x)
                       \/ LockOrUnlock(x) \/ Restart(x)
    \/ RegisterWithRendezvousHosts \/ OnRendezvousRegister
    \/ \E g \in Groups : \/ RendezvousOff(g) \/ RendezvousOn(g) \/ RendezvousFind(g)
                         \/ \E d \in {"asker", "traveller"} : Revoke(g, d)
    \/ OnRendezvousLookup \/ OnRendezvousLookupResponse
    \/ Pass

RSpec == RInit /\ [][RNext]_rvars

-----------------------------------------------------------------------------
(* Properties.                                                             *)

\* A device accepts an update at most once per run of the application, over
\* whatever connection and in whatever order it comes, also when it comes again
\* after its nonce was forgotten: by then it is too old
\* (verify_endpoint_update(), NonceCache.check_and_add()).
TakenOnce == \A x \in Apps, i \in Ids : taken[x][i] <= 1

\* A host keeps updates only for groups it hosts, however registrations and the
\* switch alternate (_on_rendezvous_register(), evict_all_for_group()).
CachedIsHosted == \A g \in Groups : cache[g] # None => g \in hosting
=============================================================================
