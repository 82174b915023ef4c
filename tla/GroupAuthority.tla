--------------------------- MODULE GroupAuthority ---------------------------
(***************************************************************************)
(* Group membership: the group tables of every device                      *)
(* (core/group/store.py), the signed requests, responses, certificates and *)
(* revocations they exchange (core/group/protocol.py, membership.py), and  *)
(* the /group commands and message handlers of the application             *)
(* (app/ui/app.py).  There is one group.                                   *)
(*                                                                         *)
(* Nothing is replicated: each device has its own admins, members, policy  *)
(* and audit log, and learns of the others only what a message tells it.   *)
(* A message is handled in one step; a command is suspended while          *)
(* manager.send() drains, and messages are handled meanwhile.              *)
(*                                                                         *)
(* Every device signs as itself, so a signature is the name of its signer. *)
(***************************************************************************)
EXTENDS Naturals, Sequences, FiniteSets

CONSTANTS
    Devices,
    None,           \* no group, no request, no command
    Faults,         \* subset of {"loss", "lock", "unknown"}
    MaxRequests,    \* bound on join and leave requests
    MaxFaults       \* bound on faults

ASSUME NoneIsNoDevice == None \notin Devices
ASSUME GroupBounds == MaxRequests \in Nat /\ MaxFaults \in Nat

VARIABLES
    store,      \* the group tables of each device
    locked,     \* the vault of the device is locked: the tables are detached
    joins,      \* _pending_join_requests: request of each device, None if none
    leaves,     \* _pending_leave_requests
    sending,    \* the command that is suspended in manager.send()
    chan,       \* messages under way on each connection, in order
    requests,   \* requests made so far
    faults      \* messages not sent, not delivered or dropped so far

awaited == <<joins, leaves>>
gvars == <<store, locked, awaited, sending, chan, requests, faults>>

Request == 1..MaxRequests

GEvent == [type : {"created", "issued", "revoked", "added", "removed", "policy"},
          device : Devices, actor : Devices]

Message ==
    [type : {"join", "leave"}, device : Devices, req : Request]
    \cup [type : {"joined", "left"}, device : Devices, by : Devices,
          approved : BOOLEAN]
    \cup [type : {"revoke"}, device : Devices, by : Devices]

\* A command that has sent its answer and has still to drop the request.
Suspended == [table : {"joins", "leaves"}, device : Devices]

\* The tables groups, group_admins, group_memberships, group_policies and
\* group_audit_log.
Store ==
    [founder : Devices \cup {None},
     admin : [Devices -> {"none", "active", "removed"}],
     member : [Devices -> {"none", "active", "revoked"}],
     leaveAdmin : BOOLEAN,
     audit : SUBSET GEvent]

GTypeOK ==
    /\ store \in [Devices -> Store]
    /\ locked \in [Devices -> BOOLEAN]
    /\ joins \in [Devices -> [Devices -> Request \cup {None}]]
    /\ leaves \in [Devices -> [Devices -> Request \cup {None}]]
    /\ sending \in [Devices -> Suspended \cup {None}]
    /\ chan \in [Devices -> [Devices -> Seq(Message)]]
    /\ requests \in 0..MaxRequests
    /\ faults \in 0..MaxFaults

-----------------------------------------------------------------------------
(* The tables of one device: GroupStore.  An operator that returns a store *)
(* is applied only where its precondition holds; the code raises otherwise.*)

EmptyStore ==
    [founder |-> None,
     admin |-> [x \in Devices |-> "none"],
     member |-> [x \in Devices |-> "none"],
     leaveAdmin |-> FALSE,
     audit |-> {}]

\* is_admin(), get_admin_status() = ACTIVE
IsAdmin(s, x) == s.admin[x] = "active"

\* record_audit_event() at the end of every change.
Audited(s, t, x, by) ==
    [s EXCEPT !.audit = @ \cup {[type |-> t, device |-> x, actor |-> by]}]

\* create_group(): the founder is the first admin.
CreatedGroup(s, f) ==
    Audited([s EXCEPT !.founder = f, !.admin[f] = "active"], "created", f, f)

\* Mutant: a certificate for a revoked member is accepted.
MayRecordAgain(s, x, by) ==
    s.founder # None /\ IsAdmin(s, by) /\ s.member[x] # "active"

\* record_membership() accepts a certificate for x signed by `by`.
MayRecord(s, x, by) ==
    s.founder # None /\ IsAdmin(s, by) /\ s.member[x] = "none"

\* Mutant: the membership is not written to the audit log.
RecordedSilently(s, x, by) == [s EXCEPT !.member[x] = "active"]

\* The insertion of record_membership().
Recorded(s, x, by) ==
    Audited([s EXCEPT !.member[x] = "active"], "issued", x, by)

\* _mark_membership_revoked() finds an active membership.
MayMark(s, x) == s.member[x] = "active"

\* The update of _mark_membership_revoked().
Marked(s, x, by) ==
    Audited([s EXCEPT !.member[x] = "revoked"], "revoked", x, by)

\* record_revocation(): an active admin signed it.
MayRevoke(s, x, by) == IsAdmin(s, by) /\ MayMark(s, x)

\* process_join_response(), after create_group() if the group was unknown.
MayJoin(s, m) == m.approved /\ MayRecord(s, m.device, m.by)

\* process_leave_response()
MayLeave(s, m) == m.approved /\ MayRevoke(s, m.device, m.by)

\* process_leave_request() of the member itself.
MayLeaveAlone(s, x) == MayMark(s, x) /\ ~s.leaveAdmin

\* set_policy()
PolicySet(s, on, by) ==
    Audited([s EXCEPT !.leaveAdmin = on], "policy", by, by)

\* add_admin(): x has no admin record, not even a removed one.
MayAdd(s, x, by) == s.founder # None /\ IsAdmin(s, by) /\ s.admin[x] = "none"
Added(s, x, by) == Audited([s EXCEPT !.admin[x] = "active"], "added", x, by)

\* remove_admin(): x is active and not the last one.
MayRemove(s, x) ==
    IsAdmin(s, x) /\ Cardinality({y \in Devices : IsAdmin(s, y)}) > 1
Removed(s, x, by) == Audited([s EXCEPT !.admin[x] = "removed"], "removed", x, by)

-----------------------------------------------------------------------------
(* Messages: create_join_request() and its companions.                     *)

JoinRequest(d, r) == [type |-> "join", device |-> d, req |-> r]
LeaveRequest(d, r) == [type |-> "leave", device |-> d, req |-> r]
JoinResponse(x, by, ok) ==
    [type |-> "joined", device |-> x, by |-> by, approved |-> ok]
LeaveResponse(x, by, ok) ==
    [type |-> "left", device |-> x, by |-> by, approved |-> ok]
Revocation(x, by) == [type |-> "revoke", device |-> x, by |-> by]

Fault(kind) == kind \in Faults /\ faults < MaxFaults /\ faults' = faults + 1

\* manager.send(): it is on the connection, or there is no connection.
Send(d, to, m) ==
    \/ chan' = [chan EXCEPT ![d][to] = Append(@, m)] /\ UNCHANGED faults
    \/ Fault("loss") /\ UNCHANGED chan

\* The device can take a command: unlocked, and none is suspended.
Ready(d) == ~locked[d] /\ sending[d] = None

Update(d, s) == store' = [store EXCEPT ![d] = s]

-----------------------------------------------------------------------------
(* The /group commands.                                                    *)

\* /group create: the founder is also the first member.  The id of the group
\* may be given, so two devices may found the same group.
Create(d) ==
    /\ Ready(d) /\ store[d].founder = None
    /\ Update(d, Recorded(CreatedGroup(store[d], d), d, d))
    /\ UNCHANGED <<locked, awaited, sending, chan, requests, faults>>

\* /group join, sent to any peer.
Join(d, to) ==
    /\ Ready(d) /\ d # to /\ requests < MaxRequests
    /\ requests' = requests + 1
    /\ Send(d, to, JoinRequest(d, requests + 1))
    /\ UNCHANGED <<store, locked, awaited, sending>>

\* /group approve for a pending request: recorded, then answered.  The
\* request is dropped when send() returns.
Approve(d, x) ==
    /\ Ready(d) /\ joins[d][x] # None
    /\ MayRecord(store[d], x, d)
    /\ Update(d, Recorded(store[d], x, d))
    /\ Send(d, x, JoinResponse(x, d, TRUE))
    /\ sending' = [sending EXCEPT ![d] = [table |-> "joins", device |-> x]]
    /\ UNCHANGED <<locked, awaited, requests>>

\* /group approve without a request: the device is not told.
ApproveUnasked(d, x) ==
    /\ Ready(d) /\ d # x /\ joins[d][x] = None
    /\ MayRecord(store[d], x, d)
    /\ Update(d, Recorded(store[d], x, d))
    /\ UNCHANGED <<locked, awaited, sending, chan, requests, faults>>

\* /group reject
Reject(d, x) ==
    /\ Ready(d) /\ joins[d][x] # None
    /\ Send(d, x, JoinResponse(x, d, FALSE))
    /\ sending' = [sending EXCEPT ![d] = [table |-> "joins", device |-> x]]
    /\ UNCHANGED <<store, locked, awaited, requests>>

\* /group leave: at once, or by asking the first other admin.
Leave(d) ==
    /\ Ready(d) /\ store[d].member[d] # "none"
    /\ \/ /\ MayLeaveAlone(store[d], d)
          /\ Update(d, Marked(store[d], d, d))
          /\ UNCHANGED <<chan, requests, faults>>
       \/ /\ store[d].leaveAdmin /\ requests < MaxRequests
          /\ requests' = requests + 1
          /\ \E a \in Devices \ {d} :
                IsAdmin(store[d], a) /\ Send(d, a, LeaveRequest(d, requests + 1))
          /\ UNCHANGED store
    /\ UNCHANGED <<locked, awaited, sending>>

\* /group approve-leave: revoked here, then answered.
ApproveLeave(d, x) ==
    /\ Ready(d) /\ leaves[d][x] # None
    /\ MayLeave(store[d], LeaveResponse(x, d, TRUE))
    /\ Update(d, Marked(store[d], x, d))
    /\ Send(d, x, LeaveResponse(x, d, TRUE))
    /\ sending' = [sending EXCEPT ![d] = [table |-> "leaves", device |-> x]]
    /\ UNCHANGED <<locked, awaited, requests>>

\* /group reject-leave
RejectLeave(d, x) ==
    /\ Ready(d) /\ leaves[d][x] # None
    /\ Send(d, x, LeaveResponse(x, d, FALSE))
    /\ sending' = [sending EXCEPT ![d] = [table |-> "leaves", device |-> x]]
    /\ UNCHANGED <<store, locked, awaited, requests>>

\* Mutant: the member is told and the revocation is not recorded.
RevokeUnrecorded(d, x) ==
    /\ Ready(d) /\ IsAdmin(store[d], d)
    /\ MayRevoke(store[d], x, d)
    /\ IF x = d THEN UNCHANGED <<chan, faults>> ELSE Send(d, x, Revocation(x, d))
    /\ UNCHANGED <<store, locked, awaited, sending, requests>>

\* Mutant: the member is not told.
RevokeSilently(d, x) ==
    /\ Ready(d) /\ IsAdmin(store[d], d)
    /\ MayRevoke(store[d], x, d)
    /\ Update(d, Marked(store[d], x, d))
    /\ UNCHANGED <<locked, awaited, sending, chan, requests, faults>>

\* /group revoke: recorded, then sent if the device is connected.
Revoke(d, x) ==
    /\ Ready(d) /\ IsAdmin(store[d], d)
    /\ MayRevoke(store[d], x, d)
    /\ Update(d, Marked(store[d], x, d))
    /\ IF x = d THEN UNCHANGED <<chan, faults>> ELSE Send(d, x, Revocation(x, d))
    /\ UNCHANGED <<locked, awaited, sending, requests>>

\* /group addadmin
AddAdmin(d, x) ==
    /\ Ready(d) /\ IsAdmin(store[d], d)
    /\ MayAdd(store[d], x, d)
    /\ Update(d, Added(store[d], x, d))
    /\ UNCHANGED <<locked, awaited, sending, chan, requests, faults>>

\* GroupStore.remove_admin(), of which the application has no command.
RemoveAdmin(d, x) ==
    /\ Ready(d) /\ IsAdmin(store[d], d)
    /\ MayRemove(store[d], x)
    /\ Update(d, Removed(store[d], x, d))
    /\ UNCHANGED <<locked, awaited, sending, chan, requests, faults>>

\* /group policy leave_requires_admin=...
SetPolicy(d, on) ==
    /\ Ready(d) /\ IsAdmin(store[d], d) /\ store[d].leaveAdmin # on
    /\ Update(d, PolicySet(store[d], on, d))
    /\ UNCHANGED <<locked, awaited, sending, chan, requests, faults>>

\* send() returns: whatever request the device has by now is dropped.
SendReturns(d) ==
    /\ sending[d] # None
    /\ LET t == sending[d]
       IN  /\ joins' = IF t.table = "joins"
                       THEN [joins EXCEPT ![d][t.device] = None] ELSE joins
           /\ leaves' = IF t.table = "leaves"
                        THEN [leaves EXCEPT ![d][t.device] = None] ELSE leaves
    /\ sending' = [sending EXCEPT ![d] = None]
    /\ UNCHANGED <<store, locked, chan, requests, faults>>

-----------------------------------------------------------------------------
(* The message handlers.  While the vault is locked the tables raise and   *)
(* the message is gone.                                                    *)

Arrives(from, d, t) ==
    /\ chan[from][d] # << >> /\ Head(chan[from][d]).type = t
    /\ chan' = [chan EXCEPT ![from][d] = Tail(@)]

\* _on_group_join_request(): only an admin keeps it; a later request of the
\* same device replaces an earlier one.
OnJoinRequest(from, d) ==
    /\ Arrives(from, d, "join") /\ ~locked[d]
    /\ LET m == Head(chan[from][d])
       IN  joins' = IF IsAdmin(store[d], d)
                    THEN [joins EXCEPT ![d][m.device] = m.req] ELSE joins
    /\ UNCHANGED <<store, locked, leaves, sending, requests, faults>>

\* An unknown group is created with the admin that answers as its founder.
Anchored(s, m) ==
    IF s.founder = None /\ m.approved THEN CreatedGroup(s, m.by) ELSE s

\* _on_group_join_response().  The key of the admin may be unknown.
OnJoinResponse(from, d) ==
    /\ Arrives(from, d, "joined") /\ ~locked[d]
    /\ LET m == Head(chan[from][d])
           s == Anchored(store[d], m)
       IN  \/ /\ Update(d, IF MayJoin(s, m) THEN Recorded(s, m.device, m.by) ELSE s)
              /\ UNCHANGED faults
           \/ store[d].founder = None /\ Fault("unknown") /\ UNCHANGED store
    /\ UNCHANGED <<locked, awaited, sending, requests>>

\* _on_group_leave_request()
OnLeaveRequest(from, d) ==
    /\ Arrives(from, d, "leave") /\ ~locked[d]
    /\ LET m == Head(chan[from][d])
       IN  leaves' = IF IsAdmin(store[d], d)
                     THEN [leaves EXCEPT ![d][m.device] = m.req] ELSE leaves
    /\ UNCHANGED <<store, locked, joins, sending, requests, faults>>

\* _on_group_leave_response()
OnLeaveResponse(from, d) ==
    /\ Arrives(from, d, "left") /\ ~locked[d]
    /\ LET m == Head(chan[from][d])
           s == store[d]
       IN  Update(d, IF MayLeave(s, m) THEN Marked(s, m.device, m.by) ELSE s)
    /\ UNCHANGED <<locked, awaited, sending, requests, faults>>

\* _on_group_membership_revoke()
OnMembershipRevoke(from, d) ==
    /\ Arrives(from, d, "revoke") /\ ~locked[d]
    /\ LET m == Head(chan[from][d])
           s == store[d]
       IN  Update(d, IF MayRevoke(s, m.device, m.by)
                     THEN Marked(s, m.device, m.by) ELSE s)
    /\ UNCHANGED <<locked, awaited, sending, requests, faults>>

\* A message reaches a locked device.
OnLocked(from, d) ==
    /\ locked[d] /\ chan[from][d] # << >>
    /\ chan' = [chan EXCEPT ![from][d] = Tail(@)]
    /\ faults < MaxFaults /\ faults' = faults + 1
    /\ UNCHANGED <<store, locked, awaited, sending, requests>>

\* The connection is lost with everything under way.
Disconnect(d, e) ==
    /\ Fault("loss")
    /\ chan[d][e] # << >> \/ chan[e][d] # << >>
    /\ chan' = [chan EXCEPT ![d][e] = << >>, ![e][d] = << >>]
    /\ UNCHANGED <<store, locked, awaited, sending, requests>>

\* The vault is locked or unlocked: adopt_conn().
Lock(d) ==
    /\ "lock" \in Faults /\ (locked[d] \/ faults < MaxFaults)
    /\ locked' = [locked EXCEPT ![d] = ~@]
    /\ UNCHANGED <<store, awaited, sending, chan, requests, faults>>

-----------------------------------------------------------------------------

GInit ==
    /\ store = [d \in Devices |-> EmptyStore]
    /\ locked = [d \in Devices |-> FALSE]
    /\ joins = [d \in Devices |-> [x \in Devices |-> None]]
    /\ leaves = [d \in Devices |-> [x \in Devices |-> None]]
    /\ sending = [d \in Devices |-> None]
    /\ chan = [d \in Devices |-> [e \in Devices |-> << >>]]
    /\ requests = 0
    /\ faults = 0

CommandStep(d) ==
    \/ Create(d) \/ Leave(d)
    \/ \E on \in BOOLEAN : SetPolicy(d, on)
    \/ \E x \in Devices :
          \/ Join(d, x) \/ Approve(d, x) \/ ApproveUnasked(d, x) \/ Reject(d, x)
          \/ ApproveLeave(d, x) \/ RejectLeave(d, x) \/ Revoke(d, x)
          \/ AddAdmin(d, x) \/ RemoveAdmin(d, x)

Handle(from, d) ==
    \/ OnJoinRequest(from, d) \/ OnJoinResponse(from, d)
    \/ OnLeaveRequest(from, d) \/ OnLeaveResponse(from, d)
    \/ OnMembershipRevoke(from, d) \/ OnLocked(from, d)

GNext ==
    \/ \E d \in Devices : CommandStep(d) \/ SendReturns(d) \/ Lock(d)
    \/ \E d, e \in Devices : Handle(d, e) \/ Disconnect(d, e)

GSpec == GInit /\ [][GNext]_gvars

\* A connection delivers what it carries, and send() returns.
GFairness ==
    /\ \A d \in Devices : WF_gvars(SendReturns(d))
    /\ \A d, e \in Devices : WF_gvars(Handle(d, e))

-----------------------------------------------------------------------------
(* Properties.                                                             *)

\* A group that a device knows has an active admin in its tables, whatever
\* is added and removed (remove_admin()).
AlwaysAnAdmin ==
    \A d \in Devices : store[d].founder # None =>
        \E x \in Devices : IsAdmin(store[d], x)

\* A revoked membership stays revoked and a removed admin removed: a
\* certificate that is approved or delivered later does not bring it back
\* (record_membership(), add_admin()).
TombstonesStay ==
    [][\A d, x \in Devices :
         /\ store[d].member[x] = "revoked" => store'[d].member[x] = "revoked"
         /\ store[d].admin[x] = "removed" => store'[d].admin[x] = "removed"]_gvars

\* What the audit log of a device attributes to another device is in the log
\* of that device: no device records a founding, a membership or a revocation
\* that its admin did not record first, whatever is lost or reordered
\* (process_join_response(), record_revocation()).
AttributionHolds ==
    \A d \in Devices : \A e \in store[d].audit : e \in store[e.actor].audit

\* The audit log of a device explains its tables: there is a record of every
\* membership and of every revocation, and of each only one
\* (record_audit_event()).
AuditExplains ==
    \A d, x \in Devices :
        LET Of(t) == {e \in store[d].audit : e.type = t /\ e.device = x}
        IN  /\ Cardinality(Of("issued")) = IF store[d].member[x] = "none" THEN 0 ELSE 1
            /\ Cardinality(Of("revoked")) = IF store[d].member[x] = "revoked" THEN 1 ELSE 0

\* A member that has the certificate of an admin hears of its revocation by
\* that admin, if no message is lost (_handle_group_revoke(),
\* _handle_group_approve_leave()).
RevocationArrives ==
    [](faults = 0 /\ \A d \in Devices : ~locked[d]) =>
        \A d, x \in Devices :
            (/\ store[d].member[x] = "revoked" /\ store[x].member[x] = "active"
             /\ [type |-> "issued", device |-> x, actor |-> d] \in store[x].audit)
                ~> (store[x].member[x] = "revoked")

=============================================================================
