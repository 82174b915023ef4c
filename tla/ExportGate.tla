----------------------------- MODULE ExportGate -----------------------------
(***************************************************************************)
(* Export capabilities: their issue and delivery (core/group/              *)
(* export_auth.py, the export commands and handlers of app/ui/app.py),     *)
(* their table (core/group/store.py) and the gate that consumes them,      *)
(* PolicyEnforcer.check_export() (core/group/policy.py).                   *)
(*                                                                         *)
(* Admin tables and policies are local to a device and only an admin of    *)
(* its own table can change them, so the groups that restrict the exports  *)
(* of a device are ones it created, and it issues the capabilities for     *)
(* them itself.  In a group it joined its admin is the device it joined,   *)
(* which it asks for capabilities over the network.                        *)
(***************************************************************************)
EXTENDS Naturals, Sequences, SequencesExt

CONSTANTS
    SecureIds,      \* secure ids
    Wildcard,       \* the file id "*"
    Own,            \* groups the device created, as list_groups() orders them
    Joined,         \* a group it joined
    Self,           \* the device
    Second,         \* a device it can make admin of its own groups
    Host,           \* the admin of Joined
    Unset,          \* no keys yet
    TTLs,           \* lives of capabilities an admin can ask for
    MaxTime, MaxCaps, MaxCopies    \* bounds

ASSUME WildcardIsNoFile == Wildcard \notin SecureIds
ASSUME DistinctGroups == Joined \notin ToSet(Own)
ASSUME DistinctDevices == Self # Second /\ Self # Host /\ Second # Host
ASSUME GateBounds == {MaxTime, MaxCaps, MaxCopies} \cup TTLs \subseteq Nat

VARIABLES
    restrict,   \* groups whose policy says allow_export = False
    admins,     \* active admins of each group in the table of the device
    caps,       \* its export_capabilities
    asked,      \* _pending_export_requests of the host, oldest key first
    wire,       \* capabilities under way from the host, oldest first
    issued,     \* capabilities issued so far
    copies,     \* exports made while a group restricts them: the file and the
                \* capabilities burned
    now         \* the clock

evars == <<restrict, admins, caps, asked, wire, issued, copies, now>>

OwnGroups == ToSet(Own)
Groups == OwnGroups \cup {Joined}
FileIds == SecureIds \cup {Wildcard}
Capability == [id : 1..MaxCaps, group : Groups, file : FileIds,
               by : {Self, Host}, expires : Nat]

EGTypeOK ==
    /\ restrict \subseteq OwnGroups
    /\ admins \in [Groups -> SUBSET {Self, Second, Host}]
    /\ \A g \in Groups : admins[g] # {}
    /\ \A r \in caps : /\ r.cap \in Capability /\ r.used \in BOOLEAN
                       /\ \A o \in caps : o.cap.id = r.cap.id => o = r
    /\ IsInjective(asked) /\ ToSet(asked) \subseteq SecureIds
    /\ \A m \in ToSet(wire) : m \in Capability
    /\ issued \in 0..MaxCaps
    /\ \A i \in DOMAIN copies : /\ copies[i].file \in SecureIds
                                /\ copies[i].burned \subseteq 1..issued
    /\ now \in 0..MaxTime

EInit ==
    /\ restrict = {}
    /\ admins = [g \in Groups |-> IF g = Joined THEN {Host} ELSE {Self}]
    /\ caps = {} /\ asked = << >> /\ wire = << >>
    /\ issued = 0 /\ copies = << >> /\ now = 0

-----------------------------------------------------------------------------
(* Capabilities and their table.                                           *)

\* is_expired()
Expired(c) == now >= c.expires

\* verify_export_capability() with the keys of a set of devices.
Verified(c, keys) == ~Expired(c) /\ c.by \in keys

\* issue_export_capability()
Issue(by, g, f, ttl) ==
    [id |-> issued + 1, group |-> g, file |-> f, by |-> by, expires |-> now + ttl]

\* store_capability() accepts c.
Storable(c) == ~Expired(c) /\ Verified(c, admins[c.group])

\* INSERT OR REPLACE: an older row of the same capability is gone, and with it
\* the mark that it was used.
Stored(c) == {r \in caps : r.cap.id # c.id} \cup {[cap |-> c, used |-> FALSE]}

\* The rows get_valid_capability() selects from; the device issues capabilities
\* for its own groups to itself.
Valid(g, f) == {r \in caps : /\ r.cap.group = g /\ r.cap.file \in {f, Wildcard}
                             /\ ~r.used /\ ~Expired(r.cap)}

\* get_valid_capability(): the one that expires last; SQL leaves ties open.
Newest(g, f) ==
    {r.cap : r \in {r \in Valid(g, f) :
                      \A o \in Valid(g, f) : r.cap.expires >= o.cap.expires}}

\* Mutant: the mark is not written.
BurnedNone(ids) == caps

\* mark_capability_used()
Burned(ids) == {IF r.cap.id \in ids THEN [r EXCEPT !.used = TRUE] ELSE r : r \in caps}

-----------------------------------------------------------------------------
(* The gate.                                                               *)

Keys(st, g) == IF st.keys = Unset THEN admins[g] ELSE st.keys

\* Mutant: a group without a capability is passed over.
PassWithout(st, g, c) ==
    IF c = Unset THEN st
    ELSE IF Verified(c, Keys(st, g))
    THEN [st EXCEPT !.keys = Keys(st, g), !.burned = @ \cup {c.id}]
    ELSE [st EXCEPT !.keys = Keys(st, g), !.ok = FALSE]

\* One restricting group in the loop of check_export(), with the capability
\* that was found for it.  The admin keys are fetched for the first group that
\* has one and kept for the groups after it.
Pass(st, g, c) ==
    IF c = Unset THEN [st EXCEPT !.ok = FALSE]
    ELSE IF Verified(c, Keys(st, g))
    THEN [st EXCEPT !.keys = Keys(st, g), !.burned = @ \cup {c.id}]
    ELSE [st EXCEPT !.keys = Keys(st, g), !.ok = FALSE]

\* What get_valid_capability() may return for each group.
Lookups(f) ==
    {l \in [OwnGroups -> UNION {Newest(g, f) : g \in OwnGroups} \cup {Unset}] :
        \A g \in OwnGroups : IF Valid(g, f) = {} THEN l[g] = Unset
                             ELSE l[g] \in Newest(g, f)}

\* check_export(): stops at the first group that denies.
CheckExport(l) ==
    FoldLeft(LAMBDA st, g : IF st.ok /\ g \in restrict THEN Pass(st, g, l[g]) ELSE st,
             [ok |-> TRUE, keys |-> Unset, burned |-> {}], Own)

\* Mutant: the gate is asked after the copy was made.
ExportUngated(f, authorized) ==
    /\ Len(copies) < MaxCopies
    /\ \E l \in Lookups(f) :
          LET r == CheckExport(l)
          IN  /\ caps' = Burned(r.burned)
              /\ copies' = IF authorized /\ restrict # {}
                           THEN Append(copies, [file |-> f, burned |-> r.burned])
                           ELSE copies
    /\ UNCHANGED <<restrict, admins, asked, wire, issued, now>>

\* export_secure_file(): the group gate, then the personal one.  What the gate
\* burned stays burned if a later group or authorize_export() refuses.
Export(f, authorized) ==
    /\ Len(copies) < MaxCopies
    /\ \E l \in Lookups(f) :
          LET r == CheckExport(l)
          IN  /\ caps' = Burned(r.burned)
              /\ copies' = IF r.ok /\ authorized /\ restrict # {}
                           THEN Append(copies, [file |-> f, burned |-> r.burned])
                           ELSE copies
    /\ UNCHANGED <<restrict, admins, asked, wire, issued, now>>

-----------------------------------------------------------------------------
(* The commands of the device.                                             *)

\* /group policy ... allow_export, by an admin.
SetExportPolicy(g) ==
    /\ Self \in admins[g]
    /\ restrict' = IF g \in restrict THEN restrict \ {g} ELSE restrict \cup {g}
    /\ UNCHANGED <<admins, caps, asked, wire, issued, copies, now>>

\* /group add-admin, and remove_admin() of the founder once there is another
\* admin; the application has no command for the latter.
ChangeAdmins(g) ==
    /\ Self \in admins[g]
    /\ \/ admins[g] = {Self} /\ admins' = [admins EXCEPT ![g] = {Self, Second}]
       \/ admins[g] = {Self, Second} /\ admins' = [admins EXCEPT ![g] = {Second}]
    /\ UNCHANGED <<restrict, caps, asked, wire, issued, copies, now>>

\* /group authorize-export of the device for itself: nothing is pending, so
\* the file is the one named.
AuthorizeOwn(g, f, ttl) ==
    /\ issued < MaxCaps /\ Self \in admins[g] /\ Storable(Issue(Self, g, f, ttl))
    /\ caps' = Stored(Issue(Self, g, f, ttl))
    /\ issued' = issued + 1
    /\ UNCHANGED <<restrict, admins, asked, wire, copies, now>>

\* /group req-export for the joined group, and _on_group_export_request() of
\* the host: a dict keeps the place of a key that is set again.
RequestExport(f) ==
    /\ asked' = IF Contains(asked, f) THEN asked ELSE Append(asked, f)
    /\ UNCHANGED <<restrict, admins, caps, wire, issued, copies, now>>

\* /group authorize-export of the host.  If anything of the device is pending
\* in the group, the oldest request is authorized, whatever file was named.
AuthorizeExport(f, ttl) ==
    /\ issued < MaxCaps
    /\ LET c == Issue(Host, Joined, IF asked = << >> THEN f ELSE Head(asked), ttl)
       IN  wire' = Append(wire, c)
    /\ asked' = IF asked = << >> THEN asked ELSE Tail(asked)
    /\ issued' = issued + 1
    /\ UNCHANGED <<restrict, admins, caps, copies, now>>

\* _on_group_export_capability(); on a locked vault store_capability() raises.
OnExportCapability(unlocked) ==
    /\ wire # << >>
    /\ wire' = Tail(wire)
    /\ caps' = IF unlocked /\ Storable(Head(wire)) THEN Stored(Head(wire)) ELSE caps
    /\ UNCHANGED <<restrict, admins, asked, issued, copies, now>>

Tick ==
    /\ now < MaxTime /\ now' = now + 1
    /\ UNCHANGED <<restrict, admins, caps, asked, wire, issued, copies>>

ENext ==
    \/ \E g \in OwnGroups : SetExportPolicy(g) \/ ChangeAdmins(g)
    \/ \E g \in OwnGroups, f \in FileIds, ttl \in TTLs : AuthorizeOwn(g, f, ttl)
    \/ \E f \in SecureIds : RequestExport(f)
    \/ \E f \in FileIds, ttl \in TTLs : AuthorizeExport(f, ttl)
    \/ \E unlocked \in BOOLEAN : OnExportCapability(unlocked)
    \/ \E f \in SecureIds, authorized \in BOOLEAN : Export(f, authorized)
    \/ Tick

ESpec == EInit /\ [][ENext]_evars

-----------------------------------------------------------------------------
(* Properties.                                                             *)

\* A capability is good for one copy, although storing it again would clear
\* the mark that it was used (mark_capability_used(), store_capability()).
OneCopyPerCapability ==
    \A i, j \in DOMAIN copies : i # j => copies[i].burned \cap copies[j].burned = {}

\* A copy is let through only with a live, unused capability for that file of
\* every group that restricts exports, and exactly those are burned for it
\* (export_secure_file(), check_export()).
EveryGroupAgreed ==
    [][copies' # copies =>
         LET c == copies'[Len(copies')]
         IN  /\ \A g \in restrict : \E r \in Valid(g, c.file) : r.cap.id \in c.burned
             /\ \A r \in caps : r.cap.id \in c.burned =>
                   /\ r \in Valid(r.cap.group, c.file)
                   /\ r.cap.group \in restrict]_evars

\* An export that every restricting group has granted goes through: while no
\* signer has been removed, the gate passes whenever each of them has a live
\* capability, whatever else is in the table (check_export(),
\* get_valid_capability()).
GrantedPasses ==
    (\A r \in caps : r.cap.by \in admins[r.cap.group]) =>
        \A f \in SecureIds : \A l \in Lookups(f) :
            (\A g \in restrict : Valid(g, f) # {}) <=> CheckExport(l).ok
=============================================================================
